--------------------------- MODULE MCConfigService ---------------------------
(* Instances for TLC: what is compiled, with which plugins, and which names   *)
(* share a hash.                                                              *)
EXTENDS ConfigService, ConfigProjects

MCProjects ==
  [playback |-> GoodPreset, mic |-> Mic, forked |-> Forked, fx |-> CustomFx, unpacked |-> Unpacked, dangling |-> Dangling,
   unknown_uuid |-> UnknownUuid, bad_preset |-> BadPreset, clash |-> Clash]

Plugin(usable, types) == [usable |-> usable, types |-> types]
MCPlugins ==
  [builtin |-> Plugin(TRUE, Builtin), broken |-> Plugin(FALSE, <<>>),
   twice |-> Plugin(TRUE, <<[type |-> "fx.custom", kind |-> "builtin"], [type |-> "delay.line", kind |-> "sof"]>>),
   custom |-> Plugin(TRUE, <<[type |-> "fx.echo", kind |-> "builtin"]>>)]
MCRequests ==
  {[plugins |-> <<>>, tplg |-> TRUE], [plugins |-> <<>>, tplg |-> FALSE],
   [plugins |-> <<"custom", "custom">>, tplg |-> FALSE], [plugins |-> <<"twice">>, tplg |-> TRUE],
   [plugins |-> <<"custom", "broken">>, tplg |-> TRUE]}
=============================================================================

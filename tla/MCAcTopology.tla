---------------------------- MODULE MCAcTopology ----------------------------
(* Instances for TLC: files of projects of the config service, one with more *)
(* inputs at a mixer than the loader can take, one for a DAI the loader does *)
(* not know, and files cut off in a list, a widget or a control.             *)
EXTENDS AcTopology, ConfigProjects

ManyInputs == Project(<<Pipeline("WIDE", "playback", <<>>,
  PlayNodes \o <<Module("REMAP", "REMAP0"), Module("MIX", "MIX0")>>,
  <<Edge("HOST", "DELAY"), Edge("HOST", "VOL"), Edge("HOST", "REMAP"), Edge("DELAY", "MIX"),
    Edge("VOL", "MIX"), Edge("REMAP", "MIX"), Edge("MIX", "DAI")>>)>>)
OtherDai == [Mic EXCEPT !.pipelines[1].ports[1].hw.transport = "qtdm"]
MCProjects == [mic |-> Mic, forked |-> Forked, fx |-> CustomFx,
               wide |-> ManyInputs, qtdm |-> OtherDai]

Bytes(name, data) == [name |-> <<name>>, kind |-> "bytes", data |-> data, torn |-> FALSE]
Raw(name, type, stream, controls) ==
  [name |-> <<name>>, type |-> type, stream |-> stream, tuples |-> <<Tuple("periods", 2)>>,
   controls |-> controls, torn |-> FALSE]
Caps1 == <<"Caps">>
HandWidgets ==
  <<Raw("SCHED", "scheduler", Nil, <<>>), Raw("HOST", "aif_in", Caps1, <<>>),
    Raw("FX", "effect", Nil, <<Bytes("A", "a"), Bytes("B", "b")>>)>>
Hand(widgets, routes) ==
  <<Whole("control", 0, <<[name |-> <<"LONE">>, kind |-> "mixer", data |-> Nil, torn |-> FALSE]>>),
    Whole("widget", 1, widgets),
    Whole("graph", 0, routes), Whole("dai", 0, <<[private |-> FALSE, torn |-> FALSE]>>),
    Whole("pcm", 0, <<[playback |-> Caps1, capture |-> Nil, channels |-> 4, private |-> FALSE, torn |-> FALSE]>>)>>
HandRoutes == <<RawRoute(<<<<"FX">>, <<"HOST">>>>)>>
Whole1 == Hand(HandWidgets, HandRoutes)
Looping == Hand(HandWidgets \o <<Raw("BUF", "buffer", Nil, <<>>)>>,
                HandRoutes \o <<RawRoute(<<<<"FX">>, <<"BUF">>>>), RawRoute(<<<<"BUF">>, <<"BUF">>>>)>>)
MCOtherFiles ==
  [hand |-> Whole1, looping |-> Looping,
   torn_tuple |-> [Whole1 EXCEPT ![2].items[3].tuples = Append(@, [Tuple("uuid", 0) EXCEPT !.torn = TRUE])],
   torn_control |-> [Whole1 EXCEPT ![2].items[3].controls[2].torn = TRUE],
   torn_route |-> [Whole1 EXCEPT ![3].items[1].torn = TRUE],
   bad_payload |-> [Whole1 EXCEPT ![2].items[3].controls[1].data = BadHeader],
   no_scheduler |-> [Whole1 EXCEPT ![2].items = Tail(@)]]
MCWanted == {[id |-> 2, name |-> Nil], [id |-> Nil, name |-> <<"SCHED">>], [id |-> Nil, name |-> Nil]}
MCFailingAllocs == {0} \cup 1..6 \cup {10, 17}
=============================================================================

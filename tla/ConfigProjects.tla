---------------------------- MODULE ConfigProjects ----------------------------
(* Projects for the topology compiler and the loader, built like the platform *)
(* files under src/configs: a playback pipeline between a host and a DAI      *)
(* module, a capture pipeline between ports declared in the project, two      *)
(* pipelines with a fork and a join, and projects wrong in one place each.    *)
EXTENDS ConfigIr

Param(id, vtype, running, default) == [id |-> id, vtype |-> vtype, running |-> running, default |-> default]
Type(id, params) == [id |-> id, class |-> "", uuid |-> Nil, params |-> params]
Adapter(id, params) == [Type(id, params) EXCEPT !.class = "MODULE_ADAPTER", !.uuid = "uuid"]
Catalog == <<
  Type("builtin.host", <<Param("stream_name", "string", FALSE, "")>>), Type("builtin.dai", <<>>),
  Type("delay.line", <<Param("delay_ms", "float", TRUE, "d1"), Param("max_delay_ms", "uint16", TRUE, "d2")>>),
  Type("filter.channel_remap", <<Param("layout", "enum", TRUE, "stereo")>>),
  Type("gain.volume", <<Param("volume_db", "float", TRUE, "g"), Param("mute", "bool", TRUE, "off")>>),
  Adapter("fx.custom", <<Param("table", "bytes", TRUE, "t"), Param("mode", "enum", FALSE, "m")>>),
  Type("mix.mixer", <<>>)>>

Caps(channels, bits) == [channels |-> channels, bits |-> bits]
End(id, role, stream, link, transport, index) ==
  [id |-> id, role |-> role, stream |-> stream, link |-> link, transport |-> transport,
   index |-> index, caps |-> Caps(2, 16)]
Inst(id, type, endpoint) == [id |-> id, type |-> type, endpoint |-> endpoint]
PlayHost == Inst("PLAY_HOST", "builtin.host", End("PLAY_HOST", "source", <<"Play PCM">>, Nil, Nil, Nil))
PlayDai == Inst("PLAY_DAI", "builtin.dai", End("PLAY_DAI", "sink", Nil, <<"FileIO0">>, "file_io", 1))
Instances == <<PlayHost, PlayDai, Inst("DELAY0", "delay.line", Nil),
               Inst("REMAP0", "filter.channel_remap", Nil), Inst("VOL0", "gain.volume", Nil),
               Inst("MIX0", "mix.mixer", Nil), Inst("FX0", "fx.custom", Nil)>>

Timer == [runtime_period |-> Nil, sof_period |-> Nil, block_ms |-> 4, core_ref |-> "core0",
          sof_core |-> Nil, clock |-> "timer"]
Module(id, inst) == [id |-> id, kind |-> "module", ref |-> inst, type |-> Nil]
PortNode(id, port) == [id |-> id, kind |-> "port", ref |-> port, type |-> Nil]
Edge(from, to) == [from |-> from, to |-> to]
Pipeline(id, domain, ports, nodes, edges) ==
  [id |-> id, name |-> <<id, "PCM">>, domain |-> domain, rate |-> 48000, sched |-> Timer,
   ports |-> ports, nodes |-> nodes, edges |-> edges]
Port(id, role, ref, hw) ==
  [id |-> id, role |-> role, ref |-> ref, hw |-> hw, index |-> Nil, stream |-> Nil, caps |-> Caps(Nil, Nil)]
Project(pipelines) ==
  [imported |-> Catalog, types |-> <<>>, insts |-> Instances, cores |-> <<[id |-> "core0", core |-> 0]>>,
   endpoints |-> <<End("CAP_PCM", "sink", <<"Cap PCM">>, Nil, Nil, Nil)>>,
   pipelines |-> pipelines, presets |-> <<>>]

PlayNodes == <<Module("HOST", "PLAY_HOST"), Module("DELAY", "DELAY0"), Module("VOL", "VOL0"),
               Module("DAI", "PLAY_DAI")>>
Play(edges) == Pipeline("PLAY", "playback", <<>>, PlayNodes, edges)
Chain == <<Edge("HOST", "DELAY"), Edge("DELAY", "VOL"), Edge("VOL", "DAI")>>
Playback == Project(<<Play(Chain)>>)
Mic == Project(<<Pipeline("CAP", "capture",
  <<Port("mic", "source", Nil, [transport |-> "i2s", channels |-> 4, bits |-> Nil]),
    Port("pcm", "sink", "CAP_PCM", Nil)>>,
  <<PortNode("DAI", "mic"), Module("REMAP", "REMAP0"), PortNode("HOST", "pcm")>>,
  <<Edge("DAI", "REMAP"), Edge("REMAP", "HOST")>>)>>)
Forked == Project(<<
  Pipeline("PLAY", "playback", <<>>, PlayNodes \o <<Module("MIX", "MIX0")>>,
           <<Edge("HOST", "DELAY"), Edge("HOST", "VOL"), Edge("DELAY", "MIX"), Edge("VOL", "MIX"),
             Edge("MIX", "DAI")>>),
  Pipeline("ECHO", "playback", <<>>, PlayNodes, Chain)>>)
Dangling == Project(<<Play(Append(Chain, Edge("VOL", "METER")))>>)

ChangeType(p, i, type) == [p EXCEPT !.imported[i] = type]
CustomFx == Project(<<Pipeline("FX", "playback", <<>>,
  <<Module("HOST", "PLAY_HOST"), Module("FX", "FX0"), Module("DAI", "PLAY_DAI")>>,
  <<Edge("HOST", "FX"), Edge("FX", "DAI")>>)>>)
Unpacked == ChangeType(CustomFx, 6, [Catalog[6] EXCEPT !.params[1].default = "invalid"])
UnknownUuid ==
  [ChangeType(CustomFx, 6, Type("vavs.aec", <<>>)) EXCEPT !.insts[7].type = "vavs.aec"]
BadPreset ==
  [Playback EXCEPT !.presets = <<[id |-> "loud", entries |-> <<[pipeline |-> "PLAY", node |-> "HOST_2", valid |-> TRUE]>>]>>]
GoodPreset ==
  [Playback EXCEPT !.presets = <<[id |-> "loud", entries |-> <<[pipeline |-> "PLAY", node |-> "VOL", valid |-> TRUE]>>]>>]
Clash == Project(<<Pipeline("CLASH", "playback", <<>>, PlayNodes, Chain)>>)
MCColliding == {<<"control", <<<<"CLASH", "DELAY", "delay.line", "delay_ms">>>>>>,
                <<"control", <<<<"CLASH", "VOL", "gain.volume", "volume_db">>>>>>}
=============================================================================

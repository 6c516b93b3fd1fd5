--------------------------- MODULE MCGuiProject ---------------------------
(* A project with a playback and a capture pipeline, each with a HOST and  *)
(* a DAI, a preset value for each, and the snapshots of a frontend that    *)
(* shows one of them, both, or one with an algorithm added.                *)
EXTENDS GuiProject, TLC

Inst(i, t) == [id |-> i, type |-> t]
Pipe(id, dir, host, dai) ==
  [id |-> id, dir |-> dir,
   nodes |-> {[local |-> "host", ref |-> host], [local |-> "dai", ref |-> dai]},
   edges |-> {<<"host", "dai">>}]

MCSourceDoc ==
  [insts |-> {Inst("PH", "host"), Inst("PD", "dai"), Inst("CH", "host"), Inst("CD", "dai")},
   pipes |-> <<Pipe("play", "playback", "PH", "PD"), Pipe("cap", "capture", "CH", "CD")>>,
   presets |-> {<<"play", "dai">>, <<"cap", "dai">>}, view |-> "none"]

Node(pipe, local, type, ref) ==
  [gid |-> <<pipe, local>>, local |-> None, pipeline |-> pipe, type |-> type,
   ref |-> ref, debug |-> FALSE, domain |-> "sof"]
Conn(pipe, from, to) ==
  [from |-> <<pipe, from>>, to |-> <<pipe, to>>, fromDomain |-> None, toDomain |-> None]
Group(pipe) == [id |-> pipe, pipeline |-> pipe, origins |-> <<pipe>>, nodes |-> {}]

PlayNodes == {Node("play", "host", "host", "PH"), Node("play", "dai", "dai", "PD"),
              Node("play", "file", "file_input", None)}
PlayConns == {Conn("play", "file", "host"), Conn("play", "host", "dai")}
CapNodes == {Node("cap", "host", "host", "CH"), Node("cap", "dai", "dai", "CD")}
CapConns == {Conn("cap", "host", "dai")}

Play == [name |-> "play", groups |-> <<Group("play")>>, nodes |-> PlayNodes,
         conns |-> PlayConns, group |-> "play", active |-> None]
Cap == [name |-> "cap", groups |-> <<Group("cap")>>, nodes |-> CapNodes,
        conns |-> CapConns, group |-> "cap", active |-> None]
Both == [name |-> "both", groups |-> <<Group("play"), Group("cap")>>,
         nodes |-> PlayNodes \cup CapNodes \cup {Node("cap", "eq", "eq", None)},
         conns |-> PlayConns \cup CapConns, group |-> None, active |-> "cap"]
Bad == [Play EXCEPT !.name = "bad", !.nodes = @ \cup {Node("play", "x", "dai", None)}]

MCSnapshots == {Play, Cap, Both, Bad}
MCInstName == (<<"cap", "eq">> :> "cap_eq")
=============================================================================

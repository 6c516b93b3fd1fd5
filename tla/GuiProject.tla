----------------------------- MODULE GuiProject -----------------------------
(* The build, unload and save of a GUI project (GUI/backend,               *)
(* BuildOrchestrator and ProcessValidationRunner) for one workspace.       *)
(*                                                                         *)
(* A project is a document with module instances, pipelines and preset     *)
(* values.  Opening it copies the source file to a workspace file; a build *)
(* regenerates the workspace file from a snapshot of the layout, compiles  *)
(* it and starts a validation session, a group of processes that installs  *)
(* the topology in the simulator; a save copies the workspace file back.   *)
(* The HTTP server handles one request at a time, so the steps of a        *)
(* request interleave only with the session processes, with failing writes *)
(* and with a restart of the backend.                                      *)
EXTENDS Integers, SequencesExt

CONSTANTS
  SourceDoc,    \* the document in the source file when the backend starts
  Snapshots,    \* the layout snapshots the frontend may build
  InstName,     \* safeId(pipe + "_" + local), the name of a generated instance
  MaxSessions,  \* bound: validation sessions started
  MaxBuilds,    \* bound: builds of one life of the backend
  MaxCrashes,   \* bound: restarts of the backend
  Torn,         \* a file that a failed write left empty
  NoFile,       \* a file that does not exist
  None          \* no snapshot, no document, no text in a field

(* The groups of a snapshot are listed in the order of the frontend.       *)
ASSUME GroupsInOrder == \A s \in Snapshots : s.groups \in Seq(ToSet(s.groups))

(* Generated names meet no instance of the source file.                    *)
ASSUME NewNames ==
  \A i \in SourceDoc.insts, k \in DOMAIN InstName : i.id # InstName[k]

VARIABLES
  src,       \* the source file
  ws,        \* the workspace file
  rec,       \* WorkspaceRecord: open, rev, ok, loaded, validated
  pc,        \* what the request in hand does next
  snap,      \* the snapshot of the build in hand
  next,      \* the document the build in hand has generated
  sessions,  \* ProcessValidationRunner::sessions_ of the workspace, 0 for none
  procs,     \* the validation sessions started, each a group of processes
  child,     \* the session the build in hand has forked
  marker,    \* the session that wrote the ready marker, 0 for no marker
  lastBuilt, \* history: what the latest build validated, None if it failed
  saved,     \* history: a document was saved
  refused,   \* history: the snapshots that could not be regenerated
  orphans,   \* history: sessions of a backend that was restarted
  crashes    \* counts the restarts

files == <<src, ws>>
build == <<pc, snap, next, child>>
runner == <<sessions, procs, marker>>
projectHistory == <<lastBuilt, saved, refused, orphans, crashes>>
projectVars == <<files, rec, build, runner, projectHistory>>

-----------------------------------------------------------------------------
(* Documents.                                                              *)

PipeIds(doc) == {p.id : p \in ToSet(doc.pipes)}
InstIds(doc) == {i.id : i \in doc.insts}

(* A later entry with an id replaces an earlier one, and the workspace's   *)
(* entries come after the source's.                                        *)
MergedById(current, source) ==
  current \cup {x \in source : \A y \in current : y.id # x.id}

(* Faulty variant: regenerates from the workspace alone.                   *)
BaselineOfWorkspace(current, source) ==
  [insts |-> current.insts, pipes |-> ToSet(current.pipes)]

(* What a build regenerates from: the workspace, completed by the source.  *)
(* A source file that cannot be read adds nothing.                         *)
Baseline(current, source) ==
  IF source \in {Torn, NoFile}
  THEN [insts |-> current.insts, pipes |-> ToSet(current.pipes)]
  ELSE [insts |-> MergedById(current.insts, source.insts),
        pipes |-> MergedById(ToSet(current.pipes), ToSet(source.pipes))]

DebugTypes == {"file_input", "file_output"}
HostOrDai == {"host", "dai"}
CanonicalDomain(d) == IF d = "external" THEN "external" ELSE "sof"

(* A node of a snapshot; the file debug modules are marked by their type.  *)
IsDebug(n) == n.debug \/ n.type \in DebugTypes

(* The node's id in its pipeline: its own, or the graph id, which is text  *)
(* of the form pipeline__node, without the pipeline.                       *)
LocalId(n) == IF n.local # None THEN n.local ELSE n.gid[2]

(* A group names the pipeline it stems from, if the baseline has it.       *)
OriginOf(g, base) ==
  LET known == {p.id : p \in base.pipes}
  IN  IF Len(g.origins) = 1 /\ g.origins[1] \in known THEN g.origins[1]
      ELSE IF g.pipeline \in known THEN g.pipeline ELSE None
PipeIdOf(g, base) ==
  IF OriginOf(g, base) # None THEN OriginOf(g, base) ELSE g.pipeline

(* The nodes of a group: those it lists, else those of its pipeline.       *)
GroupNodes(g, base, s) ==
  LET owners == {g.pipeline, PipeIdOf(g, base)}
      listed == IF g.nodes # {} THEN g.nodes
                ELSE {n.gid : n \in {m \in s.nodes : m.pipeline \in owners}}
  IN  {n \in s.nodes : n.gid \in listed /\ ~IsDebug(n)}

(* A node must name a known instance, or be one that is generated.         *)
Refused(n, base) ==
  \/ n.type \in HostOrDai /\ n.ref = None
  \/ n.type = None
  \/ n.ref # None /\ n.ref \notin {i.id : i \in base.insts}

InstRef(n, pipe) ==
  IF n.ref # None THEN n.ref ELSE InstName[<<pipe, LocalId(n)>>]

(* Connections inside the pipeline; those that touch a debug node or a     *)
(* port outside the SOF domain are left to the frontend.                   *)
EndDomain(s, end, domain) ==
  CanonicalDomain(IF domain # None THEN domain
                  ELSE (CHOOSE n \in s.nodes : n.gid = end).domain)
Edges(s, nodes) ==
  LET gids == {n.gid : n \in nodes}
      localOf(end) == LocalId(CHOOSE n \in nodes : n.gid = end)
      inner == {c \in s.conns : c.from \in gids /\ c.to \in gids}
  IN  {<<localOf(c.from), localOf(c.to)>> :
         c \in {d \in inner : /\ EndDomain(s, d.from, d.fromDomain) = "sof"
                              /\ EndDomain(s, d.to, d.toDomain) = "sof"}}

(* The stream direction is inherited from the pipeline of origin.          *)
DirectionOf(g, base) ==
  IF OriginOf(g, base) = None THEN "playback"
  ELSE (CHOOSE p \in base.pipes : p.id = OriginOf(g, base)).dir

PipelineOf(g, base, s) ==
  LET id == PipeIdOf(g, base)
      nodes == GroupNodes(g, base, s)
  IN  [id |-> id, dir |-> DirectionOf(g, base),
       nodes |-> {[local |-> LocalId(n), ref |-> InstRef(n, id)] : n \in nodes},
       edges |-> Edges(s, nodes)]

(* The instances the pipelines use: as they are in the baseline, or new    *)
(* ones of the node's module type.                                         *)
Instances(base, s) ==
  LET used == UNION {{<<n, PipeIdOf(g, base)>> : n \in GroupNodes(g, base, s)} :
                     g \in ToSet(s.groups)}
  IN  {i \in base.insts : \E u \in used : u[1].ref = i.id}
        \cup {[id |-> InstRef(u[1], u[2]), type |-> u[1].type] :
                u \in {v \in used : v[1].ref = None}}

(* regenerateProjectFromSnapshot succeeds.                                 *)
Regenerates(base, s) ==
  /\ s.groups # <<>>
  /\ \A g \in ToSet(s.groups) :
       \A n \in GroupNodes(g, base, s) : ~Refused(n, base)

Keys(pipes) == UNION {{<<p.id, n.local>> : n \in p.nodes} : p \in ToSet(pipes)}

(* Preset values of nodes that are not in the new pipelines are dropped.   *)
KeptPresets(presets, pipes) == presets \cap Keys(pipes)

(* The document a build writes: the workspace's with its instances,        *)
(* pipelines and preset values replaced, and the snapshot stored in it.    *)
Merged(current, source, s) ==
  LET base == Baseline(current, source)
      pipes == [i \in DOMAIN s.groups |-> PipelineOf(s.groups[i], base, s)]
  IN  [insts |-> Instances(base, s), pipes |-> pipes,
       presets |-> KeptPresets(current.presets, pipes), view |-> s.name]

(* The number of the pipeline the session installs: that of the group the  *)
(* request names, else of the active pipeline, else the first.             *)
GroupPipeline(s) ==
  LET named == {i \in DOMAIN s.groups : s.group \in {s.groups[i].id, s.groups[i].pipeline}}
  IN  IF s.group = None THEN None
      ELSE IF named = {} THEN s.group
      ELSE LET g == s.groups[CHOOSE i \in named : \A j \in named : i <= j]
           IN  IF Len(g.origins) = 1 THEN g.origins[1] ELSE g.pipeline

Selector(s, pipes) ==
  LET at(id) == {i \in DOMAIN pipes : pipes[i].id = id}
      first(is) == CHOOSE i \in is : \A j \in is : i <= j
  IN  IF pipes = <<>> THEN 0
      ELSE IF at(GroupPipeline(s)) # {} THEN first(at(GroupPipeline(s)))
      ELSE IF at(s.active) # {} THEN first(at(s.active)) ELSE 1

-----------------------------------------------------------------------------
(* The validation sessions.                                                *)

(* A session is a process group: the shell that leads it (lead) and what   *)
(* the script runs in it, the simulator and as_server; live says whether   *)
(* any of them is alive.  It knows what it was started for (doc, sel) and  *)
(* which session was the newest when it wrote the marker (wrote, 0 before).*)
(* left says how the backend gave it up: "signalled" with Ctrl+C, or       *)
(* "reaped", when a build saw its leader end before it was ready.          *)
NewGroup(doc, sel) ==
  [doc |-> doc, sel |-> sel, lead |-> TRUE, live |-> TRUE, wrote |-> 0, left |-> "no"]

(* SIGINT, SIGTERM and SIGKILL to the whole group, until its leader has    *)
(* exited: processes that outlive the leader are not waited for.  Nothing  *)
(* is sent to a group that has no process any more.                        *)
Signalled(g) ==
  IF ~g.live THEN {g}
  ELSE {[g EXCEPT !.lead = FALSE, !.live = survivors, !.left = "signalled"] :
          survivors \in BOOLEAN}

StopGroup(p) == \E g \in Signalled(procs[p]) : procs' = [procs EXCEPT ![p] = g]

(* Faulty variant: forgets the session without stopping its processes.     *)
StopSessionForgets == sessions' = 0 /\ procs' = procs

(* The session recorded, if any, is forgotten and stopped.                 *)
StopSession ==
  /\ sessions' = 0
  /\ IF sessions = 0 THEN UNCHANGED procs ELSE StopGroup(sessions)

(* The script, external, installs the topology and writes the marker.  It  *)
(* may have lost the shell that started it.                                *)
Ready(p) ==
  /\ procs[p].live /\ procs[p].wrote = 0
  /\ procs' = [procs EXCEPT ![p].wrote = Len(procs)]
  /\ marker' = p
  /\ UNCHANGED <<files, rec, build, sessions, projectHistory>>

(* A session may end at any time, or only its leader; nobody is told.      *)
Ends(p) ==
  /\ procs[p].live
  /\ \E rest \in BOOLEAN :
       procs' = [procs EXCEPT ![p].lead = FALSE, ![p].live = rest]
  /\ UNCHANGED <<files, rec, build, sessions, marker, projectHistory>>

-----------------------------------------------------------------------------
(* Files.  A write may be refused, may fail half way, and, because the     *)
(* stream is flushed only when it is closed, may fail unnoticed.           *)
Written(file, doc, told) ==
  \/ told /\ file' = doc
  \/ ~told /\ file' = file
  \/ file' = Torn

-----------------------------------------------------------------------------
(* Requests.                                                               *)

Closed == [open |-> FALSE, rev |-> 0, ok |-> FALSE, loaded |-> {}, validated |-> {}]

(* openProjectLocked: a known workspace is returned as it is; else the     *)
(* source is copied over whatever the workspace file holds.                *)
Opened == IF rec.open THEN rec ELSE [Closed EXCEPT !.open = TRUE]
OpenFile ==
  IF rec.open THEN UNCHANGED ws
  ELSE \E told \in BOOLEAN : Written(ws, src, told)

Open ==
  /\ pc = "idle"
  /\ rec' = Opened /\ OpenFile
  /\ UNCHANGED <<src, build, runner, projectHistory>>

(* buildPipeline, first part: finds the workspace or opens it, and reads   *)
(* it.  A file that cannot be read answers 404 and changes no state.       *)
BuildRequest(s) ==
  /\ pc = "idle"
  /\ Len(procs) < MaxSessions /\ rec.rev < MaxBuilds
  /\ rec' = Opened /\ OpenFile
  /\ IF ws' \in {Torn, NoFile} THEN UNCHANGED <<pc, snap>>
     ELSE pc' = "stop" /\ snap' = s
  /\ UNCHANGED <<src, next, child, runner, projectHistory>>

(* Faulty variants: the old result stays in force during the build.        *)
UnbuiltStillLoaded(r) == [r EXCEPT !.ok = FALSE]

UnbuiltStillOk(r) == [r EXCEPT !.loaded = {}, !.validated = {}]

(* The old session is stopped before anything else is tried, and until     *)
(* this build is done nothing is loaded and nothing may be saved.          *)
Unbuilt(r) == [r EXCEPT !.loaded = {}, !.validated = {}, !.ok = FALSE]

BuildStop ==
  /\ pc = "stop"
  /\ StopSession
  /\ rec' = Unbuilt(rec)
  /\ pc' = "regenerate"
  /\ lastBuilt' = None
  /\ UNCHANGED <<files, snap, next, child, marker, saved, refused, orphans, crashes>>

Fails == pc' = "idle" /\ snap' = None /\ next' = None /\ child' = 0

BuildRegenerate ==
  /\ pc = "regenerate"
  /\ IF Regenerates(Baseline(ws, src), snap)
     THEN /\ next' = Merged(ws, src, snap) /\ pc' = "write"
          /\ UNCHANGED <<snap, child, refused>>
     ELSE Fails /\ refused' = refused \cup {snap}
  /\ UNCHANGED <<files, rec, runner, lastBuilt, saved, orphans, crashes>>

(* The workspace file is replaced, and its revision counted if the write   *)
(* was seen to succeed.                                                    *)
BuildWrite ==
  /\ pc = "write"
  /\ \E told \in BOOLEAN :
       /\ Written(ws, next, told)
       /\ IF told
          THEN /\ rec' = [rec EXCEPT !.ok = FALSE, !.rev = @ + 1]
               /\ pc' = "compile"
               /\ UNCHANGED <<snap, next, child>>
          ELSE Fails /\ UNCHANGED rec
  /\ UNCHANGED <<src, runner, projectHistory>>

(* config.compile: as_server --rpc-once first, a server's socket if that    *)
(* could not be run, or the other way round if so configured.  Once it has *)
(* been connected, a socket that breaks is not made up for.                *)
Replies == {"compiled", "error", "no result", "no tplg_path"}
OnceReplies == Replies \cup {"not run"}
SocketReplies == Replies \cup {"no connection", "broken"}
Reply(socketFirst, once, socket) ==
  IF socketFirst THEN IF socket = "no connection" THEN once ELSE socket
  ELSE IF once = "not run" THEN socket ELSE once

(* The compiler reads the workspace file: no torn file compiles.           *)
BuildCompile ==
  /\ pc = "compile"
  /\ \E socketFirst \in BOOLEAN, once \in OnceReplies, socket \in SocketReplies :
       IF Reply(socketFirst, once, socket) = "compiled"
       THEN ws # Torn /\ pc' = "fork" /\ UNCHANGED <<snap, next, child>>
       ELSE Fails
  /\ UNCHANGED <<files, rec, runner, projectHistory>>

(* The test list is written, the marker of an earlier session removed, and *)
(* a session of its own process group forked for the compiled topology.    *)
(* A missing script or a failed write answers with a failure.              *)
Fork(doc) ==
  /\ procs' = Append(procs, NewGroup(doc, Selector(snap, doc.pipes)))
  /\ marker' = 0
  /\ child' = Len(procs) + 1

BuildFork ==
  /\ pc = "fork"
  /\ \/ Fork(ws) /\ pc' = "poll" /\ UNCHANGED <<snap, next>>
     \/ Fails /\ UNCHANGED <<procs, marker>>
  /\ UNCHANGED <<files, rec, sessions, projectHistory>>

(* The marker file is there: the session is recorded.                      *)
PollReady ==
  /\ pc = "poll"
  /\ marker # 0
  /\ sessions' = child
  /\ pc' = "record"
  /\ UNCHANGED <<files, rec, snap, next, child, procs, marker, projectHistory>>

(* The leader has ended before the session was ready.  It is reaped; the   *)
(* rest of its group is neither signalled nor recorded.                    *)
PollEnded ==
  /\ pc = "poll"
  /\ ~procs[child].lead
  /\ procs' = [procs EXCEPT ![child].left = "reaped"]
  /\ Fails
  /\ UNCHANGED <<files, rec, sessions, marker, projectHistory>>

(* The deadline has passed: the group is stopped.                          *)
GivenUp == StopGroup(child)

PollTimeout ==
  /\ pc = "poll"
  /\ GivenUp
  /\ Fails
  /\ UNCHANGED <<files, rec, sessions, marker, projectHistory>>

(* The pipelines of the snapshot are those loaded and validated.           *)
BuildRecord ==
  /\ pc = "record"
  /\ rec' = [rec EXCEPT !.validated = PipeIds(next), !.loaded = PipeIds(next),
                        !.ok = PipeIds(next) # {}]
  /\ lastBuilt' = next
  /\ pc' = "idle" /\ snap' = None /\ next' = None /\ child' = 0
  /\ UNCHANGED <<files, runner, saved, refused, orphans, crashes>>

(* unloadPipeline: what was built stays built.                             *)
Unload ==
  /\ pc = "idle"
  /\ rec' = [Opened EXCEPT !.loaded = {}, !.validated = {}] /\ OpenFile
  /\ StopSession
  /\ UNCHANGED <<src, build, marker, projectHistory>>

(* saveProject, only for a project whose latest build succeeded.           *)
MaySave == rec.open /\ rec.ok

Save ==
  /\ pc = "idle"
  /\ MaySave
  /\ ws \notin {Torn, NoFile}
  /\ \E told \in BOOLEAN : Written(src, ws, told)
  /\ saved' = TRUE
  /\ UNCHANGED <<ws, rec, build, runner, lastBuilt, refused, orphans, crashes>>

(* The backend dies and is started again: its memory is gone, the files    *)
(* and the session processes, which lead groups of their own, stay.        *)
Restart ==
  /\ crashes < MaxCrashes
  /\ crashes' = crashes + 1
  /\ rec' = Closed
  /\ sessions' = 0
  /\ orphans' = orphans \cup DOMAIN procs
  /\ lastBuilt' = None
  /\ pc' = "idle" /\ snap' = None /\ next' = None /\ child' = 0
  /\ UNCHANGED <<files, procs, marker, saved, refused>>

-----------------------------------------------------------------------------
ProjectInit ==
  /\ src = SourceDoc /\ ws = NoFile
  /\ rec = Closed
  /\ pc = "idle" /\ snap = None /\ next = None /\ child = 0
  /\ sessions = 0 /\ procs = <<>> /\ marker = 0
  /\ lastBuilt = None /\ saved = FALSE /\ refused = {} /\ orphans = {} /\ crashes = 0

BuildStep ==
  \/ BuildStop \/ BuildRegenerate \/ BuildWrite \/ BuildCompile \/ BuildFork
  \/ PollReady \/ PollEnded \/ PollTimeout \/ BuildRecord

ProjectNext ==
  \/ Open \/ Unload \/ Save \/ Restart
  \/ \E s \in Snapshots : BuildRequest(s)
  \/ BuildStep
  \/ \E p \in DOMAIN procs : Ready(p) \/ Ends(p)

ProjectSpec == ProjectInit /\ [][ProjectNext]_projectVars

-----------------------------------------------------------------------------
(* What must hold.                                                         *)

(* What is shown as loaded is what was started: the pipelines loaded are   *)
(* those of the workspace file, the session recorded was started for this  *)
(* file and installs one of its pipelines, and since then the marker was   *)
(* written, by this session or by processes left behind: those of a        *)
(* restarted backend, and those that outlived the leader of their session  *)
(* (ProcessValidationRunner::start, BuildOrchestrator::buildPipeline).     *)
LoadedIsCurrent ==
  rec.loaded # {} =>
    /\ ws \notin {Torn, NoFile} /\ rec.loaded = PipeIds(ws)
    /\ sessions # 0
    /\ procs[sessions].doc = ws
    /\ procs[sessions].sel \in DOMAIN ws.pipes
    /\ \E p \in DOMAIN procs :
         /\ procs[p].wrote = sessions
         /\ p = sessions \/ p \in orphans \/ ~procs[p].lead

(* The sessions the backend answers for: the one recorded, the one a build *)
(* has just forked, and, given up for lost, those of an earlier life.      *)
Held == orphans \cup {sessions, child}

(* Every other session has lost its leader, and what outlives it was       *)
(* signalled when the session was stopped, replaced or timed out, or was   *)
(* left when a build saw the leader end (ProcessValidationRunner::start    *)
(* and stop).                                                              *)
NoSessionLeaks ==
  \A p \in DOMAIN procs \ Held :
    /\ ~procs[p].lead
    /\ procs[p].live => procs[p].left # "no"

(* The document's rule: a build that fails, and an unload, send Ctrl+C to  *)
(* the process group.  A build whose session ends too early does not       *)
(* (ProcessValidationRunner::start).                                       *)
FailureStopsGroup ==
  \A p \in DOMAIN procs \ Held : procs[p].live => procs[p].left = "signalled"

(* A save puts the document of the latest successful build in the source   *)
(* file, never one that was changed, or whose build failed, since.         *)
SavesLatestBuild == [][src' # src => src' \in {Torn, lastBuilt}]_projectVars

(* A document a build writes refers to nothing it does not hold: nodes to  *)
(* their instances, edges to nodes, preset values to nodes.                *)
Consistent(doc) ==
  /\ \A p \in ToSet(doc.pipes) :
       /\ \A n \in p.nodes : n.ref \in InstIds(doc)
       /\ p.edges \subseteq {n.local : n \in p.nodes} \X {n.local : n \in p.nodes}
  /\ doc.presets \subseteq Keys(doc.pipes)

(* So is the source file that is opened first.                             *)
ASSUME SourceConsistent == SourceDoc \notin {Torn, NoFile} /\ Consistent(SourceDoc)

DocumentsConsistent == \A f \in {src, ws} \ {Torn, NoFile} : Consistent(f)

(* While nothing was saved, a snapshot is refused only if the project as   *)
(* it was first opened does not support it.                                *)
Supported(s) == Regenerates(Baseline(SourceDoc, SourceDoc), s)
ScopesSwitch == saved \/ \A s \in refused : ~Supported(s)

(* Whatever scopes are built one after the other, no file refers to what   *)
(* it does not hold, and, until a save, every scope of the project can     *)
(* still be built: the instances it refers to come back from the source    *)
(* file.  Preset values do not: those of nodes outside the scope are       *)
(* dropped for good (workspaceJsonWithSourceBaseline,                      *)
(* regenerateProjectFromSnapshot, filterPresetNodeValues).                 *)
ScopesStayBuildable == DocumentsConsistent /\ ScopesSwitch
=============================================================================

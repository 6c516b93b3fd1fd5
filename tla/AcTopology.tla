----------------------------- MODULE AcTopology -----------------------------
(* The topology of the audio controller: the parser of the binary topology  *)
(* (ac_topology_parser.c), the installation of its pipelines in SOF         *)
(* (ac_sof_loader.c) and the controller that owns both.  The code runs one  *)
(* call at a time, so that a call is one step; inside it every allocation   *)
(* may fail, and every SOF call.  The heap is modelled block by block: who  *)
(* owns a block, who frees it, and what nobody owns any more.               *)
(*                                                                          *)
(* A file is what alsatplg makes of the text the config service writes for  *)
(* a project, or a file that is cut off somewhere.                          *)
EXTENDS ConfigIr

CONSTANTS OtherFiles,        \* name -> a sequence of blocks, not of a project
          BadHeader,         \* a payload whose ABI header says more than there is
          Wanted,            \* pipelines a caller asks for: an id, a name or neither
          FailingAllocs,     \* which allocation of a call fails; 0 for none
          FirstRoom,         \* items of a list that grows for the first time (8)
          MaxRouteIds,       \* AC_MAX_ROUTE_IDS (8)
          Stride,            \* AC_PIPELINE_COMP_ID_STRIDE (256)
          MaxCompId,         \* UINT16_MAX
          MaxInstalled,      \* AUDIO_CONTROLLER_MAX_INSTALLED_PIPELINES (16)
          MaxLost            \* bound: blocks lost in loads that failed

VARIABLES topology,   \* controller->topology; empty while there is no controller
          loaded,     \* the file the last load succeeded with, or Nil
          heap,       \* [live: block -> what it holds, broken: a bad free happened]
          pipes,      \* the pipes SOF holds
          installed,  \* the caller's audio_controller_installed_pipelines_t
          result      \* what the last call returned
topologyVars == <<topology, loaded, heap, pipes, installed, result>>

-----------------------------------------------------------------------------
(* The driver's allocator.  The memory of a call in progress also counts    *)
(* down to the allocation that fails.                                       *)
FreshBlock(m) == CHOOSE b \in 1..(Cardinality(DOMAIN m.live) + 1) : b \notin DOMAIN m.live
Alloc(m, what) ==
  IF m.left = 1 THEN [m EXCEPT !.left = 0, !.got = 0]
  ELSE [m EXCEPT !.left = IF @ = 0 THEN 0 ELSE @ - 1, !.got = FreshBlock(m),
                 !.live = [b \in DOMAIN @ \cup {FreshBlock(m)} |-> IF b \in DOMAIN @ THEN @[b] ELSE what]]

(* Freeing blocks, 0 being none of them: a block that is not in use any     *)
(* more, or that comes twice, breaks the heap.                              *)
FreedTwice(blocks) == \E i, j \in DOMAIN blocks : i # j /\ blocks[i] = blocks[j] /\ blocks[i] # 0
FreeAll(m, blocks) ==
  [m EXCEPT !.broken = @ \/ FreedTwice(blocks) \/ ~(Range(blocks) \subseteq DOMAIN m.live \cup {0}),
            !.live = [b \in DOMAIN @ \ Range(blocks) |-> @[b]]]
Free(m, block) == FreeAll(m, <<block>>)

(* A growing array: a new block of twice the room, then the old one is      *)
(* freed.  An append that cannot grow changes nothing.                      *)
EmptyList == [items |-> <<>>, block |-> 0, room |-> 0]
Moved(a, list) ==
  IF a.got = 0 THEN [m |-> a, list |-> list, ok |-> FALSE]
  ELSE [m |-> Free(a, list.block), ok |-> TRUE,
        list |-> [list EXCEPT !.block = a.got,
                              !.room = IF @ = 0 THEN FirstRoom ELSE 2 * @]]
Reserve(m, list, what) ==
  IF Len(list.items) < list.room THEN [m |-> m, list |-> list, ok |-> TRUE]
  ELSE Moved(Alloc(m, what), list)
Appended(r, item) == IF r.ok THEN [r EXCEPT !.list.items = Append(@, item)] ELSE r
AppendItem(m, list, item, what) == Appended(Reserve(m, list, what), item)

-----------------------------------------------------------------------------
(* The parser.  p is a parse in progress: memory, topology, and whether it  *)
(* still goes on.                                                           *)
EmptyTopology ==
  [pipelines |-> EmptyList, widgets |-> EmptyList, routes |-> EmptyList, controls |-> EmptyList,
   pcms |-> EmptyList, dais |-> EmptyList, links |-> EmptyList, manifests |-> 0, private |-> 0]
Fail(p) == [p EXCEPT !.ok = FALSE]
WithList(p, field, r) == [p EXCEPT !.m = r.m, !.topo[field] = r.list, !.ok = r.ok]
AppendTo(p, field, item) == WithList(p, field, AppendItem(p.m, p.topo[field], item, field))

CountPrivate(p, item) == IF item.private THEN [p EXCEPT !.topo.private = @ + 1] ELSE p
StorePcm(p, pcm) == AppendTo(CountPrivate(p, pcm), "pcms", pcm)
StoreDai(p, dai) == AppendTo(CountPrivate(p, dai), "dais", dai)
StoreLink(p, link) == AppendTo(CountPrivate(p, link), "links", link)
StoreRoute(p, route) == AppendTo(p, "routes", [sink |-> route.sink, source |-> route.source])
StoreManifest(p, manifest) == [CountPrivate(p, manifest) EXCEPT !.topo.manifests = @ + 1]

(* The list of controls of the topology keeps no payloads: those of the     *)
(* widgets belong to the widgets.                                           *)
Control(c, block) == [name |-> c.name, kind |-> c.kind, payload |-> block, data |-> IF block = 0 THEN Nil ELSE c.data]
Summary(c, block) == Control(c, 0)
StoreControl(p, c) == AppendTo(p, "controls", Summary(c, 0))

PipelineIndex(topo, id) == SelectInSeq(topo.pipelines.items, LAMBDA pl : pl.id = id)
NewPipeline(id) ==
  [id |-> id, name |-> <<"pipeline", id>>, scheduled |-> FALSE, channels |-> 2, widgets |-> 0, routes |-> 0]
AppendPipeline(p, id) ==
  IF PipelineIndex(p.topo, id) # 0 THEN p ELSE AppendTo(p, "pipelines", NewPipeline(id))
Counted(pl, w) ==
  [pl EXCEPT !.widgets = @ + 1, !.scheduled = @ \/ w.type = "scheduler",
             !.name = IF w.type = "scheduler" THEN w.name ELSE @]
CountWidget(p, id, w) ==
  LET k == PipelineIndex(p.topo, id) IN [p EXCEPT !.topo.pipelines.items[k] = Counted(@, w)]

(* Vendor tuples of a widget. A tuple array that is cut off ends the parse. *)
ParseTuple(t, tuple) ==
  IF ~t.ok THEN t
  ELSE IF tuple.torn THEN [t EXCEPT !.ok = FALSE]
  ELSE AppendItem(t.m, t.list, [token |-> tuple.token, value |-> tuple.value], "tokens")
ParseTuples(m, tuples) ==
  LET read[i \in 0..Len(tuples)] ==
        IF i = 0 THEN [m |-> m, list |-> EmptyList, ok |-> TRUE] ELSE ParseTuple(read[i - 1], tuples[i])
  IN read[Len(tuples)]

(* What a widget holds: its tokens, the payloads of its controls, their list. *)
PayloadBlocks(controls) == [i \in 1..Len(controls) |-> controls[i].payload]
WidgetHolds(w) == <<w.tokens.block, w.controls.block>> \o PayloadBlocks(w.controls.items)
ReleaseWidget(m, w) == FreeAll(m, WidgetHolds(w))

(* A control of a widget: the payload of a bytes control is copied, the     *)
(* widget lists the control, and so does the topology without the payload.  *)
(* w is the widget so far; a failure releases all that it has.              *)
CopyPayload(m, c) ==
  IF c.kind # "bytes" \/ c.data = Nil THEN [m EXCEPT !.got = 0] ELSE Alloc(m, "payload")
GiveUp(q, m) == [q EXCEPT !.p = Fail([@ EXCEPT !.m = ReleaseWidget(m, q.w)])]
ListedControl(w, listed) ==
  [p |-> IF listed.ok THEN listed ELSE [listed EXCEPT !.m = ReleaseWidget(@, w)], w |-> w]
StoredControl(q, c, block, stored) ==
  IF ~stored.ok THEN GiveUp(q, Free(stored.m, block))
  ELSE ListedControl([q.w EXCEPT !.controls = stored.list],
                     AppendTo([q.p EXCEPT !.m = stored.m], "controls", Summary(c, block)))
CopiedControl(q, c, a) ==
  IF c.kind = "bytes" /\ c.data # Nil /\ a.got = 0 THEN GiveUp(q, a)
  ELSE StoredControl(q, c, a.got, AppendItem(a, q.w.controls, Control(c, a.got), "widget controls"))
ParseWidgetControl(q, c) ==
  IF ~q.p.ok THEN q
  ELSE IF c.torn THEN GiveUp(q, q.p.m)
  ELSE CopiedControl(q, c, CopyPayload(q.p.m, c))

(* A widget: its tuples, its pipeline, its controls, then the list.  When   *)
(* the tuples or the pipeline cannot be stored, the tokens read so far are  *)
(* left in a block nobody knows.                                            *)
NewWidget(index, raw, tokens) ==
  [name |-> raw.name, type |-> raw.type, pipeline |-> index, stream |-> raw.stream,
   tokens |-> tokens, controls |-> EmptyList]
ListedWidget(stored, w) == IF stored.ok THEN stored ELSE [stored EXCEPT !.m = ReleaseWidget(@, w)]
StoreWidget(q) == IF q.p.ok THEN ListedWidget(AppendTo(q.p, "widgets", q.w), q.w) ELSE q.p
ParseWidgetControls(p, w, controls) ==
  LET read[i \in 0..Len(controls)] ==
        IF i = 0 THEN [p |-> p, w |-> w] ELSE ParseWidgetControl(read[i - 1], controls[i])
  IN read[Len(controls)]
PlacedWidget(piped, raw, widget) ==
  IF ~piped.ok THEN piped
  ELSE StoreWidget(ParseWidgetControls(CountWidget(piped, widget.pipeline, widget), widget, raw.controls))
ReadWidget(index, p, raw, t) ==
  IF ~t.ok THEN Fail([CountPrivate(p, [private |-> TRUE]) EXCEPT !.m = t.m])
  ELSE PlacedWidget(AppendPipeline([CountPrivate(p, [private |-> raw.tuples # <<>>]) EXCEPT !.m = t.m], index),
                    raw, NewWidget(index, raw, t.list))
ParseWidget(index, p, raw) == ReadWidget(index, p, raw, ParseTuples(p.m, raw.tuples))

(* Each item of a block in turn, until one is refused; each block in turn.  *)
ItemTypes == {"manifest", "control", "widget", "graph", "pcm", "dai", "link"}
StoreItem(p, block, item) ==
  CASE block.type = "manifest" -> StoreManifest(p, item)
    [] block.type = "control" -> StoreControl(p, item)
    [] block.type = "widget" -> ParseWidget(block.index, p, item)
    [] block.type = "graph" -> StoreRoute(p, item)
    [] block.type = "pcm" -> StorePcm(p, item)
    [] block.type = "dai" -> StoreDai(p, item)
    [] block.type = "link" -> StoreLink(p, item)
ParseItem(p, block, item) ==
  IF ~p.ok THEN p ELSE IF item.torn THEN Fail(p) ELSE StoreItem(p, block, item)
ParseItems(p, block) ==
  LET read[i \in 0..Len(block.items)] ==
        IF i = 0 THEN p ELSE ParseItem(read[i - 1], block, block.items[i])
  IN read[Len(block.items)]
ParseBlock(p, block) ==
  IF ~p.ok THEN p
  ELSE IF block.torn THEN Fail(p)
  ELSE IF block.type \in ItemTypes THEN ParseItems(p, block)
  ELSE CountPrivate(p, [private |-> block.type = "pdata"])
ParseBlocks(p, file) ==
  LET read[i \in 0..Len(file)] == IF i = 0 THEN p ELSE ParseBlock(read[i - 1], file[i])
  IN read[Len(file)]

(* After the last block: the channels of a pipeline are those of the PCM    *)
(* its stream is named after, and a route counts for the pipeline of its    *)
(* sink.                                                                    *)
Widgets(topo) == topo.widgets.items
Routes(topo) == topo.routes.items
WidgetIndex(topo, name) == SelectInSeq(Widgets(topo), LAMBDA w : w.name = name)
CapsOf(topo, pl) ==
  FoldLeft(LAMBDA channels, w :
             IF w.pipeline # pl.id \/ w.stream = Nil THEN channels
             ELSE FoldLeft(LAMBDA c, pcm : IF w.stream \in {pcm.playback, pcm.capture} /\ pcm.channels # 0
                                           THEN pcm.channels ELSE c, channels, topo.pcms.items),
           pl.channels, Widgets(topo))
RoutesOf(topo, pl) ==
  {i \in 1..Len(Routes(topo)) :
     LET sink == WidgetIndex(topo, Routes(topo)[i].sink)
     IN /\ sink # 0 /\ WidgetIndex(topo, Routes(topo)[i].source) # 0
        /\ Widgets(topo)[sink].pipeline = pl.id}
Mapped(op(_), seq) == [i \in 1..Len(seq) |-> op(seq[i])]
Finish(p) ==
  IF ~p.ok THEN p
  ELSE [p EXCEPT !.topo.pipelines.items = Mapped(LAMBDA pl :
          [pl EXCEPT !.channels = CapsOf(p.topo, pl), !.routes = Cardinality(RoutesOf(p.topo, pl))], @)]

ListsHold(topo) ==
  <<topo.pcms.block, topo.dais.block, topo.links.block, topo.widgets.block,
    topo.routes.block, topo.controls.block, topo.pipelines.block>>
ReleaseWidgets(m, widgets) ==
  LET released[i \in 0..Len(widgets)] == IF i = 0 THEN m ELSE ReleaseWidget(released[i - 1], widgets[i])
  IN released[Len(widgets)]
ClearTopology(m, topo) ==
  FreeAll(ReleaseWidgets(m, Widgets(topo)), PayloadBlocks(topo.controls.items) \o ListsHold(topo))
ParseTopology(m, topo, file) ==
  Finish(ParseBlocks([m |-> ClearTopology(m, topo), topo |-> EmptyTopology, ok |-> TRUE], file))

-----------------------------------------------------------------------------
(* The loader: what SOF is told of a widget.                                *)
FindToken(w, token) ==
  LET k == SelectInSeq(w.tokens.items, LAMBDA t : t.token = token)
  IN IF k = 0 THEN Nil ELSE w.tokens.items[k].value
KnownProcesses == {"DCBLOCK", "EQIIR", "EQFIR", "KPB", "CHAN_SELECTOR", "MUX", "DEMUX", "CHAN_REMAP",
                 "DELAY_LINE", "FADER_BALANCE", "DSP_FILTER", "VERISILICON_CODEC"}
ProcessType(w) == LET t == FindToken(w, "process") IN IF t \in KnownProcesses THEN t ELSE "MODULE_ADAPTER"
CompType(w) ==
  CASE w.type \in {"aif_in", "aif_out"} -> "HOST"
    [] w.type \in {"dai_in", "dai_out"} -> "DAI"
    [] w.type \in {"pga", "mixer", "mux", "src", "asrc"} -> w.type
    [] w.type = "effect" -> ProcessType(w)
    [] OTHER -> "NONE"
DaiTypes == {"FILE_IO", "VSI_TDM", "VSI_I2S", "DW_I2S", "DW_TDM"}
UsesRuntimePayload(type) == type \in {"CHAN_REMAP", "DSP_FILTER"}
UsesInitPayload(type) ==
  type \notin {"HOST", "DAI", "pga", "src", "asrc"} /\ ~UsesRuntimePayload(type)

(* Payloads of the controls of a widget, in their order.  A payload whose   *)
(* header says more than there is cannot be used.                           *)
Payloads(w) == SelectSeq([i \in 1..Len(w.controls.items) |-> w.controls.items[i].data], LAMBDA d : d # Nil)
InitPayload(w) == IF UsesInitPayload(CompType(w)) /\ Payloads(w) # <<>> THEN Payloads(w)[1] ELSE Nil
CompIsConfigured(w) ==
  /\ CompType(w) = "DAI" => FindToken(w, "dai") \in DaiTypes
  /\ InitPayload(w) # BadHeader

(* Component ids: the widgets of the pipeline that are components, counted  *)
(* from the base of the pipeline; 0 for every other widget.                 *)
InPipeline(topo, id) == {i \in 1..Len(Widgets(topo)) : Widgets(topo)[i].pipeline = id}
Components(topo, id) == {i \in InPipeline(topo, id) : CompType(Widgets(topo)[i]) # "NONE"}
CompId(topo, id, i) ==
  IF i \notin Components(topo, id) THEN 0
  ELSE id * Stride + Cardinality({j \in Components(topo, id) : j <= i})
IdsFit(topo, id) ==
  id * Stride + 1 <= MaxCompId /\ id * Stride + Cardinality(Components(topo, id)) < MaxCompId

(* Faulty variant: only the first route of the widget is followed.           *)
OtherEndOfFirst(topo, id, name, side) ==
  LET k == SelectInSeq(Routes(topo), LAMBDA r : name = IF side = "source" THEN r.sink ELSE r.source)
      r == Routes(topo)[k]
  IN IF k = 0 THEN {}
     ELSE {WidgetIndex(topo, IF side = "source" THEN r.source ELSE r.sink)} \cap InPipeline(topo, id)

(* The components at the other end of the routes of a widget.  A buffer, or *)
(* a widget that is no component, is looked through; Nil says that the      *)
(* search went deeper than there are widgets.                               *)
OtherEnds(topo, id, name, side) ==
  LET ends == {IF side = "source" THEN r.source ELSE r.sink :
                 r \in {r \in Range(Routes(topo)) : name = IF side = "source" THEN r.sink ELSE r.source}}
  IN {WidgetIndex(topo, other) : other \in ends} \cap InPipeline(topo, id)
RouteIds(topo, id, name, side) ==
  LET ends(names) == UNION {OtherEnds(topo, id, n, side) : n \in names}
      through[d \in 0..(Len(Widgets(topo)) + 1)] ==
        IF d = 0 THEN {name} ELSE {Widgets(topo)[k].name : k \in ends(through[d - 1]) \ Components(topo, id)}
  IN {CompId(topo, id, k) : k \in ends(UNION {through[d] : d \in 0..Len(Widgets(topo))}) \cap Components(topo, id)}
     \cup (IF through[Len(Widgets(topo)) + 1] = {} THEN {} ELSE {Nil})
TooManyRoutes(ids) == Nil \in ids \/ Cardinality(ids) > MaxRouteIds

Component(topo, id, i) ==
  LET w == Widgets(topo)[i]
  IN [id |-> CompId(topo, id, i), name |-> w.name, type |-> CompType(w), data |-> InitPayload(w),
      sources |-> RouteIds(topo, id, w.name, "source"), sinks |-> RouteIds(topo, id, w.name, "sink")]

-----------------------------------------------------------------------------
(* Installing one pipeline.  s is the installation in progress: memory, the *)
(* pipes of SOF and whether it still goes on.  A fault is the SOF call that *)
(* fails: one of the pipe (create, config or install), or the add or the    *)
(* ctrl of a component.                                                     *)
FindScheduler(topo, id) ==
  SelectInSeq(Widgets(topo), LAMBDA w : w.pipeline = id /\ w.type = "scheduler")
Addable(topo, id, i, fault) ==
  LET c == Component(topo, id, i)
  IN /\ ~TooManyRoutes(c.sources) /\ ~TooManyRoutes(c.sinks)
     /\ CompIsConfigured(Widgets(topo)[i])
     /\ fault # [call |-> "add", at |-> c.id]
TakesRuntimeData(topo, id, i) ==
  i \in Components(topo, id) /\ UsesRuntimePayload(CompType(Widgets(topo)[i]))
Settings(topo, id) ==
  UNION {[id : {CompId(topo, id, i)}, data : Range(Payloads(Widgets(topo)[i]))] :
           i \in {i \in 1..Len(Widgets(topo)) : TakesRuntimeData(topo, id, i)}}

(* sof_ctrl_set of each payload, through a message allocated for it.        *)
SendMessage(m, refused) == [m |-> Free(m, m.got), ok |-> m.got # 0 /\ ~refused]
ApplyControl(a, control, refused) ==
  IF ~a.ok \/ control.data = Nil THEN a
  ELSE IF control.data = BadHeader THEN [a EXCEPT !.ok = FALSE]
  ELSE SendMessage(Alloc(a.m, "control message"), refused)
ApplyWidget(a, controls, refused) ==
  LET applied[i \in 0..Len(controls)] ==
        IF i = 0 THEN a ELSE ApplyControl(applied[i - 1], controls[i], refused)
  IN applied[Len(controls)]
ApplyNext(a, topo, id, i, fault) ==
  IF ~TakesRuntimeData(topo, id, i) THEN a
  ELSE ApplyWidget(a, Widgets(topo)[i].controls.items, fault = [call |-> "ctrl", at |-> CompId(topo, id, i)])
ApplyControls(m, topo, id, fault) ==
  LET applied[i \in 0..Len(Widgets(topo))] ==
        IF i = 0 THEN [m |-> m, ok |-> TRUE] ELSE ApplyNext(applied[i - 1], topo, id, i, fault)
  IN applied[Len(Widgets(topo))]

PipeOf(topo, pl) ==
  [id |-> pl.id, comps |-> {Component(topo, pl.id, i) : i \in Components(topo, pl.id)},
   settings |-> Settings(topo, pl.id), channels |-> pl.channels]
SetUp(s, topo, pl, ids, set) ==
  [m |-> Free(set.m, ids), ok |-> set.ok,
   pipes |-> IF set.ok THEN s.pipes \cup {PipeOf(topo, pl)} ELSE s.pipes]
InstallWith(s, topo, pl, fault, a) ==
  IF a.got = 0 THEN [s EXCEPT !.m = a, !.ok = FALSE]
  ELSE IF \/ ~IdsFit(topo, pl.id) \/ fault = [call |-> "pipe", at |-> pl.id]
          \/ \E i \in Components(topo, pl.id) : ~Addable(topo, pl.id, i, fault)
       THEN [s EXCEPT !.m = Free(a, a.got), !.ok = FALSE]
  ELSE SetUp(s, topo, pl, a.got, ApplyControls(a, topo, pl.id, fault))
InstallOne(s, topo, pl, fault) ==
  IF FindScheduler(topo, pl.id) = 0 THEN [s EXCEPT !.ok = FALSE]
  ELSE InstallWith(s, topo, pl, fault, Alloc(s.m, "component ids"))

InstallNext(s, topo, pl, fault) == IF s.ok THEN InstallOne(s, topo, pl, fault) ELSE s
InstallUpTo(m, topo, fault) ==
  LET pls == topo.pipelines.items
      s[i \in 0..Len(pls)] == IF i = 0 THEN [m |-> m, pipes |-> {}, ok |-> TRUE]
                              ELSE InstallNext(s[i - 1], topo, pls[i], fault)
  IN s[Len(pls)]

(* Faulty variant: the pipes installed before the failing one stay.          *)
InstallAllWithoutCleanup(m, topo, fault) == InstallUpTo(m, topo, fault)

(* All pipelines in their order; the first that fails takes down those      *)
(* before it.                                                               *)
CleanedUp(done) == IF done.ok THEN done ELSE [done EXCEPT !.pipes = {}]
InstallEach(m, topo, fault) == CleanedUp(InstallUpTo(m, topo, fault))

-----------------------------------------------------------------------------
(* The binary topology of a project (alsatplg): a widget block for each     *)
(* pipeline, the controls inside the widgets that list them.                *)
Whole(type, index, items) == [type |-> type, index |-> index, items |-> items, torn |-> FALSE]
Tuple(token, value) == [token |-> token, value |-> value, torn |-> FALSE]
Tuples(w) ==
  <<Tuple("uuid", w.type), Tuple("periods", w.period)>>
  \o (IF w.dai = Nil THEN <<>> ELSE <<Tuple("dai", w.dai.type), Tuple("dai index", w.dai.index)>>)
  \o (IF w.process = Nil THEN <<>> ELSE <<Tuple("process", w.process)>>)
RawWidget(w) ==
  [name |-> w.name, type |-> w.type, stream |-> w.stream, tuples |-> Tuples(w), torn |-> FALSE,
   controls |-> [i \in 1..Len(w.controls) |-> w.controls[i] @@ [torn |-> FALSE]]]
RawRoute(line) == [sink |-> line[1], source |-> line[2], torn |-> FALSE]
RawPcm(pcm) ==
  LET caps == <<pcm.name, "Capabilities">>
  IN [playback |-> IF pcm.direction = "playback" THEN caps ELSE Nil,
      capture |-> IF pcm.direction = "capture" THEN caps ELSE Nil,
      channels |-> pcm.channels, private |-> FALSE, torn |-> FALSE]
RawLink(link) == [name |-> link.name, private |-> TRUE, torn |-> FALSE]
Assemble(conf) ==
  LET ids == SetToSortSeq({w.pipeline : w \in Range(conf.widgets)}, <)
      widgets(id) == Mapped(RawWidget, SelectSeq(conf.widgets, LAMBDA w : w.pipeline = id))
  IN <<Whole("manifest", 0, <<[private |-> TRUE, torn |-> FALSE]>>)>>
     \o [k \in 1..Len(ids) |-> Whole("widget", ids[k], widgets(ids[k]))]
     \o <<Whole("graph", 0, Mapped(RawRoute, conf.routes)), Whole("pcm", 0, Mapped(RawPcm, conf.pcms)),
          Whole("link", 0, Mapped(RawLink, conf.links))>>
Confs == [name \in DOMAIN Projects |-> GenerateAlsaConf(Projects[name], Builtin \o <<Generic>>)]
Files == [name \in DOMAIN Projects |-> Assemble(Confs[name])] @@ OtherFiles

(* A file is finite, however it was made.                                   *)
IsWidgetItem(item) == IsSequence(item.tuples) /\ IsSequence(item.controls)
IsFile(file) ==
  /\ IsSequence(file)
  /\ \A i \in 1..Len(file) :
       /\ IsSequence(file[i].items)
       /\ file[i].type = "widget" => \A k \in 1..Len(file[i].items) : IsWidgetItem(file[i].items[k])
ASSUME FilesAreSequences == \A name \in DOMAIN Files : IsFile(Files[name])

-----------------------------------------------------------------------------
(* The blocks the topology and the controller know.                         *)
WidgetBlocks(w) ==
  {w.tokens.block, w.controls.block} \cup {c.payload : c \in Range(w.controls.items)}
ListBlocks(topo) ==
  {topo[field].block : field \in {"pipelines", "widgets", "routes", "controls", "pcms", "dais", "links"}}
OwnedBlocks ==
  (ListBlocks(topology) \cup (UNION {WidgetBlocks(w) : w \in Range(Widgets(topology))})
   \cup {b \in DOMAIN heap.live : heap.live[b] = "controller"}) \ {0}

(* There is a controller while its own block is in use.                     *)
Created == \E b \in DOMAIN heap.live : heap.live[b] = "controller"
NoBlocks == [b \in {} |-> ""]
Working(left) == [live |-> heap.live, broken |-> heap.broken, left |-> left, got |-> 0]
Settled(m) == [live |-> m.live, broken |-> m.broken]
NothingInstalled == [count |-> 0, held |-> {}]

TopologyInit ==
  /\ topology = EmptyTopology /\ loaded = Nil /\ result = Nil
  /\ heap = [live |-> NoBlocks, broken |-> FALSE]
  /\ pipes = {} /\ installed = NothingInstalled

(* The controller is the first block. Its transport and its services may    *)
(* fail to start; then it is freed.                                         *)
Create(left, started) ==
  LET a == Alloc(Working(left), "controller")
      created == a.got # 0 /\ started
  IN /\ ~Created
     /\ heap' = Settled(IF created THEN a ELSE Free(a, a.got))
     /\ topology' = EmptyTopology
     /\ loaded' = Nil /\ result' = IF created THEN "ok" ELSE "error"
     /\ UNCHANGED <<pipes, installed>>

ControllerBlock == CHOOSE b \in DOMAIN heap.live : heap.live[b] = "controller"
Destroy ==
  /\ Created
  /\ heap' = Settled(Free(ClearTopology(Working(0), topology), ControllerBlock))
  /\ topology' = EmptyTopology /\ loaded' = Nil /\ result' = "ok"
  /\ UNCHANGED <<pipes, installed>>

Lost == {b \in DOMAIN heap.live : heap.live[b] = "tokens"} \ OwnedBlocks
Ends(file, p) ==
  /\ topology' = p.topo /\ heap' = Settled(p.m)
  /\ loaded' = IF p.ok THEN file ELSE Nil
  /\ result' = IF p.ok THEN "ok" ELSE "error"
  /\ UNCHANGED <<pipes, installed>>
Load(file, left) ==
  /\ Created /\ Cardinality(Lost) < MaxLost
  /\ Ends(file, ParseTopology(Working(left), topology, Files[file]))

(* There is no call that uninstalls: the caller removes and destroys the    *)
(* pipes it holds, and asks for no other installation while it holds some.  *)
MayInstall == Created /\ installed.count = 0
FindPipeline(topo, wanted) ==
  SelectInSeq(topo.pipelines.items, LAMBDA pl : pl.id = wanted.id \/ pl.name = wanted.name)
Installs(s, ids) ==
  /\ heap' = Settled(s.m) /\ pipes' = s.pipes
  /\ result' = IF s.ok THEN "installed" ELSE "error"
  /\ installed' = IF s.ok THEN [count |-> Cardinality(ids), held |-> ids] ELSE NothingInstalled
  /\ UNCHANGED <<topology, loaded>>
RefusesInstall ==
  /\ result' = "error" /\ installed' = NothingInstalled
  /\ UNCHANGED <<heap, pipes, topology, loaded>>

InstallPipeline(wanted, left, fault) ==
  LET k == FindPipeline(topology, wanted)  pl == topology.pipelines.items[k]
  IN /\ MayInstall
     /\ IF k = 0 THEN RefusesInstall
        ELSE Installs(InstallOne([m |-> Working(left), pipes |-> pipes, ok |-> TRUE], topology, pl, fault), {pl.id})

InstallAll(left, fault) ==
  LET ids == {pl.id : pl \in Range(topology.pipelines.items)}
  IN /\ MayInstall
     /\ IF Len(topology.pipelines.items) \in 1..MaxInstalled
        THEN Installs(InstallEach(Working(left), topology, fault), ids)
        ELSE RefusesInstall

RemovePipes ==
  /\ installed.count > 0
  /\ pipes' = {pipe \in pipes : pipe.id \notin installed.held}
  /\ installed' = NothingInstalled /\ result' = "ok"
  /\ UNCHANGED <<topology, loaded, heap>>

Faults ==
  {[call |-> "none", at |-> 0]} \cup [call : {"pipe"}, at : {1, 2}]
  \cup [call : {"add", "ctrl"}, at : {CompId(topology, pl.id, i) : pl \in Range(topology.pipelines.items),
                                       i \in {2, 3}}]
TopologyNext ==
  \/ \E left \in FailingAllocs, started \in BOOLEAN : Create(left, started)
  \/ Destroy
  \/ \E file \in DOMAIN Files, left \in FailingAllocs : Load(file, left)
  \/ MayInstall /\ \E left \in {0, 1, 2}, fault \in Faults :
       \/ \E wanted \in Wanted : InstallPipeline(wanted, left, fault)
       \/ InstallAll(left, fault)
  \/ RemovePipes

TopologySpec == TopologyInit /\ [][TopologyNext]_topologyVars

-----------------------------------------------------------------------------
(* Every call of the parser and the loader, whichever allocation or SOF     *)
(* call fails in it, frees what it allocated and does not keep, and nothing *)
(* twice: the blocks in use are exactly those the topology and the          *)
(* controller know, except the token list of a widget whose tuples or       *)
(* pipeline could not be stored, which ac_parse_widgets returns without.    *)
HeapSound ==
  /\ ~heap.broken
  /\ OwnedBlocks \subseteq DOMAIN heap.live
  /\ \A b \in DOMAIN heap.live \ OwnedBlocks : heap.live[b] = "tokens"

(* A caller can remove every pipe that SOF holds: an installation that      *)
(* fails at any pipeline, component or control takes down all it made       *)
(* (ac_cleanup_installed, and the error paths of ac_install_one_pipeline).  *)
EveryPipeHeld == {pipe.id : pipe \in pipes} = installed.held

FromProject == result = "installed" /\ loaded \in DOMAIN Projects
CompNamed(pipe, id) == CHOOSE c \in pipe.comps : c.id = id
SourceEdges(pipe) == UNION {{<<CompNamed(pipe, i).name, c.name>> : i \in c.sources} : c \in pipe.comps}
SinkEdges(pipe) == UNION {{<<c.name, CompNamed(pipe, i).name>> : i \in c.sinks} : c \in pipe.comps}
ProjectEdges(pl) == {<<EdgeEnds(pl, i)[1].widget, EdgeEnds(pl, i)[2].widget>> : i \in RoutableEdges(pl)}

(* The pipe of a project has a connection for exactly the edges of the      *)
(* project, each seen from both ends, whatever buffers and graphs of DAIs   *)
(* the config service put between them.                                     *)
EdgesInstalled ==
  FromProject => \A pipe \in pipes :
    LET pl == ParseProject(Projects[loaded])[pipe.id]
    IN /\ SourceEdges(pipe) = ProjectEdges(pl) /\ SinkEdges(pipe) = ProjectEdges(pl)
       /\ {c.name : c \in pipe.comps} = {n.widget : n \in Range(pl.nodes)}

DefaultsOf(w) == {c.data : c \in {c \in Range(w.controls) : c.kind = "bytes"}}
Delivered(pipe, c) == ({c.data} \cup {s.data : s \in {s \in pipe.settings : s.id = c.id}}) \ {Nil}

(* What the project gives a module as the default of its bytes control      *)
(* reaches its component: with the configuration when it is added, or, for  *)
(* the types that take it at run time, by sof_ctrl_set.  A second bytes     *)
(* control of a component of the other kind is not delivered.               *)
DefaultsInstalled ==
  FromProject => \A pipe \in pipes : \A c \in pipe.comps :
    LET w == SelectSeq(Confs[loaded].widgets, LAMBDA v : v.name = c.name)[1]
    IN Delivered(pipe, c) = DefaultsOf(w)

(* Whatever fails on the way, nothing is left that nobody can give back:    *)
(* neither memory of the parser nor a pipe of SOF.                          *)
NothingLeaks == HeapSound /\ EveryPipeHeld

(* What is installed is the project: its edges as connections, its defaults *)
(* as the data of its components (ac_install_one_pipeline).                 *)
ProjectInstalled == EdgesInstalled /\ DefaultsInstalled
=============================================================================

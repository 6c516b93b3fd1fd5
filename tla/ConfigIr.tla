------------------------------ MODULE ConfigIr ------------------------------
(* The topology compiler of the config service as pure operators: a project *)
(* (the JSON document, read as a record) becomes an intermediate form, the  *)
(* runtime controls and install parameters of its modules, and the ALSA     *)
(* topology: widgets, the buffers inferred between them, the graph and the  *)
(* PCM capabilities. A name made by joining strings is the tuple of its     *)
(* parts; a uid is the identity it is the hash of.                          *)
EXTENDS Integers, FiniteSetsExt, SequencesExt

CONSTANTS Nil,        \* an absent JSON field
          Colliding,  \* identities that share one 32-bit hash
          Projects    \* name |-> project; a name outside it is unreadable text

-----------------------------------------------------------------------------
(* JSON fields and small helpers.                                           *)
Or(x, y) == IF x = Nil THEN y ELSE x
FirstOf(xs, default) == IF \E i \in 1..Len(xs) : xs[i] # Nil
                        THEN SelectSeq(xs, LAMBDA x : x # Nil)[1] ELSE default
Named(seq, id) == SelectSeq(seq, LAMBDA x : x.id = id)
Known(seq, id) == \E i \in 1..Len(seq) : seq[i].id = id
IsFirst(seq, id, i) == seq[i].id = id /\ \A k \in 1..(i - 1) : seq[k].id # id
First(seq, id) == seq[CHOOSE i \in 1..Len(seq) : IsFirst(seq, id, i)]
Distinct(seq) == \A i, j \in 1..Len(seq) : seq[i].id = seq[j].id => i = j
AtLeast(floor, xs) == Max({floor} \cup (xs \ {Nil, 0}))

(* 32 bits of hash over "<kind>:<identity>".                                *)
StableUid(kind, id) ==
  IF <<kind, id>> \in Colliding THEN <<"hash", "shared">> ELSE <<kind, id>>

-----------------------------------------------------------------------------
(* Module configuration handlers: which one packs a parameter, and into     *)
(* which format. A handler is [type, kind]; data is what the blob holds of  *)
(* the parameter values.                                                    *)
SofBasicTypes == {"filter.channel_remap", "delay.line", "mix.fader_balance", "filter.dsp_filter"}
BuiltinTypes == {"graph.copier", "mix.mixer", "gain.volume", "eq.iir", "rate.src", "voice.kpb"}
Builtin == SetToSeq({[type |-> t, kind |-> "sof"] : t \in SofBasicTypes})
           \o SetToSeq({[type |-> t, kind |-> "builtin"] : t \in BuiltinTypes})
Generic == [type |-> "*", kind |-> "generic"]

FindExact(handlers, type) ==
  FirstOf([i \in 1..Len(handlers) |-> IF handlers[i].type = type THEN handlers[i] ELSE Nil], Nil)
FindHandler(handlers, type) == Or(FindExact(handlers, type), FindExact(handlers, "*"))

SofFields == [t \in SofBasicTypes |->
  CASE t = "delay.line" -> {"delay_ms", "max_delay_ms", "ramp_ms"}
    [] t = "mix.fader_balance" -> {"fader", "balance", "ramp_ms"}
    [] t = "filter.dsp_filter" -> {"filter_preset"}
    [] OTHER -> {"config"}]

(* The whole configuration, or one parameter of it with every other field   *)
(* at the default the handler has for it. A scalar that cannot be read is   *)
(* replaced by its default, a table that cannot be read is refused.         *)
Scalar(value) == IF value = "invalid" THEN "handler default" ELSE value
TableTypes == {"filter.channel_remap", "filter.dsp_filter"}
PackedFields(type, given) ==
  IF type \in TableTypes /\ "config" \in given THEN {"config"} ELSE SofFields[type]
SofConfig(type, values) ==
  [f \in PackedFields(type, DOMAIN values) |->
     IF f \in DOMAIN values THEN Scalar(values[f]) ELSE "handler default"]
SofParam(type, param, value) ==
  IF type \in TableTypes THEN [f \in SofFields[type] |-> Scalar(value)]
  ELSE [f \in SofFields[type] |-> IF f = param THEN Scalar(value) ELSE "handler default"]
RefusesTable(type, values) ==
  type \in TableTypes /\ "config" \in DOMAIN values /\ values["config"] = "invalid"

Blob(format, data) == [format |-> format, data |-> data]
PackSof(type, param, values) ==
  IF IF param = "config" THEN RefusesTable(type, values) ELSE param \notin DOMAIN values THEN Nil
  ELSE Blob("sof-ipc3-bytes-v1", IF param = "config" THEN SofConfig(type, values)
                                 ELSE SofParam(type, param, values[param]))
PackGeneric(phase, vtype, param, values) ==
  IF phase = "runtime" /\ vtype = "bytes"
  THEN IF param \notin DOMAIN values \/ values[param] = "invalid" THEN Nil
       ELSE Blob("sof-ipc3-bytes-v1", values)
  ELSE Blob("as-generic-json-v1", values)
Pack(handler, phase, vtype, param, values) ==
  CASE handler.kind = "sof" -> PackSof(handler.type, param, values)
    [] handler.kind = "generic" -> PackGeneric(phase, vtype, param, values)
    [] OTHER -> Blob("as-builtin-json-v1", values)

-----------------------------------------------------------------------------
(* Ports: a declared port starts from the endpoint it refers to, an         *)
(* endpoint module (HOST or DAI) is a port by itself. Each layer of the     *)
(* JSON overrides the one before it.                                        *)
IsHostModuleType(t) == t \in {"builtin.host", "host"}
IsDaiModuleType(t) == t \in {"builtin.dai", "dai"}

NoPort == [id |-> Nil, role |-> Nil, stream |-> Nil, link |-> Nil, transport |-> Nil,
           index |-> Nil, channels |-> 0, bits |-> 0]
ApplyCapabilities(port, caps) ==
  [port EXCEPT !.channels = Or(caps.channels, @), !.bits = Or(caps.bits, IF @ = 0 THEN 32 ELSE @)]
ParseEndpoint(e) ==
  ApplyCapabilities([NoPort EXCEPT !.id = e.id, !.role = e.role, !.stream = e.stream,
                                   !.link = e.link, !.transport = e.transport, !.index = e.index],
                    e.caps)
ParsePort(port, endpoints) ==
  LET base == IF port.ref = Nil THEN NoPort ELSE ParseEndpoint(First(endpoints, port.ref))
      hinted == [base EXCEPT !.id = port.id, !.role = port.role]
      placed == IF port.hw = Nil THEN hinted
                ELSE [hinted EXCEPT !.transport = port.hw.transport,
                                    !.channels = Or(port.hw.channels, 0),
                                    !.bits = Or(port.hw.bits, 32)]
  IN ApplyCapabilities([placed EXCEPT !.index = Or(port.index, @), !.stream = Or(port.stream, @)],
                       port.caps)

(* Period, priority and core of a pipeline: frame, then sof, then runtime.  *)
ParseScheduling(s, cores) ==
  [period |-> FirstOf(<<s.runtime_period, s.sof_period,
                        IF s.block_ms \in {Nil, 0} THEN Nil ELSE s.block_ms * 1000>>, 10000),
   core |-> IF s.core_ref = Nil THEN Or(s.sof_core, 0) ELSE First(cores, s.core_ref).core,
   timer |-> s.clock \in {"timer", "wall"}]

DirectionForPipeline(domain) == IF domain \in {"capture", "radio"} THEN "capture" ELSE "playback"

-----------------------------------------------------------------------------
(* The project. The module catalogs it imports come first.                  *)
ModuleTypes(p) == p.imported \o p.types
InstanceType(p, id) == First(p.insts, id).type

ParseNode(p, pipe, n) ==
  LET inst == CASE n.kind = "module" -> n.ref [] n.kind = "module_inline" -> <<pipe, n.id>>
                [] OTHER -> Or(n.ref, n.id)
      type == CASE n.kind = "module" -> InstanceType(p, n.ref)
                [] n.kind = "module_inline" -> n.type [] OTHER -> Nil
      isEndpoint == n.kind = "module" /\ (IsHostModuleType(type) \/ IsDaiModuleType(type))
  IN [id |-> n.id, kind |-> n.kind, inst |-> inst, type |-> type, widget |-> <<pipe, n.id>>,
      endpoint |-> IF isEndpoint THEN ParseEndpoint(First(p.insts, n.ref).endpoint) ELSE Nil]

AddEndpointPorts(ports, nodes) ==
  FoldLeft(LAMBDA acc, n : IF n.endpoint = Nil \/ Known(acc, n.endpoint.id) THEN acc
                           ELSE Append(acc, n.endpoint), ports, nodes)

PipelineOf(p, j, index, nodes, ports) ==
  [id |-> j.id, name |-> j.name, index |-> index, direction |-> DirectionForPipeline(j.domain),
   rate |-> Or(j.rate, 48000), sched |-> ParseScheduling(j.sched, p.cores), ports |-> ports,
   channels |-> AtLeast(2, {q.channels : q \in Range(ports)}),
   bits |-> LET b == AtLeast(0, {q.bits : q \in Range(ports)}) IN IF b = 0 THEN 32 ELSE b,
   nodes |-> nodes,
   edges |-> FlattenSeq([i \in 1..Len(j.edges) |->
               IF j.edges[i].from # Nil /\ j.edges[i].to # Nil THEN <<j.edges[i]>> ELSE <<>>])]
PortsOf(p, j, nodes) ==
  AddEndpointPorts([i \in 1..Len(j.ports) |-> ParsePort(j.ports[i], p.endpoints)], nodes)
ParsePipeline(p, j, index) ==
  LET nodes == [i \in 1..Len(j.nodes) |-> ParseNode(p, j.id, j.nodes[i])]
  IN PipelineOf(p, j, index, nodes, PortsOf(p, j, nodes))

TypesAreValid(p) ==
  /\ Distinct(p.imported) /\ Distinct(ModuleTypes(p))
  /\ \A i \in 1..Len(ModuleTypes(p)) :
       ModuleTypes(p)[i].class = "MODULE_ADAPTER" => ModuleTypes(p)[i].uuid # Nil
InstancesAreValid(p) ==
  Distinct(p.insts) /\ \A i \in 1..Len(p.insts) : Known(ModuleTypes(p), p.insts[i].type)
NodeIsValid(p, n) ==
  /\ n.id # Nil
  /\ n.kind = "module" => Known(p.insts, n.ref)
  /\ n.kind = "module_inline" => Known(ModuleTypes(p), n.type)
PipelineIsValid(p, j) ==
  /\ j.sched.core_ref = Nil \/ Known(p.cores, j.sched.core_ref)
  /\ \A i \in 1..Len(j.ports) :
       j.ports[i].id # Nil /\ (j.ports[i].ref = Nil \/ Known(p.endpoints, j.ports[i].ref))
  /\ \A i \in 1..Len(j.nodes) : NodeIsValid(p, j.nodes[i])
ProjectIsValid(p) ==
  TypesAreValid(p) /\ InstancesAreValid(p)
  /\ \A i \in 1..Len(p.pipelines) : PipelineIsValid(p, p.pipelines[i])

ParseProject(p) == [i \in 1..Len(p.pipelines) |-> ParsePipeline(p, p.pipelines[i], i - 1)]

FindNode(pipe, id) == IF Known(pipe.nodes, id) THEN First(pipe.nodes, id) ELSE Nil
Parameters(p, node) == IF node.type = Nil THEN <<>> ELSE First(ModuleTypes(p), node.type).params

(* A document ends: what it repeats comes in sequences.                     *)
IsSequence(s) == s \in Seq(Range(s))
IsProject(p) ==
  /\ IsSequence(p.imported) /\ IsSequence(p.types) /\ IsSequence(p.insts) /\ IsSequence(p.pipelines)
  /\ \A i \in 1..Len(p.imported) : IsSequence(p.imported[i].params)
  /\ \A i \in 1..Len(p.types) : IsSequence(p.types[i].params)
  /\ \A i \in 1..Len(p.pipelines) :
       IsSequence(p.pipelines[i].nodes) /\ IsSequence(p.pipelines[i].edges)
ASSUME ProjectsAreSequences == \A name \in DOMAIN Projects : IsProject(Projects[name])

-----------------------------------------------------------------------------
(* Parameter tables: a parameter that may be set while RUNNING becomes a    *)
(* control, any other an install parameter. The SOF basic types show one    *)
(* topology control with all their defaults, carried by the first parameter.*)
Aggregates(type) == type \in SofBasicTypes
Defaults(params) == [k \in {params[i].id : i \in 1..Len(params)} |-> First(params, k).default]
AggregateBlob(p, handlers, node) ==
  Pack(FindHandler(handlers, node.type), "install", "bytes", "config", Defaults(Parameters(p, node)))

ParameterBlob(handlers, node, param, phase) ==
  Pack(FindHandler(handlers, node.type), phase, param.vtype, param.id,
       [k \in {param.id} |-> param.default])

ParamPhase(param) == IF param.running THEN "runtime" ELSE "install"

ControlOf(p, handlers, pipe, node, param) ==
  LET blob == ParameterBlob(handlers, node, param, "runtime")
      emits == ~Aggregates(node.type) \/ param.id = Parameters(p, node)[1].id
      whole == Aggregates(node.type) /\ emits
  IN [pipe |-> pipe.id, node |-> node.id, param |-> param.id, vtype |-> param.vtype,
      identity |-> <<pipe.id, node.id, node.type, param.id>>,
      format |-> blob.format, emit |-> emits,
      name |-> IF whole THEN <<pipe.id, node.id, "config">> ELSE <<pipe.id, node.id, param.id>>,
      data |-> IF whole THEN AggregateBlob(p, handlers, node).data ELSE blob.data]

NodeControls(p, handlers, pipe, node) ==
  LET params == Parameters(p, node)
  IN FlattenSeq([i \in 1..Len(params) |->
       IF params[i].running THEN <<ControlOf(p, handlers, pipe, node, params[i])>> ELSE <<>>])
PipelineControls(p, handlers, pipe) ==
  FlattenSeq([i \in 1..Len(pipe.nodes) |-> NodeControls(p, handlers, pipe, pipe.nodes[i])])
ControlsOf(p, handlers, ir) ==
  FlattenSeq([i \in 1..Len(ir) |-> PipelineControls(p, handlers, ir[i])])
Controls(p, handlers) == ControlsOf(p, handlers, ParseProject(p))

(* What may be set only before RUNNING, and the private section, which      *)
(* describes everything: pipelines, controls, install parameters, presets.  *)
InstallOf(handlers, pipe, node, param) ==
  [pipe |-> pipe.id, node |-> node.id, param |-> param.id,
   blob |-> ParameterBlob(handlers, node, param, "install")]
NodeInstalls(handlers, p, pipe, node) ==
  {InstallOf(handlers, pipe, node, q) : q \in {q \in Range(Parameters(p, node)) : ~q.running}}
PrivatePayloadOf(p, handlers, ir) ==
  [pipelines |-> {[id |-> q.id, direction |-> q.direction, ports |-> q.ports] : q \in Range(ir)},
   controls |-> {[pipe |-> c.pipe, node |-> c.node, param |-> c.param] : c \in Range(ControlsOf(p, handlers, ir))},
   installs |-> UNION {UNION {NodeInstalls(handlers, p, q, n) : n \in Range(q.nodes)} : q \in Range(ir)},
   presets |-> {preset.id : preset \in Range(p.presets)}]
PrivatePayload(p, handlers) == PrivatePayloadOf(p, handlers, ParseProject(p))

(* Every default packs, and no two different identities share a uid. The    *)
(* map of used uids holds types, parameters and controls; presets have one  *)
(* of their own that nothing checks.                                        *)
Identities(p, handlers) ==
  {<<"type", t.id>> : t \in Range(ModuleTypes(p))}
  \cup (UNION {{<<"param", t.id, q.id>> : q \in Range(t.params)} : t \in Range(ModuleTypes(p))})
  \cup {<<"control", c.identity>> : c \in Range(Controls(p, handlers))}
UidOf(identity) == StableUid(identity[1], Tail(identity))
UidsDiffer(ids) == \A a, b \in ids : UidOf(a) = UidOf(b) => a = b
NoUidCollision(p, handlers) == UidsDiffer(Identities(p, handlers))
DefaultsPack(p, handlers) ==
  \A pipe \in Range(ParseProject(p)) : \A n \in Range(pipe.nodes) :
    n.type # Nil =>
      /\ Aggregates(n.type) => AggregateBlob(p, handlers, n) # Nil
      /\ \A q \in Range(Parameters(p, n)) :
           ParameterBlob(handlers, n, q, ParamPhase(q)) # Nil
TablesAreValid(p, handlers) == DefaultsPack(p, handlers) /\ NoUidCollision(p, handlers)

(* Presets: each value names a module node of a pipeline and is packed by   *)
(* the handler of its type.                                                 *)
PresetEntryIsValid(ir, e) ==
  /\ Known(ir, e.pipeline)
  /\ LET node == FindNode(First(ir, e.pipeline), e.node)
     IN node # Nil /\ node.type # Nil /\ e.valid
PresetsAreValid(p) ==
  \A preset \in Range(p.presets) : preset.id # Nil
    /\ \A e \in Range(preset.entries) : PresetEntryIsValid(ParseProject(p), e)

-----------------------------------------------------------------------------
(* Widgets of a pipeline.                                                   *)
FindPort(pipe, node) ==
  IF node.endpoint # Nil THEN node.endpoint
  ELSE IF node.kind # "port" THEN Nil ELSE FirstOf(Named(pipe.ports, node.inst), Nil)
IsDaiPortWidget(node, pipe) ==
  \/ IsDaiModuleType(node.type)
  \/ LET port == FindPort(pipe, node)
     IN port # Nil /\ port.role = (IF pipe.direction = "playback" THEN "sink" ELSE "source")
IsHostPortWidget(node, pipe) ==
  \/ IsHostModuleType(node.type)
  \/ LET port == FindPort(pipe, node)
     IN port # Nil /\ port.role = (IF pipe.direction = "playback" THEN "source" ELSE "sink")
IsPortWidget(node, pipe) ==
  node.kind = "port" \/ IsHostPortWidget(node, pipe) \/ IsDaiPortWidget(node, pipe)

SofWidgetType(node, pipe) ==
  CASE IsPortWidget(node, pipe) /\ IsDaiPortWidget(node, pipe) ->
         IF pipe.direction = "capture" THEN "dai_out" ELSE "dai_in"
    [] IsPortWidget(node, pipe) /\ ~IsDaiPortWidget(node, pipe) ->
         IF pipe.direction = "capture" THEN "aif_out" ELSE "aif_in"
    [] ~IsPortWidget(node, pipe) ->
         CASE node.type = "gain.volume" -> "pga" [] node.type = "mix.mixer" -> "mixer"
           [] node.type = "rate.src" -> "src" [] node.type = "rate.asrc" -> "asrc"
           [] OTHER -> "effect"

(* The uuid of the type, or that of the built-in registry, if it has one.   *)
RegisteredTypes == SofBasicTypes \cup (BuiltinTypes \ {"graph.copier"})
HasSofUuid(p, node, pipe) ==
  \/ node.type # Nil /\ First(ModuleTypes(p), node.type).uuid # Nil
  \/ IsPortWidget(node, pipe) \/ node.type \in RegisteredTypes

DaiTypeForPort(port) ==
  CASE port.transport \in {"file_io", "file-io", "file_io_dai"} -> "FILE_IO"
    [] port.transport = "i2s" -> "VSI_I2S" [] port.transport = "qtdm" -> "VCA_QTDM"
    [] port.transport = "qi2s" -> "VCA_QI2S" [] port.transport = "pdm" -> "VCA_PDM"
    [] OTHER -> "VSI_TDM"
DaiOf(node, pipe) ==
  IF ~IsDaiPortWidget(node, pipe) THEN Nil
  ELSE LET port == FindPort(pipe, node)
       IN IF port = Nil THEN [type |-> "VSI_TDM", index |-> pipe.index]
          ELSE [type |-> DaiTypeForPort(port), index |-> Or(port.index, pipe.index)]
ProcessTypes ==
  [t \in {"filter.channel_remap", "delay.line", "mix.fader_balance", "filter.dsp_filter", "eq.iir", "voice.kpb"} |->
     CASE t = "filter.channel_remap" -> "CHAN_REMAP" [] t = "delay.line" -> "DELAY_LINE"
       [] t = "mix.fader_balance" -> "FADER_BALANCE" [] t = "filter.dsp_filter" -> "DSP_FILTER"
       [] t = "eq.iir" -> "EQIIR" [] t = "voice.kpb" -> "KPB"]
ProcessOf(node, pipe) ==
  IF SofWidgetType(node, pipe) # "effect" THEN Nil
  ELSE IF node.type \in DOMAIN ProcessTypes THEN ProcessTypes[node.type] ELSE node.type
StreamOf(node, pipe) ==
  LET port == FindPort(pipe, node)
  IN IF ~IsPortWidget(node, pipe) THEN Nil
     ELSE IF port = Nil THEN pipe.name
     ELSE IF IsDaiPortWidget(node, pipe) /\ port.link # Nil THEN port.link ELSE Or(port.stream, pipe.name)

(* A control a widget lists, and the sections of the controls themselves: a *)
(* bytes control whose handler does not pack the SOF format has no section. *)
ControlKind(c) == IF c.format = "sof-ipc3-bytes-v1" THEN "bytes" ELSE IF c.vtype = "enum" THEN "enum" ELSE "mixer"
ShownControl(c) == [name |-> c.name, kind |-> ControlKind(c), data |-> c.data]
IsShownBy(c, pipe, node) == c.pipe = pipe.id /\ c.node = node.id /\ c.emit
ControlsForNode(controls, pipe, node) ==
  FlattenSeq([i \in 1..Len(controls) |->
    IF IsShownBy(controls[i], pipe, node) THEN <<ShownControl(controls[i])>> ELSE <<>>])
ControlSections(controls) ==
  {[name |-> c.name, kind |-> ControlKind(c)] :
     c \in {d \in Range(controls) : d.emit /\ (d.format = "sof-ipc3-bytes-v1" \/ d.vtype # "bytes")}}

PeriodsSink(node, pipe) ==
  CASE IsHostPortWidget(node, pipe) -> IF pipe.direction = "playback" THEN 4 ELSE 0
    [] ~IsHostPortWidget(node, pipe) /\ IsDaiPortWidget(node, pipe) ->
         IF pipe.direction = "playback" THEN 0 ELSE 2
    [] OTHER -> 2
PeriodsSource(node, pipe) ==
  CASE IsHostPortWidget(node, pipe) -> IF pipe.direction = "capture" THEN 2 ELSE 0
    [] ~IsHostPortWidget(node, pipe) /\ IsDaiPortWidget(node, pipe) ->
         IF pipe.direction = "playback" THEN 2 ELSE 0
    [] OTHER -> IF node.type \in {"filter.channel_remap", "delay.line", "filter.dsp_filter"} THEN 3 ELSE 2

(* Bytes of the buffer on an edge.                                          *)
PeriodFrames(pipe) == (pipe.rate * pipe.sched.period + 999999) \div 1000000
EdgeBufferPeriods(from, to, pipe) ==
  FirstOf(<<IF PeriodsSource(from, pipe) = 0 THEN Nil ELSE PeriodsSource(from, pipe),
            IF PeriodsSink(from, pipe) = 0 THEN Nil ELSE PeriodsSink(from, pipe),
            IF PeriodsSink(to, pipe) = 0 THEN Nil ELSE PeriodsSink(to, pipe)>>, 2)
BufferBytes(from, to, pipe) ==
  EdgeBufferPeriods(from, to, pipe) * (IF pipe.bits <= 16 THEN 2 ELSE 4)
    * Max({1, pipe.channels}) * Max({1, PeriodFrames(pipe)})

Widget(name, pipe, type) ==
  [name |-> name, pipeline |-> pipe.index + 1, type |-> type, stream |-> Nil, dai |-> Nil,
   process |-> Nil, bytes |-> 0, period |-> 0, controls |-> <<>>]
SofWidget(controls, pipe, node) ==
  [Widget(node.widget, pipe, SofWidgetType(node, pipe)) EXCEPT
     !.stream = StreamOf(node, pipe), !.dai = DaiOf(node, pipe), !.process = ProcessOf(node, pipe),
     !.controls = ControlsForNode(controls, pipe, node)]
EdgeEnds(pipe, i) == <<FindNode(pipe, pipe.edges[i].from), FindNode(pipe, pipe.edges[i].to)>>
RoutableEdges(pipe) ==
  {i \in 1..Len(pipe.edges) : Known(pipe.nodes, pipe.edges[i].from) /\ Known(pipe.nodes, pipe.edges[i].to)}
BufferName(pipe, i) == <<pipe.id, "BUF", i>>
EdgeBuffer(pipe, i) ==
  [Widget(BufferName(pipe, i), pipe, "buffer") EXCEPT
     !.bytes = BufferBytes(EdgeEnds(pipe, i)[1], EdgeEnds(pipe, i)[2], pipe)]
InferredBuffers(pipe) ==
  FlattenSeq([i \in 1..Len(pipe.edges) |->
    IF i \in RoutableEdges(pipe) THEN <<EdgeBuffer(pipe, i)>> ELSE <<>>])
Scheduler(name, pipe) == [Widget(name, pipe, "scheduler") EXCEPT !.period = pipe.sched.period]
DaiScheduler(pipe, node) == Scheduler(node.widget \o <<"SCHED">>, pipe)
DaiSchedulers(pipe) ==
  FlattenSeq([i \in 1..Len(pipe.nodes) |->
    IF IsDaiPortWidget(pipe.nodes[i], pipe) THEN <<DaiScheduler(pipe, pipe.nodes[i])>> ELSE <<>>])
PipelineWidgets(controls, pipe) ==
  <<Scheduler(<<pipe.id, "SCHED">>, pipe)>>
  \o [i \in 1..Len(pipe.nodes) |-> SofWidget(controls, pipe, pipe.nodes[i])]
  \o InferredBuffers(pipe) \o DaiSchedulers(pipe)

(* Faulty variant: the graph of the DAI ends is left out on the sink side.   *)
EdgeLinesWithoutSinkDai(pipe, i) ==
  LET from == EdgeEnds(pipe, i)[1]  to == EdgeEnds(pipe, i)[2]
      filled == <<BufferName(pipe, i), from.widget>>
      drained == <<to.widget, BufferName(pipe, i)>>
  IN IF IsDaiPortWidget(from, pipe) THEN [main |-> <<drained>>, dai |-> <<filled>>]
     ELSE IF IsDaiPortWidget(to, pipe) THEN [main |-> <<filled>>, dai |-> <<>>]
     ELSE [main |-> <<filled, drained>>, dai |-> <<>>]

(* Graph lines <<sink, source>>: those of the DAI ends come in a graph of   *)
(* their own after the others.                                              *)
EdgeLines(pipe, i) ==
  LET from == EdgeEnds(pipe, i)[1]  to == EdgeEnds(pipe, i)[2]
      filled == <<BufferName(pipe, i), from.widget>>
      drained == <<to.widget, BufferName(pipe, i)>>
  IN IF IsDaiPortWidget(from, pipe) THEN [main |-> <<drained>>, dai |-> <<filled>>]
     ELSE IF IsDaiPortWidget(to, pipe) THEN [main |-> <<filled>>, dai |-> <<drained>>]
     ELSE [main |-> <<filled, drained>>, dai |-> <<>>]
MainLines(pipe) ==
  FlattenSeq([i \in 1..Len(pipe.edges) |-> IF i \in RoutableEdges(pipe) THEN EdgeLines(pipe, i).main ELSE <<>>])
DaiLines(pipe) ==
  FlattenSeq([i \in 1..Len(pipe.edges) |-> IF i \in RoutableEdges(pipe) THEN EdgeLines(pipe, i).dai ELSE <<>>])
PipelineLines(pipe) == MainLines(pipe) \o DaiLines(pipe)

(* Back-end links of the DAIs of a pipeline. Without an index of its own a   *)
(* link has its rank, where the widget has the number of the pipeline.      *)
DaiLinks(pipe) ==
  LET dais == SelectSeq(pipe.nodes, LAMBDA n : IsDaiPortWidget(n, pipe) /\ FindPort(pipe, n) # Nil)
      one(i) == LET port == FindPort(pipe, dais[i])
                IN [name |-> Or(port.link, dais[i].widget \o <<"BE">>), id |-> pipe.index * 16 + i - 1,
                    type |-> DaiTypeForPort(port), index |-> Or(port.index, i - 1)]
  IN [i \in 1..Len(dais) |-> one(i)]

Pcm(pipe) == [name |-> pipe.name, direction |-> pipe.direction,
              channels |-> pipe.channels, rate |-> Max({pipe.rate, 192000})]
AlsaConfOf(ir, controls) ==
  [widgets |-> FlattenSeq([i \in 1..Len(ir) |-> PipelineWidgets(controls, ir[i])]),
   routes |-> FlattenSeq([i \in 1..Len(ir) |-> PipelineLines(ir[i])]),
   links |-> FlattenSeq([i \in 1..Len(ir) |-> DaiLinks(ir[i])]),
   pcms |-> [i \in 1..Len(ir) |-> Pcm(ir[i])],
   controls |-> ControlSections(controls)]
GenerateAlsaConf(p, handlers) == AlsaConfOf(ParseProject(p), Controls(p, handlers))

(* What of a project stops the compiler before it writes anything, and what *)
(* stops it in the middle of writing the configuration text.                *)
Compiles(p, handlers) ==
  ProjectIsValid(p) /\ TablesAreValid(p, handlers) /\ PresetsAreValid(p)
WidgetsHaveUuids(p) ==
  \A pipe \in Range(ParseProject(p)) : \A n \in Range(pipe.nodes) : HasSofUuid(p, n, pipe)
=============================================================================

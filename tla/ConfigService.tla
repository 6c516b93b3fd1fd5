---------------------------- MODULE ConfigService ----------------------------
(* ConfigService::compile: loading the plugins that pack module parameters,  *)
(* reading and checking the project, and writing the files of the topology   *)
(* one after another, each of which may fail. The service lives as long as   *)
(* its server: the plugins of one compilation stay for the next, and so do   *)
(* the files. What the compiler makes of a project is in ConfigIr.           *)
EXTENDS ConfigIr

CONSTANTS Garbage,        \* the name of input that is no JSON
          Plugins,        \* path |-> [usable, types]: what a library registers
          DefaultPlugin,  \* path of the built-in plugin, Nil where it is not installed
          Requests,       \* [plugins, tplg] of a compilation
          MaxCompiles     \* bound: compilations

ASSUME ConfigAssumption ==
  /\ Garbage \notin DOMAIN Projects
  /\ DefaultPlugin \in DOMAIN Plugins \cup {Nil}
  /\ Requests \subseteq [plugins : Seq(DOMAIN Plugins), tplg : BOOLEAN]
  /\ Nil # "ok"
  /\ MaxCompiles \in Nat

VARIABLES input,      \* the project in the input file
          handlers,   \* ModuleConfigRegistry::handlers_ in order of registration
          libraries,  \* plugin_libraries_
          files,      \* the output directory
          call,       \* the compilation: its request and how far it is
          compiles    \* compilations so far

configVars == <<input, handlers, libraries, files, call, compiles>>

Outputs == <<"conf", "private", "ids", "private_header", "preset_header", "csv">>
AllFiles == Range(Outputs) \cup {"tplg", "alsatplg_log", "decode", "decode_log", "report"}
Torn == [of |-> "torn", with |-> <<>>]
Made == [of |-> call.of, with |-> handlers]
Idle == [pc |-> "idle", request |-> Nil, paths |-> <<>>, of |-> Nil, written |-> 0,
         tplg_built |-> FALSE, tplg_decoded |-> FALSE, ok |-> FALSE, result |-> Nil]

ConfigInit ==
  /\ input \in DOMAIN Projects
  /\ handlers = <<Generic @@ [lib |-> Nil]>>
  /\ libraries = {} /\ files = [f \in AllFiles |-> Nil]
  /\ call = Idle /\ compiles = 0

-----------------------------------------------------------------------------
Return(result) == call' = [call EXCEPT !.pc = "idle", !.result = result]
Goto(pc) == call' = [call EXCEPT !.pc = pc]

(* The project is edited between compilations.                              *)
Edit ==
  /\ call.pc = "idle" /\ input' \in DOMAIN Projects \cup {Garbage}
  /\ UNCHANGED <<handlers, libraries, files, call, compiles>>

(* ConfigService::compile, up to the plugins.                               *)
Compile(request) ==
  /\ call.pc = "idle" /\ compiles < MaxCompiles
  /\ compiles' = compiles + 1
  /\ call' = [Idle EXCEPT !.pc = "builtin", !.request = request,
                          !.paths = IF DefaultPlugin = Nil THEN <<>> ELSE <<DefaultPlugin>>]
  /\ UNCHANGED <<input, handlers, libraries, files>>

(* config.compile: a tool asks for the plugins and the binary it wants.     *)
CompileConfig == \E request \in Requests : Compile(request)

(* registerHandler refuses a second handler for a module type, and the      *)
(* plugin gives up at the first refusal: what it registered before stays.   *)
Clashes(types) ==
  {i \in 1..Len(types) : \/ FindExact(handlers, types[i].type) # Nil
                         \/ \E k \in 1..(i - 1) : types[k].type = types[i].type}
Registered(path, types) ==
  LET upTo == IF Clashes(types) = {} THEN Len(types) ELSE Min(Clashes(types)) - 1
  IN handlers \o [i \in 1..upTo |-> types[i] @@ [lib |-> path]]

(* loadPlugins: a library loaded before is skipped, one that cannot be used *)
(* fails the compilation.                                                   *)
LoadPlugin(path) ==
  LET plugin == Plugins[path] IN
  \/ /\ path \in libraries
     /\ call' = [call EXCEPT !.paths = Tail(@)]
     /\ UNCHANGED <<handlers, libraries>>
  \/ /\ path \notin libraries /\ ~plugin.usable
     /\ Return("error") /\ UNCHANGED <<handlers, libraries>>
  \/ /\ path \notin libraries /\ plugin.usable
     /\ handlers' = Registered(path, plugin.types)
     /\ IF Clashes(plugin.types) = {}
        THEN /\ libraries' = libraries \cup {path}
             /\ call' = [call EXCEPT !.paths = Tail(@)]
        ELSE Return("error") /\ UNCHANGED libraries

LoadDefaultPlugin ==
  /\ call.pc = "builtin"
  /\ IF call.paths = <<>> \/ FindExact(handlers, "filter.channel_remap") # Nil
     THEN /\ call' = [call EXCEPT !.pc = "plugins", !.paths = call.request.plugins]
          /\ UNCHANGED <<handlers, libraries>>
     ELSE LoadPlugin(call.paths[1])
  /\ UNCHANGED <<input, files, compiles>>

LoadPlugins ==
  /\ call.pc = "plugins"
  /\ IF call.paths = <<>> THEN Goto("parse") /\ UNCHANGED <<handlers, libraries>>
     ELSE LoadPlugin(call.paths[1])
  /\ UNCHANGED <<input, files, compiles>>

(* The directories are made, the input is read and everything that can be   *)
(* wrong with the project is found before the first file is written.        *)
Parse ==
  /\ call.pc = "parse"
  /\ \/ Return("error")
     \/ /\ input \in DOMAIN Projects /\ Compiles(Projects[input], handlers)
        /\ call' = [call EXCEPT !.pc = "generate", !.of = input]
  /\ UNCHANGED <<input, handlers, libraries, files, compiles>>

(* Faulty variant: the text is written without looking every uuid up first.  *)
GenerateWithoutUuids ==
  /\ call.pc = "generate" /\ Goto("write")
  /\ UNCHANGED <<input, handlers, libraries, files, compiles>>

(* The text of the topology is made in memory, outside the try of compile:  *)
(* a widget without a uuid ends it with an exception.                       *)
Generate ==
  /\ call.pc = "generate"
  /\ IF WidgetsHaveUuids(Projects[call.of]) THEN Goto("write") ELSE Return("exception")
  /\ UNCHANGED <<input, handlers, libraries, files, compiles>>

(* Faulty variant: a failed write of any but the first file is overlooked.   *)
WriteCarelessly ==
  LET file == Outputs[call.written + 1]
      next == [call EXCEPT !.written = @ + 1,
                 !.pc = IF call.written + 1 < Len(Outputs) THEN "write"
                        ELSE IF call.request.tplg THEN "alsatplg" ELSE "report"] IN
  /\ call.pc = "write"
  /\ \/ files' = [files EXCEPT ![file] = Made] /\ call' = next
     \/ call.written > 0 /\ files' = [files EXCEPT ![file] = Torn] /\ call' = next
  /\ UNCHANGED <<input, handlers, libraries, compiles>>

(* writeBytes: opened and truncated, then written; the open, the write and  *)
(* the flush may fail.                                                      *)
Write ==
  LET file == Outputs[call.written + 1] IN
  /\ call.pc = "write"
  /\ \/ /\ files' = [files EXCEPT ![file] = Made]
        /\ call' = [call EXCEPT !.written = @ + 1,
                      !.pc = IF call.written + 1 < Len(Outputs) THEN "write"
                             ELSE IF call.request.tplg THEN "alsatplg" ELSE "report"]
     \/ Return("error") /\ files' \in {files, [files EXCEPT ![file] = Torn]}
  /\ UNCHANGED <<input, handlers, libraries, compiles>>

-----------------------------------------------------------------------------
(* alsatplg, run on the text just written: it may not start, exit with an   *)
(* error, print errors and exit with success, or do its work. Where it does *)
(* not say it worked, the binary may be the old one, a part or complete.    *)
Tried(file) == {files[file], Torn, Made}

Alsatplg ==
  /\ call.pc = "alsatplg"
  /\ \/ /\ files' = [files EXCEPT !["tplg"] = Made, !["alsatplg_log"] = Made]
        /\ call' = [call EXCEPT !.pc = "decode", !.tplg_built = TRUE]
     \/ /\ \E tplg \in Tried("tplg"), log \in Tried("alsatplg_log") :
             files' = [files EXCEPT !["tplg"] = tplg, !["alsatplg_log"] = log]
        /\ Return("error")
  /\ UNCHANGED <<input, handlers, libraries, compiles>>

(* Decoding the binary back is a check only: failing it is a warning.       *)
Decode ==
  /\ call.pc = "decode"
  /\ \/ /\ files' = [files EXCEPT !["decode"] = Made, !["decode_log"] = Made]
        /\ call' = [call EXCEPT !.pc = "report", !.tplg_decoded = TRUE]
     \/ /\ \E text \in Tried("decode") :
             files' = [files EXCEPT !["decode"] = text, !["decode_log"] = Made]
        /\ Goto("report")
     \/ files' \in {files, [files EXCEPT !["decode_log"] = Torn]} /\ Return("error")
  /\ UNCHANGED <<input, handlers, libraries, compiles>>

(* The report is last. output.ok is set before it is written.               *)
Report ==
  /\ call.pc = "report"
  /\ \/ /\ files' = [files EXCEPT !["report"] = Made]
        /\ call' = [call EXCEPT !.pc = "idle", !.ok = TRUE, !.result = "ok"]
     \/ /\ files' \in {files, [files EXCEPT !["report"] = Torn]}
        /\ call' = [call EXCEPT !.pc = "idle", !.ok = TRUE, !.result = "error"]
  /\ UNCHANGED <<input, handlers, libraries, compiles>>

ConfigNext ==
  \/ Edit \/ CompileConfig
  \/ LoadDefaultPlugin \/ LoadPlugins \/ Parse \/ Generate \/ Write
  \/ Alsatplg \/ Decode \/ Report

ConfigSpec == ConfigInit /\ [][ConfigNext]_configVars

-----------------------------------------------------------------------------
(* The text of the topology, when it has just been written: no other step   *)
(* makes one.                                                               *)
NewConf == call.written = 1 /\ call.pc = "write" /\ files["conf"] \notin {Nil, Torn}
Source == Projects[files["conf"].of]
ConfOf(file) == GenerateAlsaConf(Projects[files[file].of], files[file].with)
IrOf(file) == ParseProject(Projects[files[file].of])

(* The names of a topology are joined from ids, and parseProject looks for  *)
(* no two that meet: two pipelines of one id, or a node called like the     *)
(* scheduler of its pipeline (inferredBufferName, emitPipelineScheduler).   *)
PipesApart(p) ==
  /\ Distinct(p.pipelines)
  /\ \A i \in 1..Len(p.pipelines) : \A k \in 1..Len(p.pipelines[i].edges) :
       "SCHED" \notin {p.pipelines[i].edges[k].from, p.pipelines[i].edges[k].to}
NodesApart(p) ==
  /\ Distinct(p.pipelines)
  /\ \A i \in 1..Len(p.pipelines) : Distinct(p.pipelines[i].nodes)
  /\ \A i \in 1..Len(ModuleTypes(p)) : Distinct(ModuleTypes(p)[i].params)

(* A compilation that returned success left a directory of one project: the *)
(* six files, the report, the binary if it was asked for and the decoded    *)
(* text if it says so all come from what this compilation read with the     *)
(* handlers it had, whatever earlier ones left there.                       *)
SuccessIsFresh ==
  call.result = "ok" =>
    /\ \A f \in Range(Outputs) \cup {"report"} : files[f] = Made
    /\ call.tplg_built = call.request.tplg
    /\ call.tplg_built => files["tplg"] = Made
    /\ call.tplg_decoded => files["decode"] = Made

(* compile finds what is wrong with a project before it touches the         *)
(* directory: a project that is refused, or that has a module without a     *)
(* uuid, leaves the topology built last as it was.                          *)
RefusedTouchesNothing ==
  [][files'["conf"] # files["conf"] \/ files'["tplg"] # files["tplg"] =>
       /\ Compiles(Projects[call.of], handlers)
       /\ WidgetsHaveUuids(Projects[call.of])]_configVars

(* Every edge between two nodes of a pipeline is in the topology as a path  *)
(* source -> buffer -> sink through a buffer of its own, and the graph      *)
(* holds nothing else: no line names a widget that is not declared, and no  *)
(* buffer is written or read by two widgets.                                *)
Asked(ir) == UNION {{<<<<q.id, e.from>>, <<q.id, e.to>>>> : e \in Range(q.edges)} : q \in Range(ir)}
LinesRoute(lines, widgets, buffers, asked) ==
  /\ {<<path[1][2], path[2][1]>> : path \in
        {l \in lines \X lines : l[1][1] = l[2][2] /\ l[1][1] \in buffers}}
       = {a \in asked : a[1] \in widgets /\ a[2] \in widgets}
  /\ \A l \in lines : l[1] \in widgets /\ l[2] \in widgets
  /\ \A l \in lines : (l[1] \in buffers) # (l[2] \in buffers)
  /\ \A b \in buffers : /\ Cardinality({l \in lines : l[1] = b}) = 1
                        /\ Cardinality({l \in lines : l[2] = b}) = 1
EdgesRoutedIn(conf, ir) ==
  LinesRoute(Range(conf.routes), {w.name : w \in Range(conf.widgets)},
             {w.name : w \in {v \in Range(conf.widgets) : v.type = "buffer"}}, Asked(ir))
EdgesRouted ==
  NewConf /\ PipesApart(Source) => EdgesRoutedIn(ConfOf("conf"), IrOf("conf"))

(* Every parameter of every module node is described in the private section *)
(* once: as a control if it may be set while RUNNING, those too that the    *)
(* topology does not show, and else as an install parameter.                *)
DescribesOnce(private, pipe, n, params) ==
  LET at(q) == [pipe |-> pipe.id, node |-> n.id, param |-> q.id]
  IN \A q \in Range(params) :
       (at(q) \in private.controls)
         # (\E i \in private.installs : [pipe |-> i.pipe, node |-> i.node, param |-> i.param] = at(q))
ParamsDescribedIn(p, private) ==
  \A pipe \in Range(ParseProject(p)) : \A n \in Range(pipe.nodes) :
    DescribesOnce(private, pipe, n, Parameters(p, n))
ParamsDescribed ==
  NewConf /\ NodesApart(Source) => ParamsDescribedIn(Source, PrivatePayload(Source, files["conf"].with))

(* The topology starts a SOF basic module with the defaults of its type:    *)
(* where the SOF handler of the type is loaded, the one control the module  *)
(* shows holds every parameter the handler packs, those that only other     *)
(* controls of the module change too. This needs a first parameter that may *)
(* be set while RUNNING (packAggregateTopologyDefault), and ids that tell   *)
(* pipelines, nodes and parameters apart. It says nothing of a parameter    *)
(* the handler does not pack, as the `layout` of filter.channel_remap, in   *)
(* whose place it packs a table of all four layouts (channelRemapConfig).   *)
IdsOf(params) == {q.id : q \in Range(params)}
Carries(conf, pipe, node, params) ==
  \E w \in Range(conf.widgets) :
    /\ w.name = <<pipe.id, node.id>> /\ Len(w.controls) = 1
    /\ [name |-> w.controls[1].name, kind |-> "bytes"] \in conf.controls
    /\ \A q \in Range(params) :
         q.id \in PackedFields(node.type, IdsOf(params)) =>
           w.controls[1].data[q.id] = Scalar(q.default)
ShowsAll(with, n, params) ==
  /\ n.type \in SofBasicTypes
  /\ FindHandler(with, n.type).type = n.type /\ FindHandler(with, n.type).kind = "sof"
  /\ params # <<>> /\ params[1].running
DefaultsCarriedIn(p, with, conf) ==
  \A pipe \in Range(ParseProject(p)) : \A n \in Range(pipe.nodes) :
    ShowsAll(with, n, Parameters(p, n)) => Carries(conf, pipe, n, Parameters(p, n))
DefaultsCarried ==
  NewConf /\ NodesApart(Source) => DefaultsCarriedIn(Source, files["conf"].with, ConfOf("conf"))

(* The topology says what the project says: its edges as paths, and its     *)
(* parameters, each described once and with the default SOF starts from     *)
(* (buildConfigProjectIr, generateAlsaConf, privatePayload).                *)
ProjectInTopology == EdgesRouted /\ ParamsDescribed /\ DefaultsCarried
=============================================================================

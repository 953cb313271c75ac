-------------------------- MODULE PluginRegistry --------------------------
(***************************************************************************)
(* PluginManager (main-app/src/plugin_manager.rs), the tools its plugins   *)
(* put into the ToolRegistry (plugin-interface/src/lib.rs), and the calls  *)
(* of those tools (main-app/src/tool_exec.rs).                             *)
(*                                                                         *)
(* The manager is one actor.  A load or the second half of a reload is a   *)
(* future it runs later, when other messages may have come in between; a   *)
(* scan loads file after file in one handler, while tools are called from  *)
(* other threads.  A plugin registers its tools under its own names; which *)
(* of them belong to it is found by comparing the names in the registry    *)
(* before and after its start.                                             *)
(*                                                                         *)
(* Left out: what a plugin does with events, snapshots and requests (see   *)
(* Delivery, Proactive, Pipeline), what happens when code of a library     *)
(* that is no longer mapped is called, which ends the process: Restart,    *)
(* and the call of image_describe that the pipeline adds to generate_image *)
(* (pipeline.rs:456): it runs on the actors' own thread, with the registry *)
(* locked, and not through the pool and its timeout.                       *)
(***************************************************************************)
EXTENDS Integers, FiniteSets

CONSTANTS
    Files,       \* plugin libraries
    Names,       \* plugin names
    Tools,
    NameOf,      \* the name the plugin in a file says it has
    Offers,      \* the tools it registers
    HostTools,   \* registered by main
    Instances,   \* bound on the instances that are referred to at a time
    FileOf,      \* the file each was loaded from: their path
    Calls,       \* bound on the tool calls at a time
    Threads,     \* the blocking thread pool
    MaxPending,  \* bound on the loads a file is asked for at a time
    Host, None

ASSUME PluginRegistryAssumption ==
    /\ NameOf \in [Files -> Names]
    /\ Offers \in [Files -> SUBSET Tools]
    /\ HostTools \subseteq Tools
    /\ FileOf \in [Instances -> Files]
    /\ Host \notin Instances /\ None \notin Instances /\ Host # None
    /\ IsFiniteSet(Calls) /\ Threads \in Nat \ {0} /\ MaxPending \in Nat

VARIABLES
    table,    \* plugins: the instance loaded under each name
    owned,    \* tool_names of each instance
    registry, \* whose executor each tool name has
    pending,  \* loads that were asked for and have not run
    scan,     \* files the running scan has yet to load
    timed,    \* TOOL_TIMEOUT_SECS is not 0
    call,     \* the tool calls
    clash     \* tools registered twice, by a start that failed, or by an instance
              \* that another of its name took the place of (remembered)

plugins == <<table, owned, registry, clash>>
vars == <<table, owned, registry, pending, scan, timed, call, clash>>

----------------------------------------------------------------------------
\* Data

\* work: where the tool is; gave_up: its caller was told that it timed out.
Call == [work: {"none", "queued", "running"}, gave_up: BOOLEAN]

NoCall == [work |-> "none", gave_up |-> FALSE]

Running == {c \in Calls : call[c].work = "running"}

TypeOK ==
    /\ table \in [Names -> Instances \cup {None}]
    /\ owned \in [Instances -> SUBSET Tools]
    /\ registry \in [Tools -> Instances \cup {Host, None}]
    /\ pending \in [Files -> Nat]
    /\ scan \subseteq Files /\ timed \in BOOLEAN
    /\ call \in [Calls -> Call] /\ Cardinality(Running) <= Threads
    /\ clash \subseteq Tools

Registered == {t \in Tools : registry[t] # None}

Loaded == {table[n] : n \in Names} \ {None}

\* started: the directory is scanned; main registers its own tools first.
Init ==
    /\ table = [n \in Names |-> None]
    /\ owned = [i \in Instances |-> {}]
    /\ registry = [t \in Tools |-> IF t \in HostTools THEN Host ELSE None]
    /\ pending = [f \in Files |-> 0]
    /\ scan = Files
    /\ timed \in BOOLEAN
    /\ call = [c \in Calls |-> NoCall]
    /\ clash = {}

----------------------------------------------------------------------------
\* Loading

\* An instance that nothing refers to, to stand for the new one.
Free(f, i) == FileOf[i] = f /\ i \notin Loaded /\ \A t \in Tools : registry[t] # i

\* The tools of the instance that has this name.
OwnedAs(n) == UNION {owned[j] : j \in Instances \cap {table[n]}}

\* register: the name now leads to this instance, whoever had it.
Registers(i, tools) ==
    /\ registry' = [t \in Tools |-> IF t \in tools THEN i ELSE registry[t]]
    /\ clash' = clash \cup (tools \cap Registered) \cup OwnedAs(NameOf[FileOf[i]])

\* Mutation: a plugin owns all it offers.
NewAll(f) == Offers[f]

\* diff_tool_names: those that were not there before.
New(f) == Offers[f] \ Registered

\* start succeeded.  An instance loaded under the same name before is dropped,
\* without stop() and with its tools where they are.
Starts(f, i) ==
    /\ Free(f, i)
    /\ Registers(i, Offers[f])
    /\ table' = [table EXCEPT ![NameOf[f]] = i]
    /\ owned' = [j \in Instances |->
         IF j = i THEN New(f) ELSE IF j = table[NameOf[f]] THEN {} ELSE owned[j]]

\* start failed after some tools were registered: they stay, their plugin does not.
StartFails(f, i) ==
    /\ Free(f, i)
    /\ \E tools \in SUBSET Offers[f] :
         /\ registry' = [t \in Tools |-> IF t \in tools THEN i ELSE registry[t]]
         /\ clash' = clash \cup tools
    /\ UNCHANGED <<table, owned>>

\* The file is no plugin, or its start failed before it registered anything.
CannotLoad == UNCHANGED plugins

LoadFile(f) == CannotLoad \/ \E i \in Instances : Starts(f, i) \/ StartFails(f, i)

----------------------------------------------------------------------------
\* The messages.  While a scan runs the actor handles nothing else.

LoadPlugin(f) ==
    /\ scan = {} /\ pending[f] < MaxPending
    /\ pending' = [pending EXCEPT ![f] = @ + 1]
    /\ UNCHANGED <<plugins, scan, timed, call>>

\* The future of a load or a reload runs.
LoadRuns(f) ==
    /\ scan = {} /\ pending[f] > 0
    /\ pending' = [pending EXCEPT ![f] = @ - 1]
    /\ LoadFile(f)
    /\ UNCHANGED <<scan, timed, call>>

\* Mutation: the tools stay.
RemovesOnly(n) ==
    /\ table[n] # None
    /\ table' = [table EXCEPT ![n] = None]
    /\ owned' = [owned EXCEPT ![table[n]] = {}]
    /\ UNCHANGED <<registry, clash>>

\* The plugin leaves the table, its tools the registry, and it is stopped.
Removes(n) ==
    LET i == table[n]
    IN
    /\ i # None
    /\ table' = [table EXCEPT ![n] = None]
    /\ registry' = [t \in Tools |-> IF t \in owned[i] THEN None ELSE registry[t]]
    /\ clash' = clash \ owned[i]
    /\ owned' = [owned EXCEPT ![i] = {}]

UnloadPlugin(n) ==
    /\ scan = {} /\ Removes(n)
    /\ UNCHANGED <<pending, scan, timed, call>>

\* The old instance goes at once, the new one comes later, if it does.
ReloadPlugin(n) ==
    /\ scan = {} /\ Removes(n)
    /\ pending[FileOf[table[n]]] < MaxPending
    /\ pending' = [pending EXCEPT ![FileOf[table[n]]] = @ + 1]
    /\ UNCHANGED <<scan, timed, call>>

\* A file that is loaded is loaded again.
ScanAndLoad ==
    /\ scan = {}
    /\ \E files \in SUBSET Files \ {{}} : scan' = files
    /\ UNCHANGED <<plugins, pending, timed, call>>

ScanNext(f) ==
    /\ f \in scan /\ scan' = scan \ {f}
    /\ LoadFile(f)
    /\ UNCHANGED <<pending, timed, call>>

\* stopping and StopAll: all plugins are stopped, and the host's tools go as well.
StopAll ==
    /\ scan = {}
    /\ table' = [n \in Names |-> None]
    /\ owned' = [i \in Instances |-> {}]
    /\ registry' = [t \in Tools |-> None]
    /\ clash' = {}
    /\ UNCHANGED <<pending, scan, timed, call>>

Restart ==
    /\ table' = [n \in Names |-> None]
    /\ owned' = [i \in Instances |-> {}]
    /\ registry' = [t \in Tools |-> IF t \in HostTools THEN Host ELSE None]
    /\ pending' = [f \in Files |-> 0]
    /\ scan' = Files
    /\ call' = [c \in Calls |-> NoCall]
    /\ clash' = {}
    /\ UNCHANGED timed

----------------------------------------------------------------------------
\* execute_with_timeout: the executor is cloned and runs on the blocking pool.

CallTool(c) ==
    /\ call[c] = NoCall /\ Registered # {}
    /\ call' = [call EXCEPT ![c].work = "queued"]
    /\ UNCHANGED <<plugins, pending, scan, timed>>

\* Mutation: as many threads as there are calls.
ThreadAlways(c) ==
    /\ call[c].work = "queued"
    /\ call' = [call EXCEPT ![c].work = "running"]
    /\ UNCHANGED <<plugins, pending, scan, timed>>

\* A call whose caller has given up runs all the same.
ThreadTakes(c) ==
    /\ call[c].work = "queued" /\ Cardinality(Running) < Threads
    /\ call' = [call EXCEPT ![c].work = "running"]
    /\ UNCHANGED <<plugins, pending, scan, timed>>

\* It returns or panics; a caller that still waits is told.
ToolEnds(c) ==
    /\ call[c].work = "running"
    /\ call' = [call EXCEPT ![c] = NoCall]
    /\ UNCHANGED <<plugins, pending, scan, timed>>

\* The tool goes on, or is still to begin.
TimesOut(c) ==
    /\ timed /\ call[c].work # "none" /\ ~call[c].gave_up
    /\ call' = [call EXCEPT ![c].gave_up = TRUE]
    /\ UNCHANGED <<plugins, pending, scan, timed>>

Next ==
    \/ \E f \in Files : LoadPlugin(f) \/ LoadRuns(f) \/ ScanNext(f)
    \/ \E n \in Names : UnloadPlugin(n) \/ ReloadPlugin(n)
    \/ ScanAndLoad \/ StopAll \/ Restart
    \/ \E c \in Calls : CallTool(c) \/ ThreadTakes(c) \/ ToolEnds(c) \/ TimesOut(c)

Spec == Init /\ [][Next]_vars

----------------------------------------------------------------------------
\* Properties

\* The tool_names of the loaded plugins: no two have one in common, or unloading
\* one would take away a tool of the other by right, and all are registered,
\* whatever was loaded twice, failed to start or was overwritten.
OwnersAgree ==
    \A n, m \in Names : table[n] # None =>
        /\ owned[table[n]] \subseteq Registered
        /\ m # n /\ table[m] # None => owned[table[n]] \cap owned[table[m]] = {}

\* "Unregister tools before unloading" (plugin_manager.rs:277): no tool leads into
\* a plugin that is not loaded, except where one was registered over another or
\* left behind, by a start that failed or by a plugin of the same name.
ToolsComeFromLoaded ==
    \A t \in Tools \ clash :
        registry[t] \in {Host, None} \/ (registry[t] \in Loaded /\ t \in owned[registry[t]])

=============================================================================

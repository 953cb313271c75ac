---------------------------- MODULE Plugins_proof ----------------------------
(***************************************************************************)
(* Proofs about PluginRegistry, for any libraries, names and tools, any    *)
(* number of instances and of calls, and any size of the thread pool; and  *)
(* about Memory, the plugin with the most to remember, for any peers and   *)
(* facts, any table, any ids the LLM names and any settings.               *)
(*                                                                         *)
(* The two properties of the registry need each other.  That unloading     *)
(* takes away no tool of another plugin follows from the names that no two *)
(* plugins own together; that a new plugin owns only what nobody has       *)
(* follows from all owned names being registered, and so from what         *)
(* unloading leaves.                                                       *)
(*                                                                         *)
(* Those of Memory rest on one invariant of its table (Good): outdated     *)
(* facts can be ranked by when they became outdated, which a pointer to an *)
(* outdated fact only ever increases, so that the pointers close no circle *)
(* but the one of a fact with itself.                                      *)
(***************************************************************************)
EXTENDS PluginRegistry, Memory, FiniteSetTheorems, TLAPS, WellFoundedInduction

\* TypeOK without the calls.
TablesOK ==
    /\ table \in [Names -> Instances \cup {None}]
    /\ owned \in [Instances -> SUBSET Tools]
    /\ registry \in [Tools -> Instances \cup {Host, None}]
    /\ clash \subseteq Tools

QueuesOK ==
    /\ pending \in [Files -> Nat]
    /\ scan \subseteq Files /\ timed \in BOOLEAN

CallsOK == call \in [Calls -> Call] /\ Cardinality(Running) <= Threads

OwnersInv == TablesOK /\ OwnersAgree /\ ToolsComeFromLoaded

RegistryInv == OwnersInv /\ QueuesOK /\ CallsOK

LEMMA RegistryInit == Init => RegistryInv
<1> SUFFICES ASSUME Init PROVE RegistryInv
  OBVIOUS
<1> USE PluginRegistryAssumption DEF PluginRegistryAssumption
<1>1. TablesOK /\ QueuesOK
  BY DEF Init, TablesOK, QueuesOK
<1>2. OwnersAgree /\ ToolsComeFromLoaded
  BY DEF Init, OwnersAgree, ToolsComeFromLoaded
<1>3. CallsOK
  <2>1. call \in [Calls -> Call] /\ Running = {}
    BY DEF Init, NoCall, Call, Running
  <2>2. QED
    BY <2>1, FS_EmptySet DEF CallsOK
<1>4. QED
  BY <1>1, <1>2, <1>3 DEF RegistryInv, OwnersInv

----------------------------------------------------------------------------
\* The tables

LEMMA FreshInstance ==
    ASSUME OwnersInv, NEW f \in Files, NEW i \in Instances, Free(f, i)
    PROVE  \A n \in Names : table[n] # i
  BY PluginRegistryAssumption DEF Free, Loaded, PluginRegistryAssumption

LEMMA StartsKeepsInv ==
    ASSUME OwnersInv, NEW f \in Files, NEW i \in Instances, Starts(f, i)
    PROVE  OwnersInv'
<1> USE PluginRegistryAssumption
<1>0. TablesOK /\ OwnersAgree /\ ToolsComeFromLoaded
  BY DEF OwnersInv
<1>1. /\ FileOf[i] = f /\ NameOf[f] \in Names /\ Offers[f] \subseteq Tools
      /\ \A n \in Names : table[n] # i
      /\ \A t \in Tools : registry[t] # i
  BY FreshInstance DEF Starts, Free
<1>2. /\ table' = [table EXCEPT ![NameOf[f]] = i]
      /\ registry' = [t \in Tools |-> IF t \in Offers[f] THEN i ELSE registry[t]]
      /\ clash' = clash \cup (Offers[f] \cap Registered) \cup OwnedAs(NameOf[f])
      /\ owned' = [j \in Instances |->
           IF j = i THEN New(f) ELSE IF j = table[NameOf[f]] THEN {} ELSE owned[j]]
  BY <1>1 DEF Starts, Registers
<1>3. New(f) \subseteq Tools /\ OwnedAs(NameOf[f]) \subseteq Tools
  BY <1>0, <1>1 DEF New, OwnedAs, TablesOK
<1>4. TablesOK'
  BY <1>0, <1>1, <1>2, <1>3 DEF TablesOK
<1>5. Registered \cup Offers[f] = Registered'
  BY <1>0, <1>1, <1>2 DEF Registered
<1>6. OwnersAgree'
  <2> SUFFICES ASSUME NEW n \in Names, NEW m \in Names, table'[n] # None
               PROVE  /\ owned'[table'[n]] \subseteq Registered'
                      /\ m # n /\ table'[m] # None =>
                             owned'[table'[n]] \cap owned'[table'[m]] = {}
    BY DEF OwnersAgree
  <2>1. \A k \in Names :
          /\ table'[k] = IF k = NameOf[f] THEN i ELSE table[k]
          /\ k = NameOf[f] => owned'[table'[k]] = New(f)
          /\ k # NameOf[f] /\ table[k] # None =>
                 owned'[table'[k]] \subseteq owned[table[k]]
    BY <1>0, <1>1, <1>2 DEF TablesOK
  <2>2. New(f) \subseteq Registered' /\ New(f) \cap Registered = {}
    BY <1>5 DEF New
  <2>3. \A k \in Names : table[k] # None => owned[table[k]] \subseteq Registered
    BY <1>0 DEF OwnersAgree
  <2>4. owned'[table'[n]] \subseteq Registered'
    BY <1>5, <2>1, <2>2, <2>3
  <2>5. ASSUME m # n, table'[m] # None
        PROVE  owned'[table'[n]] \cap owned'[table'[m]] = {}
    <3>1. CASE n = NameOf[f] \/ m = NameOf[f]
      BY <2>1, <2>2, <2>3, <2>5, <3>1
    <3>2. CASE n # NameOf[f] /\ m # NameOf[f]
      <4>1. owned[table[n]] \cap owned[table[m]] = {}
        BY <1>0, <2>1, <2>5, <3>2 DEF OwnersAgree
      <4>2. QED
        BY <2>1, <2>5, <3>2, <4>1
    <3>3. QED
      BY <3>1, <3>2
  <2>6. QED
    BY <2>4, <2>5
<1>7. ToolsComeFromLoaded'
  <2> SUFFICES ASSUME NEW t \in Tools, t \notin clash'
               PROVE  \/ registry'[t] \in {Host, None}
                      \/ registry'[t] \in Loaded' /\ t \in owned'[registry'[t]]
    BY DEF ToolsComeFromLoaded
  <2>1. t \notin clash /\ t \notin Offers[f] \cap Registered /\ t \notin OwnedAs(NameOf[f])
    BY <1>2
  <2>2. CASE t \in Offers[f]
    <3>1. registry'[t] = i /\ t \in New(f) /\ owned'[i] = New(f)
      BY <1>2, <2>1, <2>2 DEF New
    <3>2. i \in Loaded'
      <4>1. table'[NameOf[f]] = i
        BY <1>0, <1>1, <1>2 DEF TablesOK
      <4>2. QED
        BY <1>1, <4>1 DEF Loaded, PluginRegistryAssumption
    <3>3. QED
      BY <3>1, <3>2
  <2>3. CASE t \notin Offers[f]
    <3>1. registry'[t] = registry[t]
      BY <1>2, <2>3
    <3>2. CASE registry[t] \in {Host, None}
      BY <3>1, <3>2
    <3>3. CASE registry[t] \in Loaded /\ t \in owned[registry[t]]
      <4>1. PICK n \in Names : registry[t] = table[n]
        BY <3>3 DEF Loaded
      <4>2. registry[t] \in Instances
        BY <1>0, <3>3, <4>1 DEF Loaded, TablesOK
      <4>3. registry[t] # table[NameOf[f]]
        BY <2>1, <3>3, <4>2 DEF OwnedAs
      <4>4. registry[t] \in Loaded' /\ t \in owned'[registry[t]]
        <5>1. table'[n] = table[n]
          BY <1>0, <1>2, <4>1, <4>3 DEF TablesOK
        <5>2. registry[t] \in Loaded'
          BY <3>3, <4>1, <5>1 DEF Loaded
        <5>3. registry[t] # i
          BY <1>1
        <5>4. QED
          BY <1>2, <3>3, <4>2, <4>3, <5>2, <5>3
      <4>5. QED
        BY <3>1, <4>4
    <3>4. QED
      BY <1>0, <2>1, <3>2, <3>3 DEF ToolsComeFromLoaded
  <2>4. QED
    BY <2>2, <2>3
<1>8. QED
  BY <1>4, <1>6, <1>7 DEF OwnersInv

LEMMA StartFailsKeepsInv ==
    ASSUME OwnersInv, NEW f \in Files, NEW i \in Instances, StartFails(f, i)
    PROVE  OwnersInv'
<1> USE PluginRegistryAssumption DEF PluginRegistryAssumption
<1>0. TablesOK /\ OwnersAgree /\ ToolsComeFromLoaded
  BY DEF OwnersInv
<1>1. PICK tools \in SUBSET Offers[f] :
         /\ registry' = [t \in Tools |-> IF t \in tools THEN i ELSE registry[t]]
         /\ clash' = clash \cup tools
  BY DEF StartFails
<1>2. UNCHANGED <<table, owned>>
  BY DEF StartFails
<1>3. tools \subseteq Tools
  OBVIOUS
<1>4. TablesOK'
  BY <1>0, <1>1, <1>2, <1>3 DEF TablesOK
<1>5. Registered \subseteq Registered'
  BY <1>1 DEF Registered
<1>6. OwnersAgree'
  BY <1>0, <1>2, <1>5 DEF OwnersAgree
<1>7. ToolsComeFromLoaded'
  BY <1>0, <1>1, <1>2 DEF ToolsComeFromLoaded, Loaded
<1>8. QED
  BY <1>4, <1>6, <1>7 DEF OwnersInv

LEMMA LoadKeepsInv ==
    ASSUME OwnersInv, NEW f \in Files, LoadFile(f)
    PROVE  OwnersInv'
<1>1. CASE CannotLoad
  BY <1>1 DEF CannotLoad, plugins, OwnersInv, TablesOK, OwnersAgree, ToolsComeFromLoaded,
        Registered, Loaded
<1>2. CASE \E i \in Instances : Starts(f, i) \/ StartFails(f, i)
  BY <1>2, StartsKeepsInv, StartFailsKeepsInv
<1>3. QED
  BY <1>1, <1>2 DEF LoadFile

LEMMA RemoveKeepsInv ==
    ASSUME OwnersInv, NEW n \in Names, Removes(n)
    PROVE  OwnersInv'
<1> USE PluginRegistryAssumption
<1> DEFINE i == table[n]
<1>0. TablesOK /\ OwnersAgree /\ ToolsComeFromLoaded
  BY DEF OwnersInv
<1>1. /\ i # None
      /\ table' = [table EXCEPT ![n] = None]
      /\ registry' = [t \in Tools |-> IF t \in owned[i] THEN None ELSE registry[t]]
      /\ clash' = clash \ owned[i]
      /\ owned' = [owned EXCEPT ![i] = {}]
  BY DEF Removes
<1>2. i \in Instances /\ owned[i] \subseteq Tools
  BY <1>0, <1>1 DEF TablesOK
<1>3. TablesOK'
  BY <1>0, <1>1, <1>2 DEF TablesOK
<1>4. Registered' = Registered \ owned[i]
  BY <1>1 DEF Registered
<1>5. \A m \in Names : table'[m] # None =>
        m # n /\ table'[m] = table[m] /\ owned'[table'[m]] \subseteq owned[table[m]]
  BY <1>0, <1>1, <1>2 DEF TablesOK
<1>6. OwnersAgree'
  <2> SUFFICES ASSUME NEW m \in Names, NEW k \in Names, table'[m] # None
               PROVE  /\ owned'[table'[m]] \subseteq Registered'
                      /\ k # m /\ table'[k] # None =>
                             owned'[table'[m]] \cap owned'[table'[k]] = {}
    BY DEF OwnersAgree
  <2>1. m # n /\ table[m] # None
    BY <1>5
  <2>2. owned[table[m]] \subseteq Registered /\ owned[table[m]] \cap owned[i] = {}
    BY <1>0, <1>1, <2>1 DEF OwnersAgree
  <2>3. owned'[table'[m]] \subseteq Registered'
    BY <1>4, <1>5, <2>2
  <2>4. ASSUME k # m, table'[k] # None
        PROVE  owned'[table'[m]] \cap owned'[table'[k]] = {}
    <3>1. owned[table[m]] \cap owned[table[k]] = {}
      BY <1>0, <1>5, <2>1, <2>4 DEF OwnersAgree
    <3>2. QED
      BY <1>5, <2>4, <3>1
  <2>5. QED
    BY <2>3, <2>4
<1>7. ToolsComeFromLoaded'
  <2> SUFFICES ASSUME NEW t \in Tools, t \notin clash', t \notin owned[i],
                      registry[t] \notin {Host, None}
               PROVE  registry[t] \in Loaded' /\ t \in owned'[registry[t]]
    BY <1>1 DEF ToolsComeFromLoaded
  <2>1. registry[t] \in Loaded /\ t \in owned[registry[t]]
    BY <1>0, <1>1 DEF ToolsComeFromLoaded
  <2>2. registry[t] # i
    BY <2>1
  <2>3. PICK m \in Names : registry[t] = table[m]
    BY <2>1 DEF Loaded
  <2>4. table'[m] = table[m]
    BY <1>0, <1>1, <2>2, <2>3 DEF TablesOK
  <2>5. registry[t] \in Loaded'
    BY <2>1, <2>3, <2>4 DEF Loaded
  <2>6. owned'[registry[t]] = owned[registry[t]]
    BY <1>0, <1>1, <2>1, <2>2, <2>3 DEF TablesOK, Loaded
  <2>7. QED
    BY <2>1, <2>5, <2>6
<1>8. QED
  BY <1>3, <1>6, <1>7 DEF OwnersInv

LEMMA PluginsKept == OwnersInv /\ UNCHANGED plugins => OwnersInv'
  BY DEF plugins, OwnersInv, TablesOK, OwnersAgree, ToolsComeFromLoaded, Registered, Loaded

LEMMA OwnersPreserved == OwnersInv /\ [Next]_vars => OwnersInv'
<1> SUFFICES ASSUME OwnersInv, [Next]_vars PROVE OwnersInv'
  OBVIOUS
<1>1. ASSUME NEW f \in Files, LoadRuns(f) \/ ScanNext(f) PROVE OwnersInv'
  BY <1>1, LoadKeepsInv DEF LoadRuns, ScanNext
<1>2. ASSUME NEW n \in Names, UnloadPlugin(n) \/ ReloadPlugin(n) PROVE OwnersInv'
  BY <1>2, RemoveKeepsInv DEF UnloadPlugin, ReloadPlugin
<1>3. CASE StopAll
  <2>1. TablesOK'
    BY <1>3 DEF StopAll, OwnersInv, TablesOK
  <2>2. OwnersAgree' /\ ToolsComeFromLoaded'
    BY <1>3 DEF StopAll, OwnersAgree, ToolsComeFromLoaded
  <2>3. QED
    BY <2>1, <2>2 DEF OwnersInv
<1>4. CASE Restart
  <2>1. TablesOK'
    BY <1>4, PluginRegistryAssumption DEF Restart, TablesOK, PluginRegistryAssumption
  <2>2. OwnersAgree' /\ ToolsComeFromLoaded'
    BY <1>4 DEF Restart, OwnersAgree, ToolsComeFromLoaded
  <2>3. QED
    BY <2>1, <2>2 DEF OwnersInv
<1>5. ASSUME NEW f \in Files, LoadPlugin(f) PROVE OwnersInv'
  BY <1>5, PluginsKept DEF LoadPlugin
<1>6. CASE ScanAndLoad
  BY <1>6, PluginsKept DEF ScanAndLoad
<1>7. ASSUME NEW c \in Calls, CallTool(c) \/ ThreadTakes(c) \/ ToolEnds(c) \/ TimesOut(c)
      PROVE  OwnersInv'
  BY <1>7, PluginsKept DEF CallTool, ThreadTakes, ToolEnds, TimesOut
<1>8. CASE UNCHANGED vars
  BY <1>8, PluginsKept DEF vars, plugins
<1>9. QED
  BY <1>1, <1>2, <1>3, <1>4, <1>5, <1>6, <1>7, <1>8 DEF Next

----------------------------------------------------------------------------
\* The queues and the calls

LEMMA QueuesPreserved == QueuesOK /\ TablesOK /\ [Next]_vars => QueuesOK'
<1> SUFFICES ASSUME QueuesOK, TablesOK, [Next]_vars PROVE QueuesOK'
  OBVIOUS
<1> USE DEF QueuesOK
<1>1. ASSUME NEW f \in Files, LoadPlugin(f) PROVE QueuesOK'
  BY <1>1 DEF LoadPlugin
<1>2. ASSUME NEW f \in Files, LoadRuns(f) \/ ScanNext(f) PROVE QueuesOK'
  BY <1>2 DEF LoadRuns, ScanNext
<1>3. ASSUME NEW n \in Names, UnloadPlugin(n) \/ ReloadPlugin(n) PROVE QueuesOK'
  <2>1. CASE UnloadPlugin(n)
    BY <2>1 DEF UnloadPlugin
  <2>2. CASE ReloadPlugin(n)
    <3>1. table[n] \in Instances
      BY <2>2 DEF ReloadPlugin, Removes, TablesOK
    <3>2. FileOf[table[n]] \in Files
      BY <3>1, PluginRegistryAssumption DEF PluginRegistryAssumption
    <3>3. /\ pending' = [pending EXCEPT ![FileOf[table[n]]] = @ + 1]
          /\ UNCHANGED <<scan, timed>>
      BY <2>2 DEF ReloadPlugin
    <3>4. QED
      BY <3>2, <3>3
  <2>3. QED
    BY <1>3, <2>1, <2>2
<1>4. CASE ScanAndLoad
  BY <1>4 DEF ScanAndLoad
<1>5. CASE StopAll
  BY <1>5 DEF StopAll
<1>6. CASE Restart
  BY <1>6 DEF Restart
<1>7. ASSUME NEW c \in Calls, CallTool(c) \/ ThreadTakes(c) \/ ToolEnds(c) \/ TimesOut(c)
      PROVE  QueuesOK'
  BY <1>7 DEF CallTool, ThreadTakes, ToolEnds, TimesOut
<1>8. CASE UNCHANGED vars
  BY <1>8 DEF vars
<1>9. QED
  BY <1>1, <1>2, <1>3, <1>4, <1>5, <1>6, <1>7, <1>8 DEF Next

\* The number of running calls grows only where a thread is free.
LEMMA RunningKept ==
    ASSUME CallsOK, Running' \subseteq Running
    PROVE  Cardinality(Running') <= Threads
<1>1. IsFiniteSet(Running)
  BY PluginRegistryAssumption, FS_Subset DEF Running, PluginRegistryAssumption
<1>2. /\ Cardinality(Running') <= Cardinality(Running)
      /\ Cardinality(Running') \in Nat /\ Cardinality(Running) \in Nat
  BY <1>1, FS_Subset, FS_CardinalityType
<1>3. QED
  BY <1>2, PluginRegistryAssumption DEF CallsOK, PluginRegistryAssumption

LEMMA CallsPreserved == CallsOK /\ [Next]_vars => CallsOK'
<1> SUFFICES ASSUME CallsOK, [Next]_vars PROVE CallsOK'
  OBVIOUS
<1>0. call \in [Calls -> Call] /\ Cardinality(Running) <= Threads
  BY DEF CallsOK
<1>1. ASSUME UNCHANGED call PROVE CallsOK'
  BY <1>0, <1>1 DEF CallsOK, Running
<1>2. ASSUME NEW c \in Calls, CallTool(c) PROVE CallsOK'
  <2>1. call' \in [Calls -> Call] /\ Running' \subseteq Running
    BY <1>0, <1>2 DEF CallTool, Call, Running
  <2>2. QED
    BY <2>1, RunningKept DEF CallsOK
<1>3. ASSUME NEW c \in Calls, ThreadTakes(c) PROVE CallsOK'
  <2>1. call' \in [Calls -> Call] /\ Running' = Running \cup {c} /\ c \notin Running
    BY <1>0, <1>3 DEF ThreadTakes, Call, Running
  <2>2. IsFiniteSet(Running) /\ Cardinality(Running) \in Nat
    BY PluginRegistryAssumption, FS_Subset, FS_CardinalityType
       DEF Running, PluginRegistryAssumption
  <2>3. Cardinality(Running') = Cardinality(Running) + 1
    BY <2>1, <2>2, FS_AddElement
  <2>4. Cardinality(Running) < Threads
    BY <1>3 DEF ThreadTakes
  <2>5. QED
    BY <2>1, <2>2, <2>3, <2>4, PluginRegistryAssumption DEF CallsOK, PluginRegistryAssumption
<1>4. ASSUME NEW c \in Calls, ToolEnds(c) PROVE CallsOK'
  <2>1. call' \in [Calls -> Call] /\ Running' \subseteq Running
    BY <1>0, <1>4 DEF ToolEnds, NoCall, Call, Running
  <2>2. QED
    BY <2>1, RunningKept DEF CallsOK
<1>5. ASSUME NEW c \in Calls, TimesOut(c) PROVE CallsOK'
  <2>1. call' \in [Calls -> Call] /\ Running' \subseteq Running
    BY <1>0, <1>5 DEF TimesOut, Call, Running
  <2>2. QED
    BY <2>1, RunningKept DEF CallsOK
<1>6. CASE Restart
  <2>1. call' \in [Calls -> Call] /\ Running' \subseteq Running
    BY <1>6 DEF Restart, NoCall, Call, Running
  <2>2. QED
    BY <2>1, RunningKept DEF CallsOK
<1>7. ASSUME NEW f \in Files, LoadPlugin(f) \/ LoadRuns(f) \/ ScanNext(f) PROVE CallsOK'
  BY <1>1, <1>7 DEF LoadPlugin, LoadRuns, ScanNext
<1>8. ASSUME NEW n \in Names, UnloadPlugin(n) \/ ReloadPlugin(n) PROVE CallsOK'
  BY <1>1, <1>8 DEF UnloadPlugin, ReloadPlugin
<1>9. CASE ScanAndLoad \/ StopAll \/ UNCHANGED vars
  BY <1>1, <1>9 DEF ScanAndLoad, StopAll, vars
<1>10. QED
  BY <1>2, <1>3, <1>4, <1>5, <1>6, <1>7, <1>8, <1>9 DEF Next

----------------------------------------------------------------------------
\* The theorems

\* The inductive invariant holds always.
THEOREM RegistryInvariant == Spec => []RegistryInv
<1>1. RegistryInv /\ [Next]_vars => RegistryInv'
  BY OwnersPreserved, QueuesPreserved, CallsPreserved DEF RegistryInv, OwnersInv
<1>2. QED
  BY RegistryInit, <1>1, PTL DEF Spec

\* The types, and that no more tools run than there are threads.
THEOREM RegistryTypes == Spec => []TypeOK
<1>1. RegistryInv => TypeOK
  BY DEF RegistryInv, OwnersInv, TablesOK, QueuesOK, CallsOK, TypeOK
<1>2. QED
  BY RegistryInvariant, <1>1, PTL

\* No two loaded plugins own a tool together, and all they own is registered.
THEOREM OwnersAlwaysAgree == Spec => []OwnersAgree
<1>1. RegistryInv => OwnersAgree
  BY DEF RegistryInv, OwnersInv
<1>2. QED
  BY RegistryInvariant, <1>1, PTL

\* Except after a clash of names, a tool leads into a plugin that is loaded.
THEOREM ToolsAlwaysFromLoaded == Spec => []ToolsComeFromLoaded
<1>1. RegistryInv => ToolsComeFromLoaded
  BY DEF RegistryInv, OwnersInv
<1>2. QED
  BY RegistryInvariant, <1>1, PTL


----------------------------------------------------------------------------
(***************************************************************************)
(* Memory                                                                  *)
(***************************************************************************)

\* Induction over the natural numbers, for a set.
LEMMA SetInduction ==
    ASSUME NEW S, 0 \in S, \A n \in Nat : n \in S => n + 1 \in S
    PROVE  Nat \subseteq S
<1> SUFFICES ASSUME ~(Nat \subseteq S) PROVE FALSE
  OBVIOUS
<1> DEFINE T == Nat \ S
<1> DEFINE R == OpToRel(<,Nat)
<1>1. T \subseteq Nat /\ T # {}
  OBVIOUS
<1>2. IsWellFoundedOn(R, Nat)
  BY NatLessThanWellFounded
<1> HIDE DEF R
<1>3. PICK x \in T : \A y \in T : <<y, x>> \notin R
  BY <1>1, <1>2, WFMin
<1>4. x # 0 /\ x - 1 \in Nat /\ x - 1 \notin S
  OBVIOUS
<1>5. <<x - 1, x>> \in R
  <2> DEFINE z == <<x - 1, x>>
  <2>1. z \in Nat \X Nat /\ z[1] < z[2]
    BY <1>4
  <2> HIDE DEF z
  <2>2. z \in R
    BY <2>1 DEF R, OpToRel
  <2>3. QED
    BY <2>2 DEF z
<1>6. QED
  BY <1>3, <1>4, <1>5

----------------------------------------------------------------------------
\* The table of memories

\* Every fact once for each peer.
Table(r) ==
    /\ r \in Seq(RowType)
    /\ \A i, j \in DOMAIN r : r[i].peer = r[j].peer /\ r[i].fact = r[j].fact => i = j
    /\ \A i \in DOMAIN r : r[i].by \in {0} \cup DOMAIN r

\* Where a pointer ends: at a current fact, or at itself.
Ends(r, i) == r[i].active = 1 \/ r[i].by = i

\* Outdated facts can be ranked by when they became outdated: a successor that
\* is itself outdated became so later.
Ranks(r, rank) ==
    /\ rank \in [DOMAIN r -> Nat]
    /\ \A i \in DOMAIN r : r[i].active # 1 =>
          /\ r[i].by \in DOMAIN r
          /\ r[r[i].by].peer = r[i].peer
          /\ r[r[i].by].age <= r[i].age
          /\ r[i].by = i \/ r[r[i].by].active = 1 \/ rank[r[i].by] > rank[i]

Good(r) == Table(r) /\ \E rank : Ranks(r, rank)

\* What answers about p do to the rows of others, and to places in the table.
Apart(r, s, p) ==
    /\ DOMAIN r \subseteq DOMAIN s
    /\ \A i \in DOMAIN r : s[i].peer = r[i].peer
    /\ \A i \in DOMAIN r : r[i].peer # p => s[i] = r[i]
    /\ \A i \in DOMAIN s \ DOMAIN r : s[i].peer = p

LEMMA RowFields ==
    /\ \A r \in RowType : /\ r.peer \in Peers \cup {Nobody} /\ r.fact \in Facts
                          /\ r.active \in {-1, 0, 1} /\ r.by \in Nat
                          /\ r.age \in Nat /\ r.age <= VisibleDays + 1
    /\ 0 \in 0..(VisibleDays + 1) /\ VisibleDays \in Nat
  BY MemoryAssumption DEF RowType

LEMMA NewRow ==
    \A p \in Peers \cup {Nobody}, f \in Facts :
        /\ Row(p, f, 0) \in RowType
        /\ Row(p, f, 0).peer = p /\ Row(p, f, 0).fact = f /\ Row(p, f, 0).active = 1
        /\ Row(p, f, 0).by = 0 /\ Row(p, f, 0).age = 0
  BY MemoryAssumption DEF Row, RowType

\* A row in which some fields have changed.
LEMMA Refreshed ==
    \A r \in RowType :
        LET s == [r EXCEPT !.active = 1, !.age = 0]
        IN  s \in RowType /\ s.peer = r.peer /\ s.fact = r.fact /\ s.active = 1 /\ s.by = r.by /\ s.age = 0
<1> TAKE r \in RowType
<1>1. 0 \in 0..(VisibleDays + 1) /\ 1 \in {-1, 0, 1}
  BY MemoryAssumption
<1>2. \A v \in {-1, 0, 1}, a \in 0..(VisibleDays + 1) :
        LET s == [r EXCEPT !.active = v, !.age = a]
        IN  s \in RowType /\ s.peer = r.peer /\ s.fact = r.fact /\ s.active = v /\ s.by = r.by /\ s.age = a
  BY DEF RowType
<1>3. QED
  BY ONLY <1>1, <1>2

LEMMA Archived ==
    \A r \in RowType :
        LET s == [r EXCEPT !.active = -1]
        IN  s \in RowType /\ s.peer = r.peer /\ s.fact = r.fact /\ s.active = -1 /\ s.by = r.by /\ s.age = r.age
  BY DEF RowType

LEMMA Adopted ==
    \A r \in RowType : \A p \in Peers :
        LET s == [r EXCEPT !.peer = p]
        IN  s \in RowType /\ s.peer = p /\ s.fact = r.fact /\ s.active = r.active /\ s.by = r.by /\ s.age = r.age
  BY DEF RowType

LEMMA Aged ==
    \A r \in RowType :
        LET s == [r EXCEPT !.age = Least(r.age + 1, VisibleDays + 1)]
        IN  s \in RowType /\ s.peer = r.peer /\ s.fact = r.fact /\ s.active = r.active /\ s.by = r.by
            /\ s.age = Least(r.age + 1, VisibleDays + 1)
<1> TAKE r \in RowType
<1>1. Least(r.age + 1, VisibleDays + 1) \in 0..(VisibleDays + 1)
  BY MemoryAssumption DEF Least, RowType
<1>2. QED
  BY <1>1 DEF RowType

LEMMA UpperBound ==
    \A f : \A n \in Nat :
        (\A k \in 1..n : f[k] \in Nat) => \E b \in Nat : \A k \in 1..n : f[k] < b
<1> TAKE f
<1> DEFINE S == {n \in Nat : (\A k \in 1..n : f[k] \in Nat)
                             => \E b \in Nat : \A k \in 1..n : f[k] < b}
<1>1. 0 \in S
  OBVIOUS
<1>2. ASSUME NEW n \in Nat, n \in S PROVE n + 1 \in S
  <2> SUFFICES ASSUME \A k \in 1..(n + 1) : f[k] \in Nat
               PROVE  \E b \in Nat : \A k \in 1..(n + 1) : f[k] < b
    OBVIOUS
  <2>1. PICK b \in Nat : \A k \in 1..n : f[k] < b
    BY <1>2
  <2> DEFINE c == b + f[n + 1] + 1
  <2>2. f[n + 1] \in Nat /\ c \in Nat
    OBVIOUS
  <2>3. \A k \in 1..(n + 1) : f[k] < c
    BY <2>1, <2>2
  <2>4. QED
    BY <2>2, <2>3
<1> HIDE DEF S
<1>3. Nat \subseteq S
  BY <1>1, <1>2, SetInduction
<1>4. QED
  BY <1>3 DEF S

\* A table in which rows have changed in place.
LEMMA InPlace ==
    ASSUME NEW r \in Seq(RowType), NEW s, s = [i \in DOMAIN r |-> s[i]],
           \A i \in DOMAIN r : s[i] \in RowType
    PROVE  s \in Seq(RowType) /\ DOMAIN s = DOMAIN r /\ Len(s) = Len(r)
<1>1. DOMAIN r = 1..Len(r) /\ Len(r) \in Nat
  OBVIOUS
<1>2. s \in [1..Len(r) -> RowType]
  BY <1>1
<1>3. QED
  BY <1>1, <1>2

LEMMA TableParts ==
    \A r : Table(r) =>
        /\ r \in Seq(RowType) /\ DOMAIN r = 1..Len(r) /\ Len(r) \in Nat
        /\ \A i \in DOMAIN r : r[i] \in RowType /\ r[i].by \in {0} \cup DOMAIN r
        /\ \A i, j \in DOMAIN r : r[i].peer = r[j].peer /\ r[i].fact = r[j].fact => i = j
<1> SUFFICES ASSUME NEW r, Table(r)
             PROVE  /\ DOMAIN r = 1..Len(r) /\ Len(r) \in Nat
                    /\ \A i \in DOMAIN r : r[i] \in RowType
  BY DEF Table
<1>1. r \in Seq(RowType)
  BY DEF Table
<1>2. QED
  BY <1>1

\* The order of outdated facts is kept by changes that leave the pointers of
\* outdated rows, their peers and the order of ages alone, and make no row
\* outdated.
LEMMA RanksKept ==
    ASSUME NEW r, NEW s, NEW rank, Table(r), Ranks(r, rank), DOMAIN s = DOMAIN r,
           \A i \in DOMAIN r : s[i].active # 1 => r[i].active # 1 /\ s[i].by = r[i].by,
           \A i \in DOMAIN r : r[i].active = 1 => s[i].active = 1,
           \A i, j \in DOMAIN r : r[i].peer = r[j].peer => s[i].peer = s[j].peer,
           \A i, j \in DOMAIN r : s[i].active # 1 /\ r[j].age <= r[i].age => s[j].age <= s[i].age
    PROVE  Ranks(s, rank)
<1>1. rank \in [DOMAIN s -> Nat]
  BY DEF Ranks
<1>2. ASSUME NEW i \in DOMAIN s, s[i].active # 1
      PROVE  /\ s[i].by \in DOMAIN s
             /\ s[s[i].by].peer = s[i].peer
             /\ s[s[i].by].age <= s[i].age
             /\ s[i].by = i \/ s[s[i].by].active = 1 \/ rank[s[i].by] > rank[i]
  <2>1. r[i].active # 1 /\ s[i].by = r[i].by
    BY <1>2
  <2>2. /\ r[i].by \in DOMAIN r /\ r[r[i].by].peer = r[i].peer /\ r[r[i].by].age <= r[i].age
        /\ r[i].by = i \/ r[r[i].by].active = 1 \/ rank[r[i].by] > rank[i]
    BY <2>1 DEF Ranks
  <2>3. QED
    BY <1>2, <2>1, <2>2
<1>3. QED
  BY <1>1, <1>2 DEF Ranks

LEMMA TableKept ==
    ASSUME NEW r, NEW s, Table(r), s = [i \in DOMAIN r |-> s[i]],
           \A i \in DOMAIN r : /\ s[i] \in RowType
                               /\ s[i].peer = r[i].peer /\ s[i].fact = r[i].fact
                               /\ s[i].by \in {0} \cup DOMAIN r
    PROVE  Table(s) /\ DOMAIN s = DOMAIN r
<1>1. s \in Seq(RowType) /\ DOMAIN s = DOMAIN r
  BY InPlace, TableParts
<1>2. QED
  BY <1>1, TableParts DEF Table

\* The row of a fact after it was stored.
Stored(u, p, f, k) ==
    /\ k \in DOMAIN u /\ u[k].peer = p /\ u[k].fact = f /\ u[k].active = 1 /\ u[k].age = 0
    /\ Find(u, p, f) = {k}

LEMMA UpsertNew ==
    ASSUME NEW r, NEW p \in Peers, NEW f \in Facts, Good(r), Find(r, p, f) = {}
    PROVE  /\ Good(Upsert(r, p, f)) /\ Apart(r, Upsert(r, p, f), p)
           /\ \E k : Stored(Upsert(r, p, f), p, f, k)
<1> DEFINE e == Row(p, f, 0)
           u == Append(r, e)
           n == Len(r) + 1
<1>1. /\ r \in Seq(RowType) /\ DOMAIN r = 1..Len(r) /\ Len(r) \in Nat
      /\ \A i \in DOMAIN r : r[i] \in RowType /\ r[i].by \in {0} \cup DOMAIN r
      /\ \A i, j \in DOMAIN r : r[i].peer = r[j].peer /\ r[i].fact = r[j].fact => i = j
  BY TableParts DEF Good
<1>2. e \in RowType /\ e.peer = p /\ e.fact = f /\ e.active = 1 /\ e.by = 0 /\ e.age = 0
  BY NewRow
<1> HIDE DEF e
<1>3. u \in Seq(RowType) /\ Len(u) = n /\ n \in Nat /\ u[n] = e /\ \A i \in 1..Len(r) : u[i] = r[i]
  BY <1>1, <1>2
<1>4. DOMAIN u = DOMAIN r \cup {n} /\ n \notin DOMAIN r
  BY <1>1, <1>3
<1>5. Upsert(r, p, f) = u
  BY DEF Upsert, e
<1> HIDE DEF u, n
<1>6. \A i \in DOMAIN r : u[i] = r[i] /\ ~(r[i].peer = p /\ r[i].fact = f)
  BY <1>1, <1>3 DEF Find, Says
<1>7. Table(u)
  <2>1. \A i, j \in DOMAIN u : u[i].peer = u[j].peer /\ u[i].fact = u[j].fact => i = j
    BY <1>1, <1>2, <1>3, <1>4, <1>6
  <2>2. \A i \in DOMAIN u : u[i].by \in {0} \cup DOMAIN u
    BY <1>1, <1>2, <1>3, <1>4, <1>6
  <2>3. QED
    BY <1>3, <2>1, <2>2 DEF Table
<1>8. PICK rank : Ranks(r, rank)
  BY DEF Good
<1> DEFINE q == [i \in DOMAIN u |-> IF i \in DOMAIN r THEN rank[i] ELSE 0]
<1>9. Ranks(u, q)
  <2>1. q \in [DOMAIN u -> Nat]
    BY <1>8 DEF Ranks
  <2>2. \A i \in DOMAIN r : q[i] = rank[i] /\ i \in DOMAIN u
    BY <1>4
  <2> HIDE DEF q
  <2>3. ASSUME NEW i \in DOMAIN u, u[i].active # 1
        PROVE  /\ u[i].by \in DOMAIN u
               /\ u[u[i].by].peer = u[i].peer
               /\ u[u[i].by].age <= u[i].age
               /\ u[i].by = i \/ u[u[i].by].active = 1 \/ q[u[i].by] > q[i]
    <3>1. i \in DOMAIN r /\ u[i] = r[i]
      BY <1>2, <1>3, <1>4, <1>6, <2>3
    <3>2. /\ r[i].by \in DOMAIN r
          /\ r[r[i].by].peer = r[i].peer
          /\ r[r[i].by].age <= r[i].age
          /\ r[i].by = i \/ r[r[i].by].active = 1 \/ rank[r[i].by] > rank[i]
      BY <1>8, <2>3, <3>1 DEF Ranks
    <3>3. QED
      BY <1>6, <2>2, <3>1, <3>2
  <2>4. QED
    BY <2>1, <2>3 DEF Ranks
<1>10. Apart(r, u, p)
  BY <1>2, <1>3, <1>4, <1>6 DEF Apart
<1>11. Stored(u, p, f, n)
  BY <1>2, <1>3, <1>4, <1>6 DEF Stored, Find, Says
<1>12. QED
  BY <1>5, <1>7, <1>9, <1>10, <1>11 DEF Good


LEMMA UpsertKnown ==
    ASSUME NEW r, NEW p \in Peers, NEW f \in Facts, Good(r), Find(r, p, f) # {}
    PROVE  /\ Good(Upsert(r, p, f)) /\ Apart(r, Upsert(r, p, f), p)
           /\ \E k : Stored(Upsert(r, p, f), p, f, k)
<1> DEFINE u == [i \in DOMAIN r |->
                    IF Says(r[i], p, f) THEN [r[i] EXCEPT !.active = 1, !.age = 0] ELSE r[i]]
<1>1. /\ Table(r) /\ DOMAIN r = 1..Len(r)
      /\ \A i \in DOMAIN r : r[i] \in RowType /\ r[i].by \in {0} \cup DOMAIN r
      /\ \A i, j \in DOMAIN r : r[i].peer = r[j].peer /\ r[i].fact = r[j].fact => i = j
  BY TableParts DEF Good
<1>2. Upsert(r, p, f) = u
  BY DEF Upsert
<1>3. PICK k \in DOMAIN r : Says(r[k], p, f)
  BY DEF Find
<1>4. \A i \in DOMAIN r : i # k => u[i] = r[i] /\ ~Says(r[i], p, f)
  BY <1>1, <1>3 DEF Says
<1>5. u[k] = [r[k] EXCEPT !.active = 1, !.age = 0]
  BY <1>3
<1>6. /\ u[k] \in RowType /\ u[k].peer = r[k].peer /\ u[k].fact = r[k].fact
      /\ u[k].active = 1 /\ u[k].by = r[k].by /\ u[k].age = 0
  BY <1>1, <1>3, <1>5, Refreshed
<1>7. u = [i \in DOMAIN r |-> u[i]]
  OBVIOUS
<1> HIDE DEF u
<1>8. \A i \in DOMAIN r : /\ u[i] \in RowType
                          /\ u[i].peer = r[i].peer /\ u[i].fact = r[i].fact
                          /\ u[i].by = r[i].by
  BY <1>1, <1>4, <1>6
<1>9. Table(u) /\ DOMAIN u = DOMAIN r
  BY <1>1, <1>7, <1>8, TableKept
<1>10. PICK rank : Ranks(r, rank)
  BY DEF Good
<1>11. Ranks(u, rank)
  <2>1. \A i \in DOMAIN r : u[i].active # 1 => i # k /\ r[i].active # 1 /\ u[i].by = r[i].by
    BY <1>4, <1>6
  <2>2. \A i \in DOMAIN r : r[i].active = 1 => u[i].active = 1
    BY <1>4, <1>6
  <2>3. \A i, j \in DOMAIN r : r[i].peer = r[j].peer => u[i].peer = u[j].peer
    BY <1>8
  <2>4. ASSUME NEW i \in DOMAIN r, NEW j \in DOMAIN r, u[i].active # 1, r[j].age <= r[i].age
        PROVE  u[j].age <= u[i].age
    <3>1. u[i] = r[i] /\ u[i].age \in Nat
      BY <1>1, <1>4, <2>1, <2>4, RowFields
    <3>2. CASE j = k
      BY <1>6, <3>1, <3>2
    <3>3. CASE j # k
      BY <1>4, <2>4, <3>1, <3>3
    <3>4. QED
      BY <3>2, <3>3
  <2>5. QED
    BY <1>1, <1>9, <1>10, <2>1, <2>2, <2>3, <2>4, RanksKept
<1>12. Apart(r, u, p)
  BY <1>4, <1>3, <1>8, <1>9 DEF Apart, Says
<1>13. Stored(u, p, f, k)
  BY <1>3, <1>4, <1>6, <1>9 DEF Stored, Find, Says
<1>14. QED
  BY <1>2, <1>9, <1>11, <1>12, <1>13 DEF Good

LEMMA UpsertGood ==
    ASSUME NEW r, NEW p \in Peers, NEW f \in Facts, Good(r)
    PROVE  /\ Good(Upsert(r, p, f)) /\ Apart(r, Upsert(r, p, f), p)
           /\ \E k : Stored(Upsert(r, p, f), p, f, k)
  BY UpsertNew, UpsertKnown

\* What has become outdated last gets the highest rank: the rows whose
\* successor it was point to a later one still.
LEMMA SupersedeGood ==
    ASSUME NEW r, NEW p \in Peers, NEW f \in Facts, NEW old, NEW k, Good(r), Stored(r, p, f, k)
    PROVE  Good(Supersede(r, p, old, k)) /\ Apart(r, Supersede(r, p, old, k), p)
<1> DEFINE s == [i \in DOMAIN r |->
                    IF i = old /\ r[i].peer = p /\ r[i].active = 1
                    THEN [r[i] EXCEPT !.active = 0, !.by = k] ELSE r[i]]
<1>1. /\ Table(r) /\ DOMAIN r = 1..Len(r) /\ Len(r) \in Nat
      /\ \A i \in DOMAIN r : r[i] \in RowType /\ r[i].by \in {0} \cup DOMAIN r
      /\ \A i, j \in DOMAIN r : r[i].peer = r[j].peer /\ r[i].fact = r[j].fact => i = j
  BY TableParts DEF Good
<1>2. Supersede(r, p, old, k) = s
  BY DEF Supersede
<1>3. k \in DOMAIN r /\ k \in Nat /\ r[k].peer = p /\ r[k].active = 1 /\ r[k].age = 0
  BY <1>1 DEF Stored
<1>4. CASE old \in DOMAIN r /\ r[old].peer = p /\ r[old].active = 1
  <2>1. \A i \in DOMAIN r : i # old => s[i] = r[i]
    OBVIOUS
  <2>2. s[old] = [r[old] EXCEPT !.active = 0, !.by = k]
    BY <1>4
  <2>3. s = [i \in DOMAIN r |-> s[i]]
    OBVIOUS
  <2> HIDE DEF s
  <2>4. r[old] \in RowType /\ k \in Nat
    BY <1>1, <1>3, <1>4
  <2>14. /\ s[old] \in RowType /\ s[old].peer = p /\ s[old].fact = r[old].fact
         /\ s[old].active = 0 /\ s[old].by = k /\ s[old].age = r[old].age
    BY ONLY <1>4, <2>2, <2>4 DEF RowType
  <2>5. \A i \in DOMAIN r : /\ s[i] \in RowType
                            /\ s[i].peer = r[i].peer /\ s[i].fact = r[i].fact /\ s[i].age = r[i].age
                            /\ s[i].by \in {0} \cup DOMAIN r
    BY <1>1, <1>3, <1>4, <2>1, <2>14
  <2>6. Table(s) /\ DOMAIN s = DOMAIN r
    BY <1>1, <2>3, <2>5, TableKept
  <2>7. PICK rank : Ranks(r, rank)
    BY DEF Good
  <2>8. PICK b \in Nat : \A i \in 1..Len(r) : rank[i] < b
    BY <1>1, <2>7, UpperBound DEF Ranks
  <2> DEFINE q == [i \in DOMAIN r |-> IF i = old THEN b ELSE rank[i]]
  <2>9. /\ q \in [DOMAIN r -> Nat] /\ q[old] = b
        /\ \A i \in DOMAIN r : i # old => q[i] = rank[i] /\ q[i] < b
    BY <1>1, <1>4, <2>7, <2>8 DEF Ranks
  <2> HIDE DEF q
  <2>10. ASSUME NEW i \in DOMAIN s, s[i].active # 1
         PROVE  /\ s[i].by \in DOMAIN s
                /\ s[s[i].by].peer = s[i].peer
                /\ s[s[i].by].age <= s[i].age
                /\ s[i].by = i \/ s[s[i].by].active = 1 \/ q[s[i].by] > q[i]
    <3>1. CASE i = old
      <4>1. s[i].by = k /\ k \in DOMAIN s /\ s[k].peer = p /\ s[i].peer = p
        BY <1>3, <1>4, <2>14, <2>5, <2>6, <3>1
      <4>2. s[k].age = 0 /\ s[i].age \in Nat
        BY <1>3, <2>5, <2>6, RowFields
      <4>3. k = i \/ s[k].active = 1
        BY <1>3, <2>1, <3>1
      <4>4. QED
        BY <4>1, <4>2, <4>3
    <3>2. CASE i # old
      <4>1. i \in DOMAIN r /\ s[i] = r[i]
        BY <2>1, <2>6, <3>2
      <4>2. /\ r[i].by \in DOMAIN r /\ r[r[i].by].peer = r[i].peer /\ r[r[i].by].age <= r[i].age
            /\ r[i].by = i \/ r[r[i].by].active = 1 \/ rank[r[i].by] > rank[i]
        BY <2>7, <2>10, <4>1 DEF Ranks
      <4>3. s[r[i].by].peer = s[i].peer /\ s[r[i].by].age <= s[i].age
        BY <2>5, <4>1, <4>2
      <4>4. CASE r[i].by = old
        <5>1. q[old] > q[i]
          BY <2>9, <3>2, <4>1
        <5>2. QED
          BY <2>6, <4>1, <4>2, <4>3, <4>4, <5>1
      <4>5. CASE r[i].by # old
        <5>1. s[r[i].by] = r[r[i].by] /\ q[r[i].by] = rank[r[i].by] /\ q[i] = rank[i]
          BY <2>1, <2>9, <3>2, <4>1, <4>2, <4>5
        <5>2. QED
          BY <2>6, <4>1, <4>2, <4>3, <5>1
      <4>6. QED
        BY <4>4, <4>5
    <3>3. QED
      BY <3>1, <3>2
  <2>11. Ranks(s, q)
    BY <2>6, <2>9, <2>10 DEF Ranks
  <2>12. Apart(r, s, p)
    BY <1>4, <2>1, <2>5, <2>6 DEF Apart
  <2>13. QED
    BY <1>2, <2>6, <2>11, <2>12 DEF Good
<1>5. CASE ~(old \in DOMAIN r /\ r[old].peer = p /\ r[old].active = 1)
  <2>1. s = [i \in DOMAIN r |-> r[i]]
    BY <1>5
  <2>2. r = [i \in DOMAIN r |-> r[i]]
    BY <1>1 DEF Table
  <2>3. s = r
    BY <2>1, <2>2
  <2>4. QED
    BY <1>2, <2>3 DEF Apart
<1>6. QED
  BY <1>4, <1>5

LEMMA ApartTransitive ==
    \A r, s, t, p : Apart(r, s, p) /\ Apart(s, t, p) => Apart(r, t, p)
  BY DEF Apart

LEMMA StoreOneGood ==
    ASSUME NEW r, NEW p \in Peers, NEW x, x.fact \in Facts, Good(r)
    PROVE  Good(StoreOne(r, p, x)) /\ Apart(r, StoreOne(r, p, x), p)
<1> DEFINE u == Upsert(r, p, x.fact)
<1>1. Good(u) /\ Apart(r, u, p)
  BY UpsertGood
<1>2. PICK k : Stored(u, p, x.fact, k)
  BY UpsertGood
<1> HIDE DEF u
<1>3. (CHOOSE i \in Find(u, p, x.fact) : TRUE) = k
  BY <1>2 DEF Stored
<1>4. StoreOne(r, p, x) = Supersede(u, p, x.supersedes, k)
  BY <1>3 DEF StoreOne, u
<1>5. Good(Supersede(u, p, x.supersedes, k)) /\ Apart(u, Supersede(u, p, x.supersedes, k), p)
  BY <1>1, <1>2, SupersedeGood
<1>6. QED
  BY <1>1, <1>4, <1>5, ApartTransitive


----------------------------------------------------------------------------
\* An answer, fact by fact

\* after[k] is the table after the first k facts of the answer.
IsStoring(after, r, p, xs, n) ==
    after = [k \in 0..n |-> IF k = 0 THEN r ELSE StoreOne(after[k - 1], p, xs[k])]

LEMMA StoringExists == \A r, p, xs : \A n \in Nat : \E after : IsStoring(after, r, p, xs, n)
<1> TAKE r, p, xs
<1> DEFINE S == {n \in Nat : \E after : IsStoring(after, r, p, xs, n)}
<1>1. 0 \in S
  <2> DEFINE h == [k \in 0..0 |-> r]
  <2>1. h = [k \in 0..0 |-> IF k = 0 THEN r ELSE StoreOne(h[k - 1], p, xs[k])]
    OBVIOUS
  <2>2. QED
    BY <2>1 DEF IsStoring
<1>2. ASSUME NEW n \in Nat, n \in S PROVE n + 1 \in S
  <2>1. PICK g : IsStoring(g, r, p, xs, n)
    BY <1>2
  <2> DEFINE h == [k \in 0..(n + 1) |-> IF k <= n THEN g[k] ELSE StoreOne(g[n], p, xs[k])]
  <2>2. ASSUME NEW k \in 0..(n + 1)
        PROVE  h[k] = IF k = 0 THEN r ELSE StoreOne(h[k - 1], p, xs[k])
    <3>1. CASE k = 0
      BY <3>1, <2>1 DEF IsStoring
    <3>2. CASE k \in 1..n
      <4>1. g[k] = StoreOne(g[k - 1], p, xs[k])
        BY <3>2, <2>1 DEF IsStoring
      <4>2. h[k] = g[k] /\ h[k - 1] = g[k - 1]
        BY <3>2
      <4>3. QED
        BY <4>1, <4>2, <3>2
    <3>3. CASE k = n + 1
      <4>1. h[k] = StoreOne(g[n], p, xs[k]) /\ h[k - 1] = g[n]
        BY <3>3
      <4>2. QED
        BY <4>1, <3>3
    <3>4. QED
      BY <3>1, <3>2, <3>3
  <2>3. h = [k \in 0..(n + 1) |-> h[k]]
    OBVIOUS
  <2> HIDE DEF h
  <2>4. h = [k \in 0..(n + 1) |-> IF k = 0 THEN r ELSE StoreOne(h[k - 1], p, xs[k])]
    BY <2>2, <2>3
  <2>5. QED
    BY <2>4 DEF IsStoring
<1> HIDE DEF S
<1>3. Nat \subseteq S
  BY <1>1, <1>2, SetInduction
<1>4. QED
  BY <1>3 DEF S

LEMMA StoreEachIsLast ==
    \A r, p, xs : Len(xs) \in Nat =>
        \E after : IsStoring(after, r, p, xs, Len(xs)) /\ StoreEach(r, p, xs) = after[Len(xs)]
<1> TAKE r, p, xs
<1> HAVE Len(xs) \in Nat
<1> DEFINE g == CHOOSE g : IsStoring(g, r, p, xs, Len(xs))
<1>1. IsStoring(g, r, p, xs, Len(xs))
  BY StoringExists
<1>2. StoreEach(r, p, xs) = g[Len(xs)]
  BY DEF StoreEach, IsStoring
<1>3. QED
  BY <1>1, <1>2

\* An answer: a sequence of extracted facts.
IsAnswer(xs) == Len(xs) \in Nat /\ \A k \in 1..Len(xs) : xs[k].fact \in Facts

LEMMA StoreEachGood ==
    ASSUME NEW r, NEW p \in Peers, NEW xs, IsAnswer(xs), Good(r)
    PROVE  Good(StoreEach(r, p, xs)) /\ Apart(r, StoreEach(r, p, xs), p)
<1>1. PICK after : IsStoring(after, r, p, xs, Len(xs)) /\ StoreEach(r, p, xs) = after[Len(xs)]
  BY StoreEachIsLast DEF IsAnswer
<1>2. Len(xs) \in Nat /\ \A k \in 1..Len(xs) : xs[k].fact \in Facts
  BY DEF IsAnswer
<1> DEFINE Fine(k) == Good(after[k]) /\ Apart(r, after[k], p)
           S == {k \in Nat : k <= Len(xs) => Fine(k)}
<1>3. 0 \in S
  <2>1. after[0] = r
    BY <1>1, <1>2 DEF IsStoring
  <2>2. Apart(r, r, p)
    BY DEF Apart
  <2>3. QED
    BY <2>1, <2>2
<1>4. ASSUME NEW k \in Nat, k \in S PROVE k + 1 \in S
  <2> SUFFICES ASSUME k + 1 <= Len(xs) PROVE Fine(k + 1)
    OBVIOUS
  <2>1. Good(after[k]) /\ Apart(r, after[k], p)
    BY <1>2, <1>4
  <2>2. k + 1 \in 1..Len(xs) /\ k + 1 # 0 /\ (k + 1) - 1 = k
    BY <1>2
  <2>3. after[k + 1] = StoreOne(after[(k + 1) - 1], p, xs[k + 1])
    BY <1>1, <2>2 DEF IsStoring
  <2>4. after[k + 1] = StoreOne(after[k], p, xs[k + 1]) /\ xs[k + 1].fact \in Facts
    BY <1>2, <2>2, <2>3
  <2>5. Good(after[k + 1]) /\ Apart(after[k], after[k + 1], p)
    BY <2>1, <2>4, StoreOneGood
  <2>6. QED
    BY <2>1, <2>5, ApartTransitive
<1> HIDE DEF S
<1>5. Nat \subseteq S
  BY <1>3, <1>4, SetInduction
<1>6. Fine(Len(xs))
  BY <1>2, <1>5 DEF S
<1>7. QED
  BY <1>1, <1>6

\* Archiving keeps what is outdated outdated.
ArchivedOnly(r, s) ==
    /\ DOMAIN s = DOMAIN r
    /\ \A i \in DOMAIN r : s[i] = r[i] \/ (r[i].active = 0 /\ s[i] = [r[i] EXCEPT !.active = -1])

LEMMA ArchiveGood ==
    ASSUME NEW r, Good(r)
    PROVE  Good(Archive(r)) /\ ArchivedOnly(r, Archive(r))
<1> DEFINE s == Archive(r)
<1>1. /\ Table(r) /\ \A i \in DOMAIN r : r[i] \in RowType /\ r[i].by \in {0} \cup DOMAIN r
  BY TableParts DEF Good
<1>2. s = [i \in DOMAIN r |-> s[i]]
  BY DEF Archive
<1>8. \A i \in DOMAIN r : s[i] = r[i] \/ (r[i].active = 0 /\ s[i] = [r[i] EXCEPT !.active = -1])
  BY DEF Archive
<1> HIDE DEF s
<1>3. \A i \in DOMAIN r : /\ s[i] \in RowType
                          /\ s[i].peer = r[i].peer /\ s[i].fact = r[i].fact
                          /\ s[i].by = r[i].by /\ s[i].age = r[i].age
                          /\ s[i].active = 1 <=> r[i].active = 1
  <2> TAKE i \in DOMAIN r
  <2>1. r[i] \in RowType
    BY <1>1
  <2>2. CASE s[i] = r[i]
    BY <2>1, <2>2
  <2>3. CASE r[i].active = 0 /\ s[i] = [r[i] EXCEPT !.active = -1]
    BY ONLY <2>1, <2>3 DEF RowType
  <2>4. QED
    BY <1>8, <2>2, <2>3
<1>4. Table(s) /\ DOMAIN s = DOMAIN r
  BY <1>1, <1>2, <1>3, TableKept
<1>5. PICK rank : Ranks(r, rank)
  BY DEF Good
<1>6. Ranks(s, rank)
  BY <1>1, <1>3, <1>4, <1>5, RanksKept
<1>7. ArchivedOnly(r, s)
  BY <1>4, <1>8 DEF ArchivedOnly
<1>9. QED
  BY <1>4, <1>6, <1>7 DEF Good, s


----------------------------------------------------------------------------
\* The steps of the plugin

CountsOK ==
    /\ count \in [Peers -> Nat] /\ offered \in [Peers -> Nat \cup {NotAsking}]
    /\ \A p \in Peers : /\ count[p] \in 0..MaxCount[p]
                        /\ offered[p] \in {NotAsking} \cup ExtractEvery..MaxCount[p]
    /\ owner \in Peers \cup {Nobody}

MemoryInv == Good(rows) /\ CountsOK

\* Old rows are adopted together, so what is outdated is adopted with its
\* successor.
Adopts(r, s) ==
    /\ DOMAIN s = DOMAIN r
    /\ \A i \in DOMAIN r :
          s[i] = r[i] \/ (r[i].peer = Nobody /\ s[i] = [r[i] EXCEPT !.peer = owner])

LEMMA BackfillGood == Good(rows) /\ CountsOK => Good(Backfill) /\ Adopts(rows, Backfill)
<1> SUFFICES ASSUME Good(rows), CountsOK PROVE Good(Backfill) /\ Adopts(rows, Backfill)
  OBVIOUS
<1> DEFINE fails == owner = Nobody
                    \/ \E i \in Ids : rows[i].peer = Nobody /\ Find(rows, owner, rows[i].fact) # {}
           s == [i \in Ids |-> IF rows[i].peer = Nobody THEN [rows[i] EXCEPT !.peer = owner]
                                                        ELSE rows[i]]
<1>1. CASE fails
  <2>1. Backfill = rows
    BY <1>1 DEF Backfill
  <2>2. QED
    BY <2>1 DEF Adopts
<1>2. CASE ~fails
  <2>1. Backfill = s
    BY <1>2 DEF Backfill
  <2>2. owner \in Peers /\ \A i \in Ids : rows[i].peer = Nobody => Find(rows, owner, rows[i].fact) = {}
    BY <1>2 DEF CountsOK
  <2>3. /\ Table(rows)
        /\ \A i \in Ids : rows[i] \in RowType /\ rows[i].by \in {0} \cup Ids
        /\ \A i, j \in Ids : rows[i].peer = rows[j].peer /\ rows[i].fact = rows[j].fact => i = j
    BY TableParts DEF Good, Ids
  <2>4. s = [i \in DOMAIN rows |-> s[i]] /\ DOMAIN s = DOMAIN rows
    BY DEF Ids
  <2>5. /\ \A i \in Ids : rows[i].peer # Nobody => s[i] = rows[i]
        /\ \A i \in Ids : rows[i].peer = Nobody => s[i] = [rows[i] EXCEPT !.peer = owner]
    OBVIOUS
  <2> HIDE DEF s, fails
  <2>6. \A i \in Ids : /\ s[i] \in RowType
                       /\ s[i].peer = (IF rows[i].peer = Nobody THEN owner ELSE rows[i].peer)
                       /\ s[i].fact = rows[i].fact /\ s[i].active = rows[i].active
                       /\ s[i].by = rows[i].by /\ s[i].age = rows[i].age
    <3> TAKE i \in Ids
    <3>1. rows[i] \in RowType
      BY <2>3
    <3>2. CASE rows[i].peer # Nobody
      BY <2>5, <3>1, <3>2
    <3>3. CASE rows[i].peer = Nobody
      <4>1. s[i] = [rows[i] EXCEPT !.peer = owner]
        BY <2>5, <3>3
      <4>2. QED
        BY ONLY <2>2, <3>1, <3>3, <4>1 DEF RowType
    <3>4. QED
      BY <3>2, <3>3
  <2>7. \A i, j \in Ids : s[i].peer = s[j].peer /\ s[i].fact = s[j].fact => i = j
    <3> SUFFICES ASSUME NEW i \in Ids, NEW j \in Ids, s[i].peer = s[j].peer, s[i].fact = s[j].fact
                 PROVE  i = j
      OBVIOUS
    <3>1. \A a, b \in Ids : rows[a].peer = Nobody /\ rows[b].peer = owner => rows[a].fact # rows[b].fact
      BY <2>2 DEF Find, Says, Ids
    <3>2. rows[i].fact = rows[j].fact
      BY <2>6
    <3>3. rows[i].peer = rows[j].peer
      BY <2>6, <3>1, <3>2
    <3>4. QED
      BY <2>3, <3>2, <3>3
  <2>8. s \in Seq(RowType)
    BY <2>3, <2>4, <2>6, InPlace, TableParts DEF Ids
  <2>9. Table(s)
    BY <2>3, <2>4, <2>6, <2>7, <2>8 DEF Table, Ids
  <2>10. PICK rank : Ranks(rows, rank)
    BY DEF Good
  <2>11. Ranks(s, rank)
    BY <2>3, <2>4, <2>6, <2>10, RanksKept DEF Ids
  <2>12. Adopts(rows, s)
    BY <2>4, <2>5 DEF Adopts, Ids
  <2>13. QED
    BY <2>1, <2>9, <2>11, <2>12 DEF Good
<1>3. QED
  BY <1>1, <1>2

\* A day more for each row: the order of ages stays, also at the bound.
Older(r, s) ==
    /\ DOMAIN s = DOMAIN r
    /\ \A i \in DOMAIN r : s[i] = [r[i] EXCEPT !.age = Least(r[i].age + 1, VisibleDays + 1)]

LEMMA OlderGood ==
    ASSUME NEW r, NEW s, Good(r), s = [i \in DOMAIN r |-> s[i]], Older(r, s)
    PROVE  Good(s)
<1>1. Table(r) /\ \A i \in DOMAIN r : r[i] \in RowType /\ r[i].by \in {0} \cup DOMAIN r
  BY TableParts DEF Good
<1>2. \A i \in DOMAIN r : /\ s[i] \in RowType
                          /\ s[i].peer = r[i].peer /\ s[i].fact = r[i].fact
                          /\ s[i].active = r[i].active /\ s[i].by = r[i].by
                          /\ s[i].age = Least(r[i].age + 1, VisibleDays + 1)
  <2> TAKE i \in DOMAIN r
  <2>1. r[i] \in RowType /\ s[i] = [r[i] EXCEPT !.age = Least(r[i].age + 1, VisibleDays + 1)]
    BY <1>1 DEF Older
  <2>2. Least(r[i].age + 1, VisibleDays + 1) \in 0..(VisibleDays + 1)
    BY <2>1, RowFields DEF Least
  <2>3. QED
    BY ONLY <2>1, <2>2 DEF RowType
<1>3. Table(s) /\ DOMAIN s = DOMAIN r
  BY <1>1, <1>2, TableKept
<1>4. PICK rank : Ranks(r, rank)
  BY DEF Good
<1>5. \A i, j \in DOMAIN r : r[j].age <= r[i].age => s[j].age <= s[i].age
  <2> TAKE i, j \in DOMAIN r
  <2>1. r[i].age \in Nat /\ r[j].age \in Nat /\ VisibleDays \in Nat
    BY <1>1, RowFields
  <2>2. QED
    BY <1>2, <2>1 DEF Least
<1>6. Ranks(s, rank)
  BY <1>1, <1>2, <1>3, <1>4, <1>5, RanksKept
<1>7. QED
  BY <1>3, <1>6 DEF Good

LEMMA MemoryInitInv == MemoryInit => MemoryInv
<1> SUFFICES ASSUME MemoryInit PROVE MemoryInv
  OBVIOUS
<1>1. PICK n \in 0..Cardinality(Legacy) : \E s \in [1..n -> Legacy] :
            /\ \A i, j \in 1..n : s[i] = s[j] => i = j
            /\ rows = [i \in 1..n |-> Row(Nobody, s[i], 0)]
  BY DEF MemoryInit
<1>2. PICK s \in [1..n -> Legacy] :
            /\ \A i, j \in 1..n : s[i] = s[j] => i = j
            /\ rows = [i \in 1..n |-> Row(Nobody, s[i], 0)]
  BY <1>1
<1>3. n \in Nat
  BY FS_CardinalityType, MemoryAssumption
<1>4. \A i \in 1..n : s[i] \in Facts
  BY MemoryAssumption
<1>5. \A i \in 1..n : /\ rows[i] \in RowType /\ rows[i].fact = s[i]
                      /\ rows[i].active = 1 /\ rows[i].by = 0
  BY <1>2, <1>4, NewRow
<1>6. rows \in Seq(RowType) /\ DOMAIN rows = 1..n
  BY <1>2, <1>3, <1>5
<1>7. Table(rows)
  BY <1>2, <1>5, <1>6 DEF Table
<1>8. Ranks(rows, [i \in DOMAIN rows |-> 0])
  BY <1>5, <1>6 DEF Ranks
<1>9. CountsOK
  BY MemoryAssumption DEF MemoryInit, CountsOK, NoMessages, NoOffers, NotAsking
<1>10. QED
  BY <1>7, <1>8, <1>9 DEF MemoryInv, Good


\* Counters at each step.
LEMMA CountsMessage == \A p \in Peers : CountsOK /\ Message(p) => CountsOK'
<1> SUFFICES ASSUME NEW p \in Peers, CountsOK, Message(p) PROVE CountsOK'
  OBVIOUS
<1>1. /\ count[p] \in Nat /\ count[p] < MaxCount[p] /\ MaxCount[p] \in Nat /\ ExtractEvery \in Nat
      /\ count' = [count EXCEPT ![p] = count[p] + 1] /\ owner' = owner
  BY MemoryAssumption DEF CountsOK, Message, Buffers, BeginsExtraction
<1>2. CASE Buffers(p)
  BY <1>1, <1>2 DEF Buffers, CountsOK
<1>3. CASE BeginsExtraction(p)
  <2>1. /\ offered' = [offered EXCEPT ![p] = count[p] + 1]
        /\ count[p] + 1 \in ExtractEvery..MaxCount[p] /\ count[p] + 1 \in Nat
    BY <1>1, <1>3 DEF BeginsExtraction
  <2>2. QED
    BY <1>1, <2>1 DEF CountsOK
<1>4. QED
  BY <1>2, <1>3 DEF Message

LEMMA CountsOthers ==
    /\ \A p \in Peers : \A xs : CountsOK /\ ExtractionSucceeds(p, xs) => CountsOK'
    /\ \A p \in Peers : \A xs : CountsOK /\ DiesStoring(p, xs) => CountsOK'
    /\ \A p \in Peers : CountsOK /\ (ExtractionFails(p) \/ OwnerBound(p)) => CountsOK'
    /\ CountsOK /\ (Snapshot \/ DayPasses \/ Stop \/ UNCHANGED memoryVars) => CountsOK'
<1> USE MemoryAssumption DEF CountsOK, NotAsking, NoMessages, NoOffers
<1>1. \A p \in Peers : \A xs : CountsOK /\ ExtractionSucceeds(p, xs) => CountsOK'
  BY DEF ExtractionSucceeds
<1>2. \A p \in Peers : \A xs : CountsOK /\ DiesStoring(p, xs) => CountsOK'
  BY DEF DiesStoring
<1>3. \A p \in Peers : CountsOK /\ ExtractionFails(p) => CountsOK'
  BY DEF ExtractionFails
<1>4. \A p \in Peers : CountsOK /\ OwnerBound(p) => CountsOK'
  BY DEF OwnerBound
<1>5. CountsOK /\ Snapshot => CountsOK'
  BY DEF Snapshot
<1>6. CountsOK /\ DayPasses => CountsOK'
  BY DEF DayPasses
<1>7. CountsOK /\ Stop => CountsOK'
  BY DEF Stop
<1>8. CountsOK /\ UNCHANGED memoryVars => CountsOK'
  BY DEF memoryVars
<1>9. QED
  BY <1>1, <1>2, <1>3, <1>4, <1>5, <1>6, <1>7, <1>8

\* What a step may do to the table.
Answered(p) == p \in Peers /\ ExtractionEnds(p) /\
    \E s : Table(s) /\ Apart(rows, s, p) /\ ArchivedOnly(s, rows')

\* An extraction ends when its thread leaves nothing asked.
LEMMA EndIsEnd ==
    \A p \in Peers : CountsOK /\ Extracting(p) /\ offered' = [offered EXCEPT ![p] = NotAsking]
                     => ExtractionEnds(p)
  BY DEF CountsOK, ExtractionEnds, Extracting

TableStep ==
    \/ UNCHANGED rows
    \/ Adopts(rows, rows')
    \/ Older(rows, rows')
    \/ \E p \in Peers : Answered(p)

LEMMA AnswersAreAnswers ==
    \A p \in Peers : \A n \in Nat : \A xs \in Answers(p, n) : IsAnswer(xs)
<1> TAKE p \in Peers
<1> TAKE n \in Nat
<1> TAKE xs \in Answers(p, n)
<1>1. PICK k \in 0..MaxFacts : xs \in [1..k -> Extracted(p, n)]
  BY DEF Answers
<1>2. k \in Nat
  BY MemoryAssumption
<1>3. Len(xs) = k
  BY <1>1, <1>2
<1>4. \A j \in 1..k : xs[j].fact \in FactsOf[p]
  BY <1>1 DEF Extracted
<1>5. FactsOf[p] \subseteq Facts
  BY MemoryAssumption
<1>6. QED
  BY <1>2, <1>3, <1>4, <1>5 DEF IsAnswer

LEMMA SucceedsStep ==
    \A p \in Peers : \A xs : MemoryInv /\ IsAnswer(xs) /\ ExtractionSucceeds(p, xs)
                             => Good(rows') /\ TableStep
<1> SUFFICES ASSUME NEW p \in Peers, NEW xs, MemoryInv, IsAnswer(xs), ExtractionSucceeds(p, xs)
             PROVE  Good(rows') /\ TableStep
  OBVIOUS
<1>1. PICK s : s = StoreEach(rows, p, xs)
  OBVIOUS
<1>2. rows' = Archive(s) /\ ExtractionEnds(p)
  BY <1>1, EndIsEnd DEF ExtractionSucceeds, StoreFacts, MemoryInv
<1>3. Good(s) /\ Apart(rows, s, p)
  BY <1>1, StoreEachGood DEF MemoryInv
<1>4. Good(rows') /\ ArchivedOnly(s, rows')
  BY <1>2, <1>3, ArchiveGood
<1>5. Answered(p)
  BY <1>2, <1>3, <1>4 DEF Answered, Good
<1>6. QED
  BY <1>4, <1>5 DEF TableStep

LEMMA DiesStep ==
    \A p \in Peers : \A xs :
        MemoryInv /\ IsAnswer(xs) /\ DiesStoring(p, xs) => Good(rows') /\ TableStep
<1> SUFFICES ASSUME NEW p \in Peers, NEW xs, MemoryInv, IsAnswer(xs), DiesStoring(p, xs)
             PROVE  Good(rows') /\ TableStep
  OBVIOUS
<1>1. PICK s : s = StoreEach(rows, p, xs)
  OBVIOUS
<1>2. ExtractionEnds(p) /\ (rows' = s \/ \E f \in FactsOf[p] : rows' = Upsert(s, p, f))
  BY <1>1, EndIsEnd DEF DiesStoring, MemoryInv
<1>3. Good(s) /\ Apart(rows, s, p)
  BY <1>1, StoreEachGood DEF MemoryInv
<1>4. ASSUME rows' = s PROVE Good(rows') /\ Apart(rows, rows', p)
  BY <1>3, <1>4
<1>5. ASSUME NEW f \in FactsOf[p], rows' = Upsert(s, p, f)
      PROVE  Good(rows') /\ Apart(rows, rows', p)
  <2>1. f \in Facts
    BY MemoryAssumption
  <2>2. Good(rows') /\ Apart(s, rows', p)
    BY <1>3, <1>5, <2>1, UpsertGood
  <2>3. QED
    BY <1>3, <2>2, ApartTransitive
<1>6. Good(rows') /\ Apart(rows, rows', p)
  BY <1>2, <1>3, <1>4, <1>5
<1>7. ArchivedOnly(rows', rows')
  BY DEF ArchivedOnly
<1>8. Answered(p)
  BY <1>2, <1>6, <1>7 DEF Answered, Good
<1>9. QED
  BY <1>6, <1>8 DEF TableStep

LEMMA AdoptStep == MemoryInv /\ rows' = Backfill => Good(rows') /\ TableStep
  BY BackfillGood DEF MemoryInv, TableStep

LEMMA MessageStep == \A p \in Peers : MemoryInv /\ Message(p) => Good(rows') /\ TableStep
<1> SUFFICES ASSUME NEW p \in Peers, MemoryInv, Message(p) PROVE Good(rows') /\ TableStep
  OBVIOUS
<1>1. rows' = rows \/ rows' = Backfill
  BY DEF Message, Buffers, BeginsExtraction
<1>2. QED
  BY <1>1, AdoptStep DEF MemoryInv, TableStep

LEMMA DayStep == MemoryInv /\ DayPasses => Good(rows') /\ TableStep
<1> SUFFICES ASSUME MemoryInv, DayPasses PROVE Good(rows') /\ TableStep
  OBVIOUS
<1>1. rows' = [i \in DOMAIN rows |-> [rows[i] EXCEPT !.age = Least(rows[i].age + 1, VisibleDays + 1)]]
  BY DEF DayPasses, Ids
<1>2. rows' = [i \in DOMAIN rows |-> rows'[i]] /\ Older(rows, rows')
  BY <1>1 DEF Older
<1>3. Good(rows')
  BY <1>2, OlderGood DEF MemoryInv
<1>4. QED
  BY <1>2, <1>3 DEF TableStep

LEMMA SameStep == MemoryInv /\ UNCHANGED rows => Good(rows') /\ TableStep
  BY DEF MemoryInv, TableStep

LEMMA MemoryStep == MemoryInv /\ [MemoryNext]_memoryVars => MemoryInv' /\ TableStep
<1>1. \A p \in Peers : MemoryInv /\ Message(p) => MemoryInv' /\ TableStep
  BY MessageStep, CountsMessage DEF MemoryInv
<1>2. \A p \in Peers : MemoryInv /\ ExtractionFails(p) => MemoryInv' /\ TableStep
  BY SameStep, CountsOthers DEF MemoryInv, ExtractionFails
<1>3. \A p \in Peers : MemoryInv /\ OwnerBound(p) => MemoryInv' /\ TableStep
  BY SameStep, CountsOthers DEF MemoryInv, OwnerBound
<1>4. MemoryInv => Len(rows) \in Nat
  BY TableParts DEF MemoryInv, Good
<1>5. \A p \in Peers : \A xs \in Answers(p, Len(rows)) :
          MemoryInv /\ ExtractionSucceeds(p, xs) => MemoryInv' /\ TableStep
  BY <1>4, AnswersAreAnswers, SucceedsStep, CountsOthers DEF MemoryInv
<1>6. \A p \in Peers : \A xs \in Answers(p, Len(rows)) :
          MemoryInv /\ DiesStoring(p, xs) => MemoryInv' /\ TableStep
  BY <1>4, AnswersAreAnswers, DiesStep, CountsOthers DEF MemoryInv
<1>7. MemoryInv /\ Snapshot => MemoryInv' /\ TableStep
  BY AdoptStep, CountsOthers DEF MemoryInv, Snapshot
<1>8. MemoryInv /\ DayPasses => MemoryInv' /\ TableStep
  BY DayStep, CountsOthers DEF MemoryInv
<1>9. MemoryInv /\ Stop => MemoryInv' /\ TableStep
  BY SameStep, CountsOthers DEF MemoryInv, Stop
<1>10. MemoryInv /\ UNCHANGED memoryVars => MemoryInv' /\ TableStep
  BY SameStep, CountsOthers DEF MemoryInv, memoryVars
<1>11. QED
  BY <1>1, <1>2, <1>3, <1>5, <1>6, <1>7, <1>8, <1>9, <1>10 DEF MemoryNext


\* Every fact is stored once for each peer, and its pointer is a row.
THEOREM MemoryTypeCorrect == MemorySpec => []MemoryTypeOK
<1> DEFINE DownOK == down \in BOOLEAN
<1>1. MemoryInv /\ DownOK => MemoryTypeOK
  BY TableParts DEF MemoryInv, MemoryTypeOK, Good, CountsOK, Ids
<1>2. MemoryInv /\ [MemoryNext]_memoryVars => MemoryInv'
  BY MemoryStep
<1>3. DownOK /\ [MemoryNext]_memoryVars => DownOK'
  <2> SUFFICES ASSUME DownOK, [MemoryNext]_memoryVars PROVE down' = down \/ down' = TRUE \/ down' = FALSE
    OBVIOUS
  <2>1. \A p \in Peers : Message(p) \/ ExtractionFails(p) \/ OwnerBound(p) => down' = down
    BY DEF Message, ExtractionFails, OwnerBound
  <2>2. \A p \in Peers : \A xs : ExtractionSucceeds(p, xs) => down' = down
    BY DEF ExtractionSucceeds
  <2>3. \A p \in Peers : \A xs : DiesStoring(p, xs) => down' = TRUE
    BY DEF DiesStoring
  <2>4. Snapshot \/ DayPasses \/ UNCHANGED memoryVars => down' = down
    BY DEF Snapshot, DayPasses, memoryVars
  <2>5. Stop => down' = FALSE
    BY DEF Stop
  <2>6. QED
    BY ONLY <2>1, <2>2, <2>3, <2>4, <2>5, [MemoryNext]_memoryVars DEF MemoryNext
<1>4. MemoryInit => DownOK
  BY DEF MemoryInit
<1> HIDE DEF DownOK
<1>5. QED
  BY <1>1, <1>2, <1>3, <1>4, MemoryInitInv, PTL DEF MemorySpec

----------------------------------------------------------------------------
\* Peers apart

ApartStep ==
    /\ Ids \subseteq DOMAIN rows'
    /\ \A i \in DOMAIN rows' \ Ids : \E p \in Peers : rows'[i].peer = p /\ ExtractionEnds(p)
    /\ \A i \in Ids : rows'[i] # rows[i] =>
          \/ \E p \in Peers : rows[i].peer = p /\ ExtractionEnds(p)
          \/ rows'[i] = [rows[i] EXCEPT !.age = Least(@ + 1, VisibleDays + 1)]
          \/ rows[i].active = 0 /\ rows'[i] = [rows[i] EXCEPT !.active = -1]
          \/ rows[i].peer = Nobody /\ rows'[i] = [rows[i] EXCEPT !.peer = owner]

\* An answer adds rows of its own peer, changes only those, and what is left of
\* the others' is archived.
LEMMA AnsweredApart == \A p \in Peers : MemoryInv /\ Answered(p) => ApartStep
<1> SUFFICES ASSUME NEW p \in Peers, MemoryInv, Answered(p) PROVE ApartStep
  OBVIOUS
<1>1. PICK s : Table(s) /\ Apart(rows, s, p) /\ ArchivedOnly(s, rows')
  BY DEF Answered
<1>2. ExtractionEnds(p)
  BY DEF Answered
<1>3. DOMAIN rows' = DOMAIN s /\ Ids \subseteq DOMAIN s
  BY <1>1 DEF Apart, ArchivedOnly, Ids
<1>4. ASSUME NEW i \in DOMAIN rows' \ Ids PROVE rows'[i].peer = p
  <2>1. i \in DOMAIN s /\ s[i] \in RowType /\ s[i].peer = p
    BY <1>1, <1>3, <1>4, TableParts DEF Apart, Ids
  <2>2. rows'[i] = s[i] \/ rows'[i] = [s[i] EXCEPT !.active = -1]
    BY <1>1, <2>1 DEF ArchivedOnly
  <2>3. QED
    BY <2>1, <2>2, Archived
<1>5. ASSUME NEW i \in Ids, rows'[i] # rows[i]
      PROVE  rows[i].peer = p \/ (rows[i].active = 0 /\ rows'[i] = [rows[i] EXCEPT !.active = -1])
  <2> SUFFICES ASSUME rows[i].peer # p
               PROVE  rows[i].active = 0 /\ rows'[i] = [rows[i] EXCEPT !.active = -1]
    OBVIOUS
  <2>1. s[i] = rows[i] /\ i \in DOMAIN s
    BY <1>1, <1>3 DEF Apart, Ids
  <2>2. QED
    BY <1>1, <1>5, <2>1 DEF ArchivedOnly
<1>6. QED
  BY <1>2, <1>3, <1>4, <1>5 DEF ApartStep

LEMMA TableStepApart == MemoryInv /\ TableStep => ApartStep
<1> SUFFICES ASSUME MemoryInv, TableStep PROVE ApartStep
  OBVIOUS
<1>1. CASE UNCHANGED rows
  BY <1>1 DEF ApartStep, Ids
<1>2. CASE Adopts(rows, rows')
  BY <1>2 DEF Adopts, ApartStep, Ids
<1>3. CASE Older(rows, rows')
  BY <1>3 DEF Older, ApartStep, Ids
<1>4. QED
  BY <1>1, <1>2, <1>3, AnsweredApart DEF TableStep

\* Whatever ids the LLM names, a peer's fact is added or changes only when an
\* extraction of that peer's own messages ends, or it grows older, is archived or adopted.
THEOREM PeersStayApart == MemorySpec => PeersApart
<1>1. MemoryInv /\ [MemoryNext]_memoryVars => MemoryInv' /\ [ApartStep]_memoryVars
  BY MemoryStep, TableStepApart
<1>2. MemorySpec => [][ApartStep]_memoryVars
  BY <1>1, MemoryInitInv, PTL DEF MemorySpec
<1>3. QED
  BY <1>2 DEF PeersApart, ApartStep

----------------------------------------------------------------------------
\* Successors are current

\* led[n] is what n pointers lead to from i.
IsLed(led, i, n) ==
    led = [k \in 0..n |->
              IF k = 0 THEN {i}
              ELSE led[k - 1] \cup {rows[j].by : j \in {l \in led[k - 1] : Outdated(l)}}]

LEMMA LedExists == \A i : \A n \in Nat : \E led : IsLed(led, i, n)
<1> TAKE i
<1> DEFINE More(X) == X \cup {rows[j].by : j \in {l \in X : Outdated(l)}}
           S == {n \in Nat : \E led : IsLed(led, i, n)}
<1>1. 0 \in S
  <2> DEFINE h == [k \in 0..0 |-> {i}]
  <2>1. h = [k \in 0..0 |-> IF k = 0 THEN {i} ELSE More(h[k - 1])]
    OBVIOUS
  <2>2. QED
    BY <2>1 DEF IsLed
<1>2. ASSUME NEW n \in Nat, n \in S PROVE n + 1 \in S
  <2>1. PICK g : IsLed(g, i, n)
    BY <1>2
  <2>2. g = [k \in 0..n |-> IF k = 0 THEN {i} ELSE More(g[k - 1])]
    BY <2>1 DEF IsLed
  <2> DEFINE h == [k \in 0..(n + 1) |-> IF k <= n THEN g[k] ELSE More(g[n])]
  <2> HIDE DEF More
  <2>3. ASSUME NEW k \in 0..(n + 1)
        PROVE  h[k] = IF k = 0 THEN {i} ELSE More(h[k - 1])
    <3>1. CASE k = 0
      BY <3>1, <2>2
    <3>2. CASE k \in 1..n
      <4>1. g[k] = More(g[k - 1])
        <5>1. k \in 0..n /\ k # 0
          BY <3>2
        <5>2. \A l \in 0..n : g[l] = IF l = 0 THEN {i} ELSE More(g[l - 1])
          BY ONLY <2>2
        <5>3. QED
          BY ONLY <5>1, <5>2
      <4>2. h[k] = g[k] /\ h[k - 1] = g[k - 1]
        BY <3>2
      <4>3. QED
        BY <4>1, <4>2, <3>2
    <3>3. CASE k = n + 1
      <4>1. h[k] = More(g[n]) /\ h[k - 1] = g[n]
        BY <3>3
      <4>2. QED
        BY <4>1, <3>3
    <3>4. QED
      BY <3>1, <3>2, <3>3
  <2>4. h = [k \in 0..(n + 1) |-> h[k]]
    OBVIOUS
  <2> HIDE DEF h
  <2>5. h = [k \in 0..(n + 1) |-> IF k = 0 THEN {i} ELSE More(h[k - 1])]
    BY <2>3, <2>4
  <2>6. QED
    BY <2>5 DEF IsLed, More
<1> HIDE DEF S
<1>3. Nat \subseteq S
  BY <1>1, <1>2, SetInduction
<1>4. QED
  BY <1>3 DEF S

LEMMA LedToIsLast ==
    \A i : Len(rows) \in Nat => \E led : IsLed(led, i, Len(rows)) /\ LedTo(i) = led[Len(rows)]
<1> TAKE i
<1> HAVE Len(rows) \in Nat
<1> DEFINE g == CHOOSE g : IsLed(g, i, Len(rows))
<1>1. IsLed(g, i, Len(rows))
  BY LedExists
<1>2. LedTo(i) = g[Len(rows)]
  BY DEF LedTo, IsLed
<1>3. QED
  BY <1>1, <1>2

\* X holds n + 1 facts, one of which became outdated last; the successors of
\* the others are among them.
Spread(X, n, rank) ==
    /\ X \subseteq Ids /\ IsFiniteSet(X) /\ Cardinality(X) = n + 1
    /\ \E m \in X : \A j \in X : rank[j] <= rank[m] /\ (j # m => rows[j].by \in X)

\* Following the pointers either reaches an end or a fact that was not there.
LEMMA SpreadGrows ==
    ASSUME NEW rank, Ranks(rows, rank), NEW n \in Nat, NEW X, Spread(X, n, rank), NEW Y,
           Y = X \cup {rows[j].by : j \in {l \in X : Outdated(l)}}
    PROVE  (\E j \in Y : Ends(rows, j)) \/ Spread(Y, n + 1, rank)
<1> SUFFICES ASSUME \A j \in Y : ~Ends(rows, j) PROVE Spread(Y, n + 1, rank)
  OBVIOUS
<1>1. X \subseteq Ids /\ IsFiniteSet(X) /\ Cardinality(X) = n + 1
  BY DEF Spread
<1>2. PICK m \in X : \A j \in X : rank[j] <= rank[m] /\ (j # m => rows[j].by \in X)
  BY DEF Spread
<1> DEFINE w == rows[m].by
<1>3. \A j \in X : Outdated(j)
  BY DEF Ends, Outdated
<1>4. Y = X \cup {w}
  BY <1>2, <1>3
<1>5. w \in Ids /\ w # m /\ rank[w] > rank[m]
  BY <1>1, <1>2, <1>4 DEF Ranks, Ends, Ids
<1>6. \A j \in Ids : rank[j] \in Nat
  BY DEF Ranks, Ids
<1>7. w \notin X
  BY <1>1, <1>2, <1>5, <1>6
<1> HIDE DEF w
<1>8. IsFiniteSet(Y) /\ Cardinality(Y) = n + 2
  BY <1>1, <1>4, <1>7, FS_AddElement
<1>9. \A j \in Y : rank[j] <= rank[w] /\ (j # w => rows[j].by \in Y)
  <2> TAKE j \in Y
  <2>1. CASE j = w
    BY <2>1, <1>5, <1>6
  <2>2. CASE j \in X
    <3>1. rank[j] <= rank[w]
      BY <2>2, <1>1, <1>2, <1>5, <1>6
    <3>2. rows[j].by \in Y
      BY <2>2, <1>2, <1>4 DEF w
    <3>3. QED
      BY <3>1, <3>2
  <2>3. QED
    BY <1>4, <2>1, <2>2
<1>10. Y \subseteq Ids /\ w \in Y
  BY <1>1, <1>4, <1>5
<1>11. n + 2 = (n + 1) + 1
  OBVIOUS
<1>12. QED
  BY <1>8, <1>9, <1>10, <1>11 DEF Spread

\* There is an end, or there would be more facts than rows.
LEMMA EndIsReached == Good(rows) => \A i \in Ids : \E j \in LedTo(i) : Ends(rows, j)
<1> HAVE Good(rows)
<1> TAKE i \in Ids
<1> DEFINE N == Len(rows)
<1>1. N \in Nat /\ Ids = 1..N
  BY TableParts DEF Good, Ids, Table
<1>2. PICK rank : Ranks(rows, rank)
  BY DEF Good
<1>3. PICK led : IsLed(led, i, N) /\ LedTo(i) = led[N]
  BY <1>1, LedToIsLast
<1> HIDE DEF N
<1>4. \A k \in 0..N : led[k] = IF k = 0 THEN {i}
                               ELSE led[k - 1] \cup {rows[j].by : j \in {l \in led[k - 1] : Outdated(l)}}
  BY ONLY <1>3 DEF IsLed
<1> DEFINE Reached(k) == (\E j \in led[k] : Ends(rows, j)) \/ Spread(led[k], k, rank)
           S == {k \in Nat : k <= N => Reached(k)}
<1>5. 0 \in S
  <2>1. led[0] = {i}
    <3>1. 0 \in 0..N
      BY <1>1
    <3>2. QED
      BY ONLY <1>4, <3>1
  <2>2. IsFiniteSet({i}) /\ Cardinality({i}) = 0 + 1
    BY FS_Singleton
  <2>3. \A j \in {i} : rank[j] <= rank[i]
    BY <1>2 DEF Ranks, Ids
  <2>4. Spread({i}, 0, rank)
    BY <2>2, <2>3 DEF Spread
  <2>5. QED
    BY <2>1, <2>4
<1>6. ASSUME NEW k \in Nat, k \in S PROVE k + 1 \in S
  <2> SUFFICES ASSUME k + 1 <= N PROVE Reached(k + 1)
    OBVIOUS
  <2>1. k <= N /\ k + 1 \in 0..N /\ k + 1 # 0 /\ (k + 1) - 1 = k
    BY <1>1
  <2>2. led[k + 1] = led[k] \cup {rows[j].by : j \in {l \in led[k] : Outdated(l)}}
    BY <1>4, <2>1
  <2>3. CASE \E j \in led[k] : Ends(rows, j)
    BY <2>2, <2>3
  <2>4. CASE Spread(led[k], k, rank)
    BY <1>2, <2>2, <2>4, SpreadGrows
  <2>5. QED
    BY <1>6, <2>1, <2>3, <2>4
<1> HIDE DEF S
<1>7. Nat \subseteq S
  BY <1>5, <1>6, SetInduction
<1>8. Reached(N)
  BY <1>1, <1>7 DEF S
<1>9. ~Spread(led[N], N, rank)
  <2>1. IsFiniteSet(1..N) /\ Cardinality(1..N) = N
    BY <1>1, FS_Interval
  <2>2. ASSUME led[N] \subseteq 1..N PROVE Cardinality(led[N]) <= N
    BY <2>1, <2>2, FS_Subset
  <2>3. QED
    BY <1>1, <2>2 DEF Spread
<1>10. QED
  BY <1>3, <1>8, <1>9

\* What is outdated points to its successor, and one gets from it to a fact
\* that is current, or to one that the LLM reported as its own successor.
THEOREM SuccessorsHold == MemorySpec => []SuccessorsAreCurrent
<1>1. MemoryInv => SuccessorsAreCurrent
  <2> SUFFICES ASSUME MemoryInv, NEW i \in Ids, Outdated(i)
               PROVE  /\ rows[i].by \in Ids
                      /\ rows[rows[i].by].peer = rows[i].peer
                      /\ rows[rows[i].by].age <= rows[i].age
                      /\ \E j \in LedTo(i) : ~Outdated(j) \/ rows[j].by = j
    BY DEF SuccessorsAreCurrent
  <2>1. PICK rank : Ranks(rows, rank)
    BY DEF MemoryInv, Good
  <2>2. /\ rows[i].by \in Ids
        /\ rows[rows[i].by].peer = rows[i].peer
        /\ rows[rows[i].by].age <= rows[i].age
    BY <2>1 DEF Ranks, Ids, Outdated
  <2>3. \E j \in LedTo(i) : ~Outdated(j) \/ rows[j].by = j
    BY EndIsReached DEF MemoryInv, Ends, Outdated
  <2>4. QED
    BY <2>2, <2>3
<1>2. QED
  BY <1>1, MemoryInitInv, MemoryStep, PTL DEF MemorySpec


----------------------------------------------------------------------------
\* Nothing is cleared unseen

\* The thread of an extraction clears msg_count as it finds it.  Nothing is
\* lost by that because the count of a peer is frozen while its call is under
\* way: what was offered is what is there.
OfferedInv == MemoryInv /\ \A p \in Peers : Extracting(p) => offered[p] = count[p]

UnseenStep ==
    \A p \in Peers :
        /\ offered[p] # NotAsking /\ count'[p] < count[p] => offered[p] = count[p]
        /\ offered'[p] # NotAsking => offered'[p] = count'[p]

LEMMA OfferedInit == MemoryInit => OfferedInv
  BY MemoryInitInv DEF MemoryInit, OfferedInv, NoOffers, Extracting

LEMMA OfferedPreserved == OfferedInv /\ [MemoryNext]_memoryVars => OfferedInv'
<1> DEFINE Offered == \A p \in Peers : Extracting(p) => offered[p] = count[p]
<1> SUFFICES ASSUME CountsOK, Offered, [MemoryNext]_memoryVars PROVE Offered'
  BY MemoryStep DEF OfferedInv, MemoryInv
<1> USE DEF CountsOK, Extracting, NotAsking
<1>1. ASSUME NEW p \in Peers, Message(p) PROVE Offered'
  <2>1. offered[p] = NotAsking
    BY <1>1 DEF Message, Ignores
  <2>2. CASE Buffers(p)
    BY <2>1, <2>2 DEF Buffers
  <2>3. CASE BeginsExtraction(p)
    BY <2>1, <2>3 DEF BeginsExtraction
  <2>4. QED
    BY <1>1, <2>2, <2>3 DEF Message
<1>2. ASSUME NEW p \in Peers, NEW xs, ExtractionSucceeds(p, xs) PROVE Offered'
  BY <1>2 DEF ExtractionSucceeds
<1>3. ASSUME NEW p \in Peers, ExtractionFails(p) PROVE Offered'
  BY <1>3 DEF ExtractionFails
<1>4. ASSUME NEW p \in Peers, NEW xs, DiesStoring(p, xs) PROVE Offered'
  BY <1>4 DEF DiesStoring
<1>5. CASE Stop
  BY <1>5 DEF Stop, NoMessages, NoOffers
<1>6. ASSUME UNCHANGED <<count, offered>> PROVE Offered'
  BY <1>6
<1>7. ASSUME NEW p \in Peers, OwnerBound(p) PROVE Offered'
  BY <1>6, <1>7 DEF OwnerBound
<1>8. CASE Snapshot \/ DayPasses \/ UNCHANGED memoryVars
  BY <1>6, <1>8 DEF Snapshot, DayPasses, memoryVars
<1>9. QED
  BY <1>1, <1>2, <1>3, <1>4, <1>5, <1>7, <1>8 DEF MemoryNext

\* What a call has been offered is what is buffered, until it ends.
THEOREM OfferedIsBuffered == MemorySpec => []OfferedInv
  BY OfferedInit, OfferedPreserved, PTL DEF MemorySpec

\* No message is cleared that the LLM was not asked about, however extractions end.
THEOREM NothingIsClearedUnseen == MemorySpec => NothingClearedUnseen
<1>1. OfferedInv /\ OfferedInv' => [UnseenStep]_memoryVars
  BY DEF OfferedInv, MemoryInv, CountsOK, Extracting, UnseenStep
<1>2. MemorySpec => [][UnseenStep]_memoryVars
  BY <1>1, OfferedIsBuffered, PTL
<1>3. QED
  BY <1>2 DEF NothingClearedUnseen, UnseenStep

=============================================================================

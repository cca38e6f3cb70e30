----------------------------- MODULE PMProofs --------------------------------
(***************************************************************************)
(* Proofs about the plugin manager of module PM, for every set of plugin  *)
(* folders and every bound that satisfies PMAssumption: type correctness, *)
(* and that PM implements the loader of module PMLoader.                   *)
(***************************************************************************)
EXTENDS PM, TLAPS

USE PMAssumption DEF PMAssumption

(* A fault counted by CountFault is within the bound. *)
LEMMA FaultBound ==
    ASSUME TypeOK, NEW stages, NEW f \in Faults(stages), CountFault(f)
    PROVE  faults' \in 0..MaxFaults
BY DEF Faults, CountFault, TypeOK, NoFault

(* Every step keeps the state well typed. *)
LEMMA TypeNext == TypeOK /\ [Next]_vars => TypeOK'
<1> SUFFICES ASSUME TypeOK, [Next]_vars PROVE TypeOK'
  OBVIOUS
<1>1. CASE LoadAllPlugins
  <2>1. PICK f \in Faults({"LoadLibrary"}) :
          /\ dll' = [p \in Plugins |-> Newest(p)]
          /\ pending' = [p \in Plugins |-> 0]
          /\ loaded' = [p \in Plugins |->
                          IF LoadOK(Newest(p), loaded[p], f, p) THEN Newest(p) ELSE loaded[p]]
          /\ alive' = [p \in Plugins |-> alive[p] \/ LoadOK(Newest(p), loaded[p], f, p)]
          /\ CountFault(f)
    BY <1>1 DEF LoadAllPlugins
  <2>2. faults' \in 0..MaxFaults
    BY <2>1, FaultBound
  <2>3. QED
    BY <1>1, <2>1, <2>2 DEF LoadAllPlugins, TypeOK, Newest
<1>2. ASSUME NEW p \in Plugins, LoadPluginCmd(p) PROVE TypeOK'
  <2>1. PICK f \in Faults({"LoadLibrary"}) :
          /\ LoadOK(dll[p], loaded[p], f, p)
          /\ loaded' = [loaded EXCEPT ![p] = dll[p]]
          /\ alive' = [alive EXCEPT ![p] = TRUE]
          /\ CountFault(f)
    BY <1>2 DEF LoadPluginCmd
  <2>2. faults' \in 0..MaxFaults
    BY <2>1, FaultBound
  <2>3. QED
    BY <1>2, <2>1, <2>2 DEF LoadPluginCmd, TypeOK
<1>3. ASSUME NEW p \in Plugins, UnloadPluginCmd(p) PROVE TypeOK'
  <2>1. PICK f \in Faults({"FreeLibrary"}) :
          /\ alive' = [alive EXCEPT ![p] = FALSE]
          /\ loaded' = IF f = <<p, "FreeLibrary">> THEN loaded
                       ELSE [loaded EXCEPT ![p] = 0]
          /\ CountFault(f)
    BY <1>3 DEF UnloadPluginCmd
  <2>2. faults' \in 0..MaxFaults
    BY <2>1, FaultBound
  <2>3. QED
    BY <1>3, <2>1, <2>2 DEF UnloadPluginCmd, TypeOK
<1>4. CASE DetectPluginChangesTimerCallback
  <2>1. PICK f \in Faults({"FreeLibrary", "LoadLibrary"}) :
          DetectPluginChanges(f) /\ CountFault(f)
    BY <1>4 DEF DetectPluginChangesTimerCallback
  <2>2. faults' \in 0..MaxFaults
    BY <2>1, FaultBound
  <2>3. dll' \in [Plugins -> 0..MaxVersion] /\ pending' \in [Plugins -> 0..MaxVersion]
    BY <2>1 DEF DetectPluginChanges, TypeOK
  <2>4. loaded' \in [Plugins -> 0..MaxVersion]
    BY <2>1 DEF DetectPluginChanges, TypeOK
  <2>5. alive' \in [Plugins -> BOOLEAN]
    BY <2>1 DEF DetectPluginChanges, Freed, Reloads, LoadOK, TypeOK
  <2>6. started' \in BOOLEAN /\ due' \in BOOLEAN
    BY <1>4 DEF DetectPluginChangesTimerCallback, TypeOK
  <2>7. QED
    BY <2>2, <2>3, <2>4, <2>5, <2>6 DEF TypeOK
<1>5. ASSUME NEW p \in Plugins, NEW v \in Versions, Deploy(p, v) PROVE TypeOK'
  BY <1>5 DEF Deploy, TypeOK, Versions
<1>6. CASE Tick
  BY <1>6 DEF Tick, TypeOK
<1>7. CASE UNCHANGED vars
  BY <1>7 DEF vars, TypeOK
<1>8. QED
  BY <1>1, <1>2, <1>3, <1>4, <1>5, <1>6, <1>7 DEF Next

LEMMA TypeCorrectInit == Init => TypeOK
<1> SUFFICES ASSUME Init PROVE TypeOK
  OBVIOUS
<1>1. loaded \in [Plugins -> 0..MaxVersion] /\ alive \in [Plugins -> BOOLEAN]
  BY DEF Init
<1>2. faults = 0 /\ started = FALSE /\ due = FALSE
  BY DEF Init
<1>3. faults \in 0..MaxFaults
  BY <1>2
<1>4. dll \in [Plugins -> 0..MaxVersion] /\ pending \in [Plugins -> 0..MaxVersion]
  BY DEF Init
<1>5. QED
  BY <1>1, <1>2, <1>3, <1>4 DEF TypeOK

(* Every reachable state of the plugin manager is well typed. *)
THEOREM TypeCorrect == Spec => []TypeOK
BY TypeCorrectInit, TypeNext, PTL DEF Spec

-----------------------------------------------------------------------------
(* The plugin manager implements the loader *)

(* An update waiting in a folder is newer than the folder's .dll: the
   environment only drops newer builds and every copy removes the update.
   Before LoadAllPlugins nothing is loaded: the console commands wait for
   it, and the timer only reloads loaded plugins. *)
PendingNewer == \A p \in Plugins : pending[p] # 0 => pending[p] > dll[p]
NothingLoadedBeforeStart == ~started => \A p \in Plugins : loaded[p] = 0

Inv == TypeOK /\ PendingNewer /\ NothingLoadedBeforeStart

LEMMA InvNext == Inv /\ [Next]_vars => Inv'
<1> SUFFICES ASSUME Inv, [Next]_vars PROVE Inv'
  OBVIOUS
<1>0. TypeOK /\ TypeOK'
  BY TypeNext DEF Inv
<1>1. CASE LoadAllPlugins
  BY <1>0, <1>1 DEF LoadAllPlugins, Inv, PendingNewer, NothingLoadedBeforeStart
<1>2. ASSUME NEW p \in Plugins, LoadPluginCmd(p) PROVE Inv'
  BY <1>0, <1>2 DEF LoadPluginCmd, Inv, PendingNewer, NothingLoadedBeforeStart
<1>3. ASSUME NEW p \in Plugins, UnloadPluginCmd(p) PROVE Inv'
  BY <1>0, <1>3 DEF UnloadPluginCmd, Inv, PendingNewer, NothingLoadedBeforeStart
<1>4. CASE DetectPluginChangesTimerCallback
  <2>1. PICK f \in Faults({"FreeLibrary", "LoadLibrary"}) :
          DetectPluginChanges(f) /\ CountFault(f)
    BY <1>4 DEF DetectPluginChangesTimerCallback
  <2>2. PendingNewer'
    BY <2>1 DEF DetectPluginChanges, Inv, PendingNewer
  <2>3. NothingLoadedBeforeStart'
    BY <1>4, <2>1 DEF DetectPluginChangesTimerCallback, DetectPluginChanges, Freed,
                      Reloads, Inv, NothingLoadedBeforeStart
  <2>4. QED
    BY <1>0, <2>2, <2>3 DEF Inv
<1>5. ASSUME NEW p \in Plugins, NEW v \in Versions, Deploy(p, v) PROVE Inv'
  BY <1>0, <1>5 DEF Deploy, Inv, PendingNewer, NothingLoadedBeforeStart, Newest,
                    TypeOK, Versions
<1>6. CASE Tick
  BY <1>0, <1>6 DEF Tick, Inv, PendingNewer, NothingLoadedBeforeStart
<1>7. CASE UNCHANGED vars
  BY <1>0, <1>7 DEF vars, Inv, PendingNewer, NothingLoadedBeforeStart
<1>8. QED
  BY <1>1, <1>2, <1>3, <1>4, <1>5, <1>6, <1>7 DEF Next

(* What one step does to one plugin, seen through the refinement mapping. *)
AStep(p) == L!Same(p) \/ L!Deliver(p) \/ L!Start(p) \/ L!Stop(p) \/ L!TakeUp(p)

LEMMA ATypeNext == TypeOK' => L!ATypeOK'
BY DEF L!ATypeOK, TypeOK, Newest

(* The refinement mapping read at one plugin, before and after a step. *)
LEMMA MapAt ==
    ASSUME NEW p \in Plugins
    PROVE  /\ [q \in Plugins |-> Newest(q)][p] = Newest(p)
           /\ [q \in Plugins |-> Newest(q)]'[p]
                = IF pending'[p] # 0 THEN pending'[p] ELSE dll'[p]
           /\ [q \in Plugins |-> pending[q] # 0][p] = (pending[p] # 0)
           /\ [q \in Plugins |-> pending[q] # 0]'[p] = (pending'[p] # 0)
BY DEF Newest

(* Every step of PM is a step of the loader or leaves it unchanged. *)
LEMMA RefineNext == Inv /\ [Next]_vars => [L!ANext]_L!avars
<1> SUFFICES ASSUME TypeOK, PendingNewer, NothingLoadedBeforeStart, [Next]_vars
             PROVE  [L!ANext]_L!avars
  BY DEF Inv
<1>0. TypeOK'
  BY TypeNext
<1>a. L!ATypeOK'
  BY <1>0, ATypeNext
<1>1. CASE LoadAllPlugins
  <2>1. PICK f \in Faults({"LoadLibrary"}) :
          /\ dll' = [p \in Plugins |-> Newest(p)]
          /\ pending' = [p \in Plugins |-> 0]
          /\ loaded' = [p \in Plugins |->
                          IF LoadOK(Newest(p), loaded[p], f, p) THEN Newest(p) ELSE loaded[p]]
          /\ alive' = [p \in Plugins |-> alive[p] \/ LoadOK(Newest(p), loaded[p], f, p)]
          /\ CountFault(f)
    BY <1>1 DEF LoadAllPlugins
  <2>3. ASSUME NEW p \in Plugins PROVE AStep(p)
    <3>1. CASE pending[p] # 0
      <4>1. loaded[p] = 0
        BY <1>1 DEF LoadAllPlugins, NothingLoadedBeforeStart
      <4>2. pending'[p] = 0 /\ dll'[p] = pending[p] /\ loaded'[p] \in {pending[p], 0}
        BY <2>1, <3>1, <4>1 DEF Newest
      <4>3. [q \in Plugins |-> Newest(q)]'[p] = pending[p]
            /\ [q \in Plugins |-> Newest(q)][p] = pending[p]
        BY <3>1, <4>2, MapAt DEF Newest
      <4>4. [q \in Plugins |-> pending[q] # 0][p] /\ ~[q \in Plugins |-> pending[q] # 0]'[p]
        BY <3>1, <4>2, MapAt
      <4>5. QED
        BY <4>2, <4>3, <4>4 DEF L!TakeUp, AStep
    <3>2. CASE pending[p] = 0 /\ LoadOK(Newest(p), loaded[p], f, p)
      BY <2>1, <3>2 DEF L!Start, AStep, Newest, LoadOK, TypeOK
    <3>3. CASE pending[p] = 0 /\ ~LoadOK(Newest(p), loaded[p], f, p)
      BY <2>1, <3>3 DEF L!Same, AStep, Newest, TypeOK
    <3>4. QED
      BY <3>1, <3>2, <3>3
  <2>4. QED
    BY <1>a, <2>3 DEF L!ANext, AStep
<1>2. ASSUME NEW q \in Plugins, LoadPluginCmd(q) PROVE [L!ANext]_L!avars
  <2>1. PICK f \in Faults({"LoadLibrary"}) :
          /\ LoadOK(dll[q], loaded[q], f, q)
          /\ loaded' = [loaded EXCEPT ![q] = dll[q]]
          /\ alive' = [alive EXCEPT ![q] = TRUE]
          /\ CountFault(f)
    BY <1>2 DEF LoadPluginCmd
  <2>2. UNCHANGED <<dll, pending>>
    BY <1>2 DEF LoadPluginCmd
  <2>3. ASSUME NEW p \in Plugins PROVE AStep(p)
    <3>1. CASE p = q
      <4>1. dll[q] \in 1..MaxVersion /\ (pending[q] # 0 => dll[q] < pending[q])
        BY <2>1 DEF LoadOK, TypeOK, PendingNewer
      <4>2. loaded[q] = 0 /\ loaded'[q] = dll[q]
        BY <2>1 DEF LoadOK, TypeOK
      <4>3. /\ [r \in Plugins |-> Newest(r)]'[q] = Newest(q)
            /\ [r \in Plugins |-> Newest(r)][q] = Newest(q)
            /\ [r \in Plugins |-> pending[r] # 0]'[q] = (pending[q] # 0)
            /\ [r \in Plugins |-> pending[r] # 0][q] = (pending[q] # 0)
        <5>1. pending'[q] = pending[q] /\ dll'[q] = dll[q]
          BY <2>2
        <5>2. QED
          BY <5>1, MapAt DEF Newest
      <4>4. dll[q] \in IF pending[q] # 0 THEN 1..Newest(q) ELSE {Newest(q)}
        BY <4>1 DEF Newest, TypeOK
      <4>5. loaded'[q] \in IF [r \in Plugins |-> pending[r] # 0][q]
                           THEN 1..[r \in Plugins |-> Newest(r)][q]
                           ELSE {[r \in Plugins |-> Newest(r)][q]}
        <5>1. CASE pending[q] # 0
          BY <4>2, <4>3, <4>4, <5>1
        <5>2. CASE pending[q] = 0
          BY <4>2, <4>3, <4>4, <5>2
        <5>3. QED
          BY <5>1, <5>2
      <4>6. L!Start(q)
        BY <4>1, <4>2, <4>3, <4>5 DEF L!Start
      <4>7. QED
        BY <3>1, <4>6 DEF AStep
    <3>2. CASE p # q
      BY <2>1, <2>2, <3>2 DEF L!Same, AStep, Newest, TypeOK
    <3>3. QED
      BY <3>1, <3>2
  <2>4. QED
    BY <1>a, <2>3 DEF L!ANext, AStep
<1>3. ASSUME NEW q \in Plugins, UnloadPluginCmd(q) PROVE [L!ANext]_L!avars
  <2>1. PICK f \in Faults({"FreeLibrary"}) :
          /\ alive' = [alive EXCEPT ![q] = FALSE]
          /\ loaded' = IF f = <<q, "FreeLibrary">> THEN loaded
                       ELSE [loaded EXCEPT ![q] = 0]
          /\ CountFault(f)
    BY <1>3 DEF UnloadPluginCmd
  <2>2. UNCHANGED <<dll, pending>> /\ loaded[q] # 0
    BY <1>3 DEF UnloadPluginCmd
  <2>3. ASSUME NEW p \in Plugins PROVE AStep(p)
    <3>1. CASE p = q /\ f # <<q, "FreeLibrary">>
      BY <2>1, <2>2, <3>1 DEF L!Stop, AStep, Newest, TypeOK
    <3>2. CASE p # q \/ f = <<q, "FreeLibrary">>
      BY <2>1, <2>2, <3>2 DEF L!Same, AStep, Newest, TypeOK
    <3>3. QED
      BY <3>1, <3>2
  <2>4. QED
    BY <1>a, <2>3 DEF L!ANext, AStep
<1>4. CASE DetectPluginChangesTimerCallback
  <2>1. PICK f \in Faults({"FreeLibrary", "LoadLibrary"}) :
          DetectPluginChanges(f) /\ CountFault(f)
    BY <1>4 DEF DetectPluginChangesTimerCallback
  <2>2. ASSUME NEW p \in Plugins PROVE AStep(p)
    <3>1. CASE Freed(p, f)
      BY <2>1, <3>1 DEF DetectPluginChanges, Freed, Reloads, L!TakeUp, AStep, Newest, TypeOK
    <3>2. CASE ~Freed(p, f)
      BY <2>1, <3>2 DEF DetectPluginChanges, Freed, L!Same, AStep, Newest, TypeOK
    <3>3. QED
      BY <3>1, <3>2
  <2>3. QED
    BY <1>a, <2>2 DEF L!ANext, AStep
<1>5. ASSUME NEW q \in Plugins, NEW v \in Versions, Deploy(q, v) PROVE [L!ANext]_L!avars
  <2>1. ASSUME NEW p \in Plugins PROVE AStep(p)
    <3>1. CASE p = q
      <4>1. pending'[q] = v /\ v # 0 /\ v > Newest(q) /\ loaded' = loaded
        BY <1>5 DEF Deploy, TypeOK, Versions
      <4>2. [r \in Plugins |-> Newest(r)]'[q] = v
            /\ [r \in Plugins |-> Newest(r)][q] = Newest(q)
            /\ [r \in Plugins |-> pending[r] # 0]'[q]
        BY <4>1, MapAt
      <4>3. QED
        BY <3>1, <4>1, <4>2 DEF L!Deliver, AStep
    <3>2. CASE p # q
      BY <1>5, <3>2 DEF Deploy, L!Same, AStep, Newest, TypeOK
    <3>3. QED
      BY <3>1, <3>2
  <2>2. QED
    BY <1>a, <2>1 DEF L!ANext, AStep
<1>6. CASE Tick
  BY <1>6 DEF Tick, L!avars, Newest
<1>7. CASE UNCHANGED vars
  BY <1>7 DEF vars, L!avars, Newest
<1>8. QED
  BY <1>1, <1>2, <1>3, <1>4, <1>5, <1>6, <1>7 DEF Next

(* The plugin manager implements the loader of module PMLoader: from the
   folders as found at start, every sequence of commands, timer passes,
   deployments and library failures is one the loader allows (the safety
   part of ImplementsLoader, which is all of it: PMLoader has no fairness). *)
THEOREM Refinement == Spec => ImplementsLoader
<1>1. Init => Inv /\ L!AInit
  <2> SUFFICES ASSUME Init PROVE Inv /\ L!AInit
    OBVIOUS
  <2>1. TypeOK
    BY TypeCorrectInit
  <2>2. PendingNewer /\ NothingLoadedBeforeStart
    BY DEF Init, PendingNewer, NothingLoadedBeforeStart
  <2>3. L!AInit
    BY <2>1 DEF Init, L!AInit, Newest, TypeOK
  <2>4. QED
    BY <2>1, <2>2, <2>3 DEF Inv
<1>2. Inv /\ [Next]_vars => Inv'
  BY InvNext
<1>3. QED
  BY <1>1, <1>2, RefineNext, PTL DEF Spec, ImplementsLoader, L!ASpec

-----------------------------------------------------------------------------
(* The running build is the one on disk *)

(* Every step keeps RunningBuildOnDisk, given the invariant Inv: before
   LoadAllPlugins nothing is loaded, so the copy of the updates over the
   .dll files at start cannot leave an entry behind its file. *)
LEMMA DiskNext == Inv /\ RunningBuildOnDisk /\ [Next]_vars => RunningBuildOnDisk'
<1> SUFFICES ASSUME Inv, RunningBuildOnDisk, [Next]_vars,
                    NEW q \in Plugins, loaded'[q] # 0
             PROVE  loaded'[q] = dll'[q] /\ loaded'[q] \notin BadVersions
  BY DEF RunningBuildOnDisk
<1>0. TypeOK /\ NothingLoadedBeforeStart
  BY DEF Inv
<1>1. CASE LoadAllPlugins
  <2>1. PICK f \in Faults({"LoadLibrary"}) :
          /\ dll' = [p \in Plugins |-> Newest(p)]
          /\ loaded' = [p \in Plugins |->
                          IF LoadOK(Newest(p), loaded[p], f, p) THEN Newest(p) ELSE loaded[p]]
    BY <1>1 DEF LoadAllPlugins
  <2>2. loaded[q] = 0
    BY <1>0, <1>1 DEF LoadAllPlugins, NothingLoadedBeforeStart
  <2>3. LoadOK(Newest(q), loaded[q], f, q)
    BY <2>1, <2>2
  <2>4. QED
    BY <2>1, <2>3 DEF LoadOK
<1>2. ASSUME NEW p \in Plugins, LoadPluginCmd(p) PROVE loaded'[q] = dll'[q] /\ loaded'[q] \notin BadVersions
  <2>1. PICK f \in Faults({"LoadLibrary"}) :
          /\ LoadOK(dll[p], loaded[p], f, p)
          /\ loaded' = [loaded EXCEPT ![p] = dll[p]]
    BY <1>2 DEF LoadPluginCmd
  <2>2. dll' = dll
    BY <1>2 DEF LoadPluginCmd
  <2>3. CASE q = p
    BY <1>0, <2>1, <2>2, <2>3 DEF LoadOK, TypeOK
  <2>4. CASE q # p
    BY <1>0, <2>1, <2>2, <2>4 DEF RunningBuildOnDisk, TypeOK
  <2>5. QED
    BY <2>3, <2>4
<1>3. ASSUME NEW p \in Plugins, UnloadPluginCmd(p) PROVE loaded'[q] = dll'[q] /\ loaded'[q] \notin BadVersions
  <2>1. PICK f \in Faults({"FreeLibrary"}) :
          loaded' = IF f = <<p, "FreeLibrary">> THEN loaded ELSE [loaded EXCEPT ![p] = 0]
    BY <1>3 DEF UnloadPluginCmd
  <2>2. dll' = dll
    BY <1>3 DEF UnloadPluginCmd
  <2>3. loaded'[q] = loaded[q]
    BY <1>0, <2>1 DEF TypeOK
  <2>4. QED
    BY <2>2, <2>3 DEF RunningBuildOnDisk
<1>4. CASE DetectPluginChangesTimerCallback
  <2>1. PICK f \in Faults({"FreeLibrary", "LoadLibrary"}) : DetectPluginChanges(f)
    BY <1>4 DEF DetectPluginChangesTimerCallback
  <2>2. CASE Freed(q, f)
    <3>1. loaded'[q] = pending[q] /\ LoadOK(pending[q], 0, f, q)
      BY <2>1, <2>2 DEF DetectPluginChanges, Freed
    <3>2. dll'[q] = pending[q]
      BY <2>1, <2>2 DEF DetectPluginChanges
    <3>3. QED
      BY <3>1, <3>2 DEF LoadOK
  <2>3. CASE ~Freed(q, f)
    <3>1. loaded'[q] = loaded[q] /\ dll'[q] = dll[q]
      BY <2>1, <2>3 DEF DetectPluginChanges, Freed
    <3>2. QED
      BY <3>1 DEF RunningBuildOnDisk
  <2>4. QED
    BY <2>2, <2>3
<1>5. ASSUME NEW p \in Plugins, NEW v \in Versions, Deploy(p, v)
      PROVE loaded'[q] = dll'[q] /\ loaded'[q] \notin BadVersions
  BY <1>5 DEF Deploy, RunningBuildOnDisk
<1>6. CASE Tick \/ UNCHANGED vars
  BY <1>6 DEF Tick, vars, RunningBuildOnDisk
<1>7. QED
  BY <1>1, <1>2, <1>3, <1>4, <1>5, <1>6 DEF Next

(* In every reachable state a loaded plugin runs the build its .dll holds,
   and that build meets the API version: a hot reload never leaves an
   entry whose file was replaced under it (RunningBuildOnDisk, checked by
   the run pm_core). *)
THEOREM DiskInvariant == Spec => []RunningBuildOnDisk
<1>1. Init => Inv /\ RunningBuildOnDisk
  BY TypeCorrectInit DEF Init, Inv, PendingNewer, NothingLoadedBeforeStart, RunningBuildOnDisk
<1>2. Inv /\ RunningBuildOnDisk /\ [Next]_vars => (Inv /\ RunningBuildOnDisk)'
  BY InvNext, DiskNext
<1>3. QED
  BY <1>1, <1>2, PTL DEF Spec

-----------------------------------------------------------------------------
(* Without library failures, every listed plugin is live *)

(* With no failure allowed, the only fault a step can draw is NoFault. *)
LEMMA NoFaultOnly ==
    ASSUME TypeOK, MaxFaults = 0, NEW stages, NEW f \in Faults(stages)
    PROVE  f = NoFault
BY DEF Faults, TypeOK

LEMMA LiveNext ==
    MaxFaults = 0 /\ TypeOK /\ ListedPluginsAreLive /\ [Next]_vars => ListedPluginsAreLive'
<1> SUFFICES ASSUME MaxFaults = 0, TypeOK, ListedPluginsAreLive, [Next]_vars,
                    NEW q \in Plugins, loaded'[q] # 0
             PROVE  alive'[q]
  BY DEF ListedPluginsAreLive
<1>1. CASE LoadAllPlugins
  <2>1. PICK f \in Faults({"LoadLibrary"}) :
          /\ loaded' = [p \in Plugins |->
                          IF LoadOK(Newest(p), loaded[p], f, p) THEN Newest(p) ELSE loaded[p]]
          /\ alive' = [p \in Plugins |-> alive[p] \/ LoadOK(Newest(p), loaded[p], f, p)]
    BY <1>1 DEF LoadAllPlugins
  <2>2. QED
    BY <2>1 DEF ListedPluginsAreLive
<1>2. ASSUME NEW p \in Plugins, LoadPluginCmd(p) PROVE alive'[q]
  <2>1. loaded' = [loaded EXCEPT ![p] = dll[p]] /\ alive' = [alive EXCEPT ![p] = TRUE]
    BY <1>2 DEF LoadPluginCmd
  <2>2. QED
    BY <2>1 DEF ListedPluginsAreLive, TypeOK
(* UnloadPlugin: with FreeLibrary succeeding, the entry goes with the code. *)
<1>3. ASSUME NEW p \in Plugins, UnloadPluginCmd(p) PROVE alive'[q]
  <2>1. PICK f \in Faults({"FreeLibrary"}) :
          /\ alive' = [alive EXCEPT ![p] = FALSE]
          /\ loaded' = IF f = <<p, "FreeLibrary">> THEN loaded
                       ELSE [loaded EXCEPT ![p] = 0]
    BY <1>3 DEF UnloadPluginCmd
  <2>2. f = NoFault
    BY NoFaultOnly
  <2>3. loaded' = [loaded EXCEPT ![p] = 0]
    BY <2>1, <2>2 DEF NoFault
  <2>4. QED
    BY <2>1, <2>3 DEF ListedPluginsAreLive, TypeOK
<1>4. CASE DetectPluginChangesTimerCallback
  <2>1. PICK f \in Faults({"FreeLibrary", "LoadLibrary"}) : DetectPluginChanges(f)
    BY <1>4 DEF DetectPluginChangesTimerCallback
  <2>2. f = NoFault
    BY NoFaultOnly
  <2>3. CASE Reloads(q)
    <3>1. Freed(q, f)
      BY <2>2, <2>3 DEF Freed, NoFault
    <3>2. QED
      BY <2>1, <2>3, <3>1 DEF DetectPluginChanges
  <2>4. CASE ~Reloads(q)
    BY <2>1, <2>4 DEF DetectPluginChanges, ListedPluginsAreLive
  <2>5. QED
    BY <2>3, <2>4
<1>5. ASSUME NEW p \in Plugins, NEW v \in Versions, Deploy(p, v) PROVE alive'[q]
  BY <1>5 DEF Deploy, ListedPluginsAreLive
<1>6. CASE Tick \/ UNCHANGED vars
  BY <1>6 DEF Tick, vars, ListedPluginsAreLive
<1>7. QED
  BY <1>1, <1>2, <1>3, <1>4, <1>5, <1>6 DEF Next

(* When no LoadLibrary or FreeLibrary call fails, every entry of
   loaded_plugins_ is a plugin whose code is active.  The run
   pm_free_fail shows one FreeLibrary failure is enough to break it
   (ListedPluginsAreLive, UnloadPlugin lines 846-855). *)
THEOREM LiveWithoutFaults == MaxFaults = 0 => (Spec => []ListedPluginsAreLive)
<1> SUFFICES ASSUME MaxFaults = 0 PROVE Spec => []ListedPluginsAreLive
  OBVIOUS
<1>1. Init => TypeOK /\ ListedPluginsAreLive
  BY TypeCorrectInit DEF Init, ListedPluginsAreLive
<1>2. TypeOK /\ ListedPluginsAreLive /\ [Next]_vars => (TypeOK /\ ListedPluginsAreLive)'
  BY TypeNext, LiveNext
<1>3. QED
  BY <1>1, <1>2, PTL DEF Spec

=============================================================================

----------------------------- MODULE PVEProofs ------------------------------
(***************************************************************************)
(* Proofs about PVEStore: the state stays well typed, and when no SELECT  *)
(* fails every save applies the two PVE lists as intended, for every set   *)
(* of tribes.                                                              *)
(***************************************************************************)
EXTENDS PVEStore, TLAPS

USE PVEAssumption DEF PVEAssumption

LEMMA WrittenType ==
    ASSUME TypeOK, NEW P \in SUBSET Tribes, NEW R \in SUBSET Tribes
    PROVE  Written(P, R) \in [Tribes -> {Absent, 0, 1}]
BY DEF Written, TypeOK

LEMMA TypeNext == TypeOK /\ [Next]_vars => TypeOK'
<1> SUFFICES ASSUME TypeOK, [Next]_vars PROVE TypeOK'
  OBVIOUS
<1>1. CASE SaveWorld
  <2>1. PICK selectFails \in IF faults < MaxFaults /\ removedPveTribesList # {}
                             THEN BOOLEAN ELSE {FALSE} :
          LET tb == Written(pveTribesList, removedPveTribesList)
          IN /\ PVE_Tribes' = tb
             /\ pveTribesList' = Reloaded(pveTribesList, removedPveTribesList, tb, selectFails)
             /\ removedPveTribesList' = {}
             /\ faults' = IF selectFails THEN faults + 1 ELSE faults
    BY <1>1 DEF SaveWorld
  <2>2. PVE_Tribes' \in [Tribes -> {Absent, 0, 1}]
    BY <2>1, WrittenType DEF TypeOK
  <2>3. pveTribesList' \subseteq Tribes
    BY <2>1 DEF Reloaded, ProtectedRows, TypeOK
  <2>4. faults' \in 0..MaxFaults
    <3>1. CASE selectFails
      <4>1. faults < MaxFaults
        BY <2>1, <3>1
      <4>2. QED
        BY <2>1, <3>1, <4>1 DEF TypeOK
    <3>2. CASE ~selectFails
      BY <2>1, <3>2 DEF TypeOK
    <3>3. QED
      BY <3>1, <3>2
  <2>5. QED
    BY <1>1, <2>1, <2>2, <2>3, <2>4 DEF SaveWorld, TypeOK
<1>2. CASE SaveWorldAbort
  BY <1>2 DEF SaveWorldAbort, TypeOK
<1>3. CASE EditLists
  BY <1>3 DEF EditLists, TypeOK
<1>4. CASE Restart
  BY <1>4 DEF Restart, ProtectedRows, TypeOK
<1>5. CASE UNCHANGED vars
  BY <1>5 DEF vars, TypeOK
<1>6. QED
  BY <1>1, <1>2, <1>3, <1>4, <1>5 DEF Next

(* The model is well typed in every reachable state. *)
THEOREM TypeCorrect == Spec => []TypeOK
<1>1. Init => TypeOK
  BY DEF Init, TypeOK, ProtectedRows
<1>2. QED
  BY <1>1, TypeNext, PTL DEF Spec

(* A SaveWorld step whose SELECTs all succeed stores every removed tribe as
   not protected and drops it from pveTribesList, and stores every other
   PVE tribe as protected and keeps it: the lines 297-310 and the reload
   of lines 226-236 agree, whatever the lists and the table hold. *)
LEMMA SaveStep ==
    ASSUME TypeOK, MaxFaults = 0, SaveWorld
    PROVE  /\ \A t \in removedPveTribesList :
                 PVE_Tribes'[t] = 0 /\ ~IsPVETribe(t)'
           /\ \A t \in pveTribesList \ removedPveTribesList :
                 PVE_Tribes'[t] = 1 /\ IsPVETribe(t)'
<1> DEFINE tb == Written(pveTribesList, removedPveTribesList)
<1>1. PVE_Tribes' = tb
      /\ pveTribesList' = Reloaded(pveTribesList, removedPveTribesList, tb, FALSE)
  BY DEF SaveWorld, TypeOK
<1>2. ASSUME NEW t \in removedPveTribesList
      PROVE  PVE_Tribes'[t] = 0 /\ ~IsPVETribe(t)'
  BY <1>1, <1>2 DEF Written, Reloaded, ProtectedRows, IsPVETribe, TypeOK
<1>3. ASSUME NEW t \in pveTribesList \ removedPveTribesList
      PROVE  PVE_Tribes'[t] = 1 /\ IsPVETribe(t)'
  <2>1. PVE_Tribes'[t] = 1
    BY <1>1, <1>3 DEF Written, TypeOK
  <2>2. removedPveTribesList = {} => pveTribesList' = pveTribesList
    BY <1>1 DEF Reloaded
  <2>3. removedPveTribesList # {} => pveTribesList' = ProtectedRows(tb)
    BY <1>1 DEF Reloaded
  <2>4. QED
    BY <1>3, <2>1, <2>2, <2>3, <1>1 DEF ProtectedRows, IsPVETribe, TypeOK
<1>4. QED
  BY <1>2, <1>3

(* With no failed SELECT, every save applies the lists (SaveAppliesLists,
   checked by the run pve_save for three tribes). *)
THEOREM SaveCorrect == MaxFaults = 0 => (Spec => SaveAppliesLists)
<1> SUFFICES ASSUME MaxFaults = 0 PROVE Spec => SaveAppliesLists
  OBVIOUS
<1>1. TypeOK /\ [Next]_vars =>
        [SaveWorld =>
           /\ \A t \in removedPveTribesList : PVE_Tribes'[t] = 0 /\ ~IsPVETribe(t)'
           /\ \A t \in pveTribesList \ removedPveTribesList :
                 PVE_Tribes'[t] = 1 /\ IsPVETribe(t)']_vars
  BY SaveStep
<1>2. QED
  BY <1>1, TypeCorrect, PTL DEF Spec, SaveAppliesLists
=============================================================================

----------------------------- MODULE PVEStore -------------------------------
(***************************************************************************)
(* The PVE tribes of New-Player-Protection and their table in the plugin's *)
(* database (src/NewPlayerProtectionHooks.h): pveTribesList, which         *)
(* IsPVETribe reads, removedPveTribesList, the PVE_Tribes table, and the   *)
(* half of Hook_AShooterGameMode_SaveWorld that writes them through        *)
(* UpdatePVETribeDB.                                                       *)
(*                                                                         *)
(* The code that adds and removes PVE tribes (console commands) and the    *)
(* load at startup are not in this repository: between two saves the two  *)
(* lists take any value.  Only membership matters to the code (std::count, *)
(* and a row per tribe id), so each vector is modelled by the set of ids   *)
(* it holds.  The SaveWorld hook runs on the game thread: one step.        *)
(*                                                                         *)
(* The loop at line 307 iterates removedPveTribesList while                *)
(* UpdatePVETribeDB(t, 0) clears it (line 226): undefined behaviour.  A    *)
(* release build keeps walking the old elements; a debug build's checked   *)
(* iterator asserts on the increment after the first element, inside the  *)
(* open transaction, which SQLite then rolls back.  Both are outcomes.     *)
(*                                                                         *)
(* Of the database errors, only the SELECT of line 231 failing is          *)
(* modelled.  An INSERT that throws (the outer catch, lines 244-247) is    *)
(* not: it would skip that call's clear and reload, and which reload then  *)
(* stands depends on the order of the vector, which the sets forget.       *)
(***************************************************************************)
EXTENDS Naturals

CONSTANTS
    Tribes,         \* tribe ids
    Absent,         \* no row for the tribe in PVE_Tribes
    MaxFaults       \* bound on failed SELECTs (model bound)

ASSUME PVEAssumption ==
    /\ Absent \notin {0, 1}
    /\ MaxFaults \in Nat

VARIABLES
    pveTribesList,          \* NewPlayerProtection::pveTribesList
    removedPveTribesList,   \* NewPlayerProtection::removedPveTribesList
    PVE_Tribes,             \* the table: tribe id -> Is_Protected, or Absent
    up,                     \* the server process is running
    faults                  \* failed SELECTs so far

vars == <<pveTribesList, removedPveTribesList, PVE_Tribes, up, faults>>

TypeOK ==
    /\ pveTribesList \subseteq Tribes
    /\ removedPveTribesList \subseteq Tribes
    /\ PVE_Tribes \in [Tribes -> {Absent, 0, 1}]
    /\ up \in BOOLEAN
    /\ faults \in 0..MaxFaults

IsPVETribe(t) == t \in pveTribesList

(* "SELECT TribeId FROM PVE_Tribes where Is_Protected = 1" over table tb. *)
ProtectedRows(tb) == {t \in Tribes : tb[t] = 1}

(* Mutant: the removed tribes written before the PVE tribes. *)
WrittenRemovedFirst(P, R) ==
    [t \in Tribes |-> IF t \in P THEN 1 ELSE IF t \in R THEN 0 ELSE PVE_Tribes[t]]

(* The table after the two loops of SaveWorld: the INSERT OR REPLACE of
   (t, 1) for every PVE tribe, then of (t, 0) for every removed one. *)
Written(P, R) ==
    [t \in Tribes |-> IF t \in R THEN 0 ELSE IF t \in P THEN 1 ELSE PVE_Tribes[t]]

(* pveTribesList after the loop at line 307.  Every UpdatePVETribeDB(t, 0)
   clears both lists and refills pveTribesList from the table; a SELECT
   that throws is logged and leaves the list empty.  Only the last
   iteration's reload is seen, so selectFails says that that one threw. *)
Reloaded(P, R, tb, selectFails) ==
    IF R = {} THEN P
    ELSE IF selectFails THEN {} ELSE ProtectedRows(tb)

(* Hook_AShooterGameMode_SaveWorld, the PVE half, run to its end. *)
SaveWorld ==
    /\ up
    /\ \E selectFails \in IF faults < MaxFaults /\ removedPveTribesList # {}
                          THEN BOOLEAN ELSE {FALSE} :
        LET tb == Written(pveTribesList, removedPveTribesList)
        IN /\ PVE_Tribes' = tb
           /\ pveTribesList' = Reloaded(pveTribesList, removedPveTribesList, tb, selectFails)
           /\ removedPveTribesList' = {}
           /\ faults' = IF selectFails THEN faults + 1 ELSE faults
    /\ UNCHANGED up

(* The same hook in a debug build: UpdatePVETribeDB(t, 0) of the first
   removed tribe clears the vector the loop at line 307 walks, and the
   checked iterator asserts on the next increment; the transaction opened
   at line 295 is never ended, so none of this save reaches the table. *)
SaveWorldAbort ==
    /\ up
    /\ removedPveTribesList # {}
    /\ up' = FALSE
    /\ pveTribesList' = {} /\ removedPveTribesList' = {}
    /\ UNCHANGED <<PVE_Tribes, faults>>

(* The plugin's console commands edit the lists (outside this repository). *)
EditLists ==
    /\ up
    /\ \E P, R \in SUBSET Tribes :
        pveTribesList' = P /\ removedPveTribesList' = R
    /\ UNCHANGED <<PVE_Tribes, up, faults>>

(* The plugin is loaded again: pveTribesList is read from the table with
   the query of line 231 (the load is outside this repository). *)
Restart ==
    /\ ~up
    /\ up' = TRUE
    /\ pveTribesList' = ProtectedRows(PVE_Tribes)
    /\ removedPveTribesList' = {}
    /\ UNCHANGED <<PVE_Tribes, faults>>

Init ==
    /\ PVE_Tribes \in [Tribes -> {Absent, 0, 1}]
    /\ pveTribesList = ProtectedRows(PVE_Tribes)
    /\ removedPveTribesList = {}
    /\ up = TRUE
    /\ faults = 0

Next == SaveWorld \/ SaveWorldAbort \/ EditLists \/ Restart

Spec == Init /\ [][Next]_vars

-----------------------------------------------------------------------------
(* Properties *)

(* A save that runs to its end (the process survives it) leaves every tribe
   of removedPveTribesList stored as not protected and no longer PVE, and
   every other tribe of pveTribesList stored as protected and still PVE:
   the two loops of SaveWorld and the clear-and-reload of UpdatePVETribeDB
   (lines 226-236) agree on the outcome. *)
SaveAppliesLists ==
    [][SaveWorld =>
         /\ \A t \in removedPveTribesList : PVE_Tribes'[t] = 0 /\ ~IsPVETribe(t)'
         /\ \A t \in pveTribesList \ removedPveTribesList :
               PVE_Tribes'[t] = 1 /\ IsPVETribe(t)']_vars

=============================================================================

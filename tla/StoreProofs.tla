---------------------------- MODULE StoreProofs ------------------------------
(***************************************************************************)
(* Proof that the Players table is honoured across crashes and restarts   *)
(* (NPPStore), for every value of the constants.                           *)
(***************************************************************************)
EXTENDS NPPStore, NPPProofs

USE StoreAssumption DEF StoreAssumption

(* A step keeps every entry of all_players_, with its start time, and ends
   protections without starting any. *)
Keeps ==
    \A q \in DOMAIN all_players :
        /\ q \in DOMAIN all_players'
        /\ all_players'[q].start = all_players[q].start
        /\ all_players[q].isNewPlayer = 0 => all_players'[q].isNewPlayer = 0

(* Every step of the tracker keeps all_players_ in that sense: AddNewPlayer
   never replaces an entry, UpdateLevelAndTribe writes tribe and level only,
   RemoveExpiredTribesProtection only writes isNewPlayer = 0. *)
LEMMA KeepNext == TypeOK /\ [Next]_vars => Keeps
<1> SUFFICES ASSUME TypeOK, [Next]_vars PROVE Keeps
  OBVIOUS
<1>1. ASSUME NEW p \in Players, HandleNewPlayer(p) PROVE Keeps
  <2>1. PICK tt \in {0} \cup Tribes, admin \in BOOLEAN :
          \E team \in IF tt # 0 THEN {tt} ELSE RandTeams :
             all_players' = AddNewPlayer(all_players, p, team)
    BY <1>1 DEF HandleNewPlayer
  <2>2. PICK team \in (IF tt # 0 THEN {tt} ELSE RandTeams) :
          all_players' = AddNewPlayer(all_players, p, team)
    BY <2>1
  <2>3. \A q \in DOMAIN all_players :
          q \in DOMAIN AddNewPlayer(all_players, p, team)
          /\ AddNewPlayer(all_players, p, team)[q] = all_players[q]
    BY DEF AddNewPlayer, Put
  <2>4. QED
    BY <2>2, <2>3 DEF Keeps
<1>2. ASSUME NEW p \in Players, Logout(p) PROVE Keeps
  BY <1>2 DEF Logout, Keeps
<1>3. CASE UpdateTimer
  <2>1. PICK dead, tr, lv, g :
          /\ TimerInputs(dead, tr, lv, g)
          /\ all_players' = ClearAll(UpdatedAll(dead, tr, lv), UpdatedPermissions(g))
    BY <1>3 DEF UpdateTimer, TimerInputs
  <2> DEFINE all1 == UpdatedAll(dead, tr, lv)
  <2>2. \A q \in DOMAIN all_players :
          /\ q \in DOMAIN all1
          /\ all1[q].start = all_players[q].start
          /\ all1[q].isNewPlayer = all_players[q].isNewPlayer
    BY DEF UpdatedAll, TypeOK, AllPlayerData
  <2>3. all1 \in [DOMAIN all1 -> AllPlayerData]
    BY <2>1, UpdatedType
  <2>4. \A q \in DOMAIN all1 :
          /\ q \in DOMAIN ClearAll(all1, UpdatedPermissions(g))
          /\ ClearAll(all1, UpdatedPermissions(g))[q].start = all1[q].start
          /\ all1[q].isNewPlayer = 0
             => ClearAll(all1, UpdatedPermissions(g))[q].isNewPlayer = 0
    BY <2>3 DEF ClearAll, AllPlayerData
  <2>5. QED
    BY <2>1, <2>2, <2>4 DEF Keeps
<1>4. CASE TakeDamage
  BY <1>4 DEF TakeDamage, Keeps
<1>5. CASE Tick
  BY <1>5 DEF Tick, pluginVars, Keeps
<1>6. CASE UNCHANGED vars
  BY <1>6 DEF vars, pluginVars, Keeps
<1>7. QED
  BY <1>1, <1>2, <1>3, <1>4, <1>5, <1>6 DEF Next

(* The inductive invariant: the tracker's and the table's types, and the
   property. *)
SInv == TypeOK /\ StoreTypeOK /\ SavedStateHonoured

LEMMA SInvNext == SInv /\ [StoreNext]_allVars => SInv'
<1> SUFFICES ASSUME SInv, [StoreNext]_allVars PROVE SInv'
  OBVIOUS
<1>0. TypeOK /\ StoreTypeOK /\ SavedStateHonoured
  BY DEF SInv
(* One of the tracker's own steps, inside the live process. *)
<1>1. ASSUME up, Next, UNCHANGED storeVars PROVE SInv'
  <2>1. TypeOK'
    BY <1>0, <1>1, TypeNext
  <2>2. Keeps
    BY <1>0, <1>1, KeepNext
  <2>3. SavedStateHonoured'
    BY <1>0, <1>1, <2>2 DEF storeVars, SavedStateHonoured, Keeps
  <2>4. StoreTypeOK'
    BY <1>0, <1>1 DEF storeVars, StoreTypeOK
  <2>5. QED
    BY <2>1, <2>3, <2>4 DEF SInv
<1>2. CASE SaveWorld
  <2>1. PICK written \in SUBSET DOMAIN all_players :
          Players_table' =
            [p \in DOMAIN Players_table \cup written |->
                IF p \in written THEN all_players[p] ELSE Players_table[p]]
    BY <1>2 DEF SaveWorld
  <2>2. UNCHANGED <<vars, up, crashes>>
    BY <1>2 DEF SaveWorld
  <2>3. StoreTypeOK'
    BY <1>0, <2>1, <2>2 DEF StoreTypeOK, TypeOK
  <2>4. SavedStateHonoured'
    BY <1>0, <1>2, <2>1, <2>2 DEF SaveWorld, SavedStateHonoured, vars, pluginVars
  <2>5. QED
    BY <1>0, <2>2, <2>3, <2>4 DEF SInv, TypeOK, vars, pluginVars
<1>3. CASE Crash
  <2>1. UNCHANGED <<vars, Players_table>> /\ up' = FALSE
        /\ crashes' = crashes + 1 /\ crashes < MaxCrashes
    BY <1>3 DEF Crash
  <2>2. TypeOK'
    BY <1>0, <2>1 DEF TypeOK, vars, pluginVars
  <2>3. StoreTypeOK'
    <3>1. crashes \in 0..MaxCrashes
      BY <1>0 DEF StoreTypeOK
    <3>2. crashes' \in 0..MaxCrashes
      BY <2>1, <3>1
    <3>3. QED
      BY <1>0, <2>1, <3>2 DEF StoreTypeOK
  <2>4. SavedStateHonoured'
    BY <2>1 DEF SavedStateHonoured
  <2>5. QED
    BY <2>2, <2>3, <2>4 DEF SInv
<1>4. CASE Restart
  <2>1. all_players' = [p \in DOMAIN Players_table |-> Players_table[p]]
        /\ online_players' = <<>> /\ PermissionsMap' = <<>>
        /\ next_player_update' = 0 /\ now' = now
    BY <1>4 DEF Restart
  <2>2. TypeOK'
    BY <1>0, <2>1 DEF TypeOK, StoreTypeOK
  <2>3. StoreTypeOK'
    BY <1>0, <1>4 DEF Restart, StoreTypeOK
  <2>4. SavedStateHonoured'
    BY <1>4, <2>1 DEF Restart, SavedStateHonoured
  <2>5. QED
    BY <2>2, <2>3, <2>4 DEF SInv
<1>5. CASE UNCHANGED allVars
  BY <1>0, <1>5 DEF allVars, vars, pluginVars, storeVars, SInv, TypeOK, StoreTypeOK,
                    SavedStateHonoured
<1>6. QED
  <2>1. CASE \E p \in Players : Running(HandleNewPlayer(p)) \/ Running(Logout(p))
    BY <1>1, <2>1 DEF Running, Next
  <2>2. CASE Running(UpdateTimer) \/ Running(TakeDamage)
    BY <1>1, <2>2 DEF Running, Next
  <2>3. CASE Tick /\ UNCHANGED storeVars
    <3>1. TypeOK'
      BY <1>0, <2>3, TypeNext DEF Next
    <3>2. StoreTypeOK' /\ SavedStateHonoured'
      BY <1>0, <2>3 DEF Tick, pluginVars, storeVars, StoreTypeOK, SavedStateHonoured
    <3>3. QED
      BY <3>1, <3>2 DEF SInv
  <2>4. QED
    BY <2>1, <2>2, <2>3, <1>2, <1>3, <1>4, <1>5 DEF StoreNext

(* While the server is up, every row of the Players table has its entry in
   all_players_ with the row's start time, and no protection the row
   records as ended has come back: SaveWorld, AddPlayerFromDB at restart,
   and the tracker's handlers keep the saved state (SavedStateHonoured,
   checked by the run npp_store). *)
THEOREM StoreCorrect == StoreSpec => []SavedStateHonoured
<1>1. StoreInit => SInv
  <2> SUFFICES ASSUME StoreInit PROVE SInv
    OBVIOUS
  <2>1. TypeOK
    BY DEF StoreInit, Init, TypeOK
  <2>2. StoreTypeOK /\ SavedStateHonoured
    BY DEF StoreInit, StoreTypeOK, SavedStateHonoured
  <2>3. QED
    BY <2>1, <2>2 DEF SInv
<1>2. QED
  BY <1>1, SInvNext, PTL DEF StoreSpec, SInv
=============================================================================

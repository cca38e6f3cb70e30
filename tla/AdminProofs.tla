---------------------------- MODULE AdminProofs ------------------------------
(***************************************************************************)
(* Proof that an admin who is online keeps protection through every pass  *)
(* of the expiry (NPPAdmin), for every value of the constants.             *)
(***************************************************************************)
EXTENDS NPPAdmin, NPPProofs

USE AdminAssumption DEF AdminAssumption

(* Every step of AdminSpec is a step of the tracker. *)
LEMMA AdminNextIsNext == [AdminNext]_vars => [Next]_vars
  BY DEF AdminNext, Next

(* Every online player has an entry in the permission cache: both are
   added by HandleNewPlayer (lines 271-274) and dropped by Logout (lines
   284-285), and a pass rewrites cached entries only. *)
CacheCoversOnline == DOMAIN online_players \subseteq DOMAIN PermissionsMap

AInv == TypeOK /\ CacheCoversOnline

LEMMA AInvNext == AInv /\ [AdminNext]_vars => AInv'
<1> SUFFICES ASSUME AInv, [AdminNext]_vars PROVE AInv'
  OBVIOUS
<1>1. TypeOK'
  BY AdminNextIsNext, TypeNext DEF AInv
<1>2. CASE \E p \in Players : HandleNewPlayer(p) /\ GroupsRead(p)
  <2>1. PICK p \in Players : HandleNewPlayer(p)
    BY <1>2
  <2>2. PICK tt \in {0} \cup Tribes, admin \in BOOLEAN :
          \E team \in IF tt # 0 THEN {tt} ELSE RandTeams :
            LET all1 == AddNewPlayer(all_players, p, team)
            IN /\ online_players' = AddOnlinePlayer(online_players, all1, p, team)
               /\ PermissionsMap' = Put(PermissionsMap, p, admin)
    BY <2>1 DEF HandleNewPlayer
  <2>3. PICK team \in (IF tt # 0 THEN {tt} ELSE RandTeams) :
          LET all1 == AddNewPlayer(all_players, p, team)
          IN /\ online_players' = AddOnlinePlayer(online_players, all1, p, team)
             /\ PermissionsMap' = Put(PermissionsMap, p, admin)
    BY <2>2
  <2>4. DOMAIN online_players' \subseteq DOMAIN online_players \cup {p}
    BY <2>3 DEF AddOnlinePlayer, Put
  <2>5. DOMAIN PermissionsMap' = DOMAIN PermissionsMap \cup {p}
    BY <2>3 DEF Put
  <2>6. QED
    BY <1>1, <2>4, <2>5 DEF AInv, CacheCoversOnline
<1>3. CASE \E p \in Players : Logout(p)
  BY <1>1, <1>3 DEF Logout, Drop, AInv, CacheCoversOnline
<1>4. CASE UpdateTimer /\ \A q \in DOMAIN online_players : GroupsRead(q)
  <2>1. PICK dead, tr, lv, g :
          /\ online_players' = ClearOnline(UpdatedAll(dead, tr, lv),
                                           UpdatedOnline(dead, tr, lv),
                                           UpdatedPermissions(g))
          /\ PermissionsMap' = UpdatedPermissions(g)
    BY <1>4 DEF UpdateTimer
  <2>2. DOMAIN online_players' = DOMAIN online_players
    BY <2>1 DEF ClearOnline, UpdatedOnline
  <2>3. DOMAIN PermissionsMap' = DOMAIN PermissionsMap
    BY <2>1 DEF UpdatedPermissions
  <2>4. QED
    BY <1>1, <2>2, <2>3 DEF AInv, CacheCoversOnline
<1>5. CASE TakeDamage
  <2>1. PICK e \in DamageEvents :
          /\ online_players' = IsNextMessageReady(online_players,
                 Verdict(e.exempt, e.attacked, e.causer, e.inst, e.ub).notify)
          /\ UNCHANGED PermissionsMap
    BY <1>5 DEF TakeDamage
  <2>2. DOMAIN online_players' = DOMAIN online_players
    BY <2>1 DEF IsNextMessageReady
  <2>3. QED
    BY <1>1, <2>1, <2>2 DEF AInv, CacheCoversOnline
<1>6. CASE Tick \/ UNCHANGED vars
  BY <1>1, <1>6 DEF Tick, vars, pluginVars, AInv, CacheCoversOnline
<1>7. QED
  BY <1>2, <1>3, <1>4, <1>5, <1>6 DEF AdminNext

(* The statement of OnlineAdminsKeepProtection for one step. *)
AdminKept ==
    \A q \in DOMAIN all_players \cap DOMAIN online_players \cap Admins :
        IgnoreAdmins /\ all_players[q].isNewPlayer = 1
          => all_players'[q].isNewPlayer = 1

LEMMA AdminStep == AInv /\ [AdminNext]_vars => AdminKept
<1> SUFFICES ASSUME AInv, [AdminNext]_vars,
                    NEW q \in DOMAIN all_players \cap DOMAIN online_players \cap Admins,
                    IgnoreAdmins, all_players[q].isNewPlayer = 1
             PROVE all_players'[q].isNewPlayer = 1
  BY DEF AdminKept
<1>0. TypeOK /\ CacheCoversOnline
  BY DEF AInv
<1>1. CASE \E p \in Players : HandleNewPlayer(p) /\ GroupsRead(p)
  <2>1. PICK p \in Players : HandleNewPlayer(p)
    BY <1>1
  <2>2. PICK tt \in {0} \cup Tribes, admin \in BOOLEAN :
          \E team \in IF tt # 0 THEN {tt} ELSE RandTeams :
             all_players' = AddNewPlayer(all_players, p, team)
    BY <2>1 DEF HandleNewPlayer
  <2>3. PICK team \in (IF tt # 0 THEN {tt} ELSE RandTeams) :
          all_players' = AddNewPlayer(all_players, p, team)
    BY <2>2
  <2>4. AddNewPlayer(all_players, p, team)[q] = all_players[q]
    BY DEF AddNewPlayer, Put
  <2>5. QED
    BY <2>3, <2>4
<1>2. CASE \E p \in Players : Logout(p)
  BY <1>2 DEF Logout
(* The pass: the cache has just been re-read for q, which is online, so
   IsAdmin(q) holds and ClearAll leaves q's entry as the refresh wrote it. *)
<1>3. CASE UpdateTimer /\ \A o \in DOMAIN online_players : GroupsRead(o)
  <2>1. PICK dead, tr, lv, g :
          /\ all_players' = ClearAll(UpdatedAll(dead, tr, lv), UpdatedPermissions(g))
          /\ PermissionsMap' = UpdatedPermissions(g)
    BY <1>3 DEF UpdateTimer
  <2> DEFINE all1 == UpdatedAll(dead, tr, lv)
             pm1 == UpdatedPermissions(g)
  <2>2. q \in DOMAIN pm1 /\ pm1[q] = TRUE
    <3>1. q \in DOMAIN PermissionsMap
      BY <1>0 DEF CacheCoversOnline
    <3>2. PermissionsMap'[q] = TRUE
      BY <1>3 DEF GroupsRead
    <3>3. QED
      BY <2>1, <3>1, <3>2 DEF UpdatedPermissions
  <2>3. IsAdminIn(pm1, q)
    BY <2>2 DEF IsAdminIn
  <2>4. q \in DOMAIN all1 /\ all1[q].isNewPlayer = all_players[q].isNewPlayer
    BY <1>0 DEF UpdatedAll, TypeOK, AllPlayerData
  <2>5. ClearAll(all1, pm1)[q] = all1[q]
    BY <2>3, <2>4 DEF ClearAll
  <2>6. QED
    BY <2>1, <2>4, <2>5
<1>4. CASE TakeDamage
  BY <1>4 DEF TakeDamage
<1>5. CASE Tick \/ UNCHANGED vars
  BY <1>5 DEF Tick, vars, pluginVars
<1>6. QED
  BY <1>1, <1>2, <1>3, <1>4, <1>5 DEF AdminNext

(* An admin who is online is never stripped of protection by the expiry
   pass of UpdateTimer: the cache is re-read for every online player
   (lines 626-629) before RemoveExpiredTribesProtection, whose IsAdmin
   guards (lines 148, 157) then skip it (OnlineAdminsKeepProtection,
   checked by the run npp_online_admin). *)
THEOREM OnlineAdminSafe == AdminSpec => OnlineAdminsKeepProtection
<1>1. Init => AInv
  BY DEF Init, AInv, TypeOK, CacheCoversOnline
<1>2. AInv /\ [AdminNext]_vars => AInv'
  BY AInvNext
<1>3. AInv /\ [AdminNext]_vars => [AdminKept]_vars
  BY AdminStep
<1>4. QED
  BY <1>1, <1>2, <1>3, PTL DEF AdminSpec, OnlineAdminsKeepProtection, AdminKept

=============================================================================

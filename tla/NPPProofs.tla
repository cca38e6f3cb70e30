----------------------------- MODULE NPPProofs ------------------------------
(***************************************************************************)
(* Proofs about the protection tracker of module NPP, for every value of   *)
(* the constants that satisfies ConstAssumption.                           *)
(***************************************************************************)
EXTENDS NPP, TLAPS

USE ConstAssumption DEF ConstAssumption

(* The values the plugin reads for a team or a level are numbers. *)
LEMMA ReadValuesNat ==
    /\ {0} \cup Tribes \subseteq Nat
    /\ RandTeams \subseteq Nat
    /\ Levels \subseteq Nat
BY DEF Levels

(* Put and Drop keep a function's domain inside S and its values in T. *)
LEMMA PutType ==
    ASSUME NEW S, NEW T, NEW f, DOMAIN f \subseteq S, f \in [DOMAIN f -> T],
           NEW x \in S, NEW v \in T
    PROVE  /\ DOMAIN Put(f, x, v) \subseteq S
           /\ Put(f, x, v) \in [DOMAIN Put(f, x, v) -> T]
BY DEF Put

LEMMA DropType ==
    ASSUME NEW S, NEW T, NEW f, DOMAIN f \subseteq S, f \in [DOMAIN f -> T],
           NEW x
    PROVE  /\ DOMAIN Drop(f, x) \subseteq S
           /\ Drop(f, x) \in [DOMAIN Drop(f, x) -> T]
BY DEF Drop

(* IsNextMessageReady only moves the throttle, within the type. *)
LEMMA ThrottleType ==
    ASSUME TypeOK, NEW S
    PROVE  LET onl == IsNextMessageReady(online_players, S)
           IN  /\ DOMAIN onl = DOMAIN online_players
               /\ onl \in [DOMAIN onl -> OnlinePlayersData]
               /\ \A o \in DOMAIN onl :
                     /\ onl[o].tribe = online_players[o].tribe
                     /\ onl[o].start = online_players[o].start
                     /\ onl[o].level = online_players[o].level
                     /\ onl[o].isNewPlayer = online_players[o].isNewPlayer
BY DEF IsNextMessageReady, TypeOK, OnlinePlayersData

-----------------------------------------------------------------------------
(* The inputs of one UpdateTimer pass, and what the pass computes. *)

TimerInputs(dead, tr, lv, g) ==
    /\ dead \in SUBSET DOMAIN online_players
    /\ tr \in [DOMAIN online_players -> {0} \cup Tribes]
    /\ lv \in [DOMAIN online_players -> Levels]
    /\ g \in [DOMAIN online_players -> BOOLEAN]

LEMMA UpdatedType ==
    ASSUME TypeOK, NEW dead, NEW tr, NEW lv, NEW g, TimerInputs(dead, tr, lv, g)
    PROVE  /\ DOMAIN UpdatedAll(dead, tr, lv) = DOMAIN all_players
           /\ UpdatedAll(dead, tr, lv) \in [DOMAIN all_players -> AllPlayerData]
           /\ DOMAIN UpdatedOnline(dead, tr, lv) = DOMAIN online_players
           /\ UpdatedOnline(dead, tr, lv) \in [DOMAIN online_players -> OnlinePlayersData]
           /\ DOMAIN UpdatedPermissions(g) = DOMAIN PermissionsMap
           /\ UpdatedPermissions(g) \in [DOMAIN PermissionsMap -> BOOLEAN]
<1>1. \A q \in DOMAIN online_players : tr[q] \in Nat /\ lv[q] \in Nat
  <2> SUFFICES ASSUME NEW q \in DOMAIN online_players PROVE tr[q] \in Nat /\ lv[q] \in Nat
    OBVIOUS
  <2>1. tr[q] \in {0} \cup Tribes /\ lv[q] \in Levels
    BY DEF TimerInputs
  <2>2. QED
    BY <2>1, ReadValuesNat
<1>2. UpdatedAll(dead, tr, lv) \in [DOMAIN all_players -> AllPlayerData]
  <2> SUFFICES ASSUME NEW q \in DOMAIN all_players
               PROVE  UpdatedAll(dead, tr, lv)[q] \in AllPlayerData
    BY DEF UpdatedAll
  <2>1. all_players[q] \in AllPlayerData
    BY DEF TypeOK
  <2>2. CASE Refreshed(q, dead)
    BY <1>1, <2>1, <2>2 DEF UpdatedAll, Refreshed, AllPlayerData
  <2>3. CASE ~Refreshed(q, dead)
    BY <2>1, <2>3 DEF UpdatedAll
  <2>4. QED
    BY <2>2, <2>3
<1>3. UpdatedOnline(dead, tr, lv) \in [DOMAIN online_players -> OnlinePlayersData]
  <2> SUFFICES ASSUME NEW q \in DOMAIN online_players
               PROVE  UpdatedOnline(dead, tr, lv)[q] \in OnlinePlayersData
    BY DEF UpdatedOnline
  <2>1. online_players[q] \in OnlinePlayersData
    BY DEF TypeOK
  <2>2. CASE Refreshed(q, dead)
    BY <1>1, <2>1, <2>2 DEF UpdatedOnline, Refreshed, OnlinePlayersData
  <2>3. CASE ~Refreshed(q, dead)
    BY <2>1, <2>3 DEF UpdatedOnline
  <2>4. QED
    BY <2>2, <2>3
<1>4. UpdatedPermissions(g) \in [DOMAIN PermissionsMap -> BOOLEAN]
  BY DEF UpdatedPermissions, TimerInputs, TypeOK
<1>5. QED
  BY <1>2, <1>3, <1>4 DEF UpdatedAll, UpdatedOnline, UpdatedPermissions

LEMMA ClearType ==
    ASSUME NEW all, NEW onl, NEW pm,
           all \in [DOMAIN all -> AllPlayerData],
           onl \in [DOMAIN onl -> OnlinePlayersData]
    PROVE  /\ DOMAIN ClearAll(all, pm) = DOMAIN all
           /\ ClearAll(all, pm) \in [DOMAIN all -> AllPlayerData]
           /\ DOMAIN ClearOnline(all, onl, pm) = DOMAIN onl
           /\ ClearOnline(all, onl, pm) \in [DOMAIN onl -> OnlinePlayersData]
BY DEF ClearAll, ClearOnline, AllPlayerData, OnlinePlayersData

-----------------------------------------------------------------------------
(* Type correctness *)

(* Every step of the plugin keeps the state well typed. *)
LEMMA TypeNext == TypeOK /\ [Next]_vars => TypeOK'
<1> SUFFICES ASSUME TypeOK, [Next]_vars PROVE TypeOK'
  OBVIOUS
<1>1. ASSUME NEW p \in Players, HandleNewPlayer(p) PROVE TypeOK'
  <2>0. PICK tt \in {0} \cup Tribes, admin \in BOOLEAN :
          \E team \in IF tt # 0 THEN {tt} ELSE RandTeams :
          LET all1 == AddNewPlayer(all_players, p, team)
          IN /\ all_players' = all1
             /\ online_players' = AddOnlinePlayer(online_players, all1, p, team)
             /\ PermissionsMap' = Put(PermissionsMap, p, admin)
             /\ UNCHANGED <<next_player_update, now>>
    BY <1>1 DEF HandleNewPlayer
  <2>1. PICK team \in (IF tt # 0 THEN {tt} ELSE RandTeams) :
          LET all1 == AddNewPlayer(all_players, p, team)
          IN /\ all_players' = all1
             /\ online_players' = AddOnlinePlayer(online_players, all1, p, team)
             /\ PermissionsMap' = Put(PermissionsMap, p, admin)
             /\ UNCHANGED <<next_player_update, now>>
    BY <2>0
  <2>2. team \in Nat
    <3>1. tt \in {0} \cup Tribes /\ tt # 0 => team = tt
      OBVIOUS
    <3>2. tt = 0 => team \in RandTeams
      OBVIOUS
    <3>3. QED
      BY <3>1, <3>2, ReadValuesNat
  <2> DEFINE all1 == AddNewPlayer(all_players, p, team)
  <2> DEFINE rec == [tribe |-> team, start |-> now, level |-> 1, isNewPlayer |-> 1]
  <2>3. DOMAIN all1 \subseteq Players /\ all1 \in [DOMAIN all1 -> AllPlayerData]
    <3>1. rec \in AllPlayerData
      BY <2>2 DEF TypeOK, AllPlayerData
    <3>2. CASE p \in DOMAIN all_players
      BY <3>2 DEF AddNewPlayer, TypeOK
    <3>3. CASE p \notin DOMAIN all_players
      <4>1. all1 = Put(all_players, p, rec)
        BY <3>3 DEF AddNewPlayer
      <4>2. /\ DOMAIN Put(all_players, p, rec) \subseteq Players
            /\ Put(all_players, p, rec) \in [DOMAIN Put(all_players, p, rec) -> AllPlayerData]
        BY <3>1 DEF Put, TypeOK
      <4>3. QED
        BY <4>1, <4>2
    <3>4. QED
      BY <3>2, <3>3
  <2> DEFINE a == IF p \in DOMAIN all1 THEN all1[p] ELSE rec
             orec == [tribe |-> a.tribe, start |-> a.start, level |-> a.level,
                      isNewPlayer |-> a.isNewPlayer, nextMessageTime |-> now]
             onl1 == AddOnlinePlayer(online_players, all1, p, team)
  <2>4. DOMAIN onl1 \subseteq Players /\ onl1 \in [DOMAIN onl1 -> OnlinePlayersData]
    <3>1. a \in AllPlayerData
      <4>1. rec \in AllPlayerData
        BY <2>2 DEF TypeOK, AllPlayerData
      <4>2. QED
        BY <4>1, <2>3
    <3>2. orec \in OnlinePlayersData
      BY <3>1 DEF TypeOK, AllPlayerData, OnlinePlayersData
    <3>3. CASE p \in DOMAIN online_players
      BY <3>3 DEF AddOnlinePlayer, TypeOK
    <3>4. CASE p \notin DOMAIN online_players
      <4>1. onl1 = Put(online_players, p, orec)
        BY <3>4 DEF AddOnlinePlayer
      <4>2. /\ DOMAIN Put(online_players, p, orec) \subseteq Players
            /\ Put(online_players, p, orec)
               \in [DOMAIN Put(online_players, p, orec) -> OnlinePlayersData]
        BY <3>2 DEF Put, TypeOK
      <4>3. QED
        BY <4>1, <4>2
    <3>5. QED
      BY <3>3, <3>4
  <2>5. DOMAIN Put(PermissionsMap, p, admin) \subseteq Players
        /\ Put(PermissionsMap, p, admin) \in [DOMAIN Put(PermissionsMap, p, admin) -> BOOLEAN]
    <3>1. DOMAIN PermissionsMap \subseteq Players
          /\ PermissionsMap \in [DOMAIN PermissionsMap -> BOOLEAN]
      BY DEF TypeOK
    <3>2. QED
      BY <3>1, PutType
  <2>6. QED
    BY <2>1, <2>3, <2>4, <2>5 DEF TypeOK
<1>2. ASSUME NEW p \in Players, Logout(p) PROVE TypeOK'
  BY <1>2, DropType DEF Logout, TypeOK
<1>3. CASE UpdateTimer
  <2>1. PICK dead, tr, lv, g :
          /\ TimerInputs(dead, tr, lv, g)
          /\ all_players' = ClearAll(UpdatedAll(dead, tr, lv), UpdatedPermissions(g))
          /\ online_players' = ClearOnline(UpdatedAll(dead, tr, lv),
                                 UpdatedOnline(dead, tr, lv), UpdatedPermissions(g))
          /\ PermissionsMap' = UpdatedPermissions(g)
    BY <1>3 DEF UpdateTimer, TimerInputs
  <2>2. next_player_update' \in Nat /\ now' = now
    BY <1>3 DEF UpdateTimer, TypeOK
  <2>3. QED
    BY <2>1, <2>2, UpdatedType, ClearType DEF TypeOK
<1>4. CASE TakeDamage
  <2>1. PICK e \in DamageEvents :
          /\ online_players' = IsNextMessageReady(online_players,
                 Verdict(e.exempt, e.attacked, e.causer, e.inst, e.ub).notify)
          /\ UNCHANGED <<all_players, PermissionsMap, next_player_update, now>>
    BY <1>4 DEF TakeDamage
  <2>2. QED
    BY <2>1, ThrottleType DEF TypeOK
<1>5. CASE Tick
  BY <1>5 DEF Tick, TypeOK, pluginVars
<1>6. CASE UNCHANGED vars
  BY <1>6 DEF vars, pluginVars, TypeOK
<1>7. QED
  BY <1>1, <1>2, <1>3, <1>4, <1>5, <1>6 DEF Next

(* Every reachable state is well typed: the two lists map steam ids to
   records of the code's fields, the cache maps steam ids to a group
   test, and the clocks are natural numbers. *)
THEOREM TypeCorrect == Spec => []TypeOK
<1>1. Init => TypeOK
  BY DEF Init, TypeOK
<1>2. QED
  BY <1>1, TypeNext, PTL DEF Spec


-----------------------------------------------------------------------------
(* The online list mirrors all_players_ *)

(* Every entry of onl has an entry of all with the same four fields. *)
Mirrors(onl, all) ==
    \A o \in DOMAIN onl :
        /\ o \in DOMAIN all
        /\ onl[o].tribe = all[o].tribe
        /\ onl[o].start = all[o].start
        /\ onl[o].level = all[o].level
        /\ onl[o].isNewPlayer = all[o].isNewPlayer

(* UpdateLevelAndTribe writes the same tribe and level into both copies. *)
LEMMA UpdatedMirror ==
    ASSUME TypeOK, OnlineMirrorsAll, NEW dead, NEW tr, NEW lv, NEW g,
           TimerInputs(dead, tr, lv, g)
    PROVE  Mirrors(UpdatedOnline(dead, tr, lv), UpdatedAll(dead, tr, lv))
<1> SUFFICES ASSUME NEW o \in DOMAIN online_players
             PROVE  Mirrors(UpdatedOnline(dead, tr, lv), UpdatedAll(dead, tr, lv))!(o)
  BY DEF Mirrors, UpdatedOnline
<1>1. o \in DOMAIN all_players /\ all_players[o] \in AllPlayerData
      /\ online_players[o] \in OnlinePlayersData
  BY DEF OnlineMirrorsAll, TypeOK
<1>2. CASE Refreshed(o, dead)
  BY <1>1, <1>2 DEF OnlineMirrorsAll, UpdatedOnline, UpdatedAll, AllPlayerData, OnlinePlayersData
<1>3. CASE ~Refreshed(o, dead)
  BY <1>1, <1>3 DEF OnlineMirrorsAll, UpdatedOnline, UpdatedAll
<1>4. QED
  BY <1>2, <1>3

(* RemoveExpiredTribesProtection clears an online entry exactly when it
   clears the entry of all_players_ with the same id: an online trigger's
   own tribe is one of the expired tribes. *)
LEMMA ClearMirror ==
    ASSUME NEW all, NEW onl, NEW pm,
           all \in [DOMAIN all -> AllPlayerData],
           onl \in [DOMAIN onl -> OnlinePlayersData],
           Mirrors(onl, all)
    PROVE  Mirrors(ClearOnline(all, onl, pm), ClearAll(all, pm))
<1> SUFFICES ASSUME NEW o \in DOMAIN onl
             PROVE  Mirrors(ClearOnline(all, onl, pm), ClearAll(all, pm))!(o)
  BY DEF Mirrors, ClearOnline
<1>1. o \in DOMAIN all /\ onl[o].tribe = all[o].tribe
  BY DEF Mirrors
<1>2. o \in Triggers(all, pm) => all[o].tribe \in ExpiredTribes(all, pm)
  BY DEF ExpiredTribes
<1>3. (/\ ~IsAdminIn(pm, o)
       /\ o \in Triggers(all, pm) \/ onl[o].tribe \in ExpiredTribes(all, pm))
      <=> (~IsAdminIn(pm, o) /\ all[o].tribe \in ExpiredTribes(all, pm))
  BY <1>1, <1>2
<1>4. QED
  BY <1>1, <1>3 DEF Mirrors, ClearOnline, ClearAll, AllPlayerData, OnlinePlayersData

(* Every step keeps the mirror, given a well-typed state. *)
LEMMA MirrorNext == TypeOK /\ OnlineMirrorsAll /\ [Next]_vars => OnlineMirrorsAll'
<1> SUFFICES ASSUME TypeOK, OnlineMirrorsAll, [Next]_vars PROVE OnlineMirrorsAll'
  OBVIOUS
<1>1. ASSUME NEW p \in Players, HandleNewPlayer(p) PROVE OnlineMirrorsAll'
  <2>1. PICK tt \in {0} \cup Tribes, admin \in BOOLEAN :
          \E team \in IF tt # 0 THEN {tt} ELSE RandTeams :
          LET all1 == AddNewPlayer(all_players, p, team)
          IN /\ all_players' = all1
             /\ online_players' = AddOnlinePlayer(online_players, all1, p, team)
             /\ PermissionsMap' = Put(PermissionsMap, p, admin)
             /\ UNCHANGED <<next_player_update, now>>
    BY <1>1 DEF HandleNewPlayer
  <2>2. PICK team \in (IF tt # 0 THEN {tt} ELSE RandTeams) :
          LET all1 == AddNewPlayer(all_players, p, team)
          IN /\ all_players' = all1
             /\ online_players' = AddOnlinePlayer(online_players, all1, p, team)
    BY <2>1
  <2> DEFINE all1 == AddNewPlayer(all_players, p, team)
  <2>3. p \in DOMAIN all1
        /\ \A q \in DOMAIN all_players : q \in DOMAIN all1 /\ all1[q] = all_players[q]
    BY DEF AddNewPlayer, Put
  <2>4. Mirrors(AddOnlinePlayer(online_players, all1, p, team), all1)
    BY <2>3 DEF Mirrors, OnlineMirrorsAll, AddOnlinePlayer, Put
  <2>5. QED
    BY <2>2, <2>4 DEF OnlineMirrorsAll, Mirrors
<1>2. ASSUME NEW p \in Players, Logout(p) PROVE OnlineMirrorsAll'
  BY <1>2 DEF Logout, OnlineMirrorsAll, Drop
<1>3. CASE UpdateTimer
  <2>1. PICK dead, tr, lv, g :
          /\ TimerInputs(dead, tr, lv, g)
          /\ all_players' = ClearAll(UpdatedAll(dead, tr, lv), UpdatedPermissions(g))
          /\ online_players' = ClearOnline(UpdatedAll(dead, tr, lv),
                                 UpdatedOnline(dead, tr, lv), UpdatedPermissions(g))
    BY <1>3 DEF UpdateTimer, TimerInputs
  <2>2. Mirrors(UpdatedOnline(dead, tr, lv), UpdatedAll(dead, tr, lv))
    BY <2>1, UpdatedMirror
  <2>3. /\ UpdatedAll(dead, tr, lv) \in [DOMAIN UpdatedAll(dead, tr, lv) -> AllPlayerData]
        /\ UpdatedOnline(dead, tr, lv)
           \in [DOMAIN UpdatedOnline(dead, tr, lv) -> OnlinePlayersData]
    BY <2>1, UpdatedType
  <2>4. Mirrors(ClearOnline(UpdatedAll(dead, tr, lv), UpdatedOnline(dead, tr, lv),
                             UpdatedPermissions(g)),
                 ClearAll(UpdatedAll(dead, tr, lv), UpdatedPermissions(g)))
    BY <2>2, <2>3, ClearMirror
  <2>5. QED
    BY <2>1, <2>4 DEF OnlineMirrorsAll, Mirrors
<1>4. CASE TakeDamage
  <2>1. PICK e \in DamageEvents :
          /\ online_players' = IsNextMessageReady(online_players,
                 Verdict(e.exempt, e.attacked, e.causer, e.inst, e.ub).notify)
          /\ UNCHANGED <<all_players, PermissionsMap, next_player_update, now>>
    BY <1>4 DEF TakeDamage
  <2>2. QED
    BY <2>1, ThrottleType DEF OnlineMirrorsAll
<1>5. CASE Tick
  BY <1>5 DEF Tick, OnlineMirrorsAll, pluginVars
<1>6. CASE UNCHANGED vars
  BY <1>6 DEF vars, pluginVars, OnlineMirrorsAll
<1>7. QED
  BY <1>1, <1>2, <1>3, <1>4, <1>5, <1>6 DEF Next

(* In every reachable state each online entry agrees with the entry of
   all_players_ for the same steam id on tribe, start time, level and
   protection (HandleNewPlayer's copy, UpdateLevelAndTribe's double write
   and the two clears of RemoveExpiredTribesProtection keep them equal). *)
THEOREM MirrorInvariant == Spec => []OnlineMirrorsAll
<1>1. Init => TypeOK /\ OnlineMirrorsAll
  BY DEF Init, TypeOK, OnlineMirrorsAll
<1>2. TypeOK /\ OnlineMirrorsAll /\ [Next]_vars => (TypeOK /\ OnlineMirrorsAll)'
  BY TypeNext, MirrorNext
<1>3. QED
  BY <1>1, <1>2, PTL DEF Spec

-----------------------------------------------------------------------------
(* Expiry at every pass *)

(* What RemoveExpiredTribesProtection leaves, over a well-typed list all
   and a cache pm: no non-admin entry past its grace period or at MaxLevel
   is new, and the non-admin members of a tribe agree on protection. *)
Enforced(c, pm) ==
    /\ \A p \in DOMAIN c :
          ~IsAdminIn(pm, p)
          /\ (c[p].start + HoursOfProtection <= now \/ c[p].level >= MaxLevel)
          => c[p].isNewPlayer = 0
    /\ \A p, q \in DOMAIN c :
          ~IsAdminIn(pm, p) /\ ~IsAdminIn(pm, q) /\ c[p].tribe = c[q].tribe
          => c[p].isNewPlayer = c[q].isNewPlayer

(* A non-admin trigger clears its own entry (its tribe is an expired
   tribe); a non-admin entry of a tribe no trigger expires is not a
   trigger, so it is new, as is every other non-admin entry of its tribe. *)
LEMMA ClearEnforces ==
    ASSUME NEW all, NEW pm, all \in [DOMAIN all -> AllPlayerData]
    PROVE  Enforced(ClearAll(all, pm), pm)
<1> DEFINE c == ClearAll(all, pm)
<1>1. DOMAIN c = DOMAIN all
  BY DEF ClearAll
<1>2. \A p \in DOMAIN all :
        /\ c[p].tribe = all[p].tribe
        /\ c[p].start = all[p].start
        /\ c[p].level = all[p].level
  BY DEF ClearAll, AllPlayerData
<1>3. \A p \in DOMAIN all :
        ~IsAdminIn(pm, p) /\ all[p].tribe \in ExpiredTribes(all, pm) => c[p].isNewPlayer = 0
  BY DEF ClearAll, AllPlayerData
<1>4. \A p \in DOMAIN all :
        ~IsAdminIn(pm, p) /\ all[p].tribe \notin ExpiredTribes(all, pm) => c[p].isNewPlayer = 1
  <2> SUFFICES ASSUME NEW p \in DOMAIN all, ~IsAdminIn(pm, p),
                      all[p].tribe \notin ExpiredTribes(all, pm)
               PROVE  c[p].isNewPlayer = 1
    OBVIOUS
  <2>1. p \notin Triggers(all, pm)
    BY DEF ExpiredTribes
  <2>2. all[p].isNewPlayer # 0
    BY <2>1 DEF Triggers, ExpiredIn
  <2>3. all[p].isNewPlayer = 1
    BY <2>2 DEF AllPlayerData
  <2>4. QED
    BY <2>3 DEF ClearAll
<1>5. \A p \in DOMAIN all :
        ~IsAdminIn(pm, p)
        /\ (all[p].start + HoursOfProtection <= now \/ all[p].level >= MaxLevel)
        => all[p].tribe \in ExpiredTribes(all, pm)
  BY DEF ExpiredTribes, Triggers, ExpiredIn
<1>6. QED
  BY <1>1, <1>2, <1>3, <1>4, <1>5 DEF Enforced

(* A pass leaves the state in which ExpiryEnforced holds. *)
LEMMA TimerEnforces == TypeOK /\ UpdateTimer => ExpiryEnforced'
<1> SUFFICES ASSUME TypeOK, UpdateTimer PROVE ExpiryEnforced'
  OBVIOUS
<1>1. PICK dead, tr, lv, g :
        /\ TimerInputs(dead, tr, lv, g)
        /\ all_players' = ClearAll(UpdatedAll(dead, tr, lv), UpdatedPermissions(g))
        /\ PermissionsMap' = UpdatedPermissions(g)
        /\ now' = now
  BY DEF UpdateTimer, TimerInputs
<1>2. UpdatedAll(dead, tr, lv) \in [DOMAIN UpdatedAll(dead, tr, lv) -> AllPlayerData]
  BY <1>1, UpdatedType
<1>3. Enforced(ClearAll(UpdatedAll(dead, tr, lv), UpdatedPermissions(g)), UpdatedPermissions(g))
  BY <1>2, ClearEnforces
<1>4. QED
  BY <1>1, <1>3 DEF Enforced, ExpiryEnforced, IsAdmin

(* Every step that moves next_player_update is an UpdateTimer pass, and
   right after it no non-admin player past the grace period or at MaxLevel
   is new, and the non-admin members of a tribe agree on protection
   (ProtectionExpiresAtUpdate, checked by the run npp_core). *)
THEOREM ExpiryAtUpdate == Spec => ProtectionExpiresAtUpdate
<1>1. TypeOK /\ [Next]_vars
        => [next_player_update' # next_player_update => ExpiryEnforced']_vars
  <2> SUFFICES ASSUME TypeOK, [Next]_vars, next_player_update' # next_player_update
               PROVE  ExpiryEnforced'
    OBVIOUS
  <2>1. UpdateTimer
    BY DEF Next, HandleNewPlayer, Logout, TakeDamage, Tick, vars, pluginVars
  <2>2. QED
    BY <2>1, TimerEnforces
<1>2. QED
  BY <1>1, TypeCorrect, PTL DEF Spec, ProtectionExpiresAtUpdate

-----------------------------------------------------------------------------
(* The damage decision *)

(* IsTribeProtected finds every protected tribe, whatever its admin lambda
   returns: a non-admin new member is found by the find_if either way. *)
LEMMA ProtectedDetected ==
    ASSUME NEW t, NEW ub, Protected(t)
    PROVE  IsTribeProtected(t, ub)
<1>1. CASE t \in PVETribes
  BY <1>1 DEF Protected, IsTribeProtected
<1>2. CASE \E q \in DOMAIN all_players :
             ~IsAdmin(q) /\ all_players[q].tribe = t /\ all_players[q].isNewPlayer = 1
  <2>1. PICK q \in DOMAIN all_players :
             ~IsAdmin(q) /\ all_players[q].tribe = t /\ all_players[q].isNewPlayer = 1
    BY <1>2
  <2>2. IF IsAdmin(q) THEN ub
        ELSE all_players[q].tribe = t /\ all_players[q].isNewPlayer = 1
    BY <2>1
  <2>3. QED
    BY <2>2 DEF Protected, IsTribeProtected
<1>3. QED
  BY <1>1, <1>2 DEF Protected

(* The decision tree of Hook_APrimalStructure_TakeDamage lets damage to a
   protected tribe's structure through only on the exceptions it grants,
   in every state: the property holds of the decision, not of the states
   the tracker reaches. *)
LEMMA ImmuneEverywhere == ProtectedStructuresImmune
<1> SUFFICES ASSUME NEW attacked \in StructureTeams, NEW causer \in Causers,
                    NEW inst \in {NoActor} \cup Players, NEW ub \in BOOLEAN,
                    Verdict(FALSE, attacked, causer, inst, ub).allow,
                    Protected(attacked),
                    causer # NoActor => attacked # causer.team
             PROVE  \/ inst \in Players /\ IsAdmin(inst)
                    \/ inst \in Players /\ AllowNewPlayersToDamageEnemyStructures
                                        /\ IsPlayerProtected(inst)
                    \/ inst = NoActor /\ causer # NoActor /\ WildDinoAllowed(causer)
  BY DEF ProtectedStructuresImmune
<1>1. IsTribeProtected(attacked, ub)
  BY ProtectedDetected
<1>2. attacked \in Nat /\ attacked > 100000
  <2>1. attacked \in Nat
    BY DEF StructureTeams, TeamIds
  <2>2. attacked > 100000
    BY DEF Protected
  <2>3. QED
    BY <2>1, <2>2
<1>3. CASE causer = NoActor
  BY <1>1, <1>3 DEF Verdict, Block
<1>4. CASE causer # NoActor /\ inst = NoActor
  BY <1>1, <1>4 DEF Verdict, Block, Allow
<1>5. CASE causer # NoActor /\ inst \in Players
  <2>1. inst # NoActor /\ inst # NonPlayer
    BY <1>5
  <2>2. attacked >= 100000 /\ attacked # causer.team
    BY <1>2, <1>5
  <2>3. CASE IsAdmin(inst)
    BY <1>5, <2>3
  <2>4. CASE ~IsAdmin(inst) /\ IsPlayerProtected(inst)
    BY <1>5, <2>1, <2>2, <2>4 DEF Verdict, Block
  <2>5. CASE ~IsAdmin(inst) /\ ~IsPlayerProtected(inst)
    BY <1>1, <1>5, <2>1, <2>2, <2>5 DEF Verdict, Block
  <2>6. QED
    BY <2>3, <2>4, <2>5
<1>6. QED
  BY <1>3, <1>4, <1>5

(* A structure of a protected tribe takes no damage from another team,
   whatever the unspecified result of the admin lambda, except from an
   admin, from a protected player when new players may damage enemy
   structures, or from a wild dino the config lets through
   (ProtectedStructuresImmune, checked by the run npp_core). *)
THEOREM ImmuneInvariant == Spec => []ProtectedStructuresImmune
  BY ImmuneEverywhere, PTL


-----------------------------------------------------------------------------
(* The protection lifecycle (module NPPLifecycle) *)

(* A player whose record a step leaves as it was keeps their lifecycle. *)
LEMMA RecordKept ==
    ASSUME NEW p \in Players,
           p \in DOMAIN all_players' <=> p \in DOMAIN all_players,
           p \in DOMAIN all_players => all_players'[p] = all_players[p]
    PROVE  LC!Keep(p)
BY DEF LC!Keep, LifecycleOf, StartOf

(* Each step moves each player's record along the lifecycle: the first
   login registers it, an UpdateTimer pass may end it, nothing else
   touches it. *)
LEMMA LifecycleStep ==
    ASSUME TypeOK, [Next]_vars, NEW p \in Players
    PROVE  LC!Keep(p) \/ LC!Register(p) \/ LC!End(p)
<1>1. CASE \E q \in Players : HandleNewPlayer(q)
  <2>1. PICK q \in Players, tt \in {0} \cup Tribes :
          \E team \in IF tt # 0 THEN {tt} ELSE RandTeams :
             /\ all_players' = AddNewPlayer(all_players, q, team)
             /\ now' = now
    BY <1>1 DEF HandleNewPlayer
  <2>2. PICK team \in (IF tt # 0 THEN {tt} ELSE RandTeams) :
             /\ all_players' = AddNewPlayer(all_players, q, team)
             /\ now' = now
    BY <2>1
  <2>3. CASE p = q /\ p \notin DOMAIN all_players
    <3>1. p \in DOMAIN all_players' /\ all_players'[p].isNewPlayer = 1
          /\ all_players'[p].start = now
      BY <2>2, <2>3 DEF AddNewPlayer, Put
    <3>2. QED
      BY <2>3, <3>1 DEF LC!Register, LifecycleOf, StartOf
  <2>4. CASE p # q \/ p \in DOMAIN all_players
    <3>1. /\ p \in DOMAIN all_players' <=> p \in DOMAIN all_players
          /\ p \in DOMAIN all_players => all_players'[p] = all_players[p]
      BY <2>2, <2>4 DEF AddNewPlayer, Put
    <3>2. QED
      BY <3>1, RecordKept
  <2>5. QED
    BY <2>3, <2>4
<1>2. CASE UpdateTimer
  <2>1. PICK dead, tr, lv, g :
          all_players' = ClearAll(UpdatedAll(dead, tr, lv), UpdatedPermissions(g))
    BY <1>2 DEF UpdateTimer
  <2> DEFINE all1 == UpdatedAll(dead, tr, lv)
  <2>2. CASE p \notin DOMAIN all_players
    <3>1. p \notin DOMAIN all_players'
      BY <2>1, <2>2 DEF ClearAll, UpdatedAll
    <3>2. QED
      BY <2>2, <3>1, RecordKept
  <2>3. CASE p \in DOMAIN all_players
    <3>1. /\ p \in DOMAIN all_players'
          /\ all_players'[p].start = all_players[p].start
          /\ all_players'[p].isNewPlayer \in {all_players[p].isNewPlayer, 0}
      <4>1. /\ p \in DOMAIN all1
            /\ all1[p].start = all_players[p].start
            /\ all1[p].isNewPlayer = all_players[p].isNewPlayer
        BY <2>3 DEF UpdatedAll, TypeOK, AllPlayerData
      <4>2. DOMAIN ClearAll(all1, UpdatedPermissions(g)) = DOMAIN all1
        BY DEF ClearAll
      <4>3. /\ ClearAll(all1, UpdatedPermissions(g))[p].start = all1[p].start
            /\ ClearAll(all1, UpdatedPermissions(g))[p].isNewPlayer
                 \in {all1[p].isNewPlayer, 0}
        BY <4>1 DEF ClearAll
      <4>4. QED
        BY <2>1, <4>1, <4>2, <4>3
    <3>2. all_players[p].isNewPlayer \in {0, 1}
      BY <2>3 DEF TypeOK, AllPlayerData
    <3>3. QED
      BY <2>3, <3>1, <3>2 DEF LC!Keep, LC!End, LifecycleOf, StartOf
  <2>4. QED
    BY <2>2, <2>3
<1>3. CASE \/ \E q \in Players : Logout(q)
           \/ TakeDamage \/ Tick \/ UNCHANGED vars
  <2>1. all_players' = all_players
    BY <1>3 DEF Logout, TakeDamage, Tick, vars, pluginVars
  <2>2. QED
    BY <2>1, RecordKept
<1>4. QED
  BY <1>1, <1>2, <1>3 DEF Next

(* Every step of the tracker is a step of the lifecycle or a stutter. *)
LEMMA LifecycleNext == TypeOK /\ [Next]_vars => [LC!LNext]_LC!lvars
<1> SUFFICES ASSUME TypeOK, [Next]_vars PROVE LC!LNext
  OBVIOUS
<1>1. TypeOK'
  BY TypeNext
<1>2. LC!LTypeOK'
  BY <1>1 DEF LC!LTypeOK, LC!Status, LifecycleOf, StartOf, TypeOK, AllPlayerData
<1>3. now' \in {now, now + 1}
  BY DEF Next, HandleNewPlayer, Logout, UpdateTimer, TakeDamage, Tick, vars
<1>4. \A p \in Players : LC!Keep(p) \/ LC!Register(p) \/ LC!End(p)
  BY LifecycleStep
<1>5. QED
  BY <1>2, <1>3, <1>4 DEF LC!LNext

(* The tracker implements the protection lifecycle of NPPLifecycle: a
   player is registered once, with the time of their first login
   (AddNewPlayer's find_if, lines 485-492), the start is never moved and
   a protection cleared by RemoveExpiredTribesProtection never comes
   back (ImplementsLifecycle, checked by the run npp_core). *)
THEOREM LifecycleRefinement == Spec => ImplementsLifecycle
<1>1. Init => LC!LInit
  BY DEF Init, LC!LInit, LifecycleOf, StartOf
<1>2. QED
  BY <1>1, LifecycleNext, TypeCorrect, PTL DEF Spec, ImplementsLifecycle, LC!LSpec

=============================================================================

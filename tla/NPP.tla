----------------------------- MODULE NPP -----------------------------------
(***************************************************************************)
(* The protection-state tracker of New-Player-Protection                   *)
(* (src/NewPlayerProtectionHooks.h, lines 1-636): the singleton TimerProt  *)
(* with its two player lists, the PermissionsMap cache of permission       *)
(* groups, and the hooks that drive them (HandleNewPlayer, Logout, the     *)
(* UpdateTimer callback and the message throttle of TakeDamage).           *)
(*                                                                         *)
(* Every hook and the timer run on the game thread, so each handler is one *)
(* atomic step; the interleavings are those of the handlers and the clock. *)
(*                                                                         *)
(* all_players_ and online_players_ are vectors of shared_ptr with unique  *)
(* steam ids (every insertion is guarded by a find_if on the id), so each  *)
(* is modelled as a function from the steam ids it holds to a record.      *)
(* Time is an integer clock in the unit of the configured intervals.      *)
(***************************************************************************)
EXTENDS Integers

CONSTANTS
    Players,            \* steam ids
    Tribes,             \* team ids the game can give a player's tribe
    RandTeams,          \* values of rand() % 10000 + 11100000
    HoursOfProtection,  \* grace period, in clock units
    MaxLevel,           \* level at which protection ends
    PlayerUpdateIntervalInMins,  \* period of the protection update
    MessageIntervalInSecs,       \* throttle of notifications
    IgnoreAdmins,       \* config: admins are never protected
    AllowNewPlayersToDamageEnemyStructures,
    AllowWildDinoDamage,
    AllowWildCorruptedDinoDamage,
    PVETribes,          \* pveTribesList
    WildTeams,          \* team ids of wild dinos (below 10000)
    NoActor,            \* a null AActor* / AController*
    NonPlayer,          \* an instigator that is not an AShooterPlayerController
    MaxTime             \* bound of the clock (model bound)

ASSUME ConstAssumption ==
    /\ Tribes \subseteq Nat /\ RandTeams \subseteq Nat /\ RandTeams # {}
    /\ HoursOfProtection \in Nat
    /\ MaxLevel \in Nat \ {0}
    /\ PlayerUpdateIntervalInMins \in Nat \ {0}
    /\ MessageIntervalInSecs \in Nat
    /\ MaxTime \in Nat
    /\ IgnoreAdmins \in BOOLEAN
    /\ AllowNewPlayersToDamageEnemyStructures \in BOOLEAN
    /\ AllowWildDinoDamage \in BOOLEAN /\ AllowWildCorruptedDinoDamage \in BOOLEAN
    /\ PVETribes \subseteq Nat /\ WildTeams \subseteq Nat
    /\ NoActor \notin Players \cup {NonPlayer}
    /\ NonPlayer \notin Players

VARIABLES
    all_players,        \* TimerProt::all_players_ : steam id -> AllPlayerData
    online_players,     \* TimerProt::online_players_ : steam id -> OnlinePlayersData
    PermissionsMap,     \* steam id -> "its groups contain NPPAdminGroup"
    next_player_update, \* NewPlayerProtection::next_player_update
    now                 \* system_clock::now()

(***************************************************************************)
(* What the plugin reads from the engine and from the Permissions plugin   *)
(* (a player's TargetingTeam, level, whether they are dead, their groups)  *)
(* is not state of the plugin: it is read at HandleNewPlayer and at the    *)
(* timer, and may change arbitrarily between reads, so each read is an     *)
(* input chosen from a small set when it happens.                          *)
(***************************************************************************)

pluginVars == <<all_players, online_players, PermissionsMap, next_player_update>>
vars == <<pluginVars, now>>

TeamIds == {0} \cup Tribes \cup RandTeams

(* Levels as the plugin tells them apart: every level from MaxLevel on
   ends protection the same way. *)
Levels == 1..MaxLevel

AllPlayerData == [tribe : Nat, start : Nat, level : Nat, isNewPlayer : {0, 1}]
OnlinePlayersData == [tribe : Nat, start : Nat, level : Nat, isNewPlayer : {0, 1},
                      nextMessageTime : Nat]

TypeOK ==
    /\ DOMAIN all_players \subseteq Players
    /\ all_players \in [DOMAIN all_players -> AllPlayerData]
    /\ DOMAIN online_players \subseteq Players
    /\ online_players \in [DOMAIN online_players -> OnlinePlayersData]
    /\ DOMAIN PermissionsMap \subseteq Players
    /\ PermissionsMap \in [DOMAIN PermissionsMap -> BOOLEAN]
    /\ next_player_update \in Nat
    /\ now \in Nat

(* f extended (or overwritten) at x with v *)
Put(f, x, v) == [y \in DOMAIN f \cup {x} |-> IF y = x THEN v ELSE f[y]]
(* f without x *)
Drop(f, x) == [y \in DOMAIN f \ {x} |-> f[y]]

-----------------------------------------------------------------------------
(* Queries *)

IsAdminIn(pm, p) == IgnoreAdmins /\ p \in DOMAIN pm /\ pm[p]
IsAdmin(p) == IsAdminIn(PermissionsMap, p)

IsPlayerExists(p) == p \in DOMAIN all_players

(* IsPlayerProtected: the online entry of a non-admin player says new. *)
IsPlayerProtected(p) ==
    /\ p \in DOMAIN online_players
    /\ ~IsAdmin(p)
    /\ online_players[p].isNewPlayer = 1

(* Mutant: the next message time set to now - MessageIntervalInSecs. *)
IsNextMessageReadyBack(onl, S) ==
    [o \in DOMAIN onl |->
        IF o \in S /\ onl[o].nextMessageTime - now <= 0
        THEN [onl[o] EXCEPT !.nextMessageTime = now - MessageIntervalInSecs]
        ELSE onl[o]]

(* One call of IsNextMessageReady(p) for each p in S, applied to the
   online list: a ready entry gets its next message time pushed back. *)
IsNextMessageReady(onl, S) ==
    [o \in DOMAIN onl |->
        IF o \in S /\ onl[o].nextMessageTime - now <= 0
        THEN [onl[o] EXCEPT !.nextMessageTime = now + MessageIntervalInSecs]
        ELSE onl[o]]

-----------------------------------------------------------------------------
(* RemoveExpiredTribesProtection over lists all / onl and cache pm.         *)
(* A non-admin entry whose grace period is over, whose level reached        *)
(* MaxLevel or which is no longer new "expires" its tribe: every non-admin *)
(* entry of that tribe in all_players_, and every non-admin online entry   *)
(* of that tribe or steam id, loses protection.                             *)

(* Mutant: diff.count() < 0 in place of <= 0. *)
ExpiredInStrict(all, p) ==
    \/ all[p].start + HoursOfProtection < now
    \/ all[p].level >= MaxLevel
    \/ all[p].isNewPlayer = 0

ExpiredIn(all, p) ==
    \/ all[p].start + HoursOfProtection <= now
    \/ all[p].level >= MaxLevel
    \/ all[p].isNewPlayer = 0

(* Mutant: only online players' entries expire their tribe. *)
TriggersOnline(all, pm) ==
    {p \in DOMAIN all \cap DOMAIN online_players : ~IsAdminIn(pm, p) /\ ExpiredIn(all, p)}

Triggers(all, pm) == {p \in DOMAIN all : ~IsAdminIn(pm, p) /\ ExpiredIn(all, p)}

ExpiredTribes(all, pm) == {all[p].tribe : p \in Triggers(all, pm)}

(* Mutant: the tribe loop (line 157) without its IsAdmin guard. *)
ClearAllIgnoringAdmins(all, pm) ==
    [q \in DOMAIN all |->
        IF all[q].tribe \in ExpiredTribes(all, pm)
        THEN [all[q] EXCEPT !.isNewPlayer = 0] ELSE all[q]]

ClearAll(all, pm) ==
    [q \in DOMAIN all |->
        IF ~IsAdminIn(pm, q) /\ all[q].tribe \in ExpiredTribes(all, pm)
        THEN [all[q] EXCEPT !.isNewPlayer = 0] ELSE all[q]]

ClearOnline(all, onl, pm) ==
    [o \in DOMAIN onl |->
        IF /\ ~IsAdminIn(pm, o)
           /\ o \in Triggers(all, pm) \/ onl[o].tribe \in ExpiredTribes(all, pm)
        THEN [onl[o] EXCEPT !.isNewPlayer = 0] ELSE onl[o]]

(* UpdateLevelAndTribe of every online player that is not dead (dead: the
   set of those that are), on the online entry and on the entry of
   all_players_ with the same id, from the tribe tr and level lv read. *)
Refreshed(q, dead) == q \in DOMAIN online_players /\ q \notin dead

UpdatedAll(dead, tr, lv) ==
    [q \in DOMAIN all_players |->
        IF Refreshed(q, dead)
        THEN [all_players[q] EXCEPT !.tribe = tr[q], !.level = lv[q]]
        ELSE all_players[q]]

UpdatedOnline(dead, tr, lv) ==
    [o \in DOMAIN online_players |->
        IF Refreshed(o, dead)
        THEN [online_players[o] EXCEPT !.tribe = tr[o], !.level = lv[o]]
        ELSE online_players[o]]

(* The permission cache re-read (groups g) for the online players it holds. *)
UpdatedPermissions(g) ==
    [q \in DOMAIN PermissionsMap |->
        IF q \in DOMAIN online_players THEN g[q] ELSE PermissionsMap[q]]

-----------------------------------------------------------------------------
(* Handlers *)

(* Mutant: the find_if guard (lines 485-492) dropped: a player who logs
   in again gets a fresh record. *)
AddNewPlayerAgain(all, p, team) ==
    Put(all, p, [tribe |-> team, start |-> now, level |-> 1, isNewPlayer |-> 1])

(* AddNewPlayer: a record with the current time, level 1, new. *)
AddNewPlayer(all, p, team) ==
    IF p \in DOMAIN all THEN all
    ELSE Put(all, p, [tribe |-> team, start |-> now, level |-> 1, isNewPlayer |-> 1])

(* Mutant: the online entry takes the team computed by the hook instead
   of the stored tribe. *)
AddOnlinePlayerFromTeam(onl, all, p, team) ==
    IF p \in DOMAIN onl THEN onl
    ELSE LET a == IF p \in DOMAIN all THEN all[p]
                  ELSE [tribe |-> team, start |-> now, level |-> 1, isNewPlayer |-> 1]
         IN Put(onl, p, [tribe |-> team, start |-> a.start, level |-> a.level,
                         isNewPlayer |-> a.isNewPlayer, nextMessageTime |-> now])

(* AddOnlinePlayer: copies tribe, start, level and protection from the
   all_players_ entry of the same id; a fresh message throttle. *)
AddOnlinePlayer(onl, all, p, team) ==
    IF p \in DOMAIN onl THEN onl
    ELSE LET a == IF p \in DOMAIN all THEN all[p]
                  ELSE [tribe |-> team, start |-> now, level |-> 1, isNewPlayer |-> 1]
         IN Put(onl, p, [tribe |-> a.tribe, start |-> a.start, level |-> a.level,
                         isNewPlayer |-> a.isNewPlayer, nextMessageTime |-> now])

(* Hook_AShooterGameMode_HandleNewPlayer: the team is the player's
   TargetingTeam (tt), or a random one when it is 0; the player's groups
   (admin) are cached. *)
HandleNewPlayer(p) ==
    \E tt \in {0} \cup Tribes, admin \in BOOLEAN :
    \E team \in IF tt # 0 THEN {tt} ELSE RandTeams :
        LET all1 == AddNewPlayer(all_players, p, team)
        IN /\ all_players' = all1
           /\ online_players' = AddOnlinePlayer(online_players, all1, p, team)
           /\ PermissionsMap' = Put(PermissionsMap, p, admin)
           /\ UNCHANGED <<next_player_update, now>>

(* Hook_AShooterGameMode_Logout: RemovePlayer and drop the cached groups. *)
Logout(p) ==
    /\ p \in DOMAIN online_players
    /\ online_players' = Drop(online_players, p)
    /\ PermissionsMap' = Drop(PermissionsMap, p)
    /\ UNCHANGED <<all_players, next_player_update, now>>

(* TimerProt::UpdateTimer, when next_player_update is due: refresh the
   online players and the permission cache, then expire protections.  A
   player's level never goes down, so a level read is at least the one
   last read. *)
UpdateTimer ==
    /\ next_player_update - now <= 0
    /\ next_player_update' = now + PlayerUpdateIntervalInMins
    /\ \E dead \in SUBSET DOMAIN online_players,
          tr \in [DOMAIN online_players -> {0} \cup Tribes],
          lv \in [DOMAIN online_players -> Levels],
          g \in [DOMAIN online_players -> BOOLEAN] :
        /\ \A q \in DOMAIN online_players : lv[q] >= online_players[q].level
        /\ LET all1 == UpdatedAll(dead, tr, lv)
               pm1 == UpdatedPermissions(g)
           IN /\ all_players' = ClearAll(all1, pm1)
              /\ online_players' = ClearOnline(all1, UpdatedOnline(dead, tr, lv), pm1)
              /\ PermissionsMap' = pm1
    /\ UNCHANGED now

(***************************************************************************)
(* Hook_APrimalStructure_TakeDamage.  A damage event is a structure (its   *)
(* team, whether its blueprint is in StructureExemptions), a DamageCauser  *)
(* (null, or an actor with a team) and an EventInstigator (null, a player  *)
(* controller with its steam id, or another controller).  The decision is *)
(* whether the original TakeDamage runs; its only effect on the plugin's   *)
(* state is the IsNextMessageReady calls of the notifications.             *)
(***************************************************************************)

(* A DamageCauser: dino and corrupt only matter for wild teams. *)
Causers == {NoActor}
           \cup [team : TeamIds, dino : {FALSE}, corrupt : {FALSE}]
           \cup [team : WildTeams, dino : {TRUE}, corrupt : BOOLEAN]

Instigators == {NoActor, NonPlayer} \cup Players

(* The team of a damaged structure: a player's team or a PVE tribe. *)
StructureTeams == TeamIds \cup PVETribes

(* Mutant: the tribe scan looks at the online players only. *)
IsTribeProtectedOnline(t, ub) ==
    /\ t > 100000
    /\ \/ t \in PVETribes
       \/ \E q \in DOMAIN online_players :
             IF IsAdmin(q) THEN ub
             ELSE online_players[q].tribe = t /\ online_players[q].isNewPlayer = 1

(* IsTribeProtected.  The find_if lambda has no return statement when the
   entry is an admin: that call returns an unspecified bool, ub. *)
IsTribeProtected(t, ub) ==
    /\ t > 100000
    /\ \/ t \in PVETribes
       \/ \E q \in DOMAIN all_players :
             IF IsAdmin(q) THEN ub
             ELSE all_players[q].tribe = t /\ all_players[q].isNewPlayer = 1

(* The wild-dino exceptions, for an actor that is a dino. *)
WildDinoAllowed(c) ==
    /\ c.dino /\ c.team < 10000
    /\ (AllowWildCorruptedDinoDamage /\ c.corrupt) \/ AllowWildDinoDamage

Allow == [allow |-> TRUE, notify |-> {}]
Block(S) == [allow |-> FALSE, notify |-> S]

Verdict(exempt, attacked, causer, inst, ub) ==
    IF exempt THEN Allow
    ELSE IF causer = NoActor
         THEN IF IsTribeProtected(attacked, ub) THEN Block({}) ELSE Allow
    ELSE LET attacking == causer.team IN
    IF inst = NoActor THEN
        IF attacked = attacking THEN Allow
        ELSE IF IsTribeProtected(attacked, ub)
             THEN IF WildDinoAllowed(causer) THEN Allow
                  ELSE Block({o \in DOMAIN online_players :
                                 online_players[o].tribe = attacking})
        ELSE IF IsTribeProtected(attacking, ub)
                /\ ~AllowNewPlayersToDamageEnemyStructures THEN Block({})
        ELSE Allow
    \* a dino or any controller that is not a player's falls through
    ELSE IF inst = NonPlayer THEN Allow
    ELSE IF IsAdmin(inst) THEN Allow
    ELSE IF IsPlayerProtected(inst)
         THEN IF /\ ~AllowNewPlayersToDamageEnemyStructures
                 /\ attacked >= 100000 /\ attacked # attacking
              THEN Block({inst}) ELSE Allow
    ELSE IF IsTribeProtected(attacked, ub) /\ attacked # attacking
         THEN Block({inst})
    ELSE Allow

(* The damage events the model offers: every combination of the inputs. *)
DamageEvents == [exempt : BOOLEAN, attacked : StructureTeams, causer : Causers,
                 inst : Instigators, ub : BOOLEAN]

TakeDamage ==
    \E e \in DamageEvents :
        /\ online_players' = IsNextMessageReady(online_players,
                               Verdict(e.exempt, e.attacked, e.causer, e.inst, e.ub).notify)
        /\ UNCHANGED <<all_players, PermissionsMap, next_player_update, now>>

-----------------------------------------------------------------------------
(* The clock *)

Tick == /\ now < MaxTime
        /\ now' = now + 1
        /\ UNCHANGED pluginVars

Init ==
    /\ all_players = <<>>
    /\ online_players = <<>>
    /\ PermissionsMap = <<>>
    /\ next_player_update = 0
    /\ now = 0

Next ==
    \/ \E p \in Players : HandleNewPlayer(p) \/ Logout(p)
    \/ UpdateTimer
    \/ TakeDamage
    \/ Tick

Spec == Init /\ [][Next]_vars

-----------------------------------------------------------------------------
(* Properties *)

(* A tribe is protected when it is a PVE tribe or has a non-admin member
   marked new in all_players_ (what IsTribeProtected means to compute). *)
Protected(t) ==
    /\ t > 100000
    /\ \/ t \in PVETribes
       \/ \E q \in DOMAIN all_players :
             ~IsAdmin(q) /\ all_players[q].tribe = t /\ all_players[q].isNewPlayer = 1

(* The two copies of a player's protection state agree: every online entry
   has an entry in all_players_ with the same tribe, start time, level and
   protection.  IsPlayerProtected reads the online copy and IsTribeProtected
   the other, so a disagreement makes a player protected while their tribe
   is not, or the reverse.  It rests on HandleNewPlayer copying the entry,
   UpdateLevelAndTribe writing both, and RemoveExpiredTribesProtection
   clearing both. *)
OnlineMirrorsAll ==
    \A p \in DOMAIN online_players :
        /\ p \in DOMAIN all_players
        /\ online_players[p].tribe = all_players[p].tribe
        /\ online_players[p].start = all_players[p].start
        /\ online_players[p].level = all_players[p].level
        /\ online_players[p].isNewPlayer = all_players[p].isNewPlayer

(* Right after an UpdateTimer pass no non-admin player past the grace
   period or at MaxLevel is still new, and the non-admin members of a
   tribe are all new or all not new (one expired member ends the tribe's
   protection, RemoveExpiredTribesProtection lines 145-162). *)
ExpiryEnforced ==
    /\ \A p \in DOMAIN all_players :
          ~IsAdmin(p)
          /\ (all_players[p].start + HoursOfProtection <= now
              \/ all_players[p].level >= MaxLevel)
          => all_players[p].isNewPlayer = 0
    /\ \A p, q \in DOMAIN all_players :
          ~IsAdmin(p) /\ ~IsAdmin(q) /\ all_players[p].tribe = all_players[q].tribe
          => all_players[p].isNewPlayer = all_players[q].isNewPlayer

(* An UpdateTimer pass is the only step that moves next_player_update. *)
ProtectionExpiresAtUpdate ==
    [][next_player_update' # next_player_update => ExpiryEnforced']_vars

(* The structures of a protected tribe take no damage from an actor of
   another team, whatever the unspecified result of the admin lambda,
   except from an admin, from a protected player when new players may
   damage enemy structures, or from a wild dino the config lets through.
   About the decision tree of Hook_APrimalStructure_TakeDamage for a null
   or player instigator. *)
ProtectedStructuresImmune ==
    \A attacked \in StructureTeams, causer \in Causers, inst \in {NoActor} \cup Players,
       ub \in BOOLEAN :
        /\ Verdict(FALSE, attacked, causer, inst, ub).allow
        /\ Protected(attacked)
        /\ causer # NoActor => attacked # causer.team
        => \/ inst \in Players /\ IsAdmin(inst)
           \/ inst \in Players /\ AllowNewPlayersToDamageEnemyStructures
                               /\ IsPlayerProtected(inst)
           \/ inst = NoActor /\ causer # NoActor /\ WildDinoAllowed(causer)


(* Damage from a connected, non-admin, unprotected player to a structure
   of another team whose tribe is not protected goes through: protection
   only shields protected tribes (IsTribeProtected, lines 74-107, as its
   find_if is meant to decide). *)
UnprotectedStructuresDamageable ==
    \A attacked \in StructureTeams, causer \in Causers \ {NoActor},
       p \in DOMAIN online_players, ub \in BOOLEAN :
        /\ ~Protected(attacked) /\ attacked # causer.team
        /\ ~IsAdmin(p) /\ ~IsPlayerProtected(p)
        => Verdict(FALSE, attacked, causer, p, ub).allow

(* With neither wild-dino option set, an actor of another team whose
   damage is instigated by a controller that is not a player's (a dino's
   AI controller) does not damage a protected tribe's structure: the
   options AllowWildDinoDamage / AllowWildCorruptedDinoDamage (lines
   334-349) are the only exceptions the hook means to make for dinos. *)
DinoDamageNeedsConfig ==
    ~AllowWildDinoDamage /\ ~AllowWildCorruptedDinoDamage =>
    \A attacked \in StructureTeams, causer \in Causers \ {NoActor}, ub \in BOOLEAN :
        Protected(attacked) /\ attacked # causer.team
        => ~Verdict(FALSE, attacked, causer, NonPlayer, ub).allow


(* The lifecycle of a player's record in all_players_ (module
   NPPLifecycle): absent until the first login, new from then, ended
   once RemoveExpiredTribesProtection clears isNewPlayer; the start time
   is the one the record was created with. *)
LifecycleOf(p) ==
    IF p \notin DOMAIN all_players THEN "absent"
    ELSE IF all_players[p].isNewPlayer = 1 THEN "new" ELSE "ended"

StartOf(p) == IF p \in DOMAIN all_players THEN all_players[p].start ELSE 0

LC == INSTANCE NPPLifecycle WITH
        status <- [p \in Players |-> LifecycleOf(p)],
        since <- [p \in Players |-> StartOf(p)],
        clock <- now

(* The tracker implements the lifecycle: a player is registered with the
   time of their first login (AddNewPlayer, lines 483-495, guarded by its
   find_if), so logging out and in again neither restarts nor restores
   protection, no step moves a start time (UpdateLevelAndTribe writes the
   tribe and level only) and protection once cleared never comes back. *)
ImplementsLifecycle == LC!LSpec

=============================================================================

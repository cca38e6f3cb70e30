# New-Player-Protection: TLA+ models, checks and proofs

All of the code is in `src/NewPlayerProtectionHooks.h`. Lines 1-636 are the
protection plugin. Lines 636-1035 are the plugin manager of the hosting API,
appended to the same file.

## The system

Parts, as the source has them:

| Part | Code | State |
|---|---|---|
| Protection tracker | `TimerProt` (454-636), `RemoveExpiredTribesProtection` (126-178) | `all_players_`, `online_players_`, `next_player_update` |
| Hooks | `HandleNewPlayer` (250-277), `Logout` (279-287), `SaveWorld` (289-318), `TakeDamage` (320-452) | none of their own |
| Permission cache | `PermissionsMap`, `IsAdmin` (24-41) | steam id -> permission groups |
| Queries | `IsPlayerExists`, `IsPVETribe`, `IsTribeProtected`, `IsPlayerProtected`, `IsExemptStructure` (43-197) | read-only |
| Persistence | `UpdatePlayerDB`, `UpdatePVETribeDB` (199-248), `AddPlayerFromDB` (466-481) | SQLite tables, `pveTribesList`, `removedPveTribesList` |
| Plugin manager | `LoadPlugin`, `UnloadPlugin`, `DetectPluginChanges`, commands (650-1035) | `loaded_plugins_`, the plugin folders, `next_reload_check_` |

How they interact:

- `HandleNewPlayer` reads the player's team (or draws a random one) and adds
  the player to `all_players_` if the player is unknown. It then adds an
  online entry copied from the `all_players_` entry and caches the player's
  permission groups.
- `Logout` removes the online entry and the cache entry.
- The `UpdateTimer` callback runs when `next_player_update` is due:
  - For each online player that is not dead, it reads the live tribe and
    level and writes them into both lists.
  - It re-reads the cached groups of online players.
  - It then runs `RemoveExpiredTribesProtection`. A non-admin entry whose
    grace period is over, whose level reached `MaxLevel`, or which is no
    longer new ends the protection of its whole tribe, in both lists.
- `TakeDamage` decides whether damage to a structure goes through:
  - `IsTribeProtected` reads `all_players_`.
  - `IsPlayerProtected` reads `online_players_`.
  - `IsAdmin` reads the cache.
  - Notifications are throttled per online entry through `IsNextMessageReady`.
- `SaveWorld` writes the lists to the database.

Every hook and timer runs on the game thread. A handler is therefore one
atomic step, and the concurrency is the interleaving of handlers with each
other and with the clock.

## Modules

- `NPP.tla` models the tracker, the cache and the damage hook.
  - Variables:
    - `all_players` and `online_players` are functions from steam id to a
      record with the code's fields. The vectors have unique ids, because
      every insert is guarded by a `find_if`.
    - `PermissionsMap` maps a steam id to whether its groups contain
      `NPPAdminGroup`.
    - `next_player_update`.
    - `now`, the system clock, in units of the configured intervals.
  - Actions: `HandleNewPlayer(p)`, `Logout(p)`, `UpdateTimer`, `TakeDamage`,
    and `Tick` (the clock).
  - Helpers: `AddNewPlayer`, `AddOnlinePlayer`, `Drop` (`RemovePlayer`),
    `UpdatedAll` and `UpdatedOnline` (`UpdateLevelAndTribe`),
    `UpdatedPermissions`, `ExpiredIn`, `Triggers`, `ExpiredTribes`,
    `ClearAll` and `ClearOnline` (`RemoveExpiredTribesProtection`), and
    `IsNextMessageReady`. Each one translates the lines that `PROJECT.json`
    maps it to.
  - Engine values are inputs, not state:
    - A player's TargetingTeam, level, whether they are dead, and their
      permission groups are read when a handler runs. They may change
      arbitrarily between reads.
    - So each read is an `\E` over a small set at the moment of the read.
    - The one constraint is that a level read is never below the level last
      stored, because a character's highest level does not go down.
  - `RemoveExpiredTribesProtection` loops over `all_players_` and clears
    while it iterates. The model computes its result as sets:
    - the triggers are the non-admin expired entries;
    - their tribes are the expired tribes;
    - every non-admin entry of an expired tribe is cleared, and online
      entries are cleared by tribe or by trigger id.
    - This is equivalent to the loop:
      - An entry cleared during the loop becomes a trigger itself, but only
        with a tribe that has already expired.
      - An online trigger's tribe is its `all_players_` tribe while
        `OnlineMirrorsAll` holds, which is proved below.
  - `TakeDamage` is modelled as follows:
    - The decision tree of lines 320-452 is the operator `Verdict`.
    - Its arguments are the event's inputs:
      - whether the structure is exempt;
      - the attacked team;
      - the causer: none, or an actor with a team, a dino bit and a
        "Corrupt" name bit;
      - the instigator: none, a player, or another controller;
      - `ub`.
    - `ub` is the value returned by the `IsTribeProtected` lambda when it
      reaches an admin's entry and has no return statement (undefined
      behaviour).
    - The hook's only state change is the throttle update of the players it
      notifies.
- `MC_NPP.tla` instantiates `NPP` for TLC:
  - two players as model values, symmetric;
  - one tribe id, one random team, one PVE tribe, one wild team.
  - `MCDamageEvents` restricts the events the action offers to one attacked
    team and non-dino causers. This limits branching only: the invariants
    still quantify over every input.
- `NPPLifecycle.tla` is the abstract promise of the tracker, per player.
  - `status[p]` is `"absent"` before the first login, `"new"` while
    protected, and `"ended"` after.
  - `since[p]` is when protection started, and `clock` is the wall clock.
  - A player is registered once, with the clock at that moment. Protection
    ends once and never returns, and `since` never moves.
  - `NPP` maps onto it with `LifecycleOf` and `StartOf`, which read the
    player's `all_players_` entry, and `clock = now`.
- `NPPProofs.tla` holds the TLAPS proofs.
- `PMLoader.tla` is the abstract contract of the plugin manager, per plugin.
  - `running[p]` is the version whose code is loaded (0: none).
  - `newest[p]` is the newest build delivered.
  - `offered[p]` says whether a delivered build has not been taken up yet.
  - The steps: `Deliver` a higher version; `Start` a build (the newest when
    nothing is offered, any build up to it otherwise); `Stop`; `TakeUp` an
    offer, which ends with the newest build running or nothing running.
  - `ANext` lets every plugin take one of these steps (or none) at once,
    because one timer pass may reload several folders.
- `PM.tla` models the plugin manager (lines 636-1035).
  - Variables:
    - `dll[p]` and `pending[p]` are the versions in `<p>.dll` and
      `<p>.dll.ArkApi` (0: no file).
    - `loaded[p]` is the version recorded in `loaded_plugins_` (0: no entry).
    - `alive[p]` says that `Plugin_Init` ran and `Plugin_Unload` has not run
      since.
    - `started` says that `LoadAllPlugins` has run.
    - `due` says that `next_reload_check_` has passed.
    - `faults` counts library failures, up to `MaxFaults`.
  - Actions:
    - `LoadAllPlugins`: copies each update over its `.dll`, then calls
      `LoadPlugin`; a throw skips the folder.
    - `LoadPluginCmd(p)` and `UnloadPluginCmd(p)`: the console commands. A
      command that throws before changing anything is a stutter.
    - `DetectPluginChangesTimerCallback`: runs `DetectPluginChanges` when the
      throttle is due. For each folder with an update and a loaded plugin it
      unloads, copies, removes and loads. A throw ends that folder's turn
      where it happens.
    - `Deploy(p, v)`: an administrator drops a newer build. `Tick`: time
      passes the throttle.
  - `LoadOK` is `LoadPlugin`'s chain of throws: no `.dll`, already loaded,
    `MinApiVersion` too high (`BadVersions`), `LoadLibrary` failing.
  - The code reads `MinApiVersion` from the folder's `PluginInfo.json`
    (line 804), which a hot reload does not copy. The model attaches the
    requirement to the build instead, as if every build came with its own
    `PluginInfo.json`. `RunningBuildOnDisk`'s API-version half holds only
    under that abstraction.
  - A fault is `<<p, "LoadLibrary">>` or `<<p, "FreeLibrary">>`, at most one
    per step.
  - The console commands require `started`. `LoadAllPlugins` runs when the
    API starts, before the server takes console input.
- `PVEStore.tla` models the PVE tribes and their table.
  - Variables: `pveTribesList` (read by `IsPVETribe`),
    `removedPveTribesList`, the `PVE_Tribes` table (tribe -> `Is_Protected`
    or `Absent`), `up` (the process runs) and `faults` (failed SELECTs).
  - The vectors are modelled as sets. The code only counts members, and
    the table has one row per id.
  - `SaveWorld` is the PVE half of the hook: `Written` is the two loops
    (line 302 writes 1, then line 307 writes 0). `Reloaded` is what the
    clear-and-reload of `UpdatePVETribeDB` leaves in `pveTribesList`.
  - `SaveWorldAbort` is the debug-build outcome of the undefined behaviour
    at lines 226/307. The first `UpdatePVETribeDB(t, 0)` clears the vector
    the loop iterates. The checked iterator then asserts on the next
    increment, with the transaction open. One removed tribe is enough.
  - Of the database errors, only a failed SELECT (line 231) is modelled.
    An INSERT that throws (the outer catch, lines 244-247) is not. It
    would skip that call's clear and reload, and which reload stands would
    then depend on the order of the vector, which the sets forget.
  - `EditLists`, `Restart` and `Init` stand for code that is not in this
    repository: the PVE commands, and the load at startup. They are
    modelled from how the lists are used. Between saves the lists take any
    value.
- `NPPStore.tla` extends `NPP` with the Players table.
  - Variables: `Players_table`, `up`, `crashes`.
  - `SaveWorld` is the player loop with `UpdatePlayerDB`. A row whose
    statement throws is skipped.
  - `Crash` loses all memory.
  - `Restart` refills `all_players_` through `AddPlayerFromDB` and leaves
    the online list and the cache empty.
  - NPP's handlers run only while `up`, through `Running`.
- `NPPAdmin.tla` extends `NPP` with `Admins`, the players in
  `NPPAdminGroup` according to the Permissions plugin, which is not in this
  repository.
  - In `NPP` a group read is a free input. In `AdminNext`, every read
    returns the real membership: `Permissions::GetPlayerGroups` at login
    (line 274) and at each pass (line 628). That lets a property speak of
    real admins and not only of the cache.
  - `MC_NPPAdmin.tla` instantiates it on `MC_NPP` with p1 an admin.
  - `AdminProofs.tla` holds its proof.
- `MC_PVEStore.tla` and `MC_NPPStore.tla` instantiate them.
- `PVEProofs.tla` holds the proofs about `PVEStore`, and `StoreProofs.tla`
  the proof about `NPPStore`.
- `MC_PM.tla` instantiates `PM` with two plugins as model values.
- `PMProofs.tla` holds the TLAPS proofs about `PM`.

## Runs

| Run | cfg | Expect | What it shows |
|---|---|---|---|
| `npp_core` | `MC_NPP.cfg` | pass | `TypeOK`, `OnlineMirrorsAll`, `ProtectedStructuresImmune`, `ProtectionExpiresAtUpdate`, `ImplementsLifecycle` |
| `npp_admin_ub` | `MC_NPP_ub.cfg` | violation | `UnprotectedStructuresDamageable` fails. An admin's entry lets the undefined lambda result block damage to a tribe nobody protects (line 88). |
| `pm_core` | `MC_PM.cfg` | pass | `TypeOK`, `RunningBuildOnDisk`, `ImplementsLoader`, `UpdateTakenUp` |
| `pm_free_fail` | `MC_PM_free.cfg` | violation | `ListedPluginsAreLive` fails. `FreeLibrary` fails after `Plugin_Unload`, and the entry stays in `loaded_plugins_` (lines 846-855). |
| `pm_reload_disabled` | `MC_PM_disabled.cfg` | violation | `NoReloadWhenDisabled` fails. With `AutomaticPluginReloading` false, the timer still reloads (lines 914-925 never read `enable_plugin_reload_`). |
| `pve_save` | `MC_PVEStore.cfg` | pass | `SaveAppliesLists` |
| `pve_select_fail` | `MC_PVEStore_select.cfg` | violation | `SaveAppliesLists` fails when a SELECT throws. `UpdatePVETribeDB` clears `pveTribesList` before the SELECT, and the catch leaves it empty (lines 226-241). |
| `npp_store` | `MC_NPPStore.cfg` | pass | `SavedStateHonoured` |
| `npp_online_admin` | `MC_NPPAdmin_online.cfg` | pass | `OnlineAdminsKeepProtection` |
| `npp_grace_live` | `MC_NPPAdmin_live.cfg` | pass | `GraceEnds` (liveness) |
| `npp_offline_admin` | `MC_NPPAdmin.cfg` | violation | `AdminsKeepProtection` fails. An admin logs in, logs out, the grace period passes, and the next pass ends the admin's protection. `IsAdmin` reads only the cache, and `Logout` removes the player from it (line 285). |
| `npp_dino_instigator` | `MC_NPP_dino.cfg` | violation | `DinoDamageNeedsConfig` fails. With both wild-dino options off, damage instigated by a non-player controller still hits a protected tribe. The checks at 334-350 test an `AController` for being a dino character, which it never is. |

The properties:

- `OnlineMirrorsAll`: every online entry has an `all_players_` entry with
  the same tribe, start time, level and protection.
  - `IsPlayerProtected` reads one copy and `IsTribeProtected` reads the
    other.
  - It needs the copy at login, the double write in `UpdateLevelAndTribe`,
    and the two clears to agree.
- `ProtectionExpiresAtUpdate` is an action property. After every timer pass:
  - no non-admin entry past its grace period or at `MaxLevel` is still new;
  - the non-admin members of a tribe are all new or all not new.
- `ProtectedStructuresImmune`: for every damage input with a null or
  player instigator, and every value of `ub`, a protected tribe's structure takes no damage from another team.
  The exceptions are the ones the code grants: an admin, a protected player
  when `AllowNewPlayersToDamageEnemyStructures` is set, and a wild dino the
  config lets through. A non-player instigator is left out on purpose:
  that case fails, as the run `npp_dino_instigator` shows.
- `ImplementsLifecycle` is `NPPLifecycle`'s specification under the
  mapping above. A relogin goes through `HandleNewPlayer` again, and only
  the `find_if` of `AddNewPlayer` (line 491) stops it from creating a
  fresh record. A fresh record would restart the grace period or restore
  an ended protection. `UpdateLevelAndTribe` must not touch the start
  time, and the expiry only ever writes 0.

Bounds:

- 2 players are enough to have two members of one tribe, or a trigger and a
  bystander. Each can be admin or not, online or offline, dead or alive at
  a pass.
- `HoursOfProtection = 1` and `MaxTime = 2` let an entry expire by time
  within a run.
- `MaxLevel = 2` lets an entry expire by level.
- The single random team makes every tribeless player share a team. This
  is the collision hazard at line 257.
- The run reaches about 43,000 distinct states in under a minute.
- Three players under symmetry take more than ten minutes, so the tracker
  runs stay at two. The proofs of `NPPProofs` and `AdminProofs` cover
  every number of players.

The plugin-manager properties:

- `ImplementsLoader` is `PMLoader`'s specification under the mapping
  `running = loaded`, `newest = ` the update if there is one, else the
  `.dll`, and `offered = ` an update file waits.
  - With no update waiting, a plugin starts the build in its `.dll`.
  - While an update waits, `plugins.load` may start the older `.dll`
    build, because the command does not copy the update. The contract
    allows that: `Start` may pick any version up to the newest.
  - A hot reload takes the update up. It ends with the new build or with
    nothing, never with the old build again.
- `RunningBuildOnDisk`: a loaded plugin runs exactly the build in its
  `.dll`, and that build passed the `MinApiVersion` check of `LoadPlugin`
  (lines 791-827). It needs a hot reload to copy the update over the
  `.dll` before loading (lines 958-963), and `LoadAllPlugins` to run before
  anything is loaded.
- `UpdateTakenUp`: an update dropped into the folder of a loaded plugin is
  eventually consumed, or the plugin is no longer loaded. A reload whose
  `LoadPlugin` throws leaves the plugin unloaded for good (the hazard at
  line 965). The code does this deliberately, because line 947 reloads only
  loaded plugins, so the property counts that outcome as taking the update up.

The persistence properties:

- `SaveAppliesLists` is an action property. Every `SaveWorld` that runs to
  its end stores each removed tribe as 0 and drops it from
  `pveTribesList`. It stores every other PVE tribe as 1 and keeps it. A
  tribe in both lists ends up removed, because the loop at line 307 runs
  last.
- `SavedStateHonoured`: while the process is up, every saved row has its
  `all_players_` entry with the row's start time. A protection the row
  records as ended has not come back.
  - A protection that ended after the last save does come back after a
    crash (the hazard at line 289). That is the design of saving at world
    saves, and the world rolls back to the same save.

The admin properties:

- `AdminsKeepProtection` is an action property: no pass ends the
  protection of a member of `NPPAdminGroup`. That is what the guards
  ("//if not an admin", lines 148, 157, 169) are for. It fails for an
  admin who is offline, and for every admin after a restart, because the
  cache is then empty. An offline admin whose grace period is over also
  expires the new players of the admin's tribe.
- `OnlineAdminsKeepProtection` is the part that holds: an admin who is
  online keeps protection. The pass re-reads the cache for every online
  player (lines 626-629) before the expiry, and the IsAdmin guards skip
  the admin even when another member expires the tribe. The run reaches
  12,578 states on the `MC_NPP` bounds.

- `GraceEnds` is a liveness property: a player who is not an admin and
  whose grace period is over eventually loses protection, whether online
  or offline. It needs `UpdateTimer` to keep rescheduling itself
  (`next_player_update`, lines 614-617), and the expiry to walk all of
  `all_players_`, not only the online players. It is checked with one
  non-admin player, `MaxTime = 4` and one damage event, which gives 1,105
  states. A player's expiry is decided by that player's own entry, and
  admins play no part for a non-admin trigger. With the two players of
  `MC_NPP` (p1 an admin) and `MaxTime = 2`, it also holds, but the check
  takes over three minutes.
  - The clock is bounded, so the property cannot tell "cleared at the
    boundary" from "cleared a little later". The mutant that catches it,
    `TriggersOnline`, never clears an offline player at all.

Persistence bounds:

- `pve_save` has three tribes (symmetric), any lists and any table, and
  no failed SELECT. It reaches 374 states. Three tribes allow a tribe in
  both lists next to a removed tribe and a PVE tribe.
- `npp_store` has one player, one crash and the tracker's other bounds.
  The property is about each player's own row. With two players, the
  composition passes too, but takes 16 minutes.
- The one damage event only moves the message throttle, which is not
  saved.

`pm_core` bounds: two plugins, versions 1..3 with version 2 needing a newer
API, and one library failure per run.

- Two plugins are enough for a timer pass that reloads one folder while the
  other fails.
- Three versions allow a build on disk, an update, and a newer update
  dropped over the first.
- The run reaches 1,408 distinct states.
- Symmetry is not used, because the run checks liveness.

Fairness:

- `NPP` itself assumes no fairness. Its properties are safety
  properties.
- `NPPAdmin`'s `AdminLiveSpec` assumes weak fairness of `UpdateTimer` and
  of `Tick`. The constructor registers `UpdateTimer` as a timer callback
  (line 457), which the API calls every second, and the wall clock keeps
  moving. Logins, logouts and damage are people's actions, with no
  fairness.
- `PM` assumes weak fairness of `DetectPluginChangesTimerCallback` and of
  `Tick`. The API calls every registered timer callback on each game tick,
  and the wall clock keeps moving past `next_reload_check_`.
- There is no fairness on the commands or on `Deploy`, which people issue.

Mutants:

| Mutant | Bug it models | Property that catches it |
|---|---|---|
| `IsNextMessageReadyBack` | the throttle set backwards | `TypeOK` |
| `AddOnlinePlayerFromTeam` | the online copy taking the hook's team | `OnlineMirrorsAll` |
| `DetectPluginChangesLoadFirst` | `LoadPlugin` before the copy over the `.dll` | `ImplementsLoader` |
| `ReloadsLive` | reloading only plugins whose code is still active | `UpdateTakenUp` |
| `WrittenRemovedFirst` | the two save loops in the other order | `SaveAppliesLists` |
| `RestartNewOnly` | loading only the rows of players still new | `SavedStateHonoured` |
| `TriggersOnline` | expiring only the online players' entries | `GraceEnds` |
| `ClearAllIgnoringAdmins` | the tribe loop without its `IsAdmin` guard (line 157) | `OnlineAdminsKeepProtection` |
| `ExpiredInStrict` | `<` in place of `<=` | `ProtectionExpiresAtUpdate` |
| `IsTribeProtectedOnline` | the tribe scan over online players only | `ProtectedStructuresImmune` |
| `AddNewPlayerAgain` | `AddNewPlayer` without its `find_if` guard (line 491) | `ImplementsLifecycle` |
| `LoadOKNoApiCheck` | `LoadPlugin` without the `MinApiVersion` check | `RunningBuildOnDisk` |

Each mutant makes its passing run fail on its property.

## Proofs

`NPPProofs.tla` proves five theorems for every value of the constants that
satisfies `ConstAssumption`. The assumption requires the team ids to be
naturals and `MaxLevel` and the update interval to be positive.

- `TypeCorrect`: `Spec => []TypeOK`.
  - It rests on `TypeNext` (one step per action) and on lemmas about the
    helpers: `PutType`, `DropType`, `ThrottleType`, `UpdatedType` and
    `ClearType`.
- `MirrorInvariant`: `Spec => []OnlineMirrorsAll`.
  - `OnlineMirrorsAll` alone is not inductive: the UpdateTimer step needs
    the records to be well typed. The inductive invariant is therefore
    `TypeOK /\ OnlineMirrorsAll`.
  - The argument has three parts, one lemma each:
    - `UpdatedMirror`: the refresh writes the same tribe and level into
      both copies.
    - `ClearMirror`: the clear treats an online entry exactly like its
      `all_players_` entry, because a trigger's own tribe is an expired
      tribe.
    - `MirrorNext`: login copies the record.
- `ExpiryAtUpdate`: `Spec => ProtectionExpiresAtUpdate`.
  - Only `UpdateTimer` moves `next_player_update`, so only its steps
    matter, and `TypeOK` is the only invariant needed.
  - `ClearEnforces` is the argument, stated for any well-typed list and any
    cache. A non-admin trigger's own tribe is an expired tribe, so the
    trigger is cleared. A non-admin entry whose tribe no trigger expires
    is not a trigger, so it is still new, and so is every other non-admin
    entry of that tribe.
  - `TimerEnforces` applies it to the list the refresh produced, under
    the cache the pass just re-read.
- `ImmuneInvariant`: `Spec => []ProtectedStructuresImmune`.
  - `ProtectedDetected`: a protected tribe is always found by
    `IsTribeProtected`, whatever the admin lambda returns, because a
    non-admin new member satisfies the `find_if` either way.
  - `ImmuneEverywhere` then follows the decision tree of `Verdict` branch
    by branch. It holds in every state, reachable or not: the property is
    about the decision, given that the tribe scan over `all_players_`
    over-approximates protection. The mutant `IsTribeProtectedOnline`
    breaks exactly that step, because it scans only the online players.
  - It needs `NonPlayer \notin Players` in `ConstAssumption`: a controller
    that is not a player's must not carry a player's steam id.
- `LifecycleRefinement`: `Spec => ImplementsLifecycle`, which says that the
  tracker implements `NPPLifecycle`.
  - `TypeOK` is the only invariant it needs. The record types are needed
    because the refresh and the clear are `EXCEPT` on record fields.
  - `LifecycleStep` takes one player and one step. `HandleNewPlayer`
    registers a player who has no entry, at `now`, and leaves every other
    entry alone. `UpdateTimer` keeps the domain and the start times, and
    writes `isNewPlayer` as it was or 0, which is `Keep` or `End`. The
    other actions do not touch `all_players`. `RecordKept` covers every
    entry a step leaves as it was.
  - `LifecycleNext` adds the clock, which moves only by `Tick`, and the
    abstract types.

`PMProofs.tla` proves four theorems for every value of the constants that
satisfies `PMAssumption`. The assumption requires naturals for the bounds,
`BadVersions` inside `1..MaxVersion`, and a boolean setting.

- `TypeCorrect`: `Spec => []TypeOK`, from `TypeNext`. The other proofs
  rest on it. No run checks `TypeOK` for `PM`. Only a change to the
  model's own bound on faults could break it, never a change to the code.
- `Refinement`: `Spec => ImplementsLoader`, which says that `PM` implements
  `PMLoader`.
  - The refinement needs the inductive invariant `Inv`, which is `TypeOK`
    and two more facts:
    - `PendingNewer`: an update is newer than the `.dll`. Without it, the
      copy in `LoadAllPlugins` could lower the mapped `newest`.
    - `NothingLoadedBeforeStart`: before `LoadAllPlugins` no entry exists.
      Without it, `LoadAllPlugins` could keep an old entry while consuming
      the update, which no abstract step allows.
  - `InvNext` proves `Inv` inductive. `RefineNext` maps every step to
    `ANext` or a stutter: one case per action, and under it one per plugin,
    to find the abstract step that plugin takes.
  - `MapAt` unfolds the mapped functions at one plugin.
- `DiskInvariant`: `Spec => []RunningBuildOnDisk`.
  - `DiskNext` is the step argument, one case per action. A load
    succeeds only for a version outside `BadVersions`. A hot reload copies
    the update over the `.dll` before it loads, and an unload or a failed
    reload leaves the plugin unloaded.
  - `LoadAllPlugins` copies updates over `.dll` files, which would break
    the property for a plugin already loaded. `Inv`'s
    `NothingLoadedBeforeStart` rules that out.
- `LiveWithoutFaults`: `MaxFaults = 0 => (Spec => []ListedPluginsAreLive)`.
  - `NoFaultOnly`: with no fault allowed, the only fault value an action
    can pick is `NoFault`.
  - `LiveNext`: with `FreeLibrary` never failing, `UnloadPlugin` drops the
    entry with the plugin's code, and a load adds both together.
  - The run `pm_free_fail` shows that one `FreeLibrary` failure breaks the
    property. The hypothesis is therefore needed, and TLC confirms that the
    property holds when `MaxFaults = 0`.

`PVEProofs.tla` proves `TypeCorrect` for `PVEStore`, and `SaveCorrect`:
`MaxFaults = 0 => (Spec => SaveAppliesLists)`, for every set of tribes.
It covers saves in which no database statement fails: with `MaxFaults = 0`
no SELECT fails, and INSERT failures are not modelled.

- The argument is the lemma `SaveStep`. With no failed SELECT, a removed
  tribe is written 0 and is not in the reloaded list. Any other PVE tribe
  is written 1. It stays in the list either way: when nothing was removed
  the list is untouched, and otherwise the list is the rows with 1.
- `TypeOK` is the only invariant it needs.

`StoreProofs.tla` proves `StoreCorrect`: `StoreSpec => []SavedStateHonoured`.

- The inductive invariant is `SInv`: NPP's `TypeOK`, `StoreTypeOK` and the
  property. The record types are needed because the timer's writes are
  `EXCEPT` on record fields.
- `KeepNext` shows that every step of the tracker keeps each
  `all_players_` entry and its start time, and never starts a protection
  again. That covers `AddNewPlayer`'s guard, `UpdateLevelAndTribe`, which
  writes tribe and level only, and `RemoveExpiredTribesProtection`, which
  writes only 0.
- `SaveWorld` copies entries into rows. `Crash` makes the property
  vacuous. `Restart` makes the list equal to the table.
- It reuses the lemmas of `NPPProofs` (`TypeNext`, `UpdatedType`).

`AdminProofs.tla` proves `OnlineAdminSafe`:
`AdminSpec => OnlineAdminsKeepProtection`, assuming `Admins` is a set of
players.

- The inductive invariant is `AInv`: `TypeOK`, and `CacheCoversOnline`,
  which says every online player has a cache entry. Without it the pass
  could find an online admin missing from the cache. Login adds both
  entries, logout drops both, and a pass rewrites cached entries only.
- `AdminStep` is the step argument. At a pass the online admin's cache
  entry has just been re-read as an admin, so `ClearAll` leaves the entry
  as the refresh wrote it, and the refresh does not touch `isNewPlayer`.
  Every other action leaves existing `all_players_` entries unchanged.

What stays with TLC:

- `UpdateTakenUp` and `GraceEnds` are liveness properties. The prover
  does not handle fairness or ENABLED, so they stay with TLC.

## Not modelled yet, and plan

- Persistence, the parts left out:
  - `lastLoginDateTime`: it is written, but no decision reads it.
  - The PVE commands and the startup load, which are not in this
    repository. They are modelled from how the lists are used.
  - The engine's own world save, which runs before the hook's writes.
- Plugin manager, the parts left out:
  - `copy_file` or `fs::remove` failing.
  - The `SaveWorld` call before a reload: it is the engine's.
  - Plugins without `Plugin_Init` or `Plugin_Unload`. The model assumes
    both exist, so `alive` tracks them.
  - `CheckPluginsDependencies` and the JSON readers, which only log or
    parse.
- Out of scope: the detour library, the engine's class layout, SQL,
  JSON/config parsing, notifications and logging. These are external
  collaborators with no state the decisions read.
- Still to add:
  - group changes in the Permissions plugin while a player is online (the
    stale cache between passes, line 626). `NPPAdmin` fixes the groups for
    a run.

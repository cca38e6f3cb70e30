----------------------------- MODULE NPPStore -------------------------------
(***************************************************************************)
(* The tracker of NPP composed with the Players table of the plugin's      *)
(* database (src/NewPlayerProtectionHooks.h): the player loop of           *)
(* Hook_AShooterGameMode_SaveWorld with UpdatePlayerDB, a crash of the     *)
(* server process, and the restart that refills all_players_ through      *)
(* AddPlayerFromDB.                                                        *)
(*                                                                         *)
(* Memory is lost at a crash; the table keeps what the last save wrote.    *)
(* The hooks and timers of NPP run only while the process is up; the wall  *)
(* clock runs regardless.  The load that calls AddPlayerFromDB for every   *)
(* row is not in this repository.                                          *)
(***************************************************************************)
EXTENDS NPP

CONSTANT MaxCrashes     \* bound on crashes in a run (model bound)

ASSUME StoreAssumption == MaxCrashes \in Nat

VARIABLES
    Players_table,  \* the Players table: steam id -> the row UpdatePlayerDB wrote
    up,             \* the server process is running
    crashes         \* crashes so far

storeVars == <<Players_table, up, crashes>>
allVars == <<vars, storeVars>>

StoreTypeOK ==
    /\ DOMAIN Players_table \subseteq Players
    /\ Players_table \in [DOMAIN Players_table -> AllPlayerData]
    /\ up \in BOOLEAN
    /\ crashes \in 0..MaxCrashes

(* A hook or timer of the plugin: it runs inside the live process. *)
Running(A) == up /\ A /\ UNCHANGED storeVars

(* Hook_AShooterGameMode_SaveWorld, the player loop: UpdatePlayerDB(data)
   for every entry of all_players_, an INSERT OR REPLACE keyed by steam id.
   A row whose statement throws is logged and skipped (lines 209-212): the
   rows written are any subset of the entries. *)
SaveWorld ==
    /\ up
    /\ \E written \in SUBSET DOMAIN all_players :
        Players_table' =
            [p \in DOMAIN Players_table \cup written |->
                IF p \in written THEN all_players[p] ELSE Players_table[p]]
    /\ UNCHANGED <<vars, up, crashes>>

(* The server process dies: every variable of the plugin is lost. *)
Crash ==
    /\ up
    /\ crashes < MaxCrashes
    /\ up' = FALSE
    /\ crashes' = crashes + 1
    /\ UNCHANGED <<vars, Players_table>>

(* Mutant: only the rows of players still new are loaded at restart. *)
RestartNewOnly ==
    /\ ~up
    /\ up' = TRUE
    /\ all_players' = [p \in {q \in DOMAIN Players_table : Players_table[q].isNewPlayer = 1}
                          |-> Players_table[p]]
    /\ online_players' = <<>>
    /\ PermissionsMap' = <<>>
    /\ next_player_update' = 0
    /\ UNCHANGED <<now, Players_table, crashes>>

(* The plugin is loaded again.  AddPlayerFromDB(row) for every row into
   the empty all_players_: a row's steam id is never already there, so the
   list becomes the table.  No player is online and no groups are cached. *)
Restart ==
    /\ ~up
    /\ up' = TRUE
    /\ all_players' = [p \in DOMAIN Players_table |-> Players_table[p]]
    /\ online_players' = <<>>
    /\ PermissionsMap' = <<>>
    /\ next_player_update' = 0
    /\ UNCHANGED <<now, Players_table, crashes>>

StoreInit ==
    /\ Init
    /\ Players_table = <<>>
    /\ up = TRUE
    /\ crashes = 0

StoreNext ==
    \/ \E p \in Players : Running(HandleNewPlayer(p)) \/ Running(Logout(p))
    \/ Running(UpdateTimer)
    \/ Running(TakeDamage)
    \/ Tick /\ UNCHANGED storeVars
    \/ SaveWorld
    \/ Crash
    \/ Restart

StoreSpec == StoreInit /\ [][StoreNext]_allVars

-----------------------------------------------------------------------------
(* Properties *)

(* While the process is up, every row of the Players table is honoured: the
   player has an entry in all_players_ with the start time of the row, and a
   protection the row records as ended has not come back.  It rests on
   SaveWorld writing whole entries, on the restart loading every row
   (AddPlayerFromDB), on AddNewPlayer never replacing an entry, and on the
   timer only ever ending protections. *)
SavedStateHonoured ==
    up => \A p \in DOMAIN Players_table :
            /\ p \in DOMAIN all_players
            /\ all_players[p].start = Players_table[p].start
            /\ Players_table[p].isNewPlayer = 0 => all_players[p].isNewPlayer = 0

=============================================================================

----------------------------- MODULE NPPAdmin -------------------------------
(***************************************************************************)
(* The tracker of NPP with the group membership the Permissions plugin    *)
(* holds.  NPP reads groups as free inputs; here every read                *)
(* (Permissions::GetPlayerGroups at login, line 274, and at each pass,     *)
(* line 628) returns the player's real membership of NPPAdminGroup, which  *)
(* is fixed for the run: Admins.  That lets a property speak of who is an *)
(* admin, rather than of what the cache PermissionsMap says.               *)
(***************************************************************************)
EXTENDS NPP

CONSTANT Admins     \* players in NPPAdminGroup (the Permissions plugin)

ASSUME AdminAssumption == Admins \subseteq Players

(* A read of the player's groups returns the real membership. *)
GroupsRead(p) == PermissionsMap'[p] = (p \in Admins)

(* The hooks and the timer, with the group reads made real. *)
AdminNext ==
    \/ \E p \in Players : HandleNewPlayer(p) /\ GroupsRead(p)
    \/ \E p \in Players : Logout(p)
    \/ UpdateTimer /\ \A q \in DOMAIN online_players : GroupsRead(q)
    \/ TakeDamage
    \/ Tick

AdminSpec == Init /\ [][AdminNext]_vars

(* The constructor registers UpdateTimer as a timer callback (line 457),
   which the API calls every second on the game thread; the wall
   clock keeps moving: both are weakly fair. *)
AdminFairness ==
    /\ WF_vars(UpdateTimer /\ \A q \in DOMAIN online_players : GroupsRead(q))
    /\ WF_vars(Tick)

AdminLiveSpec == AdminSpec /\ AdminFairness

-----------------------------------------------------------------------------
(* Properties *)

(* An admin of NPPAdminGroup never loses protection to the expiry pass:
   RemoveExpiredTribesProtection skips every entry for which IsAdmin holds
   ("//if not an admin", lines 148, 157 and 169).  IsAdmin consults only
   the cache, which Logout empties for the player (line 285). *)
AdminsKeepProtection ==
    [][\A q \in DOMAIN all_players \cap Admins :
         IgnoreAdmins /\ all_players[q].isNewPlayer = 1
           => all_players'[q].isNewPlayer = 1]_vars

(* While an admin is online its groups are in the cache, refreshed at
   every pass before the expiry (lines 626-629), so the pass keeps its
   protection, even when another member of its tribe expires it (the
   guards at lines 148 and 157). *)
OnlineAdminsKeepProtection ==
    [][\A q \in DOMAIN all_players \cap DOMAIN online_players \cap Admins :
         IgnoreAdmins /\ all_players[q].isNewPlayer = 1
           => all_players'[q].isNewPlayer = 1]_vars

(* A player who is not an admin and whose grace period is over eventually
   loses protection, online or not: UpdateTimer keeps rescheduling itself
   (next_player_update, lines 614-617) and RemoveExpiredTribesProtection
   walks every entry of all_players_ (lines 134-150). *)
GraceEnds ==
    \A p \in Players \ Admins :
        p \in DOMAIN all_players /\ all_players[p].start + HoursOfProtection <= now
          ~> p \in DOMAIN all_players /\ all_players[p].isNewPlayer = 0

=============================================================================

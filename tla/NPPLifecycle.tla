--------------------------- MODULE NPPLifecycle ------------------------------
(***************************************************************************)
(* What New Player Protection promises each player about their protection *)
(* record, whatever the tribes, levels and admins do.                      *)
(*                                                                         *)
(*   status[p]  "absent" before the player's first login, "new" while the  *)
(*              player is protected, "ended" once protection is lost       *)
(*   since[p]   when the player's protection started                       *)
(*   clock      the wall clock                                              *)
(*                                                                         *)
(* A player is registered once, at the time of the first login, and       *)
(* protected from then; protection ends once and never comes back, and    *)
(* its start is never moved (logging in again does not restart it).        *)
(* Players are independent, so one step may move several of them.         *)
(***************************************************************************)
EXTENDS Naturals

CONSTANT Players

VARIABLES status, since, clock

lvars == <<status, since, clock>>

Status == {"absent", "new", "ended"}

LTypeOK ==
    /\ status \in [Players -> Status]
    /\ since \in [Players -> Nat]
    /\ clock \in Nat

LInit ==
    /\ status = [p \in Players |-> "absent"]
    /\ since = [p \in Players |-> 0]
    /\ clock = 0

(* The step of one player p; the others are not constrained here. *)
Register(p) ==
    /\ status[p] = "absent"
    /\ status'[p] = "new"
    /\ since'[p] = clock

End(p) ==
    /\ status[p] = "new"
    /\ status'[p] = "ended"
    /\ since'[p] = since[p]

Keep(p) ==
    /\ status'[p] = status[p]
    /\ since'[p] = since[p]

LNext ==
    /\ LTypeOK'
    /\ clock' \in {clock, clock + 1}
    /\ \A p \in Players : Keep(p) \/ Register(p) \/ End(p)

LSpec == LInit /\ [][LNext]_lvars

=============================================================================

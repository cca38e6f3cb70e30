------------------------------ MODULE MC_NPPAdmin ---------------------------
(* The instance of MC_NPP with p1 an admin and p2 not. *)
EXTENDS MC_NPP, NPPAdmin

MCAdmins == {p1}

(* For the liveness run: one player, not an admin, and one damage event.  TakeDamage only moves the
   message throttle, which no expiry reads. *)
MCLivePlayers == {p2}
MCLiveAdmins == {}

MCLiveDamageEvents ==
    {[exempt |-> FALSE, attacked |-> 11100000,
      causer |-> [team |-> 200000, dino |-> FALSE, corrupt |-> FALSE],
      inst |-> p2, ub |-> FALSE]}
=============================================================================

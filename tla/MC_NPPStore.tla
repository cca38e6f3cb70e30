---------------------------- MODULE MC_NPPStore ------------------------------
(* The instance of MC_NPP with the Players table and one crash.  The
   property is about each player's own row, so one player is enough, and
   damage only moves the message throttle, which the table does not hold:
   one event that notifies the player's tribe is enough here. *)
EXTENDS MC_NPP, NPPStore

MCStorePlayers == {p1}

MCStoreDamageEvents ==
    {[exempt |-> FALSE, attacked |-> 300000,
      causer |-> [team |-> 200000, dino |-> FALSE, corrupt |-> FALSE],
      inst |-> NoActor, ub |-> FALSE]}

=============================================================================

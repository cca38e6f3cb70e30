------------------------------- MODULE MC_NPP -------------------------------
(* Two players, two player tribes (one of them PVE), one random team and
   one wild-dino team; a grace period of two clock units, levels 1..2. *)
EXTENDS NPP, TLC

CONSTANTS p1, p2

MCPlayers == {p1, p2}
MCTribes == {200000}
MCRandTeams == {11100000}
MCPVETribes == {300000}
MCWildTeams == {5}

(* Damage events that reach each throttle call: a blocked player
   instigator, and a null instigator whose causer's tribe members are
   notified; the decision itself is checked over all events by the
   invariants. *)
MCDamageEvents ==
    {[exempt |-> FALSE, attacked |-> 11100000, causer |-> c, inst |-> i, ub |-> FALSE] :
        c \in {[team |-> t, dino |-> FALSE, corrupt |-> FALSE] : t \in {0, 200000}},
        i \in {NoActor} \cup MCPlayers}

MCSymmetry == Permutations(MCPlayers)
=============================================================================

----------------------------- MODULE PMLoader -------------------------------
(***************************************************************************)
(* What the plugin manager promises, per plugin: which version of it runs. *)
(*                                                                         *)
(*   running[p]  the version whose code is loaded, 0 when none is          *)
(*   newest[p]   the newest build delivered to the plugin's folder         *)
(*   offered[p]  a delivered build has not been taken up yet               *)
(*                                                                         *)
(* A build is delivered with a higher version.  A plugin starts with a     *)
(* build no newer than the newest (the newest itself when nothing is       *)
(* offered), and stops.  Taking up an offered build ends with the newest   *)
(* build running or with nothing running: never with an older build.       *)
(* Plugins are independent, so one step may move several of them.         *)
(***************************************************************************)
EXTENDS Naturals

CONSTANTS Plugins, MaxVersion

VARIABLES running, newest, offered

avars == <<running, newest, offered>>

Versions == 1..MaxVersion

ATypeOK ==
    /\ running \in [Plugins -> 0..MaxVersion]
    /\ newest \in [Plugins -> 0..MaxVersion]
    /\ offered \in [Plugins -> BOOLEAN]

AInit ==
    /\ running \in [Plugins -> {0}]
    /\ newest \in [Plugins -> 0..MaxVersion]
    /\ offered \in [Plugins -> BOOLEAN]

(* The step of one plugin p; the other plugins are not constrained here. *)
Deliver(p) ==
    /\ newest'[p] > newest[p]
    /\ offered'[p]
    /\ running'[p] = running[p]

Start(p) ==
    /\ running[p] = 0
    /\ running'[p] \in IF offered[p] THEN 1..newest[p] ELSE {newest[p]}
    /\ running'[p] # 0
    /\ newest'[p] = newest[p] /\ offered'[p] = offered[p]

Stop(p) ==
    /\ running[p] # 0
    /\ running'[p] = 0
    /\ newest'[p] = newest[p] /\ offered'[p] = offered[p]

TakeUp(p) ==
    /\ offered[p] /\ ~offered'[p]
    /\ running'[p] \in {newest[p], 0}
    /\ newest'[p] = newest[p]

Same(p) ==
    /\ running'[p] = running[p]
    /\ newest'[p] = newest[p]
    /\ offered'[p] = offered[p]

ANext ==
    /\ ATypeOK'
    /\ \A p \in Plugins : Same(p) \/ Deliver(p) \/ Start(p) \/ Stop(p) \/ TakeUp(p)

ASpec == AInit /\ [][ANext]_avars

=============================================================================

------------------------------ MODULE MC_PM ----------------------------------
(* Two plugin folders; builds 1..3 of which build 2 needs a newer API. *)
EXTENDS PM

CONSTANTS pa, pb

MCPlugins == {pa, pb}

=============================================================================

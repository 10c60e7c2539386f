--------------------------- MODULE MCMasqueTunnel ---------------------------
(***************************************************************************)
(* MasqueTunnel with the spare adapters interchangeable.                   *)
(***************************************************************************)
EXTENDS MasqueTunnel, TLC

Spares == Permutations(Adapters \ {First})

=============================================================================

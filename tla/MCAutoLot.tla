------------------------------ MODULE MCAutoLot ------------------------------
(***************************************************************************)
(* TLC instances of AutoLot: three deployments, either one after the other *)
(* so that only the middle one is near both others, or two at one date and *)
(* a third within the window.                                              *)
(***************************************************************************)
EXTENDS AutoLot, TLC

CONSTANTS d1, d2, d3

chain == d1 :> 1 @@ d2 :> 2 @@ d3 :> 3

pair == d1 :> 1 @@ d2 :> 1 @@ d3 :> 2

Interchangeable == Permutations(Handlers) \cup Permutations(Sweeps) \cup Permutations(Lots)
=============================================================================

--------------------------- MODULE MCDeployStatus ---------------------------
(***************************************************************************)
(* TLC instances of DeployStatus.  Handlers and links are interchangeable, *)
(* so the safety runs take them up to permutation; the liveness runs do    *)
(* not.                                                                    *)
(***************************************************************************)
EXTENDS DeployStatus, TLC

Interchangeable == Permutations(Requests) \cup Permutations(Tokens)
=============================================================================

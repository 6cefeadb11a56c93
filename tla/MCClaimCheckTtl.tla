-------------------------- MODULE MCClaimCheckTtl --------------------------
(***************************************************************************)
(* Instances of ClaimCheckTtl for TLC: jobs are interchangeable.            *)
(***************************************************************************)
EXTENDS ClaimCheckTtl, TLC

Symmetry == Permutations(Jobs)
=============================================================================

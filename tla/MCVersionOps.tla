---------------------------- MODULE MCVersionOps ----------------------------
(***************************************************************************)
(* Instances of VersionOps for TLC.                                         *)
(***************************************************************************)
EXTENDS VersionOps, TLC

\* A named version that changes nothing, one that replaces everything, and a write that
\* leaves no name.
MCRequests ==
  {[kind |-> "checkpoint", by |-> None, named |-> TRUE],
   [kind |-> "append", by |-> None, named |-> FALSE]}
    \cup [kind : {"revert"}, by : Users, named : {TRUE}]

Symmetry == Permutations(Ops) \cup Permutations(Workers)
=============================================================================

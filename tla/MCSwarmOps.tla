---------------------------- MODULE MCSwarmOps ----------------------------
(***************************************************************************)
(* Values of the constants of SwarmOps for TLC.  Stack A needs the shared  *)
(* secret "g" and a config, stack B the shared secret only, and A is       *)
(* attached to the network "n".                                            *)
(***************************************************************************)
EXTENDS SwarmOps, TLC

CONSTANTS A, B, v1, v2, t1, t2, r1, n

NeedsAB == [s \in Stacks |-> IF s = A THEN {"g", "c"} ELSE {"g"}]
UsesAB == [s \in Stacks |-> IF s = A THEN {n} ELSE {}]

\* One task that deploys both stacks, and one that deploys A alone.
PlanOne == [t \in Tasks |-> <<A, A>>]
PlanTwo == [t \in Tasks |-> IF t = t1 THEN <<A, B>> ELSE <<A>>]

RemoveA == [r \in Removers |-> <<A>>]

SymmetricValues == Permutations({v1, v2})
=============================================================================

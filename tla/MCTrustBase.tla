------------------------------ MODULE MCTrustBase -----------------------------
(***************************************************************************)
(* TrustBase with four root nodes, one of them faulty: a committee of      *)
(* equal stakes and a committee of unequal ones that leaves a node out.    *)
(***************************************************************************)
EXTENDS TrustBase, TLC

CONSTANTS n1, n2, n3, n4, main, test

EqualStakes == (n1 :> 1) @@ (n2 :> 1) @@ (n3 :> 1) @@ (n4 :> 1)
UnequalStakes == (n1 :> 2) @@ (n2 :> 2) @@ (n4 :> 1)

MCNodeIDs == {n1, n2, n3, n4}
MCFaulty == {n4}
MCCommittees == {EqualStakes, UnequalStakes}
MCHeaders == {[network |-> main, epoch |-> 1, start |-> 0],
              [network |-> main, epoch |-> 2, start |-> 0],
              [network |-> main, epoch |-> 2, start |-> 1],
              [network |-> test, epoch |-> 3, start |-> 2],
              [network |-> main, epoch |-> 3, start |-> 2]}
MCSymmetry == Permutations({n1, n2}) \cup Permutations(Verifiers)

===============================================================================

---------------------------- MODULE MCUnicitySeal -----------------------------
(***************************************************************************)
(* UnicitySeal with two epochs: round 1 belongs to epoch 1, later rounds   *)
(* to epoch 2.  Of four nodes with one vote each, one is faulty.           *)
(***************************************************************************)
EXTENDS UnicitySeal, TLC

CONSTANTS n1, n2, n3, n4, main, test

MCNodeIDs == {n1, n2, n3, n4}
MCFaulty == {n4}
MCNetworks == {main, test}
MCTrustBases ==
    LET All == [n \in MCNodeIDs |-> 1]
        tb(e, s) == [network |-> main, epoch |-> e, start |-> s, committee |-> All,
                     threshold |-> 3]
    IN  <<tb(1, 0), tb(2, 2)>>
MCSymmetry == Permutations({n1, n2, n3}) \cup Permutations(Hashes)
===============================================================================

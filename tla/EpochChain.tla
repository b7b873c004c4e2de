------------------------------ MODULE EpochChain ------------------------------
(***************************************************************************)
(* What the trust base promises its users, without signatures, hashes or   *)
(* thresholds: there is one chain of root epochs, it only ever grows by a  *)
(* next epoch that starts later on the same network, and every verifier    *)
(* has adopted a prefix of it, one epoch after the other.                  *)
(***************************************************************************)
EXTENDS Integers, Sequences

CONSTANTS Verifiers

VARIABLES chain,    \* the trust bases of epochs 1, 2, ... Len(chain)
          seen      \* seen[v]: how many of them verifier v has adopted

Init == /\ chain = << >>
        /\ seen = [v \in Verifiers |-> 0]

\* b may be the first element, or the element after last, of the chain.
Extends(b) ==
    \/ /\ chain = << >>
       /\ b.epoch = 1
    \/ /\ chain # << >>
       /\ b.network = chain[Len(chain)].network
       /\ b.epoch = chain[Len(chain)].epoch + 1
       /\ b.start > chain[Len(chain)].start

\* A verifier that has adopted the whole chain adopts a new epoch.
Extend(v) ==
    /\ seen[v] = Len(chain)
    /\ Len(chain') = Len(chain) + 1
    /\ chain' = Append(chain, chain'[Len(chain')])
    /\ Extends(chain'[Len(chain')])
    /\ seen' = [seen EXCEPT ![v] = @ + 1]

\* Any other verifier adopts the epoch that follows those it has adopted.
CatchUp(v) ==
    /\ seen[v] < Len(chain)
    /\ seen' = [seen EXCEPT ![v] = @ + 1]
    /\ UNCHANGED chain

Next == \E v \in Verifiers : Extend(v) \/ CatchUp(v)

Spec == Init /\ [][Next]_<<chain, seen>>
===============================================================================

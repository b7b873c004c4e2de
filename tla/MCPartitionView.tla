--------------------------- MODULE MCPartitionView ----------------------------
(***************************************************************************)
(* PartitionView with three root rounds of two partitions: one of three,   *)
(* two and one shards, and one of a single shard throughout.  One record   *)
(* that a leaf may be given is not valid.                                  *)
(***************************************************************************)
EXTENDS PartitionView

Leaf(s, d, c) == [shard |-> NewID(s), data |-> d, conf |-> c]

Three == <<Leaf(<<0, 0>>, "d1", "c1"), Leaf(<<0, 1>>, "d2", "c1"), Leaf(<<1>>, "d1", "c2")>>
Two == <<Leaf(<<0>>, "d1", "c1"), Leaf(<<1>>, "d1", "c1")>>
One(d) == <<Leaf(<< >>, d, "c1")>>

MCChain == <<1 :> Three @@ 2 :> One("d1"),
             1 :> Two @@ 2 :> One("d1"),
             1 :> One("d1") @@ 2 :> One("d2")>>

\* Pins of three shards: complete, in another order, and with one left out.
ConfsOf(leaves) == [key \in {Key(leaves[i].shard) : i \in DOMAIN leaves} |->
                      LET i == CHOOSE i \in DOMAIN leaves : Key(leaves[i].shard) = key
                      IN  leaves[i].conf]
SchemeOf(leaves) == [i \in DOMAIN leaves |-> leaves[i].shard]

MCNoPins == [scheme |-> <<EmptyID>>, confs |-> << >>]
MCPins == {MCNoPins,
           [scheme |-> SchemeOf(Three), confs |-> ConfsOf(Three)],
           [scheme |-> <<Three[3].shard, Three[1].shard, Three[2].shard>>,
            confs |-> ConfsOf(Three)],
           [scheme |-> SchemeOf(Three), confs |-> ConfsOf(SubSeq(Three, 1, 2))],
           [scheme |-> << >>, confs |-> ConfsOf(One("d1"))]}
===============================================================================

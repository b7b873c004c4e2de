------------------------------- MODULE MCBlock --------------------------------
(***************************************************************************)
(* Block with three shards: of two partitions with one shard each, and one *)
(* of a partition with more.  The lists of transactions are of all shapes  *)
(* of the Merkle tree up to five leaves, also with repetitions.            *)
(***************************************************************************)
EXTENDS Block, TLC

Record(id, p, status) == [order |-> [id |-> id, partition |-> p], status |-> status]

A == Record(1, 1, "successful")
B == Record(2, 1, "failed")
C == Record(3, 2, "successful")

MCShards == {[partition |-> 1, shard |-> "all"], [partition |-> 2, shard |-> "all"],
             [partition |-> 3, shard |-> "0"]}
MCTxLists == {<< >>, <<C>>, <<A, B>>, <<A, B, C>>, <<A, B, C, C>>, <<A, B, A, C, B>>}

Symmetric == Permutations(States) \cup Permutations(Proposers)
===============================================================================

-------------------------------- MODULE MCTrees -------------------------------
(***************************************************************************)
(* Both trees of a root round.  Each is built by a call of its own, so     *)
(* that in a behaviour one is built and the other has been: the shard tree *)
(* of a call without inputs, which is rejected, or the unicity tree of an  *)
(* empty list.                                                             *)
(*                                                                         *)
(* ShardTree for the sets of at most five identifiers of at most three     *)
(* bits, and that of all of three bits, in bytes of two: one and two bytes *)
(* and full and partly used ones occur.  A set is listed in order or       *)
(* backwards.                                                              *)
(*                                                                         *)
(* UnicityTree for every list of at most four entries of four partitions,  *)
(* in any order and with partitions listed twice, and for sorted lists of  *)
(* five to seven.                                                          *)
(***************************************************************************)
EXTENDS ShardTree, UnicityTree

LOCAL INSTANCE FiniteSetsExt

IDs == {NewID(s) : s \in UNION {[1..n -> Bit] : n \in 1..MaxLength}}

Backwards(s) == [i \in DOMAIN s |-> s[Len(s) + 1 - i]]

\* The identifiers in bit string order, from which every set is picked.
IDsInOrder == SortSeq(FoldSet(LAMBDA x, s : Append(s, x), << >>, IDs), CompareShardIDs)

MaxShards == 5
Longest == {id \in IDs : id.length = MaxLength}

Listings ==
    {SelectSeq(IDsInOrder, LAMBDA x : x \in S) :
        S \in {T \in SUBSET IDs : Cardinality(T) <= MaxShards} \cup {Longest}}

MCSchemes ==
    Listings \cup {Backwards(s) : s \in Listings}
      \cup {<<EmptyID>>, <<EmptyID, NewID(<<0>>)>>}
      \cup {Append(s, s[1]) : s \in {t \in Listings : Len(t) \in 1..3}}

\* The record given for a shard, and an input for the root.
Inputs1(sh, record) == [i \in DOMAIN sh |-> [shard |-> sh[i], record |-> record[i]]]
RootInput == <<[shard |-> EmptyID, record |-> CHOOSE r \in Records : TRUE]>>

\* Any records for a scheme that is valid; with an input too many, for a
\* shard or for an inner node, and with one missing.
MCStatesFor(sh) ==
    IF sh = << >> THEN {<<[shard |-> EmptyID, record |-> r]>> : r \in Records} \cup {<< >>}
    ELSE IF ~IsValidScheme(sh) THEN {Inputs1(sh, [i \in DOMAIN sh |-> CHOOSE r \in Records : TRUE])}
    ELSE LET all == {Inputs1(sh, record) : record \in [DOMAIN sh -> Records]}
             one == Inputs1(sh, [i \in DOMAIN sh |-> CHOOSE r \in Records : TRUE])
         IN  all \cup {one \o RootInput, Tail(one), Tail(one) \o RootInput, Append(one, one[1])}

-------------------------------------------------------------------------------
MCLists ==
    UNION {[1..n -> [partition : 1..4, root : Roots]] : n \in 0..4}
      \cup UNION {{[i \in 1..n |-> [partition |-> 2 * i, root |-> root[i]]] :
                     root \in [1..n -> Roots]} : n \in 5..7}

TreesInit ==
    \/ ShardTreeInit /\ data = << >> /\ leaves = << >> /\ outcome = "built"
    \/ /\ UnicityInit
       /\ scheme = << >> /\ states = << >> /\ tree = << >> /\ stack = << >>
       /\ phase = "rejected"

TreesNext ==
    \/ ShardTreeNext /\ UNCHANGED unicityVars
    \/ UnicityNext /\ UNCHANGED shardTreeVars

\* The fairness of ShardTree.
TreesSpec == TreesInit /\ [][TreesNext]_<<shardTreeVars, unicityVars>> /\ WF_shardTreeVars(Generate)
===============================================================================

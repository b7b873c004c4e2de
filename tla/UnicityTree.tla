----------------------------- MODULE UnicityTree ------------------------------
(***************************************************************************)
(* The making of the unicity tree of a root round                          *)
(* (types/unicity_tree.go), and what its certificates prove.               *)
(***************************************************************************)
EXTENDS IndexedTree, FiniteSets, TLC

CONSTANTS Lists,    \* the lists of [partition, root] trees are made of
          Roots     \* shard tree roots

VARIABLES data,     \* the caller's list; it is sorted in place
          leaves,   \* the leaves of the tree; << >> is the empty tree
          outcome   \* "called", "built" or "rejected"

unicityVars == <<data, leaves, outcome>>

-------------------------------------------------------------------------------
\* What a tree is made of: UnicityTreeData.
Entries == [partition : Nat, root : Roots]

\* The order data is sorted in.
Sorted(pairs) == \A i \in 2..Len(pairs) : pairs[i - 1].partition <= pairs[i].partition

\* The permutations of the indices (they are functions to the indices: the
\* intersection says so to the provers, which do not know Permutations).
Rearrangements(pairs) ==
    Permutations(DOMAIN pairs) \cap [DOMAIN pairs -> DOMAIN pairs]

UnicityInit ==
    /\ data \in Lists /\ data \in Seq(Entries)
    /\ leaves = << >>
    /\ outcome = "called"

\* NewUnicityTree sorts the caller's list, with entries of one partition in any
\* order (slices.SortFunc is not stable), and rejects it when there are such.
NewUnicityTree ==
    /\ outcome = "called"
    /\ \E p \in Rearrangements(data) : data' = [i \in DOMAIN data |-> data[p[i]]]
    /\ Sorted(data')
    /\ IF InOrder(data')
       THEN leaves' = data' /\ outcome' = "built"
       ELSE leaves' = leaves /\ outcome' = "rejected"

UnicityNext == NewUnicityTree

UnicitySpec == UnicityInit /\ [][UnicityNext]_unicityVars

-------------------------------------------------------------------------------
(***************************************************************************)
(* Every shard tree root the tree was made of is proven by the certificate *)
(* of its partition (NewUnicityTree, Certificate, EvalAuthPath).           *)
(***************************************************************************)
EveryRootProven ==
    outcome = "built" => \A i \in DOMAIN data :
        /\ \E j \in DOMAIN leaves : leaves[j].partition = data[i].partition
        /\ EvalAuthPath(UnicityTreeCertificate(leaves, data[i].partition), data[i].root)
             = UnicityRootHash(leaves)

\* The certificates a cheat may put together from those of the tree: claimed
\* for any partition, cut short, and with the key of a step replaced.
Claimed ==
    LET keys == {data[i].partition : i \in DOMAIN data} \cup {0}
        of(steps) == {steps} \cup {SubSeq(steps, 1, n) : n \in 0..Len(steps)}
                     \cup {SubSeq(steps, n, Len(steps)) : n \in 1..Len(steps)}
        rekeyed(steps) == {[steps EXCEPT ![i].key = k] : i \in DOMAIN steps, k \in keys}
        honest == {GetMerklePath(leaves, leaves[i].partition) : i \in DOMAIN leaves}
    IN  [partition : keys,
         steps : UNION {of(s) : s \in honest \cup UNION {rekeyed(s) : s \in honest}}]

(***************************************************************************)
(* Nothing else is: a certificate, however put together, that leads from a *)
(* root to the root hash is of a partition of the tree and its root        *)
(* (IndexTreeOutput, which takes the keys of the steps from the            *)
(* certificate).                                                           *)
(***************************************************************************)
OnlyMembersProven ==
    outcome = "built" => \A cert \in Claimed, r \in Roots :
        EvalAuthPath(cert, r) = UnicityRootHash(leaves) => [partition |-> cert.partition, root |-> r] \in
                                              {data[i] : i \in DOMAIN data}
===============================================================================

------------------------------ MODULE TreeProofs ------------------------------
(***************************************************************************)
(* How the trees are made, and what their roots and certificates show.     *)
(*                                                                         *)
(* The unicity tree: the certificate of every partition proves its root,   *)
(* and nothing else is proven.                                             *)
(*                                                                         *)
(* The shard tree: generate computes exactly the nodes above the shards,   *)
(* for exactly the schemes that tile the strings of bits, and the          *)
(* certificates lead from a shard's record to the root, and from nothing   *)
(* else.  What is true of such trees and of their identifiers is in        *)
(* TreeLemmas and IdentifierLemmas.                                        *)
(*                                                                         *)
(* Partition views: what is authenticated is what one certified round has  *)
(* committed to, under any pins and whatever the caller does to its        *)
(* objects, and what is derived from it is what the root chain issues.     *)
(***************************************************************************)
EXTENDS TreeLemmas, ShardTree, UnicityTree, PartitionView

-------------------------------------------------------------------------------
(* The unicity tree. *)

\* The leaves of a tree are the sorted list.
UnicityInv ==
    /\ data \in Seq(Entries)
    /\ outcome = "built" => leaves = data /\ InOrder(data)

\* The invariant holds in every behaviour.
LEMMA UnicityInvariant == UnicitySpec => []UnicityInv
  <1>1. UnicityInit => UnicityInv
    BY DEF UnicityInit, UnicityInv
  <1>2. UnicityInv /\ NewUnicityTree => UnicityInv'
    <2> SUFFICES ASSUME UnicityInv, NewUnicityTree PROVE UnicityInv'
      OBVIOUS
    <2>1. PICK p \in Rearrangements(data) : data' = [i \in DOMAIN data |-> data[p[i]]]
      BY DEF NewUnicityTree
    <2>2. p \in [DOMAIN data -> DOMAIN data]
      BY DEF Rearrangements
    <2>3. data \in Seq(Entries) /\ Len(data) \in Nat /\ DOMAIN data = 1..Len(data)
      BY DEF UnicityInv
    <2>4. data' \in [1..Len(data) -> Entries]
      <3>1. \A i \in DOMAIN data : data[i] \in Entries
        BY <2>3
      <3> HIDE DEF Entries
      <3> QED BY <2>1, <2>2, <2>3, <3>1
    <2>5. data' \in Seq(Entries)
      BY <2>3, <2>4
    <2> QED BY <2>5 DEF UnicityInv, NewUnicityTree
  <1>3. UnicityInv /\ UNCHANGED unicityVars => UnicityInv'
    BY DEF UnicityInv, unicityVars
  <1> QED BY <1>1, <1>2, <1>3, PTL DEF UnicitySpec, UnicityNext

\* The leaves of a tree that was built.
LEMMA LeavesOfTree ==
    ASSUME UnicityInv, outcome = "built"
    PROVE  /\ leaves = data /\ InOrder(leaves) /\ Typed(leaves)
           /\ Len(leaves) \in Nat /\ DOMAIN leaves = 1..Len(leaves)
           /\ leaves = << >> <=> Len(leaves) = 0
           /\ \A i \in DOMAIN leaves : leaves[i] \in Entries
  <1>1. leaves = data /\ InOrder(leaves) /\ leaves \in Seq(Entries)
    BY DEF UnicityInv
  <1>2. Len(leaves) \in Nat /\ DOMAIN leaves = 1..Len(leaves)
    BY <1>1
  <1>3. \A i \in DOMAIN leaves : leaves[i] \in Entries
    BY <1>1
  <1>4. leaves = << >> <=> Len(leaves) = 0
    BY <1>1, EmptySeq
  <1> QED BY <1>1, <1>2, <1>3, <1>4 DEF Typed, Entries

(***************************************************************************)
(* Every shard tree root the tree was made of is proven by the certificate *)
(* of its partition (NewUnicityTree, Certificate, EvalAuthPath).           *)
(***************************************************************************)
THEOREM EveryRootProvenHolds == UnicitySpec => []EveryRootProven
  <1>1. UnicityInv => EveryRootProven
    <2> SUFFICES ASSUME UnicityInv, outcome = "built", NEW i \in DOMAIN data
                 PROVE  /\ \E j \in DOMAIN leaves : leaves[j].partition = data[i].partition
                        /\ EvalAuthPath(UnicityTreeCertificate(leaves, data[i].partition), data[i].root)
                             = UnicityRootHash(leaves)
      BY DEF EveryRootProven
    <2> DEFINE N == Len(leaves)
               key == data[i].partition
    <2>1. /\ leaves = data /\ InOrder(leaves) /\ Typed(leaves)
          /\ N \in Nat /\ DOMAIN leaves = 1..N /\ leaves # << >> /\ i \in 1..N
      BY LeavesOfTree
    <2>2. \E j \in DOMAIN leaves : leaves[j].partition = key
      BY <2>1
    <2>3. EvalAuthPath(UnicityTreeCertificate(leaves, key), data[i].root)
            = IndexTreeOutput(GetMerklePath(leaves, key), key, leaves[i].root)
      BY <2>1 DEF EvalAuthPath, UnicityTreeCertificate
    <2>4. UnicityRootHash(leaves) = HashOf(leaves)[<<1, N>>]
      BY <2>1 DEF UnicityRootHash
    <2>5. key = leaves[i].partition
      BY <2>1
    <2> HIDE DEF N, key
    <2>6. IndexTreeOutput(GetMerklePath(leaves, key), key, leaves[i].root) = HashOf(leaves)[<<1, N>>]
      BY <2>1, <2>5, PathLeadsToRoot DEF N
    <2> QED BY <2>2, <2>3, <2>4, <2>6 DEF key
  <1> QED BY <1>1, UnicityInvariant, PTL

\* The steps a cheat puts together have a number.
LEMMA ClaimsHaveLengths ==
    ASSUME UnicityInv, outcome = "built", NEW cert \in Claimed
    PROVE  Len(cert.steps) \in Nat /\ leaves # << >>
  <1> DEFINE keys == {data[i].partition : i \in DOMAIN data} \cup {0}
             of(s) == {s} \cup {SubSeq(s, 1, n) : n \in 0..Len(s)}
                      \cup {SubSeq(s, n, Len(s)) : n \in 1..Len(s)}
             rekeyed(s) == {[s EXCEPT ![i].key = k] : i \in DOMAIN s, k \in keys}
             honest == {GetMerklePath(leaves, leaves[i].partition) : i \in DOMAIN leaves}
             H == honest \cup UNION {rekeyed(t) : t \in honest}
  <1>0. cert.steps \in UNION {of(s) : s \in H}
    <2> DEFINE C == UNION {of(s) : s \in H}
    <2>1. Claimed = [partition : keys, steps : C]
      BY DEF Claimed
    <2> HIDE DEF C, keys
    <2>2. cert.steps \in C
      BY <2>1
    <2> HIDE DEF of, H
    <2> QED BY <2>2 DEF C
  <1>1. PICK s \in H : cert.steps \in of(s)
    <2> HIDE DEF of, H
    <2> QED BY <1>0
  <1>2. PICK t \in honest : s = t \/ s \in rekeyed(t)
    <2> HIDE DEF rekeyed, honest
    <2> QED BY <1>1
  <1>3. PICK j \in DOMAIN leaves : t = GetMerklePath(leaves, leaves[j].partition)
    BY <1>2
  <1> HIDE DEF H
  <1>4. IsSequence(t) /\ leaves # << >>
    <2>1. /\ InOrder(leaves) /\ Typed(leaves)
          /\ Len(leaves) \in Nat /\ DOMAIN leaves = 1..Len(leaves)
          /\ leaves = << >> <=> Len(leaves) = 0
      BY LeavesOfTree
    <2> HIDE DEF honest
    <2>2. j \in 1..Len(leaves)
      BY <2>1
    <2>3. IsSequence(GetMerklePath(leaves, leaves[j].partition))
      BY <2>1, <2>2, PathLeadsToRoot
    <2> QED BY <1>3, <2>1, <2>2, <2>3
  <1>5. IsSequence(s)
    <2>1. PICK S : t \in Seq(S)
      BY <1>4 DEF IsSequence
    <2>2. ASSUME NEW i \in DOMAIN t, NEW k, s = [t EXCEPT ![i].key = k]
          PROVE  IsSequence(s)
      <3> DEFINE e == [t[i] EXCEPT !.key = k]
      <3>1. s = [t EXCEPT ![i] = e]
        BY <2>2
      <3> HIDE DEF e
      <3>2. t \in Seq(S \cup {e})
        BY <2>1
      <3>3. s \in Seq(S \cup {e})
        BY <3>1, <3>2
      <3> QED BY <3>3 DEF IsSequence
    <2> QED BY <1>2, <1>4, <2>2
  <1>6. PICK R : s \in Seq(R)
    BY <1>5 DEF IsSequence
  <1>7. \A c \in of(s) : Len(c) \in Nat
    <2>1. Len(s) \in Nat
      BY <1>6
    <2>2. ASSUME NEW m \in 1..(Len(s) + 1), NEW n \in 0..Len(s) PROVE Len(SubSeq(s, m, n)) \in Nat
      <3>1. m \in Int /\ n \in Int
        BY <2>1
      <3> QED BY <3>1, <1>6, <2>1
    <2>3. 1 \in 1..(Len(s) + 1) /\ Len(s) \in 0..Len(s)
          /\ \A n \in 1..Len(s) : n \in 1..(Len(s) + 1)
      BY <2>1
    <2> QED BY <2>1, <2>2, <2>3
  <1> QED BY <1>1, <1>4, <1>7

(***************************************************************************)
(* Nothing else is: a certificate, however put together, that leads from a *)
(* root to the root hash is of a partition of the tree and its root        *)
(* (IndexTreeOutput).                                                      *)
(***************************************************************************)
THEOREM OnlyMembersProvenHolds == UnicitySpec => []OnlyMembersProven
  <1>1. UnicityInv => OnlyMembersProven
    <2> SUFFICES ASSUME UnicityInv, outcome = "built", NEW cert \in Claimed, NEW r \in Roots,
                        EvalAuthPath(cert, r) = UnicityRootHash(leaves)
                 PROVE  [partition |-> cert.partition, root |-> r] \in {data[i] : i \in DOMAIN data}
      BY DEF OnlyMembersProven
    <2> DEFINE N == Len(leaves)
    <2>1. /\ leaves = data /\ N \in Nat /\ DOMAIN leaves = 1..N
          /\ leaves = << >> <=> N = 0
          /\ \A i \in DOMAIN leaves : leaves[i] \in Entries
      BY LeavesOfTree
    <2>2. Len(cert.steps) \in Nat /\ leaves # << >>
      BY ClaimsHaveLengths
    <2>3. IndexTreeOutput(cert.steps, cert.partition, r) = HashOf(leaves)[<<1, N>>]
      BY <2>2 DEF EvalAuthPath, UnicityRootHash
    <2> HIDE DEF N
    <2>4. N \in 1..N
      BY <2>1, <2>2
    <2>5. PICK j \in 1..N : leaves[j].partition = cert.partition /\ leaves[j].root = r
      BY <2>1, <2>2, <2>3, <2>4, OutputIsOfLeaf
    <2>6. leaves[j] = [partition |-> cert.partition, root |-> r]
      <3>1. leaves[j] \in [partition : Nat, root : Roots]
        BY <2>1, <2>5 DEF Entries
      <3> QED BY <2>5, <3>1
    <2> QED BY <2>1, <2>5, <2>6
  <1> QED BY <1>1, UnicityInvariant, PTL

-------------------------------------------------------------------------------
(* The shard tree. *)

\* The inputs of a tree that is built: one for each shard.
Given(sh, st) ==
    /\ sh \in Seq(Nodes) /\ Splits(Strings(sh))
    /\ st \in Seq([shard : Nodes, record : Records])
    /\ {st[i].shard : i \in 1..Len(st)} = All(sh)
    /\ \A i, j \in 1..Len(st) : st[i].shard = st[j].shard => i = j

\* What CreateShardTree has checked when it starts to hash.
LEMMA ChecksGive ==
    ASSUME NEW sh \in Schemes, NEW st \in StatesFor(sh), IsValidScheme(sh),
           NEW ins, ins = {st[i].shard : i \in DOMAIN st}, All(sh) \subseteq ins,
           Len(st) = IF sh = << >> THEN 1 ELSE Len(sh)
    PROVE  Given(sh, st) /\ Cardinality(All(sh)) = Len(st) /\ ins = All(sh)
  <1>1. sh \in Seq(Nodes) /\ st \in Seq([shard : Nodes, record : Records])
    BY ShardTreeAssumption
  <1>2. Splits(Strings(sh)) /\ NoPrefixes(sh)
    BY <1>1, ValidSplits
  <1>3. Len(st) \in Nat /\ DOMAIN st = 1..Len(st)
    BY <1>1, SequenceIs
  <1>4. /\ ins = All(sh)
        /\ \A i, j \in 1..Len(st) : st[i].shard = st[j].shard => i = j
        /\ Cardinality(All(sh)) = Len(st)
    BY <1>1, <1>2, <1>3, OneInputEach
  <1> QED BY <1>1, <1>2, <1>3, <1>4 DEF Given

\* The strings of shards and nodes.
LEMMA StringsAre ==
    ASSUME NEW sh, NEW st, Given(sh, st)
    PROVE  /\ Strings(sh) \subseteq Above(Strings(sh)) /\ Above(Strings(sh)) \subseteq BitStrings
           /\ Strings(sh) = {Used(st[i].shard) : i \in 1..Len(st)}
           /\ \A s \in Above(Strings(sh)) : s \in Seq(Bit) /\ Len(s) \in Nat /\ Len(s) <= MaxLength
           /\ \A i \in 1..Len(st) : st[i].shard \in Nodes /\ st[i].shard \in All(sh)
           /\ \A s \in Above(Strings(sh)) \ Strings(sh), b \in Bit : Append(s, b) \in Above(Strings(sh))
           /\ << >> \in Above(Strings(sh))
  <1>1. \A i \in 1..Len(st) : st[i].shard \in Nodes /\ st[i].shard \in All(sh)
    <2>1. \A i \in 1..Len(st) : st[i] \in [shard : Nodes, record : Records]
      BY SequenceIs DEF Given
    <2> QED BY <2>1 DEF Given
  <1>2. Strings(sh) = {Used(st[i].shard) : i \in 1..Len(st)}
    BY DEF Given, Strings
  <1> DEFINE S == Strings(sh)
  <1>3. Splits(S)
    BY DEF Given
  <1> HIDE DEF S
  <1>4. /\ S \subseteq Above(S) /\ Above(S) \subseteq BitStrings
        /\ \A s \in Above(S) : s \in Seq(Bit) /\ Len(s) \in Nat /\ Len(s) <= MaxLength
        /\ \A s \in Above(S) \ S, b \in Bit : Append(s, b) \in Above(S)
        /\ << >> \in Above(S)
    BY <1>3, AboveIs
  <1> QED BY <1>1, <1>2, <1>4 DEF S

\* Every leaf is that of an input; a node has both halves, and their hashes.
TreeRight(T, sh, st) ==
    /\ T = [k \in DOMAIN T |-> T[k]]
    /\ \A k \in DOMAIN T : \E s \in Above(Strings(sh)) : k = NodeKey(s)
    /\ \A i \in 1..Len(st) : LET key == Key(st[i].shard) IN
         key \in DOMAIN T /\ T[key] = HashLeaf(st[i].record)
    /\ \A s \in Above(Strings(sh)) \ Strings(sh) : NodeKey(s) \in DOMAIN T =>
         /\ Half(s, 0) \in DOMAIN T /\ Half(s, 1) \in DOMAIN T
         /\ T[NodeKey(s)] = HashNode(T[Half(s, 0)], T[Half(s, 1)])

\* The hashes a call for w has by now.
Partial(T, w, c) ==
    \/ c = << >>
    \/ Half(w, 0) \in DOMAIN T /\ c = <<T[Half(w, 0)]>>
    \/ /\ Half(w, 0) \in DOMAIN T /\ Half(w, 1) \in DOMAIN T
       /\ c = <<T[Half(w, 0)], T[Half(w, 1)]>>

\* Each call is for the half of its caller's node that is next.
StackRight(stk, T, sh) ==
    /\ IsSequence(stk)
    /\ \A k \in 1..Len(stk) :
         LET w == Used(stk[k].id)
             c == stk[k].children
         IN  /\ w \in Above(Strings(sh)) /\ Len(w) = k - 1
             /\ stk[k] = [id |-> NewID(w), children |-> c]
             /\ Partial(T, w, c)
             /\ k < Len(stk) => /\ NodeKey(w) \notin DOMAIN T /\ Len(c) < 2
                                /\ Used(stk[k + 1].id) = Append(w, Len(c))

\* The hashes a call has are those of the first halves, and the next fits.
LEMMA PartialIs ==
    ASSUME NEW T, NEW w, NEW c, Partial(T, w, c)
    PROVE  /\ Len(c) \in 0..2
           /\ Len(c) = 2 => /\ Half(w, 0) \in DOMAIN T /\ Half(w, 1) \in DOMAIN T
                            /\ c[1] = T[Half(w, 0)] /\ c[2] = T[Half(w, 1)]
           /\ Len(c) < 2 /\ Half(w, Len(c)) \in DOMAIN T
                => Partial(T, w, Append(c, T[Half(w, Len(c))]))
  <1>1. CASE c = << >>
    <2>1. Len(c) = 0 /\ \A x : Append(c, x) = <<x>>
      BY <1>1
    <2> QED BY <2>1 DEF Partial
  <1>2. CASE Half(w, 0) \in DOMAIN T /\ c = <<T[Half(w, 0)]>>
    <2>1. Len(c) = 1 /\ c[1] = T[Half(w, 0)] /\ c \in Seq({T[Half(w, 0)]})
      BY <1>2
    <2>2. IsSequence(c)
      BY <2>1 DEF IsSequence
    <2>3. \A x : Append(c, x) = <<T[Half(w, 0)], x>>
      BY <2>1, <2>2, PairOf
    <2> QED BY <1>2, <2>1, <2>3 DEF Partial
  <1>3. CASE /\ Half(w, 0) \in DOMAIN T /\ Half(w, 1) \in DOMAIN T
             /\ c = <<T[Half(w, 0)], T[Half(w, 1)]>>
    <2>1. Len(c) = 2 /\ c[1] = T[Half(w, 0)] /\ c[2] = T[Half(w, 1)]
      BY <1>3
    <2> QED BY <1>3, <2>1
  <1> QED BY <1>1, <1>2, <1>3 DEF Partial

\* A tree of nothing but leaves.
LEMMA LeavesRight ==
    ASSUME NEW sh, NEW st, Given(sh, st), NEW T, DOMAIN T = {Key(id) : id \in All(sh)},
           T = [k \in DOMAIN T |-> T[k]],
           \A i \in 1..Len(st) : T[Key(st[i].shard)] = HashLeaf(st[i].record)
    PROVE  TreeRight(T, sh, st)
  <1>1. ASSUME NEW k \in DOMAIN T PROVE \E s \in Strings(sh) : k = NodeKey(s)
    <2>1. PICK id \in All(sh) : k = Key(id)
      OBVIOUS
    <2>2. PICK i \in 1..Len(st) : id = st[i].shard
      BY DEF Given
    <2>3. id \in Nodes
      BY <2>2, StringsAre
    <2> QED BY <2>1, <2>3, NodesAre DEF Strings, NodeKey
  <1>2. \A k \in DOMAIN T : \E s \in Above(Strings(sh)) : k = NodeKey(s)
    BY <1>1, StringsAre
  <1>3. \A i \in 1..Len(st) : Key(st[i].shard) \in DOMAIN T
    BY StringsAre
  <1>4. ASSUME NEW s \in Above(Strings(sh)) \ Strings(sh), NodeKey(s) \in DOMAIN T PROVE FALSE
    <2>1. PICK t \in Strings(sh) : NodeKey(s) = NodeKey(t)
      BY <1>1, <1>4
    <2>2. s = t
      BY <2>1, StringsAre, KeyDetermines DEF NodeKey
    <2> QED BY <2>1, <2>2
  <1> QED BY <1>2, <1>3, <1>4 DEF TreeRight

\* The keys of shards and nodes.
LEMMA KeysOfNodes ==
    ASSUME NEW sh, NEW st, Given(sh, st), NEW T, TreeRight(T, sh, st)
    PROVE  /\ \A s, t \in Above(Strings(sh)) : NodeKey(s) = NodeKey(t) => s = t
           /\ \A s \in Strings(sh) : /\ NodeKey(s) \in DOMAIN T
                /\ \E i \in 1..Len(st) : /\ st[i].shard = NewID(s)
                                         /\ T[NodeKey(s)] = HashLeaf(st[i].record)
  <1>1. \A s, t \in Above(Strings(sh)) : NodeKey(s) = NodeKey(t) => s = t
    BY StringsAre, KeyDetermines DEF NodeKey
  <1>2. ASSUME NEW s \in Strings(sh)
        PROVE  /\ NodeKey(s) \in DOMAIN T
               /\ \E i \in 1..Len(st) : /\ st[i].shard = NewID(s)
                                        /\ T[NodeKey(s)] = HashLeaf(st[i].record)
    <2>1. PICK i \in 1..Len(st) : s = Used(st[i].shard)
      BY StringsAre
    <2>2. st[i].shard \in Nodes /\ st[i].shard = NewID(s)
      BY <2>1, StringsAre, NodesAre
    <2> QED BY <2>2 DEF TreeRight, NodeKey
  <1> QED BY <1>1, <1>2

\* A node whose halves are there is stored.
WithNode(T, w) ==
    [k \in DOMAIN T \cup {NodeKey(w)} |->
        IF k \in DOMAIN T THEN T[k] ELSE HashNode(T[Half(w, 0)], T[Half(w, 1)])]

\* The tree stays right when a node whose halves are there is stored.
LEMMA NodeStored ==
    ASSUME NEW sh, NEW st, Given(sh, st), NEW T, TreeRight(T, sh, st),
           NEW w \in Above(Strings(sh)), NodeKey(w) \notin DOMAIN T,
           Half(w, 0) \in DOMAIN T, Half(w, 1) \in DOMAIN T
    PROVE  TreeRight(WithNode(T, w), sh, st)
  <1> DEFINE T2 == WithNode(T, w)
  <1>1. /\ DOMAIN T2 = DOMAIN T \cup {NodeKey(w)} /\ \A k \in DOMAIN T : T2[k] = T[k]
        /\ T2[NodeKey(w)] = HashNode(T[Half(w, 0)], T[Half(w, 1)])
        /\ T2 = [k \in DOMAIN T2 |-> T2[k]]
    BY DEF WithNode
  <1> HIDE DEF T2
  <1>2. \A k \in DOMAIN T2 : \E s \in Above(Strings(sh)) : k = NodeKey(s)
    BY <1>1 DEF TreeRight
  <1>3. \A i \in 1..Len(st) : /\ Key(st[i].shard) \in DOMAIN T2
                              /\ T2[Key(st[i].shard)] = HashLeaf(st[i].record)
    BY <1>1 DEF TreeRight
  <1>4. ASSUME NEW s \in Above(Strings(sh)) \ Strings(sh), NodeKey(s) \in DOMAIN T2
        PROVE  /\ Half(s, 0) \in DOMAIN T2 /\ Half(s, 1) \in DOMAIN T2
               /\ T2[NodeKey(s)] = HashNode(T2[Half(s, 0)], T2[Half(s, 1)])
    <2>1. CASE s = w
      BY <1>1, <2>1
    <2>2. CASE s # w
      <3>1. NodeKey(s) # NodeKey(w)
        BY <2>2, KeysOfNodes
      <3>2. NodeKey(s) \in DOMAIN T
        BY <1>1, <1>4, <3>1
      <3> QED BY <1>1, <3>2 DEF TreeRight
    <2> QED BY <2>1, <2>2
  <1> QED BY <1>1, <1>2, <1>3, <1>4 DEF TreeRight, T2

\* The call on top.
LEMMA TopIs ==
    ASSUME NEW sh, NEW st, Given(sh, st), NEW T, TreeRight(T, sh, st),
           NEW stk, StackRight(stk, T, sh), stk # << >>
    PROVE  LET n == Len(stk)
               w == Used(stk[n].id)
           IN  /\ n \in Nat \ {0} /\ w \in Above(Strings(sh)) /\ Len(w) = n - 1
               /\ stk[n].id = NewID(w) /\ Partial(T, w, stk[n].children)
               /\ NodeKey(w) \notin DOMAIN T => w \notin Strings(sh)
  <1> DEFINE n == Len(stk)
             w == Used(stk[n].id)
  <1>1. n \in Nat \ {0}
    BY DEF StackRight, IsSequence
  <1>2. n \in 1..n
    BY <1>1
  <1>3. /\ w \in Above(Strings(sh)) /\ Len(w) = n - 1
        /\ stk[n] = [id |-> NewID(w), children |-> stk[n].children]
        /\ Partial(T, w, stk[n].children)
    BY <1>2 DEF StackRight
  <1>4. stk[n].id = NewID(w)
    BY <1>3
  <1>5. NodeKey(w) \notin DOMAIN T => w \notin Strings(sh)
    BY KeysOfNodes
  <1> QED BY <1>1, <1>3, <1>4, <1>5

\* A call that returns hands its hash to its caller.
AfterReturn(stk, T) ==
    [SubSeq(stk, 1, Len(stk) - 1) EXCEPT ![Len(stk) - 1].children =
        Append(@, T[Key(stk[Len(stk)].id)])]

\* The calls that are left are right when the one on top has returned.
LEMMA Returned ==
    ASSUME NEW sh, NEW st, Given(sh, st), NEW T, TreeRight(T, sh, st),
           NEW stk, StackRight(stk, T, sh), Len(stk) \in Nat, Len(stk) > 1,
           Key(stk[Len(stk)].id) \in DOMAIN T
    PROVE  StackRight(AfterReturn(stk, T), T, sh) /\ AfterReturn(stk, T) # << >>
  <1> DEFINE n == Len(stk)
             below == SubSeq(stk, 1, n - 1)
             stk2 == [below EXCEPT ![n - 1].children = Append(@, T[Key(stk[n].id)])]
  <1>0. /\ n \in Nat /\ n = Len(stk) /\ n > 1 /\ Key(stk[n].id) \in DOMAIN T
        /\ below = SubSeq(stk, 1, n - 1)
        /\ stk2 = [below EXCEPT ![n - 1].children = Append(@, T[Key(stk[n].id)])]
        /\ AfterReturn(stk, T) = stk2
    BY DEF AfterReturn
  <1> HIDE DEF stk2, below, n
  <1> USE <1>0
  <1>1. /\ IsSequence(below) /\ Len(below) = n - 1 /\ \A i \in 1..(n - 1) : below[i] = stk[i]
        /\ IsSequence(stk)
    <2>1. n - 1 \in 0..Len(stk) /\ IsSequence(stk)
      BY DEF StackRight
    <2>2. LET u == SubSeq(stk, 1, n - 1)
          IN  IsSequence(u) /\ Len(u) = n - 1 /\ \A i \in 1..(n - 1) : u[i] = stk[i]
      BY ONLY <2>1, Shortened
    <2> QED BY ONLY <1>0, <2>1, <2>2
  <1> DEFINE m == n - 1
             w == Used(stk[m].id)
             c == stk[m].children
             d == Append(c, T[Key(stk[n].id)])
  <1>2. m \in 1..n /\ n \in 1..n /\ m + 1 = n /\ m < n /\ m \in 1..m /\ m \in Nat
    OBVIOUS
  <1>3. /\ w \in Above(Strings(sh)) /\ Len(w) = m - 1
        /\ stk[m] = [id |-> NewID(w), children |-> c]
        /\ Partial(T, w, c) /\ NodeKey(w) \notin DOMAIN T /\ Len(c) < 2
        /\ Used(stk[n].id) = Append(w, Len(c))
        /\ stk[n].id = NewID(Used(stk[n].id))
    <2>1. /\ w \in Above(Strings(sh)) /\ Len(w) = m - 1
          /\ stk[m] = [id |-> NewID(w), children |-> c]
          /\ Partial(T, w, c) /\ NodeKey(w) \notin DOMAIN T /\ Len(c) < 2
          /\ Used(stk[m + 1].id) = Append(w, Len(c))
      BY <1>2 DEF StackRight
    <2>2. stk[n].id = NewID(Used(stk[n].id))
      <3>1. stk[n] = [id |-> NewID(Used(stk[n].id)), children |-> stk[n].children]
        BY <1>2 DEF StackRight
      <3> QED BY <3>1
    <2> QED BY <1>2, <2>1, <2>2
  <1>4. Partial(T, w, d)
    <2>1. Key(stk[n].id) = Half(w, Len(c))
      BY <1>3 DEF Half, NodeKey
    <2> QED BY <1>3, <2>1, PartialIs
  <1>5. /\ IsSequence(stk2) /\ Len(stk2) = m
        /\ \A i \in 1..m : i # m => stk2[i] = stk[i]
        /\ stk2[m] = [id |-> NewID(w), children |-> d]
    <2>1. PICK S : below \in Seq(S)
      BY <1>1 DEF IsSequence
    <2>2. below[m] = [id |-> NewID(w), children |-> c]
      BY <1>1, <1>2, <1>3
    <2>3. [below[m] EXCEPT !.children = Append(@, T[Key(stk[n].id)])]
            = [id |-> NewID(w), children |-> d]
      <3>1. \A a, b, z : [[id |-> a, children |-> b] EXCEPT !.children = Append(@, z)]
                           = [id |-> a, children |-> Append(b, z)]
        <4> SUFFICES ASSUME NEW a, NEW b, NEW z
                     PROVE  [[id |-> a, children |-> b] EXCEPT !.children = Append(@, z)]
                              = [id |-> a, children |-> Append(b, z)]
          OBVIOUS
        <4>1. [id |-> a, children |-> b].children = b
          OBVIOUS
        <4>2. \A y : [[id |-> a, children |-> b] EXCEPT !.children = y]
                       = [id |-> a, children |-> y]
          OBVIOUS
        <4> QED BY <4>1, <4>2
      <3> DEFINE z == T[Key(stk[n].id)]
                 b == below[m]
      <3>2. b = [id |-> NewID(w), children |-> c]
        BY <2>2
      <3> HIDE DEF w, c, z, b
      <3>3. [[id |-> NewID(w), children |-> c] EXCEPT !.children = Append(@, z)]
              = [id |-> NewID(w), children |-> Append(c, z)]
        BY ONLY <3>1
      <3>4. [b EXCEPT !.children = Append(@, z)] = [id |-> NewID(w), children |-> Append(c, z)]
        BY <3>2, <3>3
      <3> QED BY <3>4 DEF b, z
    <2> DEFINE f == [below[m] EXCEPT !.children = Append(@, T[Key(stk[n].id)])]
    <2>4. stk2 = [below EXCEPT ![m] = f]
      OBVIOUS
    <2> HIDE DEF f, m
    <2>5. /\ stk2 \in Seq(S \cup {f}) /\ Len(stk2) = m
          /\ \A i \in 1..m : i # m => stk2[i] = below[i]
          /\ stk2[m] = f
      <3>1. below \in Seq(S \cup {f}) /\ Len(below) = m
        BY <1>1, <2>1 DEF m
      <3> QED BY ONLY <1>2, <2>4, <3>1
    <2>6. IsSequence(stk2)
      BY <2>5 DEF IsSequence
    <2> QED BY <1>1, <2>3, <2>5, <2>6 DEF f, m
  <1>6. \A k \in 1..m : stk2[k].id = stk[k].id
    <2>1. stk2[m].id = stk[m].id
      BY <1>3, <1>5
    <2> QED BY <1>5, <2>1
  <1> HIDE DEF d, m
  <1>7. ASSUME NEW k \in 1..m
        PROVE  LET v == Used(stk2[k].id)
                   e == stk2[k].children
               IN  /\ v \in Above(Strings(sh)) /\ Len(v) = k - 1
                   /\ stk2[k] = [id |-> NewID(v), children |-> e]
                   /\ Partial(T, v, e)
                   /\ k < m => /\ NodeKey(v) \notin DOMAIN T /\ Len(e) < 2
                               /\ Used(stk2[k + 1].id) = Append(v, Len(e))
    <2>1. CASE k = m
      <3>1. stk2[m].id = stk[m].id /\ stk2[m].children = d
        BY <1>2, <1>5
      <3>2. ~(m < m)
        BY <1>2
      <3> QED BY <1>3, <1>4, <1>5, <2>1, <3>1, <3>2
    <2>2. CASE k # m
      <3>1. stk2[k] = stk[k] /\ k \in 1..n /\ k < n /\ k + 1 \in 1..m
        BY <1>2, <1>5, <2>2
      <3>2. stk2[k + 1].id = stk[k + 1].id
        BY <1>6, <3>1
      <3> QED BY <3>1, <3>2 DEF StackRight
    <2> QED BY <2>1, <2>2
  <1>8. StackRight(stk2, T, sh)
    <2>1. Len(stk2) = m
      BY <1>5
    <2> QED BY ONLY <1>5, <1>7, <2>1 DEF StackRight
  <1>9. stk2 # << >>
    <2>1. Len(<< >>) = 0
      OBVIOUS
    <2>2. Len(stk2) # 0
      BY <1>2, <1>5
    <2> QED BY <2>1, <2>2
  <1> QED BY <1>8, <1>9

\* A call for the half that is next.
AfterCall(stk) ==
    LET top == stk[Len(stk)]
    IN  Append(stk, Call(Split(top.id)[Len(top.children) + 1]))

\* The calls are right when the one on top has made another.
LEMMA Recursed ==
    ASSUME NEW sh, NEW st, Given(sh, st), NEW T, TreeRight(T, sh, st),
           NEW stk, StackRight(stk, T, sh), Len(stk) \in Nat, Len(stk) > 0,
           Key(stk[Len(stk)].id) \notin DOMAIN T, Len(stk[Len(stk)].children) < 2
    PROVE  StackRight(AfterCall(stk), T, sh) /\ AfterCall(stk) # << >>
  <1> DEFINE n == Len(stk)
             c == stk[n].children
             stk2 == Append(stk, Call(Split(stk[n].id)[Len(c) + 1]))
  <1>0. /\ n \in Nat /\ n = Len(stk) /\ n > 0 /\ Key(stk[n].id) \notin DOMAIN T
        /\ c = stk[n].children /\ Len(c) < 2
        /\ stk2 = Append(stk, Call(Split(stk[n].id)[Len(c) + 1]))
        /\ AfterCall(stk) = stk2
    BY DEF AfterCall
  <1> HIDE DEF stk2, c, n
  <1> USE <1>0
  <1> DEFINE w == Used(stk[n].id)
             x == Append(w, Len(c))
  <1>1. stk # << >> /\ n \in 1..n
    OBVIOUS
  <1>2. /\ w \in Above(Strings(sh)) /\ Len(w) = n - 1 /\ stk[n].id = NewID(w)
        /\ Partial(T, w, c) /\ (NodeKey(w) \notin DOMAIN T => w \notin Strings(sh))
    BY <1>1, TopIs
  <1>3. NodeKey(w) \notin DOMAIN T /\ w \notin Strings(sh)
    BY <1>2 DEF NodeKey
  <1>4. Len(c) \in {0, 1} /\ Len(c) \in Bit
    <2> DEFINE l == Len(c)
    <2>1. l \in 0..2 /\ l < 2
      BY <1>2, PartialIs
    <2> HIDE DEF l
    <2>2. l \in {0, 1}
      BY <2>1
    <2> QED BY <2>2 DEF Bit, l
  <1>5. w \in Seq(Bit)
    BY <1>2, StringsAre
  <1>6. x \in Above(Strings(sh)) /\ Len(x) = n /\ x \in Seq(Bit)
    <2>1. x \in Above(Strings(sh))
      BY <1>2, <1>3, <1>4, StringsAre
    <2>2. Len(x) = Len(w) + 1 /\ x \in Seq(Bit)
      BY <1>4, <1>5, AppendIs
    <2> QED BY <1>2, <2>1, <2>2
  <1>7. Split(NewID(w))[Len(c) + 1] = NewID(x)
    <2>1. Split(NewID(w)) = <<NewID(Append(w, 0)), NewID(Append(w, 1))>>
      BY <1>5, SplitIs
    <2>2. CASE Len(c) = 0
      BY <2>1, <2>2
    <2>3. CASE Len(c) = 1
      BY <2>1, <2>3
    <2> QED BY <1>4, <2>2, <2>3
  <1> DEFINE f == [id |-> NewID(x), children |-> << >>]
  <1>8. stk2 = Append(stk, f)
    BY <1>2, <1>7 DEF Call
  <1>9. Used(NewID(x)) = x
    BY <1>6, IdentifierIs
  <1> HIDE DEF w, x
  <1>10. /\ IsSequence(stk2) /\ Len(stk2) = n + 1
         /\ \A i \in 1..n : stk2[i] = stk[i]
         /\ stk2[n + 1] = f
    <2>1. IsSequence(stk)
      BY DEF StackRight
    <2> HIDE DEF f
    <2> QED BY <1>8, <2>1, AppendToSequence
  <1>11. Partial(T, x, << >>)
    BY DEF Partial
  <1>12. ASSUME NEW k \in 1..(n + 1)
         PROVE  LET v == Used(stk2[k].id)
                    e == stk2[k].children
                IN  /\ v \in Above(Strings(sh)) /\ Len(v) = k - 1
                    /\ stk2[k] = [id |-> NewID(v), children |-> e]
                    /\ Partial(T, v, e)
                    /\ k < n + 1 => /\ NodeKey(v) \notin DOMAIN T /\ Len(e) < 2
                                    /\ Used(stk2[k + 1].id) = Append(v, Len(e))
    <2>1. CASE k = n + 1
      <3>1. stk2[k].id = NewID(x) /\ stk2[k].children = << >> /\ k - 1 = n
        BY <1>10, <2>1
      <3>2. ~(k < n + 1)
        BY <2>1
      <3>3. Used(stk2[k].id) = x
        BY <1>9, <3>1
      <3>4. stk2[k] = f
        BY <1>10, <2>1
      <3> QED BY <1>6, <1>11, <3>1, <3>2, <3>3, <3>4
    <2>2. CASE k = n
      <3>1. stk2[k] = stk[n] /\ stk2[k + 1] = f /\ stk2[k + 1].id = NewID(x)
        BY <1>1, <1>10, <2>2
      <3>2. stk[n] = [id |-> NewID(w), children |-> c]
        BY <1>1 DEF StackRight, w
      <3> QED BY <1>2, <1>3, <1>9, <2>2, <3>1, <3>2 DEF x, w
    <2>3. CASE k < n
      <3>1. k \in 1..n /\ k + 1 \in 1..n
        BY <2>3
      <3>2. stk2[k] = stk[k] /\ stk2[k + 1] = stk[k + 1]
        BY <1>10, <3>1
      <3> QED BY <2>3, <3>1, <3>2 DEF StackRight
    <2>4. k = n + 1 \/ k = n \/ k < n
      OBVIOUS
    <2> QED BY <2>1, <2>2, <2>3, <2>4
  <1>13. StackRight(stk2, T, sh)
    BY <1>10, <1>12 DEF StackRight
  <1>14. stk2 # << >>
    <2>1. Len(<< >>) = 0
      OBVIOUS
    <2>2. Len(stk2) # 0
      BY <1>10
    <2> QED BY <2>1, <2>2
  <1> QED BY <1>13, <1>14

\* A node that is stored changes nothing for the calls.
LEMMA Stored ==
    ASSUME NEW sh, NEW st, Given(sh, st), NEW T, TreeRight(T, sh, st),
           NEW stk, StackRight(stk, T, sh), NEW n \in Nat, n = Len(stk), n > 0,
           NEW w, w = Used(stk[n].id), NodeKey(w) \notin DOMAIN T
    PROVE  StackRight(stk, WithNode(T, w), sh)
  <1> DEFINE T2 == WithNode(T, w)
  <1>1. DOMAIN T2 = DOMAIN T \cup {NodeKey(w)} /\ \A k \in DOMAIN T : T2[k] = T[k]
    BY DEF WithNode
  <1> HIDE DEF T2
  <1>2. w \in Above(Strings(sh)) /\ Len(w) = n - 1
    <2>1. n \in 1..Len(stk)
      OBVIOUS
    <2> QED BY <2>1 DEF StackRight
  <1>3. ASSUME NEW k \in 1..n
        PROVE  LET v == Used(stk[k].id)
                   c == stk[k].children
               IN  /\ v \in Above(Strings(sh)) /\ Len(v) = k - 1
                   /\ stk[k] = [id |-> NewID(v), children |-> c]
                   /\ Partial(T2, v, c)
                   /\ k < n => /\ NodeKey(v) \notin DOMAIN T2 /\ Len(c) < 2
                               /\ Used(stk[k + 1].id) = Append(v, Len(c))
    <2> DEFINE v == Used(stk[k].id)
               c == stk[k].children
    <2>1. /\ v \in Above(Strings(sh)) /\ Len(v) = k - 1
          /\ stk[k] = [id |-> NewID(v), children |-> c]
          /\ Partial(T, v, c)
          /\ k < n => /\ NodeKey(v) \notin DOMAIN T /\ Len(c) < 2
                      /\ Used(stk[k + 1].id) = Append(v, Len(c))
      BY DEF StackRight
    <2>2. Partial(T2, v, c)
      BY <1>1, <2>1 DEF Partial
    <2>3. ASSUME k < n PROVE NodeKey(v) \notin DOMAIN T2
      <3>1. v # w
        BY <1>2, <2>1, <2>3
      <3>2. NodeKey(v) # NodeKey(w)
        BY <1>2, <2>1, <3>1, KeysOfNodes
      <3> QED BY <1>1, <2>1, <2>3, <3>2
    <2> QED BY <2>1, <2>2, <2>3
  <1> QED BY <1>3 DEF StackRight, T2

-------------------------------------------------------------------------------
(* The construction of a tree. *)

TreeInv ==
    /\ scheme \in Schemes /\ states \in StatesFor(scheme)
    /\ phase \in {"called", "generating", "rejected", "done"}
    /\ phase = "called" => tree = << >> /\ stack = << >>
    /\ phase = "rejected" => stack = << >> /\ ~(IsValidScheme(scheme) /\ InputsMatch)
    /\ phase \in {"generating", "done"} =>
         /\ Given(scheme, states) /\ IsValidScheme(scheme)
         /\ TreeRight(tree, scheme, states)
    /\ phase = "generating" => stack # << >> /\ StackRight(stack, tree, scheme)
    /\ phase = "done" => stack = << >> /\ NodeKey(<< >>) \in DOMAIN tree

\* The leaves: each shard has one input.
LEMMA LeafOfInput ==
    ASSUME Given(scheme, states), NEW i \in 1..Len(states)
    PROVE  Leaf(Key(states[i].shard)) = HashLeaf(states[i].record)
  <1> DEFINE key == Key(states[i].shard)
             of == {j \in DOMAIN states : Key(states[j].shard) = key}
  <1>1. DOMAIN states = 1..Len(states) /\ Len(states) \in Nat
    BY SequenceIs DEF Given
  <1>2. ASSUME NEW j \in of PROVE j = i
    <2>1. states[j].shard \in Nodes /\ states[i].shard \in Nodes
      BY <1>1, StringsAre
    <2>2. states[j].shard = states[i].shard
      BY <2>1, NodesAre, KeyDetermines
    <2> QED BY <1>1, <2>2 DEF Given
  <1>3. of = {i}
    BY <1>1, <1>2
  <1>4. (CHOOSE j \in of : \A k \in of : k <= j) = i
    <2>1. i <= i
      BY <1>1
    <2> QED BY <1>3, <2>1
  <1> QED BY <1>4 DEF Leaf

\* The first call of generate, and a tree of one leaf.
LEMMA Started ==
    ASSUME NEW sh, NEW st, Given(sh, st), NEW T,
           DOMAIN T = {Key(id) : id \in All(sh)}, TreeRight(T, sh, st)
    PROVE  /\ StackRight(<<Call(EmptyID)>>, T, sh)
           /\ sh = << >> => NodeKey(<< >>) \in DOMAIN T
  <1>1. EmptyID = NewID(<< >>) /\ Used(EmptyID) = << >> /\ << >> \in Above(Strings(sh))
    BY NodesAre, StringsAre DEF EmptyID
  <1> DEFINE stk == <<Call(EmptyID)>>
  <1>2. stk \in Seq({Call(EmptyID)}) /\ Len(stk) = 1 /\ stk[1] = Call(EmptyID)
    OBVIOUS
  <1>3. IsSequence(stk)
    BY <1>2 DEF IsSequence
  <1>4. stk[1] = [id |-> EmptyID, children |-> << >>]
    BY <1>2 DEF Call
  <1>5. stk[1].id = EmptyID /\ stk[1].children = << >>
    BY <1>4
  <1> HIDE DEF stk
  <1>6. \A k \in 1..Len(stk) : k = 1 /\ ~(k < Len(stk))
    BY <1>2
  <1>7. Partial(T, << >>, << >>)
    BY DEF Partial
  <1>8. Len(<< >>) = 1 - 1
    OBVIOUS
  <1>9. StackRight(stk, T, sh)
    BY <1>1, <1>3, <1>4, <1>5, <1>6, <1>7, <1>8 DEF StackRight
  <1>10. sh = << >> => EmptyID \in All(sh)
    BY DEF All
  <1> QED BY <1>1, <1>9, <1>10 DEF stk, NodeKey

\* The invariant holds at the start.
LEMMA TreeInitial == ShardTreeInit => TreeInv
  BY DEF ShardTreeInit, TreeInv

\* CreateShardTree keeps the invariant: what it has checked is enough.
LEMMA TreeCreated ==
    ASSUME TreeInv, CreateShardTree
    PROVE  TreeInv'
  <1>1. /\ scheme' = scheme /\ states' = states /\ tree = << >> /\ stack = << >>
        /\ scheme \in Schemes /\ states \in StatesFor(scheme)
    BY DEF TreeInv, CreateShardTree
  <1>2. CASE ~(IsValidScheme(scheme) /\ InputsMatch)
    <2>1. phase' = "rejected" /\ stack' = stack
      BY <1>2 DEF CreateShardTree
    <2>2. InputsMatch' <=> InputsMatch
      BY <1>1 DEF InputsMatch, Inputs
    <2> QED BY <1>1, <1>2, <2>1, <2>2 DEF TreeInv
  <1>3. CASE IsValidScheme(scheme) /\ InputsMatch
    <2>1. Given(scheme, states) /\ Cardinality(All(scheme)) = Len(states) /\ Inputs = All(scheme)
      BY <1>1, <1>3, ChecksGive DEF InputsMatch, Inputs
    <2>2. /\ tree' = [key \in {Key(id) : id \in Inputs} |-> Leaf(key)]
          /\ IF Cardinality(All(scheme)) > 1
             THEN stack' = <<Call(EmptyID)>> /\ phase' = "generating"
             ELSE stack' = stack /\ phase' = "done"
      BY <1>3 DEF CreateShardTree
    <2>3. TreeRight(tree', scheme, states)
      <3> DEFINE T == [key \in {Key(id) : id \in Inputs} |-> Leaf(key)]
      <3>1. DOMAIN T = {Key(id) : id \in All(scheme)} /\ T = [k \in DOMAIN T |-> T[k]]
        BY <2>1
      <3>2. ASSUME NEW i \in 1..Len(states)
            PROVE  T[Key(states[i].shard)] = HashLeaf(states[i].record)
        <4>1. states[i].shard \in Inputs
          BY <2>1, StringsAre
        <4>2. T[Key(states[i].shard)] = Leaf(Key(states[i].shard))
          BY <4>1
        <4> QED BY <2>1, <4>2, LeafOfInput
      <3> HIDE DEF T
      <3>3. TreeRight(T, scheme, states)
        BY <2>1, <3>1, <3>2, LeavesRight
      <3> QED BY <2>2, <3>3 DEF T
    <2>4. DOMAIN tree' = {Key(id) : id \in All(scheme)}
      BY <2>1, <2>2
    <2>5. /\ StackRight(<<Call(EmptyID)>>, tree', scheme)
          /\ scheme = << >> => NodeKey(<< >>) \in DOMAIN tree'
      BY <2>1, <2>3, <2>4, Started
    <2>6. <<Call(EmptyID)>> # << >>
      OBVIOUS
    <2>7. CASE Cardinality(All(scheme)) > 1
      <3>1. stack' = <<Call(EmptyID)>> /\ phase' = "generating"
        BY <2>2, <2>7
      <3>2. stack' # << >> /\ StackRight(stack', tree', scheme)
        BY <2>5, <2>6, <3>1
      <3>3. TreeRight(tree', scheme, states) /\ Given(scheme, states)
        BY <2>1, <2>3
      <3> QED BY <1>1, <1>3, <3>1, <3>2, <3>3 DEF TreeInv
    <2>8. CASE ~(Cardinality(All(scheme)) > 1)
      <3>1. scheme = << >>
        <4> DEFINE n == Len(scheme)
        <4>1. scheme \in Seq(Nodes) /\ Len(states) = (IF scheme = << >> THEN 1 ELSE n) /\ ~(Len(states) > 1)
          BY <1>1, <1>3, <2>1, <2>8, ShardTreeAssumption DEF InputsMatch
        <4>2. n \in Nat /\ (n = 1 => ~IsValidScheme(scheme)) /\ (n = 0 => scheme = << >>)
          BY <4>1, SequenceIs, ValidSchemeIs
        <4> HIDE DEF n
        <4>3. n # 1
          BY <1>3, <4>2
        <4> SUFFICES ASSUME scheme # << >> PROVE FALSE
          OBVIOUS
        <4>4. Len(states) = n /\ n # 0
          BY <4>1, <4>2
        <4>5. n > 1
          BY <4>2, <4>3, <4>4
        <4> QED BY <4>1, <4>4, <4>5
      <3> QED BY <1>1, <1>3, <2>1, <2>2, <2>3, <2>5, <2>8, <3>1 DEF TreeInv
    <2> QED BY <2>7, <2>8
  <1> QED BY <1>2, <1>3

\* What holds while generate is at work.
LEMMA Generating ==
    ASSUME TreeInv, stack # << >>
    PROVE  /\ phase = "generating" /\ scheme \in Schemes /\ states \in StatesFor(scheme)
           /\ Given(scheme, states) /\ IsValidScheme(scheme)
           /\ TreeRight(tree, scheme, states) /\ StackRight(stack, tree, scheme)
           /\ Len(stack) \in Nat \ {0}
           /\ Used(Top.id) \in Above(Strings(scheme)) /\ Len(Used(Top.id)) = Len(stack) - 1
           /\ Top.id = NewID(Used(Top.id)) /\ Key(Top.id) = NodeKey(Used(Top.id))
           /\ Partial(tree, Used(Top.id), Top.children)
  <1>1. /\ phase = "generating" /\ scheme \in Schemes /\ states \in StatesFor(scheme)
        /\ Given(scheme, states) /\ IsValidScheme(scheme)
        /\ TreeRight(tree, scheme, states) /\ StackRight(stack, tree, scheme)
    BY DEF TreeInv
  <1> QED BY <1>1, TopIs DEF Top, NodeKey

\* A return of generate keeps the invariant.
LEMMA TreeReturned ==
    ASSUME TreeInv, Return
    PROVE  TreeInv'
  <1> DEFINE n == Len(stack)
             w == Used(Top.id)
  <1>1. /\ stack # << >> /\ Key(Top.id) \in DOMAIN tree
        /\ scheme' = scheme /\ states' = states /\ tree' = tree
    BY DEF Return
  <1>2. /\ phase = "generating" /\ scheme \in Schemes /\ states \in StatesFor(scheme)
        /\ Given(scheme, states) /\ IsValidScheme(scheme)
        /\ TreeRight(tree, scheme, states) /\ StackRight(stack, tree, scheme)
        /\ n \in Nat \ {0} /\ Len(w) = n - 1 /\ Key(Top.id) = NodeKey(w)
        /\ w \in Above(Strings(scheme))
    BY <1>1, Generating
  <1>3. IsSequence(Below) /\ Len(Below) = n - 1
    <2>1. IsSequence(stack) /\ n - 1 \in 0..Len(stack)
      BY <1>2 DEF StackRight
    <2> QED BY <2>1, Shortened DEF Below
  <1>4. CASE Below = << >>
    <2>1. stack' = << >> /\ phase' = "done"
      BY <1>4 DEF Return
    <2>2. n - 1 = 0
      BY <1>3, <1>4
    <2>3. w = << >>
      <3>1. w \in Seq(Bit)
        BY <1>2, StringsAre
      <3>2. Len(w) = 0
        BY <1>2, <2>2
      <3> HIDE DEF w
      <3> QED BY <3>1, <3>2
    <2> QED BY <1>1, <1>2, <2>1, <2>3 DEF TreeInv
  <1>5. CASE Below # << >>
    <2>1. /\ stack' = [Below EXCEPT ![Len(Below)].children = Append(@, tree[Key(Top.id)])]
          /\ phase' = phase
      BY <1>5 DEF Return
    <2>2. n - 1 # 0
      <3>1. PICK S : Below \in Seq(S)
        BY <1>3 DEF IsSequence
      <3>2. ASSUME Len(Below) = 0 PROVE FALSE
        <4> DEFINE b == Below
        <4>1. b \in Seq(S) /\ Len(b) = 0 /\ b # << >>
          BY <1>5, <3>1, <3>2
        <4> HIDE DEF b
        <4> QED BY <4>1
      <3> QED BY <1>3, <3>2
    <2>3. n > 1
      <3> HIDE DEF n
      <3> QED BY <1>2, <2>2
    <2>4. stack' = AfterReturn(stack, tree)
      BY <1>3, <2>1 DEF AfterReturn, Below, Top
    <2>5. StackRight(stack', tree, scheme) /\ stack' # << >>
      BY <1>1, <1>2, <2>3, <2>4, Returned DEF Top
    <2> QED BY <1>1, <1>2, <2>1, <2>5 DEF TreeInv
  <1> QED BY <1>4, <1>5

\* A call of generate by itself keeps the invariant.
LEMMA TreeRecursed ==
    ASSUME TreeInv, Recurse
    PROVE  TreeInv'
  <1> DEFINE n == Len(stack)
  <1>1. /\ stack # << >> /\ Key(stack[n].id) \notin DOMAIN tree /\ Len(stack[n].children) < 2
        /\ stack' = Append(stack, Call(Split(stack[n].id)[Len(stack[n].children) + 1]))
        /\ scheme' = scheme /\ states' = states /\ tree' = tree /\ phase' = phase
    BY DEF Recurse, Top
  <1>2. /\ phase = "generating" /\ scheme \in Schemes /\ states \in StatesFor(scheme)
        /\ Given(scheme, states) /\ IsValidScheme(scheme)
        /\ TreeRight(tree, scheme, states) /\ StackRight(stack, tree, scheme)
        /\ n \in Nat \ {0}
    BY <1>1, Generating
  <1>3. Len(stack) \in Nat /\ Len(stack) > 0
    BY <1>2
  <1>4. stack' = AfterCall(stack)
    BY <1>1 DEF AfterCall
  <1>5. StackRight(stack', tree, scheme) /\ stack' # << >>
    BY <1>1, <1>2, <1>3, <1>4, Recursed
  <1> QED BY <1>1, <1>2, <1>5 DEF TreeInv

\* A node that generate stores keeps the invariant.
LEMMA TreeStored ==
    ASSUME TreeInv, StoreNode
    PROVE  TreeInv'
  <1> DEFINE n == Len(stack)
             w == Used(Top.id)
             c == Top.children
  <1>1. /\ stack # << >> /\ Key(Top.id) \notin DOMAIN tree /\ Len(c) = 2
        /\ tree' = [k \in DOMAIN tree \cup {Key(Top.id)} |->
                      IF k \in DOMAIN tree THEN tree[k] ELSE HashNode(c[1], c[2])]
        /\ scheme' = scheme /\ states' = states /\ stack' = stack /\ phase' = phase
    BY DEF StoreNode
  <1>2. /\ phase = "generating" /\ scheme \in Schemes /\ states \in StatesFor(scheme)
        /\ Given(scheme, states) /\ IsValidScheme(scheme)
        /\ TreeRight(tree, scheme, states) /\ StackRight(stack, tree, scheme)
        /\ n \in Nat \ {0} /\ Key(Top.id) = NodeKey(w)
        /\ w \in Above(Strings(scheme)) /\ Partial(tree, w, c)
    BY <1>1, Generating
  <1>3. /\ Half(w, 0) \in DOMAIN tree /\ Half(w, 1) \in DOMAIN tree
        /\ c[1] = tree[Half(w, 0)] /\ c[2] = tree[Half(w, 1)]
    <2> HIDE DEF w, c
    <2> QED BY <1>1, <1>2, PartialIs
  <1>4. tree' = WithNode(tree, w)
    BY <1>1, <1>2, <1>3 DEF WithNode
  <1>5. NodeKey(w) \notin DOMAIN tree
    BY <1>1, <1>2
  <1>6. TreeRight(WithNode(tree, w), scheme, states)
    BY <1>2, <1>3, <1>5, NodeStored
  <1>7. StackRight(stack, WithNode(tree, w), scheme)
    <2>1. n \in Nat /\ n > 0 /\ n = Len(stack) /\ w = Used(stack[n].id)
      BY <1>2 DEF Top
    <2> HIDE DEF n, w
    <2> QED BY <1>2, <1>5, <2>1, Stored
  <1> QED BY <1>1, <1>2, <1>4, <1>6, <1>7 DEF TreeInv

\* Every step of a tree keeps the invariant.
LEMMA TreeKept ==
    TreeInv /\ [ShardTreeNext]_shardTreeVars => TreeInv'
  <1> SUFFICES ASSUME TreeInv, [ShardTreeNext]_shardTreeVars PROVE TreeInv'
    OBVIOUS
  <1>1. CASE UNCHANGED shardTreeVars
    <2>1. /\ scheme' = scheme /\ states' = states /\ tree' = tree /\ stack' = stack
          /\ phase' = phase
      BY <1>1 DEF shardTreeVars
    <2>2. InputsMatch' <=> InputsMatch
      BY <2>1 DEF InputsMatch, Inputs
    <2> QED BY <2>1, <2>2 DEF TreeInv
  <1> QED BY <1>1, TreeCreated, TreeReturned, TreeRecursed, TreeStored DEF ShardTreeNext, Generate

(***************************************************************************)
(* While a tree is built every hash in it is that of a leaf or of two halves *)
(* that are in it, and every call of generate is for the half its caller asks *)
(* for next (CreateShardTree, generate).                                   *)
(***************************************************************************)
THEOREM TreeInvariant == ShardTreeSpec => []TreeInv
  BY TreeInitial, TreeKept, PTL DEF ShardTreeSpec

\* The keys of the halves of a node give them back, and the halves match it.
LEMMA HalvesFaithful ==
    ASSUME NEW w \in Seq(Bit), NEW i \in {1, 2}, NEW half, half = Split(NewID(w))[i]
    PROVE  /\ half = NewID(Append(w, i - 1)) /\ DecodeBitstring(Key(half)) = half
           /\ Matches(NewID(w), half.bits)
  <1>1. half = NewID(Append(w, i - 1)) /\ i - 1 \in Bit
    <2>1. Split(NewID(w)) = <<NewID(Append(w, 0)), NewID(Append(w, 1))>>
      BY SplitIs
    <2>2. CASE i = 1
      BY <2>1, <2>2 DEF Bit
    <2>3. CASE i = 2
      BY <2>1, <2>3 DEF Bit
    <2> QED BY <2>2, <2>3
  <1> DEFINE x == Append(w, i - 1)
  <1>2. /\ x \in Seq(Bit) /\ Len(x) = Len(w) + 1 /\ Len(w) \in Nat
        /\ \A j \in 1..Len(w) : x[j] = w[j]
    BY <1>1, AppendIs
  <1> HIDE DEF x
  <1>3. half.bits = [j \in 1..ByteLength(Len(x)) |-> At(x, j)]
    BY <1>1, <1>2, IdentifierIs, PaddedIs DEF x
  <1>4. \A j \in 1..Len(w) : half.bits[j] = w[j] /\ half.bits[j] \in Bit
    <2> SUFFICES ASSUME NEW j \in 1..Len(w)
                 PROVE  half.bits[j] = w[j] /\ half.bits[j] \in Bit
      OBVIOUS
    <2>1. j \in 1..ByteLength(Len(x)) /\ j <= Len(x)
      BY <1>2, WholeBytes
    <2>2. half.bits[j] = x[j]
      BY <1>3, <2>1 DEF At
    <2>3. w[j] \in Bit
      OBVIOUS
    <2> QED BY <1>2, <2>2, <2>3
  <1>5. Matches(NewID(w), half.bits)
    BY <1>4, MatchesIs
  <1> QED BY <1>1, <1>2, <1>5, KeyDecodes DEF x

(***************************************************************************)
(* Whatever the node generate is at, its key gives its identifier back, and so *)
(* do those of its halves, which match it (encodeBitstring, decodeBitstring, *)
(* Split, Comparator), however many bits a byte has.                       *)
(***************************************************************************)
THEOREM KeysFaithfulHolds == ShardTreeSpec => []KeysFaithful
  <1>1. TreeInv => KeysFaithful
    <2> SUFFICES ASSUME TreeInv, stack # << >> PROVE KeysFaithful
      BY DEF KeysFaithful
    <2> DEFINE w == Used(Top.id)
    <2>1. Top.id = NewID(w) /\ w \in Seq(Bit)
      BY Generating, StringsAre
    <2> HIDE DEF w
    <2>2. DecodeBitstring(Key(Top.id)) = Top.id
      BY <2>1, KeyDecodes
    <2>3. ASSUME NEW i \in {1, 2}
          PROVE  LET half == Split(Top.id)[i] IN
                 /\ half = NewID(Append(w, i - 1)) /\ DecodeBitstring(Key(half)) = half
                 /\ Matches(Top.id, half.bits)
      BY <2>1, HalvesFaithful
    <2> QED BY <2>2, <2>3 DEF KeysFaithful, w
  <1> QED BY <1>1, TreeInvariant, PTL

(***************************************************************************)
(* Whatever the scheme and in whatever order it lists the shards, it is    *)
(* accepted exactly when it is empty, or has more than one shard and every *)
(* long enough string of bits is in exactly one (IsValid, sortedValid).    *)
(***************************************************************************)
THEOREM SchemeValidityHolds == ShardTreeSpec => []SchemeValidity
  <1>1. TreeInv => SchemeValidity
    <2> SUFFICES ASSUME TreeInv PROVE SchemeValidity
      OBVIOUS
    <2>1. scheme \in Seq(Nodes) /\ scheme \in Schemes
      BY ShardTreeAssumption DEF TreeInv
    <2> DEFINE n == Len(scheme)
    <2>2. /\ n \in Nat /\ (n = 0 => scheme = << >>)
          /\ (n > 1 => (IsValidScheme(scheme) <=> Tiles(scheme)))
          /\ (n = 1 => ~IsValidScheme(scheme))
          /\ (scheme = << >> => IsValidScheme(scheme))
      BY <2>1, ValidSchemeIs, TilesIs
    <2> HIDE DEF n
    <2>3. n = 0 \/ n = 1 \/ n > 1
      BY <2>2
    <2>4. phase = "rejected" => ~(IsValidScheme(scheme) /\ InputsMatch)
      BY DEF TreeInv
    <2>5. phase \in {"generating", "done"} => IsValidScheme(scheme)
      BY DEF TreeInv
    <2>6. ASSUME phase = "rejected", InputsMatch, n # 1
          PROVE  scheme # << >> /\ ~Tiles(scheme)
      BY <2>2, <2>3, <2>4, <2>6
    <2>7. ASSUME phase \in {"generating", "done"}
          PROVE  scheme = << >> \/ (n > 1 /\ Tiles(scheme))
      BY <2>2, <2>3, <2>5, <2>7
    <2> QED BY <2>6, <2>7 DEF SchemeValidity, n
  <1> QED BY <1>1, TreeInvariant, PTL

\* A tree with a root has every node above its shards.
LEMMA NodesStored ==
    ASSUME NEW sh, NEW st, Given(sh, st), NEW T, TreeRight(T, sh, st),
           NodeKey(<< >>) \in DOMAIN T
    PROVE  \A s \in Above(Strings(sh)) : NodeKey(s) \in DOMAIN T
  <1> DEFINE D == {n \in Nat : \A s \in Above(Strings(sh)) : Len(s) = n => NodeKey(s) \in DOMAIN T}
  <1>1. 0 \in D
    <2> SUFFICES ASSUME NEW s \in Above(Strings(sh)), Len(s) = 0 PROVE s = << >>
      OBVIOUS
    <2>1. s \in Seq(Bit)
      BY StringsAre
    <2> QED BY <2>1
  <1>2. ASSUME NEW n \in D PROVE n + 1 \in D
    <2> SUFFICES ASSUME NEW s \in Above(Strings(sh)), Len(s) = n + 1 PROVE NodeKey(s) \in DOMAIN T
      OBVIOUS
    <2> DEFINE p == SubSeq(s, 1, n)
               b == s[n + 1]
    <2>1. /\ p \in Above(Strings(sh)) \ Strings(sh) /\ b \in Bit
          /\ s = Append(p, b) /\ Len(p) = n
      <3>1. n \in Nat /\ n < Len(s) /\ s \in Seq(Bit)
        BY StringsAre
      <3>2. SubSeq(s, 1, n + 1) = s
        BY <3>1
      <3>3. Splits(Strings(sh))
        BY DEF Given
      <3> QED BY <3>1, <3>2, <3>3, StartOf, StartAbove
    <2> HIDE DEF p, b
    <2>2. NodeKey(p) \in DOMAIN T
      BY <2>1
    <2>3. Half(p, 0) \in DOMAIN T /\ Half(p, 1) \in DOMAIN T
      BY <2>1, <2>2 DEF TreeRight
    <2> QED BY <2>1, <2>3 DEF Half, Bit
  <1> HIDE DEF D
  <1>3. D = Nat
    <2>1. D \in SUBSET Nat
      BY DEF D
    <2> QED BY ONLY <1>1, <1>2, <2>1, Induction
  <1>4. \A s \in Above(Strings(sh)) : Len(s) \in Nat
    BY StringsAre
  <1> QED BY <1>3, <1>4 DEF D

-------------------------------------------------------------------------------
(* The finished tree. *)

\* The records of a shard that has an input.
LEMMA RecordOfShard ==
    ASSUME Given(scheme, states), NEW i \in 1..Len(states)
    PROVE  RecordsOf(states[i].shard) = {states[i].record}
  <1>1. DOMAIN states = 1..Len(states)
    BY SequenceIs DEF Given
  <1>2. {j \in DOMAIN states : states[j].shard = states[i].shard} = {i}
    BY <1>1 DEF Given
  <1> QED BY <1>2 DEF RecordsOf

\* The record of each shard.
RecordOf == [id \in All(scheme) |-> CHOOSE r \in RecordsOf(id) : TRUE]

\* It is its only one.
LEMMA RecordIs ==
    ASSUME Given(scheme, states), NEW id \in All(scheme)
    PROVE  RecordsOf(id) = {RecordOf[id]}
  <1>1. PICK i \in 1..Len(states) : states[i].shard = id
    BY DEF Given
  <1>2. RecordsOf(id) = {states[i].record}
    BY <1>1, RecordOfShard
  <1>3. RecordOf[id] = CHOOSE r \in RecordsOf(id) : TRUE
    BY DEF RecordOf
  <1>4. RecordOf[id] = states[i].record
    BY <1>2, <1>3
  <1> QED BY <1>2, <1>4

\* The finished tree is a tree over the shards and their records.
LEMMA DoneTree ==
    ASSUME TreeInv, phase = "done"
    PROVE  /\ Given(scheme, states) /\ TreeRight(tree, scheme, states)
           /\ IsHashed(tree, Strings(scheme), RecordOf)
  <1>1. /\ Given(scheme, states) /\ TreeRight(tree, scheme, states)
        /\ NodeKey(<< >>) \in DOMAIN tree
    BY DEF TreeInv
  <1>2. \A s \in Above(Strings(scheme)) : NodeKey(s) \in DOMAIN tree
    BY <1>1, NodesStored
  <1>3. \A s \in Above(Strings(scheme)) \ Strings(scheme) :
          tree[NodeKey(s)] = HashNode(tree[Half(s, 0)], tree[Half(s, 1)])
    BY <1>1, <1>2 DEF TreeRight
  <1>4. ASSUME NEW s \in Strings(scheme) PROVE tree[NodeKey(s)] = HashLeaf(RecordOf[NewID(s)])
    <2>1. PICK i \in 1..Len(states) : /\ states[i].shard = NewID(s)
                                      /\ tree[NodeKey(s)] = HashLeaf(states[i].record)
      BY <1>1, KeysOfNodes
    <2>2. states[i].shard \in All(scheme)
      BY <1>1, StringsAre
    <2>3. /\ RecordsOf(NewID(s)) = {states[i].record}
          /\ RecordsOf(NewID(s)) = {RecordOf[NewID(s)]}
      <3>1. RecordsOf(states[i].shard) = {states[i].record}
        BY <1>1, RecordOfShard
      <3>2. RecordsOf(states[i].shard) = {RecordOf[states[i].shard]}
        BY <1>1, <2>2, RecordIs
      <3> QED BY <2>1, <3>1, <3>2
    <2>4. RecordOf[NewID(s)] = states[i].record
      BY <2>3
    <2> QED BY <2>1, <2>4
  <1>5. Splits(Strings(scheme))
    BY <1>1 DEF Given
  <1> QED BY <1>1, <1>2, <1>3, <1>4, <1>5 DEF IsHashed

\* The sibling hashes of a shard lead from its record to the root.
LEMMA CertificateComplete ==
    ASSUME TreeInv, phase = "done", NEW id \in All(scheme)
    PROVE  /\ IsValidCertificate(Certificate(tree, id), id)
           /\ \E r \in RecordsOf(id) :
                ComputeCertificateHash(Certificate(tree, id), r) = RootHash(tree)
  <1> DEFINE s == Used(id)
  <1>1. Given(scheme, states) /\ IsHashed(tree, Strings(scheme), RecordOf)
    BY DoneTree
  <1>2. PICK i \in 1..Len(states) : states[i].shard = id
    BY <1>1 DEF Given
  <1>3. id = NewID(s) /\ s \in Strings(scheme)
    BY <1>1, <1>2, StringsAre, NodesAre
  <1> HIDE DEF s
  <1>4. /\ IsValidCertificate(Certificate(tree, id), id)
        /\ ComputeCertificateHash(Certificate(tree, id), RecordOf[id]) = RootHash(tree)
    BY <1>1, <1>3, CertificateLeads
  <1>5. RecordOf[id] \in RecordsOf(id)
    BY <1>1, RecordIs
  <1> QED BY <1>4, <1>5

\* Whatever leads to the root with as many siblings as bits is a shard's record.
LEMMA CertificateSound ==
    ASSUME TreeInv, phase = "done",
           NEW node \in Nodes, NEW id \in Nodes, NEW r, NEW cert,
           cert = [shard |-> id, siblings |-> SiblingHashes(tree, node)],
           IsValidCertificate(cert, id), ComputeCertificateHash(cert, r) = RootHash(tree)
    PROVE  id \in All(scheme) /\ r \in RecordsOf(id)
  <1> DEFINE t == Used(id)
             sib == SiblingHashes(tree, node)
  <1>1. Given(scheme, states) /\ IsHashed(tree, Strings(scheme), RecordOf)
    BY DoneTree
  <1>2. id = NewID(t) /\ id.length = Len(t) /\ t \in Seq(Bit)
    BY NodesAre, BitStringsAre
  <1>3. Len(sib) = Len(t)
    BY <1>2 DEF IsValidCertificate
  <1> HIDE DEF t, sib
  <1>4. cert = [shard |-> NewID(t), siblings |-> sib]
    BY <1>2 DEF sib
  <1>5. t \in Strings(scheme) /\ r = RecordOf[NewID(t)]
    BY <1>1, <1>2, <1>3, <1>4, CertificateOnly
  <1>6. PICK i \in 1..Len(states) : states[i].shard = NewID(t)
    BY <1>1, <1>5, KeysOfNodes, DoneTree
  <1>7. id \in All(scheme)
    BY <1>1, <1>2, <1>6, StringsAre
  <1>8. RecordsOf(id) = {RecordOf[id]}
    BY <1>1, <1>7, RecordIs
  <1> QED BY <1>2, <1>5, <1>7, <1>8

(***************************************************************************)
(* Whatever the scheme and the records, the certificate of every shard leads *)
(* from its record to the root (CreateShardTree, Certificate,              *)
(* ComputeCertificateHash).                                                *)
(***************************************************************************)
THEOREM CertificatesCompleteHolds == ShardTreeSpec => []CertificatesComplete
  <1>1. TreeInv => CertificatesComplete
    BY CertificateComplete DEF CertificatesComplete
  <1> QED BY <1>1, TreeInvariant, PTL

(***************************************************************************)
(* Whatever the scheme and the records, and with the sibling hashes of any *)
(* node, only a shard's identifier and record lead to the root (siblingHashes, *)
(* ComputeCertificateHash, Verify).                                        *)
(***************************************************************************)
THEOREM CertificatesSoundHolds == ShardTreeSpec => []CertificatesSound
  <1>1. TreeInv => CertificatesSound
    BY CertificateSound DEF CertificatesSound
  <1> QED BY <1>1, TreeInvariant, PTL

-------------------------------------------------------------------------------
\* The finished tree has the hashes that TreeOf computes.
LEMMA TreeIsComplete ==
    ASSUME TreeInv, phase = "done"
    PROVE  tree = TreeOf(RecordOf)
  <1> DEFINE S == Strings(scheme)
             whole == TreeOf(RecordOf)
             keys == {NodeKey(s) : s \in Above(S)}
  <1>1. /\ Given(scheme, states) /\ TreeRight(tree, scheme, states)
        /\ IsHashed(tree, S, RecordOf)
    BY DoneTree
  <1>2. AreNodes(RecordOf, S, Above(S))
    BY DEF Strings, Above, AreNodes, RecordOf
  <1>3. DOMAIN tree = keys /\ tree = [k \in DOMAIN tree |-> tree[k]]
    BY <1>1 DEF TreeRight, IsHashed
  <1>4. tree = [k \in keys |-> tree[k]]
    BY <1>3
  <1> HIDE DEF S
  <1> DEFINE g == [s \in Above(S) |-> tree[NodeKey(s)]]
  <1>5. IsTreeHash(g, S, Above(S), RecordOf)
    <2>1. ASSUME NEW s \in Above(S)
          PROVE  g[s] = IF s \in S THEN HashLeaf(RecordOf[NewID(s)])
                        ELSE HashNode(g[Append(s, 0)], g[Append(s, 1)])
      <3>1. CASE s \in S
        BY <1>1, <3>1 DEF IsHashed
      <3>2. CASE s \notin S
        <4>1. Append(s, 0) \in Above(S) /\ Append(s, 1) \in Above(S)
          BY <1>1, <3>2, AboveIs DEF IsHashed, Bit
        <4> QED BY <1>1, <3>2, <4>1 DEF Half, IsHashed
      <3> QED BY <3>1, <3>2
    <2>2. g = [s \in Above(S) |-> g[s]]
      OBVIOUS
    <2> HIDE DEF g
    <2>3. g = [s \in Above(S) |-> IF s \in S THEN HashLeaf(RecordOf[NewID(s)])
                                  ELSE HashNode(g[Append(s, 0)], g[Append(s, 1)])]
      BY <2>1, <2>2
    <2> QED BY <2>3 DEF IsTreeHash
  <1>6. \A s \in Above(S) : g[s] = tree[NodeKey(s)]
    OBVIOUS
  <1> HIDE DEF g
  <1>7. PICK h : IsTreeHash(h, S, Above(S), RecordOf) /\ whole = ByKey(h, Above(S))
    <2>1. whole = TreeOf(RecordOf)
      OBVIOUS
    <2> HIDE DEF whole
    <2> QED BY <1>2, <1>5, <2>1, TreeOfIs
  <1>8. \A s \in Above(S) : h[s] = tree[NodeKey(s)]
    BY <1>1, <1>5, <1>6, <1>7, TreeHashFixed DEF IsHashed
  <1> DEFINE G(key) == h[CHOOSE s \in Above(S) : NodeKey(s) = key]
  <1>9. ASSUME NEW key \in keys PROVE G(key) = tree[key]
    <2> DEFINE s == CHOOSE x \in Above(S) : NodeKey(x) = key
    <2>1. s \in Above(S) /\ NodeKey(s) = key
      OBVIOUS
    <2> QED BY <1>8, <2>1
  <1>10. whole = [key \in keys |-> G(key)]
    BY <1>7 DEF ByKey
  <1> HIDE DEF G, keys, whole
  <1>11. tree = whole
    BY <1>4, <1>9, <1>10
  <1> QED BY <1>11 DEF whole

(***************************************************************************)
(* Whatever the scheme and the records, the finished tree is the one of the *)
(* recursive definition: a node for every prefix of a shard, hashed of its *)
(* halves (generate).                                                      *)
(***************************************************************************)
THEOREM TreeCompleteHolds == ShardTreeSpec => []TreeComplete
  <1>1. TreeInv => TreeComplete
    BY TreeIsComplete DEF TreeComplete, RecordOf
  <1> QED BY <1>1, TreeInvariant, PTL

-------------------------------------------------------------------------------
(* The partitions of a forest, by number. *)

Lower(D, p) == {q \in D : q < p}

\* Counting the smaller elements numbers the elements of a set of numbers.
LEMMA Ranks ==
    ASSUME NEW D, IsFiniteSet(D), D \subseteq Nat, NEW n, n = Cardinality(D)
    PROVE  /\ n \in Nat
           /\ \A p \in D : Cardinality(Lower(D, p)) \in 0..(n - 1)
           /\ \A p, q \in D : p < q => Cardinality(Lower(D, p)) < Cardinality(Lower(D, q))
           /\ \A k \in 0..(n - 1) : \E p \in D : Cardinality(Lower(D, p)) = k
  <1>1. n \in Nat
    BY FS_CardinalityType
  <1>2. ASSUME NEW p \in D
        PROVE  IsFiniteSet(Lower(D, p)) /\ Cardinality(Lower(D, p)) \in 0..(n - 1)
    <2>1. Lower(D, p) \in SUBSET D /\ Lower(D, p) # D
      BY DEF Lower
    <2>2. /\ IsFiniteSet(Lower(D, p)) /\ Cardinality(Lower(D, p)) <= n
          /\ Cardinality(Lower(D, p)) # n
      BY <2>1, FS_Subset
    <2>3. Cardinality(Lower(D, p)) \in Nat
      BY <2>2, FS_CardinalityType
    <2> QED BY <1>1, <2>2, <2>3
  <1>3. ASSUME NEW p \in D, NEW q \in D, p < q
        PROVE  Cardinality(Lower(D, p)) < Cardinality(Lower(D, q))
    <2>1. Lower(D, p) \in SUBSET Lower(D, q)
      <3> SUFFICES ASSUME NEW r \in D, r < p PROVE r < q
        BY DEF Lower
      <3>1. p \in Nat /\ q \in Nat /\ r \in Nat
        OBVIOUS
      <3> QED BY <1>3, <3>1
    <2>2. p \in Lower(D, q) /\ p \notin Lower(D, p)
      BY <1>3 DEF Lower
    <2>3. /\ Cardinality(Lower(D, p)) <= Cardinality(Lower(D, q))
          /\ Cardinality(Lower(D, p)) # Cardinality(Lower(D, q))
      BY <1>2, <2>1, <2>2, FS_Subset
    <2> QED BY <1>2, <2>3
  <1> DEFINE f == [p \in D |-> Cardinality(Lower(D, p))]
  <1>4. f \in Injection(D, 0..(n - 1))
    <2>1. f \in [D -> 0..(n - 1)]
      BY <1>2
    <2>2. \A p, q \in D : f[p] = f[q] => p = q
      <3> SUFFICES ASSUME NEW p \in D, NEW q \in D, p # q PROVE f[p] # f[q]
        OBVIOUS
      <3>1. p < q \/ q < p
        OBVIOUS
      <3>2. f[p] < f[q] \/ f[q] < f[p]
        BY <1>3, <3>1
      <3>3. f[p] \in Nat /\ f[q] \in Nat
        BY <1>1, <1>2
      <3> QED BY <3>2, <3>3
    <2> HIDE DEF f
    <2> QED BY <2>1, <2>2 DEF Injection, IsInjective
  <1>5. IsFiniteSet(0..(n - 1)) /\ Cardinality(0..(n - 1)) = n
    <2>1. 0 \in Int /\ n - 1 \in Int
      BY <1>1
    <2>2. /\ IsFiniteSet(0..(n - 1))
          /\ Cardinality(0..(n - 1)) = IF 0 > n - 1 THEN 0 ELSE (n - 1) - 0 + 1
      BY <2>1, FS_Interval
    <2> DEFINE c == Cardinality(0..(n - 1))
    <2> HIDE DEF c
    <2>3. c = IF 0 > n - 1 THEN 0 ELSE (n - 1) - 0 + 1
      BY <2>2 DEF c
    <2>4. c = n
      BY <1>1, <2>3
    <2> QED BY <2>2, <2>4 DEF c
  <1>6. f \in Surjection(D, 0..(n - 1))
    <2> HIDE DEF f
    <2> QED BY <1>4, <1>5, FS_Injection
  <1>7. \A k \in 0..(n - 1) : \E p \in D : f[p] = k
    <2> HIDE DEF f
    <2> QED BY <1>6 DEF Surjection
  <1> QED BY <1>1, <1>2, <1>3, <1>7

\* The leaf of the unicity tree for a partition.
RootOf(forest, p) == RootHash(ShardTreeOf(forest[p]))

\* The partitions of a forest, each with its root, in ascending order.
LEMMA PartitionRootsAre ==
    ASSUME NEW forest, IsFiniteSet(DOMAIN forest), DOMAIN forest \subseteq Nat,
           NEW pairs, pairs = PartitionRoots(forest)
    PROVE  /\ Len(pairs) \in Nat /\ DOMAIN pairs = 1..Len(pairs)
           /\ Typed(pairs) /\ InOrder(pairs)
           /\ \A i \in DOMAIN pairs : /\ pairs[i].partition \in DOMAIN forest
                                      /\ pairs[i].root = RootOf(forest, pairs[i].partition)
           /\ \A p \in DOMAIN forest : \E i \in DOMAIN pairs :
                pairs[i].partition = p /\ pairs[i].root = RootOf(forest, p)
  <1> DEFINE D == DOMAIN forest
             n == Cardinality(D)
             at(i) == CHOOSE p \in D : Cardinality(Lower(D, p)) = i - 1
  <1>1. pairs = [i \in 1..n |-> [partition |-> at(i), root |-> RootOf(forest, at(i))]]
    BY DEF PartitionRoots, Lower, RootOf
  <1>2. /\ n \in Nat
        /\ \A p \in D : Cardinality(Lower(D, p)) \in 0..(n - 1)
        /\ \A p, q \in D : p < q => Cardinality(Lower(D, p)) < Cardinality(Lower(D, q))
        /\ \A k \in 0..(n - 1) : \E p \in D : Cardinality(Lower(D, p)) = k
    <2> HIDE DEF D
    <2>1. IsFiniteSet(D) /\ D \subseteq Nat
      BY DEF D
    <2> QED BY <2>1, Ranks
  <1>3. D \subseteq Nat
    OBVIOUS
  <1> HIDE DEF D, n
  <1>4. ASSUME NEW i \in 1..n
        PROVE  at(i) \in D /\ Cardinality(Lower(D, at(i))) = i - 1
    <2>1. i - 1 \in 0..(n - 1)
      BY <1>2
    <2> QED BY <1>2, <2>1
  <1> HIDE DEF at
  <1>5. ASSUME NEW i \in 1..n
        PROVE  pairs[i].partition = at(i) /\ pairs[i].root = RootOf(forest, at(i))
    BY <1>1
  <1>6. Len(pairs) = n /\ DOMAIN pairs = 1..n
    BY <1>1, <1>2
  <1>7. ASSUME NEW i \in 2..Len(pairs) PROVE pairs[i - 1].partition < pairs[i].partition
    <2>1. i \in 1..n /\ i - 1 \in 1..n /\ i \in Nat
      BY <1>2, <1>6
    <2> DEFINE p == at(i - 1)
               q == at(i)
    <2>2. /\ p \in D /\ Cardinality(Lower(D, p)) = (i - 1) - 1
          /\ q \in D /\ Cardinality(Lower(D, q)) = i - 1
      BY <1>4, <2>1
    <2>3. pairs[i - 1].partition = p /\ pairs[i].partition = q
      BY <1>5, <2>1
    <2> HIDE DEF p, q
    <2>4. ~(q < p) /\ p # q
      BY <1>2, <2>1, <2>2
    <2>5. p \in Nat /\ q \in Nat
      BY <1>3, <2>2
    <2> QED BY <2>3, <2>4, <2>5
  <1>8. ASSUME NEW p \in D
        PROVE  \E i \in 1..n : pairs[i].partition = p /\ pairs[i].root = RootOf(forest, p)
    <2> DEFINE k == Cardinality(Lower(D, p))
               i == k + 1
    <2>1. k \in 0..(n - 1)
      BY <1>2
    <2> HIDE DEF k
    <2>2. i \in 1..n /\ i - 1 = k
      BY <1>2, <2>1
    <2> HIDE DEF i
    <2> DEFINE q == at(i)
    <2>3. q \in D /\ Cardinality(Lower(D, q)) = k
      BY <1>4, <2>2
    <2>4. pairs[i].partition = q /\ pairs[i].root = RootOf(forest, q)
      BY <1>5, <2>2
    <2> HIDE DEF q
    <2>5. ~(q < p) /\ ~(p < q)
      <3> DEFINE c == Cardinality(Lower(D, q))
      <3>1. c = k /\ k \in Int /\ (p < q => k < c) /\ (q < p => c < k)
        BY <1>2, <2>1, <2>3 DEF k
      <3> HIDE DEF c
      <3> QED BY <3>1
    <2>6. q = p
      BY <1>3, <2>3, <2>5
    <2> QED BY <2>2, <2>4, <2>6
  <1>9. \A i \in 1..n : at(i) \in D /\ at(i) \in Nat
    BY <1>3, <1>4
  <1>10. Typed(pairs) /\ InOrder(pairs)
    BY <1>5, <1>6, <1>7, <1>9 DEF Typed, InOrder
  <1>11. \A i \in 1..n : /\ pairs[i].partition \in D
                         /\ pairs[i].root = RootOf(forest, pairs[i].partition)
    BY <1>5, <1>9
  <1> QED BY <1>2, <1>6, <1>8, <1>10, <1>11 DEF D

-------------------------------------------------------------------------------
(* Lists of identifiers in order. *)

Listed(o) == {o[i] : i \in 1..Len(o)}
Unrepeated(o) == \A i, j \in 1..Len(o) : o[i] = o[j] => i = j

\* A list of identifiers in order starts as any such list of the same ones.
LEMMA SameStart ==
    ASSUME NEW o \in Seq(Identifiers), NEW q \in Seq(Identifiers), InIDOrder(o), InIDOrder(q),
           Unrepeated(o), Unrepeated(q), Listed(o) = Listed(q)
    PROVE  \A k \in 1..Len(o) : k <= Len(q) /\ o[k] = q[k]
  <1> DEFINE n == Len(o)
             m == Len(q)
             T == {k \in Nat : \A j \in 1..n : j <= k => j <= m /\ o[j] = q[j]}
  <1>1. /\ n \in Nat /\ m \in Nat
        /\ \A i \in 1..n : o[i] \in Identifiers
        /\ \A i \in 1..m : q[i] \in Identifiers
    OBVIOUS
  <1>2. /\ \A i \in 1..n : \E j \in 1..m : o[i] = q[j]
        /\ \A j \in 1..m : \E i \in 1..n : o[i] = q[j]
    <2>1. \A i \in 1..n : o[i] \in Listed(q)
      BY DEF Listed
    <2>2. \A j \in 1..m : q[j] \in Listed(o)
      BY DEF Listed
    <2> QED BY <2>1, <2>2 DEF Listed
  <1>3. /\ \A i, j \in 1..n : o[i] = o[j] => i = j
        /\ \A i, j \in 1..m : q[i] = q[j] => i = j
        /\ \A i, j \in 1..n : i < j => NotAfter(o[i], o[j])
        /\ \A i, j \in 1..m : i < j => NotAfter(q[i], q[j])
    BY DEF Unrepeated, InIDOrder
  <1> HIDE DEF n, m
  <1>4. 0 \in T
    BY <1>1
  <1>5. ASSUME NEW k \in T PROVE k + 1 \in T
    <2> DEFINE l == k + 1
    <2>1. k \in Nat /\ l \in Nat /\ l # 0
      OBVIOUS
    <2>2. \A j \in 1..n : j <= k => j <= m /\ o[j] = q[j]
      OBVIOUS
    <2>3. \A j : j \in 1..n /\ j <= l /\ j # l => j <= k
      BY <1>1, <2>1
    <2>4. ASSUME l \in 1..n PROVE l <= m /\ o[l] = q[l]
      <3>1. PICK a \in 1..m : o[l] = q[a]
        BY <1>2, <2>4
      <3>2. ~(a <= k)
        <4> SUFFICES ASSUME a <= k PROVE FALSE
          OBVIOUS
        <4>1. a \in 1..n
          BY <1>1, <2>1, <2>4
        <4>2. o[a] = q[a]
          BY <2>2, <4>1
        <4>3. a = l
          BY <1>3, <2>4, <3>1, <4>1, <4>2
        <4> QED BY <2>1, <4>3
      <3>3. l <= m /\ l \in 1..m /\ (a = l \/ l < a)
        BY <1>1, <2>1, <3>2
      <3>4. PICK b \in 1..n : o[b] = q[l]
        BY <1>2, <3>3
      <3>5. ~(b <= k)
        <4> SUFFICES ASSUME b <= k PROVE FALSE
          OBVIOUS
        <4>1. b <= m /\ o[b] = q[b]
          BY <2>2
        <4>2. b \in 1..m
          BY <1>1, <4>1
        <4>3. b = l
          BY <1>3, <3>3, <3>4, <4>1, <4>2
        <4> QED BY <2>1, <4>3
      <3>6. b = l \/ l < b
        BY <1>1, <2>1, <3>5
      <3>7. CASE a = l
        BY <3>1, <3>3, <3>7
      <3>8. CASE b = l
        BY <3>3, <3>4, <3>8
      <3>9. CASE l < a /\ l < b
        <4>1. NotAfter(q[l], q[a]) /\ NotAfter(o[l], o[b])
          BY <1>3, <2>4, <3>3, <3>9
        <4> DEFINE x == o[l]
                   y == q[l]
        <4>2. x \in Identifiers /\ y \in Identifiers /\ NotAfter(y, x) /\ NotAfter(x, y)
          BY <1>1, <2>4, <3>1, <3>3, <3>4, <4>1
        <4> HIDE DEF x, y
        <4>3. /\ Used(x) \in Seq(Bit) /\ Used(y) \in Seq(Bit)
              /\ x = NewID(Used(x)) /\ y = NewID(Used(y))
          BY <4>2, IdentifierOfUsed
        <4>4. Used(x) = Used(y)
          BY <4>2, <4>3, PrecedesTotal DEF NotAfter
        <4>5. x = y
          BY <4>3, <4>4
        <4> QED BY <3>3, <4>5 DEF x, y
      <3> QED BY <3>3, <3>6, <3>7, <3>8, <3>9
    <2> HIDE DEF l
    <2>5. \A j \in 1..n : j <= l => j <= m /\ o[j] = q[j]
      BY <2>2, <2>3, <2>4
    <2> QED BY <2>1, <2>5 DEF l
  <1> HIDE DEF T
  <1>6. T = Nat
    <2>1. T \in SUBSET Nat
      BY DEF T
    <2> QED BY ONLY <1>4, <1>5, <2>1, Induction
  <1>7. n \in T
    BY <1>1, <1>6
  <1>8. \A j \in 1..n : j <= n
    BY <1>1
  <1> QED BY <1>7, <1>8 DEF T, n, m

\* There is one list in order of a set of identifiers.
LEMMA OneOrder ==
    ASSUME NEW o \in Seq(Identifiers), NEW q \in Seq(Identifiers), InIDOrder(o), InIDOrder(q),
           Unrepeated(o), Unrepeated(q), Listed(o) = Listed(q)
    PROVE  o = q
  <1> DEFINE n == Len(o)
             m == Len(q)
  <1>1. n \in Nat /\ m \in Nat /\ o \in [1..n -> Identifiers] /\ q \in [1..m -> Identifiers]
    OBVIOUS
  <1>2. \A k \in 1..n : k <= m /\ o[k] = q[k]
    BY SameStart
  <1>3. \A k \in 1..m : k <= n
    BY SameStart
  <1> HIDE DEF n, m
  <1>4. n = m
    <2>1. n = 0 \/ n \in 1..n
      BY <1>1
    <2>2. m = 0 \/ m \in 1..m
      BY <1>1
    <2>3. n <= m
      BY <1>1, <1>2, <2>1
    <2>4. m <= n
      BY <1>1, <1>3, <2>2
    <2> QED BY <1>1, <2>3, <2>4
  <1> QED BY <1>1, <1>2, <1>4

\* The order of a scheme lists all of its shards.
LEMMA CanonicalIs ==
    ASSUME NEW sharding \in Seq(Nodes), NEW o, o = CanonicalOrder(sharding)
    PROVE  /\ o \in Seq(Identifiers) /\ InIDOrder(o) /\ Listed(o) = All(sharding)
           /\ Len(o) = IF sharding = << >> THEN 1 ELSE Len(sharding)
           /\ IsValidScheme(sharding) => Unrepeated(o)
  <1>1. CASE sharding = << >>
    <2>1. o = <<EmptyID>> /\ All(sharding) = {EmptyID}
      BY <1>1 DEF CanonicalOrder, All
    <2>2. EmptyID \in Identifiers
      BY NodesAre
    <2> HIDE DEF EmptyID
    <2>3. o \in Seq(Identifiers) /\ Len(o) = 1 /\ o[1] = EmptyID
      BY <2>1, <2>2
    <2> QED BY <1>1, <2>1, <2>3 DEF InIDOrder, Listed, Unrepeated
  <1>2. CASE sharding # << >>
    <2> DEFINE n == Len(sharding)
    <2>1. o = SortedIDs(sharding)
      BY <1>2 DEF CanonicalOrder
    <2>2. o \in Seq(Identifiers) /\ Len(o) = n /\ InIDOrder(o)
          /\ (NoPrefixes(o) <=> NoPrefixes(sharding))
      BY <2>1, SortingKeeps
    <2>3. Rearranged(sharding, o)
      <3>1. sharding \in Seq(Identifiers)
        <4>1. Nodes \subseteq Identifiers
          BY NodesAre
        <4> QED BY <4>1
      <3> QED BY <2>1, <3>1, SortedIDsIs
    <2>4. n \in Nat /\ DOMAIN sharding = 1..n
      OBVIOUS
    <2>5. Listed(o) = All(sharding)
      <3>1. PICK p \in [1..n -> 1..n] : /\ \A j \in 1..n : \E k \in 1..n : p[k] = j
                                        /\ \A k \in 1..n : o[k] = sharding[p[k]]
        BY <2>3 DEF Rearranged
      <3>2. Listed(o) = {o[k] : k \in 1..n}
        BY <2>2 DEF Listed
      <3>3. All(sharding) = {sharding[j] : j \in 1..n}
        BY <1>2, <2>4 DEF All
      <3> HIDE DEF n
      <3>4. \A k \in 1..n : p[k] \in 1..n
        OBVIOUS
      <3>5. ASSUME NEW x \in Listed(o) PROVE x \in All(sharding)
        <4>1. PICK k \in 1..n : x = o[k]
          BY <3>2
        <4> QED BY <3>1, <3>3, <3>4, <4>1
      <3>6. ASSUME NEW x \in All(sharding) PROVE x \in Listed(o)
        <4>1. PICK j \in 1..n : x = sharding[j]
          BY <3>3
        <4>2. PICK k \in 1..n : p[k] = j
          BY <3>1
        <4> QED BY <3>1, <3>2, <4>1, <4>2
      <3> QED BY <3>5, <3>6
    <2>6. IsValidScheme(sharding) => Unrepeated(o)
      <3> SUFFICES ASSUME NoPrefixes(o) PROVE Unrepeated(o)
        BY <2>2, ValidSplits
      <3> SUFFICES ASSUME NEW i \in 1..n, NEW j \in 1..n, o[i] = o[j] PROVE i = j
        BY <2>2 DEF Unrepeated
      <3>1. Used(o[i]) \in Seq(Bit) /\ Len(Used(o[i])) \in Nat
        <4>1. o[i] \in Identifiers
          BY <2>2, <2>4
        <4>2. Used(o[i]) \in Seq(Bit)
          BY <4>1, IdentifierOfUsed
        <4> QED BY <4>2
      <3>2. IsPrefixOf(Used(o[i]), Used(o[j]))
        BY <3>1, PrefixIs
      <3> QED BY <2>2, <3>2 DEF NoPrefixes
    <2> QED BY <1>2, <2>2, <2>5, <2>6
  <1> QED BY <1>1, <1>2

-------------------------------------------------------------------------------
(* Leaves that are all the shards of a scheme, in canonical order. *)

\* What the leaves of views in memory may be.
Held == [shard : Identifiers, data : Data, conf : Confs]

Orderly(entries) ==
    /\ entries \in Seq(Held)
    /\ \E sharding \in Seq(Nodes) : HasOrder(sharding) /\ ShardsOf(entries) = CanonicalOrder(sharding)

StringsOf(entries) == {Used(id) : id \in IDsOf(entries)}
RecordsAt(entries) == [id \in IDsOf(entries) |-> Record(LeafOf(entries, id))]

\* A list of leaves is that of its shards, data and configuration hashes.
LEMMA LeavesAre ==
    ASSUME NEW entries \in Seq(Held)
    PROVE  /\ Len(entries) \in Nat /\ DOMAIN entries = 1..Len(entries)
           /\ Len(ShardsOf(entries)) = Len(entries)
           /\ ShardsOf(entries) \in Seq(Identifiers)
           /\ Listed(ShardsOf(entries)) = IDsOf(entries)
           /\ \A i \in 1..Len(entries) :
                /\ ShardsOf(entries)[i] = entries[i].shard
                /\ entries[i] = [shard |-> entries[i].shard, data |-> entries[i].data,
                                conf |-> entries[i].conf]
                /\ entries[i].shard \in Identifiers
                /\ entries[i].shard \in IDsOf(entries)
                /\ entries[i].data \in Data /\ entries[i].conf \in Confs
  <1> DEFINE n == Len(entries)
             o == ShardsOf(entries)
  <1>1. n \in Nat /\ DOMAIN entries = 1..n
    OBVIOUS
  <1>2. ASSUME NEW i \in 1..n
        PROVE  /\ entries[i] = [shard |-> entries[i].shard, data |-> entries[i].data,
                               conf |-> entries[i].conf]
               /\ entries[i].shard \in Identifiers
               /\ entries[i].data \in Data /\ entries[i].conf \in Confs
    <2>1. entries[i] \in Held
      BY <1>1
    <2> QED BY <2>1 DEF Held
  <1> HIDE DEF n
  <1>3. o = [i \in 1..n |-> entries[i].shard]
    BY <1>1 DEF ShardsOf
  <1>4. o \in Seq(Identifiers) /\ Len(o) = n /\ \A i \in 1..n : o[i] = entries[i].shard
    BY <1>1, <1>2, <1>3
  <1> HIDE DEF o
  <1>5. IDsOf(entries) = {entries[i].shard : i \in 1..n}
    BY <1>1 DEF IDsOf
  <1>6. Listed(o) = IDsOf(entries)
    <2>1. Listed(o) = {o[i] : i \in 1..n}
      BY <1>4 DEF Listed
    <2> QED BY <1>4, <1>5, <2>1
  <1> QED BY <1>1, <1>2, <1>4, <1>5, <1>6 DEF n, o

\* The shards of orderly leaves are in order, each once, and split the strings.
LEMMA OrderlyIs ==
    ASSUME NEW entries, Orderly(entries)
    PROVE  /\ InIDOrder(ShardsOf(entries)) /\ Unrepeated(ShardsOf(entries))
           /\ \A i, j \in 1..Len(entries) : entries[i].shard = entries[j].shard => i = j
           /\ \A i \in 1..Len(entries) : entries[i].shard \in Nodes
           /\ IDsOf(entries) \subseteq Nodes
           /\ Splits(StringsOf(entries))
           /\ Len(entries) \in 1..MaxLeaves
           /\ \A i \in 1..Len(entries) : entries[i].shard.length <= MaxShardIDBits
           /\ Len(entries) = 1 => entries[1].shard = EmptyID
  <1> DEFINE o == ShardsOf(entries)
             n == Len(entries)
  <1>1. PICK sharding \in Seq(Nodes) : HasOrder(sharding) /\ o = CanonicalOrder(sharding)
    BY DEF Orderly
  <1>2. /\ n \in Nat /\ DOMAIN entries = 1..n /\ Len(o) = n /\ Listed(o) = IDsOf(entries)
        /\ \A i \in 1..n : o[i] = entries[i].shard /\ entries[i].shard \in IDsOf(entries)
    BY LeavesAre DEF Orderly
  <1> HIDE DEF o, n
  <1>3. /\ InIDOrder(o) /\ Unrepeated(o) /\ Listed(o) = All(sharding)
        /\ Len(o) = IF sharding = << >> THEN 1 ELSE Len(sharding)
    BY <1>1, CanonicalIs DEF HasOrder
  <1>4. \A i, j \in 1..n : entries[i].shard = entries[j].shard => i = j
    BY <1>2, <1>3 DEF Unrepeated
  <1>5. IDsOf(entries) \subseteq Nodes
    <2>1. CASE sharding = << >>
      BY <1>2, <1>3, <2>1, NodesAre DEF All
    <2>2. CASE sharding # << >>
      <3>1. \A i \in DOMAIN sharding : sharding[i] \in Nodes
        OBVIOUS
      <3> QED BY <1>2, <1>3, <2>2, <3>1 DEF All
    <2> QED BY <2>1, <2>2
  <1>6. Splits(StringsOf(entries))
    <2>1. Splits(Strings(sharding))
      BY <1>1, ValidSplits DEF HasOrder
    <2> QED BY <1>2, <1>3, <2>1 DEF Strings, StringsOf
  <1>7. n \in 1..MaxLeaves /\ \A i \in 1..n : entries[i].shard.length <= MaxShardIDBits
    <2>1. Len(sharding) \in Nat /\ (sharding # << >> => Len(sharding) # 0)
      OBVIOUS
    <2>2. n \in 1..MaxLeaves
      <3>1. Len(sharding) <= MaxLeaves
        BY <1>1 DEF HasOrder
      <3>2. n = IF sharding = << >> THEN 1 ELSE Len(sharding)
        BY <1>2, <1>3
      <3>3. MaxLeaves \in Nat /\ MaxLeaves # 0
        BY BoundsAssumption
      <3> QED BY <2>1, <3>1, <3>2, <3>3
    <2>3. \A i \in 1..n : entries[i].shard.length <= MaxShardIDBits
      BY <1>1, <1>2, <1>3 DEF HasOrder
    <2> QED BY <2>2, <2>3
  <1>8. n = 1 => entries[1].shard = EmptyID
    <2> SUFFICES ASSUME n = 1 PROVE entries[1].shard = EmptyID
      OBVIOUS
    <2>1. Len(sharding) # 1
      BY <1>1 DEF HasOrder, IsValidScheme
    <2>2. sharding = << >>
      BY <1>2, <1>3, <2>1
    <2>3. All(sharding) = {EmptyID}
      BY <2>2 DEF All
    <2>4. 1 \in 1..n
      BY <1>2
    <2> QED BY <1>2, <1>3, <2>3, <2>4
  <1> QED BY <1>2, <1>3, <1>4, <1>5, <1>6, <1>7, <1>8 DEF o, n

\* The leaf of a shard is the one that has it.
LEMMA LeafOfShard ==
    ASSUME NEW entries, Orderly(entries), NEW i \in 1..Len(entries)
    PROVE  /\ LeafOf(entries, entries[i].shard) = entries[i]
           /\ RecordsAt(entries)[entries[i].shard] = Record(entries[i])
  <1>1. /\ Len(entries) \in Nat /\ DOMAIN entries = 1..Len(entries)
        /\ entries[i].shard \in IDsOf(entries)
    BY LeavesAre DEF Orderly
  <1>2. \A k, j \in 1..Len(entries) : entries[k].shard = entries[j].shard => k = j
    BY OrderlyIs
  <1> DEFINE c == CHOOSE k \in DOMAIN entries : entries[k].shard = entries[i].shard
  <1>3. c \in DOMAIN entries /\ entries[c].shard = entries[i].shard
    BY <1>1
  <1>4. LeafOf(entries, entries[i].shard) = entries[c]
    BY DEF LeafOf
  <1> HIDE DEF c
  <1>5. c = i
    BY <1>1, <1>2, <1>3
  <1>6. LeafOf(entries, entries[i].shard) = entries[i]
    BY <1>4, <1>5
  <1> QED BY <1>1, <1>6 DEF RecordsAt

\* The shard tree of orderly leaves is hashed of their records.
LEMMA LeavesAreHashed ==
    ASSUME NEW entries, Orderly(entries)
    PROVE  IsHashed(ShardTreeOf(entries), StringsOf(entries), RecordsAt(entries))
  <1>1. Splits(StringsOf(entries))
    BY OrderlyIs
  <1>2. DOMAIN RecordsAt(entries) = IDsOf(entries) /\ ShardTreeOf(entries) = TreeOf(RecordsAt(entries))
    BY DEF RecordsAt, ShardTreeOf
  <1>3. StringsOf(entries) = {Used(id) : id \in DOMAIN RecordsAt(entries)}
    BY <1>2 DEF StringsOf
  <1> QED BY <1>1, <1>2, <1>3, TreeOfHashed

\* A string of the tree of orderly leaves is the shard of a leaf.
LEMMA StringIsShard ==
    ASSUME NEW entries, Orderly(entries), NEW s \in StringsOf(entries)
    PROVE  \E i \in 1..Len(entries) : entries[i].shard = NewID(s) /\ Used(entries[i].shard) = s
  <1>1. PICK id \in IDsOf(entries) : s = Used(id)
    BY DEF StringsOf
  <1>2. DOMAIN entries = 1..Len(entries)
    BY LeavesAre DEF Orderly
  <1>3. PICK i \in 1..Len(entries) : entries[i].shard = id
    BY <1>2 DEF IDsOf
  <1>4. id = NewID(Used(id))
    <2>1. id \in Nodes
      BY OrderlyIs
    <2> QED BY <2>1, NodesAre
  <1> QED BY <1>1, <1>3, <1>4

\* Orderly leaves with the same root are the same.
LEMMA SameRootSameLeaves ==
    ASSUME NEW entries, Orderly(entries), NEW other, Orderly(other),
           RootHash(ShardTreeOf(entries)) = RootHash(ShardTreeOf(other))
    PROVE  entries = other
  <1>1. /\ StringsOf(entries) = StringsOf(other)
        /\ \A s \in StringsOf(entries) : RecordsAt(entries)[NewID(s)] = RecordsAt(other)[NewID(s)]
    BY LeavesAreHashed, RootDetermines
  <1>2. ASSUME NEW a, Orderly(a), NEW b, Orderly(b), StringsOf(a) = StringsOf(b)
        PROVE  IDsOf(a) \subseteq IDsOf(b)
    <2> SUFFICES ASSUME NEW id \in IDsOf(a) PROVE id \in IDsOf(b)
      OBVIOUS
    <2>1. id \in Nodes
      BY <1>2, OrderlyIs
    <2>2. Used(id) \in StringsOf(b)
      BY <1>2 DEF StringsOf
    <2>3. PICK i \in 1..Len(b) : b[i].shard = NewID(Used(id))
      BY <1>2, <2>2, StringIsShard
    <2>4. b[i].shard = id
      BY <2>1, <2>3, NodesAre
    <2>5. b[i].shard \in IDsOf(b)
      BY <1>2, LeavesAre DEF Orderly
    <2> QED BY <2>4, <2>5
  <1>3. IDsOf(entries) = IDsOf(other)
    BY <1>1, <1>2
  <1> DEFINE n == Len(entries)
             m == Len(other)
             o == ShardsOf(entries)
             q == ShardsOf(other)
  <1>4. /\ n \in Nat /\ m \in Nat /\ Len(o) = n /\ Len(q) = m
        /\ o \in Seq(Identifiers) /\ q \in Seq(Identifiers) /\ Listed(o) = Listed(q)
    BY <1>3, LeavesAre DEF Orderly
  <1>5. o = q
    <2>1. InIDOrder(o) /\ InIDOrder(q) /\ Unrepeated(o) /\ Unrepeated(q)
      BY OrderlyIs
    <2> HIDE DEF o, q
    <2> QED BY <1>4, <2>1, OneOrder
  <1>6. n = m
    BY <1>4, <1>5
  <1>7. ASSUME NEW i \in 1..n PROVE entries[i] = other[i]
    <2>1. i \in 1..m
      BY <1>6
    <2>2. /\ o[i] = entries[i].shard /\ entries[i].shard \in IDsOf(entries)
          /\ entries[i] = [shard |-> entries[i].shard, data |-> entries[i].data,
                          conf |-> entries[i].conf]
      BY LeavesAre DEF Orderly
    <2>3. /\ q[i] = other[i].shard
          /\ other[i] = [shard |-> other[i].shard, data |-> other[i].data,
                         conf |-> other[i].conf]
      BY <2>1, LeavesAre DEF Orderly
    <2>4. entries[i].shard = other[i].shard
      BY <1>5, <2>2, <2>3
    <2>5. Record(entries[i]) = Record(other[i])
      <3>1. entries[i].shard \in Nodes
        BY OrderlyIs
      <3>2. Used(entries[i].shard) \in StringsOf(entries)
        BY <2>2 DEF StringsOf
      <3>3. RecordsAt(entries)[entries[i].shard] = RecordsAt(other)[entries[i].shard]
        BY <1>1, <3>1, <3>2, NodesAre
      <3>4. RecordsAt(entries)[entries[i].shard] = Record(entries[i])
        BY LeafOfShard
      <3>5. RecordsAt(other)[other[i].shard] = Record(other[i])
        BY <2>1, LeafOfShard
      <3> QED BY <2>4, <3>3, <3>4, <3>5
    <2>6. entries[i].data = other[i].data /\ entries[i].conf = other[i].conf
      BY <2>5 DEF Record
    <2> QED BY <2>2, <2>3, <2>4, <2>6
  <1>8. entries \in Seq(Held) /\ other \in Seq(Held)
    BY DEF Orderly
  <1>9. entries = [i \in 1..n |-> entries[i]] /\ other = [i \in 1..m |-> other[i]]
    BY <1>8
  <1> HIDE DEF n, m
  <1> QED BY <1>6, <1>7, <1>9

-------------------------------------------------------------------------------
(* The scheme a view claims: the shards of its leaves but the empty one. *)

CollectStep(leaf, shards) ==
    IF leaf.shard.length > 0 THEN Append(shards, leaf.shard) ELSE shards

\* The recursion of NonEmptyShards.
Collects(f, entries, n) ==
    f = [k \in 0..n |-> IF k = 0 THEN << >> ELSE CollectStep(entries[k], f[k - 1])]

LEMMA CollectionExists ==
    ASSUME NEW entries
    PROVE  \A n \in Nat : \E f : Collects(f, entries, n)
  <1> DEFINE T == {n \in Nat : \E f : Collects(f, entries, n)}
  <1>1. 0 \in T
    <2> DEFINE f == [k \in 0..0 |-> << >>]
    <2>1. \A k \in 0..0 : k = 0 /\ f[k] = << >>
      OBVIOUS
    <2>2. f = [k \in 0..0 |-> IF k = 0 THEN << >> ELSE CollectStep(entries[k], f[k - 1])]
      BY <2>1
    <2> HIDE DEF f
    <2> QED BY <2>2 DEF Collects
  <1>2. ASSUME NEW n \in T PROVE n + 1 \in T
    <2>1. PICK g : Collects(g, entries, n)
      OBVIOUS
    <2> DEFINE f == [k \in 0..(n + 1) |-> IF k <= n THEN g[k] ELSE CollectStep(entries[k], g[k - 1])]
    <2>2. ASSUME NEW k \in 0..(n + 1)
          PROVE  f[k] = IF k = 0 THEN << >> ELSE CollectStep(entries[k], f[k - 1])
      <3>1. k # 0 => k - 1 \in 0..(n + 1) /\ k - 1 <= n
        OBVIOUS
      <3>2. k # 0 => f[k - 1] = g[k - 1]
        BY <3>1
      <3>3. k <= n => g[k] = IF k = 0 THEN << >> ELSE CollectStep(entries[k], g[k - 1])
        BY <2>1 DEF Collects
      <3> QED BY <3>2, <3>3
    <2>3. f = [k \in 0..(n + 1) |-> IF k = 0 THEN << >> ELSE CollectStep(entries[k], f[k - 1])]
      BY <2>2
    <2> HIDE DEF f
    <2> QED BY <2>3 DEF Collects
  <1>3. T = Nat
    <2> HIDE DEF T
    <2>1. T \in SUBSET Nat
      BY DEF T
    <2> QED BY <1>1, <1>2, <2>1, Induction
  <1> QED BY <1>3

\* A view of shards claims a scheme of nodes; without an empty shard, all of
\* its shards; of a single empty one, the empty scheme.
LEMMA NonEmptyShardsAre ==
    ASSUME NEW entries \in Seq(Held), \A i \in 1..Len(entries) : entries[i].shard \in Nodes
    PROVE  /\ NonEmptyShards(entries) \in Seq(Nodes)
           /\ (\A i \in 1..Len(entries) : entries[i].shard.length > 0)
                => NonEmptyShards(entries) = ShardsOf(entries)
           /\ Len(entries) = 1 /\ entries[1].shard.length = 0 => NonEmptyShards(entries) = << >>
  <1> DEFINE n == Len(entries)
             f == CHOOSE g : Collects(g, entries, n)
  <1>1. n \in Nat
    BY LeavesAre
  <1>2. Collects(f, entries, n)
    BY <1>1, CollectionExists
  <1>3. NonEmptyShards(entries) = f[n]
    BY DEF NonEmptyShards, Collects, CollectStep
  <1> HIDE DEF f, n
  <1>4. f[0] = << >>
    BY <1>1, <1>2 DEF Collects
  <1>5. ASSUME NEW k \in Nat, k + 1 <= n PROVE f[k + 1] = CollectStep(entries[k + 1], f[k])
    <2>1. k + 1 \in 0..n /\ k + 1 # 0 /\ (k + 1) - 1 = k
      BY <1>1, <1>5
    <2> QED BY <1>2, <2>1 DEF Collects
  <1> DEFINE positive == \A i \in 1..n : entries[i].shard.length > 0
             has(s, k) == Len(s) = k /\ \A i \in 1..k : s[i] = entries[i].shard
             P(k) == k <= n => f[k] \in Seq(Nodes) /\ (positive => has(f[k], k))
             T == {k \in Nat : P(k)}
  <1>6. P(0)
    <2>1. << >> \in Seq(Nodes) /\ Len(<< >>) = 0 /\ 1..0 = {}
      OBVIOUS
    <2> QED BY <1>4, <2>1
  <1>7. ASSUME NEW k \in Nat, P(k) PROVE P(k + 1)
    <2> SUFFICES ASSUME k + 1 <= n
                 PROVE  f[k + 1] \in Seq(Nodes) /\ (positive => has(f[k + 1], k + 1))
      OBVIOUS
    <2> DEFINE s == f[k]
               t == f[k + 1]
               l == k + 1
               id == entries[l].shard
    <2>1. l \in 1..n /\ l \in Nat /\ k <= n
      BY <1>1
    <2>2. s \in Seq(Nodes) /\ (positive => has(s, k))
      BY <1>7, <2>1
    <2>3. id \in Nodes
      BY <2>1 DEF n
    <2>4. t = IF id.length > 0 THEN Append(s, id) ELSE s
      BY <1>5 DEF CollectStep
    <2>5. positive => id.length > 0
      BY <2>1
    <2> HIDE DEF s, t, id
    <2>6. t \in Seq(Nodes)
      BY <2>2, <2>3, <2>4
    <2>7. ASSUME positive PROVE has(t, l)
      <3>1. has(s, k) /\ t = Append(s, id)
        BY <2>2, <2>4, <2>5, <2>7
      <3>2. Len(t) = l
        BY <2>1, <2>2, <2>3, <3>1
      <3>3. ASSUME NEW i \in 1..l PROVE t[i] = entries[i].shard
        <4>1. CASE i = l
          <5>1. t[l] = id
            BY <2>1, <2>2, <2>3, <3>1
          <5> QED BY <4>1, <5>1 DEF id
        <4>2. CASE i # l
          <5>1. i \in 1..k /\ i \in 1..Len(s)
            BY <2>1, <3>1, <4>2
          <5>2. t[i] = s[i]
            BY <2>2, <2>3, <3>1, <5>1
          <5> QED BY <3>1, <5>1, <5>2
        <4> QED BY <4>1, <4>2
      <3> QED BY <3>2, <3>3
    <2> QED BY <2>6, <2>7 DEF t
  <1> HIDE DEF P
  <1>8. T = Nat
    <2>1. 0 \in T
      BY <1>6
    <2>2. \A k \in T : k + 1 \in T
      BY <1>7
    <2>3. T \in SUBSET Nat
      OBVIOUS
    <2> HIDE DEF T
    <2> QED BY ONLY <2>1, <2>2, <2>3, Induction
  <1>9. P(n)
    BY <1>1, <1>8
  <1>10. f[n] \in Seq(Nodes) /\ (positive => has(f[n], n))
    BY <1>1, <1>9 DEF P
  <1>11. ASSUME positive PROVE f[n] = ShardsOf(entries)
    <2> DEFINE s == f[n]
               o == ShardsOf(entries)
    <2>1. /\ o \in Seq(Identifiers) /\ Len(o) = n
          /\ \A i \in 1..n : o[i] = entries[i].shard
      BY LeavesAre DEF n
    <2>2. s \in Seq(Nodes) /\ has(s, n)
      BY <1>10, <1>11
    <2> HIDE DEF s, o
    <2>3. o = [i \in 1..n |-> o[i]] /\ s = [i \in 1..n |-> s[i]]
      BY <2>1, <2>2
    <2>4. \A i \in 1..n : o[i] = s[i]
      BY <2>1, <2>2
    <2>5. o = s
      BY <2>3, <2>4
    <2> QED BY <2>5 DEF s, o
  <1>12. ASSUME n = 1, entries[1].shard.length = 0 PROVE f[n] = << >>
    <2>1. f[0 + 1] = CollectStep(entries[0 + 1], f[0]) /\ 0 + 1 = 1
      BY <1>5, <1>12
    <2>2. f[1] = CollectStep(entries[1], << >>)
      BY <1>4, <2>1
    <2>3. ~(entries[1].shard.length > 0)
      BY <1>12
    <2> QED BY <1>12, <2>2, <2>3 DEF CollectStep
  <1> QED BY <1>3, <1>10, <1>11, <1>12 DEF n

-------------------------------------------------------------------------------
(* What the chain has certified. *)

Path(r, p) == GetMerklePath(PartitionRoots(Chain[r]), p)

\* A path is a sequence of steps, keys with hashes.
IsSteps(path) == Len(path) \in Nat /\ HasSteps(path, path, Len(path))

\* The leaves of a forest are orderly, and the shards they claim are a scheme.
LEMMA ForestIs ==
    ASSUME NEW r \in Rounds, NEW p \in DOMAIN Chain[r], NEW entries, entries = Chain[r][p]
    PROVE  /\ Orderly(entries)
           /\ NonEmptyShards(entries) \in Seq(Nodes)
           /\ HasOrder(NonEmptyShards(entries))
           /\ ShardsOf(entries) = CanonicalOrder(NonEmptyShards(entries))
           /\ \A i \in 1..Len(entries) : entries[i].data \in ValidData
  <1>1. entries \in Seq(Leaves)
    BY ChainAssumption
  <1>2. PICK sharding \in {<< >>, ShardsOf(entries)} :
          HasOrder(sharding) /\ ShardsOf(entries) = CanonicalOrder(sharding)
    BY ChainAssumption
  <1> DEFINE n == Len(entries)
  <1>3. entries \in Seq(Held)
    <2>1. Nodes \subseteq Identifiers
      BY NodesAre
    <2>2. Leaves \subseteq Held
      BY <2>1, DataAssumption DEF Leaves, Held
    <2> QED BY <1>1, <2>2
  <1>4. \A i \in 1..n : entries[i].shard \in Nodes /\ entries[i].data \in ValidData
    <2> SUFFICES ASSUME NEW i \in 1..n
                 PROVE  entries[i].shard \in Nodes /\ entries[i].data \in ValidData
      OBVIOUS
    <2>1. entries[i] \in Leaves
      BY <1>1
    <2> QED BY <2>1 DEF Leaves
  <1>5. /\ n \in Nat /\ Len(ShardsOf(entries)) = n /\ ShardsOf(entries) \in Seq(Identifiers)
        /\ \A i \in 1..n : ShardsOf(entries)[i] = entries[i].shard
    BY <1>3, LeavesAre
  <1>6. /\ NonEmptyShards(entries) \in Seq(Nodes)
        /\ (\A i \in 1..n : entries[i].shard.length > 0)
             => NonEmptyShards(entries) = ShardsOf(entries)
        /\ n = 1 /\ entries[1].shard.length = 0 => NonEmptyShards(entries) = << >>
    BY <1>3, <1>4, NonEmptyShardsAre
  <1>7. NonEmptyShards(entries) = sharding
    <2>1. CASE sharding = << >>
      <3>1. ShardsOf(entries) = <<EmptyID>>
        BY <1>2, <2>1 DEF CanonicalOrder
      <3>2. EmptyID.length = 0
        BY NodesAre
      <3> HIDE DEF EmptyID
      <3>3. Len(<<EmptyID>>) = 1 /\ <<EmptyID>>[1] = EmptyID /\ 1 \in 1..1
        OBVIOUS
      <3>4. n = 1 /\ entries[1].shard = EmptyID
        BY <1>5, <3>1, <3>3
      <3> QED BY <1>6, <2>1, <3>2, <3>4
    <2>2. CASE sharding = ShardsOf(entries)
      <3>1. \A i \in 1..n : sharding[i].length # 0
        BY <1>2, <1>5, <2>2 DEF HasOrder, IsValidScheme
      <3>2. \A i \in 1..n : entries[i].shard.length \in Nat
        <4> SUFFICES ASSUME NEW i \in 1..n PROVE entries[i].shard.length \in Nat
          OBVIOUS
        <4>1. /\ entries[i].shard.length = Len(Used(entries[i].shard))
              /\ Used(entries[i].shard) \in Seq(Bit)
          BY <1>4, NodesAre
        <4>2. Len(Used(entries[i].shard)) \in Nat
          BY <4>1
        <4> QED BY <4>1, <4>2
      <3>3. \A i \in 1..n : entries[i].shard.length > 0
        BY <1>5, <2>2, <3>1, <3>2
      <3> QED BY <1>6, <2>2, <3>3
    <2> QED BY <2>1, <2>2
  <1> QED BY <1>2, <1>3, <1>4, <1>6, <1>7 DEF Orderly

\* The partitions of a round, in order, and the root over them.
HasPairs(r, pairs) ==
    /\ Len(pairs) \in Nat /\ DOMAIN pairs = 1..Len(pairs)
    /\ Typed(pairs) /\ InOrder(pairs)
    /\ \A i \in 1..Len(pairs) : /\ pairs[i].partition \in DOMAIN Chain[r]
                                /\ pairs[i].root = RootOf(Chain[r], pairs[i].partition)
    /\ \A p \in DOMAIN Chain[r] : \E i \in 1..Len(pairs) :
         pairs[i].partition = p /\ pairs[i].root = RootOf(Chain[r], p)
    /\ IF Len(pairs) = 0 THEN UnicityRoot(Chain[r]) = << >>
       ELSE UnicityRoot(Chain[r]) = HashOf(pairs)[<<1, Len(pairs)>>]

LEMMA RoundIs ==
    ASSUME NEW r \in Rounds, NEW pairs, pairs = PartitionRoots(Chain[r])
    PROVE  HasPairs(r, pairs)
  <1>1. IsFiniteSet(DOMAIN Chain[r]) /\ DOMAIN Chain[r] \subseteq Nat
    BY ChainAssumption
  <1>2. /\ pairs # << >> => UnicityRoot(Chain[r]) = HashOf(pairs)[<<1, Len(pairs)>>]
        /\ pairs = << >> => UnicityRoot(Chain[r]) = << >>
    BY DEF UnicityRoot, UnicityRootHash
  <1> DEFINE forest == Chain[r]
  <1> HIDE DEF forest
  <1>3. IsFiniteSet(DOMAIN forest) /\ DOMAIN forest \subseteq Nat /\ pairs = PartitionRoots(forest)
    BY <1>1 DEF forest
  <1>4. /\ Len(pairs) \in Nat /\ DOMAIN pairs = 1..Len(pairs)
        /\ Typed(pairs) /\ InOrder(pairs)
        /\ \A i \in DOMAIN pairs : /\ pairs[i].partition \in DOMAIN forest
                                   /\ pairs[i].root = RootOf(forest, pairs[i].partition)
        /\ \A p \in DOMAIN forest : \E i \in DOMAIN pairs :
             pairs[i].partition = p /\ pairs[i].root = RootOf(forest, p)
    BY <1>3, PartitionRootsAre
  <1>5. Len(pairs) = 0 <=> pairs = << >>
    <2>1. pairs = [i \in 1..Cardinality(DOMAIN Chain[r]) |-> pairs[i]]
      BY DEF PartitionRoots
    <2>2. pairs = [i \in 1..Len(pairs) |-> pairs[i]]
      BY <1>4, <2>1
    <2>3. Len(<< >>) = 0
      OBVIOUS
    <2>4. ASSUME Len(pairs) = 0 PROVE pairs = << >>
      <3>1. PICK f : pairs = [i \in 1..Len(pairs) |-> f[i]]
        BY <2>2
      <3>2. 1..0 = {}
        OBVIOUS
      <3>3. pairs = [i \in {} |-> f[i]]
        BY <2>4, <3>1, <3>2
      <3> QED BY <3>3
    <2> QED BY <2>3, <2>4
  <1> QED BY <1>2, <1>4, <1>5 DEF forest, HasPairs

\* The path the chain hands out leads from the root of a partition.
LEMMA PathIs ==
    ASSUME NEW r \in Rounds, NEW p \in DOMAIN Chain[r], NEW path, path = Path(r, p)
    PROVE  /\ IsSteps(path) /\ IsSequence(path)
           /\ IndexTreeOutput(path, p, RootOf(Chain[r], p)) = UnicityRoot(Chain[r])
  <1> DEFINE pairs == PartitionRoots(Chain[r])
             N == Len(pairs)
             root == RootOf(Chain[r], p)
             top == UnicityRoot(Chain[r])
  <1>0. HasPairs(r, pairs) /\ Path(r, p) = GetMerklePath(pairs, p)
    BY RoundIs DEF Path
  <1> HIDE DEF pairs
  <1>2. PICK i \in 1..N : pairs[i].partition = p /\ pairs[i].root = root
    BY <1>0 DEF HasPairs
  <1>3. path = GetMerklePath(pairs, p)
    BY <1>0
  <1>1. N \in Nat /\ DOMAIN pairs = 1..N /\ Typed(pairs) /\ InOrder(pairs)
    BY <1>0 DEF HasPairs
  <1>4. N # 0 /\ top = HashOf(pairs)[<<1, N>>]
    <2>1. N # 0
      BY <1>1, <1>2
    <2> QED BY <1>0, <2>1 DEF HasPairs
  <1> HIDE DEF root, top
  <1>5. IsSequence(path) /\ IndexTreeOutput(path, p, root) = HashOf(pairs)[<<1, N>>]
    BY <1>1, <1>2, <1>3, PathLeadsToRoot
  <1>6. Len(path) \in Nat
    <2>1. PICK S : path \in Seq(S)
      BY <1>5 DEF IsSequence
    <2> QED BY <2>1
  <1>7. HasSteps(path, path, Len(path))
    BY <1>1, <1>3, <1>4, <1>5, <1>6, PathIsFixed
  <1> QED BY <1>1, <1>4, <1>5, <1>6, <1>7 DEF IsSteps, root, top

\* Nothing else leads to the unicity root of a round.
LEMMA OutputIsCommitted ==
    ASSUME NEW r \in Rounds, NEW steps, IsSteps(steps), NEW key, NEW root,
           IndexTreeOutput(steps, key, root) = UnicityRoot(Chain[r])
    PROVE  key \in DOMAIN Chain[r] /\ root = RootOf(Chain[r], key) /\ steps = Path(r, key)
  <1> DEFINE pairs == PartitionRoots(Chain[r])
             N == Len(pairs)
             path == GetMerklePath(pairs, key)
             n == Len(steps)
  <1>0. HasPairs(r, pairs) /\ Path(r, key) = path
    BY RoundIs DEF Path
  <1> HIDE DEF pairs
  <1>1. /\ N \in Nat /\ DOMAIN pairs = 1..N
        /\ \A i \in 1..N : /\ pairs[i].partition \in DOMAIN Chain[r]
                           /\ pairs[i].root = RootOf(Chain[r], pairs[i].partition)
    BY <1>0 DEF HasPairs
  <1>2. n \in Nat /\ HasSteps(steps, steps, n)
    BY DEF IsSteps
  <1>3. IndexTreeOutput(steps, key, root) # << >>
    BY <1>2, OutputIsNotNil
  <1>5. N # 0
    BY <1>0, <1>3 DEF HasPairs
  <1>4. IndexTreeOutput(steps, key, root) = HashOf(pairs)[<<1, N>>]
    BY <1>0, <1>5 DEF HasPairs
  <1>6. PICK j \in 1..N : pairs[j].partition = key /\ pairs[j].root = root
    <2>1. N \in 1..N
      BY <1>1, <1>5
    <2> QED BY <1>1, <1>2, <1>4, <2>1, OutputIsOfLeaf
  <1>7. HasSteps(path, steps, n)
    BY <1>1, <1>2, <1>4, <1>5, PathIsFixed
  <1>8. path = steps
    <2> HIDE DEF path, n
    <2>1. /\ IsSequence(path) /\ Len(path) = n /\ IsSequence(steps) /\ Len(steps) = n
          /\ \A i \in 1..n : path[i] = steps[i]
      BY <1>2, <1>7 DEF HasSteps
    <2>2. PICK S, R : path \in Seq(S) /\ steps \in Seq(R)
      BY <2>1 DEF IsSequence
    <2>3. path = [i \in 1..n |-> path[i]] /\ steps = [i \in 1..n |-> steps[i]]
      BY <2>1, <2>2
    <2> QED BY <2>1, <2>3
  <1> QED BY <1>0, <1>1, <1>6, <1>8

-------------------------------------------------------------------------------
(* What is authenticated, and what verifies. *)

\* The seal of a certified root is that of a round.
LEMMA SealIs ==
    ASSUME NEW seal \in Certified
    PROVE  \E r \in Rounds : seal = Seals[r] /\ seal.round = r /\ seal.hash = UnicityRoot(Chain[r])
  <1>1. PICK r \in Rounds : seal = Seals[r]
    BY DEF Certified
  <1>2. Seals[r] = [round |-> r, hash |-> UnicityRoot(Chain[r])]
    BY DEF Seals
  <1> QED BY <1>1, <1>2

\* A view whose structure is valid has the shards of the topology, in order.
LEMMA StructureIs ==
    ASSUME NEW view, view.leaves \in Seq(Held), NEW p, NEW topo, topo.scheme \in Seq(Nodes),
           ValidateStructure(view, p, topo)
    PROVE  /\ Orderly(view.leaves) /\ view.partition = p
           /\ ShardsOf(view.leaves) = CanonicalOrder(topo.scheme)
           /\ IDsOf(view.leaves) = All(topo.scheme)
           /\ \A i \in 1..Len(view.leaves) :
                Key(view.leaves[i].shard) \in DOMAIN topo.confs
                  => view.leaves[i].conf = topo.confs[Key(view.leaves[i].shard)]
  <1> DEFINE entries == view.leaves
             sharding == topo.scheme
             o == CanonicalOrder(sharding)
             q == ShardsOf(entries)
             n == Len(entries)
  <1>1. /\ HasOrder(sharding) /\ n = Len(o) /\ view.partition = p
        /\ \A i \in DOMAIN o :
             /\ entries[i].shard = o[i]
             /\ Key(o[i]) \in DOMAIN topo.confs => entries[i].conf = topo.confs[Key(o[i])]
    BY DEF ValidateStructure
  <1>2. o \in Seq(Identifiers) /\ Listed(o) = All(sharding)
    BY CanonicalIs
  <1>3. /\ n \in Nat /\ q \in Seq(Identifiers) /\ Len(q) = n /\ Listed(q) = IDsOf(entries)
        /\ \A i \in 1..n : q[i] = entries[i].shard
    BY LeavesAre
  <1> HIDE DEF o, q, n
  <1>4. DOMAIN o = 1..n
    BY <1>1, <1>2
  <1>5. o = q
    <2>1. o = [i \in 1..n |-> o[i]] /\ q = [i \in 1..n |-> q[i]]
      BY <1>2, <1>3, <1>4
    <2>2. \A i \in 1..n : o[i] = q[i]
      BY <1>1, <1>3, <1>4
    <2> QED BY <2>1, <2>2
  <1>6. Orderly(entries)
    BY <1>1, <1>5 DEF Orderly, o, q
  <1>7. IDsOf(entries) = All(sharding)
    BY <1>2, <1>3, <1>5
  <1>8. ASSUME NEW i \in 1..n, Key(entries[i].shard) \in DOMAIN topo.confs
        PROVE  entries[i].conf = topo.confs[Key(entries[i].shard)]
    BY <1>1, <1>4, <1>8
  <1> QED BY <1>1, <1>5, <1>6, <1>7, <1>8 DEF o, q, n

\* The identifiers of a view within the bounds are those of nodes.
LEMMA BoundedAreNodes ==
    ASSUME NEW view, view.leaves \in Seq(Held), ValidateBounds(view)
    PROVE  \A i \in 1..Len(view.leaves) : view.leaves[i].shard \in Nodes
  <1> SUFFICES ASSUME NEW i \in 1..Len(view.leaves) PROVE view.leaves[i].shard \in Nodes
    OBVIOUS
  <1> DEFINE id == view.leaves[i].shard
             s == Used(id)
             l == Len(s)
  <1>1. id \in Identifiers /\ i \in DOMAIN view.leaves
    BY LeavesAre
  <1>2. id.length <= MaxShardIDBits
    BY <1>1 DEF ValidateBounds, LeafBounds
  <1> HIDE DEF id
  <1>3. s \in Seq(Bit) /\ id = NewID(s) /\ id.length = l
    BY <1>1, IdentifierOfUsed
  <1>4. l \in Nat
    BY <1>3
  <1>5. s \in BitStrings
    <2>1. l <= MaxLength
      <3> HIDE DEF l
      <3> QED BY <1>2, <1>3, <1>4, BoundsAssumption, LengthAssumption
    <2> QED BY <1>3, <2>1, BitStringsAre
  <1> QED BY <1>3, <1>5, NodesAre DEF id

\* An authenticated view, with its certificate, is of one certified round: the
\* leaves, the path and the seal are those of the round and the partition.
LEMMA AuthenticIs ==
    ASSUME NEW view, view.leaves \in Seq(Held), NEW enclosing, IsSteps(enclosing.steps),
           NEW p, NEW pins, Authentic(view, enclosing, p, pins)
    PROVE  /\ Orderly(view.leaves) /\ view.partition = p
           /\ \E r \in Rounds : /\ enclosing.seal = Seals[r]
                                /\ p \in DOMAIN Chain[r]
                                /\ view.leaves = Chain[r][p]
                                /\ enclosing.steps = Path(r, p)
  <1> DEFINE entries == view.leaves
             topo == ClaimedTopology(view)
             grown == ShardTreeOf(entries)
  <1>1. /\ ValidateBounds(view) /\ VerifyTree(view, enclosing, p, topo)
        /\ enclosing.seal \in Certified
    BY DEF Authentic
  <1>2. /\ ValidateStructure(view, p, topo) /\ enclosing.partition = view.partition
        /\ EvalAuthPath(enclosing, RootHash(grown)) = enclosing.seal.hash
    BY <1>1 DEF VerifyTree
  <1>3. topo.scheme \in Seq(Nodes)
    <2>1. topo.scheme = NonEmptyShards(entries)
      BY DEF ClaimedTopology
    <2>2. \A i \in 1..Len(entries) : entries[i].shard \in Nodes
      BY <1>1, BoundedAreNodes
    <2> QED BY <2>1, <2>2, NonEmptyShardsAre
  <1>4. Orderly(entries) /\ view.partition = p
    <2> HIDE DEF topo
    <2> QED BY <1>2, <1>3, StructureIs
  <1>5. PICK r \in Rounds : /\ enclosing.seal = Seals[r]
                            /\ enclosing.seal.hash = UnicityRoot(Chain[r])
    BY <1>1, SealIs
  <1> DEFINE root == RootHash(grown)
             steps == enclosing.steps
  <1>6. IndexTreeOutput(steps, p, root) = UnicityRoot(Chain[r])
    BY <1>2, <1>4, <1>5 DEF EvalAuthPath
  <1>7. p \in DOMAIN Chain[r] /\ root = RootOf(Chain[r], p) /\ steps = Path(r, p)
    <2> HIDE DEF root, steps
    <2>1. IsSteps(steps)
      BY DEF steps
    <2> QED BY <1>6, <2>1, OutputIsCommitted
  <1>8. entries = Chain[r][p]
    <2>1. Orderly(Chain[r][p])
      BY <1>7, ForestIs
    <2>2. RootHash(ShardTreeOf(entries)) = RootHash(ShardTreeOf(Chain[r][p]))
      BY <1>7 DEF RootOf
    <2> QED BY <1>4, <2>1, <2>2, SameRootSameLeaves
  <1> QED BY <1>4, <1>5, <1>7, <1>8

\* And it is what the pins say, when there are any.
LEMMA PinnedIs ==
    ASSUME NEW view, view.leaves \in Seq(Held), NEW enclosing, NEW p, NEW pins \in Pins,
           pins # NoPins, Authentic(view, enclosing, p, pins)
    PROVE  /\ IDsOf(view.leaves) = All(pins.scheme)
           /\ \A i \in 1..Len(view.leaves) : LET key == Key(view.leaves[i].shard) IN
                key \in DOMAIN pins.confs /\ view.leaves[i].conf = pins.confs[key]
  <1>1. CheckCompletePins(pins) /\ ValidateStructure(view, p, pins)
    BY DEF Authentic
  <1>2. pins.scheme \in Seq(Nodes)
    BY PinsAssumption
  <1>3. /\ IDsOf(view.leaves) = All(pins.scheme)
        /\ \A i \in 1..Len(view.leaves) :
             Key(view.leaves[i].shard) \in DOMAIN pins.confs
               => view.leaves[i].conf = pins.confs[Key(view.leaves[i].shard)]
    BY <1>1, <1>2, StructureIs
  <1>4. \A i \in 1..Len(view.leaves) : view.leaves[i].shard \in All(pins.scheme)
    BY <1>3, LeavesAre
  <1>5. \A i \in 1..Len(view.leaves) : Key(view.leaves[i].shard) \in DOMAIN pins.confs
    BY <1>1, <1>4 DEF CheckCompletePins
  <1> QED BY <1>3, <1>5

\* A certificate of leaf i, and what it leads to: the root and the seal.
OfLeaf(c, r, p, i) ==
    LET entries == Chain[r][p]
        grown == ShardTreeOf(entries)
        stc == [shard |-> c.shard, siblings |-> c.siblings]
    IN  /\ c = [shard |-> entries[i].shard, siblings |-> SiblingHashes(grown, entries[i].shard),
                data |-> entries[i].data, conf |-> entries[i].conf,
                partition |-> p, steps |-> Path(r, p), seal |-> Seals[r]]
        /\ c.shard = entries[i].shard /\ c.shard \in Nodes
        /\ c.partition = p /\ IsSteps(c.steps)
        /\ c.seal \in Certified /\ c.seal.round = r
        /\ EvalAuthPath(c, RootHash(grown)) = c.seal.hash
        /\ IsValidCertificate(stc, c.shard)
        /\ ComputeCertificateHash(stc, Record(c)) = RootHash(grown)

LEMMA IssuedIs ==
    ASSUME NEW r \in Rounds, NEW p \in DOMAIN Chain[r],
           NEW i \in 1..Len(Chain[r][p]), NEW id, id = Chain[r][p][i].shard,
           NEW c, c = Issue(Chain[r], p, id, Seals[r])
    PROVE  OfLeaf(c, r, p, i)
  <1> DEFINE entries == Chain[r][p]
  <1>1. Orderly(entries)
    BY ForestIs
  <1>2. LeafOf(entries, id) = entries[i] /\ RecordsAt(entries)[id] = Record(entries[i])
    BY <1>1, LeafOfShard
  <1>3. c = [shard |-> id, siblings |-> SiblingHashes(ShardTreeOf(entries), id),
             data |-> entries[i].data, conf |-> entries[i].conf,
             partition |-> p, steps |-> Path(r, p), seal |-> Seals[r]]
    BY <1>2 DEF Issue, Certificate, UnicityTreeCertificate, Path
  <1>4. id \in Nodes /\ id \in IDsOf(entries)
    BY <1>1, OrderlyIs, LeavesAre DEF Orderly
  <1>5. Seals[r] = [round |-> r, hash |-> UnicityRoot(Chain[r])] /\ Seals[r] \in Certified
    BY DEF Seals, Certified
  <1>6. /\ IsSteps(Path(r, p))
        /\ IndexTreeOutput(Path(r, p), p, RootOf(Chain[r], p)) = UnicityRoot(Chain[r])
    BY PathIs
  <1>7. EvalAuthPath(c, RootHash(ShardTreeOf(entries))) = c.seal.hash
    BY <1>3, <1>5, <1>6 DEF EvalAuthPath, RootOf
  <1> DEFINE T == ShardTreeOf(entries)
             s == Used(id)
             cert == [shard |-> c.shard, siblings |-> c.siblings]
  <1>8. cert = Certificate(T, id) /\ Record(c) = RecordsAt(entries)[id]
    BY <1>2, <1>3 DEF Certificate, Record
  <1> HIDE DEF T, cert
  <1>9. IsHashed(T, StringsOf(entries), RecordsAt(entries))
    BY <1>1, LeavesAreHashed DEF T
  <1>10. s \in StringsOf(entries) /\ id = NewID(s)
    BY <1>4, NodesAre DEF StringsOf
  <1>11. /\ IsValidCertificate(cert, id)
         /\ ComputeCertificateHash(cert, Record(c)) = RootHash(T)
    <2> HIDE DEF s
    <2>1. /\ IsValidCertificate(Certificate(T, id), id)
          /\ ComputeCertificateHash(Certificate(T, id), RecordsAt(entries)[id]) = RootHash(T)
      BY <1>9, <1>10, CertificateLeads
    <2> QED BY <1>8, <2>1
  <1>12. c.steps = Path(r, p) /\ c.seal = Seals[r]
    BY <1>3
  <1>13. c.shard = id /\ c.partition = p /\ c.seal.round = r
    BY <1>3, <1>5
  <1> QED BY <1>3, <1>4, <1>5, <1>6, <1>7, <1>11, <1>12, <1>13 DEF T, cert, OfLeaf

\* So it verifies.
LEMMA IssuedVerifies ==
    ASSUME NEW r \in Rounds, NEW p \in DOMAIN Chain[r], NEW id \in IDsOf(Chain[r][p]),
           NEW c, c = Issue(Chain[r], p, id, Seals[r])
    PROVE  /\ c.seal.round = r /\ c.partition = p /\ c.shard = id
           /\ Verify(c, p, id, c.conf, Certified)
  <1> DEFINE entries == Chain[r][p]
  <1>1. PICK i \in 1..Len(entries) : id = entries[i].shard
    <2>1. DOMAIN entries = 1..Len(entries)
      BY ForestIs, LeavesAre DEF Orderly
    <2> QED BY <2>1 DEF IDsOf
  <1>2. OfLeaf(c, r, p, i)
    BY <1>1, IssuedIs
  <1>3. c.shard = id /\ c.partition = p
    BY <1>1, <1>2 DEF OfLeaf
  <1> QED BY <1>2, <1>3 DEF OfLeaf, Verify, IsValid

\* What verifies is of a leaf of the round of its seal.
LEMMA VerifiedIs ==
    ASSUME NEW cert, cert.shard \in Nodes, IsSteps(cert.steps), NEW p,
           Verify(cert, p, cert.shard, AnyConf, Certified)
    PROVE  \E i \in DOMAIN Chain[cert.seal.round][p] :
               Chain[cert.seal.round][p][i] =
                   [shard |-> cert.shard, data |-> cert.data, conf |-> cert.conf]
  <1> DEFINE sc == [shard |-> cert.shard, siblings |-> cert.siblings]
             root == ComputeCertificateHash(sc, Record(cert))
             steps == cert.steps
  <1>1. /\ cert.partition = p /\ Len(cert.siblings) = cert.shard.length
        /\ EvalAuthPath(cert, root) = cert.seal.hash
        /\ cert.seal \in Certified
    BY DEF Verify, IsValid, IsValidCertificate
  <1>2. PICK r \in Rounds : cert.seal.round = r /\ cert.seal.hash = UnicityRoot(Chain[r])
    BY <1>1, SealIs
  <1>3. IndexTreeOutput(steps, p, root) = UnicityRoot(Chain[r])
    BY <1>1, <1>2 DEF EvalAuthPath
  <1>4. p \in DOMAIN Chain[r] /\ root = RootOf(Chain[r], p)
    <2>1. IsSteps(steps)
      OBVIOUS
    <2> HIDE DEF root, steps
    <2> QED BY <1>3, <2>1, OutputIsCommitted
  <1> DEFINE entries == Chain[r][p]
             T == ShardTreeOf(entries)
             t == Used(cert.shard)
  <1>5. Orderly(entries)
    BY <1>4, ForestIs
  <1>6. IsHashed(T, StringsOf(entries), RecordsAt(entries))
    BY <1>5, LeavesAreHashed
  <1>7. t \in Seq(Bit) /\ cert.shard = NewID(t) /\ Len(cert.siblings) = Len(t)
    BY <1>1, NodesAre
  <1>8. root = RootHash(T)
    BY <1>4 DEF RootOf
  <1> DEFINE id == cert.shard
             sib == cert.siblings
             rec == Record(cert)
  <1>9. ComputeCertificateHash(sc, rec) = RootHash(T) /\ sc = [shard |-> NewID(t), siblings |-> sib]
    BY <1>7, <1>8
  <1> HIDE DEF entries, T, t, sc, sib
  <1>10. t \in StringsOf(entries) /\ rec = RecordsAt(entries)[NewID(t)]
    <2>1. Len(sib) = Len(t)
      BY <1>7 DEF sib
    <2> HIDE DEF rec
    <2> QED BY <1>6, <1>7, <1>9, <2>1, CertificateOnly
  <1>11. PICK i \in 1..Len(entries) : entries[i].shard = NewID(t)
    BY <1>5, <1>10, StringIsShard
  <1>12. /\ DOMAIN entries = 1..Len(entries)
         /\ entries[i] = [shard |-> entries[i].shard, data |-> entries[i].data,
                         conf |-> entries[i].conf]
    BY <1>5, LeavesAre DEF Orderly
  <1>13. rec = Record(entries[i])
    BY <1>5, <1>10, <1>11, LeafOfShard
  <1>14. cert.data = entries[i].data /\ cert.conf = entries[i].conf
    BY <1>13 DEF Record
  <1>15. entries[i] = [shard |-> cert.shard, data |-> cert.data, conf |-> cert.conf]
    BY <1>7, <1>11, <1>12, <1>14
  <1> QED BY <1>2, <1>12, <1>15 DEF entries

\* The keys of orderly leaves tell them apart.
LEMMA KeysOfLeaves ==
    ASSUME NEW entries, Orderly(entries),
           NEW i \in 1..Len(entries), NEW j \in 1..Len(entries),
           Key(entries[i].shard) = Key(entries[j].shard)
    PROVE  i = j
  <1> DEFINE a == entries[i].shard
             b == entries[j].shard
  <1>1. a \in Nodes /\ b \in Nodes
    BY OrderlyIs
  <1> HIDE DEF a, b
  <1>2. /\ Used(a) \in Seq(Bit) /\ a = NewID(Used(a))
        /\ Used(b) \in Seq(Bit) /\ b = NewID(Used(b))
    BY <1>1, NodesAre
  <1>3. Key(NewID(Used(a))) = Key(NewID(Used(b)))
    BY <1>2 DEF a, b
  <1>4. Used(a) = Used(b)
    BY <1>2, <1>3, KeyDetermines
  <1>5. a = b
    BY <1>2, <1>4
  <1> QED BY <1>5, OrderlyIs DEF a, b

\* So orderly leaves are distinct, and a single one is of the empty shard.
LEMMA OrderlyIsDistinct ==
    ASSUME NEW view, Orderly(view.leaves)
    PROVE  Distinct(view)
  <1> DEFINE entries == view.leaves
             n == Len(entries)
             keys == {Key(id) : id \in IDsOf(entries)}
             f == [i \in 1..n |-> Key(entries[i].shard)]
  <1>1. /\ n \in Nat /\ DOMAIN entries = 1..n
        /\ \A i \in 1..n : entries[i].shard \in IDsOf(entries)
    BY LeavesAre DEF Orderly
  <1>2. \A id \in IDsOf(entries) : \E i \in 1..n : entries[i].shard = id
    BY <1>1 DEF IDsOf
  <1>3. \A i, j \in 1..n : Key(entries[i].shard) = Key(entries[j].shard) => i = j
    BY KeysOfLeaves
  <1>4. f \in Bijection(1..n, keys)
    <2>1. f \in [1..n -> keys]
      BY <1>1
    <2>2. \A y \in keys : \E i \in 1..n : f[i] = y
      BY <1>2
    <2>3. \A i, j \in 1..n : f[i] = f[j] => i = j
      BY <1>3
    <2> HIDE DEF f, keys
    <2> QED BY <2>1, <2>2, <2>3 DEF Bijection, Injection, Surjection, IsInjective
  <1>5. Cardinality(keys) = n
    <2>1. ExistsBijection(1..n, keys)
      BY <1>4 DEF ExistsBijection
    <2> HIDE DEF f, keys, n
    <2> QED BY <1>1, <2>1, FS_CountingElements
  <1>6. n = 1 => entries[1].shard.length = 0
    <2>1. n = 1 => entries[1].shard = EmptyID
      BY OrderlyIs
    <2>2. EmptyID.length = 0
      BY NodesAre
    <2> QED BY <2>1, <2>2
  <1> QED BY <1>5, <1>6 DEF Distinct

\* The structure of a view of the shards of the topology is valid.
LEMMA ValidStructure ==
    ASSUME NEW view, Orderly(view.leaves), ValidateBounds(view), NEW p, view.partition = p,
           NEW topo, topo.scheme \in Seq(Nodes), HasOrder(topo.scheme),
           All(topo.scheme) = IDsOf(view.leaves),
           \A i \in 1..Len(view.leaves) :
               Key(view.leaves[i].shard) \in DOMAIN topo.confs
                 => view.leaves[i].conf = topo.confs[Key(view.leaves[i].shard)]
    PROVE  ValidateStructure(view, p, topo)
  <1> DEFINE entries == view.leaves
             sharding == topo.scheme
             o == CanonicalOrder(sharding)
             q == ShardsOf(entries)
             n == Len(entries)
  <1>1. /\ o \in Seq(Identifiers) /\ InIDOrder(o) /\ Listed(o) = All(sharding) /\ Unrepeated(o)
    BY CanonicalIs DEF HasOrder
  <1>2. /\ n \in Nat /\ q \in Seq(Identifiers) /\ Len(q) = n /\ Listed(q) = IDsOf(entries)
        /\ \A i \in 1..n : q[i] = entries[i].shard
    BY LeavesAre DEF Orderly
  <1>3. InIDOrder(q) /\ Unrepeated(q)
    BY OrderlyIs
  <1>4. ValidateBounds(view)
    OBVIOUS
  <1> HIDE DEF o, q, n
  <1>5. o = q
    BY <1>1, <1>2, <1>3, OneOrder
  <1>6. n = Len(o) /\ DOMAIN o = 1..n
    BY <1>1, <1>2, <1>5
  <1>7. ASSUME NEW i \in DOMAIN o
        PROVE  /\ entries[i].shard = o[i]
               /\ Key(o[i]) \in DOMAIN topo.confs => entries[i].conf = topo.confs[Key(o[i])]
    <2>1. i \in 1..n /\ o[i] = entries[i].shard
      BY <1>2, <1>5, <1>6
    <2> QED BY <2>1 DEF n
  <1> QED BY <1>4, <1>6, <1>7 DEF ValidateStructure, o, n

\* The honest view of a round and any of its certificates are authenticated.
LEMMA HonestIsAuthentic ==
    ASSUME NEW r \in Rounds, NEW p \in DOMAIN Chain[r], NEW id \in IDsOf(Chain[r][p]),
           NEW view, view = HonestView(r, p),
           NEW enclosing, enclosing = Issue(Chain[r], p, id, Seals[r]),
           NEW pins \in Pins,
           \/ pins = NoPins
           \/ /\ All(pins.scheme) = IDsOf(Chain[r][p])
              /\ CheckCompletePins(pins)
              /\ \A s \in All(pins.scheme) : LeafOf(Chain[r][p], s).conf = pins.confs[Key(s)]
    PROVE  Authentic(view, enclosing, p, pins)
  <1> DEFINE entries == view.leaves
             n == Len(entries)
             topo == ClaimedTopology(view)
             grown == ShardTreeOf(entries)
  <1>1. entries = Chain[r][p] /\ view.partition = p
    BY DEF HonestView
  <1>2. /\ Orderly(entries) /\ NonEmptyShards(entries) \in Seq(Nodes)
        /\ HasOrder(NonEmptyShards(entries))
        /\ ShardsOf(entries) = CanonicalOrder(NonEmptyShards(entries))
        /\ \A i \in 1..n : entries[i].data \in ValidData
    BY <1>1, ForestIs
  <1>3. /\ n \in Nat /\ DOMAIN entries = 1..n /\ Listed(ShardsOf(entries)) = IDsOf(entries)
        /\ \A i \in 1..n : entries[i].shard \in IDsOf(entries)
    BY <1>2, LeavesAre DEF Orderly
  <1>4. PICK i \in 1..n : id = entries[i].shard
    BY <1>1, <1>3 DEF IDsOf
  <1>5. ValidateBounds(view) /\ Distinct(view)
    <2>1. n \in 1..MaxLeaves /\ \A k \in 1..n : entries[k].shard.length <= MaxShardIDBits
      BY <1>2, OrderlyIs
    <2>2. ValidateBounds(view)
      <3>1. p # 0
        BY ChainAssumption
      <3>2. \A k \in 1..n : LeafBounds(entries[k])
        BY <1>2, <2>1 DEF LeafBounds
      <3> QED BY <1>1, <1>3, <2>1, <3>1, <3>2 DEF ValidateBounds
    <2> QED BY <1>2, <2>2, OrderlyIsDistinct
  <1>6. ASSUME pins # NoPins PROVE CheckCompletePins(pins) /\ ValidateStructure(view, p, pins)
    <2>1. /\ All(pins.scheme) = IDsOf(entries) /\ CheckCompletePins(pins)
          /\ \A s \in All(pins.scheme) : LeafOf(entries, s).conf = pins.confs[Key(s)]
      BY <1>1, <1>6
    <2>2. pins.scheme \in Seq(Nodes) /\ HasOrder(pins.scheme)
      BY <2>1, PinsAssumption DEF CheckCompletePins
    <2>3. \A k \in 1..n : entries[k].conf = pins.confs[Key(entries[k].shard)]
      BY <1>2, <1>3, <2>1, LeafOfShard
    <2> HIDE DEF entries, n
    <2>4. /\ Orderly(view.leaves) /\ All(pins.scheme) = IDsOf(view.leaves)
          /\ \A k \in 1..Len(view.leaves) :
               view.leaves[k].conf = pins.confs[Key(view.leaves[k].shard)]
      BY <1>2, <2>1, <2>3 DEF entries, n
    <2> QED BY <1>1, <1>5, <2>1, <2>2, <2>4, ValidStructure
  <1>7. topo.scheme = NonEmptyShards(entries)
    BY DEF ClaimedTopology
  <1>8. \A k \in 1..n : entries[k].conf = topo.confs[Key(entries[k].shard)]
    <2> SUFFICES ASSUME NEW k \in 1..n PROVE entries[k].conf = topo.confs[Key(entries[k].shard)]
      OBVIOUS
    <2> DEFINE key == Key(entries[k].shard)
               c == CHOOSE j \in DOMAIN entries : Key(entries[j].shard) = key
    <2>1. c \in 1..n /\ Key(entries[c].shard) = key
      BY <1>3
    <2>2. key \in {Key(x) : x \in IDsOf(entries)}
      BY <1>3
    <2>3. topo.confs[key] = entries[c].conf
      BY <2>2 DEF ClaimedTopology
    <2> HIDE DEF c
    <2>4. c = k
      BY <1>2, <2>1, KeysOfLeaves
    <2> QED BY <2>3, <2>4
  <1>9. ValidateStructure(view, p, topo)
    <2>1. All(topo.scheme) = IDsOf(entries)
      BY <1>2, <1>3, <1>7, CanonicalIs
    <2>2. topo.scheme \in Seq(Nodes) /\ HasOrder(topo.scheme)
      BY <1>2, <1>7
    <2> HIDE DEF topo
    <2> QED BY <1>1, <1>2, <1>5, <1>8, <2>1, <2>2, ValidStructure
  <1>10. OfLeaf(enclosing, r, p, i)
    BY <1>1, <1>4, IssuedIs
  <1>11. LeafOf(entries, id) = entries[i]
    BY <1>2, <1>4, LeafOfShard
  <1>12. enclosing = [shard |-> id, siblings |-> SiblingHashes(grown, id),
                      data |-> entries[i].data, conf |-> entries[i].conf,
                      partition |-> p, steps |-> Path(r, p), seal |-> Seals[r]]
    BY <1>1, <1>4, <1>10 DEF OfLeaf
  <1>13. /\ enclosing.shard = id /\ enclosing.partition = p
         /\ enclosing.siblings = SiblingHashes(grown, id)
         /\ enclosing.data = entries[i].data /\ enclosing.conf = entries[i].conf
    BY <1>12
  <1>14. /\ EvalAuthPath(enclosing, RootHash(grown)) = enclosing.seal.hash
         /\ IsValidCertificate([shard |-> enclosing.shard, siblings |-> enclosing.siblings], id)
         /\ enclosing.seal \in Certified
    BY <1>1, <1>10, <1>13 DEF OfLeaf
  <1>15. VerifyTree(view, enclosing, p, topo)
    <2>1. IsValid(enclosing, p, id, entries[i].conf)
      BY <1>13, <1>14 DEF IsValid
    <2>2. Certificate(grown, id).siblings = enclosing.siblings
      BY <1>13 DEF Certificate
    <2>3. id \in IDsOf(entries) /\ entries[i].shard = id
      BY <1>3, <1>4
    <2> HIDE DEF topo, grown
    <2> QED BY <1>1, <1>9, <1>11, <1>13, <1>14, <2>1, <2>2, <2>3 DEF VerifyTree, grown
  <1> QED BY <1>5, <1>6, <1>14, <1>15 DEF Authentic

-------------------------------------------------------------------------------
(* The inductive invariant. *)

Refs == {Candidate, Private, Handed}
Views == [partition : Partitions \cup {0}, leaves : Seq(Held)]

\* The parts of a certificate, each of some issued one but for the seal.
CertTyped(c) ==
    /\ c = [shard |-> c.shard, siblings |-> c.siblings, data |-> c.data, conf |-> c.conf,
            partition |-> c.partition, steps |-> c.steps, seal |-> c.seal]
    /\ c.shard \in Nodes /\ IsSteps(c.steps)

\* The authenticated view is of a round, and so are the parts of the result.
Committed(a, view) ==
    /\ a.view = Private
    /\ a.tree = ShardTreeOf(view.leaves)
    /\ \E r \in Rounds : /\ a.seal = Seals[r]
                         /\ a.partition \in DOMAIN Chain[r]
                         /\ view = HonestView(r, a.partition)
                         /\ a.steps = Path(r, a.partition)

Pinned(pins, entries) ==
    /\ IDsOf(entries) = All(pins.scheme)
    /\ \A i \in DOMAIN entries : LET key == Key(entries[i].shard) IN
         key \in DOMAIN pins.confs /\ entries[i].conf = pins.confs[key]

ResultInv ==
    result # << >> =>
        /\ Committed(result[1], memory[Private])
        /\ result[1].pins # NoPins => Pinned(result[1].pins, memory[Private].leaves)

\* What is derived is what the chain issues.
DerivedInv ==
    derived # << >> =>
        \E r \in Rounds : \E p \in DOMAIN Chain[r] : \E id \in IDsOf(Chain[r][p]) :
            derived[1] = Issue(Chain[r], p, id, Seals[r])

ViewInv ==
    /\ memory \in [Refs -> Views]
    /\ CertTyped(uc)
    /\ ResultInv
    /\ DerivedInv

\* The references are three.
LEMMA RefsDiffer ==
    /\ Candidate # Private /\ Candidate # Handed /\ Private # Handed
    /\ Candidate \in Refs /\ Private \in Refs /\ Handed \in Refs
  BY DEF Candidate, Private, Handed, Refs

\* A changed view has leaves again.
LEMMA ChangedIs ==
    ASSUME NEW entries \in Seq(Held), NEW new \in Changed(entries)
    PROVE  new \in Seq(Held)
  <1> DEFINE n == Len(entries)
  <1>1. n \in Nat /\ DOMAIN entries = 1..n /\ entries \in [1..n -> Held]
    OBVIOUS
  <1> HIDE DEF n
  <1>2. \A f \in [1..n -> Held] : f \in Seq(Held)
    BY <1>1
  <1>3. ASSUME NEW i \in 1..n, NEW d \in Data PROVE [entries EXCEPT ![i].data = d] \in Seq(Held)
    <2>1. entries[i] \in Held
      BY <1>1
    <2>2. [entries[i] EXCEPT !.data = d] \in Held
      BY <2>1 DEF Held
    <2>3. [entries EXCEPT ![i].data = d] \in [1..n -> Held]
      BY <1>1, <2>2
    <2> QED BY <1>2, <2>3
  <1>4. ASSUME NEW i \in 1..n, NEW c \in Confs PROVE [entries EXCEPT ![i].conf = c] \in Seq(Held)
    <2>1. entries[i] \in Held
      BY <1>1
    <2>2. [entries[i] EXCEPT !.conf = c] \in Held
      BY <2>1 DEF Held
    <2>3. [entries EXCEPT ![i].conf = c] \in [1..n -> Held]
      BY <1>1, <2>2
    <2> QED BY <1>2, <2>3
  <1>5. ASSUME NEW i \in 1..n, NEW j \in 1..n
        PROVE  [entries EXCEPT ![i] = entries[j], ![j] = entries[i]] \in Seq(Held)
    <2>1. entries[i] \in Held /\ entries[j] \in Held
      BY <1>1
    <2>2. [entries EXCEPT ![i] = entries[j]] \in [1..n -> Held]
      BY <1>1, <2>1
    <2>3. [entries EXCEPT ![i] = entries[j], ![j] = entries[i]] \in [1..n -> Held]
      BY <1>1, <2>1, <2>2
    <2> QED BY <1>2, <2>3
  <1>6. ASSUME NEW i \in 1..n
        PROVE  SubSeq(entries, 1, i - 1) \o SubSeq(entries, i + 1, Len(entries)) \in Seq(Held)
    <2>1. SubSeq(entries, 1, i - 1) \in Seq(Held)
      <3>1. i - 1 \in 0..Len(entries)
        BY <1>1 DEF n
      <3> DEFINE m == i - 1
      <3> HIDE DEF m
      <3>2. m \in 0..Len(entries)
        BY <3>1 DEF m
      <3>3. SubSeq(entries, 1, m) \in Seq(Held)
        BY <3>2
      <3> QED BY <3>3 DEF m
    <2>2. SubSeq(entries, i + 1, Len(entries)) \in Seq(Held)
      <3>1. \A k \in (i + 1)..Len(entries) : entries[k] \in Held
        BY <1>1 DEF n
      <3>2. i + 1 \in Nat /\ Len(entries) \in Nat
        BY <1>1 DEF n
      <3> DEFINE m == i + 1
      <3> HIDE DEF m
      <3>3. (\A k \in m..Len(entries) : entries[k] \in Held) /\ m \in Nat
        BY <3>1, <3>2 DEF m
      <3>4. SubSeq(entries, m, Len(entries)) \in Seq(Held)
        BY <3>2, <3>3
      <3> QED BY <3>4 DEF m
    <2> DEFINE x == SubSeq(entries, 1, i - 1)
               y == SubSeq(entries, i + 1, Len(entries))
    <2>3. x \in Seq(Held) /\ y \in Seq(Held)
      BY <2>1, <2>2
    <2> HIDE DEF x, y
    <2>4. x \o y \in Seq(Held)
      BY <2>3
    <2> QED BY <2>4 DEF x, y
  <1>7. ASSUME NEW i \in 1..n, NEW h \in Identifiers
        PROVE  [entries EXCEPT ![i].shard = h] \in Seq(Held)
    <2>1. entries[i] \in Held
      BY <1>1
    <2>2. [entries[i] EXCEPT !.shard = h] \in Held
      BY <2>1 DEF Held
    <2>3. [entries EXCEPT ![i].shard = h] \in [1..n -> Held]
      BY <1>1, <2>2
    <2> QED BY <1>2, <2>3
  <1>8. ASSUME NEW j \in 1..n
        PROVE  entries[j].shard \in Identifiers /\ Split(entries[j].shard)[2] \in Identifiers
    <2>1. entries[j].shard \in Identifiers
      BY <1>1 DEF Held
    <2> DEFINE id == entries[j].shard
               s == Used(id)
    <2> HIDE DEF id
    <2>2. s \in Seq(Bit) /\ id = NewID(s)
      BY <2>1, IdentifierOfUsed DEF id
    <2> HIDE DEF s
    <2>3. Split(id) = <<NewID(Append(s, 0)), NewID(Append(s, 1))>>
      BY <2>2, SplitIs
    <2>4. Append(s, 1) \in Seq(Bit)
      BY <2>2 DEF Bit
    <2>5. NewID(Append(s, 1)) \in Identifiers
      BY <2>4 DEF Identifiers
    <2> QED BY <2>1, <2>3, <2>5 DEF id
  <1>9. ASSUME NEW i \in 1..n PROVE Append(entries, entries[i]) \in Seq(Held)
    BY <1>1
  <1> DEFINE D == DOMAIN entries
             A1 == {[entries EXCEPT ![i].data = d] : i \in D, d \in Data}
             A2 == {[entries EXCEPT ![i].conf = c] : i \in D, c \in Confs}
             A3 == {[entries EXCEPT ![i] = entries[j], ![j] = entries[i]] : i, j \in D}
             A4 == {SubSeq(entries, 1, i - 1) \o SubSeq(entries, i + 1, Len(entries)) : i \in D}
             shards == UNION {{entries[j].shard, Split(entries[j].shard)[2]} : j \in D}
             A5 == {[entries EXCEPT ![i].shard = h] : i \in D, h \in shards}
             A6 == {Append(entries, entries[i]) : i \in D}
  <1>10. new \in A1 \/ new \in A2 \/ new \in A3 \/ new \in A4 \/ new \in A5 \/ new \in A6
    <2>1. Changed(entries) = A1 \cup A2 \cup A3 \cup A4 \cup A5 \cup A6
      BY DEF Changed
    <2> HIDE DEF A1, A2, A3, A4, A5, A6
    <2> QED BY <2>1
  <1>11. CASE new \in A1
    BY <1>1, <1>3, <1>11
  <1>12. CASE new \in A2
    BY <1>1, <1>4, <1>12
  <1>13. CASE new \in A3
    BY <1>1, <1>5, <1>13
  <1>14. CASE new \in A4
    BY <1>1, <1>6, <1>14
  <1>15. CASE new \in A5
    <2>1. \A h \in shards : h \in Identifiers
      BY <1>1, <1>8
    <2> HIDE DEF shards
    <2>2. \E i \in D : \E h \in shards : new = [entries EXCEPT ![i].shard = h]
      BY <1>15
    <2>3. PICK i \in D, h \in shards : new = [entries EXCEPT ![i].shard = h]
      BY <2>2
    <2>4. h \in Identifiers /\ i \in 1..n
      BY <1>1, <2>1
    <2> QED BY <1>7, <2>3, <2>4
  <1>16. CASE new \in A6
    BY <1>1, <1>9, <1>16
  <1> HIDE DEF A1, A2, A3, A4, A5, A6
  <1> QED BY <1>10, <1>11, <1>12, <1>13, <1>14, <1>15, <1>16

\* The certificates the chain has issued.
LEMMA IssuedTyped ==
    ASSUME NEW r \in Rounds, NEW p \in DOMAIN Chain[r], NEW id \in IDsOf(Chain[r][p])
    PROVE  /\ Issued[r][p][id] = Issue(Chain[r], p, id, Seals[r])
           /\ CertTyped(Issued[r][p][id])
  <1> DEFINE entries == Chain[r][p]
             c == Issue(Chain[r], p, id, Seals[r])
  <1>1. Issued[r][p][id] = c
    BY DEF Issued
  <1>2. PICK i \in 1..Len(entries) : id = entries[i].shard
    <2>1. DOMAIN entries = 1..Len(entries)
      BY ForestIs, LeavesAre DEF Orderly
    <2> QED BY <2>1 DEF IDsOf
  <1>3. c.shard = id /\ c = [shard |-> c.shard, siblings |-> c.siblings, data |-> c.data,
          conf |-> c.conf, partition |-> c.partition, steps |-> c.steps, seal |-> c.seal]
    BY DEF Issue, Certificate, UnicityTreeCertificate
  <1> HIDE DEF c
  <1>4. OfLeaf(c, r, p, i)
    BY <1>2, IssuedIs DEF c
  <1>5. c.shard \in Nodes /\ IsSteps(c.steps)
    BY <1>4 DEF OfLeaf
  <1> QED BY <1>1, <1>3, <1>5 DEF CertTyped, c

\* A certificate with a part of another, or with another root in its seal.
LEMMA ChangedCertificate ==
    ASSUME NEW c, CertTyped(c), NEW o, CertTyped(o), NEW x, NEW new,
           \/ new = [c EXCEPT !.shard = o.shard]
           \/ new = [c EXCEPT !.siblings = o.siblings]
           \/ new = [c EXCEPT !.shard = o.shard, !.siblings = o.siblings]
           \/ new = [c EXCEPT !.data = o.data, !.conf = o.conf]
           \/ new = [c EXCEPT !.partition = o.partition]
           \/ new = [c EXCEPT !.steps = o.steps]
           \/ new = [c EXCEPT !.seal = x]
    PROVE  CertTyped(new)
  <1>1. /\ c = [shard |-> c.shard, siblings |-> c.siblings, data |-> c.data, conf |-> c.conf,
                partition |-> c.partition, steps |-> c.steps, seal |-> c.seal]
        /\ c.shard \in Nodes /\ IsSteps(c.steps) /\ o.shard \in Nodes /\ IsSteps(o.steps)
    BY DEF CertTyped
  <1>2. new = [shard |-> new.shard, siblings |-> new.siblings, data |-> new.data,
               conf |-> new.conf, partition |-> new.partition, steps |-> new.steps,
               seal |-> new.seal]
    BY <1>1
  <1>3. (new.shard = c.shard \/ new.shard = o.shard) /\ (new.steps = c.steps \/ new.steps = o.steps)
    BY <1>1
  <1> QED BY <1>1, <1>2, <1>3 DEF CertTyped

LEMMA ViewInvInit ==
    Init => ViewInv
  <1> SUFFICES ASSUME Init PROVE ViewInv
    OBVIOUS
  <1>1. result = << >> /\ derived = << >>
    BY DEF Init
  <1>2. PICK r \in Rounds, s \in Rounds : \E p \in DOMAIN Chain[r], q \in DOMAIN Chain[s] :
          /\ memory = [ref \in Refs |-> HonestView(r, p)]
          /\ \E id \in IDsOf(Chain[s][q]) : uc = Issued[s][q][id]
    BY DEF Init, Refs
  <1>3. PICK p \in DOMAIN Chain[r], q \in DOMAIN Chain[s] :
          /\ memory = [ref \in Refs |-> HonestView(r, p)]
          /\ \E id \in IDsOf(Chain[s][q]) : uc = Issued[s][q][id]
    BY <1>2
  <1>4. memory \in [Refs -> Views]
    <2>1. Chain[r][p] \in Seq(Held)
      BY ForestIs DEF Orderly
    <2>2. p \in Partitions
      BY DEF Partitions
    <2>3. HonestView(r, p) \in Views
      BY <2>1, <2>2 DEF HonestView, Views
    <2> QED BY <1>3, <2>3
  <1>5. CertTyped(uc)
    BY <1>3, IssuedTyped
  <1> QED BY <1>1, <1>4, <1>5 DEF ViewInv, ResultInv, DerivedInv

\* A change of a view the caller has leaves the private one as it is.
LEMMA ChangeViewKeeps ==
    ASSUME ViewInv, NEW ref \in {Candidate, Handed}, ChangeView(ref)
    PROVE  ViewInv'
  <1>1. memory \in [Refs -> Views] /\ ref \in Refs /\ ref # Private
    BY RefsDiffer DEF ViewInv
  <1>2. PICK view \in Views : memory' = [memory EXCEPT ![ref] = view]
    <2>1. memory[ref] \in Views /\ memory[ref].leaves \in Seq(Held)
      BY <1>1 DEF Views
    <2>2. CASE \E entries \in Changed(memory[ref].leaves) :
                 memory' = [memory EXCEPT ![ref].leaves = entries]
      <3>1. PICK entries \in Changed(memory[ref].leaves) :
              memory' = [memory EXCEPT ![ref].leaves = entries]
        BY <2>2
      <3>2. [memory[ref] EXCEPT !.leaves = entries] \in Views
        BY <2>1, ChangedIs DEF Views
      <3> QED BY <3>1, <3>2
    <2>3. CASE \E p \in Partitions \cup {0} : memory' = [memory EXCEPT ![ref].partition = p]
      <3>1. PICK p \in Partitions \cup {0} : memory' = [memory EXCEPT ![ref].partition = p]
        BY <2>3
      <3>2. [memory[ref] EXCEPT !.partition = p] \in Views
        BY <2>1 DEF Views
      <3> QED BY <3>1, <3>2
    <2> QED BY <2>2, <2>3 DEF ChangeView
  <1>3. UNCHANGED <<uc, result, derived>>
    BY DEF ChangeView
  <1>5. memory' \in [Refs -> Views]
    BY <1>1, <1>2
  <1>6. memory'[Private] = memory[Private]
    BY <1>1, <1>2, RefsDiffer
  <1> QED BY <1>3, <1>5, <1>6 DEF ViewInv, ResultInv, DerivedInv

\* A change of the certificate leaves it one.
LEMMA ChangeUCKeeps ==
    ASSUME ViewInv, ChangeUC
    PROVE  ViewInv'
  <1>1. UNCHANGED <<memory, result, derived>>
    BY DEF ChangeUC
  <1>2. CertTyped(uc)
    BY DEF ViewInv
  <1>3. \/ \E r \in Rounds : \E p \in DOMAIN Chain[r] : \E id \in IDsOf(Chain[r][p]) :
             LET o == Issued[r][p][id] IN
             \/ uc' = [uc EXCEPT !.shard = o.shard]
             \/ uc' = [uc EXCEPT !.siblings = o.siblings]
             \/ uc' = [uc EXCEPT !.shard = o.shard, !.siblings = o.siblings]
             \/ uc' = [uc EXCEPT !.data = o.data, !.conf = o.conf]
             \/ uc' = [uc EXCEPT !.partition = o.partition]
             \/ uc' = [uc EXCEPT !.steps = o.steps]
             \/ uc' = [uc EXCEPT !.seal = o.seal]
        \/ \E h : uc' = [uc EXCEPT !.seal.hash = h]
    BY DEF ChangeUC
  <1>4. CertTyped(uc')
    <2>1. CASE \E h : uc' = [uc EXCEPT !.seal.hash = h]
      <3>1. \E x : uc' = [uc EXCEPT !.seal = x]
        BY <2>1
      <3> QED BY <1>2, <3>1, ChangedCertificate
    <2>2. CASE \E r \in Rounds : \E p \in DOMAIN Chain[r] : \E id \in IDsOf(Chain[r][p]) :
             LET o == Issued[r][p][id] IN
             \/ uc' = [uc EXCEPT !.shard = o.shard]
             \/ uc' = [uc EXCEPT !.siblings = o.siblings]
             \/ uc' = [uc EXCEPT !.shard = o.shard, !.siblings = o.siblings]
             \/ uc' = [uc EXCEPT !.data = o.data, !.conf = o.conf]
             \/ uc' = [uc EXCEPT !.partition = o.partition]
             \/ uc' = [uc EXCEPT !.steps = o.steps]
             \/ uc' = [uc EXCEPT !.seal = o.seal]
      <3>1. PICK o : /\ CertTyped(o)
                     /\ \/ uc' = [uc EXCEPT !.shard = o.shard]
                        \/ uc' = [uc EXCEPT !.siblings = o.siblings]
                        \/ uc' = [uc EXCEPT !.shard = o.shard, !.siblings = o.siblings]
                        \/ uc' = [uc EXCEPT !.data = o.data, !.conf = o.conf]
                        \/ uc' = [uc EXCEPT !.partition = o.partition]
                        \/ uc' = [uc EXCEPT !.steps = o.steps]
                        \/ uc' = [uc EXCEPT !.seal = o.seal]
        BY <2>2, IssuedTyped
      <3> QED BY <1>2, <3>1, ChangedCertificate
    <2> QED BY <1>3, <2>1, <2>2
  <1> QED BY <1>1, <1>4 DEF ViewInv, ResultInv, DerivedInv

\* What is authenticated is committed.
LEMMA AuthenticateKeeps ==
    ASSUME ViewInv, NEW p \in Partitions, NEW pins \in Pins, AuthenticateView(p, pins)
    PROVE  ViewInv'
  <1> DEFINE view == memory[Candidate]
             a == [partition |-> p, view |-> Private, pins |-> pins,
                   tree |-> ShardTreeOf(view.leaves), seal |-> uc.seal, steps |-> uc.steps]
  <1>1. /\ Authentic(view, uc, p, pins) /\ result' = <<a>>
        /\ memory' = [memory EXCEPT ![Private] = view, ![Handed] = view]
        /\ UNCHANGED <<uc, derived, changes>>
    BY DEF AuthenticateView
  <1>2. memory \in [Refs -> Views] /\ view \in Views /\ IsSteps(uc.steps)
    BY RefsDiffer DEF ViewInv, CertTyped
  <1>3. view = [partition |-> view.partition, leaves |-> view.leaves] /\ view.leaves \in Seq(Held)
    BY <1>2 DEF Views
  <1>4. memory' \in [Refs -> Views] /\ memory'[Private] = view
    BY <1>1, <1>2, RefsDiffer
  <1> HIDE DEF view
  <1>5. /\ Orderly(view.leaves) /\ view.partition = p
        /\ \E r \in Rounds : /\ uc.seal = Seals[r]
                             /\ p \in DOMAIN Chain[r]
                             /\ view.leaves = Chain[r][p]
                             /\ uc.steps = Path(r, p)
    BY <1>1, <1>2, <1>3, AuthenticIs
  <1>6. Committed(a, view)
    <2>1. PICK r \in Rounds : /\ uc.seal = Seals[r]
                              /\ p \in DOMAIN Chain[r]
                              /\ view.leaves = Chain[r][p]
                              /\ uc.steps = Path(r, p)
      BY <1>5
    <2>2. view = HonestView(r, p)
      BY <1>3, <1>5, <2>1 DEF HonestView
    <2>3. /\ a.view = Private /\ a.tree = ShardTreeOf(view.leaves)
          /\ a.seal = uc.seal /\ a.partition = p /\ a.steps = uc.steps
      OBVIOUS
    <2> HIDE DEF a
    <2> QED BY <2>1, <2>2, <2>3 DEF Committed
  <1>7. pins # NoPins => Pinned(pins, view.leaves)
    <2> SUFFICES ASSUME pins # NoPins PROVE Pinned(pins, view.leaves)
      OBVIOUS
    <2>1. DOMAIN view.leaves = 1..Len(view.leaves)
      BY <1>3, LeavesAre
    <2>2. /\ IDsOf(view.leaves) = All(pins.scheme)
          /\ \A i \in 1..Len(view.leaves) : LET key == Key(view.leaves[i].shard) IN
               key \in DOMAIN pins.confs /\ view.leaves[i].conf = pins.confs[key]
      BY <1>1, <1>3, PinnedIs
    <2> QED BY <2>1, <2>2 DEF Pinned
  <1>8. a.pins = pins
    OBVIOUS
  <1> HIDE DEF a
  <1>9. result'[1] = a
    BY <1>1
  <1>10. ResultInv'
    BY <1>4, <1>6, <1>7, <1>8, <1>9 DEF ResultInv
  <1> QED BY <1>1, <1>4, <1>10 DEF ViewInv, DerivedInv, CertTyped

\* What is derived is issued.
LEMMA DeriveKeeps ==
    ASSUME ViewInv, NEW id, Derive(id)
    PROVE  ViewInv'
  <1> DEFINE a == result[1]
             entries == memory[Private].leaves
  <1>1. /\ result # << >> /\ id \in IDsOf(memory[a.view].leaves)
        /\ derived' = <<CertificateOf(a, id)>>
        /\ UNCHANGED <<memory, uc, result, changes>>
    BY DEF Derive
  <1>2. Committed(a, memory[Private])
    BY <1>1 DEF ViewInv, ResultInv
  <1>3. a.view = Private /\ a.tree = ShardTreeOf(entries)
    BY <1>2 DEF Committed
  <1>4. PICK r \in Rounds : /\ a.seal = Seals[r]
                            /\ a.partition \in DOMAIN Chain[r]
                            /\ memory[Private] = HonestView(r, a.partition)
                            /\ a.steps = Path(r, a.partition)
    BY <1>2 DEF Committed
  <1>5. entries = Chain[r][a.partition]
    BY <1>4 DEF HonestView
  <1>6. id \in IDsOf(Chain[r][a.partition])
    BY <1>1, <1>3, <1>5
  <1>7. CertificateOf(a, id) = Issue(Chain[r], a.partition, id, Seals[r])
    <2>1. CertificateOf(a, id) =
            [shard |-> id, siblings |-> SiblingHashes(ShardTreeOf(entries), id),
             data |-> LeafOf(entries, id).data, conf |-> LeafOf(entries, id).conf,
             partition |-> a.partition, steps |-> a.steps, seal |-> a.seal]
      BY <1>3 DEF CertificateOf, Certificate
    <2>2. Issue(Chain[r], a.partition, id, Seals[r]) =
            [shard |-> id, siblings |-> SiblingHashes(ShardTreeOf(entries), id),
             data |-> LeafOf(entries, id).data, conf |-> LeafOf(entries, id).conf,
             partition |-> a.partition, steps |-> Path(r, a.partition), seal |-> Seals[r]]
      BY <1>5 DEF Issue, Certificate, UnicityTreeCertificate, Path
    <2> QED BY <1>4, <2>1, <2>2
  <1>8. DerivedInv'
    BY <1>1, <1>4, <1>6, <1>7 DEF DerivedInv
  <1> QED BY <1>1, <1>8 DEF ViewInv, ResultInv

(***************************************************************************)
(* The inductive invariant: views are lists of leaves, the certificate has *)
(* parts of certificates, what has been authenticated is of one certified  *)
(* round, and what has been derived from it is what the chain issues.      *)
(***************************************************************************)
THEOREM ViewInvariant == Spec => []ViewInv
  <1>1. ViewInv /\ [Next]_vars => ViewInv'
    <2> SUFFICES ASSUME ViewInv, [Next]_vars PROVE ViewInv'
      OBVIOUS
    <2>1. CASE ChangeView(Candidate)
      BY <2>1, ChangeViewKeeps
    <2>2. CASE ChangeView(Handed)
      BY <2>2, ChangeViewKeeps
    <2>3. CASE ChangeUC
      BY <2>3, ChangeUCKeeps
    <2>4. ASSUME NEW p \in Partitions, NEW pins \in Pins, AuthenticateView(p, pins)
          PROVE  ViewInv'
      BY <2>4, AuthenticateKeeps
    <2>5. ASSUME NEW id, Derive(id) PROVE ViewInv'
      BY <2>5, DeriveKeeps
    <2>6. CASE UNCHANGED vars
      BY <2>6 DEF vars, ViewInv, ResultInv, DerivedInv, CertTyped
    <2> QED BY <2>1, <2>2, <2>3, <2>4, <2>5, <2>6 DEF Next
  <1> QED BY ViewInvInit, <1>1, PTL DEF Spec

(***************************************************************************)
(* Whatever the caller does to its objects, an authenticated view is what  *)
(* one certified round has committed to for the partition, all of its      *)
(* shards in order (AuthenticateView): of any chain of forests of any      *)
(* number of partitions and shards.                                        *)
(***************************************************************************)
THEOREM AuthenticatedIsCommittedHolds == Spec => []AuthenticatedIsCommitted
  <1>1. ViewInv => AuthenticatedIsCommitted
    BY DEF ViewInv, ResultInv, Committed, AuthenticatedIsCommitted
  <1> QED BY ViewInvariant, <1>1, PTL

(***************************************************************************)
(* A view authenticated under pins has all of their shards and their       *)
(* configuration hashes (WithPinnedTopology, checkCompletePins).           *)
(***************************************************************************)
THEOREM PinsHoldHolds == Spec => []PinsHold
  <1>1. ViewInv => PinsHold
    <2> SUFFICES ASSUME ViewInv, result # << >>, result[1].pins # NoPins
                 PROVE  Pinned(result[1].pins, memory[result[1].view].leaves)
      BY DEF PinsHold, Pinned
    <2>1. /\ Pinned(result[1].pins, memory[Private].leaves)
          /\ result[1].view = Private
      BY DEF ViewInv, ResultInv, Committed
    <2> QED BY <2>1
  <1> QED BY ViewInvariant, <1>1, PTL

(***************************************************************************)
(* Every certificate derived from an authenticated view is the one the     *)
(* root chain issues for the shard, and it verifies                        *)
(* (AuthenticatedPartitionView.certificate, UnicityCertificate.Verify).    *)
(***************************************************************************)
THEOREM DerivedIsIssuedHolds == Spec => []DerivedIsIssued
  <1>1. ViewInv => DerivedIsIssued
    <2> SUFFICES ASSUME ViewInv, derived # << >>
                 PROVE  /\ derived[1] = Issued[derived[1].seal.round]
                                              [derived[1].partition][derived[1].shard]
                        /\ Verify(derived[1], derived[1].partition, derived[1].shard,
                                  derived[1].conf, Certified)
      BY DEF DerivedIsIssued
    <2> DEFINE c == derived[1]
    <2>1. PICK r \in Rounds : \E p \in DOMAIN Chain[r] : \E id \in IDsOf(Chain[r][p]) :
            c = Issue(Chain[r], p, id, Seals[r])
      BY DEF ViewInv, DerivedInv
    <2>2. PICK p \in DOMAIN Chain[r] : \E id \in IDsOf(Chain[r][p]) :
            c = Issue(Chain[r], p, id, Seals[r])
      BY <2>1
    <2>5. PICK id \in IDsOf(Chain[r][p]) : c = Issue(Chain[r], p, id, Seals[r])
      BY <2>2
    <2> HIDE DEF c
    <2>3. /\ c.seal.round = r /\ c.partition = p /\ c.shard = id
          /\ Verify(c, p, id, c.conf, Certified)
      BY <2>5, IssuedVerifies
    <2>4. c = Issued[r][p][id]
      BY <2>5, IssuedTyped
    <2> QED BY <2>3, <2>4 DEF c
  <1> QED BY ViewInvariant, <1>1, PTL

(***************************************************************************)
(* The honest view of any round with any certificate of it is accepted,    *)
(* also under pins that list its shards in another order                   *)
(* (AuthenticateView, CanonicalShardOrder).                                *)
(***************************************************************************)
THEOREM HonestAcceptedHolds == Spec => []HonestAccepted
  <1>1. HonestAccepted
    <2> SUFFICES ASSUME NEW r \in Rounds, NEW p \in DOMAIN Chain[r],
                        NEW id \in IDsOf(Chain[r][p]),
                        memory[Candidate] = HonestView(r, p), uc = Issued[r][p][id],
                        NEW pins \in Pins,
                        \/ pins = NoPins
                        \/ /\ All(pins.scheme) = IDsOf(Chain[r][p])
                           /\ CheckCompletePins(pins)
                           /\ \A s \in All(pins.scheme) :
                                LeafOf(Chain[r][p], s).conf = pins.confs[Key(s)]
                 PROVE  Authentic(memory[Candidate], uc, p, pins)
      BY DEF HonestAccepted
    <2>1. uc = Issue(Chain[r], p, id, Seals[r])
      BY IssuedTyped
    <2> QED BY <2>1, HonestIsAuthentic
  <1> QED BY <1>1, PTL

(***************************************************************************)
(* A certificate that verifies is of a leaf the round of its seal has      *)
(* committed to, wherever its parts are from (UnicityCertificate.Verify).  *)
(***************************************************************************)
THEOREM VerifiedIsCommittedHolds == Spec => []VerifiedIsCommitted
  <1>1. ViewInv => VerifiedIsCommitted
    <2> SUFFICES ASSUME ViewInv, NEW p \in Partitions,
                        Verify(uc, p, uc.shard, AnyConf, Certified)
                 PROVE  \E i \in DOMAIN Chain[uc.seal.round][p] :
                            Chain[uc.seal.round][p][i] =
                                [shard |-> uc.shard, data |-> uc.data, conf |-> uc.conf]
      BY DEF VerifiedIsCommitted
    <2>1. uc.shard \in Nodes /\ IsSteps(uc.steps)
      BY DEF ViewInv, CertTyped
    <2> QED BY <2>1, VerifiedIs
  <1> QED BY ViewInvariant, <1>1, PTL

===============================================================================

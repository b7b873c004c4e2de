------------------------------ MODULE TreeLemmas ------------------------------
(***************************************************************************)
(* What is true of the trees whatever they are built of: the facts that    *)
(* TreeProofs rests on.                                                    *)
(*                                                                         *)
(* The indexed tree: the path of a leaf leads from it to the root, and no  *)
(* other path does.                                                        *)
(*                                                                         *)
(* The shard tree: the certificate of a shard leads from its record to the *)
(* root, nothing else does, and a root belongs to one set of records.      *)
(*                                                                         *)
(* As everywhere, recursive functions are shown to exist and to compute    *)
(* what they should by Induction (IdentifierLemmas).                       *)
(***************************************************************************)
EXTENDS ShardCertificate, IndexedTree, IdentifierLemmas

-------------------------------------------------------------------------------
(* The indexed tree. *)

\* A slice with more than one leaf is cut into two shorter ones that are not empty.
LEMMA Halves ==
    ASSUME NEW lo \in Nat, NEW hi \in Nat, lo < hi, NEW m, m = Middle(lo, hi)
    PROVE  m \in lo..(hi - 1) /\ m + 1 \in (lo + 1)..hi
  <1>1. (hi - lo + 2) \div 2 \in 1..(hi - lo)
    OBVIOUS
  <1> QED BY <1>1 DEF Middle

\* What createMerkleTree computes for a slice from what it does for others.
HashStep(h, pairs, lo, hi) ==
    LET m == Middle(lo, hi)
    IN  IF lo >= hi THEN LeafHash(pairs[lo].partition, pairs[lo].root)
        ELSE NodeHash(pairs[m].partition, h[<<lo, m>>], h[<<m + 1, hi>>])

\* The recursion of HashOf.
IsHash(h, pairs) == h = [s \in Slices(pairs) |-> HashStep(h, pairs, s[1], s[2])]

\* The recursion of HashOf has a solution (createMerkleTree ends).
LEMMA HashExists ==
    ASSUME NEW N \in Nat, NEW pairs, DOMAIN pairs = 1..N
    PROVE  \E h : IsHash(h, pairs)
  <1> DEFINE D == 1..N
             F(h) == h = [s \in D \X D |-> h[s]]
             P(h, k) == \A lo, hi \in D : hi - lo <= k => h[<<lo, hi>>] = HashStep(h, pairs, lo, hi)
             T == {k \in Nat : \E h : F(h) /\ P(h, k)}
  <1>1. 0 \in T
    <2> DEFINE h == [s \in D \X D |-> LeafHash(pairs[s[1]].partition, pairs[s[1]].root)]
    <2>1. F(h)
      OBVIOUS
    <2>2. \A lo, hi \in D : h[<<lo, hi>>] = LeafHash(pairs[lo].partition, pairs[lo].root)
      OBVIOUS
    <2> HIDE DEF h
    <2>3. P(h, 0)
      BY <2>2 DEF HashStep
    <2> QED BY <2>1, <2>3
  <1>2. ASSUME NEW k \in T PROVE k + 1 \in T
    <2>1. PICK g : F(g) /\ P(g, k)
      OBVIOUS
    <2> DEFINE h == [s \in D \X D |->
                       IF s[2] - s[1] <= k THEN g[s] ELSE HashStep(g, pairs, s[1], s[2])]
    <2>2. \A lo, hi \in D : h[<<lo, hi>>] = IF hi - lo <= k THEN g[<<lo, hi>>]
                                            ELSE HashStep(g, pairs, lo, hi)
      OBVIOUS
    <2>3. F(h)
      OBVIOUS
    <2> HIDE DEF h
    <2>4. ASSUME NEW lo \in D, NEW hi \in D, hi - lo <= k + 1
          PROVE  h[<<lo, hi>>] = HashStep(h, pairs, lo, hi)
      <3>1. h[<<lo, hi>>] = HashStep(g, pairs, lo, hi)
        BY <2>1, <2>2
      <3>2. CASE lo >= hi
        BY <3>1, <3>2 DEF HashStep
      <3>3. CASE lo < hi
        <4> DEFINE m == Middle(lo, hi)
        <4>1. m \in lo..(hi - 1) /\ m + 1 \in (lo + 1)..hi
          <5>1. lo \in Nat /\ hi \in Nat /\ m = Middle(lo, hi)
            OBVIOUS
          <5> HIDE DEF m
          <5> QED BY <3>3, <5>1, Halves
        <4> HIDE DEF m
        <4> HIDE DEF T
        <4>2. m \in D /\ m - lo <= k /\ m + 1 \in D /\ hi - (m + 1) <= k
          <5>1. lo \in 1..N /\ hi \in 1..N /\ hi - lo <= k + 1 /\ k \in Nat
            BY <2>4 DEF T
          <5> QED BY <4>1, <5>1
        <4>3. h[<<lo, m>>] = g[<<lo, m>>] /\ h[<<m + 1, hi>>] = g[<<m + 1, hi>>]
          BY <4>2, <2>2
        <4> QED BY <3>1, <4>3 DEF HashStep, m
      <3> QED BY <3>2, <3>3
    <2>5. P(h, k + 1)
      BY ONLY <2>4 DEF P
    <2>6. k + 1 \in Nat
      OBVIOUS
    <2> HIDE DEF F, P
    <2> QED BY <2>3, <2>5, <2>6
  <1>3. T = Nat
    <2> HIDE DEF T
    <2>1. T \in SUBSET Nat
      BY DEF T
    <2> QED BY <1>1, <1>2, <2>1, Induction
  <1>4. PICK h : F(h) /\ P(h, N)
    <2>1. N \in T
      BY <1>3
    <2> QED BY <2>1
  <1>5. \A lo, hi \in D : h[<<lo, hi>>] = HashStep(h, pairs, lo, hi)
    <2> SUFFICES ASSUME NEW lo \in D, NEW hi \in D PROVE h[<<lo, hi>>] = HashStep(h, pairs, lo, hi)
      OBVIOUS
    <2>1. hi - lo <= N
      OBVIOUS
    <2> QED BY <1>4, <2>1
  <1>6. \A s \in D \X D : h[s] = HashStep(h, pairs, s[1], s[2])
    BY <1>5
  <1>7. h = [s \in D \X D |-> HashStep(h, pairs, s[1], s[2])]
    BY ONLY <1>4, <1>6 DEF F
  <1> QED BY <1>7 DEF IsHash, Slices

\* Hence HashOf computes the hash of every slice from those of its halves.
LEMMA HashOfSlices ==
    ASSUME NEW N \in Nat, NEW pairs, DOMAIN pairs = 1..N, NEW lo \in 1..N, NEW hi \in 1..N
    PROVE  HashOf(pairs)[<<lo, hi>>] = HashStep(HashOf(pairs), pairs, lo, hi)
  <1> DEFINE h == CHOOSE g : IsHash(g, pairs)
  <1>1. IsHash(h, pairs)
    BY HashExists
  <1>2. HashOf(pairs) = h
    BY DEF HashOf, IsHash, HashStep, Slices
  <1> HIDE DEF h
  <1> QED BY <1>1, <1>2 DEF IsHash, Slices

\* Hashes of leaves, of nodes and of nothing are told apart, and what they are
\* computed from can be told from them.
LEMMA HashesDiffer ==
    /\ \A k, x, j, y : LeafHash(k, x) = LeafHash(j, y) => k = j /\ x = y
    /\ \A k, x, j, l, r : LeafHash(k, x) # NodeHash(j, l, r)
    /\ \A k, l, r, j, p, q : NodeHash(k, l, r) = NodeHash(j, p, q) => k = j /\ l = p /\ r = q
    /\ \A k, x, l, r : LeafHash(k, x) # << >> /\ NodeHash(k, l, r) # << >>
  BY DEF LeafHash, NodeHash

\* A hash is not that of a leaf and of an inner node.
LEMMA LeafIsNoNode ==
    ASSUME NEW hash, \E j, r : hash = LeafHash(j, r), \E j, l, r : hash = NodeHash(j, l, r)
    PROVE  FALSE
  <1>1. PICK j, r : hash = LeafHash(j, r)
    OBVIOUS
  <1>2. PICK k, x, y : hash = NodeHash(k, x, y)
    OBVIOUS
  <1>3. LeafHash(j, r) # NodeHash(k, x, y)
    BY HashesDiffer
  <1> QED BY <1>1, <1>2, <1>3

-------------------------------------------------------------------------------
\* What a step of a certificate makes of the hash below it.
OutputStep(step, key, x) ==
    IF key > step.key THEN NodeHash(step.key, step.hash, x) ELSE NodeHash(step.key, x, step.hash)

\* The recursion of IndexTreeOutput.
IsOutput(h, steps, key, root, n) ==
    h = [i \in 0..n |-> IF i = 0 THEN LeafHash(key, root) ELSE OutputStep(steps[i], key, h[i - 1])]

\* What the steps lead to after the next one.
LEMMA OutputAt ==
    ASSUME NEW steps, NEW key, NEW root, NEW n \in Nat, NEW h, IsOutput(h, steps, key, root, n),
           NEW k \in Nat, k + 1 <= n
    PROVE  h[k + 1] = OutputStep(steps[k + 1], key, h[k])
  <1>1. k + 1 \in 0..n /\ k + 1 # 0 /\ (k + 1) - 1 = k
    OBVIOUS
  <1>2. h[k + 1] = IF k + 1 = 0 THEN LeafHash(key, root) ELSE OutputStep(steps[k + 1], key, h[(k + 1) - 1])
    BY <1>1 DEF IsOutput
  <1> QED BY <1>1, <1>2

\* The recursion of IndexTreeOutput has a solution.
LEMMA OutputExists ==
    ASSUME NEW steps, NEW key, NEW root
    PROVE  \A n \in Nat : \E h : IsOutput(h, steps, key, root, n)
  <1> DEFINE T == {n \in Nat : \E h : IsOutput(h, steps, key, root, n)}
  <1>1. 0 \in T
    <2> DEFINE h == [i \in 0..0 |-> LeafHash(key, root)]
    <2>1. \A i \in 0..0 : i = 0 /\ h[i] = LeafHash(key, root)
      OBVIOUS
    <2>2. h = [i \in 0..0 |-> IF i = 0 THEN LeafHash(key, root) ELSE OutputStep(steps[i], key, h[i - 1])]
      BY <2>1
    <2> HIDE DEF h
    <2> QED BY <2>2 DEF IsOutput
  <1>2. ASSUME NEW n \in T PROVE n + 1 \in T
    <2>1. PICK g : IsOutput(g, steps, key, root, n)
      OBVIOUS
    <2> DEFINE h == [i \in 0..(n + 1) |-> IF i <= n THEN g[i] ELSE OutputStep(steps[i], key, g[i - 1])]
    <2>2. ASSUME NEW i \in 0..(n + 1)
          PROVE  h[i] = IF i = 0 THEN LeafHash(key, root) ELSE OutputStep(steps[i], key, h[i - 1])
      <3>1. i # 0 => i - 1 \in 0..(n + 1) /\ i - 1 <= n
        OBVIOUS
      <3>2. i # 0 => h[i - 1] = g[i - 1]
        BY <3>1
      <3>3. i <= n => g[i] = IF i = 0 THEN LeafHash(key, root) ELSE OutputStep(steps[i], key, g[i - 1])
        BY <2>1 DEF IsOutput
      <3> QED BY <3>2, <3>3
    <2>3. h = [i \in 0..(n + 1) |-> IF i = 0 THEN LeafHash(key, root) ELSE OutputStep(steps[i], key, h[i - 1])]
      BY <2>2
    <2> HIDE DEF h
    <2> QED BY <2>3 DEF IsOutput
  <1>3. T = Nat
    <2> HIDE DEF T
    <2>1. T \in SUBSET Nat
      BY DEF T
    <2> QED BY <1>1, <1>2, <2>1, Induction
  <1> QED BY <1>3

\* IndexTreeOutput follows the steps from the leaf.
LEMMA OutputOf ==
    ASSUME NEW steps, NEW key, NEW root, Len(steps) \in Nat
    PROVE  \E h : /\ IsOutput(h, steps, key, root, Len(steps))
                  /\ IndexTreeOutput(steps, key, root) = h[Len(steps)]
  <1> DEFINE h == CHOOSE g : IsOutput(g, steps, key, root, Len(steps))
  <1>1. IsOutput(h, steps, key, root, Len(steps))
    BY OutputExists
  <1>2. IndexTreeOutput(steps, key, root) = h[Len(steps)]
    BY DEF IndexTreeOutput, IsOutput, OutputStep
  <1> HIDE DEF h
  <1> QED BY <1>1, <1>2

\* Steps that agree lead to the same hashes.
LEMMA OutputFixed ==
    ASSUME NEW steps, NEW other, NEW key, NEW root, NEW n \in Nat, NEW m \in Nat, n <= m,
           \A i \in 1..n : steps[i] = other[i],
           NEW g, IsOutput(g, steps, key, root, n), NEW h, IsOutput(h, other, key, root, m)
    PROVE  g[n] = h[n]
  <1> DEFINE T == {k \in Nat : k <= n => g[k] = h[k]}
  <1>1. 0 \in T
    BY DEF IsOutput
  <1>2. ASSUME NEW k \in T PROVE k + 1 \in T
    <2> SUFFICES ASSUME k + 1 <= n PROVE g[k + 1] = h[k + 1]
      OBVIOUS
    <2>1. k + 1 \in 0..n /\ k + 1 \in 0..m /\ k + 1 \in 1..n /\ (k + 1) - 1 = k /\ k <= n
      OBVIOUS
    <2>2. g[k + 1] = OutputStep(steps[k + 1], key, g[k])
      BY OutputAt
    <2>3. h[k + 1] = OutputStep(other[k + 1], key, h[k])
      <3>1. k + 1 <= m
        OBVIOUS
      <3> QED BY <3>1, OutputAt
    <2> QED BY <2>1, <2>2, <2>3
  <1>3. T = Nat
    <2> HIDE DEF T
    <2>1. T \in SUBSET Nat
      BY DEF T
    <2> QED BY <1>1, <1>2, <2>1, Induction
  <1>4. n \in T
    BY <1>3
  <1> QED BY <1>4

\* One more step at the end.
LEMMA OutputOfAppend ==
    ASSUME NEW steps, IsSequence(steps), NEW step, NEW key, NEW root
    PROVE  IndexTreeOutput(Append(steps, step), key, root)
             = OutputStep(step, key, IndexTreeOutput(steps, key, root))
  <1> DEFINE longer == Append(steps, step)
             n == Len(steps)
  <1>1. /\ n \in Nat /\ Len(longer) = n + 1 /\ longer[n + 1] = step
        /\ \A i \in 1..n : steps[i] = longer[i]
    BY AppendToSequence
  <1> HIDE DEF longer
  <1>2. PICK g : IsOutput(g, steps, key, root, n) /\ IndexTreeOutput(steps, key, root) = g[n]
    BY <1>1, OutputOf
  <1>3. PICK h : /\ IsOutput(h, longer, key, root, n + 1)
                 /\ IndexTreeOutput(longer, key, root) = h[n + 1]
    BY <1>1, OutputOf
  <1> HIDE DEF n
  <1>4. g[n] = h[n]
    <2>1. n + 1 \in Nat /\ n <= n + 1
      BY <1>1
    <2> QED BY <1>1, <1>2, <1>3, <2>1, OutputFixed
  <1>5. h[n + 1] = OutputStep(step, key, h[n])
    <2>1. n + 1 \in 0..(n + 1) /\ n + 1 # 0 /\ (n + 1) - 1 = n
      BY <1>1
    <2> QED BY <1>1, <1>3, <2>1 DEF IsOutput
  <1> QED BY <1>2, <1>3, <1>4, <1>5 DEF longer

\* Without steps the output is the leaf.
LEMMA OutputOfEmpty ==
    ASSUME NEW key, NEW root
    PROVE  IndexTreeOutput(<< >>, key, root) = LeafHash(key, root)
  <1>1. Len(<< >>) = 0
    OBVIOUS
  <1>2. PICK h : IsOutput(h, << >>, key, root, 0) /\ IndexTreeOutput(<< >>, key, root) = h[0]
    BY <1>1, OutputOf
  <1> QED BY <1>2 DEF IsOutput

-------------------------------------------------------------------------------
\* What GetMerklePath computes for a slice from what it does for the half that
\* key is looked for in.
PathStep(pairs, p, key, lo, hi) ==
    LET m == Middle(lo, hi) k == pairs[m].partition
    IN  IF lo >= hi THEN << >>
        ELSE IF key > k
        THEN Append(p[<<m + 1, hi>>], [key |-> k, hash |-> HashOf(pairs)[<<lo, m>>]])
        ELSE Append(p[<<lo, m>>], [key |-> k, hash |-> HashOf(pairs)[<<m + 1, hi>>]])

\* The recursion of GetMerklePath.
IsPath(pairs, p, key) == p = [s \in Slices(pairs) |-> PathStep(pairs, p, key, s[1], s[2])]

\* The recursion of GetMerklePath has a solution.
LEMMA PathExists ==
    ASSUME NEW N \in Nat, NEW pairs, DOMAIN pairs = 1..N, NEW key
    PROVE  \E p : IsPath(pairs, p, key)
  <1> DEFINE D == 1..N
             F(p) == p = [s \in D \X D |-> p[s]]
             P(p, k) == \A lo, hi \in D : hi - lo <= k => p[<<lo, hi>>] = PathStep(pairs, p, key, lo, hi)
             T == {k \in Nat : \E p : F(p) /\ P(p, k)}
  <1>1. 0 \in T
    <2> DEFINE p == [s \in D \X D |-> << >>]
    <2>1. F(p)
      OBVIOUS
    <2>2. \A lo, hi \in D : p[<<lo, hi>>] = << >>
      OBVIOUS
    <2> HIDE DEF p
    <2>3. P(p, 0)
      BY <2>2 DEF PathStep
    <2> QED BY <2>1, <2>3
  <1>2. ASSUME NEW k \in T PROVE k + 1 \in T
    <2>1. PICK q : F(q) /\ P(q, k)
      OBVIOUS
    <2> DEFINE p == [s \in D \X D |->
                       IF s[2] - s[1] <= k THEN q[s] ELSE PathStep(pairs, q, key, s[1], s[2])]
    <2>2. \A lo, hi \in D : p[<<lo, hi>>] = IF hi - lo <= k THEN q[<<lo, hi>>]
                                            ELSE PathStep(pairs, q, key, lo, hi)
      OBVIOUS
    <2>3. F(p)
      OBVIOUS
    <2> HIDE DEF p
    <2>4. ASSUME NEW lo \in D, NEW hi \in D, hi - lo <= k + 1
          PROVE  p[<<lo, hi>>] = PathStep(pairs, p, key, lo, hi)
      <3>1. p[<<lo, hi>>] = PathStep(pairs, q, key, lo, hi)
        BY <2>1, <2>2
      <3>2. CASE lo >= hi
        BY <3>1, <3>2 DEF PathStep
      <3>3. CASE lo < hi
        <4> DEFINE m == Middle(lo, hi)
        <4>1. m \in lo..(hi - 1) /\ m + 1 \in (lo + 1)..hi
          <5>1. lo \in Nat /\ hi \in Nat /\ m = Middle(lo, hi)
            OBVIOUS
          <5> HIDE DEF m
          <5> QED BY <3>3, <5>1, Halves
        <4> HIDE DEF m
        <4> HIDE DEF T
        <4>2. m \in D /\ m - lo <= k /\ m + 1 \in D /\ hi - (m + 1) <= k
          <5>1. lo \in 1..N /\ hi \in 1..N /\ hi - lo <= k + 1 /\ k \in Nat
            BY <2>4 DEF T
          <5> QED BY <4>1, <5>1
        <4>3. p[<<lo, m>>] = q[<<lo, m>>] /\ p[<<m + 1, hi>>] = q[<<m + 1, hi>>]
          BY <4>2, <2>2
        <4> QED BY <3>1, <4>3 DEF PathStep, m
      <3> QED BY <3>2, <3>3
    <2>5. P(p, k + 1)
      BY ONLY <2>4 DEF P
    <2>6. k + 1 \in Nat
      OBVIOUS
    <2> HIDE DEF F, P
    <2> QED BY <2>3, <2>5, <2>6
  <1>3. T = Nat
    <2> HIDE DEF T
    <2>1. T \in SUBSET Nat
      BY DEF T
    <2> QED BY <1>1, <1>2, <2>1, Induction
  <1>4. PICK p : F(p) /\ P(p, N)
    <2>1. N \in T
      BY <1>3
    <2> QED BY <2>1
  <1>5. \A lo, hi \in D : p[<<lo, hi>>] = PathStep(pairs, p, key, lo, hi)
    <2> SUFFICES ASSUME NEW lo \in D, NEW hi \in D PROVE p[<<lo, hi>>] = PathStep(pairs, p, key, lo, hi)
      OBVIOUS
    <2>1. hi - lo <= N
      OBVIOUS
    <2> QED BY <1>4, <2>1
  <1>6. \A s \in D \X D : p[s] = PathStep(pairs, p, key, s[1], s[2])
    BY <1>5
  <1>7. p = [s \in D \X D |-> PathStep(pairs, p, key, s[1], s[2])]
    BY ONLY <1>4, <1>6 DEF F
  <1> QED BY <1>7 DEF IsPath, Slices

\* Leaves with partitions that are numbers.
Typed(pairs) == \A i \in DOMAIN pairs : pairs[i].partition \in Nat

\* Neighbours in order put all leaves in order.
LEMMA KeysAscend ==
    ASSUME NEW N \in Nat, NEW pairs, DOMAIN pairs = 1..N, Len(pairs) = N,
           Typed(pairs), InOrder(pairs)
    PROVE  \A i, j \in 1..N : i < j => pairs[i].partition < pairs[j].partition
  <1> DEFINE P(k) == \A i, j \in 1..N : i < j /\ j - i <= k
                                         => pairs[i].partition < pairs[j].partition
             T == {k \in Nat : P(k)}
  <1>1. P(0)
    OBVIOUS
  <1>2. ASSUME NEW k \in Nat, P(k) PROVE P(k + 1)
    <2> SUFFICES ASSUME NEW i \in 1..N, NEW j \in 1..N, i < j, j - i <= k + 1
                 PROVE  pairs[i].partition < pairs[j].partition
      OBVIOUS
    <2>1. j \in 2..N /\ j - 1 \in 1..N
      OBVIOUS
    <2>2. pairs[j - 1].partition < pairs[j].partition
      BY <2>1 DEF InOrder
    <2>3. i = j - 1 \/ (i < j - 1 /\ (j - 1) - i <= k)
      OBVIOUS
    <2>4. i < j - 1 => pairs[i].partition < pairs[j - 1].partition
      BY <1>2, <2>1, <2>3
    <2>5. /\ pairs[i].partition \in Nat /\ pairs[j].partition \in Nat
          /\ pairs[j - 1].partition \in Nat
      BY <2>1 DEF Typed
    <2> HIDE DEF P
    <2> QED BY <2>2, <2>3, <2>4, <2>5
  <1> HIDE DEF P
  <1>3. T \in SUBSET Nat /\ 0 \in T /\ \A k \in T : k + 1 \in T
    BY <1>1, <1>2
  <1>4. P(N)
    <2> HIDE DEF T
    <2>1. N \in T
      BY <1>3, Induction
    <2> QED BY <2>1 DEF T
  <1> QED BY <1>4 DEF P

\* The path of a leaf leads from it to the root.
LEMMA PathLeadsToRoot ==
    ASSUME NEW N \in Nat, NEW pairs, DOMAIN pairs = 1..N, Len(pairs) = N, Typed(pairs), InOrder(pairs),
           NEW leaf \in 1..N, NEW key, key = pairs[leaf].partition
    PROVE  /\ IsSequence(GetMerklePath(pairs, key))
           /\ IndexTreeOutput(GetMerklePath(pairs, key), key, pairs[leaf].root)
                = HashOf(pairs)[<<1, N>>]
  <1> DEFINE p == CHOOSE q : IsPath(pairs, q, key)
             h == HashOf(pairs)
             root == pairs[leaf].root
             P(k) == \A lo, hi \in 1..N : lo <= leaf /\ leaf <= hi /\ hi - lo <= k =>
                       /\ IsSequence(p[<<lo, hi>>])
                       /\ IndexTreeOutput(p[<<lo, hi>>], key, root) = h[<<lo, hi>>]
             T == {k \in Nat : P(k)}
  <1>1. IsPath(pairs, p, key)
    BY PathExists
  <1>2. GetMerklePath(pairs, key) = p[<<1, N>>]
    BY DEF GetMerklePath, IsPath, PathStep
  <1> HIDE DEF p
  <1>3. \A lo, hi \in 1..N : p[<<lo, hi>>] = PathStep(pairs, p, key, lo, hi)
    BY <1>1 DEF IsPath, Slices
  <1>4. \A lo, hi \in 1..N : h[<<lo, hi>>] = HashStep(h, pairs, lo, hi)
    BY HashOfSlices
  <1> HIDE DEF root
  <1>5. P(0)
    <2> SUFFICES ASSUME NEW lo \in 1..N, NEW hi \in 1..N, lo <= leaf, leaf <= hi, hi - lo <= 0
                 PROVE  /\ IsSequence(p[<<lo, hi>>])
                        /\ IndexTreeOutput(p[<<lo, hi>>], key, root) = h[<<lo, hi>>]
      OBVIOUS
    <2>1. lo = leaf /\ hi = leaf /\ lo >= hi
      OBVIOUS
    <2>2. p[<<lo, hi>>] = << >>
      BY <1>3, <2>1 DEF PathStep
    <2>3. h[<<lo, hi>>] = LeafHash(key, root)
      BY <1>4, <2>1 DEF HashStep, root
    <2> QED BY <2>2, <2>3, NoSequence, OutputOfEmpty
  <1> HIDE DEF h
  <1>6. ASSUME NEW k \in Nat, P(k) PROVE P(k + 1)
    <2> SUFFICES ASSUME NEW lo \in 1..N, NEW hi \in 1..N, lo <= leaf, leaf <= hi,
                        hi - lo <= k + 1, lo < hi
                 PROVE  /\ IsSequence(p[<<lo, hi>>])
                        /\ IndexTreeOutput(p[<<lo, hi>>], key, root) = h[<<lo, hi>>]
      <3>1. ASSUME NEW lo \in 1..N, NEW hi \in 1..N, lo <= leaf, leaf <= hi, ~(lo < hi)
            PROVE  hi - lo <= k
        BY <3>1
      <3> QED BY <1>6, <3>1
    <2> DEFINE m == Middle(lo, hi)
               j == pairs[m].partition
    <2>1. m \in lo..(hi - 1) /\ m + 1 \in (lo + 1)..hi
      <3>1. lo \in Nat /\ hi \in Nat /\ m = Middle(lo, hi)
        OBVIOUS
      <3> HIDE DEF m
      <3> QED BY <3>1, Halves
    <2>2. h[<<lo, hi>>] = NodeHash(j, h[<<lo, m>>], h[<<m + 1, hi>>])
      <3>1. h[<<lo, hi>>] = HashStep(h, pairs, lo, hi) /\ ~(lo >= hi)
        BY <1>4
      <3> HIDE DEF m
      <3> QED BY <3>1 DEF HashStep, m
    <2>3. m \in 1..N /\ m + 1 \in 1..N
      <3> HIDE DEF m
      <3> QED BY <2>1
    <2>4. key > j <=> leaf > m
      <3> HIDE DEF m
      <3>1. key \in Nat /\ j \in Nat /\ leaf \in Nat /\ m \in Nat
        BY <2>3 DEF Typed
      <3>2. leaf > m => j < key
        BY <2>3, KeysAscend
      <3>3. leaf < m => key < j
        BY <2>3, KeysAscend
      <3>4. leaf = m => key = j
        OBVIOUS
      <3> HIDE DEF j
      <3> QED BY <3>1, <3>2, <3>3, <3>4
    <2>5. CASE leaf > m
      <3>1. p[<<lo, hi>>] = Append(p[<<m + 1, hi>>], [key |-> j, hash |-> h[<<lo, m>>]])
        <4>1. p[<<lo, hi>>] = PathStep(pairs, p, key, lo, hi) /\ ~(lo >= hi) /\ key > j
          BY <1>3, <2>4, <2>5
        <4> QED BY <4>1 DEF PathStep, h
      <3> HIDE DEF m, j
      <3>2. m + 1 <= leaf /\ hi - (m + 1) <= k
        BY <2>1, <2>5
      <3>3. /\ IsSequence(p[<<m + 1, hi>>])
            /\ IndexTreeOutput(p[<<m + 1, hi>>], key, root) = h[<<m + 1, hi>>]
        BY <1>6, <2>3, <3>2
      <3>4. \A x, y : OutputStep([key |-> j, hash |-> y], key, x) = NodeHash(j, y, x)
        BY <2>4, <2>5 DEF OutputStep
      <3> HIDE DEF P
      <3> QED BY <2>2, <3>1, <3>3, <3>4, OutputOfAppend, AppendToSequence
    <2>6. CASE leaf <= m
      <3>0. ~(key > j)
        <4>1. ~(leaf > m)
          <5> HIDE DEF m
          <5> QED BY <2>3, <2>6
        <4> QED BY <2>4, <4>1
      <3>1. p[<<lo, hi>>] = Append(p[<<lo, m>>], [key |-> j, hash |-> h[<<m + 1, hi>>]])
        <4>1. p[<<lo, hi>>] = PathStep(pairs, p, key, lo, hi) /\ ~(lo >= hi)
          BY <1>3
        <4> QED BY <3>0, <4>1 DEF PathStep, h
      <3> HIDE DEF m, j
      <3>2. m - lo <= k
        BY <2>1
      <3>3. /\ IsSequence(p[<<lo, m>>])
            /\ IndexTreeOutput(p[<<lo, m>>], key, root) = h[<<lo, m>>]
        BY <1>6, <2>3, <2>6, <3>2
      <3>4. \A x, y : OutputStep([key |-> j, hash |-> y], key, x) = NodeHash(j, x, y)
        BY <3>0 DEF OutputStep
      <3> HIDE DEF P
      <3> QED BY <2>2, <3>1, <3>3, <3>4, OutputOfAppend, AppendToSequence
    <2> HIDE DEF m
    <2> QED BY <2>3, <2>5, <2>6
  <1> HIDE DEF P
  <1>7. T \in SUBSET Nat /\ 0 \in T /\ \A k \in T : k + 1 \in T
    BY <1>5, <1>6
  <1>8. P(N)
    <2> HIDE DEF T
    <2>1. N \in T
      BY <1>7, Induction
    <2> QED BY <2>1 DEF T
  <1>9. /\ IsSequence(p[<<1, N>>])
        /\ IndexTreeOutput(p[<<1, N>>], key, root) = h[<<1, N>>]
    <2>1. 1 \in 1..N /\ N \in 1..N /\ 1 <= leaf /\ leaf <= N /\ N - 1 <= N
      OBVIOUS
    <2> QED BY <1>8, <2>1 DEF P
  <1> QED BY <1>2, <1>9 DEF h, root

\* What a path leads to from a leaf is a hash.
LEMMA OutputIsNotNil ==
    ASSUME NEW steps, Len(steps) \in Nat, NEW key, NEW root
    PROVE  IndexTreeOutput(steps, key, root) # << >>
  <1> DEFINE n == Len(steps)
  <1>1. PICK h : IsOutput(h, steps, key, root, n) /\ IndexTreeOutput(steps, key, root) = h[n]
    BY OutputOf
  <1>2. n \in Nat
    OBVIOUS
  <1> HIDE DEF n
  <1>3. CASE n = 0
    BY <1>1, <1>3, HashesDiffer DEF IsOutput
  <1>4. CASE n # 0
    <2>1. PICK k \in Nat : k + 1 = n
      <3>1. n - 1 \in Nat /\ (n - 1) + 1 = n
        BY <1>2, <1>4
      <3> QED BY <3>1
    <2>2. h[k + 1] = OutputStep(steps[k + 1], key, h[k])
      <3>1. k + 1 <= n
        BY <2>1
      <3> QED BY <1>1, <1>2, <3>1, OutputAt
    <2> QED BY <1>1, <2>1, <2>2, HashesDiffer DEF OutputStep
  <1> QED BY <1>3, <1>4

\* A path to the root starts at a leaf of the tree, whatever the keys of its
\* steps: a hash fixes both halves of a slice, and the path goes to one of them.
LEMMA OutputIsOfLeaf ==
    ASSUME NEW N \in Nat, NEW pairs, DOMAIN pairs = 1..N, NEW steps, Len(steps) \in Nat,
           NEW key, NEW root, NEW top \in 1..N,
           IndexTreeOutput(steps, key, root) = HashOf(pairs)[<<1, top>>]
    PROVE  \E j \in 1..N : pairs[j].partition = key /\ pairs[j].root = root
  <1> DEFINE g == HashOf(pairs)
             n == Len(steps)
  <1>1. PICK h : IsOutput(h, steps, key, root, n) /\ IndexTreeOutput(steps, key, root) = h[n]
    BY OutputOf
  <1>2. \A lo, hi \in 1..N : g[<<lo, hi>>] = HashStep(g, pairs, lo, hi)
    BY HashOfSlices
  <1> HIDE DEF g, n
  <1> DEFINE P(k) == k <= n => \A lo, hi \in 1..N : lo <= hi /\ h[k] = g[<<lo, hi>>]
                       => \E j \in 1..N : pairs[j].partition = key /\ pairs[j].root = root
             T == {k \in Nat : P(k)}
  <1>3. n \in Nat
    BY DEF n
  <1>4. P(0)
    <2> SUFFICES ASSUME NEW lo \in 1..N, NEW hi \in 1..N, lo <= hi, h[0] = g[<<lo, hi>>]
                 PROVE  \E j \in 1..N : pairs[j].partition = key /\ pairs[j].root = root
      OBVIOUS
    <2>1. h[0] = LeafHash(key, root)
      BY <1>1, <1>3 DEF IsOutput
    <2>2. g[<<lo, hi>>] = HashStep(g, pairs, lo, hi)
      BY <1>2
    <2>3. lo >= hi
      <3>1. lo < hi => \E k, l, r : g[<<lo, hi>>] = NodeHash(k, l, r)
        <4>1. lo < hi => ~(lo >= hi)
          OBVIOUS
        <4> QED BY <2>2, <4>1 DEF HashStep
      <3> QED BY <2>1, <3>1, HashesDiffer
    <2>4. LeafHash(pairs[lo].partition, pairs[lo].root) = LeafHash(key, root)
      BY <2>1, <2>2, <2>3 DEF HashStep
    <2> QED BY <2>4, HashesDiffer
  <1>5. ASSUME NEW k \in Nat, P(k) PROVE P(k + 1)
    <2> SUFFICES ASSUME k + 1 <= n, NEW lo \in 1..N, NEW hi \in 1..N, lo <= hi,
                        h[k + 1] = g[<<lo, hi>>]
                 PROVE  \E j \in 1..N : pairs[j].partition = key /\ pairs[j].root = root
      OBVIOUS
    <2>1. h[k + 1] = OutputStep(steps[k + 1], key, h[k])
      BY <1>1, <1>3, OutputAt
    <2>2. \E i, y : h[k + 1] = NodeHash(i, h[k], y) \/ h[k + 1] = NodeHash(i, y, h[k])
      BY <2>1 DEF OutputStep
    <2>3. g[<<lo, hi>>] = HashStep(g, pairs, lo, hi)
      BY <1>2
    <2>4. lo < hi
      <3>1. CASE lo >= hi
        <4>1. g[<<lo, hi>>] = LeafHash(pairs[lo].partition, pairs[lo].root)
          BY <2>3, <3>1 DEF HashStep
        <4> QED BY <2>2, <4>1, HashesDiffer
      <3> QED BY <3>1
    <2> DEFINE m == Middle(lo, hi)
    <2>5. g[<<lo, hi>>] = NodeHash(pairs[m].partition, g[<<lo, m>>], g[<<m + 1, hi>>])
      <3>1. ~(lo >= hi)
        BY <2>4
      <3> QED BY <2>3, <3>1 DEF HashStep
    <2>6. m \in lo..(hi - 1) /\ m + 1 \in (lo + 1)..hi
      <3>1. lo \in Nat /\ hi \in Nat /\ m = Middle(lo, hi)
        OBVIOUS
      <3> HIDE DEF m
      <3> QED BY <2>4, <3>1, Halves
    <2> HIDE DEF m
    <2>7. h[k] = g[<<lo, m>>] \/ h[k] = g[<<m + 1, hi>>]
      <3>1. PICK i, y : h[k + 1] = NodeHash(i, h[k], y) \/ h[k + 1] = NodeHash(i, y, h[k])
        BY <2>2
      <3> QED BY <2>5, <3>1, HashesDiffer
    <2>8. m \in 1..N /\ lo <= m /\ m + 1 \in 1..N /\ m + 1 <= hi /\ k <= n
      BY <1>3, <2>6
    <2> QED BY <1>5, <2>7, <2>8
  <1> HIDE DEF P
  <1>6. T \in SUBSET Nat /\ 0 \in T /\ \A k \in T : k + 1 \in T
    BY ONLY <1>4, <1>5
  <1>7. P(n)
    <2> HIDE DEF T
    <2>1. n \in T
      BY <1>3, <1>6, Induction
    <2> QED BY <2>1 DEF T
  <1>8. 1 \in 1..N /\ 1 <= top /\ n <= n /\ h[n] = g[<<1, top>>]
    BY <1>1, <1>3 DEF g
  <1> QED BY <1>7, <1>8 DEF P

\* A path p that has the first k of the steps.
HasSteps(p, steps, k) ==
    /\ IsSequence(p) /\ Len(p) = k
    /\ \A i \in 1..k : p[i] = [key |-> steps[i].key, hash |-> steps[i].hash]

\* One step more.
LEMMA OneStepMore ==
    ASSUME NEW p, NEW steps, NEW k \in Nat, HasSteps(p, steps, k), NEW e,
           e = [key |-> steps[k + 1].key, hash |-> steps[k + 1].hash]
    PROVE  HasSteps(Append(p, e), steps, k + 1)
  <1> DEFINE q == Append(p, e)
  <1>1. IsSequence(p) /\ Len(p) = k
    BY DEF HasSteps
  <1>2. /\ IsSequence(q) /\ Len(q) = k + 1 /\ q[k + 1] = e
        /\ \A i \in 1..k : q[i] = p[i]
    BY <1>1, AppendToSequence
  <1> HIDE DEF q
  <1>3. ASSUME NEW i \in 1..(k + 1) PROVE q[i] = [key |-> steps[i].key, hash |-> steps[i].hash]
    <2>1. CASE i = k + 1
      BY <1>2, <2>1
    <2>2. CASE i # k + 1
      <3>1. i \in 1..k
        BY <2>2
      <3> QED BY <1>2, <3>1 DEF HasSteps
    <2> QED BY <2>1, <2>2
  <1> QED BY <1>2, <1>3 DEF HasSteps, q

\* And it is the path of that leaf: a hash fixes the key that turns to a half.
LEMMA PathIsFixed ==
    ASSUME NEW N \in Nat, NEW pairs, DOMAIN pairs = 1..N, Len(pairs) = N,
           NEW steps, Len(steps) \in Nat, NEW key, NEW root, N # 0,
           IndexTreeOutput(steps, key, root) = HashOf(pairs)[<<1, N>>]
    PROVE  HasSteps(GetMerklePath(pairs, key), steps, Len(steps))
  <1> DEFINE g == HashOf(pairs)
             n == Len(steps)
             p == CHOOSE q : IsPath(pairs, q, key)
  <1>1. PICK h : IsOutput(h, steps, key, root, n) /\ IndexTreeOutput(steps, key, root) = h[n]
    BY OutputOf
  <1>2. \A lo, hi \in 1..N : g[<<lo, hi>>] = HashStep(g, pairs, lo, hi)
    BY HashOfSlices
  <1>3. IsPath(pairs, p, key)
    BY PathExists
  <1>4. GetMerklePath(pairs, key) = p[<<1, N>>]
    BY DEF GetMerklePath, IsPath, PathStep
  <1> HIDE DEF p
  <1>5. \A lo, hi \in 1..N : p[<<lo, hi>>] = PathStep(pairs, p, key, lo, hi)
    BY <1>3 DEF IsPath, Slices
  <1> HIDE DEF n
  <1> DEFINE P(k) == k <= n => \A lo, hi \in 1..N : lo <= hi /\ h[k] = g[<<lo, hi>>]
                       => HasSteps(p[<<lo, hi>>], steps, k)
             T == {k \in Nat : P(k)}
  <1>6. n \in Nat
    BY DEF n
  <1>7. \A lo, hi \in 1..N : \A m : m = Middle(lo, hi) /\ lo < hi =>
          p[<<lo, hi>>] = IF key > pairs[m].partition
            THEN Append(p[<<m + 1, hi>>], [key |-> pairs[m].partition, hash |-> g[<<lo, m>>]])
            ELSE Append(p[<<lo, m>>], [key |-> pairs[m].partition, hash |-> g[<<m + 1, hi>>]])
    <2> SUFFICES ASSUME NEW lo \in 1..N, NEW hi \in 1..N, NEW m, m = Middle(lo, hi), lo < hi
                 PROVE  p[<<lo, hi>>] = IF key > pairs[m].partition
            THEN Append(p[<<m + 1, hi>>], [key |-> pairs[m].partition, hash |-> g[<<lo, m>>]])
            ELSE Append(p[<<lo, m>>], [key |-> pairs[m].partition, hash |-> g[<<m + 1, hi>>]])
      OBVIOUS
    <2>1. ~(lo >= hi)
      OBVIOUS
    <2>2. p[<<lo, hi>>] = PathStep(pairs, p, key, lo, hi)
      BY <1>5
    <2> QED BY <2>1, <2>2 DEF PathStep
  <1> HIDE DEF g
  <1>8. P(0)
    <2> SUFFICES ASSUME NEW lo \in 1..N, NEW hi \in 1..N, lo <= hi, h[0] = g[<<lo, hi>>]
                 PROVE  HasSteps(p[<<lo, hi>>], steps, 0)
      OBVIOUS
    <2>1. h[0] = LeafHash(key, root)
      BY <1>1, <1>6 DEF IsOutput
    <2>2. g[<<lo, hi>>] = HashStep(g, pairs, lo, hi)
      BY <1>2
    <2>3. lo >= hi
      <3>1. lo < hi => \E k, l, r : g[<<lo, hi>>] = NodeHash(k, l, r)
        <4>1. lo < hi => ~(lo >= hi)
          OBVIOUS
        <4> QED BY <2>2, <4>1 DEF HashStep
      <3> QED BY <2>1, <3>1, HashesDiffer
    <2>4. p[<<lo, hi>>] = << >>
      BY <1>5, <2>3 DEF PathStep
    <2>5. 1..0 = {}
      OBVIOUS
    <2> QED BY <2>4, <2>5, NoSequence DEF HasSteps
  <1>9. ASSUME NEW k \in Nat, P(k) PROVE P(k + 1)
    <2> SUFFICES ASSUME k + 1 <= n, NEW lo \in 1..N, NEW hi \in 1..N, lo <= hi,
                        h[k + 1] = g[<<lo, hi>>]
                 PROVE  HasSteps(p[<<lo, hi>>], steps, k + 1)
      OBVIOUS
    <2> DEFINE s == steps[k + 1]
               m == Middle(lo, hi)
    <2>1. h[k + 1] = IF key > s.key THEN NodeHash(s.key, s.hash, h[k])
                     ELSE NodeHash(s.key, h[k], s.hash)
      BY <1>1, <1>6, OutputAt DEF OutputStep
    <2>3. g[<<lo, hi>>] = HashStep(g, pairs, lo, hi)
      BY <1>2
    <2>4. lo < hi
      <3>1. \E j, l, r : h[k + 1] = NodeHash(j, l, r)
        BY <2>1
      <3>2. CASE lo >= hi
        <4>1. \E j, r : h[k + 1] = LeafHash(j, r)
          BY <2>3, <3>2 DEF HashStep
        <4> DEFINE x == h[k + 1]
        <4>2. (\E j, l, r : x = NodeHash(j, l, r)) /\ (\E j, r : x = LeafHash(j, r))
          BY <3>1, <4>1
        <4> HIDE DEF x
        <4> QED BY ONLY <4>2, LeafIsNoNode
      <3>3. lo \in Nat /\ hi \in Nat
        OBVIOUS
      <3> QED BY ONLY <3>2, <3>3
    <2>5. g[<<lo, hi>>] = NodeHash(pairs[m].partition, g[<<lo, m>>], g[<<m + 1, hi>>])
      <3>1. ~(lo >= hi)
        BY <2>4
      <3> QED BY <2>3, <3>1 DEF HashStep
    <2>6. m \in lo..(hi - 1) /\ m + 1 \in (lo + 1)..hi
      <3>1. lo \in Nat /\ hi \in Nat /\ m = Middle(lo, hi)
        OBVIOUS
      <3> HIDE DEF m
      <3> QED BY <2>4, <3>1, Halves
    <2>7. p[<<lo, hi>>] = IF key > pairs[m].partition
            THEN Append(p[<<m + 1, hi>>], [key |-> pairs[m].partition, hash |-> g[<<lo, m>>]])
            ELSE Append(p[<<lo, m>>], [key |-> pairs[m].partition, hash |-> g[<<m + 1, hi>>]])
      BY <1>7, <2>4
    <2> HIDE DEF m, s
    <2>8. m \in 1..N /\ lo <= m /\ m + 1 \in 1..N /\ m + 1 <= hi /\ k <= n
      BY <1>6, <2>6
    <2>9. CASE key > s.key
      <3>1. NodeHash(s.key, s.hash, h[k])
              = NodeHash(pairs[m].partition, g[<<lo, m>>], g[<<m + 1, hi>>])
        BY <2>1, <2>5, <2>9
      <3>2. /\ s.key = pairs[m].partition /\ s.hash = g[<<lo, m>>] /\ h[k] = g[<<m + 1, hi>>]
        BY <3>1, HashesDiffer
      <3>3. HasSteps(p[<<m + 1, hi>>], steps, k)
        BY <1>9, <2>8, <3>2
      <3>4. p[<<lo, hi>>] = Append(p[<<m + 1, hi>>], [key |-> s.key, hash |-> s.hash])
        BY <2>7, <2>9, <3>2
      <3> QED BY <3>3, <3>4, OneStepMore DEF s
    <2>10. CASE ~(key > s.key)
      <3>1. NodeHash(s.key, h[k], s.hash)
              = NodeHash(pairs[m].partition, g[<<lo, m>>], g[<<m + 1, hi>>])
        BY <2>1, <2>5, <2>10
      <3>2. /\ s.key = pairs[m].partition /\ h[k] = g[<<lo, m>>] /\ s.hash = g[<<m + 1, hi>>]
        BY <3>1, HashesDiffer
      <3>3. HasSteps(p[<<lo, m>>], steps, k)
        BY <1>9, <2>8, <3>2
      <3>4. p[<<lo, hi>>] = Append(p[<<lo, m>>], [key |-> s.key, hash |-> s.hash])
        BY <2>7, <2>10, <3>2
      <3> QED BY <3>3, <3>4, OneStepMore DEF s
    <2> QED BY <2>9, <2>10
  <1> HIDE DEF P
  <1>10. T \in SUBSET Nat /\ 0 \in T /\ \A k \in T : k + 1 \in T
    BY ONLY <1>8, <1>9
  <1>11. P(n)
    <2> HIDE DEF T
    <2>1. n \in T
      BY <1>6, <1>10, Induction
    <2> QED BY <2>1 DEF T
  <1>12. 1 \in 1..N /\ N \in 1..N /\ 1 <= N /\ n <= n /\ h[n] = g[<<1, N>>]
    BY <1>1, <1>6 DEF g
  <1>13. HasSteps(p[<<1, N>>], steps, n)
    BY <1>11, <1>12 DEF P
  <1> QED BY <1>4, <1>13 DEF n

-------------------------------------------------------------------------------
(* The validity of a scheme. *)

\* The bit strings of nodes are those of at most MaxLength bits.
LEMMA BitStringsAre ==
    /\ MaxLength \in Nat
    /\ \A s \in BitStrings : s \in Seq(Bit) /\ Len(s) \in Nat /\ Len(s) <= MaxLength
    /\ \A s \in Seq(Bit) : Len(s) <= MaxLength => s \in BitStrings
  <1>1. MaxLength \in Nat
    BY LengthAssumption
  <1>2. ASSUME NEW s \in BitStrings
        PROVE  s \in Seq(Bit) /\ Len(s) \in Nat /\ Len(s) <= MaxLength
    <2>1. PICK n \in 0..MaxLength : s \in [1..n -> Bit]
      BY DEF BitStrings
    <2>2. n \in Nat /\ n <= MaxLength
      BY <1>1
    <2>3. s \in Seq(Bit) /\ Len(s) = n
      BY <2>1, <2>2
    <2> QED BY <2>2, <2>3
  <1>3. ASSUME NEW s \in Seq(Bit), Len(s) <= MaxLength PROVE s \in BitStrings
    <2>1. Len(s) \in 0..MaxLength /\ s \in [1..Len(s) -> Bit]
      BY <1>1, <1>3
    <2> HIDE DEF Bit
    <2> QED BY <2>1 DEF BitStrings
  <1> QED BY <1>1, <1>2, <1>3

\* The nodes are the identifiers of these strings.
LEMMA NodesAre ==
    /\ \A id \in Nodes : /\ id \in Identifiers /\ Used(id) \in BitStrings
                         /\ Used(id) \in Seq(Bit) /\ id = NewID(Used(id))
                         /\ id.length = Len(Used(id)) /\ Len(Used(id)) <= MaxLength
    /\ \A s \in BitStrings : NewID(s) \in Nodes /\ Used(NewID(s)) = s
    /\ EmptyID \in Nodes /\ Used(EmptyID) = << >> /\ << >> \in Seq(Bit) /\ << >> \in BitStrings
  <1>1. \A s \in BitStrings : s \in Seq(Bit) /\ Used(NewID(s)) = s /\ NewID(s).length = Len(s)
                              /\ Len(s) <= MaxLength /\ NewID(s) \in Identifiers
    BY BitStringsAre, IdentifierIs DEF Identifiers
  <1>2. << >> \in Seq(Bit) /\ Len(<< >>) = 0
    OBVIOUS
  <1>3. << >> \in BitStrings
    <2> DEFINE e == << >>
    <2>1. e \in Seq(Bit) /\ Len(e) = 0 /\ MaxLength \in Nat
      BY <1>2, BitStringsAre
    <2> HIDE DEF e
    <2>2. Len(e) <= MaxLength
      BY <2>1
    <2>3. e \in BitStrings
      BY ONLY <2>1, <2>2, BitStringsAre
    <2> QED BY <2>3 DEF e
  <1> QED BY <1>1, <1>2, <1>3 DEF Nodes, EmptyID

\* What holds of some or of any two identifiers of a list holds of it sorted.
LEMMA SortingKeeps ==
    ASSUME NEW sh \in Seq(Nodes), NEW o, o = SortedIDs(sh), NEW n
    PROVE  /\ o \in Seq(Identifiers) /\ Len(o) = Len(sh) /\ InIDOrder(o)
           /\ \A i \in 1..Len(o) : Len(Used(o[i])) <= MaxLength
           /\ NoPrefixes(o) <=> NoPrefixes(sh)
           /\ Covers(o, n) <=> Covers(sh, n)
  <1> DEFINE L == Len(sh)
  <1>1. sh \in Seq(Identifiers) /\ L \in Nat /\ \A i \in 1..L : sh[i] \in Nodes
    <2>1. Nodes \subseteq Identifiers
      BY NodesAre
    <2> QED BY <2>1
  <1>2. /\ o \in Seq(Identifiers) /\ Len(o) = L
        /\ \A i, j \in 1..L : i < j => NotAfter(o[i], o[j])
        /\ Rearranged(sh, o)
    BY <1>1, SortedIDsIs
  <1>3. PICK p \in [1..L -> 1..L] :
                /\ \A i, j \in 1..L : p[i] = p[j] => i = j
                /\ \A j \in 1..L : \E k \in 1..L : p[k] = j
                /\ \A k \in 1..L : o[k] = sh[p[k]]
    BY <1>2 DEF Rearranged
  <1> HIDE DEF L
  <1>4. InIDOrder(o)
    BY <1>2 DEF InIDOrder
  <1>5. \A i \in 1..L : p[i] \in 1..L /\ Len(Used(o[i])) <= MaxLength
    BY <1>1, <1>3, NodesAre
  <1>6. NoPrefixes(sh) => NoPrefixes(o)
    <2> SUFFICES ASSUME NoPrefixes(sh), NEW i \in 1..L, NEW j \in 1..L,
                        IsPrefixOf(Used(o[i]), Used(o[j]))
                 PROVE  i = j
      BY <1>2 DEF NoPrefixes
    <2>1. o[i] = sh[p[i]] /\ o[j] = sh[p[j]] /\ p[i] \in 1..L /\ p[j] \in 1..L
      BY <1>3, <1>5
    <2>2. p[i] = p[j]
      BY <2>1 DEF NoPrefixes, L
    <2> QED BY <1>3, <2>2
  <1>7. NoPrefixes(o) => NoPrefixes(sh)
    <2> SUFFICES ASSUME NoPrefixes(o), NEW i \in 1..L, NEW j \in 1..L,
                        IsPrefixOf(Used(sh[i]), Used(sh[j]))
                 PROVE  i = j
      BY DEF NoPrefixes, L
    <2>1. PICK a \in 1..L : p[a] = i
      BY <1>3
    <2>2. PICK b \in 1..L : p[b] = j
      BY <1>3
    <2>3. o[a] = sh[i] /\ o[b] = sh[j]
      BY <1>3, <2>1, <2>2
    <2>4. a = b
      BY <1>2, <2>3 DEF NoPrefixes, L
    <2> QED BY <2>1, <2>2, <2>4
  <1>8. ASSUME NEW t \in Seq(Bit)
        PROVE  (\E i \in 1..L : IsPrefixOf(Used(o[i]), t))
                 <=> \E i \in 1..L : IsPrefixOf(Used(sh[i]), t)
    <2>1. ASSUME NEW i \in 1..L, IsPrefixOf(Used(o[i]), t)
          PROVE  \E j \in 1..L : IsPrefixOf(Used(sh[j]), t)
      BY <1>3, <1>5, <2>1
    <2>2. ASSUME NEW i \in 1..L, IsPrefixOf(Used(sh[i]), t)
          PROVE  \E j \in 1..L : IsPrefixOf(Used(o[j]), t)
      BY <1>3, <2>2
    <2> QED BY <2>1, <2>2
  <1>9. Covers(o, n) <=> Covers(sh, n)
    BY <1>2, <1>8 DEF Covers, L
  <1> QED BY <1>2, <1>4, <1>5, <1>6, <1>7, <1>9 DEF L

\* A scheme is valid when its shards split the strings among them.
LEMMA ValidSchemeIs ==
    ASSUME NEW sh \in Seq(Nodes)
    PROVE  /\ Len(sh) > 1 =>
                (IsValidScheme(sh) <=> NoPrefixes(sh) /\ Covers(sh, MaxLength))
           /\ Len(sh) = 1 => ~IsValidScheme(sh)
           /\ sh = << >> => IsValidScheme(sh)
  <1> DEFINE o == SortedIDs(sh)
  <1>1. /\ o \in Seq(Identifiers) /\ Len(o) = Len(sh) /\ InIDOrder(o)
        /\ \A i \in 1..Len(o) : Len(Used(o[i])) <= MaxLength
        /\ NoPrefixes(o) <=> NoPrefixes(sh)
        /\ Covers(o, MaxLength) <=> Covers(sh, MaxLength)
    BY SortingKeeps
  <1>2. IsValidScheme(sh) <=> /\ Len(sh) # 1
                              /\ \A i \in 1..Len(sh) : sh[i].length # 0
                              /\ PrefixFree(o) /\ CheckComplete(o)
    BY DEF IsValidScheme
  <1> HIDE DEF o
  <1>3. PrefixFree(o) <=> NoPrefixes(sh)
    BY <1>1, PrefixFreeIs
  <1>4. MaxLength \in Nat /\ Len(sh) \in Nat
    BY BitStringsAre
  <1>5. ASSUME Len(sh) > 1, NoPrefixes(sh), Covers(sh, MaxLength)
        PROVE  IsValidScheme(sh)
    <2>1. o # << >>
      BY <1>1, <1>4, <1>5
    <2>2. CheckComplete(o)
      BY <1>1, <1>4, <1>5, <2>1, CoversComplete
    <2>3. ASSUME NEW i \in 1..Len(sh), sh[i].length = 0 PROVE FALSE
      <3>1. PICK j \in 1..Len(sh) : j # i
        <4>1. 1 \in 1..Len(sh) /\ 2 \in 1..Len(sh) /\ 1 # 2
          BY <1>4, <1>5
        <4> QED BY <4>1
      <3>2. sh[i] \in Nodes /\ sh[j] \in Nodes
        OBVIOUS
      <3>3. Used(sh[i]) \in Seq(Bit) /\ Len(Used(sh[i])) = 0 /\ Used(sh[j]) \in Seq(Bit)
        BY <2>3, <3>2, NodesAre
      <3>4. IsPrefixOf(Used(sh[i]), Used(sh[j]))
        BY <3>3, PrefixIs
      <3> QED BY <1>5, <3>1, <3>4 DEF NoPrefixes
    <2> QED BY <1>2, <1>3, <1>4, <1>5, <2>2, <2>3
  <1>6. ASSUME Len(sh) > 1, IsValidScheme(sh)
        PROVE  NoPrefixes(sh) /\ Covers(sh, MaxLength)
    <2>1. o # << >> /\ CheckComplete(o) /\ NoPrefixes(sh)
      BY <1>1, <1>2, <1>3, <1>4, <1>6
    <2>2. Covers(o, MaxLength)
      BY <1>1, <2>1, CompleteCovers DEF Covers
    <2> QED BY <1>1, <2>1, <2>2
  <1>7. ASSUME sh = << >> PROVE IsValidScheme(sh)
    <2>1. Len(o) = 0 /\ o = << >>
      BY <1>1, <1>7
    <2> QED BY <1>2, <1>7, <2>1 DEF PrefixFree, CheckComplete
  <1> QED BY <1>2, <1>5, <1>6, <1>7

\* The shards tile the strings when no shard is a prefix of another and they
\* cover the strings.
LEMMA TilesIs ==
    ASSUME NEW sh \in Seq(Nodes)
    PROVE  Tiles(sh) <=> NoPrefixes(sh) /\ Covers(sh, MaxLength)
  <1> DEFINE D == 1..Len(sh)
             In(t) == {i \in D : IsPrefixOf(Used(sh[i]), t)}
  <1>1. /\ MaxLength \in Nat /\ Len(sh) \in Nat /\ DOMAIN sh = D /\ IsFiniteSet(D)
        /\ \A i \in D : /\ sh[i] \in Nodes /\ Used(sh[i]) \in Seq(Bit)
                        /\ Len(Used(sh[i])) <= MaxLength /\ Len(Used(sh[i])) \in Nat
    <2>1. Len(sh) \in Nat /\ DOMAIN sh = D /\ \A i \in D : sh[i] \in Nodes
      OBVIOUS
    <2>2. IsFiniteSet(1..Len(sh))
      BY <2>1, FS_Interval
    <2>3. \A i \in D : Used(sh[i]) \in Seq(Bit) /\ Len(Used(sh[i])) <= MaxLength
      BY <2>1, NodesAre
    <2> QED BY <2>1, <2>2, <2>3, BitStringsAre
  <1>2. Tiles(sh) <=> \A t \in [1..MaxLength -> Bit] : Cardinality(In(t)) = 1
    BY <1>1 DEF Tiles
  <1>3. \A t : t \in [1..MaxLength -> Bit] <=> t \in Seq(Bit) /\ Len(t) = MaxLength
    BY <1>1
  <1>4. \A t : \A i : i \in In(t) <=> i \in D /\ IsPrefixOf(Used(sh[i]), t)
    OBVIOUS
  <1>5. \A t : Cardinality(In(t)) = 1 <=> \E i : In(t) = {i}
    <2> SUFFICES ASSUME NEW t PROVE Cardinality(In(t)) = 1 <=> \E i : In(t) = {i}
      OBVIOUS
    <2>1. In(t) \in SUBSET D
      OBVIOUS
    <2> HIDE DEF In
    <2>2. IsFiniteSet(In(t))
      BY <1>1, <2>1, FS_Subset
    <2> QED BY <2>2, FS_Singleton
  <1> HIDE DEF In
  <1>6. ASSUME Tiles(sh) PROVE NoPrefixes(sh)
    <2> SUFFICES ASSUME NEW i \in D, NEW j \in D, IsPrefixOf(Used(sh[i]), Used(sh[j]))
                 PROVE  i = j
      BY DEF NoPrefixes
    <2> DEFINE s == Used(sh[j])
               t == [k \in 1..MaxLength |-> At(s, k)]
    <2>1. s \in Seq(Bit) /\ Len(s) <= MaxLength /\ Len(s) \in Nat
      BY <1>1
    <2>2. t \in [1..MaxLength -> Bit]
      <3>1. \A k \in 1..MaxLength : At(s, k) \in Bit
        BY <2>1, BitsAt DEF Positions
      <3> QED BY <3>1
    <2>3. t \in Seq(Bit) /\ Len(t) = MaxLength
      BY <1>3, <2>2
    <2>4. \A k \in 1..Len(s) : s[k] = t[k]
      BY <1>1, <2>1 DEF At
    <2> HIDE DEF t, s
    <2>5. IsPrefixOf(s, t)
      BY <2>1, <2>3, <2>4, PrefixIs
    <2>6. IsPrefixOf(Used(sh[i]), t)
      <3>1. IsPrefixOf(Used(sh[i]), s)
        BY DEF s
      <3> QED BY <1>1, <2>1, <2>3, <2>5, <3>1, PrefixTransitive
    <2>7. i \in In(t) /\ j \in In(t)
      BY <1>4, <2>5, <2>6 DEF s
    <2>8. \E k : In(t) = {k}
      BY <1>2, <1>5, <1>6, <2>2
    <2> QED BY <2>7, <2>8
  <1>7. ASSUME Tiles(sh) PROVE Covers(sh, MaxLength)
    <2> SUFFICES ASSUME NEW t \in Seq(Bit), Len(t) = MaxLength
                 PROVE  \E i \in D : IsPrefixOf(Used(sh[i]), t)
      BY DEF Covers
    <2>1. PICK i : In(t) = {i}
      BY <1>2, <1>3, <1>5, <1>7
    <2> QED BY <1>4, <2>1
  <1>8. ASSUME NoPrefixes(sh), Covers(sh, MaxLength), NEW t \in [1..MaxLength -> Bit]
        PROVE  \E i : In(t) = {i}
    <2>1. t \in Seq(Bit) /\ Len(t) = MaxLength
      BY <1>3
    <2>2. PICK i \in D : IsPrefixOf(Used(sh[i]), t)
      BY <1>8, <2>1 DEF Covers
    <2>3. ASSUME NEW j \in In(t) PROVE j = i
      <3>1. j \in D /\ IsPrefixOf(Used(sh[j]), t)
        BY <1>4
      <3>2. IsPrefixOf(Used(sh[i]), Used(sh[j])) \/ IsPrefixOf(Used(sh[j]), Used(sh[i]))
        BY <1>1, <2>1, <2>2, <3>1, PrefixesCompare
      <3> QED BY <1>8, <3>1, <3>2 DEF NoPrefixes
    <2>4. i \in In(t)
      BY <1>4, <2>2
    <2>5. In(t) = {i}
      BY <2>3, <2>4
    <2> QED BY <2>5
  <1> QED BY <1>2, <1>5, <1>6, <1>7, <1>8

\* With an input for each shard and no more than shards, there is one for each.
LEMMA OneInputEach ==
    ASSUME NEW sh \in Seq(Nodes), NoPrefixes(sh),
           NEW st, Len(st) \in Nat, DOMAIN st = 1..Len(st),
           NEW ins, ins = {st[i].shard : i \in DOMAIN st},
           All(sh) \subseteq ins,
           Len(st) = IF sh = << >> THEN 1 ELSE Len(sh)
    PROVE  /\ ins = All(sh)
           /\ \A i, j \in 1..Len(st) : st[i].shard = st[j].shard => i = j
           /\ IsFiniteSet(All(sh)) /\ Cardinality(All(sh)) = Len(st)
  <1> DEFINE n == Len(st)
             f == [i \in 1..n |-> st[i].shard]
  <1>1. n \in Nat /\ DOMAIN st = 1..n /\ Len(sh) \in Nat
    BY SequenceIs
  <1>2. IsFiniteSet(All(sh)) /\ Cardinality(All(sh)) = n
    <2>1. CASE sh = << >>
      <3>1. All(sh) = {EmptyID} /\ n = 1
        BY <2>1 DEF All
      <3> HIDE DEF n
      <3> QED BY <3>1, FS_Singleton
    <2>2. CASE sh # << >>
      <3> DEFINE g == [i \in 1..n |-> sh[i]]
      <3>1. n = Len(sh) /\ DOMAIN sh = 1..n /\ All(sh) = {sh[i] : i \in 1..n}
        BY <2>2 DEF All
      <3> HIDE DEF n
      <3>2. \A i \in 1..n : g[i] = sh[i] /\ sh[i] \in Nodes
        BY <3>1
      <3>3. \A i, j \in 1..n : sh[i] = sh[j] => i = j
        <4>1. \A i \in 1..n : IsPrefixOf(Used(sh[i]), Used(sh[i]))
          <5> SUFFICES ASSUME NEW i \in 1..n PROVE IsPrefixOf(Used(sh[i]), Used(sh[i]))
            OBVIOUS
          <5>1. Used(sh[i]) \in Seq(Bit) /\ Len(Used(sh[i])) \in Nat
            BY <3>2, NodesAre, BitStringsAre
          <5> QED BY <5>1, PrefixIs
        <4> QED BY <3>1, <4>1 DEF NoPrefixes
      <3>4. g \in [1..n -> All(sh)]
        BY <3>1
      <3>5. g \in Bijection(1..n, All(sh))
        <4>1. \A y \in All(sh) : \E x \in 1..n : g[x] = y
          BY <3>1, <3>2
        <4>2. \A a, b \in 1..n : g[a] = g[b] => a = b
          BY <3>2, <3>3
        <4> HIDE DEF g
        <4> QED BY <3>4, <4>1, <4>2 DEF Bijection, Injection, Surjection, IsInjective
      <3>6. IsFiniteSet(1..n) /\ Cardinality(1..n) = n
        BY <1>1, FS_Interval
      <3>7. ExistsBijection(1..n, All(sh))
        BY <3>5 DEF ExistsBijection
      <3> QED BY <3>6, <3>7, FS_Bijection
    <2> QED BY <2>1, <2>2
  <1> HIDE DEF n
  <1>3. IsFiniteSet(1..n) /\ Cardinality(1..n) = n
    BY <1>1, FS_Interval
  <1>4. f \in Surjection(1..n, ins)
    <2>1. f \in [1..n -> ins] /\ \A i \in 1..n : f[i] = st[i].shard
      BY <1>1
    <2>2. \A y \in ins : \E i \in 1..n : f[i] = y
      BY <1>1
    <2> HIDE DEF f
    <2> QED BY <2>1, <2>2 DEF Surjection
  <1>5. /\ IsFiniteSet(ins) /\ Cardinality(ins) <= n
        /\ Cardinality(ins) = n => f \in Injection(1..n, ins)
    <2> HIDE DEF f
    <2> QED BY <1>3, <1>4, FS_Surjection
  <1>6. ins = All(sh)
    <2>1. Cardinality(All(sh)) <= Cardinality(ins)
          /\ (Cardinality(ins) = Cardinality(All(sh)) => ins = All(sh))
      BY <1>5, FS_Subset
    <2>2. Cardinality(ins) \in Nat
      BY <1>5, FS_CardinalityType
    <2> QED BY <1>1, <1>2, <1>5, <2>1, <2>2
  <1>7. f \in Injection(1..n, ins)
    BY <1>2, <1>5, <1>6
  <1>8. \A i, j \in 1..n : st[i].shard = st[j].shard => i = j
    <2>1. \A i \in 1..n : f[i] = st[i].shard
      OBVIOUS
    <2> HIDE DEF f
    <2> QED BY <1>7, <2>1 DEF Injection, IsInjective
  <1> QED BY <1>2, <1>6, <1>8 DEF n

-------------------------------------------------------------------------------
(* The nodes of a shard tree. *)

\* The bit strings of the shards, and those of the nodes above a set of strings.
Strings(sh) == {Used(id) : id \in All(sh)}
Above(S) == {s \in BitStrings : \E t \in S : IsPrefixOf(s, t)}

\* Every long enough string continues one of T, and no string of T another.
Splits(T) ==
    /\ T \subseteq BitStrings
    /\ \A s, t \in T : IsPrefixOf(s, t) => s = t
    /\ \A t \in Seq(Bit) : Len(t) = MaxLength => \E s \in T : IsPrefixOf(s, t)

\* One bit more.
LEMMA AppendIs ==
    ASSUME NEW s \in Seq(Bit), NEW b \in Bit
    PROVE  /\ Append(s, b) \in Seq(Bit) /\ Len(Append(s, b)) = Len(s) + 1
           /\ Append(s, b)[Len(s) + 1] = b
           /\ \A i \in 1..Len(s) : Append(s, b)[i] = s[i]
           /\ IsPrefixOf(s, Append(s, b))
  <1>1. /\ Append(s, b) \in Seq(Bit) /\ Len(Append(s, b)) = Len(s) + 1
        /\ Append(s, b)[Len(s) + 1] = b
        /\ \A i \in 1..Len(s) : Append(s, b)[i] = s[i]
    OBVIOUS
  <1>2. Len(s) <= Len(Append(s, b))
    BY <1>1
  <1> QED BY <1>1, <1>2, PrefixIs

\* Below a node above the shards that is not a shard there are two such nodes.
LEMMA GoesOn ==
    ASSUME NEW T, Splits(T), NEW w \in BitStrings, NEW v \in T, IsPrefixOf(w, v), w \notin T,
           NEW b \in Bit
    PROVE  Append(w, b) \in BitStrings /\ \E u \in T : IsPrefixOf(Append(w, b), u)
  <1> DEFINE x == Append(w, b)
             t == [k \in 1..MaxLength |-> At(x, k)]
  <1>1. /\ MaxLength \in Nat /\ w \in Seq(Bit) /\ v \in Seq(Bit) /\ Len(w) \in Nat
        /\ v \in BitStrings /\ Len(v) \in Nat /\ Len(v) <= MaxLength
    BY BitStringsAre DEF Splits
  <1>2. Len(w) < Len(v)
    <2>1. Len(w) <= Len(v)
      BY <1>1, PrefixIs
    <2>2. ~(Len(v) <= Len(w))
      BY <1>1, FullPrefix
    <2> QED BY <1>1, <2>1, <2>2
  <1>3. /\ x \in Seq(Bit) /\ Len(x) = Len(w) + 1 /\ IsPrefixOf(w, x)
    BY <1>1, AppendIs
  <1>4. x \in BitStrings /\ Len(x) <= MaxLength /\ Len(x) \in Nat
    <2> HIDE DEF x
    <2>1. Len(x) <= MaxLength /\ Len(x) \in Nat
      BY <1>1, <1>2, <1>3
    <2> QED BY <1>3, <2>1, BitStringsAre
  <1> HIDE DEF x
  <1>5. t \in Seq(Bit) /\ Len(t) = MaxLength
    <2>1. \A k \in 1..MaxLength : At(x, k) \in Bit
      BY <1>3, BitsAt DEF Positions
    <2> QED BY <1>1, <2>1
  <1>6. IsPrefixOf(x, t)
    <2>1. \A k \in 1..Len(x) : x[k] = t[k]
      BY <1>1, <1>4 DEF At
    <2> HIDE DEF t
    <2> QED BY <1>3, <1>4, <1>5, <2>1, PrefixIs
  <1> HIDE DEF t
  <1>7. PICK u \in T : IsPrefixOf(u, t)
    BY <1>5 DEF Splits
  <1>8. u \in Seq(Bit) /\ Len(u) \in Nat
    BY BitStringsAre DEF Splits
  <1>9. CASE Len(x) <= Len(u)
    BY <1>3, <1>4, <1>5, <1>6, <1>7, <1>8, <1>9, PrefixesCompare DEF x
  <1>10. CASE Len(u) < Len(x)
    <2>1. IsPrefixOf(w, t)
      BY <1>1, <1>3, <1>5, <1>6, PrefixTransitive
    <2>2. IsPrefixOf(u, w)
      <3>1. Len(u) <= Len(w)
        BY <1>1, <1>3, <1>8, <1>10
      <3> QED BY <1>1, <1>5, <1>7, <1>8, <2>1, <3>1, PrefixesCompare
    <2>3. IsPrefixOf(u, v)
      BY <1>1, <1>8, <2>2, PrefixTransitive
    <2>4. u = v
      BY <2>3 DEF Splits
    <2>5. FALSE
      <3>1. Len(u) <= Len(w)
        BY <1>1, <1>3, <1>8, <1>10
      <3> QED BY <1>1, <1>2, <2>4, <3>1
    <2> QED BY <2>5
  <1> QED BY <1>4, <1>8, <1>9, <1>10 DEF x

\* The shards of a valid scheme split the strings.
LEMMA ValidSplits ==
    ASSUME NEW sh \in Seq(Nodes), IsValidScheme(sh)
    PROVE  Splits(Strings(sh)) /\ NoPrefixes(sh)
  <1>1. Len(sh) \in Nat
    OBVIOUS
  <1>2. CASE sh = << >>
    <2>1. Strings(sh) = {<< >>}
      <3>1. All(sh) = {EmptyID}
        BY <1>2 DEF All
      <3>2. Used(EmptyID) = << >>
        BY NodesAre
      <3> QED BY <3>1, <3>2 DEF Strings
    <2>2. ASSUME NEW t \in Seq(Bit) PROVE IsPrefixOf(<< >>, t)
      <3> DEFINE e == << >>
      <3>1. e \in Seq(Bit) /\ Len(e) = 0
        OBVIOUS
      <3> HIDE DEF e
      <3>2. IsPrefixOf(e, t)
        <4>1. Len(e) <= Len(t) /\ \A i \in 1..Len(e) : e[i] = t[i]
          BY <3>1
        <4> QED BY <3>1, <4>1, PrefixIs
      <3> QED BY <3>2 DEF e
    <2>3. NoPrefixes(sh)
      BY <1>2 DEF NoPrefixes
    <2>4. << >> \in BitStrings
      BY NodesAre
    <2> QED BY <2>1, <2>2, <2>3, <2>4 DEF Splits
  <1>3. CASE Len(sh) > 1
    <2>1. NoPrefixes(sh) /\ Covers(sh, MaxLength)
      BY <1>3, ValidSchemeIs
    <2>2. DOMAIN sh = 1..Len(sh) /\ \A i \in 1..Len(sh) : sh[i] \in Nodes
      BY SequenceIs
    <2>3. Strings(sh) = {Used(sh[i]) : i \in 1..Len(sh)}
      <3>1. All(sh) = {sh[i] : i \in 1..Len(sh)}
        BY <1>3, <2>2 DEF All
      <3> QED BY <3>1 DEF Strings
    <2>4. Strings(sh) \subseteq BitStrings
      BY <2>2, <2>3, NodesAre
    <2>5. \A s, t \in Strings(sh) : IsPrefixOf(s, t) => s = t
      BY <2>1, <2>3 DEF NoPrefixes
    <2>6. \A t \in Seq(Bit) : Len(t) = MaxLength => \E s \in Strings(sh) : IsPrefixOf(s, t)
      BY <2>1, <2>3 DEF Covers
    <2> QED BY <2>1, <2>4, <2>5, <2>6 DEF Splits
  <1>4. Len(sh) = 0 => sh = << >>
    OBVIOUS
  <1>5. Len(sh) # 1
    BY ValidSchemeIs
  <1>6. Len(sh) > 1 \/ sh = << >>
    <2> DEFINE n == Len(sh)
    <2>1. n \in Nat /\ n # 1 /\ (n = 0 => sh = << >>)
      BY <1>1, <1>4, <1>5
    <2> HIDE DEF n
    <2>2. n > 1 \/ n = 0
      BY <2>1
    <2> QED BY <2>1, <2>2 DEF n
  <1> QED BY <1>2, <1>3, <1>6
\* The nodes above strings that split all strings.
LEMMA AboveIs ==
    ASSUME NEW S, Splits(S)
    PROVE  /\ S \subseteq Above(S) /\ Above(S) \subseteq BitStrings
           /\ \A s \in Above(S) : s \in Seq(Bit) /\ Len(s) \in Nat /\ Len(s) <= MaxLength
           /\ \A s \in Above(S) \ S, b \in Bit : Append(s, b) \in Above(S)
           /\ << >> \in Above(S)
  <1>1. Above(S) \subseteq BitStrings
    BY DEF Above
  <1>2. \A s \in Above(S) : s \in Seq(Bit) /\ Len(s) \in Nat /\ Len(s) <= MaxLength
    BY <1>1, BitStringsAre
  <1>3. S \subseteq Above(S)
    <2> SUFFICES ASSUME NEW s \in S PROVE s \in Above(S)
      OBVIOUS
    <2>1. s \in BitStrings /\ s \in Seq(Bit) /\ Len(s) \in Nat
      BY BitStringsAre DEF Splits
    <2>2. IsPrefixOf(s, s)
      BY <2>1, PrefixIs
    <2> QED BY <2>1, <2>2 DEF Above
  <1>4. ASSUME NEW s \in Above(S) \ S, NEW b \in Bit
        PROVE  Append(s, b) \in Above(S)
    <2>1. PICK v \in S : IsPrefixOf(s, v)
      BY DEF Above
    <2> QED BY <1>1, <2>1, GoesOn DEF Above
  <1>5. << >> \in Above(S)
    <2> DEFINE e == << >>
    <2>1. e \in BitStrings /\ e \in Seq(Bit) /\ Len(e) = 0 /\ MaxLength \in Nat
      BY NodesAre, BitStringsAre
    <2> HIDE DEF e
    <2> DEFINE t == [i \in 1..MaxLength |-> 0]
    <2>2. t \in Seq(Bit) /\ Len(t) = MaxLength
      BY <2>1 DEF Bit
    <2> HIDE DEF t
    <2>3. PICK u \in S : IsPrefixOf(u, t)
      BY <2>2 DEF Splits
    <2>4. u \in Seq(Bit) /\ Len(u) \in Nat
      BY <1>2, <1>3
    <2>5. IsPrefixOf(e, u)
      <3>1. Len(e) <= Len(u) /\ \A i \in 1..Len(e) : e[i] = u[i]
        BY <2>1, <2>4
      <3> QED BY <2>1, <2>4, <3>1, PrefixIs
    <2>6. e \in Above(S)
      BY <2>1, <2>3, <2>5 DEF Above
    <2> QED BY <2>6 DEF e
  <1> QED BY <1>1, <1>2, <1>3, <1>4, <1>5

NodeKey(s) == Key(NewID(s))
Half(s, b) == NodeKey(Append(s, b))

\* The keys of nodes tell them apart.
LEMMA NodeKeysDiffer ==
    ASSUME NEW S, NEW s \in Above(S), NEW t \in Above(S), NodeKey(s) = NodeKey(t)
    PROVE  s = t
  <1>1. s \in Seq(Bit) /\ t \in Seq(Bit)
    BY BitStringsAre DEF Above
  <1> QED BY <1>1, KeyDetermines DEF NodeKey

\* The start of a node's string, and one bit more of it.
LEMMA StartOf ==
    ASSUME NEW s \in Seq(Bit), NEW m \in Nat, m < Len(s)
    PROVE  LET p == SubSeq(s, 1, m)
           IN  /\ p \in Seq(Bit) /\ Len(p) = m /\ s[m + 1] \in Bit
               /\ SubSeq(s, 1, m + 1) = Append(p, s[m + 1])
               /\ IsPrefixOf(p, s)
  <1> DEFINE p == SubSeq(s, 1, m)
             b == s[m + 1]
             k == m + 1
             u == SubSeq(s, 1, k)
             v == Append(p, b)
  <1>1. Len(s) \in Nat /\ m \in 0..Len(s) /\ k \in 1..Len(s) /\ k \in 0..Len(s) /\ k \in Nat
    OBVIOUS
  <1>2. p \in Seq(Bit) /\ Len(p) = m /\ \A i \in 1..m : p[i] = s[i]
    BY <1>1
  <1>3. b \in Bit
    BY <1>1
  <1>4. b = s[k] /\ k = m + 1
    OBVIOUS
  <1> HIDE DEF p, b, k
  <1>5. u \in Seq(Bit) /\ Len(u) = k /\ \A i \in 1..k : u[i] = s[i]
    BY <1>1
  <1>6. /\ v \in Seq(Bit) /\ Len(v) = Len(p) + 1 /\ v[Len(p) + 1] = b
        /\ \A i \in 1..Len(p) : v[i] = p[i]
    BY <1>2, <1>3, AppendIs
  <1> HIDE DEF u, v
  <1>7. Len(v) = k /\ \A i \in 1..k : u[i] = v[i]
    BY <1>1, <1>2, <1>4, <1>5, <1>6
  <1>8. u = v
    BY <1>5, <1>6, <1>7
  <1>9. IsPrefixOf(p, s)
    BY <1>1, <1>2, PrefixIs
  <1> QED BY <1>2, <1>3, <1>8, <1>9 DEF p, b, k, u, v

\* The start of a node's string is a node, and is no shard.
LEMMA StartAbove ==
    ASSUME NEW S, Splits(S), NEW s \in Above(S), NEW m \in Nat, m < Len(s)
    PROVE  SubSeq(s, 1, m) \in Above(S) \ S
  <1> DEFINE p == SubSeq(s, 1, m)
  <1>1. s \in Seq(Bit) /\ Len(s) \in Nat /\ Len(s) <= MaxLength /\ MaxLength \in Nat
    BY AboveIs, BitStringsAre
  <1>2. p \in Seq(Bit) /\ Len(p) = m /\ IsPrefixOf(p, s)
    BY <1>1, StartOf
  <1>3. PICK v \in S : IsPrefixOf(s, v)
    BY DEF Above
  <1>4. v \in BitStrings /\ v \in Seq(Bit)
    BY BitStringsAre DEF Splits
  <1> HIDE DEF p
  <1>5. IsPrefixOf(p, v)
    BY <1>1, <1>2, <1>3, <1>4, PrefixTransitive
  <1>6. p \in BitStrings
    <2>1. Len(p) <= MaxLength
      BY <1>1, <1>2
    <2> QED BY <1>2, <2>1, BitStringsAre
  <1>7. p \notin S
    <2> SUFFICES ASSUME p \in S PROVE FALSE
      OBVIOUS
    <2>1. p = v
      BY <1>3, <1>5 DEF Splits
    <2>2. Len(s) <= Len(v)
      BY <1>3 DEF IsPrefixOf
    <2> QED BY <1>1, <1>2, <2>1, <2>2
  <1> QED BY <1>3, <1>5, <1>6, <1>7 DEF Above, p

-------------------------------------------------------------------------------
(* The certificates of a shard tree. *)

\* The bits are passed from the last to the first.
LEMMA BitOfRound ==
    ASSUME NEW l \in Nat, NEW n \in Nat
    PROVE  BitOf(l, n) = l - n
  <1> DEFINE first == FirstIndex(l)
             c == first.bit + n
  <1>1. /\ first.byte * ByteBits + ByteBits - first.bit = l
        /\ first.byte \in Int /\ first.bit \in Nat
    <2> DEFINE q == l \div ByteBits
    <2>1. q \in Nat /\ q * ByteBits \in Nat /\ l % ByteBits = l - q * ByteBits
          /\ l % ByteBits \in 0..(ByteBits - 1) /\ ByteBits \in Nat \ {0}
      BY Division, ByteAssumption
    <2>2. CASE l % ByteBits = 0
      <3>1. first.byte = q - 1 /\ first.bit = 0
        BY <2>2 DEF FirstIndex
      <3> HIDE DEF q, first
      <3>2. (q - 1) * ByteBits = q * ByteBits - ByteBits
        BY <2>1
      <3> QED BY <2>1, <2>2, <3>1, <3>2
    <2>3. CASE l % ByteBits # 0
      <3>1. first.byte = q /\ first.bit = ByteBits - (l % ByteBits)
        BY <2>3 DEF FirstIndex
      <3> HIDE DEF q, first
      <3> QED BY <2>1, <3>1
    <2> QED BY <2>2, <2>3
  <1>2. c \in Nat
    BY <1>1
  <1>3. /\ IndexAfter(l, n).byte = first.byte - (c \div ByteBits)
        /\ IndexAfter(l, n).bit = c % ByteBits
    BY DEF IndexAfter
  <1> HIDE DEF first, c
  <1>4. BitOf(l, n) = (first.byte - (c \div ByteBits)) * ByteBits + ByteBits - (c % ByteBits)
    BY <1>3 DEF BitOf, BitAt
  <1>5. (c \div ByteBits) \in Nat /\ (c \div ByteBits) * ByteBits \in Nat
        /\ c % ByteBits = c - (c \div ByteBits) * ByteBits
    BY <1>2, Division
  <1> DEFINE q == c \div ByteBits
             p == q * ByteBits
             f == first.byte * ByteBits
  <1>6. (first.byte - q) * ByteBits = f - p /\ f \in Int
    BY <1>1, <1>5, ByteAssumption
  <1>7. c = first.bit + n /\ f + ByteBits - first.bit = l /\ first.bit \in Nat
    BY <1>1 DEF c
  <1>8. BitOf(l, n) = (f - p) + ByteBits - (c - p) /\ p \in Nat
    BY <1>4, <1>5, <1>6
  <1> HIDE DEF q, p, f
  <1> QED BY <1>2, <1>6, <1>7, <1>8, ByteAssumption

\* The sibling of each node on the way.
LEMMA SiblingsAre ==
    ASSUME NEW T, NEW s \in Seq(Bit)
    PROVE  /\ Len(SiblingHashes(T, NewID(s))) = Len(s)
           /\ \A n \in 1..Len(s) : SiblingHashes(T, NewID(s))[n] =
                Lookup(T, Half(SubSeq(s, 1, Len(s) - n), 1 - s[Len(s) - n + 1]))
  <1> DEFINE id == NewID(s)
             l == Len(s)
  <1>1. l \in Nat /\ id.length = l /\ id.bits = [i \in 1..ByteLength(l) |-> At(s, i)]
        /\ l <= ByteLength(l) /\ ByteLength(l) \in Nat
    <2>1. l \in Nat
      OBVIOUS
    <2>2. id.length = l /\ id.bits = [i \in 1..ByteLength(l) |-> At(s, i)]
      BY IdentifierIs, PaddedIs
    <2>3. l <= ByteLength(l) /\ ByteLength(l) \in Nat
      BY <2>1, WholeBytes
    <2> QED BY <2>1, <2>2, <2>3
  <1>2. Len(SiblingHashes(T, id)) = l
    BY <1>1 DEF SiblingHashes
  <1>3. ASSUME NEW n \in 1..l
        PROVE  Key([bits |-> FlippedBits(id, n), length |-> l - n + 1])
                 = Half(SubSeq(s, 1, l - n), 1 - s[l - n + 1])
    <2> DEFINE m == l - n
               x == SubSeq(s, 1, m)
               b == 1 - s[m + 1]
               f == FlippedBits(id, n)
    <2>1. m \in Nat /\ m \in 0..Len(s) /\ m + 1 \in 1..l /\ m + n = l /\ n \in Nat \ {0}
      BY <1>1
    <2>2. f = [i \in 1..ByteLength(l) |-> IF i > m /\ i <= l THEN 1 - At(s, i) ELSE At(s, i)]
      <3>1. \A k \in 0..(n - 1) : BitOf(l, k) = l - k
        BY <1>1, BitOfRound
      <3>2. ASSUME NEW i \in 1..ByteLength(l)
            PROVE  (\E k \in 0..(n - 1) : BitOf(l, k) = i) <=> i > m /\ i <= l
        <4>1. i > m /\ i <= l => l - i \in 0..(n - 1) /\ l - (l - i) = i
          BY <1>1, <2>1
        <4>2. ASSUME NEW k \in 0..(n - 1), BitOf(l, k) = i PROVE i > m /\ i <= l
          <5>1. i = l - k
            BY <3>1, <4>2
          <5> QED BY <1>1, <2>1, <5>1
        <4> QED BY <3>1, <4>1, <4>2
      <3>3. DOMAIN id.bits = 1..ByteLength(l) /\ \A i \in 1..ByteLength(l) : id.bits[i] = At(s, i)
        BY <1>1
      <3>4. f = [i \in DOMAIN id.bits |-> IF \E k \in 0..(n - 1) : BitOf(id.length, k) = i
                              THEN 1 - id.bits[i] ELSE id.bits[i]]
        BY DEF FlippedBits
      <3>5. f = [i \in 1..ByteLength(l) |-> IF \E k \in 0..(n - 1) : BitOf(l, k) = i
                              THEN 1 - At(s, i) ELSE At(s, i)]
        BY <1>1, <3>3, <3>4
      <3> HIDE DEF f, m
      <3> QED BY <3>2, <3>5
    <2>3. b \in Bit
      <3>1. s[m + 1] \in Bit
        BY <2>1
      <3> QED BY <3>1 DEF Bit
    <2>4. x \in Seq(Bit) /\ Len(x) = m /\ \A i \in 1..m : x[i] = s[i]
      <3> HIDE DEF m
      <3> QED BY <2>1
    <2> HIDE DEF x, b, f
    <2>5. SubSeq(f, 1, m + 1) = Append(x, b)
      <3>1. \A i \in 1..(m + 1) : f[i] = IF i <= m THEN x[i] ELSE b
        <4> SUFFICES ASSUME NEW i \in 1..(m + 1) PROVE f[i] = IF i <= m THEN x[i] ELSE b
          OBVIOUS
        <4>1. i \in 1..ByteLength(l) /\ i <= l
          BY <1>1, <2>1
        <4>2. f[i] = IF i > m THEN 1 - s[i] ELSE s[i]
          BY <2>2, <4>1 DEF At
        <4>3. CASE i <= m
          <5>1. ~(i > m) /\ i \in 1..m
            BY <2>1, <4>3
          <5> QED BY <2>4, <4>2, <4>3, <5>1
        <4>4. CASE ~(i <= m)
          <5>1. i = m + 1 /\ i > m
            BY <2>1, <4>4
          <5> QED BY <4>2, <4>4, <5>1 DEF b
        <4> QED BY <4>3, <4>4
      <3>2. f \in Seq(Int) /\ Len(f) = ByteLength(l)
        <4>1. \A i \in 1..ByteLength(l) : At(s, i) \in Int
          BY <1>1 DEF At, Bit
        <4>2. \A i \in 1..ByteLength(l) : f[i] \in Int
          BY <2>2, <4>1
        <4> QED BY <1>1, <2>2, <4>2
      <3> DEFINE k == m + 1
                 u == SubSeq(f, 1, k)
                 v == Append(x, b)
      <3>3. k \in 0..Len(f) /\ k \in Nat /\ k = m + 1
        BY <1>1, <2>1, <3>2
      <3>4. /\ v \in Seq(Bit) /\ Len(v) = k /\ v[k] = b /\ \A i \in 1..m : v[i] = x[i]
        BY <2>3, <2>4, AppendIs
      <3> HIDE DEF k, v
      <3>5. u \in Seq(Int) /\ Len(u) = k /\ \A i \in 1..k : u[i] = f[i]
        BY <3>2, <3>3
      <3> HIDE DEF u
      <3>6. \A i \in 1..k : u[i] = v[i]
        <4> SUFFICES ASSUME NEW i \in 1..k PROVE u[i] = v[i]
          OBVIOUS
        <4>1. CASE i <= m
          <5>1. i \in 1..m /\ i \in 1..(m + 1)
            BY <2>1, <3>3, <4>1
          <5> QED BY <3>1, <3>4, <3>5, <4>1, <5>1
        <4>2. CASE ~(i <= m)
          <5>1. i = k /\ i \in 1..(m + 1)
            BY <2>1, <3>3, <4>2
          <5> QED BY <3>1, <3>4, <3>5, <4>2, <5>1
        <4> QED BY <4>1, <4>2
      <3>7. v \in Seq(Int) /\ u = [i \in 1..k |-> u[i]] /\ v = [i \in 1..k |-> v[i]]
        BY <3>4, <3>5 DEF Bit
      <3>8. u = v
        BY <3>6, <3>7
      <3> QED BY <3>8 DEF u, v, k
    <2>6. Used([bits |-> f, length |-> m + 1]) = Append(x, b)
      BY <2>5 DEF Used
    <2>7. Used(NewID(Append(x, b))) = Append(x, b)
      BY <2>3, <2>4, AppendIs, IdentifierIs
    <2>8. Key([bits |-> f, length |-> m + 1]) = Key(NewID(Append(x, b)))
      BY <2>6, <2>7 DEF Key, EncodeBitstring
    <2> QED BY <2>8 DEF Half, NodeKey, f, x, b
  <1>4. ASSUME NEW n \in 1..l
        PROVE  SiblingHashes(T, id)[n] = Lookup(T, Half(SubSeq(s, 1, l - n), 1 - s[l - n + 1]))
    <2>1. SiblingHashes(T, id)[n] = Lookup(T, Key([bits |-> FlippedBits(id, n), length |-> l - n + 1]))
      BY <1>1 DEF SiblingHashes
    <2> QED BY <1>3, <2>1
  <1> QED BY <1>2, <1>4

\* One round of ComputeCertificateHash.
CertificateStep(cert, n, x) ==
    IF cert.shard.bits[BitOf(cert.shard.length, n - 1)] = 0
    THEN HashNode(x, cert.siblings[n]) ELSE HashNode(cert.siblings[n], x)

IsAscent(h, cert, record, n) ==
    h = [i \in 0..n |-> IF i = 0 THEN HashLeaf(record) ELSE CertificateStep(cert, i, h[i - 1])]

\* The recursion of ComputeCertificateHash has a solution.
LEMMA AscentExists ==
    ASSUME NEW cert, NEW record
    PROVE  \A n \in Nat : \E h : IsAscent(h, cert, record, n)
  <1> DEFINE T == {n \in Nat : \E h : IsAscent(h, cert, record, n)}
  <1>1. 0 \in T
    <2> DEFINE h == [i \in 0..0 |-> HashLeaf(record)]
    <2>1. \A i \in 0..0 : i = 0 /\ h[i] = HashLeaf(record)
      OBVIOUS
    <2>2. h = [i \in 0..0 |-> IF i = 0 THEN HashLeaf(record) ELSE CertificateStep(cert, i, h[i - 1])]
      BY <2>1
    <2> HIDE DEF h
    <2> QED BY <2>2 DEF IsAscent
  <1>2. ASSUME NEW n \in T PROVE n + 1 \in T
    <2>1. PICK g : IsAscent(g, cert, record, n)
      OBVIOUS
    <2> DEFINE h == [i \in 0..(n + 1) |-> IF i <= n THEN g[i] ELSE CertificateStep(cert, i, g[i - 1])]
    <2>2. ASSUME NEW i \in 0..(n + 1)
          PROVE  h[i] = IF i = 0 THEN HashLeaf(record) ELSE CertificateStep(cert, i, h[i - 1])
      <3>1. i # 0 => i - 1 \in 0..(n + 1) /\ i - 1 <= n
        OBVIOUS
      <3>2. i # 0 => h[i - 1] = g[i - 1]
        BY <3>1
      <3>3. i <= n => g[i] = IF i = 0 THEN HashLeaf(record) ELSE CertificateStep(cert, i, g[i - 1])
        BY <2>1 DEF IsAscent
      <3> QED BY <3>2, <3>3
    <2>3. h = [i \in 0..(n + 1) |-> IF i = 0 THEN HashLeaf(record) ELSE CertificateStep(cert, i, h[i - 1])]
      BY <2>2
    <2> HIDE DEF h
    <2> QED BY <2>3 DEF IsAscent
  <1>3. T = Nat
    <2> HIDE DEF T
    <2>1. T \in SUBSET Nat
      BY DEF T
    <2> QED BY <1>1, <1>2, <2>1, Induction
  <1> QED BY <1>3

\* The hashes h that lead from a record along the bits of t to root.
LeadsTo(h, record, t, siblings, root) ==
    /\ h[0] = HashLeaf(record) /\ h[Len(t)] = root
    /\ \A n \in 1..Len(t) :
         h[n] = IF t[Len(t) - n + 1] = 0 THEN HashNode(h[n - 1], siblings[n])
                ELSE HashNode(siblings[n], h[n - 1])

\* ComputeCertificateHash of an identifier and as many siblings.
LEMMA AscentOf ==
    ASSUME NEW t \in Seq(Bit), NEW siblings, Len(siblings) = Len(t), NEW record, NEW root,
           root = ComputeCertificateHash([shard |-> NewID(t), siblings |-> siblings], record)
    PROVE  \E h : LeadsTo(h, record, t, siblings, root)
  <1> DEFINE cert == [shard |-> NewID(t), siblings |-> siblings]
  <1> DEFINE l == Len(t)
             h == CHOOSE g : IsAscent(g, cert, record, Len(cert.siblings))
  <1>1. l \in Nat /\ Len(cert.siblings) = l
    OBVIOUS
  <1>2. IsAscent(h, cert, record, Len(cert.siblings))
    BY <1>1, AscentExists
  <1>3. ComputeCertificateHash(cert, record) = h[Len(cert.siblings)]
    BY DEF ComputeCertificateHash, IsAscent, CertificateStep
  <1> HIDE DEF h
  <1>4. h[0] = HashLeaf(record)
    BY <1>1, <1>2 DEF IsAscent
  <1>5. ASSUME NEW n \in 1..l
        PROVE  h[n] = IF t[l - n + 1] = 0 THEN HashNode(h[n - 1], siblings[n])
                      ELSE HashNode(siblings[n], h[n - 1])
    <2>1. h[n] = CertificateStep(cert, n, h[n - 1])
      BY <1>1, <1>2 DEF IsAscent
    <2>2. BitOf(l, n - 1) = l - n + 1
      <3>1. n - 1 \in Nat /\ l - (n - 1) = l - n + 1
        BY <1>1
      <3> QED BY <1>1, <3>1, BitOfRound
    <2>3. cert.shard.length = l /\ cert.shard.bits[l - n + 1] = t[l - n + 1]
      <3> DEFINE m == l - n + 1
      <3>1. m \in 1..l
        BY <1>1
      <3> HIDE DEF m
      <3>2. NewID(t).length = l /\ NewID(t).bits = [i \in 1..ByteLength(l) |-> At(t, i)]
        BY IdentifierIs, PaddedIs
      <3>3. m \in 1..ByteLength(l) /\ m <= l
        BY <1>1, <3>1, WholeBytes
      <3>4. NewID(t).bits[m] = t[m]
        BY <3>2, <3>3 DEF At
      <3> QED BY <3>2, <3>4 DEF m
    <2> QED BY <2>1, <2>2, <2>3 DEF CertificateStep
  <1> QED BY <1>1, <1>3, <1>4, <1>5 DEF LeadsTo

\* A leaf is no node, and what is hashed can be told from the hash.
LEMMA HashesAre ==
    /\ \A q, r : HashLeaf(q) = HashLeaf(r) => q = r
    /\ \A q, l, r : HashLeaf(q) # HashNode(l, r)
    /\ \A k, l, m, n : HashNode(k, l) = HashNode(m, n) => k = m /\ l = n
  BY DEF HashLeaf, HashNode

(***************************************************************************)
(* T is a tree over the strings S: it has every node above them, the       *)
(* leaves are hashes of the records and the others of their halves.        *)
(***************************************************************************)
IsHashed(T, S, record) ==
    /\ Splits(S)
    /\ \A s \in Above(S) : NodeKey(s) \in DOMAIN T
    /\ \A s \in S : T[NodeKey(s)] = HashLeaf(record[NewID(s)])
    /\ \A s \in Above(S) \ S : T[NodeKey(s)] = HashNode(T[Half(s, 0)], T[Half(s, 1)])

\* The root of a tree.
LEMMA RootIs ==
    ASSUME NEW T, NEW S, NEW record, IsHashed(T, S, record)
    PROVE  RootHash(T) = T[NodeKey(<< >>)]
  <1>1. NodeKey(<< >>) \in DOMAIN T
    BY AboveIs DEF IsHashed
  <1> QED BY <1>1 DEF RootHash, Lookup, NodeKey, EmptyID

\* The sibling hashes of a shard lead from its record to the root.
LEMMA CertificateLeads ==
    ASSUME NEW T, NEW S, NEW record, IsHashed(T, S, record), NEW s \in S,
           NEW id, id = NewID(s)
    PROVE  /\ IsValidCertificate(Certificate(T, id), id)
           /\ ComputeCertificateHash(Certificate(T, id), record[id]) = RootHash(T)
  <1>1. /\ Splits(S) /\ RootHash(T) = T[NodeKey(<< >>)]
        /\ \A u \in Above(S) : NodeKey(u) \in DOMAIN T
        /\ \A u \in Above(S) \ S : T[NodeKey(u)] = HashNode(T[Half(u, 0)], T[Half(u, 1)])
    BY RootIs DEF IsHashed
  <1> DEFINE l == Len(s)
             sib == SiblingHashes(T, id)
             cert == Certificate(T, id)
  <1>4. s \in Above(S) /\ s \in Seq(Bit) /\ l \in Nat /\ id.length = l
    BY <1>1, AboveIs, IdentifierIs
  <1>6. /\ Len(sib) = l
        /\ \A n \in 1..l : sib[n] = Lookup(T, Half(SubSeq(s, 1, l - n), 1 - s[l - n + 1]))
    BY <1>4, SiblingsAre
  <1>7. cert = [shard |-> NewID(s), siblings |-> sib]
    BY <1>4 DEF Certificate
  <1> DEFINE r == record[id]
  <1>9. T[NodeKey(s)] = HashLeaf(r)
    BY DEF IsHashed
  <1> HIDE DEF sib, cert, r
  <1> DEFINE root == ComputeCertificateHash(cert, r)
  <1>10. PICK h : LeadsTo(h, r, s, sib, root)
    <2>1. root = ComputeCertificateHash([shard |-> NewID(s), siblings |-> sib], r)
      BY <1>7
    <2> HIDE DEF root
    <2> QED BY <1>4, <1>6, <2>1, AscentOf
  <1> HIDE DEF root
  <1> DEFINE D == {n \in Nat : n <= l => h[n] = T[NodeKey(SubSeq(s, 1, l - n))]}
  <1> HIDE DEF l
  <1>11. 0 \in D
    <2>1. SubSeq(s, 1, l - 0) = s
      BY <1>4 DEF l
    <2> QED BY <1>9, <1>10, <2>1 DEF LeadsTo
  <1>12. ASSUME NEW n \in D PROVE n + 1 \in D
    <2> SUFFICES ASSUME n + 1 <= l PROVE h[n + 1] = T[NodeKey(SubSeq(s, 1, l - (n + 1)))]
      OBVIOUS
    <2> DEFINE m == l - (n + 1)
               p == SubSeq(s, 1, m)
               b == s[m + 1]
    <2>1. /\ m \in Nat /\ m < l /\ n + 1 \in 1..l /\ n \in Nat /\ n <= l
          /\ l - n = m + 1 /\ (n + 1) - 1 = n /\ l - (n + 1) + 1 = m + 1
      BY <1>4
    <2>2. b \in Bit /\ SubSeq(s, 1, m + 1) = Append(p, b)
      BY <1>4, <2>1, StartOf DEF l
    <2>3. p \in Above(S) \ S
      BY <1>1, <1>4, <2>1, StartAbove DEF l
    <2>4. h[n] = T[Half(p, b)]
      BY <2>1, <2>2 DEF Half
    <2>5. sib[n + 1] = Lookup(T, Half(p, 1 - b))
      BY <1>6, <2>1
    <2>6. Half(p, 0) \in DOMAIN T /\ Half(p, 1) \in DOMAIN T
      <3>1. Append(p, 0) \in Above(S) /\ Append(p, 1) \in Above(S)
        BY <1>1, <2>3, AboveIs DEF Bit
      <3> QED BY <1>1, <3>1 DEF Half
    <2>7. h[n + 1] = IF b = 0 THEN HashNode(h[n], sib[n + 1]) ELSE HashNode(sib[n + 1], h[n])
      BY <1>10, <2>1 DEF LeadsTo, l
    <2> HIDE DEF b, p, m
    <2>8. CASE b = 0
      <3>1. sib[n + 1] = T[Half(p, 1)]
        BY <2>5, <2>6, <2>8 DEF Lookup
      <3> QED BY <1>1, <2>3, <2>4, <2>7, <2>8, <3>1 DEF p, m
    <2>9. CASE b = 1
      <3>1. sib[n + 1] = T[Half(p, 0)]
        BY <2>5, <2>6, <2>9 DEF Lookup
      <3>2. b # 0
        BY <2>9
      <3> QED BY <1>1, <2>3, <2>4, <2>7, <2>9, <3>1, <3>2 DEF p, m
    <2> QED BY <2>2, <2>8, <2>9 DEF Bit
  <1>13. D = Nat
    <2> HIDE DEF D
    <2>1. D \in SUBSET Nat
      BY DEF D
    <2> QED BY ONLY <1>11, <1>12, <2>1, Induction
  <1>14. h[l] = T[NodeKey(<< >>)]
    <2>1. l \in D /\ l \in Nat
      BY <1>4, <1>13 DEF l
    <2>2. h[l] = T[NodeKey(SubSeq(s, 1, l - l))]
      BY <2>1
    <2>3. SubSeq(s, 1, l - l) = << >>
      <3>1. l - l = 0 /\ 0 < 1
        BY <2>1
      <3>2. SubSeq(s, 1, 0) = << >>
        BY <1>4
      <3> QED BY <3>1, <3>2
    <2> QED BY <2>2, <2>3
  <1>15. IsValidCertificate(cert, id)
    BY <1>4, <1>6, <1>7 DEF IsValidCertificate, l
  <1>16. ComputeCertificateHash(cert, r) = RootHash(T)
    BY <1>1, <1>10, <1>14 DEF LeadsTo, root, l
  <1> QED BY <1>15, <1>16 DEF cert, r

\* Whatever leads to the root with as many siblings as bits is a shard's record.
LEMMA CertificateOnly ==
    ASSUME NEW T, NEW S, NEW record, IsHashed(T, S, record),
           NEW t \in Seq(Bit), NEW sib, Len(sib) = Len(t), NEW r,
           NEW cert, cert = [shard |-> NewID(t), siblings |-> sib],
           ComputeCertificateHash(cert, r) = RootHash(T)
    PROVE  t \in S /\ r = record[NewID(t)]
  <1>1. /\ Splits(S) /\ RootHash(T) = T[NodeKey(<< >>)]
        /\ \A u \in Above(S) : NodeKey(u) \in DOMAIN T
        /\ \A u \in Above(S) \ S : T[NodeKey(u)] = HashNode(T[Half(u, 0)], T[Half(u, 1)])
    BY RootIs DEF IsHashed
  <1> DEFINE l == Len(t)
  <1>2. l \in Nat
    OBVIOUS
  <1>4. PICK h : LeadsTo(h, r, t, sib, RootHash(T))
    BY AscentOf
  <1> DEFINE R(m) == LET p == SubSeq(t, 1, m)
                     IN  p \in Above(S) /\ h[l - m] = T[NodeKey(p)]
             D == {m \in Nat : m <= l => R(m)}
  <1> HIDE DEF l
  <1>5. 0 \in D
    <2>1. SubSeq(t, 1, 0) = << >> /\ l - 0 = l
      BY <1>2
    <2>2. << >> \in Above(S)
      BY <1>1, AboveIs
    <2> QED BY <1>1, <1>4, <2>1, <2>2 DEF LeadsTo, l
  <1>6. ASSUME NEW m \in D PROVE m + 1 \in D
    <2> SUFFICES ASSUME m + 1 <= l PROVE R(m + 1)
      OBVIOUS
    <2> DEFINE p == SubSeq(t, 1, m)
               b == t[m + 1]
               n == l - m
    <2>1. /\ m \in Nat /\ m < l /\ m <= l /\ n \in 1..l
          /\ n - 1 = l - (m + 1) /\ l - n + 1 = m + 1
      BY <1>2
    <2>2. b \in Bit /\ SubSeq(t, 1, m + 1) = Append(p, b)
      BY <2>1, StartOf DEF l
    <2>3. p \in Above(S) /\ h[n] = T[NodeKey(p)]
      BY <2>1
    <2>4. h[n] = IF b = 0 THEN HashNode(h[n - 1], sib[n]) ELSE HashNode(sib[n], h[n - 1])
      BY <1>4, <2>1 DEF LeadsTo, l
    <2> HIDE DEF b, p, n
    <2>5. p \notin S
      <3> SUFFICES ASSUME p \in S PROVE FALSE
        OBVIOUS
      <3>1. T[NodeKey(p)] = HashLeaf(record[NewID(p)])
        BY DEF IsHashed
      <3>2. \E x, y : h[n] = HashNode(x, y)
        BY <2>4
      <3> QED BY <2>3, <3>1, <3>2, HashesAre
    <2>6. T[NodeKey(p)] = HashNode(T[Half(p, 0)], T[Half(p, 1)])
      BY <1>1, <2>3, <2>5
    <2>7. h[n - 1] = T[Half(p, b)]
      <3>1. CASE b = 0
        <4>1. HashNode(h[n - 1], sib[n]) = HashNode(T[Half(p, 0)], T[Half(p, 1)])
          BY <2>3, <2>4, <2>6, <3>1
        <4> HIDE DEF n
        <4> QED BY <3>1, <4>1, HashesAre
      <3>2. CASE b = 1
        <4>1. HashNode(sib[n], h[n - 1]) = HashNode(T[Half(p, 0)], T[Half(p, 1)])
          <5>1. b # 0
            BY <3>2
          <5> QED BY <2>3, <2>4, <2>6, <5>1
        <4> QED BY <3>2, <4>1, HashesAre
      <3> QED BY <2>2, <3>1, <3>2 DEF Bit
    <2>8. Append(p, b) \in Above(S)
      BY <1>1, <2>2, <2>3, <2>5, AboveIs
    <2> QED BY <2>1, <2>2, <2>7, <2>8 DEF p, b, Half
  <1>7. D = Nat
    <2> HIDE DEF D
    <2>1. D \in SUBSET Nat
      BY DEF D
    <2> QED BY ONLY <1>5, <1>6, <2>1, Induction
  <1>8. t \in Above(S) /\ HashLeaf(r) = T[NodeKey(t)]
    <2>1. l \in D /\ l \in Nat
      BY <1>2, <1>7 DEF l
    <2>2. R(l)
      BY <2>1
    <2>3. SubSeq(t, 1, l) = t /\ l - l = 0
      BY <1>2 DEF l
    <2> QED BY <1>4, <2>2, <2>3 DEF LeadsTo
  <1>9. t \in S
    BY <1>1, <1>8, HashesAre
  <1>10. T[NodeKey(t)] = HashLeaf(record[NewID(t)])
    BY <1>9 DEF IsHashed
  <1> QED BY <1>8, <1>9, <1>10, HashesAre

(***************************************************************************)
(* Trees with the same root are over the same strings and records.         *)
(***************************************************************************)
LEMMA RootDetermines ==
    ASSUME NEW T, NEW S, NEW q, IsHashed(T, S, q), NEW U, NEW R, NEW r, IsHashed(U, R, r),
           RootHash(T) = RootHash(U)
    PROVE  S = R /\ \A s \in S : q[NewID(s)] = r[NewID(s)]
  <1>1. ASSUME NEW A, NEW V, NEW x, IsHashed(A, V, x), NEW B, NEW W, NEW y, IsHashed(B, W, y),
               RootHash(A) = RootHash(B), NEW s \in V
        PROVE  s \in W /\ x[NewID(s)] = y[NewID(s)]
    <2> DEFINE id == NewID(s)
               sib == SiblingHashes(A, id)
               cert == Certificate(A, id)
    <2>1. s \in Seq(Bit) /\ Len(sib) = Len(s)
      <3>1. s \in Seq(Bit)
        BY <1>1, AboveIs DEF IsHashed
      <3> QED BY <3>1, SiblingsAre
    <2>2. cert = [shard |-> NewID(s), siblings |-> sib]
      BY DEF Certificate
    <2>3. ComputeCertificateHash(cert, x[id]) = RootHash(B)
      <3>1. id = NewID(s)
        OBVIOUS
      <3> HIDE DEF id
      <3> QED BY <1>1, <3>1, CertificateLeads
    <2> HIDE DEF sib, cert
    <2> QED BY <1>1, <2>1, <2>2, <2>3, CertificateOnly
  <1>2. \A s \in S : s \in R /\ q[NewID(s)] = r[NewID(s)]
    BY <1>1
  <1>3. \A s \in R : s \in S
    BY <1>1
  <1> QED BY <1>2, <1>3

-------------------------------------------------------------------------------
(* The tree of the recursive definition. *)

\* The hashes of TreeOf.
IsTreeHash(h, shards, nodes, record) ==
    h = [s \in nodes |-> IF s \in shards THEN HashLeaf(record[NewID(s)])
                         ELSE HashNode(h[Append(s, 0)], h[Append(s, 1)])]

AreNodes(record, shards, nodes) ==
    /\ shards = {Used(id) : id \in DOMAIN record}
    /\ nodes = {s \in BitStrings : \E t \in shards : IsPrefixOf(s, t)}

ByKey(h, nodes) ==
    [key \in {NodeKey(s) : s \in nodes} |-> h[CHOOSE s \in nodes : NodeKey(s) = key]]

\* TreeOf is computed from hashes that satisfy its recursion.
LEMMA TreeOfIs ==
    ASSUME NEW record, NEW shards, NEW nodes, AreNodes(record, shards, nodes),
           NEW g, IsTreeHash(g, shards, nodes, record), NEW whole, whole = TreeOf(record)
    PROVE  \E h : IsTreeHash(h, shards, nodes, record) /\ whole = ByKey(h, nodes)
  <1> DEFINE h == CHOOSE f : IsTreeHash(f, shards, nodes, record)
  <1>1. IsTreeHash(h, shards, nodes, record)
    OBVIOUS
  <1>2. TreeOf(record) = ByKey(h, nodes)
    BY DEF TreeOf, IsTreeHash, NodeKey, AreNodes, ByKey
  <1> HIDE DEF h
  <1> QED BY <1>1, <1>2

\* Hashes computed from the same leaves are the same.
LEMMA TreeHashFixed ==
    ASSUME NEW S, Splits(S), NEW record,
           NEW g, IsTreeHash(g, S, Above(S), record),
           NEW h, IsTreeHash(h, S, Above(S), record)
    PROVE  \A s \in Above(S) : g[s] = h[s]
  <1> DEFINE D == {k \in Nat : \A s \in Above(S) : MaxLength <= Len(s) + k => g[s] = h[s]}
  <1>1. \A s \in Above(S) : s \in Seq(Bit) /\ Len(s) \in Nat /\ Len(s) <= MaxLength
    BY AboveIs
  <1>2. MaxLength \in Nat /\ 0 \in Bit /\ 1 \in Bit
    BY LengthAssumption DEF Bit
  <1>3. ASSUME NEW s \in Above(S) \ S, NEW b \in Bit
        PROVE  Append(s, b) \in Above(S) /\ Len(Append(s, b)) = Len(s) + 1
    BY <1>1, AboveIs, AppendIs
  <1>4. \A s \in Above(S) \cap S : g[s] = h[s]
    BY DEF IsTreeHash
  <1>5. \A s \in Above(S) \ S :
          /\ g[s] = HashNode(g[Append(s, 0)], g[Append(s, 1)])
          /\ h[s] = HashNode(h[Append(s, 0)], h[Append(s, 1)])
    BY DEF IsTreeHash
  <1>6. 0 \in D
    <2> SUFFICES ASSUME NEW s \in Above(S), MaxLength <= Len(s) + 0, s \notin S
                 PROVE  FALSE
      BY <1>4
    <2>1. Append(s, 0) \in Above(S) /\ Len(Append(s, 0)) = Len(s) + 1
      BY <1>2, <1>3
    <2>2. Len(Append(s, 0)) <= MaxLength /\ Len(s) \in Nat
      BY <1>1, <2>1
    <2> QED BY <1>2, <2>1, <2>2
  <1>7. ASSUME NEW k \in D PROVE k + 1 \in D
    <2> SUFFICES ASSUME NEW s \in Above(S) \ S, MaxLength <= Len(s) + (k + 1)
                 PROVE  g[s] = h[s]
      BY <1>4
    <2>1. ASSUME NEW b \in Bit PROVE g[Append(s, b)] = h[Append(s, b)]
      <3> DEFINE x == Append(s, b)
      <3>1. x \in Above(S) /\ Len(x) = Len(s) + 1 /\ Len(s) \in Nat /\ k \in Nat
        BY <1>1, <1>3
      <3> HIDE DEF x
      <3>2. MaxLength <= Len(x) + k
        BY <1>2, <3>1
      <3>3. g[x] = h[x]
        BY <3>1, <3>2
      <3> QED BY <3>3 DEF x
    <2>2. g[Append(s, 0)] = h[Append(s, 0)] /\ g[Append(s, 1)] = h[Append(s, 1)]
      BY <1>2, <2>1
    <2> QED BY <1>5, <2>2
  <1>8. D = Nat
    <2> HIDE DEF D
    <2>1. D \in SUBSET Nat
      BY DEF D
    <2> QED BY ONLY <1>6, <1>7, <2>1, Induction
  <1>9. ASSUME NEW s \in Above(S) PROVE g[s] = h[s]
    <2>1. MaxLength \in D
      BY <1>2, <1>8
    <2> DEFINE n == Len(s)
    <2>2. n \in Nat
      BY <1>1
    <2>3. MaxLength <= n + MaxLength
      <3> HIDE DEF n
      <3> QED BY <1>2, <2>2
    <2> QED BY <2>1, <2>3
  <1> QED BY <1>9

\* What TreeOf computes for a string from what it does for others.
TreeStep(h, S, record, s) ==
    IF s \in S THEN HashLeaf(record[NewID(s)]) ELSE HashNode(h[Append(s, 0)], h[Append(s, 1)])

\* The recursion of TreeOf has a solution (generate ends).
LEMMA TreeHashExists ==
    ASSUME NEW S, Splits(S), NEW record
    PROVE  \E h : IsTreeHash(h, S, Above(S), record)
  <1> DEFINE N == Above(S)
             F(h) == h = [s \in N |-> h[s]]
             P(h, k) == \A s \in N : MaxLength <= Len(s) + k => h[s] = TreeStep(h, S, record, s)
             T == {k \in Nat : \E h : F(h) /\ P(h, k)}
  <1>1. \A s \in N : s \in Seq(Bit) /\ Len(s) \in Nat /\ Len(s) <= MaxLength
    BY AboveIs
  <1>2. MaxLength \in Nat /\ 0 \in Bit /\ 1 \in Bit
    BY LengthAssumption DEF Bit
  <1>3. ASSUME NEW s \in N \ S, NEW b \in Bit
        PROVE  Append(s, b) \in N /\ Len(Append(s, b)) = Len(s) + 1
    BY <1>1, AboveIs, AppendIs
  <1>4. ASSUME NEW s \in N, MaxLength <= Len(s) PROVE s \in S
    <2> SUFFICES ASSUME s \notin S PROVE FALSE
      OBVIOUS
    <2>1. Append(s, 0) \in N /\ Len(Append(s, 0)) = Len(s) + 1
      BY <1>2, <1>3
    <2>2. Len(Append(s, 0)) <= MaxLength /\ Len(s) \in Nat
      BY <1>1, <2>1
    <2> QED BY <1>2, <1>4, <2>1, <2>2
  <1> HIDE DEF N
  <1>5. 0 \in T
    <2> DEFINE h == [s \in N |-> HashLeaf(record[NewID(s)])]
    <2>1. F(h)
      OBVIOUS
    <2>2. \A s \in N : h[s] = HashLeaf(record[NewID(s)])
      OBVIOUS
    <2> HIDE DEF h
    <2>3. ASSUME NEW s \in N, MaxLength <= Len(s) + 0 PROVE h[s] = TreeStep(h, S, record, s)
      <3>1. Len(s) + 0 = Len(s)
        BY <1>1
      <3>2. s \in S
        BY <1>4, <2>3, <3>1
      <3> QED BY <2>2, <3>2 DEF TreeStep
    <2> QED BY <2>1, <2>3
  <1>6. ASSUME NEW k \in T PROVE k + 1 \in T
    <2>1. PICK g : F(g) /\ P(g, k)
      OBVIOUS
    <2> DEFINE h == [s \in N |-> IF MaxLength <= Len(s) + k THEN g[s] ELSE TreeStep(g, S, record, s)]
    <2>2. \A s \in N : h[s] = IF MaxLength <= Len(s) + k THEN g[s] ELSE TreeStep(g, S, record, s)
      OBVIOUS
    <2>3. F(h)
      OBVIOUS
    <2> HIDE DEF h
    <2>4. ASSUME NEW s \in N, MaxLength <= Len(s) + (k + 1)
          PROVE  h[s] = TreeStep(h, S, record, s)
      <3>1. h[s] = TreeStep(g, S, record, s)
        BY <2>1, <2>2
      <3>2. CASE s \in S
        BY <3>1, <3>2 DEF TreeStep
      <3>3. CASE s \notin S
        <4>1. ASSUME NEW b \in Bit PROVE h[Append(s, b)] = g[Append(s, b)]
          <5> DEFINE x == Append(s, b)
          <5>1. x \in N /\ Len(x) = Len(s) + 1 /\ Len(s) \in Nat /\ k \in Nat
            BY <1>1, <1>3, <3>3
          <5> HIDE DEF x
          <5>2. MaxLength <= Len(x) + k
            BY <1>2, <2>4, <5>1
          <5>3. h[x] = g[x]
            BY <2>2, <5>1, <5>2
          <5> QED BY <5>3 DEF x
        <4>2. h[Append(s, 0)] = g[Append(s, 0)] /\ h[Append(s, 1)] = g[Append(s, 1)]
          BY <1>2, <4>1
        <4> QED BY <3>1, <3>3, <4>2 DEF TreeStep
      <3> QED BY <3>2, <3>3
    <2>5. P(h, k + 1)
      BY ONLY <2>4 DEF P
    <2>6. k + 1 \in Nat
      OBVIOUS
    <2> HIDE DEF F, P
    <2> QED BY <2>3, <2>5, <2>6
  <1>7. T = Nat
    <2> HIDE DEF T
    <2>1. T \in SUBSET Nat
      BY DEF T
    <2> QED BY ONLY <1>5, <1>6, <2>1, Induction
  <1>8. PICK h : F(h) /\ P(h, MaxLength)
    <2>1. MaxLength \in T
      BY <1>2, <1>7
    <2> QED BY <2>1
  <1>9. ASSUME NEW s \in N PROVE h[s] = TreeStep(h, S, record, s)
    <2> DEFINE n == Len(s)
    <2>1. n \in Nat
      BY <1>1
    <2>2. MaxLength <= n + MaxLength
      <3> HIDE DEF n
      <3> QED BY <1>2, <2>1
    <2> QED BY <1>8, <2>2
  <1>10. h = [s \in N |-> TreeStep(h, S, record, s)]
    BY ONLY <1>8, <1>9 DEF F
  <1>11. h = [s \in N |-> IF s \in S THEN HashLeaf(record[NewID(s)])
                         ELSE HashNode(h[Append(s, 0)], h[Append(s, 1)])]
    BY <1>10 DEF TreeStep
  <1> QED BY <1>11 DEF IsTreeHash, N

\* TreeOf makes the tree of the records of strings that split all strings.
LEMMA TreeOfHashed ==
    ASSUME NEW record, NEW S, S = {Used(id) : id \in DOMAIN record}, Splits(S),
           NEW T, T = TreeOf(record)
    PROVE  IsHashed(T, S, record)
  <1>1. AreNodes(record, S, Above(S))
    BY DEF AreNodes, Above
  <1>2. PICK g : IsTreeHash(g, S, Above(S), record)
    BY TreeHashExists
  <1>3. PICK h : IsTreeHash(h, S, Above(S), record) /\ T = ByKey(h, Above(S))
    BY <1>1, <1>2, TreeOfIs
  <1>4. ASSUME NEW s \in Above(S)
        PROVE  NodeKey(s) \in DOMAIN T /\ T[NodeKey(s)] = h[s]
    <2> DEFINE key == NodeKey(s)
               t == CHOOSE x \in Above(S) : NodeKey(x) = key
    <2>1. key \in {NodeKey(x) : x \in Above(S)}
      OBVIOUS
    <2>2. t \in Above(S) /\ NodeKey(t) = key
      OBVIOUS
    <2>3. t = s
      BY <2>2, NodeKeysDiffer
    <2>4. key \in DOMAIN T /\ T[key] = h[t]
      BY <1>3, <2>1 DEF ByKey
    <2> QED BY <2>3, <2>4
  <1>5. ASSUME NEW s \in Above(S) \ S
        PROVE  Append(s, 0) \in Above(S) /\ Append(s, 1) \in Above(S)
    BY AboveIs DEF Bit
  <1>6. \A s \in S : s \in Above(S)
    BY AboveIs
  <1>7. /\ \A s \in S : h[s] = HashLeaf(record[NewID(s)])
        /\ \A s \in Above(S) \ S : h[s] = HashNode(h[Append(s, 0)], h[Append(s, 1)])
    BY <1>3, <1>6 DEF IsTreeHash
  <1>8. \A s \in S : T[NodeKey(s)] = HashLeaf(record[NewID(s)])
    BY <1>4, <1>6, <1>7
  <1>9. \A s \in Above(S) \ S : T[NodeKey(s)] = HashNode(T[Half(s, 0)], T[Half(s, 1)])
    BY <1>4, <1>5, <1>7 DEF Half
  <1> QED BY <1>4, <1>8, <1>9 DEF IsHashed
===============================================================================

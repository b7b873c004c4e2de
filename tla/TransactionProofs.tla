--------------------------- MODULE TransactionProofs ---------------------------
(***************************************************************************)
(* Blocks: a certificate fits one block, and a proof that verifies is of a *)
(* record of that block, for any lists of records, blocks and changes.     *)
(* Orders: what authorises one was meant to, for any payloads and any      *)
(* keys, also if one key makes all the proofs, and any number of           *)
(* signatures.  Execution: the states of a unit that a node keeps are      *)
(* those it committed to, and its records tell what happened, for any      *)
(* number of transactions, changes and restarts.                           *)
(* Unit states: an identifier belongs to the shard it was composed for,    *)
(* every state a unit had in a certified round can be proven, and nothing  *)
(* else, for any numbers of shards, units, transactions and rounds, any    *)
(* lengths of identifiers and any width of summary values.                 *)
(*                                                                         *)
(* Hashes of trees and paths through them are recursive functions.         *)
(* That there are such functions, and what they compute, is shown by       *)
(* induction on the length of a slice or of a path, for which the set of   *)
(* the lengths that are right is shown to be all numbers (Induction, in    *)
(* IdentifierLemmas).                                                      *)
(***************************************************************************)
EXTENDS Block, TransactionOrder, TransactionExecution, ShardState, IdentifierLemmas

-------------------------------------------------------------------------------
(* The plain Merkle tree. *)

\* The recursion of HighBit.
HighBits(high, n) == high = [m \in 0..n |-> IF m <= 1 THEN m ELSE 2 * high[m \div 2]]

\* The recursion of HighBit has a solution.
LEMMA HighBitsExist == \A n \in Nat : \E high : HighBits(high, n)
  <1> DEFINE T == {n \in Nat : \E high : HighBits(high, n)}
  <1>1. 0 \in T
    <2> DEFINE high == [m \in 0..0 |-> 0]
    <2>1. \A m \in 0..0 : high[m] = m /\ m <= 1
      OBVIOUS
    <2>2. high = [m \in 0..0 |-> IF m <= 1 THEN m ELSE 2 * high[m \div 2]]
      BY <2>1
    <2> QED BY <2>2 DEF HighBits
  <1>2. ASSUME NEW n \in T PROVE n + 1 \in T
    <2>1. PICK low : HighBits(low, n)
      OBVIOUS
    <2> DEFINE high == [m \in 0..(n + 1) |->
                          IF m <= n THEN low[m] ELSE IF m <= 1 THEN m ELSE 2 * low[m \div 2]]
    <2>2. ASSUME NEW m \in 0..(n + 1)
          PROVE  high[m] = IF m <= 1 THEN m ELSE 2 * high[m \div 2]
      <3>1. m > 1 => m \div 2 \in 0..n
        OBVIOUS
      <3>2. m > 1 => high[m \div 2] = low[m \div 2]
        BY <3>1
      <3>3. m <= n => low[m] = IF m <= 1 THEN m ELSE 2 * low[m \div 2]
        BY <2>1 DEF HighBits
      <3> QED BY <3>2, <3>3
    <2>3. high = [m \in 0..(n + 1) |-> IF m <= 1 THEN m ELSE 2 * high[m \div 2]]
      BY <2>2
    <2> HIDE DEF high
    <2> QED BY <2>3 DEF HighBits
  <1>3. T = Nat
    <2> HIDE DEF T
    <2>1. T \in SUBSET Nat
      BY DEF T
    <2> QED BY <1>1, <1>2, <2>1, Induction
  <1> QED BY <1>3

\* The high bit of a number is between one and the number (hibit).
LEMMA HighBitBounds == ASSUME NEW n \in Nat, n > 0 PROVE HighBit(n) \in 1..n
  <1> DEFINE high == CHOOSE h : HighBits(h, n)
  <1>1. HighBits(high, n)
    BY HighBitsExist
  <1>2. HighBit(n) = high[n]
    BY DEF HighBit, HighBits
  <1> HIDE DEF high
  <1> DEFINE T == {k \in Nat : \A m \in 1..n : m <= k => high[m] \in 1..m}
  <1>3. 0 \in T
    OBVIOUS
  <1>4. ASSUME NEW k \in T PROVE k + 1 \in T
    <2> SUFFICES ASSUME NEW m \in 1..n, m = k + 1 PROVE high[m] \in 1..m
      OBVIOUS
    <2>1. high[m] = IF m <= 1 THEN m ELSE 2 * high[m \div 2]
      BY <1>1 DEF HighBits
    <2>2. CASE m > 1
      <3>1. m \div 2 \in 1..n /\ m \div 2 <= k /\ 2 * (m \div 2) <= m
        BY <2>2
      <3>2. high[m \div 2] \in 1..(m \div 2)
        BY <3>1
      <3> QED BY <2>1, <2>2, <3>1, <3>2
    <2> QED BY <2>1, <2>2
  <1>5. T = Nat
    <2> HIDE DEF T
    <2>1. T \in SUBSET Nat
      BY DEF T
    <2> QED BY <1>3, <1>4, <2>1, Induction
  <1>6. n \in T
    BY <1>5
  <1>7. high[n] \in 1..n
    BY <1>6
  <1> QED BY <1>2, <1>7

\* What createMerkleTree computes for a slice from what it does for others.
HashStep(h, data, lo, hi) ==
    LET n == LeftSize(hi - lo + 1)
    IN  IF lo >= hi THEN data[lo] ELSE NodeHash(h[<<lo, lo + n - 1>>], h[<<lo + n, hi>>])

\* The recursion of HashOf.
IsHash(h, data) == h = [s \in Slices(data) |-> HashStep(h, data, s[1], s[2])]

\* A slice with more than one leaf is cut into two shorter ones that are not empty.
LEMMA Cut ==
    ASSUME NEW lo \in Nat, NEW hi \in Nat, lo < hi, NEW n, n = LeftSize(hi - lo + 1)
    PROVE  n \in 1..(hi - lo) /\ lo + n - 1 \in lo..(hi - 1) /\ lo + n \in (lo + 1)..hi
  <1>1. n = HighBit(hi - lo)
    <2>1. (hi - lo + 1) - 1 = hi - lo
      OBVIOUS
    <2> QED BY <2>1 DEF LeftSize
  <1>2. hi - lo \in Nat /\ hi - lo > 0
    OBVIOUS
  <1>3. n \in 1..(hi - lo)
    BY <1>1, <1>2, HighBitBounds
  <1>4. lo + n - 1 \in lo..(hi - 1) /\ lo + n \in (lo + 1)..hi
    BY <1>3
  <1> QED BY <1>3, <1>4

\* The recursion of HashOf has a solution (createMerkleTree ends).
LEMMA HashExists ==
    ASSUME NEW N \in Nat, NEW data, DOMAIN data = 1..N
    PROVE  \E h : IsHash(h, data)
  <1> DEFINE D == 1..N
             F(h) == h = [s \in D \X D |-> h[s]]
             P(h, k) == \A lo, hi \in D : hi - lo <= k => h[<<lo, hi>>] = HashStep(h, data, lo, hi)
             T == {k \in Nat : \E h : F(h) /\ P(h, k)}
  <1>1. 0 \in T
    <2> DEFINE h == [s \in D \X D |-> data[s[1]]]
    <2>1. F(h)
      OBVIOUS
    <2>2. \A lo, hi \in D : h[<<lo, hi>>] = data[lo]
      OBVIOUS
    <2> HIDE DEF h
    <2>3. P(h, 0)
      BY <2>2 DEF HashStep
    <2> QED BY <2>1, <2>3
  <1>2. ASSUME NEW k \in T PROVE k + 1 \in T
    <2>1. PICK g : F(g) /\ P(g, k)
      OBVIOUS
    <2> DEFINE h == [s \in D \X D |->
                       IF s[2] - s[1] <= k THEN g[s] ELSE HashStep(g, data, s[1], s[2])]
    <2>2. \A lo, hi \in D : h[<<lo, hi>>] = IF hi - lo <= k THEN g[<<lo, hi>>]
                                        ELSE HashStep(g, data, lo, hi)
      OBVIOUS
    <2>3. F(h)
      OBVIOUS
    <2> HIDE DEF h
    <2>4. ASSUME NEW lo \in D, NEW hi \in D, hi - lo <= k + 1
          PROVE  h[<<lo, hi>>] = HashStep(h, data, lo, hi)
      <3>1. h[<<lo, hi>>] = HashStep(g, data, lo, hi)
        BY <2>1, <2>2
      <3>2. CASE lo >= hi
        BY <3>1, <3>2 DEF HashStep
      <3>3. CASE lo < hi
        <4> DEFINE n == LeftSize(hi - lo + 1)
        <4>1. n \in 1..(hi - lo) /\ lo + n - 1 \in lo..(hi - 1) /\ lo + n \in (lo + 1)..hi
          <5>1. lo \in Nat /\ hi \in Nat /\ n = LeftSize(hi - lo + 1)
            OBVIOUS
          <5> HIDE DEF n
          <5> QED BY <3>3, <5>1, Cut
        <4> HIDE DEF n
        <4> HIDE DEF T
        <4>2. /\ lo + n - 1 \in D /\ (lo + n - 1) - lo <= k
              /\ lo + n \in D /\ hi - (lo + n) <= k
          <5>1. lo \in 1..N /\ hi \in 1..N /\ hi - lo <= k + 1 /\ k \in Nat
            BY <2>4 DEF T
          <5> QED BY <4>1, <5>1
        <4>3. h[<<lo, lo + n - 1>>] = g[<<lo, lo + n - 1>>] /\ h[<<lo + n, hi>>] = g[<<lo + n, hi>>]
          BY <4>2, <2>2
        <4> QED BY <3>1, <4>3 DEF HashStep, n
      <3> QED BY <3>2, <3>3
    <2>5. P(h, k + 1)
      BY ONLY <2>4 DEF P
    <2>6. k + 1 \in Nat
      OBVIOUS
    <2> HIDE DEF F, P
    <2> QED BY <2>3, <2>5, <2>6
  <1>3. T = Nat
    <2> HIDE DEF T
    <2>1. T \in SUBSET Nat
      BY DEF T
    <2> QED BY <1>1, <1>2, <2>1, Induction
  <1>4. PICK h : F(h) /\ P(h, N)
    <2>1. N \in T
      BY <1>3
    <2> QED BY <2>1
  <1>5. \A lo, hi \in D : h[<<lo, hi>>] = HashStep(h, data, lo, hi)
    <2> SUFFICES ASSUME NEW lo \in D, NEW hi \in D PROVE h[<<lo, hi>>] = HashStep(h, data, lo, hi)
      OBVIOUS
    <2>1. hi - lo <= N
      OBVIOUS
    <2> QED BY <1>4, <2>1
  <1> QED BY <1>4, <1>5 DEF IsHash, Slices

\* Hence HashOf computes the hash of every slice from those of its parts.
LEMMA HashOfSlices ==
    ASSUME NEW N \in Nat, NEW data, DOMAIN data = 1..N, NEW lo \in 1..N, NEW hi \in 1..N
    PROVE  HashOf(data)[<<lo, hi>>] = HashStep(HashOf(data), data, lo, hi)
  <1> DEFINE h == CHOOSE g : IsHash(g, data)
  <1>1. IsHash(h, data)
    BY HashExists
  <1>2. HashOf(data) = h
    BY DEF HashOf, IsHash, HashStep, Slices
  <1> HIDE DEF h
  <1> QED BY <1>1, <1>2 DEF IsHash, Slices

\* Hashes of leaves, of nodes and of nothing are told apart, and so are nodes.
LEMMA HashesDiffer ==
    /\ \A x, y : LeafHash(x) = LeafHash(y) => x = y
    /\ \A x, l, r : LeafHash(x) # NodeHash(l, r)
    /\ \A l, r, k, q : NodeHash(l, r) = NodeHash(k, q) => l = k /\ r = q
    /\ \A x, l, r : LeafHash(x) # << >> /\ NodeHash(l, r) # << >>
  BY DEF LeafHash, NodeHash

\* Leaves as New is given them: the hashes of tagged data.
Leaves(data) == \A i \in DOMAIN data : \E x : data[i] = LeafHash(x)

\* The leaves of two slices are the same, one by one.
SameSlice(data, other, lo, hi, a, b) ==
    hi - lo = b - a /\ \A i \in 0..(hi - lo) : data[lo + i] = other[a + i]

\* Slices made of the same left and the same right parts are the same.
LEMMA JoinSlices ==
    ASSUME NEW data, NEW other, NEW lo \in Nat, NEW hi \in Nat, NEW a \in Nat, NEW b \in Nat,
           lo < hi, a < b, NEW n \in 1..(hi - lo), NEW m \in 1..(b - a),
           SameSlice(data, other, lo, lo + n - 1, a, a + m - 1),
           SameSlice(data, other, lo + n, hi, a + m, b)
    PROVE  SameSlice(data, other, lo, hi, a, b)
  <1>1. n = m
    BY DEF SameSlice
  <1>2. hi - lo = b - a
    BY <1>1 DEF SameSlice
  <1>3. ASSUME NEW i \in 0..(hi - lo) PROVE data[lo + i] = other[a + i]
    <2>1. CASE i < n
      <3>1. i \in 0..((lo + n - 1) - lo)
        BY <2>1
      <3> QED BY <3>1 DEF SameSlice
    <2>2. CASE i >= n
      <3>1. i - n \in 0..(hi - (lo + n))
        BY <2>2
      <3>2. data[(lo + n) + (i - n)] = other[(a + m) + (i - n)]
        BY <3>1 DEF SameSlice
      <3>3. (lo + n) + (i - n) = lo + i /\ (a + m) + (i - n) = a + i
        BY <1>1
      <3> QED BY <3>2, <3>3
    <2> QED BY <2>1, <2>2
  <1> QED BY <1>2, <1>3 DEF SameSlice

\* A hash fixes the leaves of the slice, and how many they are.
LEMMA HashFixesSlice ==
    ASSUME NEW N \in Nat, NEW data, DOMAIN data = 1..N, Leaves(data),
           NEW M \in Nat, NEW other, DOMAIN other = 1..M, Leaves(other)
    PROVE  \A lo, hi \in 1..N, a, b \in 1..M :
             lo <= hi /\ a <= b /\ HashOf(data)[<<lo, hi>>] = HashOf(other)[<<a, b>>]
               => SameSlice(data, other, lo, hi, a, b)
  <1> DEFINE g == HashOf(data)
             h == HashOf(other)
             P(k) == \A lo, hi \in 1..N, a, b \in 1..M :
                       lo <= hi /\ a <= b /\ hi - lo <= k /\ g[<<lo, hi>>] = h[<<a, b>>]
                         => SameSlice(data, other, lo, hi, a, b)
             T == {k \in Nat : P(k)}
  <1>1. /\ \A lo, hi \in 1..N : g[<<lo, hi>>] = HashStep(g, data, lo, hi)
        /\ \A a, b \in 1..M : h[<<a, b>>] = HashStep(h, other, a, b)
    BY HashOfSlices
  <1> HIDE DEF g, h
  <1>2. ASSUME NEW lo \in 1..N, NEW hi \in 1..N, NEW a \in 1..M, NEW b \in 1..M,
               lo <= hi, a <= b, g[<<lo, hi>>] = h[<<a, b>>]
        PROVE  lo = hi <=> a = b
    <2>1. /\ g[<<lo, hi>>] = HashStep(g, data, lo, hi)
          /\ h[<<a, b>>] = HashStep(h, other, a, b)
      BY <1>1
    <2>2. /\ lo = hi => g[<<lo, hi>>] = data[lo]
          /\ a = b => h[<<a, b>>] = other[a]
      BY <2>1 DEF HashStep
    <2>3. /\ lo # hi => \E l, r : g[<<lo, hi>>] = NodeHash(l, r)
          /\ a # b => \E l, r : h[<<a, b>>] = NodeHash(l, r)
      <3>1. /\ lo # hi => ~(lo >= hi)
            /\ a # b => ~(a >= b)
        BY <1>2
      <3> QED BY <2>1, <3>1 DEF HashStep
    <2>4. (\E x : data[lo] = LeafHash(x)) /\ (\E x : other[a] = LeafHash(x))
      BY DEF Leaves
    <2> QED BY <1>2, <2>2, <2>3, <2>4, HashesDiffer
  <1>3. ASSUME NEW lo \in 1..N, NEW a \in 1..M, g[<<lo, lo>>] = h[<<a, a>>]
        PROVE  SameSlice(data, other, lo, lo, a, a)
    <2>1. g[<<lo, lo>>] = HashStep(g, data, lo, lo) /\ h[<<a, a>>] = HashStep(h, other, a, a)
      BY <1>1
    <2>2. data[lo] = other[a]
      <3>1. lo >= lo /\ a >= a
        OBVIOUS
      <3> QED BY <1>3, <2>1, <3>1 DEF HashStep
    <2>3. \A i \in 0..(lo - lo) : i = 0
      OBVIOUS
    <2> QED BY <2>2, <2>3 DEF SameSlice
  <1>4. P(0)
    <2> SUFFICES ASSUME NEW lo \in 1..N, NEW hi \in 1..N, NEW a \in 1..M, NEW b \in 1..M,
                        lo <= hi, a <= b, hi - lo <= 0, g[<<lo, hi>>] = h[<<a, b>>]
                 PROVE  SameSlice(data, other, lo, hi, a, b)
      OBVIOUS
    <2>1. lo = hi
      OBVIOUS
    <2> QED BY <1>2, <1>3, <2>1
  <1>5. ASSUME NEW k \in Nat, P(k) PROVE P(k + 1)
    <2> SUFFICES ASSUME NEW lo \in 1..N, NEW hi \in 1..N, NEW a \in 1..M, NEW b \in 1..M,
                        lo <= hi, a <= b, hi - lo <= k + 1, g[<<lo, hi>>] = h[<<a, b>>]
                 PROVE  SameSlice(data, other, lo, hi, a, b)
      OBVIOUS
    <2>1. CASE lo = hi
      BY <1>2, <1>3, <2>1
    <2>2. CASE lo # hi
      <3> DEFINE n == LeftSize(hi - lo + 1)
                 m == LeftSize(b - a + 1)
      <3>1. lo < hi /\ a < b
        <4>1. lo = hi <=> a = b
          BY <1>2
        <4> HIDE DEF n, m, P
        <4> QED BY <2>2, <4>1
      <3>2. /\ n \in 1..(hi - lo) /\ lo + n - 1 \in lo..(hi - 1) /\ lo + n \in (lo + 1)..hi
            /\ m \in 1..(b - a) /\ a + m - 1 \in a..(b - 1) /\ a + m \in (a + 1)..b
        <4>1. /\ lo \in Nat /\ hi \in Nat /\ n = LeftSize(hi - lo + 1)
              /\ a \in Nat /\ b \in Nat /\ m = LeftSize(b - a + 1)
          OBVIOUS
        <4> HIDE DEF n, m
        <4> QED BY <3>1, <4>1, Cut
      <3>3. /\ g[<<lo, hi>>] = NodeHash(g[<<lo, lo + n - 1>>], g[<<lo + n, hi>>])
            /\ h[<<a, b>>] = NodeHash(h[<<a, a + m - 1>>], h[<<a + m, b>>])
        <4>1. /\ g[<<lo, hi>>] = HashStep(g, data, lo, hi)
              /\ h[<<a, b>>] = HashStep(h, other, a, b)
          BY <1>1
        <4>2. ~(lo >= hi) /\ ~(a >= b)
          BY <3>1
        <4> QED BY <4>1, <4>2 DEF HashStep
      <3> HIDE DEF n, m
      <3>4. /\ g[<<lo, lo + n - 1>>] = h[<<a, a + m - 1>>]
            /\ g[<<lo + n, hi>>] = h[<<a + m, b>>]
        <4>1. NodeHash(g[<<lo, lo + n - 1>>], g[<<lo + n, hi>>])
              = NodeHash(h[<<a, a + m - 1>>], h[<<a + m, b>>])
          BY <3>3
        <4> QED BY ONLY <4>1, HashesDiffer
      <3>5. /\ lo + n - 1 \in 1..N /\ lo + n \in 1..N /\ a + m - 1 \in 1..M /\ a + m \in 1..M
            /\ lo <= lo + n - 1 /\ lo + n <= hi /\ a <= a + m - 1 /\ a + m <= b
            /\ (lo + n - 1) - lo <= k /\ hi - (lo + n) <= k
        BY <3>2
      <3>6. SameSlice(data, other, lo, lo + n - 1, a, a + m - 1)
        BY <1>5, <3>4, <3>5
      <3>7. SameSlice(data, other, lo + n, hi, a + m, b)
        BY <1>5, <3>4, <3>5
      <3>8. lo \in Nat /\ hi \in Nat /\ a \in Nat /\ b \in Nat
        OBVIOUS
      <3> QED BY <3>1, <3>2, <3>6, <3>7, <3>8, JoinSlices
    <2> QED BY <2>1, <2>2
  <1> HIDE DEF P
  <1>6. T \in SUBSET Nat /\ 0 \in T /\ \A k \in T : k + 1 \in T
    BY <1>4, <1>5
  <1>7. N \in T
    <2> HIDE DEF T
    <2> QED BY <1>6, Induction
  <1>8. P(N)
    BY <1>7
  <1> USE DEF P
  <1> SUFFICES ASSUME NEW lo \in 1..N, NEW hi \in 1..N, NEW a \in 1..M, NEW b \in 1..M,
                      lo <= hi, a <= b, g[<<lo, hi>>] = h[<<a, b>>]
               PROVE  SameSlice(data, other, lo, hi, a, b)
    BY DEF g, h
  <1>9. hi - lo <= N
    OBVIOUS
  <1> QED BY <1>8, <1>9

\* The root hash of a tree fixes its leaves, their order and their number.
LEMMA RootFixesLeaves ==
    ASSUME NEW N \in Nat, NEW data, DOMAIN data = 1..N, Leaves(data),
           Len(data) = N, data = << >> <=> N = 0,
           NEW M \in Nat, NEW other, DOMAIN other = 1..M, Leaves(other),
           Len(other) = M, other = << >> <=> M = 0,
           GetRootHash(data) = GetRootHash(other)
    PROVE  N = M /\ \A i \in 1..N : data[i] = other[i]
  <1>2. N > 0 => GetRootHash(data) = HashOf(data)[<<1, N>>] /\ HashOf(data)[<<1, N>>] # << >>
    <2> SUFFICES ASSUME N > 0 PROVE HashOf(data)[<<1, N>>] # << >>
      BY DEF GetRootHash
    <2>1. 1 \in 1..N /\ N \in 1..N
      OBVIOUS
    <2>2. HashOf(data)[<<1, N>>] = HashStep(HashOf(data), data, 1, N)
      BY ONLY <2>1, N \in Nat, DOMAIN data = 1..N, HashOfSlices
    <2> QED BY <2>1, <2>2, HashesDiffer DEF HashStep, Leaves
  <1>3. M > 0 => GetRootHash(other) = HashOf(other)[<<1, M>>] /\ HashOf(other)[<<1, M>>] # << >>
    <2> SUFFICES ASSUME M > 0 PROVE HashOf(other)[<<1, M>>] # << >>
      BY DEF GetRootHash
    <2>1. 1 \in 1..M /\ M \in 1..M
      OBVIOUS
    <2>2. HashOf(other)[<<1, M>>] = HashStep(HashOf(other), other, 1, M)
      BY ONLY <2>1, M \in Nat, DOMAIN other = 1..M, HashOfSlices
    <2> QED BY <2>1, <2>2, HashesDiffer DEF HashStep, Leaves
  <1>4. CASE N = 0 \/ M = 0
    <2>1. (N = 0 => GetRootHash(data) = << >>) /\ (M = 0 => GetRootHash(other) = << >>)
      BY DEF GetRootHash, NoHash
    <2> QED BY <1>2, <1>3, <1>4, <2>1
  <1>5. CASE N > 0 /\ M > 0
    <2>1. 1 \in 1..N /\ N \in 1..N /\ 1 \in 1..M /\ M \in 1..M /\ 1 <= N /\ 1 <= M
      BY <1>5
    <2>2. SameSlice(data, other, 1, N, 1, M)
      BY <1>2, <1>3, <1>5, <2>1, HashFixesSlice
    <2>3. \A i \in 1..N : i - 1 \in 0..(N - 1) /\ 1 + (i - 1) = i
      OBVIOUS
    <2> QED BY <2>2, <2>3 DEF SameSlice
  <1> QED BY <1>4, <1>5

\* What a step of a path makes of the hash below it.
OutputStep(item, x) ==
    IF item.left THEN NodeHash(x, item.hash) ELSE NodeHash(item.hash, x)

\* The recursion of PlainTreeOutput.
IsOutput(h, path, input, n) ==
    h = [i \in 0..n |-> IF i = 0 THEN input ELSE OutputStep(path[i], h[i - 1])]

\* What a path leads to after the next step.
LEMMA OutputAt ==
    ASSUME NEW path, NEW input, NEW n \in Nat, NEW h, IsOutput(h, path, input, n),
           NEW k \in Nat, k + 1 <= n
    PROVE  h[k + 1] = OutputStep(path[k + 1], h[k])
  <1>1. k + 1 \in 0..n /\ k + 1 # 0 /\ (k + 1) - 1 = k
    OBVIOUS
  <1>2. h[k + 1] = IF k + 1 = 0 THEN input ELSE OutputStep(path[k + 1], h[(k + 1) - 1])
    BY <1>1 DEF IsOutput
  <1> QED BY <1>1, <1>2

\* The recursion of PlainTreeOutput has a solution.
LEMMA OutputExists == ASSUME NEW path, NEW input PROVE \A n \in Nat : \E h : IsOutput(h, path, input, n)
  <1> DEFINE T == {n \in Nat : \E h : IsOutput(h, path, input, n)}
  <1>1. 0 \in T
    <2> DEFINE h == [i \in 0..0 |-> input]
    <2>1. \A i \in 0..0 : i = 0 /\ h[i] = input
      OBVIOUS
    <2>2. h = [i \in 0..0 |-> IF i = 0 THEN input ELSE OutputStep(path[i], h[i - 1])]
      BY <2>1
    <2> HIDE DEF h
    <2> QED BY <2>2 DEF IsOutput
  <1>2. ASSUME NEW n \in T PROVE n + 1 \in T
    <2>1. PICK g : IsOutput(g, path, input, n)
      OBVIOUS
    <2> DEFINE h == [i \in 0..(n + 1) |-> IF i <= n THEN g[i] ELSE OutputStep(path[i], g[i - 1])]
    <2>2. ASSUME NEW i \in 0..(n + 1)
          PROVE  h[i] = IF i = 0 THEN input ELSE OutputStep(path[i], h[i - 1])
      <3>1. i # 0 => i - 1 \in 0..(n + 1) /\ i - 1 <= n
        OBVIOUS
      <3>2. i # 0 => h[i - 1] = g[i - 1]
        BY <3>1
      <3>3. i <= n => g[i] = IF i = 0 THEN input ELSE OutputStep(path[i], g[i - 1])
        BY <2>1 DEF IsOutput
      <3> QED BY <3>2, <3>3
    <2>3. h = [i \in 0..(n + 1) |-> IF i = 0 THEN input ELSE OutputStep(path[i], h[i - 1])]
      BY <2>2
    <2> HIDE DEF h
    <2> QED BY <2>3 DEF IsOutput
  <1>3. T = Nat
    <2> HIDE DEF T
    <2>1. T \in SUBSET Nat
      BY DEF T
    <2> QED BY <1>1, <1>2, <2>1, Induction
  <1> QED BY <1>3

\* PlainTreeOutput follows the path from the input.
LEMMA OutputOf ==
    ASSUME NEW path, NEW input, Len(path) \in Nat
    PROVE  \E h : /\ IsOutput(h, path, input, Len(path))
                  /\ PlainTreeOutput(path, input) = h[Len(path)]
  <1> DEFINE h == CHOOSE g : IsOutput(g, path, input, Len(path))
  <1>1. IsOutput(h, path, input, Len(path))
    BY OutputExists
  <1>2. PlainTreeOutput(path, input) = h[Len(path)]
    BY DEF PlainTreeOutput, IsOutput, OutputStep
  <1> HIDE DEF h
  <1> QED BY <1>1, <1>2

\* Paths that agree lead to the same hashes.
LEMMA OutputFixed ==
    ASSUME NEW path, NEW other, NEW input, NEW n \in Nat, NEW m \in Nat, n <= m,
           \A i \in 1..n : path[i] = other[i],
           NEW g, IsOutput(g, path, input, n), NEW h, IsOutput(h, other, input, m)
    PROVE  g[n] = h[n]
  <1> DEFINE T == {k \in Nat : k <= n => g[k] = h[k]}
  <1>1. 0 \in T
    BY DEF IsOutput
  <1>2. ASSUME NEW k \in T PROVE k + 1 \in T
    <2> SUFFICES ASSUME k + 1 <= n PROVE g[k + 1] = h[k + 1]
      OBVIOUS
    <2>1. k + 1 \in 0..n /\ k + 1 \in 0..m /\ k + 1 \in 1..n /\ (k + 1) - 1 = k /\ k <= n
      OBVIOUS
    <2>2. g[k + 1] = OutputStep(path[k + 1], g[k])
      BY OutputAt
    <2>3. h[k + 1] = OutputStep(other[k + 1], h[k])
      <3>1. k + 1 <= m
        OBVIOUS
      <3> QED BY <3>1, OutputAt
    <2> QED BY <2>1, <2>2, <2>3
  <1>3. T = Nat
    <2> HIDE DEF T
    <2>1. T \in SUBSET Nat
      BY DEF T
    <2> QED BY <1>1, <1>2, <2>1, Induction
  <1>4. n \in T
    BY <1>3
  <1> QED BY <1>4

\* A step at the end of a path.
LEMMA OutputOfAppend ==
    ASSUME NEW path, IsSequence(path), NEW item, NEW input
    PROVE  PlainTreeOutput(Append(path, item), input)
             = OutputStep(item, PlainTreeOutput(path, input))
  <1> DEFINE longer == Append(path, item)
             n == Len(path)
  <1>1. /\ n \in Nat /\ Len(longer) = n + 1 /\ longer[n + 1] = item
        /\ \A i \in 1..n : path[i] = longer[i]
    BY AppendToSequence
  <1> HIDE DEF longer
  <1>2. PICK g : IsOutput(g, path, input, n) /\ PlainTreeOutput(path, input) = g[n]
    BY <1>1, OutputOf
  <1>3. PICK h : /\ IsOutput(h, longer, input, n + 1)
                 /\ PlainTreeOutput(longer, input) = h[n + 1]
    BY <1>1, OutputOf
  <1> HIDE DEF n
  <1>4. g[n] = h[n]
    <2>1. n + 1 \in Nat /\ n <= n + 1
      BY <1>1
    <2> QED BY <1>1, <1>2, <1>3, <2>1, OutputFixed
  <1>5. h[n + 1] = OutputStep(item, h[n])
    <2>1. n + 1 \in 0..(n + 1) /\ n + 1 # 0 /\ (n + 1) - 1 = n
      BY <1>1
    <2> QED BY <1>1, <1>3, <2>1 DEF IsOutput
  <1> QED BY <1>2, <1>3, <1>4, <1>5 DEF longer

\* Without steps the output is the input.
LEMMA OutputOfEmpty == ASSUME NEW input PROVE PlainTreeOutput(<< >>, input) = input
  <1>1. Len(<< >>) = 0
    OBVIOUS
  <1>2. PICK h : IsOutput(h, << >>, input, 0) /\ PlainTreeOutput(<< >>, input) = h[0]
    BY <1>1, OutputOf
  <1> QED BY <1>2 DEF IsOutput

-------------------------------------------------------------------------------
\* What GetMerklePath computes for a slice from what it does for the half the
\* leaf is in.
PathStep(p, data, leaf, b, hi) ==
    LET n == HighBit(hi - b)
    IN  IF b >= hi THEN << >>
        ELSE IF leaf < b + n
        THEN Append(p[<<b, b + n - 1>>], [left |-> TRUE, hash |-> HashOf(data)[<<b + n, hi>>]])
        ELSE Append(p[<<b + n, hi>>], [left |-> FALSE, hash |-> HashOf(data)[<<b, b + n - 1>>]])

\* The recursion of GetMerklePath.
IsPath(p, data, leaf) == p = [s \in Slices(data) |-> PathStep(p, data, leaf, s[1], s[2])]

\* The recursion of GetMerklePath has a solution.
LEMMA PathExists ==
    ASSUME NEW N \in Nat, NEW data, DOMAIN data = 1..N, NEW leaf
    PROVE  \E p : IsPath(p, data, leaf)
  <1> DEFINE D == 1..N
             F(p) == p = [s \in D \X D |-> p[s]]
             P(p, k) == \A lo, hi \in D :
                          hi - lo <= k => p[<<lo, hi>>] = PathStep(p, data, leaf, lo, hi)
             T == {k \in Nat : \E p : F(p) /\ P(p, k)}
  <1>1. 0 \in T
    <2> DEFINE p == [s \in D \X D |-> << >>]
    <2>1. F(p)
      OBVIOUS
    <2>2. \A lo, hi \in D : p[<<lo, hi>>] = << >>
      OBVIOUS
    <2> HIDE DEF p
    <2>3. P(p, 0)
      BY <2>2 DEF PathStep
    <2> QED BY <2>1, <2>3
  <1>2. ASSUME NEW k \in T PROVE k + 1 \in T
    <2>1. PICK q : F(q) /\ P(q, k)
      OBVIOUS
    <2> DEFINE p == [s \in D \X D |->
                       IF s[2] - s[1] <= k THEN q[s] ELSE PathStep(q, data, leaf, s[1], s[2])]
    <2>2. \A lo, hi \in D : p[<<lo, hi>>] = IF hi - lo <= k THEN q[<<lo, hi>>]
                                            ELSE PathStep(q, data, leaf, lo, hi)
      OBVIOUS
    <2>3. F(p)
      OBVIOUS
    <2> HIDE DEF p
    <2>4. ASSUME NEW lo \in D, NEW hi \in D, hi - lo <= k + 1
          PROVE  p[<<lo, hi>>] = PathStep(p, data, leaf, lo, hi)
      <3>1. p[<<lo, hi>>] = PathStep(q, data, leaf, lo, hi)
        BY <2>1, <2>2
      <3>2. CASE lo >= hi
        BY <3>1, <3>2 DEF PathStep
      <3>3. CASE lo < hi
        <4> DEFINE n == HighBit(hi - lo)
        <4>1. n \in 1..(hi - lo) /\ lo + n - 1 \in lo..(hi - 1) /\ lo + n \in (lo + 1)..hi
          <5>1. lo \in Nat /\ hi \in Nat /\ n = LeftSize(hi - lo + 1)
            <6>1. (hi - lo + 1) - 1 = hi - lo
              OBVIOUS
            <6> QED BY <6>1 DEF LeftSize
          <5> HIDE DEF n
          <5> QED BY <3>3, <5>1, Cut
        <4> HIDE DEF n
        <4> HIDE DEF T
        <4>2. /\ lo + n - 1 \in D /\ (lo + n - 1) - lo <= k
              /\ lo + n \in D /\ hi - (lo + n) <= k
          <5>1. lo \in 1..N /\ hi \in 1..N /\ hi - lo <= k + 1 /\ k \in Nat
            BY <2>4 DEF T
          <5> QED BY <4>1, <5>1
        <4>3. p[<<lo, lo + n - 1>>] = q[<<lo, lo + n - 1>>] /\ p[<<lo + n, hi>>] = q[<<lo + n, hi>>]
          BY <4>2, <2>2
        <4> QED BY <3>1, <4>3 DEF PathStep, n
      <3> QED BY <3>2, <3>3
    <2>5. P(p, k + 1)
      BY ONLY <2>4 DEF P
    <2>6. k + 1 \in Nat
      OBVIOUS
    <2> HIDE DEF F, P
    <2> QED BY <2>3, <2>5, <2>6
  <1>3. T = Nat
    <2> HIDE DEF T
    <2>1. T \in SUBSET Nat
      BY DEF T
    <2> QED BY <1>1, <1>2, <2>1, Induction
  <1>4. PICK p : F(p) /\ P(p, N)
    <2>1. N \in T
      BY <1>3
    <2> QED BY <2>1
  <1>5. \A lo, hi \in D : p[<<lo, hi>>] = PathStep(p, data, leaf, lo, hi)
    <2> SUFFICES ASSUME NEW lo \in D, NEW hi \in D
                 PROVE  p[<<lo, hi>>] = PathStep(p, data, leaf, lo, hi)
      OBVIOUS
    <2>1. hi - lo <= N
      OBVIOUS
    <2> QED BY <1>4, <2>1
  <1>6. \A s \in D \X D : p[s] = PathStep(p, data, leaf, s[1], s[2])
    BY <1>5
  <1>7. p = [s \in D \X D |-> PathStep(p, data, leaf, s[1], s[2])]
    BY ONLY <1>4, <1>6 DEF F
  <1> QED BY <1>7 DEF IsPath, Slices

\* The path of a leaf leads from it to the root.
LEMMA PathLeadsToRoot ==
    ASSUME NEW N \in Nat, NEW data, DOMAIN data = 1..N, Len(data) = N, NEW leaf \in 1..N
    PROVE  /\ IsSequence(GetMerklePath(data, leaf))
           /\ PlainTreeOutput(GetMerklePath(data, leaf), data[leaf]) = HashOf(data)[<<1, N>>]
  <1> DEFINE p == CHOOSE q : IsPath(q, data, leaf)
             h == HashOf(data)
             P(k) == \A b, hi \in 1..N : b <= leaf /\ leaf <= hi /\ hi - b <= k =>
                       /\ IsSequence(p[<<b, hi>>])
                       /\ PlainTreeOutput(p[<<b, hi>>], data[leaf]) = h[<<b, hi>>]
             T == {k \in Nat : P(k)}
  <1>1. IsPath(p, data, leaf)
    BY PathExists
  <1>2. GetMerklePath(data, leaf) = p[<<1, N>>]
    BY DEF GetMerklePath, IsPath, PathStep
  <1> HIDE DEF p
  <1>3. \A b, hi \in 1..N : p[<<b, hi>>] = PathStep(p, data, leaf, b, hi)
    BY <1>1 DEF IsPath, Slices
  <1>4. \A b, hi \in 1..N : h[<<b, hi>>] = HashStep(h, data, b, hi)
    BY HashOfSlices
  <1>5. P(0)
    <2> SUFFICES ASSUME NEW b \in 1..N, NEW hi \in 1..N, b <= leaf, leaf <= hi, hi - b <= 0
                 PROVE  /\ IsSequence(p[<<b, hi>>])
                        /\ PlainTreeOutput(p[<<b, hi>>], data[leaf]) = h[<<b, hi>>]
      OBVIOUS
    <2>1. b = leaf /\ hi = leaf /\ b >= hi
      OBVIOUS
    <2>2. p[<<b, hi>>] = << >>
      BY <1>3, <2>1 DEF PathStep
    <2>3. h[<<b, hi>>] = data[leaf]
      BY <1>4, <2>1 DEF HashStep
    <2> QED BY <2>2, <2>3, NoSequence, OutputOfEmpty
  <1> HIDE DEF h
  <1>6. ASSUME NEW k \in Nat, P(k) PROVE P(k + 1)
    <2> SUFFICES ASSUME NEW b \in 1..N, NEW hi \in 1..N, b <= leaf, leaf <= hi, hi - b <= k + 1,
                        b < hi
                 PROVE  /\ IsSequence(p[<<b, hi>>])
                        /\ PlainTreeOutput(p[<<b, hi>>], data[leaf]) = h[<<b, hi>>]
      <3>1. ASSUME NEW b \in 1..N, NEW hi \in 1..N, b <= leaf, leaf <= hi, ~(b < hi)
            PROVE  hi - b <= k
        BY <3>1
      <3> QED BY <1>6, <3>1
    <2> DEFINE n == HighBit(hi - b)
    <2>1. n = LeftSize(hi - b + 1)
      <3>1. (hi - b + 1) - 1 = hi - b
        OBVIOUS
      <3> QED BY <3>1 DEF LeftSize
    <2>2. n \in 1..(hi - b) /\ b + n - 1 \in b..(hi - 1) /\ b + n \in (b + 1)..hi
      <3>1. b \in Nat /\ hi \in Nat
        OBVIOUS
      <3> HIDE DEF n
      <3> QED BY <2>1, <3>1, Cut
    <2>3. h[<<b, hi>>] = NodeHash(h[<<b, b + n - 1>>], h[<<b + n, hi>>])
      <3>1. h[<<b, hi>>] = HashStep(h, data, b, hi) /\ ~(b >= hi)
        BY <1>4
      <3> HIDE DEF n
      <3> QED BY <2>1, <3>1 DEF HashStep
    <2>4. CASE leaf < b + n
      <3>1. p[<<b, hi>>] = Append(p[<<b, b + n - 1>>], [left |-> TRUE, hash |-> h[<<b + n, hi>>]])
        <4>1. p[<<b, hi>>] = PathStep(p, data, leaf, b, hi) /\ ~(b >= hi)
          BY <1>3
        <4> QED BY <2>4, <4>1 DEF PathStep, h
      <3> HIDE DEF n
      <3>2. b + n - 1 \in 1..N /\ leaf <= b + n - 1 /\ (b + n - 1) - b <= k
        BY <2>2, <2>4
      <3>3. /\ IsSequence(p[<<b, b + n - 1>>])
            /\ PlainTreeOutput(p[<<b, b + n - 1>>], data[leaf]) = h[<<b, b + n - 1>>]
        BY <1>6, <3>2
      <3>4. \A x, y : OutputStep([left |-> TRUE, hash |-> y], x) = NodeHash(x, y)
        BY DEF OutputStep
      <3> QED BY <2>3, <3>1, <3>3, <3>4, OutputOfAppend, AppendToSequence
    <2>5. CASE leaf >= b + n
      <3>1. p[<<b, hi>>] = Append(p[<<b + n, hi>>], [left |-> FALSE, hash |-> h[<<b, b + n - 1>>]])
        <4>1. p[<<b, hi>>] = PathStep(p, data, leaf, b, hi) /\ ~(b >= hi)
          BY <1>3
        <4> QED BY <2>2, <2>5, <4>1 DEF PathStep, h
      <3> HIDE DEF n
      <3>2. b + n \in 1..N /\ b + n <= leaf /\ hi - (b + n) <= k
        BY <2>2, <2>5
      <3>3. /\ IsSequence(p[<<b + n, hi>>])
            /\ PlainTreeOutput(p[<<b + n, hi>>], data[leaf]) = h[<<b + n, hi>>]
        BY <1>6, <3>2
      <3>4. \A x, y : OutputStep([left |-> FALSE, hash |-> y], x) = NodeHash(y, x)
        BY DEF OutputStep
      <3> QED BY <2>3, <3>1, <3>3, <3>4, OutputOfAppend, AppendToSequence
    <2> HIDE DEF n
    <2> QED BY <2>2, <2>4, <2>5
  <1> HIDE DEF P
  <1>7. T \in SUBSET Nat /\ 0 \in T /\ \A k \in T : k + 1 \in T
    BY <1>5, <1>6
  <1>8. P(N)
    <2> HIDE DEF T
    <2>1. N \in T
      BY <1>7, Induction
    <2> QED BY <2>1 DEF T
  <1>9. /\ IsSequence(p[<<1, N>>])
        /\ PlainTreeOutput(p[<<1, N>>], data[leaf]) = h[<<1, N>>]
    <2>1. 1 \in 1..N /\ N \in 1..N /\ 1 <= leaf /\ leaf <= N /\ N - 1 <= N
      OBVIOUS
    <2> QED BY <1>8, <2>1 DEF P
  <1> QED BY <1>2, <1>9 DEF h

\* What a path leads to from a leaf is a hash.
LEMMA OutputIsNotNil ==
    ASSUME NEW path, Len(path) \in Nat, NEW x
    PROVE  PlainTreeOutput(path, LeafHash(x)) # << >>
  <1> DEFINE n == Len(path)
  <1>1. PICK h : IsOutput(h, path, LeafHash(x), n) /\ PlainTreeOutput(path, LeafHash(x)) = h[n]
    BY OutputOf
  <1>2. n \in Nat
    OBVIOUS
  <1> HIDE DEF n
  <1>3. CASE n = 0
    BY <1>1, <1>3, HashesDiffer DEF IsOutput
  <1>4. CASE n # 0
    <2>1. PICK k \in Nat : k + 1 = n
      <3>1. n - 1 \in Nat /\ (n - 1) + 1 = n
        BY <1>2, <1>4
      <3> QED BY <3>1
    <2>2. h[k + 1] = OutputStep(path[k + 1], h[k])
      <3>1. k + 1 <= n
        BY <2>1
      <3> QED BY <1>1, <1>2, <3>1, OutputAt
    <2> QED BY <1>1, <2>1, <2>2, HashesDiffer DEF OutputStep
  <1> QED BY <1>3, <1>4

\* A path from a leaf to a hash of the tree starts at a leaf of the tree.
LEMMA OutputIsOfLeaf ==
    ASSUME NEW N \in Nat, NEW data, DOMAIN data = 1..N, Leaves(data), NEW path, Len(path) \in Nat,
           NEW x, NEW top \in 1..N, PlainTreeOutput(path, LeafHash(x)) = HashOf(data)[<<1, top>>]
    PROVE  \E j \in 1..N : data[j] = LeafHash(x)
  <1> DEFINE g == HashOf(data)
             n == Len(path)
  <1>1. PICK h : IsOutput(h, path, LeafHash(x), n) /\ PlainTreeOutput(path, LeafHash(x)) = h[n]
    BY OutputOf
  <1>2. \A lo, hi \in 1..N : g[<<lo, hi>>] = HashStep(g, data, lo, hi)
    BY HashOfSlices
  <1> HIDE DEF g, n
  <1> DEFINE P(k) == k <= n => \A lo, hi \in 1..N : lo <= hi /\ h[k] = g[<<lo, hi>>]
                                 => \E j \in 1..N : data[j] = LeafHash(x)
             T == {k \in Nat : P(k)}
  <1>3. n \in Nat
    BY DEF n
  <1>4. P(0)
    <2> SUFFICES ASSUME NEW lo \in 1..N, NEW hi \in 1..N, lo <= hi, h[0] = g[<<lo, hi>>]
                 PROVE  \E j \in 1..N : data[j] = LeafHash(x)
      OBVIOUS
    <2>1. h[0] = LeafHash(x)
      BY <1>1, <1>3 DEF IsOutput
    <2>2. g[<<lo, hi>>] = HashStep(g, data, lo, hi)
      BY <1>2
    <2>3. lo >= hi
      <3>1. lo < hi => \E l, r : g[<<lo, hi>>] = NodeHash(l, r)
        <4>1. lo < hi => ~(lo >= hi)
          OBVIOUS
        <4> QED BY <2>2, <4>1 DEF HashStep
      <3> QED BY <2>1, <3>1, HashesDiffer
    <2> QED BY <2>1, <2>2, <2>3 DEF HashStep
  <1>5. ASSUME NEW k \in Nat, P(k) PROVE P(k + 1)
    <2> SUFFICES ASSUME k + 1 <= n, NEW lo \in 1..N, NEW hi \in 1..N, lo <= hi,
                        h[k + 1] = g[<<lo, hi>>]
                 PROVE  \E j \in 1..N : data[j] = LeafHash(x)
      OBVIOUS
    <2>1. h[k + 1] = OutputStep(path[k + 1], h[k])
      BY <1>1, <1>3, OutputAt
    <2>2. \E y : h[k + 1] = NodeHash(h[k], y) \/ h[k + 1] = NodeHash(y, h[k])
      BY <2>1 DEF OutputStep
    <2>3. g[<<lo, hi>>] = HashStep(g, data, lo, hi)
      BY <1>2
    <2>4. lo < hi
      <3>1. CASE lo >= hi
        <4>1. g[<<lo, hi>>] = data[lo]
          BY <2>3, <3>1 DEF HashStep
        <4>2. \E z : data[lo] = LeafHash(z)
          BY DEF Leaves
        <4> QED BY <2>2, <4>1, <4>2, HashesDiffer
      <3> QED BY <3>1
    <2> DEFINE m == LeftSize(hi - lo + 1)
    <2>5. g[<<lo, hi>>] = NodeHash(g[<<lo, lo + m - 1>>], g[<<lo + m, hi>>])
      BY <2>3, <2>4 DEF HashStep
    <2>6. m \in 1..(hi - lo) /\ lo + m - 1 \in lo..(hi - 1) /\ lo + m \in (lo + 1)..hi
      <3>1. lo \in Nat /\ hi \in Nat /\ m = LeftSize(hi - lo + 1)
        OBVIOUS
      <3> HIDE DEF m
      <3> QED BY <2>4, <3>1, Cut
    <2> HIDE DEF m
    <2>7. h[k] = g[<<lo, lo + m - 1>>] \/ h[k] = g[<<lo + m, hi>>]
      <3>1. PICK y : h[k + 1] = NodeHash(h[k], y) \/ h[k + 1] = NodeHash(y, h[k])
        BY <2>2
      <3> QED BY <2>5, <3>1, HashesDiffer
    <2>8. /\ lo + m - 1 \in 1..N /\ lo <= lo + m - 1 /\ lo + m \in 1..N /\ lo + m <= hi
          /\ k <= n
      BY <1>3, <2>6
    <2> QED BY <1>5, <2>7, <2>8
  <1> HIDE DEF P
  <1>6. T \in SUBSET Nat /\ 0 \in T /\ \A k \in T : k + 1 \in T
    BY ONLY <1>4, <1>5, SMTT(30)
  <1>7. P(n)
    <2> HIDE DEF T
    <2>1. n \in T
      BY <1>3, <1>6, Induction
    <2> QED BY <2>1 DEF T
  <1>8. 1 \in 1..N /\ 1 <= top /\ n <= n /\ h[n] = g[<<1, top>>]
    BY <1>1, <1>3 DEF g
  <1> QED BY <1>7, <1>8 DEF P

-------------------------------------------------------------------------------
\* The records of a block are a sequence, also if it has a nil list.
LEMMA RecordsAre ==
    ASSUME NEW txs \in Transactions
    PROVE  /\ Len(Records(txs)) \in Nat
           /\ Records(txs) = [i \in 1..Len(Records(txs)) |-> Records(txs)[i]]
  <1>1. CASE txs = NilTxs
    <2>1. Records(txs) = << >>
      BY <1>1 DEF Records
    <2> QED BY <2>1
  <1>2. CASE txs # NilTxs
    <2>1. Records(txs) = txs /\ txs \in TxLists
      BY <1>2 DEF Records, Transactions
    <2> QED BY <2>1, TxListsAssumption
  <1> QED BY <1>1, <1>2

\* The leaves of the records of a block.
LEMMA HashesOfList ==
    ASSUME NEW txs \in Transactions
    PROVE  LET l == Records(txs) IN
           /\ Len(l) \in Nat /\ DOMAIN l = 1..Len(l) /\ DOMAIN Hashes(txs) = 1..Len(l)
           /\ Len(Hashes(txs)) = Len(l) /\ Leaves(Hashes(txs))
           /\ \A i \in 1..Len(l) : Hashes(txs)[i] = LeafHash(l[i])
           /\ l = << >> <=> Len(l) = 0
           /\ Hashes(txs) = << >> <=> Len(l) = 0
  <1> DEFINE l == Records(txs)
             N == Len(l)
             d == Hashes(txs)
  <1>1. N \in Nat /\ l = [i \in 1..N |-> l[i]]
    BY RecordsAre
  <1>2. DOMAIN l = 1..N /\ DOMAIN d = 1..N /\ \A i \in 1..N : d[i] = LeafHash(l[i])
    <2>1. d = [i \in DOMAIN l |-> LeafHash(l[i])]
      BY DEF Hashes
    <2> HIDE DEF d, l
    <2>2. DOMAIN l = 1..N
      BY <1>1
    <2> QED BY <2>1, <2>2
  <1>3. d = [i \in 1..N |-> d[i]]
    <2>1. d = [i \in DOMAIN l |-> LeafHash(l[i])]
      BY DEF Hashes
    <2> HIDE DEF d, l
    <2> QED BY <1>2, <2>1
  <1> HIDE DEF d, l
  <1>4. l \in Seq({l[i] : i \in 1..N}) /\ d \in Seq({d[i] : i \in 1..N})
    <2>1. l \in [1..N -> {l[i] : i \in 1..N}]
      BY <1>1
    <2>2. d \in [1..N -> {d[i] : i \in 1..N}]
      BY <1>3
    <2> QED BY <1>1, <2>1, <2>2, SeqDef
  <1>5. Len(d) = N
    BY <1>1, <1>2, <1>4
  <1>6. (l = << >> <=> N = 0) /\ (d = << >> <=> N = 0)
    BY <1>4, <1>5, EmptySeq
  <1>7. Leaves(d)
    BY <1>2 DEF Leaves
  <1> QED BY <1>1, <1>2, <1>5, <1>6, <1>7 DEF d, l

\* The root hash of the records fixes them.
LEMMA RootFixesList ==
    ASSUME NEW txs \in Transactions, NEW other \in Transactions,
           GetRootHash(Hashes(txs)) = GetRootHash(Hashes(other))
    PROVE  Records(txs) = Records(other)
  <1> DEFINE d == Hashes(txs)
             e == Hashes(other)
             l == Records(txs)
             m == Records(other)
             N == Len(l)
             M == Len(m)
  <1>1. /\ N \in Nat /\ DOMAIN d = 1..N /\ Leaves(d) /\ Len(d) = N /\ (d = << >> <=> N = 0)
        /\ \A i \in 1..N : d[i] = LeafHash(l[i])
    BY HashesOfList
  <1>2. /\ M \in Nat /\ DOMAIN e = 1..M /\ Leaves(e) /\ Len(e) = M /\ (e = << >> <=> M = 0)
        /\ \A i \in 1..M : e[i] = LeafHash(m[i])
    BY HashesOfList
  <1>3. /\ l = [i \in 1..N |-> l[i]]
        /\ m = [i \in 1..M |-> m[i]]
    BY RecordsAre
  <1>4. GetRootHash(d) = GetRootHash(e)
    OBVIOUS
  <1> HIDE DEF d, e, l, m, N, M
  <1>5. N = M /\ \A i \in 1..N : d[i] = e[i]
    BY <1>1, <1>2, <1>4, RootFixesLeaves
  <1>6. \A i \in 1..N : l[i] = m[i]
    BY <1>1, <1>2, <1>5, HashesDiffer
  <1>7. l = m
    <2>1. m = [i \in 1..N |-> m[i]]
      BY <1>3, <1>5
    <2> QED BY <1>3, <1>6, <2>1
  <1> QED BY <1>7 DEF l, m

-------------------------------------------------------------------------------
\* The type of a certificate.
UCTyped(uc) ==
    /\ uc = [partition |-> uc.partition, shard |-> uc.shard, ir |-> uc.ir]
    /\ uc.ir = [prev |-> uc.ir.prev, hash |-> uc.ir.hash, block |-> uc.ir.block,
                round |-> uc.ir.round]

\* A block has a header, records and a certificate.
BlockTyped(b) ==
    /\ b = [header |-> b.header, txs |-> b.txs, uc |-> b.uc]
    /\ b.txs \in Transactions
    /\ UCTyped(b.uc)

\* What was submitted is the record of the content it was calculated from.
Calculated(ir, c) ==
    /\ ir = [prev |-> ir.prev, hash |-> ir.hash, block |-> ir.block, round |-> ir.round]
    /\ c.txs \in Transactions
    /\ HeaderIsValid(c.header)
    /\ ir.block = BlockHash(c.header, c.txs, ir.hash, ir.prev)

\* A block is valid but for a nil list.
ValidButNil(b) ==
    /\ HeaderIsValid(b.header)
    /\ UCIsValid(b.uc, b.header.partition, b.header.shard)
    /\ BlockHash(b.header, b.txs, b.uc.ir.hash, b.uc.ir.prev) = b.uc.ir.block

\* The inductive invariant: every certified block is valid but for a nil list,
\* and what was submitted is what it was calculated from.
Inv ==
    /\ BlockTyped(block)
    /\ submitted # << >> => Calculated(submitted[1], content[1])
    /\ \A b \in certified : BlockTyped(b) /\ ValidButNil(b)

\* A new block has the parts of a block.
LEMMA NewBlocksTyped == \A b \in NewBlocks : BlockTyped(b)
  <1> SUFFICES ASSUME NEW b \in NewBlocks PROVE BlockTyped(b)
    OBVIOUS
  <1>1. PICK s \in Shards :
          b \in [header : Headers(s), txs : Transactions, uc : {Tentative(s, h) : h \in States}]
    BY DEF NewBlocks
  <1>2. PICK h \in States : b.uc = Tentative(s, h)
    BY <1>1
  <1>3. UCTyped(b.uc)
    BY <1>2 DEF UCTyped, Tentative
  <1> QED BY <1>1, <1>3 DEF BlockTyped

\* The invariant holds of the first block.
LEMMA InvInit == Init => Inv
  BY NewBlocksTyped DEF Init, Inv

\* A new block has nothing to do with the certified ones.
LEMMA InvPropose == Inv /\ Propose => Inv'
  <1> SUFFICES ASSUME Inv, Propose PROVE Inv'
    OBVIOUS
  <1>1. block' \in NewBlocks /\ submitted' = << >> /\ certified' = certified
    BY DEF Propose
  <1>2. BlockTyped(block')
    <2>1. block' \in UNION {[header : Headers(s), txs : Transactions,
                              uc : {Tentative(s, h) : h \in States}] : s \in Shards}
      BY <1>1 DEF NewBlocks
    <2> QED BY <1>1, NewBlocksTyped
  <1> QED BY <1>1, <1>2 DEF Inv

\* What is submitted is calculated from the block.
LEMMA InvCalculate == Inv /\ CalculateBlockHash => Inv'
  <1> SUFFICES ASSUME Inv, CalculateBlockHash PROVE Inv'
    OBVIOUS
  <1> DEFINE ir == block.uc.ir
             new == [ir EXCEPT !.block = BlockHash(block.header, block.txs, ir.hash, ir.prev)]
  <1>1. /\ HeaderIsValid(block.header)
        /\ block' = [block EXCEPT !.uc.ir = new]
        /\ submitted' = <<new>>
        /\ content' = <<[header |-> block.header, txs |-> block.txs]>>
        /\ certified' = certified
    BY DEF CalculateBlockHash
  <1>2. BlockTyped(block)
    BY DEF Inv
  <1>3. /\ new = [prev |-> ir.prev, hash |-> ir.hash, round |-> ir.round,
                  block |-> BlockHash(block.header, block.txs, ir.hash, ir.prev)]
    BY <1>2 DEF BlockTyped, UCTyped
  <1> HIDE DEF new
  <1>4. block' = [header |-> block.header, txs |-> block.txs,
                  uc |-> [partition |-> block.uc.partition, shard |-> block.uc.shard, ir |-> new]]
    BY <1>1, <1>2 DEF BlockTyped, UCTyped
  <1>5. BlockTyped(block')
    BY <1>2, <1>3, <1>4 DEF BlockTyped, UCTyped
  <1>6. Calculated(submitted'[1], content'[1])
    BY <1>1, <1>2, <1>3 DEF Calculated, BlockTyped
  <1> QED BY <1>1, <1>5, <1>6 DEF Inv

\* What is certified is valid but for a nil list: the check repeats the calculation.
LEMMA InvCertify == ASSUME NEW s \in Shards PROVE Inv /\ Certify(s) => Inv'
  <1> SUFFICES ASSUME Inv, Certify(s) PROVE Inv'
    OBVIOUS
  <1> DEFINE ir == submitted[1]
             c == content[1]
             uc == [partition |-> s.partition, shard |-> s.shard, ir |-> ir]
             b == [header |-> c.header, txs |-> c.txs, uc |-> uc]
  <1>1. /\ submitted # << >> /\ submitted' = submitted /\ content' = content
        /\ s = [partition |-> c.header.partition, shard |-> c.header.shard]
        /\ RecordIsValid(ir)
        /\ certified' = certified \cup {b}
        /\ block' = [block EXCEPT !.uc = uc]
    BY DEF Certify
  <1>2. Calculated(ir, c) /\ BlockTyped(block)
    BY <1>1 DEF Inv
  <1> HIDE DEF ir, c
  <1>3. UCTyped(uc)
    BY <1>2 DEF UCTyped, Calculated
  <1>4. BlockTyped(b)
    BY <1>2, <1>3 DEF BlockTyped, Calculated
  <1>5. ValidButNil(b)
    BY <1>1, <1>2 DEF ValidButNil, UCIsValid, Calculated
  <1>6. BlockTyped(block')
    BY <1>1, <1>2, <1>3 DEF BlockTyped
  <1> HIDE DEF b
  <1>7. submitted'[1] = ir /\ content'[1] = c
    BY <1>1 DEF ir, c
  <1> QED BY <1>1, <1>2, <1>4, <1>5, <1>6, <1>7 DEF Inv

\* A change of the block in hand leaves the certified ones as they are.
LEMMA InvChange == Inv /\ ChangeBlock => Inv'
  <1> SUFFICES ASSUME Inv, ChangeBlock PROVE Inv'
    OBVIOUS
  <1>1. BlockTyped(block)
    BY DEF Inv
  <1>2. BlockTyped(block')
    <2>1. ASSUME NEW header, block' = [block EXCEPT !.header = header] PROVE BlockTyped(block')
      BY <1>1, <2>1 DEF BlockTyped
    <2>2. ASSUME block' = [block EXCEPT !.header.proposer = NoProposer] PROVE BlockTyped(block')
      BY <1>1, <2>2 DEF BlockTyped
    <2>3. ASSUME NEW txs \in Transactions, block' = [block EXCEPT !.txs = txs] PROVE BlockTyped(block')
      BY <1>1, <2>3 DEF BlockTyped
    <2>4. ASSUME NEW b \in certified, block' = [block EXCEPT !.uc = b.uc] PROVE BlockTyped(block')
      BY <1>1, <2>4 DEF BlockTyped, Inv
    <2> QED BY <2>1, <2>2, <2>3, <2>4 DEF ChangeBlock, UCs
  <1> QED BY <1>2 DEF Inv, ChangeBlock

\* The invariant holds in every behaviour.
LEMMA InvHolds == Spec => []Inv
  <1>1. Inv /\ UNCHANGED vars => Inv'
    BY DEF Inv, vars
  <1>2. Inv /\ [Next]_vars => Inv'
    BY <1>1, InvPropose, InvCalculate, InvCertify, InvChange DEF Next
  <1> QED BY InvInit, <1>2, PTL DEF Spec

(***************************************************************************)
(* A block whose hash was certified is valid with its certificate exactly  *)
(* if it has a list of transactions, and not nil (CalculateBlockHash,      *)
(* Block.IsValid).                                                         *)
(***************************************************************************)
THEOREM CertifiedIsValidHolds == Spec => []CertifiedIsValid
  <1>1. Inv => CertifiedIsValid
    BY DEF Inv, ValidButNil, IsValid, CertifiedIsValid
  <1> QED BY <1>1, InvHolds, PTL

\* A block hash that is not nil fixes what it is of.
LEMMA BlockHashFixes ==
    ASSUME NEW header, NEW other, NEW txs \in Transactions, NEW list \in Transactions,
           NEW hash, NEW prev,
           BlockHash(header, txs, hash, prev) = BlockHash(other, list, hash, prev),
           BlockHash(header, txs, hash, prev) # NoHash
    PROVE  header = other /\ Records(txs) = Records(list)
  <1>1. /\ BlockHash(header, txs, hash, prev)
             = <<"block", header, prev, hash, GetRootHash(Hashes(txs))>>
        /\ BlockHash(other, list, hash, prev)
             = <<"block", other, prev, hash, GetRootHash(Hashes(list))>>
    BY DEF BlockHash
  <1>2. header = other /\ GetRootHash(Hashes(txs)) = GetRootHash(Hashes(list))
    <2>1. <<"block", header, prev, hash, GetRootHash(Hashes(txs))>>
          = <<"block", other, prev, hash, GetRootHash(Hashes(list))>>
      BY <1>1
    <2> QED BY ONLY <2>1
  <1> QED BY <1>2, RootFixesList

(***************************************************************************)
(* A certificate is valid with no other block than the one it was made     *)
(* for, a nil list being one with the empty one, unless it is of the empty *)
(* block of an unchanged state (Block.IsValid).                            *)
(***************************************************************************)
THEOREM ValidIsCertifiedHolds == Spec => []ValidIsCertified
  <1>1. Inv => ValidIsCertified
    <2> SUFFICES ASSUME Inv, IsValid(block), block.uc \in UCs, block.uc.ir.block # NoHash
                 PROVE  \E b \in certified : SameBlock(b, block)
      BY DEF ValidIsCertified
    <2>1. PICK b \in certified : b.uc = block.uc
      BY DEF UCs
    <2>2. ValidButNil(b) /\ BlockTyped(b) /\ BlockTyped(block)
      BY DEF Inv
    <2>3. b.header = block.header /\ Records(b.txs) = Records(block.txs)
      BY <2>1, <2>2, BlockHashFixes DEF IsValid, ValidButNil, BlockTyped
    <2> QED BY <2>1, <2>3 DEF SameBlock
  <1> QED BY <1>1, InvHolds, PTL

\* The path of each record of a block leads to the root hash of its records.
LEMMA PathOfRecord ==
    ASSUME NEW txs \in Transactions, NEW i \in DOMAIN Records(txs)
    PROVE  /\ IsSequence(GetMerklePath(Hashes(txs), i))
           /\ EvalMerklePath(GetMerklePath(Hashes(txs), i), txs[i]) = GetRootHash(Hashes(txs))
           /\ Records(txs) # << >> /\ Records(txs) = txs
  <1> DEFINE l == Records(txs)
             N == Len(l)
             d == Hashes(txs)
  <1>1. /\ N \in Nat /\ i \in 1..N /\ DOMAIN d = 1..N /\ Len(d) = N
        /\ d[i] = LeafHash(l[i]) /\ d # << >> /\ l # << >>
    BY HashesOfList
  <1>2. l = txs
    BY <1>1 DEF Records
  <1> HIDE DEF N, d, l
  <1>3. /\ IsSequence(GetMerklePath(d, i))
        /\ PlainTreeOutput(GetMerklePath(d, i), d[i]) = HashOf(d)[<<1, N>>]
    BY <1>1, PathLeadsToRoot
  <1>4. GetRootHash(d) = HashOf(d)[<<1, N>>]
    BY <1>1 DEF GetRootHash
  <1>5. d[i] = LeafHash(txs[i])
    BY <1>1, <1>2
  <1> QED BY <1>1, <1>2, <1>3, <1>4, <1>5 DEF EvalMerklePath, d, l

(***************************************************************************)
(* The proof of each record of a certified block verifies exactly for      *)
(* partitions with one shard (NewTxRecordProof, VerifyTxInclusion).        *)
(***************************************************************************)
THEOREM ProofsCompleteHolds == Spec => []ProofsComplete
  <1>1. Inv => ProofsComplete
    <2> SUFFICES ASSUME Inv, NEW b \in certified, NEW i \in DOMAIN Records(b.txs)
                 PROVE  LET p == NewTxRecordProof(b, i)
                            verifiable == b.header.shard = EmptyShard
                                            /\ b.txs[i].order.partition = b.header.partition
                        IN  /\ VerifyTxInclusion(p) <=> verifiable
                            /\ VerifyTxProof(p) <=> verifiable /\ b.txs[i].status = "successful"
      BY DEF ProofsComplete
    <2> DEFINE p == NewTxRecordProof(b, i)
               ir == b.uc.ir
    <2>1. /\ p.record = b.txs[i] /\ p.header = b.header /\ p.uc = b.uc
          /\ p.chain = GetMerklePath(Hashes(b.txs), i)
      BY DEF NewTxRecordProof
    <2> HIDE DEF p
    <2>2. BlockTyped(b) /\ ValidButNil(b) /\ b.uc \in UCs
      BY DEF Inv, UCs
    <2>3. /\ EvalMerklePath(p.chain, p.record) = GetRootHash(Hashes(b.txs))
          /\ Records(b.txs) # << >>
      BY <2>1, <2>2, PathOfRecord DEF BlockTyped
    <2>4. <<"block", p.header, ir.prev, ir.hash, EvalMerklePath(p.chain, p.record)>> = ir.block
      BY <2>1, <2>2, <2>3 DEF ValidButNil, BlockHash
    <2>5. /\ RecordIsValid(ir) /\ b.uc.partition = b.header.partition
          /\ b.uc.shard = b.header.shard
      BY <2>2 DEF ValidButNil, UCIsValid
    <2>6. VerifyTxInclusion(p) <=> /\ b.header.partition = b.txs[i].order.partition
                                   /\ b.header.shard = EmptyShard
      BY <2>1, <2>2, <2>4, <2>5 DEF VerifyTxInclusion, UCVerify, UCIsValid
    <2> QED BY <2>1, <2>6 DEF VerifyTxProof, p
  <1> QED BY <1>1, InvHolds, PTL

\* The chains of a cheat have lengths.
LEMMA ChainsHaveLengths ==
    ASSUME Inv, NEW chain \in Chains
    PROVE  Len(chain) \in Nat
  <1>1. PICK c \in HonestChains : chain \in ChangedChain(c)
    BY DEF Chains
  <1>2. IsSequence(c)
    <2>1. PICK b \in certified :
            \E i \in DOMAIN Records(b.txs) : c = GetMerklePath(Hashes(b.txs), i)
      BY DEF HonestChains
    <2>2. b.txs \in Transactions
      BY DEF Inv, BlockTyped
    <2> QED BY <2>1, <2>2, PathOfRecord
  <1>3. \/ \E m \in {1, 2}, n \in {Len(c) - 1, Len(c)} : chain = SubSeq(c, m, n)
        \/ \E j \in DOMAIN c : chain = [c EXCEPT ![j].left = ~@]
    BY <1>1 DEF ChangedChain
  <1>4. PICK S : c \in Seq(S)
    BY <1>2 DEF IsSequence
  <1>5. ASSUME NEW m \in {1, 2}, NEW n \in {Len(c) - 1, Len(c)}
        PROVE  Len(SubSeq(c, m, n)) \in Nat
    <2>1. Len(c) \in Nat /\ m \in Int /\ n \in Int
      BY <1>4
    <2> QED BY <2>1, <1>4
  <1>6. ASSUME NEW j \in DOMAIN c PROVE Len([c EXCEPT ![j].left = ~@]) \in Nat
    <2>1. [c EXCEPT ![j].left = ~@] = [c EXCEPT ![j] = [c[j] EXCEPT !.left = ~@]]
      OBVIOUS
    <2> DEFINE e == [c[j] EXCEPT !.left = ~@]
    <2> HIDE DEF e
    <2>2. c \in Seq(S \cup {e})
      BY <1>4
    <2>3. [c EXCEPT ![j] = e] \in Seq(S \cup {e})
      BY <2>2
    <2> QED BY <2>1, <2>3 DEF e
  <1> QED BY <1>3, <1>5, <1>6

(***************************************************************************)
(* A proof that verifies is of a record of the block its certificate is    *)
(* of, however it was put together (VerifyTxInclusion).                    *)
(***************************************************************************)
THEOREM ProofsSoundHolds == Spec => []ProofsSound
  <1>1. Inv => ProofsSound
    <2> SUFFICES ASSUME Inv, NEW b \in certified, NEW c \in certified, NEW d \in certified,
                        NEW i \in DOMAIN Records(b.txs), NEW chain \in Chains,
                        VerifyTxInclusion([record |-> b.txs[i], header |-> c.header,
                                           chain |-> chain, uc |-> d.uc])
                 PROVE  /\ \E j \in DOMAIN Records(d.txs) : d.txs[j] = b.txs[i]
                        /\ d.header.partition = b.txs[i].order.partition
      BY DEF ProofsSound
    <2>1. /\ d.uc.partition = b.txs[i].order.partition
          /\ <<"block", c.header, d.uc.ir.prev, d.uc.ir.hash, EvalMerklePath(chain, b.txs[i])>>
               = d.uc.ir.block
      BY DEF VerifyTxInclusion, UCVerify, UCIsValid
    <2>2. BlockTyped(d) /\ ValidButNil(d)
      BY DEF Inv
    <2>3. d.header.partition = b.txs[i].order.partition
      BY <2>1, <2>2 DEF ValidButNil, UCIsValid
    <2>4. d.uc.ir.block = <<"block", d.header, d.uc.ir.prev, d.uc.ir.hash, GetRootHash(Hashes(d.txs))>>
      BY <2>1, <2>2 DEF ValidButNil, BlockHash, NoHash
    <2>5. PlainTreeOutput(chain, LeafHash(b.txs[i])) = GetRootHash(Hashes(d.txs))
      <3>1. EvalMerklePath(chain, b.txs[i]) = GetRootHash(Hashes(d.txs))
        BY <2>1, <2>4
      <3> QED BY <3>1 DEF EvalMerklePath
    <2> DEFINE l == Records(d.txs)
               N == Len(l)
               e == Hashes(d.txs)
               x == b.txs[i]
    <2>6. /\ N \in Nat /\ DOMAIN l = 1..N /\ DOMAIN e = 1..N /\ Len(e) = N /\ Leaves(e)
          /\ \A j \in 1..N : e[j] = LeafHash(l[j])
          /\ e = << >> <=> N = 0
          /\ l # << >> <=> N # 0
      BY <2>2, HashesOfList DEF BlockTyped
    <2>7. Len(chain) \in Nat
      BY ChainsHaveLengths
    <2> HIDE DEF N, e, x, l
    <2>8. PlainTreeOutput(chain, LeafHash(x)) # << >>
      BY <2>7, OutputIsNotNil
    <2>9. N # 0 /\ GetRootHash(e) = HashOf(e)[<<1, N>>]
      BY <2>5, <2>6, <2>8 DEF GetRootHash, NoHash, e, x
    <2>10. PICK j \in 1..N : e[j] = LeafHash(x)
      <3>1. N \in 1..N /\ PlainTreeOutput(chain, LeafHash(x)) = HashOf(e)[<<1, N>>]
        BY <2>5, <2>6, <2>9 DEF e, x
      <3> QED BY <2>6, <2>7, <3>1, OutputIsOfLeaf
    <2>11. l[j] = x
      BY <2>6, <2>10, HashesDiffer
    <2>12. l = d.txs
      BY <2>6, <2>9 DEF Records, l
    <2>13. j \in DOMAIN Records(d.txs) /\ d.txs[j] = b.txs[i]
      BY <2>6, <2>11, <2>12 DEF x, l
    <2> QED BY <2>3, <2>13
  <1> QED BY <1>1, InvHolds, PTL

-------------------------------------------------------------------------------
(* Orders. *)

\* Every signature is over what its purpose signs of the order it was made of.
SignedSound ==
    \A s \in signed :
        /\ s.purpose \in Purposes
        /\ s.proof = [key |-> keys[s.purpose], over |-> SigBytes(s.purpose, s.of)]

(***************************************************************************)
(* The signed forms are told apart by their lengths, so that bytes of one  *)
(* purpose are those of no other (StateLockProofSigData, AuthProofSigData, *)
(* FeeProofSigData), and equal bytes of one are of equal fields.           *)
(***************************************************************************)
LEMMA FormsDiffer ==
    ASSUME NEW p \in Purposes, NEW q \in Purposes, NEW t, NEW u,
           SigBytes(p, t) = SigBytes(q, u)
    PROVE  /\ p = q
           /\ t.payload = u.payload
           /\ p \in {"auth", "fee"} => t.unlock = u.unlock
           /\ p = "fee" => t.auth = u.auth
  <1>1. /\ SigBytes("unlock", t) = <<t.version, t.payload>>
        /\ SigBytes("auth", t) = <<t.version, t.payload, t.unlock>>
        /\ SigBytes("fee", t) = <<t.version, t.payload, t.unlock, t.auth>>
    BY DEF SigBytes, StateLockProofSigBytes, AuthProofSigBytes, FeeProofSigBytes
  <1>2. /\ SigBytes("unlock", u) = <<u.version, u.payload>>
        /\ SigBytes("auth", u) = <<u.version, u.payload, u.unlock>>
        /\ SigBytes("fee", u) = <<u.version, u.payload, u.unlock, u.auth>>
    BY DEF SigBytes, StateLockProofSigBytes, AuthProofSigBytes, FeeProofSigBytes
  <1> QED BY <1>1, <1>2 DEF Purposes

\* A proof that verifies for a purpose was made for it, of an order that
\* agrees in the fields.
LEMMA VerifiedIsMeant ==
    ASSUME SignedSound,
           NEW t, NEW p \in Purposes, NEW proof \in {s.proof : s \in signed},
           Verifies(p, proof, t)
    PROVE  /\ Meant(p, t, {"payload"})
           /\ p = "auth" => Meant(p, t, {"payload", "unlock"})
           /\ p = "fee" => Meant(p, t, {"payload", "unlock", "auth"})
  <1>1. PICK s \in signed : s.proof = proof
    OBVIOUS
  <1>2. SigBytes(s.purpose, s.of) = SigBytes(p, t)
    <2>1. s.proof.over = SigBytes(s.purpose, s.of)
      <3>1. s.proof = [key |-> keys[s.purpose], over |-> SigBytes(s.purpose, s.of)]
        BY Zenon DEF SignedSound
      <3> QED BY ONLY <3>1
    <2>2. proof.over = SigBytes(p, t)
      BY DEF Verifies
    <2> QED BY <1>1, <2>1, <2>2
  <1>3. s.purpose \in Purposes
    BY DEF SignedSound
  <1>4. /\ s.purpose = p
        /\ s.of.payload = t.payload
        /\ p \in {"auth", "fee"} => s.of.unlock = t.unlock
        /\ p = "fee" => s.of.auth = t.auth
    BY <1>2, <1>3, FormsDiffer
  <1> QED BY <1>4 DEF Meant

\* Every signature is kept with the bytes it was made over.
THEOREM SignaturesSound == OrderSpec => []SignedSound
  <1>1. OrderInit => SignedSound
    BY DEF OrderInit, SignedSound
  <1>2. SignedSound /\ [OrderNext]_orderVars => SignedSound'
    <2> SUFFICES ASSUME SignedSound, [OrderNext]_orderVars PROVE SignedSound'
      OBVIOUS
    <2>1. ASSUME NEW version \in {0, 1}, NEW p \in Payloads, NewTransactionOrder(version, p)
          PROVE  SignedSound'
      BY <2>1 DEF NewTransactionOrder, SignedSound
    <2>2. ASSUME NEW p \in Payloads, SetAttributes(p) PROVE SignedSound'
      BY <2>2 DEF SetAttributes, SignedSound
    <2>3. ASSUME NEW purpose \in Purposes, Sign(purpose) PROVE SignedSound'
      <3>1. /\ keys' = keys
            /\ signed' = signed \cup
                 {[purpose |-> purpose, of |-> order,
                   proof |-> [key |-> keys[purpose], over |-> SigBytes(purpose, order)]]}
        BY <2>3 DEF Sign
      <3> QED BY <3>1 DEF SignedSound
    <2>4. CASE UNCHANGED orderVars
      BY <2>4 DEF orderVars, SignedSound
    <2> QED BY <2>1, <2>2, <2>3, <2>4 DEF OrderNext
  <1> QED BY <1>1, <1>2, PTL DEF OrderSpec

(***************************************************************************)
(* An order that a node finds authorised was meant as it is, by each of    *)
(* those whose proofs it carries.                                          *)
(***************************************************************************)
THEOREM AuthorisedIsMeantHolds == OrderSpec => []AuthorisedIsMeant
  <1>1. SignedSound => AuthorisedIsMeant
    <2> SUFFICES ASSUME SignedSound, NEW t \in Recombined, Authorised(t)
                 PROVE  /\ t.unlock # None => Meant("unlock", t, {"payload"})
                        /\ Meant("auth", t, {"payload", "unlock"})
                        /\ Meant("fee", t, {"payload", "unlock", "auth"})
      BY DEF AuthorisedIsMeant
    <2> DEFINE proofs == {s.proof : s \in signed}
    <2>1. /\ t.auth \in proofs /\ t.fee \in proofs
          /\ t.unlock # None => t.unlock \in {Rollback, Execute} \X proofs
      BY DEF Recombined
    <2>2. /\ Verifies("auth", t.auth, t) /\ Verifies("fee", t.fee, t)
          /\ t.unlock # None => Verifies("unlock", t.unlock[2], t)
      BY DEF Authorised
    <2>3. Meant("auth", t, {"payload", "unlock"})
      BY <2>1, <2>2, VerifiedIsMeant DEF Purposes
    <2>4. Meant("fee", t, {"payload", "unlock", "auth"})
      BY <2>1, <2>2, VerifiedIsMeant DEF Purposes
    <2>5. t.unlock # None => Meant("unlock", t, {"payload"})
      BY <2>1, <2>2, VerifiedIsMeant DEF Purposes
    <2> QED BY <2>3, <2>4, <2>5
  <1> QED BY <1>1, SignaturesSound, PTL

\* The order in memory has the fields of one, and a version that can be sent.
OrderTyped ==
    order # None =>
        /\ order.version \in {0, 1}
        /\ order = [version |-> order.version, payload |-> order.payload,
                    unlock |-> order.unlock, auth |-> order.auth, fee |-> order.fee]

\* The order always has the fields of one.
LEMMA OrderTypedHolds == OrderSpec => []OrderTyped
  <1>1. OrderInit => OrderTyped
    BY DEF OrderInit, OrderTyped
  <1>2. OrderTyped /\ [OrderNext]_orderVars => OrderTyped'
    <2> SUFFICES ASSUME OrderTyped, [OrderNext]_orderVars PROVE OrderTyped'
      OBVIOUS
    <2>1. ASSUME NEW version \in {0, 1}, NEW p \in Payloads, NewTransactionOrder(version, p)
          PROVE  OrderTyped'
      BY <2>1 DEF NewTransactionOrder, OrderTyped
    <2>2. ASSUME NEW p \in Payloads, SetAttributes(p) PROVE OrderTyped'
      BY <2>2 DEF SetAttributes, OrderTyped
    <2>3. ASSUME NEW purpose \in Purposes, Sign(purpose) PROVE OrderTyped'
      <3>1. /\ order # None
            /\ \E proof : \/ \E kind \in {Rollback, Execute} :
                                order' = AddStateUnlockProof(order, kind, proof)
                          \/ order' = SetAuthProof(order, proof)
                          \/ order' = [order EXCEPT !.fee = proof]
        BY <2>3 DEF Sign
      <3> QED BY <3>1 DEF OrderTyped, AddStateUnlockProof, SetAuthProof
    <2>4. CASE UNCHANGED orderVars
      BY <2>4 DEF orderVars, OrderTyped
    <2> QED BY <2>1, <2>2, <2>3, <2>4 DEF OrderNext
  <1> QED BY <1>1, <1>2, PTL DEF OrderSpec

(***************************************************************************)
(* An order signed as it is verifies where it was made, and after encoding *)
(* if and only if its version was set before.                              *)
(***************************************************************************)
THEOREM SentIsAuthorisedHolds == OrderSpec => []SentIsAuthorised
  <1>1. SignedSound /\ OrderTyped => SentIsAuthorised
    <2> SUFFICES ASSUME SignedSound, OrderTyped, order # None, InOrder(order)
                 PROVE  LET decoded == MarshalCBOR(order)
                        IN  /\ Authorised(order)
                            /\ Authorised(decoded) <=> order.version = 1
                            /\ Decodable(decoded) /\ Hash(decoded) = Hash(order)
      BY DEF SentIsAuthorised
    <2> DEFINE decoded == MarshalCBOR(order)
    <2>1. /\ decoded.version = 1 /\ decoded.payload = order.payload
          /\ decoded.unlock = order.unlock /\ decoded.auth = order.auth
          /\ decoded.fee = order.fee
          /\ order.version = 1 => decoded = order
          /\ MarshalCBOR(decoded) = decoded
      BY DEF OrderTyped, MarshalCBOR, GetVersion
    <2>2. Decodable(decoded) /\ Hash(decoded) = Hash(order)
      BY <2>1 DEF Decodable, GetVersion, Hash
    <2>3. /\ order.unlock # None => Verifies("unlock", order.unlock[2], order)
          /\ Verifies("auth", order.auth, order)
          /\ Verifies("fee", order.fee, order)
      BY DEF InOrder, SignedSound, Verifies, SigBytes, StateLockProofSigBytes,
             AuthProofSigBytes, FeeProofSigBytes
    <2>4. Authorised(order)
      BY <2>3 DEF OrderTyped, Authorised, Decodable, GetVersion
    <2>5. ASSUME Authorised(decoded) PROVE order.version = 1
      <3>1. Verifies("auth", order.auth, decoded)
        BY <2>1, <2>5 DEF Authorised
      <3>2. AuthProofSigBytes(decoded) = AuthProofSigBytes(order)
        BY <3>1, <2>3 DEF Verifies, SigBytes
      <3> QED BY <3>2, <2>1 DEF AuthProofSigBytes
    <2> QED BY <2>1, <2>2, <2>4, <2>5
  <1> QED BY <1>1, SignaturesSound, OrderTypedHolds, PTL

-------------------------------------------------------------------------------
\* The metadata of a transaction that has added a state, and of one that has not.
Successful(sm) ==
    /\ sm \in ServerMetadata
    /\ sm.status = TxStatusSuccessful /\ sm.targets = {Unit} /\ sm.errDetail = Nil

Failed(sm, error) ==
    /\ sm \in ServerMetadata
    /\ sm.status = IF error = "out_of_gas" THEN TxErrOutOfGas ELSE TxStatusFailed
    /\ sm.targets = {} /\ sm.errDetail \in {error, Nil}

\* A record of either, with what happened.
Told(r) ==
    \/ \E sm, changed : /\ Successful(sm) /\ changed = TRUE
                         /\ r = [meta |-> sm, changed |-> changed, error |-> Nil]
    \/ \E sm, changed : \E error \in Errors :
          /\ Failed(sm, error) /\ changed = FALSE
          /\ r = [meta |-> sm, changed |-> changed, error |-> error]

\* States and records are sequences, and every record tells what happened.
ExecTyped ==
    /\ IsSequence(states)
    /\ IsSequence(records)
    /\ work # Nil => meta = Started
    /\ \A i \in DOMAIN records : Told(records[i])

\* What SetError and decoding leave in metadata (SetError, ServerMetadata).
LEMMA MetadataFields ==
    /\ Successful(Started)
    /\ \A error \in Errors : Failed(SetError(Started, error), error)
    /\ \A sm \in ServerMetadata :
         /\ DecodedMetadata(sm) \in ServerMetadata
         /\ DecodedMetadata(sm).status = sm.status
         /\ DecodedMetadata(sm).targets = sm.targets
         /\ DecodedMetadata(sm).fee = 1
         /\ DecodedMetadata(sm).errDetail = Nil
  BY DEF Started, ServerMetadata, DecodedMetadata, SetError, Errors, Successful, Failed

\* Every record written tells what happened, as it was written and as it is decoded.
LEMMA ExecTypedHolds == ExecSpec => []ExecTyped
  <1>1. ExecInit => ExecTyped
    BY NoSequence DEF ExecInit, ExecTyped
  <1>2. ExecTyped /\ [ExecNext]_execVars => ExecTyped'
    <2> SUFFICES ASSUME ExecTyped, [ExecNext]_execVars PROVE ExecTyped'
      OBVIOUS
    <2> USE DEF ExecTyped
    <2>1. CASE Create
      BY <2>1 DEF Create
    <2>2. CASE Begin
      BY <2>2 DEF Begin
    <2>3. CASE Edit
      BY <2>3 DEF Edit
    <2>4. CASE Succeed
      <3>1. work # Nil /\ meta = Started
        BY <2>4 DEF Succeed
      <3>2. IsSequence(states') /\ (states' # states) = TRUE
        BY <2>4, AppendToSequence DEF Succeed
      <3> DEFINE r == [meta |-> Started, changed |-> TRUE, error |-> Nil]
      <3>3. records' = Append(records, r) /\ work' = Nil
        BY <2>4, <3>1, <3>2 DEF Succeed, Finish
      <3>4. Told(r)
        BY MetadataFields DEF Told
      <3> HIDE DEF r
      <3>5. \A i \in 1..(Len(records) + 1) : i \in 1..Len(records) \/ i = Len(records) + 1
        BY AppendToSequence
      <3> QED BY <3>2, <3>3, <3>4, <3>5, AppendToSequence
    <2>5. CASE Fail
      <3>1. PICK error \in Errors : states' = states /\ Finish(SetError(meta, error), error)
        BY <2>5 DEF Fail
      <3> DEFINE r == [meta |-> SetError(Started, error), changed |-> FALSE, error |-> error]
      <3>3. meta = Started /\ (states' # states) = FALSE
        BY <2>5, <3>1 DEF Fail
      <3>2. records' = Append(records, r) /\ work' = Nil
        BY <3>1, <3>3 DEF Finish
      <3>4. Told(r)
        BY MetadataFields DEF Told
      <3> HIDE DEF r
      <3>5. \A i \in 1..(Len(records) + 1) : i \in 1..Len(records) \/ i = Len(records) + 1
        BY AppendToSequence
      <3> QED BY <3>1, <3>2, <3>4, <3>5, AppendToSequence
    <2>6. CASE Restart
      <3>1. IsSequence(states')
        BY <2>6, MappedSequence DEF Restart
      <3>2. records' = [i \in DOMAIN records |->
                          [records[i] EXCEPT !.meta = DecodedMetadata(@)]]
        BY <2>6 DEF Restart
      <3>3. IsSequence(records')
        BY <3>2, MappedSequence
      <3>4. ASSUME NEW i \in DOMAIN records PROVE Told(records'[i])
        <4>1. Told(records[i])
          OBVIOUS
        <4>2. records'[i] = [records[i] EXCEPT !.meta = DecodedMetadata(@)]
          BY <3>2
        <4>3. ASSUME NEW sm, NEW changed, Successful(sm), changed = TRUE,
                     records[i] = [meta |-> sm, changed |-> changed, error |-> Nil]
              PROVE  Told(records'[i])
          <5>1. records'[i] = [meta |-> DecodedMetadata(sm), changed |-> changed, error |-> Nil]
            <6>1. records[i] = [meta |-> sm, changed |-> changed, error |-> Nil]
              BY <4>3, Zenon
            <6> QED BY ONLY <4>2, <6>1
          <5>2. Successful(DecodedMetadata(sm))
            BY <4>3, MetadataFields DEF Successful
          <5> QED BY <4>3, <5>1, <5>2 DEF Told
        <4>4. ASSUME NEW sm, NEW changed, NEW error \in Errors, Failed(sm, error),
                     changed = FALSE,
                     records[i] = [meta |-> sm, changed |-> changed, error |-> error]
              PROVE  Told(records'[i])
          <5>1. records'[i] = [meta |-> DecodedMetadata(sm), changed |-> changed, error |-> error]
            BY <4>2, <4>4
          <5>2. Failed(DecodedMetadata(sm), error)
            BY <4>4, MetadataFields DEF Failed
          <5> QED BY <4>4, <5>1, <5>2 DEF Told
        <4> QED BY <4>1, <4>3, <4>4 DEF Told
      <3>5. work' = Nil /\ DOMAIN records' = DOMAIN records
        BY <2>6, <3>2 DEF Restart
      <3> QED BY <3>1, <3>3, <3>4, <3>5
    <2>7. CASE UNCHANGED execVars
      BY <2>7 DEF execVars
    <2> QED BY <2>1, <2>2, <2>3, <2>4, <2>5, <2>6, <2>7 DEF ExecNext
  <1> QED BY <1>1, <1>2, PTL DEF ExecSpec

(***************************************************************************)
(* A record is successful and lists the unit if and only if a state was    *)
(* added, charges the fee in any case, and tells running out of gas apart, *)
(* before and after encoding (SetError, TxStatus, IsSuccessful).           *)
(***************************************************************************)
THEOREM OutcomeToldHolds == ExecSpec => []OutcomeTold
  <1> DEFINE P(r) == LET sm == DecodedMetadata(r.meta)
                     IN  /\ IsSuccessful(sm) <=> r.changed
                         /\ sm.targets = IF r.changed THEN {Unit} ELSE {}
                         /\ TxStatus(sm) = TxErrOutOfGas <=> r.error = "out_of_gas"
                         /\ sm.fee = 1
                         /\ r.meta.errDetail \in {r.error, Nil}
  <1>1. ASSUME NEW r, Told(r) PROVE P(r)
    <2>1. ASSUME NEW sm \in ServerMetadata PROVE TxStatus(DecodedMetadata(sm)) = sm.status
      BY MetadataFields, ExecAssumption DEF TxStatus
    <2>2. ASSUME NEW sm, NEW changed, Successful(sm), changed = TRUE,
                 r = [meta |-> sm, changed |-> changed, error |-> Nil]
          PROVE  P(r)
      <3>1. r.meta = sm /\ r.changed = changed /\ r.error = Nil
        BY <2>2
      <3>2. IsSuccessful(DecodedMetadata(sm)) /\ TxStatus(DecodedMetadata(sm)) # TxErrOutOfGas
        <4>1. Successful(sm)
          BY <2>2, Zenon
        <4> QED BY ONLY <2>1, <4>1 DEF Successful, IsSuccessful, TxErrOutOfGas, TxStatusSuccessful
      <3>3. /\ DecodedMetadata(sm).targets = {Unit} /\ DecodedMetadata(sm).fee = 1
            /\ sm.errDetail \in {Nil} /\ Nil # "out_of_gas"
        BY <2>2, MetadataFields, ExecAssumption DEF Successful, Errors
      <3> QED BY <2>2, <3>1, <3>2, <3>3, Zenon
    <2>3. ASSUME NEW sm, NEW changed, NEW error \in Errors, Failed(sm, error),
                 changed = FALSE, r = [meta |-> sm, changed |-> changed, error |-> error]
          PROVE  P(r)
      <3>1. r.meta = sm /\ r.changed = changed /\ r.error = error
        BY <2>3
      <3>2. /\ ~IsSuccessful(DecodedMetadata(sm))
            /\ TxStatus(DecodedMetadata(sm)) = TxErrOutOfGas <=> error = "out_of_gas"
        <4>1. Failed(sm, error)
          BY <2>3, Zenon
        <4> QED BY ONLY <2>1, <4>1
           DEF Failed, IsSuccessful, TxErrOutOfGas, TxStatusFailed, TxStatusSuccessful
      <3>3. /\ DecodedMetadata(sm).targets = {} /\ DecodedMetadata(sm).fee = 1
            /\ sm.errDetail \in {error, Nil}
        BY <2>3, MetadataFields DEF Failed
      <3> QED BY <2>3, <3>1, <3>2, <3>3, Zenon
    <2> QED BY <1>1, <2>2, <2>3 DEF Told
  <1> HIDE DEF P
  <1>2. ExecTyped => \A r \in Range(records) : P(r)
    BY <1>1 DEF ExecTyped, Range
  <1>3. ExecTyped => OutcomeTold
    BY <1>2 DEF OutcomeTold, P
  <1> QED BY <1>3, ExecTypedHolds, PTL

-------------------------------------------------------------------------------
\* An address that was given out.
Allocated(a, m) == \E i \in 1..(m - 1), f \in SliceFields : a = <<i, f>>

\* Well formed unit data: each slice is nil or an address of its field that
\* holds something.
UnitTyped(unit, h) ==
    /\ unit = [kind |-> unit.kind, version |-> unit.version,
               slices |-> unit.slices, scalars |-> unit.scalars]
    /\ unit.kind \in Kinds
    /\ unit.version \in {0, 1}
    /\ unit.slices = [f \in SlicesOf(unit.kind) |-> unit.slices[f]]
    /\ \A f \in SlicesOf(unit.kind) : unit.slices[f] # Nil =>
         /\ unit.slices[f] \in DOMAIN h
         /\ \E i \in Nat : unit.slices[f] = <<i, f>>
    /\ unit.scalars = [f \in Scalars(unit.kind) |-> unit.scalars[f]]

\* No slice of one shares its address with one of the other.
Apart(unit, other) ==
    \A f \in DOMAIN unit.slices, g \in DOMAIN other.slices :
        unit.slices[f] = other.slices[g] => unit.slices[f] = Nil

\* Memory in which allocations below m were made.
HeapTyped(h, m) ==
    /\ m \in Nat \ {0}
    /\ h \in [DOMAIN h -> Nat]
    /\ \A a \in DOMAIN h : Allocated(a, m)

\* A state of the unit with the hash and the value of its data.
StateKept(s, h) ==
    /\ s = [data |-> s.data, hash |-> s.hash, value |-> s.value]
    /\ UnitTyped(s.data, h)
    /\ HashUnit(s.data, h) = s.hash
    /\ SummaryValueInput(s.data) = s.value

\* g has everything h has, and perhaps more.
Extends(g, h) == \A a \in DOMAIN h : a \in DOMAIN g /\ g[a] = h[a]

\* The inductive invariant: the work shares no address with any state.
KeptInv ==
    /\ IsSequence(states)
    /\ HeapTyped(heap, fresh)
    /\ edits \in Nat
    /\ \A i \in DOMAIN states : StateKept(states[i], heap)
    /\ work # Nil => /\ UnitTyped(work, heap)
                     /\ \A i \in DOMAIN states : Apart(states[i].data, work)
    /\ states # << >> /\ work # Nil /\ edits = 0 => HashUnit(work, heap) = Last(states).hash

\* Every field is one that Copy copies.
LEMMA AllFieldsCopied == CopiedFields = Fields
  BY DEF CopiedFields, Fields, CopiedBillData, CopiedFeeCreditRecord, CopiedVarData,
         CopiedFungibleTokenTypeData, CopiedNonFungibleTokenTypeData, CopiedFungibleTokenData,
         CopiedNonFungibleTokenData, BillData, FeeCreditRecord, VarData,
         FungibleTokenTypeData, NonFungibleTokenTypeData, FungibleTokenData,
         NonFungibleTokenData

\* The slices of a unit are fields that can be written in place.
LEMMA FieldsOfUnits ==
    ASSUME NEW kind \in Kinds
    PROVE  /\ SlicesOf(kind) \subseteq SliceFields
           /\ SlicesOf(kind) \subseteq Fields[kind]
           /\ Scalars(kind) \subseteq Fields[kind]
  BY DEF SlicesOf, Scalars

\* The hash depends on the contents of the addresses of the unit only.
LEMMA HashFrame ==
    ASSUME NEW unit, NEW h, NEW g, UnitTyped(unit, h),
           \A f \in DOMAIN unit.slices : unit.slices[f] # Nil =>
               /\ unit.slices[f] \in DOMAIN g
               /\ g[unit.slices[f]] = h[unit.slices[f]]
    PROVE  UnitTyped(unit, g) /\ HashUnit(unit, g) = HashUnit(unit, h)
  <1>1. UnitTyped(unit, g)
    BY DEF UnitTyped
  <1>2. [f \in DOMAIN unit.slices |->
            IF unit.slices[f] = Nil THEN Nil ELSE g[unit.slices[f]]]
        = [f \in DOMAIN unit.slices |->
            IF unit.slices[f] = Nil THEN Nil ELSE h[unit.slices[f]]]
    OBVIOUS
  <1> QED BY <1>1, <1>2 DEF HashUnit, MarshalUnit

\* A copy has slices of its own with the contents of the original's.
LEMMA CopyKept ==
    ASSUME NEW unit, NEW h, NEW m, HeapTyped(h, m), UnitTyped(unit, h)
    PROVE  /\ HeapTyped(Allocate(h, unit, m), m + 1)
           /\ Extends(Allocate(h, unit, m), h)
           /\ UnitTyped(Copy(unit, m), Allocate(h, unit, m))
           /\ HashUnit(Copy(unit, m), Allocate(h, unit, m)) = HashUnit(unit, h)
           /\ \A f \in DOMAIN Copy(unit, m).slices :
                Copy(unit, m).slices[f] \in {Nil, <<m, f>>}
  <1> DEFINE copied == {f \in DOMAIN unit.slices : unit.slices[f] # Nil}
             new == {<<m, f>> : f \in copied}
             g == Allocate(h, unit, m)
             c == Copy(unit, m)
  <1>1. /\ DOMAIN unit.slices = SlicesOf(unit.kind) /\ unit.kind \in Kinds
        /\ SlicesOf(unit.kind) \subseteq SliceFields
        /\ m \in Nat /\ m # 0
    BY FieldsOfUnits DEF UnitTyped, HeapTyped
  <1>2. \A f \in SliceFields : <<m, f>> \notin DOMAIN h /\ <<m, f>> # Nil
    BY <1>1, NilAssumption DEF HeapTyped, Allocated
  <1>3. g = [a \in new \cup DOMAIN h |-> IF a \in new THEN h[unit.slices[a[2]]] ELSE h[a]]
    BY DEF Allocate
  <1>4. \A f \in copied : <<m, f>> \in new /\ g[<<m, f>>] = h[unit.slices[f]]
    BY <1>3
  <1>5. Extends(g, h)
    BY <1>1, <1>2, <1>3 DEF Extends
  <1>6. HeapTyped(g, m + 1)
    <2>1. g \in [DOMAIN g -> Nat]
      BY <1>3, <1>1 DEF HeapTyped, UnitTyped
    <2>2. \A a \in DOMAIN g : Allocated(a, m + 1)
      <3>1. ASSUME NEW a \in DOMAIN h PROVE Allocated(a, m + 1)
        BY <1>1 DEF HeapTyped, Allocated
      <3>2. ASSUME NEW a \in new PROVE Allocated(a, m + 1)
        BY <1>1 DEF Allocated
      <3> QED BY <1>3, <3>1, <3>2
    <2> QED BY <1>1, <2>1, <2>2 DEF HeapTyped
  <1>7. /\ c.kind = unit.kind /\ c.version = 0
        /\ c.slices = [f \in SlicesOf(unit.kind) |->
                         IF unit.slices[f] = Nil THEN Nil ELSE <<m, f>>]
        /\ c.scalars = unit.scalars
        /\ c = [kind |-> c.kind, version |-> c.version, slices |-> c.slices,
                scalars |-> c.scalars]
    BY <1>1, AllFieldsCopied, FieldsOfUnits DEF Copy, Addresses, UnitTyped
  <1> HIDE DEF g, c
  <1>8. UnitTyped(c, g)
    BY <1>1, <1>2, <1>3, <1>4, <1>7 DEF UnitTyped
  <1>9. HashUnit(c, g) = HashUnit(unit, h)
    <2>1. [f \in DOMAIN c.slices |-> IF c.slices[f] = Nil THEN Nil ELSE g[c.slices[f]]]
          = [f \in DOMAIN unit.slices |->
               IF unit.slices[f] = Nil THEN Nil ELSE h[unit.slices[f]]]
      BY <1>1, <1>2, <1>4, <1>7
    <2>2. GetUnitVersion(c) = 1 /\ GetUnitVersion(unit) = 1
      BY <1>7 DEF GetUnitVersion, UnitTyped
    <2> QED BY <1>7, <2>1, <2>2 DEF HashUnit, MarshalUnit
  <1> QED BY <1>5, <1>6, <1>7, <1>8, <1>9 DEF g, c

\* A state stays as it is when memory is added.
LEMMA KeptInLargerHeap ==
    ASSUME NEW s, NEW h, NEW g, StateKept(s, h), Extends(g, h)
    PROVE  StateKept(s, g)
  <1>1. UnitTyped(s.data, g) /\ HashUnit(s.data, g) = HashUnit(s.data, h)
    BY HashFrame DEF StateKept, Extends, UnitTyped
  <1> QED BY <1>1 DEF StateKept

\* The next allocation is of new addresses.
LEMMA AllocatedOnce ==
    ASSUME NEW h, NEW m, HeapTyped(h, m), NEW unit, UnitTyped(unit, h), NEW other,
           \A g \in DOMAIN other.slices :
               \/ other.slices[g] = Nil
               \/ other.slices[g] = <<m, g>>
    PROVE  Apart(unit, other)
  <1> SUFFICES ASSUME NEW f \in DOMAIN unit.slices, NEW g \in DOMAIN other.slices,
                      unit.slices[f] = other.slices[g], unit.slices[f] # Nil
               PROVE  FALSE
    BY DEF Apart
  <1>1. Allocated(unit.slices[f], m) /\ m \in Nat
    BY DEF UnitTyped, HeapTyped
  <1>2. PICK i \in 1..(m - 1), e \in SliceFields : unit.slices[f] = <<i, e>>
    BY <1>1 DEF Allocated
  <1>3. <<i, e>> = <<m, g>>
    BY <1>2
  <1> QED BY <1>1, <1>2, <1>3

\* Nothing is kept at first.
LEMMA KeptInit == ExecInit => KeptInv
  <1> SUFFICES ASSUME ExecInit PROVE KeptInv
    OBVIOUS
  <1>1. HeapTyped(heap, fresh)
    BY DEF ExecInit, HeapTyped
  <1> QED BY <1>1, NoSequence DEF ExecInit, KeptInv

\* The first unit has the addresses of its own allocation.
LEMMA KeptCreate == KeptInv /\ Create => KeptInv'
  <1> SUFFICES ASSUME KeptInv, Create PROVE KeptInv'
    OBVIOUS
  <1>0. PICK kind \in Kinds : \E present \in {SlicesOf(kind), {}} :
          /\ work' = NewUnitData(kind, fresh, present)
          /\ heap' = [a \in {<<fresh, f>> : f \in present} |-> 0]
    BY DEF Create
  <1>1. PICK present \in {SlicesOf(kind), {}} :
          /\ work' = NewUnitData(kind, fresh, present)
          /\ heap' = [a \in {<<fresh, f>> : f \in present} |-> 0]
    BY <1>0
  <1>2. /\ states = << >> /\ states' = states /\ fresh' = fresh + 1 /\ edits' = 0
        /\ fresh \in Nat /\ fresh # 0
    BY DEF Create, KeptInv, HeapTyped
  <1>3. SlicesOf(kind) \subseteq SliceFields /\ present \subseteq SlicesOf(kind)
    BY FieldsOfUnits
  <1>4. HeapTyped(heap', fresh')
    <2>1. \A a \in DOMAIN heap' : Allocated(a, fresh + 1)
      BY <1>1, <1>2, <1>3 DEF Allocated
    <2> QED BY <1>1, <1>2, <2>1 DEF HeapTyped
  <1>5. UnitTyped(work', heap')
    <2>1. \A f \in present : <<fresh, f>> # Nil
      BY <1>2, <1>3, NilAssumption
    <2>2. /\ work'.kind = kind /\ work'.version = 1
          /\ work'.slices = [f \in SlicesOf(kind) |-> IF f \in present THEN <<fresh, f>> ELSE Nil]
          /\ work'.scalars = [f \in Scalars(kind) |-> IF f = "counter" THEN 0 ELSE 1]
          /\ work' = [kind |-> work'.kind, version |-> work'.version,
                      slices |-> work'.slices, scalars |-> work'.scalars]
      BY <1>1 DEF NewUnitData
    <2> QED BY <1>1, <1>2, <1>3, <2>1, <2>2 DEF UnitTyped
  <1> QED BY <1>2, <1>4, <1>5, NoSequence DEF KeptInv

\* The copy has addresses of its own, so the states keep theirs.
LEMMA KeptBegin == KeptInv /\ Begin => KeptInv'
  <1> SUFFICES ASSUME KeptInv, Begin PROVE KeptInv'
    OBVIOUS
  <1> DEFINE last == Last(states).data
  <1>1. /\ states # << >> /\ states' = states /\ fresh' = fresh + 1 /\ edits' = 0
        /\ work' = Copy(last, fresh) /\ heap' = Allocate(heap, last, fresh)
        /\ IsSequence(states) /\ HeapTyped(heap, fresh)
    BY DEF Begin, KeptInv
  <1>2. Len(states) \in DOMAIN states /\ Last(states) = states[Len(states)]
    <2>1. PICK S : states \in Seq(S)
      BY <1>1 DEF IsSequence
    <2>2. Len(states) \in Nat /\ DOMAIN states = 1..Len(states) /\ Len(states) # 0
      BY <1>1, <2>1, EmptySeq
    <2> QED BY <2>2 DEF Last
  <1>3. StateKept(Last(states), heap)
    BY <1>2 DEF KeptInv
  <1>4. UnitTyped(last, heap) /\ HashUnit(last, heap) = Last(states).hash
    BY <1>3 DEF StateKept
  <1> HIDE DEF last
  <1>5. /\ HeapTyped(heap', fresh') /\ Extends(heap', heap)
        /\ UnitTyped(work', heap')
        /\ HashUnit(work', heap') = Last(states).hash
        /\ \A f \in DOMAIN work'.slices : work'.slices[f] \in {Nil, <<fresh, f>>}
    BY <1>1, <1>4, CopyKept
  <1>6. ASSUME NEW i \in DOMAIN states
        PROVE  StateKept(states[i], heap') /\ Apart(states[i].data, work')
    <2>1. StateKept(states[i], heap)
      BY DEF KeptInv
    <2>2. UnitTyped(states[i].data, heap)
      BY <2>1 DEF StateKept
    <2> QED BY <1>1, <1>5, <2>1, <2>2, KeptInLargerHeap, AllocatedOnce
  <1> QED BY <1>1, <1>5, <1>6 DEF KeptInv

\* Whatever the edit does to the work, the states keep their contents.
LEMMA KeptEdit == KeptInv /\ Edit => KeptInv'
  <1> SUFFICES ASSUME KeptInv, Edit PROVE KeptInv'
    OBVIOUS
  <1>1. /\ work # Nil /\ states' = states /\ edits \in Nat /\ edits' = edits + 1
        /\ IsSequence(states) /\ HeapTyped(heap, fresh) /\ UnitTyped(work, heap)
        /\ \A i \in DOMAIN states : /\ StateKept(states[i], heap)
                                    /\ UnitTyped(states[i].data, heap)
                                    /\ Apart(states[i].data, work)
    BY DEF Edit, KeptInv, StateKept
  <1>2. /\ DOMAIN work.slices = SlicesOf(work.kind) /\ work.kind \in Kinds
        /\ SlicesOf(work.kind) \subseteq SliceFields /\ fresh \in Nat /\ fresh # 0
    BY <1>1, FieldsOfUnits DEF UnitTyped, HeapTyped
  <1>3. SUFFICES /\ HeapTyped(heap', fresh') /\ UnitTyped(work', heap')
                 /\ \A i \in DOMAIN states : /\ StateKept(states[i], heap')
                                             /\ Apart(states[i].data, work')
    BY <1>1 DEF KeptInv
  <1>4. CASE WriteInPlace
    <2>1. PICK a \in Range(work.slices) \ {Nil} : heap' = [heap EXCEPT ![a] = @ + 1]
      BY <1>4 DEF WriteInPlace
    <2>2. work' = work /\ fresh' = fresh
      BY <1>4 DEF WriteInPlace
    <2>3. PICK g \in DOMAIN work.slices : a = work.slices[g]
      BY <2>1 DEF Range
    <2>4. a \in DOMAIN heap /\ a # Nil
      BY <1>1, <1>2, <2>1, <2>3 DEF UnitTyped
    <2>5. DOMAIN heap' = DOMAIN heap /\ heap' \in [DOMAIN heap -> Nat]
      BY <1>1, <2>1, <2>4 DEF HeapTyped
    <2>6. HeapTyped(heap', fresh')
      BY <1>1, <2>2, <2>5 DEF HeapTyped
    <2>7. UnitTyped(work', heap')
      BY <1>1, <2>2, <2>5 DEF UnitTyped
    <2>8. ASSUME NEW i \in DOMAIN states PROVE StateKept(states[i], heap')
      <3> DEFINE data == states[i].data
      <3>1. \A f \in DOMAIN data.slices : data.slices[f] # Nil =>
              data.slices[f] \in DOMAIN heap /\ data.slices[f] # a
        BY <1>1, <2>3, <2>4 DEF Apart, UnitTyped
      <3>2. \A f \in DOMAIN data.slices : data.slices[f] # Nil =>
              data.slices[f] \in DOMAIN heap' /\ heap'[data.slices[f]] = heap[data.slices[f]]
        BY <1>1, <2>1, <2>5, <3>1 DEF HeapTyped
      <3>3. UnitTyped(data, heap') /\ HashUnit(data, heap') = HashUnit(data, heap)
        BY <1>1, <3>2, HashFrame
      <3> QED BY <1>1, <3>3 DEF StateKept
    <2> QED BY <1>1, <2>2, <2>6, <2>7, <2>8
  <1>5. CASE ReplaceSlice
    <2>1. PICK f \in DOMAIN work.slices :
            /\ work' = [work EXCEPT !.slices[f] = <<fresh, f>>]
            /\ heap' = [a \in {<<fresh, f>>} \cup DOMAIN heap |->
                         IF a # <<fresh, f>> THEN heap[a]
                         ELSE IF work.slices[f] = Nil THEN 0 ELSE heap[work.slices[f]] + 1]
      BY <1>5 DEF ReplaceSlice
    <2>2. fresh' = fresh + 1
      BY <1>5 DEF ReplaceSlice
    <2>3. <<fresh, f>> \notin DOMAIN heap /\ <<fresh, f>> # Nil
      BY <1>1, <1>2, NilAssumption DEF HeapTyped, Allocated
    <2>4. Extends(heap', heap)
      BY <2>1, <2>3 DEF Extends
    <2>5. HeapTyped(heap', fresh')
      <3>1. work.slices[f] # Nil => work.slices[f] \in DOMAIN heap
        BY <1>1, <1>2 DEF UnitTyped
      <3>2. heap' \in [DOMAIN heap' -> Nat]
        BY <1>1, <2>1, <3>1 DEF HeapTyped
      <3>3. ASSUME NEW a \in DOMAIN heap' PROVE Allocated(a, fresh + 1)
        <4>1. CASE a = <<fresh, f>>
          BY <1>2, <4>1 DEF Allocated
        <4>2. CASE a \in DOMAIN heap
          BY <1>1, <1>2, <4>2 DEF HeapTyped, Allocated
        <4> QED BY <2>1, <4>1, <4>2
      <3> QED BY <1>2, <2>2, <3>2, <3>3 DEF HeapTyped
    <2>6. /\ work'.kind = work.kind /\ work'.version = work.version
          /\ work'.scalars = work.scalars
          /\ work'.slices = [work.slices EXCEPT ![f] = <<fresh, f>>]
          /\ work' = [kind |-> work'.kind, version |-> work'.version,
                      slices |-> work'.slices, scalars |-> work'.scalars]
      BY <1>1, <2>1 DEF UnitTyped
    <2>7. \A g \in SlicesOf(work.kind) :
            work'.slices[g] = IF g = f THEN <<fresh, f>> ELSE work.slices[g]
      BY <1>2, <2>6
    <2>8. UnitTyped(work', heap')
      BY <1>1, <1>2, <2>1, <2>4, <2>6, <2>7 DEF UnitTyped, Extends
    <2>9. ASSUME NEW i \in DOMAIN states
          PROVE  StateKept(states[i], heap') /\ Apart(states[i].data, work')
      <3>1. StateKept(states[i], heap')
        BY <1>1, <2>4, KeptInLargerHeap
      <3>2. \A g \in DOMAIN states[i].data.slices : states[i].data.slices[g] # <<fresh, f>>
        <4>1. UnitTyped(states[i].data, heap)
          BY <1>1
        <4> QED BY <2>3, <4>1 DEF UnitTyped
      <3>3. DOMAIN work'.slices = DOMAIN work.slices
        BY <2>6
      <3> QED BY <1>1, <1>2, <2>7, <3>1, <3>2, <3>3 DEF Apart
    <2> QED BY <2>5, <2>8, <2>9
  <1>6. CASE SetScalar
    <2>1. PICK f \in DOMAIN work.scalars : work' = [work EXCEPT !.scalars[f] = @ + 1]
      BY <1>6 DEF SetScalar
    <2>2. heap' = heap /\ fresh' = fresh
      BY <1>6 DEF SetScalar
    <2>3. /\ work'.kind = work.kind /\ work'.version = work.version
          /\ work'.slices = work.slices
          /\ work'.scalars = [work.scalars EXCEPT ![f] = @ + 1]
          /\ work' = [kind |-> work'.kind, version |-> work'.version,
                      slices |-> work'.slices, scalars |-> work'.scalars]
      BY <1>1, <2>1 DEF UnitTyped
    <2>4. UnitTyped(work', heap')
      BY <1>1, <2>2, <2>3 DEF UnitTyped
    <2> QED BY <1>1, <2>2, <2>3, <2>4 DEF Apart
  <1> QED BY <1>4, <1>5, <1>6 DEF Edit

\* The work becomes a state with the hash it has.
LEMMA KeptSucceed == KeptInv /\ Succeed => KeptInv'
  <1> SUFFICES ASSUME KeptInv, Succeed PROVE KeptInv'
    OBVIOUS
  <1> DEFINE new == [data |-> work, hash |-> HashUnit(work, heap),
                     value |-> SummaryValueInput(work)]
  <1>1. /\ states' = Append(states, new) /\ work' = Nil /\ heap' = heap /\ fresh' = fresh
        /\ edits' = 0
    BY DEF Succeed, Finish
  <1>2. IsSequence(states) /\ HeapTyped(heap, fresh) /\ UnitTyped(work, heap)
    BY DEF Succeed, KeptInv
  <1>3. StateKept(new, heap)
    BY <1>2 DEF StateKept
  <1> HIDE DEF new
  <1>4. ASSUME NEW i \in DOMAIN states' PROVE StateKept(states'[i], heap)
    <2>1. i \in 1..Len(states) \/ i = Len(states) + 1
      BY <1>1, <1>2, AppendToSequence
    <2> QED BY <1>1, <1>2, <1>3, <2>1, AppendToSequence DEF KeptInv
  <1>5. IsSequence(states')
    BY <1>1, <1>2, AppendToSequence
  <1> QED BY <1>1, <1>2, <1>4, <1>5 DEF KeptInv

\* The work is dropped.
LEMMA KeptFail == KeptInv /\ Fail => KeptInv'
  BY DEF KeptInv, Fail, Finish

\* The fields of a unit that are not nil.
Present(unit) == {f \in SlicesOf(unit.kind) : unit.slices[f] # Nil}

\* Decoded data and contents, in allocation i, of the fields of a unit in h.
IsDecoded(data, contents, unit, i, h, present) ==
    /\ DOMAIN contents = {<<i, f>> : f \in present}
    /\ \A f \in present : contents[<<i, f>>] = h[unit.slices[f]]
    /\ data = [kind |-> unit.kind, version |-> 1,
               slices |-> [f \in SlicesOf(unit.kind) |-> IF f \in present THEN <<i, f>> ELSE Nil],
               scalars |-> unit.scalars]

\* What is decoded has the contents that were encoded, in memory of its own.
LEMMA DecodedUnit ==
    ASSUME NEW unit, NEW h, NEW m, HeapTyped(h, m), UnitTyped(unit, h), NEW i \in Nat,
           NEW bytes, bytes = MarshalUnit(unit, h),
           NEW present, present = Present(unit)
    PROVE  IsDecoded(UnmarshalUnit(bytes, i), Contents(bytes, i), unit, i, h, present)
  <1> DEFINE data == UnmarshalUnit(bytes, i)
  <1>1. DOMAIN unit.slices = SlicesOf(unit.kind)
    BY DEF UnitTyped
  <1>2. \A f \in present : h[unit.slices[f]] \in Nat /\ h[unit.slices[f]] # Nil
    BY NilAssumption DEF UnitTyped, HeapTyped, Present
  <1>3. GetUnitVersion(unit) = 1
    BY DEF UnitTyped, GetUnitVersion
  <1>4. bytes = [kind |-> unit.kind, version |-> 1,
                 slices |-> [f \in SlicesOf(unit.kind) |->
                               IF f \in present THEN h[unit.slices[f]] ELSE Nil],
                 scalars |-> unit.scalars]
    BY <1>1, <1>3 DEF MarshalUnit, Present
  <1>5. /\ DOMAIN bytes.slices = SlicesOf(unit.kind)
        /\ \A f \in SlicesOf(unit.kind) :
             bytes.slices[f] = IF f \in present THEN h[unit.slices[f]] ELSE Nil
        /\ present \subseteq SlicesOf(unit.kind)
    BY <1>4 DEF Present
  <1>6. {g \in DOMAIN bytes.slices : bytes.slices[g] # Nil} = present
    BY <1>2, <1>5
  <1>7. Contents(bytes, i) = [a \in {<<i, f>> : f \in present} |-> bytes.slices[a[2]]]
    BY <1>6 DEF Contents
  <1>8. [f \in DOMAIN bytes.slices |-> IF bytes.slices[f] = Nil THEN Nil ELSE <<i, f>>]
        = [f \in SlicesOf(unit.kind) |-> IF f \in present THEN <<i, f>> ELSE Nil]
    BY <1>2, <1>5
  <1>9. data = [bytes EXCEPT !.slices =
                  [f \in DOMAIN bytes.slices |->
                     IF bytes.slices[f] = Nil THEN Nil ELSE <<i, f>>]]
    BY DEF UnmarshalUnit
  <1>10. data = [bytes EXCEPT !.slices =
                   [f \in SlicesOf(unit.kind) |-> IF f \in present THEN <<i, f>> ELSE Nil]]
    BY <1>8, <1>9
  <1> HIDE DEF data
  <1>11. data = [kind |-> unit.kind, version |-> 1,
                 slices |-> [f \in SlicesOf(unit.kind) |->
                               IF f \in present THEN <<i, f>> ELSE Nil],
                 scalars |-> unit.scalars]
    BY ONLY <1>4, <1>10
  <1>12. \A f \in present : Contents(bytes, i)[<<i, f>>] = h[unit.slices[f]]
    BY <1>5, <1>7
  <1> QED BY <1>7, <1>11, <1>12 DEF data, IsDecoded

\* The decoded states have the hashes of the encoded ones.
LEMMA KeptRestart == KeptInv /\ Restart => KeptInv'
  <1> SUFFICES ASSUME KeptInv, Restart PROVE KeptInv'
    OBVIOUS
  <1> DEFINE bytes == [i \in DOMAIN states |-> MarshalUnit(states[i].data, heap)]
             fields == [i \in DOMAIN states |-> Present(states[i].data)]
  <1>1. /\ states' = [i \in DOMAIN states |->
                         [states[i] EXCEPT !.data = UnmarshalUnit(bytes[i], i)]]
        /\ heap' = [a \in UNION {DOMAIN Contents(bytes[i], i) : i \in DOMAIN bytes} |->
                       Contents(bytes[a[1]], a[1])[a]]
        /\ fresh' = Len(states) + 1 /\ work' = Nil /\ edits' = 0
    BY DEF Restart
  <1>2. IsSequence(states) /\ HeapTyped(heap, fresh)
    BY DEF KeptInv
  <1>3. /\ Len(states) \in Nat /\ DOMAIN states = 1..Len(states)
        /\ DOMAIN bytes = DOMAIN states
        /\ \A i \in DOMAIN states : /\ bytes[i] = MarshalUnit(states[i].data, heap)
                                    /\ fields[i] = Present(states[i].data)
    BY <1>2, AppendToSequence
  <1> HIDE DEF bytes, fields
  <1>4. ASSUME NEW i \in DOMAIN states
        PROVE  /\ StateKept(states[i], heap)
               /\ UnitTyped(states[i].data, heap)
               /\ fields[i] \subseteq SliceFields
               /\ \A f \in fields[i] : heap[states[i].data.slices[f]] \in Nat /\ <<i, f>> # Nil
    <2>1. StateKept(states[i], heap) /\ UnitTyped(states[i].data, heap)
      BY DEF KeptInv, StateKept
    <2>2. fields[i] \subseteq SliceFields
      BY <1>3, <2>1, FieldsOfUnits DEF UnitTyped, Present
    <2>3. \A f \in fields[i] : heap[states[i].data.slices[f]] \in Nat
      BY <1>2, <1>3, <2>1 DEF UnitTyped, HeapTyped, Present
    <2> QED BY <1>3, <2>1, <2>2, <2>3, NilAssumption
  <1>5. ASSUME NEW i \in DOMAIN states
        PROVE  /\ DOMAIN Contents(bytes[i], i) = {<<i, f>> : f \in fields[i]}
               /\ \A f \in fields[i] :
                    Contents(bytes[i], i)[<<i, f>>] = heap[states[i].data.slices[f]]
               /\ UnmarshalUnit(bytes[i], i) =
                    [kind |-> states[i].data.kind, version |-> 1,
                     slices |-> [f \in SlicesOf(states[i].data.kind) |->
                                   IF f \in fields[i] THEN <<i, f>> ELSE Nil],
                     scalars |-> states[i].data.scalars]
    <2>1. i \in Nat /\ UnitTyped(states[i].data, heap) /\ HeapTyped(heap, fresh)
      BY <1>2, <1>3, <1>4
    <2>2. bytes[i] = MarshalUnit(states[i].data, heap) /\ fields[i] = Present(states[i].data)
      BY <1>3
    <2> DEFINE unit == states[i].data
               code == bytes[i]
               present == fields[i]
    <2>3. /\ i \in Nat /\ UnitTyped(unit, heap) /\ HeapTyped(heap, fresh)
          /\ code = MarshalUnit(unit, heap) /\ present = Present(unit)
      BY <2>1, <2>2
    <2> HIDE DEF unit, code, present
    <2>4. IsDecoded(UnmarshalUnit(code, i), Contents(code, i), unit, i, heap, present)
      BY <2>3, DecodedUnit
    <2> QED BY <2>4 DEF unit, code, present, IsDecoded
  <1>6. ASSUME NEW a \in DOMAIN heap'
        PROVE  \E i \in DOMAIN states : \E f \in fields[i] : a = <<i, f>>
    <2>1. PICK i \in DOMAIN states : a \in DOMAIN Contents(bytes[i], i)
      BY <1>1, <1>3
    <2> QED BY <1>5, <2>1
  <1>7. ASSUME NEW i \in DOMAIN states, NEW f \in fields[i]
        PROVE  /\ <<i, f>> \in DOMAIN heap'
               /\ heap'[<<i, f>>] = heap[states[i].data.slices[f]]
    <2>1. <<i, f>> \in DOMAIN Contents(bytes[i], i)
      BY <1>5
    <2>2. <<i, f>> \in DOMAIN heap'
      BY <1>1, <1>3, <2>1
    <2>3. heap'[<<i, f>>] = Contents(bytes[i], i)[<<i, f>>]
      BY <1>1, <2>2
    <2> QED BY <1>5, <2>2, <2>3
  <1>8. HeapTyped(heap', fresh')
    <2>1. ASSUME NEW a \in DOMAIN heap' PROVE heap'[a] \in Nat /\ Allocated(a, fresh')
      <3>1. PICK i \in DOMAIN states : \E f \in fields[i] : a = <<i, f>>
        BY <1>6
      <3>2. PICK f \in fields[i] : a = <<i, f>>
        BY <3>1
      <3>3. i \in 1..(fresh' - 1) /\ f \in SliceFields
        BY <1>1, <1>3, <1>4
      <3> QED BY <1>4, <1>7, <3>2, <3>3 DEF Allocated
    <2>2. heap' \in [DOMAIN heap' -> Nat]
      <3>1. heap' = [a \in DOMAIN heap' |-> heap'[a]]
        BY <1>1
      <3> QED BY <2>1, <3>1
    <2>3. fresh' \in Nat \ {0}
      BY <1>1, <1>3
    <2> QED BY <2>1, <2>2, <2>3 DEF HeapTyped
  <1>9. ASSUME NEW i \in DOMAIN states PROVE StateKept(states'[i], heap')
    <2> DEFINE old == states[i].data
               data == UnmarshalUnit(bytes[i], i)
    <2>1. StateKept(states[i], heap) /\ UnitTyped(old, heap) /\ i \in Nat
      BY <1>3, <1>4
    <2>2. states'[i] = [data |-> data, hash |-> states[i].hash, value |-> states[i].value]
      BY <1>1, <2>1 DEF StateKept
    <2>3. data = [kind |-> old.kind, version |-> 1,
                  slices |-> [f \in SlicesOf(old.kind) |->
                                IF f \in fields[i] THEN <<i, f>> ELSE Nil],
                  scalars |-> old.scalars]
      BY <1>5
    <2>4. \A f \in SlicesOf(old.kind) : f \in fields[i] <=> old.slices[f] # Nil
      BY <1>3 DEF Present
    <2> HIDE DEF data
    <2>5. UnitTyped(data, heap')
      BY <1>7, <2>1, <2>3 DEF UnitTyped
    <2>6. HashUnit(data, heap') = HashUnit(old, heap)
      <3>1. [f \in DOMAIN data.slices |->
               IF data.slices[f] = Nil THEN Nil ELSE heap'[data.slices[f]]]
            = [f \in DOMAIN old.slices |->
                 IF old.slices[f] = Nil THEN Nil ELSE heap[old.slices[f]]]
        BY <1>4, <1>7, <2>1, <2>3, <2>4 DEF UnitTyped
      <3>2. GetUnitVersion(data) = 1 /\ GetUnitVersion(old) = 1
        BY <2>1, <2>3 DEF GetUnitVersion, UnitTyped
      <3> QED BY <2>3, <3>1, <3>2 DEF HashUnit, MarshalUnit
    <2>7. SummaryValueInput(data) = SummaryValueInput(old)
      BY <2>3 DEF SummaryValueInput
    <2> HIDE DEF old
    <2> QED BY <2>1, <2>2, <2>5, <2>6, <2>7 DEF StateKept, old
  <1>10. IsSequence(states') /\ DOMAIN states' = DOMAIN states
    BY <1>1, <1>2, MappedSequence
  <1> QED BY <1>1, <1>8, <1>9, <1>10 DEF KeptInv

(***************************************************************************)
(* The data of every state that was kept has the hash and the value it was *)
(* committed with, whatever is done to copies of it, and also after the    *)
(* node has started again from the encodings; and a copy that nobody has   *)
(* changed has the hash of its original (Copy, MarshalCBOR,                *)
(* UnmarshalCBOR).                                                         *)
(***************************************************************************)
THEOREM StatesKeptHolds == ExecSpec => []StatesKept
  <1>1. KeptInv /\ [ExecNext]_execVars => KeptInv'
    <2>1. KeptInv /\ UNCHANGED execVars => KeptInv'
      BY DEF KeptInv, execVars
    <2> QED BY <2>1, KeptCreate, KeptBegin, KeptEdit, KeptSucceed, KeptFail, KeptRestart
            DEF ExecNext
  <1>2. KeptInv => StatesKept
    <2> SUFFICES ASSUME KeptInv PROVE StatesKept
      OBVIOUS
    <2>1. \A s \in Range(states) :
            HashUnit(s.data, heap) = s.hash /\ SummaryValueInput(s.data) = s.value
      BY DEF KeptInv, StateKept, Range
    <2> QED BY <2>1 DEF KeptInv, StatesKept
  <1> QED BY <1>1, <1>2, KeptInit, PTL DEF ExecSpec

-------------------------------------------------------------------------------
(* Unit identifiers. *)

\* The recursion of TwoTo.
Powers(power, n) == power = [i \in 0..n |-> IF i = 0 THEN 1 ELSE 2 * power[i - 1]]

\* The powers of two are positive, and each is twice the one before it.
LEMMA TwoToIs ==
    /\ TwoTo(0) = 1
    /\ \A n \in Nat : TwoTo(n) \in Nat \ {0} /\ TwoTo(n + 1) = 2 * TwoTo(n)
  <1>1. \A n \in Nat : \E power : Powers(power, n)
    <2> DEFINE T == {n \in Nat : \E power : Powers(power, n)}
    <2>1. 0 \in T
      <3> DEFINE f == [i \in 0..0 |-> 1]
      <3>1. f = [i \in 0..0 |-> IF i = 0 THEN 1 ELSE 2 * f[i - 1]]
        OBVIOUS
      <3> HIDE DEF f
      <3> QED BY <3>1 DEF Powers
    <2>2. ASSUME NEW n \in T PROVE n + 1 \in T
      <3>1. PICK g : Powers(g, n)
        OBVIOUS
      <3> DEFINE f == [i \in 0..(n + 1) |-> IF i <= n THEN g[i] ELSE 2 * g[n]]
      <3>2. ASSUME NEW i \in 0..(n + 1)
            PROVE  f[i] = IF i = 0 THEN 1 ELSE 2 * f[i - 1]
        <4>1. i # 0 => i - 1 \in 0..(n + 1) /\ i - 1 <= n /\ i - 1 \in 0..n
          OBVIOUS
        <4>2. i # 0 => f[i - 1] = g[i - 1]
          BY <4>1
        <4>3. i <= n => g[i] = IF i = 0 THEN 1 ELSE 2 * g[i - 1]
          BY <3>1 DEF Powers
        <4>4. i <= n \/ (i = n + 1 /\ i - 1 = n)
          OBVIOUS
        <4> QED BY <4>2, <4>3, <4>4
      <3>3. f = [i \in 0..(n + 1) |-> IF i = 0 THEN 1 ELSE 2 * f[i - 1]]
        BY <3>2
      <3> HIDE DEF f
      <3> QED BY <3>3 DEF Powers
    <2>3. T = Nat
      <3> HIDE DEF T
      <3>1. T \in SUBSET Nat
        BY DEF T
      <3> QED BY <2>1, <2>2, <3>1, Induction
    <2> QED BY <2>3
  <1> DEFINE f(n) == CHOOSE power : Powers(power, n)
  <1>2. \A n \in Nat : Powers(f(n), n)
    BY <1>1
  <1>3. \A n \in Nat : TwoTo(n) = f(n)[n]
    BY DEF TwoTo, Powers
  <1> HIDE DEF f
  <1>4. TwoTo(0) = 1
    BY <1>2, <1>3 DEF Powers
  <1>5. \A n \in Nat : TwoTo(n) \in Nat \ {0} /\ f(n + 1)[n] = f(n)[n]
    <2> DEFINE P(k) == \A n \in Nat : k <= n => /\ f(n)[k] \in Nat \ {0}
                                               /\ f(n + 1)[k] = f(n)[k]
               T == {k \in Nat : P(k)}
    <2>1. 0 \in T
      <3>1. \A n \in Nat : f(n)[0] = 1
        BY <1>2 DEF Powers
      <3> QED BY <3>1
    <2>2. ASSUME NEW k \in T PROVE k + 1 \in T
      <3> SUFFICES ASSUME NEW n \in Nat, k + 1 <= n
                   PROVE  f(n)[k + 1] \in Nat \ {0} /\ f(n + 1)[k + 1] = f(n)[k + 1]
        OBVIOUS
      <3>1. k \in Nat /\ k <= n /\ f(n)[k] \in Nat \ {0} /\ f(n + 1)[k] = f(n)[k]
        OBVIOUS
      <3>2. \A m \in Nat : k + 1 <= m => f(m)[k + 1] = 2 * f(m)[k]
        <4> SUFFICES ASSUME NEW m \in Nat, k + 1 <= m PROVE f(m)[k + 1] = 2 * f(m)[k]
          OBVIOUS
        <4>1. k + 1 \in 0..m /\ k + 1 # 0 /\ (k + 1) - 1 = k
          BY <3>1
        <4> QED BY <1>2, <4>1 DEF Powers
      <3>3. n + 1 \in Nat /\ k + 1 <= n + 1
        BY <3>1
      <3> QED BY <3>1, <3>2, <3>3
    <2>3. T = Nat
      <3> HIDE DEF T
      <3>1. T \in SUBSET Nat
        BY DEF T
      <3> QED BY <2>1, <2>2, <3>1, Induction
    <2>4. ASSUME NEW n \in Nat PROVE P(n)
      <3>1. n \in T
        <4> HIDE DEF T
        <4> QED BY <2>3
      <3> QED BY ONLY <3>1
    <2>5. \A n \in Nat : f(n)[n] \in Nat \ {0} /\ f(n + 1)[n] = f(n)[n]
      <3> SUFFICES ASSUME NEW n \in Nat PROVE f(n)[n] \in Nat \ {0} /\ f(n + 1)[n] = f(n)[n]
        OBVIOUS
      <3>1. n <= n
        OBVIOUS
      <3> QED BY <2>4, <3>1
    <2> QED BY <1>3, <2>5
  <1>6. \A n \in Nat : f(n + 1)[n + 1] = 2 * f(n + 1)[n]
    <2> SUFFICES ASSUME NEW n \in Nat PROVE f(n + 1)[n + 1] = 2 * f(n + 1)[n]
      OBVIOUS
    <2>1. n + 1 \in 0..(n + 1) /\ n + 1 # 0 /\ (n + 1) - 1 = n /\ n + 1 \in Nat
      OBVIOUS
    <2> QED BY <1>2, <2>1 DEF Powers
  <1>7. \A n \in Nat : n + 1 \in Nat
    OBVIOUS
  <1> QED BY <1>3, <1>4, <1>5, <1>6, <1>7

\* Dividing by twice a number is dividing by it and halving.
LEMMA HalfOfQuotient ==
    ASSUME NEW x \in Nat, NEW q \in Nat \ {0}
    PROVE  /\ x \div q \in Nat
           /\ x \div q = 2 * (x \div (2 * q)) + ((x \div q) % 2)
           /\ (x \div q) % 2 \in Bit
  <1> DEFINE a == x \div q
             p == 2 * q
             b == x \div p
  <1>1. a \in Nat /\ q * a <= x /\ x < q * a + q
    OBVIOUS
  <1>2. p \in Nat \ {0}
    OBVIOUS
  <1>3. b \in Nat /\ p * b <= x /\ x < p * b + p
    <2> HIDE DEF p
    <2> QED BY <1>2
  <1>4. p * b = q * (2 * b) /\ p * b + p = q * (2 * b + 2) /\ q * a + q = q * (a + 1)
    <2> HIDE DEF a, b
    <2> QED BY <1>1, <1>3
  <1> HIDE DEF a, b, p
  <1>5. \A m, n \in Nat : q * m < q * n => m < n
    <2> SUFFICES ASSUME NEW m \in Nat, NEW n \in Nat, n <= m PROVE q * n <= q * m
      OBVIOUS
    <2>1. PICK d \in Nat : m = n + d
      <3>1. m - n \in Nat /\ m = n + (m - n)
        OBVIOUS
      <3> QED BY <3>1
    <2>2. q * m = q * n + q * d /\ q * d \in Nat /\ q * n \in Nat
      BY <2>1
    <2> QED BY <2>2
  <1>6. q * (2 * b) < q * (a + 1) /\ q * a < q * (2 * b + 2)
    <2> DEFINE u == q * (2 * b)
               v == q * (a + 1)
               w == q * a
               z == q * (2 * b + 2)
    <2>1. u \in Int /\ v \in Int /\ w \in Int /\ z \in Int
      BY <1>1, <1>3
    <2>2. u <= x /\ x < z /\ w <= x /\ x < v
      BY <1>1, <1>3, <1>4
    <2> HIDE DEF u, v, w, z
    <2>3. u < v /\ w < z
      BY <2>1, <2>2
    <2> QED BY <2>3 DEF u, v, w, z
  <1>7. 2 * b < a + 1 /\ a < 2 * b + 2
    BY <1>1, <1>3, <1>5, <1>6
  <1>8. a = 2 * b + (a % 2) /\ a % 2 \in Bit
    <2>1. a = 2 * b \/ a = 2 * b + 1
      BY <1>1, <1>3, <1>7
    <2> QED BY <1>3, <2>1 DEF Bit
  <1> QED BY <1>1, <1>8 DEF a, b, p

\* No shard of the scheme is a part of another.
LEMMA ShardsApart ==
    ASSUME NEW a \in Scheme, NEW b \in Scheme, IsPrefixOf(Used(a), Used(b))
    PROVE  a = b
  <1>1. CASE Scheme = {EmptyID}
    BY <1>1
  <1>2. CASE \E sh \in [1..Cardinality(Scheme) -> Scheme] : IsValidScheme(sh) /\ Scheme = All(sh)
    <2> DEFINE n == Cardinality(Scheme)
    <2>1. n \in Nat
      BY SchemeAssumption, FS_CardinalityType
    <2> HIDE DEF n
    <2>2. PICK sh \in [1..n -> Scheme] : IsValidScheme(sh) /\ Scheme = All(sh)
      BY <1>2 DEF n
    <2>3. Scheme \subseteq Identifiers
      BY SchemeAssumption DEF Identifiers
    <2>4. sh \in Seq(Identifiers) /\ Len(sh) = n
      BY <2>1, <2>3
    <2>5. CASE sh = << >>
      <3>1. Scheme = {EmptyID}
        BY <2>2, <2>5 DEF All
      <3> QED BY <3>1
    <2>6. CASE sh # << >>
      <3> DEFINE o == SortedIDs(sh)
      <3>1. PrefixFree(o)
        BY <2>2 DEF IsValidScheme
      <3> HIDE DEF o
      <3>2. /\ o \in Seq(Identifiers) /\ Len(o) = n
            /\ \A i, j \in 1..Len(o) : i < j => NotAfter(o[i], o[j])
            /\ Rearranged(sh, o)
        BY <2>4, SortedIDsIs DEF o
      <3>3. NoPrefixes(o)
        BY <3>1, <3>2, PrefixFreeIs DEF InIDOrder
      <3>4. ASSUME NEW c \in Scheme PROVE \E k \in 1..n : o[k] = c
        <4>1. PICK i \in 1..n : sh[i] = c
          <5>1. DOMAIN sh = 1..n
            OBVIOUS
          <5> QED BY <2>2, <2>6, <5>1 DEF All
        <4> QED BY <2>4, <3>2, <4>1 DEF Rearranged
      <3>5. PICK k \in 1..n, m \in 1..n : o[k] = a /\ o[m] = b
        BY <3>4
      <3> QED BY <3>2, <3>3, <3>5 DEF NoPrefixes
    <2> QED BY <2>5, <2>6
  <1> QED BY <1>1, <1>2, SchemeAssumption

\* What is read from the bits of a number is the number.
LEMMA NumberIs ==
    ASSUME NEW b \in Nat, NEW x \in Nat, x < TwoTo(b), NEW bits, Len(bits) = b,
           \A i \in 1..b : bits[i] = (x \div TwoTo(b - i)) % 2
    PROVE  Number(bits) = x
  <1> DEFINE F(n) == n = [i \in 0..b |-> IF i = 0 THEN 0 ELSE 2 * n[i - 1] + bits[i]]
             P(k) == k <= b => \A n : F(n) => n[k] = x \div TwoTo(b - k)
  <1>1. P(0)
    <2> SUFFICES ASSUME NEW n, F(n) PROVE n[0] = x \div TwoTo(b - 0)
      OBVIOUS
    <2>1. n[0] = 0 /\ b - 0 = b
      OBVIOUS
    <2> DEFINE q == TwoTo(b)
    <2>2. q \in Nat \ {0} /\ x < q
      BY TwoToIs
    <2> HIDE DEF q
    <2>3. x \div q = 0
      BY <2>2
    <2> QED BY <2>1, <2>3 DEF q
  <1>2. ASSUME NEW k \in Nat, P(k) PROVE P(k + 1)
    <2> SUFFICES ASSUME k + 1 <= b, NEW n, F(n) PROVE n[k + 1] = x \div TwoTo(b - (k + 1))
      OBVIOUS
    <2> DEFINE d == b - (k + 1)
               q == TwoTo(d)
    <2>1. d \in Nat /\ b - k = d + 1 /\ k + 1 \in 1..b /\ k + 1 \in 0..b /\ (k + 1) - 1 = k
      OBVIOUS
    <2>2. n[k + 1] = 2 * n[k] + bits[k + 1]
      BY <2>1
    <2>3. n[k] = x \div TwoTo(d + 1)
      BY <1>2, <2>1
    <2>4. bits[k + 1] = (x \div q) % 2
      BY <2>1
    <2> HIDE DEF d
    <2>5. q \in Nat \ {0} /\ TwoTo(d + 1) = 2 * q
      BY <2>1, TwoToIs
    <2>6. x \div q = 2 * (x \div (2 * q)) + ((x \div q) % 2)
      <3> HIDE DEF q
      <3> QED BY <2>5, HalfOfQuotient
    <2> HIDE DEF q
    <2>7. n[k + 1] = x \div q
      BY <2>2, <2>3, <2>4, <2>5, <2>6
    <2> QED BY <2>7 DEF q, d
  <1>3. P(b)
    <2> DEFINE T == {k \in Nat : P(k)}
    <2> HIDE DEF P
    <2>1. T \in SUBSET Nat /\ 0 \in T /\ \A k \in T : k + 1 \in T
      BY <1>1, <1>2
    <2>2. b \in T
      <3> HIDE DEF T
      <3> QED BY <2>1, Induction
    <2> QED BY <2>2
  <1>4. \A n : F(n) => n[b] = x
    <2> SUFFICES ASSUME NEW n, F(n) PROVE n[b] = x
      OBVIOUS
    <2>1. b <= b /\ b - b = 0
      OBVIOUS
    <2>2. n[b] = x \div TwoTo(0)
      BY <1>3, <2>1
    <2>3. x \div 1 = x
      OBVIOUS
    <2>4. TwoTo(0) = 1
      BY TwoToIs
    <2> QED BY ONLY <2>2, <2>3, <2>4
  <1>5. \E n : F(n)
    <2> DEFINE T == {k \in Nat : \E n : n = [i \in 0..k |-> IF i = 0 THEN 0
                                                           ELSE 2 * n[i - 1] + bits[i]]}
    <2>1. 0 \in T
      <3> DEFINE n == [i \in 0..0 |-> 0]
      <3>1. n = [i \in 0..0 |-> IF i = 0 THEN 0 ELSE 2 * n[i - 1] + bits[i]]
        OBVIOUS
      <3> HIDE DEF n
      <3> QED BY <3>1
    <2>2. ASSUME NEW k \in T PROVE k + 1 \in T
      <3>1. PICK g : g = [i \in 0..k |-> IF i = 0 THEN 0 ELSE 2 * g[i - 1] + bits[i]]
        OBVIOUS
      <3> DEFINE n == [i \in 0..(k + 1) |-> IF i <= k THEN g[i] ELSE 2 * g[k] + bits[k + 1]]
      <3>2. ASSUME NEW i \in 0..(k + 1)
            PROVE  n[i] = IF i = 0 THEN 0 ELSE 2 * n[i - 1] + bits[i]
        <4>1. i # 0 => i - 1 \in 0..(k + 1) /\ i - 1 <= k /\ i - 1 \in 0..k
          OBVIOUS
        <4>2. i # 0 => n[i - 1] = g[i - 1]
          BY <4>1
        <4>3. i <= k => g[i] = IF i = 0 THEN 0 ELSE 2 * g[i - 1] + bits[i]
          BY <3>1
        <4>4. i <= k \/ (i = k + 1 /\ i - 1 = k)
          OBVIOUS
        <4> QED BY <4>2, <4>3, <4>4
      <3>3. n = [i \in 0..(k + 1) |-> IF i = 0 THEN 0 ELSE 2 * n[i - 1] + bits[i]]
        BY <3>2
      <3> HIDE DEF n
      <3>4. k + 1 \in Nat
        OBVIOUS
      <3> QED BY ONLY <3>3, <3>4
    <2>3. b \in T
      <3> HIDE DEF T
      <3>1. T \in SUBSET Nat
        BY DEF T
      <3> QED BY <2>1, <2>2, <3>1, Induction
    <2> QED BY <2>3
  <1>6. Number(bits) = (CHOOSE n : F(n))[b]
    BY DEF Number
  <1> HIDE DEF F
  <1> QED BY <1>4, <1>5, <1>6

\* The identifiers of the units of a partition: whole bytes.
UnitIDs(p) == {id \in Seq(Bit) : Len(id) = IDLength(p)}

\* The lengths of the identifiers of a valid description.
LEMMA Lengths ==
    ASSUME NEW p, NEW s, IsValidPDR(p, s)
    PROVE  /\ p.unitBits \in Nat /\ p.typeBits \in Nat /\ p.typeBits <= TypeSize
           /\ IDLength(p) = p.typeBits + p.unitBits /\ IDLength(p) \in Nat /\ IDLength(p) > 0
           /\ ByteLength(IDLength(p)) = IDLength(p)
           /\ p.unitBits > s.length
  <1> DEFINE t == p.typeBits
             u == p.unitBits
             n == t + u
  <1>1. TypeSize \in Nat /\ TypeSize > 0
    BY ByteAssumption DEF TypeSize
  <1>2. t \in Nat /\ t <= TypeSize /\ u \in Nat /\ u >= MinUnitBits /\ u > s.length
    BY <1>1, UnitIDAssumption DEF IsValidPDR
  <1>3. n \in Nat /\ n > 0
    BY <1>1, <1>2, UnitIDAssumption
  <1>4. t % ByteBits = 0 /\ u % ByteBits = 0
    BY DEF IsValidPDR
  <1>5. IDLength(p) = n
    BY DEF IDLength
  <1> HIDE DEF t, u
  <1>6. n % ByteBits = 0
    <2> DEFINE x == t \div ByteBits
               y == u \div ByteBits
               z == n \div ByteBits
    <2>1. /\ x \in Nat /\ t = x * ByteBits /\ x * ByteBits \in Nat
          /\ y \in Nat /\ u = y * ByteBits /\ y * ByteBits \in Nat
      <3>1. t % ByteBits = t - x * ByteBits /\ x \in Nat /\ x * ByteBits \in Nat
        BY <1>2, Division
      <3>2. u % ByteBits = u - y * ByteBits /\ y \in Nat /\ y * ByteBits \in Nat
        BY <1>2, Division
      <3> HIDE DEF x, y
      <3> QED BY <1>2, <1>4, <3>1, <3>2
    <2>2. /\ z \in Nat /\ z * ByteBits <= n /\ n < z * ByteBits + ByteBits
          /\ n % ByteBits = n - z * ByteBits
      BY <1>3, Division
    <2>3. n = (x + y) * ByteBits
      <3> HIDE DEF x, y
      <3>1. (x + y) * ByteBits = x * ByteBits + y * ByteBits
        BY <2>1, ByteAssumption
      <3> QED BY <2>1, <3>1
    <2> HIDE DEF x, y, z
    <2>4. z = x + y
      <3> DEFINE w == x + y
      <3>1. w \in Nat /\ n = w * ByteBits
        BY <2>1, <2>3
      <3> HIDE DEF w, n
      <3>2. n <= z * ByteBits + ByteBits
        BY <1>3, <2>2, ByteAssumption
      <3> DEFINE m == n
                 a == n \div ByteBits
      <3>3. /\ a \in Nat /\ a * ByteBits <= n /\ n < a * ByteBits + ByteBits
        BY <1>3, Division
      <3>4. a = w
        <4>1. n \div ByteBits = w
          BY <3>1, ByteAssumption
        <4> QED BY <4>1
      <3>5. a = z
        BY DEF z, n
      <3> QED BY <3>4, <3>5 DEF w
    <2>5. z * ByteBits = n
      BY <2>3, <2>4
    <2>6. z * ByteBits \in Nat
      BY <1>3, <2>5
    <2> HIDE DEF n
    <2> QED BY <1>3, <2>2, <2>5, <2>6
  <1>7. ByteLength(n) = n
    BY <1>3, <1>6, FullBytes
  <1> QED BY <1>2, <1>3, <1>5, <1>7 DEF t, u

\* The shards have identifiers.
LEMMA ShardsAre ==
    ASSUME NEW s \in Scheme
    PROVE  Used(s) \in Seq(Bit) /\ s = NewID(Used(s)) /\ s.length = Len(Used(s))
  <1>1. Used(s) \in Seq(Bit) /\ s = NewID(Used(s))
    BY SchemeAssumption
  <1>2. NewID(Used(s)).length = Len(Used(s))
    BY <1>1, IdentifierIs
  <1> QED BY <1>1, <1>2

\* The identifiers that are composed of a type that fits.
LEMMA ComposedIs ==
    ASSUME NEW p \in PDRs, \A s \in Scheme : IsValidPDR(p, s),
           NEW sh \in Scheme, NEW type \in Types, type < TwoTo(p.typeBits), NEW random \in Randoms(p)
    PROVE  LET id == ComposeUnitID(p, sh, type, random)
           IN  /\ id \in UnitIDs(p)
               /\ \A t \in Scheme : UnitIDValidator(p, t, id) <=> t = sh
               /\ ExtractUnitType(p, id) = type
  <1> DEFINE id == ComposeUnitID(p, sh, type, random)
             n == IDLength(p)
             u == p.unitBits
             b == p.typeBits
             digit(i) == (type \div TwoTo(n - i)) % 2
  <1>1. /\ u \in Nat /\ b \in Nat /\ b <= TypeSize /\ n = b + u /\ n \in Nat /\ n > 0
        /\ ByteLength(n) = n
        /\ \A s \in Scheme : u > s.length
    BY Lengths
  <1>2. type \in Nat
    BY PartsAssumption
  <1>3. TwoTo(b) \in Nat \ {0}
    BY <1>1, TwoToIs
  <1>4. id = [i \in 1..n |-> CASE i > u -> digit(i)
                               [] i <= sh.length -> sh.bits[i]
                               [] OTHER -> random[i]]
    <2>1. ~(type >= TwoTo(b))
      BY <1>2, <1>3
    <2> QED BY <2>1 DEF ComposeUnitID
  <1> HIDE DEF id
  <1>5. ASSUME NEW i \in 1..n PROVE digit(i) \in Bit
    <2> DEFINE q == TwoTo(n - i)
    <2>1. n - i \in Nat
      BY <1>1
    <2>2. q \in Nat \ {0}
      BY <2>1, TwoToIs
    <2> HIDE DEF q
    <2>3. (type \div q) % 2 \in Bit
      BY <1>2, <2>2, HalfOfQuotient
    <2> QED BY <2>3 DEF q
  <1> HIDE DEF n, u, b, digit
  <1>6. /\ Used(sh) \in Seq(Bit) /\ sh = NewID(Used(sh)) /\ sh.length = Len(Used(sh))
        /\ sh.length \in Nat
    BY ShardsAre
  <1>7. \A i \in 1..sh.length : sh.bits[i] = Used(sh)[i] /\ sh.bits[i] \in Bit
    <2>1. sh.bits = [i \in 1..ByteLength(Len(Used(sh))) |-> At(Used(sh), i)]
      BY <1>6, IdentifierIs, PaddedIs
    <2>2. sh.length <= ByteLength(sh.length) /\ ByteLength(sh.length) \in Nat
      BY <1>6, WholeBytes
    <2>3. \A i \in 1..sh.length : i \in 1..ByteLength(Len(Used(sh))) /\ Used(sh)[i] \in Bit
      BY <1>6, <2>2
    <2> QED BY <1>6, <2>1, <2>3 DEF At
  <1>8. \A i \in 1..n : id[i] \in Bit
    <2> SUFFICES ASSUME NEW i \in 1..n PROVE id[i] \in Bit
      OBVIOUS
    <2>1. CASE i > u
      <3>1. ~(i <= sh.length)
        BY <1>1, <1>6, <2>1
      <3> QED BY <1>4, <1>5, <2>1, <3>1
    <2>2. CASE ~(i > u) /\ i <= sh.length
      <3>1. i \in 1..sh.length
        BY <1>1, <1>6, <2>2
      <3> QED BY <1>4, <1>7, <2>2, <3>1
    <2>3. CASE ~(i > u) /\ ~(i <= sh.length)
      <3>1. random[i] \in Bit
        <4>1. i \in 1..u
          BY <1>1, <2>3
        <4> QED BY <4>1, PartsAssumption DEF u
      <3> QED BY <1>4, <2>3, <3>1
    <2> QED BY <2>1, <2>2, <2>3
  <1>9. id \in Seq(Bit) /\ Len(id) = n
    <2>1. id = [i \in 1..n |-> id[i]]
      BY <1>4
    <2>2. id \in [1..n -> Bit]
      BY <1>8, <2>1
    <2> QED BY <1>1, <2>2
  <1>10. ASSUME NEW t \in Scheme PROVE UnitIDValidator(p, t, id) <=> IsPrefixOf(Used(t), id)
    <2>1. Used(t) \in Seq(Bit) /\ t = NewID(Used(t)) /\ t.length = Len(Used(t)) /\ t.length \in Nat
      BY ShardsAre
    <2>2. Len(Used(t)) <= n /\ \A i \in 1..Len(Used(t)) : id[i] \in Bit
      BY <1>1, <1>8, <2>1
    <2>3. Matches(t, id) <=> \A i \in 1..Len(Used(t)) : Used(t)[i] = id[i]
      BY <2>1, <2>2, MatchesIs
    <2>4. Len(id) = ByteLength(IDLength(p))
      BY <1>1, <1>9 DEF n
    <2> QED BY <1>9, <2>1, <2>2, <2>3, <2>4, PrefixIs DEF UnitIDValidator
  <1>11. IsPrefixOf(Used(sh), id)
    <2>1. \A i \in 1..sh.length : i \in 1..n /\ ~(i > u) /\ i <= sh.length
      BY <1>1, <1>6
    <2>2. \A i \in 1..sh.length : id[i] = sh.bits[i]
      BY <1>4, <2>1
    <2>3. Len(Used(sh)) <= n
      BY <1>1, <1>6
    <2> QED BY <1>6, <1>7, <1>9, <2>2, <2>3, PrefixIs
  <1>12. ASSUME NEW t \in Scheme, IsPrefixOf(Used(t), id) PROVE t = sh
    <2>1. Used(t) \in Seq(Bit)
      BY ShardsAre
    <2>2. IsPrefixOf(Used(t), Used(sh)) \/ IsPrefixOf(Used(sh), Used(t))
      BY <1>6, <1>9, <1>11, <1>12, <2>1, PrefixesCompare
    <2> QED BY <2>2, ShardsApart
  <1>13. ExtractUnitType(p, id) = type
    <2> DEFINE bits == SubSeq(id, n - b + 1, n)
    <2>1. n - b + 1 = u + 1 /\ n - u = b /\ u + 1 <= n + 1 /\ n <= n
      BY <1>1
    <2>2. Len(bits) = b /\ \A i \in 1..b : bits[i] = id[u + i]
      <3>1. bits = SubSeq(id, u + 1, n)
        BY <2>1
      <3> HIDE DEF bits
      <3>2. /\ Len(bits) = b
            /\ \A i \in 1..b : bits[i] = id[(u + 1) + i - 1]
        BY <1>1, <1>9, <2>1, <3>1
      <3>3. \A i \in 1..b : (u + 1) + i - 1 = u + i
        BY <1>1
      <3> QED BY <3>2, <3>3
    <2> HIDE DEF bits
    <2>3. \A i \in 1..b : bits[i] = (type \div TwoTo(b - i)) % 2
      <3> SUFFICES ASSUME NEW i \in 1..b PROVE bits[i] = digit(u + i) /\ n - (u + i) = b - i
        BY DEF digit
      <3>1. u + i \in 1..n /\ u + i > u /\ n - (u + i) = b - i /\ ~(u + i <= sh.length)
        BY <1>1, <1>6
      <3>2. id[u + i] = digit(u + i)
        BY <1>4, <3>1
      <3> QED BY <2>2, <3>1, <3>2
    <2>4. Number(bits) = type
      BY <1>1, <1>2, <2>2, <2>3, NumberIs DEF b
    <2>5. ExtractUnitType(p, id) = Number(bits)
      <3>1. ~(b > TypeSize)
        BY <1>1, ByteAssumption DEF TypeSize
      <3> QED BY <1>9, <3>1 DEF ExtractUnitType, bits, n, b
    <2> QED BY <2>4, <2>5
  <1>14. id \in UnitIDs(p)
    BY <1>9 DEF UnitIDs, n
  <1>15. \A t \in Scheme : UnitIDValidator(p, t, id) <=> t = sh
    BY <1>10, <1>11, <1>12
  <1> QED BY <1>13, <1>14, <1>15 DEF id

\* The order of the identifiers of whole bytes is that of their bits.
LEMMA LessIs ==
    ASSUME NEW n \in Nat, ByteLength(n) = n,
           NEW a \in Seq(Bit), NEW b \in Seq(Bit), Len(a) = n, Len(b) = n
    PROVE  Less(a, b) <=> Precedes(a, b)
  <1>1. ASSUME NEW s \in Seq(Bit), Len(s) = n PROVE Padded(s) = s
    <2>1. Padded(s) = [i \in 1..n |-> At(s, i)]
      BY <1>1, PaddedIs
    <2>2. \A i \in 1..n : At(s, i) = s[i]
      BY <1>1 DEF At
    <2>3. s = [i \in 1..n |-> s[i]]
      BY <1>1
    <2> QED BY <2>1, <2>2, <2>3
  <1>2. NewID(a).bits = a /\ NewID(b).bits = b /\ NewID(a).length = n /\ NewID(b).length = n
    BY <1>1, IdentifierIs
  <1>3. CompareShardIDs(NewID(a), NewID(b)) <=> Precedes(a, b)
    BY CompareIs
  <1>4. ~(n < n)
    OBVIOUS
  <1> QED BY <1>2, <1>3, <1>4 DEF CompareShardIDs, Less

\* A strict total order R of the elements of D.
StrictOrder(R, D) ==
    /\ \A a, b \in D : a = b \/ <<a, b>> \in R \/ <<b, a>> \in R
    /\ \A a, b \in D : <<a, b>> \in R => a # b /\ <<b, a>> \notin R
    /\ \A a, b, c \in D : <<a, b>> \in R /\ <<b, c>> \in R => <<a, c>> \in R

\* The elements of a finite set can be listed in order.
LEMMA ListedInOrder ==
    ASSUME NEW D, IsFiniteSet(D), NEW R, StrictOrder(R, D)
    PROVE  \E f \in [1..Cardinality(D) -> D] :
              /\ \A i, j \in 1..Cardinality(D) : i < j => <<f[i], f[j]>> \in R
              /\ \A a \in D : \E k \in 1..Cardinality(D) : f[k] = a
  <1> DEFINE n == Cardinality(D)
  <1>1. n \in Nat
    BY FS_CardinalityType
  <1>2. PICK g : g \in Bijection(1..n, D)
    <2>1. IsFiniteSet(1..n) /\ Cardinality(1..n) = n
      <3>1. 1 \in Int /\ n \in Int
        BY <1>1
      <3>2. IsFiniteSet(1..n) /\ Cardinality(1..n) = IF 1 > n THEN 0 ELSE n - 1 + 1
        BY <3>1, FS_Interval
      <3> HIDE DEF n
      <3>3. (IF 1 > n THEN 0 ELSE n - 1 + 1) = n
        BY <1>1
      <3> QED BY <3>2, <3>3
    <2> QED BY <2>1, FS_SameCardinalityBij DEF ExistsBijection
  <1> HIDE DEF n
  <1>3. /\ g \in [1..n -> D] /\ \A i, j \in 1..n : g[i] = g[j] => i = j
        /\ \A a \in D : \E i \in 1..n : g[i] = a
    BY <1>2 DEF Bijection, Injection, Surjection, IsInjective
  <1> DEFINE Q == {x \in (1..n) \X (1..n) : x[1] = x[2] \/ <<g[x[1]], g[x[2]]>> \in R}
  <1>4. \A i, j \in 1..n : <<i, j>> \in Q <=> i = j \/ <<g[i], g[j]>> \in R
    OBVIOUS
  <1> HIDE DEF Q
  <1>5. OrdersAll(Q, n)
    <2>1. \A i \in 1..n : g[i] \in D
      BY <1>3
    <2>2. \A i \in 1..n : <<i, i>> \in Q
      BY <1>4
    <2>3. \A i, j \in 1..n : <<i, j>> \in Q \/ <<j, i>> \in Q
      BY <1>3, <1>4, <2>1 DEF StrictOrder
    <2>4. \A i, j \in 1..n : <<i, j>> \in Q /\ <<j, i>> \in Q => i = j
      BY <1>4, <2>1 DEF StrictOrder
    <2>5. \A i, j, k \in 1..n : <<i, j>> \in Q /\ <<j, k>> \in Q => <<i, k>> \in Q
      <3> SUFFICES ASSUME NEW i \in 1..n, NEW j \in 1..n, NEW k \in 1..n,
                          <<i, j>> \in Q, <<j, k>> \in Q
                   PROVE  <<i, k>> \in Q
        OBVIOUS
      <3>1. i = j \/ <<g[i], g[j]>> \in R
        BY <1>4
      <3>2. j = k \/ <<g[j], g[k]>> \in R
        BY <1>4
      <3>3. i = k \/ <<g[i], g[k]>> \in R
        BY <2>1, <3>1, <3>2 DEF StrictOrder
      <3> QED BY <1>4, <3>3
    <2> QED BY <2>2, <2>3, <2>4, <2>5 DEF OrdersAll
  <1> DEFINE place == [i \in 1..n |-> Cardinality(Until(Q, n, i))]
  <1>6. Counts(place, Q, n)
    <2>1. ASSUME NEW i \in 1..n PROVE Cardinality(Until(Q, n, i)) \in Nat
      <3>1. IsFiniteSet(1..n)
        <4>1. 1 \in Int /\ n \in Int
          BY <1>1
        <4> QED BY <4>1, FS_Interval
      <3>2. Until(Q, n, i) \in SUBSET (1..n)
        BY DEF Until
      <3>3. IsFiniteSet(Until(Q, n, i))
        BY <3>1, <3>2, FS_Subset
      <3> QED BY <3>3, FS_CardinalityType
    <2> QED BY <2>1 DEF Counts
  <1> HIDE DEF place
  <1>7. GivesPlaces(place, Q, n)
    BY <1>1, <1>5, <1>6, PlacesOfOrder
  <1> DEFINE at(k) == CHOOSE i \in 1..n : place[i] = k
             f == [k \in 1..n |-> g[at(k)]]
  <1>8. ASSUME NEW k \in 1..n PROVE at(k) \in 1..n /\ place[at(k)] = k
    BY <1>7 DEF GivesPlaces
  <1> HIDE DEF at
  <1>9. f \in [1..n -> D]
    BY <1>3, <1>8
  <1>10. \A i, j \in 1..n : i < j => <<f[i], f[j]>> \in R
    <2> SUFFICES ASSUME NEW i \in 1..n, NEW j \in 1..n, i < j PROVE <<g[at(i)], g[at(j)]>> \in R
      OBVIOUS
    <2>1. at(i) \in 1..n /\ at(j) \in 1..n /\ place[at(i)] = i /\ place[at(j)] = j
      BY <1>8
    <2>2. <<at(i), at(j)>> \in Q /\ at(i) # at(j)
      <3>1. place[at(i)] < place[at(j)]
        BY <2>1
      <3>2. i # j
        OBVIOUS
      <3> QED BY <1>7, <2>1, <3>1, <3>2 DEF GivesPlaces
    <2> QED BY <1>4, <2>1, <2>2
  <1>11. \A a \in D : \E k \in 1..n : f[k] = a
    <2> SUFFICES ASSUME NEW a \in D PROVE \E k \in 1..n : f[k] = a
      OBVIOUS
    <2>1. PICK i \in 1..n : g[i] = a
      BY <1>3
    <2>2. place[i] \in 1..n
      BY <1>7 DEF GivesPlaces
    <2>3. at(place[i]) = i
      BY <1>7, <1>8, <2>2 DEF GivesPlaces
    <2> QED BY <2>1, <2>2, <2>3
  <1> HIDE DEF f
  <1> QED BY <1>9, <1>10, <1>11 DEF n

\* The places of the identifiers of units in their order.
IsOrdering(ids, D) ==
    /\ Cardinality(D) \in Nat
    /\ ids \in [1..Cardinality(D) -> D] /\ Len(ids) = Cardinality(D)
    /\ \A i, j \in 1..Cardinality(D) : i < j => Less(ids[i], ids[j]) /\ ~Less(ids[j], ids[i])
    /\ \A id \in D : \E k \in 1..Cardinality(D) : ids[k] = id

\* The identifiers of the units of a shard are ordered.
LEMMA OrderedIs ==
    ASSUME NEW p, NEW s, IsValidPDR(p, s), NEW us, IsFiniteSet(DOMAIN us), DOMAIN us \subseteq UnitIDs(p)
    PROVE  IsOrdering(Ordered(us), DOMAIN us)
  <1> DEFINE D == DOMAIN us
             n == IDLength(p)
             c == Cardinality(D)
             ids == Ordered(us)
  <1>1. n \in Nat /\ ByteLength(n) = n
    BY Lengths
  <1>2. \A a \in D : a \in Seq(Bit) /\ Len(a) = n
    BY DEF UnitIDs
  <1> HIDE DEF n
  <1>3. \A a, b \in D : Less(a, b) <=> Precedes(a, b)
    BY <1>1, <1>2, LessIs
  <1> DEFINE R == {x \in D \X D : Less(x[1], x[2])}
  <1>4. \A a, b \in D : <<a, b>> \in R <=> Precedes(a, b)
    BY <1>3
  <1> HIDE DEF R
  <1>5. StrictOrder(R, D)
    <2>1. \A a, b \in D : a = b \/ <<a, b>> \in R \/ <<b, a>> \in R
      BY <1>2, <1>4, PrecedesTotal
    <2>2. \A a, b \in D : <<a, b>> \in R => a # b /\ <<b, a>> \notin R
      BY <1>2, <1>4, PrecedesStrict
    <2>3. \A a, b, x \in D : <<a, b>> \in R /\ <<b, x>> \in R => <<a, x>> \in R
      BY <1>2, <1>4, PrecedesTransitive
    <2> QED BY <2>1, <2>2, <2>3 DEF StrictOrder
  <1>6. c \in Nat
    BY FS_CardinalityType
  <1>7. \E f \in [1..c -> D] : /\ \A i, j \in 1..c : i < j => <<f[i], f[j]>> \in R
                               /\ \A a \in D : \E k \in 1..c : f[k] = a
    <2> HIDE DEF D
    <2>1. IsFiniteSet(D)
      BY DEF D
    <2> QED BY <1>5, <2>1, ListedInOrder
  <1> HIDE DEF c
  <1>8. \E f \in [1..c -> D] : \A i, j \in DOMAIN f : i < j => Less(f[i], f[j])
    <2>1. PICK f \in [1..c -> D] : \A i, j \in 1..c : i < j => <<f[i], f[j]>> \in R
      BY <1>7
    <2>2. DOMAIN f = 1..c /\ \A i \in 1..c : f[i] \in D
      OBVIOUS
    <2>3. \A i, j \in 1..c : i < j => Less(f[i], f[j])
      BY <1>3, <1>4, <2>1, <2>2
    <2> QED BY <2>2, <2>3
  <1>9. ids \in [1..c -> D] /\ \A i, j \in DOMAIN ids : i < j => Less(ids[i], ids[j])
    BY <1>8 DEF Ordered, c
  <1> HIDE DEF ids
  <1>10. DOMAIN ids = 1..c /\ \A i \in 1..c : ids[i] \in D
    BY <1>9
  <1>11. \A i, j \in 1..c : i < j => Less(ids[i], ids[j]) /\ ~Less(ids[j], ids[i])
    <2> SUFFICES ASSUME NEW i \in 1..c, NEW j \in 1..c, i < j
                 PROVE  Less(ids[i], ids[j]) /\ ~Less(ids[j], ids[i])
      OBVIOUS
    <2>1. Less(ids[i], ids[j]) /\ ids[i] \in D /\ ids[j] \in D
      BY <1>9, <1>10
    <2> QED BY <1>2, <1>3, <2>1, PrecedesStrict
  <1>12. Len(ids) = c
    BY <1>6, <1>9
  <1>13. \A a \in D : \E k \in 1..c : ids[k] = a
    <2>1. \A i, j \in 1..c : ids[i] = ids[j] => i = j
      <3> SUFFICES ASSUME NEW i \in 1..c, NEW j \in 1..c, i # j PROVE ids[i] # ids[j]
        OBVIOUS
      <3>1. i < j \/ j < i
        BY <1>6
      <3> QED BY <1>11, <3>1
    <2>2. ids \in Injection(1..c, D)
      BY <1>9, <2>1 DEF Injection, IsInjective
    <2>3. PICK f \in [1..c -> D] : \A a \in D : \E k \in 1..c : f[k] = a
      BY <1>7
    <2>4. IsFiniteSet(D) /\ Cardinality(D) = Cardinality(1..c)
      <3>1. IsFiniteSet(1..c) /\ Cardinality(1..c) = c
        <4>1. 1 \in Int /\ c \in Int
          BY <1>6
        <4>2. IsFiniteSet(1..c) /\ Cardinality(1..c) = IF 1 > c THEN 0 ELSE c - 1 + 1
          BY <4>1, FS_Interval
        <4>3. (IF 1 > c THEN 0 ELSE c - 1 + 1) = c
          BY <1>6
        <4> QED BY <4>2, <4>3
      <3> QED BY <3>1 DEF c
    <2>5. ids \in Surjection(1..c, D)
      <3> HIDE DEF D
      <3> QED BY <2>2, <2>4, FS_Injection
    <2> QED BY <2>5 DEF Surjection
  <1> QED BY <1>6, <1>9, <1>11, <1>12, <1>13 DEF IsOrdering, ids, c

-------------------------------------------------------------------------------
(* The log of a unit. *)

\* What is in the log for a transaction, if any.
Txrs == {NoHash} \cup {<<"tx", n>> : n \in Nat}

\* A chain of the hashes of transactions, and the ledger hashes, which end one.
IsChain(f, n) ==
    /\ f[0] = NoHash
    /\ \A i \in 0..n : i < n => \E t \in Nat : f[i + 1] = NodeHash(f[i], <<"tx", t>>)

IsLedger(x) == \E n \in Nat : \E f : IsChain(f, n) /\ f[n] = x

\* The terms of hashes of different kinds differ.
LEMMA TermsDiffer ==
    /\ \A x, l, r : <<"state", x>> # NodeHash(l, r) /\ <<"tx", x>> # NodeHash(l, r)
    /\ \A x, y : <<"state", x>> # <<"tx", y>>
    /\ \A l, r : NodeHash(l, r) # NoHash
    /\ \A l, r, k, s : NodeHash(l, r) = NodeHash(k, s) => l = k /\ r = s
    /\ \A x, y : <<"state", x>> = <<"state", y>> => x = y
    /\ \A x : <<"tx", x>> # NoHash
  <1>1. \A x, l, r : <<"state", x>> # NodeHash(l, r) /\ <<"tx", x>> # NodeHash(l, r)
    <2>1. "state" # "node" /\ "tx" # "node"
      OBVIOUS
    <2>2. \A x, l, r : NodeHash(l, r)[1] = "node" /\ <<"state", x>>[1] = "state" /\ <<"tx", x>>[1] = "tx"
      BY DEF NodeHash
    <2> QED BY <2>1, <2>2
  <1>2. \A x, y : <<"state", x>> # <<"tx", y>>
    OBVIOUS
  <1>3. \A l, r : NodeHash(l, r) # NoHash
    BY HashesDiffer DEF NoHash
  <1>4. \A l, r, k, s : NodeHash(l, r) = NodeHash(k, s) => l = k /\ r = s
    BY DEF NodeHash
  <1>5. \A x, y : <<"state", x>> = <<"state", y>> => x = y
    OBVIOUS
  <1>6. \A x : <<"tx", x>> # NoHash
    BY DEF NoHash
  <1> QED BY <1>1, <1>2, <1>3, <1>4, <1>5, <1>6

\* A ledger hash is nil or that of a ledger hash and a transaction.
LEMMA LedgerIs ==
    ASSUME NEW x
    PROVE  IsLedger(x) <=> \/ x = NoHash
                           \/ \E y : IsLedger(y) /\ \E t \in Nat : x = NodeHash(y, <<"tx", t>>)
  <1>1. ASSUME IsLedger(x)
        PROVE  x = NoHash \/ \E y : IsLedger(y) /\ \E t \in Nat : x = NodeHash(y, <<"tx", t>>)
    <2>1. PICK n \in Nat : \E f : IsChain(f, n) /\ f[n] = x
      BY <1>1 DEF IsLedger
    <2>2. PICK f : IsChain(f, n) /\ f[n] = x
      BY <2>1
    <2>3. CASE n = 0
      BY <2>2, <2>3 DEF IsChain
    <2>4. CASE n # 0
      <3>1. PICK m \in Nat : m + 1 = n
        <4>1. n - 1 \in Nat /\ (n - 1) + 1 = n
          BY <2>4
        <4> QED BY <4>1
      <3>2. IsChain(f, m)
        <4>1. \A i \in 0..m : i \in 0..n /\ i < n
          BY <3>1
        <4> QED BY <2>2, <4>1 DEF IsChain
      <3>3. \E t \in Nat : x = NodeHash(f[m], <<"tx", t>>)
        <4>1. m \in 0..n /\ m < n
          BY <3>1
        <4> QED BY <2>2, <3>1, <4>1 DEF IsChain
      <3>4. IsLedger(f[m])
        BY <3>2 DEF IsLedger
      <3> QED BY <3>3, <3>4
    <2> QED BY <2>3, <2>4
  <1>2. IsLedger(NoHash)
    <2> DEFINE f == [i \in 0..0 |-> NoHash]
    <2>1. f[0] = NoHash /\ \A i \in 0..0 : ~(i < 0)
      OBVIOUS
    <2>2. IsChain(f, 0)
      BY <2>1 DEF IsChain
    <2> HIDE DEF f
    <2> QED BY <2>1, <2>2 DEF IsLedger
  <1>3. ASSUME NEW y, IsLedger(y), NEW t \in Nat PROVE IsLedger(NodeHash(y, <<"tx", t>>))
    <2>1. PICK n \in Nat : \E f : IsChain(f, n) /\ f[n] = y
      BY <1>3 DEF IsLedger
    <2>2. PICK f : IsChain(f, n) /\ f[n] = y
      BY <2>1
    <2> DEFINE z == NodeHash(y, <<"tx", t>>)
               g == [i \in 0..(n + 1) |-> IF i <= n THEN f[i] ELSE z]
    <2>3. g[n + 1] = z /\ \A i \in 0..n : g[i] = f[i]
      OBVIOUS
    <2> HIDE DEF g
    <2>4. g[0] = NoHash
      BY <2>2, <2>3 DEF IsChain
    <2>5. ASSUME NEW i \in 0..(n + 1), i < n + 1
          PROVE  \E u \in Nat : g[i + 1] = NodeHash(g[i], <<"tx", u>>)
      <3>1. CASE i = n
        BY <2>2, <2>3, <3>1
      <3>2. CASE i # n
        <4>1. i \in 0..n /\ i < n /\ i + 1 \in 0..n
          BY <2>5, <3>2
        <4> QED BY <2>2, <2>3, <4>1 DEF IsChain
      <3> QED BY <3>1, <3>2
    <2>6. IsChain(g, n + 1) /\ n + 1 \in Nat
      BY <2>4, <2>5 DEF IsChain
    <2> QED BY <2>3, <2>6 DEF IsLedger
  <1> QED BY <1>1, <1>2, <1>3

LEMMA LedgerHashIs ==
    ASSUME NEW x, IsLedger(x), NEW t \in Txrs
    PROVE  IsLedger(LedgerHash(x, t))
  <1>1. CASE t = NoHash
    BY <1>1 DEF LedgerHash
  <1>2. CASE t # NoHash
    <2>1. PICK n \in Nat : t = <<"tx", n>>
      BY <1>2 DEF Txrs
    <2> QED BY <1>2, <2>1, LedgerIs DEF LedgerHash
  <1> QED BY <1>1, <1>2

\* A unit has a ledger hash and a log.
IsUnit(unit) ==
    /\ unit = [ledger |-> unit.ledger, log |-> unit.log]
    /\ IsLedger(unit.ledger)
    /\ unit.log \in Seq([txr : Txrs, state : UnitStates])
    /\ Len(unit.log) > 0

\* The entries of a log.
LEMMA EntriesAre ==
    ASSUME NEW unit, IsUnit(unit)
    PROVE  /\ Len(unit.log) \in Nat \ {0} /\ DOMAIN unit.log = 1..Len(unit.log)
           /\ \A i \in 1..Len(unit.log) : /\ unit.log[i].txr \in Txrs
                                          /\ unit.log[i].state \in UnitStates
  <1> DEFINE R == [txr : Txrs, state : UnitStates]
  <1>1. \A e \in R : e.txr \in Txrs /\ e.state \in UnitStates
    OBVIOUS
  <1>2. unit.log \in Seq(R) /\ Len(unit.log) > 0
    BY DEF IsUnit
  <1> HIDE DEF R
  <1>3. /\ Len(unit.log) \in Nat /\ DOMAIN unit.log = 1..Len(unit.log)
        /\ \A i \in 1..Len(unit.log) : unit.log[i] \in R
    BY <1>2, SequenceIs
  <1> QED BY <1>1, <1>2, <1>3

\* The ledger hashes before and after the entries of a log.
LEMMA LedgersAre ==
    ASSUME NEW unit, IsUnit(unit), NEW i \in 1..Len(unit.log)
    PROVE  IsLedger(LedgerBefore(unit, i)) /\ IsLedger(LedgerAfter(unit, i))
  <1> DEFINE log == unit.log
             n == Len(log)
             F(l, m) == l = [k \in 1..m |-> IF k = 1 THEN unit.ledger
                                            ELSE LedgerHash(l[k - 1], log[k - 1].txr)]
  <1>1. n \in Nat /\ \A k \in 1..n : log[k].txr \in Txrs
    BY EntriesAre
  <1> HIDE DEF n, log
  <1>2. \E l : F(l, i)
    <2> DEFINE T == {m \in Nat : \E l : F(l, m)}
    <2>1. 0 \in T
      <3> DEFINE l == [k \in {} |-> NoHash]
      <3>1. 1..0 = {}
        OBVIOUS
      <3>2. F(l, 0)
        BY <3>1
      <3> HIDE DEF l, F
      <3> QED BY <3>2
    <2>2. ASSUME NEW m \in T PROVE m + 1 \in T
      <3>1. PICK l : F(l, m)
        OBVIOUS
      <3> DEFINE f == [k \in 1..(m + 1) |-> IF k <= m THEN l[k] ELSE
                          IF k = 1 THEN unit.ledger ELSE LedgerHash(l[k - 1], log[k - 1].txr)]
      <3>2. ASSUME NEW k \in 1..(m + 1)
            PROVE  f[k] = IF k = 1 THEN unit.ledger ELSE LedgerHash(f[k - 1], log[k - 1].txr)
        <4>1. k # 1 => k - 1 \in 1..(m + 1) /\ k - 1 <= m
          OBVIOUS
        <4>2. k # 1 => f[k - 1] = l[k - 1]
          BY <4>1
        <4>3. k <= m => l[k] = IF k = 1 THEN unit.ledger ELSE LedgerHash(l[k - 1], log[k - 1].txr)
          BY <3>1
        <4> QED BY <4>2, <4>3
      <3>3. F(f, m + 1)
        BY <3>2
      <3>4. m + 1 \in Nat
        OBVIOUS
      <3> HIDE DEF f, F
      <3> QED BY <3>3, <3>4
    <2>3. i \in T
      <3> HIDE DEF T
      <3>1. T \in SUBSET Nat
        BY DEF T
      <3>2. T = Nat
        BY <2>1, <2>2, <3>1, Induction
      <3> QED BY <1>1, <3>2 DEF n, log
    <2> QED BY <2>3
  <1> DEFINE l == CHOOSE x : F(x, i)
  <1>3. LedgerBefore(unit, i) = l[i]
    BY DEF LedgerBefore, log
  <1>4. F(l, i)
    <2> HIDE DEF F
    <2> QED BY <1>2
  <1> HIDE DEF l
  <1>5. i \in 1..n
    BY DEF n, log
  <1>6. ASSUME NEW k \in Nat, k + 1 <= i, k > 0 => IsLedger(l[k])
        PROVE  IsLedger(l[k + 1])
    <2>1. k + 1 \in 1..i /\ (k + 1) - 1 = k /\ k \in Nat
      BY <1>5, <1>6
    <2>2. l[k + 1] = IF k + 1 = 1 THEN unit.ledger ELSE LedgerHash(l[k], log[k].txr)
      BY <1>4, <2>1
    <2>3. CASE k = 0
      BY <2>2, <2>3 DEF IsUnit
    <2>4. CASE k # 0
      <3>1. k + 1 # 1 /\ k > 0 /\ k \in 1..n
        BY <1>1, <1>5, <1>6, <2>4
      <3>2. log[k].txr \in Txrs
        BY <1>1, <3>1
      <3> QED BY <1>6, <2>2, <3>1, <3>2, LedgerHashIs
    <2> QED BY <2>3, <2>4
  <1> DEFINE P(k) == k > 0 /\ k <= i => IsLedger(l[k])
             T == {k \in Nat : P(k)}
  <1>7. 0 \in T /\ \A k \in T : k + 1 \in T
    <2>1. P(0)
      OBVIOUS
    <2>2. ASSUME NEW k \in Nat, P(k) PROVE P(k + 1)
      <3> SUFFICES ASSUME k + 1 <= i PROVE IsLedger(l[k + 1])
        OBVIOUS
      <3>1. k <= i
        BY <1>1, <1>5
      <3> QED BY <1>6, <2>2, <3>1
    <2> HIDE DEF P
    <2> QED BY <2>1, <2>2
  <1>8. P(i)
    <2>1. T \in SUBSET Nat /\ i \in Nat
      BY <1>1, <1>5
    <2> HIDE DEF T
    <2>2. i \in T
      BY <1>7, <2>1, Induction
    <2> HIDE DEF P
    <2> QED BY <2>2 DEF T
  <1>9. IsLedger(LedgerBefore(unit, i))
    <2>1. i > 0 /\ i <= i
      BY <1>1, <1>5
    <2> QED BY <1>3, <1>8, <2>1
  <1>10. log[i].txr \in Txrs
    BY <1>1, <1>5
  <1> QED BY <1>9, <1>10, LedgerHashIs DEF LedgerAfter, log

\* The entries of a log, and the hashes of them.
LEMMA LogIs ==
    ASSUME NEW unit, IsUnit(unit)
    PROVE  LET N == Len(unit.log)
           IN  /\ N \in Nat \ {0} /\ DOMAIN unit.log = 1..N
               /\ DOMAIN LogHashes(unit) = 1..N /\ Len(LogHashes(unit)) = N
               /\ GetRootHash(LogHashes(unit)) = HashOf(LogHashes(unit))[<<1, N>>]
               /\ LatestState(unit) \in UnitStates
               /\ \A i \in 1..N :
                    /\ unit.log[i].state \in UnitStates
                    /\ LogHashes(unit)[i] = NodeHash(LedgerAfter(unit, i),
                                                     StateHash(unit.log[i].state))
  <1> DEFINE N == Len(unit.log)
             data == LogHashes(unit)
  <1>1. N \in Nat \ {0} /\ DOMAIN unit.log = 1..N
    BY EntriesAre
  <1>2. \A i \in 1..N : unit.log[i].state \in UnitStates
    BY EntriesAre
  <1>3. LatestState(unit) \in UnitStates
    BY <1>1, <1>2 DEF LatestState
  <1>4. \A i \in 1..N : data[i] = NodeHash(LedgerAfter(unit, i), StateHash(unit.log[i].state))
    BY <1>1 DEF LogHashes, EntryHash, LedgerAfter
  <1>5. data = [i \in 1..N |-> data[i]] /\ DOMAIN data = 1..N
    BY <1>1 DEF LogHashes
  <1> HIDE DEF data, N
  <1>6. Len(data) = N
    <2>1. data \in Seq({data[i] : i \in 1..N})
      BY <1>1, <1>5
    <2> QED BY <1>1, <1>5, <2>1
  <1>7. data # << >>
    <2>1. Len(<< >>) = 0
      OBVIOUS
    <2> QED BY <1>1, <1>6, <2>1
  <1>8. GetRootHash(data) = HashOf(data)[<<1, N>>]
    BY <1>6, <1>7 DEF GetRootHash
  <1> QED BY <1>1, <1>2, <1>3, <1>4, <1>5, <1>6, <1>8 DEF data, N

\* A path that leads from an entry to the root of a log starts at an entry of
\* the log: it does not stop at an inner node, and a path that goes below an
\* entry would have to go into a ledger hash or the hash of a state.
LEMMA EntryOfLog ==
    ASSUME NEW unit, IsUnit(unit), NEW path, Len(path) \in Nat, NEW x, NEW y,
           PlainTreeOutput(path, NodeHash(x, <<"state", y>>)) = GetRootHash(LogHashes(unit))
    PROVE  \E i \in 1..Len(unit.log) : NodeHash(x, <<"state", y>>) = LogHashes(unit)[i]
  <1> DEFINE N == Len(unit.log)
             data == LogHashes(unit)
             g == HashOf(data)
             n == Len(path)
             input == NodeHash(x, <<"state", y>>)
  <1>1. PICK h : IsOutput(h, path, input, n) /\ PlainTreeOutput(path, input) = h[n]
    BY OutputOf
  <1>2. N \in Nat \ {0} /\ DOMAIN data = 1..N /\ GetRootHash(data) = g[<<1, N>>]
    BY LogIs
  <1>3. \A i \in 1..N : \E l, s : IsLedger(l) /\ data[i] = NodeHash(l, <<"state", s>>)
    <2> SUFFICES ASSUME NEW i \in 1..N
                 PROVE  \E l, s : IsLedger(l) /\ data[i] = NodeHash(l, <<"state", s>>)
      OBVIOUS
    <2>1. IsLedger(LedgerAfter(unit, i))
      BY LedgersAre
    <2>2. data[i] = NodeHash(LedgerAfter(unit, i), StateHash(unit.log[i].state))
      BY LogIs
    <2> QED BY <2>1, <2>2 DEF StateHash
  <1>4. \A lo, hi \in 1..N : g[<<lo, hi>>] = HashStep(g, data, lo, hi)
    <2> HIDE DEF data, N
    <2> QED BY <1>2, HashOfSlices
  <1>5. h[n] = g[<<1, N>>]
    BY <1>1, <1>2
  <1>6. n \in Nat
    OBVIOUS
  <1>7. h[0] = input
    BY <1>1, <1>6 DEF IsOutput
  <1>8. \A k \in Nat : k + 1 <= n => h[k + 1] = OutputStep(path[k + 1], h[k])
    <2> HIDE DEF n, input
    <2> QED BY <1>1, <1>6, OutputAt
  <1> HIDE DEF n, g, data, N
  <1>9. ASSUME NEW lo \in 1..N, NEW hi \in 1..N
        PROVE  \E l, r : g[<<lo, hi>>] = NodeHash(l, r)
    <2>1. g[<<lo, hi>>] = HashStep(g, data, lo, hi)
      BY <1>4
    <2>2. CASE lo >= hi
      BY <1>3, <2>1, <2>2 DEF HashStep
    <2>3. CASE ~(lo >= hi)
      BY <2>1, <2>3 DEF HashStep
    <2> QED BY <2>2, <2>3
  <1> DEFINE P(k) == k <= n =>
               /\ \E l, r : h[k] = NodeHash(l, r)
               /\ ~IsLedger(h[k])
               /\ \A lo, hi \in 1..N : lo <= hi /\ h[k] = g[<<lo, hi>>]
                                         => \E i \in 1..N : data[i] = input
  <1>10. ASSUME NEW lo \in 1..N, NEW hi \in 1..N, lo < hi
         PROVE  \E m \in 1..N : /\ lo <= m /\ m + 1 \in 1..N /\ m + 1 <= hi
                                /\ g[<<lo, hi>>] = NodeHash(g[<<lo, m>>], g[<<m + 1, hi>>])
    <2> DEFINE s == LeftSize(hi - lo + 1)
    <2>1. s \in 1..(hi - lo) /\ lo + s - 1 \in lo..(hi - 1) /\ lo + s \in (lo + 1)..hi
      <3>1. lo \in Nat /\ hi \in Nat /\ s = LeftSize(hi - lo + 1)
        OBVIOUS
      <3> HIDE DEF s
      <3> QED BY <1>10, <3>1, Cut
    <2>2. g[<<lo, hi>>] = NodeHash(g[<<lo, lo + s - 1>>], g[<<lo + s, hi>>])
      <3>1. ~(lo >= hi)
        BY <1>10
      <3> QED BY <1>4, <3>1 DEF HashStep
    <2> HIDE DEF s
    <2> DEFINE m == lo + s - 1
    <2>3. m \in 1..N /\ lo <= m /\ m + 1 = lo + s /\ m + 1 \in 1..N /\ m + 1 <= hi
      BY <1>2, <2>1
    <2>4. g[<<lo, hi>>] = NodeHash(g[<<lo, m>>], g[<<m + 1, hi>>])
      BY <2>2, <2>3
    <2> HIDE DEF m
    <2> QED BY <2>3, <2>4
  <1>11. P(0)
    <2>1. \E l, r : h[0] = NodeHash(l, r)
      BY <1>7
    <2>2. ~IsLedger(h[0])
      <3>1. h[0] # NoHash
        BY <1>7, TermsDiffer
      <3>2. \A z, t : h[0] # NodeHash(z, <<"tx", t>>)
        BY <1>7, TermsDiffer
      <3> QED BY <3>1, <3>2, LedgerIs
    <2>3. ASSUME NEW lo \in 1..N, NEW hi \in 1..N, lo <= hi, h[0] = g[<<lo, hi>>]
          PROVE  \E i \in 1..N : data[i] = input
      <3>1. CASE lo = hi
        <4>1. lo >= hi
          BY <3>1
        <4>2. g[<<lo, hi>>] = data[lo]
          BY <1>4, <4>1 DEF HashStep
        <4> QED BY <1>7, <2>3, <4>2
      <3>2. CASE lo # hi
        <4>1. lo < hi
          BY <2>3, <3>2
        <4>2. PICK m \in 1..N : /\ m + 1 \in 1..N
                                /\ g[<<lo, hi>>] = NodeHash(g[<<lo, m>>], g[<<m + 1, hi>>])
          BY <1>10, <4>1
        <4>3. g[<<m + 1, hi>>] = <<"state", y>>
          BY <1>7, <2>3, <4>2, TermsDiffer
        <4>4. \E l, r : g[<<m + 1, hi>>] = NodeHash(l, r)
          BY <1>9, <4>2
        <4> QED BY <4>3, <4>4, TermsDiffer
      <3> QED BY <3>1, <3>2
    <2> QED BY <2>1, <2>2, <2>3
  <1>12. ASSUME NEW k \in Nat, P(k) PROVE P(k + 1)
    <2> SUFFICES ASSUME k + 1 <= n
                 PROVE  /\ \E l, r : h[k + 1] = NodeHash(l, r)
                        /\ ~IsLedger(h[k + 1])
                        /\ \A lo, hi \in 1..N : lo <= hi /\ h[k + 1] = g[<<lo, hi>>]
                                                  => \E i \in 1..N : data[i] = input
      OBVIOUS
    <2>1. /\ \E l, r : h[k] = NodeHash(l, r)
          /\ ~IsLedger(h[k])
          /\ \A lo, hi \in 1..N : lo <= hi /\ h[k] = g[<<lo, hi>>]
                                    => \E i \in 1..N : data[i] = input
      <3>1. k <= n
        BY <1>6
      <3> QED BY <1>12, <3>1
    <2>2. PICK z : h[k + 1] = NodeHash(h[k], z) \/ h[k + 1] = NodeHash(z, h[k])
      BY <1>8 DEF OutputStep
    <2>3. ~IsLedger(h[k + 1])
      <3> SUFFICES ASSUME IsLedger(h[k + 1]) PROVE FALSE
        OBVIOUS
      <3>1. h[k + 1] # NoHash
        BY <2>2, TermsDiffer
      <3>2. PICK u, t : IsLedger(u) /\ h[k + 1] = NodeHash(u, <<"tx", t>>)
        BY <3>1, LedgerIs
      <3>3. h[k] = u \/ h[k] = <<"tx", t>>
        BY <2>2, <3>2, TermsDiffer
      <3> QED BY <2>1, <3>2, <3>3, TermsDiffer
    <2>4. ASSUME NEW lo \in 1..N, NEW hi \in 1..N, lo <= hi, h[k + 1] = g[<<lo, hi>>]
          PROVE  \E i \in 1..N : data[i] = input
      <3>1. CASE lo = hi
        <4>1. lo >= hi
          BY <3>1
        <4>2. g[<<lo, hi>>] = data[lo]
          BY <1>4, <4>1 DEF HashStep
        <4>3. PICK l, s : IsLedger(l) /\ data[lo] = NodeHash(l, <<"state", s>>)
          BY <1>3
        <4>4. h[k] = l \/ h[k] = <<"state", s>>
          BY <2>2, <2>4, <4>2, <4>3, TermsDiffer
        <4> QED BY <2>1, <4>3, <4>4, TermsDiffer
      <3>2. CASE lo # hi
        <4>1. lo < hi
          BY <2>4, <3>2
        <4>2. PICK m \in 1..N : /\ lo <= m /\ m + 1 \in 1..N /\ m + 1 <= hi
                                /\ g[<<lo, hi>>] = NodeHash(g[<<lo, m>>], g[<<m + 1, hi>>])
          BY <1>10, <4>1
        <4>3. h[k] = g[<<lo, m>>] \/ h[k] = g[<<m + 1, hi>>]
          BY <2>2, <2>4, <4>2, TermsDiffer
        <4> QED BY <2>1, <4>2, <4>3
      <3> QED BY <3>1, <3>2
    <2> QED BY <2>2, <2>3, <2>4
  <1>13. P(n)
    <2> DEFINE T == {k \in Nat : P(k)}
    <2> HIDE DEF P
    <2>1. T \in SUBSET Nat /\ 0 \in T /\ \A k \in T : k + 1 \in T
      BY <1>11, <1>12
    <2>2. n \in T
      <3> HIDE DEF T
      <3> QED BY <1>6, <2>1, Induction
    <2> QED BY <2>2
  <1>14. 1 \in 1..N /\ N \in 1..N /\ 1 <= N /\ n <= n
    BY <1>2, <1>6
  <1> QED BY <1>5, <1>13, <1>14 DEF N, data

\* A list is a sequence of its members.
LEMMA ListIsSequence ==
    ASSUME NEW a, IsList(a), NEW S, {a[i] : i \in 1..Len(a)} \subseteq S
    PROVE  a \in Seq(S)
  <1> DEFINE n == Len(a)
  <1>1. n \in Nat /\ a = [i \in 1..n |-> a[i]]
    BY DEF IsList
  <1>2. \A i \in 1..n : a[i] \in S
    OBVIOUS
  <1> HIDE DEF n
  <1>3. a \in [1..n -> S]
    BY <1>1, <1>2
  <1> QED BY <1>1, <1>3, SeqDef

\* Lists one after the other.
LEMMA ConcatLists ==
    ASSUME NEW a, IsList(a), NEW b, IsList(b)
    PROVE  /\ IsList(a \o b) /\ Len(a \o b) = Len(a) + Len(b)
           /\ a \o << >> = a /\ << >> \o a = a
           /\ \A i \in 1..Len(a) : (a \o b)[i] = a[i]
           /\ \A i \in 1..Len(b) : (a \o b)[Len(a) + i] = b[i]
  <1> DEFINE S == {a[i] : i \in 1..Len(a)} \cup {b[i] : i \in 1..Len(b)}
             u == a \o b
  <1>1. a \in Seq(S) /\ b \in Seq(S)
    BY ListIsSequence
  <1> HIDE DEF S
  <1>2. /\ u \in Seq(S) /\ Len(u) = Len(a) + Len(b)
        /\ \A i \in 1..(Len(a) + Len(b)) : u[i] = IF i <= Len(a) THEN a[i] ELSE b[i - Len(a)]
    BY <1>1, ConcatProperties
  <1>3. Len(a) \in Nat /\ Len(b) \in Nat
    BY <1>1
  <1> HIDE DEF u
  <1>4. IsList(u)
    BY <1>2 DEF IsList
  <1>5. a \o << >> = a /\ << >> \o a = a
    BY <1>1, ConcatEmptySeq
  <1>6. \A i \in 1..Len(a) : u[i] = a[i]
    BY <1>2, <1>3
  <1>7. ASSUME NEW i \in 1..Len(b) PROVE u[Len(a) + i] = b[i]
    <2>1. /\ Len(a) + i \in 1..(Len(a) + Len(b)) /\ ~(Len(a) + i <= Len(a))
          /\ (Len(a) + i) - Len(a) = i
      BY <1>3
    <2> QED BY <1>2, <2>1
  <1> QED BY <1>2, <1>4, <1>5, <1>6, <1>7 DEF u

LEMMA ConcatListsAssociative ==
    ASSUME NEW a, IsList(a), NEW b, IsList(b), NEW c, IsList(c)
    PROVE  (a \o b) \o c = a \o (b \o c)
  <1> DEFINE S == {a[i] : i \in 1..Len(a)} \cup {b[i] : i \in 1..Len(b)}
                    \cup {c[i] : i \in 1..Len(c)}
  <1>1. a \in Seq(S) /\ b \in Seq(S) /\ c \in Seq(S)
    BY ListIsSequence
  <1> HIDE DEF S
  <1> QED BY <1>1, ConcatAssociative

\* As no item begins with another one, what bytes begin with is one item.
LEMMA FirstItemIs ==
    ASSUME NEW x \in Items, NEW y \in Items, Len(x) <= Len(y), NEW a, IsList(a), NEW b, IsList(b),
           x \o a = y \o b
    PROVE  x = y
  <1> DEFINE u == x \o a
  <1>1. IsList(x) /\ IsList(y)
    BY ItemsAssumption
  <1>2. Len(x) \in Nat /\ Len(y) \in Nat
    BY <1>1 DEF IsList
  <1>3. \A i \in 1..Len(x) : u[i] = x[i]
    BY <1>1, ConcatLists
  <1>4. \A i \in 1..Len(y) : u[i] = y[i]
    BY <1>1, ConcatLists
  <1> HIDE DEF u
  <1>5. \A i \in 1..Len(x) : i \in 1..Len(y)
    BY <1>2
  <1>6. \A i \in 1..Len(x) : x[i] = y[i]
    BY <1>3, <1>4, <1>5
  <1> QED BY <1>6, ItemsAssumption

\* Bytes that begin with an item are this item and the rest.
LEMMA ItemAndRest ==
    ASSUME NEW x \in Items, NEW y \in Items, NEW a, IsList(a), NEW b, IsList(b), x \o a = y \o b
    PROVE  x = y /\ a = b
  <1>1. IsList(x) /\ IsList(y)
    BY ItemsAssumption
  <1>2. Len(x) \in Nat /\ Len(y) \in Nat
    BY <1>1 DEF IsList
  <1>3. x = y
    <2>1. CASE Len(x) <= Len(y)
      BY <2>1, FirstItemIs
    <2>2. CASE Len(y) <= Len(x)
      BY <2>2, FirstItemIs
    <2> QED BY <1>2, <2>1, <2>2
  <1> DEFINE n == Len(x)
             u == x \o a
  <1>4. /\ Len(u) = n + Len(a) /\ \A i \in 1..Len(a) : u[n + i] = a[i]
    BY ONLY <1>1, IsList(a), ConcatLists
  <1>5. /\ Len(u) = n + Len(b) /\ \A i \in 1..Len(b) : u[n + i] = b[i]
    <2>1. u = x \o b
      BY <1>3
    <2>2. /\ Len(x \o b) = n + Len(b) /\ \A i \in 1..Len(b) : (x \o b)[n + i] = b[i]
      BY <1>1, ConcatLists
    <2> HIDE DEF n, u
    <2> QED BY <2>1, <2>2
  <1>6. n \in Nat /\ Len(a) \in Nat /\ Len(b) \in Nat
    BY <1>2 DEF IsList
  <1> HIDE DEF n, u
  <1>7. Len(a) = Len(b)
    BY <1>4, <1>5, <1>6
  <1>8. \A i \in 1..Len(a) : a[i] = b[i]
    BY <1>4, <1>5, <1>7
  <1>9. a = [i \in 1..Len(a) |-> a[i]] /\ b = [i \in 1..Len(a) |-> b[i]]
    BY <1>7 DEF IsList
  <1>10. a = b
    BY <1>8, <1>9
  <1> QED BY <1>3, <1>10

\* A decoded state that writes what the state of a unit writes is this state.
LEMMA WrittenFixes ==
    ASSUME NEW s \in UnitStates, NEW t \in UnitStates \cup Presented, Decoded(t),
           Written(t) = Written(s)
    PROVE  t = s
  <1> DEFINE a == s.data
             x == s.round
             b == s.lock
             c == t.data
             y == t.round
             d == t.lock
  <1>1. /\ x \in Numbers /\ y \in Numbers /\ a \notin Numbers /\ b \notin Numbers
        /\ a \in Items \cup {<< >>} /\ b \in Items \cup {<< >>}
        /\ c \in Items \cup {<< >>} /\ d \in Items \cup {<< >>}
        /\ IsList(a) /\ IsList(b) /\ IsList(c) /\ IsList(d)
    BY StatesAssumption DEF Decoded
  <1>2. s = [data |-> a, round |-> x, lock |-> b] /\ t = [data |-> c, round |-> y, lock |-> d]
    BY StatesAssumption
  <1>3. (a \o x) \o b = (c \o y) \o d
    BY DEF Written
  <1> HIDE DEF a, x, b, c, y, d
  <1>4. x \in Items /\ y \in Items /\ IsList(x) /\ IsList(y) /\ y # << >>
    BY <1>1, ItemsAssumption
  <1>5. /\ IsList(x \o b) /\ IsList(y \o d) /\ b \o << >> = b
        /\ << >> \o (x \o b) = x \o b /\ << >> \o (y \o d) = y \o d
    <2>1. IsList(x \o b) /\ IsList(y \o d) /\ b \o << >> = b
      BY <1>1, <1>4, ConcatLists
    <2> QED BY <2>1, ConcatLists
  <1>6. a \o (x \o b) = c \o (y \o d)
    <2>1. (a \o x) \o b = a \o (x \o b)
      BY <1>1, <1>4, ConcatListsAssociative
    <2>2. (c \o y) \o d = c \o (y \o d)
      BY <1>1, <1>4, ConcatListsAssociative
    <2> QED BY <1>3, <2>1, <2>2
  <1>7. IsList(<< >>)
    BY DEF IsList
  <1> DEFINE e == x \o b
             f == y \o d
  <1>8. /\ IsList(e) /\ IsList(f) /\ b \o << >> = b
        /\ << >> \o e = e /\ << >> \o f = f /\ a \o e = c \o f
    BY <1>5, <1>6
  <1>9. e = x \o b /\ f = y \o d /\ Len(f) = Len(y) + Len(d)
    BY <1>1, <1>4, ConcatLists
  <1> HIDE DEF e, f
  <1>10. a = c
    <2>1. CASE a # << >> /\ c # << >>
      <3>1. a \in Items /\ c \in Items
        BY <1>1, <2>1
      <3> QED BY ONLY <1>8, <3>1, ItemAndRest
    <2>2. CASE a # << >> /\ c = << >>
      <3>1. a \o e = f
        BY <1>8, <2>2
      <3>2. a = y
        <4>1. a \in Items
          BY <1>1, <2>2
        <4>2. a \o e = y \o d
          BY <1>9, <3>1
        <4>3. y \in Items /\ IsList(e) /\ IsList(d)
          BY <1>1, <1>4, <1>8
        <4> QED BY ONLY <4>1, <4>2, <4>3, ItemAndRest
      <3> QED BY <1>1, <3>2
    <2>3. CASE a = << >> /\ c # << >>
      <3>1. e = c \o f
        BY <1>8, <2>3
      <3>2. b = f
        <4>1. c \in Items
          BY <1>1, <2>3
        <4>2. x = c /\ b = f
          <5>1. x \o b = c \o f
            BY <1>9, <3>1
          <5>2. x \in Items /\ IsList(b) /\ IsList(f)
            BY <1>1, <1>4, <1>8
          <5> QED BY ONLY <4>1, <5>1, <5>2, ItemAndRest
        <4> QED BY <4>2
      <3>3. b # << >>
        <4>1. Len(f) = Len(y) + Len(d) /\ Len(y) \in Nat /\ Len(d) \in Nat
          BY <1>1, <1>4, <1>9 DEF IsList
        <4>2. Len(y) # 0
          <5>1. y = [i \in 1..Len(y) |-> y[i]]
            BY <1>4 DEF IsList
          <5>2. ASSUME Len(y) = 0 PROVE y = << >>
            BY <5>1, <5>2
          <5> QED BY <1>4, <5>2
        <4> QED BY <3>2, <4>1, <4>2
      <3>4. b \in Items
        BY <1>1, <3>3
      <3>5. b = y
        <4> DEFINE o == << >>
        <4>1. IsList(o) /\ b \o o = y \o d
          BY <1>7, <1>8, <1>9, <3>2
        <4> HIDE DEF o
        <4> QED BY ONLY <1>1, <1>4, <3>4, <4>1, ItemAndRest
      <3> QED BY <1>1, <3>5
    <2> QED BY <2>1, <2>2, <2>3
  <1>11. e = f
    <2>1. CASE a # << >>
      <3>1. a \in Items /\ a \o e = a \o f
        BY <1>1, <1>8, <1>10, <2>1
      <3> QED BY ONLY <1>8, <3>1, ItemAndRest
    <2>2. CASE a = << >>
      BY <1>8, <1>10, <2>2
    <2> QED BY <2>1, <2>2
  <1>12. x = y /\ b = d
    BY <1>1, <1>4, <1>11, ItemAndRest DEF e, f
  <1> QED BY <1>2, <1>10, <1>12

\* The hash of the state of a unit tells what is written, and all of a decoded
\* state.
LEMMA StateHashFixes ==
    ASSUME NEW s \in UnitStates, NEW t \in UnitStates \cup Presented, StateHash(s) = StateHash(t)
    PROVE  Tells(t, s)
  <1>1. Written(t) = Written(s)
    <2> DEFINE u == Written(s)
               v == Written(t)
    <2>1. <<"state", u>> = <<"state", v>>
      BY DEF StateHash
    <2> HIDE DEF u, v
    <2>2. u = v
      BY <2>1
    <2> QED BY <2>2 DEF u, v
  <1>2. Decoded(t) => t = s
    BY <1>1, WrittenFixes
  <1> QED BY <1>1, <1>2 DEF Tells

-------------------------------------------------------------------------------
(* The state tree. *)

\* The node over an interval, from those of the intervals beside its root.
NodeOver(id, unit, left, right) ==
    LET v == Sum(Value(LatestState(unit)), left.summary, right.summary)
    IN  [hash |-> computeHash(id, GetRootHash(LogHashes(unit)), v, left, right), summary |-> v]

EmptyNode == [hash |-> NoHash, summary |-> 0]

NodeAt(node, us, ids, shape, lo, hi) ==
    LET r == Root(shape, lo, hi)
    IN  IF lo > hi THEN EmptyNode
        ELSE NodeOver(ids[r], us[ids[r]], node[<<lo, r - 1>>], node[<<r + 1, hi>>])

\* The recursion of StateTree.
IsStateTree(node, us, ids, shape, n) ==
    node = [s \in (1..(n + 1)) \X (0..n) |-> NodeAt(node, us, ids, shape, s[1], s[2])]

\* The root of an interval is in it.
LEMMA RootInside ==
    ASSUME NEW shape, NEW lo \in Nat, NEW hi \in Nat, lo <= hi
    PROVE  Root(shape, lo, hi) \in lo..hi
  <1>1. (lo + hi) \div 2 \in lo..hi
    OBVIOUS
  <1> QED BY <1>1 DEF Root

\* The recursion of StateTree has a solution.
LEMMA StateTreeExists ==
    ASSUME NEW n \in Nat, NEW us, NEW ids, NEW shape
    PROVE  \E node : IsStateTree(node, us, ids, shape, n)
  <1> DEFINE A == 1..(n + 1)
             B == 0..n
             At2(node, lo, hi) == NodeAt(node, us, ids, shape, lo, hi)
             F(node) == node = [s \in A \X B |-> node[s]]
             P(node, k) == \A lo \in A : \A hi \in B :
                             hi + 1 <= lo + k => node[<<lo, hi>>] = At2(node, lo, hi)
             T == {k \in Nat : \E node : F(node) /\ P(node, k)}
  <1>1. 0 \in T
    <2> DEFINE node == [s \in A \X B |-> EmptyNode]
    <2>1. F(node)
      OBVIOUS
    <2>2. ASSUME NEW lo \in A, NEW hi \in B, hi + 1 <= lo + 0
          PROVE  node[<<lo, hi>>] = At2(node, lo, hi)
      <3>1. lo > hi
        BY <2>2
      <3>2. At2(node, lo, hi) = EmptyNode
        BY <3>1 DEF NodeAt
      <3>3. <<lo, hi>> \in A \X B
        OBVIOUS
      <3>4. node[<<lo, hi>>] = EmptyNode
        BY <3>3
      <3> QED BY <3>2, <3>4
    <2>3. P(node, 0)
      BY <2>2
    <2> HIDE DEF node, P, F
    <2> QED BY <2>1, <2>3
  <1>2. ASSUME NEW k \in T PROVE k + 1 \in T
    <2>1. PICK f : F(f) /\ P(f, k)
      OBVIOUS
    <2> DEFINE g == [s \in A \X B |-> IF s[2] + 1 <= s[1] + k THEN f[s] ELSE At2(f, s[1], s[2])]
    <2>2. \A lo \in A : \A hi \in B :
             g[<<lo, hi>>] = IF hi + 1 <= lo + k THEN f[<<lo, hi>>] ELSE At2(f, lo, hi)
      OBVIOUS
    <2>3. F(g)
      OBVIOUS
    <2> HIDE DEF g
    <2>4. ASSUME NEW lo \in A, NEW hi \in B, hi + 1 <= lo + (k + 1)
          PROVE  g[<<lo, hi>>] = At2(g, lo, hi)
      <3>1. g[<<lo, hi>>] = At2(f, lo, hi)
        <4>1. CASE hi + 1 <= lo + k
          <5>1. f[<<lo, hi>>] = At2(f, lo, hi)
            BY <2>1, <4>1
          <5> QED BY <2>2, <4>1, <5>1
        <4>2. CASE ~(hi + 1 <= lo + k)
          BY <2>2, <4>2
        <4> QED BY <4>1, <4>2
      <3>2. At2(g, lo, hi) = At2(f, lo, hi)
        <4>1. CASE lo > hi
          BY <4>1 DEF NodeAt
        <4>2. CASE ~(lo > hi)
          <5> DEFINE r == Root(shape, lo, hi)
          <5>1. r \in lo..hi
            <6>1. lo \in Nat /\ hi \in Nat /\ lo <= hi
              BY <4>2
            <6> QED BY <6>1, RootInside
          <5> HIDE DEF r
          <5>2. /\ r - 1 \in B /\ r + 1 \in A
                /\ (r - 1) + 1 <= lo + k /\ hi + 1 <= (r + 1) + k
            BY <2>4, <4>2, <5>1
          <5>3. g[<<lo, r - 1>>] = f[<<lo, r - 1>>] /\ g[<<r + 1, hi>>] = f[<<r + 1, hi>>]
            BY <2>2, <5>2
          <5> QED BY <5>3 DEF NodeAt, r
        <4> QED BY <4>1, <4>2
      <3> QED BY <3>1, <3>2
    <2>5. P(g, k + 1)
      BY <2>4
    <2>6. k + 1 \in Nat
      OBVIOUS
    <2> HIDE DEF P, F
    <2> QED BY <2>3, <2>5, <2>6
  <1>3. T = Nat
    <2> HIDE DEF T
    <2>1. T \in SUBSET Nat
      BY DEF T
    <2> QED BY <1>1, <1>2, <2>1, Induction
  <1>4. PICK node : F(node) /\ P(node, n)
    <2>1. n \in T
      <3> HIDE DEF T
      <3> QED BY <1>3
    <2> QED BY <2>1
  <1>5. ASSUME NEW lo \in A, NEW hi \in B PROVE node[<<lo, hi>>] = At2(node, lo, hi)
    <2>1. hi + 1 <= lo + n
      OBVIOUS
    <2> QED BY <1>4, <2>1
  <1>6. \A s \in A \X B : node[s] = NodeAt(node, us, ids, shape, s[1], s[2])
    BY <1>5
  <1>7. node = [s \in A \X B |-> NodeAt(node, us, ids, shape, s[1], s[2])]
    BY ONLY <1>4, <1>6 DEF F
  <1> QED BY <1>7 DEF IsStateTree

\* The state tree, and its nodes.
LEMMA StateTreeIs ==
    ASSUME NEW us, NEW shape, Len(Ordered(us)) \in Nat
    PROVE  IsStateTree(StateTree(us, shape), us, Ordered(us), shape, Len(Ordered(us)))
  <1> DEFINE ids == Ordered(us)
             n == Len(ids)
             node == CHOOSE f : IsStateTree(f, us, ids, shape, n)
  <1>1. StateTree(us, shape) = node
    BY DEF StateTree, IsStateTree, NodeAt, NodeOver, EmptyNode
  <1>2. IsStateTree(node, us, ids, shape, n)
    <2> HIDE DEF ids
    <2>1. n \in Nat
      BY DEF ids
    <2> HIDE DEF n
    <2> QED BY <2>1, StateTreeExists
  <1> QED BY <1>1, <1>2

\* The node that a proof starts from, and the one it leads to by a step.
LogRootOf(p) ==
    PlainTreeOutput(p.unitCert.path, EntryHash(p.ledger, p.unitCert.txr, p.unitCert.state))

OwnNode(p) ==
    LET v == Sum(p.value, p.stateCert.left.summary, p.stateCert.right.summary)
    IN  [hash |-> computeHash(p.id, LogRootOf(p), v, p.stateCert.left, p.stateCert.right),
         summary |-> v]

NodeAbove(id, item, below) ==
    LET v == Sum(item.value, below.summary, item.sibling.summary)
    IN  [hash |-> IF Less(id, item.id)
                  THEN computeHash(item.id, item.log, v, below, item.sibling)
                  ELSE computeHash(item.id, item.log, v, item.sibling, below),
         summary |-> v]

\* The recursion of CalculateStateTreeOutput.
IsClimb(out, id, own, path, n) ==
    out = [i \in 0..n |-> IF i = 0 THEN own ELSE NodeAbove(id, path[i], out[i - 1])]

\* The node after the next step.
LEMMA ClimbAt ==
    ASSUME NEW id, NEW own, NEW path, NEW n \in Nat, NEW out, IsClimb(out, id, own, path, n),
           NEW k \in Nat, k + 1 <= n
    PROVE  out[k + 1] = NodeAbove(id, path[k + 1], out[k])
  <1>1. k + 1 \in 0..n /\ k + 1 # 0 /\ (k + 1) - 1 = k
    OBVIOUS
  <1>2. out[k + 1] = IF k + 1 = 0 THEN own ELSE NodeAbove(id, path[k + 1], out[(k + 1) - 1])
    BY <1>1 DEF IsClimb
  <1> QED BY <1>1, <1>2

\* The recursion of CalculateStateTreeOutput has a solution.
LEMMA ClimbExists ==
    ASSUME NEW id, NEW own, NEW path
    PROVE  \A n \in Nat : \E out : IsClimb(out, id, own, path, n)
  <1> DEFINE T == {n \in Nat : \E out : IsClimb(out, id, own, path, n)}
  <1>1. 0 \in T
    <2> DEFINE out == [i \in 0..0 |-> own]
    <2>1. \A i \in 0..0 : i = 0 /\ out[i] = own
      OBVIOUS
    <2>2. out = [i \in 0..0 |-> IF i = 0 THEN own ELSE NodeAbove(id, path[i], out[i - 1])]
      BY <2>1
    <2> HIDE DEF out
    <2> QED BY <2>2 DEF IsClimb
  <1>2. ASSUME NEW n \in T PROVE n + 1 \in T
    <2>1. PICK g : IsClimb(g, id, own, path, n)
      OBVIOUS
    <2> DEFINE out == [i \in 0..(n + 1) |-> IF i <= n THEN g[i] ELSE NodeAbove(id, path[i], g[i - 1])]
    <2>2. ASSUME NEW i \in 0..(n + 1)
          PROVE  out[i] = IF i = 0 THEN own ELSE NodeAbove(id, path[i], out[i - 1])
      <3>1. i # 0 => i - 1 \in 0..(n + 1) /\ i - 1 <= n
        OBVIOUS
      <3>2. i # 0 => out[i - 1] = g[i - 1]
        BY <3>1
      <3>3. i <= n => g[i] = IF i = 0 THEN own ELSE NodeAbove(id, path[i], g[i - 1])
        BY <2>1 DEF IsClimb
      <3> QED BY <3>2, <3>3
    <2>3. out = [i \in 0..(n + 1) |-> IF i = 0 THEN own ELSE NodeAbove(id, path[i], out[i - 1])]
      BY <2>2
    <2> HIDE DEF out
    <2> QED BY <2>3 DEF IsClimb
  <1>3. T = Nat
    <2> HIDE DEF T
    <2>1. T \in SUBSET Nat
      BY DEF T
    <2> QED BY <1>1, <1>2, <2>1, Induction
  <1> QED BY <1>3

\* What a path of nodes leads to.
ClimbTo(id, own, path) == (CHOOSE out : IsClimb(out, id, own, path, Len(path)))[Len(path)]

LEMMA ClimbIs ==
    ASSUME NEW id, NEW own, NEW path, Len(path) \in Nat
    PROVE  \E out : IsClimb(out, id, own, path, Len(path)) /\ ClimbTo(id, own, path) = out[Len(path)]
  <1> DEFINE out == CHOOSE f : IsClimb(f, id, own, path, Len(path))
  <1>1. IsClimb(out, id, own, path, Len(path))
    BY ClimbExists
  <1>2. ClimbTo(id, own, path) = out[Len(path)]
    BY DEF ClimbTo
  <1> HIDE DEF out
  <1> QED BY <1>1, <1>2

\* CalculateStateTreeOutput climbs from the node of the unit.
LEMMA OutputClimbs ==
    ASSUME NEW p
    PROVE  CalculateStateTreeOutput(p) = ClimbTo(p.id, OwnNode(p), p.stateCert.path)
  BY DEF CalculateStateTreeOutput, ClimbTo, IsClimb, OwnNode, NodeAbove, LogRootOf

LEMMA ClimbNowhere ==
    ASSUME NEW id, NEW own
    PROVE  ClimbTo(id, own, << >>) = own
  <1>1. Len(<< >>) = 0
    OBVIOUS
  <1>2. PICK out : IsClimb(out, id, own, << >>, 0) /\ ClimbTo(id, own, << >>) = out[0]
    BY <1>1, ClimbIs
  <1> QED BY <1>2 DEF IsClimb

\* A step at the end of a path.
LEMMA ClimbOn ==
    ASSUME NEW id, NEW own, NEW path, IsSequence(path), NEW item
    PROVE  ClimbTo(id, own, Append(path, item)) = NodeAbove(id, item, ClimbTo(id, own, path))
  <1> DEFINE longer == Append(path, item)
             n == Len(path)
  <1>1. /\ n \in Nat /\ Len(longer) = n + 1 /\ longer[n + 1] = item
        /\ \A i \in 1..n : path[i] = longer[i]
    BY AppendToSequence
  <1> HIDE DEF longer
  <1>2. PICK g : IsClimb(g, id, own, path, n) /\ ClimbTo(id, own, path) = g[n]
    BY <1>1, ClimbIs
  <1>3. PICK h : IsClimb(h, id, own, longer, n + 1) /\ ClimbTo(id, own, longer) = h[n + 1]
    BY <1>1, ClimbIs
  <1> HIDE DEF n
  <1> DEFINE T == {k \in Nat : k <= n => g[k] = h[k]}
  <1>4. 0 \in T
    <2>1. g[0] = own
      BY <1>1, <1>2 DEF IsClimb
    <2>2. h[0] = own
      BY <1>1, <1>3 DEF IsClimb
    <2> QED BY <2>1, <2>2
  <1>5. ASSUME NEW k \in T PROVE k + 1 \in T
    <2> SUFFICES ASSUME k + 1 <= n PROVE g[k + 1] = h[k + 1]
      OBVIOUS
    <2>1. k \in Nat /\ k + 1 \in 1..n /\ k <= n /\ k + 1 <= n + 1 /\ n + 1 \in Nat
      BY <1>1
    <2>2. g[k + 1] = NodeAbove(id, path[k + 1], g[k])
      BY <1>1, <1>2, <2>1, ClimbAt
    <2>3. h[k + 1] = NodeAbove(id, longer[k + 1], h[k])
      BY <1>1, <1>3, <2>1, ClimbAt
    <2> QED BY <1>1, <2>1, <2>2, <2>3
  <1>6. T = Nat
    <2> HIDE DEF T
    <2>1. T \in SUBSET Nat
      BY DEF T
    <2> QED BY <1>4, <1>5, <2>1, Induction
  <1>7. g[n] = h[n]
    <2>1. n \in T
      <3> HIDE DEF T
      <3> QED BY <1>1, <1>6
    <2>2. n <= n
      BY <1>1
    <2> QED BY <2>1, <2>2
  <1>8. h[n + 1] = NodeAbove(id, longer[n + 1], h[n])
    <2>1. n + 1 \in 0..(n + 1) /\ n + 1 # 0 /\ (n + 1) - 1 = n
      BY <1>1
    <2> QED BY <1>3, <2>1 DEF IsClimb
  <1> QED BY <1>1, <1>2, <1>3, <1>7, <1>8 DEF longer

\* Sums that wrap around: what is added to the same is the same.
LEMMA SameAddend ==
    ASSUME NEW a \in 0..(SummarySize - 1), NEW b \in 0..(SummarySize - 1),
           NEW l \in Nat, NEW r \in Nat, Sum(a, l, r) = Sum(b, l, r)
    PROVE  a = b
  <1> DEFINE S == SummarySize
             x == a + l + r
             y == b + l + r
             i == x \div S
             j == y \div S
  <1>1. S \in Nat /\ S > 0
    BY ValueAssumption
  <1>2. x \in Nat /\ y \in Nat /\ x - y = a - b /\ a - b < S /\ b - a < S
    BY <1>1
  <1>3. x % S = y % S
    BY DEF Sum
  <1> HIDE DEF S, x, y
  <1>4. i \in Int /\ x = S * i + (x % S) /\ x % S \in Int
    BY <1>1, <1>2
  <1>5. j \in Int /\ y = S * j + (y % S) /\ y % S \in Int
    BY <1>1, <1>2
  <1> HIDE DEF i, j
  <1>6. x - y = S * (i - j)
    <2>1. S * (i - j) = S * i - S * j /\ S * i \in Int /\ S * j \in Int
      BY <1>1, <1>4, <1>5
    <2> DEFINE u == S * i
               v == S * j
               m == x % S
    <2>2. x = u + m /\ y = v + m /\ u \in Int /\ v \in Int /\ m \in Int
      BY <1>3, <1>4, <1>5, <2>1
    <2> HIDE DEF u, v, m
    <2>3. x - y = u - v
      BY <2>2
    <2> QED BY <2>1, <2>3 DEF u, v
  <1>7. i = j
    <2> DEFINE d == i - j
    <2>1. d \in Int /\ S * d = a - b
      BY <1>2, <1>4, <1>5, <1>6
    <2> HIDE DEF d
    <2>2. CASE d >= 1
      <3>1. S * d >= S
        BY <1>1, <2>1, <2>2
      <3> QED BY <1>1, <1>2, <2>1, <3>1 DEF S
    <2>3. CASE d <= -1
      <3>1. S * d <= -S
        BY <1>1, <2>1, <2>3
      <3> QED BY <1>1, <1>2, <2>1, <3>1 DEF S
    <2>4. CASE d = 0
      BY <1>4, <1>5, <2>4 DEF d
    <2> QED BY <2>1, <2>2, <2>3, <2>4
  <1>8. a - b = 0
    BY <1>1, <1>2, <1>4, <1>5, <1>6, <1>7
  <1> QED BY <1>1, <1>8 DEF S

\* The units of a shard.
UnitsTyped(us, p, s) ==
    /\ us = [id \in DOMAIN us |-> us[id]]
    /\ IsFiniteSet(DOMAIN us)
    /\ DOMAIN us \subseteq UnitIDs(p)
    /\ \A id \in DOMAIN us : UnitIDValidator(p, s, id) /\ IsUnit(us[id])

\* node is the tree of the units us, of which there are n, in the order ids.
IsTreeOf(node, ids, us, shape, n) ==
    /\ \A lo \in 1..(n + 1) : \A hi \in 0..n : lo > hi => node[<<lo, hi>>] = EmptyNode
    /\ \A lo \in 1..n : \A hi \in 1..n : lo <= hi =>
         \E r \in 1..n :
            /\ r = Root(shape, lo, hi) /\ lo <= r /\ r <= hi
            /\ node[<<lo, hi>>] = NodeOver(ids[r], us[ids[r]], node[<<lo, r - 1>>], node[<<r + 1, hi>>])
    /\ \A lo \in 1..(n + 1) : \A hi \in 0..n : node[<<lo, hi>>].summary \in Nat

LEMMA TreeOfUnits ==
    ASSUME NEW p, NEW s, IsValidPDR(p, s), NEW us, UnitsTyped(us, p, s), DOMAIN us # {}, NEW shape
    PROVE  /\ IsOrdering(Ordered(us), DOMAIN us)
           /\ Cardinality(DOMAIN us) \in Nat \ {0}
           /\ IsTreeOf(StateTree(us, shape), Ordered(us), us, shape, Cardinality(DOMAIN us))
  <1> DEFINE D == DOMAIN us
             n == Cardinality(D)
             ids == Ordered(us)
             node == StateTree(us, shape)
             A == 1..(n + 1)
             B == 0..n
  <1>1. IsOrdering(ids, D)
    BY OrderedIs DEF UnitsTyped
  <1>2. n \in Nat \ {0}
    <2>1. IsFiniteSet(D)
      BY DEF UnitsTyped
    <2> QED BY <2>1, FS_CardinalityType, FS_EmptySet
  <1>3. IsStateTree(node, us, ids, shape, n)
    <2>1. Len(ids) = n /\ Len(ids) \in Nat
      BY <1>1 DEF IsOrdering
    <2> HIDE DEF node, n
    <2>2. IsStateTree(StateTree(us, shape), us, ids, shape, Len(ids))
      BY <2>1, StateTreeIs
    <2> QED BY <2>1, <2>2 DEF node
  <1>4. \A r \in 1..n : ids[r] \in D
    BY <1>1 DEF IsOrdering
  <1>5. \A id \in D : Value(LatestState(us[id])) \in 0..(SummarySize - 1)
    <2>1. \A id \in D : IsUnit(us[id])
      BY DEF UnitsTyped
    <2>2. \A id \in D : LatestState(us[id]) \in UnitStates
      BY <2>1, LogIs
    <2> QED BY <2>2, ValueAssumption
  <1> HIDE DEF n, ids, node
  <1>6. \A lo \in A : \A hi \in B : node[<<lo, hi>>] = NodeAt(node, us, ids, shape, lo, hi)
    BY <1>3 DEF IsStateTree
  <1>7. \A lo \in A : \A hi \in B : lo > hi => node[<<lo, hi>>] = EmptyNode
    BY <1>6 DEF NodeAt
  <1>8. ASSUME NEW lo \in 1..n, NEW hi \in 1..n, lo <= hi
        PROVE  \E r \in 1..n :
                  /\ r = Root(shape, lo, hi) /\ lo <= r /\ r <= hi
                  /\ node[<<lo, hi>>] = NodeOver(ids[r], us[ids[r]], node[<<lo, r - 1>>], node[<<r + 1, hi>>])
    <2> DEFINE r == Root(shape, lo, hi)
    <2>1. r \in lo..hi
      <3>1. lo \in Nat /\ hi \in Nat
        BY <1>2
      <3> QED BY <1>8, <3>1, RootInside
    <2>2. node[<<lo, hi>>] = NodeOver(ids[r], us[ids[r]], node[<<lo, r - 1>>], node[<<r + 1, hi>>])
      <3>1. lo \in A /\ hi \in B /\ ~(lo > hi)
        BY <1>2, <1>8
      <3> QED BY <1>6, <3>1 DEF NodeAt
    <2>3. r = Root(shape, lo, hi)
      OBVIOUS
    <2> HIDE DEF r
    <2>4. r \in 1..n /\ lo <= r /\ r <= hi
      BY <1>2, <2>1
    <2> QED BY <2>2, <2>3, <2>4
  <1> DEFINE P(k) == \A lo \in A : \A hi \in B : hi + 1 <= lo + k => node[<<lo, hi>>].summary \in Nat
             T == {k \in Nat : P(k)}
  <1>9. P(0)
    <2> SUFFICES ASSUME NEW lo \in A, NEW hi \in B, hi + 1 <= lo + 0
                 PROVE  node[<<lo, hi>>].summary \in Nat
      OBVIOUS
    <2>1. lo > hi
      BY <1>2
    <2>2. node[<<lo, hi>>] = EmptyNode
      BY <1>7, <2>1
    <2> QED BY <2>2 DEF EmptyNode
  <1>10. ASSUME NEW k \in Nat, P(k) PROVE P(k + 1)
    <2> SUFFICES ASSUME NEW lo \in A, NEW hi \in B, hi + 1 <= lo + (k + 1)
                 PROVE  node[<<lo, hi>>].summary \in Nat
      OBVIOUS
    <2>1. CASE lo > hi
      BY <1>7, <2>1 DEF EmptyNode
    <2>2. CASE ~(lo > hi)
      <3>1. lo \in 1..n /\ hi \in 1..n /\ lo <= hi
        BY <1>2, <2>2
      <3>2. PICK r \in 1..n :
              /\ lo <= r /\ r <= hi
              /\ node[<<lo, hi>>] = NodeOver(ids[r], us[ids[r]], node[<<lo, r - 1>>], node[<<r + 1, hi>>])
        BY <1>8, <3>1
      <3> DEFINE x == node[<<lo, r - 1>>].summary
                 y == node[<<r + 1, hi>>].summary
                 v == Value(LatestState(us[ids[r]]))
      <3>3. x \in Nat /\ y \in Nat
        <4>1. r - 1 \in B /\ r + 1 \in A /\ (r - 1) + 1 <= lo + k /\ hi + 1 <= (r + 1) + k
          BY <1>2, <3>2
        <4> QED BY <1>10, <4>1
      <3>4. v \in Nat
        BY <1>4, <1>5, ValueAssumption
      <3>5. node[<<lo, hi>>].summary = Sum(v, x, y)
        BY <3>2 DEF NodeOver
      <3> HIDE DEF v, x, y
      <3>6. Sum(v, x, y) \in Nat
        BY <3>3, <3>4, ValueAssumption DEF Sum
      <3> QED BY <3>5, <3>6
    <2> QED BY <2>1, <2>2
  <1>11. \A lo \in A : \A hi \in B : node[<<lo, hi>>].summary \in Nat
    <2>1. T \in SUBSET Nat /\ 0 \in T /\ \A k \in T : k + 1 \in T
      <3> HIDE DEF P
      <3> QED BY <1>9, <1>10
    <2>2. n + 1 \in T
      <3>1. n + 1 \in Nat
        BY <1>2
      <3> HIDE DEF T
      <3> QED BY <2>1, <3>1, Induction
    <2>3. P(n + 1)
      <3> HIDE DEF P
      <3> QED BY <2>2
    <2>4. \A lo \in A : \A hi \in B : hi + 1 <= lo + (n + 1)
      BY <1>2
    <2> QED BY <2>3, <2>4
  <1>12. IsTreeOf(node, ids, us, shape, n)
    BY <1>7, <1>8, <1>11 DEF IsTreeOf
  <1> QED BY <1>1, <1>2, <1>12 DEF n, ids, node

\* The hashes of nodes.
LEMMA NodesDiffer ==
    /\ \A a, b, c, d, e : computeHash(a, b, c, d, e) # NoHash
    /\ \A a, b, c, d, e, f, g, h, i, j :
          computeHash(a, b, c, d, e) = computeHash(f, g, h, i, j)
            => a = f /\ b = g /\ c = h /\ d = i /\ e = j
  BY DEF computeHash, NoHash

\* What a proof that leads to the root of a state tree proves.
Proves(q, st, us) ==
    /\ q.id \in DOMAIN us
    /\ \E i \in DOMAIN us[q.id].log :
          /\ Tells(st, us[q.id].log[i].state)
          /\ LedgerHash(q.ledger, q.unitCert.txr) = LedgerAfter(us[q.id], i)
    /\ q.value \in 0..(SummarySize - 1) => q.value = Value(LatestState(us[q.id]))

\* A proof that leads to the root of a state tree is of a unit in it, of a
\* state and a ledger hash in its log, and of its value: the node of the unit
\* and those on the path are the nodes of the tree, from the root down.
LEMMA UnitOfState ==
    ASSUME NEW p, NEW s, IsValidPDR(p, s), NEW us, UnitsTyped(us, p, s), DOMAIN us # {}, NEW shape,
           NEW q, Len(q.unitCert.path) \in Nat, Len(q.stateCert.path) \in Nat,
           NEW st \in UnitStates \cup Presented, q.unitCert.state = StateHash(st),
           CalculateStateTreeOutput(q) = StateTree(us, shape)[<<1, Cardinality(DOMAIN us)>>]
    PROVE  Proves(q, st, us)
  <1> DEFINE D == DOMAIN us
             n == Cardinality(D)
             ids == Ordered(us)
             node == StateTree(us, shape)
             path == q.stateCert.path
             m == Len(path)
             own == OwnNode(q)
  <1>1. IsOrdering(ids, D) /\ n \in Nat \ {0} /\ IsTreeOf(node, ids, us, shape, n)
    BY TreeOfUnits
  <1>2. m \in Nat
    OBVIOUS
  <1>3. PICK out : IsClimb(out, q.id, own, path, m) /\ node[<<1, n>>] = out[m]
    BY OutputClimbs, ClimbIs
  <1>4. out[0] = own
    BY <1>2, <1>3 DEF IsClimb
  <1>5. \A k \in Nat : k + 1 <= m => out[k + 1] = NodeAbove(q.id, path[k + 1], out[k])
    <2> HIDE DEF own, path, m
    <2> QED BY <1>2, <1>3, ClimbAt
  <1> HIDE DEF n, ids, node, m, own
  <1> DEFINE P(k) == k <= m =>
               /\ out[k].hash # NoHash
               /\ \A lo \in 1..n : \A hi \in 1..n : lo <= hi /\ out[k] = node[<<lo, hi>>] =>
                    \E a \in 1..n : \E b \in 1..n : a <= b /\ own = node[<<a, b>>]
  <1>6. P(0)
    <2>1. own.hash # NoHash
      BY NodesDiffer DEF own, OwnNode
    <2> QED BY <1>4, <2>1
  <1>7. ASSUME NEW k \in Nat, P(k) PROVE P(k + 1)
    <2> SUFFICES ASSUME k + 1 <= m
                 PROVE  /\ out[k + 1].hash # NoHash
                        /\ \A lo \in 1..n : \A hi \in 1..n :
                             lo <= hi /\ out[k + 1] = node[<<lo, hi>>] =>
                               \E a \in 1..n : \E b \in 1..n : a <= b /\ own = node[<<a, b>>]
      OBVIOUS
    <2>1. /\ out[k].hash # NoHash
          /\ \A lo \in 1..n : \A hi \in 1..n : lo <= hi /\ out[k] = node[<<lo, hi>>] =>
               \E a \in 1..n : \E b \in 1..n : a <= b /\ own = node[<<a, b>>]
      <3>1. k <= m
        BY <1>2
      <3> QED BY <1>7, <3>1
    <2>2. \E x, y, v, z : \/ out[k + 1].hash = computeHash(x, y, v, out[k], z)
                          \/ out[k + 1].hash = computeHash(x, y, v, z, out[k])
      <3>1. out[k + 1] = NodeAbove(q.id, path[k + 1], out[k])
        BY <1>5
      <3> DEFINE item == path[k + 1]
                 below == out[k]
                 u == Sum(item.value, below.summary, item.sibling.summary)
      <3>2. out[k + 1].hash = IF Less(q.id, item.id)
                              THEN computeHash(item.id, item.log, u, below, item.sibling)
                              ELSE computeHash(item.id, item.log, u, item.sibling, below)
        BY <3>1 DEF NodeAbove
      <3> HIDE DEF u, item
      <3>3. CASE Less(q.id, item.id)
        BY <3>2, <3>3
      <3>4. CASE ~Less(q.id, item.id)
        BY <3>2, <3>4
      <3> QED BY <3>3, <3>4
    <2>3. out[k + 1].hash # NoHash
      BY <2>2, NodesDiffer
    <2>4. ASSUME NEW lo \in 1..n, NEW hi \in 1..n, lo <= hi, out[k + 1] = node[<<lo, hi>>]
          PROVE  \E a \in 1..n : \E b \in 1..n : a <= b /\ own = node[<<a, b>>]
      <3>1. PICK r \in 1..n :
              /\ lo <= r /\ r <= hi
              /\ node[<<lo, hi>>] = NodeOver(ids[r], us[ids[r]], node[<<lo, r - 1>>], node[<<r + 1, hi>>])
        BY <1>1, <2>4 DEF IsTreeOf
      <3>2. \E x, y, v : out[k + 1].hash = computeHash(x, y, v, node[<<lo, r - 1>>], node[<<r + 1, hi>>])
        BY <2>4, <3>1 DEF NodeOver
      <3>3. out[k] = node[<<lo, r - 1>>] \/ out[k] = node[<<r + 1, hi>>]
        BY <2>2, <3>2, NodesDiffer
      <3>4. \A i \in 1..(n + 1) : \A j \in 0..n : i > j => node[<<i, j>>].hash = NoHash
        <4>1. EmptyNode.hash = NoHash
          BY DEF EmptyNode
        <4>2. \A i \in 1..(n + 1) : \A j \in 0..n : i > j => node[<<i, j>>] = EmptyNode
          BY <1>1 DEF IsTreeOf
        <4> QED BY ONLY <4>1, <4>2
      <3>5. CASE out[k] = node[<<lo, r - 1>>]
        <4>1. lo \in 1..(n + 1) /\ r - 1 \in 0..n
          BY <1>1
        <4>2. ~(lo > r - 1)
          BY <2>1, <3>4, <3>5, <4>1
        <4>3. lo <= r - 1 /\ r - 1 \in 1..n
          BY <1>1, <4>1, <4>2
        <4> QED BY <2>1, <3>5, <4>3
      <3>6. CASE out[k] = node[<<r + 1, hi>>]
        <4>1. r + 1 \in 1..(n + 1) /\ hi \in 0..n
          BY <1>1
        <4>2. ~(r + 1 > hi)
          BY <2>1, <3>4, <3>6, <4>1
        <4>3. r + 1 <= hi /\ r + 1 \in 1..n
          BY <1>1, <4>1, <4>2
        <4> QED BY <2>1, <3>6, <4>3
      <3> QED BY <3>3, <3>5, <3>6
    <2> QED BY <2>3, <2>4
  <1>8. P(m)
    <2> DEFINE T == {k \in Nat : P(k)}
    <2> HIDE DEF P
    <2>1. T \in SUBSET Nat /\ 0 \in T /\ \A k \in T : k + 1 \in T
      BY <1>6, <1>7
    <2>2. m \in T
      <3> HIDE DEF T
      <3> QED BY <1>2, <2>1, Induction
    <2> QED BY <2>2
  <1>9. PICK a \in 1..n, b \in 1..n : a <= b /\ own = node[<<a, b>>]
    <2>1. 1 \in 1..n /\ n \in 1..n /\ 1 <= n /\ m <= m
      BY <1>1, <1>2
    <2> QED BY <1>3, <1>8, <2>1
  <1>10. PICK r \in 1..n :
           /\ a <= r /\ r <= b
           /\ node[<<a, b>>] = NodeOver(ids[r], us[ids[r]], node[<<a, r - 1>>], node[<<r + 1, b>>])
    BY <1>1, <1>9 DEF IsTreeOf
  <1> DEFINE unit == us[ids[r]]
             left == node[<<a, r - 1>>]
             right == node[<<r + 1, b>>]
             value == Value(LatestState(unit))
  <1>11. ids[r] \in D /\ IsUnit(unit)
    <2>1. ids[r] \in D
      BY <1>1 DEF IsOrdering, n
    <2> QED BY <2>1 DEF UnitsTyped
  <1>12. own.hash = computeHash(q.id, LogRootOf(q),
                                Sum(q.value, q.stateCert.left.summary, q.stateCert.right.summary),
                                q.stateCert.left, q.stateCert.right)
    BY DEF own, OwnNode
  <1>13. own.hash = computeHash(ids[r], GetRootHash(LogHashes(unit)),
                                Sum(value, left.summary, right.summary), left, right)
    BY <1>9, <1>10 DEF NodeOver
  <1> HIDE DEF unit, left, right, value
  <1>14. /\ q.id = ids[r] /\ LogRootOf(q) = GetRootHash(LogHashes(unit))
         /\ q.stateCert.left = left /\ q.stateCert.right = right
         /\ Sum(q.value, q.stateCert.left.summary, q.stateCert.right.summary)
              = Sum(value, left.summary, right.summary)
    <2> DEFINE x == Sum(q.value, q.stateCert.left.summary, q.stateCert.right.summary)
               y == Sum(value, left.summary, right.summary)
               g == GetRootHash(LogHashes(unit))
    <2>1. computeHash(q.id, LogRootOf(q), x, q.stateCert.left, q.stateCert.right)
            = computeHash(ids[r], g, y, left, right)
      BY <1>12, <1>13
    <2> HIDE DEF x, y, g
    <2>2. /\ q.id = ids[r] /\ LogRootOf(q) = g /\ x = y
          /\ q.stateCert.left = left /\ q.stateCert.right = right
      BY ONLY <2>1, NodesDiffer
    <2> QED BY <2>2 DEF x, y, g
  <1>15. PICK i \in 1..Len(unit.log) :
           /\ Tells(st, unit.log[i].state)
           /\ LedgerHash(q.ledger, q.unitCert.txr) = LedgerAfter(unit, i)
    <2> DEFINE x == LedgerHash(q.ledger, q.unitCert.txr)
               y == Written(st)
               way == q.unitCert.path
    <2>1. LogRootOf(q) = PlainTreeOutput(way, NodeHash(x, StateHash(st)))
      BY DEF LogRootOf, EntryHash
    <2>2. StateHash(st) = <<"state", y>>
      BY DEF StateHash
    <2>3. Len(way) \in Nat
      OBVIOUS
    <2> HIDE DEF x, y, way
    <2>4. PICK i \in 1..Len(unit.log) : NodeHash(x, StateHash(st)) = LogHashes(unit)[i]
      <3>1. PlainTreeOutput(way, NodeHash(x, <<"state", y>>)) = GetRootHash(LogHashes(unit))
        BY <1>14, <2>1, <2>2
      <3>2. \E i \in 1..Len(unit.log) : NodeHash(x, <<"state", y>>) = LogHashes(unit)[i]
        BY <1>11, <2>3, <3>1, EntryOfLog
      <3> QED BY <2>2, <3>2
    <2>5. /\ unit.log[i].state \in UnitStates
          /\ LogHashes(unit)[i] = NodeHash(LedgerAfter(unit, i), StateHash(unit.log[i].state))
      BY <1>11, LogIs
    <2>6. x = LedgerAfter(unit, i) /\ StateHash(unit.log[i].state) = StateHash(st)
      BY <2>4, <2>5, TermsDiffer
    <2>7. Tells(st, unit.log[i].state)
      <3> DEFINE t == unit.log[i].state
      <3>1. t \in UnitStates /\ StateHash(t) = StateHash(st)
        BY <2>5, <2>6
      <3> HIDE DEF t
      <3>2. Tells(st, t)
        BY <3>1, StateHashFixes
      <3> QED BY <3>2 DEF t
    <2> QED BY <2>6, <2>7 DEF x
  <1>16. DOMAIN unit.log = 1..Len(unit.log)
    BY <1>11, EntriesAre
  <1>17. ASSUME q.value \in 0..(SummarySize - 1) PROVE q.value = value
    <2> DEFINE x == left.summary
               y == right.summary
    <2>1. x \in Nat /\ y \in Nat
      <3>1. /\ a \in 1..(n + 1) /\ r - 1 \in 0..n
            /\ r + 1 \in 1..(n + 1) /\ b \in 0..n
        BY <1>1
      <3> QED BY <1>1, <3>1 DEF IsTreeOf, left, right
    <2>2. value \in 0..(SummarySize - 1)
      <3>1. LatestState(unit) \in UnitStates
        BY <1>11, LogIs
      <3> QED BY <3>1, ValueAssumption DEF value
    <2>3. Sum(q.value, x, y) = Sum(value, x, y)
      BY <1>14
    <2> HIDE DEF x, y
    <2> DEFINE v == q.value
    <2>4. v \in 0..(SummarySize - 1) /\ Sum(v, x, y) = Sum(value, x, y)
      BY <1>17, <2>3
    <2> HIDE DEF v
    <2>5. v = value
      BY <2>1, <2>2, <2>4, SameAddend
    <2> QED BY <2>5 DEF v
  <1>18. us[q.id] = unit /\ q.id \in D
    BY <1>11, <1>14 DEF unit
  <1> QED BY <1>15, <1>16, <1>17, <1>18 DEF Proves, value

\* The certificate for an interval from that for the part of it the k-th unit is in.

CertAt(cert, us, ids, node, shape, k, lo, hi) ==
    LET r == Root(shape, lo, hi)
        left == node[<<lo, r - 1>>]
        right == node[<<r + 1, hi>>]
    IN  IF r = k THEN [left |-> left, right |-> right, path |-> << >>]
        ELSE IF k < r THEN Extended(cert[<<lo, r - 1>>], PathItem(us, ids[r], right))
        ELSE Extended(cert[<<r + 1, hi>>], PathItem(us, ids[r], left))

\* The recursion of StateTreeCert.
IsCertOf(cert, us, ids, node, shape, k, n) ==
    cert = [s \in (1..k) \X (k..n) |-> CertAt(cert, us, ids, node, shape, k, s[1], s[2])]

\* The recursion of StateTreeCert has a solution.
LEMMA CertExists ==
    ASSUME NEW n \in Nat, NEW k \in 1..n, NEW us, NEW ids, NEW node, NEW shape
    PROVE  \E cert : IsCertOf(cert, us, ids, node, shape, k, n)
  <1> DEFINE A == 1..k
             B == k..n
             At2(cert, lo, hi) == CertAt(cert, us, ids, node, shape, k, lo, hi)
             F(cert) == cert = [s \in A \X B |-> cert[s]]
             P(cert, j) == \A lo \in A : \A hi \in B :
                             hi + 1 <= lo + j => cert[<<lo, hi>>] = At2(cert, lo, hi)
             T == {j \in Nat : \E cert : F(cert) /\ P(cert, j)}
  <1>1. 0 \in T
    <2> DEFINE cert == [s \in A \X B |-> EmptyNode]
    <2>1. F(cert)
      OBVIOUS
    <2>2. \A lo \in A : \A hi \in B : ~(hi + 1 <= lo + 0)
      OBVIOUS
    <2>3. P(cert, 0)
      BY <2>2
    <2> HIDE DEF cert, P, F
    <2> QED BY <2>1, <2>3
  <1>2. ASSUME NEW j \in T PROVE j + 1 \in T
    <2>1. PICK f : F(f) /\ P(f, j)
      OBVIOUS
    <2> DEFINE g == [s \in A \X B |-> IF s[2] + 1 <= s[1] + j THEN f[s] ELSE At2(f, s[1], s[2])]
    <2>2. \A lo \in A : \A hi \in B :
             g[<<lo, hi>>] = IF hi + 1 <= lo + j THEN f[<<lo, hi>>] ELSE At2(f, lo, hi)
      OBVIOUS
    <2>3. F(g)
      OBVIOUS
    <2> HIDE DEF g
    <2>4. ASSUME NEW lo \in A, NEW hi \in B, hi + 1 <= lo + (j + 1)
          PROVE  g[<<lo, hi>>] = At2(g, lo, hi)
      <3>1. g[<<lo, hi>>] = At2(f, lo, hi)
        <4>1. CASE hi + 1 <= lo + j
          <5>1. f[<<lo, hi>>] = At2(f, lo, hi)
            BY <2>1, <4>1
          <5> QED BY <2>2, <4>1, <5>1
        <4>2. CASE ~(hi + 1 <= lo + j)
          BY <2>2, <4>2
        <4> QED BY <4>1, <4>2
      <3>2. At2(g, lo, hi) = At2(f, lo, hi)
        <4> DEFINE r == Root(shape, lo, hi)
        <4>1. r \in lo..hi
          <5>1. lo \in Nat /\ hi \in Nat /\ lo <= hi
            OBVIOUS
          <5> QED BY <5>1, RootInside
        <4> HIDE DEF r
        <4>2. CASE r = k
          <5>1. ~(k < r) /\ ~(k > r)
            BY <4>2
          <5> QED BY <4>2, <5>1 DEF CertAt, r
        <4>3. CASE k < r
          <5>1. r # k /\ ~(k > r) /\ r - 1 \in B /\ (r - 1) + 1 <= lo + j
            BY <2>4, <4>1, <4>3
          <5>2. g[<<lo, r - 1>>] = f[<<lo, r - 1>>]
            BY <2>2, <5>1
          <5> QED BY <4>3, <5>1, <5>2 DEF CertAt, r
        <4>4. CASE k > r
          <5>1. r # k /\ ~(k < r) /\ r + 1 \in A /\ hi + 1 <= (r + 1) + j
            BY <2>4, <4>1, <4>4
          <5>2. g[<<r + 1, hi>>] = f[<<r + 1, hi>>]
            BY <2>2, <5>1
          <5> QED BY <4>4, <5>1, <5>2 DEF CertAt, r
        <4> QED BY <4>1, <4>2, <4>3, <4>4
      <3> QED BY <3>1, <3>2
    <2>5. P(g, j + 1)
      BY <2>4
    <2>6. j + 1 \in Nat
      OBVIOUS
    <2> HIDE DEF P, F
    <2> QED BY <2>3, <2>5, <2>6
  <1>3. T = Nat
    <2> HIDE DEF T
    <2>1. T \in SUBSET Nat
      BY DEF T
    <2> QED BY <1>1, <1>2, <2>1, Induction
  <1>4. PICK cert : F(cert) /\ P(cert, n)
    <2>1. n \in T
      <3> HIDE DEF T
      <3> QED BY <1>3
    <2> QED BY <2>1
  <1>5. ASSUME NEW lo \in A, NEW hi \in B PROVE cert[<<lo, hi>>] = At2(cert, lo, hi)
    <2>1. hi + 1 <= lo + n
      OBVIOUS
    <2> QED BY <1>4, <2>1
  <1>6. \A s \in A \X B : cert[s] = CertAt(cert, us, ids, node, shape, k, s[1], s[2])
    BY <1>5
  <1>7. cert = [s \in A \X B |-> CertAt(cert, us, ids, node, shape, k, s[1], s[2])]
    BY ONLY <1>4, <1>6 DEF F
  <1> QED BY <1>7 DEF IsCertOf

\* The node of the k-th unit with the subtrees of a certificate.
NodeOfCert(us, ids, k, c) == NodeOver(ids[k], us[ids[k]], c.left, c.right)

\* A certificate is one, and leads from the k-th unit to a node.
LeadsTo(c, us, ids, k, top) ==
    /\ c = [left |-> c.left, right |-> c.right, path |-> c.path]
    /\ IsSequence(c.path)
    /\ ClimbTo(ids[k], NodeOfCert(us, ids, k, c), c.path) = top

\* The sibling to the left is added in another order.
LEMMA SumCommutes ==
    ASSUME NEW a \in Nat, NEW b \in Nat, NEW c \in Nat
    PROVE  Sum(a, b, c) = Sum(a, c, b)
  <1>1. a + b + c = a + c + b
    OBVIOUS
  <1> QED BY <1>1 DEF Sum

\* The certificate of a unit leads from its node to the root.
LEMMA CertLeads ==
    ASSUME NEW p, NEW s, IsValidPDR(p, s), NEW us, UnitsTyped(us, p, s), DOMAIN us # {}, NEW shape,
           NEW k \in 1..Cardinality(DOMAIN us)
    PROVE  LeadsTo(StateTreeCert(us, shape, k), us, Ordered(us), k,
                   StateTree(us, shape)[<<1, Cardinality(DOMAIN us)>>])
  <1> DEFINE D == DOMAIN us
             n == Cardinality(D)
             ids == Ordered(us)
             node == StateTree(us, shape)
             cert == CHOOSE f : IsCertOf(f, us, ids, node, shape, k, n)
             A == 1..k
             B == k..n
  <1>1. IsOrdering(ids, D) /\ n \in Nat \ {0} /\ IsTreeOf(node, ids, us, shape, n)
    BY TreeOfUnits
  <1>2. Len(ids) = n
    BY <1>1 DEF IsOrdering
  <1>3. StateTreeCert(us, shape, k) = cert[<<1, n>>]
    <2> HIDE DEF ids, node, n
    <2>1. StateTreeCert(us, shape, k)
            = (CHOOSE f : IsCertOf(f, us, ids, node, shape, k, Len(ids)))[<<1, Len(ids)>>]
      BY DEF StateTreeCert, IsCertOf, CertAt, ids, node
    <2> QED BY <1>2, <2>1
  <1>4. IsCertOf(cert, us, ids, node, shape, k, n)
    <2> HIDE DEF ids, node
    <2>1. n \in Nat /\ k \in 1..n
      BY <1>1
    <2> HIDE DEF n
    <2> QED BY <2>1, CertExists
  <1>5. \A r \in 1..n : Value(LatestState(us[ids[r]])) \in Nat
    <2> SUFFICES ASSUME NEW r \in 1..n PROVE Value(LatestState(us[ids[r]])) \in Nat
      OBVIOUS
    <2>1. ids[r] \in D
      BY <1>1 DEF IsOrdering
    <2>2. IsUnit(us[ids[r]])
      BY <2>1 DEF UnitsTyped
    <2>3. LatestState(us[ids[r]]) \in UnitStates
      BY <2>2, LogIs
    <2> QED BY <2>3, ValueAssumption
  <1>6. /\ \A r \in 1..n : k < r => Less(ids[k], ids[r])
        /\ \A r \in 1..n : r < k => ~Less(ids[k], ids[r])
    BY <1>1 DEF IsOrdering
  <1>7. k \in 1..n
    OBVIOUS
  <1> HIDE DEF n, ids, node, cert
  <1>8. \A lo \in A : \A hi \in B : cert[<<lo, hi>>] = CertAt(cert, us, ids, node, shape, k, lo, hi)
    BY <1>4 DEF IsCertOf
  <1> DEFINE Good(lo, hi) == LeadsTo(cert[<<lo, hi>>], us, ids, k, node[<<lo, hi>>])
             P(j) == \A lo \in A : \A hi \in B : hi + 1 <= lo + j => Good(lo, hi)
             T == {j \in Nat : P(j)}
  <1>9. P(0)
    <2>1. \A lo \in A : \A hi \in B : ~(hi + 1 <= lo + 0)
      BY <1>1, <1>7
    <2> QED BY <2>1
  <1>10. ASSUME NEW j \in Nat, P(j) PROVE P(j + 1)
    <2> SUFFICES ASSUME NEW lo \in A, NEW hi \in B, hi + 1 <= lo + (j + 1)
                 PROVE  Good(lo, hi)
      OBVIOUS
    <2>1. lo \in 1..n /\ hi \in 1..n /\ lo <= hi /\ lo <= k /\ k <= hi
      BY <1>1, <1>7
    <2>2. PICK r \in 1..n :
            /\ r = Root(shape, lo, hi) /\ lo <= r /\ r <= hi
            /\ node[<<lo, hi>>] = NodeOver(ids[r], us[ids[r]], node[<<lo, r - 1>>], node[<<r + 1, hi>>])
      BY <1>1, <2>1 DEF IsTreeOf
    <2> DEFINE c == cert[<<lo, hi>>]
               left == node[<<lo, r - 1>>]
               right == node[<<r + 1, hi>>]
    <2>3. c = CertAt(cert, us, ids, node, shape, k, lo, hi)
      BY <1>8
    <2>4. left.summary \in Nat /\ right.summary \in Nat
      <3>1. lo \in 1..(n + 1) /\ r - 1 \in 0..n /\ r + 1 \in 1..(n + 1) /\ hi \in 0..n
        BY <1>1, <2>1
      <3> QED BY <1>1, <3>1 DEF IsTreeOf
    <2>5. CASE r = k
      <3>1. ~(k < r) /\ ~(k > r)
        BY <1>1, <2>5
      <3>2. c = [left |-> left, right |-> right, path |-> << >>]
        BY <2>2, <2>3, <2>5, <3>1 DEF CertAt
      <3> HIDE DEF c, left, right
      <3>3. c.left = left /\ c.right = right /\ c.path = << >>
        BY <3>2
      <3>4. NodeOfCert(us, ids, k, c) = node[<<lo, hi>>]
        BY <2>2, <2>5, <3>3 DEF NodeOfCert, left, right
      <3>5. ClimbTo(ids[k], NodeOfCert(us, ids, k, c), c.path) = node[<<lo, hi>>]
        BY <3>3, <3>4, ClimbNowhere
      <3>6. IsSequence(c.path)
        BY <3>3, NoSequence
      <3>7. c = [left |-> c.left, right |-> c.right, path |-> c.path]
        BY <3>2, <3>3
      <3> QED BY <3>5, <3>6, <3>7 DEF LeadsTo, c
    <2>6. ASSUME NEW d, NEW below, NEW sibling,
                 LeadsTo(d, us, ids, k, below),
                 c = Extended(d, PathItem(us, ids[r], sibling)),
                 NodeAbove(ids[k], PathItem(us, ids[r], sibling), below) = node[<<lo, hi>>]
          PROVE  Good(lo, hi)
      <3> DEFINE item == PathItem(us, ids[r], sibling)
      <3>1. d = [left |-> d.left, right |-> d.right, path |-> d.path]
        BY <2>6 DEF LeadsTo
      <3>2. c = [left |-> d.left, right |-> d.right, path |-> Append(d.path, item)]
        <4> HIDE DEF c
        <4>1. c = [d EXCEPT !.path = Append(d.path, item)]
          BY <2>6 DEF Extended
        <4> HIDE DEF item
        <4> QED BY <3>1, <4>1
      <3> HIDE DEF c
      <3>3. c.left = d.left /\ c.right = d.right /\ c.path = Append(d.path, item)
        BY <3>2
      <3>4. NodeOfCert(us, ids, k, c) = NodeOfCert(us, ids, k, d)
        BY <3>3 DEF NodeOfCert
      <3> DEFINE own == NodeOfCert(us, ids, k, d)
      <3>5. IsSequence(d.path) /\ ClimbTo(ids[k], own, d.path) = below
        BY <2>6 DEF LeadsTo
      <3> HIDE DEF own, item
      <3>6. ClimbTo(ids[k], own, Append(d.path, item)) = NodeAbove(ids[k], item, below)
        BY <3>5, ClimbOn
      <3>7. IsSequence(Append(d.path, item))
        BY <3>5, AppendToSequence
      <3>8. ClimbTo(ids[k], NodeOfCert(us, ids, k, c), c.path) = node[<<lo, hi>>]
        BY <2>6, <3>3, <3>4, <3>6 DEF own, item
      <3>9. c = [left |-> c.left, right |-> c.right, path |-> c.path]
        BY <3>2, <3>3
      <3> QED BY <3>3, <3>7, <3>8, <3>9 DEF LeadsTo, c
    <2>7. CASE k < r
      <3>1. r # k /\ ~(k > r) /\ r - 1 \in B /\ (r - 1) + 1 <= lo + j
        BY <1>1, <1>7, <2>1, <2>2, <2>7
      <3>2. LeadsTo(cert[<<lo, r - 1>>], us, ids, k, left)
        BY <1>10, <3>1
      <3>3. c = Extended(cert[<<lo, r - 1>>], PathItem(us, ids[r], right))
        BY <2>2, <2>3, <2>7, <3>1 DEF CertAt
      <3>4. NodeAbove(ids[k], PathItem(us, ids[r], right), left) = node[<<lo, hi>>]
        <4>1. Less(ids[k], ids[r])
          BY <1>6, <2>7
        <4> HIDE DEF left, right
        <4>2. node[<<lo, hi>>] = NodeOver(ids[r], us[ids[r]], left, right)
          BY <2>2 DEF left, right
        <4> DEFINE v == Value(LatestState(us[ids[r]]))
                   g == GetRootHash(LogHashes(us[ids[r]]))
                   i == ids[r]
                   item == PathItem(us, ids[r], right)
        <4>3. item.id = i /\ item.log = g /\ item.value = v /\ item.sibling = right
          BY DEF PathItem
        <4>4. NodeOver(ids[r], us[ids[r]], left, right)
                = [hash |-> computeHash(i, g, Sum(v, left.summary, right.summary), left, right),
                   summary |-> Sum(v, left.summary, right.summary)]
          BY DEF NodeOver
        <4>5. Less(ids[k], item.id)
          BY <4>1, <4>3
        <4> HIDE DEF v, g, i, item
        <4>6. NodeAbove(ids[k], item, left)
                = [hash |-> computeHash(i, g, Sum(v, left.summary, right.summary), left, right),
                   summary |-> Sum(v, left.summary, right.summary)]
          BY <4>3, <4>5 DEF NodeAbove
        <4> QED BY <4>2, <4>4, <4>6 DEF item
      <3> HIDE DEF c, left, right
      <3> QED BY <2>6, <3>2, <3>3, <3>4
    <2>8. CASE k > r
      <3>1. r # k /\ ~(k < r) /\ r + 1 \in A /\ hi + 1 <= (r + 1) + j
        BY <1>1, <1>7, <2>1, <2>2, <2>8
      <3>2. LeadsTo(cert[<<r + 1, hi>>], us, ids, k, right)
        BY <1>10, <3>1
      <3>3. c = Extended(cert[<<r + 1, hi>>], PathItem(us, ids[r], left))
        BY <2>2, <2>3, <2>8, <3>1 DEF CertAt
      <3>4. NodeAbove(ids[k], PathItem(us, ids[r], left), right) = node[<<lo, hi>>]
        <4>1. ~Less(ids[k], ids[r])
          <5>1. r < k
            BY <2>8, <1>7, <1>1
          <5> QED BY <1>6, <5>1
        <4> HIDE DEF left, right
        <4>2. node[<<lo, hi>>] = NodeOver(ids[r], us[ids[r]], left, right)
          BY <2>2 DEF left, right
        <4> DEFINE v == Value(LatestState(us[ids[r]]))
                   g == GetRootHash(LogHashes(us[ids[r]]))
                   i == ids[r]
                   item == PathItem(us, ids[r], left)
                   x == left.summary
                   y == right.summary
        <4>3. item.id = i /\ item.log = g /\ item.value = v /\ item.sibling = left
          BY DEF PathItem
        <4>4. NodeOver(ids[r], us[ids[r]], left, right)
                = [hash |-> computeHash(i, g, Sum(v, x, y), left, right), summary |-> Sum(v, x, y)]
          BY DEF NodeOver
        <4>5. ~Less(ids[k], item.id)
          BY <4>1, <4>3
        <4>6. Sum(v, x, y) = Sum(v, y, x)
          <5>1. v \in Nat /\ x \in Nat /\ y \in Nat
            BY <1>5, <2>4
          <5> HIDE DEF v, x, y
          <5> QED BY <5>1, SumCommutes
        <4> HIDE DEF v, g, i, item
        <4>7. NodeAbove(ids[k], item, right)
                = [hash |-> computeHash(i, g, Sum(v, y, x), left, right), summary |-> Sum(v, y, x)]
          BY <4>3, <4>5 DEF NodeAbove
        <4> QED BY <4>2, <4>4, <4>6, <4>7 DEF item
      <3> HIDE DEF c, left, right
      <3> QED BY <2>6, <3>2, <3>3, <3>4
    <2> QED BY <1>1, <1>7, <2>5, <2>7, <2>8
  <1>11. P(n)
    <2>1. T \in SUBSET Nat /\ 0 \in T /\ \A j \in T : j + 1 \in T
      <3> HIDE DEF P
      <3> QED BY <1>9, <1>10
    <2>2. n \in T
      <3> HIDE DEF T
      <3> QED BY <1>1, <2>1, Induction
    <2> HIDE DEF P
    <2> QED BY <2>2
  <1>12. Good(1, n)
    <2>1. 1 \in A /\ n \in B /\ n + 1 <= 1 + n
      BY <1>1, <1>7
    <2> HIDE DEF Good
    <2> QED BY <1>11, <2>1
  <1> QED BY <1>3, <1>12 DEF node, n, ids

\* A state that was certified.
IsCertified(c, p) ==
    /\ c.uc.shard \in NodeShards
    /\ UnitsTyped(c.units, p, c.uc.shard) /\ DOMAIN c.units # {}
    /\ LET root == StateTree(c.units, c.shape)[<<1, Cardinality(DOMAIN c.units)>>]
       IN  c.uc = [shard |-> c.uc.shard, hash |-> root.hash, summary |-> root.summary]

\* The units of the shards and of the certified states are those of the shard;
\* the certificates are of the roots of the state trees.
StateInv ==
    /\ pdr \in PDRs /\ \A s \in Scheme : IsValidPDR(pdr, s)
    /\ executed \in Nat
    /\ units = [s \in NodeShards |-> units[s]]
    /\ \A s \in NodeShards : UnitsTyped(units[s], pdr, s)
    /\ \A c \in certifiedStates : IsCertified(c, pdr)

\* The root of a state tree is a node.
LEMMA RootIs ==
    ASSUME NEW p, NEW s, IsValidPDR(p, s), NEW us, UnitsTyped(us, p, s), DOMAIN us # {}, NEW shape
    PROVE  LET root == StateTree(us, shape)[<<1, Cardinality(DOMAIN us)>>]
           IN  root = [hash |-> root.hash, summary |-> root.summary]
  <1> DEFINE n == Cardinality(DOMAIN us)
             node == StateTree(us, shape)
             ids == Ordered(us)
  <1>1. n \in Nat \ {0} /\ IsTreeOf(node, ids, us, shape, n)
    BY TreeOfUnits
  <1> HIDE DEF n, node, ids
  <1>2. 1 \in 1..n /\ n \in 1..n /\ 1 <= n
    BY <1>1
  <1>3. PICK r \in 1..n :
          node[<<1, n>>] = NodeOver(ids[r], us[ids[r]], node[<<1, r - 1>>], node[<<r + 1, n>>])
    BY <1>1, <1>2 DEF IsTreeOf
  <1>4. node[<<1, n>>] = [hash |-> node[<<1, n>>].hash, summary |-> node[<<1, n>>].summary]
    BY <1>3 DEF NodeOver
  <1> QED BY <1>4 DEF node, n

\* A unit that a transaction makes.
LEMMA NewUnit ==
    ASSUME NEW st \in UnitStates, NEW t \in Txrs
    PROVE  IsUnit([ledger |-> NoHash, log |-> <<[txr |-> t, state |-> st]>>])
  <1> DEFINE R == [txr : Txrs, state : UnitStates]
             e == [txr |-> t, state |-> st]
             log == <<e>>
  <1>1. e \in R
    OBVIOUS
  <1> HIDE DEF e, R
  <1>2. log \in Seq(R) /\ Len(log) > 0
    BY <1>1
  <1>3. IsLedger(NoHash)
    BY LedgerIs
  <1> HIDE DEF log
  <1> DEFINE unit == [ledger |-> NoHash, log |-> log]
  <1>4. unit.ledger = NoHash /\ unit.log = log /\ unit = [ledger |-> unit.ledger, log |-> unit.log]
    OBVIOUS
  <1> HIDE DEF unit
  <1>5. IsUnit(unit)
    BY ONLY <1>2, <1>3, <1>4, Zenon DEF IsUnit, R
  <1> QED BY <1>5 DEF unit, log, e

\* A unit after a transaction.
LEMMA ExecutedUnit ==
    ASSUME NEW unit, IsUnit(unit), NEW st \in UnitStates, NEW t \in Txrs
    PROVE  IsUnit([unit EXCEPT !.log = Append(@, [txr |-> t, state |-> st])])
  <1> DEFINE R == [txr : Txrs, state : UnitStates]
             e == [txr |-> t, state |-> st]
             log == Append(unit.log, e)
  <1>1. e \in R
    OBVIOUS
  <1>2. unit.log \in Seq(R)
    BY DEF IsUnit
  <1> HIDE DEF e, R
  <1>3. log \in Seq(R) /\ Len(log) = Len(unit.log) + 1 /\ Len(unit.log) \in Nat
    BY <1>1, <1>2
  <1>4. IsLedger(unit.ledger) /\ unit = [ledger |-> unit.ledger, log |-> unit.log]
    BY DEF IsUnit
  <1>5. [unit EXCEPT !.log = Append(@, e)] = [ledger |-> unit.ledger, log |-> log]
    <2>1. [unit EXCEPT !.log = Append(@, e)] = [unit EXCEPT !.log = log]
      OBVIOUS
    <2> HIDE DEF log
    <2>2. [unit EXCEPT !.log = log] = [ledger |-> unit.ledger, log |-> log]
      BY <1>4
    <2> QED BY <2>1, <2>2
  <1> HIDE DEF log
  <1> DEFINE u == [ledger |-> unit.ledger, log |-> log]
  <1>6. u.ledger = unit.ledger /\ u.log = log /\ u = [ledger |-> u.ledger, log |-> u.log]
    OBVIOUS
  <1> HIDE DEF u
  <1>7. IsUnit(u)
    BY <1>3, <1>4, <1>6 DEF IsUnit, R
  <1> QED BY <1>5, <1>7 DEF u, e

\* A unit at the start of a round.
LEMMA CarriedUnit ==
    ASSUME NEW unit, IsUnit(unit)
    PROVE  IsUnit(Carried(unit))
  <1> DEFINE R == [txr : Txrs, state : UnitStates]
             n == Len(unit.log)
             e == [txr |-> NoHash, state |-> LatestState(unit)]
             ledger == LedgerAfter(unit, n)
             log == <<e>>
  <1>1. n \in 1..n /\ LatestState(unit) \in UnitStates
    <2>1. n \in Nat \ {0}
      BY LogIs
    <2> HIDE DEF n
    <2>2. n \in 1..n
      BY <2>1
    <2> QED BY <2>2, LogIs
  <1>2. IsLedger(ledger)
    BY <1>1, LedgersAre
  <1>3. e \in R
    BY <1>1 DEF Txrs
  <1>4. Carried(unit) = [ledger |-> ledger, log |-> log]
    BY DEF Carried
  <1> HIDE DEF e, R, ledger
  <1>5. log \in Seq(R) /\ Len(log) > 0
    BY <1>3
  <1> HIDE DEF log
  <1> DEFINE u == Carried(unit)
  <1>6. u.ledger = ledger /\ u.log = log /\ u = [ledger |-> u.ledger, log |-> u.log]
    BY <1>4
  <1> HIDE DEF u
  <1>7. IsUnit(u)
    BY ONLY <1>2, <1>5, <1>6, Zenon DEF IsUnit, R
  <1> QED BY <1>7 DEF u

\* The units of a shard with a new one, with a changed one, and of the next round.
LEMMA UnitsStayTyped ==
    ASSUME NEW us, NEW p, NEW s, UnitsTyped(us, p, s)
    PROVE  /\ \A id, unit : id \in UnitIDs(p) /\ UnitIDValidator(p, s, id) /\ IsUnit(unit)
                => UnitsTyped(WithUnit(us, id, unit), p, s)
           /\ \A id \in DOMAIN us : \A unit : IsUnit(unit)
                => UnitsTyped([us EXCEPT ![id] = unit], p, s)
           /\ UnitsTyped(NextRound(us), p, s)
  <1>1. /\ us = [id \in DOMAIN us |-> us[id]] /\ IsFiniteSet(DOMAIN us)
        /\ DOMAIN us \subseteq UnitIDs(p)
        /\ \A id \in DOMAIN us : UnitIDValidator(p, s, id) /\ IsUnit(us[id])
    BY DEF UnitsTyped
  <1>2. ASSUME NEW id, NEW unit, id \in UnitIDs(p), UnitIDValidator(p, s, id), IsUnit(unit)
        PROVE  UnitsTyped(WithUnit(us, id, unit), p, s)
    <2> DEFINE D == DOMAIN us \cup {id}
               w == WithUnit(us, id, unit)
    <2>1. IsFiniteSet(D)
      BY <1>1, FS_AddElement
    <2>2. DOMAIN w = D /\ w = [u \in D |-> w[u]]
      BY DEF WithUnit
    <2>3. \A u \in D : w[u] = IF u = id THEN unit ELSE us[u]
      BY DEF WithUnit
    <2>4. ASSUME NEW u \in D PROVE u \in UnitIDs(p) /\ UnitIDValidator(p, s, u) /\ IsUnit(w[u])
      <3>1. CASE u = id
        BY <1>2, <2>3, <3>1
      <3>2. CASE u # id
        BY <1>1, <2>3, <3>2
      <3> QED BY <3>1, <3>2
    <2> HIDE DEF w
    <2>5. UnitsTyped(w, p, s)
      BY <2>1, <2>2, <2>4 DEF UnitsTyped
    <2> QED BY <2>5 DEF w
  <1>3. ASSUME NEW id \in DOMAIN us, NEW unit, IsUnit(unit)
        PROVE  UnitsTyped([us EXCEPT ![id] = unit], p, s)
    <2> DEFINE w == [us EXCEPT ![id] = unit]
    <2>1. DOMAIN w = DOMAIN us /\ w = [u \in DOMAIN us |-> w[u]]
      OBVIOUS
    <2>2. \A u \in DOMAIN us : w[u] = IF u = id THEN unit ELSE us[u]
      OBVIOUS
    <2> HIDE DEF w
    <2>3. \A u \in DOMAIN us : IsUnit(w[u])
      BY <1>1, <1>3, <2>2
    <2>4. UnitsTyped(w, p, s)
      BY <1>1, <2>1, <2>3 DEF UnitsTyped
    <2> QED BY <2>4 DEF w
  <1>4. UnitsTyped(NextRound(us), p, s)
    <2> DEFINE w == NextRound(us)
    <2>1. DOMAIN w = DOMAIN us /\ w = [u \in DOMAIN us |-> w[u]]
      BY DEF NextRound
    <2>2. \A u \in DOMAIN us : w[u] = Carried(us[u])
      BY DEF NextRound
    <2> HIDE DEF w
    <2>3. \A u \in DOMAIN us : IsUnit(w[u])
      BY <1>1, <2>2, CarriedUnit
    <2>4. UnitsTyped(w, p, s)
      BY <1>1, <2>1, <2>3 DEF UnitsTyped
    <2> QED BY <2>4 DEF w
  <1> QED BY <1>2, <1>3, <1>4

\* An identifier that could be composed.
LEMMA ComposedOrNot ==
    ASSUME NEW p \in PDRs, \A s \in Scheme : IsValidPDR(p, s),
           NEW sh \in Scheme, NEW type \in Types, NEW random \in Randoms(p)
    PROVE  LET id == ComposeUnitID(p, sh, type, random)
           IN  /\ type < TwoTo(p.typeBits)
                    => /\ id \in UnitIDs(p)
                       /\ \A t \in Scheme : UnitIDValidator(p, t, id) <=> t = sh
                       /\ ExtractUnitType(p, id) = type
               /\ ~(type < TwoTo(p.typeBits)) => id = << >>
  <1>1. type \in Nat
    BY PartsAssumption
  <1>2. TwoTo(p.typeBits) \in Nat
    <2>1. p.typeBits \in Nat
      BY Lengths
    <2> QED BY <2>1, TwoToIs
  <1>3. ~(type < TwoTo(p.typeBits)) => ComposeUnitID(p, sh, type, random) = << >>
    <2>1. ~(type < TwoTo(p.typeBits)) => type >= TwoTo(p.typeBits)
      BY <1>1, <1>2
    <2> QED BY <2>1 DEF ComposeUnitID
  <1> QED BY <1>3, ComposedIs

(***************************************************************************)
(* Whatever transactions are executed and whichever states are certified:  *)
(* the units of a shard have identifiers of it and logs that are not       *)
(* empty, their ledger hashes are those of transactions, and a certificate *)
(* is of the root of the state tree it was issued for.                     *)
(***************************************************************************)
THEOREM StateInvHolds == StateSpec => []StateInv
  <1>1. StateInit => StateInv
    <2> SUFFICES ASSUME StateInit PROVE StateInv
      OBVIOUS
    <2>1. pdr \in PDRs /\ \A s \in Scheme : IsValidPDR(pdr, s)
      BY DEF StateInit
    <2>2. \A s \in NodeShards : UnitsTyped(<< >>, pdr, s)
      <3>1. DOMAIN << >> = {} /\ << >> = [id \in {} |-> << >>[id]]
        OBVIOUS
      <3> QED BY <3>1, FS_EmptySet DEF UnitsTyped
    <2>3. units = [s \in NodeShards |-> << >>] /\ executed = 0 /\ certifiedStates = {}
      BY DEF StateInit
    <2> QED BY <2>1, <2>2, <2>3 DEF StateInv
  <1>2. StateInv /\ [StateNext]_stateVars => StateInv'
    <2> SUFFICES ASSUME StateInv, [StateNext]_stateVars PROVE StateInv'
      OBVIOUS
    <2>1. /\ pdr \in PDRs /\ \A s \in Scheme : IsValidPDR(pdr, s)
          /\ executed \in Nat /\ units = [s \in NodeShards |-> units[s]]
          /\ \A s \in NodeShards : UnitsTyped(units[s], pdr, s)
          /\ \A c \in certifiedStates : IsCertified(c, pdr)
      BY DEF StateInv
    <2>2. ASSUME NEW s \in NodeShards, NEW w, UnitsTyped(w, pdr, s),
                 units' = [units EXCEPT ![s] = w], pdr' = pdr, executed' \in Nat,
                 \A c \in certifiedStates' : c \in certifiedStates \/ IsCertified(c, pdr)
          PROVE  StateInv'
      <3>1. units' = [t \in NodeShards |-> IF t = s THEN w ELSE units[t]]
        BY <2>1, <2>2
      <3>2. \A t \in NodeShards : UnitsTyped(units'[t], pdr, t)
        BY <2>1, <2>2, <3>1
      <3>3. units' = [t \in NodeShards |-> units'[t]]
        BY <3>1
      <3>4. \A c \in certifiedStates' : IsCertified(c, pdr)
        BY <2>1, <2>2
      <3> QED BY <2>1, <2>2, <3>2, <3>3, <3>4 DEF StateInv
    <2>3. <<"tx", executed + 1>> \in Txrs /\ executed + 1 \in Nat
      BY <2>1 DEF Txrs
    <2>4. ASSUME NEW s \in NodeShards, CreateUnit(s) PROVE StateInv'
      <3>1. PICK sh \in Scheme, type \in Types, random \in Randoms(pdr), st \in UnitStates :
              LET id == ComposeUnitID(pdr, sh, type, random)
              IN  /\ id # << >> /\ UnitIDValidator(pdr, s, id)
                  /\ units' = [units EXCEPT ![s] =
                       WithUnit(@, id, [ledger |-> NoHash,
                                        log |-> <<[txr |-> Record, state |-> st]>>])]
        BY <2>4 DEF CreateUnit
      <3> DEFINE id == ComposeUnitID(pdr, sh, type, random)
                 unit == [ledger |-> NoHash, log |-> <<[txr |-> Record, state |-> st]>>]
                 w == WithUnit(units[s], id, unit)
      <3>2. id \in UnitIDs(pdr) /\ UnitIDValidator(pdr, s, id)
        BY <2>1, <3>1, ComposedOrNot
      <3>3. IsUnit(unit)
        BY <2>3, NewUnit DEF Record
      <3>4. units' = [units EXCEPT ![s] = w]
        BY <3>1
      <3>5. executed' = executed + 1 /\ pdr' = pdr /\ certifiedStates' = certifiedStates
        BY <2>4 DEF CreateUnit
      <3> HIDE DEF id, unit
      <3>6. UnitsTyped(w, pdr, s)
        BY <2>1, <3>2, <3>3, UnitsStayTyped
      <3> HIDE DEF w
      <3> QED BY <2>2, <2>3, <3>4, <3>5, <3>6
    <2>5. ASSUME NEW s \in NodeShards, ExecuteUnit(s) PROVE StateInv'
      <3>1. PICK id \in DOMAIN units[s], st \in UnitStates :
              units' = [units EXCEPT ![s][id].log = Append(@, [txr |-> Record, state |-> st])]
        BY <2>5 DEF ExecuteUnit
      <3> DEFINE unit == [units[s][id] EXCEPT !.log = Append(@, [txr |-> Record, state |-> st])]
                 w == [units[s] EXCEPT ![id] = unit]
      <3>2. IsUnit(units[s][id])
        BY <2>1 DEF UnitsTyped
      <3>3. IsUnit(unit)
        BY <2>3, <3>2, ExecutedUnit DEF Record
      <3>4. units' = [units EXCEPT ![s] = w]
        BY <3>1
      <3>5. executed' = executed + 1 /\ pdr' = pdr /\ certifiedStates' = certifiedStates
        BY <2>5 DEF ExecuteUnit
      <3> HIDE DEF unit
      <3>6. UnitsTyped(w, pdr, s)
        BY <2>1, <3>3, UnitsStayTyped
      <3> HIDE DEF w
      <3> QED BY <2>2, <2>3, <3>4, <3>5, <3>6
    <2>6. ASSUME NEW s \in NodeShards, CertifyState(s) PROVE StateInv'
      <3>1. PICK shape \in Shapes(units[s]) :
              LET us == units[s]
                  root == StateTree(us, shape)[<<1, Cardinality(DOMAIN us)>>]
              IN  certifiedStates' = certifiedStates \cup
                    {[units |-> us, shape |-> shape,
                      uc |-> [shard |-> s, hash |-> root.hash, summary |-> root.summary]]}
        BY <2>6 DEF CertifyState
      <3> DEFINE us == units[s]
                 root == StateTree(us, shape)[<<1, Cardinality(DOMAIN us)>>]
                 new == [units |-> us, shape |-> shape,
                         uc |-> [shard |-> s, hash |-> root.hash, summary |-> root.summary]]
                 w == NextRound(us)
      <3>2. UnitsTyped(us, pdr, s) /\ us # << >>
        BY <2>1, <2>6 DEF CertifyState
      <3>3. DOMAIN us # {}
        <4>1. us = [id \in DOMAIN us |-> us[id]]
          BY <3>2 DEF UnitsTyped
        <4> HIDE DEF us
        <4>2. DOMAIN us = {} => us = << >>
          BY <4>1
        <4> QED BY <3>2, <4>2
      <3>4. IsCertified(new, pdr)
        <4> HIDE DEF us
        <4>1. new.uc.shard = s /\ new.units = us /\ new.shape = shape
          OBVIOUS
        <4>2. new.uc = [shard |-> s, hash |-> root.hash, summary |-> root.summary]
          OBVIOUS
        <4> HIDE DEF new
        <4> QED BY <3>2, <3>3, <4>1, <4>2 DEF IsCertified
      <3>5. certifiedStates' = certifiedStates \cup {new}
        BY <3>1
      <3>6. units' = [units EXCEPT ![s] = w] /\ pdr' = pdr /\ executed' = executed
        BY <2>6 DEF CertifyState
      <3> HIDE DEF us, new
      <3>7. UnitsTyped(w, pdr, s)
        BY <3>2, UnitsStayTyped
      <3> HIDE DEF w
      <3> QED BY <2>1, <2>2, <3>4, <3>5, <3>6, <3>7
    <2>7. CASE UNCHANGED stateVars
      BY <2>1, <2>7 DEF StateInv, stateVars
    <2> QED BY <2>4, <2>5, <2>6, <2>7 DEF StateNext
  <1> QED BY <1>1, <1>2, PTL DEF StateSpec

(***************************************************************************)
(* Whatever the lengths of its parts, an identifier that is composed for a *)
(* shard of a valid scheme is accepted there and nowhere else, and gives   *)
(* its type back (ComposeUnitID, UnitIDValidator, ExtractUnitType).        *)
(***************************************************************************)
THEOREM ComposedIsValidHolds == StateSpec => []ComposedIsValid
  <1>1. StateInv => ComposedIsValid
    <2> SUFFICES ASSUME StateInv,
                        NEW sh \in Scheme, NEW type \in Types, NEW random \in Randoms(pdr)
                 PROVE  LET id == ComposeUnitID(pdr, sh, type, random) IN
                        IF type < TwoTo(pdr.typeBits)
                        THEN /\ \A t \in Scheme : UnitIDValidator(pdr, t, id) <=> t = sh
                             /\ ExtractUnitType(pdr, id) = type
                        ELSE id = << >>
      BY DEF ComposedIsValid
    <2>1. pdr \in PDRs /\ \A s \in Scheme : IsValidPDR(pdr, s)
      BY DEF StateInv
    <2> QED BY <2>1, ComposedOrNot
  <1> QED BY <1>1, StateInvHolds, PTL

-------------------------------------------------------------------------------
(* The proofs of unit states. *)

\* The parts of a proof.
IsProof(p) ==
    /\ p = [id |-> p.id, value |-> p.value, ledger |-> p.ledger, unitCert |-> p.unitCert,
            stateCert |-> p.stateCert, uc |-> p.uc]
    /\ p.unitCert = [txr |-> p.unitCert.txr, state |-> p.unitCert.state, path |-> p.unitCert.path]
    /\ p.stateCert = [left |-> p.stateCert.left, right |-> p.stateCert.right,
                      path |-> p.stateCert.path]
    /\ IsSequence(p.unitCert.path) /\ IsSequence(p.stateCert.path)
    /\ p.value \in 0..(SummarySize - 1)

\* What is asked of a proof that may be put together from several.
IsReadable(p) ==
    /\ Len(p.unitCert.path) \in Nat /\ Len(p.stateCert.path) \in Nat
    /\ p.value \in 0..(SummarySize - 1)

\* The proof of an entry of a log leads to the root of the state tree.
LEMMA ProofLeads ==
    ASSUME NEW p, \A s \in Scheme : IsValidPDR(p, s), NEW c, IsCertified(c, p),
           NEW id \in DOMAIN c.units, NEW i \in DOMAIN c.units[id].log
    PROVE  LET q == UnitStateProof(c, id, i)
           IN  /\ IsProof(q) /\ q.id # << >> /\ q.uc = c.uc
               /\ q.unitCert.state = StateHash(c.units[id].log[i].state)
               /\ CalculateStateTreeOutput(q) = [hash |-> c.uc.hash, summary |-> c.uc.summary]
  <1> DEFINE us == c.units
             shape == c.shape
             s == c.uc.shard
             D == DOMAIN us
             n == Cardinality(D)
             ids == Ordered(us)
             top == StateTree(us, shape)[<<1, n>>]
             unit == us[id]
             data == LogHashes(unit)
             k == CHOOSE j \in DOMAIN ids : ids[j] = id
             way == GetMerklePath(data, i)
             cert == StateTreeCert(us, shape, k)
             value == Value(LatestState(unit))
             q == UnitStateProof(c, id, i)
  <1>1. IsValidPDR(p, s) /\ UnitsTyped(us, p, s) /\ D # {}
    BY SchemeAssumption DEF IsCertified
  <1>2. c.uc = [shard |-> s, hash |-> top.hash, summary |-> top.summary]
    BY DEF IsCertified
  <1>3. top = [hash |-> top.hash, summary |-> top.summary]
    BY <1>1, RootIs
  <1>4. IsOrdering(ids, D) /\ n \in Nat \ {0}
    BY <1>1, TreeOfUnits
  <1>5. k \in 1..n /\ ids[k] = id
    <2>1. DOMAIN ids = 1..n /\ \E j \in 1..n : ids[j] = id
      BY <1>4 DEF IsOrdering
    <2> HIDE DEF ids, n
    <2> QED BY <2>1
  <1>6. IsUnit(unit)
    BY <1>1 DEF UnitsTyped
  <1> DEFINE N == Len(unit.log)
  <1>7. /\ N \in Nat \ {0} /\ DOMAIN unit.log = 1..N /\ i \in 1..N
        /\ DOMAIN data = 1..N /\ Len(data) = N
        /\ GetRootHash(data) = HashOf(data)[<<1, N>>]
        /\ unit.log[i].state \in UnitStates
        /\ LatestState(unit) \in UnitStates
    BY <1>6, LogIs
  <1>8. IsSequence(way) /\ PlainTreeOutput(way, data[i]) = GetRootHash(data)
    <2> HIDE DEF data, N
    <2> QED BY <1>7, PathLeadsToRoot
  <1>9. data[i] = EntryHash(LedgerBefore(unit, i), unit.log[i].txr, StateHash(unit.log[i].state))
    BY <1>7 DEF LogHashes
  <1>10. value \in 0..(SummarySize - 1)
    BY <1>7, ValueAssumption
  <1>11. LeadsTo(cert, us, ids, k, top)
    <2> HIDE DEF us, shape, s, k
    <2> QED BY <1>1, <1>5, CertLeads DEF D, n, ids, top
  <1>12. q = [id |-> id, value |-> value, ledger |-> LedgerBefore(unit, i),
              unitCert |-> [txr |-> unit.log[i].txr, state |-> StateHash(unit.log[i].state),
                            path |-> way],
              stateCert |-> cert, uc |-> c.uc]
    BY DEF UnitStateProof
  <1> HIDE DEF q, way, cert, value
  <1>13. /\ q.id = id /\ q.value = value /\ q.ledger = LedgerBefore(unit, i)
         /\ q.unitCert = [txr |-> unit.log[i].txr, state |-> StateHash(unit.log[i].state),
                          path |-> way]
         /\ q.stateCert = cert /\ q.uc = c.uc
         /\ q = [id |-> q.id, value |-> q.value, ledger |-> q.ledger, unitCert |-> q.unitCert,
                 stateCert |-> q.stateCert, uc |-> q.uc]
    BY <1>12
  <1>14. /\ q.unitCert.txr = unit.log[i].txr
         /\ q.unitCert.state = StateHash(unit.log[i].state)
         /\ q.unitCert.path = way
         /\ q.unitCert = [txr |-> q.unitCert.txr, state |-> q.unitCert.state,
                          path |-> q.unitCert.path]
    BY <1>13
  <1>15. /\ cert = [left |-> cert.left, right |-> cert.right, path |-> cert.path]
         /\ IsSequence(cert.path)
         /\ ClimbTo(ids[k], NodeOfCert(us, ids, k, cert), cert.path) = top
    BY <1>11 DEF LeadsTo
  <1>16. IsProof(q)
    BY ONLY <1>8, <1>10, <1>13, <1>14, <1>15 DEF IsProof
  <1>17. LogRootOf(q) = GetRootHash(data)
    BY <1>8, <1>9, <1>13, <1>14 DEF LogRootOf
  <1>18. OwnNode(q) = NodeOfCert(us, ids, k, cert)
    <2> DEFINE g == GetRootHash(data)
               l == cert.left
               r == cert.right
               v == Sum(value, l.summary, r.summary)
    <2>1. OwnNode(q) = [hash |-> computeHash(id, g, v, l, r), summary |-> v]
      BY <1>13, <1>17 DEF OwnNode
    <2>2. NodeOfCert(us, ids, k, cert) = [hash |-> computeHash(id, g, v, l, r), summary |-> v]
      <3> HIDE DEF us, ids, k
      <3> QED BY <1>5 DEF NodeOfCert, NodeOver, value, unit, data
    <2> QED BY <2>1, <2>2
  <1>19. CalculateStateTreeOutput(q) = top
    <2>1. CalculateStateTreeOutput(q) = ClimbTo(q.id, OwnNode(q), q.stateCert.path)
      BY OutputClimbs
    <2> QED BY <1>5, <1>13, <1>15, <1>18, <2>1
  <1>20. id # << >>
    <2>1. Len(id) = IDLength(p) /\ IDLength(p) > 0 /\ IDLength(p) \in Nat
      BY <1>1, Lengths DEF UnitsTyped, UnitIDs
    <2> QED BY <2>1
  <1>21. top = [hash |-> c.uc.hash, summary |-> c.uc.summary]
    <2> HIDE DEF top
    <2>1. c.uc.hash = top.hash /\ c.uc.summary = top.summary
      BY <1>2
    <2> QED BY <1>3, <2>1
  <1> QED BY <1>13, <1>14, <1>16, <1>19, <1>20, <1>21 DEF q

(***************************************************************************)
(* Every state in the log of a unit of a certified state can be proven,    *)
(* however many entries the log has and whichever units are the roots of   *)
(* the subtrees (UnitStateProof.Verify).                                   *)
(***************************************************************************)
THEOREM StatesProvableHolds == StateSpec => []StatesProvable
  <1>1. StateInv => StatesProvable
    <2> SUFFICES ASSUME StateInv, NEW c \in certifiedStates, NEW id \in DOMAIN c.units,
                        NEW i \in DOMAIN c.units[id].log
                 PROVE  StateVerifies(UnitStateProof(c, id, i), c.units[id].log[i].state, c.uc.shard)
      BY DEF StatesProvable
    <2>1. IsCertified(c, pdr) /\ \A s \in Scheme : IsValidPDR(pdr, s)
      BY DEF StateInv
    <2> DEFINE q == UnitStateProof(c, id, i)
    <2>2. /\ q.id # << >> /\ q.uc = c.uc
          /\ q.unitCert.state = StateHash(c.units[id].log[i].state)
          /\ CalculateStateTreeOutput(q) = [hash |-> c.uc.hash, summary |-> c.uc.summary]
      BY <2>1, ProofLeads
    <2>3. c.uc \in StateUCs
      BY DEF StateUCs
    <2> HIDE DEF q
    <2>4. StateVerifies(q, c.units[id].log[i].state, c.uc.shard)
      BY <2>2, <2>3 DEF StateVerifies, Verify
    <2> QED BY <2>4 DEF q
  <1> QED BY <1>1, StateInvHolds, PTL

\* What a proof is put together from can be read.
LEMMA HonestIsReadable ==
    ASSUME NEW p, IsProof(p), NEW v \in 0..(SummarySize - 1)
    PROVE  /\ IsReadable([p EXCEPT !.value = v])
           /\ IsReadable(Moved(p, v))
           /\ \A x \in Reread(p) : IsReadable(x)
  <1>1. Len(p.unitCert.path) \in Nat /\ Len(p.stateCert.path) \in Nat
    BY AppendToSequence DEF IsProof
  <1>2. p = [id |-> p.id, value |-> p.value, ledger |-> p.ledger, unitCert |-> p.unitCert,
             stateCert |-> p.stateCert, uc |-> p.uc]
    BY DEF IsProof
  <1>3. IsReadable([p EXCEPT !.value = v])
    <2> DEFINE x == [p EXCEPT !.value = v]
    <2>1. x.unitCert = p.unitCert /\ x.stateCert = p.stateCert /\ x.value = v
      BY <1>2
    <2> HIDE DEF x
    <2>2. IsReadable(x)
      BY <1>1, <2>1 DEF IsReadable
    <2> QED BY <2>2 DEF x
  <1>4. IsReadable(Moved(p, v))
    <2> DEFINE x == Moved(p, v)
               l == [p.stateCert.left EXCEPT !.summary = (@ + p.value + SummarySize - v) % SummarySize]
               cert == [p.stateCert EXCEPT !.left = l]
    <2>1. x = [p EXCEPT !.value = v, !.stateCert = cert]
      BY DEF Moved
    <2>2. cert.path = p.stateCert.path
      <3> HIDE DEF l
      <3>1. p.stateCert = [left |-> p.stateCert.left, right |-> p.stateCert.right,
                           path |-> p.stateCert.path]
        BY DEF IsProof
      <3> QED BY <3>1
    <2> HIDE DEF x, cert
    <2>3. x.unitCert = p.unitCert /\ x.stateCert = cert /\ x.value = v
      BY <1>2, <2>1
    <2>4. IsReadable(x)
      BY <1>1, <2>2, <2>3 DEF IsReadable
    <2> QED BY <2>4 DEF x
  <1>5. ASSUME NEW x \in Reread(p) PROVE IsReadable(x)
    <2> DEFINE y == [p EXCEPT !.ledger = LedgerHash(p.ledger, p.unitCert.txr), !.unitCert.txr = NoHash]
               item == [left |-> TRUE, hash |-> p.unitCert.state]
               way == <<item>> \o p.unitCert.path
               z == [p EXCEPT !.unitCert = [txr |-> NoHash, state |-> p.unitCert.txr, path |-> way]]
    <2>1. x = y \/ x = z
      BY DEF Reread
    <2>2. p.value \in 0..(SummarySize - 1)
      BY DEF IsProof
    <2>3. p.unitCert = [txr |-> p.unitCert.txr, state |-> p.unitCert.state, path |-> p.unitCert.path]
      BY DEF IsProof
    <2>4. CASE x = y
      <3> DEFINE u == [p.unitCert EXCEPT !.txr = NoHash]
                 ledger == LedgerHash(p.ledger, p.unitCert.txr)
      <3>1. y = [p EXCEPT !.ledger = ledger, !.unitCert = u]
        OBVIOUS
      <3>2. u.path = p.unitCert.path
        BY <2>3
      <3> HIDE DEF u, ledger
      <3>3. y.unitCert = u /\ y.stateCert = p.stateCert /\ y.value = p.value
        BY <1>2, <3>1
      <3> HIDE DEF y
      <3> QED BY <1>1, <2>2, <2>4, <3>2, <3>3 DEF IsReadable
    <2>5. CASE x = z
      <3>1. Len(way) \in Nat
        <4> DEFINE path == p.unitCert.path
        <4>1. PICK S : path \in Seq(S)
          BY DEF IsProof, IsSequence
        <4> HIDE DEF item, path
        <4>2. path \in Seq(S \cup {item}) /\ <<item>> \in Seq(S \cup {item})
          BY <4>1
        <4> DEFINE a == <<item>>
        <4>3. Len(a) \in Nat /\ Len(path) \in Nat
          BY <4>2
        <4> HIDE DEF a
        <4>4. Len(a \o path) = Len(a) + Len(path)
          BY <4>2, ConcatProperties DEF a
        <4> QED BY <4>3, <4>4 DEF a, path
      <3> HIDE DEF way
      <3> DEFINE u == [txr |-> NoHash, state |-> p.unitCert.txr, path |-> way]
      <3>2. u.path = way
        OBVIOUS
      <3> HIDE DEF u
      <3>3. z = [p EXCEPT !.unitCert = u]
        BY DEF u
      <3>4. z.unitCert = u /\ z.stateCert = p.stateCert /\ z.value = p.value
        BY <1>2, <3>3
      <3> HIDE DEF z
      <3> QED BY <1>1, <2>2, <2>5, <3>1, <3>2, <3>4 DEF IsReadable
    <2> QED BY <2>1, <2>4, <2>5
  <1> QED BY <1>3, <1>4, <1>5

\* So can what is put together from two.
LEMMA ExchangedIsReadable ==
    ASSUME NEW p, IsProof(p), NEW q, IsProof(q), NEW x \in Exchanged(p, q)
    PROVE  IsReadable(x)
  <1>1. /\ Len(p.unitCert.path) \in Nat /\ Len(p.stateCert.path) \in Nat
        /\ Len(q.unitCert.path) \in Nat /\ Len(q.stateCert.path) \in Nat
    BY AppendToSequence DEF IsProof
  <1>2. p = [id |-> p.id, value |-> p.value, ledger |-> p.ledger, unitCert |-> p.unitCert,
             stateCert |-> p.stateCert, uc |-> p.uc]
    BY DEF IsProof
  <1>3. p.unitCert = [txr |-> p.unitCert.txr, state |-> p.unitCert.state, path |-> p.unitCert.path]
    BY DEF IsProof
  <1>4. p.stateCert = [left |-> p.stateCert.left, right |-> p.stateCert.right,
                       path |-> p.stateCert.path]
    BY DEF IsProof
  <1>5. p.value \in 0..(SummarySize - 1)
    BY DEF IsProof
  <1>6. ASSUME x.value = p.value,
               x.unitCert.path = p.unitCert.path \/ x.unitCert.path = q.unitCert.path,
               x.stateCert.path = p.stateCert.path \/ x.stateCert.path = q.stateCert.path
        PROVE  IsReadable(x)
    BY <1>1, <1>5, <1>6 DEF IsReadable
  <1>7. CASE \/ x = [p EXCEPT !.id = q.id]
             \/ x = [p EXCEPT !.uc = q.uc]
             \/ x = [p EXCEPT !.ledger = q.ledger]
    <2>1. x.value = p.value /\ x.unitCert = p.unitCert /\ x.stateCert = p.stateCert
      BY <1>2, <1>7
    <2> QED BY <1>6, <2>1
  <1>8. CASE \/ x = [p EXCEPT !.unitCert = q.unitCert]
             \/ x = [p EXCEPT !.unitCert = q.unitCert, !.ledger = q.ledger]
    <2>1. x.value = p.value /\ x.unitCert = q.unitCert /\ x.stateCert = p.stateCert
      BY <1>2, <1>8
    <2> QED BY <1>6, <2>1
  <1>9. CASE \/ x = [p EXCEPT !.stateCert = q.stateCert]
             \/ x = [p EXCEPT !.stateCert = q.stateCert, !.uc = q.uc]
    <2>1. x.value = p.value /\ x.unitCert = p.unitCert /\ x.stateCert = q.stateCert
      BY <1>2, <1>9
    <2> QED BY <1>6, <2>1
  <1>10. CASE \/ x = [p EXCEPT !.unitCert.txr = q.unitCert.txr]
              \/ x = [p EXCEPT !.unitCert.path = q.unitCert.path]
              \/ x = [p EXCEPT !.unitCert.state = q.unitCert.state]
    <2>1. PICK u : /\ x = [p EXCEPT !.unitCert = u]
                   /\ \/ u = [p.unitCert EXCEPT !.txr = q.unitCert.txr]
                      \/ u = [p.unitCert EXCEPT !.path = q.unitCert.path]
                      \/ u = [p.unitCert EXCEPT !.state = q.unitCert.state]
      BY <1>10
    <2>2. u.path = p.unitCert.path \/ u.path = q.unitCert.path
      BY <1>3, <2>1
    <2>3. x.value = p.value /\ x.unitCert = u /\ x.stateCert = p.stateCert
      BY <1>2, <2>1
    <2> QED BY <1>6, <2>2, <2>3
  <1>11. CASE x = [p EXCEPT !.stateCert.path = q.stateCert.path]
    <2> DEFINE u == [p.stateCert EXCEPT !.path = q.stateCert.path]
    <2>1. u.path = q.stateCert.path
      BY <1>4
    <2>2. x = [p EXCEPT !.stateCert = u]
      BY <1>11
    <2> HIDE DEF u
    <2>3. x.value = p.value /\ x.unitCert = p.unitCert /\ x.stateCert = u
      BY <1>2, <2>2
    <2> QED BY <1>6, <2>1, <2>3
  <1> QED BY <1>7, <1>8, <1>9, <1>10, <1>11 DEF Exchanged

\* What a proof is put together from is that of entries of logs.
LEMMA HonestIs ==
    ASSUME StateInv, NEW p \in Honest
    PROVE  IsProof(p)
  <1>1. PICK c \in certifiedStates :
          \E id \in DOMAIN c.units : \E i \in DOMAIN c.units[id].log : p = UnitStateProof(c, id, i)
    BY DEF Honest
  <1>2. IsCertified(c, pdr) /\ \A s \in Scheme : IsValidPDR(pdr, s)
    BY DEF StateInv
  <1> QED BY <1>1, <1>2, ProofLeads

\* A proof that verifies proves what the certified state of its certificate says.
LEMMA ReadableIsSound ==
    ASSUME StateInv, NEW x, IsReadable(x), NEW st \in Presented, NEW s \in NodeShards,
           StateVerifies(x, st, s)
    PROVE  \E c \in certifiedStates :
              /\ c.uc = x.uc /\ c.uc.shard = s
              /\ Proves(x, st, c.units)
              /\ x.id \in DOMAIN c.units /\ UnitIDValidator(pdr, s, x.id)
  <1>1. /\ x.uc \in StateUCs /\ x.uc.shard = s
        /\ x.unitCert.state = StateHash(st)
        /\ CalculateStateTreeOutput(x) = [hash |-> x.uc.hash, summary |-> x.uc.summary]
    BY DEF StateVerifies, Verify
  <1>2. PICK c \in certifiedStates : c.uc = x.uc
    BY <1>1 DEF StateUCs
  <1> DEFINE us == c.units
             shape == c.shape
             top == StateTree(us, shape)[<<1, Cardinality(DOMAIN us)>>]
  <1>3. IsValidPDR(pdr, s)
    BY SchemeAssumption DEF StateInv
  <1>4. /\ UnitsTyped(us, pdr, s) /\ DOMAIN us # {}
        /\ x.uc = [shard |-> s, hash |-> top.hash, summary |-> top.summary]
    BY <1>1, <1>2 DEF StateInv, IsCertified
  <1>5. top = [hash |-> top.hash, summary |-> top.summary]
    BY <1>3, <1>4, RootIs
  <1>6. CalculateStateTreeOutput(x) = top
    <2> HIDE DEF top
    <2>1. x.uc.hash = top.hash /\ x.uc.summary = top.summary
      BY <1>4
    <2> QED BY <1>1, <1>5, <2>1
  <1>7. Proves(x, st, us)
    <2>1. Len(x.unitCert.path) \in Nat /\ Len(x.stateCert.path) \in Nat
      BY DEF IsReadable
    <2> HIDE DEF us, shape
    <2> QED BY <1>1, <1>3, <1>4, <1>6, <2>1, UnitOfState DEF top
  <1>8. x.id \in DOMAIN us /\ UnitIDValidator(pdr, s, x.id)
    BY <1>4, <1>7 DEF Proves, UnitsTyped
  <1> QED BY <1>1, <1>2, <1>7, <1>8

\* What may be put together can be read.
LEMMA AllAreReadable == StateInv => ForAllProofs(IsReadable)
  <1> SUFFICES ASSUME StateInv PROVE ForAllProofs(IsReadable)
    OBVIOUS
  <1>1. \A p \in Honest : IsProof(p)
    BY HonestIs
  <1>2. ASSUME NEW p \in Honest, NEW v \in 0..(SummarySize - 1)
        PROVE  IsReadable([p EXCEPT !.value = v]) /\ IsReadable(Moved(p, v))
    BY <1>1, HonestIsReadable
  <1>3. ASSUME NEW p \in Honest, NEW x \in Reread(p) PROVE IsReadable(x)
    <2>1. 0 \in 0..(SummarySize - 1)
      BY ValueAssumption
    <2> QED BY <1>1, <2>1, HonestIsReadable
  <1>4. ASSUME NEW p \in Honest, NEW q \in Honest, NEW x \in Exchanged(p, q) PROVE IsReadable(x)
    BY <1>1, ExchangedIsReadable
  <1> QED BY <1>2, <1>3, <1>4 DEF ForAllProofs

(***************************************************************************)
(* A proof that verifies, whatever parts it is put together from, is of a  *)
(* unit of the certified state and of the bytes of a state the unit had in *)
(* that round, whatever bytes the verifier is shown as data and as lock.   *)
(* If the state was decoded from CBOR, it is the unit's: no encoding of an *)
(* item begins with another one, and neither the data nor the lock of a    *)
(* unit is a number (UnitStateProof.Verify, UnitState.Hash).               *)
(***************************************************************************)
THEOREM StateProvenHolds == StateSpec => []StateProven
  <1>1. StateInv => StateProven
    <2> SUFFICES ASSUME StateInv PROVE StateProven
      OBVIOUS
    <2>1. ForAllProofs(IsReadable)
      BY AllAreReadable
    <2>2. ASSUME NEW p, IsReadable(p), NEW st \in Presented, NEW s \in NodeShards,
                 StateVerifies(p, st, s)
          PROVE  \E c \in certifiedStates :
                   /\ c.uc = p.uc /\ c.uc.shard = s
                   /\ p.id \in DOMAIN c.units
                   /\ UnitIDValidator(pdr, s, p.id)
                   /\ \E i \in DOMAIN c.units[p.id].log : Tells(st, c.units[p.id].log[i].state)
      <3>1. PICK c \in certifiedStates :
              /\ c.uc = p.uc /\ c.uc.shard = s
              /\ Proves(p, st, c.units)
              /\ p.id \in DOMAIN c.units /\ UnitIDValidator(pdr, s, p.id)
        BY <2>2, ReadableIsSound
      <3>2. \E i \in DOMAIN c.units[p.id].log : Tells(st, c.units[p.id].log[i].state)
        BY <3>1 DEF Proves
      <3> QED BY <3>1, <3>2
    <2> QED BY <2>1, <2>2 DEF StateProven, ForAllProofs
  <1> QED BY <1>1, StateInvHolds, PTL

(***************************************************************************)
(* Its value is that of the unit at the end of the round, also if sums     *)
(* wrap around, and its ledger hash is that of an entry with this state    *)
(* (CalculateStateTreeOutput).                                             *)
(***************************************************************************)
THEOREM ValueProvenHolds == StateSpec => []ValueProven
  <1>1. StateInv => ValueProven
    <2> SUFFICES ASSUME StateInv PROVE ValueProven
      OBVIOUS
    <2>1. ForAllProofs(IsReadable)
      BY AllAreReadable
    <2>2. ASSUME NEW p, IsReadable(p), NEW st \in Presented, NEW s \in NodeShards,
                 StateVerifies(p, st, s)
          PROVE  \E c \in certifiedStates :
                   /\ c.uc = p.uc
                   /\ LET unit == c.units[p.id] IN
                      /\ p.value = Value(LatestState(unit))
                      /\ \E i \in DOMAIN unit.log :
                           /\ Tells(st, unit.log[i].state)
                           /\ LedgerHash(p.ledger, p.unitCert.txr) = LedgerAfter(unit, i)
      <3>1. PICK c \in certifiedStates : c.uc = p.uc /\ Proves(p, st, c.units)
        BY <2>2, ReadableIsSound
      <3>2. p.value = Value(LatestState(c.units[p.id]))
        BY <2>2, <3>1 DEF Proves, IsReadable
      <3>3. \E i \in DOMAIN c.units[p.id].log :
               /\ Tells(st, c.units[p.id].log[i].state)
               /\ LedgerHash(p.ledger, p.unitCert.txr) = LedgerAfter(c.units[p.id], i)
        BY <3>1 DEF Proves
      <3> QED BY <3>1, <3>2, <3>3
    <2> QED BY <2>1, <2>2 DEF ValueProven, ForAllProofs
  <1> QED BY <1>1, StateInvHolds, PTL
===============================================================================

--------------------------- MODULE RootNodesProofs ----------------------------
(***************************************************************************)
(* A quorum is one, and the verdict is that of RootQuorum, for node lists  *)
(* of any length and origin, any maps of signatures and any number of      *)
(* concurrent callers.                                                     *)
(***************************************************************************)
EXTENDS RootNodes, FiniteSetTheorems, WellFoundedInduction, TLAPS

-------------------------------------------------------------------------------
(***************************************************************************)
(* One more signer adds its stake.                                         *)
(***************************************************************************)
StakeOf(list, S) == Stake([i \in S |-> list[i].stake], S)

LEMMA StakeOfNobody == ASSUME NEW list PROVE StakeOf(list, {}) = 0
<1>1. Votes([i \in {} |-> list[i].stake], {}) = {}
  BY DEF Votes
<1>2. QED
  BY <1>1, FS_EmptySet DEF StakeOf, Stake

LEMMA StakeIsNat ==
    ASSUME NEW c, NEW S, IsFiniteSet(S)
    PROVE  IsFiniteSet(Votes(c, S)) /\ Stake(c, S) \in Nat
<1>1. IsFiniteSet(1..MaxStake)
  BY QuorumAssumption, FS_Interval
<1>2. IsFiniteSet(S \X (1..MaxStake))
  BY <1>1, FS_Product
<1>3. Votes(c, S) \in SUBSET (S \X (1..MaxStake))
  BY DEF Votes
<1>4. QED
  BY <1>2, <1>3, FS_Subset, FS_CardinalityType DEF Stake

LEMMA StakeOfOneMore ==
    ASSUME NEW list, NEW S, IsFiniteSet(S), NEW j, j \notin S,
           list[j].stake \in 0..MaxStake
    PROVE  /\ StakeOf(list, S) \in Nat
           /\ StakeOf(list, S \cup {j}) = StakeOf(list, S) + list[j].stake
<1> DEFINE T == S \cup {j}
           k == list[j].stake
           A == Votes([i \in S |-> list[i].stake], S)
           B == {j} \X (1..k)
           C == Votes([i \in T |-> list[i].stake], T)
<1>1. MaxStake \in Nat /\ k \in Nat /\ k <= MaxStake
  BY QuorumAssumption
<1>2. IsFiniteSet(A) /\ Cardinality(A) \in Nat
  BY StakeIsNat DEF Stake
<1>3. IsFiniteSet(B) /\ Cardinality(B) = k
  <2> DEFINE I == 1..k
             J == {j}
  <2>1. IsFiniteSet(I) /\ Cardinality(I) = k
    <3> HIDE DEF k
    <3>1. 1 \in Int /\ k \in Int /\ (1 > k => k = 0) /\ k - 1 + 1 = k
      BY <1>1
    <3>2. QED
      BY <3>1, FS_Interval
  <2>2. IsFiniteSet(J) /\ Cardinality(J) = 1
    BY FS_Singleton
  <2> HIDE DEF I, J, k
  <2>3. IsFiniteSet(J \X I) /\ Cardinality(J \X I) = 1 * k
    BY <2>1, <2>2, FS_Product
  <2>4. QED
    BY <1>1, <2>3 DEF I, J
<1>4. C = A \cup B
  <2>1. \A t \in C : t \in A \cup B
    BY <1>1 DEF Votes
  <2>2. \A t \in A : t \in C
    BY DEF Votes
  <2>3. \A t \in B : t \in C
    BY <1>1 DEF Votes
  <2>4. QED
    BY <2>1, <2>2, <2>3
<1>5. A \cap B = {}
  <2>1. \A t \in A : t[1] \in S
    BY DEF Votes
  <2>2. \A t \in B : t[1] = j
    OBVIOUS
  <2>3. QED
    BY <2>1, <2>2
<1>6. Cardinality(A \cup B) = Cardinality(A) + k
  <2> HIDE DEF A, B, k
  <2>1. Cardinality(A \cup B) = Cardinality(A) + Cardinality(B) - Cardinality(A \cap B)
    BY <1>2, <1>3, FS_Union
  <2>2. Cardinality(A \cap B) = 0
    BY <1>5, FS_EmptySet
  <2>3. QED
    BY <1>1, <1>2, <1>3, <2>1, <2>2
<1>7. QED
  BY <1>2, <1>4, <1>6 DEF StakeOf, Stake

(***************************************************************************)
(* The sum a caller keeps never exceeds what it adds up, whether it wraps  *)
(* or not.                                                                 *)
(***************************************************************************)
LEMMA WrapBounded ==
    ASSUME NEW x \in Nat
    PROVE  Wrap(x) \in Nat /\ Wrap(x) <= x
<1>1. Modulus \in Nat \ {0}
  BY QuorumAssumption
<1>2. x % Modulus \in 0..(Modulus - 1)
  BY <1>1
<1>3. QED
  BY <1>1, <1>2 DEF Wrap

(***************************************************************************)
(* Wrapping on the way makes no difference to the sum.                     *)
(***************************************************************************)
LEMMA WrapOfSum ==
    ASSUME NEW x \in Nat, NEW s \in 0..MaxStake
    PROVE  Wrap(Wrap(x) + s) = Wrap(x + s)
<1> DEFINE M == Modulus
<1>1. M \in Nat /\ M > 0 /\ s \in Nat /\ s < M
  BY QuorumAssumption
<1>2. ASSUME NEW y \in Nat
      PROVE  Wrap(y) \in 0..(M - 1) /\ \E q \in Nat : y = M * q + Wrap(y)
  <2>1. CASE y < M
    <3>1. y = M * 0 + y /\ 0 \in Nat
      BY <1>1
    <3>2. QED
      BY <1>1, <2>1, <3>1 DEF Wrap
  <2>2. CASE ~(y < M)
    <3>1. y % M \in 0..(M - 1) /\ y \div M \in Nat /\ y = M * (y \div M) + (y % M)
      BY <1>1
    <3>2. QED
      BY <2>2, <3>1 DEF Wrap
  <2>3. QED
    BY <2>1, <2>2
<1> HIDE DEF M
<1>3. ASSUME NEW p \in Nat, NEW q \in Nat, NEW a \in 0..(M - 1), NEW b \in 0..(M - 1),
             M * p + a = M * q + b, p < q
      PROVE  FALSE
  <2>1. PICK d \in Nat : q = p + 1 + d
    <3>1. q - p - 1 \in Nat /\ q = p + 1 + (q - p - 1)
      BY <1>3
    <3>2. QED
      BY <3>1
  <2>2. M * q = M * p + M + M * d
    BY <1>1, <2>1
  <2>3. M * d \in Nat /\ M * p \in Nat
    BY <1>1
  <2>4. QED
    BY <1>1, <1>3, <2>2, <2>3
<1>4. PICK p \in Nat : x = M * p + Wrap(x)
  BY <1>2
<1>5. Wrap(x) \in 0..(M - 1) /\ Wrap(x) + s \in Nat /\ x + s \in Nat
  BY <1>1, <1>2
<1>6. PICK q \in Nat : Wrap(x) + s = M * q + Wrap(Wrap(x) + s)
  BY <1>2, <1>5
<1>7. PICK r \in Nat : x + s = M * r + Wrap(x + s)
  BY <1>2, <1>5
<1> DEFINE a == Wrap(x)
           b == Wrap(a + s)
           c == Wrap(x + s)
<1>8. a \in 0..(M - 1) /\ b \in 0..(M - 1) /\ c \in 0..(M - 1)
  BY <1>2, <1>5
<1> HIDE DEF a, b, c
<1>9. M * (p + q) + b = M * r + c
  <2>1. x = M * p + a /\ a + s = M * q + b /\ x + s = M * r + c
    BY <1>4, <1>6, <1>7 DEF a, b, c
  <2>2. M * (p + q) = M * p + M * q
    BY <1>1
  <2>3. M * p \in Nat /\ M * q \in Nat /\ M * r \in Nat
    BY <1>1
  <2>4. QED
    BY <1>1, <1>8, <2>1, <2>2, <2>3
<1>10. p + q = r
  <2>1. p + q \in Nat /\ (p + q < r \/ p + q = r \/ r < p + q)
    OBVIOUS
  <2>2. QED
    BY <1>3, <1>8, <1>9, <2>1
<1>11. b = c
  <2>1. M * r \in Nat
    BY <1>1
  <2>2. QED
    BY <1>8, <1>9, <1>10, <2>1
<1>12. QED
  BY <1>11 DEF a, b, c

-------------------------------------------------------------------------------
\* A set of numbers has a least one.
LEMMA LeastNumber ==
    ASSUME NEW T \in SUBSET Nat, T # {}
    PROVE  \E m \in T : \A k \in T : m <= k
  <1> DEFINE R == OpToRel(<, Nat)
  <1>1. IsWellFoundedOn(R, Nat)
    BY NatLessThanWellFounded
  <1>2. T \subseteq Nat
    OBVIOUS
  <1>3. \A y, x \in T : ~(<<y, x>> \in R) => ~(y < x)
    BY <1>2 DEF OpToRel
  <1> HIDE DEF R
  <1>4. PICK x \in T : \A y \in T : <<y, x>> \notin R
    BY <1>1, <1>2, WFMin
  <1>5. \A y \in T : x <= y
    <2> SUFFICES ASSUME NEW y \in T PROVE x <= y
      OBVIOUS
    <2>1. x \in Nat /\ y \in Nat /\ ~(y < x)
      BY <1>2, <1>3, <1>4
    <2> QED BY <2>1
  <1> QED BY <1>5

\* A set of numbers with zero and the successors of its members has all of them.
LEMMA Induction ==
    ASSUME NEW T \in SUBSET Nat, 0 \in T, \A n \in T : n + 1 \in T
    PROVE  T = Nat
  <1>1. SUFFICES ASSUME Nat \ T # {} PROVE FALSE
    OBVIOUS
  <1>2. PICK m \in Nat \ T : \A k \in Nat \ T : m <= k
    BY <1>1, LeastNumber
  <1>3. m # 0 /\ m - 1 \in Nat
    BY <1>2
  <1>4. m - 1 \in T
    BY <1>2, <1>3
  <1> QED
    BY <1>2, <1>3, <1>4, (m - 1) + 1 = m

\* The bounds the binary search moves.
Bounds(list) == (0..Len(list)) \X (0..Len(list))

\* A round of the binary search.
SearchStep(f, list, id, i, j) ==
    LET h == (i + j) \div 2
    IN  IF i >= j THEN i
        ELSE IF Compare(list[h + 1], id) < 0 THEN f[<<h + 1, j>>] ELSE f[<<i, h>>]

\* The recursion of Search.
IsSearch(f, list, id) == f = [s \in Bounds(list) |-> SearchStep(f, list, id, s[1], s[2])]

\* The point a search looks at is between its bounds.
LEMMA Between ==
    ASSUME NEW i \in Nat, NEW j \in Nat, i < j, NEW h, h = (i + j) \div 2
    PROVE  h \in i..(j - 1) /\ h + 1 \in (i + 1)..j
  OBVIOUS

\* The recursion of Search has a solution (the search ends).
LEMMA SearchExists ==
    ASSUME NEW list, Len(list) \in Nat, NEW id
    PROVE  \E f : IsSearch(f, list, id)
  <1> DEFINE N == Len(list)
             D == 0..N
             F(f) == f = [s \in D \X D |-> f[s]]
             P(f, k) == \A i, j \in D : j - i <= k => f[<<i, j>>] = SearchStep(f, list, id, i, j)
             T == {k \in Nat : \E f : F(f) /\ P(f, k)}
  <1>0. N \in Nat
    OBVIOUS
  <1> HIDE DEF N
  <1>1. 0 \in T
    <2> DEFINE f == [s \in D \X D |-> s[1]]
    <2>1. F(f)
      OBVIOUS
    <2>2. \A i, j \in D : f[<<i, j>>] = i
      OBVIOUS
    <2> HIDE DEF f
    <2>3. P(f, 0)
      BY <1>0, <2>2 DEF SearchStep
    <2> QED BY <2>1, <2>3
  <1>2. ASSUME NEW k \in T PROVE k + 1 \in T
    <2>1. PICK g : F(g) /\ P(g, k)
      OBVIOUS
    <2> DEFINE f == [s \in D \X D |->
                       IF s[2] - s[1] <= k THEN g[s] ELSE SearchStep(g, list, id, s[1], s[2])]
    <2>2. \A i, j \in D : f[<<i, j>>] = IF j - i <= k THEN g[<<i, j>>]
                                        ELSE SearchStep(g, list, id, i, j)
      OBVIOUS
    <2>3. F(f)
      OBVIOUS
    <2> HIDE DEF f
    <2>4. ASSUME NEW i \in D, NEW j \in D, j - i <= k + 1
          PROVE  f[<<i, j>>] = SearchStep(f, list, id, i, j)
      <3>1. f[<<i, j>>] = SearchStep(g, list, id, i, j)
        BY <2>1, <2>2
      <3>2. CASE i >= j
        BY <3>1, <3>2 DEF SearchStep
      <3>3. CASE i < j
        <4> DEFINE h == (i + j) \div 2
        <4>1. h \in i..(j - 1) /\ h + 1 \in (i + 1)..j
          <5>1. i \in Nat /\ j \in Nat /\ h = (i + j) \div 2
            BY <1>0
          <5> HIDE DEF h
          <5> QED BY <3>3, <5>1, Between
        <4> HIDE DEF h
        <4> HIDE DEF T
        <4>2. h \in D /\ h - i <= k /\ h + 1 \in D /\ j - (h + 1) <= k
          <5>1. i \in 0..N /\ j \in 0..N /\ j - i <= k + 1 /\ k \in Nat
            BY <2>4 DEF T
          <5> QED BY <1>0, <4>1, <5>1
        <4>3. f[<<i, h>>] = g[<<i, h>>] /\ f[<<h + 1, j>>] = g[<<h + 1, j>>]
          BY <4>2, <2>2
        <4> QED BY <3>1, <4>3 DEF SearchStep, h
      <3> QED BY <1>0, <3>2, <3>3
    <2>5. P(f, k + 1)
      BY ONLY <2>4 DEF P
    <2>6. k + 1 \in Nat
      OBVIOUS
    <2> HIDE DEF F, P
    <2> QED BY <2>3, <2>5, <2>6
  <1>3. T = Nat
    <2> HIDE DEF T
    <2>1. T \in SUBSET Nat
      BY DEF T
    <2> QED BY <1>1, <1>2, <2>1, Induction
  <1>4. PICK f : F(f) /\ P(f, N)
    <2>1. N \in T
      BY <1>0, <1>3
    <2> QED BY <2>1
  <1>5. \A i, j \in D : f[<<i, j>>] = SearchStep(f, list, id, i, j)
    <2> SUFFICES ASSUME NEW i \in D, NEW j \in D PROVE f[<<i, j>>] = SearchStep(f, list, id, i, j)
      OBVIOUS
    <2>1. j - i <= N
      BY <1>0
    <2> QED BY <1>4, <2>1
  <1>6. \A s \in D \X D : f[s] = SearchStep(f, list, id, s[1], s[2])
    BY <1>5
  <1>7. f = [s \in D \X D |-> SearchStep(f, list, id, s[1], s[2])]
    BY ONLY <1>4, <1>6 DEF F
  <1> QED BY <1>7 DEF IsSearch, Bounds, N

\* The binary search finds every identifier of a strictly ordered list.
LEMMA SearchFinds ==
    ASSUME NEW list, Len(list) \in Nat, DOMAIN list = 1..Len(list),
           \A i \in DOMAIN list : list[i] # NilNode /\ list[i].id \in Nat,
           \A i, j \in DOMAIN list : i < j => list[i].id < list[j].id,
           NEW p \in DOMAIN list
    PROVE  Search(list, list[p].id) = p - 1
  <1> DEFINE N == Len(list)
             id == list[p].id
             f == CHOOSE g : IsSearch(g, list, id)
             P(k) == \A i, j \in 0..N : i <= p - 1 /\ p - 1 <= j /\ j - i <= k
                                          => f[<<i, j>>] = p - 1
             T == {k \in Nat : P(k)}
  <1>1. IsSearch(f, list, id)
    BY SearchExists
  <1>2. Search(list, id) = f[<<0, N>>]
    BY DEF Search, IsSearch, SearchStep, Bounds
  <1> HIDE DEF f
  <1>3. \A i, j \in 0..N : f[<<i, j>>] = SearchStep(f, list, id, i, j)
    BY <1>1 DEF IsSearch, Bounds
  <1>4. N \in Nat /\ p \in 1..N
    OBVIOUS
  <1>5. ASSUME NEW h \in 0..(N - 1) PROVE Compare(list[h + 1], id) < 0 <=> h + 1 < p
    <2>1. h + 1 \in 1..N /\ h + 1 \in DOMAIN list
      BY <1>4
    <2>2. list[h + 1] # NilNode /\ list[h + 1].id \in Nat /\ id \in Nat
      BY <2>1
    <2>3. /\ h + 1 < p => list[h + 1].id < id
          /\ p < h + 1 => id < list[h + 1].id
          /\ h + 1 = p => list[h + 1].id = id
      BY <2>1
    <2>4. h + 1 < p \/ h + 1 = p \/ p < h + 1
      BY <1>4, <2>1
    <2> HIDE DEF id
    <2>5. CASE h + 1 < p
      <3>1. Compare(list[h + 1], id) = -1
        BY <2>3, <2>5 DEF Compare
      <3> QED BY <2>5, <3>1
    <2>6. CASE h + 1 = p \/ p < h + 1
      <3>1. ~(list[h + 1].id < id) /\ ~(h + 1 < p)
        BY <1>4, <2>1, <2>2, <2>3, <2>6
      <3>2. Compare(list[h + 1], id) \in {0, 1}
        BY <2>2, <3>1 DEF Compare
      <3> QED BY <3>1, <3>2
    <2> QED BY <2>4, <2>5, <2>6
  <1> HIDE DEF N, id
  <1>6. P(0)
    <2> SUFFICES ASSUME NEW i \in 0..N, NEW j \in 0..N, i <= p - 1, p - 1 <= j, j - i <= 0
                 PROVE  f[<<i, j>>] = p - 1
      OBVIOUS
    <2>1. i = p - 1 /\ i >= j
      BY <1>4
    <2> QED BY <1>3, <2>1 DEF SearchStep
  <1>7. ASSUME NEW k \in Nat, P(k) PROVE P(k + 1)
    <2> SUFFICES ASSUME NEW i \in 0..N, NEW j \in 0..N, i <= p - 1, p - 1 <= j, j - i <= k + 1,
                        i < j
                 PROVE  f[<<i, j>>] = p - 1
      <3>1. ASSUME NEW i \in 0..N, NEW j \in 0..N, ~(i < j) PROVE j - i <= k
        BY <1>4, <3>1
      <3> QED BY <1>7, <3>1
    <2> DEFINE h == (i + j) \div 2
    <2>1. h \in i..(j - 1) /\ h + 1 \in (i + 1)..j
      <3>1. i \in Nat /\ j \in Nat /\ h = (i + j) \div 2
        BY <1>4
      <3> HIDE DEF h
      <3> QED BY <3>1, Between
    <2>2. f[<<i, j>>] = IF Compare(list[h + 1], id) < 0 THEN f[<<h + 1, j>>] ELSE f[<<i, h>>]
      <3>1. f[<<i, j>>] = SearchStep(f, list, id, i, j) /\ ~(i >= j)
        BY <1>3, <1>4
      <3> HIDE DEF h
      <3> QED BY <3>1 DEF SearchStep, h
    <2> HIDE DEF h
    <2>3. /\ h \in 0..(N - 1) /\ h \in 0..N /\ h + 1 \in 0..N
          /\ h - i <= k /\ j - (h + 1) <= k
      BY <1>4, <2>1
    <2>4. CASE h + 1 < p
      <3>1. h + 1 <= p - 1
        BY <1>4, <2>3, <2>4
      <3>2. f[<<h + 1, j>>] = p - 1
        BY <1>7, <2>3, <3>1
      <3> QED BY <1>5, <2>2, <2>3, <2>4, <3>2
    <2>5. CASE ~(h + 1 < p)
      <3>1. p - 1 <= h
        BY <1>4, <2>3, <2>5
      <3>2. f[<<i, h>>] = p - 1
        BY <1>7, <2>3, <3>1
      <3> QED BY <1>5, <2>2, <2>3, <2>5, <3>2
    <2> QED BY <2>4, <2>5
  <1> HIDE DEF P
  <1>8. T \in SUBSET Nat /\ 0 \in T /\ \A k \in T : k + 1 \in T
    BY ONLY <1>6, <1>7
  <1>9. P(N)
    <2> HIDE DEF T
    <2>1. N \in T
      BY <1>4, <1>8, Induction
    <2> QED BY <2>1 DEF T
  <1>10. f[<<0, N>>] = p - 1
    <2>1. 0 \in 0..N /\ N \in 0..N /\ 0 <= p - 1 /\ p - 1 <= N /\ N - 0 <= N
      BY <1>4
    <2> QED BY <1>9, <2>1 DEF P
  <1> QED BY <1>2, <1>10 DEF id

\* A list in order of identifiers that are all different is strictly ordered.
LEMMA StrictOrder ==
    ASSUME NEW list, Len(list) \in Nat, DOMAIN list = 1..Len(list), Sorted(list),
           \A i \in DOMAIN list : list[i].id \in Nat,
           \A i, j \in DOMAIN list : list[i].id = list[j].id => i = j
    PROVE  \A i, j \in DOMAIN list : i < j => list[i].id < list[j].id
  <1> DEFINE N == Len(list)
             P(k) == \A i, j \in 1..N : i < j /\ j - i <= k => list[i].id < list[j].id
             T == {k \in Nat : P(k)}
  <1>0. N \in Nat
    OBVIOUS
  <1>1. P(0)
    BY <1>0
  <1>2. ASSUME NEW k \in Nat, P(k) PROVE P(k + 1)
    <2> SUFFICES ASSUME NEW i \in 1..N, NEW j \in 1..N, i < j, j - i <= k + 1
                 PROVE  list[i].id < list[j].id
      OBVIOUS
    <2>1. j \in 2..N /\ j - 1 \in 1..N /\ j - 1 # j
      BY <1>0
    <2>2. list[j - 1].id <= list[j].id
      BY <2>1 DEF Sorted
    <2>3. /\ list[i].id \in Nat /\ list[j].id \in Nat /\ list[j - 1].id \in Nat
          /\ list[j - 1].id # list[j].id
      BY <2>1
    <2>4. i = j - 1 \/ (i < j - 1 /\ (j - 1) - i <= k)
      BY <1>0
    <2>5. i < j - 1 => list[i].id < list[j - 1].id
      BY <1>2, <2>1, <2>4
    <2> HIDE DEF P
    <2> QED BY <2>2, <2>3, <2>4, <2>5
  <1> HIDE DEF P
  <1>3. T \in SUBSET Nat /\ 0 \in T /\ \A k \in T : k + 1 \in T
    BY ONLY <1>1, <1>2
  <1>4. P(N)
    <2> HIDE DEF T
    <2>1. N \in T
      BY <1>0, <1>3, Induction
    <2> QED BY <2>1 DEF T
  <1> QED BY <1>0, <1>4 DEF P

-------------------------------------------------------------------------------
(***************************************************************************)
(* The inductive invariant.  The sum of a caller is the stake, wrapped, of *)
(* the members that count among those whose identifier it does not still   *)
(* have to visit and is not just visiting: the search for an identifier    *)
(* finds one position at most, so that no member counts twice.             *)
(***************************************************************************)
Visiting(t) == pc[t] \in {"once", "init", "verify"}

Pending(t) == todo[t] \cup (IF Visiting(t) THEN {at[t].id} ELSE {})

\* The vote of the member at position i counts for the map of t.
Counts(t, i) ==
    /\ nodes[i].id \in DOMAIN sigs[t]
    /\ getRootNode(nodes[i].id) = i
    /\ nodes[i].key # BadKey
    /\ VerifyHash(nodes[i].key, sigs[t][nodes[i].id])

Counted(t) == {i \in Members : Counts(t, i) /\ nodes[i].id \notin Pending(t)}

\* The node being visited is the one found for the identifier of a signature.
Found(t) ==
    /\ at[t].node \in Members
    /\ nodes[at[t].node].id = at[t].id
    /\ getRootNode(at[t].id) = at[t].node
    /\ at[t].id \in DOMAIN sigs[t]
    /\ at[t].id \notin todo[t]

\* A list as a trust base may have it.
IsList(list) ==
    /\ Len(list) \in Nat /\ DOMAIN list = 1..Len(list)
    /\ \A i \in DOMAIN list : \/ list[i] = NilNode
                              \/ list[i].id \in Nat /\ list[i].stake \in 0..MaxStake

TypeInv ==
    /\ sigs \in [Threads -> SignatureMaps]
    /\ DOMAIN todo = Threads /\ \A t \in Threads : todo[t] \subseteq DOMAIN sigs[t]
    /\ sum \in [Threads -> Nat]
    /\ DOMAIN at = Threads
    /\ DOMAIN pc = Threads

\* A verifier that has been made is that of its node.
CacheInv ==
    /\ DOMAIN verifier = DOMAIN nodes /\ DOMAIN once = DOMAIN nodes
    /\ \A i \in DOMAIN nodes : once[i] = "done" => verifier[i] = nodes[i].key

NodesInv ==
    /\ IsList(nodes)
    /\ threshold \in Nat
    /\ built => nodes # << >> /\ Sorted(nodes) /\ \A i \in DOMAIN nodes : nodes[i] # NilNode

CallerInv(t) ==
    /\ nodes = << >> => sum[t] = 0 /\ pc[t] = "next" /\ todo[t] = DOMAIN sigs[t]
    /\ Visiting(t) => Found(t)
    /\ pc[t] = "verify" => once[at[t].node] = "done"
    /\ sum[t] = Wrap(StakeOf(nodes, Counted(t)))
    /\ Returned(t) => todo[t] = {} /\ (pc[t] = "quorum" <=> sum[t] >= threshold)

Inv == TypeInv /\ CacheInv /\ NodesInv /\ \A t \in Threads : CallerInv(t)

-------------------------------------------------------------------------------
\* The members are finitely many.
LEMMA MembersFinite ==
    ASSUME NodesInv, NEW S \in SUBSET Members
    PROVE  IsFiniteSet(S)
  <1> DEFINE N == Len(nodes)
  <1>1. N \in Nat /\ S \subseteq 1..N
    BY DEF NodesInv, IsList, Members
  <1> HIDE DEF N
  <1>2. IsFiniteSet(1..N)
    BY <1>1, FS_Interval
  <1> QED BY <1>1, <1>2, FS_Subset

\* A node that is found has the identifier that was searched for.
LEMMA FoundIsMember ==
    ASSUME NodesInv, NEW id
    PROVE  /\ getRootNode(id) # 0 => getRootNode(id) \in Members /\ nodes[getRootNode(id)].id = id
           /\ 0 \notin Members
  <1>1. 0 \notin Members
    BY DEF NodesInv, IsList, Members
  <1>2. ASSUME getRootNode(id) # 0
        PROVE  getRootNode(id) \in Members /\ nodes[getRootNode(id)].id = id
    <2> DEFINE i == getRootNode(id)
    <2>1. i \in DOMAIN nodes /\ Compare(nodes[i], id) = 0
      BY <1>2 DEF getRootNode
    <2> HIDE DEF i
    <2>2. i \in Members /\ nodes[i].id = id
      BY <2>1 DEF Compare, Members
    <2> QED BY <2>2 DEF i
  <1> QED BY <1>1, <1>2

\* In a trust base that was made of different nodes every node is found.
LEMMA MembersAreFound ==
    ASSUME NodesInv, built, Distinct, NEW i \in Members
    PROVE  getRootNode(nodes[i].id) = i
  <1>1. /\ Len(nodes) \in Nat /\ DOMAIN nodes = 1..Len(nodes) /\ Sorted(nodes)
        /\ \A j \in DOMAIN nodes : nodes[j] # NilNode /\ nodes[j].id \in Nat
        /\ Members = DOMAIN nodes
    BY DEF NodesInv, IsList, Members
  <1>2. \A j, k \in DOMAIN nodes : j < k => nodes[j].id < nodes[k].id
    <2>1. \A j, k \in DOMAIN nodes : nodes[j].id = nodes[k].id => j = k
      BY <1>1 DEF Distinct
    <2> QED BY <1>1, <2>1, StrictOrder
  <1>3. Search(nodes, nodes[i].id) = i - 1
    BY <1>1, <1>2, SearchFinds
  <1>4. (i - 1) + 1 = i /\ i \in DOMAIN nodes
    BY <1>1
  <1>5. Compare(nodes[i], nodes[i].id) = 0
    <2>1. nodes[i] # NilNode /\ ~(nodes[i].id < nodes[i].id)
      BY <1>1, <1>4
    <2> QED BY <2>1 DEF Compare
  <1> QED BY <1>3, <1>4, <1>5 DEF getRootNode

\* A signature that VerifyHash passes is the one its member has made.
LEMMA VerifiedIsSigned ==
    ASSUME TypeInv, NEW t \in Threads, NEW id \in DOMAIN sigs[t], NEW key
    PROVE  VerifyHash(key, sigs[t][id]) <=> sigs[t][id] = SignHash(key)
  <1> DEFINE sig == sigs[t][id]
  <1>1. sig \in [by : {sig.by}, over : BOOLEAN, bytes : Nat, v : Nat, lowS : BOOLEAN]
    BY RootNodesAssumption DEF TypeInv
  <1> HIDE DEF sig
  <1>2. VerifyHash(key, sig) => sig = SignHash(key)
    BY <1>1 DEF VerifyHash, SignHash
  <1>3. VerifyHash(key, SignHash(key))
    BY DEF VerifyHash, SignHash
  <1> QED BY <1>2, <1>3 DEF sig

\* Who counts stays the same with the list, the maps and what is pending.
LEMMA CountedSame ==
    ASSUME NEW t \in Threads, nodes' = nodes, sigs' = sigs, Pending(t)' = Pending(t)
    PROVE  Counted(t)' = Counted(t)
  BY DEF Counted, Counts, Members, getRootNode

-------------------------------------------------------------------------------
\* Nobody counts while everything is pending.
LEMMA NothingCounted ==
    ASSUME NEW t \in Threads, todo[t] = DOMAIN sigs[t]
    PROVE  Counted(t) = {}
  BY DEF Counted, Counts, Pending

\* The stake of nobody, wrapped.
LEMMA WrapOfNothing == ASSUME NEW list PROVE Wrap(StakeOf(list, {})) = 0
  <1>1. 0 < Modulus
    BY QuorumAssumption
  <1> QED BY <1>1, StakeOfNobody DEF Wrap

LEMMA InitInv == Init => Inv
  <1> SUFFICES ASSUME Init PROVE Inv
    OBVIOUS
  <1>1. TypeInv /\ CacheInv
    BY DEF Init, TypeInv, CacheInv
  <1>2. NodesInv
    <2>1. Len(<< >>) = 0 /\ DOMAIN << >> = 1..0
      OBVIOUS
    <2> QED BY <2>1 DEF Init, NodesInv, IsList
  <1>3. ASSUME NEW t \in Threads PROVE CallerInv(t)
    <2>1. sum[t] = 0 /\ pc[t] = "next" /\ todo[t] = DOMAIN sigs[t]
      BY DEF Init
    <2>2. Counted(t) = {}
      BY <2>1, NothingCounted
    <2> QED BY <2>1, <2>2, WrapOfNothing DEF CallerInv, Visiting, Returned
  <1> QED BY <1>1, <1>2, <1>3 DEF Inv

\* A trust base appears while nobody has counted anything.
LEMMA AppearInv ==
    ASSUME Inv, nodes = << >>, UNCHANGED <<sigs, todo, sum, at, pc>>, NodesInv',
           DOMAIN once' = DOMAIN nodes', DOMAIN verifier' = DOMAIN nodes',
           \A i \in DOMAIN nodes' : once'[i] # "done"
    PROVE  Inv'
  <1>1. TypeInv' /\ CacheInv'
    BY DEF Inv, TypeInv, CacheInv
  <1>2. ASSUME NEW t \in Threads PROVE CallerInv(t)'
    <2>1. sum'[t] = 0 /\ pc'[t] = "next" /\ todo'[t] = DOMAIN sigs'[t]
      BY DEF Inv, CallerInv
    <2>2. Counted(t)' = {}
      BY <2>1 DEF Counted, Counts, Pending
    <2>3. sum'[t] = Wrap(StakeOf(nodes', Counted(t)'))
      BY <2>1, <2>2, WrapOfNothing
    <2> QED BY <2>1, <2>3 DEF CallerInv, Visiting, Returned
  <1> QED BY <1>1, <1>2 DEF Inv

LEMMA NewTrustBaseInv == Inv /\ NewTrustBase => Inv'
  <1> SUFFICES ASSUME Inv, NewTrustBase PROVE Inv'
    OBVIOUS
  <1>1. PICK list \in BuiltLists, conf \in Thresholds :
          /\ \A i \in DOMAIN list : list[i] # NilNode
          /\ Constructible(StakesOf(list), conf)
          /\ \E q \in Bijection(DOMAIN list, DOMAIN list) :
               /\ nodes' = [i \in DOMAIN list |-> list[q[i]]]
               /\ Sorted(nodes')
          /\ threshold' = QuorumThreshold(StakesOf(list), conf)
          /\ Fresh(list)
    BY DEF NewTrustBase
  <1>2. PICK q \in Bijection(DOMAIN list, DOMAIN list) :
          nodes' = [i \in DOMAIN list |-> list[q[i]]] /\ Sorted(nodes')
    BY <1>1
  <1>3. q \in [DOMAIN list -> DOMAIN list]
    BY DEF Bijection, Injection
  <1>4. /\ Len(list) \in Nat /\ DOMAIN list = 1..Len(list)
        /\ \A i \in DOMAIN list : list[i].id \in Nat /\ list[i].stake \in 0..MaxStake
    BY <1>1, RootNodesAssumption
  <1>5. Len(nodes') = Len(list)
    <2> DEFINE S == {list[q[i]] : i \in DOMAIN list}
    <2>1. nodes' \in [1..Len(list) -> S]
      BY <1>2, <1>4
    <2> HIDE DEF S
    <2> QED BY <1>4, <2>1
  <1>6. IsList(nodes') /\ \A i \in DOMAIN nodes' : nodes'[i] # NilNode
    BY <1>1, <1>2, <1>3, <1>4, <1>5 DEF IsList
  <1>7. nodes' # << >>
    <2>1. DOMAIN list # {}
      BY <1>1 DEF Constructible, StakesOf
    <2>2. DOMAIN nodes' = DOMAIN list
      BY <1>2
    <2> QED BY <2>1, <2>2
  <1>8. threshold' \in Nat
    <2> DEFINE c == StakesOf(list)
    <2>1. IsFiniteSet(DOMAIN c)
      <3> DEFINE N == Len(list)
      <3>1. N \in Nat /\ DOMAIN c = 1..N
        BY <1>4 DEF StakesOf
      <3> HIDE DEF N
      <3> QED BY <3>1, FS_Interval
    <2> HIDE DEF c
    <2>2. TotalStake(c) \in Nat
      BY <2>1, StakeIsNat, WrapBounded DEF TotalStake
    <2>3. MinStake(c) \in Nat
      BY <2>2, WrapBounded DEF MinStake
    <2>4. QuorumThreshold(c, conf) \in Nat
      BY <2>3, RootNodesAssumption DEF QuorumThreshold
    <2> QED BY <1>1, <2>4 DEF c
  <1>9. NodesInv'
    BY <1>2, <1>6, <1>7, <1>8 DEF NodesInv
  <1>10. /\ DOMAIN once' = DOMAIN nodes' /\ DOMAIN verifier' = DOMAIN nodes'
         /\ \A i \in DOMAIN nodes' : once'[i] # "done"
    BY <1>1, <1>2 DEF Fresh
  <1> QED BY <1>9, <1>10, AppearInv DEF NewTrustBase

LEMMA UnmarshalInv == Inv /\ UnmarshalCBOR => Inv'
  <1> SUFFICES ASSUME Inv, UnmarshalCBOR PROVE Inv'
    OBVIOUS
  <1>1. nodes = << >> /\ nodes' \in DecodedLists /\ built' = built /\ ~built
    BY DEF UnmarshalCBOR, Inv, NodesInv
  <1>2. IsList(nodes')
    <2>1. \A list \in DecodedLists : IsList(list)
      BY RootNodesAssumption DEF IsList
    <2> QED BY <1>1, <2>1
  <1>3. NodesInv'
    <2>1. threshold' \in Nat
      BY RootNodesAssumption DEF UnmarshalCBOR
    <2> QED BY <1>1, <1>2, <2>1 DEF NodesInv
  <1>4. /\ DOMAIN once' = DOMAIN nodes' /\ DOMAIN verifier' = DOMAIN nodes'
        /\ \A i \in DOMAIN nodes' : once'[i] # "done"
    BY DEF UnmarshalCBOR, Fresh
  <1> QED BY <1>3, <1>4, AppearInv DEF UnmarshalCBOR

-------------------------------------------------------------------------------
\* A step of a caller leaves the list alone, the types right, and a verifier
\* that was made as it is.
LEMMA StepKeeps ==
    ASSUME Inv, NEW t \in Threads, Step(t)
    PROVE  /\ TypeInv' /\ CacheInv' /\ NodesInv'
           /\ nodes' = nodes /\ sigs' = sigs /\ threshold' = threshold
           /\ \A i \in DOMAIN nodes : once[i] = "done" => once'[i] = "done"
           /\ \A u \in Threads : u # t => /\ todo'[u] = todo[u] /\ sum'[u] = sum[u]
                                       /\ at'[u] = at[u] /\ pc'[u] = pc[u]
  <1> DEFINE Others == \A u \in Threads : u # t => /\ todo'[u] = todo[u] /\ sum'[u] = sum[u]
                                                /\ at'[u] = at[u] /\ pc'[u] = pc[u]
             Lists == nodes' = nodes /\ sigs' = sigs /\ threshold' = threshold /\ built' = built
             Once == \A i \in DOMAIN nodes : once[i] = "done" => once'[i] = "done"
  <1>1. CASE NextSignature(t)
    <2>1. PICK id \in todo[t] :
            /\ todo' = [todo EXCEPT ![t] = @ \ {id}]
            /\ IF getRootNode(id) = 0
               THEN UNCHANGED <<at, pc>>
               ELSE /\ at' = [at EXCEPT ![t] = [node |-> getRootNode(id), id |-> id]]
                    /\ pc' = [pc EXCEPT ![t] = "once"]
      BY <1>1 DEF NextSignature
    <2>2. Lists /\ UNCHANGED <<once, verifier, sum>>
      BY <1>1 DEF NextSignature, cache
    <2>3. Others
      BY <2>1, <2>2 DEF Inv, TypeInv
    <2>4. TypeInv'
      BY <2>1, <2>2 DEF Inv, TypeInv
    <2> QED BY <2>2, <2>3, <2>4 DEF Inv, CacheInv, NodesInv
  <1>2. CASE EnterOnce(t)
    <2>1. /\ Lists /\ UNCHANGED <<verifier, todo, sum, at>>
          /\ once[at[t].node] # "done"
          /\ once' = [once EXCEPT ![at[t].node] = "running"]
          /\ pc' = [pc EXCEPT ![t] = "init"]
      BY <1>2 DEF EnterOnce
    <2>2. TypeInv' /\ Others /\ NodesInv'
      BY <2>1 DEF Inv, TypeInv, NodesInv
    <2>3. CacheInv' /\ Once
      BY <2>1 DEF Inv, CacheInv
    <2> QED BY <2>1, <2>2, <2>3
  <1>3. CASE InitVerifier(t)
    <2>1. /\ Lists /\ UNCHANGED <<todo, sum, at>>
          /\ once' = [once EXCEPT ![at[t].node] = "done"]
          /\ verifier' = [verifier EXCEPT ![at[t].node] = nodes[at[t].node].key]
          /\ pc' = [pc EXCEPT ![t] = "verify"]
      BY <1>3 DEF InitVerifier
    <2>2. TypeInv' /\ Others /\ NodesInv'
      BY <2>1 DEF Inv, TypeInv, NodesInv
    <2>3. CacheInv' /\ Once
      BY <2>1 DEF Inv, CacheInv
    <2> QED BY <2>1, <2>2, <2>3
  <1>4. CASE AfterOnce(t)
    <2>1. /\ Lists /\ UNCHANGED <<once, verifier, todo, sum, at>>
          /\ pc' = [pc EXCEPT ![t] = "verify"]
      BY <1>4 DEF AfterOnce, cache
    <2>2. TypeInv' /\ Others
      BY <2>1 DEF Inv, TypeInv
    <2> QED BY <2>1, <2>2 DEF Inv, CacheInv, NodesInv
  <1>5. CASE CountVote(t)
    <2> DEFINE i == at[t].node
    <2>1. /\ Lists /\ UNCHANGED <<once, verifier, todo>>
          /\ sum' = [sum EXCEPT ![t] = Wrap(@ + nodes[i].stake)] \/ sum' = sum
          /\ at' = [at EXCEPT ![t] = Nobody]
          /\ pc' = [pc EXCEPT ![t] = "next"]
      BY <1>5 DEF CountVote, cache
    <2>2. sum[t] \in Nat /\ nodes[i].stake \in Nat
      <3>1. pc[t] = "verify" /\ Found(t)
        BY <1>5 DEF CountVote, Inv, CallerInv, Visiting
      <3>2. nodes[i].stake \in 0..MaxStake
        BY <3>1 DEF Found, Members, Inv, NodesInv, IsList
      <3> QED BY <3>2, QuorumAssumption DEF Inv, TypeInv
    <2>3. Wrap(sum[t] + nodes[i].stake) \in Nat
      BY <2>2, WrapBounded
    <2> HIDE DEF i
    <2>4. TypeInv' /\ Others
      BY <2>1, <2>3 DEF Inv, TypeInv
    <2> QED BY <2>1, <2>4 DEF Inv, CacheInv, NodesInv
  <1>6. CASE Return(t)
    <2>1. /\ Lists /\ UNCHANGED <<once, verifier, todo, sum, at>>
          /\ pc' = [pc EXCEPT ![t] = IF sum[t] >= threshold THEN "quorum" ELSE "no quorum"]
      BY <1>6 DEF Return, cache
    <2>2. TypeInv' /\ Others
      BY <2>1 DEF Inv, TypeInv
    <2> QED BY <2>1, <2>2 DEF Inv, CacheInv, NodesInv
  <1> QED BY <1>1, <1>2, <1>3, <1>4, <1>5, <1>6 DEF Step

\* A step of a caller leaves the other callers alone.
LEMMA OthersInv ==
    ASSUME Inv, NEW t \in Threads, Step(t), NEW u \in Threads, u # t
    PROVE  CallerInv(u)'
  <1>1. /\ nodes' = nodes /\ sigs' = sigs /\ threshold' = threshold
        /\ \A i \in DOMAIN nodes : once[i] = "done" => once'[i] = "done"
        /\ todo'[u] = todo[u] /\ sum'[u] = sum[u] /\ at'[u] = at[u] /\ pc'[u] = pc[u]
    BY StepKeeps
  <1>2. CallerInv(u)
    BY DEF Inv
  <1>3. Pending(u)' = Pending(u) /\ (Visiting(u)' <=> Visiting(u)) /\ (Returned(u)' <=> Returned(u))
    BY <1>1 DEF Pending, Visiting, Returned
  <1>4. Counted(u)' = Counted(u)
    BY <1>1, <1>3, CountedSame
  <1>5. Found(u)' <=> Found(u)
    BY <1>1 DEF Found, Members, getRootNode
  <1>6. pc'[u] = "verify" => once'[at'[u].node] = "done"
    <2>1. pc[u] = "verify" => at[u].node \in DOMAIN nodes
      BY <1>2 DEF CallerInv, Visiting, Found, Members
    <2> QED BY <1>1, <1>2, <2>1 DEF CallerInv
  <1> QED BY <1>1, <1>2, <1>3, <1>4, <1>5, <1>6 DEF CallerInv

\* The caller takes the next signature off its list: what is not found has no
\* vote, and what is found is pending.
LEMMA NextSignatureInv ==
    ASSUME Inv, NEW t \in Threads, NextSignature(t)
    PROVE  CallerInv(t)'
  <1>1. PICK id \in todo[t] :
          /\ todo' = [todo EXCEPT ![t] = @ \ {id}]
          /\ IF getRootNode(id) = 0
             THEN UNCHANGED <<at, pc>>
             ELSE /\ at' = [at EXCEPT ![t] = [node |-> getRootNode(id), id |-> id]]
                  /\ pc' = [pc EXCEPT ![t] = "once"]
    BY DEF NextSignature
  <1>2. /\ nodes # << >> /\ pc[t] = "next" /\ ~Visiting(t)
        /\ UNCHANGED <<nodes, threshold, once, sigs, sum>>
    BY DEF NextSignature, cache, Visiting
  <1>3. todo'[t] = todo[t] \ {id} /\ id \in DOMAIN sigs[t] /\ Pending(t) = todo[t]
    BY <1>1, <1>2 DEF Inv, TypeInv, Pending
  <1>4. sum[t] = Wrap(StakeOf(nodes, Counted(t)))
    BY DEF Inv, CallerInv
  <1>5. CASE getRootNode(id) = 0
    <2>1. pc'[t] = "next" /\ ~Visiting(t)' /\ Pending(t)' = todo[t] \ {id}
      BY <1>1, <1>2, <1>3, <1>5 DEF Pending, Visiting
    <2>2. \A i \in Members : Counts(t, i) => nodes[i].id # id
      BY <1>5, FoundIsMember DEF Counts, Inv
    <2>3. Counted(t)' = Counted(t)
      BY <1>2, <1>3, <2>1, <2>2 DEF Counted, Counts, Members, getRootNode
    <2> QED BY <1>2, <1>4, <2>1, <2>3 DEF CallerInv, Returned
  <1>6. CASE getRootNode(id) # 0
    <2> DEFINE i == getRootNode(id)
    <2>1. i \in Members /\ nodes[i].id = id
      BY <1>6, FoundIsMember DEF Inv
    <2>2. at'[t] = [node |-> i, id |-> id] /\ pc'[t] = "once"
      BY <1>1, <1>6 DEF Inv, TypeInv
    <2>3. getRootNode(id)' = i
      BY <1>2 DEF getRootNode
    <2> HIDE DEF i
    <2>4. Found(t)'
      BY <1>2, <1>3, <2>1, <2>2, <2>3 DEF Found, Members
    <2>5. Pending(t)' = Pending(t)
      BY <1>1, <1>3, <2>2 DEF Pending, Visiting
    <2>6. Counted(t)' = Counted(t)
      BY <1>2, <2>5, CountedSame
    <2> QED BY <1>2, <1>4, <2>2, <2>4, <2>6 DEF CallerInv, Returned
  <1> QED BY <1>5, <1>6

\* The caller gets the verifier of the node, which then has been made.
LEMMA OnceInv ==
    ASSUME Inv, NEW t \in Threads, EnterOnce(t) \/ InitVerifier(t) \/ AfterOnce(t)
    PROVE  CallerInv(t)'
  <1>1. /\ Visiting(t) /\ pc'[t] \in {"init", "verify"}
        /\ UNCHANGED <<nodes, threshold, sigs, todo, sum, at>>
    BY DEF EnterOnce, InitVerifier, AfterOnce, Visiting, Inv, TypeInv
  <1>2. Found(t) /\ nodes # << >> /\ sum[t] = Wrap(StakeOf(nodes, Counted(t)))
    BY <1>1 DEF Inv, CallerInv, Visiting
  <1>3. pc'[t] = "verify" => once'[at'[t].node] = "done"
    <2>1. at[t].node \in DOMAIN once
      BY <1>2 DEF Found, Members, Inv, CacheInv
    <2>2. CASE EnterOnce(t)
      BY <2>2 DEF EnterOnce, Inv, TypeInv
    <2>3. CASE InitVerifier(t)
      BY <2>1, <2>3 DEF InitVerifier
    <2>4. CASE AfterOnce(t)
      BY <2>4 DEF AfterOnce, cache
    <2> QED BY <2>2, <2>3, <2>4
  <1>4. Visiting(t)' /\ Pending(t)' = Pending(t)
    BY <1>1 DEF Visiting, Pending
  <1>5. Counted(t)' = Counted(t)
    BY <1>1, <1>4, CountedSame
  <1>6. Found(t)'
    BY <1>1, <1>2 DEF Found, Members, getRootNode
  <1> QED BY <1>1, <1>2, <1>3, <1>5, <1>6 DEF CallerInv, Returned

\* The caller counts the vote, if it counts: its identifier was pending and is
\* not any more.
LEMMA CountVoteInv ==
    ASSUME Inv, NEW t \in Threads, CountVote(t)
    PROVE  CallerInv(t)'
  <1> DEFINE i == at[t].node
  <1>1. /\ Visiting(t) /\ pc[t] = "verify" /\ pc'[t] = "next" /\ ~Visiting(t)'
        /\ UNCHANGED <<nodes, threshold, sigs, todo>>
    BY DEF CountVote, cache, Visiting, Inv, TypeInv
  <1>2. /\ Found(t) /\ nodes # << >> /\ sum[t] = Wrap(StakeOf(nodes, Counted(t)))
        /\ once[i] = "done"
    BY <1>1 DEF Inv, CallerInv
  <1>3. /\ i \in Members /\ nodes[i].id = at[t].id /\ getRootNode(nodes[i].id) = i
        /\ nodes[i].id \in DOMAIN sigs[t] /\ nodes[i].id \notin todo[t]
    BY <1>2 DEF Found
  <1>4. verifier[i] = nodes[i].key
    BY <1>2, <1>3 DEF Inv, CacheInv, Members
  <1>5. IF Counts(t, i) THEN sum' = [sum EXCEPT ![t] = Wrap(@ + nodes[i].stake)]
                        ELSE sum' = sum
    BY <1>3, <1>4 DEF CountVote, Counts
  <1>6. Pending(t) = todo[t] \cup {nodes[i].id} /\ Pending(t)' = todo[t]
    BY <1>1, <1>3 DEF Pending
  <1>7. i \notin Counted(t)
    BY <1>6 DEF Counted
  <1>8. \A j \in Members : Counts(t, j) /\ nodes[j].id = nodes[i].id => j = i
    BY <1>3 DEF Counts
  <1> HIDE DEF i
  <1>9. Counted(t)' = {j \in Members : Counts(t, j) /\ nodes[j].id \notin todo[t]}
    BY <1>1, <1>6 DEF Counted, Counts, Members, getRootNode
  <1>10. Counted(t)' = IF Counts(t, i) THEN Counted(t) \cup {i} ELSE Counted(t)
    <2>1. CASE Counts(t, i)
      <3>1. \A j \in Counted(t)' : j \in Counted(t) \cup {i}
        BY <1>6, <1>8, <1>9 DEF Counted
      <3>2. \A j \in Counted(t) \cup {i} : j \in Counted(t)'
        BY <1>3, <1>6, <1>9, <2>1 DEF Counted
      <3> QED BY <2>1, <3>1, <3>2
    <2>2. CASE ~Counts(t, i)
      <3>1. \A j \in Counted(t)' : j \in Counted(t)
        BY <1>6, <1>8, <1>9, <2>2 DEF Counted
      <3>2. \A j \in Counted(t) : j \in Counted(t)'
        BY <1>6, <1>9 DEF Counted
      <3> QED BY <2>2, <3>1, <3>2
    <2> QED BY <2>1, <2>2
  <1>11. sum'[t] = Wrap(StakeOf(nodes', Counted(t)'))
    <2>1. CASE Counts(t, i)
      <3>1. nodes[i].stake \in 0..MaxStake
        BY <1>3 DEF Inv, NodesInv, IsList, Members
      <3>2. IsFiniteSet(Counted(t))
        BY MembersFinite DEF Inv, Counted
      <3>3. /\ StakeOf(nodes, Counted(t)) \in Nat
            /\ StakeOf(nodes, Counted(t) \cup {i}) = StakeOf(nodes, Counted(t)) + nodes[i].stake
        BY <1>7, <3>1, <3>2, StakeOfOneMore
      <3>4. sum'[t] = Wrap(sum[t] + nodes[i].stake)
        BY <1>5, <2>1 DEF Inv, TypeInv
      <3>5. Wrap(sum[t] + nodes[i].stake) = Wrap(StakeOf(nodes, Counted(t)) + nodes[i].stake)
        BY <1>2, <3>1, <3>3, WrapOfSum
      <3> QED BY <1>1, <1>10, <2>1, <3>3, <3>4, <3>5
    <2>2. CASE ~Counts(t, i)
      BY <1>1, <1>2, <1>5, <1>10, <2>2
    <2> QED BY <2>1, <2>2
  <1> QED BY <1>1, <1>2, <1>11 DEF CallerInv, Returned

\* The caller has visited everything and compares.
LEMMA ReturnInv ==
    ASSUME Inv, NEW t \in Threads, Return(t)
    PROVE  CallerInv(t)'
  <1>1. /\ nodes # << >> /\ pc[t] = "next" /\ todo[t] = {}
        /\ pc'[t] = IF sum[t] >= threshold THEN "quorum" ELSE "no quorum"
        /\ UNCHANGED <<nodes, threshold, sigs, todo, sum, at>>
    BY DEF Return, cache, Inv, TypeInv
  <1>2. ~Visiting(t)' /\ Pending(t)' = Pending(t) /\ pc'[t] # "verify"
    BY <1>1 DEF Visiting, Pending
  <1>3. Counted(t)' = Counted(t)
    BY <1>1, <1>2, CountedSame
  <1>4. sum[t] = Wrap(StakeOf(nodes, Counted(t)))
    BY DEF Inv, CallerInv
  <1>5. pc'[t] = "quorum" <=> sum'[t] >= threshold'
    BY <1>1
  <1> QED BY <1>1, <1>2, <1>3, <1>4, <1>5 DEF CallerInv

\* Every step preserves the invariant.
LEMMA StepInv == ASSUME Inv, NEW t \in Threads, Step(t) PROVE Inv'
  <1>1. TypeInv' /\ CacheInv' /\ NodesInv'
    BY StepKeeps
  <1>2. CallerInv(t)'
    BY NextSignatureInv, OnceInv, CountVoteInv, ReturnInv DEF Step
  <1>3. \A u \in Threads : u # t => CallerInv(u)'
    BY OthersInv
  <1> QED BY <1>1, <1>2, <1>3 DEF Inv

LEMMA StutterInv == Inv /\ UNCHANGED vars => Inv'
  <1> SUFFICES ASSUME Inv, UNCHANGED vars PROVE Inv'
    OBVIOUS
  <1>1. UNCHANGED <<nodes, threshold, built, once, verifier, sigs, todo, sum, at, pc>>
    BY DEF vars, cache
  <1>2. TypeInv' /\ CacheInv' /\ NodesInv'
    BY <1>1 DEF Inv, TypeInv, CacheInv, NodesInv
  <1>3. ASSUME NEW t \in Threads PROVE CallerInv(t)'
    <2>1. Pending(t)' = Pending(t) /\ (Found(t)' <=> Found(t))
      BY <1>1 DEF Pending, Visiting, Found, Members, getRootNode
    <2>2. Counted(t)' = Counted(t)
      BY <1>1, <2>1, CountedSame
    <2>3. CallerInv(t)
      BY DEF Inv
    <2>4. (Visiting(t)' <=> Visiting(t)) /\ (Returned(t)' <=> Returned(t))
      BY <1>1 DEF Visiting, Returned
    <2> QED BY <1>1, <2>1, <2>2, <2>3, <2>4 DEF CallerInv
  <1> QED BY <1>2, <1>3 DEF Inv

\* The invariant holds in every behaviour.
LEMMA InvHolds == Spec => []Inv
  <1>1. Inv /\ [Next]_vars => Inv'
    BY NewTrustBaseInv, UnmarshalInv, StepInv, StutterInv DEF Next
  <1> QED BY <1>1, InitInv, PTL DEF Spec

-------------------------------------------------------------------------------
\* Who counts has signed, and under an identifier of its own.
LEMMA CountedHaveSigned ==
    ASSUME Inv, NEW t \in Threads
    PROVE  /\ Counted(t) \in SUBSET Signed(t)
           /\ \A i, j \in Counted(t) : nodes[i].id = nodes[j].id => i = j
  <1>1. ASSUME NEW i \in Counted(t) PROVE i \in Signed(t)
    <2>1. i \in Members /\ Counts(t, i)
      BY DEF Counted
    <2>2. sigs[t][nodes[i].id] = SignHash(nodes[i].key)
      BY <2>1, VerifiedIsSigned DEF Counts, Inv
    <2> QED BY <2>1, <2>2 DEF Signed, Counts
  <1> QED BY <1>1 DEF Counted, Counts

(***************************************************************************)
(* A verification that reports a quorum has one: different members whose   *)
(* own signatures are in the map hold the threshold, whatever list was     *)
(* decoded and whoever else verifies (VerifyQuorumSignatures).             *)
(***************************************************************************)
THEOREM QuorumIsRealHolds == Spec => []QuorumIsReal
  <1>1. Inv => QuorumIsReal
    <2> SUFFICES ASSUME Inv, NEW t \in Threads, pc[t] = "quorum"
                 PROVE  \E S \in SUBSET Signed(t) :
                          /\ \A i, j \in S : nodes[i].id = nodes[j].id => i = j
                          /\ Stake([i \in S |-> nodes[i].stake], S) >= threshold
      BY DEF QuorumIsReal
    <2> DEFINE S == Counted(t)
    <2>1. S \in SUBSET Signed(t) /\ \A i, j \in S : nodes[i].id = nodes[j].id => i = j
      BY CountedHaveSigned
    <2>2. sum[t] = Wrap(StakeOf(nodes, S)) /\ sum[t] >= threshold
      BY DEF Inv, CallerInv, Returned
    <2>3. StakeOf(nodes, S) \in Nat
      <3>1. IsFiniteSet(S)
        BY MembersFinite DEF Inv, Counted
      <3> QED BY <3>1, StakeIsNat DEF StakeOf
    <2> HIDE DEF S
    <2>4. StakeOf(nodes, S) >= threshold
      BY <2>2, <2>3, WrapBounded DEF Inv, NodesInv
    <2>5. Stake([i \in S |-> nodes[i].stake], S) >= threshold
      BY <2>4 DEF StakeOf
    <2> QED BY <2>1, <2>5
  <1> QED BY <1>1, InvHolds, PTL

(***************************************************************************)
(* With a trust base that NewTrustBase has made of different nodes, every  *)
(* caller gets the answer of RootQuorum, in whatever order it visits the   *)
(* map and whoever else is just making a verifier.  With any other one,    *)
(* callers that verify the same map get the same answer                    *)
(* (VerifyQuorumSignatures, SigVerifier).                                  *)
(***************************************************************************)
THEOREM VerdictDeterminedHolds == Spec => []VerdictDetermined
  <1>1. ASSUME Inv, NEW t \in Threads, Returned(t)
        PROVE  /\ Counted(t) = {i \in Members : Counts(t, i)}
               /\ pc[t] = "quorum" <=> Wrap(StakeOf(nodes, Counted(t))) >= threshold
    <2>1. Pending(t) = {}
      BY <1>1 DEF Inv, CallerInv, Returned, Pending, Visiting
    <2>2. CallerInv(t)
      BY <1>1 DEF Inv
    <2>3. Counted(t) = {i \in Members : Counts(t, i)}
      BY <2>1 DEF Counted
    <2>4. sum[t] = Wrap(StakeOf(nodes, Counted(t))) /\ (pc[t] = "quorum" <=> sum[t] >= threshold)
      BY <1>1, <2>2 DEF CallerInv
    <2> QED BY <2>3, <2>4
  <1>2. ASSUME Inv, NEW t \in Threads, Returned(t), built, Distinct
        PROVE  pc[t] = "quorum" <=>
                 VerifyQuorumSignatures(StakesOf(nodes), threshold, Signed(t))
    <2>1. Counted(t) = Signed(t)
      <3>1. ASSUME NEW i \in Signed(t) PROVE i \in Members /\ Counts(t, i)
        BY <1>2, MembersAreFound, VerifiedIsSigned DEF Signed, Counts, Inv
      <3> QED BY <1>1, <1>2, <3>1, CountedHaveSigned
    <2>2. Stake(StakesOf(nodes), Signed(t)) = StakeOf(nodes, Signed(t))
      <3> DEFINE S == Signed(t)
                 a == StakesOf(nodes)
                 b == [i \in S |-> nodes[i].stake]
      <3>1. \A i \in S : i \in DOMAIN a /\ i \in DOMAIN b /\ a[i] = b[i]
        BY DEF Signed, Members, StakesOf
      <3> HIDE DEF S, a, b
      <3>2. Votes(a, S) = Votes(b, S)
        BY <3>1 DEF Votes
      <3> QED BY <3>2 DEF Stake, StakeOf, S, a, b
    <2> QED BY <1>1, <1>2, <2>1, <2>2 DEF VerifyQuorumSignatures
  <1>3. ASSUME Inv, NEW t \in Threads, Returned(t), NEW u \in Threads, Returned(u),
               sigs[t] = sigs[u]
        PROVE  pc[t] = pc[u]
    <2>1. Counted(t) = Counted(u)
      BY <1>1, <1>3 DEF Counts
    <2> QED BY <1>1, <1>3, <2>1 DEF Returned
  <1>4. Inv => VerdictDetermined
    BY <1>2, <1>3 DEF VerdictDetermined
  <1> QED BY <1>4, InvHolds, PTL
===============================================================================

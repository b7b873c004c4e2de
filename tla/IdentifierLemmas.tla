--------------------------- MODULE IdentifierLemmas ---------------------------
(***************************************************************************)
(* Numbers, sequences and shard identifiers: the facts that the other      *)
(* proofs rest on.                                                         *)
(*                                                                         *)
(* The keys of identifiers tell them apart and give them back, their order *)
(* is that of the bits in use, and the scan of the sorted identifiers      *)
(* accepts exactly the schemes that tile the strings of bits.              *)
(*                                                                         *)
(* Recursive functions are shown to exist and to compute what they should  *)
(* by induction on a number, the length of a slice, of a path or of a      *)
(* string of bits: the set of the numbers for which they do is shown to be *)
(* all numbers (Induction).                                                *)
(***************************************************************************)
EXTENDS ShardID, FiniteSetTheorems, FunctionTheorems, SequenceTheorems,
        WellFoundedInduction, TLAPS

-------------------------------------------------------------------------------
(* Numbers and sequences. *)

\* A set of numbers has a least one.
LEMMA LeastNumber ==
    ASSUME NEW T \in SUBSET Nat, T # {}
    PROVE  \E m \in T : \A k \in T : m <= k
  <1> DEFINE R == OpToRel(<, Nat)
  <1>1. IsWellFoundedOn(R, Nat)
    BY NatLessThanWellFounded
  <1>2. T \subseteq Nat
    OBVIOUS
  <1>3. \A y, x \in T : ~(<<y, x>> \in R) => ~(y < x)
    BY <1>2 DEF OpToRel
  <1> HIDE DEF R
  <1>4. PICK x \in T : \A y \in T : <<y, x>> \notin R
    BY <1>1, <1>2, WFMin
  <1>5. \A y \in T : x <= y
    <2> SUFFICES ASSUME NEW y \in T PROVE x <= y
      OBVIOUS
    <2>1. x \in Nat /\ y \in Nat /\ ~(y < x)
      BY <1>2, <1>3, <1>4
    <2> QED BY <2>1
  <1> QED BY <1>5

\* A set of numbers with zero and the successors of its members has all of them.
LEMMA Induction ==
    ASSUME NEW T \in SUBSET Nat, 0 \in T, \A n \in T : n + 1 \in T
    PROVE  T = Nat
  <1>1. SUFFICES ASSUME Nat \ T # {} PROVE FALSE
    OBVIOUS
  <1>2. PICK m \in Nat \ T : \A k \in Nat \ T : m <= k
    BY <1>1, LeastNumber
  <1>3. m # 0 /\ m - 1 \in Nat
    BY <1>2
  <1>4. m - 1 \in T
    BY <1>2, <1>3
  <1> QED
    BY <1>2, <1>3, <1>4, (m - 1) + 1 = m

\* A sequence, of whatever.
IsSequence(s) == \E S : s \in Seq(S)

\* Appending adds one element at the end.
LEMMA AppendToSequence ==
    ASSUME NEW s, IsSequence(s), NEW e
    PROVE  /\ IsSequence(Append(s, e))
           /\ Len(s) \in Nat /\ DOMAIN s = 1..Len(s)
           /\ Len(Append(s, e)) = Len(s) + 1
           /\ DOMAIN Append(s, e) = 1..(Len(s) + 1)
           /\ \A i \in 1..Len(s) : Append(s, e)[i] = s[i]
           /\ Append(s, e)[Len(s) + 1] = e
           /\ Append(s, e) # s
  <1>1. PICK S : s \in Seq(S)
    BY DEF IsSequence
  <1>2. s \in Seq(S \cup {e}) /\ e \in S \cup {e}
    BY <1>1
  <1>3. Append(s, e) \in Seq(S \cup {e})
    BY <1>2
  <1>4. Len(Append(s, e)) = Len(s) + 1 /\ Len(s) \in Nat
    BY <1>2
  <1> QED BY <1>2, <1>3, <1>4 DEF IsSequence

\* Changing the elements of a sequence leaves a sequence of its length.
LEMMA MappedSequence ==
    ASSUME NEW s, IsSequence(s), NEW t, DOMAIN t = DOMAIN s, t = [i \in DOMAIN s |-> t[i]]
    PROVE  IsSequence(t) /\ Len(t) = Len(s)
  <1>1. PICK S : s \in Seq(S)
    BY DEF IsSequence
  <1>2. Len(s) \in Nat /\ DOMAIN s = 1..Len(s)
    BY <1>1
  <1>3. t \in [1..Len(s) -> {t[i] : i \in 1..Len(s)}]
    BY <1>2
  <1>4. t \in Seq({t[i] : i \in 1..Len(s)}) /\ DOMAIN t = 1..Len(t)
    BY <1>2, <1>3, SeqDef
  <1>5. Len(t) \in Nat
    BY <1>4
  <1>6. Len(t) = Len(s)
    BY <1>2, <1>4, <1>5
  <1> QED BY <1>4, <1>6 DEF IsSequence

\* The empty sequence has no elements.
LEMMA NoSequence == IsSequence(<< >>) /\ DOMAIN << >> = {} /\ Len(<< >>) = 0
  <1>1. << >> \in Seq({})
    OBVIOUS
  <1> QED BY <1>1 DEF IsSequence

\* The length and the elements of a sequence.
LEMMA SequenceIs ==
    ASSUME NEW S, NEW s \in Seq(S)
    PROVE  Len(s) \in Nat /\ DOMAIN s = 1..Len(s) /\ \A i \in 1..Len(s) : s[i] \in S
  OBVIOUS

\* Cutting a sequence off.
LEMMA Shortened ==
    ASSUME NEW s, IsSequence(s), NEW n \in 0..Len(s)
    PROVE  /\ IsSequence(SubSeq(s, 1, n)) /\ Len(SubSeq(s, 1, n)) = n
           /\ \A i \in 1..n : SubSeq(s, 1, n)[i] = s[i]
  <1>1. PICK S : s \in Seq(S)
    BY DEF IsSequence
  <1>2. SubSeq(s, 1, n) \in Seq(S) /\ Len(SubSeq(s, 1, n)) = n
    BY <1>1
  <1>3. \A i \in 1..n : SubSeq(s, 1, n)[i] = s[i]
    BY <1>1
  <1>4. IsSequence(SubSeq(s, 1, n))
    BY <1>2 DEF IsSequence
  <1> QED BY <1>2, <1>3, <1>4

\* A pair is what a list of one becomes when an element is appended.
LEMMA PairOf ==
    ASSUME NEW s, IsSequence(s), Len(s) = 1, NEW y
    PROVE  Append(s, y) = <<s[1], y>>
  <1> DEFINE u == Append(s, y)
             v == <<s[1], y>>
  <1>1. Len(v) = 2 /\ v[1] = s[1] /\ v[2] = y /\ v \in Seq({s[1], y})
    OBVIOUS
  <1>2. IsSequence(u) /\ Len(u) = Len(s) + 1 /\ u[Len(s) + 1] = y
        /\ \A i \in 1..Len(s) : u[i] = s[i]
    <2>1. IsSequence(u)
      BY AppendToSequence
    <2>2. Len(u) = Len(s) + 1
      BY AppendToSequence
    <2>3. u[Len(s) + 1] = y
      BY AppendToSequence
    <2>4. \A i \in 1..Len(s) : u[i] = s[i]
      BY AppendToSequence
    <2> QED BY <2>1, <2>2, <2>3, <2>4
  <1> HIDE DEF u, v
  <1>3. Len(u) = 2 /\ u[1] = s[1] /\ u[2] = y
    BY <1>2
  <1>4. PICK S : u \in Seq(S)
    BY <1>2 DEF IsSequence
  <1>5. \A i \in 1..2 : u[i] = v[i]
    BY <1>1, <1>3
  <1>6. u = v
    BY <1>1, <1>3, <1>4, <1>5
  <1> QED BY <1>6 DEF u, v

-------------------------------------------------------------------------------
(* The bytes, the keys and the halves of an identifier. *)

\* Division of a number by the bits of a byte.
LEMMA Division ==
    ASSUME NEW n \in Nat
    PROVE  /\ n \div ByteBits \in Nat
           /\ (n \div ByteBits) * ByteBits \in Nat
           /\ (n \div ByteBits) * ByteBits <= n
           /\ n < (n \div ByteBits) * ByteBits + ByteBits
           /\ n % ByteBits = n - (n \div ByteBits) * ByteBits
           /\ n % ByteBits \in 0..(ByteBits - 1)
  <1> ByteBits \in Nat \ {0}
    BY ByteAssumption
  <1> DEFINE q == n \div ByteBits
  <1>1. q \in Nat /\ n % ByteBits \in 0..(ByteBits - 1)
    OBVIOUS
  <1>2. n = ByteBits * q + (n % ByteBits)
    OBVIOUS
  <1> QED BY <1>1, <1>2

\* There is one multiple of the bits of a byte in a byte's range.
LEMMA OneMultiple ==
    ASSUME NEW p \in Nat, NEW q \in Nat, NEW n \in Nat,
           n <= p * ByteBits, p * ByteBits < n + ByteBits,
           n <= q * ByteBits, q * ByteBits < n + ByteBits
    PROVE  p = q
  <1> ByteBits \in Nat \ {0}
    BY ByteAssumption
  <1>1. ASSUME NEW x \in Nat, NEW y \in Nat, x < y
        PROVE  x * ByteBits + ByteBits <= y * ByteBits
    <2>1. y - x \in Nat /\ y - x >= 1
      BY <1>1
    <2>2. (y - x) * ByteBits >= ByteBits
      BY <2>1
    <2>3. (y - x) * ByteBits = y * ByteBits - x * ByteBits
      OBVIOUS
    <2> QED BY <2>2, <2>3
  <1>2. ~(p < q)
    BY <1>1
  <1>3. ~(q < p)
    BY <1>1
  <1> QED BY <1>2, <1>3

\* As many whole bytes as hold n bits.
LEMMA WholeBytes ==
    ASSUME NEW n \in Nat
    PROVE  /\ ByteLength(n) \in Nat
           /\ n <= ByteLength(n) /\ ByteLength(n) < n + ByteBits
           /\ ByteLength(n) = ((n + ByteBits - 1) \div ByteBits) * ByteBits
           /\ (n + ByteBits - 1) \div ByteBits \in Nat
           /\ n > 0 => ByteBits <= ByteLength(n)
  <1> ByteBits \in Nat \ {0}
    BY ByteAssumption
  <1> DEFINE m == n + ByteBits - 1
  <1>1. m \in Nat
    OBVIOUS
  <1>2. /\ m \div ByteBits \in Nat
        /\ (m \div ByteBits) * ByteBits \in Nat
        /\ (m \div ByteBits) * ByteBits <= m
        /\ m < (m \div ByteBits) * ByteBits + ByteBits
    BY <1>1, Division
  <1>3. ASSUME n > 0 PROVE ByteBits <= ByteLength(n)
    <2> DEFINE q == m \div ByteBits
    <2>1. q \in Nat /\ ByteLength(n) = q * ByteBits /\ q * ByteBits > 0
      BY <1>2, <1>3 DEF ByteLength
    <2> HIDE DEF q
    <2>2. q # 0
      BY <2>1
    <2>3. q - 1 \in Nat /\ (q - 1) * ByteBits >= 0
      BY <2>1, <2>2
    <2>4. (q - 1) * ByteBits = q * ByteBits - ByteBits
      BY <2>1
    <2> QED BY <2>1, <2>3, <2>4
  <1> QED BY <1>2, <1>3 DEF ByteLength

\* More bits need no fewer bytes.
LEMMA MoreBytes ==
    ASSUME NEW m \in Nat, NEW n \in Nat, m <= n
    PROVE  ByteLength(m) <= ByteLength(n)
  <1> ByteBits \in Nat \ {0}
    BY ByteAssumption
  <1>1. SUFFICES ASSUME ByteLength(n) < ByteLength(m) PROVE FALSE
    BY WholeBytes
  <1> DEFINE p == (m + ByteBits - 1) \div ByteBits
             q == (n + ByteBits - 1) \div ByteBits
  <1>2. /\ p \in Nat /\ p * ByteBits = ByteLength(m)
        /\ q \in Nat /\ q * ByteBits = ByteLength(n)
        /\ n <= q * ByteBits /\ p * ByteBits < m + ByteBits
    BY WholeBytes
  <1> HIDE DEF p, q
  <1>3. m <= p * ByteBits /\ q * ByteBits < m + ByteBits /\ m <= q * ByteBits
    BY <1>1, <1>2, WholeBytes
  <1> QED BY <1>1, <1>2, <1>3, OneMultiple

\* Full bytes need no more; one bit more than that needs a byte.
LEMMA FullBytes ==
    ASSUME NEW n \in Nat
    PROVE  /\ n % ByteBits = 0 => /\ ByteLength(n) = n
                                  /\ ByteLength(n + 1) = n + ByteBits
           /\ n % ByteBits # 0 => ByteLength(n + 1) = ByteLength(n) /\ n < ByteLength(n)
  <1> ByteBits \in Nat \ {0}
    BY ByteAssumption
  <1> DEFINE q == n \div ByteBits
             b == (n + ByteBits - 1) \div ByteBits
             c == (n + 1 + ByteBits - 1) \div ByteBits
  <1>1. /\ q \in Nat /\ q * ByteBits <= n /\ n < q * ByteBits + ByteBits
        /\ n % ByteBits = n - q * ByteBits
    BY Division
  <1>2. /\ b \in Nat /\ ByteLength(n) = b * ByteBits
        /\ n <= b * ByteBits /\ b * ByteBits < n + ByteBits
    BY WholeBytes
  <1>3. /\ c \in Nat /\ ByteLength(n + 1) = c * ByteBits
        /\ n + 1 <= c * ByteBits /\ c * ByteBits < n + 1 + ByteBits
    BY WholeBytes
  <1>4. (q + 1) * ByteBits = q * ByteBits + ByteBits /\ q + 1 \in Nat /\ n + 1 \in Nat
    BY <1>1
  <1> HIDE DEF q, b, c
  <1>5. CASE n % ByteBits = 0
    <2>1. n = q * ByteBits
      BY <1>1, <1>5
    <2>2. b = q
      BY <1>1, <1>2, <2>1, OneMultiple
    <2>3. c = q + 1
      BY <1>3, <1>4, <2>1, OneMultiple
    <2> QED BY <1>2, <1>3, <1>4, <1>5, <2>1, <2>2, <2>3
  <1>6. CASE n % ByteBits # 0
    <2>1. q * ByteBits < n
      BY <1>1, <1>6
    <2>2. b = q + 1
      BY <1>1, <1>2, <1>4, <2>1, OneMultiple
    <2>3. c = q + 1
      BY <1>1, <1>3, <1>4, <2>1, OneMultiple
    <2> QED BY <1>1, <1>2, <1>3, <1>4, <1>6, <2>2, <2>3
  <1> QED BY <1>5, <1>6

\* Bit i of a bit string that zeros follow.
At(s, i) == IF i <= Len(s) THEN s[i] ELSE 0

\* Padding adds zeros.
LEMMA PaddedIs ==
    ASSUME NEW s \in Seq(Bit)
    PROVE  /\ Padded(s) \in Seq(Bit)
           /\ Len(Padded(s)) = ByteLength(Len(s))
           /\ Padded(s) = [i \in 1..ByteLength(Len(s)) |-> At(s, i)]
  <1> DEFINE n == ByteLength(Len(s)) - Len(s)
  <1>0. Len(s) \in Nat
    OBVIOUS
  <1>1. n \in Nat /\ Len(s) \in Nat /\ Len(s) + n = ByteLength(Len(s))
    <2>1. ByteLength(Len(s)) \in Nat /\ Len(s) <= ByteLength(Len(s))
      BY <1>0, WholeBytes
    <2> QED BY <1>0, <2>1
  <1> HIDE DEF n
  <1>2. Zeros(n) \in Seq(Bit) /\ Len(Zeros(n)) = n /\ \A i \in 1..n : Zeros(n)[i] = 0
    BY <1>1 DEF Zeros, Bit
  <1>3. Padded(s) = s \o Zeros(n)
    BY DEF Padded, n
  <1>4. s \o Zeros(n) \in Seq(Bit) /\ Len(s \o Zeros(n)) = Len(s) + n
    BY <1>2
  <1>5. \A i \in 1..(Len(s) + n) : (s \o Zeros(n))[i] = At(s, i)
    BY <1>1, <1>2 DEF At
  <1>6. Padded(s) = [i \in 1..Len(Padded(s)) |-> Padded(s)[i]]
    <2>1. \A x \in Seq(Bit) : x = [i \in 1..Len(x) |-> x[i]]
      OBVIOUS
    <2> QED BY <1>3, <1>4, <2>1
  <1> QED BY <1>1, <1>3, <1>4, <1>5, <1>6

\* The bits in use of an identifier are those it was made of.
LEMMA IdentifierIs ==
    ASSUME NEW s \in Seq(Bit)
    PROVE  /\ NewID(s).length = Len(s) /\ NewID(s).bits = Padded(s)
           /\ Used(NewID(s)) = s
  <1>1. NewID(s).length = Len(s) /\ NewID(s).bits = Padded(s)
    BY DEF NewID
  <1>2. Len(s) \in Nat /\ Len(s) <= ByteLength(Len(s))
    BY WholeBytes
  <1>3. Used(NewID(s)) = SubSeq(Padded(s), 1, Len(s))
    BY <1>1 DEF Used
  <1>4. \A i \in 1..Len(s) : Padded(s)[i] = s[i]
    BY <1>2, PaddedIs DEF At
  <1>5. SubSeq(Padded(s), 1, Len(s)) = s
    BY <1>2, <1>4, PaddedIs
  <1> QED BY <1>1, <1>3, <1>5

\* Different bit strings have different identifiers.
LEMMA IdentifierDetermines ==
    ASSUME NEW s \in Seq(Bit), NEW t \in Seq(Bit), NewID(s) = NewID(t)
    PROVE  s = t
  BY IdentifierIs

\* And different keys, for the end marker is the last bit that is set.
LEMMA KeyDetermines ==
    ASSUME NEW s \in Seq(Bit), NEW t \in Seq(Bit), Key(NewID(s)) = Key(NewID(t))
    PROVE  s = t
  <1>1. ASSUME NEW u \in Seq(Bit)
        PROVE  /\ Append(u, 1) \in Seq(Bit) /\ Len(Append(u, 1)) = Len(u) + 1
               /\ Key(NewID(u)) = [i \in 1..ByteLength(Len(u) + 1) |-> At(Append(u, 1), i)]
               /\ Len(u) \in Nat /\ Len(u) + 1 <= ByteLength(Len(u) + 1)
               /\ ByteLength(Len(u) + 1) \in Nat
    <2>1. Append(u, 1) \in Seq(Bit) /\ Len(Append(u, 1)) = Len(u) + 1 /\ Len(u) \in Nat
      BY DEF Bit
    <2>2. Key(NewID(u)) = Padded(Append(u, 1))
      BY IdentifierIs DEF Key, EncodeBitstring
    <2>3. Len(u) + 1 \in Nat
      BY <2>1
    <2>4. Len(u) + 1 <= ByteLength(Len(u) + 1) /\ ByteLength(Len(u) + 1) \in Nat
      BY <2>3, WholeBytes
    <2>5. Padded(Append(u, 1)) = [i \in 1..ByteLength(Len(u) + 1) |-> At(Append(u, 1), i)]
      BY <2>1, PaddedIs
    <2> QED BY <2>1, <2>2, <2>4, <2>5
  <1>2. ASSUME NEW u \in Seq(Bit), NEW v \in Seq(Bit), Key(NewID(u)) = Key(NewID(v)),
               Len(u) < Len(v)
        PROVE  FALSE
    <2> DEFINE k == Len(v) + 1
    <2>1. ByteLength(Len(u) + 1) = ByteLength(Len(v) + 1)
      <3>1. DOMAIN Key(NewID(u)) = 1..ByteLength(Len(u) + 1)
        BY <1>1
      <3>2. DOMAIN Key(NewID(v)) = 1..ByteLength(Len(v) + 1)
        BY <1>1
      <3>3. 1..ByteLength(Len(u) + 1) = 1..ByteLength(Len(v) + 1)
        BY <1>2, <3>1, <3>2
      <3> HIDE DEF k
      <3>4. ByteLength(Len(u) + 1) \in Nat /\ ByteLength(Len(v) + 1) \in Nat
        BY <1>1
      <3>5. \A a, b \in Nat : 1..a = 1..b => a = b
        <4> SUFFICES ASSUME NEW a \in Nat, NEW b \in Nat, 1..a = 1..b PROVE a = b
          OBVIOUS
        <4>1. Cardinality(1..a) = a /\ Cardinality(1..b) = b
          BY FS_Interval
        <4> QED BY <4>1
      <3> QED BY <3>3, <3>4, <3>5
    <2>2. k \in 1..ByteLength(Len(v) + 1) /\ k \in 1..ByteLength(Len(u) + 1)
      BY <1>1, <2>1
    <2>3. Key(NewID(v))[k] = 1
      <3>1. Append(v, 1)[k] = 1 /\ k <= Len(Append(v, 1))
        BY <1>1
      <3> QED BY <1>1, <2>2, <3>1 DEF At
    <2>4. Key(NewID(u))[k] = 0
      <3>1. ~(k <= Len(Append(u, 1)))
        BY <1>1, <1>2
      <3> QED BY <1>1, <2>2, <3>1 DEF At
    <2> QED BY <1>2, <2>3, <2>4
  <1>3. Len(s) = Len(t)
    BY <1>2
  <1>4. ASSUME NEW i \in 1..Len(s) PROVE s[i] = t[i]
    <2>1. i \in 1..ByteLength(Len(s) + 1) /\ i <= Len(Append(s, 1)) /\ i <= Len(Append(t, 1))
      BY <1>1, <1>3
    <2>2. Append(s, 1)[i] = s[i] /\ Append(t, 1)[i] = t[i]
      BY <1>3
    <2>3. Key(NewID(s))[i] = s[i] /\ Key(NewID(t))[i] = t[i]
      BY <1>1, <1>3, <2>1, <2>2 DEF At
    <2> QED BY <2>3
  <1> QED BY <1>3, <1>4

\* The end marker of a key is found again.
LEMMA KeyDecodes ==
    ASSUME NEW s \in Seq(Bit)
    PROVE  DecodeBitstring(Key(NewID(s))) = NewID(s)
  <1> ByteBits \in Nat \ {0}
    BY ByteAssumption
  <1> DEFINE n == ByteLength(Len(s) + 1)
             u == Append(s, 1)
             k == Key(NewID(s))
             ones == {i \in (Len(k) - ByteBits + 1)..Len(k) : k[i] = 1}
  <1>1. Len(s) \in Nat /\ Len(s) + 1 \in Nat /\ u \in Seq(Bit) /\ Len(u) = Len(s) + 1
    BY DEF Bit
  <1>2. n \in Nat /\ Len(s) + 1 <= n /\ n < Len(s) + 1 + ByteBits /\ ByteBits <= n
    BY <1>1, WholeBytes
  <1>3. k = Padded(u)
    BY IdentifierIs DEF Key, EncodeBitstring
  <1>4. k \in Seq(Bit) /\ Len(k) = n /\ k = [i \in 1..n |-> At(u, i)]
    BY <1>1, <1>3, PaddedIs
  <1>5. \A i \in 1..n : k[i] = IF i <= Len(s) THEN s[i] ELSE IF i = Len(s) + 1 THEN 1 ELSE 0
    BY <1>1, <1>4 DEF At
  <1>6. k # << >>
    BY <1>2, <1>4
  <1> HIDE DEF n, u, k
  <1>7. Len(s) + 1 \in ones /\ \A i \in ones : i <= Len(s) + 1 /\ i \in Nat
    <2>1. ones = {i \in (n - ByteBits + 1)..n : k[i] = 1}
      BY <1>4
    <2>2. (n - ByteBits + 1)..n \subseteq 1..n /\ Len(s) + 1 \in (n - ByteBits + 1)..n
      BY <1>1, <1>2
    <2> HIDE DEF ones
    <2>3. Len(s) + 1 \in ones
      BY <1>1, <1>5, <2>1, <2>2
    <2>4. ASSUME NEW i \in ones PROVE i <= Len(s) + 1 /\ i \in Nat
      <3>1. i \in 1..n /\ k[i] = 1
        BY <2>1, <2>2
      <3> QED BY <1>1, <1>5, <3>1
    <2> QED BY <2>3, <2>4
  <1>8. TrailingMark(k) = Len(s) + 1
    <2>1. TrailingMark(k) = CHOOSE i \in ones : \A j \in ones : j <= i
      BY <1>6, <1>7 DEF TrailingMark
    <2> HIDE DEF ones
    <2>2. ones # {} /\ \A i \in ones : (\A j \in ones : j <= i) => i = Len(s) + 1
      BY <1>1, <1>7
    <2> QED BY <1>7, <2>1, <2>2
  <1>9. SubSeq(k, 1, Len(s)) = s
    <2>1. \A i \in 1..Len(s) : k[i] = s[i]
      BY <1>1, <1>2, <1>5
    <2>2. k \in Seq(Bit) /\ Len(s) <= Len(k) /\ Len(s) \in Nat
      BY <1>1, <1>2, <1>4
    <2> QED BY ONLY <2>1, <2>2, s \in Seq(Bit)
  <1>10. TrailingMark(k) - 1 = Len(s)
    BY <1>1, <1>8
  <1>11. DecodeBitstring(k) = NewID(s)
    BY <1>9, <1>10 DEF DecodeBitstring
  <1> QED BY <1>11 DEF k

\* The elements of a concatenation.
LEMMA Concatenation ==
    ASSUME NEW x \in Seq(Bit), NEW y \in Seq(Bit), NEW m, NEW c,
           Len(x) = m, m + Len(y) = c
    PROVE  /\ x \o y \in Seq(Bit) /\ Len(x \o y) = c
           /\ x \o y = [i \in 1..c |-> IF i <= m THEN x[i] ELSE y[i - m]]
  <1>1. x \o y \in Seq(Bit) /\ Len(x \o y) = c
    OBVIOUS
  <1>2. \A i \in 1..c : (x \o y)[i] = IF i <= m THEN x[i] ELSE y[i - m]
    OBVIOUS
  <1>3. \A u \in Seq(Bit) : u = [i \in 1..Len(u) |-> u[i]]
    OBVIOUS
  <1> QED BY <1>1, <1>2, <1>3

\* The halves of a node have one bit more.
LEMMA SplitIs ==
    ASSUME NEW s \in Seq(Bit)
    PROVE  Split(NewID(s)) = <<NewID(Append(s, 0)), NewID(Append(s, 1))>>
  <1> ByteBits \in Nat \ {0}
    BY ByteAssumption
  <1> DEFINE n == Len(s)
             B == ByteLength(n)
             C == ByteLength(n + 1)
  <1>1. n \in Nat /\ n + 1 \in Nat /\ B \in Nat /\ C \in Nat /\ n <= B /\ n + 1 <= C
    <2>1. n \in Nat /\ n + 1 \in Nat
      OBVIOUS
    <2> HIDE DEF n
    <2> QED BY <2>1, WholeBytes
  <1>2. /\ Padded(s) \in Seq(Bit) /\ Len(Padded(s)) = B
        /\ Padded(s) = [i \in 1..B |-> At(s, i)]
    BY PaddedIs
  <1>3. ASSUME NEW b \in Bit
        PROVE  /\ Append(s, b) \in Seq(Bit) /\ NewID(Append(s, b)).length = n + 1
               /\ NewID(Append(s, b)) = [bits |-> Padded(Append(s, b)), length |-> n + 1]
               /\ Padded(Append(s, b)) = [i \in 1..C |-> IF i = n + 1 THEN b ELSE At(s, i)]
    <2>1. Append(s, b) \in Seq(Bit) /\ Len(Append(s, b)) = n + 1
      OBVIOUS
    <2>2. Padded(Append(s, b)) = [i \in 1..C |-> At(Append(s, b), i)]
      BY <2>1, PaddedIs
    <2>3. \A i \in 1..C : At(Append(s, b), i) = IF i = n + 1 THEN b ELSE At(s, i)
      BY <2>1 DEF At
    <2> QED BY <2>1, <2>2, <2>3 DEF NewID
  <1>4. NewID(s).length = n /\ NewID(s).bits = Padded(s) /\ n % ByteBits \in Nat
    BY IdentifierIs
  <1>5. CASE n % ByteBits = 0
    <2>1. B = n /\ C = n + ByteBits
      BY <1>1, <1>5, FullBytes
    <2>2. ASSUME NEW m \in Nat
          PROVE  /\ Zeros(m) \in Seq(Bit) /\ Len(Zeros(m)) = m
                 /\ \A i \in 1..m : Zeros(m)[i] = 0
      BY DEF Zeros, Bit
    <2>3. Padded(s) \o Zeros(ByteBits) = Padded(Append(s, 0))
      <3>1. Padded(s) \o Zeros(ByteBits) = [i \in 1..C |-> IF i <= n THEN s[i] ELSE 0]
        <4> DEFINE z == Zeros(ByteBits)
        <4>1. z \in Seq(Bit) /\ Len(z) = ByteBits /\ \A i \in 1..ByteBits : z[i] = 0
          BY <2>2
        <4> HIDE DEF z
        <4>2. Padded(s) \o z = [i \in 1..C |-> IF i <= n THEN Padded(s)[i] ELSE z[i - n]]
          BY <1>2, <2>1, <4>1, Concatenation
        <4>3. \A i \in 1..C : (IF i <= n THEN Padded(s)[i] ELSE z[i - n])
                                 = IF i <= n THEN s[i] ELSE 0
          BY <1>1, <1>2, <2>1, <4>1 DEF At
        <4> QED BY <4>2, <4>3 DEF z
      <3>2. Padded(Append(s, 0)) = [i \in 1..C |-> IF i <= n THEN s[i] ELSE 0]
        BY <1>1, <1>3, <2>1 DEF At, Bit
      <3> QED BY <3>1, <3>2
    <2>4. Padded(s) \o <<1>> \o Zeros(ByteBits - 1) = Padded(Append(s, 1))
      <3> DEFINE z == Zeros(ByteBits - 1)
      <3>1. z \in Seq(Bit) /\ Len(z) = ByteBits - 1 /\ \A i \in 1..(ByteBits - 1) : z[i] = 0
        BY <2>2
      <3> HIDE DEF z
      <3>2. Padded(s) \o <<1>> \o z
              = [i \in 1..C |-> IF i <= n THEN s[i] ELSE IF i = n + 1 THEN 1 ELSE 0]
        <4>1. <<1>> \in Seq(Bit) /\ Len(<<1>>) = 1 /\ <<1>>[1] = 1
          BY DEF Bit
        <4>2. /\ Padded(s) \o <<1>> \in Seq(Bit) /\ Len(Padded(s) \o <<1>>) = n + 1
              /\ Padded(s) \o <<1>> = [i \in 1..(n + 1) |-> IF i <= n THEN s[i] ELSE 1]
          BY <1>1, <1>2, <2>1, <4>1, Concatenation DEF At
        <4> DEFINE x == Padded(s) \o <<1>>
        <4>3. x \in Seq(Bit) /\ Len(x) = n + 1
          BY <4>2
        <4>4. n + 1 + (ByteBits - 1) = C
          BY <1>1, <2>1
        <4>5. x \o z = [i \in 1..C |-> IF i <= n + 1 THEN x[i] ELSE z[i - (n + 1)]]
          <5> DEFINE m == n + 1
          <5>1. Len(x) = m /\ m + Len(z) = C
            BY <3>1, <4>3, <4>4
          <5> HIDE DEF x, m, C
          <5>2. x \o z = [i \in 1..C |-> IF i <= m THEN x[i] ELSE z[i - m]]
            BY <3>1, <4>3, <5>1, Concatenation
          <5> QED BY <5>2 DEF m
        <4>7. \A i \in 1..(n + 1) : x[i] = IF i <= n THEN s[i] ELSE 1
          BY <4>2
        <4> HIDE DEF x
        <4>6. \A i \in 1..C : (IF i <= n + 1 THEN x[i] ELSE z[i - (n + 1)])
                                 = IF i <= n THEN s[i] ELSE IF i = n + 1 THEN 1 ELSE 0
          BY <1>1, <2>1, <3>1, <4>7
        <4> QED BY <4>5, <4>6 DEF x
      <3>3. Padded(Append(s, 1))
              = [i \in 1..C |-> IF i <= n THEN s[i] ELSE IF i = n + 1 THEN 1 ELSE 0]
        BY <1>1, <1>3, <2>1 DEF At, Bit
      <3> QED BY <3>2, <3>3 DEF z
    <2> QED BY <1>3, <1>4, <1>5, <2>3, <2>4 DEF Split, Bit
  <1>6. CASE n % ByteBits # 0
    <2>1. B = C /\ n < B
      BY <1>1, <1>6, FullBytes
    <2>2. Padded(s) = Padded(Append(s, 0))
      BY <1>1, <1>2, <1>3, <2>1 DEF At, Bit
    <2>3. [Padded(s) EXCEPT ![n + 1] = 1] = Padded(Append(s, 1))
      BY <1>1, <1>2, <1>3, <2>1 DEF At, Bit
    <2> QED BY <1>3, <1>4, <1>6, <2>2, <2>3 DEF Split, Bit
  <1> QED BY <1>5, <1>6

\* The comparator of an identifier looks at the bits in use.
LEMMA MatchesIs ==
    ASSUME NEW s \in Seq(Bit), NEW b, \A i \in 1..Len(s) : b[i] \in Bit
    PROVE  Matches(NewID(s), b) <=> \A i \in 1..Len(s) : s[i] = b[i]
  <1>1. Len(s) \in Nat /\ Len(s) <= ByteLength(Len(s)) /\ ByteLength(Len(s)) \in Nat
    BY WholeBytes
  <1>2. /\ NewID(s).length = Len(s) /\ Len(NewID(s).bits) = ByteLength(Len(s))
        /\ \A i \in 1..ByteLength(Len(s)) : NewID(s).bits[i] = At(s, i)
    BY IdentifierIs, PaddedIs
  <1>3. \A i \in 1..Len(s) : At(s, i) = s[i]
    BY DEF At
  <1>4. \A i \in 1..ByteLength(Len(s)) : ~(i <= Len(s)) => At(s, i) = 0
    BY DEF At
  <1> QED BY <1>1, <1>2, <1>3, <1>4 DEF Matches

-------------------------------------------------------------------------------
(* The order of identifiers. *)

Positions == Nat \ {0}

\* The bits at the first n positions are the same.
Agree(s, t, n) == \A i \in 1..n : At(s, i) = At(t, i)

\* The order of the bit strings that zeros follow, and of their lengths.
Precedes(s, t) ==
    \/ \E i \in Positions : At(s, i) < At(t, i) /\ Agree(s, t, i - 1)
    \/ (\A i \in Positions : At(s, i) = At(t, i)) /\ Len(s) < Len(t)

\* The bits of a string, and the zeros after it.
LEMMA BitsAt ==
    ASSUME NEW s \in Seq(Bit)
    PROVE  /\ \A i \in Positions : At(s, i) \in Bit
           /\ \A i \in Positions : i > Len(s) => At(s, i) = 0
           /\ \A i \in Positions : i <= Len(s) => At(s, i) = s[i]
  <1>1. Len(s) \in Nat /\ \A i \in 1..Len(s) : s[i] \in Bit
    OBVIOUS
  <1> QED BY <1>1 DEF At, Positions, Bit

\* Strings that differ have a first difference.
LEMMA FirstDifference ==
    ASSUME NEW s \in Seq(Bit), NEW t \in Seq(Bit), NEW k \in Positions, At(s, k) # At(t, k)
    PROVE  \E i \in Positions : At(s, i) # At(t, i) /\ Agree(s, t, i - 1)
  <1> DEFINE T == {i \in Positions : At(s, i) # At(t, i)}
  <1>1. T \in SUBSET Nat /\ T # {}
    BY DEF Positions
  <1>2. PICK m \in T : \A i \in T : m <= i
    BY <1>1, LeastNumber
  <1>3. Agree(s, t, m - 1)
    <2> SUFFICES ASSUME NEW i \in 1..(m - 1), At(s, i) # At(t, i) PROVE FALSE
      BY DEF Agree
    <2>1. i \in T /\ i < m
      BY <1>2 DEF Positions
    <2>2. m <= i
      BY <1>2, <2>1
    <2> QED BY <1>2, <2>1, <2>2 DEF Positions
  <1> QED BY <1>2, <1>3

\* Bit strings that zeros follow and that are as long are the same.
LEMMA SameBits ==
    ASSUME NEW s \in Seq(Bit), NEW t \in Seq(Bit), Len(s) = Len(t),
           \A i \in Positions : At(s, i) = At(t, i)
    PROVE  s = t
  <1>1. ASSUME NEW i \in 1..Len(s) PROVE s[i] = t[i]
    <2>1. i \in Positions /\ i <= Len(s) /\ i <= Len(t)
      BY DEF Positions
    <2> QED BY <2>1, BitsAt
  <1> QED BY <1>1

\* The order is strict, total and transitive.
LEMMA PrecedesTotal ==
    ASSUME NEW s \in Seq(Bit), NEW t \in Seq(Bit)
    PROVE  s = t \/ Precedes(s, t) \/ Precedes(t, s)
  <1>1. CASE \A i \in Positions : At(s, i) = At(t, i)
    <2>1. Len(s) = Len(t) \/ Len(s) < Len(t) \/ Len(t) < Len(s)
      OBVIOUS
    <2> QED BY <1>1, <2>1, SameBits DEF Precedes
  <1>2. CASE \E i \in Positions : At(s, i) # At(t, i)
    <2>1. PICK i \in Positions : At(s, i) # At(t, i) /\ Agree(s, t, i - 1)
      BY <1>2, FirstDifference
    <2>2. At(s, i) < At(t, i) \/ At(t, i) < At(s, i)
      BY <2>1, BitsAt DEF Bit
    <2>3. Agree(t, s, i - 1)
      BY <2>1 DEF Agree
    <2> QED BY <2>1, <2>2, <2>3 DEF Precedes
  <1> QED BY <1>1, <1>2

\* No string comes before itself, nor two before one another.
LEMMA PrecedesStrict ==
    ASSUME NEW s \in Seq(Bit), NEW t \in Seq(Bit), Precedes(s, t)
    PROVE  s # t /\ ~Precedes(t, s)
  <1>1. CASE \E i \in Positions : At(s, i) < At(t, i) /\ Agree(s, t, i - 1)
    <2>1. PICK i \in Positions : At(s, i) < At(t, i) /\ Agree(s, t, i - 1)
      BY <1>1
    <2>2. At(s, i) \in Bit /\ At(t, i) \in Bit
      BY BitsAt
    <2>3. At(s, i) # At(t, i)
      BY <2>1, <2>2 DEF Bit
    <2>4. ASSUME NEW j \in Positions, At(t, j) < At(s, j), Agree(t, s, j - 1) PROVE FALSE
      <3>1. At(s, j) \in Bit /\ At(t, j) \in Bit
        BY BitsAt
      <3>2. CASE j < i
        <4>1. j \in 1..(i - 1)
          BY <3>2 DEF Positions
        <4> QED BY <2>1, <2>4, <3>1, <4>1 DEF Agree, Bit
      <3>3. CASE i < j
        <4>1. i \in 1..(j - 1)
          BY <3>3 DEF Positions
        <4> QED BY <2>3, <2>4, <4>1 DEF Agree
      <3>4. CASE i = j
        BY <2>1, <2>2, <2>4, <3>4 DEF Bit
      <3> QED BY <3>2, <3>3, <3>4 DEF Positions
    <2> QED BY <2>3, <2>4 DEF Precedes
  <1>2. CASE (\A i \in Positions : At(s, i) = At(t, i)) /\ Len(s) < Len(t)
    <2>1. \A i \in Positions : ~(At(t, i) < At(s, i))
      BY <1>2, BitsAt DEF Bit
    <2>2. Len(s) \in Nat /\ Len(t) \in Nat
      OBVIOUS
    <2> QED BY <1>2, <2>1, <2>2 DEF Precedes
  <1> QED BY <1>1, <1>2 DEF Precedes

\* What comes before a string that comes before a third does so too.
LEMMA PrecedesTransitive ==
    ASSUME NEW s \in Seq(Bit), NEW t \in Seq(Bit), NEW u \in Seq(Bit),
           Precedes(s, t), Precedes(t, u)
    PROVE  Precedes(s, u)
  <1>0. /\ Len(s) \in Nat /\ Len(t) \in Nat /\ Len(u) \in Nat
        /\ \A i \in Positions : At(s, i) \in Bit /\ At(t, i) \in Bit /\ At(u, i) \in Bit
    BY BitsAt
  <1>1. ASSUME NEW i \in Positions, At(s, i) < At(t, i), Agree(s, t, i - 1),
               NEW j \in Positions, At(t, j) < At(u, j), Agree(t, u, j - 1)
        PROVE  Precedes(s, u)
    <2>1. CASE i <= j
      <3>1. Agree(s, u, i - 1)
        BY <1>1, <2>1 DEF Agree, Positions
      <3>2. At(s, i) < At(u, i)
        <4>1. CASE i = j
          BY <1>0, <1>1, <4>1 DEF Bit
        <4>2. CASE i < j
          <5>1. i \in 1..(j - 1)
            BY <4>2 DEF Positions
          <5> QED BY <1>1, <5>1 DEF Agree
        <4> QED BY <2>1, <4>1, <4>2 DEF Positions
      <3> QED BY <3>1, <3>2 DEF Precedes
    <2>2. CASE j < i
      <3>1. Agree(s, u, j - 1)
        BY <1>1, <2>2 DEF Agree, Positions
      <3>2. j \in 1..(i - 1)
        BY <2>2 DEF Positions
      <3>3. At(s, j) < At(u, j)
        BY <1>1, <3>2 DEF Agree
      <3> QED BY <3>1, <3>3 DEF Precedes
    <2> QED BY <2>1, <2>2 DEF Positions
  <1>2. ASSUME NEW i \in Positions, At(s, i) < At(t, i), Agree(s, t, i - 1),
               \A j \in Positions : At(t, j) = At(u, j)
        PROVE  Precedes(s, u)
    <2>1. At(s, i) < At(u, i) /\ Agree(s, u, i - 1)
      <3>1. \A j \in 1..(i - 1) : j \in Positions
        BY DEF Positions
      <3> QED BY <1>2, <3>1 DEF Agree
    <2> QED BY <2>1 DEF Precedes
  <1>3. ASSUME \A j \in Positions : At(s, j) = At(t, j),
               NEW i \in Positions, At(t, i) < At(u, i), Agree(t, u, i - 1)
        PROVE  Precedes(s, u)
    <2>1. At(s, i) < At(u, i) /\ Agree(s, u, i - 1)
      <3>1. \A j \in 1..(i - 1) : j \in Positions
        BY DEF Positions
      <3> QED BY <1>3, <3>1 DEF Agree
    <2> QED BY <2>1 DEF Precedes
  <1>4. ASSUME \A j \in Positions : At(s, j) = At(t, j), Len(s) < Len(t),
               \A j \in Positions : At(t, j) = At(u, j), Len(t) < Len(u)
        PROVE  Precedes(s, u)
    BY <1>0, <1>4 DEF Precedes
  <1> QED BY <1>1, <1>2, <1>3, <1>4 DEF Precedes

\* The order of the identifiers, which compares bytes, is that of the strings.
LEMMA CompareIs ==
    ASSUME NEW s \in Seq(Bit), NEW t \in Seq(Bit)
    PROVE  CompareShardIDs(NewID(s), NewID(t)) <=> Precedes(s, t)
  <1> DEFINE a == Padded(s)
             b == Padded(t)
             m == ByteLength(Len(s))
             n == ByteLength(Len(t))
  <1>1. /\ Len(s) \in Nat /\ Len(t) \in Nat /\ m \in Nat /\ n \in Nat
        /\ Len(s) <= m /\ Len(t) <= n
    <2>1. Len(s) \in Nat /\ Len(t) \in Nat
      OBVIOUS
    <2> QED BY <2>1, WholeBytes
  <1>2. /\ a \in Seq(Bit) /\ Len(a) = m /\ \A i \in 1..m : a[i] = At(s, i)
        /\ b \in Seq(Bit) /\ Len(b) = n /\ \A i \in 1..n : b[i] = At(t, i)
    BY PaddedIs
  <1>3. /\ \A i \in Positions : At(s, i) \in Bit /\ At(t, i) \in Bit
        /\ \A i \in Positions : i > m => At(s, i) = 0
        /\ \A i \in Positions : i > n => At(t, i) = 0
    BY <1>1, BitsAt DEF Positions
  <1>4. CompareShardIDs(NewID(s), NewID(t))
          <=> BytesLess(a, b) \/ (a = b /\ Len(s) < Len(t))
    BY IdentifierIs DEF CompareShardIDs
  <1>5. m < n => Len(s) < Len(t)
    BY <1>1, MoreBytes
  <1>6. Len(s) < Len(t) => m <= n
    BY <1>1, MoreBytes
  <1>7. BytesLess(a, b) <=>
          \/ \E i \in 1..m : /\ i <= n /\ a[i] < b[i]
                             /\ \A j \in 1..(i - 1) : a[j] = b[j]
          \/ m < n /\ a = SubSeq(b, 1, m)
    BY <1>2 DEF BytesLess
  <1>8. m <= n => (a = SubSeq(b, 1, m) <=> \A i \in 1..m : a[i] = b[i])
    <2> HIDE DEF a, b, m, n
    <2> SUFFICES ASSUME m <= n PROVE a = SubSeq(b, 1, m) <=> \A i \in 1..m : a[i] = b[i]
      OBVIOUS
    <2>1. SubSeq(b, 1, m) \in Seq(Bit) /\ Len(SubSeq(b, 1, m)) = m
      BY <1>1, <1>2
    <2>2. \A i \in 1..m : SubSeq(b, 1, m)[i] = b[i]
      BY <1>1, <1>2
    <2> QED BY <1>2, <2>1, <2>2
  <1> HIDE DEF a, b, m, n
  <1>9. ASSUME m < n, \A i \in 1..m : a[i] = b[i] PROVE Precedes(s, t)
    <2>1. CASE \A i \in Positions : At(s, i) = At(t, i)
      BY <1>5, <1>9, <2>1 DEF Precedes
    <2>2. CASE \E i \in Positions : At(s, i) # At(t, i)
      <3>1. PICK i \in Positions : At(s, i) # At(t, i) /\ Agree(s, t, i - 1)
        BY <2>2, FirstDifference
      <3>2. i > m
        BY <1>1, <1>2, <1>9, <3>1 DEF Positions
      <3>3. At(s, i) < At(t, i)
        BY <1>3, <3>1, <3>2 DEF Bit
      <3> QED BY <3>1, <3>3 DEF Precedes
    <2> QED BY <2>1, <2>2
  <1>10. ASSUME NEW i \in 1..m, i <= n, a[i] < b[i], \A j \in 1..(i - 1) : a[j] = b[j]
         PROVE  Precedes(s, t)
    <2>1. i \in Positions /\ i \in 1..n /\ At(s, i) < At(t, i)
      BY <1>1, <1>2, <1>10 DEF Positions
    <2>2. Agree(s, t, i - 1)
      <3>1. \A j \in 1..(i - 1) : j \in 1..m /\ j \in 1..n
        BY <1>1, <1>10
      <3> QED BY <1>2, <1>10, <3>1 DEF Agree
    <2> QED BY <2>1, <2>2 DEF Precedes
  <1>11. ASSUME a = b, Len(s) < Len(t) PROVE Precedes(s, t)
    <2>1. m = n
      BY <1>2, <1>11
    <2>2. ASSUME NEW i \in Positions PROVE At(s, i) = At(t, i)
      <3>1. CASE i <= m
        BY <1>1, <1>2, <1>11, <2>1, <3>1 DEF Positions
      <3>2. CASE i > m
        BY <1>3, <2>1, <3>2
      <3> QED BY <1>1, <3>1, <3>2 DEF Positions
    <2> QED BY <1>11, <2>2 DEF Precedes
  <1>12. ASSUME NEW i \in Positions, At(s, i) < At(t, i), Agree(s, t, i - 1)
         PROVE  BytesLess(a, b)
    <2>1. i <= n
      BY <1>1, <1>3, <1>12 DEF Positions, Bit
    <2>2. \A j \in 1..(i - 1) : j \in 1..n /\ j \in Positions
      BY <1>1, <2>1 DEF Positions
    <2>3. CASE i <= m
      <3>1. i \in 1..m /\ i \in 1..n /\ a[i] < b[i]
        BY <1>1, <1>2, <1>12, <2>1, <2>3 DEF Positions
      <3>2. \A j \in 1..(i - 1) : a[j] = b[j]
        <4>1. \A j \in 1..(i - 1) : j \in 1..m
          BY <1>1, <2>3 DEF Positions
        <4> QED BY <1>2, <1>12, <2>2, <4>1 DEF Agree
      <3> QED BY <1>7, <2>1, <3>1, <3>2
    <2>4. CASE i > m
      <3>1. m < n
        BY <1>1, <2>1, <2>4 DEF Positions
      <3>2. \A j \in 1..m : a[j] = b[j]
        <4>1. \A j \in 1..m : j \in 1..(i - 1) /\ j \in 1..n
          BY <1>1, <2>4, <3>1 DEF Positions
        <4> QED BY <1>2, <1>12, <4>1 DEF Agree
      <3> QED BY <1>1, <1>7, <1>8, <3>1, <3>2
    <2> QED BY <1>1, <2>3, <2>4 DEF Positions
  <1>13. ASSUME \A i \in Positions : At(s, i) = At(t, i), Len(s) < Len(t)
         PROVE  BytesLess(a, b) \/ a = b
    <2>1. \A i \in 1..m : a[i] = b[i] /\ i \in 1..n
      <3>1. \A i \in 1..m : i \in Positions /\ i \in 1..n
        BY <1>1, <1>6, <1>13 DEF Positions
      <3> QED BY <1>2, <1>13, <3>1
    <2>2. CASE m < n
      BY <1>1, <1>7, <1>8, <2>1, <2>2
    <2>3. CASE m = n
      BY <1>2, <2>1, <2>3
    <2> QED BY <1>1, <1>6, <1>13, <2>2, <2>3
  <1>14. BytesLess(a, b) => Precedes(s, t)
    <2>1. CASE m < n /\ a = SubSeq(b, 1, m)
      BY <1>1, <1>8, <1>9, <2>1
    <2>2. CASE \E i \in 1..m : /\ i <= n /\ a[i] < b[i]
                               /\ \A j \in 1..(i - 1) : a[j] = b[j]
      BY <1>10, <2>2
    <2> QED BY <1>7, <2>1, <2>2
  <1>15. Precedes(s, t) => BytesLess(a, b) \/ (a = b /\ Len(s) < Len(t))
    BY <1>12, <1>13 DEF Precedes
  <1> QED BY <1>4, <1>11, <1>14, <1>15

\* Whoever is not after it gives an element of a total order its place.
Until(R, n, i) == {j \in 1..n : <<j, i>> \in R}

OrdersAll(R, n) ==
    /\ \A i \in 1..n : <<i, i>> \in R
    /\ \A i, j \in 1..n : <<i, j>> \in R \/ <<j, i>> \in R
    /\ \A i, j \in 1..n : <<i, j>> \in R /\ <<j, i>> \in R => i = j
    /\ \A i, j, k \in 1..n : <<i, j>> \in R /\ <<j, k>> \in R => <<i, k>> \in R

Counts(place, R, n) ==
    place \in [1..n -> Nat] /\ \A i \in 1..n : place[i] = Cardinality(Until(R, n, i))

GivesPlaces(place, R, n) ==
    /\ place \in [1..n -> 1..n]
    /\ \A i, j \in 1..n : place[i] < place[j] => <<i, j>> \in R
    /\ \A i, j \in 1..n : place[i] = place[j] => i = j
    /\ \A k \in 1..n : \E i \in 1..n : place[i] = k

\* The places of the elements of a total order.
LEMMA PlacesOfOrder ==
    ASSUME NEW n \in Nat, NEW R, OrdersAll(R, n), NEW place, Counts(place, R, n)
    PROVE  GivesPlaces(place, R, n)
  <1> USE DEF OrdersAll, Counts
  <1>1. ASSUME NEW i \in 1..n
        PROVE  /\ IsFiniteSet(Until(R, n, i)) /\ Cardinality(Until(R, n, i)) \in 1..n
               /\ place[i] = Cardinality(Until(R, n, i))
    <2>1. IsFiniteSet(1..n) /\ Cardinality(1..n) = n
      BY FS_Interval
    <2>2. Until(R, n, i) \in SUBSET (1..n) /\ i \in Until(R, n, i) /\ place[i] = Cardinality(Until(R, n, i))
      BY DEF Until
    <2>3. IsFiniteSet(Until(R, n, i)) /\ Cardinality(Until(R, n, i)) <= n
      BY <2>1, <2>2, FS_Subset
    <2>4. Cardinality(Until(R, n, i)) \in Nat /\ Cardinality(Until(R, n, i)) # 0
      BY <2>2, <2>3, FS_CardinalityType, FS_EmptySet
    <2> QED BY <2>2, <2>3, <2>4
  <1>2. ASSUME NEW i \in 1..n, NEW j \in 1..n, i # j, <<i, j>> \in R
        PROVE  place[i] < place[j]
    <2>1. Until(R, n, i) \subseteq Until(R, n, j)
      BY <1>2 DEF Until
    <2>2. j \in Until(R, n, j) /\ j \notin Until(R, n, i)
      BY <1>2 DEF Until
    <2>3. Until(R, n, i) # Until(R, n, j)
      BY <2>2
    <2>4. /\ Cardinality(Until(R, n, i)) <= Cardinality(Until(R, n, j))
          /\ Cardinality(Until(R, n, i)) # Cardinality(Until(R, n, j))
      BY <1>1, <2>1, <2>3, FS_Subset
    <2> QED BY <1>1, <2>4
  <1>3. place \in [1..n -> 1..n]
    BY <1>1
  <1>4. \A i, j \in 1..n : place[i] = place[j] => i = j
    <2> SUFFICES ASSUME NEW i \in 1..n, NEW j \in 1..n, i # j PROVE place[i] # place[j]
      OBVIOUS
    <2>1. place[i] < place[j] \/ place[j] < place[i]
      BY <1>2
    <2>2. place[i] \in Nat /\ place[j] \in Nat
      BY ONLY <1>3, n \in Nat, i \in 1..n, j \in 1..n
    <2> QED BY <2>1, <2>2
  <1>5. \A i, j \in 1..n : place[i] < place[j] => <<i, j>> \in R
    <2> SUFFICES ASSUME NEW i \in 1..n, NEW j \in 1..n, place[i] < place[j], <<i, j>> \notin R
                 PROVE  FALSE
      OBVIOUS
    <2>1. <<j, i>> \in R /\ i # j
      OBVIOUS
    <2>2. place[j] < place[i]
      BY <1>2, <2>1
    <2>3. place[i] \in Nat /\ place[j] \in Nat
      BY <1>3
    <2> QED BY <2>2, <2>3
  <1>6. \A k \in 1..n : \E i \in 1..n : place[i] = k
    <2>1. place \in Injection(1..n, 1..n)
      BY <1>3, <1>4 DEF Injection, IsInjective
    <2>2. IsFiniteSet(1..n)
      BY FS_Interval
    <2>3. place \in Surjection(1..n, 1..n)
      BY <2>1, <2>2, FS_Injection
    <2> QED BY <2>3 DEF Surjection
  <1> QED BY <1>3, <1>4, <1>5, <1>6 DEF GivesPlaces

Identifiers == {NewID(s) : s \in Seq(Bit)}

\* An identifier is that of the bits in use.
LEMMA IdentifierOfUsed ==
    ASSUME NEW id \in Identifiers
    PROVE  Used(id) \in Seq(Bit) /\ id = NewID(Used(id)) /\ id.length = Len(Used(id))
  BY IdentifierIs DEF Identifiers

\* b does not come before a.
NotAfter(a, b) == ~Precedes(Used(b), Used(a))

\* Not to come after is transitive.
LEMMA NotAfterTransitive ==
    ASSUME NEW a \in Identifiers, NEW b \in Identifiers, NEW c \in Identifiers,
           NotAfter(a, b), NotAfter(b, c)
    PROVE  NotAfter(a, c)
  <1>1. Used(a) \in Seq(Bit) /\ Used(b) \in Seq(Bit) /\ Used(c) \in Seq(Bit)
    BY IdentifierOfUsed
  <1> QED BY <1>1, PrecedesTotal, PrecedesStrict, PrecedesTransitive DEF NotAfter

\* CompareShardIDs compares the bits in use.
LEMMA CompareIDs ==
    ASSUME NEW a \in Identifiers, NEW b \in Identifiers
    PROVE  CompareShardIDs(a, b) <=> Precedes(Used(a), Used(b))
  BY IdentifierOfUsed, CompareIs

\* A list in which no two neighbours are out of order is in order.
LEMMA NeighboursInOrder ==
    ASSUME NEW o \in Seq(Identifiers), \A i \in 2..Len(o) : NotAfter(o[i - 1], o[i])
    PROVE  \A i, j \in 1..Len(o) : i < j => NotAfter(o[i], o[j])
  <1> DEFINE T == {k \in Nat : \A i \in 1..Len(o) : i + k + 1 <= Len(o)
                                 => NotAfter(o[i], o[i + k + 1])}
  <1>0. Len(o) \in Nat /\ \A i \in 1..Len(o) : o[i] \in Identifiers
    OBVIOUS
  <1>1. 0 \in T
    <2> SUFFICES ASSUME NEW i \in 1..Len(o), i + 0 + 1 <= Len(o)
                 PROVE  NotAfter(o[i], o[i + 0 + 1])
      OBVIOUS
    <2>1. i + 1 \in 2..Len(o) /\ (i + 1) - 1 = i /\ i + 0 + 1 = i + 1
      BY <1>0
    <2> QED BY <2>1
  <1>2. ASSUME NEW k \in T PROVE k + 1 \in T
    <2> SUFFICES ASSUME NEW i \in 1..Len(o), i + (k + 1) + 1 <= Len(o)
                 PROVE  NotAfter(o[i], o[i + (k + 1) + 1])
      OBVIOUS
    <2> DEFINE m == i + k + 1
    <2>1. m \in 1..Len(o) /\ m + 1 \in 2..Len(o) /\ m + 1 \in 1..Len(o) /\ (m + 1) - 1 = m
          /\ i + (k + 1) + 1 = m + 1
      BY <1>0
    <2>2. NotAfter(o[i], o[m])
      BY <1>0, <2>1
    <2>3. NotAfter(o[m], o[m + 1])
      BY <2>1
    <2> HIDE DEF m
    <2> QED BY <1>0, <2>1, <2>2, <2>3, NotAfterTransitive
  <1> HIDE DEF T
  <1>3. T = Nat
    <2>1. T \in SUBSET Nat
      BY DEF T
    <2> QED BY ONLY <1>1, <1>2, <2>1, Induction
  <1>4. ASSUME NEW i \in 1..Len(o), NEW j \in 1..Len(o), i < j PROVE NotAfter(o[i], o[j])
    <2>1. j - i - 1 \in T /\ i + (j - i - 1) + 1 = j
      BY <1>0, <1>3, <1>4
    <2> QED BY <2>1 DEF T
  <1> QED BY <1>4

\* The second list has the elements of the first, each at another place.
Rearranged(sh, o) ==
    \E p \in [1..Len(sh) -> 1..Len(sh)] :
        /\ \A i, j \in 1..Len(sh) : p[i] = p[j] => i = j
        /\ \A j \in 1..Len(sh) : \E k \in 1..Len(sh) : p[k] = j
        /\ \A k \in 1..Len(sh) : o[k] = sh[p[k]]

\* The sorted list has the same identifiers, none before one it should follow.
LEMMA SortedIDsIs ==
    ASSUME NEW sh \in Seq(Identifiers), NEW o, o = SortedIDs(sh)
    PROVE  /\ o \in Seq(Identifiers) /\ Len(o) = Len(sh)
           /\ \A i, j \in 1..Len(o) : i < j => NotAfter(o[i], o[j])
           /\ Rearranged(sh, o)
  <1> DEFINE n == Len(sh)
             D == 1..n
  <1>0. n \in Nat /\ DOMAIN sh = D /\ \A i \in D : sh[i] \in Identifiers
    OBVIOUS
  <1>1. CASE AlreadySorted(sh)
    <2>1. o = sh
      BY <1>1 DEF SortedIDs
    <2>2. \A i \in 2..n : NotAfter(sh[i - 1], sh[i])
      <3> SUFFICES ASSUME NEW i \in 2..n PROVE NotAfter(sh[i - 1], sh[i])
        OBVIOUS
      <3>1. i \in D /\ i - 1 \in D
        BY <1>0
      <3>2. ~CompareShardIDs(sh[i], sh[i - 1])
        BY <1>1 DEF AlreadySorted
      <3> QED BY <1>0, <3>1, <3>2, CompareIDs DEF NotAfter
    <2>3. \A i, j \in 1..n : i < j => NotAfter(sh[i], sh[j])
      BY <2>2, NeighboursInOrder
    <2> DEFINE p == [i \in D |-> i]
    <2>4. p \in [D -> D] /\ \A i \in D : p[i] = i /\ o[i] = sh[p[i]]
      BY <2>1
    <2> HIDE DEF p
    <2>5. \E q \in [D -> D] : /\ \A i, j \in D : q[i] = q[j] => i = j
                              /\ \A j \in D : \E k \in D : q[k] = j
                              /\ \A k \in D : o[k] = sh[q[k]]
      BY <2>4
    <2> QED BY <2>1, <2>3, <2>5 DEF Rearranged
  <1>2. CASE ~AlreadySorted(sh)
    <2> DEFINE R == {q \in D \X D : IF q[1] <= q[2] THEN NotAfter(sh[q[1]], sh[q[2]])
                                    ELSE ~NotAfter(sh[q[2]], sh[q[1]])}
               place == Places(sh)
    <2>1. \A i, j \in D : <<i, j>> \in R <=> IF i <= j THEN NotAfter(sh[i], sh[j])
                                              ELSE ~NotAfter(sh[j], sh[i])
      OBVIOUS
    <2>2. place = [i \in D |-> Cardinality({j \in D : <<j, i>> \in R})]
      <3>1. \A i, j \in D : <<j, i>> \in R <=> IF j <= i THEN ~CompareShardIDs(sh[i], sh[j])
                                                ELSE CompareShardIDs(sh[j], sh[i])
        BY <1>0, <2>1, CompareIDs DEF NotAfter
      <3> HIDE DEF R
      <3>2. \A i \in D : {j \in D : <<j, i>> \in R}
                = {j \in D : IF j <= i THEN ~CompareShardIDs(sh[i], sh[j])
                             ELSE CompareShardIDs(sh[j], sh[i])}
        BY <3>1
      <3> QED BY <1>0, <3>2 DEF Places
    <2> HIDE DEF R, place
    <2>3. \A i \in D : <<i, i>> \in R
      BY <1>0, <2>1, IdentifierOfUsed, PrecedesStrict DEF NotAfter
    <2>4. \A i, j \in D : <<i, j>> \in R \/ <<j, i>> \in R
      <3>1. D \subseteq Nat
        BY <1>0
      <3> HIDE DEF D
      <3> SUFFICES ASSUME NEW i \in D, NEW j \in D PROVE <<i, j>> \in R \/ <<j, i>> \in R
        OBVIOUS
      <3>2. i \in Nat /\ j \in Nat
        BY <3>1
      <3>3. CASE i <= j
        <4>1. CASE NotAfter(sh[i], sh[j])
          BY <2>1, <3>3, <4>1
        <4>2. CASE ~NotAfter(sh[i], sh[j]) /\ i # j
          BY <2>1, <3>2, <3>3, <4>2
        <4>3. CASE i = j
          BY <2>3, <4>3
        <4> QED BY <4>1, <4>2, <4>3
      <3>4. CASE j < i
        <4>1. CASE NotAfter(sh[j], sh[i])
          BY <2>1, <3>2, <3>4, <4>1
        <4>2. CASE ~NotAfter(sh[j], sh[i])
          BY <2>1, <3>2, <3>4, <4>2
        <4> QED BY <4>1, <4>2
      <3> QED BY <3>2, <3>3, <3>4
    <2>5. \A i, j \in D : <<i, j>> \in R /\ <<j, i>> \in R => i = j
      <3>1. D \subseteq Nat
        BY <1>0
      <3> HIDE DEF D
      <3> SUFFICES ASSUME NEW i \in D, NEW j \in D, <<i, j>> \in R, <<j, i>> \in R, i # j
                   PROVE  FALSE
        OBVIOUS
      <3>2. i \in Nat /\ j \in Nat
        BY <3>1
      <3>3. CASE i < j
        BY <2>1, <3>2, <3>3
      <3>4. CASE j < i
        BY <2>1, <3>2, <3>4
      <3> QED BY <3>2, <3>3, <3>4
    <2>6. \A i, j, k \in D : <<i, j>> \in R /\ <<j, k>> \in R => <<i, k>> \in R
      <3> SUFFICES ASSUME NEW i \in D, NEW j \in D, NEW k \in D,
                          <<i, j>> \in R, <<j, k>> \in R
                   PROVE  <<i, k>> \in R
        OBVIOUS
      <3>1. /\ Used(sh[i]) \in Seq(Bit) /\ Used(sh[j]) \in Seq(Bit) /\ Used(sh[k]) \in Seq(Bit)
            /\ i \in Nat /\ j \in Nat /\ k \in Nat
        BY <1>0, IdentifierOfUsed
      <3> QED BY <2>1, <3>1, PrecedesTotal, PrecedesStrict, PrecedesTransitive DEF NotAfter
    <2>7. /\ place \in [D -> D]
          /\ \A i, j \in D : place[i] < place[j] => <<i, j>> \in R
          /\ \A i, j \in D : place[i] = place[j] => i = j
          /\ \A k \in D : \E i \in D : place[i] = k
      <3>1. n \in Nat
        OBVIOUS
      <3> HIDE DEF n
      <3>2. OrdersAll(R, n)
        BY <2>3, <2>4, <2>5, <2>6 DEF OrdersAll
      <3>3. \A i \in 1..n : place[i] = Cardinality(Until(R, n, i))
        BY <2>2 DEF Until
      <3>4. place \in [1..n -> Nat]
        <4> SUFFICES ASSUME NEW i \in 1..n PROVE Cardinality(Until(R, n, i)) \in Nat
          BY <2>2, <3>3
        <4>1. IsFiniteSet(1..n) /\ Until(R, n, i) \subseteq 1..n
          BY <3>1, FS_Interval DEF Until
        <4> QED BY <4>1, FS_Subset, FS_CardinalityType
      <3>5. Counts(place, R, n)
        BY <3>3, <3>4 DEF Counts
      <3>6. GivesPlaces(place, R, n)
        BY ONLY <3>1, <3>2, <3>5, PlacesOfOrder
      <3> QED BY <3>6 DEF GivesPlaces
    <2> DEFINE p == [k \in D |-> CHOOSE i \in D : place[i] = k]
    <2>8. p \in [D -> D] /\ \A k \in D : place[p[k]] = k
      BY <2>7
    <2>9. o = [k \in D |-> sh[p[k]]]
      BY <1>0, <1>2 DEF SortedIDs, place
    <2> HIDE DEF p
    <2>10. \A j \in D : p[place[j]] = j
      BY <2>7, <2>8
    <2>11. /\ \A i, j \in D : p[i] = p[j] => i = j
           /\ \A j \in D : \E k \in D : p[k] = j
      BY <2>7, <2>8, <2>10
    <2>12. o \in Seq(Identifiers) /\ Len(o) = n
      BY <1>0, <2>8, <2>9
    <2>13. ASSUME NEW i \in D, NEW j \in D, i < j PROVE NotAfter(o[i], o[j])
      <3>1. <<p[i], p[j]>> \in R
        <4>1. p[i] \in D /\ p[j] \in D /\ place[p[i]] < place[p[j]]
          BY <2>8, <2>13
        <4> QED BY <2>7, <4>1
      <3>2. o[i] = sh[p[i]] /\ o[j] = sh[p[j]] /\ o[i] \in Identifiers /\ o[j] \in Identifiers
        BY <1>0, <2>8, <2>9
      <3>3. NotAfter(o[i], o[j]) \/ ~NotAfter(o[j], o[i])
        BY <2>1, <2>8, <3>1, <3>2
      <3> QED BY <3>2, <3>3, IdentifierOfUsed, PrecedesStrict DEF NotAfter
    <2>14. \A k \in D : o[k] = sh[p[k]]
      BY <2>9
    <2>15. Rearranged(sh, o)
      BY <2>8, <2>11, <2>14 DEF Rearranged
    <2> QED BY <2>12, <2>13, <2>15
  <1> QED BY <1>1, <1>2

-------------------------------------------------------------------------------
(* Prefixes, and neighbours in a sorted scheme. *)

\* s is a prefix of t when they agree on its length and t is no shorter.
LEMMA PrefixIs ==
    ASSUME NEW s \in Seq(Bit), NEW t \in Seq(Bit)
    PROVE  /\ IsPrefixOf(s, t) <=> Len(s) <= Len(t) /\ \A i \in 1..Len(s) : s[i] = t[i]
           /\ IsPrefixOf(s, t) <=> Len(s) <= Len(t) /\ Agree(s, t, Len(s))
  <1>1. Len(s) \in Nat /\ Len(t) \in Nat
    OBVIOUS
  <1>2. ASSUME Len(s) <= Len(t)
        PROVE  SubSeq(t, 1, Len(s)) = s <=> \A i \in 1..Len(s) : s[i] = t[i]
    <2>1. SubSeq(t, 1, Len(s)) \in Seq(Bit) /\ Len(SubSeq(t, 1, Len(s))) = Len(s)
      BY <1>1, <1>2
    <2>2. \A i \in 1..Len(s) : SubSeq(t, 1, Len(s))[i] = t[i]
      BY <1>1, <1>2
    <2> QED BY <2>1, <2>2
  <1>3. ASSUME Len(s) <= Len(t)
        PROVE  Agree(s, t, Len(s)) <=> \A i \in 1..Len(s) : s[i] = t[i]
    <2>1. \A i \in 1..Len(s) : At(s, i) = s[i] /\ At(t, i) = t[i]
      BY <1>1, <1>3 DEF At
    <2> QED BY <2>1 DEF Agree
  <1> QED BY <1>2, <1>3 DEF IsPrefixOf

\* A string that is not after one that agrees with it is its prefix.
LEMMA AgreeingPrefix ==
    ASSUME NEW s \in Seq(Bit), NEW t \in Seq(Bit), ~Precedes(t, s), Agree(s, t, Len(s))
    PROVE  IsPrefixOf(s, t)
  <1>1. Len(s) \in Nat /\ Len(t) \in Nat
    OBVIOUS
  <1>2. SUFFICES ASSUME Len(t) < Len(s) PROVE FALSE
    BY <1>1, PrefixIs
  <1>3. ASSUME NEW i \in Positions PROVE At(t, i) = At(s, i)
    <2>1. CASE i <= Len(s)
      <3>1. i \in 1..Len(s)
        BY <1>1, <2>1 DEF Positions
      <3> QED BY <3>1 DEF Agree
    <2>2. CASE i > Len(s)
      BY <1>1, <1>2, <2>2, BitsAt DEF Positions
    <2> QED BY <1>1, <2>1, <2>2 DEF Positions
  <1> QED BY <1>2, <1>3 DEF Precedes

\* A string follows its prefixes.
LEMMA PrefixNotAfter ==
    ASSUME NEW s \in Seq(Bit), NEW t \in Seq(Bit), IsPrefixOf(s, t)
    PROVE  ~Precedes(t, s)
  <1>1. Len(s) \in Nat /\ Len(t) \in Nat /\ Len(s) <= Len(t) /\ Agree(s, t, Len(s))
    BY PrefixIs
  <1>2. ASSUME NEW i \in Positions, At(t, i) < At(s, i) PROVE FALSE
    <2>1. At(t, i) \in Bit /\ At(s, i) \in Bit /\ At(s, i) # 0
      BY <1>2, BitsAt DEF Bit
    <2>2. i \in 1..Len(s)
      BY <1>1, <2>1, BitsAt DEF Positions
    <2> QED BY <1>1, <1>2, <2>1, <2>2 DEF Agree, Bit
  <1> QED BY <1>1, <1>2 DEF Precedes

\* What lies between a string and one it is a prefix of begins with it too.
LEMMA PrefixBetween ==
    ASSUME NEW s \in Seq(Bit), NEW t \in Seq(Bit), NEW u \in Seq(Bit),
           ~Precedes(t, s), ~Precedes(u, t), IsPrefixOf(s, u)
    PROVE  IsPrefixOf(s, t)
  <1>1. Len(s) \in Nat /\ Len(s) <= Len(u) /\ Agree(s, u, Len(s))
    BY PrefixIs
  <1>2. SUFFICES ASSUME NEW k \in 1..Len(s), At(s, k) # At(t, k) PROVE FALSE
    BY AgreeingPrefix DEF Agree
  <1>3. k \in Positions
    BY DEF Positions
  <1>4. PICK i \in Positions : At(s, i) # At(t, i) /\ Agree(s, t, i - 1)
    BY <1>2, <1>3, FirstDifference
  <1>5. i <= k
    <2>1. ~(k \in 1..(i - 1))
      BY <1>2, <1>4 DEF Agree
    <2> QED BY <1>1, <2>1 DEF Positions
  <1>6. i \in 1..Len(s) /\ \A j \in 1..(i - 1) : j \in 1..Len(s)
    BY <1>1, <1>5 DEF Positions
  <1>7. At(s, i) \in Bit /\ At(t, i) \in Bit
    BY BitsAt
  <1>8. ~(At(t, i) < At(s, i))
    <2>1. Agree(t, s, i - 1)
      BY <1>4 DEF Agree
    <2> QED BY <2>1 DEF Precedes
  <1>9. At(s, i) < At(t, i)
    BY <1>4, <1>7, <1>8 DEF Bit
  <1>10. At(u, i) < At(t, i) /\ Agree(u, t, i - 1)
    <2>1. At(u, i) = At(s, i)
      BY <1>1, <1>6 DEF Agree
    <2>2. \A j \in 1..(i - 1) : At(u, j) = At(t, j)
      BY <1>1, <1>4, <1>6 DEF Agree
    <2> QED BY <1>9, <2>1, <2>2 DEF Agree
  <1> QED BY <1>10 DEF Precedes

\* Prefixes of the same string are prefixes of one another.
LEMMA PrefixesCompare ==
    ASSUME NEW s \in Seq(Bit), NEW t \in Seq(Bit), NEW u \in Seq(Bit),
           IsPrefixOf(s, u), IsPrefixOf(t, u)
    PROVE  IF Len(s) <= Len(t) THEN IsPrefixOf(s, t) ELSE IsPrefixOf(t, s)
  <1>1. /\ Len(s) \in Nat /\ Len(t) \in Nat /\ Len(s) <= Len(u) /\ Len(t) <= Len(u)
        /\ \A i \in 1..Len(s) : s[i] = u[i]
        /\ \A i \in 1..Len(t) : t[i] = u[i]
    BY PrefixIs
  <1>2. CASE Len(s) <= Len(t)
    <2>1. \A i \in 1..Len(s) : i \in 1..Len(t)
      BY <1>1, <1>2
    <2> QED BY <1>1, <1>2, <2>1, PrefixIs
  <1>3. CASE ~(Len(s) <= Len(t))
    <2>1. \A i \in 1..Len(t) : i \in 1..Len(s)
      BY <1>1, <1>3
    <2>2. Len(t) <= Len(s)
      BY <1>1, <1>3
    <2> QED BY <1>1, <1>3, <2>1, <2>2, PrefixIs
  <1> QED BY <1>2, <1>3

\* A prefix of a prefix is a prefix.
LEMMA PrefixTransitive ==
    ASSUME NEW s \in Seq(Bit), NEW t \in Seq(Bit), NEW u \in Seq(Bit),
           IsPrefixOf(s, t), IsPrefixOf(t, u)
    PROVE  IsPrefixOf(s, u)
  <1>1. /\ Len(s) \in Nat /\ Len(t) \in Nat /\ Len(u) \in Nat
        /\ Len(s) <= Len(t) /\ Len(t) <= Len(u)
        /\ \A i \in 1..Len(s) : s[i] = t[i]
        /\ \A i \in 1..Len(t) : t[i] = u[i]
    BY PrefixIs
  <1>2. \A i \in 1..Len(s) : i \in 1..Len(t)
    BY <1>1
  <1> QED BY <1>1, <1>2, PrefixIs

\* A prefix as long as the string is the string.
LEMMA FullPrefix ==
    ASSUME NEW s \in Seq(Bit), NEW t \in Seq(Bit), IsPrefixOf(s, t), Len(t) <= Len(s)
    PROVE  s = t
  <1>1. Len(s) = Len(t) /\ \A i \in 1..Len(s) : s[i] = t[i]
    <2>1. Len(s) \in Nat /\ Len(t) \in Nat
      OBVIOUS
    <2> QED BY <2>1, PrefixIs
  <1> QED BY <1>1

\* No identifier of the list is a prefix of another.
NoPrefixes(sh) ==
    \A i, j \in 1..Len(sh) : IsPrefixOf(Used(sh[i]), Used(sh[j])) => i = j

InIDOrder(o) == \A i, j \in 1..Len(o) : i < j => NotAfter(o[i], o[j])

\* What the code asks of neighbours.
LEMMA NeighbourPrefix ==
    ASSUME NEW a \in Identifiers, NEW b \in Identifiers
    PROVE  a.length <= b.length /\ Matches(a, b.bits) <=> IsPrefixOf(Used(a), Used(b))
  <1> DEFINE s == Used(a)
             t == Used(b)
  <1>1. /\ s \in Seq(Bit) /\ a = NewID(s) /\ a.length = Len(s)
        /\ t \in Seq(Bit) /\ b = NewID(t) /\ b.length = Len(t)
    BY IdentifierOfUsed
  <1> HIDE DEF s, t
  <1>2. b.bits = Padded(t) /\ Len(s) \in Nat /\ Len(t) \in Nat
    BY <1>1, IdentifierIs
  <1>3. SUFFICES ASSUME Len(s) <= Len(t)
                 PROVE  Matches(a, b.bits) <=> \A i \in 1..Len(s) : s[i] = t[i]
    BY <1>1, <1>2, PrefixIs DEF s, t
  <1>4. \A i \in 1..Len(s) : b.bits[i] = t[i] /\ t[i] \in Bit
    <2>1. Len(t) <= ByteLength(Len(t)) /\ ByteLength(Len(t)) \in Nat
      BY <1>2, WholeBytes
    <2>2. \A i \in 1..Len(s) : i \in 1..Len(t) /\ i \in 1..ByteLength(Len(t))
      BY <1>2, <1>3, <2>1
    <2>3. \A i \in 1..ByteLength(Len(t)) : Padded(t)[i] = At(t, i)
      BY <1>1, PaddedIs
    <2> QED BY <1>1, <1>2, <2>2, <2>3 DEF At
  <1>5. Matches(NewID(s), b.bits) <=> \A i \in 1..Len(s) : s[i] = b.bits[i]
    BY <1>1, <1>4, MatchesIs
  <1> QED BY <1>1, <1>4, <1>5

\* Of a list in order only the neighbours need be compared.
LEMMA PrefixFreeIs ==
    ASSUME NEW o \in Seq(Identifiers), InIDOrder(o)
    PROVE  PrefixFree(o) <=> NoPrefixes(o)
  <1>0. /\ Len(o) \in Nat
        /\ \A i \in 1..Len(o) : o[i] \in Identifiers /\ Used(o[i]) \in Seq(Bit)
    BY IdentifierOfUsed
  <1>1. PrefixFree(o) <=> \A i \in 2..Len(o) : ~IsPrefixOf(Used(o[i - 1]), Used(o[i]))
    <2>1. \A i \in 2..Len(o) : i \in 1..Len(o) /\ i - 1 \in 1..Len(o)
      BY <1>0
    <2> QED BY <1>0, <2>1, NeighbourPrefix DEF PrefixFree
  <1>2. ASSUME PrefixFree(o), NEW i \in 1..Len(o), NEW j \in 1..Len(o), i < j,
               IsPrefixOf(Used(o[i]), Used(o[j]))
        PROVE  FALSE
    <2>1. i + 1 \in 2..Len(o) /\ (i + 1) - 1 = i /\ i + 1 \in 1..Len(o) /\ i < i + 1
      BY <1>0, <1>2
    <2>2. ~IsPrefixOf(Used(o[i]), Used(o[i + 1]))
      BY <1>1, <1>2, <2>1
    <2>3. CASE j = i + 1
      BY <1>2, <2>2, <2>3
    <2>4. CASE i + 1 < j
      <3>1. NotAfter(o[i], o[i + 1]) /\ NotAfter(o[i + 1], o[j])
        BY <2>1, <2>4 DEF InIDOrder
      <3> QED BY <1>0, <1>2, <2>1, <2>2, <3>1, PrefixBetween DEF NotAfter
    <2> QED BY <1>0, <1>2, <2>3, <2>4
  <1>3. ASSUME PrefixFree(o), NEW i \in 1..Len(o), NEW j \in 1..Len(o), j < i,
               IsPrefixOf(Used(o[i]), Used(o[j]))
        PROVE  FALSE
    <2>1. NotAfter(o[j], o[i])
      BY <1>3 DEF InIDOrder
    <2>2. Used(o[i]) = Used(o[j])
      BY <1>0, <1>3, <2>1, PrefixNotAfter, PrecedesTotal DEF NotAfter
    <2> QED BY <1>2, <1>3, <2>2
  <1>4. PrefixFree(o) => NoPrefixes(o)
    <2> SUFFICES ASSUME PrefixFree(o), NEW i \in 1..Len(o), NEW j \in 1..Len(o),
                        IsPrefixOf(Used(o[i]), Used(o[j]))
                 PROVE  i = j
      BY DEF NoPrefixes
    <2>1. ~(i < j) /\ ~(j < i)
      BY <1>2, <1>3
    <2> QED BY <1>0, <2>1
  <1>5. NoPrefixes(o) => PrefixFree(o)
    <2> SUFFICES ASSUME NoPrefixes(o), NEW i \in 2..Len(o)
                 PROVE  ~IsPrefixOf(Used(o[i - 1]), Used(o[i]))
      BY <1>1
    <2>1. i \in 1..Len(o) /\ i - 1 \in 1..Len(o) /\ i # i - 1
      BY <1>0
    <2> QED BY <2>1 DEF NoPrefixes
  <1> QED BY <1>4, <1>5

-------------------------------------------------------------------------------
(* The interval of an identifier, and the tiling of the range. *)

\* A set of numbers up to n has a greatest one.
LEMMA GreatestNumber ==
    ASSUME NEW n \in Nat, NEW T \in SUBSET (1..n), T # {}
    PROVE  \E m \in T : \A k \in T : k <= m
  <1> DEFINE U == {i \in Nat : n - i \in T}
  <1>1. U \in SUBSET Nat
    OBVIOUS
  <1>2. U # {}
    <2>1. PICK k \in T : TRUE
      OBVIOUS
    <2>2. n - k \in Nat /\ n - (n - k) = k
      OBVIOUS
    <2> QED BY <2>1, <2>2
  <1> HIDE DEF U
  <1>3. PICK i \in U : \A j \in U : i <= j
    BY <1>1, <1>2, LeastNumber
  <1>4. i \in Nat /\ n - i \in T
    BY <1>3 DEF U
  <1>5. ASSUME NEW k \in T PROVE k <= n - i
    <2>1. k \in 1..n /\ n - k \in Nat /\ n - (n - k) = k
      OBVIOUS
    <2>2. n - k \in U
      BY <2>1 DEF U
    <2>3. i <= n - k
      BY <1>3, <2>2
    <2> QED BY <1>4, <2>1, <2>3
  <1> QED BY <1>4, <1>5

IsLastZero(s, z) == z \in 1..Len(s) /\ s[z] = 0 /\ \A j \in (z + 1)..Len(s) : s[j] = 1

\* Bit i of the next string of as many bits, with zeros after it.
NextBit(s, z, i) == IF i < z THEN At(s, i) ELSE IF i = z THEN 1 ELSE 0

\* A string that is not all ones has a last zero, with ones after it.
LEMMA LastZero ==
    ASSUME NEW s \in Seq(Bit), NEW k \in 1..Len(s), s[k] = 0
    PROVE  \E z \in k..Len(s) : IsLastZero(s, z)
  <1> DEFINE T == {i \in 1..Len(s) : s[i] = 0}
  <1>0. Len(s) \in Nat /\ \A i \in 1..Len(s) : s[i] \in Bit
    OBVIOUS
  <1>1. T \in SUBSET (1..Len(s)) /\ k \in T
    OBVIOUS
  <1> HIDE DEF T
  <1>2. PICK z \in T : \A i \in T : i <= z
    BY <1>0, <1>1, GreatestNumber
  <1>3. z \in 1..Len(s) /\ s[z] = 0 /\ k <= z
    BY <1>1, <1>2 DEF T
  <1>4. ASSUME NEW j \in (z + 1)..Len(s) PROVE s[j] = 1
    <2>1. j \in 1..Len(s) /\ ~(j <= z)
      BY <1>0, <1>3
    <2>2. s[j] # 0
      BY <1>2, <2>1 DEF T
    <2> QED BY <1>0, <2>1, <2>2 DEF Bit
  <1>5. z \in k..Len(s)
    BY <1>3
  <1> QED BY <1>3, <1>4, <1>5 DEF IsLastZero

\* The end of an identifier's interval is where the next string begins.
LEMMA EndIs ==
    ASSUME NEW s \in Seq(Bit), NEW t \in Seq(Bit), NEW z, IsLastZero(s, z)
    PROVE  EqualPadded(ShardIDEnd(NewID(s)), NewID(t).bits)
             <=> \A i \in Positions : NextBit(s, z, i) = At(t, i)
  <1> DEFINE m == ByteLength(Len(s))
             n == ByteLength(Len(t))
             e == ShardIDEnd(NewID(s))
             b == NewID(t).bits
             zeros == {i \in 1..Len(s) : Padded(s)[i] = 0}
  <1>0. Len(s) \in Nat /\ Len(t) \in Nat
    OBVIOUS
  <1>1. m \in Nat /\ n \in Nat /\ Len(s) <= m /\ Len(t) <= n
    BY <1>0, WholeBytes
  <1>2. /\ NewID(s).bits = Padded(s) /\ NewID(s).length = Len(s) /\ b = Padded(t)
        /\ Padded(s) \in Seq(Bit) /\ Len(Padded(s)) = m
        /\ \A i \in 1..m : Padded(s)[i] = At(s, i)
        /\ b \in Seq(Bit) /\ Len(b) = n /\ \A i \in 1..n : b[i] = At(t, i)
    BY IdentifierIs, PaddedIs
  <1> HIDE DEF m, n, b
  <1>3. z \in zeros /\ \A j \in zeros : j <= z /\ j \in Nat
    <2>1. \A j \in 1..Len(s) : Padded(s)[j] = s[j]
      BY <1>0, <1>1, <1>2 DEF At
    <2>2. ASSUME NEW j \in zeros PROVE j <= z
      <3>1. ~(j \in (z + 1)..Len(s))
        BY <2>1 DEF IsLastZero
      <3> QED BY <1>0, <3>1 DEF IsLastZero
    <2> QED BY <2>1, <2>2 DEF IsLastZero
  <1> HIDE DEF zeros
  <1>4. z \in Nat /\ (CHOOSE i \in zeros : \A j \in zeros : j <= i) = z
    BY <1>3
  <1>5. e = [i \in 1..m |-> CASE i < z -> Padded(s)[i] [] i = z -> 1 [] i > z -> 0]
    <2>1. {i \in 1..NewID(s).length : NewID(s).bits[i] = 0} = zeros
      BY <1>2 DEF zeros
    <2>2. \A i \in 1..m : (CASE i < z -> Padded(s)[i] [] i = z -> 1 [] i > z -> 0)
                            = IF i < z THEN Padded(s)[i] ELSE IF i = z THEN 1 ELSE 0
      BY <1>1, <1>4
    <2> DEFINE id == NewID(s)
               Z == {i \in 1..id.length : id.bits[i] = 0}
               k == CHOOSE i \in Z : \A j \in Z : j <= i
    <2>3. ShardIDEnd(id) = [i \in 1..Len(id.bits) |-> CASE i < k -> id.bits[i]
                                                         [] i = k -> 1
                                                         [] i > k -> 0]
      BY DEF ShardIDEnd
    <2>6. Z = zeros
      BY <2>1
    <2> HIDE DEF Z
    <2>4. k = z
      BY <1>3, <1>4, <2>6
    <2> HIDE DEF k
    <2>5. Len(id.bits) = m /\ id.bits = Padded(s)
      BY <1>2
    <2> HIDE DEF id
    <2> QED BY <2>3, <2>4, <2>5 DEF id
  <1>6. e \in Seq(Bit) /\ Len(e) = m /\ \A i \in 1..m : e[i] = NextBit(s, z, i)
    <2>1. \A i \in 1..m : (CASE i < z -> Padded(s)[i] [] i = z -> 1 [] i > z -> 0)
                            = NextBit(s, z, i)
      BY <1>1, <1>2, <1>4 DEF NextBit
    <2>2. e = [i \in 1..m |-> NextBit(s, z, i)]
      BY <1>5, <2>1
    <2>3. \A i \in 1..m : NextBit(s, z, i) \in Bit
      BY BitsAt DEF NextBit, Positions, Bit
    <2> QED BY <1>1, <2>2, <2>3
  <1> HIDE DEF e
  <1>7. /\ \A i \in Positions : i > m => NextBit(s, z, i) = 0
        /\ \A i \in Positions : i > n => At(t, i) = 0
    <2>1. z <= m /\ z \in Nat
      BY <1>0, <1>1 DEF IsLastZero
    <2> QED BY <1>0, <1>1, <2>1, BitsAt DEF NextBit, Positions
  <1> DEFINE c == IF m > n THEN m ELSE n
  <1>8. EqualPadded(e, b) <=>
          \A i \in 1..c : (IF i <= m THEN e[i] ELSE 0) = (IF i <= n THEN b[i] ELSE 0)
    BY <1>2, <1>6 DEF EqualPadded
  <1>9. \A i \in 1..c : /\ (IF i <= m THEN e[i] ELSE 0) = NextBit(s, z, i)
                        /\ (IF i <= n THEN b[i] ELSE 0) = At(t, i)
    BY <1>1, <1>2, <1>6, <1>7 DEF Positions
  <1>10. ASSUME NEW i \in Positions, i \notin 1..c PROVE NextBit(s, z, i) = At(t, i)
    BY <1>1, <1>7, <1>10 DEF Positions
  <1>11. \A i \in 1..c : i \in Positions
    BY DEF Positions
  <1>12. EqualPadded(e, b) <=> \A i \in Positions : NextBit(s, z, i) = At(t, i)
    <2> HIDE DEF c
    <2> QED BY <1>8, <1>9, <1>10, <1>11
  <1> QED BY <1>12 DEF e, b

\* The bits of s come after those of t.
Beyond(s, t) == \E i \in Positions : At(t, i) < At(s, i) /\ Agree(t, s, i - 1)

\* If the intervals tile the range every string is in one of them.
LEMMA CompleteCovers ==
    ASSUME NEW o \in Seq(Identifiers), o # << >>, CheckComplete(o),
           NEW t \in Seq(Bit), \A i \in 1..Len(o) : Len(Used(o[i])) <= Len(t)
    PROVE  \E i \in 1..Len(o) : IsPrefixOf(Used(o[i]), t)
  <1> DEFINE T == {i \in 1..Len(o) : ~Beyond(Used(o[i]), t)}
  <1>0. /\ Len(o) \in Nat /\ Len(o) >= 1
        /\ \A i \in 1..Len(o) : /\ o[i] \in Identifiers /\ Used(o[i]) \in Seq(Bit)
                                /\ o[i] = NewID(Used(o[i]))
                                /\ o[i].length = Len(Used(o[i]))
    BY IdentifierOfUsed
  <1>1. ASSUME NEW i \in 1..Len(o), NEW bit
        PROVE  AllBits(o[i], bit) <=> \A j \in 1..Len(Used(o[i])) : Used(o[i])[j] = bit
    <2> DEFINE s == Used(o[i])
    <2>1. s \in Seq(Bit) /\ o[i] = NewID(s) /\ Len(s) \in Nat
      BY <1>0
    <2> HIDE DEF s
    <2>2. o[i].length = Len(s) /\ o[i].bits = Padded(s)
      BY <2>1, IdentifierIs
    <2>3. \A j \in 1..Len(s) : j \in 1..ByteLength(Len(s))
      BY <2>1, WholeBytes
    <2>4. \A j \in 1..Len(s) : o[i].bits[j] = s[j]
      BY <2>1, <2>2, <2>3, PaddedIs DEF At
    <2> QED BY <2>2, <2>4 DEF AllBits, s
  <1>2. 1 \in T
    <2> DEFINE s == Used(o[1])
    <2>1. s \in Seq(Bit) /\ \A j \in 1..Len(s) : s[j] = 0
      <3>1. 1 \in 1..Len(o)
        BY <1>0
      <3>2. AllBits(o[1], 0)
        BY DEF CheckComplete
      <3>3. AllBits(o[1], 0) <=> \A j \in 1..Len(Used(o[1])) : Used(o[1])[j] = 0
        BY <1>1, <3>1
      <3> QED BY <1>0, <3>1, <3>2, <3>3
    <2> HIDE DEF s
    <2>2. \A i \in Positions : At(s, i) = 0 /\ At(t, i) \in Bit
      BY <2>1, BitsAt DEF Positions, At
    <2>3. ~Beyond(s, t)
      BY <2>2 DEF Beyond, Bit
    <2> QED BY <1>0, <2>3 DEF s
  <1>3. T \in SUBSET (1..Len(o))
    OBVIOUS
  <1>4. PICK m \in T : \A i \in T : i <= m
    <2> HIDE DEF T
    <2> QED BY <1>0, <1>2, <1>3, GreatestNumber
  <1> DEFINE s == Used(o[m])
  <1>5. /\ m \in 1..Len(o) /\ s \in Seq(Bit) /\ ~Beyond(s, t) /\ Len(s) \in Nat
        /\ Len(s) <= Len(t) /\ o[m] = NewID(s)
    BY <1>0, <1>4
  <1> SUFFICES ASSUME ~IsPrefixOf(s, t) PROVE FALSE
    BY <1>5
  <1>6. AllBits(o[m], 1) <=> \A j \in 1..Len(s) : s[j] = 1
    BY <1>1, <1>5
  <1> HIDE DEF s
  <1>7. PICK k0 \in 1..Len(s) : At(s, k0) # At(t, k0)
    BY <1>5, PrefixIs DEF Agree
  <1>8. k0 \in Positions
    BY DEF Positions
  <1>9. PICK k \in Positions : At(s, k) # At(t, k) /\ Agree(s, t, k - 1)
    BY <1>5, <1>7, <1>8, FirstDifference
  <1>10. k <= k0
    <2>1. ~(k0 \in 1..(k - 1))
      BY <1>7, <1>9 DEF Agree
    <2> QED BY <1>5, <2>1 DEF Positions
  <1>11. At(s, k) = 0 /\ At(t, k) = 1
    <2>1. At(s, k) \in Bit /\ At(t, k) \in Bit
      BY <1>5, BitsAt
    <2>2. Agree(t, s, k - 1)
      BY <1>9 DEF Agree
    <2>3. ~(At(t, k) < At(s, k))
      BY <1>5, <2>2 DEF Beyond
    <2> QED BY <1>9, <2>1, <2>3 DEF Bit
  <1>12. k \in 1..Len(s) /\ s[k] = 0
    BY <1>5, <1>10, <1>11, <1>8 DEF At, Positions
  <1>13. ~AllBits(o[m], 1)
    BY <1>6, <1>12
  <1>14. m + 1 \in 2..Len(o) /\ (m + 1) - 1 = m /\ m + 1 \in 1..Len(o)
    <2>1. m # Len(o)
      BY <1>13 DEF CheckComplete
    <2> QED BY <1>0, <1>5, <2>1
  <1>15. EqualPadded(ShardIDEnd(o[m]), o[m + 1].bits)
    BY <1>14 DEF CheckComplete
  <1>16. PICK z \in k..Len(s) : IsLastZero(s, z)
    BY <1>5, <1>12, LastZero
  <1> DEFINE u == Used(o[m + 1])
  <1>17. u \in Seq(Bit) /\ o[m + 1] = NewID(u)
    BY <1>0, <1>14
  <1>18. ~(m + 1 \in T)
    BY <1>4, <1>5
  <1>19. Beyond(u, t)
    BY <1>14, <1>18
  <1> HIDE DEF u, T
  <1>20. \A i \in Positions : NextBit(s, z, i) = At(u, i)
    BY <1>5, <1>15, <1>16, <1>17, EndIs
  <1>21. PICK i \in Positions : At(t, i) < At(u, i) /\ Agree(t, u, i - 1)
    BY <1>19 DEF Beyond
  <1>22. z \in Nat /\ k <= z /\ k \in Nat /\ i \in Nat /\ i >= 1 /\ k >= 1
    BY <1>5, <1>16 DEF Positions
  <1>23. At(t, i) \in Bit /\ At(u, i) \in Bit
    BY <1>17, BitsAt
  <1>24. CASE i < k
    <2>1. i \in 1..(k - 1)
      BY <1>22, <1>24
    <2>2. At(u, i) = At(s, i) /\ At(s, i) = At(t, i)
      BY <1>9, <1>20, <1>22, <1>24, <2>1 DEF NextBit, Agree
    <2> QED BY <1>21, <1>23, <2>2 DEF Bit
  <1>25. CASE i = k
    BY <1>11, <1>21, <1>23, <1>25 DEF Bit
  <1>26. CASE i > k /\ k < z
    <2>1. k \in 1..(i - 1)
      BY <1>22, <1>26
    <2>2. At(t, k) = At(u, k)
      BY <1>21, <2>1 DEF Agree
    <2>3. At(u, k) = At(s, k)
      BY <1>9, <1>20, <1>22, <1>26 DEF NextBit
    <2> QED BY <1>11, <2>2, <2>3
  <1>27. CASE i > k /\ k = z
    <2>1. At(u, i) = 0
      BY <1>20, <1>22, <1>27 DEF NextBit
    <2> QED BY <1>21, <1>23, <2>1 DEF Bit
  <1> QED BY <1>22, <1>24, <1>25, <1>26, <1>27

\* allBits looks at the bits in use.
LEMMA AllBitsIs ==
    ASSUME NEW id \in Identifiers, NEW bit
    PROVE  AllBits(id, bit) <=> \A j \in 1..Len(Used(id)) : Used(id)[j] = bit
  <1> DEFINE s == Used(id)
  <1>1. s \in Seq(Bit) /\ id = NewID(s) /\ Len(s) \in Nat
    BY IdentifierOfUsed
  <1> HIDE DEF s
  <1>2. id.length = Len(s) /\ id.bits = Padded(s)
    BY <1>1, IdentifierIs
  <1>3. \A j \in 1..Len(s) : j \in 1..ByteLength(Len(s))
    BY <1>1, WholeBytes
  <1>4. \A j \in 1..Len(s) : id.bits[j] = s[j]
    BY <1>1, <1>2, <1>3, PaddedIs DEF At
  <1> QED BY <1>2, <1>4 DEF AllBits, s

\* A string is not after another one at their first difference.
LEMMA OrderAt ==
    ASSUME NEW s \in Seq(Bit), NEW t \in Seq(Bit), ~Precedes(t, s),
           NEW i \in Positions, Agree(s, t, i - 1), At(s, i) # At(t, i)
    PROVE  At(s, i) = 0 /\ At(t, i) = 1
  <1>1. Agree(t, s, i - 1)
    BY DEF Agree
  <1>2. ~(At(t, i) < At(s, i))
    BY <1>1 DEF Precedes
  <1>3. At(s, i) \in Bit /\ At(t, i) \in Bit
    BY BitsAt
  <1> QED BY <1>2, <1>3 DEF Bit

\* A string that is not before one of ones begins with those.
LEMMA AfterOnes ==
    ASSUME NEW s \in Seq(Bit), NEW t \in Seq(Bit), \A i \in 1..Len(s) : s[i] = 1,
           ~Precedes(t, s)
    PROVE  IsPrefixOf(s, t)
  <1>1. SUFFICES ASSUME NEW k \in 1..Len(s), At(s, k) # At(t, k) PROVE FALSE
    BY AgreeingPrefix DEF Agree
  <1>2. k \in Positions /\ Len(s) \in Nat
    BY DEF Positions
  <1>3. PICK i \in Positions : At(s, i) # At(t, i) /\ Agree(s, t, i - 1)
    BY <1>1, <1>2, FirstDifference
  <1>4. i \in 1..Len(s)
    <2>1. ~(k \in 1..(i - 1))
      BY <1>1, <1>3 DEF Agree
    <2> QED BY <1>2, <2>1 DEF Positions
  <1>5. At(s, i) = 1
    BY <1>2, <1>4, BitsAt DEF Positions
  <1> QED BY <1>3, <1>5, OrderAt

Covers(o, n) ==
    \A t \in Seq(Bit) : Len(t) = n => \E i \in 1..Len(o) : IsPrefixOf(Used(o[i]), t)

\* If every string is in one of the intervals, they tile the range.
LEMMA CoversComplete ==
    ASSUME NEW o \in Seq(Identifiers), o # << >>, InIDOrder(o), NoPrefixes(o),
           NEW n \in Nat, \A i \in 1..Len(o) : Len(Used(o[i])) <= n, Covers(o, n)
    PROVE  CheckComplete(o)
  <1> DEFINE S(i) == Used(o[i])
             L == Len(o)
  <1>0. /\ L \in Nat /\ L >= 1
        /\ \A i \in 1..L : /\ o[i] \in Identifiers /\ S(i) \in Seq(Bit)
                           /\ o[i] = NewID(S(i)) /\ Len(S(i)) \in Nat
    <2>1. \A i \in 1..L : /\ o[i] \in Identifiers /\ S(i) \in Seq(Bit) /\ o[i] = NewID(S(i))
      BY IdentifierOfUsed
    <2> QED BY <2>1
  <1>1. /\ \A i, j \in 1..L : i < j => ~Precedes(S(j), S(i))
        /\ \A i, j \in 1..L : IsPrefixOf(S(i), S(j)) => i = j
        /\ \A i \in 1..L : Len(S(i)) <= n
        /\ \A t \in Seq(Bit) : Len(t) = n => \E i \in 1..L : IsPrefixOf(S(i), t)
        /\ \A i \in 1..L : \A bit : AllBits(o[i], bit) <=> \A j \in 1..Len(S(i)) : S(i)[j] = bit
    BY <1>0, AllBitsIs DEF InIDOrder, NoPrefixes, Covers, NotAfter
  <1>2. \A i, j \in 1..L : i <= j => ~Precedes(S(j), S(i))
    <2> SUFFICES ASSUME NEW i \in 1..L, NEW j \in 1..L, i <= j PROVE ~Precedes(S(j), S(i))
      OBVIOUS
    <2>1. CASE i < j
      BY <1>1, <2>1
    <2>2. CASE i = j
      BY <1>0, <2>2, PrecedesStrict
    <2> QED BY <1>0, <2>1, <2>2
  <1> HIDE DEF S, L
  <1>3. ASSUME NEW f, \A i \in 1..n : f[i] \in Bit
        PROVE  \E t \in Seq(Bit) : Len(t) = n /\ \A i \in 1..n : t[i] = f[i]
    <2>1. [i \in 1..n |-> f[i]] \in Seq(Bit) /\ Len([i \in 1..n |-> f[i]]) = n
      BY <1>3
    <2> QED BY <2>1
  <1>4. AllBits(o[1], 0)
    <2>1. PICK t \in Seq(Bit) : Len(t) = n /\ \A i \in 1..n : t[i] = 0
      <3> DEFINE f == [i \in 1..n |-> 0]
      <3>1. \A i \in 1..n : f[i] \in Bit /\ f[i] = 0
        BY DEF Bit
      <3> HIDE DEF f
      <3> QED BY <1>3, <3>1
    <2>2. PICK j \in 1..L : IsPrefixOf(S(j), t)
      BY <1>1, <2>1
    <2>3. \A i \in Positions : At(S(j), i) = 0
      <3>1. Len(S(j)) <= n /\ \A i \in 1..Len(S(j)) : S(j)[i] = t[i] /\ i \in 1..n
        BY <1>0, <1>1, <2>1, <2>2, PrefixIs
      <3> QED BY <2>1, <3>1 DEF At, Positions
    <2>4. 1 \in 1..L /\ 1 <= j
      BY <1>0
    <2>5. ~Precedes(S(j), S(1))
      BY <1>2, <2>4
    <2>6. SUFFICES ASSUME NEW k \in 1..Len(S(1)), S(1)[k] # 0 PROVE FALSE
      BY <1>1, <2>4
    <2>7. k \in Positions /\ At(S(1), k) # At(S(j), k)
      BY <1>0, <2>3, <2>4, <2>6 DEF At, Positions
    <2>8. PICK i \in Positions : At(S(1), i) # At(S(j), i) /\ Agree(S(1), S(j), i - 1)
      BY <1>0, <2>4, <2>7, FirstDifference
    <2>9. At(S(j), i) = 1
      BY <1>0, <2>4, <2>5, <2>8, OrderAt
    <2> QED BY <2>3, <2>9
  <1>5. AllBits(o[L], 1)
    <2>1. PICK t \in Seq(Bit) : Len(t) = n /\ \A i \in 1..n : t[i] = 1
      <3> DEFINE f == [i \in 1..n |-> 1]
      <3>1. \A i \in 1..n : f[i] \in Bit /\ f[i] = 1
        BY DEF Bit
      <3> HIDE DEF f
      <3> QED BY <1>3, <3>1
    <2>2. PICK j \in 1..L : IsPrefixOf(S(j), t)
      BY <1>1, <2>1
    <2>3. \A i \in 1..Len(S(j)) : S(j)[i] = 1
      <3>1. Len(S(j)) <= n /\ \A i \in 1..Len(S(j)) : S(j)[i] = t[i] /\ i \in 1..n
        BY <1>0, <1>1, <2>1, <2>2, PrefixIs
      <3> QED BY <2>1, <3>1
    <2>4. L \in 1..L /\ j <= L
      BY <1>0
    <2>5. IsPrefixOf(S(j), S(L))
      BY <1>0, <1>2, <2>3, <2>4, AfterOnes
    <2>6. j = L
      BY <1>1, <2>4, <2>5
    <2> QED BY <1>1, <2>3, <2>4, <2>6
  <1>6. ASSUME NEW i \in 2..L
        PROVE  /\ ~AllBits(o[i - 1], 1)
               /\ EqualPadded(ShardIDEnd(o[i - 1]), o[i].bits)
    <2> DEFINE a == S(i - 1)
               b == S(i)
    <2>1. i \in 1..L /\ i - 1 \in 1..L /\ i - 1 < i /\ i - 1 # i
      BY <1>0
    <2>2. /\ a \in Seq(Bit) /\ b \in Seq(Bit) /\ Len(a) \in Nat /\ Len(b) \in Nat
          /\ o[i - 1] = NewID(a) /\ o[i] = NewID(b) /\ Len(a) <= n /\ Len(b) <= n
          /\ ~Precedes(b, a) /\ ~IsPrefixOf(a, b)
          /\ AllBits(o[i - 1], 1) <=> \A j \in 1..Len(a) : a[j] = 1
      BY <1>0, <1>1, <2>1
    <2> HIDE DEF a, b
    <2>3. ~\A j \in 1..Len(a) : a[j] = 1
      BY <2>2, AfterOnes
    <2>4. PICK k \in 1..Len(a) : a[k] = 0
      <3>1. \A j \in 1..Len(a) : a[j] \in Bit
        BY <2>2
      <3> QED BY <2>3, <3>1 DEF Bit
    <2>5. PICK z \in k..Len(a) : IsLastZero(a, z)
      BY <2>2, <2>4, LastZero
    <2>6. /\ z \in 1..Len(a) /\ z \in Positions /\ z \in Nat /\ a[z] = 0
          /\ \A j \in (z + 1)..Len(a) : a[j] = 1
          /\ At(a, z) = 0
      BY <2>2, <2>5 DEF IsLastZero, Positions, At
    <2> DEFINE e == [j \in 1..n |-> NextBit(a, z, j)]
    <2>7. \A j \in Positions : NextBit(a, z, j) \in Bit
      BY <2>2, BitsAt DEF NextBit, Bit
    <2>8. \A j \in 1..n : e[j] \in Bit /\ e[j] = NextBit(a, z, j)
      BY <2>7 DEF Positions
    <2> HIDE DEF e
    <2>9. PICK t \in Seq(Bit) : Len(t) = n /\ \A j \in 1..n : t[j] = e[j]
      BY <1>3, <2>8
    <2>10. ASSUME NEW j \in Positions PROVE At(t, j) = NextBit(a, z, j)
      <3>1. CASE j <= n
        BY <2>8, <2>9, <3>1 DEF At, Positions
      <3>2. CASE j > n
        BY <2>2, <2>6, <2>9, <3>2 DEF At, Positions, NextBit
      <3> QED BY <3>1, <3>2 DEF Positions
    <2>11. PICK j \in 1..L : IsPrefixOf(S(j), t)
      BY <1>1, <2>9
    <2> DEFINE c == S(j)
    <2>12. /\ c \in Seq(Bit) /\ Len(c) \in Nat /\ Len(c) <= n /\ j \in Nat
           /\ Agree(c, t, Len(c)) /\ ~Precedes(t, c)
      BY <1>0, <1>1, <2>9, <2>11, PrefixIs, PrefixNotAfter
    <2>13. ASSUME j < i PROVE FALSE
      <3>1. ~Precedes(a, c)
        <4>1. j <= i - 1
          BY <1>0, <2>12, <2>13
        <4> QED BY <1>2, <2>1, <4>1 DEF a
      <3>2. CASE z <= Len(c)
        <4>1. z \in 1..Len(c) /\ \A m \in 1..(z - 1) : m \in 1..Len(c) /\ m \in Positions
          BY <2>6, <2>12, <3>2 DEF Positions
        <4>2. At(c, z) = 1
          BY <2>6, <2>10, <2>12, <4>1 DEF Agree, NextBit
        <4>3. Agree(c, a, z - 1)
          <5> SUFFICES ASSUME NEW m \in 1..(z - 1) PROVE At(c, m) = At(a, m)
            BY DEF Agree
          <5>1. At(c, m) = At(t, m) /\ At(t, m) = NextBit(a, z, m)
            BY <2>10, <2>12, <4>1 DEF Agree
          <5>2. m < z
            BY <2>6
          <5> QED BY <5>1, <5>2 DEF NextBit
        <4> QED BY <2>2, <2>6, <2>12, <3>1, <4>2, <4>3, OrderAt
      <3>3. CASE Len(c) < z
        <4>1. Agree(c, a, Len(c)) /\ Len(c) < Len(a)
          <5> SUFFICES ASSUME NEW m \in 1..Len(c) PROVE At(c, m) = At(a, m)
            BY <2>2, <2>6, <2>12, <3>3 DEF Agree
          <5>1. At(c, m) = At(t, m) /\ At(t, m) = NextBit(a, z, m)
            BY <2>10, <2>12 DEF Agree, Positions
          <5>2. m < z
            BY <2>6, <2>12, <3>3
          <5> QED BY <5>1, <5>2 DEF NextBit
        <4>2. IsPrefixOf(c, a)
          BY <2>2, <2>12, <4>1, PrefixIs
        <4>3. j = i - 1
          BY <1>1, <2>1, <4>2 DEF a
        <4> QED BY <2>2, <2>12, <4>1, <4>3 DEF a
      <3> QED BY <2>6, <2>12, <3>2, <3>3
    <2>14. ~Precedes(t, b)
      <3>1. ~Precedes(c, b)
        <4>1. i <= j
          BY <2>12, <2>13, <2>1
        <4> QED BY <1>2, <2>1, <4>1 DEF b
      <3> HIDE DEF c
      <3>2. t = c \/ Precedes(c, t)
        BY <2>12, PrecedesTotal
      <3>3. b = c \/ Precedes(b, c)
        BY <2>2, <2>12, <3>1, PrecedesTotal
      <3>4. CASE Precedes(t, b)
        <4>1. Precedes(t, c)
          BY <2>2, <2>9, <2>12, <3>3, <3>4, PrecedesTransitive
        <4> QED BY <2>12, <4>1
      <3> QED BY <3>4
    <2> HIDE DEF c
    <2>15. SUFFICES ASSUME NEW m0 \in Positions, At(b, m0) # NextBit(a, z, m0) PROVE FALSE
      <3>1. EqualPadded(ShardIDEnd(NewID(a)), NewID(b).bits)
        BY <2>2, <2>5, <2>15, EndIs
      <3> QED BY <2>2, <2>3, <3>1
    <2>16. PICK m \in Positions : At(b, m) # At(t, m) /\ Agree(b, t, m - 1)
      BY <2>2, <2>10, <2>15, FirstDifference
    <2>17. At(b, m) = 0 /\ At(t, m) = 1
      BY <2>2, <2>14, <2>16, OrderAt
    <2>18. m <= z /\ m \in Nat /\ m >= 1
      BY <2>6, <2>10, <2>17 DEF NextBit, Positions
    <2>19. ASSUME NEW x \in 1..(m - 1) PROVE At(b, x) = At(a, x)
      <3>1. x \in Positions /\ x < z
        BY <2>6, <2>18 DEF Positions
      <3>2. At(b, x) = At(t, x) /\ At(t, x) = NextBit(a, z, x)
        BY <2>10, <2>16, <3>1 DEF Agree
      <3> QED BY <3>1, <3>2 DEF NextBit
    <2>20. Agree(a, b, m - 1)
      BY <2>19 DEF Agree
    <2>21. CASE m < z
      <3>1. At(a, m) = 1
        BY <2>10, <2>17, <2>21 DEF NextBit
      <3>2. At(a, m) # At(b, m)
        BY <2>17, <3>1
      <3>3. At(a, m) = 0
        BY ONLY <2>2, <2>20, <3>2, OrderAt, m \in Positions
      <3> QED BY <3>1, <3>3
    <2>22. CASE m = z
      <3>1. SUFFICES ASSUME NEW x0 \in 1..Len(a), At(a, x0) # At(b, x0) PROVE FALSE
        BY <2>2, AgreeingPrefix DEF Agree
      <3>2. x0 \in Positions
        BY DEF Positions
      <3>3. PICK x \in Positions : At(a, x) # At(b, x) /\ Agree(a, b, x - 1)
        BY <2>2, <3>1, <3>2, FirstDifference
      <3>4. x <= x0
        <4>1. ~(x0 \in 1..(x - 1))
          BY <3>1, <3>3 DEF Agree
        <4> QED BY <2>2, <4>1 DEF Positions
      <3>5. At(a, x) = 0
        BY <2>2, <3>3, OrderAt
      <3>6. x <= z
        BY <2>2, <2>6, <3>4, <3>5 DEF At, Positions
      <3>7. CASE x < z
        <4>1. x \in 1..(m - 1)
          BY <2>22, <3>7, <2>6 DEF Positions
        <4> QED BY <2>19, <3>3, <4>1
      <3>8. CASE x = z
        BY <2>17, <2>22, <3>3, <3>5, <3>8
      <3> QED BY <2>6, <3>6, <3>7, <3>8 DEF Positions
    <2> QED BY <2>6, <2>18, <2>21, <2>22
  <1> QED BY <1>4, <1>5, <1>6 DEF CheckComplete, L
===============================================================================

------------------------------- MODULE ShardID --------------------------------
(***************************************************************************)
(* Shard identifiers and sharding schemes (types/sharding.go,              *)
(* types/bitstring.go).                                                    *)
(*                                                                         *)
(* A shard identifier is a bit string in bytes: a sequence of whole bytes, *)
(* given here as its bits, and the number of bits in use; the unused bits  *)
(* of the last byte are zero.  ByteBits is 8 in the code.                  *)
(***************************************************************************)
EXTENDS Integers, Sequences, FiniteSets, TLC

CONSTANT ByteBits

ASSUME ByteAssumption == ByteBits \in Nat \ {0}

Bit == {0, 1}
Zeros(n) == [i \in 1..n |-> 0]

\* Whole bytes that hold n bits.
ByteLength(n) == ((n + ByteBits - 1) \div ByteBits) * ByteBits
Padded(bits) == bits \o Zeros(ByteLength(Len(bits)) - Len(bits))

\* The identifier of a bit string, and the bits of it that are in use.
NewID(bits) == [bits |-> Padded(bits), length |-> Len(bits)]
Used(id) == SubSeq(id.bits, 1, id.length)
EmptyID == NewID(<< >>)

-------------------------------------------------------------------------------
(* Encoding: an end marker follows the bits in use. *)

\* Mutant: a full last byte gets no byte for the end marker.
EncodeBitstring_NoExtraByte(id) ==
    IF id.length % ByteBits = 0 THEN id.bits ELSE Padded(Append(Used(id), 1))

EncodeBitstring(id) == Padded(Append(Used(id), 1))

Key(id) == EncodeBitstring(id)

\* The last 1 of the last byte is the end marker; -1: the encoding is invalid.
TrailingMark(data) ==
    LET ones == {i \in (Len(data) - ByteBits + 1)..Len(data) : data[i] = 1}
    IN  IF data = << >> \/ ones = {} THEN -1
        ELSE CHOOSE i \in ones : \A j \in ones : j <= i

DecodeBitstring(data) == NewID(SubSeq(data, 1, TrailingMark(data) - 1))

-------------------------------------------------------------------------------
(* One bit more. *)

Split(id) ==
    IF id.length % ByteBits = 0
    THEN <<[bits |-> id.bits \o Zeros(ByteBits), length |-> id.length + 1],
           [bits |-> id.bits \o <<1>> \o Zeros(ByteBits - 1), length |-> id.length + 1]>>
    ELSE <<[bits |-> id.bits, length |-> id.length + 1],
           [bits |-> [id.bits EXCEPT ![id.length + 1] = 1], length |-> id.length + 1]>>

\* Comparator()(b): b, masked to the length of the identifier, is its bits.
Matches(id, b) ==
    \A i \in 1..Len(id.bits) : id.bits[i] = IF i <= id.length THEN b[i] ELSE 0

-------------------------------------------------------------------------------
(* Order and validity of schemes. *)

\* bytes.Compare(a, b) < 0
BytesLess(a, b) ==
    \/ \E i \in 1..Len(a) : /\ i <= Len(b) /\ a[i] < b[i]
                            /\ \A j \in 1..(i - 1) : a[j] = b[j]
    \/ /\ Len(a) < Len(b)
       /\ a = SubSeq(b, 1, Len(a))

CompareShardIDs(a, b) == BytesLess(a.bits, b.bits) \/ (a.bits = b.bits /\ a.length < b.length)

\* The places of the identifiers in the sorted list: equal ones stay in order.
Places(sh) ==
    [i \in DOMAIN sh |->
        Cardinality({j \in DOMAIN sh : IF j <= i THEN ~CompareShardIDs(sh[i], sh[j])
                                       ELSE CompareShardIDs(sh[j], sh[i])})]

AlreadySorted(sh) == \A i \in 2..Len(sh) : ~CompareShardIDs(sh[i], sh[i - 1])

\* The list, or a sorted copy of it.
SortedIDs(sh) ==
    LET place == Places(sh)
    IN  IF AlreadySorted(sh) THEN sh
        ELSE [k \in DOMAIN sh |-> sh[CHOOSE i \in DOMAIN sh : place[i] = k]]

AllBits(id, bit) == \A i \in 1..id.length : id.bits[i] = bit

\* id + 1 in as many bits: the last 0 becomes 1 and the ones after it 0.
ShardIDEnd(id) ==
    LET zeros == {i \in 1..id.length : id.bits[i] = 0}
        k == CHOOSE i \in zeros : \A j \in zeros : j <= i
    IN  [i \in 1..Len(id.bits) |-> CASE i < k -> id.bits[i]
                                     [] i = k -> 1
                                     [] i > k -> 0]

\* Equal when the shorter one is padded with zero bytes.
EqualPadded(a, b) ==
    \A i \in 1..(IF Len(a) > Len(b) THEN Len(a) ELSE Len(b)) :
        (IF i <= Len(a) THEN a[i] ELSE 0) = (IF i <= Len(b) THEN b[i] ELSE 0)

PrefixFree(ordered) ==
    \A i \in 2..Len(ordered) :
        ~(ordered[i - 1].length <= ordered[i].length
          /\ Matches(ordered[i - 1], ordered[i].bits))

\* Mutant: nothing is required of the last identifier.
CheckComplete_OpenEnd(ordered) ==
    ordered # << >> =>
      /\ AllBits(ordered[1], 0)
      /\ \A i \in 2..Len(ordered) :
           /\ ~AllBits(ordered[i - 1], 1)
           /\ EqualPadded(ShardIDEnd(ordered[i - 1]), ordered[i].bits)

\* The intervals of the identifiers tile the whole range.
CheckComplete(ordered) ==
    ordered # << >> =>
      /\ AllBits(ordered[1], 0)
      /\ \A i \in 2..Len(ordered) :
           /\ ~AllBits(ordered[i - 1], 1)
           /\ EqualPadded(ShardIDEnd(ordered[i - 1]), ordered[i].bits)
      /\ AllBits(ordered[Len(ordered)], 1)

\* ShardingScheme.IsValid, sortedValid.
IsValidScheme(sh) ==
    /\ Len(sh) # 1
    /\ \A i \in 1..Len(sh) : sh[i].length # 0
    /\ LET ordered == SortedIDs(sh)
       IN  PrefixFree(ordered) /\ CheckComplete(ordered)

\* The identifiers of a scheme; the empty scheme denotes a single shard.
All(sh) == IF sh = << >> THEN {EmptyID} ELSE {sh[i] : i \in DOMAIN sh}

\* The bit string s begins the bit string t.
IsPrefixOf(s, t) == Len(s) <= Len(t) /\ SubSeq(t, 1, Len(s)) = s
===============================================================================

-------------------------------- MODULE UnitID --------------------------------
(***************************************************************************)
(* Unit identifiers of a partition (types/partition_description.go,        *)
(* types/identifiers.go): a part whose first bits are the shard, followed  *)
(* by the type of the unit.                                                *)
(*                                                                         *)
(* An identifier is whole bytes, given as its bits.  A partition           *)
(* description is reduced to [typeBits, unitBits]: TypeIDLen, UnitIDLen.   *)
(***************************************************************************)
EXTENDS ShardID

CONSTANTS MinUnitBits,  \* 64 in the code
          MaxUnitBits   \* 512 in the code

\* The bits of a uint32.
TypeSize == 4 * ByteBits

\* ExtractUnitType reads four bytes of any identifier.
ASSUME UnitIDAssumption ==
    /\ MinUnitBits \in Nat /\ MaxUnitBits \in Nat
    /\ MinUnitBits >= TypeSize /\ MaxUnitBits >= MinUnitBits

\* The powers of two.
TwoTo(n) ==
    LET power[i \in 0..n] == IF i = 0 THEN 1 ELSE 2 * power[i - 1]
    IN  power[n]

\* PartitionDescriptionRecord.IsValid, as far as identifiers depend on it.
IsValidPDR(pdr, shard) ==
    /\ pdr.unitBits > shard.length
    /\ pdr.typeBits \in 0..TypeSize
    /\ pdr.typeBits % ByteBits = 0
    /\ pdr.unitBits \in MinUnitBits..MaxUnitBits
    /\ pdr.unitBits % ByteBits = 0

IDLength(pdr) == pdr.typeBits + pdr.unitBits

UnitIDValidator(pdr, shard, id) ==
    Len(id) = ByteLength(IDLength(pdr)) /\ Matches(shard, id)

\* UnitID.Compare(a, b) = -1
Less(a, b) == BytesLess(a, b)

\* Mutant: the bits of the shard in its last, partly used byte are not copied.
ComposeUnitID_WholeBytes(pdr, shard, type, random) ==
    IF type >= TwoTo(pdr.typeBits) THEN << >>
    ELSE [i \in 1..IDLength(pdr) |->
            CASE i > pdr.unitBits -> (type \div TwoTo(IDLength(pdr) - i)) % 2
              [] i <= (shard.length \div ByteBits) * ByteBits -> shard.bits[i]
              [] OTHER -> random[i]]

\* << >> is the error: the type does not fit.
ComposeUnitID(pdr, shard, type, random) ==
    IF type >= TwoTo(pdr.typeBits) THEN << >>
    ELSE [i \in 1..IDLength(pdr) |->
            CASE i > pdr.unitBits -> (type \div TwoTo(IDLength(pdr) - i)) % 2
              [] i <= shard.length -> shard.bits[i]
              [] OTHER -> random[i]]

Number(bits) ==
    LET n[i \in 0..Len(bits)] == IF i = 0 THEN 0 ELSE 2 * n[i - 1] + bits[i]
    IN  n[Len(bits)]

\* -1 is the error.
ExtractUnitType(pdr, id) ==
    IF pdr.typeBits > TypeSize \/ Len(id) # IDLength(pdr) THEN -1
    ELSE Number(SubSeq(id, Len(id) - pdr.typeBits + 1, Len(id)))
===============================================================================

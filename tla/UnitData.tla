------------------------------- MODULE UnitData -------------------------------
(***************************************************************************)
(* The data of units in memory: bills, fee credit records, validator       *)
(* assignments, and tokens and their types (the unit_data_types.go of      *)
(* txsystem/money, fc, orchestration and tokens).                          *)
(*                                                                         *)
(* A unit is [kind, version, slices, scalars].  Its slices are addresses   *)
(* of the heap, or Nil; the icon of a token type counts as one.  An        *)
(* address is <<allocation, field>>.  Strings cannot be changed in place   *)
(* and are scalars.  A scalar is zero or has been set.                     *)
(***************************************************************************)
EXTENDS Naturals

CONSTANT Nil

\* The fields of each type of unit data, apart from the version.
BillData == {"value", "ownerPredicate", "counter"}
FeeCreditRecord == {"balance", "ownerPredicate", "counter", "minLifetime"}
VarData == {"epochNumber"}
FungibleTokenTypeData ==
    {"symbol", "name", "icon", "parentTypeID", "decimalPlaces", "subTypeCreationPredicate",
     "tokenMintingPredicate", "tokenTypeOwnerPredicate"}
NonFungibleTokenTypeData ==
    {"symbol", "name", "icon", "parentTypeID", "subTypeCreationPredicate",
     "tokenMintingPredicate", "tokenTypeOwnerPredicate", "dataUpdatePredicate"}
FungibleTokenData == {"typeID", "value", "ownerPredicate", "counter", "minLifetime"}
NonFungibleTokenData ==
    {"typeID", "name", "uri", "data", "ownerPredicate", "dataUpdatePredicate", "counter"}

Fields ==
    [bill |-> BillData, feeCredit |-> FeeCreditRecord, var |-> VarData,
     fungibleType |-> FungibleTokenTypeData, nonFungibleType |-> NonFungibleTokenTypeData,
     fungible |-> FungibleTokenData, nonFungible |-> NonFungibleTokenData]

Kinds == DOMAIN Fields

\* Slices that can be written in place; all other fields are scalars.
SliceFields ==
    {"ownerPredicate", "icon", "parentTypeID", "subTypeCreationPredicate",
     "tokenMintingPredicate", "tokenTypeOwnerPredicate", "dataUpdatePredicate",
     "typeID", "data"}

\* Nil is neither what an address holds nor an address.
ASSUME NilAssumption == Nil \notin Nat /\ Nil \notin Nat \X SliceFields

SlicesOf(kind) == Fields[kind] \cap SliceFields
Scalars(kind) == Fields[kind] \ SliceFields

\* The fields that the Copy of each type lists: all but the version.
CopiedBillData == {"value", "ownerPredicate", "counter"}
CopiedFeeCreditRecord == {"balance", "ownerPredicate", "counter", "minLifetime"}
CopiedVarData == {"epochNumber"}
CopiedFungibleTokenTypeData ==
    {"symbol", "name", "icon", "parentTypeID", "decimalPlaces", "subTypeCreationPredicate",
     "tokenMintingPredicate", "tokenTypeOwnerPredicate"}
CopiedNonFungibleTokenTypeData ==
    {"symbol", "name", "icon", "parentTypeID", "subTypeCreationPredicate",
     "tokenMintingPredicate", "tokenTypeOwnerPredicate", "dataUpdatePredicate"}
CopiedFungibleTokenData == {"typeID", "value", "ownerPredicate", "counter", "minLifetime"}
CopiedNonFungibleTokenData ==
    {"typeID", "name", "uri", "data", "ownerPredicate", "dataUpdatePredicate", "counter"}

CopiedFields ==
    [bill |-> CopiedBillData, feeCredit |-> CopiedFeeCreditRecord, var |-> CopiedVarData,
     fungibleType |-> CopiedFungibleTokenTypeData,
     nonFungibleType |-> CopiedNonFungibleTokenTypeData,
     fungible |-> CopiedFungibleTokenData, nonFungible |-> CopiedNonFungibleTokenData]

-------------------------------------------------------------------------------
\* Allocation n of copies of the slices of the unit; nil stays nil.
Addresses(unit, n) ==
    [f \in DOMAIN unit.slices |-> IF unit.slices[f] = Nil THEN Nil ELSE <<n, f>>]

Allocate(heap, unit, n) ==
    LET clones == {<<n, f>> : f \in {g \in DOMAIN unit.slices : unit.slices[g] # Nil}}
    IN  [a \in clones \cup DOMAIN heap |->
            IF a \in clones THEN heap[unit.slices[a[2]]] ELSE heap[a]]

\* NewBillData and the other constructors: the slices are those of the
\* attributes, of allocation n, and the counter is zero.
NewUnitData(kind, n, present) ==
    [kind |-> kind,
     version |-> 1,
     slices |-> [f \in SlicesOf(kind) |-> IF f \in present THEN <<n, f>> ELSE Nil],
     scalars |-> [f \in Scalars(kind) |-> IF f = "counter" THEN 0 ELSE 1]]

\* Mutant: the copy shares the predicates.
Copy_Shallow(unit, n) == [unit EXCEPT !.version = 0]

\* Copy, with allocation n for the clones.  The version is left zero.
Copy(unit, n) ==
    [kind |-> unit.kind,
     version |-> 0,
     slices |-> [f \in SlicesOf(unit.kind) |->
                   IF f \in CopiedFields[unit.kind] THEN Addresses(unit, n)[f] ELSE Nil],
     scalars |-> [f \in Scalars(unit.kind) |->
                    IF f \in CopiedFields[unit.kind] THEN unit.scalars[f] ELSE 0]]

GetUnitVersion(unit) == IF unit.version = 0 THEN 1 ELSE unit.version

\* MarshalCBOR: the fields with the contents of the slices.
MarshalUnit(unit, heap) ==
    [kind |-> unit.kind,
     version |-> GetUnitVersion(unit),
     slices |-> [f \in DOMAIN unit.slices |->
                   IF unit.slices[f] = Nil THEN Nil ELSE heap[unit.slices[f]]],
     scalars |-> unit.scalars]

\* Write: the hash is that of the encoding.
HashUnit(unit, heap) == MarshalUnit(unit, heap)

\* UnmarshalCBOR: a unit with the encoded version in slices of its own.
UnmarshalUnit(bytes, n) ==
    [bytes EXCEPT !.slices = [f \in DOMAIN @ |-> IF @[f] = Nil THEN Nil ELSE <<n, f>>]]

Contents(bytes, n) ==
    [a \in {<<n, f>> : f \in {g \in DOMAIN bytes.slices : bytes.slices[g] # Nil}} |->
        bytes.slices[a[2]]]

SummaryValueInput(unit) == IF unit.kind = "bill" THEN unit.scalars["value"] ELSE 0
===============================================================================

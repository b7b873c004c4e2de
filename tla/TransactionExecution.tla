------------------------- MODULE TransactionExecution -------------------------
(***************************************************************************)
(* A node executes transactions on one unit: it works on a copy of the     *)
(* unit, keeps the states of the round with their hashes, and writes       *)
(* records with server metadata (types/tx_record.go, unit_data_types.go).  *)
(* The rules of the node are external; the copies, the encodings, the      *)
(* metadata and the records are this repository's.                         *)
(***************************************************************************)
EXTENDS UnitData, Sequences, SequencesExt, Functions

CONSTANTS MaxTransactions, \* bounds of the model: transactions executed,
          MaxEdits,        \* changes made to a copy
          Unit             \* the identifier of the unit

VARIABLES heap,    \* contents of addresses: how often they were written
          states,  \* states of the unit: [data, hash, value], the value being its share of the summary
          work,    \* the unit being changed, or Nil
          edits,   \* changes made to it
          meta,    \* ServerMetadata of the transaction, or Nil
          records, \* [meta, changed, error]: the metadata of a record and what happened
          fresh        \* number of the next allocation

execVars == <<heap, states, work, edits, meta, records, fresh>>

TxStatusFailed == 0
TxStatusSuccessful == 1
TxErrOutOfGas == 2

\* What execution ends with, if not well.
Errors == {"out_of_gas", "rejected"}

ServerMetadata ==
    [fee : {1}, targets : SUBSET {Unit}, errDetail : Errors \cup {Nil},
     status : {TxStatusFailed, TxStatusSuccessful, TxErrOutOfGas}]

ASSUME ExecAssumption == Nil \notin ServerMetadata /\ Nil \notin Errors

-------------------------------------------------------------------------------
\* Mutant: the units changed before the error stay listed.
SetError_KeepTargets(sm, error) ==
    [sm EXCEPT !.status = IF error = "out_of_gas" THEN TxErrOutOfGas ELSE TxStatusFailed,
               !.errDetail = error]

SetError(sm, error) ==
    [sm EXCEPT !.status = IF error = "out_of_gas" THEN TxErrOutOfGas ELSE TxStatusFailed,
               !.targets = {},
               !.errDetail = error]

\* A record encoded and decoded again: the error is not part of it.
DecodedMetadata(sm) == [sm EXCEPT !.errDetail = Nil]

TxStatus(sm) == IF sm = Nil THEN TxStatusFailed ELSE sm.status

IsSuccessful(sm) == TxStatus(sm) = TxStatusSuccessful

-------------------------------------------------------------------------------
ExecInit ==
    /\ heap = << >>
    /\ states = << >>
    /\ work = Nil
    /\ edits = 0
    /\ meta = Nil
    /\ records = << >>
    /\ fresh = 1

Started == [fee |-> 1, targets |-> {Unit}, status |-> TxStatusSuccessful, errDetail |-> Nil]

\* The first transaction makes the unit from the attributes decoded with the
\* order; optional ones may be nil.
Create ==
    /\ states = << >> /\ meta = Nil
    /\ Len(records) < MaxTransactions
    /\ \E kind \in Kinds : \E present \in {SlicesOf(kind), {}} :
        /\ work' = NewUnitData(kind, fresh, present)
        /\ heap' = [a \in {<<fresh, f>> : f \in present} |-> 0]
    /\ fresh' = fresh + 1
    /\ edits' = 0
    /\ meta' = Started
    /\ UNCHANGED <<states, records>>

\* A later one takes a copy of the latest state.
Begin ==
    /\ states # << >> /\ meta = Nil
    /\ Len(records) < MaxTransactions
    /\ work' = Copy(Last(states).data, fresh)
    /\ heap' = Allocate(heap, Last(states).data, fresh)
    /\ fresh' = fresh + 1
    /\ edits' = 0
    /\ meta' = Started
    /\ UNCHANGED <<states, records>>

\* It changes what it works on: a slice in place, a slice by another, a scalar.
WriteInPlace ==
    /\ \E a \in Range(work.slices) \ {Nil} : heap' = [heap EXCEPT ![a] = @ + 1]
    /\ UNCHANGED <<work, fresh>>

ReplaceSlice ==
    /\ \E f \in DOMAIN work.slices :
        /\ work' = [work EXCEPT !.slices[f] = <<fresh, f>>]
        /\ heap' = [a \in {<<fresh, f>>} \cup DOMAIN heap |->
                       IF a # <<fresh, f>> THEN heap[a]
                       ELSE IF work.slices[f] = Nil THEN 0 ELSE heap[work.slices[f]] + 1]
    /\ fresh' = fresh + 1

SetScalar ==
    /\ \E f \in DOMAIN work.scalars : work' = [work EXCEPT !.scalars[f] = @ + 1]
    /\ UNCHANGED <<heap, fresh>>

Edit ==
    /\ work # Nil
    /\ edits < MaxEdits
    /\ WriteInPlace \/ ReplaceSlice \/ SetScalar
    /\ edits' = edits + 1
    /\ UNCHANGED <<states, meta, records>>

Finish(sm, error) ==
    /\ meta' = Nil
    /\ work' = Nil
    /\ edits' = 0
    /\ records' = Append(records, [meta |-> sm, changed |-> states' # states, error |-> error])

Succeed ==
    /\ work # Nil
    /\ states' = Append(states, [data |-> work, hash |-> HashUnit(work, heap),
                                   value |-> SummaryValueInput(work)])
    /\ Finish(meta, Nil)
    /\ UNCHANGED <<heap, fresh>>

\* An error at any time, after the units have been listed: the copy is dropped.
Fail ==
    /\ work # Nil
    /\ \E error \in Errors : states' = states /\ Finish(SetError(meta, error), error)
    /\ UNCHANGED <<heap, fresh>>

\* The node stops, whatever it was doing, and starts from the encoded states
\* and records.
Restart ==
    /\ states # << >>
    /\ LET bytes == [i \in DOMAIN states |-> MarshalUnit(states[i].data, heap)]
       IN  /\ states' = [i \in DOMAIN states |->
                           [states[i] EXCEPT !.data = UnmarshalUnit(bytes[i], i)]]
           /\ heap' = [a \in UNION {DOMAIN Contents(bytes[i], i) : i \in DOMAIN bytes} |->
                         Contents(bytes[a[1]], a[1])[a]]
    /\ records' = [i \in DOMAIN records |-> [records[i] EXCEPT !.meta = DecodedMetadata(@)]]
    /\ fresh' = Len(states) + 1
    /\ work' = Nil /\ meta' = Nil /\ edits' = 0

ExecNext == Create \/ Begin \/ Edit \/ Succeed \/ Fail \/ Restart

ExecSpec == ExecInit /\ [][ExecNext]_execVars

-------------------------------------------------------------------------------
(***************************************************************************)
(* What is done to a copy of a unit, and starting again from encodings,    *)
(* never changes a state of the unit that was kept: its data always has    *)
(* the hash and the value it was committed with.  And a copy that nobody   *)
(* has changed has the hash of its original, though Copy leaves its        *)
(* version zero (the Copy and MarshalCBOR methods of unit data).           *)
(***************************************************************************)
StatesKept ==
    /\ \A s \in Range(states) :
         HashUnit(s.data, heap) = s.hash /\ SummaryValueInput(s.data) = s.value
    /\ states # << >> /\ work # Nil /\ edits = 0 =>
         HashUnit(work, heap) = Last(states).hash

(***************************************************************************)
(* A record tells what happened: it is successful and lists the unit if    *)
(* and only if a state was added, whenever the error occurred; the fee is  *)
(* charged in any case; and running out of gas is told apart from other    *)
(* errors also by those who only have the encoding (SetError, TxStatus).   *)
(***************************************************************************)
OutcomeTold ==
    \A r \in Range(records) :
        LET sm == DecodedMetadata(r.meta)
        IN  /\ IsSuccessful(sm) <=> r.changed
            /\ sm.targets = IF r.changed THEN {Unit} ELSE {}
            /\ TxStatus(sm) = TxErrOutOfGas <=> r.error = "out_of_gas"
            /\ sm.fee = 1
            /\ r.meta.errDetail \in {r.error, Nil}
===============================================================================

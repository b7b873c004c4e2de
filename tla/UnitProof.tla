------------------------------- MODULE UnitProof ------------------------------
(***************************************************************************)
(* What a UnitStateProof commits to (types/unit_proof.go): from the state  *)
(* of a unit to the root of the tree over the unit's log, and from there   *)
(* through the nodes of the state tree to the certified state hash and     *)
(* summary value.                                                          *)
(*                                                                         *)
(* A hash is the term it is computed from.  The hash of a log entry is     *)
(* that of two byte strings, as the inner nodes of the tree over the log   *)
(* are, and so is that of the previous ledger hash and a transaction: the  *)
(* terms do not tell them apart either.                                    *)
(***************************************************************************)
EXTENDS UnitID, MerkleTree

CONSTANT SummarySize    \* 2^64 in the code

(***************************************************************************)
(* What UnitState.Hash writes: the unit data and the transaction that has  *)
(* locked the unit as they are, with nothing that says where they begin    *)
(* and end, and between them the encoding of the deletion round, which     *)
(* state.round stands for.  Nothing is said of what the bytes are.         *)
(***************************************************************************)
Written(state) == state.data \o state.round \o state.lock

\* Mutant: the deletion round is left out.
StateHash_NoRound(state) == <<"state", state.data \o state.lock>>

\* UnitState.Hash.
StateHash(state) == <<"state", Written(state)>>

\* The ledger hash of a unit after a transaction, or without one.
LedgerHash(ledger, txr) == IF txr = NoHash THEN ledger ELSE NodeHash(ledger, txr)

\* z, the hash of the log entry.
EntryHash(ledger, txr, stateHash) == NodeHash(LedgerHash(ledger, txr), stateHash)

Sum(v, w, x) == (v + w + x) % SummarySize

\* Mutant: as in a tree without summary values.
computeHash_NoChildSummaries(id, logRoot, summary, left, right) ==
    <<"unit", id, logRoot, summary, left.hash, right.hash>>

computeHash(id, logRoot, summary, left, right) ==
    <<"unit", id, logRoot, summary, left, right>>

\* Mutant: the value of the sibling is not added.
CalculateStateTreeOutput_NoSiblingValue(p) ==
    LET logRoot == PlainTreeOutput(p.unitCert.path,
                                   EntryHash(p.ledger, p.unitCert.txr, p.unitCert.state))
        c == p.stateCert
        own == Sum(p.value, c.left.summary, c.right.summary)
        out[i \in 0..Len(c.path)] ==
          IF i = 0
          THEN [hash |-> computeHash(p.id, logRoot, own, c.left, c.right), summary |-> own]
          ELSE LET n == c.path[i]
                   below == out[i - 1]
                   v == Sum(n.value, below.summary, 0)
               IN  [hash |-> IF Less(p.id, n.id)
                             THEN computeHash(n.id, n.log, v, below, n.sibling)
                             ELSE computeHash(n.id, n.log, v, n.sibling, below),
                    summary |-> v]
    IN  out[Len(c.path)]

(***************************************************************************)
(* The hash and the summary that the proof leads to.  The side on which    *)
(* the path enters a node follows from the order of the identifiers.       *)
(***************************************************************************)
CalculateStateTreeOutput(p) ==
    LET logRoot == PlainTreeOutput(p.unitCert.path,
                                   EntryHash(p.ledger, p.unitCert.txr, p.unitCert.state))
        c == p.stateCert
        own == Sum(p.value, c.left.summary, c.right.summary)
        out[i \in 0..Len(c.path)] ==
          IF i = 0
          THEN [hash |-> computeHash(p.id, logRoot, own, c.left, c.right), summary |-> own]
          ELSE LET n == c.path[i]
                   below == out[i - 1]
                   v == Sum(n.value, below.summary, n.sibling.summary)
               IN  [hash |-> IF Less(p.id, n.id)
                             THEN computeHash(n.id, n.log, v, below, n.sibling)
                             ELSE computeHash(n.id, n.log, v, n.sibling, below),
                    summary |-> v]
    IN  out[Len(c.path)]

(***************************************************************************)
(* UnitStateProof.Verify of a proof without nil parts; valid is what the   *)
(* UnicityCertificateValidator says of its certificate.                    *)
(***************************************************************************)
Verify(p, state, valid) ==
    /\ p.id # << >>
    /\ valid
    /\ p.unitCert.state = StateHash(state)
    /\ CalculateStateTreeOutput(p) = [hash |-> p.uc.hash, summary |-> p.uc.summary]
===============================================================================

------------------------------ MODULE ShardState ------------------------------
(***************************************************************************)
(* The states of the shards of a partition, their certification and the    *)
(* proofs of their units.  The library holds the identifiers, the hashes   *)
(* and the verification (UnitID, UnitProof); the transactions, the state   *)
(* tree and the proofs are made by the nodes of the shards.                *)
(*                                                                         *)
(* A unit has a ledger hash, which covers its transactions of earlier      *)
(* rounds, and the log of this round: the state it has come with, and one  *)
(* entry for each transaction.  Its value is that of its latest state.     *)
(***************************************************************************)
EXTENDS UnitProof

CONSTANTS PDRs,         \* partition descriptions, valid or not
          Scheme,       \* the shards of the partition
          NodeShards,   \* those whose state is modelled
          Types,        \* unit types
          Randoms(_),   \* the random parts of unit identifiers
          Items,        \* the encodings of CBOR items: sequences of bytes
          Numbers,      \* those of numbers
          UnitStates,   \* [data, round, lock]: the states units may have
          Presented,    \* and those that a verifier may be shown
          Value(_),     \* SummaryValueInput of the data of a state
          MaxTxs,       \* bound on transactions
          MaxRounds     \* bound on certified states

\* The shards are those of a valid sharding scheme.
ASSUME SchemeAssumption ==
    /\ IsFiniteSet(Scheme)
    /\ \A id \in Scheme : Used(id) \in Seq(Bit) /\ id = NewID(Used(id))
    /\ \/ Scheme = {EmptyID}
       \/ \E sh \in [1..Cardinality(Scheme) -> Scheme] : IsValidScheme(sh) /\ Scheme = All(sh)
    /\ NodeShards \subseteq Scheme

\* Types are numbers, and there are enough random bits for the unit part.
ASSUME PartsAssumption ==
    /\ Types \subseteq Nat
    /\ \A p \in PDRs : \A random \in Randoms(p) : \A i \in 1..p.unitBits : random[i] \in Bit

IsList(s) == Len(s) \in Nat /\ s = [i \in 1..Len(s) |-> s[i]]

\* No encoding begins with another one.
ASSUME ItemsAssumption ==
    /\ Numbers \subseteq Items
    /\ \A x \in Items : IsList(x) /\ x # << >>
    /\ \A x, y \in Items : Len(x) <= Len(y) /\ (\A i \in 1..Len(x) : x[i] = y[i]) => x = y

(***************************************************************************)
(* A state as it is decoded from CBOR: its data and its lock are each one  *)
(* item, or nothing (RawCBOR.UnmarshalCBOR).  A state from JSON, or from a *)
(* caller, may have any bytes there (RawCBOR.UnmarshalText).               *)
(***************************************************************************)
Decoded(state) == state.data \in Items \cup {<< >>} /\ state.lock \in Items \cup {<< >>}

\* The data of the units of all transaction systems are arrays, and a unit is
\* locked by a tagged transaction order: neither is a number.
ASSUME StatesAssumption ==
    /\ \A state \in UnitStates \cup Presented :
         /\ state = [data |-> state.data, round |-> state.round, lock |-> state.lock]
         /\ IsList(state.data) /\ IsList(state.lock) /\ state.round \in Numbers
    /\ \A state \in UnitStates :
         Decoded(state) /\ state.data \notin Numbers /\ state.lock \notin Numbers

ASSUME ValueAssumption ==
    /\ SummarySize \in Nat \ {0}
    /\ \A state \in UnitStates : Value(state) \in 0..(SummarySize - 1)

VARIABLES pdr,              \* the description of the partition
          units,            \* units[s][id]: [ledger, log]
          executed,         \* the transactions so far
          certifiedStates   \* the states that were certified: [units, shape, uc]

stateVars == <<pdr, units, executed, certifiedStates>>

StateUCs == {c.uc : c \in certifiedStates}

StateInit ==
    /\ pdr \in {p \in PDRs : \A s \in Scheme : IsValidPDR(p, s)}
    /\ units = [s \in NodeShards |-> << >>]
    /\ executed = 0
    /\ certifiedStates = {}

\* The hash of the next transaction record.
Record == <<"tx", executed + 1>>

\* Transactions of rounds that are not certified any more make no difference.
WithinBounds == executed < MaxTxs /\ Cardinality(certifiedStates) < MaxRounds

WithUnit(us, id, unit) == [u \in DOMAIN us \cup {id} |-> IF u = id THEN unit ELSE us[u]]

\* A transaction makes a unit, of an identifier that was composed for some shard.
CreateUnit(s) ==
    /\ WithinBounds
    /\ \E sh \in Scheme, type \in Types, random \in Randoms(pdr), state \in UnitStates :
        LET id == ComposeUnitID(pdr, sh, type, random) IN
        /\ id # << >>
        /\ UnitIDValidator(pdr, s, id)
        /\ id \notin DOMAIN units[s]
        /\ units' = [units EXCEPT ![s] =
             WithUnit(@, id, [ledger |-> NoHash, log |-> <<[txr |-> Record, state |-> state]>>])]
    /\ executed' = executed + 1
    /\ UNCHANGED <<pdr, certifiedStates>>

\* A transaction changes a unit.
ExecuteUnit(s) ==
    /\ WithinBounds
    /\ \E id \in DOMAIN units[s], state \in UnitStates :
        units' = [units EXCEPT ![s][id].log = Append(@, [txr |-> Record, state |-> state])]
    /\ executed' = executed + 1
    /\ UNCHANGED <<pdr, certifiedStates>>

-------------------------------------------------------------------------------
\* The ledger hash of a unit before entry i of its log.
LedgerBefore(unit, i) ==
    LET l[k \in 1..i] == IF k = 1 THEN unit.ledger ELSE LedgerHash(l[k - 1], unit.log[k - 1].txr)
    IN  l[i]

LedgerAfter(unit, i) == LedgerHash(LedgerBefore(unit, i), unit.log[i].txr)

LatestState(unit) == unit.log[Len(unit.log)].state

LogHashes(unit) ==
    [i \in DOMAIN unit.log |->
       EntryHash(LedgerBefore(unit, i), unit.log[i].txr, StateHash(unit.log[i].state))]

(***************************************************************************)
(* The search tree of the units us: the node over each interval of the     *)
(* ordered identifiers.  Any of them may be the root of an interval: the   *)
(* last one, in a tree that is a chain, or the one in the middle.          *)
(***************************************************************************)
Ordered(us) ==
    CHOOSE ids \in [1..Cardinality(DOMAIN us) -> DOMAIN us] :
        \A i, j \in DOMAIN ids : i < j => Less(ids[i], ids[j])

Root(shape, lo, hi) == IF shape = "chain" THEN hi ELSE (lo + hi) \div 2

Shapes(us) == IF Cardinality(DOMAIN us) > 1 THEN {"chain", "balanced"} ELSE {"balanced"}

StateTree(us, shape) ==
    LET ids == Ordered(us)
        n == Len(ids)
        node[s \in (1..(n + 1)) \X (0..n)] ==
          LET lo == s[1]
              hi == s[2]
              r == Root(shape, lo, hi)
              unit == us[ids[r]]
              left == node[<<lo, r - 1>>]
              right == node[<<r + 1, hi>>]
              v == Sum(Value(LatestState(unit)), left.summary, right.summary)
          IN  IF lo > hi THEN [hash |-> NoHash, summary |-> 0]
              ELSE [hash |-> computeHash(ids[r], GetRootHash(LogHashes(unit)), v, left, right),
                    summary |-> v]
    IN  node

\* A step of a path: at the unit of an identifier, with the subtree next to it.
PathItem(us, id, sibling) ==
    [id |-> id, log |-> GetRootHash(LogHashes(us[id])), value |-> Value(LatestState(us[id])),
     sibling |-> sibling]

Extended(cert, item) == [cert EXCEPT !.path = Append(@, item)]

\* The certificate of the k-th unit: the nodes below it and those on the path.
StateTreeCert(us, shape, k) ==
    LET ids == Ordered(us)
        node == StateTree(us, shape)
        cert[s \in (1..k) \X (k..Len(ids))] ==
          LET lo == s[1]
              hi == s[2]
              r == Root(shape, lo, hi)
              left == node[<<lo, r - 1>>]
              right == node[<<r + 1, hi>>]
          IN  IF r = k THEN [left |-> left, right |-> right, path |-> << >>]
              ELSE IF k < r THEN Extended(cert[<<lo, r - 1>>], PathItem(us, ids[r], right))
              ELSE Extended(cert[<<r + 1, hi>>], PathItem(us, ids[r], left))
    IN  cert[<<1, Len(ids)>>]

\* The log that a unit starts the next round with.
Carried(unit) == [ledger |-> LedgerAfter(unit, Len(unit.log)),
                  log |-> <<[txr |-> NoHash, state |-> LatestState(unit)]>>]

NextRound(us) == [id \in DOMAIN us |-> Carried(us[id])]

\* The root chain certifies the state of a shard, and the next round starts.
CertifyState(s) ==
    /\ Cardinality(certifiedStates) < MaxRounds
    /\ units[s] # << >>
    /\ \E shape \in Shapes(units[s]) :
         LET us == units[s]
             root == StateTree(us, shape)[<<1, Cardinality(DOMAIN us)>>]
         IN  certifiedStates' = certifiedStates \cup
               {[units |-> us, shape |-> shape,
                 uc |-> [shard |-> s, hash |-> root.hash, summary |-> root.summary]]}
    /\ units' = [units EXCEPT ![s] = NextRound(@)]
    /\ UNCHANGED <<pdr, executed>>

StateNext == \E s \in NodeShards : CreateUnit(s) \/ ExecuteUnit(s) \/ CertifyState(s)

StateSpec == StateInit /\ [][StateNext]_stateVars

-------------------------------------------------------------------------------
\* The proof of the i-th entry in the log of unit id.
UnitStateProof(c, id, i) ==
    LET k == CHOOSE j \in DOMAIN Ordered(c.units) : Ordered(c.units)[j] = id
        unit == c.units[id]
    IN  [id |-> id, value |-> Value(LatestState(unit)), ledger |-> LedgerBefore(unit, i),
         unitCert |-> [txr |-> unit.log[i].txr, state |-> StateHash(unit.log[i].state),
                       path |-> GetMerklePath(LogHashes(unit), i)],
         stateCert |-> StateTreeCert(c.units, c.shape, k),
         uc |-> c.uc]

\* Verify under the configuration of shard s: the certificate is one of it.
StateVerifies(p, state, s) == Verify(p, state, p.uc.shard = s /\ p.uc \in StateUCs)

(***************************************************************************)
(* An identifier that is composed for a shard of the scheme is accepted in *)
(* this shard and in no other one, whatever its random part, and its type  *)
(* is read from it; it cannot be composed of a type that does not fit      *)
(* (ComposeUnitID, UnitIDValidator, Comparator, ExtractUnitType).          *)
(***************************************************************************)
ComposedIsValid ==
    \A sh \in Scheme, type \in Types, random \in Randoms(pdr) :
        LET id == ComposeUnitID(pdr, sh, type, random) IN
        IF type < TwoTo(pdr.typeBits)
        THEN /\ \A t \in Scheme : UnitIDValidator(pdr, t, id) <=> t = sh
             /\ ExtractUnitType(pdr, id) = type
        ELSE id = << >>

(***************************************************************************)
(* Every state that a unit had in a certified round can be proven, whether *)
(* it came from the round before or from a transaction, and wherever the   *)
(* unit is in the state tree (UnitStateProof.Verify).                      *)
(***************************************************************************)
StatesProvable ==
    \A c \in certifiedStates : \A id \in DOMAIN c.units : \A i \in DOMAIN c.units[id].log :
        StateVerifies(UnitStateProof(c, id, i), c.units[id].log[i].state, c.uc.shard)

Honest ==
    UNION {UNION {{UnitStateProof(c, id, i) : i \in DOMAIN c.units[id].log} :
                    id \in DOMAIN c.units} : c \in certifiedStates}

\* The proof with a value, the value being taken from the left subtree.
Moved(p, v) ==
    [p EXCEPT !.value = v,
              !.stateCert.left.summary = (@ + p.value + SummarySize - v) % SummarySize]

\* The proof with parts of another one.
Exchanged(p, q) ==
    {[p EXCEPT !.id = q.id],
     [p EXCEPT !.uc = q.uc],
     [p EXCEPT !.unitCert = q.unitCert],
     [p EXCEPT !.ledger = q.ledger],
     [p EXCEPT !.unitCert = q.unitCert, !.ledger = q.ledger],
     [p EXCEPT !.unitCert.txr = q.unitCert.txr],
     [p EXCEPT !.unitCert.path = q.unitCert.path],
     [p EXCEPT !.unitCert.state = q.unitCert.state],
     [p EXCEPT !.stateCert = q.stateCert],
     [p EXCEPT !.stateCert.path = q.stateCert.path],
     [p EXCEPT !.stateCert = q.stateCert, !.uc = q.uc]}

\* The log entry of the proof read as one without a transaction, and its
\* ledger hash read as a log entry.
Reread(p) ==
    {[p EXCEPT !.ledger = LedgerHash(p.ledger, p.unitCert.txr), !.unitCert.txr = NoHash],
     [p EXCEPT !.unitCert = [txr |-> NoHash, state |-> p.unitCert.txr,
                             path |-> <<[left |-> TRUE, hash |-> p.unitCert.state]>> \o @.path]]}

\* P holds of all proofs, as they may be put together from those of all
\* certified states.
ForAllProofs(P(_)) ==
    LET honest == Honest
        values == 0..(SummarySize - 1)
    IN  \A p \in honest :
          /\ \A x \in {[p EXCEPT !.value = v] : v \in values} : P(x)
          /\ \A x \in {Moved(p, v) : v \in values} : P(x)
          /\ \A x \in Reread(p) : P(x)
          /\ \A q \in honest : \A x \in Exchanged(p, q) : P(x)

\* What a proof says of the state it is verified with, own being the unit's: it
\* writes the same bytes, and it is the same if it was decoded from CBOR.
Tells(state, own) == Written(state) = Written(own) /\ (Decoded(state) => state = own)

(***************************************************************************)
(* A proof that verifies is of a unit of the certified state its           *)
(* certificate is for, of the shard the verifier asks for, and of a state  *)
(* the unit had in that round.  The entries of a log and the nodes above   *)
(* them are not mixed up, although both hash two byte strings.  Where data *)
(* ends and lock begins is not proven, as nothing in the hash delimits     *)
(* them: of a state that did not come from CBOR only all its bytes are     *)
(* known.  Once it is decoded from CBOR, the whole state is the unit's     *)
(* (Verify, UnitState.Hash, RawCBOR.UnmarshalCBOR).                        *)
(***************************************************************************)
StateProven ==
    ForAllProofs(LAMBDA p : \A state \in Presented, s \in NodeShards :
        StateVerifies(p, state, s) =>
          \E c \in certifiedStates : /\ c.uc = p.uc /\ c.uc.shard = s
                               /\ p.id \in DOMAIN c.units
                               /\ UnitIDValidator(pdr, s, p.id)
                               /\ \E i \in DOMAIN c.units[p.id].log :
                                    Tells(state, c.units[p.id].log[i].state))

(***************************************************************************)
(* The value of a proof that verifies is the one the unit has at the end   *)
(* of the round, although the summary values wrap around, and the ledger   *)
(* hash it leads to is that of the proven entry: the proof may leave the   *)
(* transaction out, but then its ledger hash covers it                     *)
(* (CalculateStateTreeOutput).                                             *)
(***************************************************************************)
ValueProven ==
    ForAllProofs(LAMBDA p : \A state \in Presented, s \in NodeShards :
        StateVerifies(p, state, s) =>
          \E c \in certifiedStates :
             /\ c.uc = p.uc
             /\ LET unit == c.units[p.id] IN
                /\ p.value = Value(LatestState(unit))
                /\ \E i \in DOMAIN unit.log :
                     /\ Tells(state, unit.log[i].state)
                     /\ LedgerHash(p.ledger, p.unitCert.txr) = LedgerAfter(unit, i))
===============================================================================

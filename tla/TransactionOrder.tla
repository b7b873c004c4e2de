--------------------------- MODULE TransactionOrder ---------------------------
(***************************************************************************)
(* Transaction orders and the proofs that authorise them                   *)
(* (types/tx_order.go).  A client makes orders and signs them, in any      *)
(* sequence of calls; whoever sees the signatures may put orders together  *)
(* from them; a node decodes an order and checks its proofs.               *)
(*                                                                         *)
(* An order is [version, payload, unlock, auth, fee].  The payload is all  *)
(* that is not a proof.  A proof is None or a signature [key, over], which *)
(* verifies for its key over the bytes it was made over; predicates and    *)
(* the wrapping of signatures in them are external.  A state unlock is     *)
(* None or <<kind, proof>>.  Bytes are the tuple that is encoded: its      *)
(* length is part of the encoding, the purpose of a signature is not.      *)
(***************************************************************************)
EXTENDS Naturals, FiniteSets

CONSTANTS Payloads,
          Keyrings,      \* functions from Purposes to keys; they may use one key for all
          MaxSignatures, \* bound of the model: signatures a client makes
          None

VARIABLES keys,   \* the keyring of the client
          order,  \* the order in the memory of the client, or None
          signed  \* the signatures made: [purpose, proof, of], of being the order then

orderVars == <<keys, order, signed>>

Purposes == {"unlock", "auth", "fee"}
Rollback == 0
Execute == 1

-------------------------------------------------------------------------------
StateLockProofSigBytes(t) == <<t.version, t.payload>>

\* Mutant: the state unlock is left out.
AuthProofSigBytes_NoUnlock(t) == <<t.version, t.payload>>

AuthProofSigBytes(t) == <<t.version, t.payload, t.unlock>>

\* Mutant: the order is signed with all of its fields.
FeeProofSigBytes_WholeOrder(t) == <<t.version, t.payload, t.unlock, t.auth, t.fee>>

FeeProofSigBytes(t) == <<t.version, t.payload, t.unlock, t.auth>>

SigBytes(purpose, t) ==
    CASE purpose = "unlock" -> StateLockProofSigBytes(t)
      [] purpose = "auth" -> AuthProofSigBytes(t)
      [] purpose = "fee" -> FeeProofSigBytes(t)

GetVersion(t) == IF t.version = 0 THEN 1 ELSE t.version

\* The order that is encoded; the one in memory keeps its version.
MarshalCBOR(t) == [t EXCEPT !.version = GetVersion(t)]

\* UnmarshalCBOR accepts the encoding b, which may well say version 0.
Decodable(b) == GetVersion(b) = 1

Hash(t) == MarshalCBOR(t)

AddStateUnlockProof(t, kind, proof) == [t EXCEPT !.unlock = <<kind, proof>>]
SetAuthProof(t, proof) == [t EXCEPT !.auth = proof]

-------------------------------------------------------------------------------
OrderInit ==
    /\ keys \in Keyrings
    /\ order = None
    /\ signed = {}

\* NewTransactionOrder, or a structure whose version is left zero, with its
\* payload.
NewTransactionOrder(version, payload) ==
    /\ order' = [version |-> version, payload |-> payload,
                 unlock |-> None, auth |-> None, fee |-> None]
    /\ UNCHANGED <<keys, signed>>

\* The payload is changed when proofs may have been made.
SetAttributes(payload) ==
    /\ order # None
    /\ order' = [order EXCEPT !.payload = payload]
    /\ UNCHANGED <<keys, signed>>

\* The client signs; there is no setter for the fee proof, whose field it writes.
Sign(purpose) ==
    LET proof == [key |-> keys[purpose], over |-> SigBytes(purpose, order)]
    IN  /\ order # None
        /\ \/ /\ purpose = "unlock"
              /\ \E kind \in {Rollback, Execute} :
                    order' = AddStateUnlockProof(order, kind, proof)
           \/ purpose = "auth" /\ order' = SetAuthProof(order, proof)
           \/ purpose = "fee" /\ order' = [order EXCEPT !.fee = proof]
        /\ signed' = signed \cup {[purpose |-> purpose, proof |-> proof, of |-> order]}
        /\ Cardinality(signed') <= MaxSignatures
        /\ UNCHANGED keys

OrderNext ==
    \/ \E version \in {0, 1}, p \in Payloads : NewTransactionOrder(version, p)
    \/ \E p \in Payloads : SetAttributes(p)
    \/ \E purpose \in Purposes : Sign(purpose)

OrderSpec == OrderInit /\ [][OrderNext]_orderVars

-------------------------------------------------------------------------------
Verifies(purpose, proof, t) ==
    proof = [key |-> keys[purpose], over |-> SigBytes(purpose, t)]

\* What a node checks of an order it has decoded.  The state unlock may be
\* missing, when the unit has no lock.
Authorised(t) ==
    /\ Decodable(t)
    /\ t.unlock # None => Verifies("unlock", t.unlock[2], t)
    /\ Verifies("auth", t.auth, t)
    /\ Verifies("fee", t.fee, t)

\* The orders that anyone can put together from the signatures.
Recombined ==
    LET proofs == {s.proof : s \in signed}
    IN  [version : {0, 1}, payload : Payloads,
         unlock : {None} \cup ({Rollback, Execute} \X proofs), auth : proofs, fee : proofs]

\* A signature of this purpose was made of an order that agrees in the fields.
Meant(purpose, t, fields) ==
    \E s \in signed :
        s.purpose = purpose /\ \A f \in fields : s.of[f] = t[f]

(***************************************************************************)
(* An order that a node finds authorised was meant as it is: its owner has *)
(* signed this payload and this unlock as an owner, its payer this order   *)
(* with this owner proof as a payer, and a lock's holder this payload as   *)
(* that, even when one key is used for all of it.  No proof moves to       *)
(* another order or purpose (AuthProofSigBytes, FeeProofSigBytes,          *)
(* StateLockProofSigBytes).                                                *)
(***************************************************************************)
AuthorisedIsMeant ==
    \A t \in Recombined : Authorised(t) =>
        /\ t.unlock # None => Meant("unlock", t, {"payload"})
        /\ Meant("auth", t, {"payload", "unlock"})
        /\ Meant("fee", t, {"payload", "unlock", "auth"})

\* Every proof of the order was made of what the order is now.
InOrder(t) ==
    LET Made(purpose, proof, fields) ==
          \E s \in signed :
              /\ s.purpose = purpose /\ s.proof = proof
              /\ \A f \in fields \cup {"version"} : s.of[f] = t[f]
    IN  /\ t.unlock # None => Made("unlock", t.unlock[2], {"payload"})
        /\ Made("auth", t.auth, {"payload", "unlock"})
        /\ Made("fee", t.fee, {"payload", "unlock", "auth"})

(***************************************************************************)
(* An order whose proofs were made in order, of what it is, verifies where *)
(* it was made.  It verifies at the node that decodes it, and in the       *)
(* record of a block, if and only if its version was set before: a zero is *)
(* signed as zero and encoded as one.  The hash stays the same either way  *)
(* (the SigBytes methods, MarshalCBOR, GetTransactionOrderV1).             *)
(***************************************************************************)
SentIsAuthorised ==
    order # None /\ InOrder(order) =>
        LET decoded == MarshalCBOR(order)
        IN  /\ Authorised(order)
            /\ Authorised(decoded) <=> order.version = 1
            /\ Decodable(decoded) /\ Hash(decoded) = Hash(order)
===============================================================================

-------------------------------- MODULE Block ---------------------------------
(***************************************************************************)
(* The blocks of shards and the inclusion proofs of their transactions     *)
(* (types/block.go, types/tx_proof.go, types/tx_record.go).                *)
(*                                                                         *)
(* A node of a shard puts a block together with a tentative certificate,   *)
(* calculates the block hash, gets the input record certified and has the  *)
(* certificate in its block.  Whoever holds the block may change its parts *)
(* at any time, and take them from other certified blocks.                 *)
(*                                                                         *)
(* A certificate verifies when the root chain has issued it (see           *)
(* Certification and UnicitySeal for what this rests on).  A transaction   *)
(* record is [order, status], of which only the partition its order names  *)
(* and the success are looked at.                                          *)
(***************************************************************************)
EXTENDS MerkleTree, Integers, Sequences, FiniteSets

CONSTANTS Shards,       \* [partition, shard]
          EmptyShard,   \* the shard of a partition that has only one
          TxLists,      \* lists of transaction records
          NilTxs,       \* the nil list, which is not the empty one
          States,       \* state hashes
          Proposers,    \* node identifiers
          NoProposer,   \* the empty identifier
          MaxBlocks,    \* bound on the certified blocks
          MaxChanges    \* bound on changes of a block

\* A list of transaction records is a sequence.
ASSUME TxListsAssumption ==
    /\ \A txs \in TxLists : Len(txs) \in Nat /\ txs = [i \in 1..Len(txs) |-> txs[i]]
    /\ NilTxs \notin TxLists \cup {<< >>}

VARIABLES block,      \* the block in hand
          submitted,  \* << >>, or the input record CalculateBlockHash returned for it
          content,    \* << >>, or the header and transactions it was calculated from
          certified,  \* the certified blocks
          state,      \* state[s]: the state hash of shard s that is certified
          changes     \* how often the block in hand was changed

vars == <<block, submitted, content, certified, state, changes>>

UCs == {b.uc : b \in certified}

-------------------------------------------------------------------------------
\* Header.IsValid.  No header in the model has version or partition zero.
HeaderIsValid(header) == header.proposer # NoProposer

\* InputRecord.IsValid: the state changes iff there is a block hash.
RecordIsValid(ir) == ir.prev = ir.hash <=> ir.block = NoHash

\* What the Transactions of a block may be, and the records in them.
Transactions == TxLists \cup {NilTxs}

Records(txs) == IF txs = NilTxs THEN << >> ELSE txs

Hashes(txs) == [i \in DOMAIN Records(txs) |-> LeafHash(Records(txs)[i])]

EvalMerklePath(path, record) == PlainTreeOutput(path, LeafHash(record))

\* Mutant: the header is left out.
BlockHash_NoHeader(header, txs, hash, prev) ==
    IF Records(txs) = << >> /\ prev = hash THEN NoHash
    ELSE <<"block", prev, hash, GetRootHash(Hashes(txs))>>

\* BlockHash, of a valid header: it looks at the number of records only, and
\* does not tell a nil list from an empty one.
BlockHash(header, txs, hash, prev) ==
    IF Records(txs) = << >> /\ prev = hash THEN NoHash
    ELSE <<"block", header, prev, hash, GetRootHash(Hashes(txs))>>

UCIsValid(uc, partition, shard) ==
    RecordIsValid(uc.ir) /\ uc.partition = partition /\ uc.shard = shard

\* Block.IsValid, without a shard configuration hash.
IsValid(b) ==
    /\ HeaderIsValid(b.header)
    /\ b.txs # NilTxs
    /\ UCIsValid(b.uc, b.header.partition, b.header.shard)
    /\ BlockHash(b.header, b.txs, b.uc.ir.hash, b.uc.ir.prev) = b.uc.ir.block

-------------------------------------------------------------------------------
NewTxRecordProof(b, i) ==
    [record |-> b.txs[i], header |-> b.header, chain |-> GetMerklePath(Hashes(b.txs), i), uc |-> b.uc]

\* UnicityCertificate.Verify.
UCVerify(uc, partition, shard) == UCIsValid(uc, partition, shard) /\ uc \in UCs

\* Mutant: the record's own hash is not followed to the block hash.
VerifyTxInclusion_UCOnly(p) == UCVerify(p.uc, p.record.order.partition, EmptyShard)

\* VerifyTxInclusion; the header stands for its hash.
VerifyTxInclusion(p) ==
    /\ UCVerify(p.uc, p.record.order.partition, EmptyShard)
    /\ <<"block", p.header, p.uc.ir.prev, p.uc.ir.hash, EvalMerklePath(p.chain, p.record)>>
         = p.uc.ir.block

VerifyTxProof(p) == VerifyTxInclusion(p) /\ p.record.status = "successful"

-------------------------------------------------------------------------------
Headers(s) == [partition : {s.partition}, shard : {s.shard}, proposer : Proposers]

\* A tentative certificate: of the state the shard has agreed on, without a
\* block hash.
Tentative(s, hash) ==
    [partition |-> s.partition, shard |-> s.shard,
     ir |-> [prev |-> state[s], hash |-> hash, block |-> NoHash,
             round |-> Cardinality(certified) + 1]]

NewBlocks ==
    UNION {[header : Headers(s), txs : Transactions, uc : {Tentative(s, h) : h \in States}] :
             s \in Shards}

Init ==
    /\ certified = {}
    /\ state \in [Shards -> States]
    /\ \A s, t \in Shards : state[s] = state[t]
    /\ block \in NewBlocks
    /\ submitted = << >>
    /\ content = << >>
    /\ changes = 0

\* Another block is started.
Propose ==
    /\ Cardinality(certified) < MaxBlocks
    /\ block' \in NewBlocks
    /\ submitted' = << >>
    /\ content' = << >>
    /\ changes' = 0
    /\ UNCHANGED <<certified, state>>

\* Mutant: the state hashes are swapped.
CalculateBlockHash_Swapped ==
    LET ir == block.uc.ir
        new == [ir EXCEPT !.block = BlockHash(block.header, block.txs, ir.prev, ir.hash)]
    IN  /\ HeaderIsValid(block.header)
        /\ block' = [block EXCEPT !.uc.ir = new]
        /\ submitted' = <<new>>
        /\ content' = <<[header |-> block.header, txs |-> block.txs]>>
        /\ UNCHANGED <<certified, state, changes>>

\* Updates the certificate in the block and returns its input record.
CalculateBlockHash ==
    LET ir == block.uc.ir
        new == [ir EXCEPT !.block = BlockHash(block.header, block.txs, ir.hash, ir.prev)]
    IN  /\ HeaderIsValid(block.header)
        /\ block' = [block EXCEPT !.uc.ir = new]
        /\ submitted' = <<new>>
        /\ content' = <<[header |-> block.header, txs |-> block.txs]>>
        /\ UNCHANGED <<certified, state, changes>>

\* The root chain certifies the record the shard has submitted, if it is valid
\* and extends the state it certified last, and the node puts the certificate
\* into its block.
Certify(s) ==
    /\ submitted # << >>
    /\ Cardinality(certified) < MaxBlocks
    /\ LET ir == submitted[1]
           uc == [partition |-> s.partition, shard |-> s.shard, ir |-> ir]
       IN  /\ s = [partition |-> content[1].header.partition, shard |-> content[1].header.shard]
           /\ RecordIsValid(ir)
           /\ ir.prev = state[s]
           /\ ir.round = Cardinality(certified) + 1
           /\ certified' = certified \cup {[header |-> content[1].header,
                                            txs |-> content[1].txs, uc |-> uc]}
           /\ state' = [state EXCEPT ![s] = ir.hash]
           /\ block' = [block EXCEPT !.uc = uc]
    /\ UNCHANGED <<submitted, content, changes>>

\* The holder of the block changes one of its parts.
ChangeBlock ==
    /\ changes < MaxChanges
    /\ \/ \E header \in UNION {Headers(s) : s \in Shards} :
            block' = [block EXCEPT !.header = header]
       \/ block' = [block EXCEPT !.header.proposer = NoProposer]
       \/ \E txs \in Transactions : block' = [block EXCEPT !.txs = txs]
       \/ \E uc \in UCs : block' = [block EXCEPT !.uc = uc]
    /\ changes' = changes + 1
    /\ UNCHANGED <<submitted, content, certified, state>>

Next == Propose \/ CalculateBlockHash \/ (\E s \in Shards : Certify(s)) \/ ChangeBlock

Spec == Init /\ [][Next]_vars

-------------------------------------------------------------------------------
(***************************************************************************)
(* A block whose hash was certified is valid with its certificate exactly  *)
(* if its list of transactions is not nil: CalculateBlockHash takes a nil  *)
(* list for an empty one, the block gets certified, and Block.IsValid      *)
(* refuses it.  In all else the calculation and the check of a block hash  *)
(* agree.                                                                  *)
(***************************************************************************)
CertifiedIsValid == \A b \in certified : IsValid(b) <=> b.txs # NilTxs

\* The blocks are the same but for a list that is nil in one and empty in the other.
SameBlock(b, c) == b.header = c.header /\ b.uc = c.uc /\ Records(b.txs) = Records(c.txs)

(***************************************************************************)
(* A certificate is valid with no other block, however it was changed: the *)
(* block hash fixes header and transactions, their order and number        *)
(* included.  Only the empty block of an unchanged state is not bound, and *)
(* a block that was certified with a nil list is valid once the list is    *)
(* replaced by an empty one (Block.IsValid).                               *)
(***************************************************************************)
ValidIsCertified ==
    IsValid(block) /\ block.uc \in UCs
      => block.uc.ir.block = NoHash \/ \E b \in certified : SameBlock(b, block)

(***************************************************************************)
(* The proof of each record of a certified block verifies, if the block is *)
(* of a partition with one shard, which the record's order names; it is    *)
(* a proof of execution if the transaction succeeded (NewTxRecordProof,    *)
(* VerifyTxInclusion, VerifyTxProof).                                      *)
(***************************************************************************)
ProofsComplete ==
    \A b \in certified : \A i \in DOMAIN Records(b.txs) :
        LET p == NewTxRecordProof(b, i)
            verifiable == b.header.shard = EmptyShard
                            /\ b.txs[i].order.partition = b.header.partition
        IN  /\ VerifyTxInclusion(p) <=> verifiable
            /\ VerifyTxProof(p) <=> verifiable /\ b.txs[i].status = "successful"

HonestChains ==
    UNION {{GetMerklePath(Hashes(b.txs), i) : i \in DOMAIN Records(b.txs)} : b \in certified}

\* A chain cut short on either end, or with one step turned.
ChangedChain(c) == {SubSeq(c, m, n) : m \in {1, 2}, n \in {Len(c) - 1, Len(c)}}
                     \cup {[c EXCEPT ![i].left = ~@] : i \in DOMAIN c}

Chains == UNION {ChangedChain(c) : c \in HonestChains}

(***************************************************************************)
(* A proof that verifies, however put together from parts of those of all  *)
(* certified blocks, is of a record of the very block its certificate is   *)
(* of, in the partition the record's order names (VerifyTxInclusion).      *)
(***************************************************************************)
ProofsSound ==
    \A b, c, d \in certified : \A i \in DOMAIN Records(b.txs), chain \in Chains :
        VerifyTxInclusion([record |-> b.txs[i], header |-> c.header,
                           chain |-> chain, uc |-> d.uc])
          => /\ \E j \in DOMAIN Records(d.txs) : d.txs[j] = b.txs[i]
             /\ d.header.partition = b.txs[i].order.partition

(***************************************************************************)
(* The input record that CalculateBlockHash returns is valid: where the    *)
(* state does not change there is no block hash.  It is not when the       *)
(* transactions of a block leave the state as it was (BlockHash,           *)
(* InputRecord.IsValid).                                                   *)
(***************************************************************************)
CalculatedRecordValid == submitted # << >> => RecordIsValid(submitted[1])
===============================================================================

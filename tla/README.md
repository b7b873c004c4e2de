# Verification of bft-go-base

bft-go-base is the library that the nodes and the clients of a BFT partitioned ledger share: the root trust
bases and their succession, the unicity seals and certificates the root chain issues, the Merkle trees behind
them, partition views, blocks and inclusion proofs, and the data types of the transaction systems. It runs no
protocol of its own. What it decides is *what a verifier accepts*, and that is what this project models: the
functions of the library as operators and actions, in an environment of root nodes, shard nodes and callers that
use them in any order, late, twice, with parts of different origin, and while they change their own objects.

## 1. Inventory

| Component (source) | State | Operations | What makes it hard |
|---|---|---|---|
| Root trust bases (`types/root_trust_base.go`) | committee, threshold, epoch, start round, hash of the previous entry, signature map; a cached verifier per node | `NewTrustBase`, `Sign`, `Hash`, `SigBytes`, `VerifyQuorumSignatures`, `IsValid`, `VerifySignatures`, `Verify`, `GetMaxFaultyNodes`, `getRootNode`, `SigVerifier` | committees vouch for their successors; competing bodies; the hash covers the signatures; uint64 sums; decoded entries keep any threshold, and node lists any order, with nodes listed twice or nil; concurrent callers share the verifiers |
| Unicity seals and seal verifiers (`types/unicity_seal.go`, end of `types/partition_view.go`) | round, epoch, network, hash, signatures; boundary of a verifier | `IsValid`, `Sign`, `Verify`, `VerifySeal` | keys of relieved committees; exclusive and absent boundaries |
| Input records and unicity certificates (`types/input_record.go`, `types/unicity_certificate.go`) | one record, two tree certificates, one seal | `IsValid`, `Verify`, `NewRepeatIR`, `CheckNonEquivocatingCertificates`, `IsSuccessor`, `IsDuplicate`, `IsRepeat` | certificates are missed, repeated and reordered; each is compared with one predecessor only |
| Shard identifiers and schemes (`types/sharding.go`, `types/bitstring.go`) | bit strings in bytes | `Split`, `Key`, `Comparator`, `All`, `IsValid` | byte boundaries; prefix freedom and completeness from one scan of the sorted list |
| Shard tree (`types/shard_certificate.go`) | map from keys to hashes | `CreateShardTree`, `generate`, `Certificate`, `ComputeCertificateHash` | unbounded recursion; two walks over the bits that must agree |
| Unicity tree (`types/unicity_tree*.go`, `tree/imt`) | sorted leaves, nodes with keys | `NewUnicityTree`, `Certificate`, `EvalAuthPath`, `IndexTreeOutput` | sides come from keys that the certificate itself provides |
| Partition views (`types/partition_view.go`, `types/partition_view_auth.go`) | candidate view, private copy, tree, encoded seal and path | `ValidateStructure`, `VerifyTree`, `AuthenticateView`, `Certificate(s)`, `AssembleCertificates` | parts of different rounds and partitions; callers that go on writing; incomplete pins |
| Plain Merkle tree (`tree/mt`) | nodes without tags | `New`, `GetMerklePath`, `EvalMerklePath`, `PlainTreeOutput` | the splits are computed twice |
| Blocks, records and transaction proofs (`types/block.go`, `tx_record.go`, `tx_proof.go`) | header, records with server metadata, certificate | `CalculateBlockHash`, `IsValid`, `NewTxRecordProof`, `VerifyTxInclusion`, `VerifyTxProof`, `TxRecordProof.Verify`, `SetError`, `TxStatus` | calculation and certification are apart, and only the check tells a nil list of transactions from an empty one; proofs of mixed parts; the trust base comes from the seal; errors are not encoded |
| Transaction orders (`types/tx_order.go`) | payload, state unlock, owner proof, fee proof | the `SigBytes` methods, `AddStateUnlockProof`, `SetAuthProof`, the field of the fee proof, encoding, `Hash` | proofs are made of an order that changes; they may be moved between orders and purposes; what is signed and what is encoded differ in the version |
| Unit state proofs (`types/unit_proof.go`) | unit tree and state tree certificates | `CalculateStateTreeOutput`, `Verify` | search tree order, wrapping summary values, bytes hashed without delimiters |
| Partition descriptions, unit identifiers (`types/partition_description.go`, `identifiers.go`) | lengths, validators, epochs | `IsValid`, `Verify`, `ComposeUnitID`, `ExtractUnitType`, `UnitIDValidator` | bit lengths |
| Encodings, versions, hex (`types/cbor*.go`, `versions.go`, `hex`) | – | tags and versions | conversions |
| Hashing, signatures (`hash`, `crypto`) | – | SHA, secp256k1; `VerifyHash` | cryptography; lengths and recovery ids of signatures |
| Unit data (`txsystem/*/unit_data_types.go`) | seven kinds of unit, with slices that may be shared | constructors, `Copy`, `Write`, `SummaryValueInput`, encoding | copies are changed while the original is kept; the version is not copied |
| Predicates, attributes, identifier generation (`predicates`, rest of `txsystem`) | – | encodings | data types; their rules live elsewhere |

**How they interact.** A trust base decides which signatures are a quorum. A seal is signed by that quorum over
the root hash of the unicity tree; the unicity tree is made of the roots of the shard trees, and a shard tree of
the input records of the shards. A unicity certificate carries one path through each tree and the seal. A
partition view carries all the leaves of one shard tree and one certificate, from which the certificates of all
its shards are derived. The record of a certificate carries the block hash, and the block hash the root of the
Merkle tree of the transactions, so that an inclusion proof ends in a certificate again. All of this is by
calls and shared values; the only callback is `SealVerifier`, the only lazily shared state the cached signature
verifier of a node.

**What is correct.** Verifiers agree on the committee of every epoch (trust bases); one hash per root round is
accepted (seals); one record per shard round, and no false alarm (certificates); schemes give every unit one
shard, and trees prove exactly their leaves (trees); only what one certified round committed to is authenticated,
and derived certificates are the issued ones (views); a certificate fits one block, and only records of that
block are proven (blocks); an identifier belongs to one shard, and a unit proof shows a state, a value and a ledger hash
the unit really had (unit proofs); a quorum is one of different members that have signed, whatever list was decoded
and whoever else is verifying (node lists); an order that is authorised was meant as it is (orders); a state that was
kept never changes, and a record tells what happened (unit data, records).

## 2. Modules

```
RootQuorum ---- TrustBase ------ MCTrustBase          EpochChain (abstract) <= TrustBase
     |     \--- UnicitySeal ---- MCUnicitySeal
     |      \-- RootNodes ------ MCRootNodes
     |       \- StakeRegistration
UnicityCertificate ------------- MCUnicityCertificate
ShardID -- ShardCertificate ---- ShardTree ---\
                 |                             +-- MCTrees
           IndexedTree --------- UnicityTree -/
                 |
           Certification (ShardCertificate + IndexedTree) ---- PartitionView -- MCPartitionView
MerkleTree -- Block ------------ MCBlock
      \
   UnitProof (UnitID + MerkleTree) -- ShardState -- MCShardState        UnitID extends ShardID
TransactionOrder ------------------------- MCTransactions
UnitData -- TransactionExecution ----------/

Proofs:
RootQuorumProofs --- TrustBaseProofs (TrustBase, EpochChain)
                 \-- UnicityCertificateProofs (UnicityCertificate and UnicitySeal)
RootNodesProofs (RootNodes)
IdentifierLemmas (ShardID) --- TransactionProofs (Block, TransactionOrder, TransactionExecution, ShardState)
                \
                 TreeLemmas (ShardCertificate, IndexedTree) --- TreeProofs (ShardTree, UnicityTree, PartitionView)
```

Conventions. A hash is the term it is computed from, so equal hashes mean equal inputs; where the code writes a
tag into a hash the term has it too, where it does not the term has none. A signature verifies for exactly the
node that made it and the data it was made over; faulty nodes have signed everything. Encodings are injective.
Error texts are left out, the conditions they are returned under are not. Operators with an underscore in their
name (`Hash_NoSignatures`) are deliberately wrong variants, used to see that a property notices them; nothing
else refers to them.

| Module | Code | State and actions |
|---|---|---|
| `RootQuorum` | arithmetic of committees | operators only: `QuorumThreshold` and `Constructible` are the threshold and the error returns of `NewTrustBase`, `VerifyQuorumSignatures` sums the stakes of valid signatures modulo `Modulus` |
| `TrustBase` | the succession of trust bases | `signed` is what honest nodes signed, `history[v]` what verifier v accepted; `Sign` is `NewTrustBase` followed by `Sign`, `LoadGenesis` and `Adopt` are `Verify` without and with a previous entry |
| `EpochChain` | the abstract promise | one growing chain of epochs, of which every verifier holds a prefix |
| `StakeRegistration` | overflow of stakes | `AddNode` collects nodes, `NewTrustBase` is called with them in the width of the stake type |
| `RootNodes` | node lists and concurrent verification | `nodes` is the list that `NewTrustBase` sorts or `UnmarshalCBOR` takes as it is; each caller of `VerifyQuorumSignatures` visits its map in any order (`NextSignature`, with the binary search), makes or waits for the verifier of a node (`EnterOnce`, `InitVerifier`, `AfterOnce` are `sync.Once`), counts the vote and returns |
| `UnicitySeal` | seals and seal verifiers | rounds, honest signing, leaking keys of relieved committees, `Accept` is a call of a seal verifier with or without end boundary, `AcceptProof` the check of `TxRecordProof.Verify` |
| `UnicityCertificate` | certificates of one shard | `issued` and `accepted[n]`; `Certify`, `Repeat` (`NewRepeatIR`), `Receive` is `CheckNonEquivocatingCertificates` against the last certificate |
| `ShardID` | shard identifiers, schemes | operators only; bytes have `ByteBits` bits |
| `ShardCertificate` | the pure part of the shard tree | operators only: the input records of a scheme, the root and the sibling hashes of a given tree, `ComputeCertificateHash` |
| `ShardTree` | the making of a shard tree | `CreateShardTree` starts the recursion of `generate`, which is run step by step on an explicit `stack`: `Return`, `Recurse`, `StoreNode` |
| `IndexedTree` | the indexed Merkle tree | operators only: construction from sorted leaves, `GetMerklePath`, `EvalAuthPath`, `IndexTreeOutput` |
| `UnicityTree` | the making of a unicity tree | `NewUnicityTree` sorts the caller's list in place and builds |
| `Certification` | certificates from both ends | `Issue` composes the two trees, `IsValid` and `Verify` check |
| `PartitionView` | views and their authentication | `memory` holds the objects of the caller and the private copy; `ChangeView`, `ChangeUC`, `AuthenticateView`, `Derive` |
| `MerkleTree`, `Block` | blocks and inclusion proofs | `block` in hand; `Propose`, `CalculateBlockHash`, `Certify`, `ChangeBlock`; proofs are operators the properties quantify over |
| `UnitID` | unit identifiers of a partition | operators only, on bits: `ComposeUnitID`, `ExtractUnitType`, `UnitIDValidator`, the lengths `IsValid` admits |
| `UnitProof` | unit state proofs | operators only: the hash of a unit state, of a log entry, of a state tree node, `CalculateStateTreeOutput` and `Verify` |
| `TransactionOrder` | orders and their proofs | `order` is what the client has in memory, `signed` the proofs it has made; `NewTransactionOrder`, `SetAttributes`, `Sign`; a node checks orders put together from any proofs (`Authorised`, external) |
| `UnitData` | the data of units | operators only: the fields of each kind, `NewUnitData`, `Copy`, encoding, hash and summary value; slices are addresses of a heap, so that sharing shows |
| `TransactionExecution` | a node that uses them | `heap`, the kept `states`, the copy at `work`, `meta` and `records`; `Create`, `Begin`, `Edit`, `Succeed`, `Fail`, `Restart`: the rules of the node are external, the copies, encodings and metadata are not |
| `ShardState` | the states that unit proofs are about | `units[s]` are the units of a shard with their logs; `CreateUnit`, `ExecuteUnit` and `CertifyState` are the nodes and the root chain (external), from whose state the proofs are made |

What honest nodes of the environment do is not in this repository and is stated where it is assumed: honest root
nodes sign one body per network and epoch (`HonestRule`) and one seal per round (`UnicitySeal`); a correct root
chain certifies records that extend the last one (`Certify`).

## 3. What the runs show

| Run | Properties | Bounds, and why they are enough |
|---|---|---|
| `trust_base` | `TypeOK`, `Agreement`, `PrefixIdentical`, `HistoryWellFormed`, `ThresholdTwoThirds`, `ImplementsEpochChain` | four nodes, one faulty, two committees (one with unequal stakes), two verifiers, three epochs and three bodies: two bodies compete for one epoch and a third follows, which is what a disagreement takes. The theorems of section 4 are free of these bounds. |
| `current_epoch_signatures` | `CurrentEpochSigned` is violated | see finding 1 |
| `stake_overflow` | `AtLeastTwoThirdsPlusOne` is violated | 4-bit stake type, see finding 2 |
| `seals` | `TypeOK`, `OneSealPerRound` | two epochs with a boundary between rounds, three rounds, two hashes: the keys of epoch 1 leak while epoch 2 is in force |
| `certificates` | `CertificateTypeOK`, `NoFalseAlarm`, `AcceptedHistory`, `OneKind` | a node that keeps four certificates of five root rounds and four shard rounds; two states, so that the state returns to an earlier value, three blocks |
| `trees` | `SchemeValidity`, `TreeComplete`, `KeysFaithful`, `CertificatesComplete`, `CertificatesSound`, `EveryRootProven`, `OnlyMembersProven`, `Terminates` | shard tree: bytes of two bits and identifiers up to three, that is shorter, equal to and longer than a byte; all sets of up to five identifiers and the full set of length three, in order, backwards and with one repeated. Unicity tree: lists of at most four entries of four partitions, in any order and with repetitions, and sorted lists of five to seven: all shapes up to depth three. A behaviour builds one of the two |
| `root_nodes` | `QuorumIsReal`, `VerdictDetermined`, `VerificationsEnd` | two callers with three signature maps (all signed; a signature cut and one with another recovery id; signatures by another key, over other data and of a stranger). Lists of up to four nodes: built from every order of three nodes, with a node twice, without a valid key or with the identifier of another; decoded unsorted, with nil entries, repetitions and impersonations. Default threshold and three votes. Two callers suffice to race for a verifier; the binary search needs three entries to go both ways |
| `transactions` | `AuthorisedIsMeant`, `SentIsAuthorised`, `StatesKept`, `OutcomeTold` | client: two payloads, both kinds of unlock, versions 0 and 1, one key for all purposes or one for each, three signatures, that is one of each purpose or one purpose of an order before and after a change. Node: each of the seven kinds of unit, with its slices or without, three transactions with one change of each copy, two errors, a restart at any point. A behaviour is of the client or of the node; they share nothing |
| `partition_view` | `AuthenticatedIsCommitted`, `PinsHold`, `DerivedIsIssued`, `HonestAccepted`, `VerifiedIsCommitted` | three rounds of two partitions with three, two and one shards; the caller's objects start as parts of any rounds and are changed twice, before or after authentication. Two changes are enough to exchange any two parts or to change one and repair the seal hash. A leaf may also get a record that is not valid, and a view partition zero |
| `blocks` | `CertifiedIsValid`, `ValidIsCertified`, `ProofsComplete`, `ProofsSound` | two certified blocks of three shards, one change of the block in hand, a nil list of transactions and lists of up to five records, among them two that differ by repeating the last record |
| `shard_state` | `ComposedIsValid`, `StatesProvable`, `StateProven`, `ValueProven` | bytes of two bits, four shards of identifiers up to one and a half bytes, two of which execute three transactions on up to three units with two certified states, random parts that differ only where a longer shard identifier overwrites them; search trees that are balanced and chains; summary values modulo four, which wrap. Proofs are all proofs of certified states with one or two parts exchanged for those of another, any value, a value moved from a subtree to the unit, and a log entry read as another kind of node. Verifiers are also shown states that no unit ever had: of the same data, and of the very bytes of a unit's state taken apart at a number within its data |
| `block_record` | `CalculatedRecordValid` is violated | see finding 3 |

Deadlock is not checked where the model ends by design: the bounded counters run out, or a function has returned.

**Fairness** is assumed in two modules. `ShardTree`: once `generate` is called, its steps are ordinary sequential
code, so that a step that can be taken is taken (weak fairness of `Generate`). `RootNodes`: every concurrent caller
of `VerifyQuorumSignatures` is a goroutine that the runtime schedules again and again while it can run (weak fairness
of the steps of each caller, not of the whole); nothing is assumed of the making of the trust base. A caller that
waits in `sync.Once` can run once the first one is done. No other module needs fairness: the library does not
schedule anything, and nothing in the other modules is claimed to happen.

**Mutants.** For every property of a passing run a plausible defect of a modelled function is on record in
`PROJECT.json` that makes the property fail under the same bounds.

### Findings

1. *Own signatures of a committee.* The comment of `RootTrustBaseV1.Verify` says that the current epoch's
   signatures must reach quorum, for all trust bases. `VerifySignatures` counts, for every epoch but the first,
   only those of the previous committee. `CurrentEpochSigned` states the comment; the run finds an accepted entry
   without a quorum of its own committee. None of the other properties needs those signatures.
2. *Overflow of stakes.* `NewTrustBase` computes `totalStake*2/3+1` in uint64. For stakes whose doubled sum
   overflows, the threshold becomes tiny. As long as all stakes are 1, which `NodeInfo.IsValid` demands but
   `NewTrustBase` does not ask for, it cannot happen.
3. *Transactions that change nothing.* `BlockHash` is empty only when there are no transactions *and* the state is
   unchanged; `InputRecord.IsValid` and rule 5 of `CheckNonEquivocatingCertificates` demand an empty hash whenever
   the state is unchanged. A block whose transactions leave the state as it was cannot be certified.

Met on the way, and not a defect by the code's own account: `VerifyTxInclusion` verifies the certificate for the
empty shard (a TODO in the code says so), hence `ProofsComplete` states that a proof verifies exactly for
partitions with one shard. `UnitStateProof.Verify` accepts each of the states a unit went through in the certified
round, not only the last one, while the value in the proof is that of the last one (`StateProven`, `ValueProven`).
`CalculateBlockHash` and `BlockHash` take a nil list of transactions for an empty one, while `Block.IsValid` refuses it:
such a block may be certified and is then refused, until its list is an empty one (`CertifiedIsValid` states both
directions, `ValidIsCertified` the exception). `UnitState.Hash` writes data and lock as they are and checks nothing:
a proof verifies also for a state that has the same bytes in other fields, unless the state came from the CBOR
decoder, which leaves one item in each (`Tells`, in `StateProven`).
A transaction order whose version was left zero is signed as zero and encoded as one, so that its proofs do not verify
at the node although its hash is the same (`SentIsAuthorised`); an encoding that says zero decodes, since `GetVersion`
reports one for it. `PartitionDescriptionRecord.Verify` compares with the previous record only, while its comment also
speaks of validator info, which `IsValid` checks.

## 4. What is proved

All theorems are for any values of the constants that satisfy the named assumptions, and are checked by TLAPS.

* `RootQuorumProofs`. With stakes as sets of votes, quorum sums are cardinalities of finite sets.
  `ConstructedThresholdIsSound`: every threshold `NewTrustBase` returns exceeds two thirds of the stake.
  `QuorumsIntersect`: two quorums of such a threshold share a member outside of any faulty minority.
  `MaxFaultyNodesTolerated`: with unit stakes, `GetMaxFaultyNodes` faulty nodes are fewer than a third.
  Assumed: finite committees of positive stakes without overflow (`NoOverflow`); finding 2 shows why it is needed.
* `TrustBaseProofs`. `TypeOK`, `Agreement`, `PrefixIdentical`, `HistoryWellFormed` and `ThresholdTwoThirds` hold in
  every behaviour. `Agreement` is not inductive by itself. The inductive invariant `Inv` is the conjunction of the
  five with `SignedSound` (the thresholds of the genesis and of what honest nodes signed exceed two thirds),
  `SignOnce` (an honest node has signed one body of a network and epoch) and `Backed` (every entry after the
  genesis was accepted with a quorum of its predecessor's committee and carries its hash, and the first is the
  genesis). Agreement on epoch i follows from an honest signer that two quorums of one committee share
  (`QuorumsIntersect`), the committee being that of epoch i-1, which the induction provides; the same lemma with
  one quorum twice shows that an honest node signed every accepted body, which `NewTrustBase` therefore built;
  identical prefixes follow from the hash, which covers the signature map. Assumed: `TrustBaseAssumption`, that
  is, faulty members hold less than a third of every committee and stakes do not overflow.
  `ImplementsEpochChain`: the specification of the trust bases implements the abstract chain. The
  chain is the one of a verifier that has adopted most, and which verifier that is may change in a step. That there is
  one is inductive by itself (`HasLongest`: histories grow by one entry), and all of them have the same bodies by
  `Agreement` (`ChainOfAnyLongest`). A verifier that had adopted the whole chain extends it, with an epoch that
  `HistoryWellFormed` says comes next; any other catches up, since `Agreement` in the next state says that what it
  adopts is what the chain has. Assumed in addition: there is a verifier (`VerifiersAssumption`).
* `UnicityCertificateProofs`. `RulesFiveAndSixRedundant`: for a valid input record, rules 5 and 6 of
  `CheckNonEquivocatingCertificates` never decide. `AcceptedHistory`: the relation between neighbours is
  transitive in the part that matters (`Follows`), so that comparing with the last certificate is as good as
  comparing with all earlier ones. `NoFalseAlarm`: of the certificates of a correct root chain, any two pass the
  check in order. The inductive invariant `Inv` is `TypeOK`, `AcceptedHistory` and `IssuedInOrder` (the issued
  certificates of a correct root chain follow each other in the order of their root rounds).
  `OneKind` and `CertificateTypeOK` follow.
* `UnicityCertificateProofs`, seals. `OneSealPerRound` for any number of epochs, committees, rounds and leaks. What was accepted has
  to stay explained while more keys get out: `Backed` says that each accepted seal was signed by a quorum with good
  keys, or that the keys were out at the time and then the end boundary, if it was used, ties the seal to a round of
  the epoch whose keys they are (`BoundariesDetermineEpoch`). With `SignOnce` and `SignedForRound` (an honest node
  signs one seal per round, for the epoch of that round) this is inductive, and two seals of a round with safe keys
  share an honest signer. Assumed: `SealAssumption`, that is, epochs start in increasing rounds and faulty members hold less
  than a third of every committee.
* `RootNodesProofs`. `QuorumIsReal` and `VerdictDetermined` for node lists of any length and content and any number of
  concurrent callers. The inductive invariant says that the sum of a caller is, modulo the width of a stake, the stake of
  the members it has counted: those whose identifier the map has, whose signature verifies and which are not still to
  be visited (`Counted`), of one identifier each, as a map names an identifier once. With it go the types, what a cached
  verifier is (`CacheInv`: that of its node, or an error exactly when the node has no key) and what the search found
  (`Found`). `QuorumIsReal` needs nothing of the search but that it checks what it has found, so that an unsorted list
  loses votes and never adds any. `VerdictDetermined` needs `SearchFinds`: in a sorted list of different identifiers the
  binary search finds every member, in whatever order callers visit their maps. Wrapping is by `WrapOfSum`. Assumed:
  `RootNodesAssumption` (the lists are lists of nodes, the stakes and thresholds are numbers).
* `TransactionProofs`. `AuthorisedIsMeant` and `SentIsAuthorised` for any payloads, keys and numbers of
  signatures, one key for all purposes included. The three signed forms have different lengths (`FormsDiffer`), so
  that a proof that verifies for a purpose was made for it (`VerifiedIsMeant`). Inductive are the types of the order
  in memory and `SignedSound`: every proof is by the key of its purpose over what its order was. `StatesKept` for any
  kinds, contents and numbers of transactions: the invariant `KeptInv` says that the copy at work shares no address with
  a kept state and that all addresses in use were allocated, each once (`Apart`, `AllocatedOnce`); a decoded state gets
  addresses of its own (`DecodedUnit`). `OutcomeTold`: every record has what `Successful` or `Failed` metadata
  say. Assumed: `NilAssumption` and `ExecAssumption`, that a nil slice is no address and no metadata is nil.
* `TransactionProofs`, blocks. `CertifiedIsValid`, `ValidIsCertified`, `ProofsComplete` and `ProofsSound` for blocks of any length.
  About the state little has to be known (`Inv`: the types, and that the record of a calculated block has the
  hash of the block, `Calculated`); the content is in what the recursive functions of `MerkleTree` compute.
  `RootFixesLeaves`: two lists with the same root are the same list, even of different lengths, since the splits differ
  where the lengths do and a leaf is no inner node. `PathLeadsToRoot`: the path of a leaf leads to the root.
  `OutputIsOfLeaf`: whatever list of steps leads from a leaf hash to the root, the leaf is in the list. Assumed:
  `TxListsAssumption` (the lists of records are sequences, and the nil list is none of them).
* `TreeLemmas` and `TreeProofs`, unicity tree. `EveryRootProven` and `OnlyMembersProven` for lists of any length and any numbers of
  partitions. `PathLeadsToRoot` needs that keys ascend (`KeysAscend`), as the code descends by comparing keys;
  `OutputIsOfLeaf` is for any steps with any keys: the sides come from the certificate, but the key of a node is part of
  its hash.
* `IdentifierLemmas`, shard identifiers. For bytes of any width and identifiers of any length: the key of an identifier
  determines it and decodes to it (`KeyDetermines`, `KeyDecodes`), `Split` appends one bit (`SplitIs`), the byte order
  with the length behind it is the order of bit strings in which a prefix comes first (`CompareIs`), a strict total
  order. `SortedIDs`, whose places are counted, is an arrangement in this order (`SortedIDsIs`). On it stand the two
  facts the linear scan of `sortedValid` relies on: it is enough to compare neighbours for prefixes (`PrefixFreeIs`,
  since what is between a prefix and its extension has the prefix too, `PrefixBetween`), and the intervals of
  neighbours meet everywhere exactly when every long enough bit string has a shard (`CompleteCovers`, `CoversComplete`).
  Together: a scheme is valid exactly if it tiles the bit strings and is not a single identifier (`ValidSchemeIs`,
  `TilesIs`).
* `TransactionProofs`, unit states. `ComposedIsValid`, `StatesProvable`, `StateProven` and `ValueProven` for any valid
  description, any scheme, any number of units, transactions and certified states, logs and search trees of any size,
  and any width of summary values. The inductive invariant `StateInv` says that the units of a shard and of its certified states
  have identifiers of that shard and logs that are not empty (`UnitsTyped`), that a ledger hash is a chain of hashes
  of transactions (`IsLedger`), and that a certificate is of the root of its state tree (`IsCertified`). The rest is in
  the functions. *Identifiers*: the validator says that the bits of the shard begin the identifier (`PrefixIs`), the
  shards of a valid scheme do not begin each other (`ShardsApart`), and the digits of a type are a number again
  (`NumberIs`): `ComposedIs`. *Order*: identifiers of whole bytes are ordered as strings of bits (`LessIs`), and a finite set
  that is strictly ordered can be listed in order, by counting (`ListedInOrder`), so that the search tree exists
  (`OrderedIs`). *Completeness*: from the node of a unit the certificate leads to the node over every interval the
  unit is in, left and right being found by comparing identifiers (`CertLeads`, by induction on the length of the interval), and
  from its log entry to the root of the log (`PathLeadsToRoot`, as for blocks). *Soundness*: from a root
  down, whatever is hashed into a node of the tree is a node of the tree, since no node has the empty hash of a missing
  subtree, so that a proof starts at a node of the tree and has its unit, its subtrees and the root of its log (`UnitOfState`). In the log,
  nothing but an entry has a state hash as its second part: an inner node has another hash there, and what precedes
  an entry is a ledger hash (`EntryOfLog`, `TermsDiffer`). A state hash fixes what was written; since no
  encoded item begins with another one, it also fixes a decoded state, although data and lock stand around the round without
  delimiters (`StateHashFixes`, by `WrittenFixes` and `ItemAndRest`), and equal sums modulo the width with equal
  subtrees are of equal values below the width (`SameAddend`). The soundness half is for every proof with paths of
  some length, not only for those of the run (`ReadableIsSound`). Assumed: `SchemeAssumption` (the shards
  are those of a valid scheme), `PartsAssumption` (types are numbers, random bits are bits, and there are enough of them),
  `ItemsAssumption` (no encoded item begins with another one), `StatesAssumption` (all fields are lists of bytes, the round
  that of an encoded number; the data and the lock of a unit are one encoded item or nothing, and no number, as unit data is an
  array and a unit is locked by a tagged order; the data and the lock a verifier is shown may be any bytes), `ValueAssumption` (values fit the width), `UnitIDAssumption` and `ByteAssumption`.
* `TreeProofs`, shard tree. `TreeInv` is inductive: beside the types and that the checks were passed, every hash in
  the map is that of an input or of the hashes of two halves that are in the map too (`TreeRight`), and every call on the stack
  is for the half its caller asks for next, each caller holding the hashes of the halves it has (`StackRight`, `Partial`). It gives
  `KeysFaithful`, `SchemeValidity`, and at the end of a run that the map has all nodes above the shards
  (`NodesStored`) and, with `TreeHashFixed`, that it is the tree of the records (`TreeComplete`). For certificates the
  two walks over the bits are shown to visit the same ones: the bit of round n is the n-th from the end (`BitOfRound`),
  flipping it names the sibling (`SiblingsAre`). Then an induction along the path gives `CertificatesComplete`, and one
  from the root down gives `CertificatesSound`: hashes fix the bits of the path, and a leaf is no inner node. Assumed:
  `ByteAssumption` (a byte has a bit), `LengthAssumption` and `ShardTreeAssumption` (schemes are lists of identifiers
  of at most `MaxLength` bits, inputs lists of such identifiers with records).
* `TreeProofs`, partition views. All five properties of partition views, for any number of rounds, partitions and shards, any records,
  pins and limits, and however often the caller exchanges parts of its objects. `ViewInv` is inductive: beside the types, it
  says that the private view of an authenticated view is the one of a round, with that round's seal and path and
  the tree of its leaves (`Committed`, hence `AuthenticatedIsCommitted`), that it has the pinned shards and
  configurations (`Pinned`, hence `PinsHold`), and that a derived certificate is an issued one. `AuthenticatedIsCommitted`
  is not inductive by itself, as it leaves out tree and path, from which certificates are derived. What carries it
  is that hashes fix what they are made of, from the seal down: the seal, found by its hash, is of one round
  (`SealIs`); a path that leads to the root of that round's unicity tree starts at the shard tree root of a partition
  of it (`OutputIsCommitted`); and two lists of leaves with the same root, both listing the shards of a valid scheme, are
  the same list (`SameRootSameLeaves`), since the tree that a root stands for has its leaves at the shards, each with its record and
  configuration, and the canonical order of a set is one (`OneOrder`, `CanonicalIs`). That the scheme which the view
  itself claims is as good as a pinned one is `StructureIs`. `HonestAccepted` is the way up: the
  path of each partition leads to the root (`PathIs`), the view of a round lists its shards in canonical order
  (`LeavesAre`, `OrderlyIs`), and no key of a shard occurs twice (`KeysOfLeaves`). `DerivedIsIssued` needs that the tree rebuilt from the
  private copy is the tree of the round, and `IssuedVerifies`; `VerifiedIsCommitted` combines the soundness of both
  trees (`VerifiedIs`). Assumed: `ChainAssumption` (a round lists, of each partition, the shards of a valid scheme in
  canonical order, with records that are valid and within the limits of views, and no partition zero), `DataAssumption`, `BoundsAssumption` (the limits are numbers) and `PinsAssumption`
  (pinned schemes are lists of identifiers).

Recursion. Every hash, path and search of the models is a recursive function. That it exists, and what it is, is
shown by induction on its arguments: over sets of numbers instead of predicates, from the principle of the least
number (`LeastNumber`, `Induction`), which the library's well-foundedness of the numbers provides. A lemma then
gives the value of the function at each argument (`HashOfSlices`, `OutputOf`, `AscentOf`, `SearchFinds`, `StateTreeIs`,
`ClimbIs`), and nothing after it looks into the definition.

Only model-checked: `Terminates` and `VerificationsEnd`, as liveness under fairness is out of the prover's reach; and
the three properties that are violated, where the counterexample is the result. Every other property of every run is a
theorem. No module with a theorem reaches a recursive operator.

## 5. Not modelled, and the plan

Not modelled for good:

* CBOR, JSON and text forms, hashing and secp256k1 themselves: pure conversions or cryptography. The models assume that
  encodings and hashes are injective (but for the fields of a unit state, whose hash is of bytes without delimiters) and that signatures cannot be forged. What the conversions do to versions and what
  `VerifyHash` demands of the form of a signature is modelled.
* Attributes and authorisation proofs of the transaction types, predicate templates: records without operations beyond
  their encoding. Identifier generation (`prnd_sh.go`): a hash.
* Which slices two certificates derived from one view share: hashes of the shard tree are terms, and the copies that
  `AuthenticatedPartitionView.certificate` makes of them are not told apart from shared ones.
* The way of a unit state to its verifier. The state of a unit without data, for which `NewUnitState` keeps a CBOR null that
  decoding drops, does not come back the same; a state in the models is the one that `Verify` is called with.
* Accessors, pretty printers, `util`, `StateLock.IsValid`, and `NodeInfo.IsValid`, which only the check of the validators
  in a partition description calls: they look at the fields of one value, and nothing modelled here depends on them.

Order of work:

1. Done: the modules above with their runs; proofs for trust bases and the abstract chain, node lists, seals,
   certificates, both trees, partition views, blocks and inclusion proofs, orders, unit data and records, unit
   identifiers and unit states.
2. Succession of partition descriptions (`PartitionDescriptionRecord.Verify`, `FindValidator`), which follows the
   pattern of trust bases without signatures.

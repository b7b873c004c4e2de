--------------------------- MODULE ShardCertificate ---------------------------
(***************************************************************************)
(* Shard trees as they are once they have been made, and the certificates  *)
(* of their shards (types/shard_certificate.go).  How CreateShardTree      *)
(* makes a tree is in ShardTree.                                           *)
(*                                                                         *)
(* A hash is the term it is computed from: collision free, and a leaf is   *)
(* never equal to an inner node, as the two hash different numbers of      *)
(* items.  A tree t maps the keys of its nodes to their hashes.            *)
(***************************************************************************)
EXTENDS ShardID

CONSTANT MaxLength      \* bits of the longest shard identifier

ASSUME LengthAssumption == MaxLength \in Nat

BitStrings == UNION {[1..n -> Bit] : n \in 0..MaxLength}

\* The identifiers of nodes.
Nodes == {NewID(s) : s \in BitStrings}

HashLeaf(r) == <<"leaf", r>>

HashNode(l, r) == <<"node", l, r>>

\* A Go map: a missing key reads as nil.
Lookup(t, key) == IF key \in DOMAIN t THEN t[key] ELSE << >>

RootHash(t) == Lookup(t, Key(EmptyID))

-------------------------------------------------------------------------------
(* Certificates. *)

\* The position of bit bitIdx of byte byteIdx.
BitAt(byteIdx, bitIdx) == byteIdx * ByteBits + ByteBits - bitIdx

\* The indices the loops of siblingHashes and ComputeCertificateHash start at,
\* and those after n rounds of bitIdx++.
FirstIndex(length) ==
    IF length % ByteBits = 0
    THEN [byte |-> (length \div ByteBits) - 1, bit |-> 0]
    ELSE [byte |-> length \div ByteBits, bit |-> ByteBits - (length % ByteBits)]

IndexAfter(length, n) ==
    LET first == FirstIndex(length)
    IN  [byte |-> first.byte - ((first.bit + n) \div ByteBits),
         bit |-> (first.bit + n) % ByteBits]

BitOf(length, n) == BitAt(IndexAfter(length, n).byte, IndexAfter(length, n).bit)

\* The bits after n rounds: every bit passed has been flipped, and stays so.
FlippedBits(id, n) ==
    [i \in DOMAIN id.bits |-> IF \E k \in 0..(n - 1) : BitOf(id.length, k) = i
                              THEN 1 - id.bits[i] ELSE id.bits[i]]

\* Mutant: the identifier is shortened before its last bit is flipped.
SiblingHashes_ShortenFirst(t, id) ==
    [n \in 1..id.length |->
        Lookup(t, Key([bits |-> FlippedBits(id, n), length |-> id.length - n]))]

SiblingHashes(t, id) ==
    [n \in 1..id.length |->
        Lookup(t, Key([bits |-> FlippedBits(id, n), length |-> id.length - n + 1]))]

\* Certificate: the shard identifier and its sibling hashes.
Certificate(t, id) == [shard |-> id, siblings |-> SiblingHashes(t, id)]

IsValidCertificate(cert, id) == cert.shard = id /\ Len(cert.siblings) = id.length

\* ComputeCertificateHash of a well formed certificate: hashes up to the root.
ComputeCertificateHash(cert, record) ==
    LET hash[n \in 0..Len(cert.siblings)] ==
          IF n = 0 THEN HashLeaf(record)
          ELSE IF cert.shard.bits[BitOf(cert.shard.length, n - 1)] = 0
               THEN HashNode(hash[n - 1], cert.siblings[n])
               ELSE HashNode(cert.siblings[n], hash[n - 1])
    IN  hash[Len(cert.siblings)]

-------------------------------------------------------------------------------
(***************************************************************************)
(* The tree of the records of a complete and prefix-free set of shards: a  *)
(* node for every prefix of a shard, hashed of its halves.                 *)
(***************************************************************************)
TreeOf(record) ==
    LET shards == {Used(id) : id \in DOMAIN record}
        nodes == {s \in BitStrings : \E t \in shards : IsPrefixOf(s, t)}
        hash[s \in nodes] == IF s \in shards THEN HashLeaf(record[NewID(s)])
                             ELSE HashNode(hash[Append(s, 0)], hash[Append(s, 1)])
    IN  [key \in {Key(NewID(s)) : s \in nodes} |->
            hash[CHOOSE s \in nodes : Key(NewID(s)) = key]]

\* Every long enough bit string is in exactly one shard.
Tiles(sh) ==
    \A t \in [1..MaxLength -> Bit] :
        Cardinality({i \in DOMAIN sh : IsPrefixOf(Used(sh[i]), t)}) = 1
===============================================================================

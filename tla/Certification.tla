---------------------------- MODULE Certification -----------------------------
(***************************************************************************)
(* Unicity certificates from both ends: how the root chain composes them   *)
(* of the shard trees of the partitions and the unicity tree over their    *)
(* roots, and how UnicityCertificate.IsValid and Verify check one          *)
(* (types/unicity_certificate.go).                                         *)
(*                                                                         *)
(* The leaves of a partition are a sequence of [shard, data, conf] in the  *)
(* order of the shards: data stands for the input record and the hash of   *)
(* the technical record, conf for the shard configuration hash.  A forest  *)
(* maps the partitions of one root round to their leaves.                  *)
(***************************************************************************)
EXTENDS ShardCertificate, IndexedTree

CONSTANT AnyConf        \* the nil configuration hash: not to be compared

Record(leaf) == [data |-> leaf.data, conf |-> leaf.conf]

IDsOf(leaves) == {leaves[i].shard : i \in DOMAIN leaves}

LeafOf(leaves, id) == leaves[CHOOSE i \in DOMAIN leaves : leaves[i].shard = id]

ShardTreeOf(leaves) ==
    TreeOf([id \in IDsOf(leaves) |-> Record(LeafOf(leaves, id))])

\* The partitions of a forest, by number, with the roots of their shard trees.
PartitionRoots(forest) ==
    [i \in 1..Cardinality(DOMAIN forest) |->
        LET p == CHOOSE p \in DOMAIN forest : Cardinality({q \in DOMAIN forest : q < p}) = i - 1
        IN  [partition |-> p, root |-> RootHash(ShardTreeOf(forest[p]))]]

UnicityRoot(forest) == UnicityRootHash(PartitionRoots(forest))

\* The certificate the root chain hands out for a shard.
Issue(forest, p, id, seal) ==
    LET stc == Certificate(ShardTreeOf(forest[p]), id)
        utc == UnicityTreeCertificate(PartitionRoots(forest), p)
        leaf == LeafOf(forest[p], id)
    IN  [shard |-> stc.shard, siblings |-> stc.siblings, data |-> leaf.data,
         conf |-> leaf.conf, partition |-> utc.partition, steps |-> utc.steps, seal |-> seal]

-------------------------------------------------------------------------------
\* Mutant: the partition is not compared with the expected one.
IsValid_AnyPartition(uc, p, id, conf) ==
    /\ conf # AnyConf => uc.conf = conf
    /\ IsValidCertificate([shard |-> uc.shard, siblings |-> uc.siblings], id)

\* UnicityCertificate.IsValid, of a certificate whose parts are well formed.
IsValid(uc, p, id, conf) ==
    /\ conf # AnyConf => uc.conf = conf
    /\ uc.partition = p
    /\ IsValidCertificate([shard |-> uc.shard, siblings |-> uc.siblings], id)

\* UnicityCertificate.Verify; the seals that reach a quorum are certified.
Verify(uc, p, id, conf, certified) ==
    /\ IsValid(uc, p, id, conf)
    /\ EvalAuthPath(uc, ComputeCertificateHash(
                          [shard |-> uc.shard, siblings |-> uc.siblings], Record(uc)))
         = uc.seal.hash
    /\ uc.seal \in certified
===============================================================================

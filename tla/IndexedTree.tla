----------------------------- MODULE IndexedTree ------------------------------
(***************************************************************************)
(* The indexed Merkle tree (tree/imt/indexed_merkle_tree.go) as the        *)
(* unicity tree uses it, and the certificates of partitions                *)
(* (types/unicity_tree_certificate.go).  How NewUnicityTree makes the tree *)
(* is in UnicityTree.                                                      *)
(*                                                                         *)
(* A hash is the term it is computed from; the tags of leaves and inner    *)
(* nodes are part of it.  A tree is its leaves in key order, the pairs     *)
(* [partition, root]: the subtree over the leaves lo..hi is split as       *)
(* createMerkleTree splits the slice.                                      *)
(***************************************************************************)
EXTENDS Integers, Sequences

\* Mutant: the partition is left out of the leaf.
LeafHash_NoKey(key, root) == <<"leaf", root>>

LeafHash(key, root) == <<"leaf", key, root>>
NodeHash(key, left, right) == <<"node", key, left, right>>

\* The order createMerkleTree insists on.
InOrder(pairs) == \A i \in 2..Len(pairs) : pairs[i - 1].partition < pairs[i].partition

\* The last leaf of the left half of lo..hi: m := (len(pairs) + 1) / 2.
Middle(lo, hi) == lo + ((hi - lo + 2) \div 2) - 1

\* The slices of the leaves, as pairs of their ends.
Slices(pairs) == (DOMAIN pairs) \X (DOMAIN pairs)

\* The hash of the node over the leaves lo..hi.
HashOf(pairs) ==
    LET hash[s \in Slices(pairs)] ==
          LET lo == s[1] hi == s[2] m == Middle(lo, hi)
          IN  IF lo >= hi THEN LeafHash(pairs[lo].partition, pairs[lo].root)
              ELSE NodeHash(pairs[m].partition, hash[<<lo, m>>], hash[<<m + 1, hi>>])
    IN  hash

UnicityRootHash(pairs) == IF pairs = << >> THEN << >> ELSE HashOf(pairs)[<<1, Len(pairs)>>]

\* Mutant: a key equal to that of the node is looked for in the right half.
GetMerklePath_EqualRight(pairs, key) ==
    LET hash == HashOf(pairs)
        path[s \in Slices(pairs)] ==
          LET lo == s[1] hi == s[2] m == Middle(lo, hi) k == pairs[m].partition
          IN  IF lo >= hi THEN << >>
              ELSE IF key >= k
              THEN Append(path[<<m + 1, hi>>], [key |-> k, hash |-> hash[<<lo, m>>]])
              ELSE Append(path[<<lo, m>>], [key |-> k, hash |-> hash[<<m + 1, hi>>]])
    IN  path[<<1, Len(pairs)>>]

\* The siblings from the leaf of key up to the root, without the leaf itself.
GetMerklePath(pairs, key) ==
    LET hash == HashOf(pairs)
        path[s \in Slices(pairs)] ==
          LET lo == s[1] hi == s[2] m == Middle(lo, hi) k == pairs[m].partition
          IN  IF lo >= hi THEN << >>
              ELSE IF key > k
              THEN Append(path[<<m + 1, hi>>], [key |-> k, hash |-> hash[<<lo, m>>]])
              ELSE Append(path[<<lo, m>>], [key |-> k, hash |-> hash[<<m + 1, hi>>]])
    IN  path[<<1, Len(pairs)>>]

\* The hash a chain of steps leads to from the leaf of key.
IndexTreeOutput(steps, key, root) ==
    LET h[i \in 0..Len(steps)] ==
          IF i = 0 THEN LeafHash(key, root)
          ELSE IF key > steps[i].key
          THEN NodeHash(steps[i].key, steps[i].hash, h[i - 1])
          ELSE NodeHash(steps[i].key, h[i - 1], steps[i].hash)
    IN  h[Len(steps)]

\* Certificate, of a partition of the tree.
UnicityTreeCertificate(pairs, p) == [partition |-> p, steps |-> GetMerklePath(pairs, p)]

EvalAuthPath(cert, root) == IndexTreeOutput(cert.steps, cert.partition, root)
===============================================================================

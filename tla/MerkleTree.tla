------------------------------ MODULE MerkleTree ------------------------------
(***************************************************************************)
(* The plain Merkle tree (tree/mt/merkle_tree.go): its root, the path of a *)
(* leaf and the hash a path leads to.                                      *)
(*                                                                         *)
(* A hash is the term it is computed from.  The leaves are given as the    *)
(* hashes their own Hash method returns.  LeafHash is that of a tagged     *)
(* encoding; inner nodes hash two byte strings without a tag, as anything  *)
(* else that hashes two byte strings does.  The subtree over lo..hi stands *)
(* for the slice.                                                          *)
(***************************************************************************)
LOCAL INSTANCE Integers
LOCAL INSTANCE Sequences

NoHash == << >>         \* a nil hash
LeafHash(x) == <<"leaf", x>>
NodeHash(left, right) == <<"node", left, right>>

\* hibit: the largest power of two that is not larger than n > 0.
HighBit(n) ==
    LET high[m \in 0..n] == IF m <= 1 THEN m ELSE 2 * high[m \div 2]
    IN  high[n]

\* Mutant: the slice is cut in halves, as the indexed tree does.
LeftSize_Half(n) == (n + 1) \div 2

\* The leaves of the left subtree of one with n > 1 leaves.
LeftSize(n) == HighBit(n - 1)

\* The slices of the leaves, as pairs of their ends.
Slices(data) == (DOMAIN data) \X (DOMAIN data)

\* createMerkleTree, with a slice as the argument.
HashOf(data) ==
    LET hash[s \in Slices(data)] ==
          LET lo == s[1]
              hi == s[2]
              n == LeftSize(hi - lo + 1)
          IN  IF lo >= hi THEN data[lo]
              ELSE NodeHash(hash[<<lo, lo + n - 1>>], hash[<<lo + n, hi>>])
    IN  hash

\* The root of a tree without leaves is nil.
GetRootHash(data) == IF data = << >> THEN NoHash ELSE HashOf(data)[<<1, Len(data)>>]

\* The siblings from the leaf up to the root; left means that the node on the
\* path, not its sibling, is the left child.
GetMerklePath(data, leaf) ==
    LET hash == HashOf(data)
        path[s \in Slices(data)] ==
          LET b == s[1]
              hi == s[2]
              n == HighBit(hi - b)
          IN  IF b >= hi THEN << >>
              ELSE IF leaf < b + n
              THEN Append(path[<<b, b + n - 1>>], [left |-> TRUE, hash |-> hash[<<b + n, hi>>]])
              ELSE Append(path[<<b + n, hi>>], [left |-> FALSE, hash |-> hash[<<b, b + n - 1>>]])
    IN  path[<<1, Len(data)>>]

PlainTreeOutput(path, input) ==
    LET h[i \in 0..Len(path)] ==
          IF i = 0 THEN input
          ELSE IF path[i].left THEN NodeHash(h[i - 1], path[i].hash)
          ELSE NodeHash(path[i].hash, h[i - 1])
    IN  h[Len(path)]
===============================================================================

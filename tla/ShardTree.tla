------------------------------- MODULE ShardTree ------------------------------
(***************************************************************************)
(* The making of the shard tree of a partition                             *)
(* (types/shard_certificate.go): CreateShardTree validates the scheme,     *)
(* hashes the records of the shards into leaves, and generate computes the *)
(* inner nodes by recursion, here one call or return at a time.            *)
(***************************************************************************)
EXTENDS ShardCertificate

CONSTANTS Schemes,      \* the sharding schemes that trees are asked for
          Records,      \* what a shard certifies: input record and hashes
          StatesFor(_)  \* the inputs CreateShardTree may be given for a scheme

ASSUME ShardTreeAssumption ==
    \A sh \in Schemes : /\ sh \in Seq(Nodes)
                        /\ StatesFor(sh) \subseteq Seq([shard : Nodes, record : Records])

VARIABLES scheme,       \* the scheme of the call
          states,       \* its inputs: a list of [shard, record]
          tree,         \* hashes by the Key of the node
          stack,        \* the calls of generate that have not returned
          phase         \* "called", "generating", "rejected" or "done"

shardTreeVars == <<scheme, states, tree, stack, phase>>

Call(id) == [id |-> id, children |-> << >>]

ShardTreeInit ==
    /\ scheme \in Schemes
    /\ states \in StatesFor(scheme)
    /\ tree = << >>
    /\ stack = << >>
    /\ phase = "called"

Inputs == {states[i].shard : i \in DOMAIN states}

\* Mutant: the inputs are not counted.
InputsMatch_Uncounted == All(scheme) \subseteq Inputs

\* An input for each shard, and as many as there are shards.
InputsMatch ==
    /\ All(scheme) \subseteq Inputs
    /\ Len(states) = (IF scheme = << >> THEN 1 ELSE Len(scheme))

\* The leaf of a key: the last input of the shard.
Leaf(key) ==
    LET of == {i \in DOMAIN states : Key(states[i].shard) = key}
    IN  HashLeaf(states[CHOOSE i \in of : \A j \in of : j <= i].record)

\* The checks of CreateShardTree and the leaves.
CreateShardTree ==
    /\ phase = "called"
    /\ IF IsValidScheme(scheme) /\ InputsMatch
       THEN /\ tree' = [key \in {Key(id) : id \in Inputs} |-> Leaf(key)]
            /\ IF Cardinality(All(scheme)) > 1
               THEN stack' = <<Call(EmptyID)>> /\ phase' = "generating"
               ELSE stack' = stack /\ phase' = "done"
       ELSE /\ phase' = "rejected"
            /\ UNCHANGED <<tree, stack>>
    /\ UNCHANGED <<scheme, states>>

Top == stack[Len(stack)]
Below == SubSeq(stack, 1, Len(stack) - 1)

\* generate finds the node and returns its hash to its caller.
Return ==
    /\ stack # << >>
    /\ Key(Top.id) \in DOMAIN tree
    /\ IF Below = << >>
       THEN stack' = << >> /\ phase' = "done"
       ELSE /\ stack' = [Below EXCEPT ![Len(Below)].children =
                           Append(@, tree[Key(Top.id)])]
            /\ UNCHANGED phase
    /\ UNCHANGED <<scheme, states, tree>>

\* Mutant: the half with bit 1 is hashed first.
Recurse_SwappedHalves ==
    /\ stack # << >>
    /\ Key(Top.id) \notin DOMAIN tree
    /\ Len(Top.children) < 2
    /\ Top.id.length <= MaxLength
    /\ stack' = Append(stack, Call(Split(Top.id)[2 - Len(Top.children)]))
    /\ UNCHANGED <<scheme, states, tree, phase>>

\* generate calls itself for the next half.  A call for an identifier longer
\* than all those of the scheme never returns and is not followed further.
Recurse ==
    /\ stack # << >>
    /\ Key(Top.id) \notin DOMAIN tree
    /\ Len(Top.children) < 2
    /\ Top.id.length <= MaxLength
    /\ stack' = Append(stack, Call(Split(Top.id)[Len(Top.children) + 1]))
    /\ UNCHANGED <<scheme, states, tree, phase>>

\* generate has the hashes of both halves.
StoreNode ==
    /\ stack # << >>
    /\ Key(Top.id) \notin DOMAIN tree
    /\ Len(Top.children) = 2
    /\ tree' = [k \in DOMAIN tree \cup {Key(Top.id)} |->
                  IF k \in DOMAIN tree THEN tree[k]
                  ELSE HashNode(Top.children[1], Top.children[2])]
    /\ UNCHANGED <<scheme, states, stack, phase>>

Generate == Return \/ Recurse \/ StoreNode

ShardTreeNext == CreateShardTree \/ Generate

\* generate is a plain recursive function: once called it does not pause.
ShardTreeSpec ==
    ShardTreeInit /\ [][ShardTreeNext]_shardTreeVars /\ WF_shardTreeVars(Generate)

-------------------------------------------------------------------------------
RecordsOf(id) == {states[i].record : i \in {j \in DOMAIN states : states[j].shard = id}}

(***************************************************************************)
(* A scheme is accepted exactly when every unit has one shard, and a       *)
(* single shard is denoted by the empty list only, in whatever order the   *)
(* identifiers are listed (sortedValid, a linear scan of the sorted and    *)
(* padded bytes).                                                          *)
(***************************************************************************)
SchemeValidity ==
    /\ phase = "rejected" => \/ ~InputsMatch
                             \/ Len(scheme) = 1
                             \/ scheme # << >> /\ ~Tiles(scheme)
    /\ phase \in {"generating", "done"} =>
         scheme = << >> \/ (Len(scheme) > 1 /\ Tiles(scheme))

(***************************************************************************)
(* generate computes exactly the nodes between the root and the shards,    *)
(* each from its halves in order.                                          *)
(***************************************************************************)
TreeComplete ==
    phase = "done" =>
        tree = TreeOf([id \in All(scheme) |-> CHOOSE r \in RecordsOf(id) : TRUE])

(***************************************************************************)
(* The keys of the tree tell its nodes apart and give their identifiers    *)
(* back, at byte boundaries too (encodeBitstring, decodeBitstring), and    *)
(* the halves of a node match it (Comparator).                             *)
(***************************************************************************)
KeysFaithful ==
    stack # << >> =>
        LET id == Top.id IN
        /\ DecodeBitstring(Key(id)) = id
        /\ \A i \in {1, 2} : LET half == Split(id)[i] IN
             /\ half = NewID(Append(Used(id), i - 1))
             /\ DecodeBitstring(Key(half)) = half
             /\ Matches(id, half.bits)

(***************************************************************************)
(* Every shard's certificate leads from its record to the root hash,       *)
(* whatever inputs the tree was built from (CreateShardTree, Certificate,  *)
(* ComputeCertificateHash).                                                *)
(***************************************************************************)
CertificatesComplete ==
    phase = "done" => \A id \in All(scheme) :
        /\ IsValidCertificate(Certificate(tree, id), id)
        /\ \E r \in RecordsOf(id) : ComputeCertificateHash(Certificate(tree, id), r) = RootHash(tree)

(***************************************************************************)
(* A certificate proves nothing else: with the sibling hashes of any node  *)
(* of the tree, for Certificate also serves the inner ones, only a shard's *)
(* own identifier and record lead to the root hash.                        *)
(***************************************************************************)
CertificatesSound ==
    phase = "done" =>
        \A node \in {id \in Nodes : Key(id) \in DOMAIN tree}, id \in Nodes, r \in Records :
            LET cert == [shard |-> id, siblings |-> SiblingHashes(tree, node)]
            IN  /\ IsValidCertificate(cert, id)
                /\ ComputeCertificateHash(cert, r) = RootHash(tree)
                => id \in All(scheme) /\ r \in RecordsOf(id)

(***************************************************************************)
(* CreateShardTree, once it has called generate, returns: the recursion,   *)
(* which only ends at leaves, is started only for schemes in which every   *)
(* path meets one.                                                         *)
(***************************************************************************)
Terminates == phase = "generating" ~> phase = "done"
===============================================================================

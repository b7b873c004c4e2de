------------------------------ MODULE RootNodes -------------------------------
(***************************************************************************)
(* The node list of a root trust base and the verification of signatures   *)
(* with it by concurrent callers (types/root_trust_base.go,                *)
(* crypto/secp256k1_verifier.go).                                          *)
(*                                                                         *)
(* NewTrustBase sorts its list; the decoder takes any: in any order, with  *)
(* identifiers twice and with nil entries.  A signature is looked up by    *)
(* binary search, and the verifier of the node found is made by the first  *)
(* caller that needs it, while others wait.                                *)
(*                                                                         *)
(* Identifiers are numbers.  A key is the number of its holder, or BadKey. *)
(* A signature is [by, over, bytes, v, lowS]: the key it was made with, if *)
(* it is over the data in question, its length and its recovery id,        *)
(* counted from the one it was made with.                                  *)
(***************************************************************************)
EXTENDS RootQuorum, Sequences, Functions

CONSTANTS Threads,       \* concurrent callers of VerifyQuorumSignatures
          BuiltLists,    \* lists of nodes given to NewTrustBase
          DecodedLists,  \* lists of nodes of decoded trust bases
          Thresholds,    \* configured thresholds; 0 is none
          SignatureMaps, \* functions from identifiers to signatures
          NilNode, BadKey

ASSUME RootNodesAssumption ==
    /\ Thresholds \subseteq Nat
    /\ \A list \in BuiltLists \cup DecodedLists :
         /\ Len(list) \in Nat /\ DOMAIN list = 1..Len(list)
         /\ \A i \in DOMAIN list : \/ list[i] = NilNode
                                   \/ list[i].id \in Nat /\ list[i].stake \in 0..MaxStake
    /\ \A m \in SignatureMaps : \A id \in DOMAIN m :
         m[id] \in [by : {m[id].by}, over : BOOLEAN, bytes : Nat, v : Nat, lowS : BOOLEAN]

VARIABLES nodes,      \* RootNodes; << >> before there is a trust base
          threshold,
          built,      \* the trust base was made by NewTrustBase
          once,       \* once[i]: "new", "running" or "done", for node i of the list
          verifier,   \* verifier[i]: the key of the cached verifier, BadKey for its error
          sigs,       \* sigs[t]: the map caller t verifies
          todo,       \* todo[t]: the identifiers of the map still to be visited
          sum,        \* sum[t]: the stake counted
          at,         \* at[t]: the signer being visited and the position of its node
          pc          \* pc[t]

cache == <<once, verifier>>
vars == <<nodes, threshold, built, cache, sigs, todo, sum, at, pc>>

-------------------------------------------------------------------------------
\* The signature the holder of key makes of the data.
SignHash(key) == [by |-> key, over |-> TRUE, bytes |-> 65, v |-> 0, lowS |-> TRUE]

\* Mutant: a signature without its recovery id passes.
VerifyHash_Compact(key, sig) ==
    /\ sig.bytes \in {64, 65}
    /\ sig.v <= 3
    /\ sig.lowS
    /\ sig.over /\ sig.v = 0 /\ sig.by = key

\* VerifyHash.  Another recovery id recovers another key.
VerifyHash(key, sig) ==
    /\ sig.bytes = 65
    /\ sig.v <= 3
    /\ sig.lowS
    /\ sig.over /\ sig.v = 0 /\ sig.by = key

\* The comparison of the binary search.
Compare(node, id) ==
    IF node = NilNode \/ node.id < id THEN -1 ELSE IF node.id = id THEN 0 ELSE 1

\* The position BinarySearchFunc stops at, counted from zero.
Search(list, id) ==
    LET from[s \in (0..Len(list)) \X (0..Len(list))] ==
          LET i == s[1] j == s[2] h == (i + j) \div 2
          IN  IF i >= j THEN i
              ELSE IF Compare(list[h + 1], id) < 0 THEN from[<<h + 1, j>>] ELSE from[<<i, h>>]
    IN  from[<<0, Len(list)>>]

\* The position of the node found, or 0.
getRootNode(id) ==
    LET i == Search(nodes, id) + 1
    IN  IF i \in DOMAIN nodes /\ Compare(nodes[i], id) = 0 THEN i ELSE 0

-------------------------------------------------------------------------------
Nobody == [node |-> 0, id |-> 0]

Init ==
    /\ nodes = << >>
    /\ threshold = 0
    /\ built = FALSE
    /\ once = << >>
    /\ verifier = << >>
    /\ sigs \in [Threads -> SignatureMaps]
    /\ todo = [t \in Threads |-> DOMAIN sigs[t]]
    /\ sum = [t \in Threads |-> 0]
    /\ at = [t \in Threads |-> Nobody]
    /\ pc = [t \in Threads |-> "next"]

Sorted(list) == \A i \in 2..Len(list) : list[i - 1].id <= list[i].id

StakesOf(list) == [i \in DOMAIN list |-> list[i].stake]

Fresh(list) ==
    /\ once' = [i \in DOMAIN list |-> "new"]
    /\ verifier' = [i \in DOMAIN list |-> BadKey]

\* NewTrustBase, of nodes that are not nil.  The sort is not stable: nodes of
\* one identifier end up in any order.
NewTrustBase ==
    /\ nodes = << >>
    /\ \E list \in BuiltLists, conf \in Thresholds :
        /\ \A i \in DOMAIN list : list[i] # NilNode
        /\ Constructible(StakesOf(list), conf)
        /\ \E p \in Bijection(DOMAIN list, DOMAIN list) :
             /\ nodes' = [i \in DOMAIN list |-> list[p[i]]]
             /\ Sorted(nodes')
        /\ threshold' = QuorumThreshold(StakesOf(list), conf)
        /\ Fresh(list)
    /\ built' = TRUE
    /\ UNCHANGED <<sigs, todo, sum, at, pc>>

\* UnmarshalCBOR: the list and the threshold as they were encoded.
UnmarshalCBOR ==
    /\ nodes = << >>
    /\ nodes' \in DecodedLists
    /\ threshold' \in Thresholds \ {0}
    /\ Fresh(nodes')
    /\ UNCHANGED <<built, sigs, todo, sum, at, pc>>

\* VerifyQuorumSignatures visits the next entry of the map, in any order; a
\* signer that is not found has no vote.
NextSignature(t) ==
    /\ nodes # << >>
    /\ pc[t] = "next"
    /\ \E id \in todo[t] :
        /\ todo' = [todo EXCEPT ![t] = @ \ {id}]
        /\ IF getRootNode(id) = 0
           THEN UNCHANGED <<at, pc>>
           ELSE /\ at' = [at EXCEPT ![t] = [node |-> getRootNode(id), id |-> id]]
                /\ pc' = [pc EXCEPT ![t] = "once"]
    /\ UNCHANGED <<nodes, threshold, built, cache, sigs, sum>>

\* SigVerifier: the first caller runs the initialisation.
EnterOnce(t) ==
    /\ pc[t] = "once"
    /\ once[at[t].node] = "new"
    /\ once' = [once EXCEPT ![at[t].node] = "running"]
    /\ pc' = [pc EXCEPT ![t] = "init"]
    /\ UNCHANGED <<nodes, threshold, built, verifier, sigs, todo, sum, at>>

\* Mutant: a failed initialisation does not count as one.
InitVerifier_Unfinished(t) ==
    /\ pc[t] = "init"
    /\ LET i == at[t].node
       IN  /\ verifier' = [verifier EXCEPT ![i] = nodes[i].key]
           /\ once' = [once EXCEPT ![i] = IF nodes[i].key = BadKey THEN @ ELSE "done"]
    /\ pc' = [pc EXCEPT ![t] = "verify"]
    /\ UNCHANGED <<nodes, threshold, built, sigs, todo, sum, at>>

\* It makes the verifier, or keeps the error.
InitVerifier(t) ==
    /\ pc[t] = "init"
    /\ LET i == at[t].node
       IN  /\ verifier' = [verifier EXCEPT ![i] = nodes[i].key]
           /\ once' = [once EXCEPT ![i] = "done"]
    /\ pc' = [pc EXCEPT ![t] = "verify"]
    /\ UNCHANGED <<nodes, threshold, built, sigs, todo, sum, at>>

\* Mutant: the others do not wait for the first caller.
AfterOnce_NoWait(t) ==
    /\ pc[t] = "once"
    /\ once[at[t].node] # "new"
    /\ pc' = [pc EXCEPT ![t] = "verify"]
    /\ UNCHANGED <<nodes, threshold, built, cache, sigs, todo, sum, at>>

\* The others wait until it is done.
AfterOnce(t) ==
    /\ pc[t] = "once"
    /\ once[at[t].node] = "done"
    /\ pc' = [pc EXCEPT ![t] = "verify"]
    /\ UNCHANGED <<nodes, threshold, built, cache, sigs, todo, sum, at>>

\* VerifySignature: with the cached verifier, unless it is an error.
CountVote(t) ==
    /\ pc[t] = "verify"
    /\ LET i == at[t].node
           key == verifier[i]
       IN  IF key # BadKey /\ VerifyHash(key, sigs[t][at[t].id])
           THEN sum' = [sum EXCEPT ![t] = Wrap(@ + nodes[i].stake)]
           ELSE sum' = sum
    /\ at' = [at EXCEPT ![t] = Nobody]
    /\ pc' = [pc EXCEPT ![t] = "next"]
    /\ UNCHANGED <<nodes, threshold, built, cache, sigs, todo>>

Return(t) ==
    /\ nodes # << >>
    /\ pc[t] = "next"
    /\ todo[t] = {}
    /\ pc' = [pc EXCEPT ![t] = IF sum[t] >= threshold THEN "quorum" ELSE "no quorum"]
    /\ UNCHANGED <<nodes, threshold, built, cache, sigs, todo, sum, at>>

Step(t) == NextSignature(t) \/ EnterOnce(t) \/ InitVerifier(t) \/ AfterOnce(t)
             \/ CountVote(t) \/ Return(t)

Next == NewTrustBase \/ UnmarshalCBOR \/ \E t \in Threads : Step(t)

\* Every caller runs on: the scheduler of the runtime starves none of them.
Spec == Init /\ [][Next]_vars /\ \A t \in Threads : WF_vars(Step(t))

-------------------------------------------------------------------------------
Returned(t) == pc[t] \in {"quorum", "no quorum"}

Members == {i \in DOMAIN nodes : nodes[i] # NilNode}

\* The members whose own signature is in the map of t as they have made it.
Signed(t) ==
    {i \in Members : /\ nodes[i].id \in DOMAIN sigs[t]
                     /\ nodes[i].key # BadKey
                     /\ sigs[t][nodes[i].id] = SignHash(nodes[i].key)}

(***************************************************************************)
(* A quorum is one: whatever list was decoded, members with different      *)
(* identifiers have signed with their own keys and hold the threshold.     *)
(* No vote counts twice and no altered signature counts                    *)
(* (VerifyQuorumSignatures, getRootNode, VerifyHash).                      *)
(***************************************************************************)
QuorumIsReal ==
    \A t \in Threads : pc[t] = "quorum" =>
        \E S \in SUBSET Signed(t) :
            /\ \A i, j \in S : nodes[i].id = nodes[j].id => i = j
            /\ Stake([i \in S |-> nodes[i].stake], S) >= threshold

Distinct == \A i, j \in Members : nodes[i].id = nodes[j].id => i = j

(***************************************************************************)
(* With a trust base that NewTrustBase has made of different nodes, every  *)
(* caller gets the answer of RootQuorum, in whatever order it visits the   *)
(* map and whoever else is just making a verifier.  With any other one,    *)
(* callers that verify the same map get the same answer                    *)
(* (VerifyQuorumSignatures, SigVerifier).                                  *)
(***************************************************************************)
VerdictDetermined ==
    \A t \in Threads : Returned(t) =>
        /\ built /\ Distinct =>
             (pc[t] = "quorum" <=>
                VerifyQuorumSignatures(StakesOf(nodes), threshold, Signed(t)))
        /\ \A u \in Threads : Returned(u) /\ sigs[t] = sigs[u] => pc[t] = pc[u]

(***************************************************************************)
(* Every verification that is called returns: no caller waits for a        *)
(* verifier that nobody makes, also when a key is not valid (SigVerifier). *)
(***************************************************************************)
VerificationsEnd == nodes # << >> ~> \A t \in Threads : Returned(t)
===============================================================================

--------------------------- MODULE StakeRegistration --------------------------
(***************************************************************************)
(* NewTrustBase alone, with the stakes its argument type admits: a list of *)
(* nodes of any stakes is assembled and a trust base is made of it, with   *)
(* or without a configured threshold.  NodeInfo.IsValid, which requires    *)
(* every stake to be 1, is not called on the way.                          *)
(***************************************************************************)
EXTENDS RootQuorum

CONSTANTS NodeIDs, Thresholds

VARIABLES nodes,      \* the list that is being assembled
          threshold   \* of the trust base made of it; 0 before that

vars == <<nodes, threshold>>

Init == nodes = << >> /\ threshold = 0

AddNode(n, stake) ==
    /\ threshold = 0
    /\ n \notin DOMAIN nodes
    /\ nodes' = [m \in DOMAIN nodes \cup {n} |-> IF m = n THEN stake ELSE nodes[m]]
    /\ UNCHANGED threshold

NewTrustBase(conf) ==
    /\ threshold = 0
    /\ Constructible(nodes, conf)
    /\ threshold' = QuorumThreshold(nodes, conf)
    /\ UNCHANGED nodes

Next == \/ \E n \in NodeIDs, stake \in 1..MaxStake : AddNode(n, stake)
        \/ \E conf \in Thresholds : NewTrustBase(conf)

Spec == Init /\ [][Next]_vars

(***************************************************************************)
(* The constructor's error message: "quorum threshold must be at least     *)
(* '2/3+1'" of the staked amount.                                          *)
(***************************************************************************)
AtLeastTwoThirdsPlusOne ==
    threshold # 0 => 3 * threshold > 2 * Stake(nodes, DOMAIN nodes)
===============================================================================

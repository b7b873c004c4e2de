---------------------------- MODULE PartitionView -----------------------------
(***************************************************************************)
(* Partition views and their authentication (types/partition_view.go,      *)
(* types/partition_view_auth.go).                                          *)
(*                                                                         *)
(* The root chain has certified the forests of some rounds.  A caller      *)
(* holds a candidate view, all the leaves of one partition, and an         *)
(* enclosing unicity certificate, both from anywhere: they start as honest *)
(* ones of any rounds and partitions and are changed step by step.  The    *)
(* caller may authenticate them at any time, keeps on changing its         *)
(* objects, and derives certificates from the authenticated view.          *)
(***************************************************************************)
EXTENDS Certification

CONSTANTS Chain,            \* the certified forests, one per root round
          Data, Confs,      \* records and configuration hashes of leaves
          ValidData,        \* records that are valid and within the limits of views
          Pins,             \* topologies callers pin; NoPins is none
          NoPins,
          MaxLeaves,        \* MaxPartitionViewLeaves
          MaxShardIDBits,   \* MaxPartitionViewShardIDBits
          MaxChanges        \* bound on the changes the caller makes

VARIABLES memory,   \* the views in memory: the caller's, and the private one
          uc,       \* the caller's enclosing certificate
          result,   \* << >>, or the one authenticated view
          derived,  \* << >>, or the last certificate derived from it
          changes   \* how often the caller has changed its objects

vars == <<memory, uc, result, derived, changes>>

Rounds == DOMAIN Chain
Seals == [r \in Rounds |-> [round |-> r, hash |-> UnicityRoot(Chain[r])]]

\* The seals the caller's SealVerifier accepts.
Certified == {Seals[r] : r \in Rounds}

HonestView(r, p) == [partition |-> p, leaves |-> Chain[r][p]]

\* The certificates the root chain has issued.
Issued == [r \in Rounds |-> [p \in DOMAIN Chain[r] |->
             [id \in IDsOf(Chain[r][p]) |-> Issue(Chain[r], p, id, Seals[r])]]]

Partitions == UNION {DOMAIN Chain[r] : r \in Rounds}

-------------------------------------------------------------------------------
\* PartitionViewLeafV1.validateBounds, with InputRecord.IsValid.
LeafBounds(leaf) == leaf.shard.length <= MaxShardIDBits /\ leaf.data \in ValidData

ValidateBounds(view) ==
    /\ view.partition # 0
    /\ Len(view.leaves) \in 1..MaxLeaves
    /\ \A i \in DOMAIN view.leaves : LeafBounds(view.leaves[i])

\* Mutant: the shards are expected in the order the scheme lists them.
CanonicalOrder_AsListed(scheme) == IF scheme = << >> THEN <<EmptyID>> ELSE scheme

CanonicalOrder(scheme) ==
    IF scheme = << >> THEN <<EmptyID>> ELSE SortedIDs(scheme)

\* CanonicalShardOrder returns no error.
HasOrder(scheme) ==
    /\ Len(scheme) <= MaxLeaves
    /\ IsValidScheme(scheme)
    /\ \A id \in All(scheme) : id.length <= MaxShardIDBits

Leaves == [shard : Nodes, data : ValidData, conf : Confs]

ShardsOf(leaves) == [i \in DOMAIN leaves |-> leaves[i].shard]

\* A forest of the root chain has all the shards of a valid scheme of each
\* partition but zero, in canonical order and within the bounds of views.
ASSUME ChainAssumption ==
    \A r \in Rounds :
        /\ IsFiniteSet(DOMAIN Chain[r]) /\ DOMAIN Chain[r] \subseteq Nat \ {0}
        /\ \A p \in DOMAIN Chain[r] : LET leaves == Chain[r][p] IN
             /\ leaves \in Seq(Leaves)
             /\ \E scheme \in {<< >>, ShardsOf(leaves)} :
                  HasOrder(scheme) /\ ShardsOf(leaves) = CanonicalOrder(scheme)

ASSUME DataAssumption == ValidData \subseteq Data

ASSUME BoundsAssumption ==
    /\ MaxLeaves \in Nat \ {0}
    /\ MaxShardIDBits \in Nat /\ MaxShardIDBits <= MaxLength

ASSUME PinsAssumption == \A pins \in Pins : pins.scheme \in Seq(Nodes)

\* confs maps the keys of shards to their configuration hashes.
ValidateStructure(view, p, topo) ==
    LET order == CanonicalOrder(topo.scheme) IN
    /\ ValidateBounds(view)
    /\ view.partition = p
    /\ HasOrder(topo.scheme)
    /\ Len(view.leaves) = Len(order)
    /\ \A i \in DOMAIN order :
         /\ view.leaves[i].shard = order[i]
         /\ Key(order[i]) \in DOMAIN topo.confs
              => view.leaves[i].conf = topo.confs[Key(order[i])]

\* VerifyTree; BuildShardTree makes the tree of the view's leaves.
VerifyTree(view, enclosing, p, topo) ==
    /\ ValidateStructure(view, p, topo)
    /\ enclosing.partition = view.partition
    /\ LET tree == ShardTreeOf(view.leaves) IN
       /\ EvalAuthPath(enclosing, RootHash(tree)) = enclosing.seal.hash
       /\ enclosing.shard \in IDsOf(view.leaves)
       /\ LET own == LeafOf(view.leaves, enclosing.shard) IN
          /\ IsValid(enclosing, view.partition, own.shard, own.conf)
          /\ enclosing.data = own.data
          /\ Certificate(tree, own.shard).siblings = enclosing.siblings

\* The shards of the leaves but the empty one, in the order of the leaves.
NonEmptyShards(leaves) ==
    LET shards[n \in 0..Len(leaves)] ==
          IF n = 0 THEN << >>
          ELSE IF leaves[n].shard.length > 0
               THEN Append(shards[n - 1], leaves[n].shard)
               ELSE shards[n - 1]
    IN  shards[Len(leaves)]

\* The topology the candidate claims: its own leaves.
ClaimedTopology(view) ==
    LET leaves == view.leaves
        keys == {Key(id) : id \in IDsOf(leaves)}
    IN  [scheme |-> NonEmptyShards(leaves),
         confs |-> [key \in keys |->
                      leaves[CHOOSE i \in DOMAIN leaves : Key(leaves[i].shard) = key].conf]]

\* Mutant: pins may leave shards out.
CheckCompletePins_Partial(topo) == HasOrder(topo.scheme)

CheckCompletePins(topo) ==
    /\ HasOrder(topo.scheme)
    /\ \A id \in All(topo.scheme) : Key(id) \in DOMAIN topo.confs

\* The shards are distinct, and a single one is the empty one.
Distinct(view) ==
    /\ Cardinality({Key(id) : id \in IDsOf(view.leaves)}) = Len(view.leaves)
    /\ Len(view.leaves) = 1 => view.leaves[1].shard.length = 0

\* AuthenticateView returns no error.
Authentic(view, enclosing, p, pins) ==
    /\ ValidateBounds(view)
    /\ Distinct(view)
    /\ pins # NoPins => CheckCompletePins(pins) /\ ValidateStructure(view, p, pins)
    /\ VerifyTree(view, enclosing, p, ClaimedTopology(view))
    /\ enclosing.seal \in Certified

-------------------------------------------------------------------------------
Candidate == 1
Handed == 3

\* Mutant: the view is not cloned.
Private_Shared == Candidate

\* The object Clone makes.
Private == 2

Init ==
    /\ \E r, s \in Rounds : \E p \in DOMAIN Chain[r], q \in DOMAIN Chain[s] :
         /\ memory = [ref \in {Candidate, Private, Handed} |-> HonestView(r, p)]
         /\ \E id \in IDsOf(Chain[s][q]) : uc = Issued[s][q][id]
    /\ result = << >>
    /\ derived = << >>
    /\ changes = 0

\* The other leaves a view may be changed to have.
Changed(leaves) ==
    {[leaves EXCEPT ![i].data = d] : i \in DOMAIN leaves, d \in Data}
      \cup {[leaves EXCEPT ![i].conf = c] : i \in DOMAIN leaves, c \in Confs}
      \cup {[leaves EXCEPT ![i] = leaves[j], ![j] = leaves[i]] : i, j \in DOMAIN leaves}
      \cup {SubSeq(leaves, 1, i - 1) \o SubSeq(leaves, i + 1, Len(leaves)) : i \in DOMAIN leaves}
      \cup {[leaves EXCEPT ![i].shard = h] :
              i \in DOMAIN leaves, h \in UNION {{leaves[j].shard, Split(leaves[j].shard)[2]} :
                                                  j \in DOMAIN leaves}}
      \cup {Append(leaves, leaves[i]) : i \in DOMAIN leaves}

\* The caller changes a view it has: its candidate or one it was handed out.
ChangeView(ref) ==
    /\ changes < MaxChanges
    /\ \/ \E leaves \in Changed(memory[ref].leaves) :
            memory' = [memory EXCEPT ![ref].leaves = leaves]
       \/ \E p \in Partitions \cup {0} : memory' = [memory EXCEPT ![ref].partition = p]
    /\ changes' = changes + 1
    /\ UNCHANGED <<uc, result, derived>>

\* The caller takes a part of its certificate from any other, or invents it.
ChangeUC ==
    /\ changes < MaxChanges
    /\ \/ \E r \in Rounds : \E p \in DOMAIN Chain[r] : \E id \in IDsOf(Chain[r][p]) :
            LET other == Issued[r][p][id] IN
            \/ uc' = [uc EXCEPT !.shard = other.shard]
            \/ uc' = [uc EXCEPT !.siblings = other.siblings]
            \/ uc' = [uc EXCEPT !.shard = other.shard, !.siblings = other.siblings]
            \/ uc' = [uc EXCEPT !.data = other.data, !.conf = other.conf]
            \/ uc' = [uc EXCEPT !.partition = other.partition]
            \/ uc' = [uc EXCEPT !.steps = other.steps]
            \/ uc' = [uc EXCEPT !.seal = other.seal]
       \/ /\ ValidateStructure(memory[Candidate], memory[Candidate].partition,
                                ClaimedTopology(memory[Candidate]))
          /\ uc' = [uc EXCEPT !.seal.hash =
                       EvalAuthPath(uc, RootHash(ShardTreeOf(memory[Candidate].leaves)))]
    /\ changes' = changes + 1
    /\ UNCHANGED <<memory, result, derived>>

\* AuthenticateView of the caller's objects, with or without pins.
AuthenticateView(p, pins) ==
    /\ result = << >>
    /\ Authentic(memory[Candidate], uc, p, pins)
    /\ memory' = [memory EXCEPT ![Private] = memory[Candidate], ![Handed] = memory[Candidate]]
    /\ result' = <<[partition |-> p, view |-> Private, pins |-> pins,
                    tree |-> ShardTreeOf(memory[Candidate].leaves),
                    seal |-> uc.seal, steps |-> uc.steps]>>
    /\ UNCHANGED <<uc, derived, changes>>

\* Mutant: the path of the enclosing certificate is used for every shard.
CertificateOf_Enclosing(a, id) ==
    LET leaf == LeafOf(memory[a.view].leaves, id) IN
    [shard |-> id, siblings |-> uc.siblings, data |-> leaf.data, conf |-> leaf.conf,
     partition |-> a.partition, steps |-> a.steps, seal |-> a.seal]

\* AuthenticatedPartitionView.certificate, its parts being copies.
CertificateOf(a, id) ==
    LET leaf == LeafOf(memory[a.view].leaves, id) IN
    [shard |-> id, siblings |-> Certificate(a.tree, id).siblings, data |-> leaf.data,
     conf |-> leaf.conf, partition |-> a.partition, steps |-> a.steps, seal |-> a.seal]

Derive(id) ==
    /\ result # << >>
    /\ id \in IDsOf(memory[result[1].view].leaves)
    /\ derived' = <<CertificateOf(result[1], id)>>
    /\ UNCHANGED <<memory, uc, result, changes>>

Next == \/ ChangeView(Candidate)
        \/ result # << >> /\ ChangeView(Handed)
        \/ ChangeUC
        \/ \E p \in Partitions, pins \in Pins : AuthenticateView(p, pins)
        \/ \E id \in UNION {IDsOf(memory[ref].leaves) : ref \in DOMAIN memory} : Derive(id)

Spec == Init /\ [][Next]_vars

-------------------------------------------------------------------------------
(***************************************************************************)
(* An authenticated view is, now and after whatever the caller does to its *)
(* objects, what one certified round has committed to for the expected     *)
(* partition: all of its shards, in order, and no part of another round's  *)
(* or partition's (AuthenticateView).                                      *)
(***************************************************************************)
AuthenticatedIsCommitted ==
    result # << >> => LET a == result[1] IN
        \E r \in Rounds : /\ a.seal = Seals[r]
                          /\ a.partition \in DOMAIN Chain[r]
                          /\ memory[a.view] = HonestView(r, a.partition)

(***************************************************************************)
(* Pins that are used are complete: a view authenticated under a pinned    *)
(* topology has its shards and its configuration hashes, whatever the      *)
(* round has committed to (WithPinnedTopology, checkCompletePins).         *)
(***************************************************************************)
PinsHold ==
    result # << >> /\ result[1].pins # NoPins =>
        LET view == memory[result[1].view] pins == result[1].pins IN
        /\ IDsOf(view.leaves) = All(pins.scheme)
        /\ \A i \in DOMAIN view.leaves : LET key == Key(view.leaves[i].shard) IN
             key \in DOMAIN pins.confs /\ view.leaves[i].conf = pins.confs[key]

(***************************************************************************)
(* Every certificate derived from an authenticated view is the very one    *)
(* the root chain issues for the shard, and verifies (Certificate,         *)
(* UnicityCertificate.Verify).                                             *)
(***************************************************************************)
DerivedIsIssued ==
    derived # << >> => LET c == derived[1] IN
        /\ c = Issued[c.seal.round][c.partition][c.shard]
        /\ Verify(c, c.partition, c.shard, c.conf, Certified)

(***************************************************************************)
(* The honest view of a round with the certificate of any of its shards is *)
(* authenticated, also under pins that list the same shards in any order.  *)
(***************************************************************************)
HonestAccepted ==
    result = << >> => \A r \in Rounds : \A p \in DOMAIN Chain[r] :
        \A id \in IDsOf(Chain[r][p]) :
            memory[Candidate] = HonestView(r, p) /\ uc = Issued[r][p][id] =>
                \A pins \in Pins :
                    \/ pins = NoPins
                    \/ /\ All(pins.scheme) = IDsOf(Chain[r][p])
                       /\ CheckCompletePins(pins)
                       /\ \A s \in All(pins.scheme) :
                            LeafOf(Chain[r][p], s).conf = pins.confs[Key(s)]
                    => Authentic(memory[Candidate], uc, p, pins)

(***************************************************************************)
(* A certificate that verifies, wherever its parts are from, is of a leaf  *)
(* the round of its seal has committed to (UnicityCertificate.Verify).     *)
(***************************************************************************)
VerifiedIsCommitted ==
    \A p \in Partitions :
        Verify(uc, p, uc.shard, AnyConf, Certified) =>
            \E i \in DOMAIN Chain[uc.seal.round][p] :
                Chain[uc.seal.round][p][i] =
                    [shard |-> uc.shard, data |-> uc.data, conf |-> uc.conf]
===============================================================================

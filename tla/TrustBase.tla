------------------------------ MODULE TrustBase -------------------------------
(***************************************************************************)
(* The chain of root trust bases (types/root_trust_base.go): committees    *)
(* build the trust base of the next epoch with NewTrustBase, their members *)
(* Sign it, and verifiers Verify every trust base against the one they     *)
(* hold before they adopt it.                                              *)
(*                                                                         *)
(* A trust base is split as SigBytes splits it: the body, which is what is *)
(* signed, and the Signatures map.  An entry is both, and Hash covers both.*)
(* The map is abstracted to the set of node identifiers it has a value for;*)
(* the value of node n verifies over body b iff n signed b.                *)
(*                                                                         *)
(* The members of Faulty sign anything at any time.  The library leaves it *)
(* to the root nodes what they sign: the honest ones are assumed to sign   *)
(* only what NewTrustBase built and, of one network and epoch, only one    *)
(* body (HonestRule).                                                      *)
(***************************************************************************)
EXTENDS RootQuorum, Sequences

CONSTANTS NodeIDs,      \* root node identifiers
          Faulty,       \* those that do not follow HonestRule
          Verifiers,    \* parties that follow the chain of trust bases
          Networks,
          Committees,   \* the committees epochs may have
          Thresholds,   \* configured quorum thresholds; 0 is none
          Headers,      \* the networks, epochs and start rounds that are proposed
          MaxBodies,    \* bound on the bodies the honest nodes sign
          NoHash        \* the absent PreviousEntryHash

ASSUME VerifiersAssumption == Verifiers # {}

ASSUME TrustBaseAssumption ==
    /\ Faulty \subseteq NodeIDs
    /\ IsFiniteSet(NodeIDs)
    /\ Headers \subseteq [network : Networks, epoch : Nat, start : Nat]
    /\ Thresholds \subseteq Nat
    /\ \A c \in Committees :
         /\ DOMAIN c \subseteq NodeIDs
         /\ \A n \in DOMAIN c : c[n] \in 1..MaxStake
         /\ FaultyMinority(c, Faulty)
         /\ NoOverflow(c)

VARIABLES genesis,      \* the configured body of epoch 1
          signed,       \* the pairs <<n, b>>: honest node n has signed body b
          history       \* history[v]: the entries v has verified, genesis first

vars == <<genesis, signed, history>>

Honest == NodeIDs \ Faulty

\* The signature of n over b in a map verifies: a faulty node's always may.
SignersOf(b) == Faulty \cup {n \in Honest : <<n, b>> \in signed}

\* Mutant: the signatures are left out of the hash, as SigBytes leaves them out.
Hash_NoSignatures(entry) == entry.body

Hash(entry) == entry

Adopted == UNION {{history[v][i] : i \in DOMAIN history[v]} : v \in Verifiers}

\* The committees and configured thresholds NewTrustBase makes no error of.
Configurations == {x \in Committees \X Thresholds : Constructible(x[1], x[2])}

\* Mutant: the default threshold is compared with the bounds but not stored.
NewTrustBase_NoDefault(prevHashes) ==
    {[network |-> h.network, epoch |-> h.epoch, start |-> h.start, committee |-> x[1],
      threshold |-> x[2], prev |-> p] :
        h \in Headers, p \in prevHashes, x \in Configurations}

(***************************************************************************)
(* The bodies NewTrustBase makes of its arguments and options, prev being  *)
(* the value of WithPreviousTrustBaseHash.                                 *)
(***************************************************************************)
NewTrustBase(prevHashes) ==
    {[network |-> h.network, epoch |-> h.epoch, start |-> h.start, committee |-> x[1],
      threshold |-> QuorumThreshold(x[1], x[2]), prev |-> p] :
        h \in Headers, p \in prevHashes, x \in Configurations}

(***************************************************************************)
(* A body that no NewTrustBase made but the faulty nodes encoded: the      *)
(* decoder accepts any threshold.                                          *)
(***************************************************************************)
Forged(prevHashes) ==
    {[network |-> h.network, epoch |-> h.epoch, start |-> h.start, committee |-> c,
      threshold |-> 0, prev |-> p] :
        h \in Headers, c \in Committees, p \in prevHashes}

\* Mutant: an epoch may start in the round its predecessor started in.
IsValid_StartNotBefore(b, prev) ==
    IF prev = << >>
    THEN b.epoch = 1
    ELSE LET p == prev[Len(prev)] IN
         /\ b.network = p.body.network
         /\ b.epoch = p.body.epoch + 1
         /\ b.start >= p.body.start
         /\ b.prev = Hash(p)

\* Mutant: the networks are not compared.
IsValid_AnyNetwork(b, prev) ==
    IF prev = << >>
    THEN b.epoch = 1
    ELSE LET p == prev[Len(prev)] IN
         /\ b.epoch = p.body.epoch + 1
         /\ b.start > p.body.start
         /\ b.prev = Hash(p)

(***************************************************************************)
(* IsValid and VerifySignatures of body b with signature map sigs; prev is *)
(* the empty sequence (the nil pointer) or the one that ends in the entry  *)
(* the verifier holds.                                                     *)
(***************************************************************************)
IsValid(b, prev) ==
    IF prev = << >>
    THEN b.epoch = 1
    ELSE LET p == prev[Len(prev)] IN
         /\ b.network = p.body.network
         /\ b.epoch = p.body.epoch + 1
         /\ b.start > p.body.start
         /\ b.prev = Hash(p)

\* Mutant: every trust base is verified as the genesis is, with its own committee.
Authority_Self(b, prev) == b

\* The body whose committee and threshold decide over b.
Authority(b, prev) == IF b.epoch = 1 THEN b ELSE prev[Len(prev)].body

VerifySignatures(b, sigs, prev) ==
    /\ b.epoch # 1 => prev # << >>
    /\ LET tb == Authority(b, prev)
       IN  VerifyQuorumSignatures(tb.committee, tb.threshold, sigs \cap SignersOf(b))

-------------------------------------------------------------------------------
\* The honest nodes have signed the genesis file that is distributed.
Init ==
    /\ genesis \in NewTrustBase({NoHash})
    /\ signed = Honest \X {genesis}
    /\ history = [v \in Verifiers |-> << >>]

HonestRule(n, b) ==
    \A s \in signed : s[1] = n => \/ s[2] = b
                                  \/ s[2].network # b.network
                                  \/ s[2].epoch # b.epoch

\* An honest node builds the trust base that follows an entry and signs it.
Sign(n) ==
    \E b \in NewTrustBase({Hash(e) : e \in Adopted}) :
        /\ Cardinality({s[2] : s \in signed} \cup {b}) <= MaxBodies
        /\ HonestRule(n, b)
        /\ signed' = signed \cup {<<n, b>>}
        /\ UNCHANGED <<genesis, history>>

\* A verifier starts from its configured genesis trust base.
LoadGenesis(v) ==
    /\ history[v] = << >>
    /\ IsValid(genesis, << >>)
    /\ \E sigs \in SUBSET NodeIDs :
        /\ VerifySignatures(genesis, sigs, << >>)
        /\ history' = [history EXCEPT ![v] = <<[body |-> genesis, sigs |-> sigs]>>]
    /\ UNCHANGED <<genesis, signed>>

\* A verifier is given a trust base and verifies it against its latest one.
Adopt(v) ==
    /\ history[v] # << >>
    /\ \E b \in {s[2] : s \in signed} \cup Forged({Hash(e) : e \in Adopted}) :
        /\ IsValid(b, history[v])
        /\ \E sigs \in SUBSET NodeIDs :
            /\ VerifySignatures(b, sigs, history[v])
            /\ history' = [history EXCEPT ![v] = Append(@, [body |-> b, sigs |-> sigs])]
    /\ UNCHANGED <<genesis, signed>>

Next == \/ \E n \in Honest : Sign(n)
        \/ \E v \in Verifiers : LoadGenesis(v) \/ Adopt(v)

Spec == Init /\ [][Next]_vars

-------------------------------------------------------------------------------
\* Every verifier's entries are trust bases of the committees, and what honest
\* nodes sign was built by NewTrustBase.
IsBody(b) ==
    /\ DOMAIN b = {"network", "epoch", "start", "committee", "threshold", "prev"}
    /\ b.network \in Networks
    /\ b.epoch \in Nat
    /\ b.start \in Nat
    /\ b.committee \in Committees
    /\ b.threshold \in Nat

\* A body as NewTrustBase returns it.
IsBuilt(b) == IsBody(b) /\ b.threshold # 0

IsEntry(e) == /\ DOMAIN e = {"body", "sigs"}
              /\ IsBody(e.body)
              /\ e.sigs \subseteq NodeIDs

IsSeq(h) == h \in Seq({h[i] : i \in DOMAIN h})

TypeOK ==
    /\ IsBuilt(genesis)
    /\ \A s \in signed : s = <<s[1], s[2]>> /\ s[1] \in Honest /\ IsBuilt(s[2])
    /\ DOMAIN history = Verifiers
    /\ \A v \in Verifiers : /\ IsSeq(history[v])
                            /\ \A i \in DOMAIN history[v] : IsEntry(history[v][i])

(***************************************************************************)
(* Two verifiers never hold different trust bases of one epoch, whatever   *)
(* the faulty nodes sign and whatever quorums the two were shown (Verify,  *)
(* VerifySignatures).                                                      *)
(***************************************************************************)
Agreement ==
    \A v, w \in Verifiers : \A i \in DOMAIN history[v] \cap DOMAIN history[w] :
        history[v][i].body = history[w][i].body

(***************************************************************************)
(* Hash covers the signatures: verifiers that have both adopted an epoch   *)
(* hold the same entries of all earlier epochs, the signature maps         *)
(* included, although each may have been shown another quorum.             *)
(***************************************************************************)
PrefixIdentical ==
    \A v, w \in Verifiers : \A i \in DOMAIN history[v] \cap DOMAIN history[w] :
        \A j \in 1..(i - 1) : history[v][j] = history[w][j]

(***************************************************************************)
(* The trust base of epoch i is at position i, every entry belongs to the  *)
(* network of the genesis and starts after its predecessor: a round has    *)
(* one responsible epoch (IsValid).                                        *)
(***************************************************************************)
HistoryWellFormed ==
    \A v \in Verifiers : \A i \in DOMAIN history[v] :
        /\ history[v][i].body.epoch = i
        /\ history[v][i].body.network = genesis.network
        /\ \A j \in 1..(i - 1) : history[v][j].body.start < history[v][i].body.start

(***************************************************************************)
(* Verify does not look at the threshold of the trust base it accepts, and *)
(* the decoder accepts any: still no verifier ever relies on a threshold   *)
(* of two thirds of the stake or less, because each one was built by       *)
(* NewTrustBase and vouched for by an honest member of the epoch before.   *)
(***************************************************************************)
ThresholdTwoThirds ==
    \A v \in Verifiers : \A i \in DOMAIN history[v] :
        SoundThreshold(history[v][i].body.committee, history[v][i].body.threshold)

-------------------------------------------------------------------------------
(***************************************************************************)
(* The trust bases implement the one chain of EpochChain: the chain is the *)
(* bodies of a verifier that has adopted most, and what a verifier has     *)
(* adopted is as long as its history.                                      *)
(***************************************************************************)
Longest == CHOOSE v \in Verifiers :
             \A w \in Verifiers : Len(history[w]) <= Len(history[v])

LongestChain == [i \in 1..Len(history[Longest]) |-> history[Longest][i].body]

AdoptedLengths == [v \in Verifiers |-> Len(history[v])]

Chain == INSTANCE EpochChain WITH chain <- LongestChain, seen <- AdoptedLengths

ImplementsEpochChain == Chain!Spec

-------------------------------------------------------------------------------
(***************************************************************************)
(* The doc comment of Verify says that the signatures of the current epoch *)
(* must be valid and reach quorum, for all trust bases.                    *)
(***************************************************************************)
CurrentEpochSigned ==
    \A v \in Verifiers : \A i \in DOMAIN history[v] :
        LET e == history[v][i] IN
        VerifyQuorumSignatures(e.body.committee, e.body.threshold,
                               e.sigs \cap SignersOf(e.body))
===============================================================================

----------------------------- MODULE UnicitySeal ------------------------------
(***************************************************************************)
(* Unicity seals and the seal verifiers that bind them to a root epoch     *)
(* (types/unicity_seal.go, TrustBaseSealVerifier and                       *)
(* TrustBaseSealVerifierUntil in types/partition_view.go), and the trust   *)
(* base a proof is verified with (types/tx_record.go).                     *)
(*                                                                         *)
(* The root committee of an epoch signs one seal per root round.  Verifiers*)
(* hold a prefix of the trust base history and check seals of any age with *)
(* it.  The keys of a committee that has been relieved may leak: whoever   *)
(* has them signs any seal of that epoch from then on.                     *)
(*                                                                         *)
(* Which seals the nodes sign is not decided in this library: an honest    *)
(* node is assumed to sign for the current round only, for the epoch that  *)
(* round belongs to, and once.                                             *)
(***************************************************************************)
EXTENDS RootQuorum, Sequences

CONSTANTS NodeIDs, Faulty,
          TrustBases,   \* the trust bases of epochs 1, 2, ...
          Networks, Hashes,
          MaxRound,     \* bound on the root round
          MaxAccepted   \* bound on the seals the verifier keeps

Epochs == 1..Len(TrustBases)

ASSUME SealAssumption ==
    /\ IsFiniteSet(NodeIDs) /\ Faulty \subseteq NodeIDs
    /\ MaxRound \in Nat \ {0}
    /\ Len(TrustBases) \in Nat \ {0}
    /\ \A e, f \in Epochs : e < f => TrustBases[e].start < TrustBases[f].start
    /\ \A e \in Epochs :
         LET tb == TrustBases[e] IN
         /\ tb.epoch = e /\ tb.start \in Nat /\ tb.network \in Networks
         /\ DOMAIN tb.committee \subseteq NodeIDs
         /\ \A n \in DOMAIN tb.committee : tb.committee[n] \in 1..MaxStake
         /\ FaultyMinority(tb.committee, Faulty)
         /\ NoOverflow(tb.committee)
         /\ tb.threshold \in Nat /\ SoundThreshold(tb.committee, tb.threshold)

VARIABLES round,        \* the root round being sealed
          signed,       \* pairs <<node, seal>> of the honest nodes
          leaked,       \* the epochs whose committee's keys are out
          known,        \* how many trust bases the verifier has authenticated
          accepted      \* what the verifier has accepted, and how

vars == <<round, signed, leaked, known, accepted>>

Honest == NodeIDs \ Faulty

\* The epoch a round belongs to.
EpochOf(r) == CHOOSE e \in Epochs : /\ TrustBases[e].start <= r
                                    /\ e < Len(TrustBases) => r < TrustBases[e + 1].start

Seals == [network : Networks, epoch : Epochs, round : 0..MaxRound, hash : Hashes]

\* All who may have put a valid signature on s: node identifiers of the
\* committee of epoch e.
SignersOf(s, e) ==
    IF e \in leaked THEN NodeIDs
    ELSE Faulty \cup {n \in Honest : <<n, s>> \in signed}

\* Mutant: the round number is not checked.
SealVerify_AnyRound(s, e, sigs) ==
    /\ sigs # {}
    /\ VerifyQuorumSignatures(TrustBases[e].committee, TrustBases[e].threshold,
                              sigs \cap SignersOf(s, e))

\* UnicitySeal.Verify: the sanity checks and the quorum.
SealVerify(s, e, sigs) ==
    /\ s.round >= 1
    /\ sigs # {}
    /\ VerifyQuorumSignatures(TrustBases[e].committee, TrustBases[e].threshold,
                              sigs \cap SignersOf(s, e))

\* Mutant: a seal of the first round of the next epoch passes.
VerifySeal_EndInclusive(s, e, end, sigs) ==
    /\ s.network = TrustBases[e].network
    /\ s.epoch = TrustBases[e].epoch
    /\ s.round >= TrustBases[e].start
    /\ end # 0 => s.round <= end
    /\ SealVerify(s, e, sigs)

\* trustBaseSealVerifier.VerifySeal with the trust base of epoch e; end is the
\* start of the next epoch, or 0 when it is not known.
VerifySeal(s, e, end, sigs) ==
    /\ s.network = TrustBases[e].network
    /\ s.epoch = TrustBases[e].epoch
    /\ s.round >= TrustBases[e].start
    /\ end # 0 => s.round < end
    /\ SealVerify(s, e, sigs)

-------------------------------------------------------------------------------
Init ==
    /\ round = 1
    /\ signed = {}
    /\ leaked = {}
    /\ known = 1
    /\ accepted = {}

NextRound ==
    /\ round < MaxRound
    /\ round' = round + 1
    /\ UNCHANGED <<signed, leaked, known, accepted>>

Sign(n) ==
    \E s \in Seals :
        /\ s.round = round
        /\ s.epoch = EpochOf(round)
        /\ s.network = TrustBases[s.epoch].network
        /\ \A t \in signed : t[1] = n => t[2].round # round
        /\ signed' = signed \cup {<<n, s>>}
        /\ UNCHANGED <<round, leaked, known, accepted>>

\* The committee of epoch e has been relieved and its keys get out.
Leak(e) ==
    /\ e \notin leaked
    /\ EpochOf(round) > e
    /\ leaked' = leaked \cup {e}
    /\ UNCHANGED <<round, signed, known, accepted>>

\* The verifier authenticates the trust base of the next epoch.
LearnTrustBase ==
    /\ known < Len(TrustBases)
    /\ EpochOf(round) > known
    /\ known' = known + 1
    /\ UNCHANGED <<round, signed, leaked, accepted>>

(***************************************************************************)
(* The verifier is given a seal.  It looks up the trust base of the seal's *)
(* epoch and uses the boundary when its history provides it; a caller may  *)
(* also do without.  The map it is given has all the signatures there are. *)
(***************************************************************************)
Accept(s) ==
    /\ Cardinality(accepted) < MaxAccepted
    /\ \E e \in 1..known :
       \E end \in {0} \cup (IF e < known THEN {TrustBases[e + 1].start} ELSE {}) :
        /\ VerifySeal(s, e, end, SignersOf(s, e))
        /\ accepted' = accepted \cup
             {[seal |-> s, bounded |-> end # 0, current |-> e \notin leaked]}
        /\ UNCHANGED <<round, signed, leaked, known>>

(***************************************************************************)
(* TxRecordProof.Verify: the trust base is the one the seal names, neither *)
(* boundaries nor networks are compared (the inclusion in the block is the *)
(* matter of Block).                                                       *)
(***************************************************************************)
AcceptProof(s) ==
    /\ Cardinality(accepted) < MaxAccepted
    /\ s.epoch \in 1..known
    /\ SealVerify(s, s.epoch, SignersOf(s, s.epoch))
    /\ accepted' = accepted \cup
         {[seal |-> s, bounded |-> FALSE, current |-> s.epoch \notin leaked]}
    /\ UNCHANGED <<round, signed, leaked, known>>

Next == \/ NextRound
        \/ \E n \in Honest : Sign(n)
        \/ \E e \in Epochs : Leak(e)
        \/ LearnTrustBase
        \/ \E s \in Seals : Accept(s) \/ AcceptProof(s)

Spec == Init /\ [][Next]_vars

-------------------------------------------------------------------------------
TypeOK ==
    /\ round \in 0..MaxRound
    /\ signed \subseteq Honest \X Seals
    /\ leaked \subseteq Epochs
    /\ known \in Epochs
    /\ accepted \subseteq [seal : {s \in Seals : s.round >= 1},
                           bounded : BOOLEAN, current : BOOLEAN]

(***************************************************************************)
(* An accepted seal is assured when it was checked with the end boundary,  *)
(* or before the keys of its epoch got out.                                *)
(***************************************************************************)
Assured(a) == a.bounded \/ a.current

(***************************************************************************)
(* Two assured seals of one round have one hash, as long as the keys of    *)
(* the epoch that round belongs to are safe: neither faulty nodes nor the  *)
(* leaked keys of an earlier epoch certify another hash for it             *)
(* (VerifySeal, TrustBaseSealVerifierUntil, TxRecordProof.Verify).         *)
(***************************************************************************)
OneSealPerRound ==
    \A a, b \in accepted :
        /\ a.seal.round = b.seal.round
        /\ EpochOf(a.seal.round) \notin leaked
        /\ Assured(a) /\ Assured(b)
        => a.seal = b.seal
===============================================================================

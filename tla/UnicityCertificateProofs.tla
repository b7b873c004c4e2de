----------------------- MODULE UnicityCertificateProofs -----------------------
(***************************************************************************)
(* Seals: one hash per root round, for any committees, epochs and rounds   *)
(* that SealAssumption admits, and whichever keys of relieved committees   *)
(* leak.  Certificates: what the local comparison of two of them           *)
(* guarantees about all that a node accepts, and that it never refuses a   *)
(* correct root chain.                                                     *)
(***************************************************************************)
EXTENDS UnicityCertificate, UnicitySeal, RootQuorumProofs

-------------------------------------------------------------------------------
(***************************************************************************)
(* The inductive invariant.  What was accepted stays explained although    *)
(* keys leak later: either nodes with good keys are a quorum (Certified),  *)
(* or the keys were out at the time, and then the boundary ties the seal   *)
(* to a round of the epoch whose keys they are.                            *)
(***************************************************************************)
SignOnce ==
    \A n \in Honest : \A s, t \in Seals :
        <<n, s>> \in signed /\ <<n, t>> \in signed /\ s.round = t.round => s = t

SignedForRound ==
    \A n \in Honest : \A s \in Seals :
        <<n, s>> \in signed => s.epoch = EpochOf(s.round)

\* The nodes that may have signed s although no keys are out.
GoodSigners(s) == Faulty \cup {n \in Honest : <<n, s>> \in signed}

Certified(s) ==
    \E S \in SUBSET GoodSigners(s) :
        Stake(TrustBases[s.epoch].committee, S) >= TrustBases[s.epoch].threshold

Explained(a) ==
    \/ Certified(a.seal)
    \/ /\ ~a.current
       /\ a.bounded => a.seal.epoch = EpochOf(a.seal.round) /\ a.seal.epoch \in leaked

Backed == \A a \in accepted : Explained(a)

Inv == TypeOK /\ SignOnce /\ SignedForRound /\ Backed

-------------------------------------------------------------------------------
(***************************************************************************)
(* The committees of the trust bases are what the lemmas on quorums ask    *)
(* for.                                                                    *)
(***************************************************************************)
LEMMA TrustBaseFacts ==
    ASSUME NEW e \in Epochs
    PROVE  LET tb == TrustBases[e] IN
           /\ IsCommittee(tb.committee) /\ NoOverflow(tb.committee)
           /\ FaultyMinority(tb.committee, Faulty)
           /\ tb.threshold \in Nat /\ SoundThreshold(tb.committee, tb.threshold)
           /\ tb.epoch = e /\ tb.start \in Nat
BY SealAssumption, FS_Subset DEF IsCommittee

(***************************************************************************)
(* A round between the start of an epoch and the start of the next belongs *)
(* to that epoch only: the boundaries VerifySeal compares with.            *)
(***************************************************************************)
LEMMA BoundariesDetermineEpoch ==
    ASSUME NEW e \in Epochs, NEW r \in Nat, e < Len(TrustBases),
           TrustBases[e].start <= r, r < TrustBases[e + 1].start
    PROVE  EpochOf(r) = e
<1> DEFINE Within(f) == /\ TrustBases[f].start <= r
                        /\ f < Len(TrustBases) => r < TrustBases[f + 1].start
<1>1. Epochs = 1..Len(TrustBases) /\ Len(TrustBases) \in Nat
  BY SealAssumption DEF Epochs
<1>2. \A f, g \in Epochs : f < g => TrustBases[f].start < TrustBases[g].start
  BY SealAssumption
<1>3. \A f \in Epochs : TrustBases[f].start \in Nat
  BY TrustBaseFacts
<1>4. ASSUME NEW f \in Epochs, Within(f)
      PROVE  f = e
  <2>1. CASE f < e
    <3>1. f + 1 \in Epochs /\ f < Len(TrustBases) /\ (f + 1 = e \/ f + 1 < e)
      BY <1>1, <2>1
    <3>2. TrustBases[f + 1].start <= TrustBases[e].start
      BY <1>2, <1>3, <3>1
    <3>3. QED
      BY <1>3, <1>4, <3>1, <3>2
  <2>2. CASE e < f
    <3>1. e + 1 \in Epochs /\ (e + 1 = f \/ e + 1 < f)
      BY <1>1, <2>2
    <3>2. TrustBases[e + 1].start <= TrustBases[f].start
      BY <1>2, <1>3, <3>1
    <3>3. QED
      BY <1>3, <1>4, <3>1, <3>2
  <2>3. QED
    BY <1>1, <2>1, <2>2
<1>5. Within(e)
  OBVIOUS
<1>6. EpochOf(r) = CHOOSE f \in Epochs : Within(f)
  BY DEF EpochOf
<1> HIDE DEF Within
<1>7. QED
  BY <1>4, <1>5, <1>6

-------------------------------------------------------------------------------
(***************************************************************************)
(* What a verifier accepts is explained at that time: Accept by VerifySeal *)
(* with the boundary or without, AcceptProof without.                      *)
(***************************************************************************)
LEMMA VerifiedIsExplained ==
    ASSUME TypeOK, NEW s \in Seals, NEW e \in Epochs, s.epoch = e,
           SealVerify(s, e, SignersOf(s, e)), NEW bounded \in BOOLEAN,
           bounded => EpochOf(s.round) = e
    PROVE  Explained([seal |-> s, bounded |-> bounded, current |-> e \notin leaked])
<1>1. CASE e \in leaked
  BY <1>1 DEF Explained
<1>2. CASE e \notin leaked
  <2>1. SignersOf(s, e) = GoodSigners(s)
    BY <1>2 DEF SignersOf, GoodSigners
  <2>2. VerifyQuorumSignatures(TrustBases[e].committee, TrustBases[e].threshold, GoodSigners(s))
    <3>1. GoodSigners(s) \cap GoodSigners(s) = GoodSigners(s)
      OBVIOUS
    <3>2. QED
      BY <2>1, <3>1 DEF SealVerify
  <2>3. Stake(TrustBases[e].committee, GoodSigners(s)) >= TrustBases[e].threshold
    BY <2>2, TrustBaseFacts, QuorumIsExact
  <2>4. Certified(s)
    BY <2>3 DEF Certified
  <2>5. QED
    BY <2>4 DEF Explained
<1>3. QED
  BY <1>1, <1>2

(***************************************************************************)
(* An explanation stays one while more is signed and more keys leak.       *)
(***************************************************************************)
LEMMA ExplainedStays ==
    ASSUME signed \subseteq signed', leaked \subseteq leaked', Backed, accepted' = accepted
    PROVE  Backed'
<1> SUFFICES ASSUME NEW a \in accepted
             PROVE  Explained(a)'
  BY DEF Backed
<1>1. Explained(a)
  BY DEF Backed
<1>2. CASE Certified(a.seal)
  <2>1. GoodSigners(a.seal) \subseteq GoodSigners(a.seal)'
    BY DEF GoodSigners
  <2>2. Certified(a.seal)'
    BY <1>2, <2>1 DEF Certified
  <2>3. QED
    BY <2>2 DEF Explained
<1>3. CASE ~Certified(a.seal)
  BY <1>1, <1>3 DEF Explained
<1>4. QED
  BY <1>2, <1>3

-------------------------------------------------------------------------------
(***************************************************************************)
(* Init establishes the invariant.                                         *)
(***************************************************************************)
LEMMA InitInv == Init => Inv
BY SealAssumption DEF Init, Inv, TypeOK, SignOnce, SignedForRound, Backed, Epochs

(***************************************************************************)
(* Adding a seal to accepted that is explained preserves the invariant.    *)
(***************************************************************************)
LEMMA AcceptStep ==
    ASSUME Inv, NEW s \in Seals, NEW e \in Epochs, s.epoch = e,
           SealVerify(s, e, SignersOf(s, e)), NEW bounded \in BOOLEAN,
           bounded => EpochOf(s.round) = e,
           accepted' = accepted \cup
             {[seal |-> s, bounded |-> bounded, current |-> e \notin leaked]},
           UNCHANGED <<round, signed, leaked, known>>
    PROVE  Inv'
<1> DEFINE a == [seal |-> s, bounded |-> bounded, current |-> e \notin leaked]
<1>1. TypeOK'
  <2>1. a \in [seal : {t \in Seals : t.round >= 1}, bounded : BOOLEAN, current : BOOLEAN]
    BY DEF SealVerify
  <2> HIDE DEF a
  <2>2. accepted' = accepted \cup {a}
    BY DEF a
  <2>3. QED
    BY <2>1, <2>2 DEF Inv, TypeOK
<1>2. SignOnce' /\ SignedForRound'
  BY DEF Inv, SignOnce, SignedForRound
<1>3. Explained(a)
  BY VerifiedIsExplained DEF Inv
<1>4. \A b : Explained(b)' <=> Explained(b)
  BY DEF Explained, Certified, GoodSigners
<1> HIDE DEF a
<1>5. Backed'
  <2>1. accepted' = accepted \cup {a}
    BY DEF a
  <2>2. QED
    BY <1>3, <1>4, <2>1 DEF Inv, Backed
<1>6. QED
  BY <1>1, <1>2, <1>5 DEF Inv

(***************************************************************************)
(* Every step preserves the invariant.                                     *)
(***************************************************************************)
LEMMA StepInv == Inv /\ [Next]_vars => Inv'
<1> SUFFICES ASSUME Inv, [Next]_vars
             PROVE  Inv'
  OBVIOUS
<1> USE DEF Inv
<1>1. ASSUME NextRound
      PROVE  Inv'
  <2>1. TypeOK'
    BY <1>1, SealAssumption DEF NextRound, TypeOK, Epochs
  <2>2. SignOnce' /\ SignedForRound'
    BY <1>1 DEF NextRound, SignOnce, SignedForRound
  <2>3. Backed'
    BY <1>1, ExplainedStays DEF NextRound
  <2>4. QED
    BY <2>1, <2>2, <2>3
<1>2. ASSUME NEW n \in Honest, Sign(n)
      PROVE  Inv'
  <2>1. PICK s \in Seals :
          /\ s.round = round
          /\ s.epoch = EpochOf(round)
          /\ \A t \in signed : t[1] = n => t[2].round # round
          /\ signed' = signed \cup {<<n, s>>}
          /\ UNCHANGED <<round, leaked, known, accepted>>
    BY <1>2 DEF Sign
  <2>2. TypeOK'
    BY <2>1 DEF TypeOK
  <2>3. SignOnce'
    <3> SUFFICES ASSUME NEW m \in Honest, NEW t \in Seals, NEW u \in Seals,
                        <<m, t>> \in signed', <<m, u>> \in signed', t.round = u.round
                 PROVE  t = u
      BY DEF SignOnce
    <3>1. \A x \in Seals : <<m, x>> \in signed' =>
            <<m, x>> \in signed \/ (m = n /\ x = s)
      BY <2>1
    <3>2. \A x \in Seals : <<m, x>> \in signed /\ m = n => x.round # s.round
      BY <2>1
    <3>3. QED
      BY <3>1, <3>2 DEF SignOnce
  <2>4. SignedForRound'
    <3>1. \A m \in Honest, x \in Seals : <<m, x>> \in signed' =>
            <<m, x>> \in signed \/ x = s
      BY <2>1
    <3>2. QED
      BY <2>1, <3>1 DEF SignedForRound
  <2>5. Backed'
    BY <2>1, ExplainedStays
  <2>6. QED
    BY <2>2, <2>3, <2>4, <2>5
<1>3. ASSUME NEW e \in Epochs, Leak(e)
      PROVE  Inv'
  <2>1. TypeOK'
    BY <1>3 DEF Leak, TypeOK
  <2>2. SignOnce' /\ SignedForRound'
    BY <1>3 DEF Leak, SignOnce, SignedForRound
  <2>3. Backed'
    BY <1>3, ExplainedStays DEF Leak
  <2>4. QED
    BY <2>1, <2>2, <2>3
<1>4. ASSUME LearnTrustBase
      PROVE  Inv'
  <2>1. TypeOK'
    BY <1>4, SealAssumption DEF LearnTrustBase, TypeOK, Epochs
  <2>2. SignOnce' /\ SignedForRound'
    BY <1>4 DEF LearnTrustBase, SignOnce, SignedForRound
  <2>3. Backed'
    BY <1>4, ExplainedStays DEF LearnTrustBase
  <2>4. QED
    BY <2>1, <2>2, <2>3
<1>5. ASSUME NEW s \in Seals, Accept(s)
      PROVE  Inv'
  <2>1. PICK e \in 1..known :
          \E end \in {0} \cup (IF e < known THEN {TrustBases[e + 1].start} ELSE {}) :
            /\ VerifySeal(s, e, end, SignersOf(s, e))
            /\ accepted' = accepted \cup
                 {[seal |-> s, bounded |-> end # 0, current |-> e \notin leaked]}
            /\ UNCHANGED <<round, signed, leaked, known>>
    BY <1>5 DEF Accept
  <2>2. PICK end \in {0} \cup (IF e < known THEN {TrustBases[e + 1].start} ELSE {}) :
          /\ VerifySeal(s, e, end, SignersOf(s, e))
          /\ accepted' = accepted \cup
               {[seal |-> s, bounded |-> end # 0, current |-> e \notin leaked]}
          /\ UNCHANGED <<round, signed, leaked, known>>
    BY <2>1
  <2>3. e \in Epochs /\ (e < known => e < Len(TrustBases))
    BY SealAssumption DEF TypeOK, Epochs
  <2>4. s.epoch = e /\ SealVerify(s, e, SignersOf(s, e)) /\ TrustBases[e].start <= s.round
    BY <2>2, <2>3, TrustBaseFacts DEF VerifySeal, Seals
  <2>5. end # 0 => EpochOf(s.round) = e
    <3> SUFFICES ASSUME end # 0
                 PROVE  EpochOf(s.round) = e
      OBVIOUS
    <3>1. e < known /\ end = TrustBases[e + 1].start /\ s.round < end
      BY <2>2 DEF VerifySeal
    <3>2. s.round \in Nat
      BY DEF Seals
    <3>3. QED
      BY <2>3, <2>4, <3>1, <3>2, BoundariesDetermineEpoch
  <2>6. QED
    BY <2>2, <2>3, <2>4, <2>5, AcceptStep
<1>6. ASSUME NEW s \in Seals, AcceptProof(s)
      PROVE  Inv'
  <2>1. s.epoch \in Epochs
    BY <1>6, SealAssumption DEF AcceptProof, TypeOK, Epochs
  <2>2. QED
    BY <1>6, <2>1, AcceptStep DEF AcceptProof
<1>7. ASSUME UNCHANGED vars
      PROVE  Inv'
  BY <1>7 DEF vars, TypeOK, SignOnce, SignedForRound, Backed, Explained, Certified, GoodSigners
<1>8. QED
  BY <1>1, <1>2, <1>3, <1>4, <1>5, <1>6, <1>7 DEF Next

-------------------------------------------------------------------------------
(***************************************************************************)
(* The invariant implies the property: an assured seal of a round whose    *)
(* epoch has good keys is certified, its epoch is that of the round since  *)
(* an honest node signed it, and two quorums of one committee share an     *)
(* honest node, which signs one seal per round.                            *)
(***************************************************************************)
LEMMA InvImpliesOneSeal == Inv => OneSealPerRound
<1> SUFFICES ASSUME Inv, NEW a \in accepted, NEW b \in accepted,
                    a.seal.round = b.seal.round,
                    EpochOf(a.seal.round) \notin leaked,
                    Assured(a), Assured(b)
             PROVE  a.seal = b.seal
  BY DEF OneSealPerRound
<1>1. a.seal \in Seals /\ b.seal \in Seals
  BY DEF Inv, TypeOK
<1>2. Certified(a.seal) /\ Certified(b.seal)
  BY DEF Inv, Backed, Explained, Assured
<1>3. ASSUME NEW s \in Seals, Certified(s)
      PROVE  s.epoch = EpochOf(s.round) /\ s.epoch \in Epochs
  <2>1. PICK S \in SUBSET GoodSigners(s) :
          Stake(TrustBases[s.epoch].committee, S) >= TrustBases[s.epoch].threshold
    BY <1>3 DEF Certified
  <2>2. s.epoch \in Epochs
    BY DEF Seals
  <2>3. PICK n \in S \cap S : n \notin Faulty
    BY <2>1, <2>2, TrustBaseFacts, QuorumsIntersect
  <2>4. n \in Honest /\ <<n, s>> \in signed
    BY <2>3 DEF GoodSigners
  <2>5. QED
    BY <2>2, <2>4 DEF Inv, SignedForRound
<1>4. a.seal.epoch = b.seal.epoch /\ a.seal.epoch \in Epochs
  BY <1>1, <1>2, <1>3
<1> DEFINE tb == TrustBases[a.seal.epoch]
<1>5. PICK S \in SUBSET GoodSigners(a.seal) : Stake(tb.committee, S) >= tb.threshold
  BY <1>2 DEF Certified
<1>6. PICK T \in SUBSET GoodSigners(b.seal) : Stake(tb.committee, T) >= tb.threshold
  BY <1>2, <1>4 DEF Certified
<1>7. PICK n \in S \cap T : n \notin Faulty
  BY <1>4, <1>5, <1>6, TrustBaseFacts, QuorumsIntersect
<1>8. n \in Honest /\ <<n, a.seal>> \in signed /\ <<n, b.seal>> \in signed
  BY <1>7 DEF GoodSigners
<1>9. QED
  BY <1>1, <1>8 DEF Inv, SignOnce

(***************************************************************************)
(* The invariant holds in every behaviour.                                 *)
(***************************************************************************)
LEMMA SpecInv == Spec => []Inv
<1>1. QED
  BY InitInv, StepInv, PTL DEF Spec

(***************************************************************************)
(* Type correctness.                                                       *)
(***************************************************************************)
THEOREM SealsTyped == Spec => []TypeOK
<1>1. Inv => TypeOK
  BY DEF Inv
<1>2. QED
  BY <1>1, SpecInv, PTL

(***************************************************************************)
(* Verifiers accept one seal of a root round while the keys of its epoch   *)
(* are safe, whatever keys of earlier epochs have leaked (VerifySeal,      *)
(* TxRecordProof.Verify).                                                  *)
(***************************************************************************)
THEOREM OneSealPerRoundHolds == Spec => []OneSealPerRound
<1>1. QED
  BY InvImpliesOneSeal, SpecInv, PTL

-------------------------------------------------------------------------------
(* Certificates. *)

(***************************************************************************)
(* The order that CheckNonEquivocatingCertificates establishes, and that a *)
(* correct root chain issues certificates in.  Unlike the check itself it  *)
(* can be carried over any number of certificates in between.              *)
(***************************************************************************)
Follows(new, old) ==
    /\ old.root <= new.root
    /\ old.ir.round <= new.ir.round
    /\ old.ir.round = new.ir.round => old.ir = new.ir
    /\ old.ir.round + 1 = new.ir.round => IsSuccessor(new, old)

LEMMA FieldTypes ==
    ASSUME NEW uc \in Certificates
    PROVE  /\ uc.root \in Nat /\ uc.ir.round \in Nat /\ uc.ir \in InputRecords
BY CertificateAssumption DEF Certificates, InputRecords

(***************************************************************************)
(* What the check accepts follows.                                         *)
(***************************************************************************)
LEMMA CheckedFollows ==
    ASSUME NEW old \in Certificates, NEW new \in Certificates,
           CheckNonEquivocatingCertificates(old, new)
    PROVE  Follows(new, old)
BY FieldTypes DEF CheckNonEquivocatingCertificates, Follows, EqualIR, IsSuccessor

(***************************************************************************)
(* Following is transitive: between two certificates of consecutive shard  *)
(* rounds there are only repeats of either.                                *)
(***************************************************************************)
LEMMA FollowsTransitive ==
    ASSUME NEW a \in Certificates, NEW b \in Certificates, NEW c \in Certificates,
           Follows(b, a), Follows(c, b)
    PROVE  Follows(c, a)
<1>1. /\ a.root \in Nat /\ b.root \in Nat /\ c.root \in Nat
      /\ a.ir.round \in Nat /\ b.ir.round \in Nat /\ c.ir.round \in Nat
  BY FieldTypes
<1>2. a.root <= c.root /\ a.ir.round <= c.ir.round
  BY <1>1 DEF Follows
<1>3. ASSUME a.ir.round = c.ir.round PROVE a.ir = c.ir
  BY <1>1, <1>3 DEF Follows
<1>4. ASSUME a.ir.round + 1 = c.ir.round PROVE c.ir.prev = a.ir.hash
  <2>1. b.ir.round = a.ir.round \/ b.ir.round = c.ir.round
    BY <1>1, <1>4 DEF Follows
  <2>2. CASE b.ir.round = a.ir.round
    BY <1>1, <1>4, <2>2 DEF Follows, IsSuccessor
  <2>3. CASE b.ir.round = c.ir.round
    BY <1>1, <1>4, <2>3 DEF Follows, IsSuccessor
  <2>4. QED
    BY <2>1, <2>2, <2>3
<1>5. QED
  BY <1>2, <1>3, <1>4 DEF Follows, IsSuccessor

(***************************************************************************)
(* Conditions 5 and 6 of CheckNonEquivocatingCertificates never decide: the*)
(* certificates it is given have been validated, and InputRecord.IsValid   *)
(* already relates the block to the change of state.                       *)
(***************************************************************************)
THEOREM RulesFiveAndSixRedundant ==
    ASSUME NEW old \in Certificates, NEW new \in Certificates, IsValid(new.ir)
    PROVE  CheckNonEquivocatingCertificates(old, new) <=>
             /\ new.root >= old.root
             /\ new.ir.round >= old.ir.round
             /\ \/ new.ir = old.ir
                \/ /\ new.ir.round > old.ir.round
                   /\ new.ir.round = old.ir.round + 1 => new.ir.prev = old.ir.hash
                   /\ new.ir.block # NoBlock => new.ir.block # old.ir.block
BY FieldTypes DEF CheckNonEquivocatingCertificates, EqualIR, IsValid

-------------------------------------------------------------------------------
(***************************************************************************)
(* The inductive invariant: the certificates of a correct root chain       *)
(* follow each other, have one root round each, and no block twice except  *)
(* in repeats; the node's history is ordered by Follows.                   *)
(***************************************************************************)
IssuedInOrder ==
    correct =>
      /\ \A a \in issued : /\ a.root <= latest.root
                           /\ a.ir.round <= latest.ir.round
      /\ \A a, b \in issued : a.root <= b.root =>
           /\ a.root = b.root => a = b
           /\ Follows(b, a)
           /\ a.ir # b.ir /\ b.ir.block # NoBlock => b.ir.block # a.ir.block

CertificateInv == CertificateTypeOK /\ IssuedInOrder /\ AcceptedHistory

LEMMA CertificateInitInv == CertificateInit => CertificateInv
<1> SUFFICES ASSUME CertificateInit PROVE CertificateInv
  OBVIOUS
<1>1. PICK s \in States, d \in Rest :
        LET uc == [root |-> 1, ir |-> [round |-> 0, prev |-> s, hash |-> s,
                                       block |-> NoBlock, rest |-> d]]
        IN  /\ issued = {uc} /\ latest = uc /\ correct \in BOOLEAN
            /\ kept = [n \in Nodes |-> <<uc>>]
  BY DEF CertificateInit
<1> DEFINE uc == [root |-> 1, ir |-> [round |-> 0, prev |-> s, hash |-> s,
                                      block |-> NoBlock, rest |-> d]]
<1>2. uc \in Certificates /\ IsValid(uc.ir)
  BY CertificateAssumption DEF Certificates, InputRecords, IsValid
<1>3. uc.root = 1 /\ uc.ir.round = 0 /\ uc.ir.block = NoBlock
  OBVIOUS
<1>4. issued = {uc} /\ latest = uc /\ correct \in BOOLEAN /\ kept = [n \in Nodes |-> <<uc>>]
  BY <1>1
<1> HIDE DEF uc
<1>5. CertificateTypeOK
  BY <1>2, <1>4 DEF CertificateTypeOK
<1>6. IssuedInOrder
  BY <1>3, <1>4 DEF IssuedInOrder, Follows
<1>7. AcceptedHistory
  BY <1>4 DEF AcceptedHistory
<1>8. QED
  BY <1>5, <1>6, <1>7 DEF CertificateInv

(***************************************************************************)
(* A new certificate of a correct root chain follows every earlier one.    *)
(***************************************************************************)
LEMMA IssueInv ==
    ASSUME CertificateInv, correct, NEW uc \in Certificates, IsValid(uc.ir),
           issued' = issued \cup {uc}, latest' = uc, correct' = correct,
           kept' = kept,
           uc.root = latest.root + 1,
           \/ uc.ir = latest.ir
           \/ /\ uc.ir.round > latest.ir.round
              /\ uc.ir.prev = latest.ir.hash
              /\ \A a \in issued : uc.ir.block # NoBlock => a.ir.block # uc.ir.block
    PROVE  CertificateInv'
<1>1. CertificateTypeOK'
  BY DEF CertificateInv, CertificateTypeOK
<1>2. latest \in Certificates /\ latest \in issued /\ \A a \in issued : a \in Certificates
  BY DEF CertificateInv, CertificateTypeOK
<1>3. uc.root \in Nat /\ uc.ir.round \in Nat /\ latest.root \in Nat /\ latest.ir.round \in Nat
  BY <1>2, FieldTypes
<1>4. Follows(uc, latest)
  BY <1>3 DEF Follows, IsSuccessor
<1>5. ASSUME NEW a \in issued
      PROVE  /\ a.root < uc.root /\ a.ir.round <= uc.ir.round
             /\ Follows(uc, a)
             /\ a.ir # uc.ir /\ uc.ir.block # NoBlock => uc.ir.block # a.ir.block
  <2>1. a \in Certificates /\ a.root \in Nat /\ a.ir.round \in Nat
    BY <1>2, FieldTypes
  <2>2. a.root <= latest.root /\ a.ir.round <= latest.ir.round /\ Follows(latest, a)
    BY <1>2 DEF CertificateInv, IssuedInOrder
  <2>3. Follows(uc, a)
    BY <1>2, <1>4, <2>1, <2>2, FollowsTransitive
  <2>4. a.root < uc.root /\ a.ir.round <= uc.ir.round
    BY <1>3, <2>1, <2>2
  <2>5. a.ir # uc.ir /\ uc.ir.block # NoBlock => uc.ir.block # a.ir.block
    BY <1>2, <2>2 DEF CertificateInv, IssuedInOrder
  <2>6. QED
    BY <2>3, <2>4, <2>5
<1>6. Follows(uc, uc)
  BY <1>3 DEF Follows
<1>7. IssuedInOrder'
  <2>1. \A a \in issued' : a.root <= uc.root /\ a.ir.round <= uc.ir.round
    BY <1>2, <1>3, <1>5, FieldTypes
  <2>2. ASSUME NEW a \in issued', NEW b \in issued', a.root <= b.root
        PROVE  /\ a.root = b.root => a = b
               /\ Follows(b, a)
               /\ a.ir # b.ir /\ b.ir.block # NoBlock => b.ir.block # a.ir.block
    <3>1. CASE a \in issued /\ b \in issued
      BY <2>2, <3>1 DEF CertificateInv, IssuedInOrder
    <3>2. CASE a \in issued /\ b = uc
      BY <1>2, <1>3, <1>5, <3>2, FieldTypes
    <3>3. CASE a = uc /\ b \in issued
      BY <1>2, <1>3, <1>5, <2>2, <3>3, FieldTypes
    <3>4. CASE a = uc /\ b = uc
      BY <1>6, <3>4
    <3>5. QED
      BY <3>1, <3>2, <3>3, <3>4
  <2>3. QED
    BY <2>1, <2>2 DEF IssuedInOrder
<1>8. AcceptedHistory'
  BY DEF CertificateInv, AcceptedHistory
<1>9. QED
  BY <1>1, <1>7, <1>8 DEF CertificateInv

LEMMA ReceiveInv ==
    ASSUME CertificateInv, NEW n \in Nodes, NEW uc \in Certificates, Receive(n, uc)
    PROVE  CertificateInv'
<1> DEFINE h == kept[n]
           L == Len(h)
<1>1. /\ h \in Seq(Certificates) /\ h # << >>
      /\ kept' = [kept EXCEPT ![n] = Append(h, uc)]
      /\ issued' = issued /\ latest' = latest /\ correct' = correct
      /\ CheckNonEquivocatingCertificates(h[L], uc)
  BY DEF Receive, CertificateInv, CertificateTypeOK, Last
<1>2. /\ L \in Nat \ {0} /\ DOMAIN h = 1..L /\ \A i \in 1..L : h[i] \in Certificates
      /\ kept'[n] = Append(h, uc)
      /\ DOMAIN kept'[n] = 1..(L + 1)
      /\ \A i \in 1..L : kept'[n][i] = h[i]
      /\ kept'[n][L + 1] = uc
      /\ \A m \in Nodes : m # n => kept'[m] = kept[m]
  BY <1>1 DEF CertificateInv, CertificateTypeOK
<1>3. CertificateTypeOK'
  BY <1>1 DEF CertificateInv, CertificateTypeOK
<1>4. IssuedInOrder'
  BY <1>1 DEF CertificateInv, IssuedInOrder
<1>5. \A j \in 1..L : \A i \in 1..(j - 1) : Follows(h[j], h[i])
  BY <1>2 DEF CertificateInv, AcceptedHistory, Follows
<1>6. Follows(uc, h[L])
  BY <1>1, <1>2, CheckedFollows
<1>7. ASSUME NEW i \in 1..L PROVE Follows(uc, h[i])
  <2>1. CASE i = L
    BY <1>6, <2>1
  <2>2. CASE i # L
    <3>1. Follows(h[L], h[i])
      BY <1>2, <1>5, <2>2
    <3>2. h[i] \in Certificates /\ h[L] \in Certificates
      BY <1>2
    <3>3. QED
      BY <1>6, <3>1, <3>2, FollowsTransitive
  <2>3. QED
    BY <2>1, <2>2
<1>8. ASSUME NEW m \in Nodes, NEW j \in DOMAIN kept'[m], NEW i \in 1..(j - 1)
      PROVE  Follows(kept'[m][j], kept'[m][i])
  <2>1. CASE m # n
    BY <1>2, <2>1 DEF CertificateInv, AcceptedHistory, Follows
  <2>2. CASE m = n /\ j = L + 1
    BY <1>2, <1>7, <2>2
  <2>3. CASE m = n /\ j \in 1..L
    <3>1. i \in 1..L
      BY <1>2, <2>3
    <3>2. kept'[m][j] = h[j] /\ kept'[m][i] = h[i]
      BY <1>2, <2>3, <3>1
    <3> HIDE DEF h
    <3>3. Follows(h[j], h[i])
      BY <1>5, <2>3
    <3>4. QED
      BY <3>2, <3>3
  <2>4. QED
    BY <1>2, <2>1, <2>2, <2>3
<1>9. AcceptedHistory'
  BY <1>8 DEF AcceptedHistory, Follows
<1>10. QED
  BY <1>3, <1>4, <1>9 DEF CertificateInv

THEOREM Invariance == CertificateSpec => []CertificateInv
<1>1. CertificateInit => CertificateInv
  BY CertificateInitInv
<1>2. CertificateInv /\ [CertificateNext]_certificateVars => CertificateInv'
  <2> SUFFICES ASSUME CertificateInv, [CertificateNext]_certificateVars PROVE CertificateInv'
    OBVIOUS
  <2>1. CASE Certify
    <3>1. PICK ir \in InputRecords :
            /\ ir.round > latest.ir.round /\ ir.prev = latest.ir.hash /\ IsValid(ir)
            /\ \A uc \in issued : ir.block # NoBlock => uc.ir.block # ir.block
            /\ latest' = [root |-> latest.root + 1, ir |-> ir]
      BY <2>1 DEF Certify
    <3>2. /\ correct /\ latest.root < MaxRootRound /\ issued' = issued \cup {latest'}
          /\ correct' = correct /\ kept' = kept
      BY <2>1 DEF Certify
    <3>3. latest \in Certificates
      BY DEF CertificateInv, CertificateTypeOK
    <3>4. latest' \in Certificates
      BY <3>1, <3>2, <3>3, CertificateAssumption DEF Certificates
    <3>5. latest'.root = latest.root + 1 /\ latest'.ir = ir
      BY <3>1
    <3>6. QED
      BY <3>1, <3>2, <3>4, <3>5, IssueInv
  <2>2. CASE Repeat
    <3>1. /\ correct /\ latest.root < MaxRootRound /\ issued' = issued \cup {latest'}
          /\ correct' = correct /\ kept' = kept
          /\ latest' = [root |-> latest.root + 1, ir |-> latest.ir]
      BY <2>2 DEF Repeat, NewRepeatIR
    <3>2. latest \in Certificates /\ IsValid(latest.ir)
      BY DEF CertificateInv, CertificateTypeOK
    <3>3. latest' \in Certificates
      BY <3>1, <3>2, CertificateAssumption DEF Certificates
    <3>4. latest'.root = latest.root + 1 /\ latest'.ir = latest.ir
      BY <3>1
    <3>5. QED
      BY <3>1, <3>2, <3>3, <3>4, IssueInv
  <2>3. CASE \E n \in Nodes, uc \in Certificates : Receive(n, uc)
    BY <2>3, ReceiveInv
  <2>4. CASE UNCHANGED certificateVars
    BY <2>4 DEF certificateVars, CertificateInv, CertificateTypeOK, IssuedInOrder, AcceptedHistory
  <2>5. QED
    BY <2>1, <2>2, <2>3, <2>4 DEF CertificateNext
<1>3. QED
  BY <1>1, <1>2, PTL DEF CertificateSpec

(***************************************************************************)
(* The certificates are well typed and every issued record is valid.       *)
(***************************************************************************)
THEOREM CertificatesTyped == CertificateSpec => []CertificateTypeOK
BY Invariance, PTL DEF CertificateInv

(***************************************************************************)
(* Whatever the root chain issues, all that a node has accepted is ordered,*)
(* with one input record per shard round, linked to the one before.        *)
(***************************************************************************)
THEOREM AcceptedHistoryHolds == CertificateSpec => []AcceptedHistory
BY Invariance, PTL DEF CertificateInv

(***************************************************************************)
(* No certificate of a correct root chain is refused for equivocation by a *)
(* node that holds an older one, however many it has missed.               *)
(***************************************************************************)
THEOREM NoFalseAlarmHolds == CertificateSpec => []NoFalseAlarm
<1>1. CertificateInv => NoFalseAlarm
  <2> SUFFICES ASSUME CertificateInv, correct, NEW a \in issued, NEW b \in issued, a.root <= b.root
               PROVE  CheckNonEquivocatingCertificates(a, b)
    BY DEF NoFalseAlarm
  <2>1. a \in Certificates /\ b \in Certificates /\ IsValid(b.ir)
    BY DEF CertificateInv, CertificateTypeOK
  <2>2. /\ Follows(b, a)
        /\ a.ir # b.ir /\ b.ir.block # NoBlock => b.ir.block # a.ir.block
    BY DEF CertificateInv, IssuedInOrder
  <2>3. a.root \in Nat /\ b.root \in Nat /\ a.ir.round \in Nat /\ b.ir.round \in Nat
    BY <2>1, FieldTypes
  <2>4. QED
    BY <2>1, <2>2, <2>3, RulesFiveAndSixRedundant DEF Follows, IsSuccessor
<1>2. QED
  BY <1>1, Invariance, PTL

(***************************************************************************)
(* The predicates that tell certificates apart leave no case out and do    *)
(* not overlap, for certificates of a correct root chain.                  *)
(***************************************************************************)
THEOREM OneKindHolds == CertificateSpec => []OneKind
<1>1. CertificateInv => OneKind
  <2> SUFFICES ASSUME CertificateInv, correct, NEW a \in issued, NEW b \in issued, a.root <= b.root
               PROVE  LET kinds == <<IsDuplicate(b, a), IsRepeat(b, a), b.ir.round > a.ir.round>>
                      IN  /\ \E k \in 1..3 : \A l \in 1..3 : kinds[l] <=> l = k
                          /\ IsDuplicate(b, a) => a = b
    BY DEF OneKind
  <2>1. a \in Certificates /\ b \in Certificates
    BY DEF CertificateInv, CertificateTypeOK
  <2>2. a.root \in Nat /\ b.root \in Nat /\ a.ir.round \in Nat /\ b.ir.round \in Nat
    BY <2>1, FieldTypes
  <2>3. Follows(b, a) /\ (a.root = b.root => a = b)
    BY DEF CertificateInv, IssuedInOrder
  <2> DEFINE dup == IsDuplicate(b, a)
             rep == IsRepeat(b, a)
             later == b.ir.round > a.ir.round
             kinds == <<dup, rep, later>>
  <2>4. /\ dup \/ rep \/ later
        /\ ~(dup /\ rep) /\ ~(dup /\ later) /\ ~(rep /\ later)
        /\ dup => a = b
    BY <2>2, <2>3 DEF Follows, IsDuplicate, IsRepeat, EqualIR
  <2> HIDE DEF dup, rep, later
  <2>5. (kinds[1] <=> dup) /\ (kinds[2] <=> rep) /\ (kinds[3] <=> later)
    OBVIOUS
  <2>6. \E k \in 1..3 : \A l \in 1..3 : kinds[l] <=> l = k
    <3>1. \A l \in 1..3 : l = 1 \/ l = 2 \/ l = 3
      OBVIOUS
    <3>2. 1 \in 1..3 /\ 2 \in 1..3 /\ 3 \in 1..3 /\ 1 # 2 /\ 1 # 3 /\ 2 # 3
      OBVIOUS
    <3> HIDE DEF kinds
    <3>3. QED
      BY <2>4, <2>5, <3>1, <3>2
  <2>7. QED
    BY <2>4, <2>6 DEF dup, rep, later
<1>2. QED
  BY <1>1, Invariance, PTL
===============================================================================

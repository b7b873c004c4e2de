--------------------------- MODULE TrustBaseProofs ----------------------------
(***************************************************************************)
(* Safety of the chain of trust bases, for every committee, stake, number  *)
(* of epochs and verifiers that TrustBaseAssumption admits.                *)
(***************************************************************************)
EXTENDS TrustBase, RootQuorumProofs, SequenceTheorems

(***************************************************************************)
(* Appending to a history.                                                 *)
(***************************************************************************)
LEMMA AppendFacts ==
    ASSUME NEW h, IsSeq(h), NEW e
    PROVE  /\ Len(h) \in Nat /\ DOMAIN h = 1..Len(h)
           /\ IsSeq(Append(h, e))
           /\ Len(Append(h, e)) = Len(h) + 1
           /\ DOMAIN Append(h, e) = 1..(Len(h) + 1)
           /\ \A i \in 1..Len(h) : Append(h, e)[i] = h[i]
           /\ Append(h, e)[Len(h) + 1] = e
<1> DEFINE R == {h[i] : i \in DOMAIN h}
           g == Append(h, e)
           Q == {g[i] : i \in DOMAIN g}
<1>1. h \in Seq(R)
  BY DEF IsSeq
<1> HIDE DEF R
<1>2. Len(h) \in Nat /\ DOMAIN h = 1..Len(h) /\ h \in Seq(R \cup {e})
  BY <1>1
<1>3. /\ Len(g) = Len(h) + 1
      /\ DOMAIN g = 1..(Len(h) + 1)
      /\ \A i \in 1..Len(h) : g[i] = h[i]
      /\ g[Len(h) + 1] = e
      /\ g \in Seq(R \cup {e})
  BY <1>2
<1>4. g \in Seq(Q)
  <2>1. \A i \in 1..Len(g) : g[i] \in Q
    BY <1>3
  <2> HIDE DEF Q
  <2>2. QED
    BY <1>2, <1>3, <2>1
<1>5. QED
  BY <1>2, <1>3, <1>4 DEF IsSeq, Q

-------------------------------------------------------------------------------
(***************************************************************************)
(* The inductive invariant.  Agreement is not inductive: the step that     *)
(* adopts an epoch needs that two quorums of one committee share an honest *)
(* node (Backed, SignedSound), which signs one body per epoch (SignOnce).  *)
(***************************************************************************)
SignedSound ==
    /\ SoundThreshold(genesis.committee, genesis.threshold)
    /\ \A s \in signed : SoundThreshold(s[2].committee, s[2].threshold)

SignOnce == \A s \in signed : HonestRule(s[1], s[2])

\* The quorum that an adopted entry was accepted with.
QuorumFor(b, tb) == \E S \in SUBSET SignersOf(b) : Stake(tb.committee, S) >= tb.threshold

Backed ==
    \A v \in Verifiers : \A i \in DOMAIN history[v] :
        /\ i = 1 => history[v][i].body = genesis
        /\ i # 1 => /\ QuorumFor(history[v][i].body, history[v][i - 1].body)
                    /\ history[v][i].body.prev = history[v][i - 1]

Inv == /\ TypeOK /\ SignedSound /\ SignOnce /\ Backed
       /\ HistoryWellFormed /\ ThresholdTwoThirds /\ Agreement /\ PrefixIdentical

LEMMA CommitteeFacts ==
    ASSUME NEW c \in Committees
    PROVE  IsCommittee(c) /\ NoOverflow(c) /\ FaultyMinority(c, Faulty)
BY TrustBaseAssumption, FS_Subset DEF IsCommittee

(***************************************************************************)
(* What NewTrustBase builds is well typed and has a sound threshold.       *)
(***************************************************************************)
LEMMA BuiltBodies ==
    ASSUME NEW P, NEW b \in NewTrustBase(P)
    PROVE  IsBuilt(b) /\ SoundThreshold(b.committee, b.threshold)
<1>1. PICK h \in Headers, p \in P, x \in Configurations :
        b = [network |-> h.network, epoch |-> h.epoch, start |-> h.start,
             committee |-> x[1], threshold |-> QuorumThreshold(x[1], x[2]), prev |-> p]
  BY DEF NewTrustBase
<1>2. x[1] \in Committees /\ x[2] \in Nat /\ Constructible(x[1], x[2])
  BY TrustBaseAssumption DEF Configurations
<1>3. /\ QuorumThreshold(x[1], x[2]) \in Nat \ {0}
      /\ SoundThreshold(x[1], QuorumThreshold(x[1], x[2]))
  BY <1>2, CommitteeFacts, ConstructedThresholdIsSound
<1>4. h.network \in Networks /\ h.epoch \in Nat /\ h.start \in Nat
  BY TrustBaseAssumption
<1>5. IsBody(b) /\ b.threshold # 0
  BY <1>1, <1>2, <1>3, <1>4 DEF IsBody
<1>6. QED
  BY <1>1, <1>3, <1>5 DEF IsBuilt

LEMMA InitInv == Init => Inv
<1> SUFFICES ASSUME Init PROVE Inv
  OBVIOUS
<1>1. IsBuilt(genesis) /\ SoundThreshold(genesis.committee, genesis.threshold)
  BY BuiltBodies DEF Init
<1>2. \A s \in signed : s = <<s[1], s[2]>> /\ s[1] \in Honest /\ s[2] = genesis
  BY DEF Init
<1>3. \A v \in Verifiers : history[v] = << >> /\ DOMAIN history[v] = {}
  BY DEF Init
<1>4. TypeOK
  <2>1. DOMAIN history = Verifiers
    BY DEF Init
  <2>2. \A v \in Verifiers : IsSeq(history[v])
    BY <1>3, \A S : << >> \in Seq(S) DEF IsSeq
  <2>3. QED
    BY <1>1, <1>2, <1>3, <2>1, <2>2 DEF TypeOK
<1>5. SignedSound /\ SignOnce
  BY <1>1, <1>2 DEF SignedSound, SignOnce, HonestRule
<1>6. Backed /\ HistoryWellFormed /\ ThresholdTwoThirds /\ Agreement /\ PrefixIdentical
  BY <1>3 DEF Backed, HistoryWellFormed, ThresholdTwoThirds, Agreement, PrefixIdentical
<1>7. QED
  BY <1>4, <1>5, <1>6 DEF Inv

(***************************************************************************)
(* A signature adds signers and takes none away, and the histories stay.   *)
(***************************************************************************)
LEMMA SignInv == ASSUME Inv, NEW n \in Honest, Sign(n) PROVE Inv'
<1>1. PICK b \in NewTrustBase({Hash(e) : e \in Adopted}) :
        HonestRule(n, b) /\ signed' = signed \cup {<<n, b>>}
  BY DEF Sign
<1>2. genesis' = genesis /\ history' = history
  BY DEF Sign
<1>3. IsBuilt(b) /\ SoundThreshold(b.committee, b.threshold)
  BY BuiltBodies
<1>4. TypeOK'
  BY <1>1, <1>2, <1>3 DEF Inv, TypeOK, IsBuilt, IsBody, IsEntry, IsSeq
<1>5. SignedSound'
  BY <1>1, <1>2, <1>3 DEF Inv, SignedSound
<1>6. SignOnce'
  BY <1>1 DEF Inv, SignOnce, HonestRule, TypeOK
<1>7. \A d : SignersOf(d) \subseteq SignersOf(d)'
  BY <1>1 DEF SignersOf
<1>8. Backed'
  <2>1. \A d, tb : QuorumFor(d, tb) => QuorumFor(d, tb)'
    BY <1>7 DEF QuorumFor, Stake, Votes
  <2>2. QED
    BY <1>2, <2>1 DEF Inv, Backed
<1>9. (HistoryWellFormed /\ ThresholdTwoThirds /\ Agreement /\ PrefixIdentical)'
  BY <1>2 DEF Inv, HistoryWellFormed, ThresholdTwoThirds, Agreement, PrefixIdentical
<1>10. QED
  BY <1>4, <1>5, <1>6, <1>8, <1>9 DEF Inv

(***************************************************************************)
(* What either way of adopting an entry does to the histories.             *)
(***************************************************************************)
LEMMA HistoryStep ==
    ASSUME TypeOK, NEW v \in Verifiers, NEW e, IsEntry(e),
           history' = [history EXCEPT ![v] = Append(@, e)],
           genesis' = genesis, signed' = signed
    PROVE  /\ TypeOK'
           /\ Len(history[v]) \in Nat
           /\ DOMAIN history[v] = 1..Len(history[v])
           /\ DOMAIN history'[v] = 1..(Len(history[v]) + 1)
           /\ \A i \in 1..Len(history[v]) : history'[v][i] = history[v][i]
           /\ history'[v][Len(history[v]) + 1] = e
           /\ \A w \in Verifiers : w # v => history'[w] = history[w]
<1> DEFINE h == history[v]
<1>1. IsSeq(h)
  BY DEF TypeOK
<1>2. history'[v] = Append(h, e) /\ \A w \in Verifiers : w # v => history'[w] = history[w]
  BY DEF TypeOK
<1>3. /\ Len(h) \in Nat /\ DOMAIN h = 1..Len(h)
      /\ IsSeq(history'[v])
      /\ DOMAIN history'[v] = 1..(Len(h) + 1)
      /\ \A i \in 1..Len(h) : history'[v][i] = h[i]
      /\ history'[v][Len(h) + 1] = e
  BY <1>1, <1>2, AppendFacts
<1>4. \A i \in DOMAIN history'[v] : IsEntry(history'[v][i])
  <2>1. \A i \in 1..Len(h) : IsEntry(h[i])
    BY <1>3 DEF TypeOK
  <2>2. \A i \in 1..(Len(h) + 1) : i \in 1..Len(h) \/ i = Len(h) + 1
    BY <1>3
  <2>3. QED
    BY <1>3, <2>1, <2>2
<1>5. TypeOK'
  <2>1. DOMAIN history' = Verifiers
    BY DEF TypeOK
  <2>2. ASSUME NEW w \in Verifiers
        PROVE  IsSeq(history'[w]) /\ \A i \in DOMAIN history'[w] : IsEntry(history'[w][i])
    BY <1>2, <1>3, <1>4 DEF TypeOK
  <2>3. QED
    BY <2>1, <2>2 DEF TypeOK, IsBuilt, IsBody
<1>6. QED
  BY <1>2, <1>3, <1>5

LEMMA LoadGenesisInv == ASSUME Inv, NEW v \in Verifiers, LoadGenesis(v) PROVE Inv'
<1>1. PICK sigs \in SUBSET NodeIDs :
        history' = [history EXCEPT ![v] = <<[body |-> genesis, sigs |-> sigs]>>]
  BY DEF LoadGenesis
<1> DEFINE e == [body |-> genesis, sigs |-> sigs]
<1>2. /\ genesis.epoch = 1 /\ history[v] = << >> /\ Len(history[v]) = 0
      /\ genesis' = genesis /\ signed' = signed
  BY DEF LoadGenesis, IsValid
<1>3. IsEntry(e)
  BY DEF IsEntry, Inv, TypeOK, IsBuilt
<1>4. history' = [history EXCEPT ![v] = Append(@, e)]
  BY <1>1, <1>2, Append(<< >>, e) = <<e>> DEF Inv, TypeOK
<1> HIDE DEF e
<1>5. /\ TypeOK' /\ DOMAIN history'[v] = {1} /\ history'[v][1] = e
      /\ \A w \in Verifiers : w # v => history'[w] = history[w]
  <2>1. /\ TypeOK'
        /\ DOMAIN history'[v] = 1..(Len(history[v]) + 1)
        /\ history'[v][Len(history[v]) + 1] = e
        /\ \A w \in Verifiers : w # v => history'[w] = history[w]
    BY <1>2, <1>3, <1>4, HistoryStep DEF Inv
  <2>2. QED
    BY <1>2, <2>1
<1>6. e.body = genesis
  BY DEF e
<1>7. (SignedSound /\ SignOnce)'
  BY <1>2 DEF Inv, SignedSound, SignOnce, HonestRule
<1>8. Backed'
  <2>1. \A d, tb : QuorumFor(d, tb) => QuorumFor(d, tb)'
    BY <1>2 DEF QuorumFor, SignersOf
  <2>2. QED
    BY <1>2, <1>5, <1>6, <2>1 DEF Inv, Backed
<1>9. HistoryWellFormed'
  BY <1>2, <1>5, <1>6 DEF Inv, HistoryWellFormed
<1>10. ThresholdTwoThirds'
  BY <1>5, <1>6 DEF Inv, ThresholdTwoThirds, SignedSound
<1>11. Agreement'
  BY <1>5, <1>6 DEF Inv, Agreement, Backed
<1>12. PrefixIdentical'
  <2>1. \A i \in DOMAIN history'[v] : 1..(i - 1) = {}
    BY <1>5
  <2>2. QED
    BY <1>5, <2>1 DEF Inv, PrefixIdentical
<1>13. QED
  BY <1>5, <1>7, <1>8, <1>9, <1>10, <1>11, <1>12 DEF Inv

(***************************************************************************)
(* The step the argument is about: a verifier adopts b after the entries   *)
(* it holds.  Whatever another verifier holds at that epoch has the same   *)
(* predecessor, was signed by a quorum of the same committee, and shares   *)
(* an honest signer with b.                                                *)
(***************************************************************************)
LEMMA AdoptInv == ASSUME Inv, NEW v \in Verifiers, Adopt(v) PROVE Inv'
<1> DEFINE L == Len(history[v])
           last == history[v][L]
           K == L + 1
<1>1. PICK b \in {s[2] : s \in signed} \cup Forged({Hash(e) : e \in Adopted}),
           sigs \in SUBSET NodeIDs :
        /\ IsValid(b, history[v])
        /\ VerifySignatures(b, sigs, history[v])
        /\ history' = [history EXCEPT ![v] = Append(@, [body |-> b, sigs |-> sigs])]
  BY DEF Adopt
<1> DEFINE e == [body |-> b, sigs |-> sigs]
<1>2. history[v] # << >> /\ genesis' = genesis /\ signed' = signed
  BY DEF Adopt
<1>3. IsBody(b) /\ IsEntry(e)
  <2>1. CASE b \in {s[2] : s \in signed}
    BY <2>1 DEF IsEntry, Inv, TypeOK, IsBuilt
  <2>2. CASE b \in Forged({Hash(x) : x \in Adopted})
    <3>1. PICK h \in Headers, c \in Committees, p \in {Hash(x) : x \in Adopted} :
            b = [network |-> h.network, epoch |-> h.epoch, start |-> h.start,
                 committee |-> c, threshold |-> 0, prev |-> p]
      BY <2>2 DEF Forged
    <3>2. h.network \in Networks /\ h.epoch \in Nat /\ h.start \in Nat
      BY TrustBaseAssumption
    <3>3. IsBody(b)
      BY <3>1, <3>2 DEF IsBody
    <3>4. QED
      BY <3>3 DEF IsEntry
  <2>3. QED
    BY <2>1, <2>2
<1>4. e.body = b
  OBVIOUS
<1>5. history' = [history EXCEPT ![v] = Append(@, e)]
  BY <1>1
<1> HIDE DEF e
<1>6. /\ TypeOK'
      /\ L \in Nat /\ DOMAIN history[v] = 1..L
      /\ DOMAIN history'[v] = 1..K
      /\ \A i \in 1..L : history'[v][i] = history[v][i]
      /\ history'[v][K] = e
      /\ \A w \in Verifiers : w # v => history'[w] = history[w]
  BY <1>2, <1>3, <1>5, HistoryStep DEF Inv
<1>7. L \in DOMAIN history[v] /\ L >= 1 /\ K \in Nat /\ K # 1 /\ K - 1 = L
  <2>1. IsSeq(history[v]) /\ history[v] # << >>
    BY <1>2 DEF Inv, TypeOK
  <2>2. L # 0
    BY <2>1 DEF IsSeq
  <2>3. QED
    BY <1>6, <2>2
<1>8. IsEntry(last) /\ last.body.committee \in Committees /\ last.body.threshold \in Nat
  BY <1>7 DEF Inv, TypeOK, IsEntry, IsBody
<1>9. /\ b.network = genesis.network /\ b.epoch = K /\ b.prev = last
      /\ \A j \in 1..L : history[v][j].body.start < b.start
  <2>1. /\ b.network = last.body.network /\ b.epoch = last.body.epoch + 1
        /\ b.start > last.body.start /\ b.prev = last
    BY <1>1, <1>2 DEF IsValid, Hash
  <2>2. /\ last.body.epoch = L /\ last.body.network = genesis.network
        /\ \A j \in 1..(L - 1) : history[v][j].body.start < last.body.start
    BY <1>7 DEF Inv, HistoryWellFormed
  <2>3. \A j \in 1..L : history[v][j].body.start \in Nat
    BY <1>6 DEF Inv, TypeOK, IsEntry, IsBody
  <2>4. b.start \in Nat
    BY <1>3 DEF IsBody
  <2>5. ASSUME NEW j \in 1..L PROVE history[v][j].body.start < b.start
    <3>1. CASE j = L
      BY <2>1, <3>1
    <3>2. CASE j \in 1..(L - 1)
      BY <1>7, <2>1, <2>2, <2>3, <2>4, <3>2
    <3>3. QED
      BY <1>6, <3>1, <3>2
  <2>6. QED
    BY <2>1, <2>2, <2>5
<1>10. /\ IsCommittee(last.body.committee) /\ NoOverflow(last.body.committee)
       /\ FaultyMinority(last.body.committee, Faulty)
       /\ SoundThreshold(last.body.committee, last.body.threshold)
  BY <1>7, <1>8, CommitteeFacts DEF Inv, ThresholdTwoThirds
<1>11. PICK S \in SUBSET SignersOf(b) : Stake(last.body.committee, S) >= last.body.threshold
  <2>1. Authority(b, history[v]) = last.body
    BY <1>7, <1>9 DEF Authority
  <2>2. VerifyQuorumSignatures(last.body.committee, last.body.threshold, sigs \cap SignersOf(b))
    BY <1>1, <2>1 DEF VerifySignatures
  <2>3. Stake(last.body.committee, sigs \cap SignersOf(b)) >= last.body.threshold
    BY <1>8, <1>10, <2>2, QuorumIsExact
  <2>4. QED
    BY <2>3
<1>12. \E n \in Honest : <<n, b>> \in signed
  <2>1. \E n \in S \cap S : n \notin Faulty
    BY <1>8, <1>10, <1>11, QuorumsIntersect
  <2>2. QED
    BY <2>1 DEF SignersOf
<1>13. SoundThreshold(b.committee, b.threshold)
  BY <1>12 DEF Inv, SignedSound
<1>14. ASSUME NEW w \in Verifiers, w # v, K \in DOMAIN history[w]
       PROVE  history[w][K].body = b /\ history[w][L] = last
  <2> DEFINE d == history[w][K].body
  <2>1. L \in DOMAIN history[w]
    <3>1. IsSeq(history[w])
      BY DEF Inv, TypeOK
    <3>2. DOMAIN history[w] = 1..Len(history[w]) /\ Len(history[w]) \in Nat
      BY <3>1, AppendFacts
    <3>3. QED
      BY <1>6, <1>7, <1>14, <3>2
  <2>2. history[w][L].body = last.body
    BY <1>7, <2>1 DEF Inv, Agreement
  <2>3. QuorumFor(d, last.body) /\ d.prev = history[w][L]
    BY <1>7, <1>14, <2>2 DEF Inv, Backed
  <2>4. PICK T \in SUBSET SignersOf(d) : Stake(last.body.committee, T) >= last.body.threshold
    BY <2>3 DEF QuorumFor
  <2>5. PICK n \in S \cap T : n \notin Faulty
    BY <1>8, <1>10, <1>11, <2>4, QuorumsIntersect
  <2>6. <<n, b>> \in signed /\ <<n, d>> \in signed
    BY <2>5 DEF SignersOf
  <2>7. d.epoch = K /\ d.network = genesis.network
    BY <1>14 DEF Inv, HistoryWellFormed
  <2>8. HonestRule(n, b)
    BY <2>6 DEF Inv, SignOnce
  <2>9. d = b
    BY <1>9, <2>6, <2>7, <2>8 DEF HonestRule
  <2>10. QED
    BY <1>9, <2>3, <2>9
<1>15. (SignedSound /\ SignOnce)'
  BY <1>2 DEF Inv, SignedSound, SignOnce, HonestRule
<1>16. \A i \in 1..K : i \in 1..L \/ i = K
  BY <1>6
<1>17. Backed'
  <2>1. \A x : SignersOf(x)' = SignersOf(x)
    BY <1>2 DEF SignersOf
  <2>2. QuorumFor(b, last.body)
    BY <1>11 DEF QuorumFor
  <2>3. ASSUME NEW i \in 1..K
        PROVE  /\ i = 1 => history'[v][i].body = genesis
               /\ i # 1 => /\ QuorumFor(history'[v][i].body, history'[v][i - 1].body)
                           /\ history'[v][i].body.prev = history'[v][i - 1]
    <3>1. CASE i = K
      <4>1. history'[v][i].body = b /\ history'[v][i - 1] = last
        BY <1>4, <1>6, <1>7, <3>1
      <4>2. QED
        BY <1>7, <1>9, <2>2, <3>1, <4>1
    <3>2. CASE i \in 1..L /\ i # 1
      <4>1. i - 1 \in 1..L
        BY <1>6, <3>2
      <4>2. history'[v][i] = history[v][i] /\ history'[v][i - 1] = history[v][i - 1]
        BY <1>6, <3>2, <4>1
      <4>3. /\ QuorumFor(history[v][i].body, history[v][i - 1].body)
            /\ history[v][i].body.prev = history[v][i - 1]
        BY <1>6, <3>2 DEF Inv, Backed
      <4>4. QED
        BY <3>2, <4>2, <4>3
    <3>3. CASE i \in 1..L /\ i = 1
      BY <1>6, <3>3 DEF Inv, Backed
    <3>4. QED
      BY <1>16, <3>1, <3>2, <3>3
  <2>4. ASSUME NEW w \in Verifiers, NEW i \in DOMAIN history'[w]
        PROVE  /\ i = 1 => history'[w][i].body = genesis
               /\ i # 1 => /\ QuorumFor(history'[w][i].body, history'[w][i - 1].body)
                           /\ history'[w][i].body.prev = history'[w][i - 1]
    <3>1. CASE w = v
      BY <1>6, <2>3, <3>1
    <3>2. CASE w # v
      BY <1>6, <3>2 DEF Inv, Backed
    <3>3. QED
      BY <3>1, <3>2
  <2>5. QED
    BY <1>2, <2>1, <2>4 DEF Backed, QuorumFor
<1>18. HistoryWellFormed'
  <2>1. ASSUME NEW i \in 1..K
        PROVE  /\ history'[v][i].body.epoch = i
               /\ history'[v][i].body.network = genesis.network
               /\ \A j \in 1..(i - 1) : history'[v][j].body.start < history'[v][i].body.start
    <3>1. CASE i = K
      BY <1>4, <1>6, <1>7, <1>9, <3>1
    <3>2. CASE i \in 1..L
      <4>1. \A j \in 1..(i - 1) : j \in 1..L
        BY <1>6, <3>2
      <4>2. QED
        BY <1>6, <3>2, <4>1 DEF Inv, HistoryWellFormed
    <3>3. QED
      BY <1>16, <3>1, <3>2
  <2>2. ASSUME NEW w \in Verifiers, NEW i \in DOMAIN history'[w]
        PROVE  /\ history'[w][i].body.epoch = i
               /\ history'[w][i].body.network = genesis.network
               /\ \A j \in 1..(i - 1) : history'[w][j].body.start < history'[w][i].body.start
    <3>1. CASE w = v
      BY <1>6, <2>1, <3>1
    <3>2. CASE w # v
      BY <1>6, <3>2 DEF Inv, HistoryWellFormed
    <3>3. QED
      BY <3>1, <3>2
  <2>3. QED
    BY <1>2, <2>2 DEF HistoryWellFormed
<1>19. ThresholdTwoThirds'
  <2>1. \A i \in 1..K : SoundThreshold(history'[v][i].body.committee, history'[v][i].body.threshold)
    BY <1>4, <1>6, <1>13, <1>16 DEF Inv, ThresholdTwoThirds
  <2>2. QED
    BY <1>6, <2>1 DEF Inv, ThresholdTwoThirds
<1>20. ASSUME NEW w \in Verifiers, w # v, NEW i \in 1..K, i \in DOMAIN history[w]
       PROVE  history'[v][i].body = history[w][i].body
  <2>1. CASE i = K
    BY <1>4, <1>6, <1>14, <1>20, <2>1
  <2>2. CASE i \in 1..L
    BY <1>6, <1>20, <2>2 DEF Inv, Agreement
  <2>3. QED
    BY <1>16, <2>1, <2>2
<1>21. ASSUME NEW w \in Verifiers, w # v, NEW i \in 1..K, i \in DOMAIN history[w],
              NEW j \in 1..(i - 1)
       PROVE  history'[v][j] = history[w][j]
  <2>1. j \in 1..L /\ history'[v][j] = history[v][j]
    BY <1>6, <1>7, <1>21
  <2>2. CASE i = K
    <3>1. history[w][L] = last
      BY <1>14, <1>21, <2>2
    <3>2. CASE j = L
      BY <2>1, <3>1, <3>2
    <3>3. CASE j \in 1..(L - 1)
      <4>1. L \in DOMAIN history[w]
        <5>1. IsSeq(history[w])
          BY DEF Inv, TypeOK
        <5>2. DOMAIN history[w] = 1..Len(history[w]) /\ Len(history[w]) \in Nat
          BY <5>1, AppendFacts
        <5>3. QED
          BY <1>6, <1>7, <1>21, <2>2, <5>2
      <4>2. history[v][j] = history[w][j]
        BY <1>7, <3>3, <4>1 DEF Inv, PrefixIdentical
      <4>3. QED
        BY <2>1, <4>2
    <3>4. QED
      BY <1>6, <2>1, <3>2, <3>3
  <2>3. CASE i \in 1..L
    BY <1>6, <1>21, <2>1, <2>3 DEF Inv, PrefixIdentical
  <2>4. QED
    BY <1>16, <2>2, <2>3
<1>22. Agreement'
  <2> SUFFICES ASSUME NEW x \in Verifiers, NEW y \in Verifiers,
                      NEW i \in DOMAIN history'[x] \cap DOMAIN history'[y]
               PROVE  history'[x][i].body = history'[y][i].body
    BY DEF Agreement
  <2>1. CASE x = y
    BY <2>1
  <2>2. CASE x = v /\ y # v
    <3>1. i \in 1..K /\ i \in DOMAIN history[y] /\ history'[y] = history[y]
      BY <1>6, <2>2
    <3>2. history'[v][i].body = history[y][i].body
      BY <1>20, <2>2, <3>1
    <3>3. QED
      BY <2>2, <3>1, <3>2
  <2>3. CASE y = v /\ x # v
    <3>1. i \in 1..K /\ i \in DOMAIN history[x] /\ history'[x] = history[x]
      BY <1>6, <2>3
    <3>2. history'[v][i].body = history[x][i].body
      BY <1>20, <2>3, <3>1
    <3>3. QED
      BY <2>3, <3>1, <3>2
  <2>4. CASE x # v /\ y # v
    BY <1>6, <2>4 DEF Inv, Agreement
  <2>5. QED
    BY <2>1, <2>2, <2>3, <2>4
<1>23. PrefixIdentical'
  <2> SUFFICES ASSUME NEW x \in Verifiers, NEW y \in Verifiers,
                      NEW i \in DOMAIN history'[x] \cap DOMAIN history'[y],
                      NEW j \in 1..(i - 1)
               PROVE  history'[x][j] = history'[y][j]
    BY DEF PrefixIdentical
  <2>1. CASE x = y
    BY <2>1
  <2>2. CASE x = v /\ y # v
    <3>1. i \in 1..K /\ i \in DOMAIN history[y] /\ history'[y] = history[y]
      BY <1>6, <2>2
    <3>2. history'[v][j] = history[y][j]
      BY <1>21, <2>2, <3>1
    <3>3. QED
      BY <2>2, <3>1, <3>2
  <2>3. CASE y = v /\ x # v
    <3>1. i \in 1..K /\ i \in DOMAIN history[x] /\ history'[x] = history[x]
      BY <1>6, <2>3
    <3>2. history'[v][j] = history[x][j]
      BY <1>21, <2>3, <3>1
    <3>3. QED
      BY <2>3, <3>1, <3>2
  <2>4. CASE x # v /\ y # v
    BY <1>6, <2>4 DEF Inv, PrefixIdentical
  <2>5. QED
    BY <2>1, <2>2, <2>3, <2>4
<1>24. QED
  BY <1>6, <1>15, <1>17, <1>18, <1>19, <1>22, <1>23 DEF Inv

(***************************************************************************)
(* Inv is an invariant of the specification.                               *)
(***************************************************************************)
THEOREM Invariance == Spec => []Inv
<1>1. Init => Inv
  BY InitInv
<1>2. Inv /\ [Next]_vars => Inv'
  <2> SUFFICES ASSUME Inv, [Next]_vars PROVE Inv'
    OBVIOUS
  <2>1. CASE \E n \in Honest : Sign(n)
    BY <2>1, SignInv
  <2>2. CASE \E v \in Verifiers : LoadGenesis(v)
    BY <2>2, LoadGenesisInv
  <2>3. CASE \E v \in Verifiers : Adopt(v)
    BY <2>3, AdoptInv
  <2>4. CASE UNCHANGED vars
    BY <2>4 DEF vars, Inv, TypeOK, IsBuilt, IsBody, IsEntry, IsSeq, SignedSound, SignOnce,
                HonestRule, Backed, QuorumFor, SignersOf, HistoryWellFormed,
                ThresholdTwoThirds, Agreement, PrefixIdentical
  <2>5. QED
    BY <2>1, <2>2, <2>3, <2>4 DEF Next
<1>3. QED
  BY <1>1, <1>2, PTL DEF Spec

(***************************************************************************)
(* The variables keep their types and what honest nodes sign was built by  *)
(* NewTrustBase.                                                           *)
(***************************************************************************)
THEOREM TypeCorrect == Spec => []TypeOK
BY Invariance, PTL DEF Inv

(***************************************************************************)
(* No two verifiers ever hold different trust bases of one epoch.          *)
(***************************************************************************)
THEOREM AgreementHolds == Spec => []Agreement
BY Invariance, PTL DEF Inv

(***************************************************************************)
(* Verifiers that have both reached an epoch hold the same earlier         *)
(* entries, their signature maps included.                                 *)
(***************************************************************************)
THEOREM PrefixIdenticalHolds == Spec => []PrefixIdentical
BY Invariance, PTL DEF Inv

(***************************************************************************)
(* Epochs are consecutive, on one network, and start in increasing rounds. *)
(***************************************************************************)
THEOREM HistoryWellFormedHolds == Spec => []HistoryWellFormed
BY Invariance, PTL DEF Inv

(***************************************************************************)
(* No verifier relies on a threshold of two thirds of the stake or less.   *)
(***************************************************************************)
THEOREM ThresholdTwoThirdsHolds == Spec => []ThresholdTwoThirds
BY Invariance, PTL DEF Inv

-------------------------------------------------------------------------------
(***************************************************************************)
(* The trust bases implement EpochChain: every step of TrustBase extends   *)
(* the one chain, lets a verifier catch up with it, or leaves it alone.    *)
(***************************************************************************)

(***************************************************************************)
(* Some verifier has adopted most: what Longest chooses.  It is inductive  *)
(* since a history grows by one entry at a time.                           *)
(***************************************************************************)
IsLongest(v) == \A w \in Verifiers : Len(history[w]) <= Len(history[v])

HasLongest == \E v \in Verifiers : IsLongest(v)

LEMMA LongestExists ==
    ASSUME HasLongest
    PROVE  Longest \in Verifiers /\ IsLongest(Longest)
BY DEF HasLongest, IsLongest, Longest

LEMMA LengthsAreNaturals ==
    ASSUME TypeOK, NEW v \in Verifiers
    PROVE  Len(history[v]) \in Nat /\ DOMAIN history[v] = 1..Len(history[v])
<1>1. IsSeq(history[v])
  BY DEF TypeOK
<1>2. QED
  BY <1>1, AppendFacts

(***************************************************************************)
(* Sequences given by their elements, one of which is longer by one.       *)
(***************************************************************************)
LEMMA AppendByElements ==
    ASSUME NEW n \in Nat, NEW S, NEW c \in [1..n -> S], NEW d \in [1..(n + 1) -> S],
           \A i \in 1..n : d[i] = c[i]
    PROVE  /\ Len(c) = n /\ Len(d) = n + 1
           /\ d = Append(c, d[n + 1])
           /\ c = << >> <=> n = 0
<1>1. d[n + 1] \in S
  OBVIOUS
<1>2. c \in Seq(S) /\ d \in Seq(S) /\ Len(c) = n /\ Len(d) = n + 1
  OBVIOUS
<1>3. /\ Append(c, d[n + 1]) \in Seq(S) /\ Len(Append(c, d[n + 1])) = n + 1
      /\ \A i \in 1..n : Append(c, d[n + 1])[i] = c[i]
      /\ Append(c, d[n + 1])[n + 1] = d[n + 1]
  BY <1>1, <1>2
<1>4. \A i \in 1..(n + 1) : i \in 1..n \/ i = n + 1
  OBVIOUS
<1>5. \A i \in 1..Len(d) : d[i] = Append(c, d[n + 1])[i]
  BY <1>2, <1>3, <1>4
<1>6. d = Append(c, d[n + 1])
  BY <1>2, <1>3, <1>5, SeqEqual
<1>7. c = << >> <=> n = 0
  BY <1>2, EmptySeq
<1>8. QED
  BY <1>2, <1>6, <1>7

(***************************************************************************)
(* The chain that histories h hold, as a constant of h, so that it can be  *)
(* spoken of in either state of a step.                                    *)
(***************************************************************************)
MostIn(h, v) == \A w \in Verifiers : Len(h[w]) <= Len(h[v])

BodiesOf(h, v) == [i \in 1..Len(h[v]) |-> h[v][i].body]

ChainOf(h) == BodiesOf(h, CHOOSE v \in Verifiers : MostIn(h, v))

LEMMA ChainOfHistory ==
    LongestChain = ChainOf(history) /\ LongestChain' = ChainOf(history')
BY DEF LongestChain, Longest, ChainOf, BodiesOf, MostIn

(***************************************************************************)
(* Every verifier that has adopted most has the same bodies: Longest may   *)
(* change from one to another without changing the chain.                  *)
(***************************************************************************)
LEMMA ChainOfAnyLongest ==
    ASSUME NEW h,
           \A v \in Verifiers : Len(h[v]) \in Nat /\ DOMAIN h[v] = 1..Len(h[v]),
           \A v, w \in Verifiers : \A i \in DOMAIN h[v] \cap DOMAIN h[w] :
             h[v][i].body = h[w][i].body,
           NEW v \in Verifiers, MostIn(h, v)
    PROVE  ChainOf(h) = BodiesOf(h, v)
<1> DEFINE u == CHOOSE x \in Verifiers : MostIn(h, x)
<1>1. u \in Verifiers /\ MostIn(h, u)
  OBVIOUS
<1>2. ChainOf(h) = BodiesOf(h, u)
  BY DEF ChainOf
<1> HIDE DEF u
<1>3. Len(h[u]) = Len(h[v])
  BY <1>1 DEF MostIn
<1>4. \A i \in 1..Len(h[v]) : h[u][i].body = h[v][i].body
  BY <1>1, <1>3
<1>5. QED
  BY <1>2, <1>3, <1>4 DEF BodiesOf

LEMMA ChainNow ==
    ASSUME Inv, NEW v \in Verifiers, MostIn(history, v)
    PROVE  LongestChain = BodiesOf(history, v)
<1>1. \A w \in Verifiers : Len(history[w]) \in Nat /\ DOMAIN history[w] = 1..Len(history[w])
  BY LengthsAreNaturals DEF Inv
<1>2. \A x, w \in Verifiers : \A i \in DOMAIN history[x] \cap DOMAIN history[w] :
        history[x][i].body = history[w][i].body
  BY DEF Inv, Agreement
<1>3. QED
  BY <1>1, <1>2, ChainOfAnyLongest, ChainOfHistory

LEMMA ChainNext ==
    ASSUME Inv', NEW v \in Verifiers, MostIn(history', v)
    PROVE  LongestChain' = BodiesOf(history', v)
<1>1. ASSUME NEW w \in Verifiers
      PROVE  Len(history'[w]) \in Nat /\ DOMAIN history'[w] = 1..Len(history'[w])
  <2>1. IsSeq(history'[w])
    BY DEF Inv, TypeOK, IsSeq
  <2>2. QED
    BY <2>1, AppendFacts
<1>2. \A x, w \in Verifiers : \A i \in DOMAIN history'[x] \cap DOMAIN history'[w] :
        history'[x][i].body = history'[w][i].body
  BY DEF Inv, Agreement
<1>3. QED
  BY <1>1, <1>2, ChainOfAnyLongest, ChainOfHistory

-------------------------------------------------------------------------------
(***************************************************************************)
(* Initially nobody has adopted anything.                                  *)
(***************************************************************************)
LEMMA InitLongest == Init => HasLongest
<1> SUFFICES ASSUME Init
             PROVE  HasLongest
  OBVIOUS
<1>1. PICK v \in Verifiers : TRUE
  BY VerifiersAssumption
<1>2. \A w \in Verifiers : Len(history[w]) = 0
  BY DEF Init
<1>3. QED
  BY <1>1, <1>2 DEF HasLongest, IsLongest

LEMMA InitImplements == Init => Chain!Init
<1> SUFFICES ASSUME Init
             PROVE  Chain!Init
  OBVIOUS
<1>1. \A w \in Verifiers : Len(history[w]) = 0
  BY DEF Init
<1>2. Longest \in Verifiers
  BY InitLongest, LongestExists
<1>3. LongestChain = << >>
  BY <1>1, <1>2 DEF LongestChain
<1>4. AdoptedLengths = [v \in Verifiers |-> 0]
  BY <1>1 DEF AdoptedLengths
<1>5. QED
  BY <1>3, <1>4 DEF Chain!Init

-------------------------------------------------------------------------------
(***************************************************************************)
(* A step of verifier v that adopts an entry extends the chain if v had    *)
(* adopted all of it, and is a step of catching up otherwise: Agreement in *)
(* the next state says that v adopts what the chain already has.           *)
(***************************************************************************)
LEMMA AdoptingImplements ==
    ASSUME Inv, Inv', HasLongest, NEW v \in Verifiers, NEW e, IsEntry(e),
           history' = [history EXCEPT ![v] = Append(@, e)],
           genesis' = genesis, signed' = signed
    PROVE  HasLongest' /\ (Chain!Extend(v) \/ Chain!CatchUp(v))
<1> DEFINE n == Len(history[v])
           m == Len(history[Longest])
<1>1. Longest \in Verifiers /\ IsLongest(Longest)
  BY LongestExists
<1>2. /\ n \in Nat /\ m \in Nat /\ n <= m
      /\ \A w \in Verifiers : Len(history[w]) \in Nat /\ Len(history[w]) <= m
  BY <1>1, LengthsAreNaturals DEF Inv, IsLongest
<1>3. /\ \A i \in 1..n : history'[v][i] = history[v][i]
      /\ history'[v][n + 1] = e
      /\ DOMAIN history'[v] = 1..(n + 1)
      /\ \A w \in Verifiers : w # v => history'[w] = history[w]
  BY HistoryStep DEF Inv
<1>4. Len(history'[v]) = n + 1
  <2>1. history'[v] = Append(history[v], e) /\ IsSeq(history[v])
    BY DEF Inv, TypeOK
  <2>2. QED
    BY <2>1, AppendFacts
<1>5. HistoryWellFormed'
  BY DEF Inv
<1>6. AdoptedLengths' = [AdoptedLengths EXCEPT ![v] = @ + 1]
  <2>1. \A w \in Verifiers : Len(history'[w]) = IF w = v THEN n + 1 ELSE Len(history[w])
    BY <1>3, <1>4
  <2> HIDE DEF n
  <2>2. AdoptedLengths' = [w \in Verifiers |-> IF w = v THEN n + 1 ELSE Len(history[w])]
    BY <2>1 DEF AdoptedLengths
  <2>3. AdoptedLengths[v] = n
    BY DEF AdoptedLengths, n
  <2>4. QED
    BY <2>2, <2>3 DEF AdoptedLengths
<1>7. AdoptedLengths[v] = n
  BY DEF AdoptedLengths
<1>8. LongestChain = [i \in 1..m |-> LongestChain[i]]
  BY DEF LongestChain
<1>9. CASE n = m
  <2>1. MostIn(history, v)
    BY <1>2, <1>9 DEF MostIn
  <2>2. MostIn(history', v)
    BY <1>2, <1>3, <1>4, <1>9 DEF MostIn
  <2>3. LongestChain = [i \in 1..n |-> history[v][i].body]
    BY <2>1, ChainNow DEF BodiesOf
  <2>4. LongestChain' = [i \in 1..(n + 1) |-> history'[v][i].body]
    BY <1>4, <2>2, ChainNext DEF BodiesOf
  <2>5. /\ \A i \in 1..n : LongestChain'[i] = LongestChain[i]
        /\ LongestChain'[n + 1] = e.body
    BY <1>2, <1>3, <2>3, <2>4
  <2>6. /\ Len(LongestChain) = n /\ Len(LongestChain') = n + 1
        /\ LongestChain' = Append(LongestChain, LongestChain'[n + 1])
        /\ LongestChain = << >> <=> n = 0
    <3> DEFINE S == {history[v][i].body : i \in 1..n}
                      \cup {history'[v][i].body : i \in 1..(n + 1)}
    <3>1. LongestChain \in [1..n -> S] /\ LongestChain' \in [1..(n + 1) -> S]
      BY <2>3, <2>4
    <3> HIDE DEF S
    <3>2. QED
      BY <1>2, <2>5, <3>1, AppendByElements
  <2>7. e.body.epoch = n + 1 /\ e.body.network = genesis.network
    BY <1>2, <1>3, <1>5 DEF HistoryWellFormed
  <2>8. ASSUME n # 0
        PROVE  /\ e.body.network = LongestChain[n].network
               /\ e.body.epoch = LongestChain[n].epoch + 1
               /\ e.body.start > LongestChain[n].start
    <3>1. n \in 1..n /\ n \in 1..(n + 1 - 1) /\ n + 1 \in 1..(n + 1)
      BY <1>2, <2>8
    <3>2. LongestChain[n] = history[v][n].body /\ history'[v][n] = history[v][n]
      BY <1>3, <2>3, <3>1
    <3>3. /\ history[v][n].body.epoch = n
          /\ history[v][n].body.network = genesis.network
      BY <3>1, LengthsAreNaturals DEF Inv, HistoryWellFormed
    <3>4. history'[v][n].body.start < history'[v][n + 1].body.start
      BY <1>3, <1>5, <3>1 DEF HistoryWellFormed
    <3>5. history[v][n].body.start \in Nat /\ e.body.start \in Nat
      BY <3>1, LengthsAreNaturals DEF Inv, TypeOK, IsEntry, IsBody
    <3>6. QED
      BY <1>3, <2>7, <3>2, <3>3, <3>4, <3>5
  <2>9. Chain!Extends(LongestChain'[n + 1])
    BY <2>5, <2>6, <2>7, <2>8 DEF Chain!Extends
  <2>10. Chain!Extend(v)
    BY <1>6, <1>7, <2>6, <2>9 DEF Chain!Extend
  <2>11. QED
    BY <2>2, <2>10 DEF HasLongest, IsLongest, MostIn
<1>10. CASE n < m
  <2>1. Longest # v /\ history'[Longest] = history[Longest]
    BY <1>1, <1>2, <1>3, <1>10
  <2>2. \A w \in Verifiers : Len(history'[w]) <= Len(history'[Longest])
    BY <1>2, <1>3, <1>4, <1>10, <2>1
  <2>3. PICK u \in Verifiers : u = Longest
    BY <1>1
  <2>4. LongestChain' = LongestChain /\ HasLongest'
    <3>1. MostIn(history, u) /\ MostIn(history', u) /\ history'[u] = history[u]
      BY <1>1, <2>1, <2>2, <2>3 DEF MostIn, IsLongest
    <3>2. LongestChain = BodiesOf(history, u) /\ LongestChain' = BodiesOf(history', u)
      BY <3>1, ChainNow, ChainNext
    <3>3. QED
      BY <3>1, <3>2 DEF BodiesOf, HasLongest, IsLongest, MostIn
  <2>5. Len(LongestChain) = m
    <3> DEFINE S == {LongestChain[i] : i \in 1..m}
    <3>1. LongestChain \in [1..m -> S]
      BY <1>8
    <3> HIDE DEF S
    <3>2. QED
      BY <1>2, <3>1
  <2>6. Chain!CatchUp(v)
    BY <1>6, <1>7, <1>10, <2>4, <2>5 DEF Chain!CatchUp
  <2>7. QED
    BY <2>4, <2>6
<1>11. QED
  BY <1>2, <1>9, <1>10

(***************************************************************************)
(* Every step is a step of EpochChain or leaves it alone.                  *)
(***************************************************************************)
LEMMA StepImplements ==
    Inv /\ Inv' /\ HasLongest /\ [Next]_vars =>
        HasLongest' /\ [Chain!Next]_<<LongestChain, AdoptedLengths>>
<1> SUFFICES ASSUME Inv, Inv', HasLongest, [Next]_vars
             PROVE  HasLongest' /\ [Chain!Next]_<<LongestChain, AdoptedLengths>>
  OBVIOUS
<1>1. ASSUME history' = history
      PROVE  HasLongest' /\ UNCHANGED <<LongestChain, AdoptedLengths>>
  BY <1>1 DEF HasLongest, IsLongest, LongestChain, AdoptedLengths, Longest
<1>2. CASE \E n \in Honest : Sign(n)
  BY <1>1, <1>2 DEF Sign
<1>3. CASE UNCHANGED vars
  BY <1>1, <1>3 DEF vars
<1>4. ASSUME NEW v \in Verifiers, LoadGenesis(v)
      PROVE  HasLongest' /\ Chain!Next
  <2>1. PICK sigs \in SUBSET NodeIDs :
          history' = [history EXCEPT ![v] = <<[body |-> genesis, sigs |-> sigs]>>]
    BY <1>4 DEF LoadGenesis
  <2> DEFINE e == [body |-> genesis, sigs |-> sigs]
  <2>2. history[v] = << >> /\ genesis' = genesis /\ signed' = signed
    BY <1>4 DEF LoadGenesis
  <2>3. IsEntry(e)
    BY DEF IsEntry, Inv, TypeOK, IsBuilt
  <2>4. history' = [history EXCEPT ![v] = Append(@, e)]
    BY <2>1, <2>2, Append(<< >>, e) = <<e>> DEF Inv, TypeOK
  <2> HIDE DEF e
  <2>5. QED
    BY <2>2, <2>3, <2>4, AdoptingImplements DEF Chain!Next
<1>5. ASSUME NEW v \in Verifiers, Adopt(v)
      PROVE  HasLongest' /\ Chain!Next
  <2>1. PICK b \in {s[2] : s \in signed} \cup Forged({Hash(e) : e \in Adopted}),
             sigs \in SUBSET NodeIDs :
          history' = [history EXCEPT ![v] = Append(@, [body |-> b, sigs |-> sigs])]
    BY <1>5 DEF Adopt
  <2> DEFINE e == [body |-> b, sigs |-> sigs]
             n == Len(history[v])
  <2>2. genesis' = genesis /\ signed' = signed
    BY <1>5 DEF Adopt
  <2>3. IsEntry(e)
    <3>1. IsSeq(history[v])
      BY DEF Inv, TypeOK
    <3>2. history'[v] = Append(history[v], e)
      BY <2>1 DEF Inv, TypeOK
    <3> HIDE DEF e
    <3>3. DOMAIN history'[v] = 1..(n + 1) /\ history'[v][n + 1] = e /\ n \in Nat
      BY <3>1, <3>2, AppendFacts
    <3>4. \A i \in DOMAIN history'[v] : IsEntry(history'[v][i])
      BY DEF Inv, TypeOK, IsEntry, IsBody
    <3>5. QED
      BY <3>3, <3>4
  <2>4. history' = [history EXCEPT ![v] = Append(@, e)]
    BY <2>1
  <2> HIDE DEF e
  <2>5. QED
    BY <2>2, <2>3, <2>4, AdoptingImplements DEF Chain!Next
<1>6. QED
  BY <1>2, <1>3, <1>4, <1>5 DEF Next

(***************************************************************************)
(* There is one chain of trust bases that only grows, epoch by epoch, and  *)
(* every verifier has adopted a prefix of it: the specification of the     *)
(* code implements EpochChain (Verify).                                    *)
(***************************************************************************)
THEOREM Implementation == Spec => ImplementsEpochChain
<1>1. QED
  BY Invariance, InitLongest, InitImplements, StepImplements, PTL
     DEF Spec, ImplementsEpochChain, Chain!Spec
===============================================================================

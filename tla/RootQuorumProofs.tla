--------------------------- MODULE RootQuorumProofs ---------------------------
(***************************************************************************)
(* What the arithmetic of RootQuorum guarantees for every committee whose  *)
(* stakes do not overflow the stake type.                                  *)
(***************************************************************************)
EXTENDS RootQuorum, FiniteSetTheorems, TLAPS

\* A finite committee of positive stakes.
IsCommittee(c) == /\ IsFiniteSet(DOMAIN c)
                  /\ \A n \in DOMAIN c : c[n] \in 1..MaxStake

(***************************************************************************)
(* The votes of any signers are finite and among those of the committee.   *)
(***************************************************************************)
LEMMA VotesBounded ==
    ASSUME NEW c, IsCommittee(c), NEW S
    PROVE  /\ IsFiniteSet(Votes(c, S))
           /\ IsFiniteSet(Votes(c, DOMAIN c))
           /\ Stake(c, S) \in Nat
           /\ Stake(c, DOMAIN c) \in Nat
           /\ Stake(c, S) <= Stake(c, DOMAIN c)
<1> DEFINE D == DOMAIN c
           I == 1..MaxStake
<1>1. IsFiniteSet(D \X I)
  <2>1. IsFiniteSet(D) /\ IsFiniteSet(I)
    BY FS_Interval, QuorumAssumption DEF IsCommittee
  <2> HIDE DEF D, I
  <2>2. QED
    BY <2>1, FS_Product
<1>2. Votes(c, DOMAIN c) \subseteq D \X I
  BY Zenon DEF Votes
<1>3. Votes(c, S) \subseteq Votes(c, DOMAIN c)
  BY DEF Votes
<1>4. IsFiniteSet(Votes(c, DOMAIN c))
  BY <1>1, <1>2, FS_Subset
<1>5. IsFiniteSet(Votes(c, S)) /\ Cardinality(Votes(c, S)) <= Cardinality(Votes(c, DOMAIN c))
  BY <1>3, <1>4, FS_Subset
<1>6. QED
  BY <1>4, <1>5, FS_CardinalityType DEF Stake

(***************************************************************************)
(* More signers hold at least as many votes.                               *)
(***************************************************************************)
LEMMA StakeMonotone ==
    ASSUME NEW c, IsCommittee(c), NEW T, NEW S \in SUBSET T
    PROVE  Stake(c, S) <= Stake(c, T)
<1>1. Votes(c, S) \subseteq Votes(c, T)
  BY DEF Votes
<1>2. IsFiniteSet(Votes(c, T))
  BY VotesBounded
<1>3. QED
  BY <1>1, <1>2, FS_Subset DEF Stake

(***************************************************************************)
(* Without overflow VerifyQuorumSignatures compares exact sums.            *)
(***************************************************************************)
LEMMA QuorumIsExact ==
    ASSUME NEW c, IsCommittee(c), NoOverflow(c), NEW S, NEW q \in Nat,
           VerifyQuorumSignatures(c, q, S)
    PROVE  Stake(c, S) >= q
<1>1. Stake(c, S) \in Nat /\ Stake(c, S) <= Stake(c, DOMAIN c) /\ Stake(c, DOMAIN c) \in Nat
  BY VotesBounded
<1>2. Stake(c, S) < Modulus
  BY <1>1, QuorumAssumption DEF NoOverflow
<1>3. QED
  BY <1>2 DEF VerifyQuorumSignatures, Wrap

(***************************************************************************)
(* Two quorums of a sound threshold share a member outside every minority. *)
(***************************************************************************)
LEMMA QuorumsIntersect ==
    ASSUME NEW c, IsCommittee(c), NEW F, FaultyMinority(c, F),
           NEW q \in Nat, SoundThreshold(c, q),
           NEW S, NEW T, Stake(c, S) >= q, Stake(c, T) >= q
    PROVE  \E n \in S \cap T : n \notin F
<1> DEFINE A == Votes(c, S)
           B == Votes(c, T)
           M == Votes(c, F)
           W == Votes(c, DOMAIN c)
<1>1. /\ IsFiniteSet(A) /\ IsFiniteSet(B) /\ IsFiniteSet(M) /\ IsFiniteSet(W)
      /\ Stake(c, S) \in Nat /\ Stake(c, T) \in Nat
      /\ Stake(c, F) \in Nat /\ Stake(c, DOMAIN c) \in Nat
  BY VotesBounded
<1>2. A \cup B \subseteq W
  BY DEF Votes
<1>3. /\ Cardinality(A \cup B) \in Nat
      /\ Cardinality(A \cup B) <= Stake(c, DOMAIN c)
  BY <1>1, <1>2, FS_Subset, FS_CardinalityType DEF Stake
<1>4. Cardinality(A \cup B) = Stake(c, S) + Stake(c, T) - Cardinality(A \cap B)
  BY <1>1, FS_Union DEF Stake
<1>5. IsFiniteSet(A \cap B) /\ Cardinality(A \cap B) \in Nat
  BY <1>1, FS_Subset, FS_CardinalityType
<1>6. Cardinality(A \cap B) > Stake(c, F)
  BY <1>1, <1>3, <1>4, <1>5 DEF SoundThreshold, FaultyMinority
<1>7. ~ (A \cap B \subseteq M)
  <2>1. A \cap B \subseteq M => Cardinality(A \cap B) <= Stake(c, F)
    BY <1>1, FS_Subset DEF Stake
  <2>2. QED
    BY <2>1, <1>1, <1>5, <1>6
<1>8. PICK t \in A \cap B : t \notin M
  BY <1>7
<1>9. t[1] \in S \cap T /\ t[1] \notin F
  BY <1>8 DEF Votes
<1>10. QED
  BY <1>9

(***************************************************************************)
(* NewTrustBase returns no trust base with a threshold of two thirds of    *)
(* the stake or less, nor with one the committee cannot reach, as long as  *)
(* twice the stake does not overflow.                                      *)
(***************************************************************************)
THEOREM ConstructedThresholdIsSound ==
    ASSUME NEW c, IsCommittee(c), NoOverflow(c), NEW conf \in Nat, Constructible(c, conf)
    PROVE  /\ QuorumThreshold(c, conf) \in Nat \ {0}
           /\ SoundThreshold(c, QuorumThreshold(c, conf))
<1> DEFINE T == Stake(c, DOMAIN c)
<1>1. T \in Nat
  BY VotesBounded
<1>2. T < Modulus /\ 2 * T < Modulus
  BY <1>1, QuorumAssumption DEF NoOverflow
<1>3. TotalStake(c) = T
  BY <1>1, <1>2 DEF TotalStake, Wrap
<1>4. MinStake(c) = ((T * 2) \div 3) + 1
  BY <1>1, <1>2, <1>3 DEF MinStake, Wrap
<1>5. MinStake(c) \in Nat \ {0} /\ 3 * MinStake(c) > 2 * T
  BY <1>1, <1>4
<1>6. QuorumThreshold(c, conf) >= MinStake(c) /\ QuorumThreshold(c, conf) <= T
  BY <1>3 DEF Constructible
<1>7. QuorumThreshold(c, conf) \in Nat
  BY <1>5 DEF QuorumThreshold
<1> HIDE DEF T
<1>8. QuorumThreshold(c, conf) # 0 /\ 3 * QuorumThreshold(c, conf) > 2 * T
  BY <1>1, <1>5, <1>6, <1>7
<1>9. QED
  BY <1>6, <1>7, <1>8 DEF SoundThreshold, T

(***************************************************************************)
(* With one vote per node, stakes count nodes.                             *)
(***************************************************************************)
LEMMA UnitStake ==
    ASSUME NEW c, IsCommittee(c), \A n \in DOMAIN c : c[n] = 1,
           NEW S \in SUBSET DOMAIN c
    PROVE  IsFiniteSet(S) /\ Stake(c, S) = Cardinality(S)
<1> DEFINE One == {1}
<1>1. IsFiniteSet(S)
  BY FS_Subset DEF IsCommittee
<1>2. IsFiniteSet(One) /\ Cardinality(One) = 1
  BY FS_Singleton
<1>3. CASE S = {}
  <2>1. Votes(c, S) = {}
    BY <1>3 DEF Votes
  <2>2. QED
    BY <1>1, <1>3, <2>1 DEF Stake
<1>4. CASE S # {}
  <2>1. 1 \in 1..MaxStake /\ \A k \in 1..MaxStake : k <= 1 <=> k = 1
    BY <1>4, QuorumAssumption DEF IsCommittee
  <2>2. Votes(c, S) = S \X One
    <3>1. \A t \in Votes(c, S) : t \in S \X One
      BY <2>1 DEF Votes
    <3>2. \A t \in S \X One : t \in Votes(c, S)
      BY <2>1 DEF Votes
    <3>3. QED
      BY <3>1, <3>2
  <2> HIDE DEF One
  <2>3. Cardinality(S \X One) = Cardinality(S) * Cardinality(One)
    BY <1>1, <1>2, FS_Product
  <2>4. Cardinality(S) \in Nat
    BY <1>1, FS_CardinalityType
  <2>5. QED
    BY <1>1, <1>2, <2>2, <2>3, <2>4 DEF Stake
<1>5. QED
  BY <1>3, <1>4

(***************************************************************************)
(* GetMaxFaultyNodes, which "only works if one node == one vote": that     *)
(* many nodes hold less than a third of the votes, and without them the    *)
(* others still reach the threshold.  One more faulty node and the others  *)
(* do not.                                                                 *)
(***************************************************************************)
THEOREM MaxFaultyNodesTolerated ==
    ASSUME NEW c, IsCommittee(c), \A n \in DOMAIN c : c[n] = 1,
           NEW q \in Nat, SoundThreshold(c, q),
           NEW F \in SUBSET DOMAIN c
    PROVE  /\ Cardinality(F) <= GetMaxFaultyNodes(c, q)
                <=> Stake(c, DOMAIN c \ F) >= q
           /\ Cardinality(F) <= GetMaxFaultyNodes(c, q) => FaultyMinority(c, F)
<1> DEFINE D == DOMAIN c
<1>1. /\ IsFiniteSet(D) /\ IsFiniteSet(F)
      /\ Stake(c, D) = Cardinality(D) /\ Stake(c, F) = Cardinality(F)
      /\ Stake(c, D \ F) = Cardinality(D \ F)
  BY UnitStake
<1>2. Cardinality(D) \in Nat /\ Cardinality(F) \in Nat
  BY <1>1, FS_CardinalityType
<1>3. Cardinality(D \ F) = Cardinality(D) - Cardinality(F)
  <2>1. D \cap F = F
    OBVIOUS
  <2>2. QED
    BY <1>1, <2>1, FS_Difference
<1>4. GetMaxFaultyNodes(c, q) = Cardinality(D) - q
  BY <1>1, <1>2 DEF GetMaxFaultyNodes, SoundThreshold
<1>5. QED
  BY <1>1, <1>2, <1>3, <1>4 DEF SoundThreshold, FaultyMinority
===============================================================================

------------------------------ MODULE RootQuorum ------------------------------
(***************************************************************************)
(* Stake-weighted voting of the root committee: the arithmetic of          *)
(* NewTrustBase, VerifyQuorumSignatures and GetMaxFaultyNodes in           *)
(* types/root_trust_base.go.                                               *)
(*                                                                         *)
(* A committee is a function from its node identifiers to their stakes.  A *)
(* node of stake s holds the s votes <<n, 1>> .. <<n, s>>; the stake of a  *)
(* set of signers is the number of votes it holds, so that sums of stakes  *)
(* are cardinalities and disjoint or overlapping sets of signers compare   *)
(* as sets of votes do.  Machine arithmetic is modulo Modulus (2^64 in the *)
(* code).                                                                  *)
(***************************************************************************)
EXTENDS Integers, FiniteSets

CONSTANTS MaxStake,     \* largest stake a node may have
          Modulus       \* number of values of the stake type

ASSUME QuorumAssumption == /\ MaxStake \in Nat
                           /\ Modulus \in Nat \ {0}
                           /\ MaxStake < Modulus

Wrap(x) == IF x < Modulus THEN x ELSE x % Modulus

\* The votes the members of committee c among S hold.
Votes(c, S) == {t \in S \X (1..MaxStake) : t[1] \in DOMAIN c /\ t[2] <= c[t[1]]}

Stake(c, S) == Cardinality(Votes(c, S))

\* The sum NewTrustBase accumulates over all the root nodes.
TotalStake(c) == Wrap(Stake(c, DOMAIN c))

\* minStake := totalStake*2/3 + 1
MinStake(c) == (Wrap(TotalStake(c) * 2) \div 3) + 1

\* The threshold NewTrustBase stores when it is configured with conf (0: none).
QuorumThreshold(c, conf) == IF conf = 0 THEN MinStake(c) ELSE conf

\* Mutant: a configured threshold is not compared with the minimum.
Constructible_NoMinimum(c, conf) ==
    DOMAIN c # {} /\ QuorumThreshold(c, conf) <= TotalStake(c)

\* NewTrustBase returns a trust base and no error.
Constructible(c, conf) ==
    /\ DOMAIN c # {}
    /\ QuorumThreshold(c, conf) >= MinStake(c)
    /\ QuorumThreshold(c, conf) <= TotalStake(c)

\* S are the nodes whose signature in the map verifies under their own key:
\* those that are no members of the committee do not count.
VerifyQuorumSignatures(c, threshold, S) == Wrap(Stake(c, S)) >= threshold

\* uint64(len(RootNodes)) - QuorumThreshold, wrapping below zero.
GetMaxFaultyNodes(c, threshold) ==
    IF Cardinality(DOMAIN c) >= threshold
    THEN Cardinality(DOMAIN c) - threshold
    ELSE Modulus + Cardinality(DOMAIN c) - threshold

(***************************************************************************)
(* What a threshold is for: it exceeds two thirds of the stake, in exact   *)
(* arithmetic, and the committee as a whole can reach it.                  *)
(***************************************************************************)
SoundThreshold(c, threshold) ==
    /\ 3 * threshold > 2 * Stake(c, DOMAIN c)
    /\ threshold <= Stake(c, DOMAIN c)

\* Members in F hold less than a third of the stake.
FaultyMinority(c, F) == 3 * Stake(c, F) < Stake(c, DOMAIN c)

\* No sum NewTrustBase computes exceeds the stake type.
NoOverflow(c) == 2 * Stake(c, DOMAIN c) < Modulus
===============================================================================

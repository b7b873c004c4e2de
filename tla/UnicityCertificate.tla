-------------------------- MODULE UnicityCertificate --------------------------
(***************************************************************************)
(* The unicity certificates of one shard, as its nodes check them against  *)
(* each other (types/unicity_certificate.go, types/input_record.go).       *)
(*                                                                         *)
(* The root chain certifies an input record of the shard in some of its    *)
(* rounds, and repeats the last one in others (NewRepeatIR).  Nodes get    *)
(* certificates late, twice, out of order or not at all; a node keeps the  *)
(* last certificate it accepted and accepts another one when               *)
(* CheckNonEquivocatingCertificates has no objection.  Signatures are the  *)
(* subject of UnicitySeal; here a faulty root chain may certify any input  *)
(* record that is valid by itself, in any root round.                      *)
(***************************************************************************)
EXTENDS Integers, Sequences, FiniteSets

CONSTANTS Nodes,        \* nodes of the shard
          States,       \* state hashes
          Blocks,       \* block hashes
          NoBlock,      \* the empty block hash
          Rest,         \* values of the other fields of an input record
          MaxShardRound, \* bound on shard rounds
          MaxRootRound, \* bound on root rounds
          MaxKept       \* bound on the certificates a node accepts

ASSUME CertificateAssumption == /\ NoBlock \notin Blocks
                                /\ MaxShardRound \in Nat /\ MaxRootRound \in Nat \ {0}

VARIABLES correct,      \* whether the root chain follows its protocol
          issued,       \* the certificates it has issued, if it is correct
          latest,       \* the last one of them
          kept          \* kept[n]: what node n accepted, oldest first

certificateVars == <<correct, issued, latest, kept>>

InputRecords == [round : 0..MaxShardRound, prev : States, hash : States,
                 block : Blocks \cup {NoBlock}, rest : Rest]

Certificates == [root : 1..MaxRootRound, ir : InputRecords]

\* InputRecord.IsValid: the state changes iff there is a block.
IsValid(ir) == ir.prev = ir.hash <=> ir.block = NoBlock

EqualIR(a, b) == a = b

-------------------------------------------------------------------------------
(* The relation of a certificate to the previous one a node has. *)

\* Mutant: only the state hashes of one shard round are compared.
NonEquivocating_StateOnly(prevUC, newUC) ==
    /\ newUC.root >= prevUC.root
    /\ newUC.ir.round >= prevUC.ir.round
    /\ newUC.ir.round = prevUC.ir.round => newUC.ir.hash = prevUC.ir.hash
    /\ newUC.ir.round = prevUC.ir.round + 1 => newUC.ir.prev = prevUC.ir.hash
    /\ newUC.ir.round # prevUC.ir.round /\ newUC.ir.block # NoBlock
         => newUC.ir.block # prevUC.ir.block

\* Mutant: a certificate must extend the previous one whatever came between.
NonEquivocating_NoGaps(prevUC, newUC) ==
    /\ newUC.root >= prevUC.root
    /\ newUC.ir.round >= prevUC.ir.round
    /\ newUC.ir.round = prevUC.ir.round => EqualIR(newUC.ir, prevUC.ir)
    /\ newUC.ir.round # prevUC.ir.round => newUC.ir.prev = prevUC.ir.hash

(***************************************************************************)
(* CheckNonEquivocatingCertificates returns no error.  The conditions are  *)
(* numbered as in the code.                                                *)
(***************************************************************************)
CheckNonEquivocatingCertificates(prevUC, newUC) ==
    LET old == prevUC.ir
        ir == newUC.ir
        extends == ir.prev = old.hash
    IN  /\ newUC.root >= prevUC.root
        /\ ir.round >= old.round
        /\ \/ /\ ir.round = old.round                              \* 1.
              /\ EqualIR(ir, old)
           \/ /\ ir.round > old.round
              /\ ir.round = old.round + 1 => extends               \* 2.
              /\ extends /\ ir.hash = ir.prev => ir.block = NoBlock  \* 5.
              /\ extends /\ ir.hash # ir.prev => ir.block # NoBlock  \* 6.
              /\ ir.block # NoBlock => ir.block # old.block        \* 7.

IsSuccessor(uc, prevUC) == uc.ir.prev = prevUC.ir.hash

IsDuplicate(uc, prevUC) == uc.root = prevUC.root

\* Mutant: the root rounds are not compared.
IsRepeat_AnyRoot(uc, prevUC) == EqualIR(prevUC.ir, uc.ir)

IsRepeat(uc, prevUC) == EqualIR(prevUC.ir, uc.ir) /\ prevUC.root < uc.root

IsInitial(uc) == uc.ir.round = 0

-------------------------------------------------------------------------------
\* The initial certificate, for shard round 0, has no block and changes nothing.
CertificateInit ==
    \E s \in States, d \in Rest :
        LET uc == [root |-> 1, ir |-> [round |-> 0, prev |-> s, hash |-> s,
                                       block |-> NoBlock, rest |-> d]]
        IN  /\ issued = {uc}
            /\ latest = uc
            /\ correct \in BOOLEAN
            /\ kept = [n \in Nodes |-> <<uc>>]

\* The root chain certifies a block that extends the state it certified last,
\* or a round without transactions.  Shard rounds may be skipped.
Certify ==
    /\ correct
    /\ latest.root < MaxRootRound
    /\ \E ir \in InputRecords :
        /\ ir.round > latest.ir.round
        /\ ir.prev = latest.ir.hash
        /\ IsValid(ir)
        /\ \A uc \in issued : ir.block # NoBlock => uc.ir.block # ir.block
        /\ latest' = [root |-> latest.root + 1, ir |-> ir]
    /\ issued' = issued \cup {latest'}
    /\ UNCHANGED <<correct, kept>>

\* Mutant: the block hash is not copied.
NewRepeatIR_NoBlock(ir) == [ir EXCEPT !.block = NoBlock]

NewRepeatIR(ir) == ir

\* The shard missed its round: the root chain repeats the input record.
Repeat ==
    /\ correct
    /\ latest.root < MaxRootRound
    /\ latest' = [root |-> latest.root + 1, ir |-> NewRepeatIR(latest.ir)]
    /\ issued' = issued \cup {latest'}
    /\ UNCHANGED <<correct, kept>>

Last(s) == s[Len(s)]

\* Node n gets a certificate, and refuses it or keeps it as its last one.
Receive(n, uc) ==
    /\ IF correct THEN uc \in issued ELSE IsValid(uc.ir)
    /\ Len(kept[n]) < MaxKept
    /\ CheckNonEquivocatingCertificates(Last(kept[n]), uc)
    /\ kept' = [kept EXCEPT ![n] = Append(@, uc)]
    /\ UNCHANGED <<issued, latest, correct>>

CertificateNext == \/ Certify
        \/ Repeat
        \/ \E n \in Nodes, uc \in Certificates : Receive(n, uc)

CertificateSpec == CertificateInit /\ [][CertificateNext]_certificateVars

-------------------------------------------------------------------------------
CertificateTypeOK ==
    /\ correct \in BOOLEAN
    /\ latest \in issued
    /\ issued \subseteq {uc \in Certificates : IsValid(uc.ir)}
    /\ kept \in [Nodes -> Seq(Certificates)]
    /\ \A n \in Nodes : kept[n] # << >>

(***************************************************************************)
(* No false alarm: a node that holds any certificate of a correct root     *)
(* chain accepts any other one that is not older, whatever it has missed   *)
(* in between (CheckNonEquivocatingCertificates).                          *)
(***************************************************************************)
NoFalseAlarm ==
    correct => \A a, b \in issued :
                 a.root <= b.root => CheckNonEquivocatingCertificates(a, b)

(***************************************************************************)
(* Whatever the root chain issues, a node never accepts two different      *)
(* input records for one shard round, nor one that does not extend the     *)
(* record it accepted for the round before, although it compares each      *)
(* certificate with the previous one only.                                 *)
(***************************************************************************)
AcceptedHistory ==
    \A n \in Nodes : \A j \in DOMAIN kept[n] : \A i \in 1..(j - 1) :
        LET old == kept[n][i]
            new == kept[n][j]
        IN  /\ old.root <= new.root
            /\ old.ir.round <= new.ir.round
            /\ old.ir.round = new.ir.round => old.ir = new.ir
            /\ old.ir.round + 1 = new.ir.round => IsSuccessor(new, old)

(***************************************************************************)
(* The predicates a node tells certificates apart with: of a correct root  *)
(* chain, one that is not older than the last one is exactly one of its    *)
(* duplicate, its repeat, or a certificate of a later shard round.         *)
(***************************************************************************)
OneKind ==
    correct => \A a, b \in issued : a.root <= b.root =>
        LET kinds == <<IsDuplicate(b, a), IsRepeat(b, a), b.ir.round > a.ir.round>>
        IN  /\ \E k \in 1..3 : \A l \in 1..3 : kinds[l] <=> l = k
            /\ IsDuplicate(b, a) => a = b
===============================================================================

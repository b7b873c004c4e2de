---------------------------- MODULE MCTransactions ----------------------------
(***************************************************************************)
(* A client with two payloads and one key, or one for each purpose, and a  *)
(* node with one unit.  Neither sees the variables of the other, so that a *)
(* behaviour is of one of them: the states of both add up.                 *)
(***************************************************************************)
EXTENDS TransactionOrder, TransactionExecution

VARIABLE who

MCKeyrings == {[p \in Purposes |-> "key"], [p \in Purposes |-> p]}

Init == who \in {"client", "node"} /\ OrderInit /\ ExecInit

Next ==
    \/ who = "client" /\ OrderNext /\ UNCHANGED <<who, execVars>>
    \/ who = "node" /\ ExecNext /\ UNCHANGED <<who, orderVars>>

Spec == Init /\ [][Next]_<<who, orderVars, execVars>>
===============================================================================

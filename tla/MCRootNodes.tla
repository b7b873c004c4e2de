------------------------------ MODULE MCRootNodes -----------------------------
(***************************************************************************)
(* RootNodes with the identifiers 1 to 4, of which 4 is nobody's.  Nodes   *)
(* have their own key, that of another or none, and different stakes.      *)
(***************************************************************************)
EXTENDS RootNodes, TLC

Node(id, key, stake) == [id |-> id, key |-> key, stake |-> stake]

One == Node(1, 1, 1)
Two == Node(2, 2, 1)
Heavy == Node(3, 3, 2)
NoKey == Node(2, BadKey, 1)
Usurper == Node(1, 2, 1)

\* Every order of three nodes, nodes without a key, nil or listed twice.
MCBuiltLists ==
    {<<a, b, c>> : a, b, c \in {One, Two, Heavy}}
      \cup {<<Heavy, NoKey, One>>, <<One, NoKey>>, <<Usurper, One, Heavy>>,
            <<NilNode, Two, Heavy>>}

MCDecodedLists ==
    {<<a, b, c>> : a, c \in {One, Heavy}, b \in {One, Heavy, NilNode}}
      \cup {<<One, Usurper, Heavy>>, <<Usurper, One, NoKey>>, <<One, Two, NilNode, Heavy>>,
            <<Heavy, NoKey, One>>}

\* All have signed; two of the signatures are altered on the way; they are of
\* another key, of other data, and one is of a stranger.
MCSignatureMaps ==
    LET all == [id \in {1, 2, 3} |-> SignHash(id)]
    IN  {all,
         [all EXCEPT ![2].v = 2, ![3].bytes = 64],
         [id \in 1..4 |-> IF id = 1 THEN SignHash(2) ELSE [SignHash(id) EXCEPT !.over = id # 2]]}

MCThresholds == {0, 3}
===============================================================================

----------------------------- MODULE MCShardState -----------------------------
(***************************************************************************)
(* ShardState with bytes of two bits: four shards, of identifiers up to    *)
(* one and a half bytes.  Summary values are modulo four, so that they     *)
(* wrap around.                                                            *)
(***************************************************************************)
EXTENDS ShardState

\* Of these only (2, 8) and (8, 10) are valid.
MCPDRs == {[typeBits |-> x[1], unitBits |-> x[2]] :
             x \in {<<2, 8>>, <<8, 10>>, <<3, 8>>, <<10, 8>>, <<2, 2>>, <<2, 9>>, <<2, 12>>}}

MCScheme == {NewID(<<0>>), NewID(<<1, 0>>), NewID(<<1, 1, 0>>), NewID(<<1, 1, 1>>)}
MCNodeShards == {NewID(<<0>>), NewID(<<1, 1, 0>>)}

\* Under the first description two of the random parts differ in a bit that the
\* longer shard identifiers overwrite: three unit identifiers of one of the shards
\* and two of the other.  Under the second, two of different types of each.
MCRandoms(p) ==
    IF p.unitBits = 8
    THEN {[i \in 1..8 |-> 0], [i \in 1..8 |-> 1], [i \in 1..8 |-> IF i = 2 THEN 1 ELSE 0]}
    ELSE {[i \in 1..p.unitBits |-> 1]}

\* Bytes are named for what they begin: an array of one item, a number, a text
\* or an order.
D1 == <<"array", "1">>
D2 == <<"array", "text">>
Order == <<"order">>

MCNumbers == {<<"0">>, <<"1">>, <<"byte", "9">>}
MCItems == MCNumbers \cup {D1, D2, Order, <<"text">>}

MCUnitStates == {[data |-> D1, round |-> <<"0">>, lock |-> << >>],
                 [data |-> D2, round |-> <<"0">>, lock |-> Order]}

\* The same data, marked for deletion; and the bytes of the state of a unit, taken
\* apart at the number in its data.
MCPresented == MCUnitStates \cup
                 {[data |-> D1, round |-> <<"byte", "9">>, lock |-> << >>],
                  [data |-> <<"array">>, round |-> <<"1">>, lock |-> <<"0">>]}

MCValue(state) == IF state.data = D1 THEN 3 ELSE 2
===============================================================================

---------------------------- MODULE MCRedisBook ----------------------------
(* Instances of RedisBook and, beside it, of the OrderBook class its levels  *)
(* come from.  As they share no state, each is explored while the other      *)
(* rests in its first state.  RedisBook: a price that moves across its own   *)
(* book, and a quote without a bid side that Redis stores but does not       *)
(* serve.  OrderBook: refused prices below and at zero, and two volumes.     *)
EXTENDS RedisBook, OrderBook, TLC

CONSTANTS p1, p2

MCAnswer(p, v, ok) == [price |-> p, volume |-> v, valid |-> ok]

Monday  == MCAnswer(10, 40, TRUE)
Tuesday == MCAnswer(12, 40, TRUE)    \* the bids reach Monday's asks
Penny   == MCAnswer(1, 40, FALSE)    \* no bid side, and stored but not served

MCAnswers == {Monday, Tuesday, Penny}

MCPrices == -1 .. 2

MCInit == Init /\ BookInit

MCNext ==
    \/ BookInit /\ Next /\ UNCHANGED bookVars
    \/ Init /\ BookNext /\ UNCHANGED vars

MCSpec == MCInit /\ [][MCNext]_<<vars, bookVars>>

Symmetry == Permutations(Procs)
=============================================================================

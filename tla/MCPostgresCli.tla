---------------------------- MODULE MCPostgresCli ----------------------------
(* Instances of PostgresCli and, beside it, of Timestamp, with which a run   *)
(* reads its arguments: as they share no state, each is explored while the   *)
(* other rests in its first state.                                           *)
EXTENDS PostgresCli, Timestamp, TLC

CONSTANTS s1, s2, A, V, t1

MCQuote(now, at, low, high) ==
    [op |-> "quote", sym |-> A, src |-> V, now |-> now, at |-> at, formed |-> TRUE,
     price |-> 1, open |-> 0, high |-> high, low |-> low, volume |-> 0]
MCTick(id, price) ==
    [op |-> "tick", sym |-> A, src |-> V, now |-> FALSE, at |-> 1, formed |-> TRUE,
     id |-> id, price |-> price, size |-> 1]
MCSnapshot(bid, ask) ==
    [op |-> "snapshot", sym |-> A, src |-> V, now |-> FALSE, at |-> 1, formed |-> TRUE,
     bid |-> bid, ask |-> ask, imbalance |-> - One, bidVolume |-> 0, askVolume |-> 1]
MCIndicator(parameters) ==
    [op |-> "indicator", sym |-> A, src |-> V, now |-> FALSE, at |-> 1, formed |-> TRUE,
     name |-> "SMA", parameters |-> parameters]
MCUpsert(op, code, name) == [op |-> op, code |-> code, name |-> name, formed |-> TRUE]

MCCommands == {
    [op |-> "usage"], [op |-> "latest-quote", sym |-> A, src |-> V],
    MCUpsert("instrument", A, "text"), MCUpsert("source", V, "text"),
    MCUpsert("source", V, "blank"),
    MCQuote(FALSE, 1, 2, 1),
    MCTick(NoId, 1), MCTick(t1, 0),
    MCSnapshot(2, 1), MCIndicator("empty")}
    \cup {MCQuote(TRUE, at, 1, 2) : at \in 1 .. MaxClock}

\* Days of two ticks a second and three seconds, in years inside, at the ends of
\* and beyond the range of the clock, leap years among them; days no month has.
MCWritten ==
    [year   : {1960, 1966, 1967, 1968, 1969, 1970, 1971, 1972, 1985},
     month  : {1, 2, 3, 12}, day : {1, 18, 19, 28, 29, 30, 31},
     second : 0 .. 3, ticks : 0 .. 1]

MCInit == Init /\ TimestampInit

MCNext ==
    \/ TimestampInit /\ Next /\ UNCHANGED timestampVars
    \/ Init /\ TimestampNext /\ UNCHANGED vars

MCSpec == MCInit /\ [][MCNext]_<<vars, timestampVars>>

Symmetry == Permutations(Shells)
=============================================================================

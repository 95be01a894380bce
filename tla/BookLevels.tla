----------------------------- MODULE BookLevels -----------------------------
(***************************************************************************)
(* The price levels of an OrderBook and what is computed from them.  A     *)
(* side is a function from the prices it holds to their volumes; prices    *)
(* are whole cents, the step populate_book_from_quote builds a book with.  *)
(***************************************************************************)
EXTENDS Integers, FiniteSets, FiniteSetsExt, Functions

CONSTANTS
    Depth,          \* levels a quote is spread over: 5
    VolumeModulus   \* Volume is uint64_t: 2^64

ASSUME DepthAssumption   == Depth \in Nat \ {0}
ASSUME ModulusAssumption == VolumeModulus \in Nat \ {0}

NoLevels  == [p \in {} |-> 0]
EmptyBook == [bids |-> NoLevels, asks |-> NoLevels]

\* Mutation of SetLevel: a level of volume zero is kept.
SetLevelKeepingZero(side, price, volume) ==
    [p \in DOMAIN side \cup {price} |-> IF p = price THEN volume ELSE side[p]]

\* bids_[price] = volume, or bids_.erase(price) for a volume of zero.
SetLevel(side, price, volume) ==
    [p \in IF volume = 0 THEN DOMAIN side \ {price} ELSE DOMAIN side \cup {price} |->
        IF p = price THEN volume ELSE side[p]]

\* Mutation of Accepted: refused levels are skipped, the others loaded.
AcceptedSkipping(levels) == {p \in DOMAIN levels : p > 0}

\* The map iterates upwards, so a level is reached unless an earlier one, or
\* the level itself, has a price set_bid and set_ask refuse.
Accepted(levels) == {p \in DOMAIN levels : \A r \in DOMAIN levels : r <= p => r > 0}
Loaded(levels)   == Restrict(levels, {p \in Accepted(levels) : levels[p] /= 0})

BestBid(book) == IF book.bids = NoLevels THEN 0 ELSE Max(DOMAIN book.bids)

\* Mutation of BestAsk: the asks are sorted like the bids.
BestAskFromWrongEnd(book) == IF book.asks = NoLevels THEN 0 ELSE Max(DOMAIN book.asks)

BestAsk(book) == IF book.asks = NoLevels THEN 0 ELSE Min(DOMAIN book.asks)

TwoSided(book) == book.bids /= NoLevels /\ book.asks /= NoLevels

TotalVolume(side) == FoldFunction(+, 0, side) % VolumeModulus

\* imbalance() as a fraction: numerator and denominator.
Imbalance(book) ==
    LET b == TotalVolume(book.bids)
        a == TotalVolume(book.asks)
    IN  IF a + b = 0 THEN <<0, 1>> ELSE <<b - a, b + a>>

\* The mid price is kept doubled, so that it stays whole.
Snapshot(book) ==
    [best_bid      |-> BestBid(book),
     best_ask      |-> BestAsk(book),
     mid_doubled   |-> IF TwoSided(book) THEN BestBid(book) + BestAsk(book) ELSE 0,
     spread        |-> IF TwoSided(book) THEN BestAsk(book) - BestBid(book) ELSE 0,
     total_bid_vol |-> TotalVolume(book.bids),
     total_ask_vol |-> TotalVolume(book.asks),
     imbalance     |-> Imbalance(book)]

\* populate_book_from_quote: level n holds a tenth of the volume, n-th part.
LevelVolume(q, n) == (q.volume \div 10) \div n
FilledLevels(q)   == {n \in 1 .. Depth : LevelVolume(q, n) > 0}

BookFromQuote(q) ==
    [bids |-> [p \in {q.price - n : n \in {m \in FilledLevels(q) : q.price - m > 0}} |->
                  LevelVolume(q, q.price - p)],
     asks |-> [p \in {q.price + n : n \in {m \in FilledLevels(q) : q.price + m > 0}} |->
                  LevelVolume(q, p - q.price)]]

-----------------------------------------------------------------------------
\* update_order_book of RedisClient, from the book old to the book new.

\* The levels HSET has written when the loop over a side stops.
Written(side) ==
    {Restrict(side, D) : D \in {E \in SUBSET DOMAIN side :
        \A x \in E, y \in DOMAIN side \ E : x < y}}

\* Mutation of BookWrites: the asks are deleted only when the bids are done.
BookWritesInTurn(old, new) ==
    {old} \cup {[bids |-> b, asks |-> old.asks] : b \in Written(new.bids)}
          \cup {[bids |-> new.bids, asks |-> a] : a \in Written(new.asks)}

\* What it can leave if it stops between two commands: the two DEL, the HSET of
\* the bids upwards, those of the asks.
BookWrites(old, new) ==
    {old, [bids |-> NoLevels, asks |-> old.asks]}
        \cup {[bids |-> b, asks |-> NoLevels] : b \in Written(new.bids)}
        \cup {[bids |-> new.bids, asks |-> a] : a \in Written(new.asks)}

\* No bid is at or above an ask.
Uncrossed(book) == \A b \in DOMAIN book.bids, a \in DOMAIN book.asks : b < a
=============================================================================

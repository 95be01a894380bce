------------------------------ MODULE OrderBook ------------------------------
(***************************************************************************)
(* The OrderBook class: its mutations, called in any order with any        *)
(* arguments, and whether the last call threw.                             *)
(***************************************************************************)
EXTENDS BookLevels

CONSTANTS
    Prices,    \* arguments of the mutations, refused ones (<= 0) included
    Volumes    \* volumes, zero included

ASSUME ArgumentsAssumption ==
    IsFiniteSet(Prices) /\ Prices \subseteq Int /\ Volumes \subseteq 0 .. VolumeModulus - 1

VARIABLES book, thrown

bookVars == <<book, thrown>>

\* The arguments of replace_bids and replace_asks.
LevelMaps == UNION {[P -> Volumes] : P \in SUBSET Prices}

BookInit == book = EmptyBook /\ thrown = FALSE

Throw == thrown' = TRUE /\ UNCHANGED book

SetBid(price, volume) ==
    \/ price <= 0 /\ Throw
    \/ /\ price > 0
       /\ book' = [book EXCEPT !.bids = SetLevel(@, price, volume)]
       /\ thrown' = FALSE

SetAsk(price, volume) ==
    \/ price <= 0 /\ Throw
    \/ /\ price > 0
       /\ book' = [book EXCEPT !.asks = SetLevel(@, price, volume)]
       /\ thrown' = FALSE

Refused(levels) == Accepted(levels) /= DOMAIN levels

\* The side is cleared first, so a call that throws has destroyed it.
ReplaceBids(levels) ==
    /\ book' = [book EXCEPT !.bids = Loaded(levels)]
    /\ thrown' = Refused(levels)

ReplaceAsks(levels) ==
    /\ book' = [book EXCEPT !.asks = Loaded(levels)]
    /\ thrown' = Refused(levels)

Clear == book' = EmptyBook /\ thrown' = FALSE

BookNext ==
    \/ \E p \in Prices, v \in Volumes : SetBid(p, v) \/ SetAsk(p, v)
    \/ \E levels \in LevelMaps : ReplaceBids(levels) \/ ReplaceAsks(levels)
    \/ Clear

BookSpec == BookInit /\ [][BookNext]_bookVars

-----------------------------------------------------------------------------
IsSide(side) == DOMAIN side \subseteq Nat \ {0} /\ \A p \in DOMAIN side : side[p] \in Volumes \ {0}

\* No call, whatever its arguments, leaves a level without volume or with a
\* price that is not positive.
BookTypeOK == IsSide(book.bids) /\ IsSide(book.asks) /\ thrown \in BOOLEAN

\* A call that throws leaves a side as it was or empty, never half replaced:
\* the map is sorted, so a refused price comes before every accepted one.
FailedReplaceEmpties ==
    [][thrown' => /\ book'.bids \in {book.bids, NoLevels}
                  /\ book'.asks \in {book.asks, NoLevels}]_bookVars

\* The snapshot's two best prices tell whether any bid meets any ask.
SpreadTellsCrossing ==
    LET snap == Snapshot(book) IN
    TwoSided(book) =>
        /\ Uncrossed(book) <=> snap.spread > 0
        /\ snap.mid_doubled = 2 * snap.best_bid + snap.spread
=============================================================================

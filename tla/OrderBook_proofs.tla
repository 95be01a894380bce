-------------------------- MODULE OrderBook_proofs --------------------------
(***************************************************************************)
(* The properties of OrderBook, for any prices and volumes.                *)
(***************************************************************************)
EXTENDS OrderBook, FiniteSetTheorems, WellFoundedInduction, TLAPS

-----------------------------------------------------------------------------
(* Best prices.                                                            *)

\* Of a family of subsets of a finite set, one contains no other strictly.
LEMMA MinimalSubset ==
    ASSUME NEW S, IsFiniteSet(S)
    PROVE  \A F \in SUBSET SUBSET S : F /= {} =>
             \E X \in F : \A Y \in F : Y \subseteq X => Y = X
<1> SUFFICES ASSUME NEW F \in SUBSET SUBSET S, F /= {}
             PROVE  \E X \in F : \A Y \in F : Y \subseteq X => Y = X
  OBVIOUS
<1>1. IsWellFoundedOn(StrictSubsetOrdering(S), FiniteSubsetsOf(S))
  BY FS_StrictSubsetOrderingWellFounded
<1>2. F \subseteq FiniteSubsetsOf(S)
  BY FS_FiniteSubsetsOfFinite
<1>3. PICK X \in F : \A Y \in F : <<Y, X>> \notin StrictSubsetOrdering(S)
  BY <1>1, <1>2, WFMin
<1>4. ASSUME NEW Y \in F, Y \subseteq X PROVE Y = X
  <2>1. <<Y, X>> \notin StrictSubsetOrdering(S)
    BY <1>3
  <2> QED BY <1>4, <2>1 DEF StrictSubsetOrdering
<1> QED BY <1>4

\* The price with no more above it than any other is the greatest.
LEMMA GreatestOfFinite ==
    ASSUME NEW S, IsFiniteSet(S), S \subseteq Int, S /= {}
    PROVE  \E m \in S : \A n \in S : m >= n
<1> DEFINE Above(x) == {y \in S : y > x}
           F == {Above(x) : x \in S}
<1>1. F \in SUBSET SUBSET S /\ F /= {}
  OBVIOUS
<1>2. PICK m \in S : \A n \in S : Above(n) \subseteq Above(m) => Above(n) = Above(m)
  <2> HIDE DEF Above
  <2>1. PICK X \in F : \A Y \in F : Y \subseteq X => Y = X
    <3>1. IsFiniteSet(S) /\ F \in SUBSET SUBSET S /\ F /= {}
      BY <1>1
    <3> HIDE DEF F
    <3> QED BY ONLY <3>1, MinimalSubset
  <2> QED BY <2>1
<1>3. ASSUME NEW n \in S, ~ (m >= n) PROVE FALSE
  <2>1. m \in Int /\ n \in Int /\ n > m
    BY <1>3
  <2>2. n \in Above(m) /\ n \notin Above(n)
    BY <2>1
  <2>3. \A y \in S : y > n => y > m
    BY <2>1
  <2> QED BY <1>2, <2>2, <2>3
<1> QED BY <1>3

\* And the least is the one with no more below it.
LEMMA LeastOfFinite ==
    ASSUME NEW S, IsFiniteSet(S), S \subseteq Int, S /= {}
    PROVE  \E m \in S : \A n \in S : m <= n
<1> DEFINE Below(x) == {y \in S : y < x}
           F == {Below(x) : x \in S}
<1>1. F \in SUBSET SUBSET S /\ F /= {}
  OBVIOUS
<1>2. PICK m \in S : \A n \in S : Below(n) \subseteq Below(m) => Below(n) = Below(m)
  <2> HIDE DEF Below
  <2>1. PICK X \in F : \A Y \in F : Y \subseteq X => Y = X
    <3>1. IsFiniteSet(S) /\ F \in SUBSET SUBSET S /\ F /= {}
      BY <1>1
    <3> HIDE DEF F
    <3> QED BY ONLY <3>1, MinimalSubset
  <2> QED BY <2>1
<1>3. ASSUME NEW n \in S, ~ (m <= n) PROVE FALSE
  <2>1. m \in Int /\ n \in Int /\ n < m
    BY <1>3
  <2>2. n \in Below(m) /\ n \notin Below(n)
    BY <2>1
  <2>3. \A y \in S : y < n => y < m
    BY <2>1
  <2> QED BY <1>2, <2>2, <2>3
<1> QED BY <1>3

-----------------------------------------------------------------------------
(* The invariant: sides are functions, of prices that were passed.         *)

IsFcn(f) == f = [x \in DOMAIN f |-> f[x]]

IInv ==
    /\ BookTypeOK
    /\ book = [bids |-> book.bids, asks |-> book.asks]
    /\ DOMAIN book.bids \subseteq Prices /\ DOMAIN book.asks \subseteq Prices
    /\ IsFcn(book.bids) /\ IsFcn(book.asks)

SideOK(side) == IsSide(side) /\ DOMAIN side \subseteq Prices /\ IsFcn(side)

LEMMA NoLevelsOK == SideOK(NoLevels) /\ DOMAIN NoLevels = {}
BY DEF SideOK, IsSide, IsFcn, NoLevels

LEMMA SetLevelOK ==
    ASSUME NEW side, SideOK(side), NEW p \in Prices, p > 0, NEW v \in Volumes
    PROVE  SideOK(SetLevel(side, p, v))
<1>1. p \in Nat \ {0}
  BY ArgumentsAssumption
<1> QED BY <1>1 DEF SideOK, IsSide, IsFcn, SetLevel

LEMMA LoadedOK ==
    ASSUME NEW levels \in LevelMaps
    PROVE  SideOK(Loaded(levels)) /\ (Refused(levels) => Loaded(levels) = NoLevels)
<1>1. PICK P \in SUBSET Prices : levels \in [P -> Volumes]
  BY DEF LevelMaps
<1>2. Accepted(levels) \subseteq P /\ \A p \in Accepted(levels) : p \in Nat \ {0}
  BY <1>1, ArgumentsAssumption DEF Accepted
<1>3. SideOK(Loaded(levels))
  BY <1>1, <1>2 DEF SideOK, IsSide, IsFcn, Loaded, Restrict
<1>4. ASSUME Refused(levels) PROVE Accepted(levels) = {}
  <2>1. PICK r \in P : ~ (r > 0)
    BY <1>1, <1>4, ArgumentsAssumption DEF Refused, Accepted
  <2>2. \A p \in Accepted(levels) : r <= p => r > 0
    BY <1>1, <2>1 DEF Accepted
  <2> QED BY <1>2, <2>1, <2>2, ArgumentsAssumption
<1>5. ASSUME Refused(levels) PROVE Loaded(levels) = NoLevels
  BY <1>4, <1>5 DEF Loaded, Restrict, NoLevels
<1> QED BY <1>3, <1>5

\* What a call leaves in a side, and what it leaves when it throws.
LEMMA StepSides ==
    ASSUME IInv, [BookNext]_bookVars
    PROVE  /\ book' = [bids |-> book'.bids, asks |-> book'.asks]
           /\ SideOK(book'.bids) /\ SideOK(book'.asks) /\ thrown' \in BOOLEAN
           /\ thrown' /\ ~ UNCHANGED bookVars =>
                book'.bids \in {book.bids, NoLevels} /\ book'.asks \in {book.asks, NoLevels}
<1>0. SideOK(book.bids) /\ SideOK(book.asks) /\ thrown \in BOOLEAN
      /\ book = [bids |-> book.bids, asks |-> book.asks]
  BY DEF IInv, BookTypeOK, SideOK
<1>1. ASSUME NEW p \in Prices, NEW v \in Volumes, SetBid(p, v) \/ SetAsk(p, v)
      PROVE  /\ book' = [bids |-> book'.bids, asks |-> book'.asks]
             /\ SideOK(book'.bids) /\ SideOK(book'.asks) /\ thrown' \in BOOLEAN
             /\ thrown' => book'.bids = book.bids /\ book'.asks = book.asks
  <2>1. CASE p <= 0 /\ Throw
    BY <1>0, <2>1 DEF Throw
  <2>2. CASE p > 0 /\ ~ thrown'
    <3>1. SideOK(SetLevel(book.bids, p, v)) /\ SideOK(SetLevel(book.asks, p, v))
      BY <1>0, <2>2, SetLevelOK
    <3>2. ~ (p <= 0)
      BY <2>2, ArgumentsAssumption
    <3>3. \/ book' = [book EXCEPT !.bids = SetLevel(book.bids, p, v)]
          \/ book' = [book EXCEPT !.asks = SetLevel(book.asks, p, v)]
      BY <1>1, <3>2 DEF SetBid, SetAsk
    <3>4. thrown' = FALSE
      BY <1>1, <3>2 DEF SetBid, SetAsk
    <3>5. \/ book' = [bids |-> SetLevel(book.bids, p, v), asks |-> book.asks]
          \/ book' = [bids |-> book.bids, asks |-> SetLevel(book.asks, p, v)]
      <4> DEFINE b == SetLevel(book.bids, p, v)
                 a == SetLevel(book.asks, p, v)
      <4>1. book' = [book EXCEPT !.bids = b] \/ book' = [book EXCEPT !.asks = a]
        BY <3>3
      <4> HIDE DEF a, b
      <4>2. book' = [bids |-> b, asks |-> book.asks] \/ book' = [bids |-> book.bids, asks |-> a]
        BY <1>0, <4>1
      <4> QED BY <4>2 DEF a, b
    <3>6. /\ book' = [bids |-> book'.bids, asks |-> book'.asks]
          /\ \/ book'.bids = SetLevel(book.bids, p, v) /\ book'.asks = book.asks
             \/ book'.bids = book.bids /\ book'.asks = SetLevel(book.asks, p, v)
      <4> DEFINE b == SetLevel(book.bids, p, v)
                 a == SetLevel(book.asks, p, v)
      <4>1. book' = [bids |-> b, asks |-> book.asks] \/ book' = [bids |-> book.bids, asks |-> a]
        BY <3>5
      <4> HIDE DEF a, b
      <4>2. /\ book' = [bids |-> book'.bids, asks |-> book'.asks]
            /\ (book'.bids = b /\ book'.asks = book.asks) \/ (book'.bids = book.bids /\ book'.asks = a)
        BY <4>1
      <4> QED BY <4>2 DEF a, b
    <3> QED BY <1>0, <3>1, <3>4, <3>6
  <2> QED BY <1>1, <2>1, <2>2 DEF SetBid, SetAsk
<1>2. ASSUME NEW levels \in LevelMaps, ReplaceBids(levels) \/ ReplaceAsks(levels)
      PROVE  /\ book' = [bids |-> book'.bids, asks |-> book'.asks]
             /\ SideOK(book'.bids) /\ SideOK(book'.asks) /\ thrown' \in BOOLEAN
             /\ thrown' => book'.bids \in {book.bids, NoLevels} /\ book'.asks \in {book.asks, NoLevels}
  <2>1. thrown' = Refused(levels) /\ Refused(levels) \in BOOLEAN
    BY <1>2 DEF ReplaceBids, ReplaceAsks, Refused
  <2>2. \/ book'.bids = Loaded(levels) /\ book'.asks = book.asks
        \/ book'.asks = Loaded(levels) /\ book'.bids = book.bids
    BY <1>0, <1>2 DEF ReplaceBids, ReplaceAsks
  <2>3. book' = [bids |-> book'.bids, asks |-> book'.asks]
    BY <1>0, <1>2 DEF ReplaceBids, ReplaceAsks
  <2> QED BY <1>0, <2>1, <2>2, <2>3, LoadedOK
<1>3. CASE Clear
  BY <1>3, NoLevelsOK DEF Clear, EmptyBook
<1>4. CASE UNCHANGED bookVars
  BY <1>0, <1>4 DEF bookVars
<1> QED BY <1>1, <1>2, <1>3, <1>4 DEF BookNext

THEOREM Invariance == BookSpec => []IInv
<1>1. BookInit => IInv
  <2> SUFFICES ASSUME BookInit PROVE IInv
    OBVIOUS
  <2>1. book = [bids |-> NoLevels, asks |-> NoLevels] /\ thrown = FALSE
    BY DEF BookInit, EmptyBook
  <2>2. book.bids = NoLevels /\ book.asks = NoLevels
        /\ book = [bids |-> book.bids, asks |-> book.asks]
    <3> HIDE DEF NoLevels
    <3> QED BY <2>1
  <2> QED BY <2>1, <2>2, NoLevelsOK DEF IInv, BookTypeOK, SideOK
<1>2. IInv /\ [BookNext]_bookVars => IInv'
  BY StepSides DEF IInv, BookTypeOK, SideOK, IsSide
<1> QED BY <1>1, <1>2, PTL DEF BookSpec

-----------------------------------------------------------------------------
(* The properties.                                                         *)

\* No call leaves a level without volume or with a price that is not positive.
THEOREM TypeCorrect == BookSpec => []BookTypeOK
<1>1. IInv => BookTypeOK
  BY DEF IInv
<1> QED BY <1>1, Invariance, PTL

\* A call that throws leaves a side as it was or empty.
THEOREM FailedReplaceEmptiesAlways == BookSpec => FailedReplaceEmpties
<1> DEFINE Step == [thrown' => /\ book'.bids \in {book.bids, NoLevels}
                              /\ book'.asks \in {book.asks, NoLevels}]_bookVars
<1>1. IInv /\ [BookNext]_bookVars => Step
  BY StepSides
<1> QED BY <1>1, Invariance, PTL DEF BookSpec, FailedReplaceEmpties

\* The spread of a two-sided book is positive exactly when no bid meets an ask.
THEOREM SpreadTellsCrossingAlways == BookSpec => []SpreadTellsCrossing
<1>1. ASSUME IInv PROVE SpreadTellsCrossing
  <2> DEFINE B == DOMAIN book.bids
             A == DOMAIN book.asks
  <2> SUFFICES ASSUME TwoSided(book)
               PROVE  /\ Uncrossed(book) <=> Snapshot(book).spread > 0
                      /\ Snapshot(book).mid_doubled
                           = 2 * Snapshot(book).best_bid + Snapshot(book).spread
    BY DEF SpreadTellsCrossing
  <2>1. IsFiniteSet(B) /\ IsFiniteSet(A) /\ B \subseteq Int /\ A \subseteq Int
    BY <1>1, ArgumentsAssumption, FS_Subset DEF IInv, BookTypeOK, IsSide
  <2>2. B /= {} /\ A /= {}
    BY <1>1 DEF TwoSided, NoLevels, IInv, IsFcn
  <2>3. BestBid(book) \in B /\ \A p \in B : BestBid(book) >= p
    <3>1. \E m \in B : \A n \in B : m >= n
      BY <2>1, <2>2, GreatestOfFinite
    <3> QED BY <3>1 DEF BestBid, TwoSided, Max
  <2>4. BestAsk(book) \in A /\ \A p \in A : BestAsk(book) <= p
    <3>1. \E m \in A : \A n \in A : m <= n
      BY <2>1, <2>2, LeastOfFinite
    <3> QED BY <3>1 DEF BestAsk, TwoSided, Min
  <2>5. BestBid(book) \in Int /\ BestAsk(book) \in Int
    BY <2>1, <2>3, <2>4
  <2>6. Uncrossed(book) <=> BestBid(book) < BestAsk(book)
    BY <2>1, <2>3, <2>4, <2>5 DEF Uncrossed
  <2>7. /\ Snapshot(book).spread = BestAsk(book) - BestBid(book)
        /\ Snapshot(book).best_bid = BestBid(book)
        /\ Snapshot(book).mid_doubled = BestBid(book) + BestAsk(book)
    BY DEF Snapshot
  <2> QED BY <2>5, <2>6, <2>7
<1> QED BY <1>1, Invariance, PTL
=============================================================================

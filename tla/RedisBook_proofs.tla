-------------------------- MODULE RedisBook_proofs --------------------------
(* Proofs of the properties of RedisBook for every set of processes, every   *)
(* set of answers and every depth of the book.                               *)
EXTENDS RedisBook, TLAPS

IsFcn(f) == f = [x \in DOMAIN f |-> f[x]]

\* A record of two functions: equal to another one if the levels are.
IsBook(b) == b = [bids |-> b.bids, asks |-> b.asks] /\ IsFcn(b.bids) /\ IsFcn(b.asks)

BooksShape == IsBook(redisBook) /\ \A p \in Procs : IsBook(todo[p])

\* History is symmetric: who runs beside p is in its overlap.
OverlapComplete ==
    \A p, r \in Procs :
        (p /= r /\ pc[p] \in Holding /\ pc[r] \in Holding) => quote[r] \in overlap[p]

\* Until it writes levels, an update has its whole book before it.
TodoWhole ==
    \A p \in Procs : pc[p] \in {"store", "delBids", "delAsks"} => todo[p] = BookFromQuote(quote[p])

\* A side that p has deleted holds levels of p and of those beside it only.
BidsCleared(p) == pc[p] \in {"delAsks", "levels"} \/ (pc[p] = "done" /\ updated[p])
AsksCleared(p) == pc[p] = "levels" \/ (pc[p] = "done" /\ updated[p])

BidsFrom(side, Q) ==
    \A x \in DOMAIN side : \E q \in Q :
        x \in DOMAIN BookFromQuote(q).bids /\ side[x] = BookFromQuote(q).bids[x]
AsksFrom(side, Q) ==
    \A x \in DOMAIN side : \E q \in Q :
        x \in DOMAIN BookFromQuote(q).asks /\ side[x] = BookFromQuote(q).asks[x]

BidsOwned == \A p \in Procs : BidsCleared(p) => BidsFrom(redisBook.bids, Reach(p))
AsksOwned == \A p \in Procs : AsksCleared(p) => AsksFrom(redisBook.asks, Reach(p))

\* As long as all that ran beside p work from its quote and none was torn off,
\* a level of its book is in Redis or still to be written by one of them.
Agreed(p) == overlap[p] \subseteq {quote[p]}

BidWriter(x) == \E s \in Procs : pc[s] \in {"delAsks", "levels"} /\ x \in DOMAIN todo[s].bids
AskWriter(x) == \E s \in Procs : pc[s] = "levels" /\ x \in DOMAIN todo[s].asks

BidsWhole ==
    \A p \in Procs : (BidsCleared(p) /\ Agreed(p) /\ ~ torn[p]) =>
        \A x \in DOMAIN BookFromQuote(quote[p]).bids :
            x \in DOMAIN redisBook.bids \/ BidWriter(x)
AsksWhole ==
    \A p \in Procs : (AsksCleared(p) /\ Agreed(p) /\ ~ torn[p]) =>
        \A x \in DOMAIN BookFromQuote(quote[p]).asks :
            x \in DOMAIN redisBook.asks \/ AskWriter(x)

StampAgreed ==
    \A p \in Procs : (updated[p] /\ Agreed(p)) => redisStamp = quote[p]
QuoteAgreed ==
    \A p \in Procs : (stored[p] /\ Agreed(p)) => redisQuote \in {NoQuote, quote[p]}

IndInv ==
    /\ TypeOK /\ BooksShape
    /\ OverlapComplete /\ TodoWhole
    /\ BidsOwned /\ AsksOwned /\ BidsWhole /\ AsksWhole
    /\ StampAgreed /\ QuoteAgreed

USE NoQuoteAssumption

-----------------------------------------------------------------------------
\* What the lemmas below use of a book built from a quote.

LEMMA EmptyShape == IsBook(EmptyBook) /\ DOMAIN EmptyBook.bids = {} /\ DOMAIN EmptyBook.asks = {}
BY DEF IsBook, IsFcn, EmptyBook, NoLevels

LEMMA QuoteShape ==
    ASSUME NEW q PROVE IsBook(BookFromQuote(q)) /\ Within(BookFromQuote(q), {q})
BY DEF IsBook, IsFcn, BookFromQuote, Within

LEMMA PairShape ==
    ASSUME NEW x, NEW y, IsFcn(x), IsFcn(y)
    PROVE  IsBook([bids |-> x, asks |-> y])
BY DEF IsBook

LEMMA WithinParts ==
    ASSUME NEW b, NEW Q
    PROVE  Within(b, Q) <=> BidsFrom(b.bids, Q) /\ AsksFrom(b.asks, Q)
BY DEF Within, BidsFrom, AsksFrom

LEMMA WithoutShape ==
    ASSUME NEW side, NEW x
    PROVE  /\ IsFcn(Without(side, x))
           /\ DOMAIN Without(side, x) = DOMAIN side \ {x}
           /\ \A y \in DOMAIN Without(side, x) : Without(side, x)[y] = side[y]
BY DEF Without, Restrict, IsFcn

-----------------------------------------------------------------------------
\* One side, in Redis (old, new) and still to be written (t, u): levels come
\* from nowhere but t, and SideKeeps says that none is lost.
SideFrom(old, new, t, u) ==
    /\ IsFcn(new) /\ IsFcn(u)
    /\ DOMAIN u \subseteq DOMAIN t /\ \A x \in DOMAIN u : u[x] = t[x]
    /\ \A x \in DOMAIN new : \/ x \in DOMAIN old /\ new[x] = old[x]
                             \/ x \in DOMAIN t /\ new[x] = t[x]

SideKeeps(old, new, t, u) ==
    /\ DOMAIN old \subseteq DOMAIN new
    /\ \A x \in DOMAIN t : x \in DOMAIN u \cup DOMAIN new

LEMMA HsetSide ==
    ASSUME NEW old, NEW t, IsFcn(old), IsFcn(t), NEW x \in DOMAIN t
    PROVE  /\ SideFrom(old, Put(old, x, t[x]), t, Without(t, x))
           /\ SideKeeps(old, Put(old, x, t[x]), t, Without(t, x))
<1> DEFINE new == Put(old, x, t[x])
           u == Without(t, x)
<1>1. /\ IsFcn(new) /\ DOMAIN new = DOMAIN old \cup {x} /\ new[x] = t[x]
      /\ \A y \in DOMAIN old : y /= x => new[y] = old[y]
  BY DEF Put, IsFcn
<1>2. IsFcn(u) /\ DOMAIN u = DOMAIN t \ {x} /\ \A y \in DOMAIN u : u[y] = t[y]
  BY WithoutShape
<1> HIDE DEF new, u
<1>3. SideFrom(old, new, t, u) /\ SideKeeps(old, new, t, u)
  BY <1>1, <1>2 DEF SideFrom, SideKeeps
<1> QED  BY <1>3 DEF new, u

LEMMA SameSide ==
    ASSUME NEW old, NEW t, IsFcn(old), IsFcn(t)
    PROVE  SideFrom(old, old, t, t) /\ SideKeeps(old, old, t, t)
BY DEF SideFrom, SideKeeps

LEMMA DelSide ==
    ASSUME NEW old, NEW t, IsFcn(t)
    PROVE  SideFrom(old, NoLevels, t, t)
BY EmptyShape DEF SideFrom, EmptyBook, IsBook

\* The two sides after a command, and what it leaves alone.
BooksAfter(p) ==
    /\ IsBook(redisBook') /\ IsBook(todo'[p])
    /\ DOMAIN todo' = Procs /\ \A r \in Procs : r /= p => todo'[r] = todo[r]
    /\ SideFrom(redisBook.bids, redisBook'.bids, todo[p].bids, todo'[p].bids)
    /\ SideFrom(redisBook.asks, redisBook'.asks, todo[p].asks, todo'[p].asks)
    /\ redisStamp' \in {redisStamp, quote[p]}

LEMMA HsetBooks ==
    ASSUME TypeOK, BooksShape, NEW p \in Procs, HsetBidEffect(p) \/ HsetAskEffect(p)
    PROVE  /\ BooksAfter(p) /\ redisStamp' = redisStamp
           /\ SideKeeps(redisBook.bids, redisBook'.bids, todo[p].bids, todo'[p].bids)
           /\ SideKeeps(redisBook.asks, redisBook'.asks, todo[p].asks, todo'[p].asks)
<1>1. /\ DOMAIN todo = Procs /\ IsBook(redisBook) /\ IsBook(todo[p])
      /\ IsFcn(redisBook.bids) /\ IsFcn(redisBook.asks)
      /\ IsFcn(todo[p].bids) /\ IsFcn(todo[p].asks)
  BY DEF TypeOK, BooksShape, IsBook
<1>2. CASE HsetBidEffect(p)
  <2>1. PICK x \in Lowest(todo[p].bids) :
          /\ redisBook' = [redisBook EXCEPT !.bids = Put(@, x, todo[p].bids[x])]
          /\ todo' = [todo EXCEPT ![p].bids = Without(@, x)]
          /\ UNCHANGED redisStamp
    BY <1>2 DEF HsetBidEffect
  <2>2. x \in DOMAIN todo[p].bids  BY <2>1 DEF Lowest
  <2> DEFINE put == Put(redisBook.bids, x, todo[p].bids[x])
             rest == Without(todo[p].bids, x)
  <2>3. /\ redisBook' = [bids |-> put, asks |-> redisBook.asks]
        /\ todo'[p] = [bids |-> rest, asks |-> todo[p].asks]
        /\ DOMAIN todo' = Procs /\ \A r \in Procs : r /= p => todo'[r] = todo[r]
    BY <1>1, <2>1 DEF IsBook
  <2>4. /\ SideFrom(redisBook.bids, put, todo[p].bids, rest)
        /\ SideKeeps(redisBook.bids, put, todo[p].bids, rest)
    BY <1>1, <2>2, HsetSide
  <2>5. /\ SideFrom(redisBook.asks, redisBook.asks, todo[p].asks, todo[p].asks)
        /\ SideKeeps(redisBook.asks, redisBook.asks, todo[p].asks, todo[p].asks)
    BY <1>1, SameSide
  <2> HIDE DEF put, rest
  <2>6. IsFcn(put) /\ IsFcn(rest)  BY <2>4 DEF SideFrom
  <2>7. IsBook(redisBook') /\ IsBook(todo'[p])
    BY <1>1, <2>3, <2>6, PairShape
  <2> QED  BY <2>1, <2>3, <2>4, <2>5, <2>7 DEF BooksAfter
<1>3. CASE HsetAskEffect(p)
  <2>1. PICK x \in Lowest(todo[p].asks) :
          /\ redisBook' = [redisBook EXCEPT !.asks = Put(@, x, todo[p].asks[x])]
          /\ todo' = [todo EXCEPT ![p].asks = Without(@, x)]
          /\ UNCHANGED redisStamp
    BY <1>3 DEF HsetAskEffect
  <2>2. x \in DOMAIN todo[p].asks  BY <2>1 DEF Lowest
  <2> DEFINE put == Put(redisBook.asks, x, todo[p].asks[x])
             rest == Without(todo[p].asks, x)
  <2>3. /\ redisBook' = [bids |-> redisBook.bids, asks |-> put]
        /\ todo'[p] = [bids |-> todo[p].bids, asks |-> rest]
        /\ DOMAIN todo' = Procs /\ \A r \in Procs : r /= p => todo'[r] = todo[r]
    BY <1>1, <2>1 DEF IsBook
  <2>4. /\ SideFrom(redisBook.asks, put, todo[p].asks, rest)
        /\ SideKeeps(redisBook.asks, put, todo[p].asks, rest)
    BY <1>1, <2>2, HsetSide
  <2>5. /\ SideFrom(redisBook.bids, redisBook.bids, todo[p].bids, todo[p].bids)
        /\ SideKeeps(redisBook.bids, redisBook.bids, todo[p].bids, todo[p].bids)
    BY <1>1, SameSide
  <2> HIDE DEF put, rest
  <2>6. IsFcn(put) /\ IsFcn(rest)  BY <2>4 DEF SideFrom
  <2>7. IsBook(redisBook') /\ IsBook(todo'[p])
    BY <1>1, <2>3, <2>6, PairShape
  <2> QED  BY <2>1, <2>3, <2>4, <2>5, <2>7 DEF BooksAfter
<1> QED  BY <1>2, <1>3

\* The DELs empty one hash.
LEMMA DelBooks ==
    ASSUME TypeOK, BooksShape, NEW p \in Procs, DelBidsEffect(p) \/ DelAsksEffect(p)
    PROVE  /\ BooksAfter(p) /\ UNCHANGED <<todo, redisStamp>>
           /\ DelBidsEffect(p) => redisBook'.bids = NoLevels /\ redisBook'.asks = redisBook.asks
           /\ DelAsksEffect(p) => redisBook'.asks = NoLevels /\ redisBook'.bids = redisBook.bids
<1>1. /\ DOMAIN todo = Procs /\ IsBook(redisBook) /\ IsBook(todo[p])
      /\ IsFcn(redisBook.bids) /\ IsFcn(redisBook.asks)
      /\ IsFcn(todo[p].bids) /\ IsFcn(todo[p].asks) /\ IsFcn(NoLevels)
  BY EmptyShape DEF TypeOK, BooksShape, IsBook, EmptyBook
<1>2. /\ SideFrom(redisBook.bids, redisBook.bids, todo[p].bids, todo[p].bids)
      /\ SideFrom(redisBook.asks, redisBook.asks, todo[p].asks, todo[p].asks)
      /\ SideFrom(redisBook.bids, NoLevels, todo[p].bids, todo[p].bids)
      /\ SideFrom(redisBook.asks, NoLevels, todo[p].asks, todo[p].asks)
  BY <1>1, SameSide, DelSide
<1>3. CASE DelBidsEffect(p)
  <2>1. redisBook' = [bids |-> NoLevels, asks |-> redisBook.asks]
    BY <1>1, <1>3 DEF DelBidsEffect, IsBook
  <2>2. IsBook(redisBook')  BY <1>1, <2>1, PairShape
  <2>3. DelAsksEffect(p) => redisBook'.asks = NoLevels /\ redisBook'.bids = redisBook.bids
    BY <1>1 DEF DelAsksEffect, IsBook
  <2> QED  BY <1>1, <1>2, <1>3, <2>1, <2>2, <2>3 DEF DelBidsEffect, BooksAfter
<1>4. CASE DelAsksEffect(p)
  <2>1. redisBook' = [bids |-> redisBook.bids, asks |-> NoLevels]
    BY <1>1, <1>4 DEF DelAsksEffect, IsBook
  <2>2. IsBook(redisBook')  BY <1>1, <2>1, PairShape
  <2>3. DelBidsEffect(p) => redisBook'.bids = NoLevels /\ redisBook'.asks = redisBook.asks
    BY <1>1 DEF DelBidsEffect, IsBook
  <2> QED  BY <1>1, <1>2, <1>4, <2>1, <2>2, <2>3 DEF DelAsksEffect, BooksAfter
<1> QED  BY <1>3, <1>4

LEMMA EffectBooks ==
    ASSUME TypeOK, BooksShape, NEW p \in Procs,
           Effect(p) \/ UNCHANGED <<todo, redisBook, redisStamp>>
    PROVE  BooksAfter(p)
<1>1. /\ DOMAIN todo = Procs /\ IsBook(redisBook) /\ IsBook(todo[p])
      /\ IsFcn(redisBook.bids) /\ IsFcn(redisBook.asks)
      /\ IsFcn(todo[p].bids) /\ IsFcn(todo[p].asks)
  BY DEF TypeOK, BooksShape, IsBook
<1>2. CASE UNCHANGED <<todo, redisBook>> /\ redisStamp' \in {redisStamp, quote[p]}
  BY <1>1, <1>2, SameSide DEF BooksAfter
<1> QED  BY <1>2, HsetBooks, DelBooks DEF Effect, SetStampEffect

-----------------------------------------------------------------------------
LEMMA InitInv == Init => IndInv
<1> SUFFICES ASSUME Init PROVE IndInv  OBVIOUS
<1>1. TypeOK
  BY DEF Init, TypeOK, Labels, Holding, Updating
<1>2. BooksShape
  BY EmptyShape DEF Init, BooksShape
<1>3. /\ OverlapComplete /\ TodoWhole /\ BidsOwned /\ AsksOwned
      /\ BidsWhole /\ AsksWhole /\ StampAgreed /\ QuoteAgreed
  BY DEF Init, OverlapComplete, TodoWhole, BidsOwned, AsksOwned, BidsWhole, AsksWhole,
         StampAgreed, QuoteAgreed, BidsCleared, AsksCleared, Holding, Updating
<1> QED  BY <1>1, <1>2, <1>3 DEF IndInv

\* A fetch gets its quote: it has deleted nothing yet, and the others may only
\* become less certain of what runs beside them.
LEMMA ObtainInv ==
    ASSUME IndInv, NEW p \in Procs, NEW q \in Answers,
           pc[p] \in {"idle", "api"},
           \/ /\ Obtain(p, q, "delBids") /\ q = redisQuote
              /\ stored' = [stored EXCEPT ![p] = TRUE]
           \/ Obtain(p, q, "store") /\ UNCHANGED stored
    PROVE  IndInv'
<1> USE DEF IndInv
<1>1. PICK l \in {"store", "delBids"} :
        /\ Obtain(p, q, l)
        /\ \A r \in Procs : r /= p => stored'[r] = stored[r]
        /\ stored' \in [Procs -> BOOLEAN]
        /\ stored'[p] => l = "delBids" /\ q = redisQuote
  BY DEF TypeOK, Updating
<1>2. /\ pc'[p] = l /\ quote'[p] = q /\ todo'[p] = BookFromQuote(q)
      /\ ~ updated[p]
      /\ overlap'[p] = {quote[r] : r \in Holders}
  BY <1>1 DEF Obtain, TypeOK, Updating
<1>3. ASSUME NEW r \in Procs, r /= p
      PROVE  /\ pc'[r] = pc[r] /\ quote'[r] = quote[r] /\ todo'[r] = todo[r]
             /\ overlap[r] \subseteq overlap'[r]
             /\ pc[r] \in Holding => q \in overlap'[r]
  <2>1. overlap'[r] = IF r \in Holders THEN overlap[r] \cup {q} ELSE overlap[r]
    BY <1>1, <1>3 DEF Obtain
  <2> QED  BY <1>1, <1>3, <2>1 DEF Obtain, TypeOK, Holders
<1>4. TypeOK'
  <2>1. /\ pc' \in [Procs -> Labels] /\ quote' \in [Procs -> Answers \cup {NoQuote}]
        /\ DOMAIN todo' = Procs
    BY <1>1 DEF Obtain, TypeOK, Labels, Holding, Updating
  <2>2. \A r \in Holders : quote[r] \in Answers
    BY DEF Holders, TypeOK
  <2>3. overlap' \in [Procs -> SUBSET Answers]
    <3>1. {quote[r] : r \in Holders} \subseteq Answers  BY <2>2
    <3>2. \A r \in Procs : overlap[r] \in SUBSET Answers  BY DEF TypeOK
    <3> QED  BY <1>1, <3>1, <3>2 DEF Obtain
  <2>4. Within(todo'[p], {quote'[p]})
    BY <1>2, QuoteShape
  <2>5. ASSUME NEW r \in Procs
        PROVE  /\ pc'[r] \in Holding <=> quote'[r] /= NoQuote
               /\ pc'[r] \notin Holding => todo'[r] = EmptyBook
               /\ updated'[r] => pc'[r] = "done" /\ todo'[r] = EmptyBook
               /\ stored'[r] => pc'[r] \in Updating \cup {"done"}
               /\ quote'[r] /= NoQuote => Within(todo'[r], {quote'[r]})
    BY <1>1, <1>2, <1>3, <2>4 DEF Obtain, TypeOK, Holding, Updating
  <2> QED  BY <1>1, <2>1, <2>3, <2>5 DEF Obtain, TypeOK
<1>5. BooksShape'
  <2>1. redisBook' = redisBook
    BY <1>1 DEF Obtain
  <2>2. IsBook(BookFromQuote(q))
    BY QuoteShape
  <2>3. IsBook(todo'[p])
    BY <1>2, <2>2
  <2>4. \A r \in Procs : r /= p => IsBook(todo'[r])
    BY <1>3 DEF BooksShape
  <2> QED  BY <2>1, <2>3, <2>4 DEF BooksShape
<1>6. OverlapComplete'
  BY <1>1, <1>2, <1>3 DEF OverlapComplete, Holders, Holding
<1>7. TodoWhole'
  BY <1>2, <1>3 DEF TodoWhole
<1>8. BidsOwned' /\ AsksOwned'
  BY <1>1, <1>2, <1>3
  DEF Obtain, BidsOwned, AsksOwned, BidsCleared, AsksCleared, BidsFrom, AsksFrom, Reach
<1>9. \A x : BidWriter(x) => BidWriter(x)'
  BY <1>3 DEF BidWriter
<1>10. \A x : AskWriter(x) => AskWriter(x)'
  BY <1>3 DEF AskWriter
<1>11. BidsWhole'
  BY <1>1, <1>2, <1>3, <1>9 DEF Obtain, BidsWhole, BidsCleared, Agreed
<1>12. AsksWhole'
  BY <1>1, <1>2, <1>3, <1>10 DEF Obtain, AsksWhole, AsksCleared, Agreed
<1>13. StampAgreed' /\ QuoteAgreed'
  BY <1>1, <1>2, <1>3 DEF Obtain, StampAgreed, QuoteAgreed, Agreed
<1> QED  BY <1>4, <1>5, <1>6, <1>7, <1>8, <1>11, <1>12, <1>13

\* A miss, an answer that is none, the TTL, and store_quote do not touch the book.
LEMMA QuietInv ==
    ASSUME IndInv, NEW p \in Procs, ReadMiss(p) \/ NoAnswer(p) \/ StoreQuote(p)
    PROVE  IndInv'
<1> USE DEF IndInv
<1>1. /\ pc' \in [Procs -> Labels] /\ stored' \in [Procs -> BOOLEAN]
      /\ UNCHANGED <<quote, todo, updated, redisBook, redisStamp, overlap, torn>>
      /\ \A r \in Procs : r /= p => pc'[r] = pc[r] /\ stored'[r] = stored[r]
      /\ pc[p] \notin Updating /\ pc[p] /= "done"
      /\ pc'[p] \in {"idle", "api", "delBids"}
      /\ pc[p] \in Holding <=> pc'[p] \in Holding
      /\ pc'[p] \in Holding => pc[p] = "store"
      /\ stored'[p] => pc'[p] = "delBids" /\ redisQuote' = quote[p]
  BY DEF TypeOK, ReadMiss, NoAnswer, StoreQuote, Labels, Holding, Updating
<1>2. redisQuote' = redisQuote \/ (pc[p] = "store" /\ redisQuote' = quote[p])
  BY DEF ReadMiss, NoAnswer, StoreQuote
<1>3. TypeOK'
  <2>1. redisQuote' \in Answers \cup {NoQuote}
    BY <1>2 DEF TypeOK
  <2>2. ASSUME NEW r \in Procs
        PROVE  /\ pc'[r] \in Holding <=> quote'[r] /= NoQuote
               /\ pc'[r] \notin Holding => todo'[r] = EmptyBook
               /\ updated'[r] => pc'[r] = "done" /\ todo'[r] = EmptyBook
               /\ stored'[r] => pc'[r] \in Updating \cup {"done"}
               /\ quote'[r] /= NoQuote => Within(todo'[r], {quote'[r]})
    BY <1>1 DEF TypeOK, Updating
  <2> QED  BY <1>1, <2>1, <2>2 DEF TypeOK
<1>4. BooksShape'
  BY <1>1 DEF BooksShape
<1>5. OverlapComplete'
  BY <1>1 DEF OverlapComplete
<1>6. TodoWhole'
  BY <1>1 DEF TodoWhole, Holding, Updating
<1>7. BidsOwned' /\ AsksOwned'
  BY <1>1 DEF BidsOwned, AsksOwned, BidsCleared, AsksCleared, BidsFrom, AsksFrom, Reach, Updating
<1>8. \A x : (BidWriter(x) => BidWriter(x)') /\ (AskWriter(x) => AskWriter(x)')
  BY <1>1 DEF BidWriter, AskWriter, Updating
<1>9. BidsWhole' /\ AsksWhole'
  BY <1>1, <1>8 DEF BidsWhole, AsksWhole, BidsCleared, AsksCleared, Agreed, Updating
<1>10. StampAgreed'
  BY <1>1 DEF StampAgreed, Agreed
<1>11. QuoteAgreed'
  <2> SUFFICES ASSUME NEW r \in Procs, stored'[r], Agreed(r)'
               PROVE  redisQuote' \in {NoQuote, quote'[r]}
    BY DEF QuoteAgreed
  <2>1. CASE r = p  BY <1>1, <2>1
  <2>2. CASE r /= p
    <3>1. stored[r] /\ Agreed(r) /\ pc[r] \in Holding
      BY <1>1, <2>2 DEF Agreed, TypeOK, Holding
    <3>2. pc[p] = "store" => quote[p] \in overlap[r]
      BY <2>2, <3>1 DEF OverlapComplete, Holding
    <3> QED  BY <1>1, <1>2, <3>1, <3>2 DEF QuoteAgreed, Agreed
  <2> QED  BY <2>1, <2>2
<1> QED  BY <1>3, <1>4, <1>5, <1>6, <1>7, <1>9, <1>10, <1>11

LEMMA ExpireInv == IndInv /\ Expire => IndInv'
<1> SUFFICES ASSUME IndInv, Expire PROVE IndInv'  OBVIOUS
<1> USE DEF IndInv, Expire
<1>1. TypeOK' /\ BooksShape' /\ OverlapComplete' /\ TodoWhole'
  BY DEF TypeOK, BooksShape, OverlapComplete, TodoWhole
<1>2. BidsOwned' /\ AsksOwned'
  BY DEF BidsOwned, AsksOwned, BidsCleared, AsksCleared, BidsFrom, AsksFrom, Reach
<1>3. BidsWhole' /\ AsksWhole'
  BY DEF BidsWhole, AsksWhole, BidsCleared, AsksCleared, Agreed, BidWriter, AskWriter
<1>4. StampAgreed' /\ QuoteAgreed'
  BY DEF StampAgreed, QuoteAgreed, Agreed
<1> QED  BY <1>1, <1>2, <1>3, <1>4

-----------------------------------------------------------------------------
\* A command of p puts into Redis only what those who run beside p allow for.
LEMMA OwnedStep ==
    ASSUME IndInv, NEW p \in Procs, BooksAfter(p), pc[p] \in Updating,
           UNCHANGED <<quote, overlap>>, NEW r \in Procs, pc[r] \in Holding
    PROVE  /\ BidsFrom(redisBook.bids, Reach(r)) => BidsFrom(redisBook'.bids, Reach(r)')
           /\ AsksFrom(redisBook.asks, Reach(r)) => AsksFrom(redisBook'.asks, Reach(r)')
<1>1. quote[p] \in Reach(r) /\ Reach(r)' = Reach(r)
  BY DEF IndInv, OverlapComplete, Reach, Holding
<1>2. BidsFrom(todo[p].bids, {quote[p]}) /\ AsksFrom(todo[p].asks, {quote[p]})
  BY WithinParts DEF IndInv, TypeOK, Holding
<1>3. BidsFrom(redisBook.bids, Reach(r)) => BidsFrom(redisBook'.bids, Reach(r))
  BY <1>1, <1>2 DEF BooksAfter, SideFrom, BidsFrom
<1>4. AsksFrom(redisBook.asks, Reach(r)) => AsksFrom(redisBook'.asks, Reach(r))
  BY <1>1, <1>2 DEF BooksAfter, SideFrom, AsksFrom
<1> QED  BY <1>1, <1>3, <1>4

\* What every command of update_order_book, failed or not, preserves.
LEMMA CommandInv ==
    ASSUME IndInv, NEW p \in Procs, pc[p] \in Updating, BooksAfter(p),
           NEW l \in Updating \cup {"done"}, pc' = [pc EXCEPT ![p] = l],
           UNCHANGED <<quote, stored, redisQuote, overlap>>,
           updated' \in {updated, [updated EXCEPT ![p] = TRUE]},
           torn' \in [Procs -> BOOLEAN],
           updated'[p] => l = "done" /\ todo'[p] = EmptyBook /\ redisStamp' = quote[p],
           l \in {"delBids", "delAsks"} => UNCHANGED todo /\ pc[p] \in {"delBids", "delAsks"}
    PROVE  /\ TypeOK' /\ BooksShape' /\ OverlapComplete' /\ TodoWhole'
           /\ StampAgreed' /\ QuoteAgreed'
<1> USE DEF IndInv
<1>1. /\ pc[p] \in Holding /\ pc'[p] = l /\ pc'[p] \in Holding /\ ~ updated[p]
      /\ \A r \in Procs : r /= p => pc'[r] = pc[r] /\ updated'[r] = updated[r]
      /\ DOMAIN todo' = Procs /\ \A r \in Procs : r /= p => todo'[r] = todo[r]
  BY DEF TypeOK, Holding, Updating, BooksAfter
<1>2. Within(todo'[p], {quote[p]})
  <2>1. BidsFrom(todo[p].bids, {quote[p]}) /\ AsksFrom(todo[p].asks, {quote[p]})
    BY <1>1, WithinParts DEF TypeOK
  <2>2. BidsFrom(todo'[p].bids, {quote[p]})
    BY <2>1 DEF BooksAfter, SideFrom, BidsFrom
  <2>3. AsksFrom(todo'[p].asks, {quote[p]})
    BY <2>1 DEF BooksAfter, SideFrom, AsksFrom
  <2> QED  BY <2>2, <2>3, WithinParts
<1>3. TypeOK'
  <2>1. pc' \in [Procs -> Labels] /\ updated' \in [Procs -> BOOLEAN]
    BY DEF TypeOK, Labels, Holding
  <2>2. redisStamp' \in Answers \cup {NoQuote}
    BY DEF BooksAfter, TypeOK
  <2>3. ASSUME NEW r \in Procs
        PROVE  /\ pc'[r] \in Holding <=> quote'[r] /= NoQuote
               /\ pc'[r] \notin Holding => todo'[r] = EmptyBook
               /\ updated'[r] => pc'[r] = "done" /\ todo'[r] = EmptyBook
               /\ stored'[r] => pc'[r] \in Updating \cup {"done"}
               /\ quote'[r] /= NoQuote => Within(todo'[r], {quote'[r]})
    BY <1>1, <1>2 DEF TypeOK
  <2> QED  BY <1>1, <2>1, <2>2, <2>3 DEF TypeOK
<1>4. BooksShape'
  <2>1. IsBook(redisBook') /\ IsBook(todo'[p])  BY DEF BooksAfter
  <2>2. \A r \in Procs : r /= p => IsBook(todo'[r])  BY <1>1 DEF BooksShape
  <2> QED  BY <2>1, <2>2 DEF BooksShape
<1>5. OverlapComplete'
  BY <1>1 DEF OverlapComplete
<1>6. TodoWhole'
  BY <1>1 DEF TodoWhole, Updating
<1>7. StampAgreed'
  <2> SUFFICES ASSUME NEW r \in Procs, updated'[r], Agreed(r)'
               PROVE  redisStamp' = quote[r]
    BY DEF StampAgreed
  <2>1. CASE r = p  BY <2>1
  <2>2. CASE r /= p
    <3>1. updated[r] /\ Agreed(r) /\ pc[r] \in Holding
      BY <1>1, <2>2 DEF Agreed, TypeOK, Holding
    <3>2. quote[p] = quote[r] /\ redisStamp = quote[r]
      BY <1>1, <2>2, <3>1 DEF OverlapComplete, Agreed, StampAgreed
    <3> QED  BY <3>2 DEF BooksAfter
  <2> QED  BY <2>1, <2>2
<1>8. QuoteAgreed'
  BY DEF QuoteAgreed, Agreed
<1> QED  BY <1>3, <1>4, <1>5, <1>6, <1>7, <1>8

LEMMA DelBidsInv == ASSUME IndInv, NEW p \in Procs, DelBids(p) PROVE IndInv'
<1> USE DEF IndInv
<1>1. /\ BooksAfter(p) /\ UNCHANGED <<todo, redisStamp>>
      /\ redisBook'.bids = NoLevels /\ redisBook'.asks = redisBook.asks
  BY DelBooks DEF DelBids
<1>2. /\ pc[p] = "delBids" /\ pc[p] \in Updating /\ "delAsks" \in Updating
      /\ pc' = [pc EXCEPT ![p] = "delAsks"] /\ pc'[p] = "delAsks"
      /\ \A r \in Procs : r /= p => pc'[r] = pc[r]
      /\ UNCHANGED <<quote, stored, updated, redisQuote, overlap, torn>>
      /\ ~ updated[p] /\ pc[p] \in Holding
  BY DEF DelBids, Updating, Holding, TypeOK
<1>3. TypeOK' /\ BooksShape' /\ OverlapComplete' /\ TodoWhole' /\ StampAgreed' /\ QuoteAgreed'
  BY <1>1, <1>2, CommandInv DEF TypeOK
<1>4. BidsOwned'
  BY <1>1, EmptyShape DEF BidsOwned, BidsFrom, EmptyBook
<1>5. AsksOwned'
  <2> SUFFICES ASSUME NEW r \in Procs, AsksCleared(r)'
               PROVE  AsksFrom(redisBook'.asks, Reach(r)')
    BY DEF AsksOwned
  <2>1. AsksCleared(r) /\ pc[r] \in Holding
    BY <1>2 DEF AsksCleared, Holding, Updating
  <2> QED  BY <1>1, <1>2, <2>1, OwnedStep DEF AsksOwned
<1>6. BidsWhole'
  <2> SUFFICES ASSUME NEW r \in Procs, BidsCleared(r)', Agreed(r)',
                      NEW x \in DOMAIN BookFromQuote(quote[r]).bids
               PROVE  BidWriter(x)'
    BY <1>2 DEF BidsWhole
  <2>1. quote[p] = quote[r]
    <3>1. CASE r = p  BY <3>1
    <3>2. CASE r /= p
      <4>1. pc[r] \in Holding  BY <1>2, <3>2 DEF BidsCleared, Holding, Updating
      <4> QED  BY <1>2, <3>2, <4>1 DEF OverlapComplete, Agreed
    <3> QED  BY <3>1, <3>2
  <2>2. x \in DOMAIN todo'[p].bids
    BY <1>1, <1>2, <2>1 DEF TodoWhole
  <2> QED  BY <1>2, <2>2 DEF BidWriter
<1>7. AsksWhole'
  <2>1. \A r \in Procs : AsksCleared(r)' => AsksCleared(r)
    BY <1>2 DEF AsksCleared
  <2>2. \A x : AskWriter(x) => AskWriter(x)'
    BY <1>1, <1>2 DEF AskWriter
  <2> QED  BY <1>1, <1>2, <2>1, <2>2 DEF AsksWhole, Agreed
<1> QED  BY <1>3, <1>4, <1>5, <1>6, <1>7

LEMMA DelAsksInv == ASSUME IndInv, NEW p \in Procs, DelAsks(p) PROVE IndInv'
<1> USE DEF IndInv
<1>1. /\ BooksAfter(p) /\ UNCHANGED <<todo, redisStamp>>
      /\ redisBook'.asks = NoLevels /\ redisBook'.bids = redisBook.bids
  BY DelBooks DEF DelAsks
<1>2. /\ pc[p] = "delAsks" /\ pc[p] \in Updating /\ "levels" \in Updating
      /\ pc' = [pc EXCEPT ![p] = "levels"] /\ pc'[p] = "levels"
      /\ \A r \in Procs : r /= p => pc'[r] = pc[r]
      /\ UNCHANGED <<quote, stored, updated, redisQuote, overlap, torn>>
      /\ ~ updated[p] /\ pc[p] \in Holding
  BY DEF DelAsks, Updating, Holding, TypeOK
<1>3. TypeOK' /\ BooksShape' /\ OverlapComplete' /\ TodoWhole' /\ StampAgreed' /\ QuoteAgreed'
  BY <1>1, <1>2, CommandInv DEF TypeOK
<1>4. AsksOwned'
  BY <1>1, EmptyShape DEF AsksOwned, AsksFrom, EmptyBook
<1>5. BidsOwned'
  <2> SUFFICES ASSUME NEW r \in Procs, BidsCleared(r)'
               PROVE  BidsFrom(redisBook'.bids, Reach(r)')
    BY DEF BidsOwned
  <2>1. BidsCleared(r) /\ pc[r] \in Holding
    BY <1>2 DEF BidsCleared, Holding, Updating
  <2> QED  BY <1>1, <1>2, <2>1, OwnedStep DEF BidsOwned
<1>6. AsksWhole'
  <2> SUFFICES ASSUME NEW r \in Procs, AsksCleared(r)', Agreed(r)',
                      NEW x \in DOMAIN BookFromQuote(quote[r]).asks
               PROVE  AskWriter(x)'
    BY <1>2 DEF AsksWhole
  <2>1. quote[p] = quote[r]
    <3>1. CASE r = p  BY <3>1
    <3>2. CASE r /= p
      <4>1. pc[r] \in Holding  BY <1>2, <3>2 DEF AsksCleared, Holding, Updating
      <4> QED  BY <1>2, <3>2, <4>1 DEF OverlapComplete, Agreed
    <3> QED  BY <3>1, <3>2
  <2>2. x \in DOMAIN todo'[p].asks
    BY <1>1, <1>2, <2>1 DEF TodoWhole
  <2> QED  BY <1>2, <2>2 DEF AskWriter
<1>7. BidsWhole'
  <2>1. \A r \in Procs : BidsCleared(r)' => BidsCleared(r)
    BY <1>2 DEF BidsCleared
  <2>2. \A x : BidWriter(x) => BidWriter(x)'
    BY <1>1, <1>2 DEF BidWriter
  <2> QED  BY <1>1, <1>2, <2>1, <2>2 DEF BidsWhole, Agreed
<1> QED  BY <1>3, <1>4, <1>5, <1>6, <1>7

\* A level that was to be written is in Redis now.
LEMMA HsetInv == ASSUME IndInv, NEW p \in Procs, HsetLevel(p) PROVE IndInv'
<1> USE DEF IndInv
<1>1. /\ BooksAfter(p) /\ redisStamp' = redisStamp
      /\ SideKeeps(redisBook.bids, redisBook'.bids, todo[p].bids, todo'[p].bids)
      /\ SideKeeps(redisBook.asks, redisBook'.asks, todo[p].asks, todo'[p].asks)
      /\ \A r \in Procs : r /= p => todo'[r] = todo[r]
  BY HsetBooks DEF HsetLevel, BooksAfter
<1>2. /\ pc[p] = "levels" /\ "levels" \in Updating /\ pc' = [pc EXCEPT ![p] = "levels"]
      /\ pc' = pc
      /\ UNCHANGED <<quote, stored, updated, redisQuote, overlap, torn>>
      /\ ~ updated[p]
  BY DEF HsetLevel, Updating, TypeOK
<1>3. TypeOK' /\ BooksShape' /\ OverlapComplete' /\ TodoWhole' /\ StampAgreed' /\ QuoteAgreed'
  <2>1. torn' \in [Procs -> BOOLEAN] /\ updated' \in {updated, [updated EXCEPT ![p] = TRUE]}
    BY <1>2 DEF TypeOK
  <2>2. pc[p] \in Updating /\ "levels" \in Updating \cup {"done"} /\ ~ updated'[p]
    BY <1>2
  <2> QED  BY <1>1, <1>2, <2>1, <2>2, CommandInv
<1>4. \A r \in Procs : BidsCleared(r) \/ AsksCleared(r) => pc[r] \in Holding
  BY DEF BidsCleared, AsksCleared, Holding, Updating
<1>5. BidsOwned'
  BY <1>1, <1>2, <1>4, OwnedStep DEF BidsOwned, BidsCleared
<1>6. AsksOwned'
  BY <1>1, <1>2, <1>4, OwnedStep DEF AsksOwned, AsksCleared
<1>7. BidsWhole'
  <2>1. \A x : BidWriter(x) => x \in DOMAIN redisBook'.bids \/ BidWriter(x)'
    BY <1>1, <1>2 DEF BidWriter, SideKeeps
  <2> QED  BY <1>1, <1>2, <2>1 DEF BidsWhole, BidsCleared, Agreed, SideKeeps
<1>8. AsksWhole'
  <2>1. \A x : AskWriter(x) => x \in DOMAIN redisBook'.asks \/ AskWriter(x)'
    BY <1>1, <1>2 DEF AskWriter, SideKeeps
  <2> QED  BY <1>1, <1>2, <2>1 DEF AsksWhole, AsksCleared, Agreed, SideKeeps
<1> QED  BY <1>3, <1>5, <1>6, <1>7, <1>8

\* An update that ends well has nothing left to write.
LEMMA StampInv == ASSUME IndInv, NEW p \in Procs, SetStamp(p) PROVE IndInv'
<1> USE DEF IndInv
<1>1. /\ BooksAfter(p) /\ UNCHANGED <<todo, redisBook>> /\ redisStamp' = quote[p]
      /\ todo[p] = EmptyBook
  BY EffectBooks DEF SetStamp, Effect, SetStampEffect
<1>2. /\ pc[p] = "levels" /\ pc[p] \in Updating /\ pc' = [pc EXCEPT ![p] = "done"]
      /\ pc'[p] = "done" /\ \A r \in Procs : r /= p => pc'[r] = pc[r]
      /\ updated' = [updated EXCEPT ![p] = TRUE]
      /\ \A r \in Procs : r /= p => updated'[r] = updated[r]
      /\ UNCHANGED <<quote, stored, redisQuote, overlap, torn>>
  BY DEF SetStamp, Updating, TypeOK
<1>3. TypeOK' /\ BooksShape' /\ OverlapComplete' /\ TodoWhole' /\ StampAgreed' /\ QuoteAgreed'
  BY <1>1, <1>2, CommandInv DEF TypeOK
<1>4. \A r \in Procs : /\ BidsCleared(r)' => BidsCleared(r)
                       /\ AsksCleared(r)' => AsksCleared(r)
  BY <1>2 DEF BidsCleared, AsksCleared
<1>5. BidsOwned' /\ AsksOwned'
  BY <1>1, <1>2, <1>4 DEF BidsOwned, AsksOwned, Reach
<1>6. \A x : (BidWriter(x) => BidWriter(x)') /\ (AskWriter(x) => AskWriter(x)')
  BY <1>1, <1>2, EmptyShape DEF BidWriter, AskWriter
<1>7. BidsWhole' /\ AsksWhole'
  BY <1>1, <1>2, <1>4, <1>6 DEF BidsWhole, AsksWhole, Agreed
<1> QED  BY <1>3, <1>5, <1>7

\* An update that fails tears those that run beside it.
LEMMA ErrorInv == ASSUME IndInv, NEW p \in Procs, UpdateError(p) PROVE IndInv'
<1> USE DEF IndInv
<1>1. BooksAfter(p)
  BY EffectBooks DEF UpdateError
<1>2. /\ pc[p] \in Updating /\ pc' = [pc EXCEPT ![p] = "done"] /\ pc'[p] = "done"
      /\ \A r \in Procs : r /= p => pc'[r] = pc[r]
      /\ UNCHANGED <<quote, stored, updated, redisQuote, overlap>>
      /\ torn' \in [Procs -> BOOLEAN]
      /\ \A r \in Procs : (r /= p /\ pc[r] \in Holding) => torn'[r]
      /\ ~ updated[p]
  BY DEF UpdateError, Tear, Holders, Updating, TypeOK
<1>3. TypeOK' /\ BooksShape' /\ OverlapComplete' /\ TodoWhole' /\ StampAgreed' /\ QuoteAgreed'
  BY <1>1, <1>2, CommandInv
<1>4. ASSUME NEW r \in Procs
      PROVE  /\ BidsCleared(r)' => r /= p /\ BidsCleared(r) /\ pc[r] \in Holding
             /\ AsksCleared(r)' => r /= p /\ AsksCleared(r) /\ pc[r] \in Holding
  BY <1>2 DEF BidsCleared, AsksCleared, Holding, Updating
<1>5. BidsOwned' /\ AsksOwned'
  BY <1>1, <1>2, <1>4, OwnedStep DEF BidsOwned, AsksOwned
<1>6. BidsWhole' /\ AsksWhole'
  BY <1>2, <1>4 DEF BidsWhole, AsksWhole
<1> QED  BY <1>3, <1>5, <1>6

\* A fetch that ends, by returning or by a crash of its process.
LEMMA EndInv ==
    ASSUME IndInv, NEW p \in Procs, Return(p) \/ Crash(p) PROVE IndInv'
<1> USE DEF IndInv
<1>1. /\ pc' = [pc EXCEPT ![p] = "idle"] /\ pc'[p] = "idle" /\ quote'[p] = NoQuote
      /\ todo'[p] = EmptyBook /\ overlap'[p] = {} /\ ~ updated'[p] /\ ~ stored'[p]
      /\ UNCHANGED <<redisQuote, redisBook, redisStamp>>
  BY DEF Return, Crash, Reset, TypeOK
<1>2. ASSUME NEW r \in Procs, r /= p
      PROVE  /\ pc'[r] = pc[r] /\ quote'[r] = quote[r] /\ todo'[r] = todo[r]
             /\ overlap'[r] = overlap[r] /\ updated'[r] = updated[r] /\ stored'[r] = stored[r]
  BY <1>2 DEF Return, Crash, Reset, TypeOK
<1>3. ASSUME NEW r \in Procs, r /= p, ~ torn'[r], pc[r] \in Holding
      PROVE  ~ torn[r] /\ (pc[p] \notin Updating)
  BY <1>3 DEF Return, Crash, Holders, Updating, TypeOK
<1>4. TypeOK'
  <2>1. /\ pc' \in [Procs -> Labels] /\ quote' \in [Procs -> Answers \cup {NoQuote}]
        /\ stored' \in [Procs -> BOOLEAN] /\ updated' \in [Procs -> BOOLEAN]
        /\ overlap' \in [Procs -> SUBSET Answers] /\ DOMAIN todo' = Procs
    BY DEF Return, Crash, Reset, TypeOK, Labels
  <2>2. torn' \in [Procs -> BOOLEAN]
    BY DEF Return, Crash, TypeOK
  <2>3. ASSUME NEW r \in Procs
        PROVE  /\ pc'[r] \in Holding <=> quote'[r] /= NoQuote
               /\ pc'[r] \notin Holding => todo'[r] = EmptyBook
               /\ updated'[r] => pc'[r] = "done" /\ todo'[r] = EmptyBook
               /\ stored'[r] => pc'[r] \in Updating \cup {"done"}
               /\ quote'[r] /= NoQuote => Within(todo'[r], {quote'[r]})
    <3>1. CASE r = p  BY <1>1, <3>1 DEF Holding, Updating
    <3>2. CASE r /= p  BY <1>2, <3>2 DEF TypeOK
    <3> QED  BY <3>1, <3>2
  <2> QED  BY <1>1, <2>1, <2>2, <2>3 DEF TypeOK
<1>5. BooksShape'
  <2>1. \A r \in Procs : IsBook(todo'[r])
    BY <1>1, <1>2, EmptyShape DEF BooksShape
  <2> QED  BY <1>1, <2>1 DEF BooksShape
<1>6. OverlapComplete' /\ TodoWhole'
  BY <1>1, <1>2 DEF OverlapComplete, TodoWhole, Holding, Updating
<1>7. ASSUME NEW r \in Procs
      PROVE  /\ BidsCleared(r)' => r /= p /\ BidsCleared(r) /\ pc[r] \in Holding
             /\ AsksCleared(r)' => r /= p /\ AsksCleared(r) /\ pc[r] \in Holding
  BY <1>1, <1>2 DEF BidsCleared, AsksCleared, Holding, Updating
<1>8. BidsOwned' /\ AsksOwned'
  BY <1>1, <1>2, <1>7 DEF BidsOwned, AsksOwned, Reach
<1>9. pc[p] \notin Updating =>
        \A x : (BidWriter(x) => BidWriter(x)') /\ (AskWriter(x) => AskWriter(x)')
  BY <1>2 DEF BidWriter, AskWriter, Updating
<1>10. BidsWhole' /\ AsksWhole'
  BY <1>1, <1>2, <1>3, <1>7, <1>9 DEF BidsWhole, AsksWhole, Agreed
<1>11. StampAgreed' /\ QuoteAgreed'
  BY <1>1, <1>2 DEF StampAgreed, QuoteAgreed, Agreed
<1> QED  BY <1>4, <1>5, <1>6, <1>8, <1>10, <1>11

-----------------------------------------------------------------------------
LEMMA NextInv == IndInv /\ [Next]_vars => IndInv'
<1> SUFFICES ASSUME IndInv, [Next]_vars PROVE IndInv'  OBVIOUS
<1>1. CASE Expire
  BY <1>1, ExpireInv
<1>2. CASE UNCHANGED vars
  <2>1. TypeOK' /\ BooksShape' /\ OverlapComplete' /\ TodoWhole'
    BY <1>2 DEF vars, IndInv, TypeOK, BooksShape, OverlapComplete, TodoWhole
  <2>2. BidsOwned' /\ AsksOwned'
    BY <1>2 DEF vars, IndInv, BidsOwned, AsksOwned, BidsCleared, AsksCleared, Reach
  <2>3. BidsWhole' /\ AsksWhole' /\ StampAgreed' /\ QuoteAgreed'
    BY <1>2 DEF vars, IndInv, BidsWhole, AsksWhole, BidsCleared, AsksCleared, Agreed,
                BidWriter, AskWriter, StampAgreed, QuoteAgreed
  <2> QED  BY <2>1, <2>2, <2>3 DEF IndInv
<1>3. ASSUME NEW p \in Procs, ReadHit(p) \/ GetQuote(p) PROVE IndInv'
  <2>1. CASE ReadHit(p)
    <3>1. redisQuote \in Answers  BY <2>1 DEF ReadHit, Usable, IndInv, TypeOK
    <3> QED  BY <2>1, <3>1, ObtainInv DEF ReadHit
  <2>2. CASE GetQuote(p)
    <3>1. PICK q \in Answers : Obtain(p, q, "store")
      BY <2>2 DEF GetQuote
    <3> QED  BY <2>2, <3>1, ObtainInv DEF GetQuote
  <2> QED  BY <1>3, <2>1, <2>2
<1>4. ASSUME NEW p \in Procs, Fetch(p) \/ Crash(p) PROVE IndInv'
  BY <1>3, <1>4, QuietInv, DelBidsInv, DelAsksInv, HsetInv, StampInv, ErrorInv, EndInv
  DEF Fetch
<1> QED  BY <1>1, <1>2, <1>4 DEF Next

\* The invariant holds in every reachable state.
THEOREM Invariance == Spec => []IndInv
BY InitInv, NextInv, PTL DEF Spec

\* Every variable keeps a value of its kind, and a fetch has levels to write
\* only while it holds a quote.
THEOREM TypeCorrect == Spec => []TypeOK
BY Invariance, PTL DEF IndInv

\* Whatever update_order_book finds in Redis, of whatever interleaving, error or
\* crash, what it leaves on success is its own or of a fetch beside it.
THEOREM NoForeignLevelAlways == Spec => []NoForeignLevel
<1>1. IndInv => NoForeignLevel
  BY WithinParts DEF IndInv, NoForeignLevel, BidsOwned, AsksOwned, BidsCleared, AsksCleared
<1> QED  BY <1>1, Invariance, PTL

\* Concurrent updates from one quote end with the whole book of that quote.
THEOREM SameQuoteConvergesAlways == Spec => []SameQuoteConverges
<1>1. ASSUME IndInv, NEW p \in Procs, pc[p] = "done", updated[p], ~ torn[p],
             Agreed(p), Holders = {p}
      PROVE  redisBook = BookFromQuote(quote[p])
  <2> DEFINE whole == BookFromQuote(quote[p])
  <2>1. Reach(p) = {quote[p]}
    BY <1>1 DEF Reach, Agreed
  <2>2. BidsFrom(redisBook.bids, {quote[p]}) /\ AsksFrom(redisBook.asks, {quote[p]})
    BY <1>1, <2>1 DEF IndInv, BidsOwned, AsksOwned, BidsCleared, AsksCleared
  <2>3. \A x : ~ BidWriter(x) /\ ~ AskWriter(x)
    BY <1>1 DEF BidWriter, AskWriter, Holders, Holding, Updating
  <2>4. /\ DOMAIN whole.bids \subseteq DOMAIN redisBook.bids
        /\ DOMAIN whole.asks \subseteq DOMAIN redisBook.asks
    BY <1>1, <2>3 DEF IndInv, BidsWhole, AsksWhole, BidsCleared, AsksCleared
  <2>5. /\ DOMAIN redisBook.bids = DOMAIN whole.bids
        /\ DOMAIN redisBook.asks = DOMAIN whole.asks
        /\ \A x \in DOMAIN redisBook.bids : redisBook.bids[x] = whole.bids[x]
        /\ \A x \in DOMAIN redisBook.asks : redisBook.asks[x] = whole.asks[x]
    BY <2>2, <2>4 DEF BidsFrom, AsksFrom
  <2>6. IsBook(redisBook)
    BY <1>1 DEF IndInv, BooksShape
  <2>7. IsBook(whole)
    BY QuoteShape
  <2> HIDE DEF whole
  <2>8. redisBook.bids = whole.bids /\ redisBook.asks = whole.asks
    BY <2>5, <2>6, <2>7 DEF IsBook, IsFcn
  <2>9. redisBook = whole
    BY <2>6, <2>7, <2>8 DEF IsBook
  <2> QED  BY <2>9 DEF whole
<1>2. IndInv => SameQuoteConverges
  BY <1>1 DEF IndInv, SameQuoteConverges, Agreed, StampAgreed, QuoteAgreed
<1> QED  BY <1>2, Invariance, PTL

-----------------------------------------------------------------------------
(* An update that runs alone.                                              *)

\* HSET has got this far with a side: done is in Redis, rest is not.
Half(done, rest, whole) ==
    /\ IsFcn(done)
    /\ DOMAIN done \cup DOMAIN rest = DOMAIN whole
    /\ \A x \in DOMAIN done : done[x] = whole[x]
    /\ \A x \in DOMAIN done, y \in DOMAIN rest : x < y

\* How far update_order_book has got at label l, from the book old to whole.
Progress(l, book, rest, old, whole) ==
    \/ l \in {"store", "delBids"} /\ book = old
    \/ l = "delAsks" /\ book = [bids |-> NoLevels, asks |-> old.asks]
    \/ /\ l = "levels"
       /\ Half(book.bids, rest.bids, whole.bids) /\ Half(book.asks, rest.asks, whole.asks)
       /\ rest.bids = NoLevels \/ book.asks = NoLevels

Alone(p) == pc[p] \in Holding /\ overlap[p] = {}

AloneShape(p) ==
    LET whole == BookFromQuote(quote[p]) IN
    \/ Progress(pc[p], redisBook, todo[p], before, whole)
    \/ /\ pc[p] = "done" /\ redisBook \in BookWrites(before, whole)
       /\ updated[p] => redisBook = whole

AloneInv == \A p \in Procs : Alone(p) => AloneShape(p)

LEMMA NoLevelsShape == IsFcn(NoLevels) /\ DOMAIN NoLevels = {}
BY DEF NoLevels, IsFcn

LEMMA EmptyIsNoLevels == ASSUME NEW f, IsFcn(f), DOMAIN f = {} PROVE f = NoLevels
BY NoLevelsShape DEF IsFcn

LEMMA BookPrices ==
    ASSUME NEW q \in Answers
    PROVE  DOMAIN BookFromQuote(q).bids \subseteq Int /\ DOMAIN BookFromQuote(q).asks \subseteq Int
<1>1. q.price \in Int /\ \A n \in FilledLevels(q) : n \in Int
  BY AnswersAssumption, DepthAssumption DEF FilledLevels
<1> QED  BY <1>1 DEF BookFromQuote

LEMMA HalfStart == ASSUME NEW whole PROVE Half(NoLevels, whole, whole)
BY NoLevelsShape DEF Half

LEMMA HalfStep ==
    ASSUME NEW done, NEW rest, NEW whole, Half(done, rest, whole), DOMAIN whole \subseteq Int,
           NEW x \in Lowest(rest), rest[x] = whole[x]
    PROVE  Half(Put(done, x, rest[x]), Without(rest, x), whole)
<1> DEFINE new == Put(done, x, rest[x])
           left == Without(rest, x)
<1>1. /\ IsFcn(new) /\ DOMAIN new = DOMAIN done \cup {x}
      /\ new[x] = rest[x] /\ \A y \in DOMAIN done : y /= x => new[y] = done[y]
  BY DEF Put, IsFcn
<1>2. DOMAIN left = DOMAIN rest \ {x}
  BY WithoutShape
<1>3. x \in DOMAIN rest /\ \A y \in DOMAIN rest : x <= y
  BY DEF Lowest
<1>4. \A y \in DOMAIN left : x < y
  BY <1>2, <1>3 DEF Half
<1> HIDE DEF new, left
<1>5. Half(new, left, whole)
  BY <1>1, <1>2, <1>3, <1>4 DEF Half
<1> QED  BY <1>5 DEF new, left

LEMMA HalfWritten ==
    ASSUME NEW done, NEW rest, NEW whole, Half(done, rest, whole)
    PROVE  /\ done \in Written(whole)
           /\ DOMAIN rest = {} /\ IsFcn(whole) => done = whole
<1>1. done = Restrict(whole, DOMAIN done)
  BY DEF Half, IsFcn, Restrict
<1>2. \A y \in DOMAIN whole \ DOMAIN done : y \in DOMAIN rest
  BY DEF Half
<1>3. DOMAIN done \in {E \in SUBSET DOMAIN whole : \A x \in E, y \in DOMAIN whole \ E : x < y}
  BY <1>2 DEF Half
<1>4. DOMAIN rest = {} /\ IsFcn(whole) => done = whole
  BY DEF Half, IsFcn
<1> QED  BY <1>1, <1>3, <1>4 DEF Written

LEMMA ProgressWrites ==
    ASSUME NEW l, NEW book, NEW rest, NEW old, NEW whole,
           Progress(l, book, rest, old, whole), IsBook(book), IsBook(whole)
    PROVE  book \in BookWrites(old, whole)
<1>1. CASE book = old \/ book = [bids |-> NoLevels, asks |-> old.asks]
  BY <1>1 DEF BookWrites
<1>2. CASE /\ Half(book.bids, rest.bids, whole.bids) /\ Half(book.asks, rest.asks, whole.asks)
           /\ rest.bids = NoLevels \/ book.asks = NoLevels
  <2>1. book.bids \in Written(whole.bids) /\ book.asks \in Written(whole.asks)
    BY <1>2, HalfWritten
  <2>2. CASE rest.bids = NoLevels
    <3>1. book.bids = whole.bids
      BY <1>2, <2>2, HalfWritten, NoLevelsShape DEF IsBook
    <3> QED  BY <2>1, <3>1 DEF BookWrites, IsBook
  <2>3. CASE book.asks = NoLevels
    BY <2>1, <2>3 DEF BookWrites, IsBook
  <2> QED  BY <1>2, <2>2, <2>3
<1> QED  BY <1>1, <1>2 DEF Progress

\* Nobody else holds a quote, and so nobody else touches the book.
LEMMA AloneHolds ==
    ASSUME IndInv, NEW p \in Procs, Alone(p)
    PROVE  \A r \in Procs : r /= p => pc[r] \notin Holding
BY DEF IndInv, OverlapComplete, Alone

\* A command of an update that runs alone gets it one label, or one level, on.
LEMMA EffectProgress ==
    ASSUME IndInv, AloneInv, NEW p \in Procs, Alone(p), Effect(p), before' = before
    PROVE  LET whole == BookFromQuote(quote[p]) IN
           /\ pc[p] = "delBids" => Progress("delAsks", redisBook', todo'[p], before, whole)
           /\ pc[p] /= "delBids" => Progress("levels", redisBook', todo'[p], before, whole)
           /\ SetStampEffect(p) /\ pc[p] = "levels" => redisBook' = whole
<1> DEFINE whole == BookFromQuote(quote[p])
<1>1. /\ IsBook(redisBook) /\ IsBook(whole) /\ IsBook(todo[p]) /\ DOMAIN todo = Procs
      /\ redisBook = [bids |-> redisBook.bids, asks |-> redisBook.asks]
      /\ todo[p] = [bids |-> todo[p].bids, asks |-> todo[p].asks]
  BY QuoteShape DEF IndInv, BooksShape, TypeOK, IsBook
<1>2. quote[p] \in Answers /\ DOMAIN whole.bids \subseteq Int /\ DOMAIN whole.asks \subseteq Int
  BY BookPrices DEF IndInv, TypeOK, Alone
<1>3. /\ \A x \in DOMAIN todo[p].bids : todo[p].bids[x] = whole.bids[x]
      /\ \A x \in DOMAIN todo[p].asks : todo[p].asks[x] = whole.asks[x]
  BY DEF IndInv, TypeOK, Within, Alone
<1>4. Progress(pc[p], redisBook, todo[p], before, whole)
  BY DEF AloneInv, AloneShape, Effect
<1> HIDE DEF whole
<1>5. CASE pc[p] = "delBids" /\ DelBidsEffect(p)
  <2>1. redisBook = before /\ redisBook' = [bids |-> NoLevels, asks |-> before.asks]
    BY <1>1, <1>4, <1>5 DEF Progress, DelBidsEffect
  <2> QED  BY <1>5, <2>1 DEF Progress, whole
<1>6. CASE pc[p] = "delAsks" /\ DelAsksEffect(p)
  <2>1. redisBook' = [bids |-> NoLevels, asks |-> NoLevels] /\ todo'[p] = whole
    BY <1>1, <1>4, <1>6 DEF Progress, DelAsksEffect, IndInv, TodoWhole, whole
  <2>2. Half(NoLevels, whole.bids, whole.bids) /\ Half(NoLevels, whole.asks, whole.asks)
    BY HalfStart
  <2> QED  BY <1>6, <2>1, <2>2 DEF Progress, whole
<1>7. CASE pc[p] = "levels" /\ HsetBidEffect(p)
  <2>1. PICK x \in Lowest(todo[p].bids) :
          /\ redisBook' = [redisBook EXCEPT !.bids = Put(@, x, todo[p].bids[x])]
          /\ todo' = [todo EXCEPT ![p].bids = Without(@, x)]
    BY <1>7 DEF HsetBidEffect
  <2> DEFINE put == Put(redisBook.bids, x, todo[p].bids[x])
             left == Without(todo[p].bids, x)
  <2>2. /\ redisBook' = [bids |-> put, asks |-> redisBook.asks]
        /\ todo'[p] = [bids |-> left, asks |-> todo[p].asks]
    BY <1>1, <2>1
  <2>3. x \in DOMAIN todo[p].bids
    BY <2>1 DEF Lowest
  <2>4. /\ Half(redisBook.bids, todo[p].bids, whole.bids)
        /\ Half(redisBook.asks, todo[p].asks, whole.asks) /\ redisBook.asks = NoLevels
    BY <1>4, <1>7, <2>3, NoLevelsShape DEF Progress
  <2>5. Half(put, left, whole.bids)
    BY <1>2, <1>3, <2>1, <2>3, <2>4, HalfStep
  <2> HIDE DEF put, left
  <2>6. Progress("levels", redisBook', todo'[p], before, whole)
    BY <2>2, <2>4, <2>5 DEF Progress
  <2>7. ~ SetStampEffect(p)
    BY <2>3, EmptyShape DEF SetStampEffect
  <2> QED  BY <1>7, <2>6, <2>7 DEF whole
<1>8. CASE pc[p] = "levels" /\ HsetAskEffect(p)
  <2>1. PICK x \in Lowest(todo[p].asks) :
          /\ redisBook' = [redisBook EXCEPT !.asks = Put(@, x, todo[p].asks[x])]
          /\ todo' = [todo EXCEPT ![p].asks = Without(@, x)]
    BY <1>8 DEF HsetAskEffect
  <2> DEFINE put == Put(redisBook.asks, x, todo[p].asks[x])
             left == Without(todo[p].asks, x)
  <2>2. /\ redisBook' = [bids |-> redisBook.bids, asks |-> put]
        /\ todo'[p] = [bids |-> todo[p].bids, asks |-> left]
    BY <1>1, <2>1
  <2>3. x \in DOMAIN todo[p].asks /\ todo[p].bids = NoLevels
    BY <1>8, <2>1 DEF Lowest, HsetAskEffect
  <2>4. /\ Half(redisBook.bids, todo[p].bids, whole.bids)
        /\ Half(redisBook.asks, todo[p].asks, whole.asks)
    BY <1>4, <1>8 DEF Progress
  <2>5. Half(put, left, whole.asks)
    BY <1>2, <1>3, <2>1, <2>3, <2>4, HalfStep
  <2> HIDE DEF put, left
  <2>6. Progress("levels", redisBook', todo'[p], before, whole)
    BY <2>2, <2>3, <2>4, <2>5 DEF Progress
  <2>7. ~ SetStampEffect(p)
    BY <2>3, EmptyShape DEF SetStampEffect
  <2> QED  BY <1>8, <2>6, <2>7 DEF whole
<1>9. CASE pc[p] = "levels" /\ SetStampEffect(p)
  <2>1. todo[p] = EmptyBook /\ redisBook' = redisBook /\ todo' = todo
    BY <1>9 DEF SetStampEffect
  <2>2. Half(redisBook.bids, todo[p].bids, whole.bids) /\ Half(redisBook.asks, todo[p].asks, whole.asks)
    BY <1>4, <1>9 DEF Progress
  <2>3. redisBook.bids = whole.bids /\ redisBook.asks = whole.asks
    BY <1>1, <2>1, <2>2, HalfWritten, EmptyShape DEF IsBook
  <2>4. redisBook = whole
    BY <1>1, <2>3 DEF IsBook
  <2> QED  BY <1>4, <1>9, <2>1, <2>4 DEF whole
<1> QED  BY <1>5, <1>6, <1>7, <1>8, <1>9 DEF Effect, whole

\* A step that leaves the book, and whoever runs alone, alone.
LEMMA AloneQuiet ==
    ASSUME AloneInv, NEW p \in Procs, Alone(p)', Alone(p),
           UNCHANGED <<redisBook, before>>, todo'[p] = todo[p], quote'[p] = quote[p],
           updated'[p] = updated[p], pc'[p] = pc[p] \/ (pc[p] = "store" /\ pc'[p] = "delBids")
    PROVE  AloneShape(p)'
<1> DEFINE whole == BookFromQuote(quote[p])
<1>1. AloneShape(p)
  BY DEF AloneInv
<1>2. Progress(pc[p], redisBook, todo[p], before, whole) =>
        Progress(pc'[p], redisBook', todo'[p], before', whole)
  BY DEF Progress
<1>3. (BookFromQuote(quote[p]))' = whole
  BY DEF BookFromQuote, LevelVolume, FilledLevels
<1>4. BookWrites(before, whole) = BookWrites(before', whole)
  OBVIOUS
<1> HIDE DEF whole
<1> QED  BY <1>1, <1>2, <1>3, <1>4 DEF AloneShape, whole

LEMMA AloneNext == IndInv /\ AloneInv /\ [Next]_vars => AloneInv'
<1> SUFFICES ASSUME IndInv, AloneInv, [Next]_vars, NEW p \in Procs, Alone(p)'
             PROVE  AloneShape(p)'
  BY DEF AloneInv
<1>0. /\ quote[p] \in Answers \cup {NoQuote} /\ todo'[p] \in {todo'[p]}
      /\ (BookFromQuote(quote[p]))' = BookFromQuote(quote'[p])
  BY DEF IndInv, TypeOK, BookFromQuote, LevelVolume, FilledLevels
<1>1. ASSUME NEW r \in Procs, NEW q \in Answers, NEW l \in {"store", "delBids"}, Obtain(r, q, l)
      PROVE  AloneShape(p)'
  <2>1. r = p
    <3>1. r /= p => pc'[p] = pc[p] /\ (p \in Holders => q \in overlap'[p])
      BY <1>1 DEF Obtain, IndInv, TypeOK
    <3> QED  BY <3>1 DEF Alone, Holders
  <2>2. pc'[p] = l /\ before' = redisBook /\ redisBook' = redisBook
    <3>1. overlap'[p] = {quote[s] : s \in Holders}
      BY <1>1, <2>1 DEF Obtain
    <3>2. Holders = {}
      BY <3>1 DEF Alone
    <3> QED  BY <1>1, <2>1, <3>2 DEF Obtain, IndInv, TypeOK
  <2> QED  BY <2>2 DEF AloneShape, Progress
<1>2. ASSUME NEW r \in Procs, ReadMiss(r) \/ NoAnswer(r) PROVE AloneShape(p)'
  <2>1. r /= p
    BY <1>2 DEF ReadMiss, NoAnswer, IndInv, TypeOK, Alone, Holding, Updating
  <2> QED  BY <1>2, <2>1, AloneQuiet DEF ReadMiss, NoAnswer, Alone, IndInv, TypeOK
<1>3. ASSUME NEW r \in Procs, StoreQuote(r) PROVE AloneShape(p)'
  <2>1. Alone(p)
    BY <1>3 DEF StoreQuote, Alone, IndInv, TypeOK, Holding
  <2>2. r = p
    BY <1>3, <2>1, AloneHolds DEF StoreQuote, Holding
  <2> QED  BY <1>3, <2>1, <2>2, AloneQuiet DEF StoreQuote, IndInv, TypeOK
<1>4. ASSUME NEW r \in Procs, pc[r] \in Updating, pc'[r] \in Holding,
             pc' = [pc EXCEPT ![r] = pc'[r]], UNCHANGED <<quote, before, overlap>>
      PROVE  r = p /\ Alone(p)
  <2>1. Alone(p)
    BY <1>4 DEF Alone, IndInv, TypeOK, Holding
  <2> QED  BY <1>4, <2>1, AloneHolds DEF Holding
<1>5. ASSUME NEW r \in Procs, DelBids(r) \/ DelAsks(r) \/ HsetLevel(r) PROVE AloneShape(p)'
  <2>1. r = p /\ Alone(p)
    BY <1>4, <1>5 DEF DelBids, DelAsks, HsetLevel, Updating, Holding, IndInv, TypeOK
  <2>2. /\ Effect(p) /\ UNCHANGED <<quote, before>>
        /\ pc[p] = "delBids" => pc'[p] = "delAsks"
        /\ pc[p] /= "delBids" => pc'[p] = "levels"
    BY <1>5, <2>1 DEF DelBids, DelAsks, HsetLevel, Effect, IndInv, TypeOK
  <2> QED  BY <1>0, <2>1, <2>2, EffectProgress DEF AloneShape
<1>6. ASSUME NEW r \in Procs, SetStamp(r) PROVE AloneShape(p)'
  <2>1. r = p /\ Alone(p)
    BY <1>4, <1>6 DEF SetStamp, Updating, Holding, IndInv, TypeOK
  <2>2. /\ Effect(p) /\ UNCHANGED <<quote, before>> /\ SetStampEffect(p)
        /\ pc[p] = "levels" /\ pc'[p] = "done"
    BY <1>6, <2>1 DEF SetStamp, Effect, IndInv, TypeOK
  <2>3. Progress("levels", redisBook', todo'[p], before, BookFromQuote(quote[p]))
        /\ redisBook' = BookFromQuote(quote[p])
    BY <2>1, <2>2, EffectProgress
  <2>4. IsBook(BookFromQuote(quote[p]))
    BY QuoteShape
  <2>5. redisBook' \in BookWrites(before, BookFromQuote(quote[p]))
    BY <2>3, <2>4, ProgressWrites
  <2> QED  BY <1>0, <2>2, <2>3, <2>5 DEF AloneShape
<1>7. ASSUME NEW r \in Procs, UpdateError(r) PROVE AloneShape(p)'
  <2>1. r = p /\ Alone(p)
    BY <1>4, <1>7 DEF UpdateError, Updating, Holding, IndInv, TypeOK
  <2>2. /\ Effect(p) \/ UNCHANGED <<todo, redisBook>>
        /\ UNCHANGED <<quote, before>> /\ pc'[p] = "done" /\ ~ updated'[p] /\ pc[p] \in Updating
    BY <1>7, <2>1 DEF UpdateError, IndInv, TypeOK, Updating
  <2>3. PICK l : Progress(l, redisBook', todo'[p], before, BookFromQuote(quote[p]))
    <3>1. CASE Effect(p)
      BY <2>1, <2>2, <3>1, EffectProgress
    <3>2. CASE UNCHANGED <<todo, redisBook>>
      BY <2>1, <2>2, <3>2 DEF AloneInv, AloneShape, Updating
    <3> QED  BY <2>2, <3>1, <3>2
  <2>4. IsBook(redisBook') /\ IsBook(BookFromQuote(quote[p]))
    BY <1>7, ErrorInv, QuoteShape DEF IndInv, BooksShape
  <2>5. redisBook' \in BookWrites(before, BookFromQuote(quote[p]))
    BY <2>3, <2>4, ProgressWrites
  <2> QED  BY <1>0, <2>2, <2>5 DEF AloneShape
<1>8. ASSUME NEW r \in Procs, Return(r) \/ Crash(r) PROVE AloneShape(p)'
  <2>1. r /= p
    BY <1>8 DEF Return, Crash, Reset, Alone, IndInv, TypeOK, Holding, Updating
  <2>2. Alone(p)
    BY <1>8, <2>1 DEF Return, Crash, Reset, Alone, IndInv, TypeOK
  <2>3. r \notin Holders
    BY <2>1, <2>2, AloneHolds DEF Holders
  <2> QED  BY <1>8, <2>1, <2>2, <2>3, AloneQuiet DEF Return, Crash, Reset, IndInv, TypeOK
<1>9. CASE Expire \/ UNCHANGED vars
  BY <1>9, AloneQuiet DEF Expire, vars, Alone
<1>10. ASSUME NEW r \in Procs, ReadHit(r) \/ GetQuote(r) PROVE AloneShape(p)'
  <2>1. CASE ReadHit(r)
    BY <1>1, <2>1 DEF ReadHit, Usable, IndInv, TypeOK
  <2>2. CASE GetQuote(r)
    BY <1>1, <2>2 DEF GetQuote
  <2> QED  BY <1>10, <2>1, <2>2
<1> QED  BY <1>2, <1>3, <1>5, <1>6, <1>7, <1>8, <1>9, <1>10 DEF Next, Fetch

\* What FinCoreApp takes for one step: an update that runs alone leaves what
\* BookWrites says, and what any command, error or crash makes of it.
THEOREM AloneIsBookWritesAlways == Spec => []AloneIsBookWrites
<1>1. Init => AloneInv
  BY DEF Init, AloneInv, Alone, Holding, Updating
<1>2. ASSUME IndInv, AloneInv PROVE AloneIsBookWrites
  <2> SUFFICES ASSUME NEW p \in Procs, pc[p] \in Updating \cup {"done"}, overlap[p] = {}
               PROVE  /\ redisBook \in BookWrites(before, BookFromQuote(quote[p]))
                      /\ updated[p] => redisBook = BookFromQuote(quote[p])
    BY DEF AloneIsBookWrites
  <2>1. AloneShape(p)
    BY <1>2 DEF AloneInv, Alone, Holding
  <2>2. IsBook(redisBook) /\ IsBook(BookFromQuote(quote[p])) /\ (updated[p] => pc[p] = "done")
    BY <1>2, QuoteShape DEF IndInv, BooksShape, TypeOK
  <2>3. CASE Progress(pc[p], redisBook, todo[p], before, BookFromQuote(quote[p]))
    BY <2>2, <2>3, ProgressWrites DEF Progress
  <2> QED  BY <2>1, <2>3 DEF AloneShape
<1> QED  BY <1>1, <1>2, AloneNext, Invariance, PTL DEF Spec
=============================================================================

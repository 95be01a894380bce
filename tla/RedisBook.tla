------------------------------ MODULE RedisBook ------------------------------
(***************************************************************************)
(* The order book of one symbol in Redis: the hashes order_book:SYMBOL:bids *)
(* and :asks and the key :timestamp, rewritten command by command by the   *)
(* fetches of several fincore_app processes.  update_order_book deletes    *)
(* both hashes, then writes the levels upwards, one HSET each; commands of *)
(* the other processes, errors, crashes and the TTL of quote:SYMBOL fall   *)
(* between any two of them.                                                *)
(*                                                                         *)
(* The client cache is not told apart from the API here: on a Redis miss a *)
(* process works with any of the answers.  How old quotes get is the       *)
(* subject of QuoteCache, what else a fetch does that of FinCoreApp.       *)
(***************************************************************************)
EXTENDS BookLevels

CONSTANTS
    Procs,     \* fincore_app processes that share one Redis
    Answers,   \* quotes of the symbol: [price, volume, valid]
    NoQuote    \* std::nullopt, an empty HGETALL, a key that is not there

ASSUME AnswersAssumption ==
    \A a \in Answers : a.price \in Int /\ a.volume \in Nat /\ a.valid \in BOOLEAN
ASSUME NoQuoteAssumption == NoQuote \notin Answers

VARIABLES
    pc,          \* where each process is in fetch_symbol
    quote,       \* fetch_symbol's quote
    stored,      \* metrics.redis_quote_stored
    todo,        \* levels update_order_book has still to write
    updated,     \* metrics.redis_book_stored
    redisQuote,  \* hash quote:SYMBOL
    redisBook,   \* the two hashes of the book
    redisStamp,  \* the quote whose update last set order_book:SYMBOL:timestamp
    before,      \* history: the book that a fetch found which began while no other ran
    overlap,     \* history: quotes of the other fetches running during this one
    torn         \* history: one of those left its update half way

vars == <<pc, quote, stored, todo, updated, redisQuote, redisBook, redisStamp, before, overlap, torn>>

\* "idle": between fetches; "api": Redis missed; "store": store_quote; then
\* update_order_book with its two DEL and, at "levels", HSETs and SET; "done":
\* the rest of fetch_symbol.
Updating == {"delBids", "delAsks", "levels"}
Holding  == {"store", "done"} \cup Updating
Labels   == {"idle", "api"} \cup Holding

Holders == {p \in Procs : pc[p] \in Holding}

Init ==
    /\ pc      = [p \in Procs |-> "idle"]
    /\ quote   = [p \in Procs |-> NoQuote]
    /\ stored  = [p \in Procs |-> FALSE]
    /\ todo    = [p \in Procs |-> EmptyBook]
    /\ updated = [p \in Procs |-> FALSE]
    /\ redisQuote = NoQuote /\ redisBook = EmptyBook /\ redisStamp = NoQuote
    /\ before  = EmptyBook
    /\ overlap = [p \in Procs |-> {}]
    /\ torn    = [p \in Procs |-> FALSE]

-----------------------------------------------------------------------------
\* get_quote and, on a miss, the Alpha Vantage client.

\* The fetch has its quote, and with it the book populate_book_from_quote
\* builds; it overlaps with every fetch that holds one.
Obtain(p, q, label) ==
    /\ pc'      = [pc EXCEPT ![p] = label]
    /\ quote'   = [quote EXCEPT ![p] = q]
    /\ todo'    = [todo EXCEPT ![p] = BookFromQuote(q)]
    /\ before'  = IF Holders = {} THEN redisBook ELSE EmptyBook
    /\ overlap' = [r \in Procs |->
                     IF r = p THEN {quote[s] : s \in Holders}
                     ELSE IF r \in Holders THEN overlap[r] \cup {q} ELSE overlap[r]]
    /\ UNCHANGED <<updated, redisQuote, redisBook, redisStamp, torn>>

Usable == redisQuote /= NoQuote /\ redisQuote.valid

\* A hit does not store the quote again but rebuilds and rewrites the book.
ReadHit(p) ==
    /\ pc[p] = "idle"
    /\ Usable
    /\ Obtain(p, redisQuote, "delBids")
    /\ stored' = [stored EXCEPT ![p] = TRUE]

\* Nothing usable in Redis, or an error of the read.
ReadMiss(p) ==
    /\ pc[p] = "idle"
    /\ pc' = [pc EXCEPT ![p] = "api"]
    /\ UNCHANGED <<quote, stored, todo, updated, redisQuote, redisBook, redisStamp, before, overlap, torn>>

GetQuote(p) ==
    /\ pc[p] = "api"
    /\ \E q \in Answers : Obtain(p, q, "store")
    /\ UNCHANGED stored

NoAnswer(p) ==
    /\ pc[p] = "api"
    /\ pc' = [pc EXCEPT ![p] = "idle"]
    /\ UNCHANGED <<quote, stored, todo, updated, redisQuote, redisBook, redisStamp, before, overlap, torn>>

\* store_quote, which fails with its HMSET carried out or not.
StoreQuote(p) ==
    /\ pc[p] = "store"
    /\ \/ redisQuote' = quote[p] /\ stored' = [stored EXCEPT ![p] = TRUE]
       \/ redisQuote' \in {redisQuote, quote[p]} /\ UNCHANGED stored
    /\ pc' = [pc EXCEPT ![p] = "delBids"]
    /\ UNCHANGED <<quote, todo, updated, redisBook, redisStamp, before, overlap, torn>>

-----------------------------------------------------------------------------
\* update_order_book: what the next command does to Redis.

\* Mutation of DelBidsEffect: a side that gets no levels is not deleted.
DelBidsEffectIfAny(p) ==
    /\ redisBook' = IF todo[p].bids = NoLevels THEN redisBook
                    ELSE [redisBook EXCEPT !.bids = NoLevels]
    /\ UNCHANGED <<todo, redisStamp>>

DelBidsEffect(p) ==
    /\ redisBook' = [redisBook EXCEPT !.bids = NoLevels]
    /\ UNCHANGED <<todo, redisStamp>>

DelAsksEffect(p) ==
    /\ redisBook' = [redisBook EXCEPT !.asks = NoLevels]
    /\ UNCHANGED <<todo, redisStamp>>

\* HSET adds the level or overwrites its volume.
Put(side, price, volume) ==
    [x \in DOMAIN side \cup {price} |-> IF x = price THEN volume ELSE side[x]]

Without(side, price) == Restrict(side, DOMAIN side \ {price})

\* The map iterates upwards.
Lowest(side) == {x \in DOMAIN side : \A y \in DOMAIN side : x <= y}

HsetBidEffect(p) ==
    \E price \in Lowest(todo[p].bids) :
        /\ redisBook' = [redisBook EXCEPT !.bids = Put(@, price, todo[p].bids[price])]
        /\ todo' = [todo EXCEPT ![p].bids = Without(@, price)]
        /\ UNCHANGED redisStamp

HsetAskEffect(p) ==
    /\ todo[p].bids = NoLevels
    /\ \E price \in Lowest(todo[p].asks) :
        /\ redisBook' = [redisBook EXCEPT !.asks = Put(@, price, todo[p].asks[price])]
        /\ todo' = [todo EXCEPT ![p].asks = Without(@, price)]
        /\ UNCHANGED redisStamp

SetStampEffect(p) ==
    /\ todo[p] = EmptyBook
    /\ redisStamp' = quote[p]
    /\ UNCHANGED <<todo, redisBook>>

DelBids(p) ==
    /\ pc[p] = "delBids"
    /\ DelBidsEffect(p)
    /\ pc' = [pc EXCEPT ![p] = "delAsks"]
    /\ UNCHANGED <<quote, stored, updated, redisQuote, before, overlap, torn>>

DelAsks(p) ==
    /\ pc[p] = "delAsks"
    /\ DelAsksEffect(p)
    /\ pc' = [pc EXCEPT ![p] = "levels"]
    /\ UNCHANGED <<quote, stored, updated, redisQuote, before, overlap, torn>>

HsetLevel(p) ==
    /\ pc[p] = "levels"
    /\ HsetBidEffect(p) \/ HsetAskEffect(p)
    /\ UNCHANGED <<pc, quote, stored, updated, redisQuote, before, overlap, torn>>

SetStamp(p) ==
    /\ pc[p] = "levels"
    /\ SetStampEffect(p)
    /\ pc' = [pc EXCEPT ![p] = "done"]
    /\ updated' = [updated EXCEPT ![p] = TRUE]
    /\ UNCHANGED <<quote, stored, redisQuote, before, overlap, torn>>

\* The fetches that run now see one of their number stop half way.
Tear(p) == torn' = [r \in Procs |-> torn[r] \/ (r \in Holders /\ r /= p)]

Effect(p) ==
    \/ pc[p] = "delBids" /\ DelBidsEffect(p)
    \/ pc[p] = "delAsks" /\ DelAsksEffect(p)
    \/ pc[p] = "levels" /\ (HsetBidEffect(p) \/ HsetAskEffect(p) \/ SetStampEffect(p))

\* Mutation of UpdateError: the error of one command is logged and the loop
\* goes on to the next.
UpdateErrorIgnored(p) ==
    /\ pc[p] = "levels"
    /\ \E price \in Lowest(todo[p].bids) :
         todo' = [todo EXCEPT ![p].bids = Without(@, price)]
    /\ UNCHANGED <<pc, quote, stored, updated, redisQuote, redisBook, redisStamp, before, overlap, torn>>

\* A Redis error ends the update with false; the command that met it may have
\* been refused, or carried out and its reply lost.
UpdateError(p) ==
    /\ pc[p] \in Updating
    /\ Effect(p) \/ UNCHANGED <<todo, redisBook, redisStamp>>
    /\ pc' = [pc EXCEPT ![p] = "done"]
    /\ Tear(p)
    /\ UNCHANGED <<quote, stored, updated, redisQuote, before, overlap>>

-----------------------------------------------------------------------------
\* The process is between fetches again, and nothing of this one is left.
Reset(p) ==
    /\ pc'      = [pc EXCEPT ![p] = "idle"]
    /\ quote'   = [quote EXCEPT ![p] = NoQuote]
    /\ stored'  = [stored EXCEPT ![p] = FALSE]
    /\ todo'    = [todo EXCEPT ![p] = EmptyBook]
    /\ updated' = [updated EXCEPT ![p] = FALSE]
    /\ before'  = IF p \in Holders THEN EmptyBook ELSE before
    /\ overlap' = [overlap EXCEPT ![p] = {}]
    /\ UNCHANGED <<redisQuote, redisBook, redisStamp>>

\* Mutation of Return: the levels not written are left for the next update.
ReturnKeepingLevels(p) ==
    /\ pc[p] = "done"
    /\ pc'      = [pc EXCEPT ![p] = "idle"]
    /\ quote'   = [quote EXCEPT ![p] = NoQuote]
    /\ stored'  = [stored EXCEPT ![p] = FALSE]
    /\ updated' = [updated EXCEPT ![p] = FALSE]
    /\ before'  = EmptyBook
    /\ overlap' = [overlap EXCEPT ![p] = {}]
    /\ torn'    = [torn EXCEPT ![p] = FALSE]
    /\ UNCHANGED <<todo, redisQuote, redisBook, redisStamp>>

Return(p) ==
    /\ pc[p] = "done"
    /\ Reset(p)
    /\ torn' = [torn EXCEPT ![p] = FALSE]

\* The process dies, before, within or after its update, and is started again.
Crash(p) ==
    /\ pc[p] /= "idle"
    /\ Reset(p)
    /\ torn' = [r \in Procs |->
                  r /= p /\ (torn[r] \/ (r \in Holders /\ pc[p] \in Updating))]

\* The TTL of the quote runs out; the book has none.
Expire ==
    /\ redisQuote /= NoQuote
    /\ redisQuote' = NoQuote
    /\ UNCHANGED <<pc, quote, stored, todo, updated, redisBook, redisStamp, before, overlap, torn>>

Fetch(p) ==
    \/ ReadHit(p) \/ ReadMiss(p) \/ GetQuote(p) \/ NoAnswer(p) \/ StoreQuote(p)
    \/ DelBids(p) \/ DelAsks(p) \/ HsetLevel(p) \/ SetStamp(p) \/ UpdateError(p)
    \/ Return(p)

Next == Expire \/ \E p \in Procs : Fetch(p) \/ Crash(p)

Spec == Init /\ [][Next]_vars

-----------------------------------------------------------------------------
\* Every level of a book is one of the books built from the quotes in Q.
Within(book, Q) ==
    /\ \A x \in DOMAIN book.bids : \E q \in Q :
         x \in DOMAIN BookFromQuote(q).bids /\ book.bids[x] = BookFromQuote(q).bids[x]
    /\ \A x \in DOMAIN book.asks : \E q \in Q :
         x \in DOMAIN BookFromQuote(q).asks /\ book.asks[x] = BookFromQuote(q).asks[x]

Reach(p) == {quote[p]} \cup overlap[p]

\* Every variable holds a value of its kind; a fetch has a quote, and levels
\* to write, exactly from the read to the end of its update.
TypeOK ==
    /\ pc      \in [Procs -> Labels]
    /\ quote   \in [Procs -> Answers \cup {NoQuote}]
    /\ stored  \in [Procs -> BOOLEAN]
    /\ updated \in [Procs -> BOOLEAN]
    /\ torn    \in [Procs -> BOOLEAN]
    /\ overlap \in [Procs -> SUBSET Answers]
    /\ redisQuote \in Answers \cup {NoQuote}
    /\ redisStamp \in Answers \cup {NoQuote}
    /\ DOMAIN todo = Procs
    /\ \A p \in Procs :
         /\ pc[p] \in Holding <=> quote[p] /= NoQuote
         /\ pc[p] \notin Holding => todo[p] = EmptyBook
         /\ updated[p] => pc[p] = "done" /\ todo[p] = EmptyBook
         /\ stored[p] => pc[p] \in Updating \cup {"done"}
         /\ quote[p] /= NoQuote => Within(todo[p], {quote[p]})

\* An update that reports success has cleared everything older than itself:
\* each level in Redis is of its own quote or of a fetch that ran beside it,
\* whatever earlier fetches, failed updates and crashed processes had left.
NoForeignLevel ==
    \A p \in Procs : (pc[p] = "done" /\ updated[p]) => Within(redisBook, Reach(p))

\* Processes that poll hit the same Redis quote and rewrite the same book, each
\* deleting what the other has just written.  When the last of such fetches has
\* succeeded and none was torn off half way, the book is whole, the timestamp is
\* that of its quote, and quote:SYMBOL, unless expired, is the quote it shows.
SameQuoteConverges ==
    \A p \in Procs :
        (pc[p] = "done" /\ updated[p] /\ ~ torn[p]
            /\ overlap[p] \subseteq {quote[p]} /\ Holders = {p}) =>
          /\ redisBook = BookFromQuote(quote[p])
          /\ redisStamp = quote[p]
          /\ stored[p] => redisQuote \in {NoQuote, quote[p]}

\* An update that no other fetch overlapped leaves in Redis, at every moment and
\* however it ended, what BookWrites says: between the book it found and its own,
\* and its own if it reports success.  FinCoreApp takes it for one step on this
\* ground.
AloneIsBookWrites ==
    \A p \in Procs : (pc[p] \in Updating \cup {"done"} /\ overlap[p] = {}) =>
        /\ redisBook \in BookWrites(before, BookFromQuote(quote[p]))
        /\ updated[p] => redisBook = BookFromQuote(quote[p])
=============================================================================

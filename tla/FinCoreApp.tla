----------------------------- MODULE FinCoreApp -----------------------------
(***************************************************************************)
(* One fincore_app from main to the last command: startup, the commands of *)
(* FinCoreCli, and fetch_symbol with what it leaves behind in the          *)
(* process's order books and statistics, in Redis and in PostgreSQL.       *)
(* Every call of a service is a step, so the connection to PostgreSQL, a   *)
(* TTL or the process itself can end between any two of them.              *)
(*                                                                         *)
(* The process may be started again; Redis and PostgreSQL outlive it.  How *)
(* several processes share them is the subject of QuoteCache (the quote    *)
(* keys) and PgRepository (the inserts).                                   *)
(***************************************************************************)
EXTENDS BookLevels, Sequences

CONSTANTS
    SymbolList,   \* FinCoreCli::symbols_, in order
    Answers,      \* quotes the API may answer: [price, volume, range, day]
    YearOf,       \* the year of each day; an answer may also carry no day
    NoDay,
    MaxDecimal,   \* largest whole number a domain::Decimal holds
    MaxRounds,    \* COUNT of watch and poll
    MaxOps,       \* fetches in a behaviour
    NoQuote       \* std::nullopt, an absent hash, an absent cache entry

Symbols == Range(SymbolList)
Ranges  == {"ordered", "zeroHigh", "inverted"}   \* high >= low, high = 0 < low, 0 < high < low

ASSUME SymbolsAssumption == SymbolList \in Seq(Symbols) /\ SymbolList /= <<>>
ASSUME AnswersAssumption ==
    \A a \in Answers : /\ a.price \in Int /\ a.volume \in Nat /\ a.range \in Ranges
                       /\ a.day \in DOMAIN YearOf \cup {NoDay}
ASSUME YearsAssumption == \A d \in DOMAIN YearOf : YearOf[d] \in Int

Quotes == [price : Int, volume : Nat, range : Ranges, time : Int]

ASSUME NoQuoteAssumption == NoQuote \notin Quotes
ASSUME BoundsAssumption == MaxDecimal \in Nat /\ MaxRounds \in Nat /\ MaxOps \in Nat

VARIABLES
    pc,          \* where the process is
    boot,        \* main's position in the list of instruments to upsert
    postgres,    \* the repository the CLI was given: "null", "open" or "lost"
    announced,   \* what main printed of PostgreSQL
    todo,        \* symbols the running command has still to fetch
    quote,       \* fetch_symbol's quote
    metrics,     \* fetch_symbol's metrics
    books,       \* FinCoreCli::books_
    withData,    \* FinCoreCli::books_with_data_
    avCache,     \* AlphaVantageClient::cache_
    stats,       \* FinCoreCli::stats_
    redisQuote,  \* quote:SYMBOL
    redisBook,   \* order_book:SYMBOL:bids and :asks
    sourceKnown, instruments,   \* fincore.data_sources, fincore.instruments
    pgQuotes, pgSnapshots,      \* fincore.quotes, fincore.order_book_snapshots
    late,        \* rows whose COMMIT may still reach the server: [of, row]
    ops          \* fetches so far; also the clock that dates rows

startup == <<boot, postgres, announced>>
memory  == <<books, withData, avCache>>
redis   == <<redisQuote, redisBook>>
catalog == <<sourceKnown, instruments>>
tables  == <<pgQuotes, pgSnapshots, late>>
vars    == <<pc, startup, todo, quote, metrics, memory, stats, redis, catalog, tables, ops>>

NoMetrics == [hit |-> FALSE, api |-> "none", quote |-> "none", book |-> "none"]
NoStats   == [attempts |-> 0, successes |-> 0, failures |-> 0,
              api_cache_hits |-> 0, api_cache_misses |-> 0,
              redis_cache_hits |-> 0, redis_cache_misses |-> 0,
              redis_quote_successes |-> 0, redis_quote_failures |-> 0,
              redis_book_successes |-> 0, redis_book_failures |-> 0]

Counters  == [attempts : Nat, successes : Nat, failures : Nat,
              api_cache_hits : Nat, api_cache_misses : Nat,
              redis_cache_hits : Nat, redis_cache_misses : Nat,
              redis_quote_successes : Nat, redis_quote_failures : Nat,
              redis_book_successes : Nat, redis_book_failures : Nat]

Init ==
    /\ pc = "exited" /\ boot = 1 /\ postgres = "null" /\ announced = "nothing"
    /\ todo = <<>> /\ quote = NoQuote /\ metrics = NoMetrics
    /\ books = [s \in Symbols |-> EmptyBook] /\ withData = {}
    /\ avCache = [s \in Symbols |-> NoQuote]
    /\ stats = NoStats
    /\ redisQuote = [s \in Symbols |-> NoQuote]
    /\ redisBook  = [s \in Symbols |-> EmptyBook]
    /\ sourceKnown \in BOOLEAN /\ instruments = IF sourceKnown THEN Symbols ELSE {}
    /\ pgQuotes = {} /\ pgSnapshots = {} /\ late = {}
    /\ ops = 0

-----------------------------------------------------------------------------
\* main: Redis is mandatory, PostgreSQL is not.

Launch ==
    /\ pc = "exited"
    /\ pc' = "redis"
    /\ UNCHANGED <<startup, todo, quote, metrics, memory, stats, redis, catalog, tables, ops>>

ConnectRedis ==
    /\ pc = "redis"
    /\ pc' \in {"postgres", "exited"}
    /\ UNCHANGED <<startup, todo, quote, metrics, memory, stats, redis, catalog, tables, ops>>

OpenPostgres ==
    /\ pc = "postgres"
    /\ pc' = "source" /\ postgres' = "open"
    /\ UNCHANGED <<boot, announced, todo, quote, metrics, memory, stats, redis, catalog, tables, ops>>

UpsertSource ==
    /\ pc = "source" /\ postgres = "open"
    /\ pc' = "instruments"
    /\ sourceKnown' = TRUE
    /\ UNCHANGED <<startup, todo, quote, metrics, memory, stats, redis, instruments, tables, ops>>

\* Mutation of UpsertInstrument: the loop stops before the last symbol.
UpsertInstrumentButLast ==
    /\ pc = "instruments" /\ postgres = "open"
    /\ instruments' = instruments \cup {SymbolList[boot]}
    /\ boot' = boot + 1
    /\ \/ boot + 1 < Len(SymbolList) /\ UNCHANGED <<pc, announced>>
       \/ boot + 1 >= Len(SymbolList) /\ pc' = "prompt" /\ announced' = "connected"
    /\ UNCHANGED <<postgres, todo, quote, metrics, memory, stats, redis, sourceKnown, tables, ops>>

\* After the last instrument main prints [connected] and runs the CLI.
UpsertInstrument ==
    /\ pc = "instruments" /\ postgres = "open"
    /\ instruments' = instruments \cup {SymbolList[boot]}
    /\ boot' = boot + 1
    /\ \/ boot < Len(SymbolList) /\ UNCHANGED <<pc, announced>>
       \/ boot = Len(SymbolList) /\ pc' = "prompt" /\ announced' = "connected"
    /\ UNCHANGED <<postgres, todo, quote, metrics, memory, stats, redis, sourceKnown, tables, ops>>

\* Whatever throws here is printed as "PostgreSQL disabled".  The repository
\* pointer keeps its value: null only if the constructor threw.
PostgresDisabled ==
    /\ pc \in {"postgres", "source", "instruments"}
    /\ pc' = "prompt"
    /\ announced' = "disabled"
    /\ UNCHANGED <<boot, postgres, todo, quote, metrics, memory, stats, redis, catalog, tables, ops>>

-----------------------------------------------------------------------------
\* run and handle_line.  Commands that only print, and lines refused before
\* any service is called, change nothing and have no action.

Begin(plan) ==
    /\ pc = "prompt"
    /\ ops + Len(plan) <= MaxOps
    /\ todo' = plan
    /\ pc' = "read"
    /\ UNCHANGED <<startup, quote, metrics, memory, stats, redis, catalog, tables, ops>>

\* fetch SYMBOL, watch SYMBOL n
FetchOne(s, n) == Begin([i \in 1 .. n |-> s])

\* fetch all, watch all n, poll n
FetchAll(n) ==
    Begin([i \in 1 .. n * Len(SymbolList) |-> SymbolList[((i - 1) % Len(SymbolList)) + 1]])

StatsReset ==
    /\ pc = "prompt"
    /\ stats' = NoStats
    /\ UNCHANGED <<pc, startup, todo, quote, metrics, memory, redis, catalog, tables, ops>>

\* exit, quit or the end of the input, and a crash at any other point: what
\* the process held is gone.
Stop ==
    /\ pc /= "exited"
    /\ pc' = "exited" /\ boot' = 1 /\ postgres' = "null" /\ announced' = "nothing"
    /\ todo' = <<>> /\ quote' = NoQuote /\ metrics' = NoMetrics
    /\ books' = [s \in Symbols |-> EmptyBook] /\ withData' = {}
    /\ avCache' = [s \in Symbols |-> NoQuote]
    /\ stats' = NoStats
    /\ UNCHANGED <<redis, catalog, tables, ops>>

-----------------------------------------------------------------------------
\* SessionStats::record.

One(b) == IF b THEN 1 ELSE 0

\* Mutation of Recorded: a cache hit is counted as a successful quote write,
\* as metrics.redis_quote_stored would have it.
RecordedByFlag(m, success) ==
    [attempts  |-> stats.attempts + 1,
     successes |-> stats.successes + One(success),
     failures  |-> stats.failures + One(~ success),
     api_cache_hits        |-> stats.api_cache_hits + One(m.api = "cached"),
     api_cache_misses      |-> stats.api_cache_misses + One(m.api = "external"),
     redis_cache_hits      |-> stats.redis_cache_hits + One(m.hit),
     redis_cache_misses    |-> stats.redis_cache_misses + One(~ m.hit),
     redis_quote_successes |-> stats.redis_quote_successes + One(m.hit \/ m.quote = "ok"),
     redis_quote_failures  |-> stats.redis_quote_failures + One(m.quote = "failed"),
     redis_book_successes  |-> stats.redis_book_successes + One(m.book = "ok"),
     redis_book_failures   |-> stats.redis_book_failures + One(m.book = "failed")]

\* A stage counts only if it was reached, that is, if it was timed.
Recorded(m, success) ==
    [attempts  |-> stats.attempts + 1,
     successes |-> stats.successes + One(success),
     failures  |-> stats.failures + One(~ success),
     api_cache_hits        |-> stats.api_cache_hits + One(m.api = "cached"),
     api_cache_misses      |-> stats.api_cache_misses + One(m.api = "external"),
     redis_cache_hits      |-> stats.redis_cache_hits + One(m.hit),
     redis_cache_misses    |-> stats.redis_cache_misses + One(~ m.hit),
     redis_quote_successes |-> stats.redis_quote_successes + One(m.quote = "ok"),
     redis_quote_failures  |-> stats.redis_quote_failures + One(m.quote = "failed"),
     redis_book_successes  |-> stats.redis_book_successes + One(m.book = "ok"),
     redis_book_failures   |-> stats.redis_book_failures + One(m.book = "failed")]

\* Mutation of EndFetch: the quote outlives its fetch.
EndFetchKeepingQuote(m, success, rest) ==
    /\ stats' = Recorded(m, success)
    /\ todo' = rest
    /\ pc' = IF rest = <<>> THEN "prompt" ELSE "read"
    /\ metrics' = NoMetrics
    /\ ops' = ops + 1
    /\ UNCHANGED quote

\* fetch_symbol records its metrics and returns or throws; the command goes
\* on with the symbols in rest.
EndFetch(m, success, rest) ==
    /\ stats' = Recorded(m, success)
    /\ todo' = rest
    /\ pc' = IF rest = <<>> THEN "prompt" ELSE "read"
    /\ quote' = NoQuote /\ metrics' = NoMetrics
    /\ ops' = ops + 1

-----------------------------------------------------------------------------
\* fetch_symbol, for the first symbol in todo.

Symbol == Head(todo)

\* Quote::is_valid, which get_quote requires of what it finds in Redis.
IsValid(q) == q.price > 0 /\ q.range /= "inverted"

ReadHit ==
    /\ pc = "read"
    /\ redisQuote[Symbol] /= NoQuote /\ IsValid(redisQuote[Symbol])
    /\ quote' = redisQuote[Symbol]
    /\ metrics' = [metrics EXCEPT !.hit = TRUE]
    /\ pc' = "book"
    /\ UNCHANGED <<startup, todo, memory, stats, redis, catalog, tables, ops>>

\* Nothing usable is there, or the command fails: get_quote does not tell.
ReadMiss ==
    /\ pc = "read"
    /\ pc' = "api"
    /\ UNCHANGED <<startup, todo, quote, metrics, memory, stats, redis, catalog, tables, ops>>

\* The entry is young enough.
ClientCacheHit ==
    /\ pc = "api"
    /\ avCache[Symbol] /= NoQuote
    /\ quote' = avCache[Symbol]
    /\ metrics' = [metrics EXCEPT !.api = "cached"]
    /\ pc' = "store"
    /\ UNCHANGED <<startup, todo, memory, stats, redis, catalog, tables, ops>>

Undated == 0   \* TimePoint{}

\* parse_quote keeps of the trading day its year.
ParseQuote(a) ==
    [price |-> a.price, volume |-> a.volume, range |-> a.range,
     time  |-> IF a.day = NoDay THEN Undated ELSE YearOf[a.day]]

\* No entry, or one that is too old.
ExternalQuote ==
    /\ pc = "api"
    /\ \E a \in Answers :
         /\ quote' = ParseQuote(a)
         /\ avCache' = [avCache EXCEPT ![Symbol] = ParseQuote(a)]
    /\ metrics' = [metrics EXCEPT !.api = "external"]
    /\ pc' = "store"
    /\ UNCHANGED <<startup, todo, books, withData, stats, redis, catalog, tables, ops>>

\* Mutation of NoAnswer: the fetch is tried again until the API answers.
NoAnswerRetrying ==
    /\ pc = "api"
    /\ pc' = "read"
    /\ UNCHANGED <<startup, todo, quote, metrics, memory, stats, redis, catalog, tables, ops>>

NoAnswer ==
    /\ pc = "api"
    /\ EndFetch([metrics EXCEPT !.api = "external"], FALSE, Tail(todo))
    /\ UNCHANGED <<startup, memory, redis, catalog, tables>>

StoreQuote ==
    /\ pc = "store"
    /\ redisQuote' = [redisQuote EXCEPT ![Symbol] = quote]
    /\ metrics' = [metrics EXCEPT !.quote = "ok"]
    /\ pc' = "book"
    /\ UNCHANGED <<startup, todo, quote, memory, stats, redisBook, catalog, tables, ops>>

\* Mutation of StoreQuoteFails: the error is not caught and ends the command.
StoreQuoteThrows ==
    /\ pc = "store"
    /\ EndFetch([metrics EXCEPT !.quote = "failed"], FALSE, <<>>)
    /\ UNCHANGED <<startup, memory, redis, catalog, tables>>

\* One of the four commands fails; HMSET may have been carried out.
StoreQuoteFails ==
    /\ pc = "store"
    /\ redisQuote' \in {redisQuote, [redisQuote EXCEPT ![Symbol] = quote]}
    /\ metrics' = [metrics EXCEPT !.quote = "failed"]
    /\ pc' = "book"
    /\ UNCHANGED <<startup, todo, quote, memory, stats, redisBook, catalog, tables, ops>>

\* Mutation of AfterBook: what Redis had cached is not persisted again.
AfterBookOfHit ==
    IF postgres = "null" THEN "finish"
    ELSE IF metrics.hit THEN "persistSnapshot" ELSE "persistQuote"

AfterBook == IF postgres = "null" THEN "finish" ELSE "persistQuote"

RebuildBook ==
    /\ books' = [books EXCEPT ![Symbol] = BookFromQuote(quote)]
    /\ withData' = withData \cup {Symbol}
    /\ pc' = AfterBook

UpdateBook ==
    /\ pc = "book"
    /\ RebuildBook
    /\ redisBook' = [redisBook EXCEPT ![Symbol] = BookFromQuote(quote)]
    /\ metrics' = [metrics EXCEPT !.book = "ok"]
    /\ UNCHANGED <<startup, todo, quote, avCache, stats, redisQuote, catalog, tables, ops>>

UpdateBookFails ==
    /\ pc = "book"
    /\ RebuildBook
    /\ \E b \in BookWrites(redisBook[Symbol], BookFromQuote(quote)) :
         redisBook' = [redisBook EXCEPT ![Symbol] = b]
    /\ metrics' = [metrics EXCEPT !.book = "failed"]
    /\ UNCHANGED <<startup, todo, quote, avCache, stats, redisQuote, catalog, tables, ops>>

-----------------------------------------------------------------------------
\* persist_quote and persist_snapshot: conversion, validation, and one
\* INSERT ... ON CONFLICT DO NOTHING in a transaction of its own.

\* domain_timestamp: a quote without a date is stored under the present time.
RowTime(q) == IF q.time = Undated THEN <<"now", ops>> ELSE <<"year", q.time>>

QuoteRow == [symbol |-> Symbol, timestamp |-> RowTime(quote), price |-> quote.price]

SameKey(r, t) == r.symbol = t.symbol /\ r.timestamp = t.timestamp
InsertInto(rows, row) == IF \E r \in rows : SameKey(r, row) THEN rows ELSE rows \cup {row}

QuoteAccepted ==
    /\ quote.volume <= MaxDecimal
    /\ quote.price >= 0 /\ quote.range = "ordered"

SnapshotRow ==
    LET snap == Snapshot(books[Symbol]) IN
    [symbol |-> Symbol, timestamp |-> ops,
     best_bid |-> snap.best_bid, best_ask |-> snap.best_ask]

SnapshotAccepted ==
    LET snap == Snapshot(books[Symbol]) IN
    /\ snap.total_bid_vol <= MaxDecimal /\ snap.total_ask_vol <= MaxDecimal
    /\ snap.best_bid > 0 /\ snap.best_ask >= snap.best_bid

\* The foreign keys of both tables.
Referenced == sourceKnown /\ Symbol \in instruments

PersistQuote ==
    /\ pc = "persistQuote" /\ postgres = "open"
    /\ QuoteAccepted /\ Referenced
    /\ pgQuotes' = InsertInto(pgQuotes, QuoteRow)
    /\ pc' = "persistSnapshot"
    /\ UNCHANGED <<startup, todo, quote, metrics, memory, stats, redis, catalog, pgSnapshots, late, ops>>

PersistSnapshot ==
    /\ pc = "persistSnapshot" /\ postgres = "open"
    /\ SnapshotAccepted /\ Referenced
    /\ pgSnapshots' = pgSnapshots \cup {SnapshotRow}
    /\ pc' = "finish"
    /\ UNCHANGED <<startup, todo, quote, metrics, memory, stats, redis, catalog, pgQuotes, late, ops>>

\* Anything wrong with PostgreSQL throws: fetch_symbol records the failure
\* and rethrows, through fetch_all and the command, up to run.
PersistThrows ==
    /\ pc \in {"persistQuote", "persistSnapshot"}
    /\ EndFetch(metrics, FALSE, <<>>)
    /\ UNCHANGED <<startup, memory, redis, catalog, tables>>

\* The same, with COMMIT on its way or its answer lost.
PersistUnknown ==
    /\ postgres = "open" /\ postgres' = "lost"
    /\ \/ /\ pc = "persistQuote" /\ QuoteAccepted
          /\ late' = late \cup {[of |-> "quote", row |-> QuoteRow]}
       \/ /\ pc = "persistSnapshot" /\ SnapshotAccepted
          /\ late' = late \cup {[of |-> "snapshot", row |-> SnapshotRow]}
    /\ Referenced
    /\ EndFetch(metrics, FALSE, <<>>)
    /\ UNCHANGED <<boot, announced, memory, redis, catalog, pgQuotes, pgSnapshots>>

\* Mutation of Success: the order book is written on a best-effort basis.
SuccessWithoutBook(m) == m.hit \/ m.quote = "ok"

\* A cache hit has its quote stored; persist_* return TRUE or throw.
Success(m) == (m.hit \/ m.quote = "ok") /\ m.book = "ok"

Finish ==
    /\ pc = "finish"
    /\ EndFetch(metrics, Success(metrics), Tail(todo))
    /\ UNCHANGED <<startup, memory, redis, catalog, tables>>

-----------------------------------------------------------------------------
\* The environment: a TTL runs out, the PostgreSQL connection breaks for good, a
\* COMMIT arrives after its client, or even its process, has gone on, or never.

Expire(s) ==
    /\ redisQuote[s] /= NoQuote
    /\ redisQuote' = [redisQuote EXCEPT ![s] = NoQuote]
    /\ UNCHANGED <<pc, startup, todo, quote, metrics, memory, stats, redisBook, catalog, tables, ops>>

PostgresLost ==
    /\ postgres = "open"
    /\ postgres' = "lost"
    /\ UNCHANGED <<pc, boot, announced, todo, quote, metrics, memory, stats, redis, catalog, tables, ops>>

LateCommit ==
    \E l \in late :
        /\ late' = late \ {l}
        /\ pgQuotes' = IF l.of = "quote" THEN InsertInto(pgQuotes, l.row) ELSE pgQuotes
        /\ pgSnapshots' = IF l.of = "snapshot" THEN pgSnapshots \cup {l.row} ELSE pgSnapshots
        /\ UNCHANGED <<pc, startup, todo, quote, metrics, memory, stats, redis, catalog, ops>>

SessionEnds ==
    /\ \E l \in late : late' = late \ {l}
    /\ UNCHANGED <<pc, startup, todo, quote, metrics, memory, stats, redis, catalog,
                   pgQuotes, pgSnapshots, ops>>

Fetching ==
    \/ ReadHit \/ ReadMiss \/ ClientCacheHit \/ ExternalQuote \/ NoAnswer
    \/ StoreQuote \/ StoreQuoteFails \/ UpdateBook \/ UpdateBookFails
    \/ PersistQuote \/ PersistSnapshot \/ PersistThrows \/ PersistUnknown \/ Finish

Starting ==
    \/ ConnectRedis \/ OpenPostgres \/ UpsertSource \/ UpsertInstrument \/ PostgresDisabled

Next ==
    \/ Launch \/ Starting \/ Stop \/ StatsReset
    \/ \E n \in 1 .. MaxRounds : FetchAll(n) \/ \E s \in Symbols : FetchOne(s, n)
    \/ Fetching
    \/ \E s \in Symbols : Expire(s)
    \/ PostgresLost \/ LateCommit \/ SessionEnds

\* The process runs on; what its environment and its user do is up to them.
Fairness == WF_vars(Starting) /\ WF_vars(Fetching)

Spec == Init /\ [][Next]_vars /\ Fairness

-----------------------------------------------------------------------------
Labels == {"exited", "redis", "postgres", "source", "instruments", "prompt", "read",
           "api", "store", "book", "persistQuote", "persistSnapshot", "finish"}
Busy   == Labels \ {"exited", "prompt"}
InFetch  == Labels \ {"exited", "redis", "postgres", "source", "instruments", "prompt"}
Holding  == InFetch \ {"read", "api"}

\* Every variable holds a value of its kind; a fetch has a symbol to work on
\* and, from the moment it was answered, a quote.
TypeOK ==
    /\ pc \in Labels
    /\ boot \in Nat \ {0} /\ (pc \in {"source", "instruments"} => boot <= Len(SymbolList))
    /\ postgres \in {"null", "open", "lost"}
    /\ announced \in {"nothing", "connected", "disabled"}
    /\ todo \in Seq(Symbols) /\ (todo /= <<>> <=> pc \in InFetch)
    /\ quote \in Quotes \cup {NoQuote} /\ (quote /= NoQuote <=> pc \in Holding)
    /\ metrics \in [hit : BOOLEAN, api : {"none", "cached", "external"},
                    quote : {"none", "ok", "failed"}, book : {"none", "ok", "failed"}]
    /\ DOMAIN books = Symbols /\ DOMAIN redisBook = Symbols
    /\ avCache \in [Symbols -> Quotes \cup {NoQuote}]
    /\ redisQuote \in [Symbols -> Quotes \cup {NoQuote}]
    /\ withData \subseteq Symbols /\ instruments \subseteq Symbols /\ sourceKnown \in BOOLEAN
    /\ stats \in Counters
    /\ \A r \in pgQuotes \cup pgSnapshots \cup {l.row : l \in late} : r.symbol \in Symbols
    /\ ops \in Nat /\ ops + Len(todo) <= MaxOps

\* Whatever failed or threw, and at whatever stage, the session statistics
\* add up: each fetch counts once at each stage it reached and nowhere else.
StatsBalance ==
    LET quoteWrites == stats.redis_quote_successes + stats.redis_quote_failures
        bookWrites  == stats.redis_book_successes + stats.redis_book_failures
    IN  /\ stats.attempts = stats.successes + stats.failures
        /\ stats.attempts = stats.redis_cache_hits + stats.redis_cache_misses
        /\ stats.redis_cache_misses = stats.api_cache_hits + stats.api_cache_misses
        /\ quoteWrites <= stats.redis_cache_misses
        /\ bookWrites = stats.redis_cache_hits + quoteWrites
        /\ stats.successes <= stats.redis_book_successes
        /\ stats.successes <= stats.redis_cache_hits + stats.redis_quote_successes

\* PostgreSQL never holds a derived snapshot of a symbol without a quote of it:
\* fetch_symbol persists the quote first, in a transaction of its own, and goes
\* on only when its COMMIT was answered, however late another one arrives.
SnapshotFollowsQuote ==
    \A r \in pgSnapshots : \E t \in pgQuotes : t.symbol = r.symbol

\* When main says [connected], every row the CLI will insert has the
\* instrument and the source it refers to.
ConnectedMeansRegistered ==
    announced = "connected" => sourceKnown /\ Symbols \subseteq instruments

\* At no moment do the two hashes of a symbol hold a bid at or above an ask, also
\* after an update_order_book that stopped half way on moving prices, as long as
\* one process writes them.  A reader that fetches the two hashes one after the
\* other may still put together a bid of before an update and an ask of after it.
RedisBookUncrossed == \A s \in Symbols : Uncrossed(redisBook[s])

\* A fetch that counts as a success has left the quote and the book it shows
\* in Redis (unless the TTL took the quote again) and, if PostgreSQL is in
\* use, a row under the quote's key and a snapshot of this very fetch.
SuccessMeansStored ==
    [][stats'.successes = stats.successes + 1 =>
         /\ Symbol \in withData' /\ redisBook'[Symbol] = books'[Symbol]
         /\ redisQuote'[Symbol] \in {quote, NoQuote}
         /\ postgres' /= "null" =>
              /\ \E r \in pgQuotes' : r.symbol = Symbol /\ r.timestamp = RowTime(quote)
              /\ \E r \in pgSnapshots' : r.symbol = Symbol /\ r.timestamp = ops]_vars

\* Without PostgreSQL no failure of Redis or of the API cuts a command
\* short: fetch all, watch and poll go on to the last symbol.
OnlyPostgresCutsShort ==
    [][Len(todo') < Len(todo) - 1 => postgres /= "null" \/ pc' = "exited"]_vars

\* A fetch goes forward only: a command is over after at most seven stages for
\* each of its symbols, whatever Redis, the API and PostgreSQL answer.
Stage == [read |-> 7, api |-> 6, store |-> 5, book |-> 4, persistQuote |-> 3,
          persistSnapshot |-> 2, finish |-> 1]
Remaining == IF todo = <<>> THEN 0 ELSE 7 * (Len(todo) - 1) + Stage[pc]

CommandAdvances ==
    [][todo /= <<>> => <<pc, todo>>' = <<pc, todo>> \/ Remaining' < Remaining]_vars

\* Startup and every command end, at the prompt or with the process.
CommandsReturn == (pc \in Busy) ~> (pc \in {"prompt", "exited"})

-----------------------------------------------------------------------------
\* The inductive invariant behind these properties.

\* The stages a fetch has metrics of are those it has been through.
MetricsShape ==
    /\ pc \notin Holding => metrics = NoMetrics
    /\ pc = "store" => ~ metrics.hit /\ metrics.api /= "none" /\ metrics.quote = "none"
    /\ pc \in Holding \ {"store"} =>
         /\ metrics.hit <=> metrics.api = "none"
         /\ metrics.hit <=> metrics.quote = "none"
    /\ pc \in Holding => (metrics.book = "none" <=> pc \in {"store", "book"})

\* main has upserted the source and the instruments before boot.
StartupShape ==
    /\ pc \in {"exited", "redis", "postgres", "source"} => boot = 1
    /\ pc \in {"exited", "redis", "postgres", "source", "instruments"} => announced = "nothing"
    /\ pc \in {"source", "instruments"} => postgres /= "null"
    /\ pc = "instruments" =>
         sourceKnown /\ \A i \in 1 .. (boot - 1) : SymbolList[i] \in instruments

\* What the running fetch has left where.
QuotePersisted == \E r \in pgQuotes : r.symbol = Symbol /\ r.timestamp = RowTime(quote)
SnapshotPersisted == \E r \in pgSnapshots : r.symbol = Symbol /\ r.timestamp = ops

LateFollowsQuote ==
    \A l \in late : l.of = "snapshot" => \E t \in pgQuotes : t.symbol = l.row.symbol

FetchShape ==
    /\ (pc \in Holding \ {"store"} /\ (metrics.hit \/ metrics.quote = "ok")) =>
         redisQuote[Symbol] \in {quote, NoQuote}
    /\ (pc \in Holding /\ metrics.book = "ok") =>
         Symbol \in withData /\ redisBook[Symbol] = books[Symbol]
    /\ pc \in {"persistQuote", "persistSnapshot"} => postgres /= "null"
    /\ pc = "persistSnapshot" => QuotePersisted
    /\ (pc = "finish" /\ postgres /= "null") => QuotePersisted /\ SnapshotPersisted

IndInv ==
    /\ TypeOK /\ MetricsShape /\ StatsBalance
    /\ StartupShape /\ ConnectedMeansRegistered
    /\ FetchShape /\ SnapshotFollowsQuote /\ LateFollowsQuote /\ RedisBookUncrossed

-----------------------------------------------------------------------------
\* What the documentation says of the program and the code does not do.

\* "If PostgreSQL cannot initialize, it is reported as `disabled` and
\* Redis/API operation continues": a disabled PostgreSQL is not used.
DisabledMeansUnused == announced = "disabled" => postgres = "null"

\* "Fetch all symbols in cycles": the command ends with its last fetch.
EverySymbolFetched ==
    [][(todo /= <<>> /\ pc' = "prompt") => Len(todo) = 1]_vars

\* Fetches "write the same quote [...] to PostgreSQL for durable history".
SameQuoteInPostgres ==
    [][(stats'.successes = stats.successes + 1 /\ postgres' /= "null") =>
         \E r \in pgQuotes' : r.symbol = Symbol /\ r.price = quote.price]_vars
=============================================================================

----------------------------- MODULE QuoteCache -----------------------------
(***************************************************************************)
(* The cache-aside read path of one symbol: the Redis hash quote:SYMBOL    *)
(* with its TTL and the list quote_history:SYMBOL, shared by the           *)
(* fincore_app processes in Procs, and each process's Alpha Vantage client *)
(* cache.  A fetch reads Redis; on a miss it asks the client cache, then   *)
(* the API, and stores the quote with four separate Redis commands         *)
(* (HMSET, EXPIRE, LPUSH, LTRIM), so every other process, the passing of   *)
(* time and every fault can fall between two of them.                      *)
(*                                                                         *)
(* Time is counted in ticks.  A quote is known by its age, the ticks since *)
(* the API answered with it, so the state stays finite without a bound on  *)
(* time; ages stop counting at AgeCap, above every age compared here.      *)
(***************************************************************************)
EXTENDS Integers, FiniteSets

CONSTANTS
    Procs,        \* fincore_app processes that share one Redis
    CacheTtl,     \* AlphaVantageClient::cache_ttl_ (POLL_SECONDS), any integer
    QuoteTtl,     \* RedisClient::quote_ttl_, positive or the constructor throws
    HistoryMax,   \* 1000 in store_quote's LTRIM
    MaxLatency,   \* ticks a fetch may take once it holds its quote
    AgeCap,       \* ages are counted up to here
    MaxFaults,    \* failed commands and crashes in a behaviour
    NoQuote       \* std::nullopt, an empty HGETALL, a missing cache entry

\* The oldest quote the client cache hands out: age < cache_ttl_, or a fresh one.
ClientBound == IF CacheTtl > 0 THEN CacheTtl - 1 ELSE 0

\* The oldest quote store_quote writes, and the oldest one EXPIRE finds in place.
StoreBound  == ClientBound + MaxLatency
ExpireBound == StoreBound + MaxLatency

\* No quote that carries a TTL gets older than this in Redis.
StaleBound == ExpireBound + QuoteTtl

ASSUME TtlAssumption     == CacheTtl \in Int /\ QuoteTtl \in Nat \ {0}
ASSUME HistoryAssumption == HistoryMax \in Nat \ {0}
ASSUME BoundsAssumption  == MaxLatency \in Nat /\ MaxFaults \in Nat
ASSUME AgeCapAssumption  == AgeCap \in Nat /\ AgeCap > StaleBound + MaxLatency
ASSUME ProcsAssumption   == IsFiniteSet(Procs)

Ages  == 0 .. AgeCap
NoTtl == -1      \* what Redis's TTL command answers for a key without one
Ttls  == {NoTtl} \cup 1 .. QuoteTtl

Quotes  == [age : Ages, valid : BOOLEAN]
Entries == [age : Ages, valid : BOOLEAN, ttl : Ttls]

ASSUME NoQuoteAssumption == NoQuote \notin Quotes /\ NoQuote \notin Entries

VARIABLES
    pc,        \* where each process is in fetch_symbol / store_quote
    quote,     \* fetch_symbol's maybe_quote
    stored,    \* metrics.redis_quote_stored
    waited,    \* ticks since the fetch obtained its quote
    avCache,   \* AlphaVantageClient::cache_ entry of the symbol
    redis,     \* hash quote:SYMBOL with its TTL
    history,   \* length of the list quote_history:SYMBOL
    faults     \* faults so far

vars == <<pc, quote, stored, waited, avCache, redis, history, faults>>

\* "idle": between fetches; "api": Redis missed; the four store_quote
\* commands; "book": the rest of fetch_symbol, which leaves these keys alone.
Storing == {"hmset", "expire", "lpush", "ltrim"}
Holding == Storing \cup {"book"}
Labels  == {"idle", "api"} \cup Holding

Init ==
    /\ pc      = [p \in Procs |-> "idle"]
    /\ quote   = [p \in Procs |-> NoQuote]
    /\ stored  = [p \in Procs |-> FALSE]
    /\ waited  = [p \in Procs |-> 0]
    /\ avCache = [p \in Procs |-> NoQuote]
    /\ redis   = NoQuote
    /\ history = 0
    /\ faults  = 0

-----------------------------------------------------------------------------
\* RedisClient::get_quote: HGETALL, then the is_valid filter.

\* fetch_symbol goes to `label` holding q.
Obtain(p, q, label) ==
    /\ pc'     = [pc EXCEPT ![p] = label]
    /\ quote'  = [quote EXCEPT ![p] = q]
    /\ waited' = [waited EXCEPT ![p] = 0]

Usable == redis /= NoQuote /\ redis.valid

\* Mutation of ReadHit: a sliding expiration, the read restarts the TTL.
ReadHitRefreshing(p) ==
    /\ pc[p] = "idle"
    /\ Usable
    /\ Obtain(p, [age |-> redis.age, valid |-> TRUE], "book")
    /\ stored' = [stored EXCEPT ![p] = TRUE]
    /\ redis' = [redis EXCEPT !.ttl = QuoteTtl]
    /\ UNCHANGED <<avCache, history, faults>>

\* A hit counts as a stored quote: neither the TTL nor the history is touched.
ReadHit(p) ==
    /\ pc[p] = "idle"
    /\ Usable
    /\ Obtain(p, [age |-> redis.age, valid |-> TRUE], "book")
    /\ stored' = [stored EXCEPT ![p] = TRUE]
    /\ UNCHANGED <<avCache, redis, history, faults>>

ReadMiss(p) ==
    /\ pc[p] = "idle"
    /\ ~ Usable
    /\ pc' = [pc EXCEPT ![p] = "api"]
    /\ UNCHANGED <<quote, stored, waited, avCache, redis, history, faults>>

\* Any exception of the read is reported as a miss.
ReadError(p) ==
    /\ pc[p] = "idle"
    /\ faults < MaxFaults
    /\ faults' = faults + 1
    /\ pc' = [pc EXCEPT ![p] = "api"]
    /\ UNCHANGED <<quote, stored, waited, avCache, redis, history>>

-----------------------------------------------------------------------------
\* AlphaVantageClient::get_quote and get_quote_fresh.

\* Mutation of CacheFresh: an entry is served whatever its age.
CacheFreshForever(p) == avCache[p] /= NoQuote

CacheFresh(p) == avCache[p] /= NoQuote /\ avCache[p].age < CacheTtl

ClientCacheHit(p) ==
    /\ pc[p] = "api"
    /\ CacheFresh(p)
    /\ Obtain(p, avCache[p], "hmset")
    /\ UNCHANGED <<stored, avCache, redis, history, faults>>

\* The API answers with a quote; nothing checks is_valid() on this path.
FetchExternal(p) ==
    /\ pc[p] = "api"
    /\ ~ CacheFresh(p)
    /\ \E v \in BOOLEAN :
         LET q == [age |-> 0, valid |-> v] IN
         /\ Obtain(p, q, "hmset")
         /\ avCache' = [avCache EXCEPT ![p] = q]
    /\ UNCHANGED <<stored, redis, history, faults>>

\* No usable answer: fetch_symbol returns false and the old cache entry stays.
FetchNothing(p) ==
    /\ pc[p] = "api"
    /\ ~ CacheFresh(p)
    /\ pc' = [pc EXCEPT ![p] = "idle"]
    /\ UNCHANGED <<quote, stored, waited, avCache, redis, history, faults>>

-----------------------------------------------------------------------------
\* RedisClient::store_quote, one Redis command per step.

\* HMSET keeps the TTL of an existing key; a new key has none.
HmsetEffect(p) ==
    /\ redis' = [age   |-> quote[p].age,
                 valid |-> quote[p].valid,
                 ttl   |-> IF redis = NoQuote THEN NoTtl ELSE redis.ttl]
    /\ UNCHANGED history

\* Mutation of ExpireEffect: the TTL is set only when the key already had one.
ExpireEffectOnlyRenews ==
    /\ redis' = IF redis = NoQuote \/ redis.ttl = NoTtl
                THEN redis ELSE [redis EXCEPT !.ttl = QuoteTtl]
    /\ UNCHANGED history

\* EXPIRE answers 0, which nobody looks at, when the key is gone.
ExpireEffect ==
    /\ redis' = IF redis = NoQuote THEN NoQuote ELSE [redis EXCEPT !.ttl = QuoteTtl]
    /\ UNCHANGED history

LpushEffect ==
    /\ history' = history + 1
    /\ UNCHANGED redis

\* Mutation of LtrimEffect: LTRIM 0 1000 keeps one entry too many.
LtrimEffectOffByOne ==
    /\ history' = IF history > HistoryMax + 1 THEN HistoryMax + 1 ELSE history
    /\ UNCHANGED redis

LtrimEffect ==
    /\ history' = IF history > HistoryMax THEN HistoryMax ELSE history
    /\ UNCHANGED redis

\* The effect on Redis of the command the process is about to send.
Effect(p) ==
    \/ pc[p] = "hmset"  /\ HmsetEffect(p)
    \/ pc[p] = "expire" /\ ExpireEffect
    \/ pc[p] = "lpush"  /\ LpushEffect
    \/ pc[p] = "ltrim"  /\ LtrimEffect

Following == [hmset |-> "expire", expire |-> "lpush", lpush |-> "ltrim", ltrim |-> "book"]

\* The command succeeds; after the last one store_quote returns true.
StoreCommand(p) ==
    /\ pc[p] \in Storing
    /\ Effect(p)
    /\ pc' = [pc EXCEPT ![p] = Following[pc[p]]]
    /\ stored' = [stored EXCEPT ![p] = (pc[p] = "ltrim")]
    /\ UNCHANGED <<quote, waited, avCache, faults>>

\* A Redis error ends store_quote with false; what earlier commands did stays.
\* The command itself may have been refused, or applied and its reply lost.
StoreError(p) ==
    /\ pc[p] \in Storing
    /\ faults < MaxFaults
    /\ faults' = faults + 1
    /\ Effect(p) \/ UNCHANGED <<redis, history>>
    /\ pc' = [pc EXCEPT ![p] = "book"]
    /\ stored' = [stored EXCEPT ![p] = FALSE]
    /\ UNCHANGED <<quote, waited, avCache>>

-----------------------------------------------------------------------------
\* Mutation of Return: the next fetch starts with the previous quote in hand.
ReturnKeepingQuote(p) ==
    /\ pc[p] = "book"
    /\ Obtain(p, quote[p], "idle")
    /\ UNCHANGED <<stored, avCache, redis, history, faults>>

\* fetch_symbol returns.
Return(p) ==
    /\ pc[p] = "book"
    /\ Obtain(p, NoQuote, "idle")
    /\ stored' = [stored EXCEPT ![p] = FALSE]
    /\ UNCHANGED <<avCache, redis, history, faults>>

\* The process dies and is started again: its client cache is gone.
Crash(p) ==
    /\ faults < MaxFaults
    /\ faults' = faults + 1
    /\ Obtain(p, NoQuote, "idle")
    /\ stored'  = [stored EXCEPT ![p] = FALSE]
    /\ avCache' = [avCache EXCEPT ![p] = NoQuote]
    /\ UNCHANGED <<redis, history>>

-----------------------------------------------------------------------------
\* One tick: everything gets older, and Redis deletes the key whose TTL ends.

Older(q) == IF q = NoQuote \/ q.age = AgeCap THEN q ELSE [q EXCEPT !.age = q.age + 1]

AfterTick(e) ==
    IF e = NoQuote \/ e.ttl = 1 THEN NoQuote
    ELSE [Older(e) EXCEPT !.ttl = IF e.ttl = NoTtl THEN NoTtl ELSE e.ttl - 1]

Tick ==
    /\ \A p \in Procs : pc[p] \in Holding => waited[p] < MaxLatency
    /\ waited'  = [p \in Procs |-> IF pc[p] \in Holding THEN waited[p] + 1 ELSE 0]
    /\ quote'   = [p \in Procs |-> Older(quote[p])]
    /\ avCache' = [p \in Procs |-> Older(avCache[p])]
    /\ redis'   = AfterTick(redis)
    /\ UNCHANGED <<pc, stored, history, faults>>

\* What a running process does of itself, and what goes wrong.
Progress(p) ==
    \/ ClientCacheHit(p) \/ FetchExternal(p) \/ FetchNothing(p)
    \/ StoreCommand(p) \/ Return(p)
Step(p)  == ReadHit(p) \/ ReadMiss(p) \/ Progress(p)
Fault(p) == ReadError(p) \/ StoreError(p) \/ Crash(p)

Next == Tick \/ \E p \in Procs : Step(p) \/ Fault(p)

\* A fetch that has begun goes on, and time passes; nobody has to begin one.
Fairness == WF_vars(Tick) /\ \A p \in Procs : WF_vars(Progress(p))

Spec == Init /\ [][Next]_vars /\ Fairness

-----------------------------------------------------------------------------
\* Every variable holds a value of its kind; a process holds a quote exactly
\* while fetch_symbol has one.
TypeOK ==
    /\ pc      \in [Procs -> Labels]
    /\ quote   \in [Procs -> Quotes \cup {NoQuote}]
    /\ stored  \in [Procs -> BOOLEAN]
    /\ waited  \in [Procs -> 0 .. MaxLatency]
    /\ avCache \in [Procs -> Quotes \cup {NoQuote}]
    /\ redis   \in Entries \cup {NoQuote}
    /\ history \in Nat
    /\ faults  \in 0 .. MaxFaults
    /\ \A p \in Procs : pc[p] \in Holding <=> quote[p] /= NoQuote

\* Two cache layers in series, with writers interleaving, and still no quote
\* that carries a TTL outlives StaleBound: HMSET of one process between HMSET
\* and EXPIRE of another must not let a TTL be put on an old quote.
TtlBoundsAge ==
    (redis /= NoQuote /\ redis.ttl /= NoTtl) => redis.age + redis.ttl <= StaleBound

\* README.md:28 says quote entries expire.  A key without a TTL exists only in
\* the window between HMSET and EXPIRE of some process, unless a fault hit.
NoTtlOnlyInFlight ==
    (redis /= NoQuote /\ redis.ttl = NoTtl /\ faults = 0)
        => \E p \in Procs : pc[p] = "expire"

\* No fetch works with a quote older than the two caches and the latency
\* allow, as long as no command failed and no process crashed.
ServedFresh ==
    faults = 0 =>
        \A p \in Procs : quote[p] /= NoQuote => quote[p].age <= StaleBound + MaxLatency

\* The history stays at HistoryMax (docs/redis-caching.md:119) but for the
\* processes between LPUSH and LTRIM, and one entry for each fault.
AtLtrim == {p \in Procs : pc[p] = "ltrim"}

HistoryBounded == history <= HistoryMax + Cardinality(AtLtrim) + faults

\* Two processes that missed together store in either order, so an older quote
\* may replace a newer one.  However they interleave, and whatever failed or
\* crashed before, the quote that steps back is one store_quote may write:
\* a client cache's freshest and the latency of the fetch, never more.
StepsBackBounded ==
    [][(redis /= NoQuote /\ redis' /= NoQuote /\ redis'.age > redis.age + 1)
         => redis'.age <= StoreBound]_vars

\* docs/redis-caching.md:19: reads do not keep a quote in Redis for ever; unless
\* a fault left it without a TTL, it expires or is replaced by one no older
\* than what store_quote writes.
EventuallyRenewed ==
    []<>(redis = NoQuote \/ redis.age <= ExpireBound \/ redis.ttl = NoTtl)

-----------------------------------------------------------------------------
\* docs/redis-caching.md:116 reports as repaired that "current quotes had no
\* TTL, so they could become permanently stale": outside a running
\* store_quote, a cached quote has a TTL.  A fault between HMSET and EXPIRE
\* refutes it, and the orphaned quote is served as a hit from then on.
CachedQuoteHasTtl ==
    (redis /= NoQuote /\ redis.ttl = NoTtl) => \E p \in Procs : pc[p] = "expire"

-----------------------------------------------------------------------------
\* The inductive invariant behind the safety properties: how old a quote may
\* be at each stage, in terms of how long its fetch has been waiting.

\* A process stores what the client cache or the API gave it.
StoringFresh ==
    \A p \in Procs : pc[p] \in Storing => quote[p].age <= ClientBound + waited[p]

\* What EXPIRE of p will find was written by p or, after p, by another.
ExpireFindsFresh ==
    redis /= NoQuote =>
        \A p \in Procs : pc[p] = "expire" => redis.age <= StoreBound + waited[p]

\* A process holding a quote got it no older than StaleBound.
HoldingFresh ==
    faults = 0 =>
        \A p \in Procs : pc[p] \in Holding => quote[p].age <= StaleBound + waited[p]

IndInv ==
    /\ TypeOK
    /\ StoringFresh /\ ExpireFindsFresh /\ HoldingFresh
    /\ TtlBoundsAge /\ NoTtlOnlyInFlight /\ HistoryBounded
=============================================================================

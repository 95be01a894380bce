-------------------------- MODULE FinCoreApp_proofs --------------------------
(* Proofs of the safety properties of FinCoreApp for every list of symbols,  *)
(* every set of answers and every bound.                                     *)
EXTENDS FinCoreApp, SequenceTheorems, TLAPS

-----------------------------------------------------------------------------
\* Facts about the operators the model is built from.

LEMMA ParsedQuote ==
    ASSUME NEW a \in Answers
    PROVE  ParseQuote(a) \in Quotes /\ ParseQuote(a) /= NoQuote
BY AnswersAssumption, YearsAssumption, NoQuoteAssumption
   DEF ParseQuote, Quotes, Undated

\* The levels of a book built from a quote lie on both sides of its price.
LEMMA BuiltBookUncrossed ==
    ASSUME NEW q \in Quotes
    PROVE  Uncrossed(BookFromQuote(q))
<1> DEFINE book == BookFromQuote(q)
<1>1. ASSUME NEW b \in DOMAIN book.bids, NEW a \in DOMAIN book.asks
      PROVE  b < a
  <2>1. PICK n \in 1 .. Depth : b = q.price - n
    BY <1>1 DEF BookFromQuote, FilledLevels
  <2>2. PICK m \in 1 .. Depth : a = q.price + m
    BY <1>1 DEF BookFromQuote, FilledLevels
  <2> QED  BY <2>1, <2>2, DepthAssumption DEF Quotes
<1> QED  BY <1>1 DEF Uncrossed

LEMMA EmptyBookUncrossed == Uncrossed(EmptyBook)
BY DEF Uncrossed, EmptyBook, NoLevels

\* Whatever update_order_book wrote of an uncrossed book over another one.
LEMMA WrittenBooksUncrossed ==
    ASSUME NEW old, NEW new, Uncrossed(old), Uncrossed(new),
           NEW book \in BookWrites(old, new)
    PROVE  Uncrossed(book)
<1>1. CASE book = old
  BY <1>1
<1>2. CASE book.bids = NoLevels \/ book.asks = NoLevels
  BY <1>2 DEF Uncrossed, NoLevels
<1>3. CASE \E a \in Written(new.asks) : book = [bids |-> new.bids, asks |-> a]
  <2>1. PICK a \in Written(new.asks) : book = [bids |-> new.bids, asks |-> a]
    BY <1>3
  <2>2. DOMAIN a \subseteq DOMAIN new.asks
    BY DEF Written, Restrict
  <2> QED  BY <2>1, <2>2 DEF Uncrossed
<1> QED  BY <1>1, <1>2, <1>3 DEF BookWrites

\* The plans of the commands are non-empty sequences of symbols.
LEMMA PlanOfOne ==
    ASSUME NEW s \in Symbols, NEW n \in Nat \ {0}
    PROVE  [i \in 1 .. n |-> s] \in Seq(Symbols) /\ [i \in 1 .. n |-> s] /= <<>>
<1> DEFINE plan == [i \in 1 .. n |-> s]
<1>1. plan \in Seq(Symbols)
  <2>1. plan \in [1 .. n -> Symbols]  OBVIOUS
  <2> QED  BY <2>1, SeqDef
<1>2. 1 \in DOMAIN plan  OBVIOUS
<1> QED  BY <1>1, <1>2

LEMMA PlanOfAll ==
    ASSUME NEW n \in Nat \ {0}
    PROVE  LET plan == [i \in 1 .. n * Len(SymbolList) |->
                          SymbolList[((i - 1) % Len(SymbolList)) + 1]]
           IN  plan \in Seq(Symbols) /\ plan /= <<>>
<1> DEFINE L == Len(SymbolList)
           plan == [i \in 1 .. n * L |-> SymbolList[((i - 1) % L) + 1]]
<1>1. L \in Nat \ {0} /\ \A j \in 1 .. L : SymbolList[j] \in Symbols
  BY SymbolsAssumption, EmptySeq, ElementOfSeq
<1> HIDE DEF L
<1>2. n * L \in Nat /\ n * L >= 1
  BY <1>1
<1>3. ASSUME NEW i \in 1 .. n * L  PROVE ((i - 1) % L) + 1 \in 1 .. L
  <2>1. i - 1 \in Int  BY <1>2
  <2>2. (i - 1) % L \in 0 .. (L - 1)  BY <2>1, <1>1
  <2> QED  BY <2>2, <1>1
<1>4. plan \in [1 .. n * L -> Symbols]
  BY <1>1, <1>3
<1>5. plan \in Seq(Symbols)
  BY <1>2, <1>4, SeqDef
<1>6. 1 \in DOMAIN plan
  BY <1>2
<1> QED  BY <1>5, <1>6 DEF L

-----------------------------------------------------------------------------
\* The statistics.

\* What fetch_symbol may hand to record: the stages of one fetch, in order.
Recordable(m, success) ==
    /\ m.hit \in BOOLEAN
    /\ m.api \in {"none", "cached", "external"}
    /\ m.quote \in {"none", "ok", "failed"} /\ m.book \in {"none", "ok", "failed"}
    /\ m.hit <=> m.api = "none"
    /\ m.hit => m.quote = "none"
    /\ (m.book /= "none") <=> (m.hit \/ m.quote /= "none")
    /\ success \in BOOLEAN
    /\ success => m.book = "ok" /\ (m.hit \/ m.quote = "ok")

LEMMA RecordedType ==
    ASSUME stats \in Counters, NEW m, NEW success
    PROVE  Recorded(m, success) \in Counters
<1>1. \A b : One(b) \in Nat
  BY DEF One
<1> QED  BY <1>1 DEF Recorded, Counters

LEMMA RecordedBalance ==
    ASSUME stats \in Counters, StatsBalance,
           NEW m, NEW success, Recordable(m, success), stats' = Recorded(m, success)
    PROVE  StatsBalance' /\ stats'.successes = stats.successes + One(success)
BY DEF Counters, StatsBalance, Recorded, Recordable, One

\* The ways a step treats the statistics.
LEMMA StatsKinds ==
    ASSUME [Next]_vars
    PROVE  \/ UNCHANGED stats
           \/ stats' = NoStats
           \/ NoAnswer \/ PersistThrows \/ PersistUnknown \/ Finish
BY DEF vars, Next, Starting, Fetching, Launch, ConnectRedis, OpenPostgres, UpsertSource,
       UpsertInstrument, PostgresDisabled, FetchOne, FetchAll, Begin, StatsReset, Stop,
       ReadHit, ReadMiss, ClientCacheHit, ExternalQuote, StoreQuote, StoreQuoteFails,
       UpdateBook, UpdateBookFails, PersistQuote, PersistSnapshot, Expire, PostgresLost,
       LateCommit, SessionEnds

\* What the four ends of a fetch hand to record.
LEMMA FetchEndsRecordable ==
    ASSUME IndInv, NoAnswer \/ PersistThrows \/ PersistUnknown \/ Finish
    PROVE  \/ \E m : Recordable(m, FALSE) /\ stats' = Recorded(m, FALSE)
           \/ /\ Finish
              /\ Recordable(metrics, Success(metrics))
              /\ stats' = Recorded(metrics, Success(metrics))
<1> USE DEF IndInv, MetricsShape, TypeOK, Holding, InFetch, Labels, EndFetch
<1>1. CASE NoAnswer
  <2> DEFINE m == [metrics EXCEPT !.api = "external"]
  <2>1. Recordable(m, FALSE) /\ stats' = Recorded(m, FALSE)
    BY <1>1 DEF NoAnswer, NoMetrics, Recordable
  <2> QED  BY <2>1
<1>2. CASE PersistThrows \/ PersistUnknown
  <2>1. Recordable(metrics, FALSE) /\ stats' = Recorded(metrics, FALSE)
    BY <1>2 DEF PersistThrows, PersistUnknown, Recordable
  <2> QED  BY <2>1
<1>3. CASE Finish
  <2>1. Recordable(metrics, Success(metrics)) /\ stats' = Recorded(metrics, Success(metrics))
    BY <1>3 DEF Finish, Success, Recordable
  <2> QED  BY <2>1, <1>3
<1> QED  BY <1>1, <1>2, <1>3

LEMMA StatsStep ==
    ASSUME IndInv, [Next]_vars
    PROVE  stats' \in Counters /\ StatsBalance'
<1>1. stats \in Counters /\ StatsBalance
  BY DEF IndInv, TypeOK
<1>2. CASE UNCHANGED stats
  BY <1>1, <1>2 DEF StatsBalance
<1>3. CASE stats' = NoStats
  BY <1>3 DEF NoStats, Counters, StatsBalance
<1>4. CASE NoAnswer \/ PersistThrows \/ PersistUnknown \/ Finish
  BY <1>1, <1>4, FetchEndsRecordable, RecordedBalance, RecordedType
<1> QED  BY <1>2, <1>3, <1>4, StatsKinds

-----------------------------------------------------------------------------
\* The rest of the type invariant.

\* The next symbols of a command.
LEMMA RestOfPlan ==
    ASSUME todo \in Seq(Symbols), todo /= <<>>
    PROVE  /\ Symbol \in Symbols
           /\ Tail(todo) \in Seq(Symbols) /\ <<>> \in Seq(Symbols)
           /\ Len(todo) \in Nat \ {0} /\ Len(Tail(todo)) = Len(todo) - 1 /\ Len(<<>>) = 0
BY HeadTailProperties, EmptySeq, LenProperties DEF Symbol

LEMMA EndFetchType ==
    ASSUME TypeOK, pc \in InFetch,
           NEW m, NEW success, NEW rest \in {Tail(todo), <<>>}, EndFetch(m, success, rest)
    PROVE  /\ pc' \in Labels
           /\ todo' \in Seq(Symbols) /\ (todo' /= <<>> <=> pc' \in InFetch)
           /\ quote' = NoQuote /\ pc' \notin Holding
           /\ metrics' = NoMetrics
           /\ ops' \in Nat /\ ops' + Len(todo') <= MaxOps
<1>1. todo \in Seq(Symbols) /\ todo /= <<>>
  BY DEF TypeOK
<1>2. /\ rest \in Seq(Symbols) /\ Len(rest) \in Nat /\ Len(rest) <= Len(todo) - 1
      /\ Len(todo) \in Nat
  <2>1. CASE rest = Tail(todo)  BY <1>1, <2>1, RestOfPlan
  <2>2. CASE rest = <<>>        BY <1>1, <2>2, RestOfPlan
  <2> QED  BY <2>1, <2>2
<1> QED  BY <1>2, BoundsAssumption DEF TypeOK, EndFetch, Labels, InFetch, Holding

LEMMA TypeStepStarting ==
    ASSUME IndInv, Starting \/ Launch \/ StatsReset \/ Stop  PROVE TypeOK'
<1> USE DEF TypeOK, Labels, InFetch, Holding, startup, memory, redis, catalog, tables
<1>0. TypeOK /\ stats' \in Counters
  BY StatsStep DEF IndInv, Next
<1>1. CASE Launch \/ StatsReset \/ PostgresDisabled
  BY <1>0, <1>1 DEF Launch, StatsReset, PostgresDisabled
<1>2. CASE ConnectRedis \/ OpenPostgres \/ UpsertSource
  <2>1. boot = 1 /\ Len(SymbolList) >= 1
    BY <1>2, SymbolsAssumption, EmptySeq
       DEF IndInv, StartupShape, ConnectRedis, OpenPostgres, UpsertSource
  <2> QED
    BY <1>0, <1>2, <2>1 DEF ConnectRedis, OpenPostgres, UpsertSource
<1>3. CASE UpsertInstrument
  <2>1. SymbolList[boot] \in Symbols
    BY <1>0, <1>3, SymbolsAssumption, ElementOfSeq, LenProperties DEF UpsertInstrument
  <2> QED  BY <1>0, <1>3, <2>1, SymbolsAssumption, LenProperties DEF UpsertInstrument
<1>4. CASE Stop
  <2>1. Len(todo) \in Nat /\ Len(<<>>) = 0 /\ <<>> \in Seq(Symbols)
    BY <1>0, EmptySeq, LenProperties
  <2>2. todo' = <<>> /\ quote' = NoQuote /\ pc' = "exited" /\ ops' = ops
    BY <1>4 DEF Stop
  <2>3. ops + Len(<<>>) <= MaxOps
    BY <1>0, <2>1, BoundsAssumption
  <2> QED  BY <1>0, <1>4, <2>1, <2>2, <2>3 DEF Stop, EmptyBook, NoMetrics
<1> QED  BY <1>1, <1>2, <1>3, <1>4 DEF Starting

LEMMA TypeStepBegin ==
    ASSUME IndInv, NEW plan \in Seq(Symbols), plan /= <<>>, Begin(plan)  PROVE TypeOK'
BY StatsStep, LenProperties
   DEF IndInv, TypeOK, Labels, InFetch, Holding, Begin, startup, memory, redis, catalog, tables

LEMMA TypeStepFetching ==
    ASSUME IndInv, Fetching  PROVE TypeOK'
<1> USE DEF TypeOK, Labels, InFetch, Holding, startup, memory, redis, catalog, tables
<1>1. TypeOK /\ stats' \in Counters
  BY StatsStep DEF IndInv, Next
<1>2. pc \in InFetch
  BY DEF Fetching, ReadHit, ReadMiss, ClientCacheHit, ExternalQuote, NoAnswer, StoreQuote,
         StoreQuoteFails, UpdateBook, UpdateBookFails, PersistQuote, PersistSnapshot,
         PersistThrows, PersistUnknown, Finish
<1>3. Symbol \in Symbols /\ todo \in Seq(Symbols) /\ todo /= <<>>
  BY <1>1, <1>2, RestOfPlan
<1>4. CASE ReadHit \/ ReadMiss \/ ClientCacheHit
  <2>1. redisQuote[Symbol] \in Quotes \cup {NoQuote} /\ avCache[Symbol] \in Quotes \cup {NoQuote}
    BY <1>1, <1>3
  <2>2. CASE ReadHit         BY <1>1, <2>1, <2>2 DEF ReadHit
  <2>3. CASE ReadMiss        BY <1>1, <2>3 DEF ReadMiss
  <2>4. CASE ClientCacheHit  BY <1>1, <2>1, <2>4 DEF ClientCacheHit
  <2> QED  BY <1>4, <2>2, <2>3, <2>4
<1>5. CASE ExternalQuote
  <2>1. PICK a \in Answers : /\ quote' = ParseQuote(a)
                             /\ avCache' = [avCache EXCEPT ![Symbol] = ParseQuote(a)]
    BY <1>5 DEF ExternalQuote
  <2>2. ParseQuote(a) \in Quotes /\ ParseQuote(a) /= NoQuote
    BY ParsedQuote
  <2>3. avCache' \in [Symbols -> Quotes \cup {NoQuote}]
    BY <1>1, <1>3, <2>1, <2>2
  <2> QED  BY <1>1, <1>5, <2>1, <2>2, <2>3 DEF ExternalQuote
<1>6. CASE StoreQuote \/ StoreQuoteFails
  <2>1. redisQuote' \in [Symbols -> Quotes \cup {NoQuote}]
    BY <1>1, <1>3, <1>6 DEF StoreQuote, StoreQuoteFails
  <2> QED  BY <1>1, <1>6, <2>1 DEF StoreQuote, StoreQuoteFails
<1>7. CASE UpdateBook \/ UpdateBookFails
  <2>1. DOMAIN books' = Symbols /\ DOMAIN redisBook' = Symbols /\ withData' \subseteq Symbols
    BY <1>1, <1>3, <1>7 DEF UpdateBook, UpdateBookFails, RebuildBook
  <2> QED  BY <1>1, <1>7, <2>1 DEF UpdateBook, UpdateBookFails, RebuildBook, AfterBook
<1>8. CASE PersistQuote \/ PersistSnapshot
  BY <1>1, <1>3, <1>8
     DEF PersistQuote, PersistSnapshot, InsertInto, QuoteRow, SnapshotRow
<1>9. CASE NoAnswer \/ PersistThrows \/ PersistUnknown \/ Finish
  <2>1. \E m, success : EndFetch(m, success, Tail(todo)) \/ EndFetch(m, success, <<>>)
    BY <1>9, Zenon DEF NoAnswer, PersistThrows, PersistUnknown, Finish
  <2>2. \A r \in pgQuotes' \cup pgSnapshots' \cup {l.row : l \in late'} : r.symbol \in Symbols
    <3>1. CASE PersistUnknown
      BY <1>1, <1>3, <3>1 DEF PersistUnknown, QuoteRow, SnapshotRow
    <3>2. CASE NoAnswer \/ PersistThrows \/ Finish
      BY <1>1, <3>2 DEF NoAnswer, PersistThrows, Finish
    <3> QED  BY <1>9, <3>1, <3>2
  <2>3. /\ UNCHANGED <<boot, announced, memory, redis, catalog>>
        /\ postgres' \in {"null", "open", "lost"}
    BY <1>1, <1>9 DEF NoAnswer, PersistThrows, PersistUnknown, Finish
  <2>4. /\ pc' \in Labels /\ pc' \notin {"source", "instruments"}
        /\ todo' \in Seq(Symbols) /\ (todo' /= <<>> <=> pc' \in InFetch)
        /\ quote' = NoQuote /\ pc' \notin Holding
        /\ metrics' = NoMetrics
        /\ ops' \in Nat /\ ops' + Len(todo') <= MaxOps
    BY ONLY <1>1, <1>2, <2>1, EndFetchType, BoundsAssumption DEF EndFetch
  <2> QED  BY <1>1, <2>2, <2>3, <2>4 DEF NoMetrics
<1> QED  BY <1>4, <1>5, <1>6, <1>7, <1>8, <1>9 DEF Fetching

LEMMA TypeStep ==
    ASSUME IndInv, [Next]_vars  PROVE TypeOK'
<1>1. CASE Starting \/ Launch \/ StatsReset \/ Stop
  BY <1>1, TypeStepStarting
<1>2. CASE \E n \in 1 .. MaxRounds : FetchAll(n) \/ \E s \in Symbols : FetchOne(s, n)
  <2>1. PICK n \in 1 .. MaxRounds : FetchAll(n) \/ \E s \in Symbols : FetchOne(s, n)
    BY <1>2
  <2>2. n \in Nat \ {0}
    BY BoundsAssumption
  <2>3. CASE FetchAll(n)
    BY <2>2, <2>3, PlanOfAll, TypeStepBegin DEF FetchAll
  <2>4. CASE \E s \in Symbols : FetchOne(s, n)
    BY <2>2, <2>4, PlanOfOne, TypeStepBegin DEF FetchOne
  <2> QED  BY <2>1, <2>3, <2>4
<1>3. CASE Fetching
  BY <1>3, TypeStepFetching
<1>4. CASE PostgresLost \/ UNCHANGED vars \/ \E s \in Symbols : Expire(s)
  <2>1. TypeOK
    BY DEF IndInv
  <2> QED
    BY <1>4, <2>1 DEF TypeOK, PostgresLost, Expire, vars, startup, memory, redis, catalog, tables
<1>5. CASE LateCommit \/ SessionEnds
  <2>1. TypeOK
    BY DEF IndInv
  <2>2. \A r \in pgQuotes' \cup pgSnapshots' \cup {l.row : l \in late'} : r.symbol \in Symbols
    BY <1>5, <2>1 DEF TypeOK, LateCommit, SessionEnds, InsertInto
  <2>3. UNCHANGED <<pc, startup, todo, quote, metrics, memory, stats, redis, catalog, ops>>
    BY <1>5 DEF LateCommit, SessionEnds
  <2> QED
    BY <2>1, <2>2, <2>3 DEF TypeOK, startup, memory, redis, catalog
<1> QED  BY <1>1, <1>2, <1>3, <1>4, <1>5 DEF Next

-----------------------------------------------------------------------------
\* The other conjuncts of the inductive invariant.  Each proof names the
\* steps that disturb the variables the conjunct is about.

LEMMA MetricsStep ==
    ASSUME IndInv, [Next]_vars  PROVE MetricsShape'
<1> USE DEF MetricsShape, Labels, InFetch, Holding
<1>1. TypeOK /\ MetricsShape
  BY DEF IndInv
<1>2. CASE Fetching
  <2>1. CASE ReadHit \/ ReadMiss \/ ClientCacheHit \/ ExternalQuote
    BY <1>1, <2>1 DEF TypeOK, ReadHit, ReadMiss, ClientCacheHit, ExternalQuote, NoMetrics
  <2>2. CASE StoreQuote \/ StoreQuoteFails
    BY <1>1, <2>2 DEF TypeOK, StoreQuote, StoreQuoteFails
  <2>3. CASE UpdateBook \/ UpdateBookFails
    BY <1>1, <2>3 DEF TypeOK, UpdateBook, UpdateBookFails, RebuildBook, AfterBook
  <2>4. CASE PersistQuote \/ PersistSnapshot
    BY <1>1, <2>4 DEF PersistQuote, PersistSnapshot
  <2>5. CASE NoAnswer \/ PersistThrows \/ PersistUnknown \/ Finish
    BY <2>5 DEF NoAnswer, PersistThrows, PersistUnknown, Finish, EndFetch
  <2> QED  BY <1>2, <2>1, <2>2, <2>3, <2>4, <2>5 DEF Fetching
<1>3. CASE UNCHANGED <<pc, metrics>>
  BY <1>1, <1>3
<1>4. CASE metrics' = NoMetrics /\ pc' = "exited"
  BY <1>4
<1>5. CASE UNCHANGED metrics /\ pc \notin Holding /\ pc' \notin Holding
  BY <1>1, <1>5
<1>6. Fetching \/ UNCHANGED <<pc, metrics>> \/ (metrics' = NoMetrics /\ pc' = "exited")
      \/ (UNCHANGED metrics /\ pc \notin Holding /\ pc' \notin Holding)
  BY DEF vars, Next, Starting, Launch, ConnectRedis, OpenPostgres, UpsertSource,
         UpsertInstrument, PostgresDisabled, FetchOne, FetchAll, Begin, StatsReset, Stop,
         Expire, PostgresLost, LateCommit, SessionEnds
<1> QED  BY <1>2, <1>3, <1>4, <1>5, <1>6

\* What a step of a fetch leaves alone of the startup.
LEMMA FetchingKeepsStartup ==
    ASSUME TypeOK, Fetching
    PROVE  /\ UNCHANGED <<boot, announced, sourceKnown, instruments>>
           /\ pc' \in InFetch \cup {"prompt"}
           /\ postgres' = "null" <=> postgres = "null"
BY DEF TypeOK, Fetching, ReadHit, ReadMiss, ClientCacheHit, ExternalQuote, NoAnswer, StoreQuote,
       StoreQuoteFails, UpdateBook, UpdateBookFails, RebuildBook, AfterBook, PersistQuote,
       PersistSnapshot, PersistThrows, PersistUnknown, Finish, EndFetch, InFetch, Labels,
       startup, catalog

LEMMA StartupStep ==
    ASSUME IndInv, [Next]_vars  PROVE StartupShape' /\ ConnectedMeansRegistered'
<1> USE DEF StartupShape, ConnectedMeansRegistered, startup, catalog
<1>1. TypeOK /\ StartupShape /\ ConnectedMeansRegistered
  BY DEF IndInv
<1>2. CASE Launch \/ ConnectRedis \/ OpenPostgres
  BY <1>1, <1>2 DEF TypeOK, Launch, ConnectRedis, OpenPostgres
<1>3. CASE UpsertSource \/ PostgresDisabled \/ Stop
  BY <1>1, <1>3 DEF TypeOK, UpsertSource, PostgresDisabled, Stop
<1>4. CASE UpsertInstrument
  <2>1. /\ sourceKnown /\ boot \in Nat \ {0} /\ boot <= Len(SymbolList)
        /\ boot' = boot + 1
        /\ \A i \in 1 .. boot : SymbolList[i] \in instruments'
    BY <1>1, <1>4 DEF TypeOK, UpsertInstrument
  <2>2. CASE boot < Len(SymbolList)
    BY <1>1, <1>4, <2>1, <2>2, SymbolsAssumption, LenProperties DEF UpsertInstrument
  <2>3. CASE boot = Len(SymbolList)
    <3>1. Symbols \subseteq instruments'
      BY <2>1, <2>3, SymbolsAssumption, LenProperties DEF Symbols, Range
    <3> QED  BY <1>1, <1>4, <2>1, <2>3, <3>1 DEF UpsertInstrument
  <2> QED  BY <1>4, <2>2, <2>3 DEF UpsertInstrument
<1>5. CASE Fetching
  BY <1>1, <1>5, FetchingKeepsStartup DEF InFetch, Labels
<1>6. CASE \E n \in 1 .. MaxRounds : FetchAll(n) \/ \E s \in Symbols : FetchOne(s, n)
  BY <1>1, <1>6 DEF FetchOne, FetchAll, Begin
<1>7. CASE StatsReset \/ PostgresLost \/ UNCHANGED vars \/ \E s \in Symbols : Expire(s)
  BY <1>1, <1>7 DEF StatsReset, PostgresLost, Expire, vars
<1>8. CASE LateCommit \/ SessionEnds
  BY <1>1, <1>8 DEF LateCommit, SessionEnds
<1> QED  BY <1>2, <1>3, <1>4, <1>5, <1>6, <1>7, <1>8 DEF Next, Starting

LEMMA BookStep ==
    ASSUME IndInv, [Next]_vars  PROVE RedisBookUncrossed'
<1>1. TypeOK /\ RedisBookUncrossed
  BY DEF IndInv
<1>2. CASE UpdateBook \/ UpdateBookFails
  <2>1. /\ todo \in Seq(Symbols) /\ todo /= <<>>
        /\ quote \in Quotes /\ DOMAIN redisBook = Symbols
    BY <1>1, <1>2 DEF TypeOK, UpdateBook, UpdateBookFails, InFetch, Labels, Holding
  <2>2. Uncrossed(BookFromQuote(quote)) /\ Uncrossed(redisBook[Symbol])
    BY <1>1, <2>1, BuiltBookUncrossed, RestOfPlan DEF RedisBookUncrossed
  <2>3. PICK b : Uncrossed(b) /\ redisBook' = [redisBook EXCEPT ![Symbol] = b]
    BY <1>2, <2>2, WrittenBooksUncrossed DEF UpdateBook, UpdateBookFails
  <2>4. ASSUME NEW s \in Symbols  PROVE Uncrossed(redisBook'[s])
    BY <1>1, <2>1, <2>3, Zenon DEF RedisBookUncrossed
  <2> QED  BY <2>4 DEF RedisBookUncrossed
<1>3. CASE UNCHANGED redisBook
  BY <1>1, <1>3 DEF RedisBookUncrossed, Uncrossed
<1>4. UpdateBook \/ UpdateBookFails \/ UNCHANGED redisBook
  BY DEF vars, redis, Next, Starting, Fetching, Launch, ConnectRedis, OpenPostgres, UpsertSource,
         UpsertInstrument, PostgresDisabled, FetchOne, FetchAll, Begin, StatsReset, Stop,
         ReadHit, ReadMiss, ClientCacheHit, ExternalQuote, StoreQuote, StoreQuoteFails,
         NoAnswer, PersistQuote, PersistSnapshot, PersistThrows, PersistUnknown, Finish,
         Expire, PostgresLost, LateCommit, SessionEnds
<1> QED  BY <1>2, <1>3, <1>4

\* The steps of a fetch that works with a quote, without its last one.
LEMMA FetchStepStoring ==
    ASSUME IndInv, StoreQuote \/ StoreQuoteFails \/ UpdateBook \/ UpdateBookFails
    PROVE  FetchShape'
<1> USE DEF FetchShape, Labels, InFetch, Holding, startup, memory, redis, catalog, tables
<1>1. TypeOK /\ MetricsShape /\ FetchShape /\ Symbol' = Symbol
  BY DEF IndInv, StoreQuote, StoreQuoteFails, UpdateBook, UpdateBookFails, Symbol
<1>2. Symbol \in Symbols
  BY <1>1, RestOfPlan DEF TypeOK, StoreQuote, StoreQuoteFails, UpdateBook, UpdateBookFails
<1>3. CASE StoreQuote
  BY <1>1, <1>2, <1>3 DEF TypeOK, MetricsShape, StoreQuote
<1>4. CASE StoreQuoteFails
  BY <1>1, <1>4 DEF TypeOK, MetricsShape, StoreQuoteFails
<1>5. CASE UpdateBook
  BY <1>1, <1>2, <1>5 DEF TypeOK, MetricsShape, UpdateBook, RebuildBook, AfterBook
<1>6. CASE UpdateBookFails
  BY <1>1, <1>6 DEF TypeOK, MetricsShape, UpdateBookFails, RebuildBook, AfterBook
<1> QED  BY <1>3, <1>4, <1>5, <1>6

LEMMA FetchStepPersisting ==
    ASSUME IndInv, PersistQuote \/ PersistSnapshot
    PROVE  FetchShape' /\ SnapshotFollowsQuote' /\ LateFollowsQuote'
<1> USE DEF Labels, InFetch, Holding, startup, memory, redis, catalog, tables
<1>1. TypeOK /\ FetchShape /\ SnapshotFollowsQuote /\ LateFollowsQuote
  BY DEF IndInv
<1>2. /\ Symbol' = Symbol /\ RowTime(quote)' = RowTime(quote)
      /\ UNCHANGED <<quote, metrics, withData, books, redisBook, redisQuote, postgres>>
  BY DEF PersistQuote, PersistSnapshot, Symbol, RowTime
<1>3. CASE PersistQuote
  <2>1. QuotePersisted'
    <3>1. \E r \in pgQuotes' : r.symbol = Symbol /\ r.timestamp = RowTime(quote)
      <4>1. \E r \in InsertInto(pgQuotes, QuoteRow) : SameKey(r, QuoteRow)
        <5>1. SameKey(QuoteRow, QuoteRow)  BY DEF SameKey
        <5> QED  BY <5>1 DEF InsertInto
      <4>2. QuoteRow.symbol = Symbol /\ QuoteRow.timestamp = RowTime(quote)
        BY DEF QuoteRow
      <4> QED  BY <1>3, <4>1, <4>2 DEF PersistQuote, SameKey
    <3> QED  BY <1>2, <3>1 DEF QuotePersisted
  <2>2. \A r \in pgQuotes : r \in pgQuotes'
    BY <1>3 DEF PersistQuote, InsertInto
  <2>3. FetchShape'
    BY <1>1, <1>2, <1>3, <2>1 DEF FetchShape, PersistQuote
  <2>4. SnapshotFollowsQuote' /\ LateFollowsQuote'
    BY <1>1, <1>3, <2>2 DEF SnapshotFollowsQuote, LateFollowsQuote, PersistQuote
  <2> QED  BY <2>3, <2>4
<1>4. CASE PersistSnapshot
  <2>1. QuotePersisted /\ QuotePersisted'
    BY <1>1, <1>2, <1>4 DEF FetchShape, PersistSnapshot, QuotePersisted
  <2>2. SnapshotPersisted'
    <3>1. \E r \in pgSnapshots' : r.symbol = Symbol /\ r.timestamp = ops
      <4>1. SnapshotRow \in pgSnapshots'
        BY <1>4 DEF PersistSnapshot
      <4>2. SnapshotRow.symbol = Symbol /\ SnapshotRow.timestamp = ops
        BY DEF SnapshotRow
      <4> QED  BY <4>1, <4>2
    <3> QED  BY <1>2, <1>4, <3>1 DEF SnapshotPersisted, PersistSnapshot
  <2>3. FetchShape'
    BY <1>1, <1>2, <1>4, <2>1, <2>2 DEF FetchShape, PersistSnapshot
  <2>4. SnapshotFollowsQuote'
    BY <1>1, <1>4, <2>1 DEF SnapshotFollowsQuote, PersistSnapshot, QuotePersisted, SnapshotRow
  <2>5. LateFollowsQuote'
    BY <1>1, <1>4 DEF LateFollowsQuote, PersistSnapshot
  <2> QED  BY <2>3, <2>4, <2>5
<1> QED  BY <1>3, <1>4

\* A COMMIT may be on its way after the client has given up, of a snapshot only
\* when the quote before it was answered.
LEMMA UnknownKeepsOrder ==
    ASSUME IndInv, PersistUnknown  PROVE SnapshotFollowsQuote' /\ LateFollowsQuote'
<1>1. FetchShape /\ SnapshotFollowsQuote /\ LateFollowsQuote
  BY DEF IndInv
<1>2. UNCHANGED <<pgQuotes, pgSnapshots>>
  BY DEF PersistUnknown
<1>3. ASSUME NEW l \in late', l.of = "snapshot"
      PROVE  \E t \in pgQuotes : t.symbol = l.row.symbol
  <2>1. CASE l \in late
    BY <1>1, <1>3, <2>1 DEF LateFollowsQuote
  <2>2. CASE l \notin late
    <3>1. pc = "persistSnapshot" /\ l = [of |-> "snapshot", row |-> SnapshotRow]
      BY <1>3, <2>2 DEF PersistUnknown
    <3>2. l.row.symbol = Symbol
      BY <3>1 DEF SnapshotRow
    <3> QED  BY <1>1, <3>1, <3>2 DEF FetchShape, QuotePersisted
  <2> QED  BY <2>1, <2>2
<1> QED  BY <1>1, <1>2, <1>3 DEF SnapshotFollowsQuote, LateFollowsQuote

\* A late COMMIT adds a row or finds it there; no row goes.
LEMMA LateStep ==
    ASSUME IndInv, LateCommit \/ SessionEnds
    PROVE  FetchShape' /\ SnapshotFollowsQuote' /\ LateFollowsQuote'
<1> USE DEF startup, memory, redis, catalog, tables
<1>1. TypeOK /\ FetchShape /\ SnapshotFollowsQuote /\ LateFollowsQuote
  BY DEF IndInv
<1>2. pgQuotes \subseteq pgQuotes' /\ pgSnapshots \subseteq pgSnapshots' /\ late' \subseteq late
  BY DEF LateCommit, SessionEnds, InsertInto
<1>3. /\ Symbol' = Symbol /\ RowTime(quote)' = RowTime(quote)
      /\ UNCHANGED <<pc, postgres, quote, metrics, withData, books, redisBook, redisQuote, ops>>
  BY DEF LateCommit, SessionEnds, Symbol, RowTime
<1>4. (QuotePersisted => QuotePersisted') /\ (SnapshotPersisted => SnapshotPersisted')
  BY <1>2, <1>3 DEF QuotePersisted, SnapshotPersisted
<1>5. FetchShape'
  BY <1>1, <1>3, <1>4 DEF FetchShape
<1>6. ASSUME NEW r \in pgSnapshots'  PROVE \E t \in pgQuotes : t.symbol = r.symbol
  <2>1. r \in pgSnapshots \/ \E l \in late : l.of = "snapshot" /\ r = l.row
    BY <1>6 DEF LateCommit, SessionEnds
  <2> QED  BY <1>1, <2>1 DEF SnapshotFollowsQuote, LateFollowsQuote
<1>7. SnapshotFollowsQuote'
  BY <1>2, <1>6 DEF SnapshotFollowsQuote
<1>8. LateFollowsQuote'
  BY <1>1, <1>2 DEF LateFollowsQuote
<1> QED  BY <1>5, <1>7, <1>8

LEMMA FetchStep ==
    ASSUME IndInv, [Next]_vars  PROVE FetchShape' /\ SnapshotFollowsQuote' /\ LateFollowsQuote'
<1> USE DEF Labels, InFetch, Holding, startup, memory, redis, catalog, tables
<1>1. TypeOK /\ MetricsShape /\ FetchShape /\ SnapshotFollowsQuote /\ LateFollowsQuote
  BY DEF IndInv
<1>2. CASE StoreQuote \/ StoreQuoteFails \/ UpdateBook \/ UpdateBookFails
  <2>1. SnapshotFollowsQuote' /\ LateFollowsQuote'
    BY <1>1, <1>2
       DEF SnapshotFollowsQuote, LateFollowsQuote, StoreQuote, StoreQuoteFails, UpdateBook, UpdateBookFails
  <2> QED  BY <1>2, <2>1, FetchStepStoring
<1>3. CASE PersistQuote \/ PersistSnapshot
  BY <1>3, FetchStepPersisting
<1>4. CASE ReadHit \/ ReadMiss \/ ClientCacheHit \/ ExternalQuote
  <2>1. SnapshotFollowsQuote' /\ LateFollowsQuote'
    BY <1>1, <1>4 DEF SnapshotFollowsQuote, LateFollowsQuote, ReadHit, ReadMiss, ClientCacheHit, ExternalQuote
  <2>2. pc' \in {"api", "store", "book"} /\ metrics'.book = "none"
    BY <1>1, <1>4 DEF TypeOK, MetricsShape, NoMetrics, ReadHit, ReadMiss, ClientCacheHit, ExternalQuote
  <2>3. pc' = "book" => redisQuote'[Symbol'] \in {quote', NoQuote}
    BY <1>4 DEF ReadHit, ReadMiss, ClientCacheHit, ExternalQuote, Symbol
  <2> QED  BY <2>1, <2>2, <2>3 DEF FetchShape
<1>5. CASE NoAnswer \/ PersistThrows \/ PersistUnknown \/ Finish
  <2>1. pc' \in {"prompt", "read"}
    BY <1>5 DEF NoAnswer, PersistThrows, PersistUnknown, Finish, EndFetch
  <2>2. SnapshotFollowsQuote' /\ LateFollowsQuote'
    BY <1>1, <1>5, UnknownKeepsOrder DEF SnapshotFollowsQuote, LateFollowsQuote, NoAnswer, PersistThrows, Finish
  <2> QED  BY <2>1, <2>2 DEF FetchShape
<1>6. CASE Launch \/ Starting \/ Stop \/ StatsReset
  <2>1. pc' \notin Holding
    BY <1>1, <1>6
       DEF Launch, Starting, Stop, StatsReset, ConnectRedis, OpenPostgres, UpsertSource,
           UpsertInstrument, PostgresDisabled
  <2>2. UNCHANGED tables
    BY <1>6
       DEF Launch, Starting, Stop, StatsReset, ConnectRedis, OpenPostgres, UpsertSource,
           UpsertInstrument, PostgresDisabled
  <2> QED  BY <1>1, <2>1, <2>2 DEF FetchShape, SnapshotFollowsQuote, LateFollowsQuote
<1>7. CASE \E n \in 1 .. MaxRounds : FetchAll(n) \/ \E s \in Symbols : FetchOne(s, n)
  BY <1>1, <1>7 DEF FetchOne, FetchAll, Begin, FetchShape, SnapshotFollowsQuote, LateFollowsQuote
<1>8. CASE \E s \in Symbols : Expire(s)
  <2>1. PICK s \in Symbols : Expire(s)
    BY <1>8
  <2>2. pc \in Holding => redisQuote'[Symbol] \in {redisQuote[Symbol], NoQuote}
    <3>1. pc \in Holding => Symbol \in Symbols
      BY <1>1, RestOfPlan DEF TypeOK
    <3> QED  BY <1>1, <2>1, <3>1 DEF TypeOK, Expire
  <2>3. /\ Symbol' = Symbol
        /\ QuotePersisted' <=> QuotePersisted
        /\ SnapshotPersisted' <=> SnapshotPersisted
    BY <2>1 DEF Expire, Symbol, QuotePersisted, SnapshotPersisted, RowTime
  <2> QED  BY <1>1, <2>1, <2>2, <2>3 DEF Expire, FetchShape, SnapshotFollowsQuote, LateFollowsQuote
<1>9. CASE PostgresLost \/ UNCHANGED vars
  BY <1>1, <1>9
     DEF vars, PostgresLost, FetchShape, SnapshotFollowsQuote, LateFollowsQuote, Symbol, QuotePersisted,
         SnapshotPersisted, RowTime
<1>10. CASE LateCommit \/ SessionEnds
  BY <1>10, LateStep
<1> QED  BY <1>2, <1>3, <1>4, <1>5, <1>6, <1>7, <1>8, <1>9, <1>10 DEF Next, Fetching

-----------------------------------------------------------------------------
LEMMA InitInv == Init => IndInv
<1> SUFFICES ASSUME Init  PROVE IndInv
  OBVIOUS
<1> USE DEF Init, Labels, InFetch, Holding
<1>1. TypeOK
  BY EmptySeq, BoundsAssumption DEF TypeOK, NoMetrics, NoStats, Counters
<1>2. MetricsShape /\ StartupShape /\ ConnectedMeansRegistered
  BY DEF MetricsShape, StartupShape, ConnectedMeansRegistered
<1>3. StatsBalance
  BY DEF StatsBalance, NoStats
<1>4. FetchShape /\ SnapshotFollowsQuote /\ LateFollowsQuote
  BY DEF FetchShape, SnapshotFollowsQuote, LateFollowsQuote
<1>5. RedisBookUncrossed
  BY EmptyBookUncrossed DEF RedisBookUncrossed
<1> QED  BY <1>1, <1>2, <1>3, <1>4, <1>5 DEF IndInv

LEMMA StepInv == IndInv /\ [Next]_vars => IndInv'
<1> SUFFICES ASSUME IndInv, [Next]_vars  PROVE IndInv'
  OBVIOUS
<1> QED
  BY TypeStep, MetricsStep, StatsStep, StartupStep, FetchStep, BookStep DEF IndInv

\* The inductive invariant holds in every reachable state.
THEOREM Invariance == Spec => []IndInv
<1> QED  BY InitInv, StepInv, PTL DEF Spec

\* Every variable holds a value of its kind, for any symbols, answers and
\* number of fetches.
THEOREM TypeCorrect == Spec => []TypeOK
<1>1. IndInv => TypeOK  BY DEF IndInv
<1> QED  BY <1>1, Invariance, PTL

\* SessionStats adds up after any failures at any stage of fetch_symbol.
THEOREM StatsBalanceAlways == Spec => []StatsBalance
<1>1. IndInv => StatsBalance  BY DEF IndInv
<1> QED  BY <1>1, Invariance, PTL

\* persist_snapshot never stores a snapshot of a symbol without a quote.
THEOREM SnapshotFollowsQuoteAlways == Spec => []SnapshotFollowsQuote
<1>1. IndInv => SnapshotFollowsQuote  BY DEF IndInv
<1> QED  BY <1>1, Invariance, PTL

\* main prints [connected] only when every symbol is registered.
THEOREM ConnectedMeansRegisteredAlways == Spec => []ConnectedMeansRegistered
<1>1. IndInv => ConnectedMeansRegistered  BY DEF IndInv
<1> QED  BY <1>1, Invariance, PTL

\* Wherever update_order_book stops, the book in Redis is not crossed.
THEOREM RedisBookUncrossedAlways == Spec => []RedisBookUncrossed
<1>1. IndInv => RedisBookUncrossed  BY DEF IndInv
<1> QED  BY <1>1, Invariance, PTL

\* Only the end of a fetch that succeeded adds to the successes.
LEMMA SuccessSteps ==
    ASSUME IndInv, Next, stats'.successes = stats.successes + 1
    PROVE  Finish /\ Success(metrics)
<1>1. stats \in Counters
  BY DEF IndInv, TypeOK
<1>2. stats' /= stats
  BY <1>1 DEF Counters
<1>3. stats' /= NoStats
  BY <1>1 DEF Counters, NoStats
<1>4. NoAnswer \/ PersistThrows \/ PersistUnknown \/ Finish
  BY <1>2, <1>3, StatsKinds
<1>5. CASE \E m : Recordable(m, FALSE) /\ stats' = Recorded(m, FALSE)
  <2>1. stats'.successes = stats.successes + 0
    BY <1>5 DEF Recorded, One
  <2> QED  BY <1>1, <2>1 DEF Counters
<1>6. CASE Finish /\ ~ Success(metrics) /\ stats' = Recorded(metrics, Success(metrics))
  <2>1. stats'.successes = stats.successes + 0
    BY <1>6 DEF Recorded, One
  <2> QED  BY <1>1, <2>1 DEF Counters
<1> QED  BY <1>4, <1>5, <1>6, FetchEndsRecordable

\* A fetch counted as a success has left its quote and its book in Redis and
\* its rows in PostgreSQL.
THEOREM SuccessMeansStoredAlways == Spec => SuccessMeansStored
<1>1. ASSUME IndInv, [Next]_vars
      PROVE  [stats'.successes = stats.successes + 1 =>
               /\ Symbol \in withData' /\ redisBook'[Symbol] = books'[Symbol]
               /\ redisQuote'[Symbol] \in {quote, NoQuote}
               /\ postgres' /= "null" =>
                    /\ \E r \in pgQuotes' : r.symbol = Symbol /\ r.timestamp = RowTime(quote)
                    /\ \E r \in pgSnapshots' : r.symbol = Symbol /\ r.timestamp = ops]_vars
  <2>1. CASE UNCHANGED vars
    BY <2>1
  <2>2. CASE Next /\ stats'.successes = stats.successes + 1
    <3>1. Finish /\ Success(metrics) /\ FetchShape
      BY <1>1, <2>2, SuccessSteps DEF IndInv
    <3>2. UNCHANGED <<withData, books, redisBook, redisQuote, postgres, pgQuotes, pgSnapshots>>
      BY <3>1 DEF Finish, startup, memory, redis, tables
    <3>3. /\ Symbol \in withData /\ redisBook[Symbol] = books[Symbol]
          /\ redisQuote[Symbol] \in {quote, NoQuote}
          /\ postgres /= "null" => QuotePersisted /\ SnapshotPersisted
      BY <3>1 DEF Finish, Success, FetchShape, Holding, InFetch, Labels
    <3> QED  BY <3>2, <3>3 DEF QuotePersisted, SnapshotPersisted
  <2>3. CASE stats'.successes /= stats.successes + 1
    BY <2>3
  <2> QED  BY <1>1, <2>1, <2>2, <2>3
<1> QED  BY <1>1, Invariance, PTL DEF Spec, SuccessMeansStored

\* How a step treats the symbols a command has still to fetch.
LEMMA PlanKinds ==
    ASSUME [Next]_vars
    PROVE  \/ UNCHANGED todo
           \/ pc = "prompt"
           \/ pc' = "exited"
           \/ pc \in InFetch /\ todo' = Tail(todo)
           \/ pc \in {"persistQuote", "persistSnapshot"}
BY DEF vars, Next, Starting, Fetching, Launch, ConnectRedis, OpenPostgres, UpsertSource,
       UpsertInstrument, PostgresDisabled, FetchOne, FetchAll, Begin, StatsReset, Stop,
       ReadHit, ReadMiss, ClientCacheHit, ExternalQuote, StoreQuote, StoreQuoteFails,
       UpdateBook, UpdateBookFails, PersistQuote, PersistSnapshot, PersistThrows,
       PersistUnknown, NoAnswer, Finish, EndFetch, Expire, PostgresLost, LateCommit, SessionEnds,
       InFetch, Labels

\* Only an exception from PostgreSQL reaches run past the symbols left.
THEOREM OnlyPostgresCutsShortAlways == Spec => OnlyPostgresCutsShort
<1>1. ASSUME IndInv, [Next]_vars
      PROVE  [Len(todo') < Len(todo) - 1 => postgres /= "null" \/ pc' = "exited"]_vars
  <2>1. /\ todo \in Seq(Symbols) /\ todo' \in Seq(Symbols)
        /\ Len(todo) \in Nat /\ Len(todo') \in Nat
    BY <1>1, TypeStep, LenProperties DEF IndInv, TypeOK
  <2>2. CASE UNCHANGED todo
    BY <2>1, <2>2
  <2>3. CASE pc = "prompt"
    <3>1. Len(todo) = 0
      BY <1>1, <2>3, EmptySeq DEF IndInv, TypeOK, InFetch, Labels
    <3> QED  BY <2>1, <3>1
  <2>4. CASE pc \in InFetch /\ todo' = Tail(todo)
    <3>1. Len(todo') = Len(todo) - 1
      BY <1>1, <2>1, <2>4, RestOfPlan DEF IndInv, TypeOK
    <3> QED  BY <2>1, <3>1
  <2>5. CASE pc \in {"persistQuote", "persistSnapshot"}
    BY <1>1, <2>5 DEF IndInv, FetchShape
  <2> QED  BY <1>1, <2>2, <2>3, <2>4, <2>5, PlanKinds
<1> QED  BY <1>1, Invariance, PTL DEF Spec, OnlyPostgresCutsShort

-----------------------------------------------------------------------------
\* What a stage of a fetch does: it leads to a later one, or it is the last.
LEMMA StageKinds ==
    ASSUME TypeOK, Fetching
    PROVE  /\ pc \in InFetch
           /\ \/ todo' = todo /\ pc' \in InFetch /\ Stage[pc'] < Stage[pc]
              \/ todo' = <<>>
              \/ todo' = Tail(todo) /\ pc' = "read"
<1> USE DEF InFetch, Labels, Stage
<1>1. CASE ReadHit \/ ReadMiss
  BY <1>1 DEF ReadHit, ReadMiss
<1>2. CASE ClientCacheHit \/ ExternalQuote \/ StoreQuote \/ StoreQuoteFails
  BY <1>2 DEF ClientCacheHit, ExternalQuote, StoreQuote, StoreQuoteFails
<1>3. CASE UpdateBook \/ UpdateBookFails
  BY <1>3 DEF UpdateBook, UpdateBookFails, RebuildBook, AfterBook
<1>4. CASE PersistQuote \/ PersistSnapshot
  BY <1>4 DEF PersistQuote, PersistSnapshot
<1>5. CASE NoAnswer \/ PersistThrows \/ PersistUnknown \/ Finish
  BY <1>5 DEF NoAnswer, PersistThrows, PersistUnknown, Finish, EndFetch
<1> QED  BY <1>1, <1>2, <1>3, <1>4, <1>5 DEF Fetching

\* What every other step does while a command runs.
LEMMA OutsideFetch ==
    ASSUME TypeOK, [Next]_vars, todo /= <<>>
    PROVE  Fetching \/ <<pc, todo>>' = <<pc, todo>> \/ todo' = <<>>
<1>1. pc \in InFetch
  BY DEF TypeOK
<1> QED
  BY <1>1
     DEF vars, Next, Starting, Launch, ConnectRedis, OpenPostgres, UpsertSource, UpsertInstrument,
         PostgresDisabled, FetchOne, FetchAll, Begin, StatsReset, Stop, Expire, PostgresLost,
         LateCommit, SessionEnds, InFetch, Labels

LEMMA RemainingBounds ==
    ASSUME todo \in Seq(Symbols), todo /= <<>>, pc \in InFetch
    PROVE  /\ Remaining \in Int /\ Remaining > 7 * (Len(todo) - 1)
           /\ Remaining = 7 * (Len(todo) - 1) + Stage[pc] /\ Stage[pc] \in 1 .. 7
           /\ Len(todo) \in Nat \ {0}
<1>1. Len(todo) \in Nat \ {0}
  BY RestOfPlan
<1>2. Stage[pc] \in 1 .. 7
  BY DEF Stage, InFetch, Labels
<1>3. Remaining = 7 * (Len(todo) - 1) + Stage[pc]
  BY DEF Remaining
<1>4. ASSUME NEW n \in Nat \ {0}, NEW k \in 1 .. 7
      PROVE  7 * (n - 1) + k \in Int /\ 7 * (n - 1) + k > 7 * (n - 1)
  BY <1>4
<1> QED  BY <1>1, <1>2, <1>3, <1>4

\* A fetch goes forward only, through at most seven stages, and a command from one
\* of its symbols to the next: the safety half of CommandsReturn.
THEOREM CommandAdvancesAlways == Spec => CommandAdvances
<1>1. ASSUME IndInv, [Next]_vars
      PROVE  [todo /= <<>> => <<pc, todo>>' = <<pc, todo>> \/ Remaining' < Remaining]_vars
  <2> SUFFICES ASSUME todo /= <<>>, <<pc, todo>>' /= <<pc, todo>>
               PROVE  Remaining' < Remaining
    OBVIOUS
  <2>1. TypeOK /\ todo \in Seq(Symbols) /\ pc \in InFetch
    BY <1>1 DEF IndInv, TypeOK
  <2>2. /\ Remaining \in Int /\ Remaining > 7 * (Len(todo) - 1) /\ Len(todo) \in Nat \ {0}
        /\ Remaining = 7 * (Len(todo) - 1) + Stage[pc] /\ Stage[pc] \in 1 .. 7
        /\ Len(Tail(todo)) = Len(todo) - 1
    BY <2>1, RemainingBounds, RestOfPlan
  <2>3. CASE todo' = <<>>
    BY <2>2, <2>3 DEF Remaining
  <2>4. CASE todo' = todo /\ pc' \in InFetch /\ Stage[pc'] < Stage[pc]
    <3>1. Remaining' = 7 * (Len(todo) - 1) + Stage[pc']
      BY <2>4 DEF Remaining, Stage
    <3>2. Stage[pc'] \in 1 .. 7
      BY <2>4 DEF Stage, InFetch, Labels
    <3>3. ASSUME NEW n \in Nat \ {0}, NEW i \in 1 .. 7, NEW j \in 1 .. 7, i < j
          PROVE  7 * (n - 1) + i < 7 * (n - 1) + j
      BY <3>3
    <3> QED  BY <2>2, <2>4, <3>1, <3>2, <3>3
  <2>5. CASE todo' = Tail(todo) /\ pc' = "read"
    <3>1. Remaining' = IF Tail(todo) = <<>> THEN 0 ELSE 7 * (Len(Tail(todo)) - 1) + 7
      BY <2>5 DEF Remaining, Stage
    <3> QED  BY <2>2, <3>1
  <2> QED  BY <1>1, <2>1, <2>3, <2>4, <2>5, OutsideFetch, StageKinds
<1> QED  BY <1>1, Invariance, PTL DEF Spec, CommandAdvances
=============================================================================

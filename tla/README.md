# FinCore: TLA+ models, model checks and proofs

FinCore fetches stock quotes from Alpha Vantage, caches them in Redis, derives
an order book from each quote, writes quote and book snapshot to PostgreSQL and
keeps session statistics; a second, one-shot command line works on PostgreSQL
alone. This directory models both. Paths below are relative to the root of the
repository.

## Inventory

| Part | State | Operations | Interacts through |
| --- | --- | --- | --- |
| Startup, `src/core/main.cpp` | the clients it has built | Redis (mandatory), repository, upserts of source and instruments | constructs everything; exceptions decide what the CLI gets |
| CLI and fetch pipeline, `src/cli/fincore_cli.cpp` | `books_`, `books_with_data_`, `stats_`, `running_` | `fetch`, `watch`, `poll`, `stats reset`, `exit`, and printing commands | `CliServices`, one synchronous call after the other |
| Alpha Vantage client, `src/api/alpha_vantage_client.cpp` | `cache_` with `fetched_at`, `last_was_cached_` | `get_quote`, `get_quote_fresh`, `parse_quote` | HTTP; called on a Redis miss |
| Redis client, `src/storage/redis_client.cpp` | none; the keys `quote:S`, `quote_history:S`, `order_book:S:*` | `get_quote`, `store_quote`, `update_order_book`, `store_tick` (no caller) | several Redis commands per call, each on its own |
| Order book, `src/core/order_book.cpp` | `bids_`, `asks_` | `set_*`, `replace_*`, `clear`, snapshot | owned by the CLI |
| Session statistics, `src/cli/process_metrics.cpp` | counters, latency samples | `record`, `reset`, printing | called once per fetch, also from the catch block |
| Repository and connection, `src/storage/persistence/postgres/` | one connection, one transaction at a time | upserts, four `insert_*`, `latest_quote` | SQL; `ON CONFLICT DO NOTHING`; never reconnects |
| Domain, `src/domain/` | none | `validate`, `Decimal` | called before the database is |
| One-shot CLI, `run_postgres_cli` in `src/core/main.cpp`, `src/cli/postgres_cli.cpp` | none | connect, parse, one repository call, exit code | the repository port; many processes on one database |

`PROJECT.json` lists each part with what of it is modelled. A process is
single-threaded. What makes it hard lies between its calls: other processes on
the same Redis and PostgreSQL, TTLs that run out, commands that are separate
though they belong together (`HMSET`/`EXPIRE`, `LPUSH`/`LTRIM`, `DEL`/`HSET`),
a connection that breaks at any point (also while `COMMIT` is answered), and
exceptions that cross a batch.

What makes the parts correct:

- cache: a quote does not outlive its TTLs, whoever interleaves; the history
  stays bounded; reads do not keep a quote alive;
- inserts: a batch is applied once and as a whole or not at all, the summary
  counts what was added, no call leaves a transaction open, every call ends;
- pipeline: a success means the same in all four places (memory, the two Redis
  structures, PostgreSQL), the statistics add up whatever failed, one symbol's
  failure does not become another's, commands return;
- book: a failed call does not leave half a side; what a lone process has in the
  two hashes does not cross, at no moment and wherever an update stops (a reader
  that fetches the hashes one after the other may still combine two books, as
  `docs/architecture.md:60-61` says); and no update leaves levels of a fetch that
  was over before it;
- one-shot commands: repeating one is safe wherever the row has a key, what was
  reported as stored is found afterwards, and a number or a timestamp is stored
  as it was typed or refused;
- startup: what it announces is what the CLI works with.

## Modules

| Module | Models | State and actions in terms of the code |
| --- | --- | --- |
| `QuoteCache` | the quote keys of one symbol, several processes | `redis` is the hash with its TTL, `history` the list's length, `avCache` each client's entry, `quote` the local of `fetch_symbol`; `StoreCommand` sends the next of the four commands of `store_quote`, `StoreError` is its catch block, `Tick` is time and expiry |
| `BatchData`, `AtomicBatch` | what an insert promises | a batch is submitted, applied at one instant or not at all, and reported; a batch reported as failed may be in `limbo` and land later |
| `PgRepository` | the protocol that keeps the promise | `pc` follows `insert_*` through `BEGIN`, the row loop, `COMMIT` and the destructor's `ROLLBACK`; `session`, `sbatch`, `held` are the server's side of the transaction, `conn` is `PQstatus` |
| `BookLevels`, `OrderBook` | the order book | a side is a function from prices to volumes; one action per mutation, `thrown` tells whether it threw; `BookWrites` is what `update_order_book` can leave between two books |
| `FinCoreApp` | `main`, the command loop, `fetch_symbol`, the statistics | `pc` is the next service call; `todo` the symbols the command has still to fetch; `redisQuote`, `redisBook`, `pgQuotes`, `pgSnapshots`, `sourceKnown`, `instruments` are what outlives the process; `late` holds the rows whose `COMMIT` may still reach the server; `EndFetch` is `SessionStats::record` with the return or the throw |
| `RedisBook` | the book of one symbol in Redis, several processes | `redisBook` is the two hashes, `redisStamp` the timestamp key; `DelBids`, `DelAsks`, `HsetLevel`, `SetStamp` are the commands of `update_order_book`, `UpdateError` its catch block, `todo` the rest of its two loops; `overlap` and `torn` remember whose fetches ran beside this one, `before` the book a lone fetch found |
| `PostgresCli` | one-shot commands in several shells | a command is a run of the program, from `Send` (arguments read and validated) over `Apply`, `Refused` or `Read` at the server to `Answer`; the ends before anything is sent are `Help`, `BadEnvironment`, `ConnectFails`, `Reject`; `Unanswered` is a kill or a broken connection, with the `COMMIT` perhaps in `limbo`; `Valid` is `domain::validate`, `Checks` and `Referenced` are `migration/schema.sql` |
| `Decimal` | `from_string`, `to_string` | the loops of `from_string` are the actions, its locals the variables, a character is what the step picks |
| `Timestamp` | `parse_timestamp`, `format_timestamp` | one step per argument; `Wrap`, `FromTimeT`, `ToTimeT` are the arithmetic of `system_clock`, `Timegm` the C library's |
| `MC*` | instances for TLC; `MCPostgresCli` explores `PostgresCli` and `Timestamp` one at a time, as they share no state, `MCAppTwoSymbols` so `FinCoreApp` and `Decimal`, and `MCRedisBook` so `RedisBook` and `OrderBook` | |
| `*_proofs` | theorems | |

The four `insert_*` differ in columns and conflict keys only and are one
operation of `PgRepository`; a tick without a `trade_id` is a row with `NoKey`.
The modules fit together where one takes for a single step what another
takes apart:

- `AtomicBatch` is the promise of an insert. `PgRepository` keeps it statement
  by statement (`KeepsPromise` there), and `PostgresCli`, which takes a
  transaction for one step, keeps it run by run (`KeepsPromise` there, by its own
  refinement mapping): a run of the program is a batch of one row, `Apply` and
  `Answer` its commit and its exit code, a killed run a call without an answer,
  `limbo` the `COMMIT` it left behind.
- `FinCoreApp` takes single-row inserts for one step on the same ground: a
  `PersistQuote` step is an applied batch, `PersistUnknown` a batch in limbo,
  and `LateCommit` and `SessionEnds` are its landing or loss, possibly while a
  later fetch or another start of the program runs.
- `FinCoreApp` has one process and takes `update_order_book` for one step, with
  `BookWrites` for all it can leave. `RedisBook` takes that call apart, between
  processes, and `AloneIsBookWrites` shows that an update nobody overlapped
  leaves, at every moment, a book of that set.

`Timestamp` is what stands between the arguments of a command and the times
`PostgresCli` compares; `Decimal` does so for its numbers, and for those of the
rows `FinCoreApp` builds from a quote.

### Abstractions

- Time in `QuoteCache` is counted in ticks and quotes carry ages, capped at
  `AgeCap` above every age that is compared. In `FinCoreApp` a TTL may run out
  at any time and a client cache entry may be young or old at any time.
- A quote is what later stages judge: price in cents (the step of
  `populate_book_from_quote`), volume, how `high` and `low` compare, and the
  stored time. `parse_quote` keeps only the year of the trading day, so the
  time is the year; a quote without a date is stored under the present time,
  `ops`.
- A failed Redis call may have done nothing, part or all of its work:
  `StoreError`, `StoreQuoteFails` and `BookWrites` range over the prefixes.
- The PostgreSQL server is external: uncommitted rows are invisible, an insert
  waits for the transaction that holds its key, a circle of waiting transactions,
  of any length, ends with one statement refused, a session whose client is gone is rolled back unless its
  `COMMIT` was on the way.
- In `RedisBook` the client cache is not told apart from the API, and a TTL may
  run out at any time: how old quotes get is the subject of `QuoteCache`.
- In `PostgresCli` a text is empty, blank or neither; the syntax and the length
  of identifiers, the same in program and schema, are one condition, `formed`;
  a command that cannot be read is a `usage` command. Of metadata only the
  existence is kept.
- In `Timestamp` a day has `DaySeconds` seconds and a second `SecondTicks` ticks;
  years, months and days are real. The multiplication in `from_time_t` that
  overflows for far years is undefined in C++; `Wrap` is what GCC makes of it
  (checked with GCC 12 from `-O0` to `-O3`: all far years are refused). A
  compiler that uses the undefinedness to cancel the multiplication against the
  division in `to_time_t` would break `InstantExact`.
- Commands that print, and lines refused before any service is called, change
  no state and have no action. Formatting, latency samples and process usage
  are left out.

## Runs

| Run | Shows |
| --- | --- |
| `quote_cache_faults` | two processes, two faults: how stale a quote gets, how far the cache steps back, how long the history gets, and that a quote keeps being expired or renewed |
| `quote_cache_no_ttl` | **violation**: an interrupted `store_quote` leaves a quote that never expires |
| `pg_repository` | refinement of `AtomicBatch`, unique keys, no open transaction; every call ends, with lock cycles and broken connections |
| `app_strange_quotes` | statistics, what a success means, order of the two tables, no crossed book in Redis however `update_order_book` ends |
| `app_two_symbols` | what `[connected]` means, that only PostgreSQL cuts a command short, that a fetch only goes forward, and that startup and commands end; and exact numbers |
| `app_disabled_postgres` | **violation**: a PostgreSQL reported as disabled is used |
| `app_poll_aborts` | **violation**: an error at one symbol ends the cycle |
| `app_year_key` | **violation**: a successful fetch whose quote is not in the history |
| `redis_book` | two processes rewrite one book: whose levels stay, and that fetches of one quote leave it whole; an update nobody overlapped is a step of `FinCoreApp`; and the `OrderBook` class: failed replacements, zero volumes, crossed books |
| `postgres_cli` | repeated, killed and unanswered commands: one inserter per key, how many ticks without `trade_id`, `latest-quote` never goes back, which constraints a row the program accepts can violate, refinement of `AtomicBatch`; and exact instants |
| `cli_calendar_dates` | **violation**: 30 February is accepted as 2 March |
| `cli_timestamps` | **violation**: a timestamp before 1970 with a fraction is refused |

Each property of a passing run is broken by a plausible bug in the code it is
about; the operators commented "Mutation of" next to the definitions are those
bugs, and `PROJECT.json` pairs them with the properties.

### Bounds

- `QuoteCache`: two processes are enough for every pair of interleaved
  commands; a client TTL of 2, a Redis TTL of 3 and a latency of 1 tick let
  all ages up to `StaleBound` occur; `HistoryMax` 2 is reached and exceeded.
  `MaxFaults` bounds failed commands and crashes together.
- `PgRepository`: two clients, batches of two rows with a key twice in one
  batch, keys shared between clients in both orders, an unkeyed row, an
  unregistered instrument and an invalid row; two faults reach the late
  `COMMIT` followed by another error. `MaxLoose` stops new batches once that
  many unkeyed rows are stored, since those accumulate without limit.
- `FinCoreApp`: `MaxOps` 2 fetches, with any number of restarts before, between
  and within them, which is what a cache hit after an interrupted fetch needs;
  `Depth` is 1, so that a side is whole or missing; parts of deeper sides are left
  to the theorems. `AppStrange` has
  one answer for each way the stores disagree; `AppTwoSymbols` uses one,
  which Redis stores but never serves again, so that two symbols and their
  restarts stay small: cache hits are not in that run. `AppStrange` has them, and
  the theorems of the properties of `app_two_symbols` cover them for all but
  `CommandsReturn`.
- `OrderBook`: prices -1 to 2, two volumes and zero, all argument maps.
- `RedisBook`: two processes, books one level deep on each side, two prices of
  which the second is beyond the first one's asks, and a quote without a bid
  side, which Redis stores but does not serve; no bound on fetches, errors or
  crashes. Deeper books are left to the theorems.
- `PostgresCli`: two shells, one symbol and source, one or more commands for each
  way to be accepted or refused, two instants (`MaxClock`) for the order of quotes
  and `now`; at most two ticks without `trade_id` are sent (`MaxLoose`), one
  retried, and one `COMMIT` is on its way at a time (`MaxLimbo`); the number of
  commands is not bounded. Of the gaps of `RefusedForGapsOnly` TLC meets the blank
  name of a source and the missing references; the theorems take any commands and
  any number of `COMMIT`s on their way.
- `Decimal`: eight-bit words (`IntMax` 127, `UintMax` 255) and two digits behind
  the point, all texts: both ends of the range and the overflow of the
  accumulation are met.
- `Timestamp`: days of three seconds, seconds of two ticks and instants from
  -4096 to 4095, which is February 1968 to November 1971; the days chosen lie on
  both sides of these ends and years beyond them, where instants wrap, with all
  seconds, `:60` included.

Deadlock is checked in all runs.

### Fairness

A process that has started a fetch, an insert or its startup goes on
(`WF` on `Progress`, `Fetching`, `Starting`): the code is synchronous, and
libpq, redis++ and curl return or fail. Nobody has to begin a command, nothing
has to fail, and no TTL has to run out except by `Tick`, which is weakly fair
in `QuoteCache` because time passes. The server ends a session whose client is
gone (`WF` on `SessionEnds`), which is TCP keepalive's work.

`CallsEnd` is checked for two clients. Weak fairness would not be enough for
three: one that waits can go on only for a moment if another takes the key
again and again before it does. What the server's lock queue promises there is
not modelled.

## Proofs

`QuoteCache_proofs` proves, for any set of processes, any TTLs and bounds, that
`IndInv` of `QuoteCache` is inductive, and from it each safety property of
`quote_cache_faults`. The properties alone are not inductive: a TTL is set by
`EXPIRE` on whatever quote is there, so the argument needs how old that quote
can be at each stage. `StoringFresh` bounds the quote a process is about to
write by its waiting time, `ExpireFindsFresh` bounds what its `EXPIRE` will
find (its own write, or a later one of another process), and `HoldingFresh`
carries the bound to the quotes in use.

`FinCoreApp_proofs` proves, for any list of symbols, any answers of the API and
any bounds, that `IndInv` of `FinCoreApp` is inductive, and from it every safety
and action property of the `app_*` runs that pass. Why the strengthening:

- `StatsBalance` is about counters only, but what `record` adds depends on the
  metrics at the moment a fetch ends. `MetricsShape` says which stages have
  metrics at each `pc`; it makes all four ends of a fetch (`NoAnswer`,
  `PersistThrows`, `PersistUnknown`, `Finish`) hand over metrics that are
  `Recordable`, and adding those keeps the balance.
- `SnapshotFollowsQuote` must hold for the rows still on their way too, since
  they can arrive at any time: `LateFollowsQuote`.
- `SnapshotFollowsQuote` and `SuccessMeansStored` need what the running fetch
  has already left behind (`FetchShape`): the quote in Redis unless it expired,
  the book in both places, its rows in PostgreSQL.
- `ConnectedMeansRegistered` needs how far the loop over the instruments is
  (`StartupShape`).
- `RedisBookUncrossed` rests on two lemmas about operators: a book built from a
  quote has its levels on both sides of the price, and what is left of writing
  an uncrossed book over an uncrossed book is uncrossed, because both `DEL`
  come before the first `HSET`.

`CommandAdvances` is an action property: each step inside a command lowers
`Remaining`, the stages its symbols have still before them. It is what can be
proved of `CommandsReturn`: the measure is a natural number, so a command that
does not return would have to stop, which `WF` on `Fetching` excludes; that last
part, fairness, is TLC's.

`PgRepository_proofs` proves, for any set of clients, any batches and any number
of faults, that `IndInv` of `PgRepository` is inductive, and from it the
invariants of `pg_repository` and that `Spec` implements `AtomicBatch`. The
promise is about a whole batch, the protocol about single rows, so the argument
needs what the loop has done so far:

- `Phase` ties the stage of a call to that of its transaction on the server.
- `LoopExact`: the row loop has inserted exactly the fresh rows it has passed,
  and every key it has passed is durable or held; `CommittingExact` keeps that
  for a `COMMIT` that the server has yet to execute.
- `HeldFresh`, `LocksDisjoint`, `TableKeyed`: open transactions hold keys that
  are neither durable nor held by another, so a commit of one client does not
  change which rows of another are fresh.

Each step then maps to a step of `AtomicBatch` or to a stutter. `CallReturnsEarly`
is `Trivial` and `Call` is `Submit`; `Commit`, or a `LateCommit` while the call
still waits, is `Apply`; a `LateCommit` after the call is `Land`; `SessionEnds`
with such a commit pending is `Lose`; the ends of a call are `Finish` when its
batch was applied and `Fail` when not; the rest is hidden.

`QuoteCache_proofs` also proves the action property `StepsBackBounded`: only
`HMSET` replaces one quote by another, and what a process is about to write is
bounded by `StoringFresh`, which holds through faults.

`RedisBook_proofs` proves the properties of `redis_book` for any processes, any
answers and any depth. A single fetch only knows what it has deleted and
written; what the invariant adds is what the others can have written since:

- before its own `DEL` a fetch knows nothing of a side, afterwards every level
  there is of its own quote or of one in `overlap`;
- if all of those are the same quote and none was torn, a level missing from
  Redis is still in the `todo` of some fetch that has deleted the side itself,
  so that when the last fetch ends none is missing;
- a fetch without `overlap` knows the book exactly: what it has written and what
  is left in `todo` make up its own book, with every written level before every
  level left (`AloneIsBookWritesAlways`).

`Conversion_proofs` proves `Decimal` for words of any width and any number of
fractional digits, and `Timestamp` for any calendar width. The loops of
`from_string` are steps of the specification, so the induction over the text is
the one of the invariant: the accumulated number is the number spelled so far,
the fraction the digits so far without their padding. For `Timestamp` the
lemma is that the round trip through `to_time_t` gives back the seconds exactly
if nothing wrapped and the fraction is not rounded upwards. It is rounded upwards
only before 1970, which is why `AcceptedFrom1970` starts there.

`PostgresCli_proofs` proves the properties of `postgres_cli` about commands for
any shells and commands. `Stored` says that what a run was told or is about to
be told is in the table, from which `OneInserter` and `LatestIsCurrent` follow,
as rows are never removed; `Accepted` carries the verdict of `validate` to the
server for `RefusedForGapsOnly`; `LooseAccounted` is a count over shells, kept
by a lemma on what one shell adds to a set.

`KeepsPromiseAlways` of the same module is the refinement of `AtomicBatch`. Each
step maps to one of its steps or to a stutter: `Send` of an insert is `Submit`,
`Apply` is `Apply`, `Answer` is `Finish`, `Refused` is `Fail`, `Unanswered` is
`Finish` or `Fail` by whether the row was applied, with the row in limbo or not,
`Land` and `Lose` are themselves; all that ends before an insert is sent, and
the commands that insert nothing, are `Trivial` or stutter. The mapping gives a
tick without `trade_id` the key `<<>>`; what the steps rest on is that a key
tells which conflict target it is of, so that a batch of one row conflicts with
the abstract table exactly when its row does with the real one.

`OrderBook_proofs` proves the properties of `OrderBook` for any prices and
volumes. `SpreadTellsCrossing` needs that a finite non-empty set of prices has
a greatest and a least member, which is proved by the well-foundedness of the
strict subset.

Assumptions are the named `ASSUME`s of the modules, which TLC evaluates. Only
model-checked are the liveness properties (`EventuallyRenewed`, `CallsEnd`,
`CommandsReturn`), which rest on fairness and are out of the prover's reach; of
the last one `CommandAdvances` is the part that is proved.

## Findings

1. `src/storage/redis_client.cpp:56`: `HMSET` and `EXPIRE` are separate, so an
   error between them leaves a quote without TTL (`quote_cache_no_ttl`).
2. `src/core/main.cpp:143`: the repository is passed to the CLI after an upsert
   failed and "disabled" was printed (`app_disabled_postgres`).
3. `src/cli/fincore_cli.cpp:647`: an exception from PostgreSQL ends `poll`,
   `watch all` and `fetch all` (`app_poll_aborts`).
4. `src/api/alpha_vantage_client.cpp:209`: only the year of the trading day is
   parsed, so later quotes of a year are dropped as duplicates of the first
   (`app_year_key`).
5. `src/cli/postgres_cli.cpp:83`: the check for calendar dates compares with
   fields that `timegm` has already normalised, so a day its month does not have
   is stored as one of the next month (`cli_calendar_dates`).
6. `src/cli/postgres_cli.cpp:80`: `to_time_t` rounds towards 1970, so every
   timestamp before 1970 with a fraction fails the comparison of the round trip
   and is refused as an invalid calendar date; 1969-12-31T23:59:59Z is refused at
   line 75, as `timegm` answers -1 for it, its error value. The documentation
   accepts every timestamp of the form (`cli_timestamps`). From 1970 on nothing
   the clock can hold is refused (`AcceptedFrom1970`).

## Not modelled, and the plan

Not modelled, and why:

- HTTP transfer and the JSON scan of `parse_quote`, the layout of timestamps and
  of all output: formatting, which no property is about.
- The syntax and length of identifiers: character classes, the same on both
  sides.
- Latency percentiles and process usage in `src/cli/process_metrics.cpp`: they
  read clocks and `/proc`, and only print.
- `store_tick` (no caller) and `src/storage/cli_postgres.cpp` (not compiled).
- Scripts, container files and tests.

Four hazards have no property: a connection that broke is never reopened, so that
a session fails from then on, which no doc denies (the properties of the pipeline
hold in such sessions too); a reader of the two hashes of a book may combine two
books, but nothing in the code reads them back, and the documentation says so; a
usage error ends with 1 instead of the 2 of `docs/cli-reference.md:87-88` while the
server is down, because the connection comes first (`ConnectFails`); and every start of the
application overwrites instruments an operator has changed.

What is left: metadata with its values, to say whose upsert wins; a shared
instance of `FinCoreApp` and `PostgresCli` on one database; the percentiles of
`LatencySeries`, should a property of them be stated.

----------------------------- MODULE PostgresCli -----------------------------
(***************************************************************************)
(* Runs of "fincore_app postgres COMMAND ...", each a process of its own,  *)
(* in several shells and as often as their users repeat them.  A run       *)
(* connects, reads its arguments, validates them, sends one statement or   *)
(* a batch of one row, and ends with an exit code; it may be killed or     *)
(* lose its connection at any point.                                       *)
(*                                                                         *)
(* A transaction takes effect at one instant: PgRepository shows that the  *)
(* repository's do.  How the numbers and timestamps of a command are read  *)
(* is the subject of Decimal and Timestamp; a command with an argument     *)
(* that cannot be read, or one too few, is a "usage" command here.         *)
(***************************************************************************)
EXTENDS Integers, FiniteSets

CONSTANTS
    Shells,    \* each runs one command at a time
    Commands,  \* the domain objects that commands make: [op, ...]; where the
               \* timestamp "now" was typed, now = TRUE
    NoId,      \* the trade_id "-"
    NoRow,     \* nothing to insert, nothing found
    NoCode,    \* no run yet, or a killed one: no exit code
    One,       \* Decimal::scale
    MaxClock,  \* bound: instants of the clock
    MaxLoose,  \* bound: runs that insert a tick without trade_id
    MaxLimbo   \* bound: COMMITs on their way at a time

Markets == {"quote", "tick", "snapshot", "indicator"}
Upserts == {"instrument", "source"}

ASSUME CommandsAssumption ==
    /\ \A c \in Commands : c.op \in Markets \cup Upserts \cup {"latest-quote", "usage"}
    /\ \A c \in Commands : c.op \in Markets => c.at \in Int /\ c.now \in BOOLEAN
    /\ \A c \in Commands : c.op = "snapshot" => c.imbalance \in Int
    /\ One \in Nat /\ NoRow \notin Commands
ASSUME BoundsAssumption ==
    /\ IsFiniteSet(Shells)
    /\ MaxClock \in Nat \ {0} /\ MaxLoose \in Nat /\ MaxLimbo \in Nat

VARIABLES
    pc,         \* of each shell: "idle", "sent" or "answered"
    row,        \* the domain object of the running command
    affected,   \* InsertSummary::inserted of the running command
    found,      \* what latest_quote has returned to it
    exit,       \* exit code of the last command
    clock,      \* what "now" is read as
    metadata,   \* durable instruments and data sources
    table,      \* durable market rows with a conflict key
    loose,      \* number of durable ticks without trade_id
    limbo,      \* of each shell: a row whose COMMIT is on its way
    told,       \* history: keys of rows some run has reported as stored
    won,        \* history: keys some run has reported as inserted by itself
    confirmed,  \* history: runs that have reported a tick without trade_id
    unsure      \* history: runs that sent one and ended without an answer

shell == <<pc, row, affected, found, exit>>
store == <<metadata, table, loose>>
hist  == <<told, won, confirmed, unsure>>
vars  == <<shell, clock, store, limbo, hist>>

Init ==
    /\ pc       = [s \in Shells |-> "idle"]
    /\ row      = [s \in Shells |-> NoRow]
    /\ affected = [s \in Shells |-> 0]
    /\ found    = [s \in Shells |-> NoRow]
    /\ exit     = [s \in Shells |-> NoCode]
    /\ limbo    = [s \in Shells |-> NoRow]
    /\ clock = 1
    /\ metadata = {} /\ table = {} /\ loose = 0
    /\ told = {} /\ won = {} /\ confirmed = 0 /\ unsure = 0

-----------------------------------------------------------------------------
\* domain::validate.  Of a text only "empty" and what PostgreSQL tells apart
\* matter; "formed" is the syntax and length of the identifiers.

\* Mutation of QuoteValid: the high is not compared with the low.
QuoteValidSigns(q) ==
    q.price >= 0 /\ q.open >= 0 /\ q.high >= 0 /\ q.low >= 0 /\ q.volume >= 0

QuoteValid(q) ==
    /\ q.price >= 0 /\ q.open >= 0 /\ q.high >= 0 /\ q.low >= 0
    /\ q.high >= q.low
    /\ q.volume >= 0

TickValid(t) == t.price > 0 /\ t.size > 0 /\ t.id /= "empty"

SnapshotValid(b) ==
    /\ b.bid > 0 /\ b.ask > 0 /\ b.ask >= b.bid
    /\ b.imbalance >= - One /\ b.imbalance <= One
    /\ b.bidVolume >= 0 /\ b.askVolume >= 0

Valid(r) ==
    /\ r.formed
    /\ r.op = "quote"     => QuoteValid(r)
    /\ r.op = "tick"      => TickValid(r)
    /\ r.op = "snapshot"  => SnapshotValid(r)
    /\ r.op = "indicator" => r.parameters /= "empty"
    /\ r.op \in Upserts   => r.name /= "empty"

\* The constraints of the schema.

QuoteChecks(q) ==
    /\ 0 <= q.price /\ 0 <= q.open /\ 0 <= q.high /\ 0 <= q.low
    /\ q.high >= q.low /\ q.volume >= 0

TickChecks(t) == t.price > 0 /\ t.size > 0 /\ t.id \notin {"empty", "blank"}

SnapshotChecks(b) ==
    /\ b.bid > 0 /\ b.ask > 0 /\ b.ask >= b.bid
    /\ b.imbalance \in (- One) .. One
    /\ b.bidVolume >= 0 /\ b.askVolume >= 0

Checks(r) ==
    /\ r.formed
    /\ r.op = "quote"     => QuoteChecks(r)
    /\ r.op = "tick"      => TickChecks(r)
    /\ r.op = "snapshot"  => SnapshotChecks(r)
    /\ r.op = "indicator" => r.parameters = "object"
    /\ r.op \in Upserts   => r.name \notin {"empty", "blank"}

\* The foreign keys.
Referenced(r) == r.op \in Markets => {r.sym, r.src} \subseteq metadata

Storable(r) == Checks(r) /\ Referenced(r)

\* The conflict targets; a tick without trade_id conflicts with nothing.
Unkeyed(r) == r.op = "tick" /\ r.id = NoId

Key(r) ==
    CASE r.op = "tick"      -> <<r.op, r.sym, r.src, r.id>>
      [] r.op = "indicator" -> <<r.op, r.sym, r.src, r.at, r.name, r.parameters>>
      [] OTHER              -> <<r.op, r.sym, r.src, r.at>>

KeysOf(T) == {Key(r) : r \in T}

-----------------------------------------------------------------------------
\* run_postgres_cli and PostgresCli::run up to the repository call.

\* Mutation of Finish: the summary outlives the run.
FinishKeepingCount(s, code) ==
    /\ pc'    = [pc EXCEPT ![s] = "idle"]
    /\ row'   = [row EXCEPT ![s] = NoRow]
    /\ found' = [found EXCEPT ![s] = NoRow]
    /\ exit'  = [exit EXCEPT ![s] = code]
    /\ UNCHANGED affected

Finish(s, code) ==
    /\ pc'       = [pc EXCEPT ![s] = "idle"]
    /\ row'      = [row EXCEPT ![s] = NoRow]
    /\ affected' = [affected EXCEPT ![s] = 0]
    /\ found'    = [found EXCEPT ![s] = NoRow]
    /\ exit'     = [exit EXCEPT ![s] = code]

\* The command ends before anything is sent.
EndEarly(s, code) ==
    /\ pc[s] = "idle"
    /\ Finish(s, code)
    /\ UNCHANGED <<clock, store, limbo, hist>>

\* Help needs neither a configuration nor a server.
Help(s) == EndEarly(s, 0)

\* FINCORE_DB_CONNECT_TIMEOUT is not a positive integer.
BadEnvironment(s) == EndEarly(s, 2)

\* The server is asked before the arguments are: also a misspelt command ends
\* with 1 when no connection, or no prepared statement, is to be had.
ConnectFails(s) == EndEarly(s, 1)

\* domain_timestamp: "now" is the clock when the object is built.
Timed(c) == c.op \in Markets /\ c.now => c.at = clock

\* std::invalid_argument and std::out_of_range, of the arguments or of validate.
Rejected(c) == c.op = "usage" \/ (c.op \in Markets \cup Upserts /\ ~ Valid(c))

Reject(s) == (\E c \in Commands : Rejected(c)) /\ EndEarly(s, 2)

Send(s, c) ==
    /\ pc[s] = "idle"
    /\ Timed(c) /\ ~ Rejected(c)
    /\ Unkeyed(c) =>
         confirmed + unsure + Cardinality({t \in Shells : row[t] /= NoRow /\ Unkeyed(row[t])})
           < MaxLoose
    /\ pc'   = [pc EXCEPT ![s] = "sent"]
    /\ row'  = [row EXCEPT ![s] = c]
    /\ exit' = [exit EXCEPT ![s] = NoCode]
    /\ UNCHANGED <<affected, found, clock, store, limbo, hist>>

-----------------------------------------------------------------------------
\* The repository call at the server.

\* ON CONFLICT DO NOTHING, or DO UPDATE for the two upserts.
Write(r) ==
    /\ metadata' = IF r.op \in Upserts THEN metadata \cup {r.code} ELSE metadata
    /\ table' = IF r.op \in Markets /\ ~ Unkeyed(r) /\ Key(r) \notin KeysOf(table)
                THEN table \cup {r} ELSE table
    /\ loose' = IF Unkeyed(r) THEN loose + 1 ELSE loose

\* Mutation of Adds: the rows sent are counted, not those affected.
AddsAttempted(r) == r.op \in Markets

Adds(r) == r.op \in Markets /\ (Unkeyed(r) \/ Key(r) \notin KeysOf(table))

Apply(s) ==
    /\ pc[s] = "sent"
    /\ row[s].op /= "latest-quote" /\ Storable(row[s])
    /\ Write(row[s])
    /\ affected' = [affected EXCEPT ![s] = IF Adds(row[s]) THEN 1 ELSE 0]
    /\ pc' = [pc EXCEPT ![s] = "answered"]
    /\ UNCHANGED <<row, found, exit, clock, limbo, hist>>

\* DatabaseError: a constraint or a foreign key; exit code 1, not 2.
Refused(s) ==
    /\ pc[s] = "sent"
    /\ row[s].op /= "latest-quote" /\ ~ Storable(row[s])
    /\ Finish(s, 1)
    /\ UNCHANGED <<clock, store, limbo, hist>>

QuotesOf(sym, src) == {q \in table : q.op = "quote" /\ q.sym = sym /\ q.src = src}

\* Mutation of Newest: LIMIT 1 without ORDER BY.
NewestAny(Q) == Q

\* ORDER BY timestamp DESC LIMIT 1.
Newest(Q) == {q \in Q : \A other \in Q : other.at <= q.at}

Read(s) ==
    /\ pc[s] = "sent"
    /\ row[s].op = "latest-quote"
    /\ LET Q == QuotesOf(row[s].sym, row[s].src) IN
         \E q \in Newest(Q) \cup {NoRow} :
            /\ q = NoRow <=> Q = {}
            /\ found' = [found EXCEPT ![s] = q]
    /\ pc' = [pc EXCEPT ![s] = "answered"]
    /\ UNCHANGED <<row, affected, exit, clock, store, limbo, hist>>

-----------------------------------------------------------------------------
\* What the shell learns.

Tell(s) ==
    /\ told' = IF row[s].op \in Markets /\ ~ Unkeyed(row[s])
               THEN told \cup {Key(row[s])} ELSE told
    /\ won' = IF affected[s] = 1 /\ ~ Unkeyed(row[s]) THEN won \cup {Key(row[s])} ELSE won
    /\ confirmed' = IF Unkeyed(row[s]) THEN confirmed + 1 ELSE confirmed
    /\ UNCHANGED unsure

Answer(s) ==
    /\ pc[s] = "answered"
    /\ Finish(s, IF row[s].op = "latest-quote" /\ found[s] = NoRow THEN 3 ELSE 0)
    /\ Tell(s)
    /\ UNCHANGED <<clock, store, limbo>>

\* Mutation of Unanswered: the statement is sent again by the program itself.
UnansweredResent(s) ==
    /\ pc[s] = "answered"
    /\ pc' = [pc EXCEPT ![s] = "sent"]
    /\ affected' = [affected EXCEPT ![s] = 0]
    /\ found'    = [found EXCEPT ![s] = NoRow]
    /\ UNCHANGED <<row, exit, clock, store, limbo, hist>>

\* The connection breaks (exit code 1) or the process is killed: nothing was
\* stored, or it was, or COMMIT is on its way.
Unanswered(s) ==
    /\ pc[s] /= "idle"
    /\ \E code \in {1, NoCode} : Finish(s, code)
    /\ \/ UNCHANGED limbo
       \/ /\ pc[s] = "sent" /\ row[s].op /= "latest-quote" /\ Storable(row[s])
          /\ limbo[s] = NoRow
          /\ Cardinality({t \in Shells : limbo[t] /= NoRow}) < MaxLimbo
          /\ limbo' = [limbo EXCEPT ![s] = row[s]]
    /\ unsure' = IF Unkeyed(row[s]) THEN unsure + 1 ELSE unsure
    /\ UNCHANGED <<clock, store, told, won, confirmed>>

Land(s) ==
    /\ limbo[s] /= NoRow
    /\ Write(limbo[s])
    /\ limbo' = [limbo EXCEPT ![s] = NoRow]
    /\ UNCHANGED <<shell, clock, hist>>

Lose(s) ==
    /\ limbo[s] /= NoRow
    /\ limbo' = [limbo EXCEPT ![s] = NoRow]
    /\ UNCHANGED <<shell, clock, store, hist>>

Tick ==
    /\ clock < MaxClock
    /\ clock' = clock + 1
    /\ UNCHANGED <<shell, store, limbo, hist>>

Next ==
    \/ Tick
    \/ \E s \in Shells :
         \/ Help(s) \/ BadEnvironment(s) \/ ConnectFails(s) \/ Reject(s)
         \/ \E c \in Commands : Send(s, c)
         \/ Apply(s) \/ Refused(s) \/ Read(s) \/ Answer(s) \/ Unanswered(s)
         \/ Land(s) \/ Lose(s)

Spec == Init /\ [][Next]_vars

-----------------------------------------------------------------------------
Labels == {"idle", "sent", "answered"}

Keyed(s) == row[s].op \in Markets /\ ~ Unkeyed(row[s])

\* Every variable holds a value of its kind; a shell has an object, and what the
\* server made of it, only while its command runs.
TypeOK ==
    /\ pc       \in [Shells -> Labels]
    /\ affected \in [Shells -> 0 .. 1]
    /\ exit     \in [Shells -> {0, 1, 2, 3, NoCode}]
    /\ clock \in 1 .. MaxClock
    /\ loose \in Nat /\ confirmed \in Nat /\ unsure \in Nat
    /\ metadata \subseteq {c.code : c \in {u \in Commands : u.op \in Upserts}}
    /\ table \subseteq {c \in Commands : c.op \in Markets}
    /\ row   \in [Shells -> Commands \cup {NoRow}]
    /\ found \in [Shells -> table \cup {NoRow}]
    /\ limbo \in [Shells -> Commands \cup {NoRow}]
    /\ \A s \in Shells :
         /\ IF pc[s] = "idle" THEN row[s] = NoRow /\ affected[s] = 0 /\ found[s] = NoRow
            ELSE row[s] /= NoRow
         /\ found[s] /= NoRow => found[s].op = "quote"
         /\ pc[s] = "sent" => affected[s] = 0

\* However often a command is repeated, after whatever failures: what a run has
\* been told is stored stays stored, and of all runs with one key at most one is
\* told that it has inserted the row, the others that theirs is a duplicate.
OneInserter ==
    /\ told \subseteq KeysOf(table)
    /\ \A s \in Shells : (pc[s] = "answered" /\ affected[s] = 1 /\ Keyed(s)) =>
         /\ Key(row[s]) \in KeysOf(table) \ won
         /\ \A t \in Shells : (pc[t] = "answered" /\ affected[t] = 1 /\ Keyed(t) /\ t /= s) =>
              Key(row[s]) /= Key(row[t])

\* A tick without trade_id has no key: a repeated run stores it again.  There are
\* never fewer of them than confirmed, and never more than were confirmed or sent
\* by runs that got no answer: a run by itself stores one at most.
Answered == {s \in Shells : pc[s] = "answered" /\ Unkeyed(row[s])}
Loose    == {s \in Shells : limbo[s] /= NoRow /\ Unkeyed(limbo[s])}

LooseAccounted ==
    /\ confirmed + Cardinality(Answered) <= loose
    /\ loose + Cardinality(Loose) <= confirmed + unsure + Cardinality(Answered)

\* Once any run has been told that a quote is stored, latest-quote never answers
\* "nothing found", nor an older quote, whoever inserts and repeats meanwhile.
LatestIsCurrent ==
    [][\A s \in Shells : (row[s] /= NoRow /\ row[s].op = "latest-quote"
                            /\ pc[s] = "sent" /\ pc'[s] = "answered") =>
          \A k \in told : (k[1] = "quote" /\ k[2] = row[s].sym /\ k[3] = row[s].src) =>
              found'[s] /= NoRow /\ k[4] <= found'[s].at]_vars

\* The constraints of the schema and domain::validate are two versions of the
\* same rules.  A row that the program accepts violates a constraint only with a
\* blank text, parameters that are no JSON object, or a reference that does not
\* exist.  Refusals for another reason, as of a text's encoding, are not meant.
RefusedForGapsOnly ==
    \A s \in Shells : (pc[s] = "sent" /\ row[s].op /= "latest-quote" /\ ~ Storable(row[s])) =>
        \/ row[s].op = "tick" /\ row[s].id = "blank"
        \/ row[s].op = "indicator" /\ row[s].parameters /= "object"
        \/ row[s].op \in Upserts /\ row[s].name = "blank"
        \/ ~ Referenced(row[s])

-----------------------------------------------------------------------------
\* What AtomicBatch sees of the runs: those of the four market commands, each a
\* batch of one row, which validate has accepted.  Any other command is a client
\* doing nothing.
IsInsert(r) == r /= NoRow /\ r.op \in Markets

BatchRow(r) ==
    [key |-> IF Unkeyed(r) THEN <<>> ELSE Key(r), sym |-> r.sym, val |-> r, valid |-> TRUE]

Inserts == {c \in Commands : c.op \in Markets /\ Valid(c)}
InsertRows    == {BatchRow(c) : c \in Inserts}
InsertBatches == {<<b>> : b \in InsertRows}

Word(code) == CASE code = 1 -> "failed" [] code = 2 -> "invalid" [] OTHER -> "stored"

status == [s \in Shells |-> IF ~ IsInsert(row[s]) THEN "idle"
                            ELSE IF pc[s] = "sent" THEN "pending" ELSE "applied"]
work   == [s \in Shells |-> IF IsInsert(row[s]) THEN <<BatchRow(row[s])>> ELSE <<>>]
report == [s \in Shells |-> IF exit[s] = NoCode THEN "none" ELSE Word(exit[s])]
onItsWay == [s \in Shells |-> IF IsInsert(limbo[s]) THEN {<<BatchRow(limbo[s])>>} ELSE {}]

Promise == INSTANCE AtomicBatch WITH
    Clients <- Shells,
    Symbols <- {c.sym : c \in Inserts},
    Rows    <- InsertRows,
    Batches <- InsertBatches,
    NoKey   <- <<>>,
    table   <- {BatchRow(r) : r \in table},
    count   <- affected,
    limbo   <- onItsWay

\* A run of a market command keeps the repository's promise up to its exit code:
\* 0 means that the row is durable, 2 that nothing was sent, and after 1, or no
\* code at all, the row was stored, is not, or lands once when no run is left
\* that could tell; affected is 1 for the run that added the row and no other.
KeepsPromise == Promise!Spec
=============================================================================

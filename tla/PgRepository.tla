---------------------------- MODULE PgRepository ----------------------------
(***************************************************************************)
(* PostgresMarketDataRepository's insert operations over PgConnection and  *)
(* PgTransaction, by several client processes against one server.  Each    *)
(* operation validates the span, sends BEGIN, one prepared INSERT ... ON   *)
(* CONFLICT DO NOTHING per row and COMMIT; an exception destroys the       *)
(* PgTransaction, which tries a ROLLBACK.  The connection can break at any *)
(* point, and nothing ever reopens it.                                     *)
(*                                                                         *)
(* The server is external: rows of an open transaction are invisible to    *)
(* other sessions, an INSERT whose key another open transaction holds      *)
(* waits for that transaction, a waiting cycle ends with one statement     *)
(* refused, and a session whose client is gone is rolled back in time.     *)
(***************************************************************************)
EXTENDS BatchData

CONSTANTS
    MaxFaults,  \* broken connections, refused statements and commits
    MaxLoose    \* no new batch is submitted beyond this many loose rows

ASSUME FaultsAssumption == MaxFaults \in Nat /\ MaxLoose \in Nat

VARIABLES
    pc,          \* where each client is in insert_*
    batch,       \* the span of the running call
    next,        \* the position the row loop has reached
    inserted,    \* summary.inserted
    outcome,     \* how the client's last call ended
    conn,        \* PQstatus as the client sees it
    session,     \* the server's side of the client's transaction
    sbatch,      \* the batch the session's transaction belongs to
    held,        \* positions of sbatch the open transaction has inserted
    landed,      \* the running call's batch has been committed
    table,       \* durable rows with a key
    loose,       \* number of durable rows without one
    registered,  \* durable instruments
    faults

client == <<pc, batch, next, inserted, outcome, conn, landed>>
server == <<session, sbatch, held>>
tables == <<table, loose, registered>>
vars   == <<client, server, tables, faults>>

Outcomes == {"none", "stored", "failed", "invalid"}

Init ==
    /\ pc       = [c \in Clients |-> "idle"]
    /\ batch    = [c \in Clients |-> <<>>]
    /\ next     = [c \in Clients |-> 1]
    /\ inserted = [c \in Clients |-> 0]
    /\ outcome  = [c \in Clients |-> "none"]
    /\ conn     = [c \in Clients |-> "ok"]
    /\ landed   = [c \in Clients |-> FALSE]
    /\ session  = [c \in Clients |-> "none"]
    /\ sbatch   = [c \in Clients |-> <<>>]
    /\ held     = [c \in Clients |-> {}]
    /\ table = {} /\ loose = 0 /\ registered = {}
    /\ faults = 0

Goto(c, label) == pc' = [pc EXCEPT ![c] = label]

\* Mutation of EndCall: the summary outlives the call.
EndCallKeepingSummary(c, result) ==
    /\ Goto(c, "idle")
    /\ batch'   = [batch EXCEPT ![c] = <<>>]
    /\ next'    = [next EXCEPT ![c] = 1]
    /\ landed'  = [landed EXCEPT ![c] = FALSE]
    /\ outcome' = [outcome EXCEPT ![c] = result]
    /\ UNCHANGED inserted

\* The call of c ends; its locals are gone.
EndCall(c, result) ==
    /\ Goto(c, "idle")
    /\ batch'    = [batch EXCEPT ![c] = <<>>]
    /\ next'     = [next EXCEPT ![c] = 1]
    /\ inserted' = [inserted EXCEPT ![c] = 0]
    /\ landed'   = [landed EXCEPT ![c] = FALSE]
    /\ outcome'  = [outcome EXCEPT ![c] = result]

\* The server's transaction of c is over, and with it its locks.
EndTransaction(c, state) ==
    /\ session' = [session EXCEPT ![c] = state]
    /\ sbatch'  = [sbatch EXCEPT ![c] = <<>>]
    /\ held'    = [held EXCEPT ![c] = {}]

Fault == faults < MaxFaults /\ faults' = faults + 1

-----------------------------------------------------------------------------
\* upsert_instrument: one statement, durable when it answers.
Upsert(c, s) ==
    /\ pc[c] = "idle" /\ conn[c] = "ok"
    /\ registered' = registered \cup {s}
    /\ UNCHANGED <<client, server, table, loose, faults>>

\* Every row is validated before the database is asked.
Valid(b) == \A i \in DOMAIN b : b[i].valid

\* Validation throws, or an empty span returns at once with nothing inserted.
CallReturnsEarly(c, b) ==
    /\ pc[c] = "idle"
    /\ \/ ~ Valid(b) /\ outcome' = [outcome EXCEPT ![c] = "invalid"]
       \/ b = <<>>   /\ outcome' = [outcome EXCEPT ![c] = "stored"]
    /\ UNCHANGED <<pc, batch, next, inserted, conn, landed, server, tables, faults>>

Call(c, b) ==
    /\ pc[c] = "idle"
    /\ loose < MaxLoose
    /\ b /= <<>> /\ Valid(b)
    /\ Goto(c, "begin")
    /\ batch'   = [batch EXCEPT ![c] = b]
    /\ outcome' = [outcome EXCEPT ![c] = "none"]
    /\ UNCHANGED <<next, inserted, conn, landed, server, tables, faults>>

\* PgTransaction's constructor.
Begin(c) ==
    /\ pc[c] = "begin" /\ conn[c] = "ok"
    /\ Goto(c, "insert")
    /\ session' = [session EXCEPT ![c] = "open"]
    /\ sbatch'  = [sbatch EXCEPT ![c] = batch[c]]
    /\ held'    = [held EXCEPT ![c] = {}]
    /\ UNCHANGED <<batch, next, inserted, outcome, conn, landed, tables, faults>>

\* It throws, so its destructor does not run and no ROLLBACK is sent.
BeginFails(c) ==
    /\ pc[c] = "begin" /\ conn[c] = "broken"
    /\ EndCall(c, "failed")
    /\ UNCHANGED <<conn, server, tables, faults>>

-----------------------------------------------------------------------------
\* execute_prepared for the row at next[c].

Row(c) == batch[c][next[c]]
AtRow(c) == pc[c] = "insert" /\ next[c] <= Len(batch[c])

HeldKeys(c) == {r.key : r \in KeyedRows(sbatch[c], held[c])}
Waits(c, d) == AtRow(c) /\ c /= d /\ Row(c).key \in HeldKeys(d)

\* Mutation of Conflict: the duplicate inside the batch is not noticed.
ConflictWithTableOnly(c) == Row(c).key \in KeysOf(table)

\* The row's key is taken, in the table or earlier in the same transaction.
Conflict(c) == Row(c).key \in KeysOf(table) \cup HeldKeys(c)

Insert(c) ==
    /\ AtRow(c) /\ conn[c] = "ok"
    /\ Row(c).sym \in registered
    /\ \A d \in Clients : ~ Waits(c, d)
    /\ next' = [next EXCEPT ![c] = @ + 1]
    /\ \/ /\ Conflict(c)
          /\ UNCHANGED <<inserted, held>>
       \/ /\ ~ Conflict(c)
          /\ inserted' = [inserted EXCEPT ![c] = @ + 1]
          /\ held' = [held EXCEPT ![c] = @ \cup {next[c]}]
    /\ UNCHANGED <<pc, batch, outcome, conn, landed, session, sbatch, tables, faults>>

\* The server refuses the statement and the transaction is aborted.
Refuse(c) ==
    /\ Goto(c, "rollback")
    /\ EndTransaction(c, "aborted")
    /\ UNCHANGED <<batch, next, inserted, outcome, conn, landed, tables>>

\* A foreign key fails: the instrument is not registered.
InsertRefused(c) ==
    /\ AtRow(c) /\ conn[c] = "ok"
    /\ Row(c).sym \notin registered
    /\ Refuse(c)
    /\ UNCHANGED faults

\* The transactions of S wait for each other's rows, in a circle.
Deadlocked(S) ==
    \A d \in S : (\E e \in S : Waits(d, e)) /\ (\E e \in S : Waits(e, d))

\* The server picks c out of a circle.
DeadlockVictim(c) ==
    /\ conn[c] = "ok"
    /\ \E S \in SUBSET Clients : c \in S /\ Deadlocked(S)
    /\ Refuse(c)
    /\ UNCHANGED faults

\* Any other error of the statement or of COMMIT that the server reports.
ServerError(c) ==
    /\ pc[c] \in {"insert", "commit"} /\ conn[c] = "ok"
    /\ Fault
    /\ Refuse(c)

RowsDone(c) ==
    /\ pc[c] = "insert" /\ next[c] > Len(batch[c])
    /\ Goto(c, "commit")
    /\ UNCHANGED <<batch, next, inserted, outcome, conn, landed, server, tables, faults>>

-----------------------------------------------------------------------------
\* PgTransaction::commit.

MakeDurable(c) ==
    /\ table' = table \cup KeyedRows(sbatch[c], held[c])
    /\ loose' = loose + LooseCount(sbatch[c], held[c])
    /\ EndTransaction(c, "none")
    /\ UNCHANGED registered

\* Mutation of Commit: the summary is returned without transaction.commit().
CommitForgotten(c) ==
    /\ pc[c] = "commit" /\ conn[c] = "ok"
    /\ EndTransaction(c, "none")
    /\ Goto(c, "committed")
    /\ landed' = [landed EXCEPT ![c] = TRUE]
    /\ UNCHANGED <<batch, next, inserted, outcome, conn, tables, faults>>

\* The server commits; the answer is on its way.
Commit(c) ==
    /\ pc[c] = "commit" /\ conn[c] = "ok"
    /\ MakeDurable(c)
    /\ Goto(c, "committed")
    /\ landed' = [landed EXCEPT ![c] = TRUE]
    /\ UNCHANGED <<batch, next, inserted, outcome, conn, faults>>

Stored(c) ==
    /\ pc[c] = "committed" /\ conn[c] = "ok"
    /\ EndCall(c, "stored")
    /\ UNCHANGED <<conn, server, tables, faults>>

-----------------------------------------------------------------------------
\* The connection breaks.  COMMIT may already be on its way to the server.
ConnectionBreaks(c) ==
    /\ conn[c] = "ok"
    /\ Fault
    /\ conn' = [conn EXCEPT ![c] = "broken"]
    /\ \/ UNCHANGED session
       \/ pc[c] = "commit" /\ session' = [session EXCEPT ![c] = "committing"]
    /\ UNCHANGED <<pc, batch, next, inserted, outcome, landed, sbatch, held,
                   tables>>

\* Mutation of ErrorNoticed: the results inside the row loop go unchecked.
ErrorNoticedAtCommit(c) ==
    /\ pc[c] \in {"commit", "committed"} /\ conn[c] = "broken"
    /\ Goto(c, "rollback")
    /\ UNCHANGED <<batch, next, inserted, outcome, conn, landed, server, tables,
                   faults>>

\* check_result throws; the transaction object is destroyed.
ErrorNoticed(c) ==
    /\ pc[c] \in {"insert", "commit", "committed"} /\ conn[c] = "broken"
    /\ Goto(c, "rollback")
    /\ UNCHANGED <<batch, next, inserted, outcome, conn, landed, server, tables,
                   faults>>

\* Mutation of Rollback: the destructor leaves the transaction to itself.
RollbackSkipped(c) ==
    /\ pc[c] = "rollback" /\ conn[c] = "ok"
    /\ EndCall(c, "failed")
    /\ UNCHANGED <<conn, server, tables, faults>>

\* ~PgTransaction with active_ still set: ROLLBACK, then the error goes on.
Rollback(c) ==
    /\ pc[c] = "rollback" /\ conn[c] = "ok"
    /\ EndCall(c, "failed")
    /\ EndTransaction(c, "none")
    /\ UNCHANGED <<conn, tables, faults>>

\* The ROLLBACK fails too; the destructor swallows that error.
RollbackSwallowed(c) ==
    /\ pc[c] = "rollback" /\ conn[c] = "broken"
    /\ EndCall(c, "failed")
    /\ UNCHANGED <<conn, server, tables, faults>>

\* The server finds the client gone.
SessionEnds(c) ==
    /\ conn[c] = "broken" /\ session[c] /= "none"
    /\ EndTransaction(c, "none")
    /\ UNCHANGED <<client, tables, faults>>

\* The COMMIT that was on its way arrives after all.
LateCommit(c) ==
    /\ session[c] = "committing"
    /\ MakeDurable(c)
    /\ landed' = [landed EXCEPT ![c] = pc[c] \in {"commit", "rollback"}]
    /\ UNCHANGED <<pc, batch, next, inserted, outcome, conn, faults>>

-----------------------------------------------------------------------------
\* What the client, or the server of itself, does once a call has begun.
Progress(c) ==
    \/ Begin(c) \/ BeginFails(c) \/ Insert(c) \/ InsertRefused(c)
    \/ DeadlockVictim(c) \/ RowsDone(c) \/ Commit(c) \/ Stored(c)
    \/ ErrorNoticed(c) \/ Rollback(c) \/ RollbackSwallowed(c)

Next == \E c \in Clients :
    \/ \E s \in Symbols : Upsert(c, s)
    \/ \E b \in Batches : CallReturnsEarly(c, b) \/ Call(c, b)
    \/ Progress(c) \/ ServerError(c) \/ ConnectionBreaks(c)
    \/ SessionEnds(c) \/ LateCommit(c)

Fairness == \A c \in Clients : WF_vars(Progress(c)) /\ WF_vars(SessionEnds(c))

Spec == Init /\ [][Next]_vars /\ Fairness

-----------------------------------------------------------------------------
Labels == {"idle", "begin", "insert", "commit", "committed", "rollback"}

\* Every variable holds a value of its kind, and a client outside a call has
\* no call's state.
TypeOK ==
    /\ pc       \in [Clients -> Labels]
    /\ batch    \in [Clients -> Seq(Rows)]
    /\ next     \in [Clients -> Nat \ {0}]
    /\ inserted \in [Clients -> Nat]
    /\ outcome  \in [Clients -> Outcomes]
    /\ conn     \in [Clients -> {"ok", "broken"}]
    /\ landed   \in [Clients -> BOOLEAN]
    /\ session  \in [Clients -> {"none", "open", "aborted", "committing"}]
    /\ sbatch   \in [Clients -> Seq(Rows)]
    /\ held     \in [Clients -> SUBSET Nat]
    /\ table \subseteq Rows /\ loose \in Nat /\ registered \subseteq Symbols
    /\ faults \in 0 .. MaxFaults
    /\ \A c \in Clients : pc[c] \in {"idle", "begin"} => next[c] = 1 /\ inserted[c] = 0

\* No call leaves a transaction behind on a connection that will be used
\* again: BEGIN is only ever sent to a session outside a transaction.
NoTransactionLeftOpen ==
    \A c \in Clients :
        (pc[c] \in {"idle", "begin"} /\ conn[c] = "ok") => session[c] = "none" /\ held[c] = {}

\* Key uniqueness survives concurrent batches with common keys.
KeysUnique ==
    \A r, s \in table : r.key = s.key => r = s

\* Every call ends, even when transactions wait for each other or for a
\* session whose client is gone.
CallsEnd == \A c \in Clients : pc[c] = "begin" ~> pc[c] = "idle"

-----------------------------------------------------------------------------
\* The promise this protocol keeps.
InLimbo(c) == session[c] = "committing" /\ pc[c] \in {"idle", "begin"}

\* What AtomicBatch sees of a call: where it stands, what it has added, and the
\* batch a broken session may still commit after its call has answered.
status == [c \in Clients |-> IF pc[c] = "idle" THEN "idle"
                             ELSE IF landed[c] THEN "applied" ELSE "pending"]
count  == [c \in Clients |-> IF landed[c] THEN inserted[c] ELSE 0]
limbo  == [c \in Clients |-> IF InLimbo(c) THEN {sbatch[c]} ELSE {}]

Promise == INSTANCE AtomicBatch WITH work <- batch, report <- outcome

KeepsPromise == Promise!Spec

-----------------------------------------------------------------------------
\* The inductive invariant that makes KeepsPromise true.

\* Which transaction state goes with which stage of the call.
Phase(c) ==
    /\ session[c] \in {"none", "aborted"} => held[c] = {} /\ sbatch[c] = <<>>
    /\ conn[c] = "ok" =>
         /\ pc[c] \in {"idle", "begin", "committed"} => session[c] = "none"
         /\ pc[c] \in {"insert", "commit"} => session[c] = "open"
         /\ pc[c] = "rollback" => session[c] = "aborted"
    /\ IF pc[c] = "idle" THEN batch[c] = <<>> ELSE batch[c] \in Batches
    /\ pc[c] = "committed" => landed[c]
    /\ landed[c] =>
         /\ pc[c] \in {"commit", "rollback", "committed"} /\ session[c] = "none"
         /\ pc[c] = "committed" \/ conn[c] = "broken"

\* The row loop has inserted exactly the fresh rows it has passed.
LoopExact(c) ==
    (pc[c] \in {"insert", "commit"} /\ session[c] \in {"open", "committing"}) =>
        /\ sbatch[c] = batch[c] /\ next[c] <= Len(batch[c]) + 1
        /\ held[c] = {i \in Fresh(table, batch[c]) : i < next[c]}
        /\ inserted[c] = Cardinality(held[c])
        /\ pc[c] = "commit" => next[c] = Len(batch[c]) + 1
        /\ \A i \in 1 .. (next[c] - 1) : Keyed(batch[c][i]) =>
              batch[c][i].key \in KeysOf(table) \cup HeldKeys(c)

\* A COMMIT on its way belongs to the running call or to one that has failed.
CommittingExact(c) ==
    session[c] = "committing" =>
        /\ conn[c] = "broken" /\ pc[c] \in {"commit", "rollback", "idle", "begin"}
        /\ held[c] = Fresh(table, sbatch[c])
        /\ pc[c] \in {"commit", "rollback"} =>
             sbatch[c] = batch[c] /\ inserted[c] = Cardinality(held[c]) /\ ~ landed[c]

\* Rows of open transactions collide neither with durable rows nor with
\* those of another transaction.
HeldFresh(c)   == held[c] \subseteq Fresh(table, sbatch[c])
LocksDisjoint  == \A c, d \in Clients : c /= d => HeldKeys(c) \cap HeldKeys(d) = {}

TableKeyed == \A r \in table : Keyed(r)

IndInv ==
    /\ TypeOK /\ LocksDisjoint /\ KeysUnique /\ TableKeyed
    /\ \A c \in Clients : Phase(c) /\ LoopExact(c) /\ CommittingExact(c) /\ HeldFresh(c)
=============================================================================

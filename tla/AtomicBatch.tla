----------------------------- MODULE AtomicBatch -----------------------------
(***************************************************************************)
(* What MarketDataRepository promises of its insert operations             *)
(* (docs/postgresql-architecture: a batch is all or nothing, duplicates    *)
(* are not errors): a batch is applied once and as a whole or not at all.  *)
(* A reported count is the number of rows the batch added.  A reported     *)
(* failure leaves it open whether the batch was, or still will be,         *)
(* applied: the caller cannot know when the connection broke at COMMIT.    *)
(* So does no answer at all, from a process that was killed.               *)
(***************************************************************************)
EXTENDS BatchData

VARIABLES
    table,   \* the keyed rows that are durable
    loose,   \* how many rows without a key are durable
    status,  \* per client: "idle", "pending" or "applied"
    work,    \* per client: the batch of the call in progress
    count,   \* per client: rows added by the applied batch
    report,  \* per client: what its last call answered, "none" if it did not
    limbo    \* per client: batches not reported as stored that may still land

avars == <<table, loose, status, work, count, report, limbo>>

Init ==
    /\ table = {} /\ loose = 0
    /\ status = [c \in Clients |-> "idle"]
    /\ work   = [c \in Clients |-> <<>>]
    /\ count  = [c \in Clients |-> 0]
    /\ report = [c \in Clients |-> "none"]
    /\ limbo  = [c \in Clients |-> {}]

Merge(b) ==
    /\ table' = table \cup KeyedRows(b, Fresh(table, b))
    /\ loose' = loose + LooseCount(b, Fresh(table, b))

\* A call that does not reach the table: nothing to insert, invalid rows, no
\* connection; or what a client does besides inserting.
Trivial(c) ==
    /\ status[c] = "idle"
    /\ UNCHANGED <<status, work, count, limbo, loose, table>>
    /\ \E r \in {"stored", "invalid", "failed", "none"} : report' = [report EXCEPT ![c] = r]

Submit(c) ==
    /\ status[c] = "idle"
    /\ status' = [status EXCEPT ![c] = "pending"]
    /\ \E b \in Batches : work' = [work EXCEPT ![c] = b]
    /\ report' = [report EXCEPT ![c] = "none"]
    /\ UNCHANGED <<table, loose, count, limbo>>

Apply(c) ==
    /\ status[c] = "pending"
    /\ status' = [status EXCEPT ![c] = "applied"]
    /\ Merge(work[c])
    /\ count'  = [count EXCEPT ![c] = Cardinality(Fresh(table, work[c]))]
    /\ UNCHANGED <<work, report, limbo>>

Answer(c, r) ==
    /\ status' = [status EXCEPT ![c] = "idle"]
    /\ work'   = [work EXCEPT ![c] = <<>>]
    /\ count'  = [count EXCEPT ![c] = 0]
    /\ report' = [report EXCEPT ![c] = r]
    /\ UNCHANGED <<table, loose>>

\* Only an applied batch is reported as stored; an applied one may also be
\* reported as failed, or not at all.
Finish(c) ==
    /\ status[c] = "applied"
    /\ \E r \in {"stored", "failed", "none"} : Answer(c, r)
    /\ UNCHANGED limbo

\* The call ends in failure before the batch was applied: it never will
\* be, or it is in limbo.
Fail(c) ==
    /\ status[c] = "pending"
    /\ \E r \in {"failed", "none"} : Answer(c, r)
    /\ \/ UNCHANGED limbo
       \/ limbo' = [limbo EXCEPT ![c] = {work[c]}]

\* A batch in limbo lands, once, or is lost.
Land(c) ==
    \E b \in limbo[c] :
        /\ Merge(b)
        /\ limbo' = [limbo EXCEPT ![c] = {}]
        /\ UNCHANGED <<status, work, count, report>>

Lose(c) ==
    /\ limbo[c] /= {}
    /\ limbo' = [limbo EXCEPT ![c] = {}]
    /\ UNCHANGED <<table, loose, status, work, count, report>>

Next == \E c \in Clients :
            Trivial(c) \/ Submit(c) \/ Apply(c) \/ Finish(c) \/ Fail(c)
            \/ Land(c) \/ Lose(c)

Spec == Init /\ [][Next]_avars
=============================================================================

------------------------- MODULE PgRepository_proofs -------------------------
(* Proofs about PgRepository for any number of clients, any rows and batches *)
(* and any number of faults: no transaction is left open, conflict keys stay *)
(* unique, and the protocol implements AtomicBatch, whatever interleaves and *)
(* breaks.                                                                   *)
EXTENDS PgRepository, FiniteSetTheorems, SequenceTheorems, TLAPS

USE FaultsAssumption

-----------------------------------------------------------------------------
\* Facts about the operators on batches.

\* The positions of a batch, and the rows at them.
LEMMA BatchPositions ==
    ASSUME NEW b \in Seq(Rows)
    PROVE  /\ Len(b) \in Nat /\ DOMAIN b = 1 .. Len(b)
           /\ \A i \in 1 .. Len(b) : b[i] \in Rows
BY LenProperties, ElementOfSeq

\* The batches of Batches are sequences of rows.
LEMMA BatchesAreRows == \A b \in Batches : b \in Seq(Rows)
BY RowsAssumption

\* The keys an open transaction holds, spelled out.
LEMMA HeldKeysOf ==
    ASSUME NEW c \in Clients
    PROVE  \A k : k \in HeldKeys(c) <=>
                    \E i \in held[c] : Keyed(sbatch[c][i]) /\ sbatch[c][i].key = k
BY DEF HeldKeys, KeyedRows

\* The positions an open transaction holds are positions of its batch.
LEMMA HeldPositions ==
    ASSUME TypeOK, NEW c \in Clients, HeldFresh(c)
    PROVE  /\ sbatch[c] \in Seq(Rows) /\ held[c] \subseteq 1 .. Len(sbatch[c])
           /\ IsFiniteSet(held[c]) /\ Cardinality(held[c]) \in Nat
<1>1. sbatch[c] \in Seq(Rows)
  BY DEF TypeOK
<1>2. Len(sbatch[c]) \in Nat /\ held[c] \subseteq 1 .. Len(sbatch[c])
  BY <1>1, BatchPositions DEF HeldFresh, Fresh
<1>3. IsFiniteSet(held[c])
  <2>1. IsFiniteSet(1 .. Len(sbatch[c]))  BY <1>2, FS_Interval
  <2> QED  BY <1>2, <2>1, FS_Subset
<1> QED  BY <1>1, <1>2, <1>3, FS_CardinalityType

\* What a commit of c makes durable: rows whose keys were free and differ.
LEMMA DurableRows ==
    ASSUME TypeOK, KeysUnique, TableKeyed, NEW c \in Clients, HeldFresh(c), MakeDurable(c)
    PROVE  /\ table' \subseteq Rows /\ loose' \in Nat
           /\ KeysUnique' /\ TableKeyed'
           /\ KeysOf(table') = KeysOf(table) \cup HeldKeys(c)
<1>1. /\ sbatch[c] \in Seq(Rows) /\ held[c] \subseteq 1 .. Len(sbatch[c])
      /\ IsFiniteSet(held[c])
  BY HeldPositions
<1>2. \A i \in held[c] : sbatch[c][i] \in Rows
  BY <1>1, BatchPositions
<1>3. table' = table \cup KeyedRows(sbatch[c], held[c])
  BY DEF MakeDurable
<1>4. \A r \in KeyedRows(sbatch[c], held[c]) :
        \E i \in held[c] : r = sbatch[c][i] /\ Keyed(r)
  BY DEF KeyedRows
<1>5. table' \subseteq Rows /\ TableKeyed'
  <2>1. table \subseteq Rows  BY DEF TypeOK
  <2>2. \A r \in KeyedRows(sbatch[c], held[c]) : r \in Rows /\ Keyed(r)
    BY <1>2, <1>4
  <2> QED  BY <1>3, <2>1, <2>2 DEF TableKeyed
<1>6. loose' \in Nat
  <2>1. IsFiniteSet({i \in held[c] : ~ Keyed(sbatch[c][i])})
    BY <1>1, FS_Subset
  <2>2. LooseCount(sbatch[c], held[c]) \in Nat
    BY <2>1, FS_CardinalityType DEF LooseCount
  <2> QED  BY <2>2 DEF MakeDurable, TypeOK
<1>7. KeysOf(table') = KeysOf(table) \cup HeldKeys(c)
  BY <1>3 DEF KeysOf, HeldKeys
<1>8. ASSUME NEW r \in table', NEW s \in table', r.key = s.key  PROVE r = s
  <2>1. CASE r \in table /\ s \in table
    BY <1>8, <2>1 DEF KeysUnique
  <2>2. \A x \in table : \A i \in held[c] : Keyed(sbatch[c][i]) => sbatch[c][i].key /= x.key
    BY DEF HeldFresh, Fresh, KeysOf
  <2>3. \A i, j \in held[c] :
          Keyed(sbatch[c][i]) /\ sbatch[c][i].key = sbatch[c][j].key => i = j
    <3> SUFFICES ASSUME NEW i \in held[c], NEW j \in held[c], Keyed(sbatch[c][i]),
                        sbatch[c][i].key = sbatch[c][j].key
                 PROVE  i = j
      OBVIOUS
    <3>1. i \in Nat /\ j \in Nat /\ i >= 1 /\ j >= 1
      BY <1>1, BatchPositions
    <3>2. Keyed(sbatch[c][j])
      BY DEF Keyed
    <3>3. ~ (i < j) /\ ~ (j < i)
      BY <3>1, <3>2 DEF HeldFresh, Fresh
    <3> QED  BY <3>1, <3>3
  <2> QED  BY <1>3, <1>4, <1>8, <2>1, <2>2, <2>3
<1> QED  BY <1>5, <1>6, <1>7, <1>8 DEF KeysUnique

\* To another client whose transaction is open, such a commit changes nothing.
LEMMA DurableForOthers ==
    ASSUME TypeOK, LocksDisjoint, NEW c \in Clients, NEW d \in Clients, c /= d,
           HeldFresh(d), KeysOf(table') = KeysOf(table) \cup HeldKeys(c)
    PROVE  /\ held[d] \subseteq Fresh(table', sbatch[d])
           /\ \A b : Fresh(table', b) \subseteq Fresh(table, b)
<1>1. ASSUME NEW i \in held[d]  PROVE i \in Fresh(table', sbatch[d])
  <2>1. i \in Fresh(table, sbatch[d])
    BY DEF HeldFresh
  <2>2. Keyed(sbatch[d][i]) => sbatch[d][i].key \in HeldKeys(d)
    BY HeldKeysOf
  <2>3. Keyed(sbatch[d][i]) => sbatch[d][i].key \notin HeldKeys(c)
    BY <2>2 DEF LocksDisjoint
  <2> QED  BY <2>1, <2>3 DEF Fresh
<1>2. \A b : Fresh(table', b) \subseteq Fresh(table, b)
  BY DEF Fresh
<1> QED  BY <1>1, <1>2

-----------------------------------------------------------------------------
\* One step of one client.

Step(c) ==
    \/ \E s \in Symbols : Upsert(c, s)
    \/ \E b \in Batches : CallReturnsEarly(c, b) \/ Call(c, b)
    \/ Progress(c) \/ ServerError(c) \/ ConnectionBreaks(c)
    \/ SessionEnds(c) \/ LateCommit(c)

\* The helpers that end a call and a transaction keep the types.
LEMMA EndCallType ==
    ASSUME TypeOK, NEW c \in Clients, NEW r \in Outcomes, EndCall(c, r)
    PROVE  /\ pc' \in [Clients -> Labels] /\ batch' \in [Clients -> Seq(Rows)]
           /\ next' \in [Clients -> Nat \ {0}] /\ inserted' \in [Clients -> Nat]
           /\ outcome' \in [Clients -> Outcomes] /\ landed' \in [Clients -> BOOLEAN]
           /\ \A d \in Clients :
                pc'[d] \in {"idle", "begin"} => next'[d] = 1 /\ inserted'[d] = 0
<1>1. pc' \in [Clients -> Labels] /\ outcome' \in [Clients -> Outcomes]
  BY DEF EndCall, Goto, TypeOK, Labels
<1>2. batch' \in [Clients -> Seq(Rows)] /\ landed' \in [Clients -> BOOLEAN]
  BY EmptySeq DEF EndCall, TypeOK
<1>3. next' \in [Clients -> Nat \ {0}] /\ inserted' \in [Clients -> Nat]
  BY DEF EndCall, TypeOK
<1>4. \A d \in Clients : pc'[d] \in {"idle", "begin"} => next'[d] = 1 /\ inserted'[d] = 0
  BY DEF EndCall, Goto, TypeOK
<1> QED  BY <1>1, <1>2, <1>3, <1>4

LEMMA EndTransactionType ==
    ASSUME TypeOK, NEW c \in Clients, NEW state \in {"none", "aborted"},
           EndTransaction(c, state)
    PROVE  /\ session' \in [Clients -> {"none", "open", "aborted", "committing"}]
           /\ sbatch' \in [Clients -> Seq(Rows)] /\ held' \in [Clients -> SUBSET Nat]
<1>1. session' \in [Clients -> {"none", "open", "aborted", "committing"}]
  BY DEF EndTransaction, TypeOK
<1>2. sbatch' \in [Clients -> Seq(Rows)]
  BY EmptySeq DEF EndTransaction, TypeOK
<1>3. held' \in [Clients -> SUBSET Nat]
  BY DEF EndTransaction, TypeOK
<1> QED  BY <1>1, <1>2, <1>3

LEMMA GotoType ==
    ASSUME TypeOK, NEW c \in Clients, NEW label \in Labels, Goto(c, label)
    PROVE  /\ pc' \in [Clients -> Labels]
           /\ pc'[c] = label /\ \A d \in Clients \ {c} : pc'[d] = pc[d]
BY DEF Goto, TypeOK

\* Every step keeps the types.
LEMMA TypeStep ==
    ASSUME IndInv, NEW c \in Clients, Step(c)  PROVE TypeOK'
<1> USE DEF client, server, tables
<1>1. TypeOK
  BY DEF IndInv
<1>2. ASSUME NEW s \in Symbols, Upsert(c, s)  PROVE TypeOK'
  BY <1>1, <1>2 DEF Upsert, TypeOK
<1>3. ASSUME NEW b \in Batches, CallReturnsEarly(c, b)  PROVE TypeOK'
  <2>1. outcome' \in [Clients -> Outcomes]
    BY <1>1, <1>3 DEF CallReturnsEarly, TypeOK, Outcomes
  <2> QED  BY <1>1, <1>3, <2>1 DEF CallReturnsEarly, TypeOK
<1>4. ASSUME NEW b \in Batches, Call(c, b)  PROVE TypeOK'
  <2>1. outcome' \in [Clients -> Outcomes]
    BY <1>1, <1>4 DEF Call, TypeOK, Outcomes
  <2>2. batch' \in [Clients -> Seq(Rows)]
    BY <1>1, <1>4, BatchesAreRows DEF Call, TypeOK
  <2>3. pc' \in [Clients -> Labels] /\ pc[c] = "idle" /\ \A d \in Clients \ {c} : pc'[d] = pc[d]
    BY <1>1, <1>4, GotoType DEF Call, Labels
  <2> QED  BY <1>1, <1>4, <2>1, <2>2, <2>3 DEF Call, TypeOK
<1>5. CASE Begin(c)
  <2>1. pc' \in [Clients -> Labels] /\ pc'[c] = "insert"
        /\ \A d \in Clients \ {c} : pc'[d] = pc[d]
    BY <1>1, <1>5, GotoType DEF Begin, Labels
  <2>2. session' \in [Clients -> {"none", "open", "aborted", "committing"}]
    BY <1>1, <1>5 DEF Begin, TypeOK
  <2>3. sbatch' \in [Clients -> Seq(Rows)] /\ held' \in [Clients -> SUBSET Nat]
    BY <1>1, <1>5 DEF Begin, TypeOK
  <2> QED  BY <1>1, <1>5, <2>1, <2>2, <2>3 DEF Begin, TypeOK
<1>6. CASE BeginFails(c) \/ Stored(c) \/ RollbackSwallowed(c)
  <2>1. PICK r \in Outcomes : EndCall(c, r)
    BY <1>6 DEF BeginFails, Stored, RollbackSwallowed, Outcomes
  <2>2. UNCHANGED <<conn, server, tables, faults>>
    BY <1>6 DEF BeginFails, Stored, RollbackSwallowed
  <2> QED  BY <1>1, <2>1, <2>2, EndCallType DEF TypeOK
<1>7. CASE Rollback(c)
  <2>1. EndCall(c, "failed") /\ EndTransaction(c, "none") /\ "failed" \in Outcomes
    BY <1>7 DEF Rollback, Outcomes
  <2> QED  BY <1>1, <1>7, <2>1, EndCallType, EndTransactionType DEF Rollback, TypeOK
<1>8. CASE Insert(c)
  <2>1. next[c] \in Nat \ {0} /\ pc[c] = "insert"
    BY <1>1, <1>8 DEF Insert, AtRow, TypeOK
  <2>2. next' \in [Clients -> Nat \ {0}] /\ \A d \in Clients \ {c} : next'[d] = next[d]
    BY <1>1, <1>8, <2>1 DEF Insert, TypeOK
  <2>3. /\ inserted' \in [Clients -> Nat] /\ held' \in [Clients -> SUBSET Nat]
        /\ \A d \in Clients \ {c} : inserted'[d] = inserted[d]
    <3>1. CASE UNCHANGED <<inserted, held>>
      BY <1>1, <3>1 DEF TypeOK
    <3>2. CASE /\ inserted' = [inserted EXCEPT ![c] = @ + 1]
               /\ held' = [held EXCEPT ![c] = @ \cup {next[c]}]
      BY <1>1, <3>2, <2>1 DEF TypeOK
    <3> QED  BY <1>8, <3>1, <3>2 DEF Insert
  <2> QED  BY <1>1, <1>8, <2>1, <2>2, <2>3 DEF Insert, TypeOK
<1>9. CASE InsertRefused(c) \/ DeadlockVictim(c) \/ ServerError(c)
  <2>1. Refuse(c) /\ faults' \in 0 .. MaxFaults
    BY <1>1, <1>9 DEF InsertRefused, DeadlockVictim, ServerError, Fault, TypeOK
  <2>2. Goto(c, "rollback") /\ EndTransaction(c, "aborted") /\ "rollback" \in Labels
    BY <2>1 DEF Refuse, Labels
  <2>3. pc' \in [Clients -> Labels] /\ pc'[c] = "rollback"
        /\ \A d \in Clients \ {c} : pc'[d] = pc[d]
    BY <1>1, <2>2, GotoType
  <2> QED  BY <1>1, <2>1, <2>2, <2>3, EndTransactionType DEF Refuse, TypeOK
<1>10. CASE RowsDone(c) \/ ErrorNoticed(c)
  <2>1. PICK label \in {"commit", "rollback"} : Goto(c, label)
    BY <1>10 DEF RowsDone, ErrorNoticed
  <2>2. pc' \in [Clients -> Labels] /\ pc'[c] \in {"commit", "rollback"}
        /\ \A d \in Clients \ {c} : pc'[d] = pc[d]
    BY <1>1, <2>1, GotoType DEF Labels
  <2> QED  BY <1>1, <1>10, <2>2 DEF RowsDone, ErrorNoticed, TypeOK
<1>11. CASE Commit(c) \/ LateCommit(c)
  <2>1. MakeDurable(c) /\ HeldFresh(c) /\ KeysUnique /\ TableKeyed
    BY <1>11 DEF Commit, LateCommit, IndInv
  <2>2. table' \subseteq Rows /\ loose' \in Nat
    BY <1>1, <2>1, DurableRows
  <2>3. EndTransaction(c, "none") /\ UNCHANGED registered
    BY <2>1 DEF MakeDurable
  <2>4. landed' \in [Clients -> BOOLEAN]
    <3>1. CASE Commit(c)
      BY <1>1, <3>1 DEF Commit, TypeOK
    <3>2. CASE LateCommit(c)
      <4> DEFINE inCall == pc[c] \in {"commit", "rollback"}
      <4>1. inCall = TRUE \/ inCall = FALSE
        OBVIOUS
      <4>2. landed' = [landed EXCEPT ![c] = inCall]
        BY <3>2 DEF LateCommit
      <4> HIDE DEF inCall
      <4> QED  BY <1>1, <4>1, <4>2 DEF TypeOK
    <3> QED  BY <1>11, <3>1, <3>2
  <2>5. /\ pc' \in [Clients -> Labels]
        /\ \A d \in Clients : pc'[d] = pc[d] \/ pc'[d] = "committed"
    BY <1>1, <1>11, GotoType DEF Commit, LateCommit, Labels, TypeOK
  <2> QED
    BY <1>1, <1>11, <2>2, <2>3, <2>4, <2>5, EndTransactionType DEF Commit, LateCommit, TypeOK
<1>12. CASE ConnectionBreaks(c)
  <2>1. faults' \in 0 .. MaxFaults
    BY <1>1, <1>12 DEF ConnectionBreaks, Fault, TypeOK
  <2>2. conn' \in [Clients -> {"ok", "broken"}]
    BY <1>1, <1>12 DEF ConnectionBreaks, TypeOK
  <2>3. session' \in [Clients -> {"none", "open", "aborted", "committing"}]
    BY <1>1, <1>12 DEF ConnectionBreaks, TypeOK
  <2> QED  BY <1>1, <1>12, <2>1, <2>2, <2>3 DEF ConnectionBreaks, TypeOK
<1>13. CASE SessionEnds(c)
  BY <1>1, <1>13, EndTransactionType DEF SessionEnds, TypeOK
<1> QED
  BY <1>2, <1>3, <1>4, <1>5, <1>6, <1>7, <1>8, <1>9, <1>10, <1>11, <1>12, <1>13
     DEF Step, Progress

\* A step of one client touches nothing of the others but the tables.
LEMMA OthersUntouched ==
    ASSUME TypeOK, NEW c \in Clients, Step(c), NEW d \in Clients, d /= c
    PROVE  /\ pc'[d] = pc[d] /\ batch'[d] = batch[d] /\ next'[d] = next[d]
           /\ inserted'[d] = inserted[d] /\ conn'[d] = conn[d] /\ landed'[d] = landed[d]
           /\ session'[d] = session[d] /\ sbatch'[d] = sbatch[d] /\ held'[d] = held[d]
<1> USE DEF TypeOK, Goto, EndTransaction, EndCall, client, server, tables
<1>1. CASE Progress(c)
  <2>1. CASE Begin(c) \/ BeginFails(c) \/ RowsDone(c) \/ Stored(c) \/ ErrorNoticed(c)
    BY <2>1 DEF Begin, BeginFails, RowsDone, Stored, ErrorNoticed
  <2>2. CASE Insert(c)
    BY <2>2 DEF Insert
  <2>3. CASE InsertRefused(c) \/ DeadlockVictim(c)
    BY <2>3 DEF InsertRefused, DeadlockVictim, Refuse
  <2>4. CASE Commit(c)
    BY <2>4 DEF Commit, MakeDurable
  <2>5. CASE Rollback(c) \/ RollbackSwallowed(c)
    BY <2>5 DEF Rollback, RollbackSwallowed
  <2> QED  BY <1>1, <2>1, <2>2, <2>3, <2>4, <2>5 DEF Progress
<1>2. CASE \E s \in Symbols : Upsert(c, s)
  BY <1>2 DEF Upsert
<1>3. CASE \E b \in Batches : CallReturnsEarly(c, b) \/ Call(c, b)
  BY <1>3 DEF CallReturnsEarly, Call
<1>4. CASE ServerError(c)
  BY <1>4 DEF ServerError, Refuse
<1>5. CASE ConnectionBreaks(c)
  BY <1>5 DEF ConnectionBreaks
<1>6. CASE SessionEnds(c) \/ LateCommit(c)
  BY <1>6 DEF SessionEnds, LateCommit, MakeDurable
<1> QED  BY <1>1, <1>2, <1>3, <1>4, <1>5, <1>6 DEF Step

\* Every step keeps the phases of a call and its transaction aligned.
LEMMA PhaseStep ==
    ASSUME IndInv, NEW c \in Clients, Step(c)  PROVE \A d \in Clients : Phase(d)'
<1>1. TypeOK /\ Phase(c) /\ LoopExact(c) /\ CommittingExact(c)
  BY DEF IndInv
<1>2. ASSUME NEW d \in Clients, d /= c  PROVE Phase(d)'
  <2>1. Phase(d)
    BY DEF IndInv
  <2> QED  BY <1>1, <1>2, <2>1, OthersUntouched DEF Phase
<1>3. Phase(c)'
  <2> USE DEF TypeOK, Goto, EndTransaction, EndCall, client, server, tables, Labels
  <2>1. CASE \E s \in Symbols : Upsert(c, s)
    BY <1>1, <2>1 DEF Upsert, Phase
  <2>2. CASE \E b \in Batches : CallReturnsEarly(c, b) \/ Call(c, b)
    BY <1>1, <2>2 DEF CallReturnsEarly, Call, Phase
  <2>3. CASE Begin(c)
    BY <1>1, <2>3 DEF Begin, Phase
  <2>4. CASE BeginFails(c) \/ Stored(c) \/ RollbackSwallowed(c)
    BY <1>1, <2>4 DEF BeginFails, Stored, RollbackSwallowed, Phase
  <2>5. CASE Insert(c)
    BY <1>1, <2>5 DEF Insert, AtRow, Phase
  <2>6. CASE InsertRefused(c) \/ DeadlockVictim(c) \/ ServerError(c)
    BY <1>1, <2>6
       DEF InsertRefused, DeadlockVictim, Deadlocked, ServerError, Refuse, Waits, AtRow, Phase
  <2>7. CASE RowsDone(c) \/ ErrorNoticed(c)
    BY <1>1, <2>7 DEF RowsDone, ErrorNoticed, Phase
  <2>8. CASE Commit(c)
    BY <1>1, <2>8 DEF Commit, MakeDurable, Phase
  <2>9. CASE Rollback(c)
    BY <1>1, <2>9 DEF Rollback, Phase
  <2>10. CASE ConnectionBreaks(c)
    BY <1>1, <2>10 DEF ConnectionBreaks, Phase
  <2>11. CASE SessionEnds(c)
    BY <1>1, <2>11 DEF SessionEnds, Phase
  <2>12. CASE LateCommit(c)
    BY <1>1, <2>12 DEF LateCommit, MakeDurable, CommittingExact, Phase
  <2> QED
    BY <2>1, <2>2, <2>3, <2>4, <2>5, <2>6, <2>7, <2>8, <2>9, <2>10, <2>11, <2>12
       DEF Step, Progress
<1> QED  BY <1>2, <1>3

-----------------------------------------------------------------------------
\* What open transactions hold.

\* The row loop of c inserts a row that no earlier one shares its key with.
LEMMA InsertedRowFresh ==
    ASSUME IndInv, NEW c \in Clients, Insert(c), ~ Conflict(c)
    PROVE  /\ next[c] \in Fresh(table, batch[c]) /\ next[c] \notin held[c]
           /\ sbatch[c] = batch[c] /\ next[c] \in 1 .. Len(batch[c])
<1>1. TypeOK /\ Phase(c) /\ LoopExact(c)
  BY DEF IndInv
<1>2. pc[c] = "insert" /\ session[c] = "open" /\ next[c] <= Len(batch[c])
  BY <1>1 DEF Insert, AtRow, Phase
<1>3. /\ sbatch[c] = batch[c]
      /\ held[c] = {i \in Fresh(table, batch[c]) : i < next[c]}
      /\ \A i \in 1 .. (next[c] - 1) : Keyed(batch[c][i]) =>
            batch[c][i].key \in KeysOf(table) \cup HeldKeys(c)
  BY <1>1, <1>2 DEF LoopExact
<1>4. /\ batch[c] \in Seq(Rows) /\ Len(batch[c]) \in Nat
      /\ DOMAIN batch[c] = 1 .. Len(batch[c]) /\ next[c] \in 1 .. Len(batch[c])
  BY <1>1, <1>2, BatchPositions DEF TypeOK
<1>5. Row(c).key \notin KeysOf(table) \cup HeldKeys(c)
  BY DEF Conflict
<1>6. ASSUME NEW j \in 1 .. (next[c] - 1), Keyed(Row(c))  PROVE batch[c][j].key /= Row(c).key
  <2>1. CASE Keyed(batch[c][j])
    BY <1>3, <1>5, <2>1
  <2>2. CASE ~ Keyed(batch[c][j])
    BY <1>6, <2>2 DEF Keyed
  <2> QED  BY <2>1, <2>2
<1>7. next[c] \in Fresh(table, batch[c])
  BY <1>4, <1>5, <1>6 DEF Fresh, Row
<1> QED  BY <1>3, <1>4, <1>7

\* The ways a step treats what is held and what is durable.
LEMMA HeldKinds ==
    ASSUME IndInv, NEW c \in Clients, Step(c)
    PROVE  \/ UNCHANGED <<held, sbatch, table>>
           \/ held' = [held EXCEPT ![c] = {}] /\ UNCHANGED table
           \/ Insert(c) /\ ~ Conflict(c)
           \/ MakeDurable(c) /\ (Commit(c) \/ LateCommit(c))
BY DEF Step, Progress, Upsert, CallReturnsEarly, Call, Begin, BeginFails, Insert, InsertRefused,
       DeadlockVictim, ServerError, Refuse, RowsDone, Commit, Stored, ErrorNoticed, Rollback,
       RollbackSwallowed, ConnectionBreaks, SessionEnds, LateCommit, EndTransaction, server, tables

\* Every step keeps what open transactions hold fresh and disjoint.
LEMMA HeldStep ==
    ASSUME IndInv, NEW c \in Clients, Step(c)
    PROVE  LocksDisjoint' /\ \A d \in Clients : HeldFresh(d)'
<1>1. TypeOK /\ LocksDisjoint /\ \A d \in Clients : HeldFresh(d)
  BY DEF IndInv
<1>2. \A d \in Clients : d /= c => held'[d] = held[d] /\ sbatch'[d] = sbatch[d]
  BY <1>1, OthersUntouched
<1>3. \A d \in Clients : d /= c => HeldKeys(d)' = HeldKeys(d)
  BY <1>2 DEF HeldKeys
<1>4. CASE UNCHANGED <<held, sbatch, table>>
  <2>1. \A d \in Clients : HeldKeys(d)' = HeldKeys(d)
    BY <1>4 DEF HeldKeys
  <2> QED  BY <1>1, <1>4, <2>1 DEF LocksDisjoint, HeldFresh
<1>5. CASE held' = [held EXCEPT ![c] = {}] /\ UNCHANGED table
  <2>1. held'[c] = {}
    BY <1>1, <1>5 DEF TypeOK
  <2>2. HeldKeys(c)' = {}
    BY <2>1 DEF HeldKeys, KeyedRows
  <2>3. LocksDisjoint'
    BY <1>1, <1>3, <2>2 DEF LocksDisjoint
  <2> QED  BY <1>1, <1>2, <1>5, <2>1, <2>3 DEF HeldFresh
<1>6. CASE Insert(c) /\ ~ Conflict(c)
  <2>1. /\ held'[c] = held[c] \cup {next[c]} /\ sbatch'[c] = sbatch[c] /\ table' = table
        /\ \A d \in Clients : ~ Waits(c, d)
        /\ AtRow(c)
    BY <1>1, <1>6 DEF Insert, TypeOK, tables
  <2>2. next[c] \in Fresh(table, batch[c]) /\ sbatch[c] = batch[c]
    BY <1>6, InsertedRowFresh
  <2>3. HeldFresh(c)'
    BY <1>1, <2>1, <2>2 DEF HeldFresh
  <2>4. \A d \in Clients : d /= c => Row(c).key \notin HeldKeys(d)
    BY <2>1 DEF Waits
  <2>5. HeldKeys(c)' \subseteq HeldKeys(c) \cup {Row(c).key}
    BY <2>1, <2>2 DEF HeldKeys, KeyedRows, Row
  <2>6. LocksDisjoint'
    BY <1>1, <1>3, <2>4, <2>5 DEF LocksDisjoint
  <2> QED  BY <1>1, <1>2, <2>1, <2>3, <2>6 DEF HeldFresh
<1>7. CASE MakeDurable(c)
  <2>1. held'[c] = {}
    BY <1>1, <1>7 DEF TypeOK, MakeDurable, EndTransaction
  <2>2. HeldKeys(c)' = {}
    BY <2>1 DEF HeldKeys, KeyedRows
  <2>3. LocksDisjoint'
    BY <1>1, <1>3, <2>2 DEF LocksDisjoint
  <2>4. KeysOf(table') = KeysOf(table) \cup HeldKeys(c)
    BY <1>1, <1>7, DurableRows DEF IndInv
  <2>5. ASSUME NEW d \in Clients, d /= c  PROVE HeldFresh(d)'
    <3>1. held[d] \subseteq Fresh(table', sbatch[d])
      BY <1>1, <2>4, <2>5, DurableForOthers
    <3> QED  BY <1>2, <2>5, <3>1 DEF HeldFresh
  <2> QED  BY <2>1, <2>3, <2>5 DEF HeldFresh
<1> QED  BY <1>4, <1>5, <1>6, <1>7, HeldKinds

\* Every step keeps the durable rows keyed as the table stores them.
LEMMA TableStep ==
    ASSUME IndInv, NEW c \in Clients, Step(c)
    PROVE  KeysUnique' /\ TableKeyed' /\ KeysOf(table) \subseteq KeysOf(table')
<1>1. TypeOK /\ KeysUnique /\ TableKeyed /\ HeldFresh(c)
  BY DEF IndInv
<1>2. CASE UNCHANGED table
  BY <1>1, <1>2 DEF KeysUnique, TableKeyed
<1>3. CASE MakeDurable(c)
  BY <1>1, <1>3, DurableRows
<1> QED  BY <1>2, <1>3, HeldKinds DEF Insert, tables

\* To the others, the row loop stays exact when c commits.
LEMMA LoopOfOthers ==
    ASSUME IndInv, NEW c \in Clients, Step(c), NEW d \in Clients, d /= c
    PROVE  LoopExact(d)' /\ CommittingExact(d)'
<1>1. TypeOK /\ LocksDisjoint /\ HeldFresh(d) /\ HeldFresh(c) /\ LoopExact(d) /\ CommittingExact(d)
  BY DEF IndInv
<1>2. /\ pc'[d] = pc[d] /\ batch'[d] = batch[d] /\ next'[d] = next[d]
      /\ inserted'[d] = inserted[d] /\ conn'[d] = conn[d] /\ landed'[d] = landed[d]
      /\ session'[d] = session[d] /\ sbatch'[d] = sbatch[d] /\ held'[d] = held[d]
  BY <1>1, OthersUntouched
<1>3. HeldKeys(d)' = HeldKeys(d)
  BY <1>2 DEF HeldKeys
<1>4. KeysOf(table) \subseteq KeysOf(table')
  BY TableStep
<1>5. /\ held[d] \subseteq Fresh(table', sbatch[d])
      /\ Fresh(table', sbatch[d]) \subseteq Fresh(table, sbatch[d])
  <2>1. CASE UNCHANGED table
    BY <1>1, <2>1 DEF HeldFresh
  <2>2. CASE MakeDurable(c)
    <3>1. KeysOf(table') = KeysOf(table) \cup HeldKeys(c)
      BY <1>1, <2>2, DurableRows DEF IndInv
    <3> QED  BY <1>1, <3>1, DurableForOthers
  <2> QED  BY <2>1, <2>2, HeldKinds DEF Insert, tables
<1>6. LoopExact(d)'
  <2> SUFFICES ASSUME pc[d] \in {"insert", "commit"}, session[d] \in {"open", "committing"}
               PROVE  /\ sbatch[d] = batch[d] /\ next[d] <= Len(batch[d]) + 1
                      /\ held[d] = {i \in Fresh(table', batch[d]) : i < next[d]}
                      /\ inserted[d] = Cardinality(held[d])
                      /\ pc[d] = "commit" => next[d] = Len(batch[d]) + 1
                      /\ \A i \in 1 .. (next[d] - 1) : Keyed(batch[d][i]) =>
                            batch[d][i].key \in KeysOf(table') \cup HeldKeys(d)
    BY <1>2, <1>3 DEF LoopExact
  <2>1. /\ sbatch[d] = batch[d]
        /\ held[d] = {i \in Fresh(table, batch[d]) : i < next[d]}
        /\ \A i \in 1 .. (next[d] - 1) : Keyed(batch[d][i]) =>
              batch[d][i].key \in KeysOf(table) \cup HeldKeys(d)
    BY <1>1 DEF LoopExact
  <2>2. held[d] = {i \in Fresh(table', batch[d]) : i < next[d]}
    BY <1>5, <2>1
  <2> QED  BY <1>1, <1>4, <2>1, <2>2 DEF LoopExact
<1>7. CommittingExact(d)'
  BY <1>1, <1>2, <1>5 DEF CommittingExact
<1> QED  BY <1>6, <1>7

\* A step of the row loop.
LEMMA LoopInsert ==
    ASSUME IndInv, NEW c \in Clients, Insert(c)  PROVE LoopExact(c)'
<1>1. TypeOK /\ LoopExact(c) /\ HeldFresh(c) /\ Phase(c)
  BY DEF IndInv
<1>2. /\ pc[c] = "insert" /\ session[c] = "open" /\ next[c] <= Len(batch[c])
      /\ pc' = pc /\ batch' = batch /\ session' = session /\ sbatch' = sbatch /\ table' = table
      /\ next'[c] = next[c] + 1 /\ next[c] \in Nat \ {0}
      /\ batch[c] \in Seq(Rows)
  BY <1>1 DEF Insert, AtRow, Phase, TypeOK, tables
<1>3. /\ sbatch[c] = batch[c]
      /\ held[c] = {i \in Fresh(table, batch[c]) : i < next[c]}
      /\ inserted[c] = Cardinality(held[c])
      /\ \A i \in 1 .. (next[c] - 1) : Keyed(batch[c][i]) =>
            batch[c][i].key \in KeysOf(table) \cup HeldKeys(c)
  BY <1>1, <1>2 DEF LoopExact
<1>4. /\ Len(batch[c]) \in Nat /\ Fresh(table, batch[c]) \subseteq 1 .. Len(batch[c])
      /\ DOMAIN batch[c] = 1 .. Len(batch[c])
  BY <1>2, BatchPositions DEF Fresh
<1>5. CASE Conflict(c) /\ UNCHANGED <<inserted, held>>
  <2>1. HeldKeys(c)' = HeldKeys(c)
    BY <1>2, <1>5 DEF HeldKeys
  <2>2. Keyed(Row(c)) => next[c] \notin Fresh(table, batch[c])
    <3>1. ASSUME Row(c).key \in HeldKeys(c)
          PROVE  \E j \in 1 .. (next[c] - 1) : batch[c][j].key = batch[c][next[c]].key
      <4>1. PICK i \in held[c] : sbatch[c][i].key = Row(c).key
        BY <3>1, HeldKeysOf
      <4>2. i \in 1 .. (next[c] - 1)
        BY <1>2, <1>3, <1>4
      <4> QED  BY <1>3, <4>1, <4>2 DEF Row
    <3> QED  BY <1>5, <3>1 DEF Conflict, Fresh, Row
  <2>3. Keyed(Row(c))
    <3>1. \A k \in KeysOf(table) \cup HeldKeys(c) : k /= NoKey
      BY HeldKeysOf DEF IndInv, TableKeyed, KeysOf, Keyed
    <3> QED  BY <1>5, <3>1 DEF Conflict, Keyed
  <2>4. held[c] = {i \in Fresh(table, batch[c]) : i < next[c] + 1}
    BY <1>2, <1>3, <1>4, <2>2, <2>3
  <2>5. \A i \in 1 .. next[c] : Keyed(batch[c][i]) =>
          batch[c][i].key \in KeysOf(table) \cup HeldKeys(c)
    BY <1>2, <1>3, <1>5 DEF Conflict, Row
  <2>6. held'[c] = held[c] /\ inserted'[c] = inserted[c] /\ next'[c] - 1 = next[c]
    BY <1>2, <1>5
  <2>7. next'[c] <= Len(batch[c]) + 1
    BY <1>2, <1>4
  <2> QED  BY <1>2, <1>3, <2>1, <2>4, <2>5, <2>6, <2>7 DEF LoopExact
<1>6. CASE /\ ~ Conflict(c) /\ inserted' = [inserted EXCEPT ![c] = @ + 1]
           /\ held' = [held EXCEPT ![c] = @ \cup {next[c]}]
  <2>1. next[c] \in Fresh(table, batch[c]) /\ next[c] \notin held[c]
    BY <1>6, InsertedRowFresh
  <2>2. held'[c] = held[c] \cup {next[c]} /\ inserted'[c] = inserted[c] + 1
    BY <1>1, <1>6 DEF TypeOK
  <2>3. inserted'[c] = Cardinality(held'[c])
    <3>1. IsFiniteSet(held[c])
      BY <1>1, HeldPositions
    <3> QED  BY <1>3, <2>1, <2>2, <3>1, FS_AddElement
  <2>4. held'[c] = {i \in Fresh(table, batch[c]) : i < next[c] + 1}
    BY <1>2, <1>3, <1>4, <2>1, <2>2
  <2>5. \A i \in 1 .. next[c] : Keyed(batch[c][i]) =>
          batch[c][i].key \in KeysOf(table) \cup HeldKeys(c)'
    <3>1. HeldKeys(c)' = {r.key : r \in KeyedRows(batch[c], held[c] \cup {next[c]})}
      BY <1>2, <1>3, <2>2 DEF HeldKeys
    <3>2. HeldKeys(c) \subseteq HeldKeys(c)'
      BY <1>3, <3>1 DEF HeldKeys, KeyedRows
    <3>3. Keyed(batch[c][next[c]]) => batch[c][next[c]].key \in HeldKeys(c)'
      BY <3>1 DEF KeyedRows
    <3> QED  BY <1>2, <1>3, <3>2, <3>3
  <2> QED  BY <1>2, <1>3, <1>4, <2>3, <2>4, <2>5 DEF LoopExact
<1> QED  BY <1>5, <1>6 DEF Insert

\* Every step keeps the row loop, and a pending COMMIT, exact.
LEMMA LoopStep ==
    ASSUME IndInv, NEW c \in Clients, Step(c)
    PROVE  LoopExact(c)' /\ CommittingExact(c)'
<1>1. TypeOK /\ Phase(c) /\ LoopExact(c) /\ CommittingExact(c) /\ HeldFresh(c)
  BY DEF IndInv
<1> USE DEF Goto, EndTransaction, EndCall, client, server, tables
<1>2. CASE Insert(c)
  <2>1. session'[c] = "open"
    BY <1>1, <1>2 DEF Insert, AtRow, Phase
  <2> QED  BY <1>2, <2>1, LoopInsert DEF CommittingExact
<1>3. CASE Begin(c)
  <2>1. /\ pc'[c] = "insert" /\ session'[c] = "open" /\ sbatch'[c] = batch[c]
        /\ held'[c] = {} /\ batch' = batch /\ next'[c] = 1 /\ inserted'[c] = 0
    BY <1>1, <1>3 DEF Begin, TypeOK
  <2>2. Len(batch[c]) \in Nat /\ \A i \in Fresh(table', batch[c]) : ~ (i < 1)
    BY <1>1, BatchPositions DEF Fresh, TypeOK
  <2>3. held'[c] = {i \in Fresh(table', batch[c]) : i < 1} /\ Cardinality(held'[c]) = 0
    BY <2>1, <2>2, FS_EmptySet
  <2> QED  BY <2>1, <2>2, <2>3 DEF LoopExact, CommittingExact
<1>4. CASE RowsDone(c)
  <2>1. /\ UNCHANGED <<batch, next, inserted, session, sbatch, held, table, conn, landed>>
        /\ pc[c] = "insert" /\ pc'[c] = "commit" /\ next[c] > Len(batch[c])
    BY <1>1, <1>4 DEF RowsDone, TypeOK
  <2>2. HeldKeys(c)' = HeldKeys(c)
    BY <2>1 DEF HeldKeys
  <2>3. next[c] <= Len(batch[c]) + 1 => next[c] = Len(batch[c]) + 1
    BY <1>1, <2>1, BatchPositions DEF TypeOK
  <2> QED  BY <1>1, <2>1, <2>2, <2>3 DEF LoopExact, CommittingExact
<1>5. CASE ConnectionBreaks(c)
  <2>1. /\ UNCHANGED <<pc, batch, next, inserted, sbatch, held, table, landed>>
        /\ conn'[c] = "broken" /\ conn[c] = "ok" /\ session[c] /= "committing"
        /\ session'[c] = session[c] \/ (pc[c] = "commit" /\ session'[c] = "committing")
    BY <1>1, <1>5 DEF ConnectionBreaks, CommittingExact, TypeOK
  <2>2. HeldKeys(c)' = HeldKeys(c)
    BY <2>1 DEF HeldKeys
  <2>3. pc[c] = "commit" => session[c] = "open"
    BY <1>1, <2>1 DEF Phase
  <2>4. LoopExact(c)'
    BY <1>1, <2>1, <2>2, <2>3 DEF LoopExact
  <2>5. pc[c] = "commit" => held[c] = Fresh(table, sbatch[c])
    <3>1. \A i \in Fresh(table, batch[c]) : i < Len(batch[c]) + 1
      BY <1>1, BatchPositions DEF Fresh, TypeOK
    <3> QED  BY <1>1, <2>3, <3>1 DEF LoopExact
  <2>6. CommittingExact(c)'
    BY <1>1, <2>1, <2>3, <2>5 DEF LoopExact, CommittingExact, Phase
  <2> QED  BY <2>4, <2>6
<1>6. CASE \/ InsertRefused(c) \/ DeadlockVictim(c) \/ ServerError(c) \/ Commit(c)
           \/ LateCommit(c) \/ Rollback(c) \/ SessionEnds(c)
  <2>1. session'[c] \in {"none", "aborted"}
    BY <1>1, <1>6
       DEF InsertRefused, DeadlockVictim, ServerError, Refuse, Commit, LateCommit, MakeDurable,
           Rollback, SessionEnds, TypeOK
  <2> QED  BY <2>1 DEF LoopExact, CommittingExact
<1>7. CASE \/ BeginFails(c) \/ Stored(c) \/ RollbackSwallowed(c) \/ ErrorNoticed(c)
           \/ \E b \in Batches : CallReturnsEarly(c, b) \/ Call(c, b)
  <2>1. /\ UNCHANGED <<session, sbatch, held, table, conn>>
        /\ pc'[c] \in {"idle", "begin", "rollback"}
    BY <1>1, <1>7
       DEF BeginFails, Stored, RollbackSwallowed, ErrorNoticed, CallReturnsEarly, Call, TypeOK
  <2>2. pc'[c] = "rollback" => ErrorNoticed(c) /\ UNCHANGED <<batch, inserted, landed>>
    BY <1>1, <1>7
       DEF BeginFails, Stored, RollbackSwallowed, ErrorNoticed, CallReturnsEarly, Call, TypeOK
  <2>3. LoopExact(c)'
    BY <2>1 DEF LoopExact
  <2>4. CommittingExact(c)'
    BY <1>1, <2>1, <2>2 DEF CommittingExact, ErrorNoticed
  <2> QED  BY <2>3, <2>4
<1>8. CASE \E s \in Symbols : Upsert(c, s)
  <2>1. UNCHANGED <<client, server, table>>
    BY <1>8 DEF Upsert
  <2>2. HeldKeys(c)' = HeldKeys(c)
    BY <2>1 DEF HeldKeys
  <2> QED  BY <1>1, <2>1, <2>2 DEF LoopExact, CommittingExact
<1> QED  BY <1>2, <1>3, <1>4, <1>5, <1>6, <1>7, <1>8 DEF Step, Progress

-----------------------------------------------------------------------------
\* The inductive invariant holds initially.
LEMMA InitInv == Init => IndInv
<1> SUFFICES ASSUME Init  PROVE IndInv
  OBVIOUS
<1>1. TypeOK
  BY EmptySeq DEF Init, TypeOK, Labels, Outcomes
<1>2. LocksDisjoint /\ KeysUnique /\ TableKeyed
  BY DEF Init, LocksDisjoint, HeldKeys, KeyedRows, KeysUnique, TableKeyed
<1>3. \A c \in Clients : Phase(c) /\ LoopExact(c) /\ CommittingExact(c) /\ HeldFresh(c)
  BY DEF Init, Phase, LoopExact, CommittingExact, HeldFresh
<1> QED  BY <1>1, <1>2, <1>3 DEF IndInv

\* Every step keeps the inductive invariant.
LEMMA StepInv == IndInv /\ [Next]_vars => IndInv'
<1> SUFFICES ASSUME IndInv, [Next]_vars  PROVE IndInv'
  OBVIOUS
<1>1. ASSUME NEW c \in Clients, Step(c)  PROVE IndInv'
  <2>1. \A d \in Clients : LoopExact(d)' /\ CommittingExact(d)'
    BY <1>1, LoopStep, LoopOfOthers
  <2> QED  BY <1>1, <2>1, TypeStep, PhaseStep, HeldStep, TableStep DEF IndInv
<1>2. CASE UNCHANGED vars
  <2>1. \A c \in Clients : HeldKeys(c)' = HeldKeys(c)
    BY <1>2 DEF HeldKeys, vars, server
  <2> QED
    BY <1>2, <2>1
       DEF IndInv, TypeOK, LocksDisjoint, KeysUnique, TableKeyed, Phase, LoopExact,
           CommittingExact, HeldFresh, vars, client, server, tables
<1> QED  BY <1>1, <1>2 DEF Next, Step

\* The inductive invariant holds in every reachable state.
THEOREM Invariance == Spec => []IndInv
<1> QED  BY InitInv, StepInv, PTL DEF Spec

\* Every variable holds a value of its kind, for any clients and batches.
THEOREM TypeCorrect == Spec => []TypeOK
<1>1. IndInv => TypeOK  BY DEF IndInv
<1> QED  BY <1>1, Invariance, PTL

\* ~PgTransaction leaves no transaction open on a connection still in use.
THEOREM NoTransactionLeftOpenAlways == Spec => []NoTransactionLeftOpen
<1>1. IndInv => NoTransactionLeftOpen
  BY DEF IndInv, Phase, NoTransactionLeftOpen
<1> QED  BY <1>1, Invariance, PTL

\* ON CONFLICT DO NOTHING keeps keys unique across concurrent batches.
THEOREM KeysUniqueAlways == Spec => []KeysUnique
<1>1. IndInv => KeysUnique  BY DEF IndInv
<1> QED  BY <1>1, Invariance, PTL

-----------------------------------------------------------------------------
\* The protocol implements AtomicBatch.

\* A function that changed at most at c is the old one updated at c.
LEMMA OneChange ==
    ASSUME NEW S, NEW f, NEW g, f = [x \in S |-> f[x]], g = [x \in S |-> g[x]],
           NEW c \in S, \A d \in S : d /= c => g[d] = f[d]
    PROVE  g = [f EXCEPT ![c] = g[c]] /\ (g[c] = f[c] => g = f)
OBVIOUS

\* The abstract state of one client, and what a step of it does to the rest.
LEMMA AbstractStep ==
    ASSUME TypeOK, NEW c \in Clients, Step(c)
    PROVE  /\ status' = [status EXCEPT ![c] = status'[c]]
           /\ count'  = [count EXCEPT ![c] = count'[c]]
           /\ limbo'  = [limbo EXCEPT ![c] = limbo'[c]]
           /\ status'[c] = status[c] => UNCHANGED status
           /\ count'[c] = count[c]   => UNCHANGED count
           /\ limbo'[c] = limbo[c]   => UNCHANGED limbo
<1>1. \A d \in Clients : d /= c =>
        status'[d] = status[d] /\ count'[d] = count[d] /\ limbo'[d] = limbo[d]
  BY OthersUntouched DEF status, count, limbo, InLimbo
<1>2. /\ status = [d \in Clients |-> status[d]] /\ status' = [d \in Clients |-> status'[d]]
      /\ count  = [d \in Clients |-> count[d]]  /\ count'  = [d \in Clients |-> count'[d]]
      /\ limbo  = [d \in Clients |-> limbo[d]]  /\ limbo'  = [d \in Clients |-> limbo'[d]]
  BY DEF status, count, limbo
<1>3. status' = [status EXCEPT ![c] = status'[c]] /\ (status'[c] = status[c] => UNCHANGED status)
  BY ONLY <1>1, <1>2, OneChange
<1>4. count' = [count EXCEPT ![c] = count'[c]] /\ (count'[c] = count[c] => UNCHANGED count)
  BY ONLY <1>1, <1>2, OneChange
<1>5. limbo' = [limbo EXCEPT ![c] = limbo'[c]] /\ (limbo'[c] = limbo[c] => UNCHANGED limbo)
  BY ONLY <1>1, <1>2, OneChange
<1> QED  BY <1>3, <1>4, <1>5

\* The abstract state of one client, read off its concrete state.
LEMMA AbstractValues ==
    ASSUME NEW c \in Clients
    PROVE  /\ status[c] = IF pc[c] = "idle" THEN "idle"
                          ELSE IF landed[c] THEN "applied" ELSE "pending"
           /\ count[c] = IF landed[c] THEN inserted[c] ELSE 0
           /\ limbo[c] = IF InLimbo(c) THEN {sbatch[c]} ELSE {}
           /\ status'[c] = IF pc'[c] = "idle" THEN "idle"
                           ELSE IF landed'[c] THEN "applied" ELSE "pending"
           /\ count'[c] = IF landed'[c] THEN inserted'[c] ELSE 0
           /\ limbo'[c] = IF session'[c] = "committing" /\ pc'[c] \in {"idle", "begin"}
                          THEN {sbatch'[c]} ELSE {}
BY DEF status, count, limbo, InLimbo

\* AtomicBatch brings its own copy of the operators on batches.
LEMMA SameOperators ==
    ASSUME NEW T, NEW b, NEW I
    PROVE  /\ Promise!Cardinality(T) = Cardinality(T)
           /\ Promise!Fresh(T, b) = Fresh(T, b)
           /\ Promise!KeyedRows(b, I) = KeyedRows(b, I)
           /\ Promise!LooseCount(b, I) = LooseCount(b, I)
<1>1. Promise!Fresh(T, b) = Fresh(T, b)
  BY DEF Promise!Fresh, Fresh, Promise!Keyed, Keyed, Promise!KeysOf, KeysOf
<1>2. Promise!KeyedRows(b, I) = KeyedRows(b, I)
  BY DEF Promise!KeyedRows, KeyedRows, Promise!Keyed, Keyed
<1>3. Promise!LooseCount(b, I) = LooseCount(b, I)
  <2>1. Promise!Cardinality({i \in I : ~ Keyed(b[i])}) = Cardinality({i \in I : ~ Keyed(b[i])})
    BY DEF Promise!Cardinality, Cardinality
  <2> QED  BY <2>1 DEF Promise!LooseCount, LooseCount, Promise!Keyed, Keyed
<1>4. Promise!Cardinality(T) = Cardinality(T)
  BY DEF Promise!Cardinality, Cardinality
<1> QED  BY <1>1, <1>2, <1>3, <1>4

\* The initial state is one of AtomicBatch.
LEMMA AbstractInit == Init => Promise!Init
BY DEF Init, Promise!Init, status, count, limbo, InLimbo

\* Steps the caller cannot see.
LEMMA HiddenSteps ==
    ASSUME IndInv, NEW c \in Clients,
           \/ \E s \in Symbols : Upsert(c, s)
           \/ Begin(c) \/ Insert(c) \/ RowsDone(c) \/ ErrorNoticed(c) \/ ConnectionBreaks(c)
           \/ InsertRefused(c) \/ DeadlockVictim(c) \/ ServerError(c)
    PROVE  UNCHANGED Promise!avars
<1>1. TypeOK /\ Phase(c) /\ CommittingExact(c) /\ Step(c)
  BY DEF IndInv, Step, Progress
<1> USE DEF Goto, EndTransaction, client, server, tables
<1>2. UNCHANGED <<table, loose, batch, outcome, landed>>
  BY DEF Upsert, Begin, Insert, RowsDone, ErrorNoticed, ConnectionBreaks, InsertRefused,
         DeadlockVictim, ServerError, Refuse
<1>3. pc'[c] = "idle" <=> pc[c] = "idle"
  BY <1>1 DEF TypeOK, Upsert, Begin, Insert, RowsDone, ErrorNoticed, ConnectionBreaks,
         InsertRefused, DeadlockVictim, Deadlocked, ServerError, Refuse, Waits, AtRow
<1>4. landed[c] => inserted'[c] = inserted[c]
  BY <1>1 DEF TypeOK, Upsert, Begin, Insert, RowsDone, ErrorNoticed, ConnectionBreaks,
         InsertRefused, DeadlockVictim, ServerError, Refuse, AtRow, Phase
<1>5. limbo'[c] = limbo[c]
  <2>1. CASE \/ \E s \in Symbols : Upsert(c, s)
             \/ Insert(c) \/ RowsDone(c) \/ ErrorNoticed(c)
    BY <1>1, <2>1, AbstractValues
       DEF TypeOK, Upsert, Insert, RowsDone, ErrorNoticed, AtRow, InLimbo
  <2>2. CASE Begin(c) \/ InsertRefused(c) \/ DeadlockVictim(c) \/ ServerError(c)
    BY <1>1, <2>2, AbstractValues
       DEF TypeOK, Begin, InsertRefused, DeadlockVictim, ServerError, Refuse, InLimbo,
           CommittingExact
  <2>3. CASE ConnectionBreaks(c)
    BY <1>1, <2>3, AbstractValues DEF TypeOK, ConnectionBreaks, InLimbo
  <2> QED  BY <2>1, <2>2, <2>3
<1>6. status'[c] = status[c] /\ count'[c] = count[c]
  BY <1>2, <1>3, <1>4, AbstractValues
<1> QED  BY <1>1, <1>2, <1>5, <1>6, AbstractStep DEF Promise!avars

\* A call that returns before BEGIN, and one that goes on.
LEMMA CallSteps ==
    ASSUME IndInv, NEW c \in Clients, NEW b \in Batches, CallReturnsEarly(c, b) \/ Call(c, b)
    PROVE  Promise!Trivial(c) \/ Promise!Submit(c)
<1>1. TypeOK /\ Phase(c) /\ Step(c) /\ pc[c] = "idle" /\ ~ landed[c]
  BY DEF IndInv, Step, Phase, CallReturnsEarly, Call
<1> USE DEF client, server, tables
<1>2. CASE CallReturnsEarly(c, b)
  <2>1. UNCHANGED <<status, count, limbo>>
    BY <1>2 DEF CallReturnsEarly, status, count, limbo, InLimbo
  <2> QED  BY <1>1, <1>2, <2>1, AbstractValues DEF CallReturnsEarly, Promise!Trivial
<1>3. CASE Call(c, b)
  <2>1. pc'[c] = "begin" /\ landed' = landed /\ session' = session /\ sbatch' = sbatch
    BY <1>1, <1>3 DEF Call, Goto, TypeOK
  <2>2. status[c] = "idle" /\ status'[c] = "pending"
    BY <1>1, <2>1, AbstractValues
  <2>3. count'[c] = count[c] /\ limbo'[c] = limbo[c]
    BY <1>1, <2>1, AbstractValues DEF InLimbo
  <2> QED  BY <1>1, <1>3, <2>2, <2>3, AbstractStep DEF Call, Promise!Submit
<1> QED  BY <1>2, <1>3

\* The end of a call, as AtomicBatch sees it.
LEMMA AnswerStep ==
    ASSUME IndInv, NEW c \in Clients, Step(c), NEW r, EndCall(c, r), UNCHANGED tables
    PROVE  Promise!Answer(c, r) /\ status'[c] = "idle"
<1>1. TypeOK
  BY DEF IndInv
<1>2. status'[c] = "idle" /\ count'[c] = 0
  BY <1>1, AbstractValues DEF EndCall, Goto, TypeOK
<1> QED  BY <1>1, <1>2, AbstractStep DEF EndCall, Promise!Answer, tables

\* The steps that end a call are Finish when its batch was applied, or Fail.
LEMMA EndingSteps ==
    ASSUME IndInv, NEW c \in Clients,
           BeginFails(c) \/ Stored(c) \/ Rollback(c) \/ RollbackSwallowed(c)
    PROVE  Promise!Finish(c) \/ Promise!Fail(c)
<1>1. TypeOK /\ Phase(c) /\ CommittingExact(c) /\ Step(c)
  BY DEF IndInv, Step, Progress
<1>2. UNCHANGED tables /\ pc'[c] = "idle" /\ pc[c] /= "idle"
  BY <1>1
     DEF TypeOK, BeginFails, Stored, Rollback, RollbackSwallowed, EndCall, Goto
<1> USE DEF server
<1>3. CASE BeginFails(c)
  <2>1. Promise!Answer(c, "failed")
    BY <1>1, <1>2, <1>3, AnswerStep DEF BeginFails
  <2>2. status[c] = "pending" /\ limbo'[c] = limbo[c]
    BY <1>1, <1>2, <1>3, AbstractValues DEF BeginFails, Phase, InLimbo
  <2> QED  BY <1>1, <2>1, <2>2, AbstractStep DEF Promise!Fail
<1>4. CASE Stored(c)
  <2>1. Promise!Answer(c, "stored")
    BY <1>1, <1>2, <1>4, AnswerStep DEF Stored
  <2>2. status[c] = "applied" /\ limbo'[c] = limbo[c]
    BY <1>1, <1>2, <1>4, AbstractValues DEF Stored, Phase, InLimbo
  <2> QED  BY <1>1, <2>1, <2>2, AbstractStep DEF Promise!Finish
<1>5. CASE Rollback(c)
  <2>1. Promise!Answer(c, "failed")
    BY <1>1, <1>2, <1>5, AnswerStep DEF Rollback
  <2>2. session'[c] = "none"
    BY <1>1, <1>5 DEF Rollback, EndTransaction, TypeOK
  <2>3. status[c] = "pending" /\ limbo'[c] = limbo[c]
    BY <1>1, <1>2, <1>5, <2>2, AbstractValues DEF Rollback, Phase, InLimbo
  <2> QED  BY <1>1, <2>1, <2>3, AbstractStep DEF Promise!Fail
<1>6. CASE RollbackSwallowed(c)
  <2>1. Promise!Answer(c, "failed")
    BY <1>1, <1>2, <1>6, AnswerStep DEF RollbackSwallowed
  <2>2. limbo[c] = {} /\ limbo'[c] = IF session[c] = "committing" THEN {sbatch[c]} ELSE {}
    BY <1>2, <1>6, AbstractValues DEF RollbackSwallowed, InLimbo
  <2>3. CASE landed[c]
    <3>1. status[c] = "applied" /\ limbo'[c] = limbo[c]
      BY <1>1, <1>2, <2>2, <2>3, AbstractValues DEF Phase
    <3> QED  BY <1>1, <2>1, <3>1, AbstractStep DEF Promise!Finish
  <2>4. CASE ~ landed[c]
    <3>1. status[c] = "pending"
      BY <1>2, <2>4, AbstractValues
    <3>2. limbo'[c] = limbo[c] \/ limbo'[c] = {batch[c]}
      BY <1>1, <1>6, <2>2 DEF RollbackSwallowed, CommittingExact
    <3> QED  BY <1>1, <2>1, <3>1, <3>2, AbstractStep DEF Promise!Fail
  <2> QED  BY <2>3, <2>4
<1> QED  BY <1>3, <1>4, <1>5, <1>6

\* COMMIT within the call applies its batch.
LEMMA ApplyingSteps ==
    ASSUME IndInv, NEW c \in Clients,
           Commit(c) \/ (LateCommit(c) /\ pc[c] \in {"commit", "rollback"})
    PROVE  Promise!Apply(c)
<1>1. TypeOK /\ Phase(c) /\ LoopExact(c) /\ CommittingExact(c) /\ Step(c)
  BY DEF IndInv, Step, Progress
<1>2. /\ sbatch[c] = batch[c] /\ ~ landed[c]
      /\ held[c] = Fresh(table, batch[c]) /\ inserted[c] = Cardinality(held[c])
  <2>1. CASE Commit(c)
    <3>1. session[c] = "open" /\ pc[c] = "commit"
      BY <1>1, <2>1 DEF Commit, Phase
    <3>2. \A i \in Fresh(table, batch[c]) : i < Len(batch[c]) + 1
      BY <1>1, BatchPositions DEF Fresh, TypeOK
    <3> QED  BY <1>1, <3>1, <3>2 DEF LoopExact, Phase
  <2>2. CASE LateCommit(c) /\ pc[c] \in {"commit", "rollback"}
    BY <1>1, <2>2 DEF LateCommit, CommittingExact
  <2> QED  BY <2>1, <2>2
<1>3. /\ landed'[c] = TRUE /\ pc'[c] /= "idle" /\ pc[c] /= "idle" /\ session'[c] = "none"
      /\ UNCHANGED <<inserted, batch, outcome>> /\ MakeDurable(c)
  BY <1>1 DEF Commit, LateCommit, MakeDurable, EndTransaction, Goto, TypeOK
<1>4. Promise!Merge(batch[c])
  BY <1>2, <1>3, SameOperators DEF MakeDurable, Promise!Merge
<1>5. status[c] = "pending" /\ status'[c] = "applied" /\ limbo'[c] = limbo[c]
  <2>1. pc[c] \in {"commit", "rollback"}
    BY DEF Commit
  <2> QED  BY <1>2, <1>3, <2>1, AbstractValues DEF InLimbo
<1>6. count'[c] = Cardinality(Fresh(table, batch[c]))
  BY <1>2, <1>3, AbstractValues
<1>7. count' = [count EXCEPT ![c] = Promise!Cardinality(Promise!Fresh(table, batch[c]))]
  BY <1>1, <1>6, AbstractStep, SameOperators
<1> QED  BY <1>1, <1>3, <1>4, <1>5, <1>7, AbstractStep DEF Promise!Apply

\* COMMIT after the call, and the end of a session.
LEMMA LimboSteps ==
    ASSUME IndInv, NEW c \in Clients,
           SessionEnds(c) \/ (LateCommit(c) /\ pc[c] \notin {"commit", "rollback"})
    PROVE  Promise!Land(c) \/ Promise!Lose(c) \/ UNCHANGED Promise!avars
<1>1. TypeOK /\ Phase(c) /\ CommittingExact(c) /\ Step(c)
  BY DEF IndInv, Step, Progress
<1> USE DEF client, tables
<1>2. UNCHANGED <<pc, batch, inserted, outcome>> /\ session'[c] = "none"
  BY <1>1 DEF SessionEnds, LateCommit, MakeDurable, EndTransaction, TypeOK
<1>3. limbo'[c] = {}
  BY <1>2, AbstractValues
<1>4. CASE SessionEnds(c)
  <2>1. UNCHANGED <<table, loose, landed>>
    BY <1>4 DEF SessionEnds
  <2>2. UNCHANGED <<status, count>>
    BY <1>2, <2>1 DEF status, count
  <2>3. CASE limbo[c] = {}
    BY <1>1, <1>2, <1>3, <2>1, <2>2, <2>3, AbstractStep DEF Promise!avars
  <2>4. CASE limbo[c] /= {}
    BY <1>1, <1>2, <1>3, <2>1, <2>2, <2>4, AbstractStep DEF Promise!Lose
  <2> QED  BY <2>3, <2>4
<1>5. CASE LateCommit(c) /\ pc[c] \notin {"commit", "rollback"}
  <2>1. /\ pc[c] \in {"idle", "begin"} /\ session[c] = "committing"
        /\ held[c] = Fresh(table, sbatch[c])
    BY <1>1, <1>5 DEF LateCommit, CommittingExact
  <2>2. limbo[c] = {sbatch[c]}
    BY <2>1, AbstractValues DEF InLimbo
  <2>3. Promise!Merge(sbatch[c])
    BY <1>5, <2>1, SameOperators DEF LateCommit, MakeDurable, Promise!Merge
  <2>4. landed[c] = FALSE /\ landed'[c] = FALSE
    BY <1>1, <1>5, <2>1 DEF Phase, LateCommit, TypeOK
  <2>5. status'[c] = status[c] /\ count'[c] = count[c]
    BY <1>2, <2>4, AbstractValues
  <2> QED  BY <1>1, <1>2, <1>3, <2>2, <2>3, <2>5, AbstractStep DEF Promise!Land
<1> QED  BY <1>4, <1>5

\* Every step of the protocol is a step of AtomicBatch or a stutter.
LEMMA AbstractNext ==
    ASSUME IndInv, [Next]_vars  PROVE [Promise!Next]_(Promise!avars)
<1>1. ASSUME NEW c \in Clients, Step(c)
      PROVE  \/ UNCHANGED Promise!avars
             \/ Promise!Trivial(c) \/ Promise!Submit(c) \/ Promise!Apply(c)
             \/ Promise!Finish(c) \/ Promise!Fail(c) \/ Promise!Land(c) \/ Promise!Lose(c)
  BY <1>1, HiddenSteps, CallSteps, EndingSteps, ApplyingSteps, LimboSteps DEF Step, Progress
<1>2. CASE UNCHANGED vars
  BY <1>2 DEF vars, client, server, tables, Promise!avars, status, count, limbo, InLimbo
<1>3. CASE \E c \in Clients : Step(c)
  BY <1>1, <1>3 DEF Promise!Next
<1> QED  BY <1>2, <1>3 DEF Next, Step

\* insert_* keeps the promise of MarketDataRepository: a batch is applied
\* once and as a whole or not at all, and the summary counts what was added.
THEOREM KeepsPromiseAlways == Spec => KeepsPromise
<1> QED
  BY AbstractInit, AbstractNext, Invariance, PTL DEF Spec, KeepsPromise, Promise!Spec
=============================================================================

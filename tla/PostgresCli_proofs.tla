------------------------- MODULE PostgresCli_proofs -------------------------
(***************************************************************************)
(* The properties of PostgresCli, for any shells and commands, however     *)
(* often they are repeated and whatever breaks.                            *)
(***************************************************************************)
EXTENDS PostgresCli, FiniteSetTheorems, TLAPS

USE DEF Markets, Upserts, Labels, shell, store, hist

-----------------------------------------------------------------------------
(* The strengthening.                                                      *)

\* What a run was told, or is about to be told, is durable.
Stored ==
    /\ won \subseteq KeysOf(table)
    /\ \A s \in Shells : (pc[s] = "answered" /\ Keyed(s)) => Key(row[s]) \in KeysOf(table)

\* What runs has not been rejected.
Accepted == \A s \in Shells : pc[s] /= "idle" => ~ Rejected(row[s])

\* Only inserts count.
Claims == \A s \in Shells : affected[s] = 1 => row[s].op \in Markets

IndInv == TypeOK /\ Stored /\ OneInserter /\ Accepted /\ Claims

-----------------------------------------------------------------------------
\* Writing a row removes none, and a keyed row is there afterwards.
LEMMA WriteKeeps ==
    ASSUME NEW r, Write(r)
    PROVE  /\ table \subseteq table' /\ KeysOf(table) \subseteq KeysOf(table')
           /\ r.op \in Markets /\ ~ Unkeyed(r) => Key(r) \in KeysOf(table')
           /\ table' \subseteq table \cup {r}
           /\ table' /= table => r.op \in Markets
BY DEF Write, KeysOf

LEMMA WriteType ==
    ASSUME TypeOK, NEW r \in Commands, Write(r)
    PROVE  /\ loose' \in Nat
           /\ metadata' \subseteq {c.code : c \in {u \in Commands : u.op \in Upserts}}
           /\ table' \subseteq {c \in Commands : c.op \in Markets}
<1>1. table' \subseteq table \cup {r} /\ (table' /= table => r.op \in Markets)
  BY WriteKeeps
<1> QED BY <1>1 DEF TypeOK, Write

\* A command ends: its shell is idle and empty, the others go on.
LEMMA FinishType ==
    ASSUME TypeOK, NEW s \in Shells, NEW code \in {0, 1, 2, 3, NoCode}, Finish(s, code),
           table' = table
    PROVE  /\ pc' \in [Shells -> Labels] /\ affected' \in [Shells -> 0 .. 1]
           /\ exit' \in [Shells -> {0, 1, 2, 3, NoCode}]
           /\ row' \in [Shells -> Commands \cup {NoRow}]
           /\ found' \in [Shells -> table' \cup {NoRow}]
           /\ \A t \in Shells :
                /\ IF pc'[t] = "idle" THEN row'[t] = NoRow /\ affected'[t] = 0 /\ found'[t] = NoRow
                   ELSE row'[t] /= NoRow
                /\ found'[t] /= NoRow => found'[t].op = "quote"
                /\ pc'[t] = "sent" => affected'[t] = 0
BY DEF TypeOK, Finish

LEMMA FinishOthers ==
    ASSUME TypeOK, NEW s \in Shells, NEW code, Finish(s, code)
    PROVE  /\ pc'[s] = "idle"
           /\ \A t \in Shells : t /= s => /\ pc'[t] = pc[t] /\ row'[t] = row[t]
                                          /\ affected'[t] = affected[t]
BY DEF TypeOK, Finish

\* An end that leaves the durable rows and the claims alone.
LEMMA FinishInv ==
    ASSUME IndInv, NEW s \in Shells, NEW code \in {0, 1, 2, 3, NoCode}, Finish(s, code),
           UNCHANGED <<clock, store, told, won>>,
           confirmed' \in Nat, unsure' \in Nat,
           limbo' \in [Shells -> Commands \cup {NoRow}]
    PROVE  IndInv'
<1>1. TypeOK'
  BY FinishType DEF IndInv, TypeOK
<1>2. \A t \in Shells : pc'[t] /= "idle" =>
          pc'[t] = pc[t] /\ row'[t] = row[t] /\ affected'[t] = affected[t]
  BY FinishOthers DEF IndInv
<1>3. KeysOf(table)' = KeysOf(table)
  BY DEF KeysOf
<1>4. Stored'
  BY <1>2, <1>3 DEF IndInv, Stored, Keyed, Unkeyed
<1>5. OneInserter'
  BY <1>2, <1>3 DEF IndInv, OneInserter, Keyed, Unkeyed
<1>6. Accepted'
  BY <1>2 DEF IndInv, Accepted
<1>7. Claims'
  BY <1>1, <1>2 DEF IndInv, Claims, TypeOK
<1> QED BY <1>1, <1>4, <1>5, <1>6, <1>7 DEF IndInv

\* A statement is answered: s gets its answer, and the claims are as before.
LEMMA ApplyInv ==
    ASSUME IndInv, NEW s \in Shells, Apply(s)
    PROVE  IndInv'
<1>1. row[s] \in Commands /\ pc[s] = "sent" /\ Write(row[s]) /\ affected[s] = 0
  BY DEF IndInv, TypeOK, Apply
<1>2. /\ table \subseteq table' /\ KeysOf(table) \subseteq KeysOf(table')
      /\ row[s].op \in Markets /\ ~ Unkeyed(row[s]) => Key(row[s]) \in KeysOf(table')
  BY <1>1, WriteKeeps
<1>3. /\ pc' = [pc EXCEPT ![s] = "answered"] /\ row' = row
      /\ affected' = [affected EXCEPT ![s] = IF Adds(row[s]) THEN 1 ELSE 0]
      /\ UNCHANGED <<found, exit, clock, limbo, told, won, confirmed, unsure>>
  BY DEF Apply
<1>4. TypeOK'
  <2>1. /\ loose' \in Nat
        /\ metadata' \subseteq {c.code : c \in {u \in Commands : u.op \in Upserts}}
        /\ table' \subseteq {c \in Commands : c.op \in Markets}
    BY <1>1, WriteType DEF IndInv
  <2> QED BY <1>1, <1>2, <1>3, <2>1 DEF IndInv, TypeOK
<1>5. KeysOf(table)' = KeysOf(table')
  BY DEF KeysOf
<1>6. \A t \in Shells : Keyed(t)' <=> Keyed(t)
  BY <1>3 DEF Keyed, Unkeyed
<1>7. \A t \in Shells : t /= s => pc'[t] = pc[t] /\ affected'[t] = affected[t]
  BY <1>3 DEF IndInv, TypeOK
<1>8. affected'[s] = 1 /\ Keyed(s) => Key(row[s]) \notin KeysOf(table)
  BY <1>3 DEF IndInv, TypeOK, Adds, Keyed
<1>9. Stored'
  BY <1>2, <1>3, <1>5, <1>6, <1>7 DEF IndInv, Stored, Keyed
<1>10. OneInserter'
  <2>1. told' \subseteq KeysOf(table)'
    BY <1>2, <1>3, <1>5 DEF IndInv, OneInserter
  <2>2. ASSUME NEW t \in Shells, pc'[t] = "answered", affected'[t] = 1, Keyed(t)
        PROVE  Key(row[t]) \in KeysOf(table') \ won
    <3>1. CASE t = s
      BY <1>2, <1>8, <2>2, <3>1 DEF IndInv, Stored, Keyed
    <3>2. CASE t /= s
      BY <1>2, <1>7, <2>2, <3>2 DEF IndInv, OneInserter
    <3> QED BY <3>1, <3>2
  <2>3. ASSUME NEW t \in Shells, pc'[t] = "answered", affected'[t] = 1, Keyed(t),
               NEW u \in Shells, pc'[u] = "answered", affected'[u] = 1, Keyed(u), u /= t
        PROVE  Key(row[t]) /= Key(row[u])
    <3>1. CASE t = s
      BY <1>7, <1>8, <2>3, <3>1 DEF IndInv, Stored
    <3>2. CASE u = s
      BY <1>7, <1>8, <2>3, <3>2 DEF IndInv, Stored
    <3>3. CASE t /= s /\ u /= s
      BY <1>7, <2>3, <3>3 DEF IndInv, OneInserter
    <3> QED BY <3>1, <3>2, <3>3
  <2> QED BY <1>3, <1>5, <1>6, <2>1, <2>2, <2>3 DEF OneInserter
<1>11. Accepted'
  BY <1>1, <1>3, <1>7 DEF IndInv, Accepted
<1>12. Claims'
  BY <1>3, <1>7 DEF IndInv, Claims, TypeOK, Adds
<1> QED BY <1>4, <1>9, <1>10, <1>11, <1>12 DEF IndInv

LEMMA AnswerInv ==
    ASSUME IndInv, NEW s \in Shells, Answer(s)
    PROVE  IndInv'
<1>1. PICK code \in {0, 1, 2, 3, NoCode} : Finish(s, code)
  BY DEF Answer
<1>2. pc[s] = "answered" /\ UNCHANGED <<clock, store, limbo, unsure>>
      /\ confirmed' \in Nat
  BY DEF Answer, Tell, IndInv, TypeOK
<1>3. TypeOK'
  BY <1>1, <1>2, FinishType DEF IndInv, TypeOK
<1>4. \A t \in Shells : pc'[t] /= "idle" =>
          t /= s /\ pc'[t] = pc[t] /\ row'[t] = row[t] /\ affected'[t] = affected[t]
  BY <1>1, FinishOthers DEF IndInv
<1>5. KeysOf(table)' = KeysOf(table)
  BY <1>2 DEF KeysOf
<1>6. told' \subseteq told \cup {Key(row[s])} /\ (told' /= told => Keyed(s))
  BY DEF Answer, Tell, Keyed
<1>7. won' \subseteq won \cup {Key(row[s])} /\ (won' /= won => affected[s] = 1 /\ Keyed(s))
  <2>1. affected[s] = 1 => row[s].op \in Markets
    BY DEF IndInv, Claims
  <2> QED BY <2>1 DEF Answer, Tell, Keyed
<1>8. Stored'
  BY <1>2, <1>4, <1>5, <1>7 DEF IndInv, Stored, Keyed, Unkeyed
<1>9. OneInserter'
  <2>1. told' \subseteq KeysOf(table)'
    BY <1>2, <1>5, <1>6 DEF IndInv, OneInserter, Stored
  <2>2. \A t \in Shells : (pc'[t] = "answered" /\ affected'[t] = 1 /\ Keyed(t)') =>
           /\ Key(row'[t]) \in KeysOf(table) \ won'
           /\ \A u \in Shells :
                (pc'[u] = "answered" /\ affected'[u] = 1 /\ Keyed(u)' /\ u /= t)
                   => Key(row'[t]) /= Key(row'[u])
    BY <1>2, <1>4, <1>7 DEF IndInv, OneInserter, Keyed, Unkeyed
  <2> QED BY <1>5, <2>1, <2>2 DEF OneInserter
<1>10. Accepted'
  BY <1>4 DEF IndInv, Accepted
<1>11. Claims'
  BY <1>3, <1>4 DEF IndInv, Claims, TypeOK
<1> QED BY <1>3, <1>8, <1>9, <1>10, <1>11 DEF IndInv

\* Nothing durable disappears and no shell takes a step.
LEMMA QuietInv ==
    ASSUME IndInv, UNCHANGED <<shell, hist>>, TypeOK', KeysOf(table) \subseteq KeysOf(table')
    PROVE  IndInv'
<1>1. KeysOf(table)' = KeysOf(table')
  BY DEF KeysOf
<1>2. Stored' /\ Accepted' /\ Claims'
  BY <1>1 DEF IndInv, Stored, Accepted, Claims, Keyed, Unkeyed
<1>3. OneInserter'
  BY <1>1 DEF IndInv, OneInserter, Keyed, Unkeyed
<1> QED BY <1>2, <1>3 DEF IndInv

LEMMA ReadInv ==
    ASSUME IndInv, NEW s \in Shells, Read(s)
    PROVE  IndInv'
<1>1. /\ pc[s] = "sent" /\ row[s].op = "latest-quote"
      /\ pc' = [pc EXCEPT ![s] = "answered"]
      /\ UNCHANGED <<row, affected, exit, clock, store, limbo, hist>>
  BY DEF Read
<1>2. PICK q \in Newest(QuotesOf(row[s].sym, row[s].src)) \cup {NoRow} :
          found' = [found EXCEPT ![s] = q]
  BY DEF Read
<1>3. q \in table \cup {NoRow} /\ (q /= NoRow => q.op = "quote")
  BY <1>2 DEF Newest, QuotesOf
<1>4. TypeOK'
  BY <1>1, <1>2, <1>3 DEF IndInv, TypeOK
<1>5. \A t \in Shells : pc'[t] = "answered" => pc[t] = "answered" \/ (t = s /\ ~ Keyed(t))
  BY <1>1 DEF IndInv, TypeOK, Keyed
<1>6. KeysOf(table)' = KeysOf(table) /\ \A t \in Shells : Keyed(t)' <=> Keyed(t)
  BY <1>1 DEF KeysOf, Keyed, Unkeyed
<1>7. Stored'
  BY <1>1, <1>5, <1>6 DEF IndInv, Stored
<1>8. OneInserter'
  BY <1>1, <1>5, <1>6 DEF IndInv, OneInserter
<1>9. Accepted' /\ Claims'
  BY <1>1 DEF IndInv, Accepted, Claims, TypeOK
<1> QED BY <1>4, <1>7, <1>8, <1>9 DEF IndInv

LEMMA SendInv ==
    ASSUME IndInv, NEW s \in Shells, NEW c \in Commands, Send(s, c)
    PROVE  IndInv'
<1>1. /\ pc[s] = "idle" /\ ~ Rejected(c)
      /\ pc' = [pc EXCEPT ![s] = "sent"] /\ row' = [row EXCEPT ![s] = c]
      /\ exit' = [exit EXCEPT ![s] = NoCode]
      /\ UNCHANGED <<affected, found, clock, store, limbo, hist>>
  BY DEF Send
<1>2. c /= NoRow
  BY CommandsAssumption
<1>3. TypeOK'
  BY <1>1, <1>2 DEF IndInv, TypeOK
<1>4. \A t \in Shells : /\ pc'[t] = "answered" => t /= s /\ pc[t] = "answered"
                        /\ t /= s => row'[t] = row[t] /\ pc'[t] = pc[t]
                        /\ affected'[t] = affected[t]
  BY <1>1 DEF IndInv, TypeOK
<1>5. KeysOf(table)' = KeysOf(table)
  BY <1>1 DEF KeysOf
<1>6. Stored'
  BY <1>1, <1>4, <1>5 DEF IndInv, Stored, Keyed, Unkeyed
<1>7. OneInserter'
  BY <1>1, <1>4, <1>5 DEF IndInv, OneInserter, Keyed, Unkeyed
<1>8. Accepted' /\ Claims'
  BY <1>1, <1>4 DEF IndInv, Accepted, Claims, TypeOK
<1> QED BY <1>3, <1>6, <1>7, <1>8 DEF IndInv

LEMMA UnansweredInv ==
    ASSUME IndInv, NEW s \in Shells, Unanswered(s)
    PROVE  IndInv'
<1>1. PICK code \in {0, 1, 2, 3, NoCode} : Finish(s, code)
  BY DEF Unanswered
<1>2. limbo' = limbo \/ limbo' = [limbo EXCEPT ![s] = row[s]]
  BY DEF Unanswered
<1>3. limbo' \in [Shells -> Commands \cup {NoRow}] /\ unsure' \in Nat /\ confirmed' \in Nat
  BY <1>2 DEF Unanswered, IndInv, TypeOK
<1> QED BY <1>1, <1>3, FinishInv DEF Unanswered

LEMMA NextInv == IndInv /\ [Next]_vars => IndInv'
<1> SUFFICES ASSUME IndInv, [Next]_vars PROVE IndInv'
  OBVIOUS
<1>1. ASSUME NEW s \in Shells, NEW code \in {0, 1, 2}, EndEarly(s, code) PROVE IndInv'
  BY <1>1, FinishInv DEF EndEarly, IndInv, TypeOK
<1>2. ASSUME NEW s \in Shells,
             Help(s) \/ BadEnvironment(s) \/ ConnectFails(s) \/ Reject(s)
      PROVE  IndInv'
  BY <1>1, <1>2 DEF Help, BadEnvironment, ConnectFails, Reject
<1>3. ASSUME NEW s \in Shells, NEW c \in Commands, Send(s, c) PROVE IndInv'
  BY <1>3, SendInv
<1>4. ASSUME NEW s \in Shells, Apply(s) PROVE IndInv'
  BY <1>4, ApplyInv
<1>5. ASSUME NEW s \in Shells, Refused(s) PROVE IndInv'
  BY <1>5, FinishInv DEF Refused, IndInv, TypeOK
<1>6. ASSUME NEW s \in Shells, Read(s) PROVE IndInv'
  BY <1>6, ReadInv
<1>7. ASSUME NEW s \in Shells, Answer(s) PROVE IndInv'
  BY <1>7, AnswerInv
<1>8. ASSUME NEW s \in Shells, Unanswered(s) PROVE IndInv'
  BY <1>8, UnansweredInv
<1>9. ASSUME NEW s \in Shells, Land(s) PROVE IndInv'
  <2>1. limbo[s] \in Commands /\ Write(limbo[s])
    BY <1>9 DEF Land, IndInv, TypeOK
  <2>2. table \subseteq table' /\ KeysOf(table) \subseteq KeysOf(table')
    BY <2>1, WriteKeeps
  <2>3. /\ loose' \in Nat
        /\ metadata' \subseteq {c.code : c \in {u \in Commands : u.op \in Upserts}}
        /\ table' \subseteq {c \in Commands : c.op \in Markets}
    BY <2>1, WriteType DEF IndInv
  <2>4. TypeOK'
    BY <1>9, <2>2, <2>3 DEF Land, IndInv, TypeOK
  <2> QED BY <1>9, <2>2, <2>4, QuietInv DEF Land
<1>10. ASSUME NEW s \in Shells, Lose(s) PROVE IndInv'
  <2>1. TypeOK' /\ table' = table
    BY <1>10 DEF Lose, IndInv, TypeOK
  <2> QED BY <1>10, <2>1, QuietInv DEF Lose
<1>11. CASE Tick
  <2>1. TypeOK' /\ table' = table
    BY <1>11, BoundsAssumption DEF Tick, IndInv, TypeOK
  <2> QED BY <1>11, <2>1, QuietInv DEF Tick
<1>12. CASE UNCHANGED vars
  <2>1. TypeOK' /\ table' = table
    BY <1>12 DEF vars, IndInv, TypeOK
  <2> QED BY <1>12, <2>1, QuietInv DEF vars
<1> QED BY <1>2, <1>3, <1>4, <1>5, <1>6, <1>7, <1>8, <1>9, <1>10, <1>11, <1>12 DEF Next

THEOREM Invariance == Spec => []IndInv
<1>1. Init => IndInv
  BY BoundsAssumption DEF Init, IndInv, TypeOK, Stored, OneInserter, Accepted, Claims
<1> QED BY <1>1, NextInv, PTL DEF Spec

-----------------------------------------------------------------------------
(* The properties.                                                         *)

\* A shell has an object, and what the server made of it, while its command runs.
THEOREM TypeCorrect == Spec => []TypeOK
<1>1. IndInv => TypeOK
  BY DEF IndInv
<1> QED BY <1>1, Invariance, PTL

\* Repeated runs: what was told stays stored, and one run at most has inserted it.
THEOREM OneInserterAlways == Spec => []OneInserter
<1>1. IndInv => OneInserter
  BY DEF IndInv
<1> QED BY <1>1, Invariance, PTL

\* Where domain::validate and the constraints of the schema differ.
THEOREM RefusedForGapsOnlyAlways == Spec => []RefusedForGapsOnly
<1>1. ASSUME IndInv PROVE RefusedForGapsOnly
  <2> SUFFICES ASSUME NEW s \in Shells, pc[s] = "sent", row[s].op /= "latest-quote",
                      Referenced(row[s]), ~ Checks(row[s])
               PROVE  \/ row[s].op = "tick" /\ row[s].id = "blank"
                      \/ row[s].op = "indicator" /\ row[s].parameters /= "object"
                      \/ row[s].op \in Upserts /\ row[s].name = "blank"
    BY DEF RefusedForGapsOnly, Storable
  <2> DEFINE r == row[s]
  <2>1. r \in Commands /\ ~ Rejected(r)
    BY <1>1 DEF IndInv, TypeOK, Accepted
  <2> HIDE DEF r
  <2>2. r.op \in Markets \cup Upserts
    BY <2>1, CommandsAssumption DEF Rejected, r
  <2>3. Valid(r)
    BY <2>1, <2>2 DEF Rejected
  <2>4. r.op = "quote" => QuoteChecks(r)
    BY <2>3 DEF Valid, QuoteValid, QuoteChecks
  <2>5. r.op = "tick" /\ r.id /= "blank" => TickChecks(r)
    BY <2>3 DEF Valid, TickValid, TickChecks
  <2>6. r.op = "snapshot" => SnapshotChecks(r)
    <3>1. r.op = "snapshot" => r.imbalance \in Int /\ One \in Nat
      BY <2>1, CommandsAssumption
    <3> QED BY <2>3, <3>1 DEF Valid, SnapshotValid, SnapshotChecks
  <2>7. ~ Checks(r)
    BY DEF r
  <2> QED BY <2>2, <2>3, <2>4, <2>5, <2>6, <2>7 DEF Valid, Checks, r
<1> QED BY <1>1, Invariance, PTL

\* latest-quote answers with a quote at least as new as any that was reported as
\* stored.
THEOREM LatestIsCurrentAlways == Spec => LatestIsCurrent
<1> DEFINE Current(s) ==
      (row[s] /= NoRow /\ row[s].op = "latest-quote" /\ pc[s] = "sent" /\ pc'[s] = "answered")
        => \A k \in told : (k[1] = "quote" /\ k[2] = row[s].sym /\ k[3] = row[s].src) =>
             found'[s] /= NoRow /\ k[4] <= found'[s].at
<1>1. ASSUME IndInv, [Next]_vars, NEW s \in Shells PROVE Current(s)
  <2> SUFFICES ASSUME row[s].op = "latest-quote", pc[s] = "sent", pc'[s] = "answered",
                      NEW k \in told, k[1] = "quote", k[2] = row[s].sym, k[3] = row[s].src
               PROVE  found'[s] /= NoRow /\ k[4] <= found'[s].at
    OBVIOUS
  <2> DEFINE Q == QuotesOf(row[s].sym, row[s].src)
  <2>1. Read(s)
    <3>1. \A t \in Shells, code \in {0, 1, 2, 3, NoCode} : ~ Finish(t, code)
      BY <1>1, FinishOthers DEF IndInv
    <3>2. \A t \in Shells : ~ (Help(t) \/ BadEnvironment(t) \/ ConnectFails(t) \/ Reject(t))
      BY <3>1 DEF Help, BadEnvironment, ConnectFails, Reject, EndEarly
    <3>3. \A t \in Shells : ~ Refused(t) /\ ~ Unanswered(t) /\ ~ Answer(t)
      BY <3>1 DEF Refused, Unanswered, Answer
    <3>4. \A t \in Shells, c \in Commands : ~ Send(t, c)
      BY <1>1 DEF Send, IndInv, TypeOK
    <3>5. \A t \in Shells : ~ Apply(t)
      BY <1>1 DEF Apply, IndInv, TypeOK
    <3>6. \A t \in Shells : ~ Land(t) /\ ~ Lose(t) /\ (Read(t) => t = s)
      BY <1>1 DEF Land, Lose, Read, IndInv, TypeOK
    <3>7. ~ Tick /\ ~ UNCHANGED vars
      BY DEF Tick, vars
    <3> QED BY <1>1, <3>2, <3>3, <3>4, <3>5, <3>6, <3>7 DEF Next
  <2>2. PICK q \in Q : Key(q) = k
    <3>1. PICK q \in table : Key(q) = k
      BY <1>1 DEF IndInv, OneInserter, KeysOf
    <3>2. q.op \in Markets
      BY <1>1 DEF IndInv, TypeOK
    <3>3. q.op = "quote" /\ k = <<q.op, q.sym, q.src, q.at>>
      BY <3>1, <3>2 DEF Key
    <3> QED BY <3>1, <3>3 DEF QuotesOf
  <2>3. k[4] = q.at
    BY <2>2 DEF QuotesOf, Key
  <2>4. found'[s] \in Newest(Q)
    BY <1>1, <2>1, <2>2 DEF Read, IndInv, TypeOK
  <2>5. found'[s] \in table
    BY <2>4 DEF Newest, QuotesOf
  <2>6. found'[s] /= NoRow
    BY <1>1, <2>5, CommandsAssumption DEF IndInv, TypeOK
  <2> QED BY <2>2, <2>3, <2>4, <2>6 DEF Newest
<1>2. ASSUME IndInv, [Next]_vars PROVE \A s \in Shells : Current(s)
  BY <1>1, <1>2
<1> QED BY <1>2, Invariance, PTL DEF Spec, LatestIsCurrent

-----------------------------------------------------------------------------
(* Ticks without trade_id.                                                 *)

\* Counting: both sets are finite, and only the shell that takes the step can
\* enter or leave them.
LEMMA Counting ==
    ASSUME NEW S, NEW T, NEW s, IsFiniteSet(S), S \ {s} = T \ {s}
    PROVE  /\ IsFiniteSet(T) /\ Cardinality(S) \in Nat /\ Cardinality(T) \in Nat
           /\ (s \in S <=> s \in T) => Cardinality(T) = Cardinality(S)
           /\ s \notin S /\ s \in T => Cardinality(T) = Cardinality(S) + 1
           /\ s \in S /\ s \notin T => Cardinality(T) + 1 = Cardinality(S)
<1>1. CASE s \in S <=> s \in T
  <2>1. S = T
    BY <1>1
  <2> QED BY <1>1, <2>1, FS_CardinalityType
<1>2. CASE s \notin S /\ s \in T
  <2>1. T = S \cup {s}
    BY <1>2
  <2> QED BY <1>2, <2>1, FS_AddElement, FS_CardinalityType
<1>3. CASE s \in S /\ s \notin T
  <2>1. T = S \ {s}
    BY <1>3
  <2>2. IsFiniteSet(T) /\ Cardinality(T) = Cardinality(S) - 1
    BY <1>3, <2>1, FS_RemoveElement
  <2> QED BY <1>3, <2>2, FS_CardinalityType
<1> QED BY <1>1, <1>2, <1>3

LEMMA CountsFinite == IsFiniteSet(Answered) /\ IsFiniteSet(Loose)
BY BoundsAssumption, FS_Subset DEF Answered, Loose

LooseInv == IndInv /\ LooseAccounted

\* A step of s, told by what it does to the counters and to s.
LEMMA LooseStep ==
    ASSUME LooseInv, IndInv', NEW s,
           Answered \ {s} = Answered' \ {s}, Loose \ {s} = Loose' \ {s},
           \/ /\ UNCHANGED <<loose, confirmed, unsure>>
              /\ (s \in Answered <=> s \in Answered') /\ (s \in Loose' => s \in Loose)
           \/ /\ loose' = loose + 1 /\ UNCHANGED <<confirmed, unsure>>
              /\ s \notin Answered /\ s \in Answered' /\ (s \in Loose <=> s \in Loose')
           \/ /\ loose' = loose + 1 /\ UNCHANGED <<confirmed, unsure>>
              /\ (s \in Answered <=> s \in Answered') /\ s \in Loose /\ s \notin Loose'
           \/ /\ confirmed' = confirmed + 1 /\ UNCHANGED <<loose, unsure>>
              /\ s \in Answered /\ s \notin Answered' /\ (s \in Loose <=> s \in Loose')
           \/ /\ unsure' = unsure + 1 /\ UNCHANGED <<loose, confirmed>>
              /\ s \in Answered /\ s \notin Answered' /\ (s \in Loose <=> s \in Loose')
           \/ /\ unsure' = unsure + 1 /\ UNCHANGED <<loose, confirmed>>
              /\ (s \in Answered <=> s \in Answered')
    PROVE  LooseInv'
<1> DEFINE a == Cardinality(Answered)
           b == Cardinality(Answered')
           x == Cardinality(Loose)
           y == Cardinality(Loose')
<1>1. /\ a \in Nat /\ b \in Nat /\ x \in Nat /\ y \in Nat
      /\ (s \in Answered <=> s \in Answered') => b = a
      /\ s \notin Answered /\ s \in Answered' => b = a + 1
      /\ s \in Answered /\ s \notin Answered' => b + 1 = a
      /\ (s \in Loose <=> s \in Loose') => y = x
      /\ s \notin Loose /\ s \in Loose' => y = x + 1
      /\ s \in Loose /\ s \notin Loose' => y + 1 = x
  BY CountsFinite, Counting
<1>2. loose \in Nat /\ confirmed \in Nat /\ unsure \in Nat
  BY DEF LooseInv, IndInv, TypeOK
<1>3. confirmed + a <= loose /\ loose + x <= confirmed + unsure + a
  BY DEF LooseInv, LooseAccounted
<1>4. Cardinality(Answered)' = b /\ Cardinality(Loose)' = y
  OBVIOUS
<1> HIDE DEF a, b, x, y
<1>5. confirmed' + b <= loose' /\ loose' + y <= confirmed' + unsure' + b
  BY <1>1, <1>2, <1>3
<1> QED BY <1>4, <1>5 DEF LooseInv, LooseAccounted

\* A tick without trade_id is stored at most once by the run that sends it, and
\* once by a run that says so.
THEOREM LooseAccountedAlways == Spec => []LooseAccounted
<1>1. Init => LooseInv
  <2> SUFFICES ASSUME Init PROVE LooseInv
    OBVIOUS
  <2>1. IndInv
    BY BoundsAssumption DEF Init, IndInv, TypeOK, Stored, OneInserter, Accepted, Claims
  <2>2. Answered = {} /\ Loose = {}
    BY DEF Init, Answered, Loose
  <2> QED BY <2>1, <2>2, FS_EmptySet DEF Init, LooseInv, LooseAccounted
<1>2. LooseInv /\ [Next]_vars => LooseInv'
  <2> SUFFICES ASSUME LooseInv, [Next]_vars PROVE LooseInv'
    OBVIOUS
  <2>0. IndInv /\ IndInv'
    BY NextInv DEF LooseInv
  <2> DEFINE Same(s) == \A t \in Shells : t /= s =>
               pc'[t] = pc[t] /\ row'[t] = row[t] /\ limbo'[t] = limbo[t]
  <2>1. ASSUME NEW s \in Shells, Same(s)
        PROVE  /\ Answered \ {s} = Answered' \ {s} /\ Loose \ {s} = Loose' \ {s}
               /\ s \in Answered' <=> pc'[s] = "answered" /\ Unkeyed(row'[s])
               /\ s \in Answered <=> pc[s] = "answered" /\ Unkeyed(row[s])
               /\ s \in Loose' <=> limbo'[s] /= NoRow /\ Unkeyed(limbo'[s])
               /\ s \in Loose <=> limbo[s] /= NoRow /\ Unkeyed(limbo[s])
    BY <2>1 DEF Answered, Loose, Unkeyed
  <2>2. ASSUME NEW s \in Shells, NEW code \in {0, 1, 2, 3, NoCode}, Finish(s, code),
               pc[s] = "idle" \/ pc[s] = "sent", UNCHANGED <<loose, confirmed, unsure, limbo>>
        PROVE  LooseInv'
    <3>1. Same(s) /\ pc'[s] = "idle" /\ limbo'[s] = limbo[s]
      BY <2>0, <2>2, FinishOthers DEF IndInv
    <3> QED BY <2>0, <2>1, <2>2, <3>1, LooseStep
  <2>3. ASSUME NEW s \in Shells,
               Help(s) \/ BadEnvironment(s) \/ ConnectFails(s) \/ Reject(s)
        PROVE  LooseInv'
    BY <2>2, <2>3 DEF Help, BadEnvironment, ConnectFails, Reject, EndEarly
  <2>4. ASSUME NEW s \in Shells, NEW c \in Commands, Send(s, c) PROVE LooseInv'
    <3>1. Same(s) /\ pc[s] = "idle" /\ pc'[s] = "sent" /\ limbo'[s] = limbo[s]
          /\ UNCHANGED <<loose, confirmed, unsure>>
      BY <2>0, <2>4 DEF Send, IndInv, TypeOK
    <3> QED BY <2>0, <2>1, <3>1, LooseStep
  <2>5. ASSUME NEW s \in Shells, Apply(s) PROVE LooseInv'
    <3>1. /\ Same(s) /\ pc[s] = "sent" /\ pc'[s] = "answered" /\ limbo'[s] = limbo[s]
          /\ row'[s] = row[s] /\ UNCHANGED <<confirmed, unsure>>
          /\ loose' = IF Unkeyed(row[s]) THEN loose + 1 ELSE loose
      BY <2>0, <2>5 DEF Apply, Write, IndInv, TypeOK
    <3> QED BY <2>0, <2>1, <3>1, LooseStep
  <2>6. ASSUME NEW s \in Shells, Refused(s) PROVE LooseInv'
    BY <2>2, <2>6 DEF Refused
  <2>7. ASSUME NEW s \in Shells, Read(s) PROVE LooseInv'
    <3>1. /\ Same(s) /\ pc[s] = "sent" /\ row'[s] = row[s] /\ limbo'[s] = limbo[s]
          /\ ~ Unkeyed(row[s]) /\ UNCHANGED <<loose, confirmed, unsure>>
      BY <2>0, <2>7 DEF Read, IndInv, TypeOK, Unkeyed
    <3> QED BY <2>0, <2>1, <3>1, LooseStep
  <2>8. ASSUME NEW s \in Shells, Answer(s) PROVE LooseInv'
    <3>1. /\ Same(s) /\ pc[s] = "answered" /\ pc'[s] = "idle" /\ limbo'[s] = limbo[s]
      BY <2>0, <2>8, FinishOthers DEF Answer, IndInv
    <3>2. /\ UNCHANGED <<loose, unsure>>
          /\ confirmed' = IF Unkeyed(row[s]) THEN confirmed + 1 ELSE confirmed
      BY <2>8 DEF Answer, Tell
    <3> QED BY <2>0, <2>1, <3>1, <3>2, LooseStep
  <2>9. ASSUME NEW s \in Shells, Unanswered(s) PROVE LooseInv'
    <3>1. PICK code \in {1, NoCode} : Finish(s, code)
      BY <2>9 DEF Unanswered
    <3>2. /\ UNCHANGED <<loose, confirmed>>
          /\ unsure' = IF Unkeyed(row[s]) THEN unsure + 1 ELSE unsure
          /\ \/ limbo' = limbo
             \/ pc[s] = "sent" /\ limbo[s] = NoRow /\ limbo' = [limbo EXCEPT ![s] = row[s]]
      BY <2>9 DEF Unanswered
    <3>3. Same(s) /\ pc'[s] = "idle"
      BY <2>0, <3>1, <3>2, FinishOthers DEF IndInv, TypeOK
    <3>4. limbo'[s] = limbo[s] \/ (pc[s] = "sent" /\ limbo[s] = NoRow /\ limbo'[s] = row[s])
      BY <2>0, <3>2 DEF IndInv, TypeOK
    <3> QED BY <2>0, <2>1, <3>2, <3>3, <3>4, LooseStep
  <2>10. ASSUME NEW s \in Shells, Land(s) PROVE LooseInv'
    <3>1. /\ Same(s) /\ pc'[s] = pc[s] /\ row'[s] = row[s]
          /\ limbo[s] /= NoRow /\ limbo'[s] = NoRow /\ UNCHANGED <<confirmed, unsure>>
          /\ loose' = IF Unkeyed(limbo[s]) THEN loose + 1 ELSE loose
      BY <2>0, <2>10 DEF Land, Write, IndInv, TypeOK
    <3> QED BY <2>0, <2>1, <3>1, LooseStep
  <2>11. ASSUME NEW s \in Shells, Lose(s) PROVE LooseInv'
    <3>1. /\ Same(s) /\ pc'[s] = pc[s] /\ row'[s] = row[s] /\ limbo'[s] = NoRow
          /\ UNCHANGED <<loose, confirmed, unsure>>
      BY <2>0, <2>11 DEF Lose, IndInv, TypeOK
    <3> QED BY <2>0, <2>1, <3>1, LooseStep
  <2>12. CASE Tick \/ UNCHANGED vars
    <3>1. Answered' = Answered /\ Loose' = Loose /\ UNCHANGED <<loose, confirmed, unsure>>
      BY <2>12 DEF Tick, vars, Answered, Loose, Unkeyed
    <3> QED BY <2>0, <3>1 DEF LooseInv, LooseAccounted
  <2> QED BY <2>3, <2>4, <2>5, <2>6, <2>7, <2>8, <2>9, <2>10, <2>11, <2>12 DEF Next
<1>3. LooseInv => LooseAccounted
  BY DEF LooseInv
<1> QED BY <1>1, <1>2, <1>3, PTL DEF Spec

-----------------------------------------------------------------------------
(* Why PostgresCli keeps the promise of AtomicBatch.                       *)

\* A key tells the conflict target it is of.
LEMMA KeyTells ==
    ASSUME NEW r, NEW x, Key(r) = Key(x)
    PROVE  r.op = x.op /\ (r.op = "tick" => r.id = x.id)
<1>1. Key(r)[1] = r.op /\ Key(x)[1] = x.op
  BY DEF Key
<1>2. r.op = "tick" => Key(r)[4] = r.id
  BY DEF Key
<1>3. x.op = "tick" => Key(x)[4] = x.id
  BY DEF Key
<1> QED BY <1>1, <1>2, <1>3

\* Only a tick without trade_id is a row without a key.
LEMMA BatchKey ==
    ASSUME NEW r
    PROVE  BatchRow(r).key = <<>> <=> Unkeyed(r)
<1>1. Key(r) /= <<>>
  BY DEF Key
<1> QED BY <1>1 DEF BatchRow

\* A row conflicts with the abstract table if it does with the table.
LEMMA BatchConflict ==
    ASSUME NEW r, ~ Unkeyed(r)
    PROVE  BatchRow(r).key \in Promise!KeysOf({BatchRow(x) : x \in table})
             <=> Key(r) \in KeysOf(table)
<1>1. BatchRow(r).key = Key(r)
  BY DEF BatchRow
<1>2. ASSUME NEW x \in table, BatchRow(x).key = Key(r) PROVE Key(r) = Key(x)
  <2>1. ~ Unkeyed(x)
    BY <1>1, <1>2, BatchKey
  <2> QED BY <1>2, <2>1 DEF BatchRow
<1>3. ASSUME NEW x \in table, Key(r) = Key(x) PROVE BatchRow(x).key = Key(r)
  <2>1. ~ Unkeyed(x)
    BY <1>3, KeyTells DEF Unkeyed
  <2> QED BY <1>3, <2>1 DEF BatchRow
<1>4. Promise!KeysOf({BatchRow(x) : x \in table}) = {BatchRow(x).key : x \in table}
  BY DEF Promise!KeysOf
<1> QED BY <1>1, <1>2, <1>3, <1>4 DEF KeysOf

\* A batch of one row: what of it is new, and what it adds.
LEMMA OneRow ==
    ASSUME NEW T, NEW b
    PROVE  LET I == IF b.key /= <<>> /\ b.key \in Promise!KeysOf(T) THEN {} ELSE {1} IN
           /\ Promise!Fresh(T, <<b>>) = I
           /\ Promise!Cardinality(Promise!Fresh(T, <<b>>)) = Cardinality(I)
           /\ Promise!KeyedRows(<<b>>, I) = IF b.key /= <<>> /\ I = {1} THEN {b} ELSE {}
           /\ Promise!LooseCount(<<b>>, I) = IF b.key = <<>> THEN 1 ELSE 0
<1> DEFINE I == IF b.key /= <<>> /\ b.key \in Promise!KeysOf(T) THEN {} ELSE {1}
<1>1. DOMAIN <<b>> = {1} /\ <<b>>[1] = b /\ 1 .. (1 - 1) = {}
  OBVIOUS
<1>2. Promise!Fresh(T, <<b>>) = I
  BY <1>1 DEF Promise!Fresh, Promise!Keyed
<1>3. \A S : Promise!Cardinality(S) = Cardinality(S)
  BY DEF Promise!Cardinality, Cardinality
<1>4. Promise!KeyedRows(<<b>>, I) = IF b.key /= <<>> /\ I = {1} THEN {b} ELSE {}
  BY <1>1 DEF Promise!KeyedRows, Promise!Keyed
<1>5. {i \in I : ~ Promise!Keyed(<<b>>[i])} = IF b.key = <<>> THEN {1} ELSE {}
  BY <1>1 DEF Promise!Keyed
<1>6. Cardinality({1}) = 1 /\ Cardinality({}) = 0
  BY FS_Singleton, FS_EmptySet
<1>7. Promise!LooseCount(<<b>>, I) = IF b.key = <<>> THEN 1 ELSE 0
  BY <1>3, <1>5, <1>6 DEF Promise!LooseCount
<1> QED BY <1>2, <1>3, <1>4, <1>7

\* Writing the row of a market command is applying its batch.
LEMMA WriteMerges ==
    ASSUME NEW r, IsInsert(r), Write(r), loose \in Nat
    PROVE  /\ Promise!Merge(<<BatchRow(r)>>)
           /\ Promise!Cardinality(Promise!Fresh({BatchRow(x) : x \in table}, <<BatchRow(r)>>))
                = IF Adds(r) THEN 1 ELSE 0
<1> DEFINE T == {BatchRow(x) : x \in table}
           b == BatchRow(r)
           I == IF b.key /= <<>> /\ b.key \in Promise!KeysOf(T) THEN {} ELSE {1}
<1>1. Promise!Fresh(T, <<b>>) = I /\ Promise!Cardinality(Promise!Fresh(T, <<b>>)) = Cardinality(I)
  BY OneRow
<1>2. /\ Promise!KeyedRows(<<b>>, I) = IF b.key /= <<>> /\ I = {1} THEN {b} ELSE {}
      /\ Promise!LooseCount(<<b>>, I) = IF b.key = <<>> THEN 1 ELSE 0
  BY OneRow
<1>3. r.op \in Markets /\ (b.key = <<>> <=> Unkeyed(r))
  BY BatchKey DEF IsInsert
<1>4. I = IF Adds(r) THEN {1} ELSE {}
  BY <1>3, BatchConflict DEF Adds
<1>5. Cardinality(I) = IF Adds(r) THEN 1 ELSE 0
  BY <1>4, FS_Singleton, FS_EmptySet
<1>6. {BatchRow(x) : x \in table'} = T \cup Promise!KeyedRows(<<b>>, I)
  <2>1. table' = IF ~ Unkeyed(r) /\ Adds(r) THEN table \cup {r} ELSE table
    BY <1>3 DEF Write, Adds
  <2>2. Promise!KeyedRows(<<b>>, I) = IF ~ Unkeyed(r) /\ Adds(r) THEN {b} ELSE {}
    BY <1>2, <1>3, <1>4
  <2> QED BY <2>1, <2>2
<1>7. loose' = loose + Promise!LooseCount(<<b>>, I)
  <2>1. loose' = IF Unkeyed(r) THEN loose + 1 ELSE loose
    BY DEF Write
  <2>2. CASE Unkeyed(r)
    BY <1>2, <1>3, <2>1, <2>2
  <2>3. CASE ~ Unkeyed(r)
    BY <1>2, <1>3, <2>1, <2>3
  <2> QED BY <2>2, <2>3
<1>8. T' = {BatchRow(x) : x \in table'}
  BY DEF BatchRow, Unkeyed, Key
<1>9. T' = T \cup Promise!KeyedRows(<<b>>, Promise!Fresh(T, <<b>>))
        /\ loose' = loose + Promise!LooseCount(<<b>>, Promise!Fresh(T, <<b>>))
  BY ONLY <1>1, <1>6, <1>7, <1>8
<1> HIDE DEF I
<1>10. Promise!Merge(<<b>>)
  BY <1>9 DEF Promise!Merge
<1> QED BY <1>1, <1>5, <1>10

\* Of the abstract state too, a step changes what belongs to its shell.
Others(s) ==
    \A t \in Shells : t /= s =>
        pc'[t] = pc[t] /\ row'[t] = row[t] /\ exit'[t] = exit[t] /\ limbo'[t] = limbo[t]

LEMMA OneChange ==
    ASSUME NEW S, NEW F, NEW G, NEW s \in S,
           F = [t \in S |-> F[t]], G = [t \in S |-> G[t]], \A t \in S : t /= s => G[t] = F[t]
    PROVE  G = [F EXCEPT ![s] = G[s]] /\ (G[s] = F[s] => G = F)
OBVIOUS

LEMMA AbstractStep ==
    ASSUME NEW s \in Shells, Others(s)
    PROVE  /\ status'   = [status EXCEPT ![s] = status'[s]]
           /\ work'     = [work EXCEPT ![s] = work'[s]]
           /\ report'   = [report EXCEPT ![s] = report'[s]]
           /\ onItsWay' = [onItsWay EXCEPT ![s] = onItsWay'[s]]
           /\ status'[s] = status[s]     => UNCHANGED status
           /\ work'[s] = work[s]         => UNCHANGED work
           /\ report'[s] = report[s]     => UNCHANGED report
           /\ onItsWay'[s] = onItsWay[s] => UNCHANGED onItsWay
<1>1. \A t \in Shells : t /= s => /\ status'[t] = status[t] /\ work'[t] = work[t]
                                  /\ report'[t] = report[t] /\ onItsWay'[t] = onItsWay[t]
  BY DEF Others, status, work, report, onItsWay
<1>2. /\ status = [t \in Shells |-> status[t]] /\ status' = [t \in Shells |-> status'[t]]
      /\ work = [t \in Shells |-> work[t]] /\ work' = [t \in Shells |-> work'[t]]
  BY DEF status, work
<1>3. /\ report = [t \in Shells |-> report[t]] /\ report' = [t \in Shells |-> report'[t]]
      /\ onItsWay = [t \in Shells |-> onItsWay[t]] /\ onItsWay' = [t \in Shells |-> onItsWay'[t]]
  BY DEF report, onItsWay
<1>4. status' = [status EXCEPT ![s] = status'[s]] /\ (status'[s] = status[s] => UNCHANGED status)
  BY ONLY <1>1, <1>2, OneChange
<1>5. work' = [work EXCEPT ![s] = work'[s]] /\ (work'[s] = work[s] => UNCHANGED work)
  BY ONLY <1>1, <1>2, OneChange
<1>6. report' = [report EXCEPT ![s] = report'[s]] /\ (report'[s] = report[s] => UNCHANGED report)
  BY ONLY <1>1, <1>3, OneChange
<1>7. onItsWay' = [onItsWay EXCEPT ![s] = onItsWay'[s]]
        /\ (onItsWay'[s] = onItsWay[s] => UNCHANGED onItsWay)
  BY ONLY <1>1, <1>3, OneChange
<1> QED BY <1>4, <1>5, <1>6, <1>7

\* The abstract state of one shell.
LEMMA AbstractValues ==
    ASSUME NEW s \in Shells
    PROVE  /\ status[s] = IF ~ IsInsert(row[s]) THEN "idle"
                          ELSE IF pc[s] = "sent" THEN "pending" ELSE "applied"
           /\ work[s] = IF IsInsert(row[s]) THEN <<BatchRow(row[s])>> ELSE <<>>
           /\ report[s] = IF exit[s] = NoCode THEN "none" ELSE Word(exit[s])
           /\ onItsWay[s] = IF IsInsert(limbo[s]) THEN {<<BatchRow(limbo[s])>>} ELSE {}
           /\ status'[s] = IF ~ IsInsert(row'[s]) THEN "idle"
                           ELSE IF pc'[s] = "sent" THEN "pending" ELSE "applied"
           /\ work'[s] = IF IsInsert(row'[s]) THEN <<BatchRow(row'[s])>> ELSE <<>>
           /\ report'[s] = IF exit'[s] = NoCode THEN "none" ELSE Word(exit'[s])
           /\ onItsWay'[s] = IF IsInsert(limbo'[s]) THEN {<<BatchRow(limbo'[s])>>} ELSE {}
<1>1. \A r : IsInsert(r)' <=> IsInsert(r)
  BY DEF IsInsert
<1> QED BY DEF status, work, report, onItsWay, IsInsert, BatchRow, Unkeyed, Key

\* The abstract table changes only with the table.
LEMMA SameTable ==
    ASSUME UNCHANGED table
    PROVE  {BatchRow(x) : x \in table}' = {BatchRow(x) : x \in table}
BY DEF BatchRow, Unkeyed, Key

Report(code) == IF code = NoCode THEN "none" ELSE Word(code)

\* A command ends.  AtomicBatch sees its batch fail, or finish if it was applied,
\* or nothing but a report if it was no insert or was never sent.
LEMMA EndingStep ==
    ASSUME IndInv, NEW s \in Shells, NEW code, Finish(s, code), UNCHANGED <<table, loose>>,
           \A t \in Shells : t /= s => limbo'[t] = limbo[t],
           \/ onItsWay'[s] = onItsWay[s]
           \/ pc[s] = "sent" /\ IsInsert(row[s]) /\ onItsWay'[s] = {work[s]},
           pc[s] = "sent" => Report(code) \in {"failed", "none"},
           pc[s] = "answered" => Report(code) \in {"stored", "failed", "none"}
    PROVE  Promise!Trivial(s) \/ Promise!Fail(s) \/ Promise!Finish(s)
<1>1. Others(s)
  BY DEF Others, Finish, IndInv, TypeOK
<1>2. status'[s] = "idle" /\ work'[s] = <<>> /\ report'[s] = Report(code)
  <2>1. row'[s] = NoRow /\ exit'[s] = code /\ ~ IsInsert(NoRow)
    BY DEF Finish, IndInv, TypeOK, IsInsert
  <2> QED BY <2>1, AbstractValues DEF Report
<1>3. affected' = [affected EXCEPT ![s] = 0]
  BY DEF Finish
<1>4. {BatchRow(x) : x \in table}' = {BatchRow(x) : x \in table}
  BY SameTable
<1>5. CASE ~ IsInsert(row[s])
  <2>1. status[s] = "idle" /\ work[s] = <<>> /\ onItsWay'[s] = onItsWay[s]
    BY <1>5, AbstractValues
  <2>2. affected[s] = 0
    <3>1. affected[s] = 1 => row[s] /= NoRow /\ row[s].op \in Markets
      BY DEF IndInv, TypeOK, Claims
    <3> QED BY <1>5, <3>1 DEF IsInsert, IndInv, TypeOK
  <2>3. affected' = affected
    BY <1>3, <2>2 DEF IndInv, TypeOK
  <2>4. Report(code) \in {"stored", "invalid", "failed", "none"}
    BY DEF Report, Word
  <2> QED BY <1>1, <1>2, <1>4, <2>1, <2>3, <2>4, AbstractStep DEF Promise!Trivial
<1>6. CASE IsInsert(row[s])
  <2>1. Promise!Answer(s, Report(code))
    BY <1>1, <1>2, <1>3, <1>4, AbstractStep DEF Promise!Answer
  <2>2. CASE pc[s] = "sent"
    <3>1. status[s] = "pending"
      BY <1>6, <2>2, AbstractValues
    <3>2. UNCHANGED onItsWay \/ onItsWay' = [onItsWay EXCEPT ![s] = {work[s]}]
      BY <1>1, AbstractStep
    <3> QED BY <2>1, <2>2, <3>1, <3>2 DEF Promise!Fail
  <2>3. CASE pc[s] = "answered"
    <3>1. status[s] = "applied" /\ UNCHANGED onItsWay
      BY <1>1, <1>6, <2>3, AbstractValues, AbstractStep
    <3> QED BY <2>1, <2>3, <3>1 DEF Promise!Finish
  <2>4. pc[s] \in {"sent", "answered"}
    BY <1>6 DEF IsInsert, IndInv, TypeOK
  <2> QED BY <2>2, <2>3, <2>4
<1> QED BY <1>5, <1>6

\* The commands that end, in whatever way.
LEMMA EndingSteps ==
    ASSUME IndInv, NEW s \in Shells,
           \/ Help(s) \/ BadEnvironment(s) \/ ConnectFails(s) \/ Reject(s)
           \/ Refused(s) \/ Answer(s) \/ Unanswered(s)
    PROVE  Promise!Trivial(s) \/ Promise!Fail(s) \/ Promise!Finish(s)
<1>1. ASSUME NEW code, EndEarly(s, code)
      PROVE  Promise!Trivial(s) \/ Promise!Fail(s) \/ Promise!Finish(s)
  <2>1. onItsWay'[s] = onItsWay[s]
    BY <1>1, AbstractValues DEF EndEarly
  <2> QED BY <1>1, <2>1, EndingStep DEF EndEarly
<1>2. CASE Help(s) \/ BadEnvironment(s) \/ ConnectFails(s) \/ Reject(s)
  BY <1>1, <1>2 DEF Help, BadEnvironment, ConnectFails, Reject
<1>3. CASE Refused(s)
  <2>1. onItsWay'[s] = onItsWay[s]
    BY <1>3, AbstractValues DEF Refused
  <2>2. Report(1) \in {"failed", "none"}
    BY DEF Report, Word
  <2> QED BY <1>3, <2>1, <2>2, EndingStep DEF Refused
<1>4. CASE Answer(s)
  <2>1. onItsWay'[s] = onItsWay[s]
    BY <1>4, AbstractValues DEF Answer
  <2>2. PICK code \in {0, 3} : Finish(s, code)
    BY <1>4 DEF Answer
  <2>3. Report(code) \in {"stored", "none"}
    BY <2>2 DEF Report, Word
  <2> QED BY <1>4, <2>1, <2>2, <2>3, EndingStep DEF Answer
<1>5. CASE Unanswered(s)
  <2>1. PICK code \in {1, NoCode} : Finish(s, code)
    BY <1>5 DEF Unanswered
  <2>2. Report(code) \in {"failed", "none"}
    BY <2>1 DEF Report, Word
  <2>3. \/ limbo' = limbo
        \/ pc[s] = "sent" /\ limbo[s] = NoRow /\ limbo' = [limbo EXCEPT ![s] = row[s]]
    BY <1>5 DEF Unanswered
  <2>4. \A t \in Shells : t /= s => limbo'[t] = limbo[t]
    BY <2>3 DEF IndInv, TypeOK
  <2>5. \/ onItsWay'[s] = onItsWay[s]
        \/ pc[s] = "sent" /\ IsInsert(row[s]) /\ onItsWay'[s] = {work[s]}
    <3>1. CASE limbo' = limbo
      BY <3>1, AbstractValues
    <3>2. CASE pc[s] = "sent" /\ limbo[s] = NoRow /\ limbo' = [limbo EXCEPT ![s] = row[s]]
      <4>1. limbo'[s] = row[s] /\ ~ IsInsert(limbo[s])
        BY <3>2 DEF IsInsert, IndInv, TypeOK
      <4> QED BY <3>2, <4>1, AbstractValues
    <3> QED BY <2>3, <3>1, <3>2
  <2> QED BY <1>5, <2>1, <2>2, <2>4, <2>5, EndingStep DEF Unanswered
<1> QED BY <1>2, <1>3, <1>4, <1>5

\* A command is sent: a batch is submitted, or nothing that AtomicBatch sees.
LEMMA SendingStep ==
    ASSUME IndInv, NEW s \in Shells, NEW c \in Commands, Send(s, c)
    PROVE  Promise!Submit(s) \/ Promise!Trivial(s)
<1>1. /\ Others(s) /\ pc'[s] = "sent" /\ row'[s] = c /\ exit'[s] = NoCode
      /\ limbo'[s] = limbo[s] /\ row[s] = NoRow /\ c /= NoRow
      /\ UNCHANGED <<table, loose, affected>>
  BY CommandsAssumption DEF Others, Send, IndInv, TypeOK
<1>2. {BatchRow(x) : x \in table}' = {BatchRow(x) : x \in table}
  BY <1>1, SameTable
<1>3. status[s] = "idle" /\ work[s] = <<>> /\ report'[s] = "none" /\ onItsWay'[s] = onItsWay[s]
  BY <1>1, AbstractValues DEF IsInsert
<1>4. CASE c.op \in Markets
  <2>1. status'[s] = "pending" /\ work'[s] = <<BatchRow(c)>>
    BY <1>1, <1>4, AbstractValues DEF IsInsert
  <2>2. <<BatchRow(c)>> \in InsertBatches
    BY <1>4 DEF InsertBatches, InsertRows, Inserts, Send, Rejected
  <2> QED BY <1>1, <1>2, <1>3, <2>1, <2>2, AbstractStep DEF Promise!Submit
<1>5. CASE c.op \notin Markets
  <2>1. status'[s] = "idle" /\ work'[s] = <<>>
    BY <1>1, <1>5, AbstractValues DEF IsInsert
  <2> QED BY <1>1, <1>2, <1>3, <2>1, AbstractStep DEF Promise!Trivial
<1> QED BY <1>4, <1>5

\* The server writes the row of a running command.
LEMMA ApplyingStep ==
    ASSUME IndInv, NEW s \in Shells, Apply(s)
    PROVE  Promise!Apply(s) \/ UNCHANGED Promise!avars
<1>1. /\ Others(s) /\ pc[s] = "sent" /\ pc'[s] = "answered" /\ row' = row
      /\ row[s] /= NoRow /\ Write(row[s]) /\ affected[s] = 0 /\ loose \in Nat
      /\ affected' = [affected EXCEPT ![s] = IF Adds(row[s]) THEN 1 ELSE 0]
      /\ UNCHANGED <<exit, limbo>>
  BY DEF Others, Apply, IndInv, TypeOK
<1>2. report'[s] = report[s] /\ onItsWay'[s] = onItsWay[s] /\ work'[s] = work[s]
  BY <1>1, AbstractValues
<1>3. CASE IsInsert(row[s])
  <2>1. status[s] = "pending" /\ status'[s] = "applied" /\ work[s] = <<BatchRow(row[s])>>
    BY <1>1, <1>3, AbstractValues
  <2>2. Promise!Merge(work[s]) /\ affected' = [affected EXCEPT ![s] =
          Promise!Cardinality(Promise!Fresh({BatchRow(x) : x \in table}, work[s]))]
    BY <1>1, <1>3, <2>1, WriteMerges
  <2> QED BY <1>1, <1>2, <2>1, <2>2, AbstractStep DEF Promise!Apply
<1>4. CASE ~ IsInsert(row[s])
  <2>1. UNCHANGED <<table, loose>> /\ status'[s] = status[s] /\ affected' = affected
    <3>1. row[s].op \notin Markets
      BY <1>1, <1>4 DEF IsInsert
    <3>2. UNCHANGED <<table, loose>> /\ ~ Adds(row[s])
      BY <1>1, <3>1 DEF Write, Adds, Unkeyed
    <3> QED BY <1>1, <1>4, <3>2, AbstractValues DEF IndInv, TypeOK
  <2>2. {BatchRow(x) : x \in table}' = {BatchRow(x) : x \in table}
    BY <2>1, SameTable
  <2> QED BY <1>1, <1>2, <2>1, <2>2, AbstractStep DEF Promise!avars
<1> QED BY <1>3, <1>4

\* A COMMIT on its way arrives, or does not.
LEMMA LimboStep ==
    ASSUME IndInv, NEW s \in Shells, Land(s) \/ Lose(s)
    PROVE  Promise!Land(s) \/ Promise!Lose(s) \/ UNCHANGED Promise!avars
<1>1. /\ Others(s) /\ limbo[s] /= NoRow /\ limbo'[s] = NoRow /\ loose \in Nat
      /\ UNCHANGED <<pc, row, exit, affected>>
  BY DEF Others, Land, Lose, IndInv, TypeOK
<1>2. status'[s] = status[s] /\ work'[s] = work[s] /\ report'[s] = report[s] /\ onItsWay'[s] = {}
  BY <1>1, AbstractValues DEF IsInsert
<1>3. CASE Land(s) /\ IsInsert(limbo[s])
  <2>1. onItsWay[s] = {<<BatchRow(limbo[s])>>} /\ Promise!Merge(<<BatchRow(limbo[s])>>)
    BY <1>1, <1>3, AbstractValues, WriteMerges DEF Land
  <2> QED BY <1>1, <1>2, <2>1, AbstractStep DEF Promise!Land
<1>4. CASE Lose(s) /\ IsInsert(limbo[s])
  <2>1. onItsWay[s] /= {} /\ UNCHANGED <<table, loose>>
    BY <1>1, <1>4, AbstractValues DEF Lose
  <2>2. {BatchRow(x) : x \in table}' = {BatchRow(x) : x \in table}
    BY <2>1, SameTable
  <2> QED BY <1>1, <1>2, <2>1, <2>2, AbstractStep DEF Promise!Lose
<1>5. CASE ~ IsInsert(limbo[s])
  <2>1. onItsWay[s] = {}
    BY <1>5, AbstractValues
  <2>2. UNCHANGED <<table, loose>>
    BY <1>1, <1>5 DEF Land, Lose, Write, IsInsert, Unkeyed
  <2>3. {BatchRow(x) : x \in table}' = {BatchRow(x) : x \in table}
    BY <2>2, SameTable
  <2> QED BY <1>1, <1>2, <2>1, <2>2, <2>3, AbstractStep DEF Promise!avars
<1> QED BY <1>3, <1>4, <1>5

\* What no insert takes part in.
LEMMA HiddenStep ==
    ASSUME IndInv, (\E s \in Shells : Read(s)) \/ Tick \/ UNCHANGED vars
    PROVE  UNCHANGED Promise!avars
<1>1. UNCHANGED <<row, exit, limbo, table, loose, affected>>
  BY DEF Read, Tick, vars
<1>2. {BatchRow(x) : x \in table}' = {BatchRow(x) : x \in table}
  BY <1>1, SameTable
<1>3. UNCHANGED <<work, report, onItsWay>>
  BY <1>1 DEF work, report, onItsWay, IsInsert, Word, BatchRow, Unkeyed, Key
<1>4. ASSUME NEW s \in Shells, NEW t \in Shells, Read(s) PROVE status'[t] = status[t]
  <2>1. pc'[t] = pc[t] \/ ~ IsInsert(row[t])
    BY <1>4 DEF Read, IndInv, TypeOK, IsInsert
  <2>2. row'[t] = row[t]
    BY <1>1
  <2> QED BY <2>1, <2>2, AbstractValues
<1>5. pc' = pc => UNCHANGED status
  BY <1>1 DEF status, IsInsert
<1>6. status = [t \in Shells |-> status[t]] /\ status' = [t \in Shells |-> status'[t]]
  BY DEF status
<1>7. UNCHANGED status
  BY <1>4, <1>5, <1>6 DEF Tick, vars
<1> QED BY <1>1, <1>2, <1>3, <1>7 DEF Promise!avars

LEMMA AbstractNext ==
    ASSUME IndInv, [Next]_vars PROVE [Promise!Next]_(Promise!avars)
<1>1. CASE Tick \/ UNCHANGED vars
  BY <1>1, HiddenStep
<1>2. ASSUME NEW s \in Shells,
             \/ Help(s) \/ BadEnvironment(s) \/ ConnectFails(s) \/ Reject(s)
             \/ \E c \in Commands : Send(s, c)
             \/ Apply(s) \/ Refused(s) \/ Read(s) \/ Answer(s) \/ Unanswered(s)
             \/ Land(s) \/ Lose(s)
      PROVE  \/ UNCHANGED Promise!avars
             \/ Promise!Trivial(s) \/ Promise!Submit(s) \/ Promise!Apply(s)
             \/ Promise!Finish(s) \/ Promise!Fail(s) \/ Promise!Land(s) \/ Promise!Lose(s)
  BY <1>2, EndingSteps, SendingStep, ApplyingStep, LimboStep, HiddenStep
<1> QED BY <1>1, <1>2 DEF Next, Promise!Next

\* The promise of MarketDataRepository reaches the shell: exit code 0 of a market
\* command means that its row is durable, and a run adds it once or not at all.
THEOREM KeepsPromiseAlways == Spec => KeepsPromise
<1>1. Init => Promise!Init
  BY DEF Init, Promise!Init, status, work, report, onItsWay, IsInsert
<1> QED
  BY <1>1, AbstractNext, Invariance, PTL DEF Spec, KeepsPromise, Promise!Spec
=============================================================================

-------------------------- MODULE QuoteCache_proofs --------------------------
(* Proofs of the safety properties of QuoteCache for every set of processes, *)
(* every TTL, latency, history length and number of faults.                  *)
EXTENDS QuoteCache, FiniteSetTheorems, TLAPS

USE TtlAssumption, HistoryAssumption, BoundsAssumption, AgeCapAssumption

LEMMA BoundsAreNat ==
    /\ ClientBound \in Nat /\ StoreBound \in Nat
    /\ ExpireBound \in Nat /\ StaleBound \in Nat
    /\ StoreBound = ClientBound + MaxLatency
    /\ ExpireBound = StoreBound + MaxLatency
    /\ StaleBound = ExpireBound + QuoteTtl
    /\ CacheTtl > 0 => ClientBound = CacheTtl - 1
BY DEF ClientBound, StoreBound, ExpireBound, StaleBound

\* Moving one process changes the number of processes about to trim by one.
LEMMA AtLtrimCardinality ==
    ASSUME NEW p \in Procs, NEW l \in Labels, TypeOK, pc' = [pc EXCEPT ![p] = l]
    PROVE  /\ Cardinality(AtLtrim) \in Nat /\ Cardinality(AtLtrim') \in Nat
           /\ pc[p] /= "ltrim" /\ l /= "ltrim" => AtLtrim' = AtLtrim
           /\ pc[p] /= "ltrim" /\ l = "ltrim"
                => Cardinality(AtLtrim') = Cardinality(AtLtrim) + 1
           /\ Cardinality(AtLtrim') + 1 >= Cardinality(AtLtrim)
<1>1. IsFiniteSet(AtLtrim) /\ IsFiniteSet(AtLtrim')
  BY ProcsAssumption, FS_Subset DEF AtLtrim
<1>2. Cardinality(AtLtrim) \in Nat /\ Cardinality(AtLtrim') \in Nat
  BY <1>1, FS_CardinalityType
<1>3. CASE pc[p] = "ltrim" /\ l = "ltrim"
  <2>1. AtLtrim' = AtLtrim  BY <1>3 DEF AtLtrim, TypeOK
  <2> QED  BY <2>1, <1>2, <1>3
<1>4. CASE pc[p] = "ltrim" /\ l /= "ltrim"
  <2>1. AtLtrim' = AtLtrim \ {p} /\ p \in AtLtrim  BY <1>4 DEF AtLtrim, TypeOK
  <2>2. Cardinality(AtLtrim') = Cardinality(AtLtrim) - 1
    BY <2>1, <1>1, FS_RemoveElement
  <2> QED  BY <2>2, <1>2, <1>4
<1>5. CASE pc[p] /= "ltrim" /\ l = "ltrim"
  <2>1. AtLtrim' = AtLtrim \cup {p} /\ p \notin AtLtrim  BY <1>5 DEF AtLtrim, TypeOK
  <2>2. Cardinality(AtLtrim') = Cardinality(AtLtrim) + 1
    BY <2>1, <1>1, FS_AddElement
  <2> QED  BY <2>2, <1>2, <1>5
<1>6. CASE pc[p] /= "ltrim" /\ l /= "ltrim"
  <2>1. AtLtrim' = AtLtrim  BY <1>6 DEF AtLtrim, TypeOK
  <2> QED  BY <2>1, <1>2, <1>6
<1> QED  BY <1>3, <1>4, <1>5, <1>6

\* A tick adds at most one to the age of a quote and changes nothing else.
LEMMA OlderQuote ==
    ASSUME NEW q \in Quotes \cup {NoQuote}
    PROVE  /\ Older(q) \in Quotes \cup {NoQuote}
           /\ (Older(q) = NoQuote) <=> (q = NoQuote)
           /\ q /= NoQuote => Older(q).age <= q.age + 1
BY NoQuoteAssumption DEF Older, Quotes, Ages

\* A tick on the Redis entry: the same, and the TTL, if any, counts down.
LEMMA OlderEntry ==
    ASSUME NEW e \in Entries \cup {NoQuote}
    PROVE  /\ AfterTick(e) \in Entries \cup {NoQuote}
           /\ e = NoQuote => AfterTick(e) = NoQuote
           /\ AfterTick(e) /= NoQuote =>
                /\ e /= NoQuote
                /\ AfterTick(e).age <= e.age + 1
                /\ e.ttl = NoTtl => AfterTick(e).ttl = NoTtl
                /\ e.ttl /= NoTtl => AfterTick(e).ttl = e.ttl - 1 /\ AfterTick(e).ttl /= NoTtl
<1> USE NoQuoteAssumption DEF Entries, Ages, Ttls, NoTtl
<1>1. CASE e = NoQuote \/ e.ttl = 1
  BY <1>1 DEF AfterTick
<1>2. CASE e /= NoQuote /\ e.ttl /= 1
  <2>1. Older(e) \in Entries /\ Older(e).age <= e.age + 1 /\ Older(e).ttl = e.ttl
    BY <1>2 DEF Older
  <2>2. AfterTick(e) = [Older(e) EXCEPT !.ttl = IF e.ttl = NoTtl THEN NoTtl ELSE e.ttl - 1]
    BY <1>2 DEF AfterTick
  <2>3. e.ttl \in Int /\ (e.ttl = -1 \/ e.ttl \in 2 .. QuoteTtl)
    BY <1>2
  <2> QED  BY <1>2, <2>1, <2>2, <2>3
<1> QED  BY <1>1, <1>2

-----------------------------------------------------------------------------
LEMMA InitInv == Init => IndInv
<1> SUFFICES ASSUME Init PROVE IndInv  OBVIOUS
<1> USE DEF Init
<1>1. TypeOK
  BY DEF TypeOK, Labels, Holding, Storing
<1>2. StoringFresh /\ HoldingFresh /\ ExpireFindsFresh /\ TtlBoundsAge /\ NoTtlOnlyInFlight
  BY DEF StoringFresh, HoldingFresh, ExpireFindsFresh, TtlBoundsAge,
         NoTtlOnlyInFlight, Storing, Holding
<1>3. HistoryBounded
  <2>1. AtLtrim = {}  BY DEF AtLtrim
  <2> QED  BY <2>1, FS_EmptySet DEF HistoryBounded
<1> QED  BY <1>1, <1>2, <1>3 DEF IndInv

\* Type correctness of every step.
LEMMA TypeStep == TypeOK /\ [Next]_vars => TypeOK'
<1> SUFFICES ASSUME TypeOK, [Next]_vars PROVE TypeOK'  OBVIOUS
<1> USE NoQuoteAssumption DEF TypeOK, Labels, Holding, Storing, Quotes, Entries, Ages, Ttls, NoTtl
<1>t. CASE Tick
  <2>1. waited' \in [Procs -> 0 .. MaxLatency]
    BY <1>t DEF Tick
  <2>2. quote' \in [Procs -> Quotes \cup {NoQuote}]
    <3> HIDE DEF Quotes
    <3> QED  BY <1>t, OlderQuote DEF Tick
  <2>3. avCache' \in [Procs -> Quotes \cup {NoQuote}]
    <3> HIDE DEF Quotes
    <3> QED  BY <1>t, OlderQuote DEF Tick
  <2>4. redis' \in Entries \cup {NoQuote}
    <3> HIDE DEF Entries
    <3> QED  BY <1>t, OlderEntry DEF Tick
  <2>5. \A p \in Procs : quote'[p] /= NoQuote <=> quote[p] /= NoQuote
    <3> HIDE DEF Quotes
    <3> QED  BY <1>t, OlderQuote DEF Tick
  <2> QED
    <3> HIDE DEF Quotes, Entries
    <3> QED  BY <1>t, <2>1, <2>2, <2>3, <2>4, <2>5 DEF Tick
<1>u. CASE UNCHANGED vars
  BY <1>u DEF vars
<1>p. ASSUME NEW p \in Procs, Step(p) \/ Fault(p) PROVE TypeOK'
  <2>1. CASE ReadHit(p)
    <3>1. [age |-> redis.age, valid |-> TRUE] \in Quotes
      BY <2>1 DEF ReadHit, Usable
    <3>2. [age |-> redis.age, valid |-> TRUE] /= NoQuote
      BY <3>1
    <3> HIDE DEF Quotes, Entries
    <3> QED  BY <2>1, <3>1, <3>2 DEF ReadHit, Obtain
  <2>2. CASE ReadMiss(p)  BY <2>2 DEF ReadMiss
  <2>3. CASE ReadError(p)  BY <2>3 DEF ReadError
  <2>4. CASE ClientCacheHit(p)  BY <2>4 DEF ClientCacheHit, CacheFresh, Obtain
  <2>5. CASE FetchExternal(p)  BY <2>5 DEF FetchExternal, Obtain
  <2>6. CASE FetchNothing(p)  BY <2>6 DEF FetchNothing
  <2>7. CASE StoreCommand(p)
    BY <2>7 DEF StoreCommand, Effect, HmsetEffect, ExpireEffect, LpushEffect, LtrimEffect, Following
  <2>8. CASE StoreError(p)
    BY <2>8 DEF StoreError, Effect, HmsetEffect, ExpireEffect, LpushEffect, LtrimEffect
  <2>9. CASE Return(p)  BY <2>9 DEF Return, Obtain
  <2>10. CASE Crash(p)  BY <2>10 DEF Crash, Obtain
  <2> QED
    BY <1>p, <2>1, <2>2, <2>3, <2>4, <2>5, <2>6, <2>7, <2>8, <2>9, <2>10
       DEF Step, Fault, Progress
<1> QED  BY <1>t, <1>u, <1>p DEF Next

-----------------------------------------------------------------------------
\* Time passes: ages and the waits grow together, and the TTL shrinks.
LEMMA TickInv == IndInv /\ Tick => IndInv'
<1> SUFFICES ASSUME IndInv, Tick PROVE IndInv'  OBVIOUS
<1> USE BoundsAreNat DEF IndInv
<1>1. TypeOK /\ TypeOK'
  BY TypeStep DEF Next
<1>2. /\ UNCHANGED <<pc, history, faults>>
      /\ \A p \in Procs : pc[p] \in Holding =>
            /\ waited'[p] = waited[p] + 1
            /\ quote[p] \in Quotes /\ quote'[p] \in Quotes
            /\ quote'[p].age <= quote[p].age + 1
  BY <1>1, OlderQuote DEF Tick, TypeOK
<1>3. redis' /= NoQuote =>
        /\ redis \in Entries /\ redis' \in Entries /\ redis /= NoQuote
        /\ redis'.age <= redis.age + 1
        /\ redis.ttl = NoTtl => redis'.ttl = NoTtl
        /\ redis.ttl /= NoTtl => redis'.ttl = redis.ttl - 1 /\ redis'.ttl /= NoTtl
  BY <1>1, OlderEntry DEF Tick, TypeOK
<1>4. \A p \in Procs : waited[p] \in Nat
  BY <1>1 DEF TypeOK
<1>5. StoringFresh'
  BY <1>2, <1>4 DEF StoringFresh, Holding, Quotes, Ages
<1>6. ExpireFindsFresh'
  BY <1>2, <1>3, <1>4 DEF ExpireFindsFresh, Holding, Storing, Entries, Ages
<1>7. HoldingFresh'
  BY <1>2, <1>4 DEF HoldingFresh, Quotes, Ages
<1>8. TtlBoundsAge'
  BY <1>3 DEF TtlBoundsAge, Entries, Ages, Ttls, NoTtl
<1>9. NoTtlOnlyInFlight'
  BY <1>2, <1>3 DEF NoTtlOnlyInFlight
<1>10. HistoryBounded'
  BY <1>2 DEF HistoryBounded, AtLtrim
<1> QED  BY <1>1, <1>5, <1>6, <1>7, <1>8, <1>9, <1>10

\* A step of p that leaves Redis alone and takes p to l, neither EXPIRE nor LTRIM.
Quiet(p, l) ==
    /\ pc' = [pc EXCEPT ![p] = l] /\ l \in Labels \ {"expire", "ltrim"}
    /\ pc[p] = "expire" => faults' > 0
    /\ pc[p] = "ltrim" => faults' > faults
    /\ UNCHANGED <<redis, history>> /\ faults' >= faults
    /\ \A o \in Procs \ {p} : waited'[o] = waited[o] /\ quote'[o] = quote[o]
    /\ l \in Storing => quote'[p].age <= ClientBound + waited'[p]
    /\ (l \in Holding /\ faults' = 0) => quote'[p].age <= StaleBound + waited'[p]

LEMMA QuietInv ==
    ASSUME NEW p \in Procs, NEW l, IndInv, TypeOK', Quiet(p, l)
    PROVE  IndInv'
<1> USE BoundsAreNat DEF IndInv, Quiet
<1>1. pc \in [Procs -> Labels] /\ faults \in Nat /\ faults' \in Nat /\ history \in Nat
  BY DEF TypeOK
<1>2. StoringFresh'
  BY <1>1 DEF StoringFresh
<1>3. HoldingFresh'
  BY <1>1 DEF HoldingFresh
<1>4. ExpireFindsFresh'
  BY <1>1 DEF ExpireFindsFresh
<1>5. TtlBoundsAge'
  BY DEF TtlBoundsAge
<1>6. NoTtlOnlyInFlight'
  BY <1>1 DEF NoTtlOnlyInFlight
<1>7. HistoryBounded'
  <2>1. /\ Cardinality(AtLtrim) \in Nat /\ Cardinality(AtLtrim') \in Nat
        /\ Cardinality(AtLtrim') + 1 >= Cardinality(AtLtrim)
        /\ pc[p] /= "ltrim" => Cardinality(AtLtrim') = Cardinality(AtLtrim)
    BY AtLtrimCardinality
  <2>2. history <= HistoryMax + Cardinality(AtLtrim) + faults
    BY DEF HistoryBounded
  <2>3. history <= HistoryMax + Cardinality(AtLtrim') + faults'
    BY <1>1, <2>1, <2>2
  <2> QED  BY <2>3 DEF HistoryBounded
<1> QED  BY <1>2, <1>3, <1>4, <1>5, <1>6, <1>7

\* No quote in Redis is older than StaleBound before the first fault.
LEMMA EntryFresh ==
    ASSUME IndInv, redis /= NoQuote, faults = 0
    PROVE  redis.age <= StaleBound
<1> USE BoundsAreNat DEF IndInv
<1>1. redis \in Entries
  BY DEF TypeOK
<1>2. CASE redis.ttl /= NoTtl
  BY <1>1, <1>2 DEF TtlBoundsAge, Entries, Ages, Ttls, NoTtl
<1>3. CASE redis.ttl = NoTtl
  <2>1. PICK p \in Procs : pc[p] = "expire"
    BY <1>3 DEF NoTtlOnlyInFlight
  <2>2. redis.age <= StoreBound + waited[p] /\ waited[p] \in 0 .. MaxLatency
    BY <2>1 DEF ExpireFindsFresh, TypeOK
  <2> QED  BY <2>2, <1>1 DEF Entries, Ages
<1> QED  BY <1>2, <1>3

\* Steps outside store_quote.
LEMMA ReadAndReturnInv ==
    ASSUME NEW p \in Procs, IndInv, TypeOK',
           \/ ReadHit(p) \/ ReadMiss(p) \/ ReadError(p) \/ ClientCacheHit(p)
           \/ FetchExternal(p) \/ FetchNothing(p) \/ Return(p) \/ Crash(p)
    PROVE  IndInv'
<1> USE BoundsAreNat DEF Obtain, Labels, Holding, Storing
<1>0. TypeOK /\ waited \in [Procs -> 0 .. MaxLatency] /\ faults \in Nat
      /\ quote \in [Procs -> Quotes \cup {NoQuote}]
  BY DEF IndInv, TypeOK
<1>1. CASE ReadHit(p)
  <2>1. redis \in Entries /\ redis /= NoQuote /\ redis.age \in Nat
    BY <1>1, <1>0 DEF TypeOK, ReadHit, Usable, Entries, Ages
  <2>2. quote'[p].age = redis.age /\ waited'[p] = 0
    BY <1>0, <1>1 DEF ReadHit
  <2>3. faults' = 0 => quote'[p].age <= StaleBound + waited'[p]
    BY <2>1, <2>2, <1>1, EntryFresh DEF ReadHit
  <2>q. Quiet(p, "book")
    BY <1>0, <1>1, <2>3 DEF ReadHit, Quiet
  <2> QED  BY <2>q, QuietInv
<1>2. CASE ReadMiss(p)
  <2>q. Quiet(p, "api")
    BY <1>0, <1>2 DEF ReadMiss, Quiet
  <2> QED  BY <2>q, QuietInv
<1>3. CASE ReadError(p)
  <2>q. Quiet(p, "api")
    BY <1>0, <1>3 DEF ReadError, Quiet
  <2> QED  BY <2>q, QuietInv
<1>4. CASE ClientCacheHit(p)
  <2>1. quote'[p] = avCache[p] /\ waited'[p] = 0 /\ avCache[p] \in Quotes
        /\ avCache[p].age < CacheTtl
    BY <1>0, <1>4 DEF ClientCacheHit, CacheFresh, TypeOK
  <2>2. quote'[p].age <= ClientBound + waited'[p]
    BY <2>1 DEF Quotes, Ages
  <2>3. quote'[p].age <= StaleBound + waited'[p]
    BY <2>1, <2>2 DEF Quotes, Ages
  <2>q. Quiet(p, "hmset")
    BY <1>0, <1>4, <2>2, <2>3 DEF ClientCacheHit, Quiet
  <2> QED  BY <2>q, QuietInv
<1>5. CASE FetchExternal(p)
  <2>1. quote'[p].age = 0 /\ waited'[p] = 0
    BY <1>0, <1>5 DEF FetchExternal
  <2>q. Quiet(p, "hmset")
    BY <1>0, <1>5, <2>1 DEF FetchExternal, Quiet
  <2> QED  BY <2>q, QuietInv
<1>6. CASE FetchNothing(p)
  <2>q. Quiet(p, "idle")
    BY <1>0, <1>6 DEF FetchNothing, Quiet
  <2> QED  BY <2>q, QuietInv
<1>7. CASE Return(p)
  <2>q. Quiet(p, "idle")
    BY <1>0, <1>7 DEF Return, Quiet
  <2> QED  BY <2>q, QuietInv
<1>8. CASE Crash(p)
  <2>q. Quiet(p, "idle")
    BY <1>0, <1>8 DEF Crash, Quiet
  <2> QED  BY <2>q, QuietInv
<1> QED  BY <1>1, <1>2, <1>3, <1>4, <1>5, <1>6, <1>7, <1>8

\* A command of store_quote, whether it succeeds, fails or loses its reply.
LEMMA StoreInv ==
    ASSUME NEW p \in Procs, IndInv, TypeOK', StoreCommand(p) \/ StoreError(p)
    PROVE  IndInv'
<1> USE BoundsAreNat DEF IndInv, Storing, Holding
<1> DEFINE l == IF StoreCommand(p) THEN Following[pc[p]] ELSE "book"
<1>1. /\ pc' = [pc EXCEPT ![p] = l] /\ l \in Labels
      /\ pc[p] \in Storing /\ l \in Holding /\ l /= "hmset"
      /\ l = "expire" => pc[p] = "hmset" /\ StoreCommand(p)
      /\ l = "ltrim" => pc[p] = "lpush" /\ StoreCommand(p)
      /\ UNCHANGED <<quote, waited>>
  BY DEF StoreCommand, StoreError, Following, Labels
<1>2. /\ pc \in [Procs -> Labels] /\ waited \in [Procs -> 0 .. MaxLatency]
      /\ quote[p] \in Quotes /\ quote[p].age \in Nat
      /\ redis \in Entries \cup {NoQuote} /\ redis' \in Entries \cup {NoQuote}
      /\ history \in Nat /\ history' \in Nat /\ faults \in Nat /\ faults' \in Nat
  BY <1>1 DEF TypeOK, Quotes, Ages
<1>3. \/ StoreCommand(p) /\ faults' = faults
      \/ StoreError(p) /\ faults' = faults + 1
  BY DEF StoreCommand, StoreError
\* Where the entry and its TTL come from.
<1>4. redis' /= NoQuote =>
        \/ redis' = redis
        \/ pc[p] = "hmset" /\ redis'.age = quote[p].age /\ redis = NoQuote
                           /\ redis'.ttl = NoTtl
        \/ pc[p] = "hmset" /\ redis'.age = quote[p].age /\ redis /= NoQuote
                           /\ redis'.ttl = redis.ttl
        \/ pc[p] = "expire" /\ redis'.ttl = QuoteTtl /\ redis /= NoQuote
                           /\ redis'.age = redis.age
  <2> HIDE DEF l
  <2>1. CASE Effect(p)
    BY <1>2, <2>1 DEF Effect, HmsetEffect, ExpireEffect, LpushEffect, LtrimEffect, Entries
  <2>2. CASE UNCHANGED <<redis, history>>  BY <2>2
  <2> QED  BY <2>1, <2>2 DEF StoreCommand, StoreError
<1>5. StoreCommand(p) =>
        /\ pc[p] = "hmset" => redis'.age = quote[p].age
        /\ (pc[p] = "expire" /\ redis' /= NoQuote) => redis'.ttl = QuoteTtl
  BY <1>2, NoQuoteAssumption DEF StoreCommand, Effect, HmsetEffect, ExpireEffect, Entries
<1>6. quote[p].age <= ClientBound + waited[p]
  BY <1>1 DEF StoringFresh
<1> HIDE DEF l
<1>7. StoringFresh'
  BY <1>1, <1>2 DEF StoringFresh
<1>8. HoldingFresh'
  BY <1>1, <1>2, <1>3 DEF HoldingFresh
<1>9. ExpireFindsFresh'
  <2> SUFFICES ASSUME redis' /= NoQuote, NEW o \in Procs, pc'[o] = "expire"
               PROVE  redis'.age <= StoreBound + waited[o]
    BY <1>1 DEF ExpireFindsFresh
  <2>1. CASE pc[p] = "hmset" /\ redis'.age = quote[p].age
    BY <2>1, <1>2, <1>6
  <2>2. CASE o /= p /\ redis /= NoQuote /\ redis'.age = redis.age
    BY <2>2, <1>1, <1>2 DEF ExpireFindsFresh
  <2>3. o = p => pc[p] = "hmset" /\ redis'.age = quote[p].age
    BY <1>1, <1>2, <1>5
  <2> QED  BY <2>1, <2>2, <2>3, <1>4
<1>10. TtlBoundsAge'
  <2> SUFFICES ASSUME redis' /= NoQuote, redis'.ttl /= NoTtl
               PROVE  redis'.age + redis'.ttl <= StaleBound
    BY DEF TtlBoundsAge
  <2>1. redis' \in Entries /\ redis'.age \in Nat /\ redis'.ttl \in 1 .. QuoteTtl
    BY <1>2 DEF Entries, Ages, Ttls
  <2>2. CASE redis' = redis
    BY <2>2 DEF TtlBoundsAge
  <2>3. CASE redis'.age = quote[p].age
    BY <2>1, <2>3, <1>2, <1>6
  <2>4. CASE pc[p] = "expire" /\ redis /= NoQuote /\ redis'.age = redis.age
    BY <2>1, <2>4, <1>2 DEF ExpireFindsFresh
  <2> QED  BY <2>2, <2>3, <2>4, <1>4
<1>11. NoTtlOnlyInFlight'
  <2> SUFFICES ASSUME redis' /= NoQuote, redis'.ttl = NoTtl, faults' = 0
               PROVE  \E o \in Procs : pc'[o] = "expire"
    BY DEF NoTtlOnlyInFlight
  <2>1. StoreCommand(p) /\ faults = 0
    BY <1>2, <1>3
  <2>2. CASE pc[p] = "hmset"
    BY <2>1, <2>2, <1>2 DEF StoreCommand, Following
  <2>3. pc[p] /= "expire"
    BY <2>1, <1>5 DEF NoTtl
  <2>4. CASE redis' = redis
    <3>1. PICK o \in Procs : pc[o] = "expire"
      BY <2>1, <2>4 DEF NoTtlOnlyInFlight
    <3> QED  BY <3>1, <2>3, <1>1, <1>2
  <2> QED  BY <2>2, <2>3, <2>4, <1>4
<1>12. HistoryBounded'
  <2>1. /\ Cardinality(AtLtrim) \in Nat /\ Cardinality(AtLtrim') \in Nat
        /\ pc[p] /= "ltrim" /\ l /= "ltrim" => AtLtrim' = AtLtrim
        /\ pc[p] /= "ltrim" /\ l = "ltrim"
             => Cardinality(AtLtrim') = Cardinality(AtLtrim) + 1
        /\ Cardinality(AtLtrim') + 1 >= Cardinality(AtLtrim)
    BY <1>1, AtLtrimCardinality
  <2>2. history <= HistoryMax + Cardinality(AtLtrim) + faults
    BY DEF HistoryBounded
  <2>3. CASE StoreError(p)
    <3>1. history' <= history \/ (pc[p] = "lpush" /\ history' = history + 1)
      BY <2>3, <1>2 DEF StoreError, Effect, HmsetEffect, ExpireEffect, LpushEffect, LtrimEffect
    <3>2. pc[p] = "lpush" => l /= "ltrim"
      BY <2>3 DEF l, StoreCommand, StoreError, Following
    <3>3. faults' = faults + 1
      BY <2>3 DEF StoreError
    <3>4. pc[p] = "lpush" => Cardinality(AtLtrim') >= Cardinality(AtLtrim)
      BY <2>1
    <3>5. history' <= HistoryMax + Cardinality(AtLtrim') + faults'
      BY <1>2, <2>1, <2>2, <3>1, <3>3, <3>4
    <3> QED  BY <3>5 DEF HistoryBounded
  <2>4. CASE StoreCommand(p)
    <3>0. faults' = faults
      BY <2>4 DEF StoreCommand
    <3>1. CASE pc[p] \in {"hmset", "expire"}
      <4>1. history' = history
        BY <2>4, <3>1 DEF StoreCommand, Effect, HmsetEffect, ExpireEffect
      <4>2. history' <= HistoryMax + Cardinality(AtLtrim') + faults'
        BY <1>2, <2>1, <2>2, <3>0, <3>1, <4>1
      <4> QED  BY <4>2 DEF HistoryBounded
    <3>2. CASE pc[p] = "lpush"
      <4>1. history' = history + 1 /\ l = "ltrim"
        BY <2>4, <3>2 DEF StoreCommand, Effect, LpushEffect, l, Following
      <4>2. history' <= HistoryMax + Cardinality(AtLtrim') + faults'
        BY <1>2, <2>1, <2>2, <3>0, <3>2, <4>1
      <4> QED  BY <4>2 DEF HistoryBounded
    <3>3. CASE pc[p] = "ltrim"
      <4>1. history' <= HistoryMax
        BY <2>4, <3>3, <1>2 DEF StoreCommand, Effect, LtrimEffect
      <4>2. history' <= HistoryMax + Cardinality(AtLtrim') + faults'
        BY <1>2, <2>1, <4>1
      <4> QED  BY <4>2 DEF HistoryBounded
    <3> QED  BY <3>1, <3>2, <3>3, <1>1
  <2> QED  BY <2>3, <2>4
<1> QED  BY <1>7, <1>8, <1>9, <1>10, <1>11, <1>12

-----------------------------------------------------------------------------
LEMMA NextInv == IndInv /\ [Next]_vars => IndInv'
<1> SUFFICES ASSUME IndInv, [Next]_vars PROVE IndInv'  OBVIOUS
<1>1. TypeOK'
  BY TypeStep DEF IndInv
<1>2. CASE Tick
  BY <1>2, TickInv
<1>3. CASE UNCHANGED vars
  BY <1>3 DEF vars, IndInv, TypeOK, StoringFresh, ExpireFindsFresh, HoldingFresh,
              TtlBoundsAge, NoTtlOnlyInFlight, HistoryBounded, AtLtrim
<1>4. ASSUME NEW p \in Procs, Step(p) \/ Fault(p) PROVE IndInv'
  BY <1>1, <1>4, ReadAndReturnInv, StoreInv DEF Step, Progress, Fault
<1> QED  BY <1>2, <1>3, <1>4 DEF Next

\* The invariant holds in every reachable state.
THEOREM Invariance == Spec => []IndInv
BY InitInv, NextInv, PTL DEF Spec

\* Every variable keeps a value of its kind (types of fetch_symbol's locals,
\* of the client cache and of the Redis keys).
THEOREM TypeCorrect == Spec => []TypeOK
BY Invariance, PTL DEF IndInv

\* Whatever the interleaving of store_quote in several processes and whatever
\* fails, an entry that has a TTL is gone before it is older than StaleBound.
THEOREM TtlBoundsAgeAlways == Spec => []TtlBoundsAge
BY Invariance, PTL DEF IndInv

\* Without a fault the only entries without a TTL are those of a store_quote
\* between HMSET and EXPIRE.
THEOREM NoTtlOnlyInFlightAlways == Spec => []NoTtlOnlyInFlight
BY Invariance, PTL DEF IndInv

\* LTRIM keeps the history within HistoryMax, but for running processes and
\* one entry per fault.
THEOREM HistoryBoundedAlways == Spec => []HistoryBounded
BY Invariance, PTL DEF IndInv

\* Without a fault no fetch ever works with a quote older than the two caches
\* and twice the latency of a fetch allow.
THEOREM ServedFreshAlways == Spec => []ServedFresh
<1>1. IndInv => ServedFresh
  <2> SUFFICES ASSUME IndInv, faults = 0, NEW p \in Procs, quote[p] /= NoQuote
               PROVE  quote[p].age <= StaleBound + MaxLatency
    BY DEF ServedFresh
  <2>1. pc[p] \in Holding /\ quote[p] \in Quotes /\ waited[p] \in 0 .. MaxLatency
    BY DEF IndInv, TypeOK
  <2>2. quote[p].age <= StaleBound + waited[p]
    BY <2>1 DEF IndInv, HoldingFresh
  <2> QED  BY <2>1, <2>2, BoundsAreNat DEF Quotes, Ages
<1> QED  BY <1>1, Invariance, PTL

\* A step that changes a stored quote by more than a tick's age is an HMSET, and
\* an HMSET writes a quote whose fetch has waited MaxLatency at most.
THEOREM StepsBackBoundedAlways == Spec => StepsBackBounded
<1>1. ASSUME IndInv, [Next]_vars, redis /= NoQuote, redis' /= NoQuote,
             redis'.age > redis.age + 1
      PROVE  redis'.age <= StoreBound
  <2>1. redis \in Entries /\ redis.age \in Nat
    BY <1>1 DEF IndInv, TypeOK, Entries, Ages
  <2>2. redis' /= redis /\ redis'.age /= redis.age
    <3>1. redis'.age \in Nat  BY <1>1, TypeStep DEF IndInv, TypeOK, Entries, Ages
    <3> QED  BY <1>1, <2>1, <3>1
  <2>3. CASE Tick
    <3>1. redis' = AfterTick(redis)  BY <2>3 DEF Tick
    <3>2. redis' \in Entries /\ redis'.age <= redis.age + 1
      BY <1>1, <2>1, <3>1, OlderEntry
    <3> QED  BY <1>1, <2>1, <3>2 DEF Entries, Ages
  <2>4. ASSUME NEW p \in Procs, Step(p) \/ Fault(p) PROVE redis'.age <= StoreBound
    <3>1. redis' /= redis /\ redis' /= [redis EXCEPT !.ttl = QuoteTtl]
      BY <2>1, <2>2 DEF Entries
    <3>2. StoreCommand(p) \/ StoreError(p)
      BY <2>4, <3>1
      DEF Step, Progress, Fault, ReadHit, ReadMiss, ReadError, ClientCacheHit,
          FetchExternal, FetchNothing, Return, Crash
    <3>3. Effect(p)
      BY <3>1, <3>2 DEF StoreCommand, StoreError
    <3>4. pc[p] = "hmset" /\ HmsetEffect(p)
      BY <1>1, <3>1, <3>3 DEF Effect, ExpireEffect, LpushEffect, LtrimEffect
    <3>5. quote[p].age <= ClientBound + waited[p] /\ waited[p] \in 0 .. MaxLatency
      BY <1>1, <3>4 DEF IndInv, TypeOK, StoringFresh, Storing
    <3>6. redis'.age = quote[p].age /\ quote[p].age \in Nat
      BY <1>1, <3>4 DEF HmsetEffect, IndInv, TypeOK, Holding, Storing, Quotes, Ages
    <3> QED  BY <3>5, <3>6, BoundsAreNat
  <2>5. CASE UNCHANGED vars
    BY <2>2, <2>5 DEF vars
  <2> QED  BY <1>1, <2>3, <2>4, <2>5 DEF Next
<1>2. IndInv /\ [Next]_vars =>
        [(redis /= NoQuote /\ redis' /= NoQuote /\ redis'.age > redis.age + 1)
            => redis'.age <= StoreBound]_vars
  BY <1>1
<1> QED  BY <1>2, Invariance, PTL DEF Spec, StepsBackBounded
=============================================================================

------------------------------ MODULE BatchData ------------------------------
(***************************************************************************)
(* The rows the repository inserts, and what inserting a batch of them     *)
(* means under ON CONFLICT DO NOTHING.  One module stands for the four     *)
(* insert operations: they differ in the columns and in the conflict key,  *)
(* and a tick without a trade_id has no conflict key at all.               *)
(***************************************************************************)
EXTENDS Integers, Sequences, FiniteSets

CONSTANTS
    Clients,   \* processes with a repository: fincore_app, fincore_app postgres
    Symbols,   \* rows of fincore.instruments a market row may refer to
    Rows,      \* the rows in play: [key, sym, val, valid]
    Batches,   \* the spans passed to an insert operation
    NoKey      \* the key of a tick whose trade_id is NULL

ASSUME RowsAssumption ==
    /\ \A r \in Rows : r.sym \in Symbols /\ r.valid \in BOOLEAN
    /\ Batches \subseteq Seq(Rows)

Keyed(r) == r.key /= NoKey
KeysOf(T) == {r.key : r \in T}

\* The positions of b that insert a row into T: a key counts once.
Fresh(T, b) ==
    {i \in DOMAIN b : Keyed(b[i]) =>
        b[i].key \notin KeysOf(T) /\ \A j \in 1 .. (i - 1) : b[j].key /= b[i].key}

KeyedRows(b, I) == {b[i] : i \in {j \in I : Keyed(b[j])}}
LooseCount(b, I) == Cardinality({i \in I : ~ Keyed(b[i])})
=============================================================================

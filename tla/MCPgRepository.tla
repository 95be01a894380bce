--------------------------- MODULE MCPgRepository ---------------------------
(* Instances of PgRepository for TLC: two clients, two symbols, keys that    *)
(* collide inside a batch and between clients, a row without a key, an       *)
(* invalid row and two batches that lock the same keys in opposite order.    *)
EXTENDS PgRepository

CONSTANTS c1, c2, k1, k2, A, B

MCRow(k, s, v, ok) == [key |-> k, sym |-> s, val |-> v, valid |-> ok]

\* The same key with another value, as for two quotes of one timestamp.
RowK1  == MCRow(k1, A, 1, TRUE)
RowK1b == MCRow(k1, A, 2, TRUE)
RowK2  == MCRow(k2, A, 1, TRUE)
RowB   == MCRow(k2, B, 1, TRUE)
Loose  == MCRow(NoKey, A, 1, TRUE)
BadRow == MCRow(k2, A, 1, FALSE)

MCRows == {RowK1, RowK1b, RowK2, RowB, Loose, BadRow}

\* The last but one holds a duplicate and locks in the opposite order.
MCBatches == {<<>>, <<RowK1, BadRow>>, <<RowK1, RowK2>>, <<RowK2, RowK1b, RowK1>>,
              <<Loose, RowB>>}
=============================================================================

--------------------------- MODULE MCAppTwoSymbols ---------------------------
(* FinCoreApp with two symbols and, beside it, Decimal, which turns the       *)
(* numbers of a quote into those of its rows.  As they share no state, each   *)
(* is explored while the other rests in its first state.                      *)
EXTENDS MCFinCoreApp, Decimal, TLC

\* Numbers with two digits behind the point in eight bits, and all characters.
MCPlace == (0 :> 100) @@ (1 :> 10) @@ (2 :> 1)

MCInit == Init /\ DecimalInit

MCNext ==
    \/ DecimalInit /\ Next /\ UNCHANGED decimalVars
    \/ sourceKnown /\ Init /\ DecimalNext /\ UNCHANGED vars

MCSpec == MCInit /\ [][MCNext]_<<vars, decimalVars>> /\ Fairness
=============================================================================

---------------------------- MODULE MCQuoteCache ----------------------------
(* Instances of QuoteCache for TLC. *)
EXTENDS QuoteCache

CONSTANTS p1, p2
=============================================================================

--------------------------- MODULE MC_TxIdempotency ---------------------------
(* Model-checking instance of TxIdempotency: callers and request hashes   *)
(* are model values.                                                       *)
EXTENDS TxIdempotency

CONSTANTS c1, c2, c3, h1, h2

=============================================================================

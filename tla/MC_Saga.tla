------------------------------- MODULE MC_Saga -------------------------------
(* Saga instantiated for TLC: model-value tickers.                          *)
EXTENDS Saga

CONSTANTS t1, t2

=============================================================================

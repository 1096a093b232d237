--------------------------- MODULE MCSolanaIngest ---------------------------
(***************************************************************************)
(* TLC instances of SolanaIngest.                                          *)
(***************************************************************************)
EXTENDS SolanaIngest

FiveTxs == 1..5
\* Two seconds with two transactions: a budget of three pages cuts one.
FiveTimes == <<1, 2, 2, 3, 3>>
=============================================================================

----------------------------- MODULE MCTxManager -----------------------------
(* TxManager for TLC: the calls are interchangeable, and so are the slots  *)
(* of the pool and the rows.                                               *)
EXTENDS TxManager, TLC

Symmetry == Permutations(Calls) \cup Permutations(Conns) \cup Permutations(Rows)
=============================================================================

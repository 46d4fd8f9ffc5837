--------------------------- MODULE MCTransactions ---------------------------
(* Transactions on small instances.                                         *)
EXTENDS Transactions
=============================================================================

--------------------------- MODULE MCTransactions ---------------------------
(* One send() of two messages to one topic-partition, and enough transaction *)
(* calls to begin, fail to end, end and begin again.                         *)
EXTENDS Transactions
OnePair == {<<1, 1>>}
=============================================================================

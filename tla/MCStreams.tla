------------------------------ MODULE MCStreams ------------------------------
(* Four messages in batches of two, the third a tombstone; two chunks fit in *)
(* the streams, one in the producer's ledger.                                *)
EXTENDS Streams
MCTombstones == {3}
=============================================================================

--------------------------- MODULE MCKafkaConsumer ---------------------------
(* A cap of two messages and batches of two: the cap is passed, batches are  *)
(* cut, and the array of the buffer is compacted while it still holds some.  *)
EXTENDS KafkaConsumer
=============================================================================

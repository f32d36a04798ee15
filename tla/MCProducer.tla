----------------------------- MODULE MCProducer -----------------------------
(***************************************************************************)
(* Instances of Producer: what the environment may do, per run.            *)
(***************************************************************************)
EXTENDS Producer

Nothing == [e \in Events |-> 0]
Connected == [Nothing EXCEPT !["connect"] = 1]
Refusals == [Connected EXCEPT !["refuse"] = 2, !["throw"] = 1, !["poll"] = 1]
Reconnects == [Connected EXCEPT !["connect"] = 2, !["disconnect"] = 1,
                                !["closeInside"] = 1, !["throw"] = 1]
Flushes == [Connected EXCEPT !["flush"] = 1, !["throw"] = 1, !["refuse"] = 1]
FailsToConnect == [Connected EXCEPT !["metadata"] = 1, !["poll"] = 1, !["disconnect"] = 1]
FlushThenCloses == [Connected EXCEPT !["flush"] = 1, !["connect"] = 2, !["disconnect"] = 1]
BadHeaders == [Connected EXCEPT !["headers"] = 1]

Disturbed == {Refusals, Reconnects, Flushes, FailsToConnect, FlushThenCloses,
              BadHeaders}

(* A batch, and the batch that a callback hands over in the middle of it.  *)
BatchInBatch == {[Connected EXCEPT !["refuse"] = 2, !["throw"] = 1]}
=============================================================================

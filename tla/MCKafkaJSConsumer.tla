------------------------- MODULE MCKafkaJSConsumer -------------------------
(***************************************************************************)
(* Instances of KafkaJSConsumer: what the environment may do, per run.     *)
(***************************************************************************)
EXTENDS KafkaJSConsumer

Nothing == [e \in Events |-> 0]
Throw == [Nothing EXCEPT !.fail = 1]
Rewinds == [Nothing EXCEPT !.fail = 1, !.seek = 1]
PauseAndSeek == [Nothing EXCEPT !.pause = 1, !.seek = 1]
Rebalances == [Nothing EXCEPT !.rebalance = 2, !.fail = 1]
SeekWhileRevoked == [Nothing EXCEPT !.rebalance = 2, !.seek = 1]
Stores == [Nothing EXCEPT !.store = 1, !.commit = 1]
Stops == [Nothing EXCEPT !.stop = 2, !.fail = 1]
StopOnce == [Nothing EXCEPT !.stop = 1]
Seeks == [Nothing EXCEPT !.seek = 3]

Disturbed == {Rewinds, PauseAndSeek, Rebalances, SeekWhileRevoked, Stops, Stores}
Failing == {Throw, Stops}
OneFailure == {Throw}
OneStop == {StopOnce}
OnePause == {PauseAndSeek}
OneRegrant == {Rebalances}
ThreeSeeks == {Seeks}
=============================================================================

------------------------ MODULE Transactions_proofs ------------------------
(***************************************************************************)
(* Proofs about Transactions, for any batches, any number of calls and any *)
(* number of failures: what isActive() says is what librdkafka knows, a    *)
(* call ends the transaction it was made in, and a commit leaves nothing   *)
(* out.                                                                    *)
(***************************************************************************)
EXTENDS Transactions, Integers, SequenceTheorems, FiniteSetTheorems, TLAPS

Kinds == {"init", "begin"} \union Ending
Tasks == {"flush", "attempt", "refused", "metadata", "disconnected"}

(* Every transaction call is of a known kind.                              *)
OpsKnown(calls) ==
  /\ \E S : calls \in Seq(S)
  /\ \A o \in 1 .. Len(calls) : "kind" \in DOMAIN calls[o] /\ calls[o].kind \in Kinds

(* The tasks of n calls.                                                   *)
TasksOf(n) ==
  {t \in [task : Tasks, op : Nat] : t.task \in {"attempt", "refused"} => t.op \in 1 .. n}

(* What waits in the queues belongs to a call that was made.               *)
QueuesKnown(queue, waiting, n) ==
  queue \in Seq(TasksOf(n)) /\ waiting \in Seq(1 .. n)

Active == {"open", "committing", "aborting", "abortable"}

(* The flag agrees while the handle is open and no error was fatal, and    *)
(* there is no handle and no transaction before connect().                 *)
Agreement ==
  /\ ongoing \in BOOLEAN
  /\ DOMAIN kafka = {"state", "no"}
  /\ handle = "open" /\ kafka.state # "fatal" => (ongoing <=> kafka.state \in Active)
  /\ state = "INIT" => handle = "none" /\ ongoing = FALSE /\ kafka.state = "none"

TxInv == OpsKnown(ops) /\ QueuesKnown(micro, timers, Len(ops)) /\ Agreement

-----------------------------------------------------------------------------
LEMMA LenOfOps ==
  ASSUME NEW calls, OpsKnown(calls)
  PROVE  Len(calls) \in Nat /\ DOMAIN calls = 1 .. Len(calls)
  BY LenProperties DEF OpsKnown

(* One more call.                                                          *)
LEMMA OneMoreCall ==
  ASSUME NEW calls, OpsKnown(calls), NEW kind \in Kinds, NEW op,
         "kind" \in DOMAIN op, op.kind = kind
  PROVE  OpsKnown(Append(calls, op)) /\ Len(Append(calls, op)) = Len(calls) + 1
  <1>1. PICK S : calls \in Seq(S)
    BY DEF OpsKnown
  <1>2. calls \in Seq(S \union {op})
    BY <1>1, SeqMonotonic
  <1>3. /\ Append(calls, op) \in Seq(S \union {op})
        /\ Len(Append(calls, op)) = Len(calls) + 1
        /\ \A i \in 1 .. Len(calls) : Append(calls, op)[i] = calls[i]
        /\ Append(calls, op)[Len(calls) + 1] = op
    BY <1>2, AppendProperties
  <1>4. Len(calls) \in Nat
    BY LenOfOps
  <1>5. \A o \in 1 .. Len(calls) + 1 : o = Len(calls) + 1 \/ o \in 1 .. Len(calls)
    BY <1>4
  <1> QED BY <1>3, <1>5 DEF OpsKnown

(* A call that changes, but not its kind.                                  *)
LEMMA ChangedCall ==
  ASSUME NEW calls, OpsKnown(calls), NEW o \in 1 .. Len(calls), NEW op,
         "kind" \in DOMAIN op, op.kind = calls[o].kind
  PROVE  /\ OpsKnown([calls EXCEPT ![o] = op])
         /\ Len([calls EXCEPT ![o] = op]) = Len(calls)
  <1>1. PICK S : calls \in Seq(S)
    BY DEF OpsKnown
  <1>2. calls \in Seq(S \union {op}) /\ op \in S \union {op}
    BY <1>1, SeqMonotonic
  <1>3. /\ [calls EXCEPT ![o] = op] \in Seq(S \union {op})
        /\ Len([calls EXCEPT ![o] = op]) = Len(calls)
        /\ \A i \in 1 .. Len(calls) :
             [calls EXCEPT ![o] = op][i] = IF i = o THEN op ELSE calls[i]
    BY <1>2, ExceptSeq
  <1> QED BY <1>3 DEF OpsKnown

LEMMA MoreCallsKnow ==
  ASSUME NEW n \in Nat, NEW m \in Nat, n <= m, NEW queue, NEW waiting,
         QueuesKnown(queue, waiting, n)
  PROVE  QueuesKnown(queue, waiting, m)
  <1>1. TasksOf(n) \subseteq TasksOf(m) /\ 1 .. n \subseteq 1 .. m
    BY DEF TasksOf
  <1> QED BY <1>1, SeqMonotonic DEF QueuesKnown

LEMMA QueuedTask ==
  ASSUME NEW n \in Nat, NEW queue, NEW waiting, QueuesKnown(queue, waiting, n),
         NEW task \in TasksOf(n)
  PROVE  QueuesKnown(Append(queue, task), waiting, n)
  BY AppendProperties DEF QueuesKnown

LEMMA InitTxInv == Init => TxInv
  <1> SUFFICES ASSUME Init PROVE TxInv
    OBVIOUS
  <1>1. ops = <<>> /\ micro = <<>> /\ timers = <<>>
    BY DEF Init
  <1>2. \A S : <<>> \in Seq(S) /\ Len(<<>>) = 0
    BY EmptySeq
  <1>3. OpsKnown(ops)
    BY <1>1, <1>2 DEF OpsKnown
  <1>4. QueuesKnown(micro, timers, Len(ops))
    BY <1>1, <1>2 DEF QueuesKnown
  <1>5. Agreement
    BY DEF Init, Agreement, Active
  <1> QED BY <1>3, <1>4, <1>5 DEF TxInv

-----------------------------------------------------------------------------
(* transaction(), commit(), abort() and sendOffsets() add a call and its   *)
(* first task.                                                             *)
LEMMA CalledKnows ==
  ASSUME TxInv, NEW kind \in Kinds, NEW task \in {"attempt", "refused"},
         Called(kind, task), timers' = timers
  PROVE  OpsKnown(ops') /\ QueuesKnown(micro', timers', Len(ops'))
  <1>1. OpsKnown(ops') /\ Len(ops') = Len(ops) + 1
    <2>1. "kind" \in DOMAIN Op(kind) /\ Op(kind).kind = kind
      BY DEF Op
    <2> QED BY <2>1, OneMoreCall DEF Called, TxInv
  <1>2. Len(ops) \in Nat
    BY LenOfOps DEF TxInv
  <1>3. QueuesKnown(micro, timers, Len(ops'))
    BY <1>1, <1>2, MoreCallsKnow DEF TxInv
  <1>4. [task |-> task, op |-> Len(ops')] \in TasksOf(Len(ops'))
    BY <1>1, <1>2 DEF TasksOf, Tasks
  <1>5. Len(ops') \in Nat
    BY <1>1, <1>2
  <1> QED BY <1>1, <1>3, <1>4, <1>5, QueuedTask DEF Called

(* A call that settles keeps its kind, and the flag follows it.            *)
LEMMA SettleKnows ==
  ASSUME OpsKnown(ops), NEW op \in 1 .. Len(ops), NEW status, Settle(op, status)
  PROVE  /\ OpsKnown(ops') /\ Len(ops') = Len(ops)
         /\ ongoing' = Flag(op, status)
         /\ state' = state \/ state' \in {"CONNECTED", "DISCONNECTED"}
  <1> DEFINE settled == [ops[op] EXCEPT !.status = status]
  <1>1. "kind" \in DOMAIN settled /\ settled.kind = ops[op].kind
    BY DEF OpsKnown
  <1>2. ops' = [ops EXCEPT ![op] = settled]
    BY LenOfOps DEF Settle
  <1> HIDE DEF settled
  <1>3. OpsKnown(ops') /\ Len(ops') = Len(ops)
    BY <1>1, <1>2, ChangedCall
  <1> QED BY <1>3 DEF Settle

(* What one attempt does, from a microtask or a timer, whatever librdkafka *)
(* answers.                                                                *)
LEMMA AttemptKnows ==
  ASSUME TxInv, NEW op \in 1 .. Len(ops), NEW left,
         QueuesKnown(left.micro, left.timers, Len(ops)), Attempt(op, left)
  PROVE  TxInv'
  <1>1. Len(ops) \in Nat /\ OpsKnown(ops) /\ ops[op].kind \in Kinds
    BY LenOfOps DEF TxInv, OpsKnown
  <1>2. handle' = handle
    BY DEF Attempt
  <1>3. ASSUME NEW status, Done(op, left, status)
        PROVE  /\ OpsKnown(ops') /\ QueuesKnown(micro', timers', Len(ops'))
               /\ ongoing' = Flag(op, status)
               /\ state' = state \/ state' \in {"CONNECTED", "DISCONNECTED"}
    BY <1>1, <1>3, SettleKnows DEF Done
  <1>4. ASSUME NotNow(op, left)
        PROVE  /\ OpsKnown(ops') /\ QueuesKnown(micro', timers', Len(ops'))
               /\ ongoing' = ongoing
               /\ state' = state \/ state' \in {"CONNECTED", "DISCONNECTED"}
    <2>1. CASE Expired(op, left)
      <3>1. Flag(op, "failed") = ongoing
        BY DEF Flag
      <3> QED BY <1>1, <2>1, <3>1, SettleKnows DEF Expired
    <2>2. CASE Retry(op, left) /\ UNCHANGED <<ops, ongoing, state, connection>>
      <3>1. left.timers \in Seq(1 .. Len(ops)) /\ left.micro \in Seq(TasksOf(Len(ops)))
        BY DEF QueuesKnown
      <3>2. Append(left.timers, op) \in Seq(1 .. Len(ops))
        BY <3>1, AppendProperties
      <3> QED BY <1>1, <2>2, <3>1, <3>2 DEF Retry, QueuesKnown
    <2> QED BY <1>4, <2>1, <2>2 DEF NotNow
  <1>5. CASE handle # "open"
    <2>1. Done(op, left, "failed") /\ kafka' = kafka
      BY <1>5 DEF Attempt
    <2>2. Flag(op, "failed") = ongoing
      BY DEF Flag
    <2> QED BY <1>2, <1>3, <1>5, <2>1, <2>2 DEF TxInv, Agreement
  <1>6. CASE handle = "open" /\ Accepts(op, left)
    <2>1. Done(op, left, "ok") /\ MayStart(ops[op].kind)
      BY <1>6 DEF Accepts
    <2>2. ongoing' = Flag(op, "ok") /\ (state' = state \/ state' \in {"CONNECTED", "DISCONNECTED"})
      BY <1>3, <2>1
    <2>3. Agreement'
      <3>1. CASE ops[op].kind = "begin"
        BY <1>2, <1>6, <2>2, <3>1 DEF Accepts, Flag, TxInv, Agreement, Active
      <3>2. CASE ops[op].kind \in {"commit", "abort"}
        BY <1>2, <1>6, <2>2, <3>2 DEF Accepts, Flag, TxInv, Agreement, Active
      <3>3. CASE ops[op].kind = "offsets"
        BY <1>2, <1>6, <2>2, <3>3 DEF Accepts, Flag, TxInv, Agreement, Active
      <3>4. CASE ops[op].kind = "init"
        BY <1>2, <1>6, <2>1, <2>2, <3>4 DEF Accepts, MayStart, Flag, TxInv, Agreement, Active
      <3> QED BY <1>1, <3>1, <3>2, <3>3, <3>4 DEF Kinds, Ending
    <2> QED BY <1>3, <2>1, <2>3 DEF TxInv
  <1>7. CASE handle = "open" /\ Postpones(op, left)
    <2>1. /\ NotNow(op, left) /\ MayStart(ops[op].kind) /\ ops[op].kind # "begin"
          /\ kafka' = [kafka EXCEPT !.state = Busy(ops[op].kind)]
      BY <1>7 DEF Postpones
    <2>2. ongoing' = ongoing /\ (state' = state \/ state' \in {"CONNECTED", "DISCONNECTED"})
      BY <1>4, <2>1
    <2>3. DOMAIN kafka' = {"state", "no"} /\ kafka'.state = Busy(ops[op].kind)
      BY <2>1 DEF TxInv, Agreement
    <2>4. Busy(ops[op].kind) \in Active <=> kafka.state \in Active
      <3>1. CASE ops[op].kind = "commit"
        BY <2>1, <3>1 DEF Busy, MayStart, Active
      <3>2. CASE ops[op].kind = "abort"
        BY <2>1, <3>2 DEF Busy, MayStart, Active
      <3>3. CASE ops[op].kind \in {"init", "offsets"}
        BY <3>3 DEF Busy
      <3> QED BY <1>1, <2>1, <3>1, <3>2, <3>3 DEF Kinds, Ending
    <2>a. kafka.state # "fatal"
      BY <1>1, <2>1 DEF MayStart, Kinds, Ending
    <2>5. Agreement'
      BY <1>2, <1>7, <2>2, <2>3, <2>4, <2>a DEF TxInv, Agreement
    <2> QED BY <1>4, <2>1, <2>5 DEF TxInv
  <1>8. CASE handle = "open" /\ Refuses(op, left)
    <2>1. Done(op, left, "failed")
      BY <1>8 DEF Refuses
    <2>2. Flag(op, "failed") = ongoing
      BY DEF Flag
    <2>3. /\ DOMAIN kafka' = {"state", "no"}
          /\ kafka'.state # "fatal" =>
               /\ kafka.state # "fatal"
               /\ kafka'.state \in Active <=> kafka.state \in Active
      <3>0. DOMAIN kafka = {"state", "no"}
        BY DEF TxInv, Agreement
      <3>1. CASE /\ MayStart(ops[op].kind) /\ ops[op].kind = "commit"
                 /\ kafka' = [kafka EXCEPT !.state = "abortable"]
        <4>1. kafka.state \in {"open", "committing"}
          BY <3>1 DEF MayStart
        <4> QED BY <3>0, <3>1, <4>1 DEF Active
      <3>2. CASE kafka' = [kafka EXCEPT !.state = "fatal"]
        BY <3>0, <3>2
      <3>3. CASE kafka' = kafka
        BY <3>0, <3>3
      <3> QED BY <1>8, <3>1, <3>2, <3>3 DEF Refuses
    <2>4. Agreement'
      BY <1>2, <1>3, <1>8, <2>1, <2>2, <2>3 DEF TxInv, Agreement
    <2> QED BY <1>3, <2>1, <2>4 DEF TxInv
  <1> QED BY <1>5, <1>6, <1>7, <1>8 DEF Attempt

(* A microtask of any kind.                                                *)
LEMMA MicrotaskKnows == TxInv /\ RunMicrotask => TxInv'
  <1> SUFFICES ASSUME TxInv, RunMicrotask PROVE TxInv'
    OBVIOUS
  <1> DEFINE left == [micro |-> Tail(micro), timers |-> timers]
             op == Head(micro).op
             n == Len(ops)
  <1>1. n \in Nat /\ OpsKnown(ops)
    BY LenOfOps DEF TxInv
  <1>2. micro # <<>> /\ micro \in Seq(TasksOf(n)) /\ timers \in Seq(1 .. n)
    BY DEF RunMicrotask, TxInv, QueuesKnown
  <1>3. Tail(micro) \in Seq(TasksOf(n)) /\ Head(micro) \in TasksOf(n)
    BY <1>2, HeadTailProperties
  <1>4. QueuesKnown(left.micro, left.timers, n)
    BY <1>2, <1>3 DEF QueuesKnown
  <1>5. CASE Head(micro).task = "flush"
    <2>1. /\ micro' = Tail(micro) /\ UNCHANGED <<client, ongoing, timers, ops, kafka>>
      BY <1>5 DEF RunMicrotask
    <2> QED BY <1>4, <2>1 DEF TxInv, Agreement, client
  <1>6. CASE Head(micro).task = "attempt"
    <2>1. Attempt(op, left)
      BY <1>6 DEF RunMicrotask
    <2>2. op \in 1 .. Len(ops)
      BY <1>3, <1>6 DEF TasksOf
    <2> HIDE DEF left, op
    <2> QED BY <1>4, <2>1, <2>2, AttemptKnows
  <1>7. CASE Head(micro).task = "refused"
    <2>1. Settle(op, "failed") /\ micro' = left.micro /\ timers' = left.timers
          /\ UNCHANGED <<handle, kafka>>
      BY <1>7 DEF RunMicrotask, Done
    <2>2. op \in 1 .. Len(ops)
      BY <1>3, <1>7 DEF TasksOf
    <2>3. Flag(op, "failed") = ongoing
      BY DEF Flag
    <2> HIDE DEF left, op
    <2>4. /\ OpsKnown(ops') /\ Len(ops') = Len(ops) /\ ongoing' = ongoing
          /\ state' = state \/ state' \in {"CONNECTED", "DISCONNECTED"}
      BY <1>1, <2>1, <2>2, <2>3, SettleKnows
    <2> QED BY <1>4, <2>1, <2>4 DEF TxInv, Agreement
  <1>8. CASE Head(micro).task = "metadata"
    <2>1. Metadata /\ UNCHANGED <<ongoing, timers, kafka>>
      BY <1>8 DEF RunMicrotask
    <2>2. CASE /\ micro' = Tail(micro) /\ ops' = ops
               /\ \/ handle' = handle /\ (state' = state \/ state' = "CONNECTED")
                  \/ handle' = "closed" /\ state' = "DISCONNECTED"
      <3>1. OpsKnown(ops') /\ QueuesKnown(micro', timers', Len(ops'))
        BY <1>1, <1>4, <2>1, <2>2
      <3>2. Agreement'
        BY <2>1, <2>2 DEF TxInv, Agreement
      <3> QED BY <3>1, <3>2 DEF TxInv
    <2>3. CASE /\ state' = "INITIALIZING_TRANSACTIONS" /\ ops' = Append(ops, Op("init"))
               /\ micro' = Append(Tail(micro), [task |-> "attempt", op |-> Len(ops')])
               /\ handle' = handle
      <3>1. "init" \in Kinds /\ "kind" \in DOMAIN Op("init") /\ Op("init").kind = "init"
        BY DEF Kinds, Op
      <3>2. OpsKnown(ops') /\ Len(ops') = Len(ops) + 1
        BY <1>1, <2>3, <3>1, OneMoreCall
      <3>3. QueuesKnown(Tail(micro), timers, Len(ops'))
        BY <1>1, <1>4, <3>2, MoreCallsKnow
      <3>4. [task |-> "attempt", op |-> Len(ops')] \in TasksOf(Len(ops')) /\ Len(ops') \in Nat
        BY <1>1, <3>2 DEF TasksOf, Tasks
      <3>5. QueuesKnown(micro', timers', Len(ops'))
        BY <2>1, <2>3, <3>3, <3>4, QueuedTask
      <3>6. Agreement'
        BY <2>1, <2>3 DEF TxInv, Agreement
      <3> QED BY <3>2, <3>5, <3>6 DEF TxInv
    <2> QED BY <2>1, <2>2, <2>3 DEF Metadata
  <1>9. CASE Head(micro).task = "disconnected"
    <2>1. /\ micro' = Tail(micro) /\ state' = "DISCONNECTED"
          /\ UNCHANGED <<handle, ongoing, timers, ops, kafka>>
      BY <1>9 DEF RunMicrotask
    <2> QED BY <1>4, <2>1 DEF TxInv, Agreement
  <1> QED BY <1>3, <1>5, <1>6, <1>7, <1>8, <1>9 DEF TasksOf, Tasks

LEMMA NextTxInv == TxInv /\ [Next]_vars => TxInv'
  <1> SUFFICES ASSUME TxInv, [Next]_vars PROVE TxInv'
    OBVIOUS
  <1>1. Len(ops) \in Nat /\ OpsKnown(ops) /\ QueuesKnown(micro, timers, Len(ops))
    BY LenOfOps DEF TxInv
  <1>2. ASSUME NEW kind \in Kinds, NEW task \in {"attempt", "refused"}, Called(kind, task),
               UNCHANGED <<client, ongoing, timers, kafka>>
        PROVE  TxInv'
    BY <1>2, CalledKnows DEF TxInv, Agreement, client
  <1>3. ASSUME micro' = micro \/ \E task \in {"flush", "metadata", "disconnected"} :
                 micro' = Append(micro, [task |-> task, op |-> 0]),
               UNCHANGED <<ops, timers>>
        PROVE  OpsKnown(ops') /\ QueuesKnown(micro', timers', Len(ops'))
    <2>1. \A task \in {"flush", "metadata", "disconnected"} :
            [task |-> task, op |-> 0] \in TasksOf(Len(ops))
      BY DEF TasksOf, Tasks
    <2> QED BY <1>1, <1>3, <2>1, QueuedTask
  <1>4. CASE Connect
    <2>1. OpsKnown(ops') /\ QueuesKnown(micro', timers', Len(ops'))
      BY <1>3, <1>4 DEF Connect, tasks
    <2>2. Agreement'
      BY <1>4 DEF Connect, TxInv, Agreement, Active
    <2> QED BY <2>1, <2>2 DEF TxInv
  <1>5. CASE Disconnect
    <2>1. OpsKnown(ops') /\ QueuesKnown(micro', timers', Len(ops'))
      BY <1>3, <1>5 DEF Disconnect
    <2>2. Agreement'
      BY <1>5 DEF Disconnect, TxInv, Agreement
    <2> QED BY <2>1, <2>2 DEF TxInv
  <1>6. CASE DisconnectAgain
    BY <1>6 DEF DisconnectAgain, tasks, TxInv, Agreement
  <1>7. CASE \E batch \in Batches : Send(batch)
    <2>1. PICK batch \in Batches : Send(batch)
      BY <1>7
    <2>2. OpsKnown(ops') /\ QueuesKnown(micro', timers', Len(ops'))
      BY <1>3, <2>1 DEF Send
    <2>3. Agreement'
      BY <2>1 DEF Send, client, TxInv, Agreement
    <2> QED BY <2>2, <2>3 DEF TxInv
  <1>8. CASE Transaction
    BY <1>2, <1>8 DEF Transaction, Kinds
  <1>9. CASE SendOffsets
    BY <1>2, <1>9 DEF SendOffsets, Kinds, Ending
  <1>10. CASE \E kind \in {"commit", "abort"} : End(kind)
    BY <1>2, <1>10 DEF End, Kinds, Ending
  <1>11. CASE RunMicrotask
    BY <1>11, MicrotaskKnows
  <1>12. CASE RunTimer
    <2> DEFINE left == [micro |-> micro, timers |-> Tail(timers)]
               op == Head(timers)
    <2>1. timers # <<>> /\ timers \in Seq(1 .. Len(ops)) /\ Attempt(op, left)
      BY <1>1, <1>12 DEF RunTimer, QueuesKnown
    <2>2. Tail(timers) \in Seq(1 .. Len(ops)) /\ op \in 1 .. Len(ops)
      BY <2>1, HeadTailProperties
    <2>3. QueuesKnown(left.micro, left.timers, Len(ops))
      BY <1>1, <2>2 DEF QueuesKnown
    <2> HIDE DEF left, op
    <2> QED BY <2>1, <2>2, <2>3, AttemptKnows
  <1>13. CASE Round \/ ConsumerCloses
    BY <1>13 DEF Round, ConsumerCloses, client, tasks, TxInv, Agreement
  <1>14. CASE Broker
    <2>1. PICK i \in DOMAIN records : Deliver(i)
      BY <1>14 DEF Broker
    <2>2. /\ DOMAIN kafka' = {"state", "no"}
          /\ kafka'.state \in Active <=> kafka.state \in Active
          /\ kafka.state = "none" => kafka'.state = "none"
      BY <2>1 DEF Deliver, TxInv, Agreement, Active
    <2> QED BY <2>1, <2>2 DEF Deliver, client, tasks, TxInv, Agreement
  <1>15. CASE \E op \in DOMAIN ops : DeadlinePasses(op)
    <2>1. PICK op \in 1 .. Len(ops) : DeadlinePasses(op)
      BY <1>1, <1>15, LenOfOps
    <2> DEFINE late == [ops[op] EXCEPT !.late = TRUE]
    <2>2. "kind" \in DOMAIN late /\ late.kind = ops[op].kind
      BY <1>1 DEF OpsKnown
    <2>3. ops' = [ops EXCEPT ![op] = late]
      BY <1>1, <2>1, LenOfOps DEF DeadlinePasses
    <2> HIDE DEF late
    <2>4. OpsKnown(ops') /\ Len(ops') = Len(ops)
      BY <1>1, <2>2, <2>3, ChangedCall
    <2> QED BY <2>1, <2>4 DEF DeadlinePasses, client, tasks, TxInv, Agreement
  <1>16. CASE UNCHANGED vars
    BY <1>16 DEF vars, client, tasks, TxInv, Agreement
  <1> QED
    BY <1>4, <1>5, <1>6, <1>7, <1>8, <1>9, <1>10, <1>11, <1>12, <1>13, <1>14, <1>15, <1>16
       DEF Next, Application

(* isActive() of the KafkaJS producer says whether librdkafka has a        *)
(* transaction, as long as the handle is open: through calls that overlap, *)
(* time out, are refused or retried, and deliveries that fail.             *)
THEOREM FlagAlwaysAgrees == Spec => []FlagAgrees
  <1>1. TxInv => FlagAgrees
    BY DEF TxInv, Agreement, Active, FlagAgrees
  <1> QED BY <1>1, InitTxInv, NextTxInv, PTL DEF Spec

-----------------------------------------------------------------------------
(* The calls of one application that may overlap: what waits, where, and   *)
(* what it may still do.                                                   *)

RecordType == [send : Nat, place : Places, status : Statuses, meant : Nat, txn : Nat,
               offset : Nat]
OpType == [kind : Kinds, txn : Nat, status : {"waiting", "ok", "failed"}, late : BOOLEAN,
           alone : BOOLEAN, made : Nat]
KafkaType == [state : Active \union {"none", "ready", "fatal"}, no : Nat]

Shapes ==
  /\ state \in States /\ handle \in {"none", "open", "closed"}
  /\ isTransactional \in BOOLEAN /\ freed \in BOOLEAN /\ scheduled \in BOOLEAN
  /\ pendingError \in BOOLEAN /\ consumerOpen \in BOOLEAN
  /\ records \in Seq(RecordType) /\ ops \in Seq(OpType) /\ kafka \in KafkaType
  /\ ends \in Seq([op : 1 .. Len(ops), txn : Nat])

IsCall(t) == t.task \in {"attempt", "refused"}
Begins(t, calls) == t.task = "attempt" /\ calls[t.op].kind = "begin"
Ends(t, calls) == t.task = "attempt" /\ calls[t.op].kind \in {"commit", "abort"}
NoneBegins(queue, calls) == \A i \in 1 .. Len(queue) : ~ Begins(queue[i], calls)
NoneEnds(queue, calls) == \A i \in 1 .. Len(queue) : ~ Ends(queue[i], calls)

Absent(op, queue, waiting) ==
  /\ \A i \in 1 .. Len(queue) : IsCall(queue[i]) => queue[i].op # op
  /\ \A j \in 1 .. Len(waiting) : waiting[j] # op

(* A queued attempt is that of a call that waits, and its only one.        *)
QueuedOnce(queue, waiting, calls) ==
  /\ \A i \in 1 .. Len(queue) : IsCall(queue[i]) => calls[queue[i].op].status = "waiting"
  /\ \A j \in 1 .. Len(waiting) : calls[waiting[j]].status = "waiting"
  /\ \A i, j \in 1 .. Len(queue) :
       i < j /\ IsCall(queue[i]) /\ IsCall(queue[j]) => queue[i].op # queue[j].op
  /\ \A i, j \in 1 .. Len(waiting) : i < j => waiting[i] # waiting[j]
  /\ \A i \in 1 .. Len(queue), j \in 1 .. Len(waiting) :
       IsCall(queue[i]) => queue[i].op # waiting[j]

(* While a transaction goes on, attempts to end it are queued behind those *)
(* that are late to begin one, and otherwise the other way round.          *)
InTurn(queue, waiting, calls, active) ==
  /\ \A i, j \in 1 .. Len(queue) : i < j =>
       /\ ~ (active /\ Ends(queue[i], calls) /\ Begins(queue[j], calls))
       /\ ~ (~ active /\ Begins(queue[i], calls) /\ Ends(queue[j], calls))
  /\ \A j \in 1 .. Len(waiting) : calls[waiting[j]].kind # "begin"

-----------------------------------------------------------------------------
(* The records of its sends.                                               *)

HandedOver == {"sent", "acked", "nacked", "delivered"}

(* A record that was handed over went into the transaction it was sent in. *)
InOwn(r, no) ==
  /\ r.txn <= no
  /\ r.status \in {"staged", "thrown"} => r.txn = 0
  /\ r.meant > 0 /\ r.status \in HandedOver => r.txn = r.meant
  /\ r.meant > 0 => r.txn \in {0, r.meant}

Due(r) == r.status = "staged" /\ r.meant > 0

(* What is staged gets there in time: the transaction still goes on, or it *)
(* is flushed before another one begins.                                   *)
WillFlush(queue) == \E f \in 1 .. Len(queue) : queue[f].task = "flush"
FlushComes(queue, calls) ==
  \E f \in 1 .. Len(queue) :
    queue[f].task = "flush" /\ \A b \in 1 .. f : ~ Begins(queue[b], calls)
InTime(r, queue, calls, active, no) ==
  Due(r) => r.meant = no /\ (active \/ FlushComes(queue, calls))

(* A transaction one of whose records failed cannot be committed.          *)
Committable == {"open", "committing"}
Unspoiled(r, tx) ==
  tx.state \in Committable /\ r.status \in {"nacked", "failed"} => r.txn # tx.no

Flushed(op, all) ==
  op.kind = "commit" =>
    /\ op.made <= Len(all)
    /\ \A i \in 1 .. op.made : all[i].status # "staged"

Whole(e, calls, all) ==
  calls[e.op].kind = "commit" =>
    \A i \in 1 .. calls[e.op].made : all[i].meant = e.txn =>
      \/ all[i].status = "delivered" /\ all[i].txn = e.txn
      \/ all[i].status \in {"failed", "thrown"} /\ all[i].txn = 0

AllFlushed(calls, all) == \A o \in 1 .. Len(calls) : Flushed(calls[o], all)
AllWhole(history, calls, all) == \A e \in 1 .. Len(history) : Whole(history[e], calls, all)
Staged(all) == \E i \in 1 .. Len(all) : all[i].status = "staged"

RecordsInv ==
  /\ (Staged(records) => scheduled) /\ (scheduled => WillFlush(micro))
  /\ \A i \in 1 .. Len(records) : InOwn(records[i], kafka.no)
  /\ handle = "open" =>
       \A i \in 1 .. Len(records) : /\ InTime(records[i], micro, ops, ongoing, kafka.no)
                                    /\ Unspoiled(records[i], kafka)
  /\ AllFlushed(ops, records) /\ AllWhole(ends, ops, records)
  /\ kafka.state \in Active => kafka.no > 0

(* Calls that are awaited one by one.                                      *)
Solo(calls) == \A o \in 1 .. Len(calls) : calls[o].kind \in Ending => calls[o].alone
EndsAlone(calls, active, no) ==
  \A o \in 1 .. Len(calls) : calls[o].kind \in Ending /\ calls[o].status = "waiting" =>
    /\ active /\ calls[o].txn = no
    /\ \A q \in 1 .. Len(calls) : calls[q].status = "waiting" /\ q # o
         => calls[q].kind \notin Ending \union {"begin"}
OwnEnds(history, calls) ==
  \A e \in 1 .. Len(history) : calls[history[e].op].txn = history[e].txn
AloneInv == Solo(ops) => EndsAlone(ops, ongoing, kafka.no) /\ OwnEnds(ends, ops)

Unborn == state = "INIT" => records = <<>> /\ micro = <<>> /\ timers = <<>> /\ ops = <<>>

CallsInv ==
  /\ Shapes /\ QueuedOnce(micro, timers, ops) /\ InTurn(micro, timers, ops, ongoing)
  /\ RecordsInv /\ AloneInv /\ Unborn

-----------------------------------------------------------------------------
(* Queues: a task goes, a task comes.                                      *)

Drops(q, q2) == Len(q2) = Len(q) - 1 /\ \A i \in 1 .. Len(q2) : q2[i] = q[i + 1]
Adds(q, q2, t) ==
  /\ Len(q2) = Len(q) + 1 /\ q2[Len(q) + 1] = t
  /\ \A i \in 1 .. Len(q) : q2[i] = q[i]

LEMMA TailDrops ==
  ASSUME NEW T, NEW q \in Seq(T), q # <<>>
  PROVE  /\ Drops(q, Tail(q)) /\ Head(q) = q[1] /\ Len(q) \in Nat \ {0}
         /\ Len(Tail(q)) \in Nat
  BY HeadTailProperties, LenProperties, EmptySeq DEF Drops

LEMMA AppendAdds ==
  ASSUME NEW T, NEW q \in Seq(T), NEW t \in T
  PROVE  Adds(q, Append(q, t), t) /\ Append(q, t) \in Seq(T) /\ Len(q) \in Nat
  BY AppendProperties, LenProperties DEF Adds

LEMMA OnceDropped ==
  ASSUME NEW q, NEW q2, NEW w, NEW calls, Len(q) \in Nat \ {0}, Drops(q, q2),
         QueuedOnce(q, w, calls)
  PROVE  QueuedOnce(q2, w, calls) /\ (IsCall(q[1]) => Absent(q[1].op, q2, w))
  <1>1. \A i \in 1 .. Len(q2) : i + 1 \in 1 .. Len(q) /\ q2[i] = q[i + 1] /\ 1 < i + 1
    BY DEF Drops
  <1>2. 1 \in 1 .. Len(q) /\ \A i, j \in 1 .. Len(q2) : i < j => i + 1 < j + 1
    BY DEF Drops
  <1>3. ASSUME IsCall(q[1]) PROVE Absent(q[1].op, q2, w)
    BY <1>1, <1>2, <1>3 DEF QueuedOnce, Absent
  <1>4. \A i, j \in 1 .. Len(q2) :
          i < j /\ IsCall(q2[i]) /\ IsCall(q2[j]) => q2[i].op # q2[j].op
    <2> SUFFICES ASSUME NEW i \in 1 .. Len(q2), NEW j \in 1 .. Len(q2), i < j,
                        IsCall(q2[i]), IsCall(q2[j])
                 PROVE  q2[i].op # q2[j].op
      OBVIOUS
    <2>1. /\ i + 1 \in 1 .. Len(q) /\ j + 1 \in 1 .. Len(q) /\ i + 1 < j + 1
          /\ q2[i] = q[i + 1] /\ q2[j] = q[j + 1]
      BY <1>1, <1>2
    <2> QED BY <2>1 DEF QueuedOnce
  <1>5. QueuedOnce(q2, w, calls)
    BY <1>1, <1>4 DEF QueuedOnce
  <1> QED BY <1>3, <1>5

LEMMA OnceWaited ==
  ASSUME NEW q, NEW w, NEW w2, NEW calls, Len(w) \in Nat \ {0}, Drops(w, w2),
         QueuedOnce(q, w, calls)
  PROVE  QueuedOnce(q, w2, calls) /\ Absent(w[1], q, w2) /\ calls[w[1]].status = "waiting"
  <1>1. \A i \in 1 .. Len(w2) : i + 1 \in 1 .. Len(w) /\ w2[i] = w[i + 1] /\ 1 < i + 1
    BY DEF Drops
  <1>2. 1 \in 1 .. Len(w) /\ \A i, j \in 1 .. Len(w2) : i < j => i + 1 < j + 1
    BY DEF Drops
  <1>3. Absent(w[1], q, w2) /\ calls[w[1]].status = "waiting"
    BY <1>1, <1>2 DEF QueuedOnce, Absent
  <1>4. \A i, j \in 1 .. Len(w2) : i < j => w2[i] # w2[j]
    BY <1>1, <1>2 DEF QueuedOnce
  <1>5. QueuedOnce(q, w2, calls)
    BY <1>1, <1>4 DEF QueuedOnce
  <1> QED BY <1>3, <1>5

LEMMA OnceAdded ==
  ASSUME NEW q, NEW q2, NEW w, NEW calls, NEW t, Len(q) \in Nat, Adds(q, q2, t),
         QueuedOnce(q, w, calls),
         IsCall(t) => Absent(t.op, q, w) /\ calls[t.op].status = "waiting"
  PROVE  QueuedOnce(q2, w, calls)
  <1>1. \A i \in 1 .. Len(q2) :
          (i \in 1 .. Len(q) /\ q2[i] = q[i]) \/ (i = Len(q) + 1 /\ q2[i] = t)
    BY DEF Adds
  <1>2. \A i, j \in 1 .. Len(q2) : i < j => i \in 1 .. Len(q)
    BY DEF Adds
  <1>3. \A i, j \in 1 .. Len(q2) :
          i < j /\ IsCall(q2[i]) /\ IsCall(q2[j]) => q2[i].op # q2[j].op
    <2> SUFFICES ASSUME NEW i \in 1 .. Len(q2), NEW j \in 1 .. Len(q2), i < j,
                        IsCall(q2[i]), IsCall(q2[j])
                 PROVE  q2[i].op # q2[j].op
      OBVIOUS
    <2>1. i \in 1 .. Len(q) /\ q2[i] = q[i]
      BY <1>2 DEF Adds
    <2>2. CASE j \in 1 .. Len(q) /\ q2[j] = q[j]
      BY <2>1, <2>2 DEF QueuedOnce
    <2>3. CASE q2[j] = t
      BY <2>1, <2>3 DEF Absent
    <2> QED BY <1>1, <2>2, <2>3
  <1>4. \A i \in 1 .. Len(q2) : IsCall(q2[i]) =>
          calls[q2[i].op].status = "waiting" /\ \A j \in 1 .. Len(w) : q2[i].op # w[j]
    BY <1>1 DEF QueuedOnce, Absent
  <1> QED BY <1>3, <1>4 DEF QueuedOnce

LEMMA OnceRetried ==
  ASSUME NEW q, NEW w, NEW w2, NEW calls, NEW op, Len(w) \in Nat, Adds(w, w2, op),
         QueuedOnce(q, w, calls), Absent(op, q, w), calls[op].status = "waiting"
  PROVE  QueuedOnce(q, w2, calls)
  <1>1. \A i \in 1 .. Len(w2) :
          (i \in 1 .. Len(w) /\ w2[i] = w[i]) \/ (i = Len(w) + 1 /\ w2[i] = op)
    BY DEF Adds
  <1>2. \A i, j \in 1 .. Len(w2) : i < j => i \in 1 .. Len(w)
    BY DEF Adds
  <1> QED BY <1>1, <1>2 DEF QueuedOnce, Absent

(* The status of calls that are not queued may change, others may come.    *)
LEMMA OnceOthers ==
  ASSUME NEW n \in Nat, NEW q, NEW w, NEW calls, NEW calls2, QueuesKnown(q, w, n),
         QueuedOnce(q, w, calls),
         \A o \in 1 .. n : calls2[o].status = calls[o].status \/ Absent(o, q, w)
  PROVE  QueuedOnce(q, w, calls2)
  <1>1. /\ \A i \in 1 .. Len(q) : IsCall(q[i]) => q[i].op \in 1 .. n
        /\ \A j \in 1 .. Len(w) : w[j] \in 1 .. n
    BY ElementOfSeq DEF QueuesKnown, TasksOf, IsCall
  <1> QED BY <1>1 DEF QueuedOnce, Absent

-----------------------------------------------------------------------------
(* Turns.                                                                  *)

LEMMA TurnDropped ==
  ASSUME NEW q, NEW q2, NEW w, NEW calls, NEW active, Len(q) \in Nat \ {0}, Drops(q, q2),
         InTurn(q, w, calls, active)
  PROVE  /\ InTurn(q2, w, calls, active)
         /\ active /\ Ends(q[1], calls) => NoneBegins(q2, calls)
         /\ ~ active /\ Begins(q[1], calls) => NoneEnds(q2, calls)
  <1>1. \A i \in 1 .. Len(q2) : i + 1 \in 1 .. Len(q) /\ q2[i] = q[i + 1] /\ 1 < i + 1
    BY DEF Drops
  <1>2. 1 \in 1 .. Len(q)
    OBVIOUS
  <1>3. ASSUME NEW i \in 1 .. Len(q2), NEW j \in 1 .. Len(q2), i < j
        PROVE  /\ ~ (active /\ Ends(q2[i], calls) /\ Begins(q2[j], calls))
               /\ ~ (~ active /\ Begins(q2[i], calls) /\ Ends(q2[j], calls))
    <2>1. /\ i + 1 \in 1 .. Len(q) /\ j + 1 \in 1 .. Len(q) /\ i + 1 < j + 1
          /\ q2[i] = q[i + 1] /\ q2[j] = q[j + 1]
      BY <1>1, <1>3 DEF Drops
    <2> QED BY <2>1 DEF InTurn
  <1>4. InTurn(q2, w, calls, active)
    BY <1>3 DEF InTurn
  <1>5. active /\ Ends(q[1], calls) => NoneBegins(q2, calls)
    BY <1>1, <1>2 DEF InTurn, NoneBegins
  <1>6. ~ active /\ Begins(q[1], calls) => NoneEnds(q2, calls)
    BY <1>1, <1>2 DEF InTurn, NoneEnds
  <1> QED BY <1>4, <1>5, <1>6

LEMMA TurnAdded ==
  ASSUME NEW q, NEW q2, NEW w, NEW calls, NEW active, NEW t, Len(q) \in Nat, Adds(q, q2, t),
         InTurn(q, w, calls, active),
         active => ~ Begins(t, calls), ~ active => ~ Ends(t, calls)
  PROVE  InTurn(q2, w, calls, active)
  <1> SUFFICES ASSUME NEW i \in 1 .. Len(q2), NEW j \in 1 .. Len(q2), i < j
               PROVE  /\ ~ (active /\ Ends(q2[i], calls) /\ Begins(q2[j], calls))
                      /\ ~ (~ active /\ Begins(q2[i], calls) /\ Ends(q2[j], calls))
    BY DEF InTurn
  <1>1. i \in 1 .. Len(q) /\ q2[i] = q[i]
    BY DEF Adds
  <1>2. CASE j \in 1 .. Len(q)
    <2>1. q2[j] = q[j]
      BY <1>2 DEF Adds
    <2> QED BY <1>1, <1>2, <2>1 DEF InTurn
  <1>3. CASE j \notin 1 .. Len(q)
    <2>1. q2[j] = t
      BY <1>3 DEF Adds
    <2> QED BY <2>1
  <1> QED BY <1>2, <1>3

LEMMA TurnFlips ==
  ASSUME NEW q, NEW w, NEW calls, NEW active, NEW active2, InTurn(q, w, calls, active),
         NoneBegins(q, calls) \/ NoneEnds(q, calls)
  PROVE  InTurn(q, w, calls, active2)
  BY DEF InTurn, NoneBegins, NoneEnds

LEMMA TurnWaited ==
  ASSUME NEW q, NEW w, NEW w2, NEW calls, NEW active, Len(w) \in Nat \ {0}, Drops(w, w2),
         InTurn(q, w, calls, active)
  PROVE  InTurn(q, w2, calls, active) /\ calls[w[1]].kind # "begin"
  <1>1. \A i \in 1 .. Len(w2) : i + 1 \in 1 .. Len(w) /\ w2[i] = w[i + 1]
    BY DEF Drops
  <1> QED BY <1>1 DEF InTurn

LEMMA TurnRetried ==
  ASSUME NEW q, NEW w, NEW w2, NEW calls, NEW active, NEW op, Len(w) \in Nat, Adds(w, w2, op),
         InTurn(q, w, calls, active), calls[op].kind # "begin"
  PROVE  InTurn(q, w2, calls, active)
  <1>1. \A i \in 1 .. Len(w2) :
          (i \in 1 .. Len(w) /\ w2[i] = w[i]) \/ (i = Len(w) + 1 /\ w2[i] = op)
    BY DEF Adds
  <1> QED BY <1>1 DEF InTurn

(* Calls keep their kind.                                                  *)
LEMMA SameKinds ==
  ASSUME NEW n \in Nat, NEW q, NEW w, NEW calls, NEW calls2, NEW active, QueuesKnown(q, w, n),
         \A o \in 1 .. n : calls2[o].kind = calls[o].kind
  PROVE  /\ InTurn(q, w, calls, active) => InTurn(q, w, calls2, active)
         /\ FlushComes(q, calls) => FlushComes(q, calls2)
         /\ NoneBegins(q, calls) => NoneBegins(q, calls2)
         /\ NoneEnds(q, calls) => NoneEnds(q, calls2)
  <1>1. /\ \A i \in 1 .. Len(q) : q[i].task = "attempt" => q[i].op \in 1 .. n
        /\ \A j \in 1 .. Len(w) : w[j] \in 1 .. n
    BY ElementOfSeq DEF QueuesKnown, TasksOf
  <1>2. \A i \in 1 .. Len(q) : /\ Begins(q[i], calls2) = Begins(q[i], calls)
                             /\ Ends(q[i], calls2) = Ends(q[i], calls)
    BY <1>1 DEF Begins, Ends
  <1>3. InTurn(q, w, calls, active) => InTurn(q, w, calls2, active)
    BY <1>1, <1>2 DEF InTurn
  <1>4. FlushComes(q, calls) => FlushComes(q, calls2)
    <2> SUFFICES ASSUME FlushComes(q, calls) PROVE FlushComes(q, calls2)
      OBVIOUS
    <2>1. PICK f \in 1 .. Len(q) :
            q[f].task = "flush" /\ \A b \in 1 .. f : ~ Begins(q[b], calls)
      BY DEF FlushComes
    <2>2. \A b \in 1 .. f : b \in 1 .. Len(q)
      <3>1. Len(q) \in Nat
        BY LenProperties DEF QueuesKnown
      <3> QED BY <3>1
    <2>3. \A b \in 1 .. f : ~ Begins(q[b], calls2)
      BY <1>2, <2>1, <2>2
    <2> QED BY <2>1, <2>3 DEF FlushComes
  <1> QED BY <1>2, <1>3, <1>4 DEF NoneBegins, NoneEnds

(* A flush that will come comes nearer.                                    *)
LEMMA FlushDropped ==
  ASSUME NEW q, NEW q2, NEW calls, Len(q) \in Nat \ {0}, Drops(q, q2), q[1].task # "flush"
  PROVE  /\ WillFlush(q) => WillFlush(q2)
         /\ FlushComes(q, calls) => FlushComes(q2, calls) /\ ~ Begins(q[1], calls)
  <1>1. ASSUME NEW f \in 1 .. Len(q), q[f].task = "flush"
        PROVE  f - 1 \in 1 .. Len(q2) /\ q2[f - 1] = q[f]
    <2>1. f # 1
      BY <1>1
    <2> QED BY <2>1 DEF Drops
  <1>2. ASSUME FlushComes(q, calls)
        PROVE  FlushComes(q2, calls) /\ ~ Begins(q[1], calls)
    <2>1. PICK f \in 1 .. Len(q) :
            q[f].task = "flush" /\ \A b \in 1 .. f : ~ Begins(q[b], calls)
      BY <1>2 DEF FlushComes
    <2>2. f - 1 \in 1 .. Len(q2) /\ q2[f - 1].task = "flush"
      BY <1>1, <2>1
    <2>3. \A b \in 1 .. (f - 1) : b + 1 \in 1 .. f /\ q2[b] = q[b + 1]
      BY <2>2 DEF Drops
    <2>4. 1 \in 1 .. f
      OBVIOUS
    <2> QED BY <2>1, <2>2, <2>3, <2>4 DEF FlushComes
  <1>3. WillFlush(q) => WillFlush(q2)
    BY <1>1 DEF WillFlush
  <1> QED BY <1>2, <1>3

LEMMA FlushAdded ==
  ASSUME NEW q, NEW q2, NEW calls, NEW t, Len(q) \in Nat, Adds(q, q2, t)
  PROVE  /\ WillFlush(q) => WillFlush(q2)
         /\ FlushComes(q, calls) => FlushComes(q2, calls)
         /\ t.task = "flush" => WillFlush(q2)
  <1>1. /\ \A i \in 1 .. Len(q) : i \in 1 .. Len(q2) /\ q2[i] = q[i]
        /\ Len(q) + 1 \in 1 .. Len(q2) /\ q2[Len(q) + 1] = t
    BY DEF Adds
  <1>2. ASSUME FlushComes(q, calls) PROVE FlushComes(q2, calls)
    <2>1. PICK f \in 1 .. Len(q) :
            q[f].task = "flush" /\ \A b \in 1 .. f : ~ Begins(q[b], calls)
      BY <1>2 DEF FlushComes
    <2>2. \A b \in 1 .. f : b \in 1 .. Len(q)
      OBVIOUS
    <2> QED BY <1>1, <2>1, <2>2 DEF FlushComes
  <1> QED BY <1>1, <1>2 DEF WillFlush

LEMMA FlushFirst ==
  ASSUME NEW q, NEW calls, Len(q) \in Nat, WillFlush(q), NoneBegins(q, calls)
  PROVE  FlushComes(q, calls)
  BY DEF WillFlush, NoneBegins, FlushComes

-----------------------------------------------------------------------------
(* Records and calls move on.                                              *)

Goes(r, s, no) ==
  /\ s.meant = r.meant
  /\ \/ s.status = r.status /\ s.txn = r.txn
     \/ r.status = "staged" /\ s.status = "sent" /\ s.txn = no
     \/ r.status = "staged" /\ s.status = "failed" /\ s.txn = r.txn
     \/ /\ r.status \in Unreported /\ s.status \in {"acked", "nacked", "delivered", "failed"}
        /\ s.txn = r.txn
GoOn(all, all2, no) ==
  Len(all) <= Len(all2) /\ \A i \in 1 .. Len(all) : Goes(all[i], all2[i], no)
Evolve(calls, calls2) ==
  /\ Len(calls) <= Len(calls2)
  /\ \A o \in 1 .. Len(calls) :
       /\ calls2[o].kind = calls[o].kind /\ calls2[o].made = calls[o].made
       /\ calls2[o].txn = calls[o].txn /\ calls2[o].alone = calls[o].alone

LEMMA GoesOwn ==
  ASSUME NEW no \in Nat, NEW no2 \in Nat, no <= no2, NEW r \in RecordType, NEW s,
         InOwn(r, no), Goes(r, s, no), Due(r) /\ s.status = "sent" => r.meant = no
  PROVE  InOwn(s, no2)
  <1>0. r.txn \in Nat /\ r.meant \in Nat /\ s.meant = r.meant
    BY DEF RecordType, Goes
  <1>1. CASE s.status = r.status /\ s.txn = r.txn
    BY <1>0, <1>1 DEF InOwn
  <1>2. CASE r.status = "staged" /\ s.status = "sent" /\ s.txn = no
    BY <1>0, <1>2 DEF InOwn, Due
  <1>3. CASE r.status = "staged" /\ s.status = "failed" /\ s.txn = r.txn
    BY <1>0, <1>3 DEF InOwn, HandedOver
  <1>4. CASE /\ r.status \in Unreported /\ s.txn = r.txn
             /\ s.status \in {"acked", "nacked", "delivered", "failed"}
    BY <1>0, <1>4 DEF InOwn, HandedOver, Unreported
  <1> QED BY <1>1, <1>2, <1>3, <1>4 DEF Goes

LEMMA GoesDue ==
  ASSUME NEW no, NEW r, NEW s, Goes(r, s, no)
  PROVE  /\ Due(s) => Due(r)
         /\ s.status = "staged" => r.status = "staged"
  BY DEF Goes, Due, Unreported

LEMMA FlushedKept ==
  ASSUME NEW no, NEW calls \in Seq(OpType), NEW calls2, NEW all, NEW all2,
         Len(all) \in Nat, Len(all2) \in Nat,
         Evolve(calls, calls2), GoOn(all, all2, no), AllFlushed(calls, all)
  PROVE  \A o \in 1 .. Len(calls) : Flushed(calls2[o], all2)
  <1> SUFFICES ASSUME NEW o \in 1 .. Len(calls), calls2[o].kind = "commit"
               PROVE  /\ calls2[o].made <= Len(all2)
                      /\ \A i \in 1 .. calls2[o].made : all2[i].status # "staged"
    BY DEF Flushed
  <1>1. calls[o].kind = "commit" /\ calls2[o].made = calls[o].made /\ calls[o].made \in Nat
    <2>1. calls[o] \in OpType
      BY ElementOfSeq
    <2> QED BY <2>1 DEF Evolve, OpType
  <1>2. calls[o].made <= Len(all) /\ \A i \in 1 .. calls[o].made : all[i].status # "staged"
    BY <1>1 DEF AllFlushed, Flushed
  <1>3. \A i \in 1 .. calls[o].made : i \in 1 .. Len(all)
    BY <1>1, <1>2
  <1>4. \A i \in 1 .. calls[o].made : all2[i].status # "staged"
    BY <1>2, <1>3, GoesDue DEF GoOn
  <1> QED BY <1>1, <1>2, <1>4 DEF GoOn

LEMMA WholeKept ==
  ASSUME NEW no, NEW calls \in Seq(OpType), NEW calls2, NEW all, NEW all2,
         NEW history \in Seq([op : 1 .. Len(calls), txn : Nat]), Len(all) \in Nat,
         Evolve(calls, calls2), GoOn(all, all2, no), AllFlushed(calls, all),
         AllWhole(history, calls, all)
  PROVE  AllWhole(history, calls2, all2)
  <1> SUFFICES ASSUME NEW h \in 1 .. Len(history), calls2[history[h].op].kind = "commit",
                      NEW i \in 1 .. calls2[history[h].op].made,
                      all2[i].meant = history[h].txn
               PROVE  \/ all2[i].status = "delivered" /\ all2[i].txn = history[h].txn
                      \/ all2[i].status \in {"failed", "thrown"} /\ all2[i].txn = 0
    BY DEF AllWhole, Whole
  <1> DEFINE o == history[h].op
  <1>1. o \in 1 .. Len(calls)
    <2>1. history[h] \in [op : 1 .. Len(calls), txn : Nat]
      BY ElementOfSeq
    <2> QED BY <2>1
  <1>2. calls[o].kind = "commit" /\ calls2[o].made = calls[o].made /\ calls[o].made \in Nat
    <2>1. calls[o] \in OpType
      BY <1>1, ElementOfSeq
    <2> QED BY <1>1, <2>1 DEF Evolve, OpType
  <1>3. i \in 1 .. calls[o].made /\ i \in 1 .. Len(all)
    <2>1. calls[o].made <= Len(all)
      BY <1>1, <1>2 DEF AllFlushed, Flushed
    <2> QED BY <1>2, <2>1
  <1>4. Goes(all[i], all2[i], no)
    BY <1>3 DEF GoOn
  <1>5. \/ all[i].status = "delivered" /\ all[i].txn = history[h].txn
        \/ all[i].status \in {"failed", "thrown"} /\ all[i].txn = 0
    <2>1. all[i].meant = history[h].txn
      BY <1>4 DEF Goes
    <2> QED BY <1>2, <1>3, <2>1 DEF AllWhole, Whole
  <1> QED BY <1>4, <1>5 DEF Goes, Unreported

(* Who is alone stays alone, and owns what it ended.                       *)
LEMMA SoloBefore ==
  ASSUME NEW calls, NEW calls2, Len(calls) \in Nat, Len(calls2) \in Nat,
         Evolve(calls, calls2), Solo(calls2)
  PROVE  Solo(calls)
  BY DEF Evolve, Solo

LEMMA OwnKept ==
  ASSUME NEW calls, NEW calls2, NEW history \in Seq([op : 1 .. Len(calls), txn : Nat]),
         Evolve(calls, calls2), OwnEnds(history, calls)
  PROVE  OwnEnds(history, calls2)
  <1> SUFFICES ASSUME NEW h \in 1 .. Len(history)
               PROVE  calls2[history[h].op].txn = history[h].txn
    BY DEF OwnEnds
  <1>1. history[h].op \in 1 .. Len(calls)
    <2>1. history[h] \in [op : 1 .. Len(calls), txn : Nat]
      BY ElementOfSeq
    <2> QED BY <2>1
  <1> QED BY <1>1 DEF Evolve, OwnEnds

(* Some calls settle, none is made, and the transaction is the same one.   *)
LEMMA AloneKept ==
  ASSUME NEW calls, NEW calls2, NEW active, NEW active2, NEW no,
         Len(calls) \in Nat, Len(calls2) = Len(calls), Evolve(calls, calls2),
         EndsAlone(calls, active, no),
         \A o \in 1 .. Len(calls) : calls2[o].status = "waiting" => calls[o].status = "waiting",
         active => active2
  PROVE  EndsAlone(calls2, active2, no)
  BY DEF Evolve, EndsAlone

LEMMA Mapped ==
  ASSUME NEW T, NEW n \in Nat, NEW f \in [1 .. n -> T]
  PROVE  f \in Seq(T) /\ Len(f) = n
  <1>1. f \in Seq(T)
    BY SeqDef
  <1>2. Len(f) \in Nat /\ DOMAIN f = 1 .. Len(f)
    BY <1>1, LenProperties
  <1> QED BY <1>1, <1>2

LEMMA RecordsAre ==
  ASSUME Shapes
  PROVE  /\ Len(records) \in Nat /\ DOMAIN records = 1 .. Len(records)
         /\ \A i \in 1 .. Len(records) : records[i] \in RecordType
         /\ Len(ops) \in Nat /\ DOMAIN ops = 1 .. Len(ops)
         /\ \A o \in 1 .. Len(ops) : ops[o] \in OpType
  <1>1. records \in Seq(RecordType) /\ ops \in Seq(OpType)
    BY DEF Shapes
  <1> QED BY <1>1, LenProperties, ElementOfSeq

LEMMA RecordsStay == GoOn(records, records, kafka.no)
  BY LenProperties DEF GoOn, Goes

LEMMA MovedGoes ==
  ASSUME Shapes, NEW from, NEW to \in Statuses, NEW no,
         \/ from = {"staged"} /\ to = "failed"
         \/ from = {"sent"} /\ to = "nacked"
  PROVE  /\ Moved(from, to) \in Seq(RecordType) /\ Len(Moved(from, to)) = Len(records)
         /\ GoOn(records, Moved(from, to), no)
         /\ \A i \in 1 .. Len(records) :
              Moved(from, to)[i] = IF records[i].status \in from
                                   THEN [records[i] EXCEPT !.status = to] ELSE records[i]
  <1> DEFINE m == Moved(from, to)
  <1>1. \A i \in 1 .. Len(records) :
          m[i] = IF records[i].status \in from
                 THEN [records[i] EXCEPT !.status = to] ELSE records[i]
    BY RecordsAre DEF Moved
  <1>2. \A i \in 1 .. Len(records) : m[i] \in RecordType /\ Goes(records[i], m[i], no)
    <2> SUFFICES ASSUME NEW i \in 1 .. Len(records)
                 PROVE  m[i] \in RecordType /\ Goes(records[i], m[i], no)
      OBVIOUS
    <2> HIDE DEF m
    <2>1. records[i] \in RecordType
      BY RecordsAre
    <2>2. CASE records[i].status \in from
      <3>1. m[i] = [records[i] EXCEPT !.status = to]
        BY <1>1, <2>2
      <3> QED BY <2>1, <2>2, <3>1 DEF RecordType, Goes, Unreported
    <2>3. CASE records[i].status \notin from
      <3>1. m[i] = records[i]
        BY <1>1, <2>3
      <3> QED BY <2>1, <3>1 DEF Goes
    <2> QED BY <2>2, <2>3
  <1>3. m \in [1 .. Len(records) -> RecordType]
    BY <1>2, RecordsAre DEF Moved
  <1> HIDE DEF m
  <1>4. m \in Seq(RecordType) /\ Len(m) = Len(records)
    BY <1>3, Mapped, RecordsAre
  <1> QED BY <1>1, <1>2, <1>4 DEF m, GoOn

(* flushStaging() leaves nothing staged, and hands records over only to an *)
(* open handle.                                                            *)
LEMMA FlushGoes ==
  ASSUME Shapes, FlushStaging
  PROVE  /\ records' \in Seq(RecordType) /\ Len(records') = Len(records)
         /\ GoOn(records, records', kafka.no)
         /\ ~ Staged(records') /\ scheduled' = FALSE /\ pendingError' \in BOOLEAN
         /\ \A i \in 1 .. Len(records) : records[i].status = "staged" /\ records'[i].status = "sent"
              => handle = "open"
         /\ \A i \in 1 .. Len(records) : \/ records'[i] = records[i]
                                         \/ records[i].status = "staged"
  <1>0. kafka.no \in Nat
    BY DEF Shapes, KafkaType
  <1>1. CASE handle # "open"
    <2>1. /\ records' = Moved({"staged"}, "failed")
          /\ scheduled' = FALSE /\ pendingError' = pendingError
      BY <1>1 DEF FlushStaging
    <2>2. /\ records' \in Seq(RecordType) /\ Len(records') = Len(records)
          /\ GoOn(records, records', kafka.no)
          /\ \A i \in 1 .. Len(records) :
               records'[i] = IF records[i].status \in {"staged"}
                             THEN [records[i] EXCEPT !.status = "failed"] ELSE records[i]
      BY <2>1, MovedGoes DEF Statuses
    <2>3. \A i \in 1 .. Len(records) :
            /\ records'[i].status # "staged"
            /\ records[i].status = "staged" => records'[i].status = "failed"
      BY <2>2, RecordsAre DEF RecordType
    <2> QED BY <2>1, <2>2, <2>3 DEF Staged, Shapes
  <1>2. CASE handle = "open"
    <2>1. PICK refused \in SUBSET With("staged") :
            records' = Handed(refused) /\ pendingError' = (pendingError \/ refused # {})
      BY <1>2 DEF FlushStaging
    <2>2. \A i \in 1 .. Len(records) :
            records'[i] = IF records[i].status # "staged" THEN records[i]
                          ELSE IF i \in refused THEN [records[i] EXCEPT !.status = "failed"]
                          ELSE [records[i] EXCEPT !.status = "sent", !.txn = kafka.no]
      BY <2>1, RecordsAre DEF Handed
    <2>3. ASSUME NEW i \in 1 .. Len(records)
          PROVE  /\ records'[i] \in RecordType /\ Goes(records[i], records'[i], kafka.no)
                 /\ records'[i].status # "staged"
      <3>1. records[i] \in RecordType
        BY RecordsAre
      <3>2. CASE records[i].status # "staged"
        BY <2>2, <3>1, <3>2 DEF Goes
      <3>3. CASE records[i].status = "staged" /\ i \in refused
        <4>1. records'[i] = [records[i] EXCEPT !.status = "failed"]
          BY <2>2, <3>3
        <4> QED BY <3>1, <3>3, <4>1 DEF RecordType, Goes, Statuses
      <3>4. CASE records[i].status = "staged" /\ i \notin refused
        <4>1. records'[i] = [records[i] EXCEPT !.status = "sent", !.txn = kafka.no]
          BY <2>2, <3>4
        <4> QED BY <1>0, <3>1, <3>4, <4>1 DEF RecordType, Goes, Statuses
      <3> QED BY <3>2, <3>3, <3>4
    <2>4. records' \in [1 .. Len(records) -> RecordType]
      BY <2>1, <2>3, RecordsAre DEF Handed
    <2>5. records' \in Seq(RecordType) /\ Len(records') = Len(records)
      BY <2>4, Mapped, RecordsAre
    <2>6. scheduled' = FALSE /\ pendingError' \in BOOLEAN
      BY <1>2, <2>1 DEF FlushStaging, Shapes
    <2>7. GoOn(records, records', kafka.no)
      BY <2>3, <2>5, RecordsAre DEF GoOn
    <2>8. ~ Staged(records')
      BY <2>3, <2>5 DEF Staged
    <2>9. \A i \in 1 .. Len(records) : records'[i] = records[i] \/ records[i].status = "staged"
      BY <2>2
    <2> QED BY <1>2, <2>5, <2>6, <2>7, <2>8, <2>9
  <1> QED BY <1>1, <1>2

LEMMA RecordsStep ==
  ASSUME Shapes, RecordsInv, records' \in Seq(RecordType), kafka' \in KafkaType,
         kafka.no <= kafka'.no, GoOn(records, records', kafka.no), Len(records') = Len(records),
         ops' \in Seq(OpType), Evolve(ops, ops'),
         Staged(records') => scheduled', scheduled' => WillFlush(micro'),
         \A i \in 1 .. Len(records) :
           records[i].status = "staged" /\ records'[i].status = "sent" => handle = "open",
         handle' = "open" => handle = "open" \/ Len(records) = 0,
         handle' = "open" => \A i \in 1 .. Len(records) : Unspoiled(records'[i], kafka'),
         handle' = "open" => \A i \in 1 .. Len(records) : Due(records'[i]) =>
           kafka'.no = kafka.no /\ (ongoing' \/ FlushComes(micro', ops')),
         \A o \in 1 .. Len(ops') : o > Len(ops) => Flushed(ops'[o], records'),
         AllWhole(ends', ops', records'),
         kafka'.state \in Active => kafka'.no > 0
  PROVE  RecordsInv'
  <1>1. /\ Len(records) \in Nat /\ kafka.no \in Nat /\ kafka'.no \in Nat
        /\ \A i \in 1 .. Len(records) : records[i] \in RecordType
        /\ Len(ops) \in Nat /\ Len(ops') \in Nat /\ ops \in Seq(OpType)
    BY RecordsAre, LenProperties DEF Shapes, KafkaType
  <1>2. ASSUME NEW i \in 1 .. Len(records') PROVE InOwn(records'[i], kafka'.no)
    <2>1. Goes(records[i], records'[i], kafka.no) /\ InOwn(records[i], kafka.no)
      BY DEF GoOn, RecordsInv
    <2>2. Due(records[i]) /\ records'[i].status = "sent" => records[i].meant = kafka.no
      BY DEF RecordsInv, InTime, Due
    <2> QED BY <1>1, <2>1, <2>2, GoesOwn
  <1>3. ASSUME handle' = "open", NEW i \in 1 .. Len(records')
        PROVE  InTime(records'[i], micro', ops', ongoing', kafka'.no)
    <2> SUFFICES ASSUME Due(records'[i])
                 PROVE  /\ records'[i].meant = kafka'.no
                        /\ ongoing' \/ FlushComes(micro', ops')
      BY DEF InTime
    <2>1. Goes(records[i], records'[i], kafka.no)
      BY DEF GoOn
    <2>2. Due(records[i]) /\ records'[i].meant = records[i].meant
      BY <2>1, GoesDue DEF Goes
    <2>3. records[i].meant = kafka.no
      BY <1>3, <2>2 DEF RecordsInv, InTime
    <2> QED BY <1>3, <2>2, <2>3
  <1>4. AllFlushed(ops', records')
    <2>1. \A o \in 1 .. Len(ops) : Flushed(ops'[o], records')
      BY <1>1, FlushedKept DEF RecordsInv
    <2> QED BY <1>1, <2>1 DEF AllFlushed
  <1> QED BY <1>2, <1>3, <1>4 DEF RecordsInv

-----------------------------------------------------------------------------
(* An attempt.                                                             *)

(* What is known of a call that was taken from the queues, and of its      *)
(* attempt.                                                                *)
Pulled(op, q, w) ==
  /\ op \in 1 .. Len(ops) /\ ops[op].status = "waiting" /\ Absent(op, q, w)
  /\ QueuesKnown(q, w, Len(ops)) /\ QueuedOnce(q, w, ops) /\ InTurn(q, w, ops, ongoing)
  /\ scheduled => WillFlush(q)
  /\ FlushComes(micro, ops) => FlushComes(q, ops)
Taken(op, q, w) ==
  /\ Pulled(op, q, w)
  /\ ongoing /\ ops[op].kind \in {"commit", "abort"} => NoneBegins(q, ops)
  /\ ~ ongoing /\ ops[op].kind = "begin" => NoneEnds(q, ops)
  /\ FlushComes(micro, ops) => ops[op].kind # "begin"

(* It leaves the other calls and the queues as they were.                  *)
CallsMove(q) ==
  /\ micro' = q /\ ops' \in Seq(OpType) /\ Len(ops') = Len(ops) /\ Evolve(ops, ops')
  /\ \A o \in 1 .. Len(ops) : ops'[o].status = "waiting" => ops[o].status = "waiting"
  /\ QueuedOnce(micro', timers', ops') /\ InTurn(micro', timers', ops', ongoing)
  /\ FlushComes(q, ops) => FlushComes(micro', ops')
  /\ NoneBegins(q, ops) => NoneBegins(micro', ops')
  /\ NoneEnds(q, ops) => NoneEnds(micro', ops')
  /\ state' \in States /\ (state # "INIT" => state' # "INIT")

LEMMA SettleStep ==
  ASSUME Shapes, NEW op \in 1 .. Len(ops), NEW status \in {"ok", "failed"}, Settle(op, status)
  PROVE  /\ ops' \in Seq(OpType) /\ Len(ops') = Len(ops) /\ Evolve(ops, ops')
         /\ ops'[op].status = status /\ \A o \in 1 .. Len(ops) : o # op => ops'[o] = ops[o]
         /\ state' \in States /\ (state # "INIT" => state' # "INIT")
         /\ ongoing' = Flag(op, status)
  <1> DEFINE r == [ops[op] EXCEPT !.status = status]
  <1>1. /\ r \in OpType /\ r.status = status
        /\ r.kind = ops[op].kind /\ r.made = ops[op].made
        /\ r.txn = ops[op].txn /\ r.alone = ops[op].alone
    BY RecordsAre DEF OpType
  <1>2. ops' = [ops EXCEPT ![op] = r] /\ ops \in Seq(OpType)
    BY RecordsAre DEF Settle, Shapes
  <1> HIDE DEF r
  <1>3. /\ ops' \in Seq(OpType) /\ Len(ops') = Len(ops)
        /\ \A i \in 1 .. Len(ops) : ops'[i] = IF i = op THEN r ELSE ops[i]
    BY <1>1, <1>2, ExceptSeq
  <1>4. Evolve(ops, ops')
    BY <1>1, <1>3, RecordsAre DEF Evolve
  <1>5. state' \in States /\ (state # "INIT" => state' # "INIT")
    BY DEF Settle, Shapes, States
  <1> QED BY <1>1, <1>3, <1>4, <1>5 DEF Settle

LEMMA DoneMoves ==
  ASSUME Shapes, NEW op, NEW q, NEW w, Pulled(op, q, w), NEW status \in {"ok", "failed"},
         Settle(op, status), micro' = q, timers' = w
  PROVE  CallsMove(q) /\ ops'[op].status = status /\ ongoing' = Flag(op, status)
  <1>1. /\ ops' \in Seq(OpType) /\ Len(ops') = Len(ops) /\ Evolve(ops, ops')
        /\ ops'[op].status = status /\ \A o \in 1 .. Len(ops) : o # op => ops'[o] = ops[o]
        /\ state' \in States /\ (state # "INIT" => state' # "INIT")
        /\ ongoing' = Flag(op, status)
    BY SettleStep DEF Pulled
  <1>2. QueuedOnce(q, w, ops')
    BY <1>1, OnceOthers, RecordsAre DEF Pulled
  <1>3. /\ InTurn(q, w, ops', ongoing)
        /\ FlushComes(q, ops) => FlushComes(q, ops')
        /\ NoneBegins(q, ops) => NoneBegins(q, ops')
        /\ NoneEnds(q, ops) => NoneEnds(q, ops')
    <2>1. \A o \in 1 .. Len(ops) : ops'[o].kind = ops[o].kind
      BY <1>1 DEF Evolve
    <2> QED BY <2>1, SameKinds, RecordsAre DEF Pulled
  <1>4. \A o \in 1 .. Len(ops) : ops'[o].status = "waiting" => ops[o].status = "waiting"
    BY <1>1
  <1> QED BY <1>1, <1>2, <1>3, <1>4 DEF CallsMove

LEMMA RetryMoves ==
  ASSUME Shapes, NEW op, NEW q, NEW w, Pulled(op, q, w), ops[op].kind # "begin",
         ops' = ops, state' = state, micro' = q, timers' = Append(w, op)
  PROVE  CallsMove(q)
  <1>1. w \in Seq(1 .. Len(ops)) /\ op \in 1 .. Len(ops)
    BY DEF Pulled, QueuesKnown
  <1>2. Adds(w, timers', op) /\ Len(w) \in Nat
    BY <1>1, AppendAdds
  <1>3. QueuedOnce(q, timers', ops)
    BY <1>2, OnceRetried DEF Pulled
  <1>4. InTurn(q, timers', ops, ongoing)
    BY <1>2, TurnRetried DEF Pulled
  <1>5. Evolve(ops, ops) /\ ops \in Seq(OpType) /\ state \in States
    BY RecordsAre DEF Evolve, Shapes
  <1> QED BY <1>3, <1>4, <1>5 DEF CallsMove

LEMMA MoreEnds ==
  ASSUME NEW n, NEW history \in Seq([op : 1 .. n, txn : Nat]), NEW e \in [op : 1 .. n, txn : Nat]
  PROVE  /\ Append(history, e) \in Seq([op : 1 .. n, txn : Nat])
         /\ \A i \in 1 .. Len(Append(history, e)) :
              \/ Append(history, e)[i] = e
              \/ i \in 1 .. Len(history) /\ Append(history, e)[i] = history[i]
  <1>1. /\ Append(history, e) \in Seq([op : 1 .. n, txn : Nat])
        /\ Len(Append(history, e)) = Len(history) + 1 /\ Len(history) \in Nat
        /\ \A i \in 1 .. Len(history) : Append(history, e)[i] = history[i]
        /\ Append(history, e)[Len(history) + 1] = e
    BY AppendProperties, LenProperties
  <1>2. \A i \in 1 .. Len(history) + 1 : i \in 1 .. Len(history) \/ i = Len(history) + 1
    BY <1>1
  <1> QED BY <1>1, <1>2

(* The attempt fails, is put off, or is accepted without a change of the   *)
(* transaction: what it leaves is as good as what it found.                *)
LEMMA AttemptLeaves ==
  ASSUME CallsInv, NEW op, NEW q, NEW w, Pulled(op, q, w), CallsMove(q), ongoing' = ongoing,
         UNCHANGED <<handle, isTransactional, freed, scheduled, pendingError, consumerOpen>>,
         records' \in Seq(RecordType), Len(records') = Len(records),
         GoOn(records, records', kafka.no),
         \A i \in 1 .. Len(records) : records'[i].status = "sent" => records[i].status = "sent",
         kafka' \in KafkaType, kafka'.no = kafka.no, kafka'.state \in Active => kafka.state \in Active,
         handle = "open" => \A i \in 1 .. Len(records) : Unspoiled(records'[i], kafka'),
         \/ ends' = ends
         \/ /\ ends' = Append(ends, [op |-> op, txn |-> kafka.no])
            /\ ops[op].kind = "offsets"
  PROVE  CallsInv'
  <1>0. /\ Shapes /\ RecordsInv /\ AloneInv /\ Unborn /\ op \in 1 .. Len(ops) /\ Len(ops) \in Nat
        /\ ops \in Seq(OpType) /\ Len(ops') = Len(ops) /\ ops' \in Seq(OpType)
        /\ Evolve(ops, ops') /\ kafka.no \in Nat /\ Len(records) \in Nat
        /\ ends \in Seq([op : 1 .. Len(ops), txn : Nat])
    BY RecordsAre DEF CallsInv, Pulled, CallsMove, Shapes, KafkaType
  <1>1. /\ ends' \in Seq([op : 1 .. Len(ops), txn : Nat])
        /\ \A h \in 1 .. Len(ends') :
             \/ h \in 1 .. Len(ends) /\ ends'[h] = ends[h]
             \/ ends'[h] = [op |-> op, txn |-> kafka.no] /\ ops[op].kind = "offsets"
    <2>1. CASE ends' = ends
      BY <1>0, <2>1
    <2>2. CASE ends' = Append(ends, [op |-> op, txn |-> kafka.no]) /\ ops[op].kind = "offsets"
      <3>1. [op |-> op, txn |-> kafka.no] \in [op : 1 .. Len(ops), txn : Nat]
        BY <1>0
      <3> QED BY <1>0, <2>2, <3>1, MoreEnds
    <2> QED BY <2>1, <2>2
  <1>2. Shapes'
    BY <1>0, <1>1 DEF Shapes, CallsMove
  <1>3. Unborn'
    <2>1. state # "INIT"
      <3>1. ops # <<>>
        BY <1>0, EmptySeq
      <3> QED BY <1>0, <3>1 DEF Unborn
    <2> QED BY <2>1 DEF Unborn, CallsMove
  <1>4. AloneInv'
    <2> SUFFICES ASSUME Solo(ops')
                 PROVE  EndsAlone(ops', ongoing', kafka'.no) /\ OwnEnds(ends', ops')
      BY DEF AloneInv
    <2>1. Solo(ops)
      BY <1>0, SoloBefore
    <2>2. EndsAlone(ops, ongoing, kafka.no) /\ OwnEnds(ends, ops)
      BY <1>0, <2>1 DEF AloneInv
    <2>3. EndsAlone(ops', ongoing', kafka'.no)
      BY <1>0, <2>2, AloneKept DEF CallsMove
    <2>4. OwnEnds(ends, ops')
      BY <1>0, <2>2, OwnKept
    <2>5. ops[op].kind = "offsets" => ops'[op].txn = kafka.no
      BY <1>0, <2>2 DEF EndsAlone, Ending, Pulled, Evolve
    <2>6. OwnEnds(ends', ops')
      <3> SUFFICES ASSUME NEW h \in 1 .. Len(ends')
                   PROVE  ops'[ends'[h].op].txn = ends'[h].txn
        BY DEF OwnEnds
      <3>1. CASE h \in 1 .. Len(ends) /\ ends'[h] = ends[h]
        BY <2>4, <3>1 DEF OwnEnds
      <3>2. CASE ends'[h] = [op |-> op, txn |-> kafka.no] /\ ops[op].kind = "offsets"
        BY <2>5, <3>2
      <3> QED BY <1>1, <3>1, <3>2
    <2> QED BY <2>3, <2>6
  <1>5. RecordsInv'
    <2>1. ~ Staged(records) => ~ Staged(records')
      BY <1>0, GoesDue DEF GoOn, Staged
    <2>2. AllWhole(ends', ops', records')
      <3>1. AllWhole(ends, ops', records')
        BY <1>0, WholeKept DEF RecordsInv
      <3>2. ops[op].kind = "offsets" => ops'[op].kind # "commit"
        BY <1>0 DEF Evolve
      <3> SUFFICES ASSUME NEW h \in 1 .. Len(ends')
                   PROVE  Whole(ends'[h], ops', records')
        BY DEF AllWhole
      <3>3. CASE h \in 1 .. Len(ends) /\ ends'[h] = ends[h]
        BY <3>1, <3>3 DEF AllWhole
      <3>4. CASE ends'[h] = [op |-> op, txn |-> kafka.no] /\ ops[op].kind = "offsets"
        BY <3>2, <3>4 DEF Whole
      <3> QED BY <1>1, <3>3, <3>4
    <2>3. handle = "open" => \A i \in 1 .. Len(records) : Due(records'[i]) =>
            ongoing' \/ FlushComes(micro', ops')
      <3>1. \A i \in 1 .. Len(records) : Due(records'[i]) => Due(records[i])
        BY GoesDue DEF GoOn
      <3> QED BY <1>0, <3>1 DEF RecordsInv, InTime, Pulled, CallsMove
    <2>4. \A i \in 1 .. Len(records) :
            records[i].status = "staged" => records'[i].status # "sent"
      OBVIOUS
    <2>5. (Staged(records') => scheduled') /\ (scheduled' => WillFlush(micro'))
      BY <1>0, <2>1 DEF RecordsInv, Pulled, CallsMove
    <2>6. kafka'.state \in Active => kafka'.no > 0
      BY <1>0 DEF RecordsInv
    <2> QED BY <1>0, <2>2, <2>3, <2>4, <2>5, <2>6, RecordsStep
  <1>6. InTurn(micro', timers', ops', ongoing')
    BY DEF CallsMove
  <1> QED BY <1>2, <1>3, <1>4, <1>5, <1>6 DEF CallsInv, CallsMove

LEMMA KeepsUnspoiled ==
  ASSUME RecordsInv, handle = "open", NEW i \in 1 .. Len(records)
  PROVE  Unspoiled(records[i], kafka) /\ InOwn(records[i], kafka.no)
  BY DEF RecordsInv

(* A refused attempt, and one after the handle was closed.                 *)
LEMMA AttemptRefused ==
  ASSUME CallsInv, TxInv, NEW op, NEW left, Pulled(op, left.micro, left.timers),
         Done(op, left, "failed"), UNCHANGED <<records, ends>>,
         UNCHANGED <<handle, isTransactional, freed, scheduled, pendingError, consumerOpen>>,
         \/ kafka' = kafka
         \/ kafka' = [kafka EXCEPT !.state = "abortable"] /\ kafka.state \in Active
         \/ kafka' = [kafka EXCEPT !.state = "fatal"]
  PROVE  CallsInv'
  <1>0. Shapes /\ RecordsInv /\ kafka \in KafkaType /\ records \in Seq(RecordType)
    BY DEF CallsInv, Shapes
  <1>1. CallsMove(left.micro) /\ ongoing' = Flag(op, "failed")
    <2>1. Settle(op, "failed") /\ micro' = left.micro /\ timers' = left.timers
      BY DEF Done
    <2> QED BY <1>0, <2>1, DoneMoves
  <1>2. Flag(op, "failed") = ongoing
    BY DEF Flag
  <1>3. /\ kafka' \in KafkaType /\ kafka'.no = kafka.no
        /\ kafka'.state \in Active => kafka.state \in Active
        /\ kafka'.state = kafka.state \/ kafka'.state \in {"abortable", "fatal"}
    <2>1. CASE kafka' = kafka
      BY <1>0, <2>1
    <2>2. CASE kafka' = [kafka EXCEPT !.state = "abortable"] /\ kafka.state \in Active
      BY <1>0, <2>2 DEF KafkaType, Active
    <2>3. CASE kafka' = [kafka EXCEPT !.state = "fatal"]
      BY <1>0, <2>3 DEF KafkaType, Active
    <2> QED BY <2>1, <2>2, <2>3
  <1>4. handle = "open" => \A i \in 1 .. Len(records) : Unspoiled(records'[i], kafka')
    BY <1>0, <1>3, KeepsUnspoiled DEF Unspoiled, Committable
  <1> QED BY <1>0, <1>1, <1>2, <1>3, <1>4, RecordsStay, AttemptLeaves

LEMMA AttemptPostponed ==
  ASSUME CallsInv, TxInv, NEW op, NEW left, Taken(op, left.micro, left.timers),
         Postpones(op, left), handle = "open",
         UNCHANGED <<handle, isTransactional, freed, scheduled, pendingError, consumerOpen>>
  PROVE  CallsInv'
  <1> DEFINE kind == ops[op].kind
  <1>0. /\ Shapes /\ RecordsInv /\ kafka \in KafkaType /\ records \in Seq(RecordType)
        /\ Pulled(op, left.micro, left.timers)
        /\ kind \in Kinds /\ MayStart(kind) /\ kind # "begin" /\ NotNow(op, left)
        /\ kafka' = [kafka EXCEPT !.state = Busy(kind)] /\ ends' = ends
        /\ records' = IF kind = "abort" THEN Moved({"sent"}, "nacked") ELSE records
    <2>1. ops[op] \in OpType
      BY RecordsAre DEF CallsInv, Taken, Pulled
    <2> QED BY <2>1 DEF CallsInv, Shapes, Postpones, OpType, Taken
  <1> HIDE DEF kind
  <1>1. CallsMove(left.micro) /\ ongoing' = ongoing
    <2>1. CASE Expired(op, left)
      <3>1. Settle(op, "failed") /\ micro' = left.micro /\ timers' = left.timers
        BY <2>1 DEF Expired
      <3>2. Flag(op, "failed") = ongoing
        BY DEF Flag
      <3> QED BY <1>0, <3>1, <3>2, DoneMoves
    <2>2. CASE Retry(op, left) /\ UNCHANGED <<ops, ongoing, state, connection>>
      BY <1>0, <2>2, RetryMoves DEF Retry, kind
    <2> QED BY <1>0, <2>1, <2>2 DEF NotNow
  <1>2. CASE kind = "abort"
    <2>1. /\ kafka' \in KafkaType /\ kafka'.no = kafka.no /\ kafka'.state = "aborting"
          /\ kafka.state \in Active
      BY <1>0, <1>2 DEF KafkaType, Busy, Active, MayStart
    <2>2. /\ records' \in Seq(RecordType) /\ Len(records') = Len(records)
          /\ GoOn(records, records', kafka.no)
          /\ \A i \in 1 .. Len(records) :
               records'[i] = IF records[i].status \in {"sent"}
                             THEN [records[i] EXCEPT !.status = "nacked"] ELSE records[i]
      <3>1. records' = Moved({"sent"}, "nacked") /\ "nacked" \in Statuses
        BY <1>0, <1>2 DEF Statuses
      <3>2. /\ Moved({"sent"}, "nacked") \in Seq(RecordType)
            /\ Len(Moved({"sent"}, "nacked")) = Len(records)
            /\ GoOn(records, Moved({"sent"}, "nacked"), kafka.no)
            /\ \A i \in 1 .. Len(records) :
                 Moved({"sent"}, "nacked")[i] =
                   IF records[i].status \in {"sent"}
                   THEN [records[i] EXCEPT !.status = "nacked"] ELSE records[i]
        <4>1. Shapes /\ "nacked" \in Statuses
          BY <1>0, <3>1
        <4>2. \/ {"sent"} = {"staged"} /\ "nacked" = "failed"
              \/ {"sent"} = {"sent"} /\ "nacked" = "nacked"
          OBVIOUS
        <4> QED BY ONLY <4>1, <4>2, MovedGoes
      <3> QED BY ONLY <3>1, <3>2
    <2>3. \A i \in 1 .. Len(records) : records'[i].status = "sent" => records[i].status = "sent"
      BY <1>0, <2>2, RecordsAre DEF RecordType
    <2>4. \A i \in 1 .. Len(records) : Unspoiled(records'[i], kafka')
      BY <2>1 DEF Unspoiled, Committable
    <2> QED BY <1>0, <1>1, <2>1, <2>2, <2>3, <2>4, AttemptLeaves
  <1>3. CASE kind # "abort"
    <2>1. /\ kafka' \in KafkaType /\ kafka'.no = kafka.no /\ records' = records
          /\ kafka'.state \in Active => kafka.state \in Active
          /\ kafka'.state \in Committable => kafka.state \in Committable
      <3>1. CASE kind = "commit"
        BY <1>0, <3>1 DEF KafkaType, Busy, Active, MayStart, Committable
      <3>2. CASE kind \in {"init", "offsets"}
        BY <1>0, <3>2 DEF KafkaType, Busy
      <3> QED BY <1>0, <1>3, <3>1, <3>2 DEF Kinds, Ending
    <2>2. \A i \in 1 .. Len(records) : Unspoiled(records'[i], kafka')
      BY <1>0, <2>1, KeepsUnspoiled DEF Unspoiled
    <2> QED BY <1>0, <1>1, <2>1, <2>2, RecordsStay, AttemptLeaves
  <1> QED BY <1>2, <1>3

(* A transaction ends: what was sent in it before is delivered, or was     *)
(* refused before it got there.                                            *)
LEMMA AcceptedEnd ==
  ASSUME CallsInv, TxInv, NEW op, NEW left, Taken(op, left.micro, left.timers),
         Accepts(op, left), handle = "open", ops[op].kind \in {"commit", "abort"},
         UNCHANGED <<handle, isTransactional, freed, scheduled, pendingError, consumerOpen>>
  PROVE  CallsInv'
  <1> DEFINE e == [op |-> op, txn |-> kafka.no]
  <1>0. /\ Shapes /\ RecordsInv /\ AloneInv /\ Unborn /\ op \in 1 .. Len(ops) /\ Len(ops) \in Nat
        /\ Pulled(op, left.micro, left.timers)
        /\ kafka \in KafkaType /\ kafka.no \in Nat /\ records \in Seq(RecordType)
        /\ ops \in Seq(OpType) /\ ops[op] \in OpType /\ Len(records) \in Nat
        /\ ends \in Seq([op : 1 .. Len(ops), txn : Nat]) /\ records' = records
        /\ e \in [op : 1 .. Len(ops), txn : Nat]
    BY RecordsAre DEF CallsInv, Taken, Pulled, Shapes, KafkaType, Accepts
  <1>1. /\ MayStart(ops[op].kind) /\ Done(op, left, "ok") /\ ends' = Append(ends, e)
        /\ kafka' = [kafka EXCEPT !.state = "ready"]
        /\ \A i \in 1 .. Len(records) : records[i].status \notin Unreported
    BY RecordsAre, <1>0 DEF Accepts, Ending, InFlight
  <1>2. /\ kafka.state \in Active /\ ongoing
        /\ ops[op].kind = "commit" => kafka.state \in Committable
    <2>1. kafka.state \in Active /\ (ops[op].kind = "commit" => kafka.state \in Committable)
      BY <1>1 DEF MayStart, Active, Committable
    <2>2. kafka.state # "fatal"
      BY <2>1 DEF Active
    <2> QED BY <2>1, <2>2 DEF TxInv, Agreement
  <1>3. kafka' \in KafkaType /\ kafka'.no = kafka.no /\ kafka'.state = "ready" /\ kafka.no > 0
    BY <1>0, <1>1, <1>2 DEF KafkaType, RecordsInv
  <1>4. CallsMove(left.micro) /\ ongoing' = FALSE /\ ops'[op].status = "ok"
    <2>1. Settle(op, "ok") /\ micro' = left.micro /\ timers' = left.timers
      BY <1>1 DEF Done
    <2>2. CallsMove(left.micro) /\ ongoing' = Flag(op, "ok") /\ ops'[op].status = "ok"
      BY <1>0, <2>1, DoneMoves
    <2> QED BY <2>2 DEF Flag
  <1>5. /\ Len(ops') = Len(ops) /\ ops' \in Seq(OpType) /\ Evolve(ops, ops')
        /\ NoneBegins(micro', ops')
    BY <1>2 , <1>4 DEF CallsMove, Taken, Pulled
  <1> HIDE DEF e
  <1>6. /\ ends' \in Seq([op : 1 .. Len(ops), txn : Nat])
        /\ \A h \in 1 .. Len(ends') : ends'[h] = e \/ (h \in 1 .. Len(ends) /\ ends'[h] = ends[h])
    BY <1>0, <1>1, MoreEnds
  <1>7. e.op = op /\ e.txn = kafka.no
    BY DEF e
  <1>8. Shapes'
    BY <1>0, <1>3, <1>4, <1>5, <1>6 DEF Shapes, CallsMove
  <1>9. Unborn'
    <2>1. state # "INIT"
      <3>1. ops # <<>>
        BY <1>0, EmptySeq
      <3> QED BY <1>0, <3>1 DEF Unborn
    <2> QED BY <1>4, <2>1 DEF Unborn, CallsMove
  <1>10. InTurn(micro', timers', ops', ongoing')
    BY <1>4, <1>5, TurnFlips DEF CallsMove
  <1>11. Whole(e, ops', records')
    <2> SUFFICES ASSUME ops'[op].kind = "commit", NEW i \in 1 .. ops'[op].made,
                        records[i].meant = kafka.no
                 PROVE  \/ records[i].status = "delivered" /\ records[i].txn = kafka.no
                        \/ records[i].status \in {"failed", "thrown"} /\ records[i].txn = 0
      BY <1>0, <1>7 DEF Whole
    <2>1. /\ ops[op].kind = "commit" /\ i \in 1 .. ops[op].made
          /\ ops[op].made \in Nat
      BY <1>0, <1>5 DEF Evolve, OpType
    <2>2. i \in 1 .. Len(records) /\ records[i].status # "staged"
      BY <1>0, <2>1 DEF RecordsInv, AllFlushed, Flushed
    <2>3. records[i].status \in {"delivered", "failed", "thrown"}
      <3>1. records[i] \in RecordType
        BY <1>0, <2>2, RecordsAre
      <3> QED BY <1>1, <2>2, <3>1 DEF RecordType, Statuses, Unreported
    <2>4. InOwn(records[i], kafka.no) /\ Unspoiled(records[i], kafka)
      BY <1>0, <2>2, KeepsUnspoiled
    <2> QED BY <1>2, <1>3, <2>1, <2>3, <2>4 DEF InOwn, Unspoiled, HandedOver
  <1>12. AllWhole(ends', ops', records')
    <2>1. AllWhole(ends, ops', records')
      BY <1>0, <1>5, WholeKept, RecordsStay DEF RecordsInv
    <2> SUFFICES ASSUME NEW h \in 1 .. Len(ends')
                 PROVE  Whole(ends'[h], ops', records')
      BY DEF AllWhole
    <2> QED BY <1>6, <1>11, <2>1 DEF AllWhole
  <1>13. ASSUME NEW i \in 1 .. Len(records), Due(records[i])
         PROVE  FlushComes(micro', ops')
    <2>1. scheduled
      BY <1>0, <1>13 DEF RecordsInv, Staged, Due
    <2>2. WillFlush(micro')
      BY <1>4, <2>1 DEF Taken, Pulled, CallsMove
    <2>3. Len(micro') \in Nat
      BY <1>4, LenProperties DEF Taken, Pulled, QueuesKnown, CallsMove
    <2> QED BY <1>5, <2>2, <2>3, FlushFirst
  <1>14. RecordsInv'
    <2>1. scheduled => WillFlush(micro')
      BY <1>4 DEF Taken, Pulled, CallsMove
    <2>2. (Staged(records') => scheduled') /\ (scheduled' => WillFlush(micro'))
      BY <1>0, <2>1 DEF RecordsInv
    <2>3. \A i \in 1 .. Len(records) : Unspoiled(records'[i], kafka')
      BY <1>3 DEF Unspoiled, Committable
    <2>4. kafka'.state \notin Active
      BY <1>3 DEF Active
    <2> QED BY <1>0, <1>3, <1>5, <1>12, <1>13, <2>2, <2>3, <2>4, RecordsStay, RecordsStep
  <1>15. AloneInv'
    <2> SUFFICES ASSUME Solo(ops')
                 PROVE  EndsAlone(ops', ongoing', kafka'.no) /\ OwnEnds(ends', ops')
      BY DEF AloneInv
    <2>1. Solo(ops)
      BY <1>0, <1>5, SoloBefore
    <2>2. EndsAlone(ops, ongoing, kafka.no) /\ OwnEnds(ends, ops)
      BY <1>0, <2>1 DEF AloneInv
    <2>3. \A o \in 1 .. Len(ops) : ops'[o].status = "waiting" => ops'[o].kind \notin Ending
      BY <1>0, <1>4, <2>2 DEF EndsAlone, Ending, Taken, Pulled, CallsMove, Evolve
    <2>4. EndsAlone(ops', ongoing', kafka'.no)
      BY <1>5, <2>3 DEF EndsAlone
    <2>5. OwnEnds(ends, ops')
      BY <1>0, <1>5, <2>2, OwnKept
    <2>6. ops'[op].txn = kafka.no
      BY <1>0, <1>5, <2>2 DEF EndsAlone, Ending, Taken, Pulled, Evolve
    <2>7. OwnEnds(ends', ops')
      <3> SUFFICES ASSUME NEW h \in 1 .. Len(ends')
                   PROVE  ops'[ends'[h].op].txn = ends'[h].txn
        BY DEF OwnEnds
      <3> QED BY <1>6, <1>7, <2>5, <2>6 DEF OwnEnds
    <2> QED BY <2>4, <2>7
  <1> QED BY <1>4, <1>8, <1>9, <1>10, <1>14, <1>15 DEF CallsInv, CallsMove

(* A transaction begins: nothing staged was meant for the one before.      *)
LEMMA AcceptedBegin ==
  ASSUME CallsInv, TxInv, NEW op, NEW left, Taken(op, left.micro, left.timers),
         Accepts(op, left), handle = "open", ops[op].kind = "begin",
         UNCHANGED <<handle, isTransactional, freed, scheduled, pendingError, consumerOpen>>
  PROVE  CallsInv'
  <1>0. /\ Shapes /\ RecordsInv /\ AloneInv /\ Unborn /\ op \in 1 .. Len(ops) /\ Len(ops) \in Nat
        /\ Pulled(op, left.micro, left.timers)
        /\ kafka \in KafkaType /\ kafka.no \in Nat /\ records \in Seq(RecordType)
        /\ ops \in Seq(OpType) /\ Len(records) \in Nat
        /\ ends \in Seq([op : 1 .. Len(ops), txn : Nat]) /\ records' = records
    BY RecordsAre DEF CallsInv, Taken, Pulled, Shapes, KafkaType, Accepts
  <1>1. /\ kafka.state = "ready" /\ Done(op, left, "ok") /\ ends' = ends
        /\ kafka' = [state |-> "open", no |-> kafka.no + 1]
    BY DEF Accepts, MayStart, Ending
  <1>2. ~ ongoing
    BY <1>1 DEF TxInv, Agreement, Active
  <1>3. kafka' \in KafkaType /\ kafka'.no = kafka.no + 1 /\ kafka'.state = "open"
    BY <1>0, <1>1 DEF KafkaType, Active
  <1>4. CallsMove(left.micro) /\ ongoing' = TRUE
    <2>1. Settle(op, "ok") /\ micro' = left.micro /\ timers' = left.timers
      BY <1>1 DEF Done
    <2>2. CallsMove(left.micro) /\ ongoing' = Flag(op, "ok")
      BY <1>0, <2>1, DoneMoves
    <2> QED BY <2>2 DEF Flag
  <1>5. /\ Len(ops') = Len(ops) /\ ops' \in Seq(OpType) /\ Evolve(ops, ops')
        /\ NoneEnds(micro', ops')
    BY <1>2, <1>4 DEF CallsMove, Taken, Pulled
  <1>6. Shapes'
    BY <1>0, <1>1, <1>3, <1>4, <1>5 DEF Shapes, CallsMove
  <1>7. Unborn'
    <2>1. state # "INIT"
      <3>1. ops # <<>>
        BY <1>0, EmptySeq
      <3> QED BY <1>0, <3>1 DEF Unborn
    <2> QED BY <1>4, <2>1 DEF Unborn, CallsMove
  <1>8. InTurn(micro', timers', ops', ongoing')
    BY <1>4, <1>5, TurnFlips DEF CallsMove
  <1>9. RecordsInv'
    <2>1. scheduled => WillFlush(micro')
      BY <1>4 DEF Taken, Pulled, CallsMove
    <2>2. (Staged(records') => scheduled') /\ (scheduled' => WillFlush(micro'))
      BY <1>0, <2>1 DEF RecordsInv
    <2>3. \A i \in 1 .. Len(records) : Unspoiled(records'[i], kafka')
      <3> SUFFICES ASSUME NEW i \in 1 .. Len(records) PROVE records[i].txn # kafka'.no
        BY <1>0 DEF Unspoiled
      <3>1. records[i].txn <= kafka.no
        BY <1>0 DEF RecordsInv, InOwn
      <3>2. records[i].txn \in Nat
        BY <1>0, RecordsAre DEF RecordType
      <3> QED BY <1>0, <1>3, <3>1, <3>2
    <2>4. \A i \in 1 .. Len(records) : ~ Due(records[i])
      BY <1>0, <1>2 DEF RecordsInv, InTime, Taken, Pulled
    <2>5. AllWhole(ends', ops', records')
      BY <1>0, <1>1, <1>5, WholeKept, RecordsStay DEF RecordsInv
    <2>6. kafka'.no > 0 /\ kafka.no <= kafka'.no
      BY <1>0, <1>3
    <2> QED BY <1>0, <1>3, <1>5, <2>2, <2>3, <2>4, <2>5, <2>6, RecordsStay, RecordsStep
  <1>10. AloneInv'
    <2> SUFFICES ASSUME Solo(ops')
                 PROVE  EndsAlone(ops', ongoing', kafka'.no) /\ OwnEnds(ends', ops')
      BY DEF AloneInv
    <2>1. Solo(ops)
      BY <1>0, <1>5, SoloBefore
    <2>2. EndsAlone(ops, ongoing, kafka.no) /\ OwnEnds(ends, ops)
      BY <1>0, <2>1 DEF AloneInv
    <2>3. \A o \in 1 .. Len(ops) : ops'[o].status = "waiting" => ops'[o].kind \notin Ending
      BY <1>2, <1>4, <2>2 DEF EndsAlone, CallsMove, Evolve
    <2>4. EndsAlone(ops', ongoing', kafka'.no)
      BY <1>5, <2>3 DEF EndsAlone
    <2>5. OwnEnds(ends', ops')
      BY <1>0, <1>1, <1>5, <2>2, OwnKept
    <2> QED BY <2>4, <2>5
  <1> QED BY <1>4, <1>6, <1>7, <1>8, <1>9, <1>10 DEF CallsInv, CallsMove

LEMMA AttemptInv ==
  ASSUME CallsInv, TxInv, NEW op, NEW left, Taken(op, left.micro, left.timers),
         Attempt(op, left)
  PROVE  CallsInv'
  <1>0. /\ UNCHANGED <<handle, isTransactional, freed, scheduled, pendingError, consumerOpen>>
        /\ Shapes /\ RecordsInv /\ kafka \in KafkaType /\ records \in Seq(RecordType)
        /\ ops[op].kind \in Kinds /\ Pulled(op, left.micro, left.timers)
    <2>1. ops[op] \in OpType
      BY RecordsAre DEF CallsInv, Taken, Pulled
    <2> QED BY <2>1 DEF Attempt, CallsInv, Shapes, OpType, Taken
  <1>1. CASE handle # "open"
    BY <1>0, <1>1, AttemptRefused DEF Attempt
  <1>2. CASE handle = "open" /\ Refuses(op, left)
    <2>1. CASE /\ MayStart(ops[op].kind) /\ ops[op].kind = "commit"
               /\ kafka' = [kafka EXCEPT !.state = "abortable"]
      <3>1. kafka.state \in Active
        BY <2>1 DEF MayStart, Active
      <3> QED BY <1>0, <1>2, <2>1, <3>1, AttemptRefused DEF Refuses
    <2>2. CASE kafka' = kafka \/ kafka' = [kafka EXCEPT !.state = "fatal"]
      BY <1>0, <1>2, <2>2, AttemptRefused DEF Refuses
    <2> QED BY <1>2, <2>1, <2>2 DEF Refuses
  <1>3. CASE handle = "open" /\ Postpones(op, left)
    BY <1>0, <1>3, AttemptPostponed
  <1>4. CASE handle = "open" /\ Accepts(op, left)
    <2>1. CASE ops[op].kind = "begin"
      BY <1>0, <1>4, <2>1, AcceptedBegin
    <2>2. CASE ops[op].kind \in {"commit", "abort"}
      BY <1>0, <1>4, <2>2, AcceptedEnd
    <2>3. CASE ops[op].kind \in {"init", "offsets"}
      <3>1. Settle(op, "ok") /\ micro' = left.micro /\ timers' = left.timers /\ records' = records
        BY <1>4 DEF Accepts, Done
      <3>2. CallsMove(left.micro) /\ ongoing' = Flag(op, "ok")
        BY <1>0, <3>1, DoneMoves
      <3>3. Flag(op, "ok") = ongoing
        BY <2>3 DEF Flag
      <3>4. /\ \/ ops[op].kind = "init" /\ kafka' = [kafka EXCEPT !.state = "ready"] /\ ends' = ends
               \/ /\ ops[op].kind = "offsets" /\ kafka' = kafka
                  /\ ends' = Append(ends, [op |-> op, txn |-> kafka.no])
        BY <1>4, <2>3 DEF Accepts, Ending
      <3>5. /\ kafka' \in KafkaType /\ kafka'.no = kafka.no
            /\ kafka'.state \in Active => kafka.state \in Active
            /\ kafka'.state = kafka.state \/ kafka'.state = "ready"
        BY <1>0, <3>4 DEF KafkaType, Active
      <3>6. handle = "open" => \A i \in 1 .. Len(records) : Unspoiled(records'[i], kafka')
        BY <1>0, <3>1, <3>5, KeepsUnspoiled DEF Unspoiled, Committable
      <3> QED BY <1>0, <3>1, <3>2, <3>3, <3>4, <3>5, <3>6, RecordsStay, AttemptLeaves
    <2> QED BY <1>0, <2>1, <2>2, <2>3 DEF Kinds, Ending
  <1> QED BY <1>1, <1>2, <1>3, <1>4 DEF Attempt

-----------------------------------------------------------------------------
(* A call is made.                                                         *)

LEMMA CallQueued ==
  ASSUME CallsInv, NEW kind \in Kinds, NEW task \in {"attempt", "refused"}, NEW q,
         QueuesKnown(q, timers, Len(ops)), QueuedOnce(q, timers, ops),
         InTurn(q, timers, ops, ongoing),
         ops' = Append(ops, Op(kind)), timers' = timers,
         micro' = Append(q, [task |-> task, op |-> Len(ops')]),
         kind = "begin" => ~ ongoing, kind \in Ending => ongoing
  PROVE  /\ ops' \in Seq(OpType) /\ Len(ops') = Len(ops) + 1 /\ Evolve(ops, ops')
         /\ ops'[Len(ops) + 1] = Op(kind)
         /\ \A o \in 1 .. Len(ops) : ops'[o] = ops[o]
         /\ QueuedOnce(micro', timers', ops') /\ InTurn(micro', timers', ops', ongoing)
         /\ WillFlush(q) => WillFlush(micro')
         /\ FlushComes(q, ops) => FlushComes(micro', ops')
  <1> DEFINE n == Len(ops)
             t == [task |-> task, op |-> n + 1]
  <1>0. Shapes /\ ops \in Seq(OpType) /\ n \in Nat /\ kafka.no \in Nat /\ Len(records) \in Nat
    BY RecordsAre DEF CallsInv, Shapes, KafkaType
  <1>1. Op(kind) \in OpType /\ Op(kind).status = "waiting" /\ Op(kind).kind = kind
    BY <1>0 DEF Op, OpType
  <1>2. /\ ops' \in Seq(OpType) /\ Len(ops') = n + 1 /\ ops'[n + 1] = Op(kind)
        /\ \A o \in 1 .. n : ops'[o] = ops[o]
    BY <1>0, <1>1, AppendProperties
  <1>3. Evolve(ops, ops')
    BY <1>0, <1>2 DEF Evolve
  <1>4. q \in Seq(TasksOf(n)) /\ t \in [task : Tasks, op : Nat] /\ Len(q) \in Nat
        /\ micro' = Append(q, t)
    BY <1>0, <1>2, LenProperties DEF QueuesKnown, Tasks
  <1>5. q \in Seq([task : Tasks, op : Nat])
    <2>1. TasksOf(n) \subseteq [task : Tasks, op : Nat]
      BY DEF TasksOf
    <2> QED BY <1>4, <2>1, SeqMonotonic
  <1>7. t.task = task /\ t.op = n + 1
    OBVIOUS
  <1> HIDE DEF t
  <1>6. Adds(q, micro', t)
    <2> DEFINE T == [task : Tasks, op : Nat]
    <2>1. q \in Seq(T) /\ t \in T /\ micro' = Append(q, t)
      BY <1>4, <1>5
    <2> HIDE DEF T
    <2>2. Adds(q, Append(q, t), t)
      BY ONLY <2>1, AppendAdds
    <2> QED BY <2>1, <2>2
  <1>8. Absent(n + 1, q, timers)
    <2>1. /\ \A i \in 1 .. Len(q) : IsCall(q[i]) => q[i].op \in 1 .. n
          /\ \A j \in 1 .. Len(timers) : timers[j] \in 1 .. n
      BY <1>4, ElementOfSeq, SMTT(30) DEF QueuesKnown, TasksOf, IsCall
    <2> QED BY <1>0, <2>1 DEF Absent
  <1>9. QueuedOnce(q, timers, ops')
    <2>1. \A o \in 1 .. n : ops'[o].status = ops[o].status
      BY <1>2
    <2> QED BY <1>0, <2>1, OnceOthers
  <1>10. QueuedOnce(micro', timers, ops')
    <2>1. Absent(t.op, q, timers) /\ ops'[t.op].status = "waiting"
      BY <1>1, <1>2, <1>7, <1>8
    <2> QED BY <1>4, <1>6, <1>9, <2>1, OnceAdded
  <1>11. InTurn(q, timers, ops', ongoing) /\ (FlushComes(q, ops) => FlushComes(q, ops'))
    <2>1. \A o \in 1 .. n : ops'[o].kind = ops[o].kind
      BY <1>2
    <2> QED BY <1>0, <2>1, SameKinds
  <1>12. InTurn(micro', timers, ops', ongoing)
    <2>1. (ongoing => ~ Begins(t, ops')) /\ (~ ongoing => ~ Ends(t, ops'))
      <3>1. ops'[t.op].kind = kind
        BY <1>1, <1>2, <1>7
      <3> QED BY <3>1 DEF Begins, Ends, Ending
    <2> QED BY <1>4, <1>6, <1>11, <2>1, TurnAdded
  <1>13. /\ WillFlush(q) => WillFlush(micro')
         /\ FlushComes(q, ops') => FlushComes(micro', ops')
    BY <1>4, <1>6, FlushAdded
  <1> QED BY <1>2, <1>3, <1>10, <1>11, <1>12, <1>13

LEMMA EndsOfMore ==
  ASSUME NEW n \in Nat, NEW m \in Nat, n <= m, NEW history \in Seq([op : 1 .. n, txn : Nat])
  PROVE  history \in Seq([op : 1 .. m, txn : Nat])
  <1>1. [op : 1 .. n, txn : Nat] \subseteq [op : 1 .. m, txn : Nat]
    OBVIOUS
  <1> DEFINE S == [op : 1 .. n, txn : Nat]
             T == [op : 1 .. m, txn : Nat]
  <1>2. S \subseteq T /\ history \in Seq(S)
    BY <1>1
  <1> HIDE DEF S, T
  <1>3. history \in Seq(T)
    BY <1>2, SeqMonotonic
  <1> QED BY <1>3 DEF T

LEMMA FlushUnspoiled ==
  ASSUME Shapes, RecordsInv, FlushStaging, handle = "open", NEW i \in 1 .. Len(records)
  PROVE  Unspoiled(records'[i], kafka)
  <1>1. CASE records'[i] = records[i]
    BY <1>1, KeepsUnspoiled
  <1>2. CASE records[i].status = "staged"
    <2>1. InOwn(records[i], kafka.no) /\ records[i].txn = 0
      BY <1>2 DEF RecordsInv, InOwn
    <2>2. Goes(records[i], records'[i], kafka.no)
      BY FlushGoes DEF GoOn
    <2>3. kafka.state \in Committable => kafka.no # 0
      <3>1. kafka.no \in Nat
        BY DEF Shapes, KafkaType
      <3> QED BY <3>1 DEF RecordsInv, Committable, Active
    <2> QED BY <1>2, <2>1, <2>2, <2>3 DEF Goes, Unspoiled, Unreported
  <1> QED BY <1>1, <1>2, FlushGoes

LEMMA CallMade ==
  ASSUME CallsInv, NEW kind \in Kinds, NEW task \in {"attempt", "refused"}, NEW q,
         QueuesKnown(q, timers, Len(ops)), QueuedOnce(q, timers, ops),
         InTurn(q, timers, ops, ongoing), scheduled' => WillFlush(q),
         FlushComes(micro, ops) => FlushComes(q, ops),
         ops' = Append(ops, Op(kind)), timers' = timers,
         micro' = Append(q, [task |-> task, op |-> Len(ops')]),
         kind = "begin" => ~ ongoing, kind \in Ending => ongoing,
         UNCHANGED <<handle, isTransactional, freed, ongoing, kafka, ends, consumerOpen>>,
         state' \in States \ {"INIT"},
         \/ FlushStaging
         \/ kind # "commit" /\ UNCHANGED <<records, scheduled, pendingError>>
  PROVE  CallsInv'
  <1>0. /\ Shapes /\ RecordsInv /\ AloneInv /\ kafka \in KafkaType /\ kafka.no \in Nat
        /\ records \in Seq(RecordType) /\ ops \in Seq(OpType) /\ Len(ops) \in Nat
        /\ Len(records) \in Nat /\ ends \in Seq([op : 1 .. Len(ops), txn : Nat])
    BY RecordsAre DEF CallsInv, Shapes, KafkaType
  <1>1. /\ ops' \in Seq(OpType) /\ Len(ops') = Len(ops) + 1 /\ Evolve(ops, ops')
        /\ ops'[Len(ops) + 1] = Op(kind)
        /\ \A o \in 1 .. Len(ops) : ops'[o] = ops[o]
        /\ QueuedOnce(micro', timers', ops') /\ InTurn(micro', timers', ops', ongoing)
        /\ WillFlush(q) => WillFlush(micro')
        /\ FlushComes(q, ops) => FlushComes(micro', ops')
    BY CallQueued
  <1>2. /\ records' \in Seq(RecordType) /\ Len(records') = Len(records)
        /\ GoOn(records, records', kafka.no) /\ scheduled' \in BOOLEAN /\ pendingError' \in BOOLEAN
        /\ \A i \in 1 .. Len(records) : records[i].status = "staged" /\ records'[i].status = "sent"
             => handle = "open"
        /\ handle = "open" => \A i \in 1 .. Len(records) : Unspoiled(records'[i], kafka)
        /\ (Staged(records') => scheduled') /\ (kind = "commit" => ~ Staged(records'))
        /\ records' = records \/ ~ Staged(records')
    <2>1. CASE FlushStaging
      BY <1>0, <2>1, FlushGoes, FlushUnspoiled
    <2>2. CASE kind # "commit" /\ UNCHANGED <<records, scheduled, pendingError>>
      BY <1>0, <2>2, RecordsStay, KeepsUnspoiled DEF RecordsInv, Shapes
    <2> QED BY <2>1, <2>2
  <1>3. ends' \in Seq([op : 1 .. Len(ops'), txn : Nat])
    <2>1. Len(ops') \in Nat /\ Len(ops) <= Len(ops') /\ ends' = ends
      BY <1>0, <1>1
    <2> QED BY <1>0, <2>1, EndsOfMore
  <1>4. Shapes'
    BY <1>0, <1>1, <1>2, <1>3 DEF Shapes
  <1>5. AllWhole(ends', ops', records')
    BY <1>0, <1>1, <1>2, WholeKept DEF RecordsInv
  <1>6. handle' = "open" => \A i \in 1 .. Len(records) : Due(records'[i]) =>
          kafka'.no = kafka.no /\ (ongoing' \/ FlushComes(micro', ops'))
    <2> SUFFICES ASSUME handle = "open", NEW i \in 1 .. Len(records), Due(records'[i])
                 PROVE  ongoing \/ FlushComes(micro', ops')
      OBVIOUS
    <2>1. records' = records
      BY <1>2 DEF Staged, Due
    <2> QED BY <1>1, <2>1 DEF CallsInv, RecordsInv, InTime
  <1>7. \A o \in 1 .. Len(ops') : o > Len(ops) => Flushed(ops'[o], records')
    <2> SUFFICES ASSUME kind = "commit"
                 PROVE  /\ Op(kind).made <= Len(records')
                        /\ \A i \in 1 .. Op(kind).made : records'[i].status # "staged"
      <3>1. Op(kind).kind = kind
        BY DEF Op
      <3>2. \A o \in 1 .. Len(ops') : o > Len(ops) => o = Len(ops) + 1
        BY <1>0, <1>1
      <3> QED BY <1>1, <3>1, <3>2 DEF Flushed
    <2>1. Op(kind).made = Len(records)
      BY DEF Op
    <2> QED BY <1>0, <1>2, <2>1 DEF Staged
  <1>8. RecordsInv'
    <2>1. scheduled' => WillFlush(micro')
      BY <1>1
    <2>2. kafka'.state \in Active => kafka'.no > 0
      BY <1>0 DEF RecordsInv
    <2> QED BY <1>0, <1>1, <1>2, <1>5, <1>6, <1>7, <2>1, <2>2, RecordsStep
  <1>9. AloneInv'
    <2> SUFFICES ASSUME Solo(ops')
                 PROVE  EndsAlone(ops', ongoing', kafka'.no) /\ OwnEnds(ends', ops')
      BY DEF AloneInv
    <2>1. Solo(ops)
      BY <1>0, <1>1, SoloBefore
    <2>2. EndsAlone(ops, ongoing, kafka.no) /\ OwnEnds(ends, ops)
      BY <1>0, <2>1 DEF AloneInv
    <2>3. OwnEnds(ends', ops')
      BY <1>0, <1>1, <2>2, OwnKept
    <2>4. /\ Op(kind).kind = kind /\ Op(kind).txn = kafka.no
          /\ Op(kind).alone = (Unsettled = {})
      BY DEF Op
    <2>5. ASSUME kind \in Ending, NEW o \in 1 .. Len(ops) PROVE ops[o].status # "waiting"
      <3>1. Op(kind).alone
        BY <1>0, <1>1, <2>4, <2>5 DEF Solo
      <3> QED BY <2>4, <2>5, <3>1, RecordsAre, <1>0 DEF Unsettled
    <2>6. ASSUME NEW o \in 1 .. Len(ops'), ops'[o].kind \in Ending, ops'[o].status = "waiting"
          PROVE  /\ ongoing /\ ops'[o].txn = kafka.no
                 /\ \A p \in 1 .. Len(ops') : ops'[p].status = "waiting" /\ p # o
                      => ops'[p].kind \notin Ending \union {"begin"}
      <3>1. CASE o \in 1 .. Len(ops)
        <4>1. /\ ops[o].kind \in Ending /\ ops[o].status = "waiting" /\ ops'[o] = ops[o]
          BY <1>1, <2>6, <3>1
        <4>2. ongoing /\ kind \notin Ending \union {"begin"}
          BY <2>2, <2>5, <3>1, <4>1 DEF EndsAlone
        <4>3. ASSUME NEW p \in 1 .. Len(ops'), ops'[p].status = "waiting", p # o
              PROVE  ops'[p].kind \notin Ending \union {"begin"}
          <5>1. CASE p \in 1 .. Len(ops)
            BY <1>1, <2>2, <3>1, <4>1, <4>3, <5>1 DEF EndsAlone
          <5>2. CASE p = Len(ops) + 1
            BY <1>1, <2>4, <4>2, <5>2
          <5> QED BY <1>0, <1>1, <5>1, <5>2
        <4> QED BY <2>2, <3>1, <4>1, <4>2, <4>3 DEF EndsAlone
      <3>2. CASE o = Len(ops) + 1
        <4>1. kind \in Ending
          BY <1>1, <2>4, <2>6, <3>2
        <4>2. \A p \in 1 .. Len(ops') : ops'[p].status = "waiting" => p = Len(ops) + 1
          BY <1>0, <1>1, <2>5, <4>1
        <4> QED BY <1>1, <2>4, <3>2, <4>1, <4>2
      <3> QED BY <1>0, <1>1, <3>1, <3>2
    <2>7. EndsAlone(ops', ongoing', kafka'.no)
      BY <2>6 DEF EndsAlone
    <2> QED BY <2>3, <2>7
  <1>10. Unborn'
    BY DEF Unborn
  <1> QED BY <1>1, <1>4, <1>8, <1>9, <1>10 DEF CallsInv

-----------------------------------------------------------------------------
(* Steps that make no call.                                                *)

LEMMA TaskQueued ==
  ASSUME CallsInv, TxInv, NEW task \in {"flush", "metadata", "disconnected"},
         micro' = Append(micro, [task |-> task, op |-> 0]), timers' = timers
  PROVE  /\ QueuedOnce(micro', timers', ops) /\ InTurn(micro', timers', ops, ongoing)
         /\ WillFlush(micro) => WillFlush(micro')
         /\ FlushComes(micro, ops) => FlushComes(micro', ops)
         /\ task = "flush" => WillFlush(micro')
  <1> DEFINE t == [task |-> task, op |-> 0]
             T == TasksOf(Len(ops))
  <1>1. micro \in Seq(T) /\ t \in T /\ micro' = Append(micro, t)
    BY DEF TxInv, QueuesKnown, TasksOf, Tasks
  <1>2. t.task = task
    OBVIOUS
  <1> HIDE DEF t, T
  <1>3. Adds(micro, micro', t) /\ Len(micro) \in Nat
    BY <1>1, AppendAdds
  <1>4. QueuedOnce(micro', timers', ops)
    BY <1>2, <1>3, OnceAdded DEF CallsInv, IsCall
  <1>5. InTurn(micro', timers', ops, ongoing)
    BY <1>2, <1>3, TurnAdded DEF CallsInv, Begins, Ends
  <1> QED BY <1>2, <1>3, <1>4, <1>5, FlushAdded

(* Calls may become late, but none is made and none settles.               *)
LEMMA NoCall ==
  ASSUME CallsInv, ops' \in Seq(OpType), Len(ops') = Len(ops), Evolve(ops, ops'),
         \A o \in 1 .. Len(ops) : ops'[o].status = ops[o].status,
         ongoing' = ongoing, ends' = ends,
         records' \in Seq(RecordType), Len(records') = Len(records),
         GoOn(records, records', kafka.no),
         kafka' \in KafkaType, kafka'.no = kafka.no, kafka'.state \in Active => kafka.state \in Active,
         QueuedOnce(micro', timers', ops'), InTurn(micro', timers', ops', ongoing),
         Staged(records') => scheduled', scheduled' => WillFlush(micro'),
         \A i \in 1 .. Len(records) :
           records[i].status = "staged" /\ records'[i].status = "sent" => handle = "open",
         handle' = "open" => handle = "open" \/ Len(records) = 0,
         handle' = "open" => \A i \in 1 .. Len(records) : Unspoiled(records'[i], kafka'),
         handle' = "open" /\ (\E i \in 1 .. Len(records) : Due(records'[i])) =>
           (FlushComes(micro, ops) => FlushComes(micro', ops')),
         state' \in States, handle' \in {"none", "open", "closed"},
         isTransactional' \in BOOLEAN, freed' \in BOOLEAN, scheduled' \in BOOLEAN,
         pendingError' \in BOOLEAN, consumerOpen' \in BOOLEAN, Unborn'
  PROVE  CallsInv'
  <1>0. /\ Shapes /\ RecordsInv /\ AloneInv /\ kafka.no \in Nat /\ Len(records) \in Nat
        /\ ops \in Seq(OpType) /\ Len(ops) \in Nat
        /\ ends \in Seq([op : 1 .. Len(ops), txn : Nat])
    BY RecordsAre DEF CallsInv, Shapes, KafkaType
  <1>1. Shapes'
    BY <1>0 DEF Shapes
  <1>2. AllWhole(ends', ops', records')
    BY <1>0, WholeKept DEF RecordsInv
  <1>3. handle' = "open" => \A i \in 1 .. Len(records) : Due(records'[i]) =>
          kafka'.no = kafka.no /\ (ongoing' \/ FlushComes(micro', ops'))
    <2> SUFFICES ASSUME handle' = "open", NEW i \in 1 .. Len(records), Due(records'[i])
                 PROVE  ongoing \/ FlushComes(micro', ops')
      OBVIOUS
    <2>1. Due(records[i]) /\ handle = "open"
      BY <1>0, GoesDue DEF GoOn
    <2>2. ongoing \/ FlushComes(micro, ops)
      BY <1>0, <2>1 DEF RecordsInv, InTime
    <2> QED BY <2>2
  <1>4. \A o \in 1 .. Len(ops') : o > Len(ops) => Flushed(ops'[o], records')
    BY <1>0
  <1>5. kafka'.state \in Active => kafka'.no > 0
    BY <1>0 DEF RecordsInv
  <1>6. RecordsInv'
    BY <1>0, <1>2, <1>3, <1>4, <1>5, RecordsStep
  <1>7. AloneInv'
    <2> SUFFICES ASSUME Solo(ops')
                 PROVE  EndsAlone(ops', ongoing', kafka'.no) /\ OwnEnds(ends', ops')
      BY DEF AloneInv
    <2>1. Len(ops') \in Nat
      BY <1>0
    <2>2. Solo(ops)
      BY <1>0, <2>1, SoloBefore
    <2>3. EndsAlone(ops, ongoing, kafka.no) /\ OwnEnds(ends, ops)
      BY <1>0, <2>2 DEF AloneInv
    <2>4. EndsAlone(ops', ongoing', kafka'.no)
      BY <1>0, <2>3, AloneKept, SMTT(30)
    <2>5. OwnEnds(ends', ops')
      BY <1>0, <2>3, OwnKept
    <2> QED BY <2>4, <2>5
  <1> QED BY <1>1, <1>6, <1>7 DEF CallsInv

(* Steps that leave the calls, the messages and librdkafka alone.          *)
LEMMA SameCalls ==
  ASSUME CallsInv, UNCHANGED <<ops, ongoing, ends, messages, kafka>>,
         QueuedOnce(micro', timers', ops), InTurn(micro', timers', ops, ongoing),
         WillFlush(micro) => WillFlush(micro'),
         FlushComes(micro, ops) => FlushComes(micro', ops),
         handle' = "open" => handle = "open" \/ Len(records) = 0,
         state' \in States, handle' \in {"none", "open", "closed"},
         isTransactional' \in BOOLEAN, freed' \in BOOLEAN, consumerOpen' \in BOOLEAN, Unborn'
  PROVE  CallsInv'
  <1>1. /\ ops' = ops /\ records' = records /\ kafka' = kafka /\ ongoing' = ongoing
        /\ ends' = ends /\ scheduled' = scheduled /\ pendingError' = pendingError
    BY DEF messages
  <1>2. /\ Shapes /\ RecordsInv /\ Len(ops) \in Nat /\ Len(records) \in Nat /\ kafka.no \in Nat
        /\ kafka \in KafkaType /\ records \in Seq(RecordType) /\ ops \in Seq(OpType)
        /\ scheduled \in BOOLEAN /\ pendingError \in BOOLEAN
    BY RecordsAre DEF CallsInv, Shapes, KafkaType
  <1>3. Evolve(ops, ops')
    BY <1>1, <1>2 DEF Evolve
  <1>4. handle' = "open" => \A i \in 1 .. Len(records) : Unspoiled(records'[i], kafka')
    BY <1>1, <1>2, KeepsUnspoiled
  <1>5. (Staged(records') => scheduled') /\ (scheduled' => WillFlush(micro'))
    BY <1>1, <1>2 DEF RecordsInv
  <1>6. GoOn(records, records', kafka.no)
    BY <1>1, RecordsStay
  <1> QED BY <1>1, <1>2, <1>3, <1>4, <1>5, <1>6, NoCall

LEMMA MicroTaken ==
  ASSUME CallsInv, TxInv, micro # <<>>
  PROVE  /\ Head(micro) \in TasksOf(Len(ops)) /\ QueuesKnown(Tail(micro), timers, Len(ops))
         /\ QueuedOnce(Tail(micro), timers, ops) /\ InTurn(Tail(micro), timers, ops, ongoing)
         /\ Head(micro).task # "flush" =>
              /\ WillFlush(micro) => WillFlush(Tail(micro))
              /\ FlushComes(micro, ops) => FlushComes(Tail(micro), ops)
         /\ IsCall(Head(micro)) => Pulled(Head(micro).op, Tail(micro), timers)
         /\ Head(micro).task = "attempt" => Taken(Head(micro).op, Tail(micro), timers)
  <1> DEFINE T == TasksOf(Len(ops))
  <1>1. micro \in Seq(T) /\ timers \in Seq(1 .. Len(ops)) /\ RecordsInv
    BY DEF TxInv, QueuesKnown, CallsInv
  <1> HIDE DEF T
  <1>2. /\ Drops(micro, Tail(micro)) /\ Head(micro) = micro[1] /\ Len(micro) \in Nat \ {0}
        /\ Tail(micro) \in Seq(T) /\ Head(micro) \in T
    BY <1>1, TailDrops, HeadTailProperties
  <1>3. /\ QueuedOnce(Tail(micro), timers, ops)
        /\ IsCall(Head(micro)) => Absent(Head(micro).op, Tail(micro), timers)
    BY <1>2, OnceDropped DEF CallsInv
  <1>4. /\ InTurn(Tail(micro), timers, ops, ongoing)
        /\ ongoing /\ Ends(Head(micro), ops) => NoneBegins(Tail(micro), ops)
        /\ ~ ongoing /\ Begins(Head(micro), ops) => NoneEnds(Tail(micro), ops)
    BY <1>2, TurnDropped DEF CallsInv
  <1>5. Head(micro).task # "flush" =>
          /\ WillFlush(micro) => WillFlush(Tail(micro))
          /\ FlushComes(micro, ops) => FlushComes(Tail(micro), ops) /\ ~ Begins(Head(micro), ops)
    BY <1>2, FlushDropped
  <1>6. QueuesKnown(Tail(micro), timers, Len(ops)) /\ Head(micro) \in TasksOf(Len(ops))
    BY <1>1, <1>2 DEF QueuesKnown, T
  <1>7. ASSUME IsCall(Head(micro)) PROVE Pulled(Head(micro).op, Tail(micro), timers)
    <2>1. Head(micro).task # "flush" /\ Head(micro).op \in 1 .. Len(ops)
      BY <1>6, <1>7 DEF IsCall, TasksOf
    <2>2. ops[Head(micro).op].status = "waiting"
      <3>1. 1 \in 1 .. Len(micro)
        BY <1>2
      <3> QED BY <1>2, <1>7, <3>1 DEF CallsInv, QueuedOnce
    <2>3. scheduled => WillFlush(Tail(micro))
      BY <1>1, <1>5, <2>1 DEF RecordsInv
    <2> QED BY <1>3, <1>4, <1>5, <1>6, <1>7, <2>1, <2>2, <2>3 DEF Pulled
  <1>8. Head(micro).task = "attempt" => Taken(Head(micro).op, Tail(micro), timers)
    BY <1>4, <1>5, <1>7 DEF Taken, IsCall, Begins, Ends
  <1> QED BY <1>3, <1>4, <1>5, <1>6, <1>7, <1>8

LEMMA TimerTaken ==
  ASSUME CallsInv, TxInv, micro = <<>>, timers # <<>>
  PROVE  Taken(Head(timers), micro, Tail(timers))
  <1> DEFINE T == 1 .. Len(ops)
  <1>1. timers \in Seq(T) /\ RecordsInv /\ micro \in Seq(TasksOf(Len(ops)))
    BY DEF TxInv, QueuesKnown, CallsInv
  <1> HIDE DEF T
  <1>2. /\ Drops(timers, Tail(timers)) /\ Head(timers) = timers[1] /\ Len(timers) \in Nat \ {0}
        /\ Tail(timers) \in Seq(T) /\ Head(timers) \in T
    BY <1>1, TailDrops, HeadTailProperties
  <1>3. /\ QueuedOnce(micro, Tail(timers), ops) /\ Absent(Head(timers), micro, Tail(timers))
        /\ ops[Head(timers)].status = "waiting"
    BY <1>2, OnceWaited DEF CallsInv
  <1>4. InTurn(micro, Tail(timers), ops, ongoing)
    BY <1>2, TurnWaited DEF CallsInv
  <1>5. QueuesKnown(micro, Tail(timers), Len(ops)) /\ Head(timers) \in 1 .. Len(ops)
    BY <1>1, <1>2 DEF QueuesKnown, T
  <1>6. Len(micro) = 0
    BY EmptySeq
  <1>7. NoneBegins(micro, ops) /\ NoneEnds(micro, ops) /\ ~ FlushComes(micro, ops)
    BY <1>6 DEF NoneBegins, NoneEnds, FlushComes
  <1>8. scheduled => WillFlush(micro)
    BY <1>1 DEF RecordsInv
  <1> QED BY <1>3, <1>4, <1>5, <1>7, <1>8 DEF Taken, Pulled

-----------------------------------------------------------------------------
(* send().                                                                 *)

LEMMA RecordFits ==
  ASSUME Shapes, NEW batch \in Batches, NEW i \in DOMAIN batch
  PROVE  Record(batch, i) \in RecordType
  <1>1. Cardinality(Sends) \in Nat
    <2>1. IsFiniteSet(1 .. Len(records))
      BY RecordsAre, FS_Interval
    <2> DEFINE of == [j \in 1 .. Len(records) |-> records[j].send]
    <2>2. of \in Surjection(1 .. Len(records), Sends)
      BY RecordsAre DEF Sends, Surjection
    <2> HIDE DEF of
    <2>3. IsFiniteSet(Sends)
      BY ONLY <2>1, <2>2, FS_Surjection
    <2> QED BY <2>3, FS_CardinalityType
  <1>2. batch[i] \in Places
    BY DEF Places, ToSet
  <1>3. kafka.no \in Nat
    BY DEF Shapes, KafkaType
  <1> DEFINE status == IF pendingError /\ i = 1 THEN "thrown" ELSE "staged"
             meant == IF ongoing THEN kafka.no ELSE 0
  <1>4. status \in Statuses /\ meant \in Nat
    BY <1>3 DEF Statuses
  <1>5. Record(batch, i) = [send |-> Cardinality(Sends) + 1, place |-> batch[i],
                            status |-> status, meant |-> meant, txn |-> 0, offset |-> 0]
    BY DEF Record
  <1> HIDE DEF status, meant
  <1> QED BY <1>1, <1>2, <1>4, <1>5 DEF RecordType

LEMMA SendMore ==
  ASSUME Shapes, NEW batch \in Batches, Send(batch)
  PROVE  /\ records' \in Seq(RecordType) /\ Len(batch) \in Nat \ {0} /\ DOMAIN batch = 1 .. Len(batch)
         /\ Len(records') = Len(records) + Len(batch)
         /\ \A i \in 1 .. Len(records) : records'[i] = records[i]
         /\ \A i \in 1 .. Len(batch) : records'[Len(records) + i] = Record(batch, i)
  <1> DEFINE new == [i \in DOMAIN batch |-> Record(batch, i)]
  <1>1. batch # <<>> /\ batch \in Seq(ToSet(batch))
    BY BatchesAssumption
  <1>2. Len(batch) \in Nat \ {0} /\ DOMAIN batch = 1 .. Len(batch)
    BY <1>1, LenProperties, EmptySeq
  <1>3. new \in [1 .. Len(batch) -> RecordType]
    BY <1>2, RecordFits
  <1>4. \A i \in 1 .. Len(batch) : new[i] = Record(batch, i)
    BY <1>2
  <1>5. records' = records \o new /\ records \in Seq(RecordType)
    BY DEF Send, Shapes
  <1> HIDE DEF new
  <1>6. new \in Seq(RecordType) /\ Len(new) = Len(batch)
    BY <1>2, <1>3, Mapped
  <1>7. /\ records' \in Seq(RecordType) /\ Len(records') = Len(records) + Len(new)
        /\ \A i \in 1 .. Len(records) + Len(new) :
             records'[i] = IF i <= Len(records) THEN records[i] ELSE new[i - Len(records)]
    BY <1>5, <1>6, ConcatProperties, ZenonT(60)
  <1>8. \A i \in 1 .. Len(records) : records'[i] = records[i]
    BY <1>2, <1>6, <1>7, RecordsAre
  <1>9. \A i \in 1 .. Len(batch) : records'[Len(records) + i] = Record(batch, i)
    <2> SUFFICES ASSUME NEW i \in 1 .. Len(batch)
                 PROVE  records'[Len(records) + i] = new[i]
      BY <1>4
    <2>1. /\ Len(records) + i \in 1 .. Len(records) + Len(new)
          /\ ~ (Len(records) + i <= Len(records)) /\ Len(records) + i - Len(records) = i
      BY <1>2, <1>6, RecordsAre
    <2> QED BY <1>7, <2>1
  <1> QED BY <1>2, <1>6, <1>7, <1>8, <1>9

LEMMA SendInv ==
  ASSUME CallsInv, TxInv, NEW batch \in Batches, Send(batch)
  PROVE  CallsInv'
  <1> DEFINE n == Len(records)
  <1>0. /\ Shapes /\ RecordsInv /\ AloneInv /\ kafka \in KafkaType /\ kafka.no \in Nat
        /\ n \in Nat /\ ops \in Seq(OpType) /\ Len(ops) \in Nat
        /\ ends \in Seq([op : 1 .. Len(ops), txn : Nat])
        /\ QueuedOnce(micro, timers, ops) /\ InTurn(micro, timers, ops, ongoing)
        /\ scheduled \in BOOLEAN
    BY RecordsAre DEF CallsInv, Shapes, KafkaType
  <1>1. /\ records' \in Seq(RecordType) /\ Len(batch) \in Nat \ {0}
        /\ Len(records') = n + Len(batch)
        /\ \A i \in 1 .. n : records'[i] = records[i]
        /\ \A i \in 1 .. Len(batch) : records'[n + i] = Record(batch, i)
    BY <1>0, SendMore
  <1>2. /\ UNCHANGED <<client, ongoing, timers, ops, kafka, ends, consumerOpen>>
        /\ pendingError' = FALSE /\ scheduled' = (scheduled \/ Stages(batch))
        /\ micro' = IF scheduled \/ ~ Stages(batch) THEN micro
                    ELSE Append(micro, [task |-> "flush", op |-> 0])
        /\ state = "CONNECTED"
    BY DEF Send
  <1>3. /\ QueuedOnce(micro', timers', ops) /\ InTurn(micro', timers', ops, ongoing)
        /\ FlushComes(micro, ops) => FlushComes(micro', ops)
        /\ scheduled' => WillFlush(micro')
    <2>1. CASE scheduled \/ ~ Stages(batch)
      BY <1>0, <1>2, <2>1 DEF RecordsInv
    <2>2. CASE ~ (scheduled \/ ~ Stages(batch))
      BY <1>2, <2>2, TaskQueued
    <2> QED BY <2>1, <2>2
  <1>4. GoOn(records, records', kafka.no) /\ Len(records') \in Nat
    BY <1>0, <1>1 DEF GoOn, Goes
  <1>5. Evolve(ops, ops') /\ ops' = ops
    BY <1>0, <1>2 DEF Evolve
  <1>6. Shapes'
    BY <1>0, <1>1, <1>2 DEF Shapes, client, Stages
  <1>7. ASSUME NEW i \in 1 .. Len(batch)
        PROVE  LET r == Record(batch, i)
               IN  /\ r.status \in {"staged", "thrown"} /\ r.txn = 0
                   /\ r.status = "staged" => Stages(batch)
                   /\ r.meant > 0 => ongoing /\ r.meant = kafka.no
    BY <1>0, <1>1 DEF Record, Stages
  <1>8. \A i \in 1 .. Len(records') : i \in 1 .. n \/ (i - n \in 1 .. Len(batch) /\ i = n + (i - n))
    BY <1>0, <1>1
  <1>9. ASSUME NEW i \in 1 .. Len(records')
        PROVE  /\ InOwn(records'[i], kafka.no)
               /\ records'[i].status = "staged" => scheduled'
               /\ handle = "open" => /\ InTime(records'[i], micro', ops, ongoing, kafka.no)
                                     /\ Unspoiled(records'[i], kafka)
    <2>1. CASE i \in 1 .. n
      <3>1. records'[i] = records[i]
        BY <1>1, <2>1
      <3>2. InOwn(records[i], kafka.no)
        BY <1>0, <2>1 DEF RecordsInv
      <3>3. records[i].status = "staged" => scheduled'
        BY <1>0, <1>2, <2>1 DEF RecordsInv, Staged
      <3>4. handle = "open" => /\ InTime(records[i], micro', ops, ongoing, kafka.no)
                               /\ Unspoiled(records[i], kafka)
        BY <1>0, <1>3, <2>1 DEF RecordsInv, InTime
      <3> QED BY <3>1, <3>2, <3>3, <3>4
    <2>2. CASE i - n \in 1 .. Len(batch) /\ i = n + (i - n)
      <3> DEFINE r == Record(batch, i - n)
      <3>1. /\ records'[i] = r /\ r.status \in {"staged", "thrown"} /\ r.txn = 0
            /\ r.status = "staged" => Stages(batch)
            /\ r.meant > 0 => ongoing /\ r.meant = kafka.no
        BY <1>1, <1>7, <2>2
      <3> HIDE DEF r
      <3>2. InOwn(r, kafka.no)
        BY <1>0, <3>1 DEF InOwn, HandedOver
      <3>3. InTime(r, micro', ops, ongoing, kafka.no) /\ Unspoiled(r, kafka)
        BY <3>1 DEF InTime, Due, Unspoiled
      <3> QED BY <1>2, <3>1, <3>2, <3>3
    <2> QED BY <1>8, <2>1, <2>2
  <1>10. AllFlushed(ops, records') /\ AllWhole(ends, ops, records')
    <2>1. \A o \in 1 .. Len(ops) : Flushed(ops[o], records')
      BY <1>0, <1>4, <1>5, FlushedKept DEF RecordsInv
    <2> QED BY <1>0, <1>4, <1>5, <2>1, WholeKept DEF RecordsInv, AllFlushed
  <1>11. Staged(records') => scheduled'
    BY <1>9 DEF Staged
  <1>12. RecordsInv'
    BY <1>0, <1>2, <1>3, <1>9, <1>10, <1>11 DEF RecordsInv, client
  <1>13. AloneInv' /\ Unborn'
    BY <1>0, <1>2 DEF AloneInv, Unborn, client
  <1> QED BY <1>2, <1>3, <1>6, <1>12, <1>13 DEF CallsInv

-----------------------------------------------------------------------------
(* The other steps.                                                        *)

LEMMA CallInv ==
  ASSUME CallsInv, TxInv, NEW kind \in Kinds, NEW task \in {"attempt", "refused"},
         Called(kind, task), state = "CONNECTED",
         kind = "begin" => ~ ongoing, kind \in Ending => ongoing,
         UNCHANGED <<client, ongoing, timers, kafka, ends, consumerOpen>>,
         \/ FlushStaging
         \/ kind # "commit" /\ UNCHANGED messages
  PROVE  CallsInv'
  <1>1. /\ QueuesKnown(micro, timers, Len(ops)) /\ QueuedOnce(micro, timers, ops)
        /\ InTurn(micro, timers, ops, ongoing) /\ (scheduled => WillFlush(micro))
    BY DEF TxInv, CallsInv, RecordsInv
  <1>2. \/ FlushStaging
        \/ kind # "commit" /\ UNCHANGED <<records, scheduled, pendingError>>
    BY DEF messages
  <1>3. scheduled' => WillFlush(micro)
    <2>1. CASE FlushStaging
      BY <2>1 DEF FlushStaging
    <2>2. CASE UNCHANGED <<records, scheduled, pendingError>>
      BY <1>1, <2>2
    <2> QED BY <1>2, <2>1, <2>2
  <1>4. /\ UNCHANGED <<handle, isTransactional, freed, ongoing, kafka, ends, consumerOpen>>
        /\ timers' = timers /\ state' \in States \ {"INIT"}
    BY DEF client, States
  <1>5. /\ ops' = Append(ops, Op(kind))
        /\ micro' = Append(micro, [task |-> task, op |-> Len(ops')])
    BY DEF Called
  <1> QED BY <1>1, <1>2, <1>3, <1>4, <1>5, CallMade

LEMMA ConnectInv ==
  ASSUME CallsInv, TxInv, Connect
  PROVE  CallsInv'
  <1>0. /\ Shapes /\ state = "INIT" /\ Len(records) = 0
        /\ QueuedOnce(micro, timers, ops) /\ InTurn(micro, timers, ops, ongoing)
        /\ UNCHANGED <<ops, ongoing, ends, messages, kafka, timers>>
        /\ UNCHANGED <<isTransactional, freed, consumerOpen>>
    <2>1. state = "INIT" /\ Unborn
      BY DEF Connect, CallsInv
    <2> QED BY <2>1, EmptySeq DEF Connect, CallsInv, Unborn, tasks
  <1>1. /\ state' \in States \ {"INIT"} /\ handle' \in {"none", "open", "closed"}
        /\ isTransactional' \in BOOLEAN /\ freed' \in BOOLEAN /\ consumerOpen' \in BOOLEAN
    BY <1>0 DEF Connect, Shapes, States
  <1>2. /\ QueuedOnce(micro', timers', ops) /\ InTurn(micro', timers', ops, ongoing)
        /\ WillFlush(micro) => WillFlush(micro')
        /\ FlushComes(micro, ops) => FlushComes(micro', ops)
    <2>1. CASE micro' = micro
      BY <1>0, <2>1
    <2>2. CASE micro' = Append(micro, [task |-> "metadata", op |-> 0])
      BY <1>0, <2>2, TaskQueued
    <2> QED BY <2>1, <2>2 DEF Connect
  <1>3. Unborn'
    BY <1>1 DEF Unborn
  <1> QED BY <1>0, <1>1, <1>2, <1>3, SameCalls

(* What a handle's end, or a poll round, does to a record.                 *)
LEMMA ReportedGoes ==
  ASSUME Shapes, NEW no, NEW all,
         \A i \in 1 .. Len(records) : all[i] = [records[i] EXCEPT !.status =
            CASE @ = "acked" -> "delivered" [] @ = "nacked" -> "failed" [] OTHER -> @],
         DOMAIN all = 1 .. Len(records), all = [i \in 1 .. Len(records) |-> all[i]]
  PROVE  /\ all \in Seq(RecordType) /\ Len(all) = Len(records) /\ GoOn(records, all, no)
         /\ \A i \in 1 .. Len(records) :
              /\ all[i].status = "sent" => records[i].status = "sent"
              /\ all[i].status = "failed" => records[i].status \in {"failed", "nacked"}
              /\ all[i].txn = records[i].txn /\ all[i].status # "nacked"
  <1>1. ASSUME NEW i \in 1 .. Len(records)
        PROVE  /\ all[i] \in RecordType /\ Goes(records[i], all[i], no)
               /\ all[i].status = "sent" => records[i].status = "sent"
               /\ all[i].status = "failed" => records[i].status \in {"failed", "nacked"}
               /\ all[i].txn = records[i].txn /\ all[i].status # "nacked"
    <2>1. records[i] \in RecordType
      BY RecordsAre
    <2>2. CASE records[i].status = "acked"
      <3>1. all[i] = [records[i] EXCEPT !.status = "delivered"]
        BY <2>1, <2>2 DEF RecordType
      <3> QED BY <2>1, <2>2, <3>1 DEF RecordType, Statuses, Goes, Unreported
    <2>3. CASE records[i].status = "nacked"
      <3>1. all[i] = [records[i] EXCEPT !.status = "failed"]
        BY <2>1, <2>3 DEF RecordType
      <3> QED BY <2>1, <2>3, <3>1 DEF RecordType, Statuses, Goes, Unreported
    <2>4. CASE records[i].status \notin {"acked", "nacked"}
      <3>1. all[i] = records[i]
        BY <2>1, <2>4 DEF RecordType
      <3> QED BY <2>1, <2>4, <3>1 DEF Goes
    <2> QED BY <2>2, <2>3, <2>4
  <1>2. all \in [1 .. Len(records) -> RecordType]
    BY <1>1
  <1>3. all \in Seq(RecordType) /\ Len(all) = Len(records)
    BY <1>2, Mapped, RecordsAre
  <1>4. GoOn(records, all, no)
    BY <1>1, <1>3, RecordsAre DEF GoOn
  <1> QED BY <1>1, <1>3, <1>4

LEMMA DroppedGoes ==
  ASSUME Shapes, Disconnect
  PROVE  /\ records' \in Seq(RecordType) /\ Len(records') = Len(records)
         /\ GoOn(records, records', kafka.no) /\ ~ Staged(records')
         /\ \A i \in 1 .. Len(records) : records'[i].status # "sent"
  <1>1. ASSUME NEW i \in 1 .. Len(records)
        PROVE  /\ records'[i] \in RecordType /\ Goes(records[i], records'[i], kafka.no)
               /\ records'[i].status \notin {"staged", "sent"}
    <2>1. records[i] \in RecordType
      BY RecordsAre
    <2>0. records'[i] = [records[i] EXCEPT !.status =
                           CASE @ = "acked" -> "delivered"
                             [] @ \in {"staged", "sent", "nacked"} -> "failed"
                             [] OTHER -> @]
      BY RecordsAre DEF Disconnect
    <2>2. CASE records[i].status = "acked"
      <3>1. records'[i] = [records[i] EXCEPT !.status = "delivered"]
        BY <2>0, <2>1, <2>2 DEF RecordType
      <3> QED BY <2>1, <2>2, <3>1 DEF RecordType, Statuses, Goes, Unreported
    <2>3. CASE records[i].status \in {"staged", "sent", "nacked"}
      <3>1. records'[i] = [records[i] EXCEPT !.status = "failed"]
        BY <2>0, <2>1, <2>3 DEF RecordType
      <3> QED BY <2>1, <2>3, <3>1 DEF RecordType, Statuses, Goes, Unreported
    <2>4. CASE records[i].status \notin {"acked", "staged", "sent", "nacked"}
      <3>1. records'[i] = records[i]
        BY <2>0, <2>1, <2>4 DEF RecordType
      <3> QED BY <2>1, <2>4, <3>1 DEF Goes
    <2> QED BY <2>2, <2>3, <2>4
  <1>2. records' \in [1 .. Len(records) -> RecordType]
    BY <1>1, RecordsAre DEF Disconnect
  <1>3. records' \in Seq(RecordType) /\ Len(records') = Len(records)
    BY <1>2, Mapped, RecordsAre
  <1>4. GoOn(records, records', kafka.no)
    BY <1>1, <1>3, RecordsAre DEF GoOn
  <1> QED BY <1>1, <1>3, <1>4 DEF Staged

LEMMA DisconnectInv ==
  ASSUME CallsInv, TxInv, Disconnect
  PROVE  CallsInv'
  <1>0. /\ Shapes /\ RecordsInv /\ Len(ops) \in Nat /\ ops \in Seq(OpType) /\ kafka \in KafkaType
        /\ pendingError \in BOOLEAN
    BY RecordsAre DEF CallsInv, Shapes
  <1>1. /\ state' = "DISCONNECTING" /\ handle' \in {"none", "closed"} /\ scheduled' = FALSE
        /\ micro' \in {micro, Append(micro, [task |-> "disconnected", op |-> 0])}
        /\ timers' = timers
        /\ ops' = ops /\ ongoing' = ongoing /\ ends' = ends /\ kafka' = kafka
        /\ UNCHANGED <<isTransactional, freed, pendingError, consumerOpen>>
    BY <1>0 DEF Disconnect, Shapes
  <1>2. QueuedOnce(micro', timers', ops) /\ InTurn(micro', timers', ops, ongoing)
    BY <1>1, TaskQueued DEF CallsInv
  <1>3. Evolve(ops, ops')
    BY <1>0, <1>1 DEF Evolve
  <1>4. /\ state' \in States /\ isTransactional' \in BOOLEAN /\ freed' \in BOOLEAN
        /\ pendingError' \in BOOLEAN /\ consumerOpen' \in BOOLEAN /\ Unborn'
        /\ handle' # "open" /\ handle' \in {"none", "open", "closed"}
    BY <1>0, <1>1 DEF Shapes, States, Unborn
  <1>5. /\ records' \in Seq(RecordType) /\ Len(records') = Len(records)
        /\ GoOn(records, records', kafka.no) /\ ~ Staged(records')
        /\ \A i \in 1 .. Len(records) : records'[i].status # "sent"
    BY <1>0, DroppedGoes
  <1> QED BY <1>0, <1>1, <1>2, <1>3, <1>4, <1>5, NoCall

LEMMA RoundInv ==
  ASSUME CallsInv, TxInv, Round
  PROVE  CallsInv'
  <1>0. /\ Shapes /\ RecordsInv /\ Len(ops) \in Nat /\ ops \in Seq(OpType) /\ kafka \in KafkaType
        /\ QueuedOnce(micro, timers, ops) /\ InTurn(micro, timers, ops, ongoing)
    BY RecordsAre DEF CallsInv, Shapes
  <1>1. /\ state' = state /\ handle' = handle /\ scheduled' = scheduled /\ micro' = micro
        /\ timers' = timers /\ ops' = ops /\ ongoing' = ongoing /\ ends' = ends /\ kafka' = kafka
        /\ isTransactional' = isTransactional /\ freed' = freed /\ pendingError' = pendingError
        /\ consumerOpen' = consumerOpen /\ handle = "open" /\ micro = <<>>
    BY DEF Round, client, tasks
  <1>2. /\ records' \in Seq(RecordType) /\ Len(records') = Len(records)
        /\ GoOn(records, records', kafka.no)
        /\ \A i \in 1 .. Len(records) :
             /\ records'[i].status = "failed" => records[i].status \in {"failed", "nacked"}
             /\ records'[i].txn = records[i].txn /\ records'[i].status # "nacked"
    <2>1. /\ \A i \in 1 .. Len(records) : records'[i] = [records[i] EXCEPT !.status =
               CASE @ = "acked" -> "delivered" [] @ = "nacked" -> "failed" [] OTHER -> @]
          /\ DOMAIN records' = 1 .. Len(records)
          /\ records' = [i \in 1 .. Len(records) |-> records'[i]]
      BY <1>0, RecordsAre DEF Round
    <2> QED BY ONLY <1>0, <2>1, ReportedGoes
  <1>3. Evolve(ops, ops')
    BY <1>0, <1>1 DEF Evolve
  <1>4. /\ state' \in States /\ isTransactional' \in BOOLEAN /\ freed' \in BOOLEAN
        /\ pendingError' \in BOOLEAN /\ consumerOpen' \in BOOLEAN
        /\ handle' \in {"none", "open", "closed"} /\ scheduled' \in BOOLEAN
    BY <1>0, <1>1 DEF Shapes
  <1>5. Unborn'
    <2> SUFFICES ASSUME state = "INIT" PROVE Len(records) = 0 /\ timers = <<>> /\ ops = <<>>
      <3>1. Len(records) = 0 => records' = <<>>
        BY <1>2, EmptySeq
      <3> QED BY <1>1, <3>1 DEF Unborn
    <2> QED BY EmptySeq DEF CallsInv, Unborn
  <1>6. \A i \in 1 .. Len(records) : Unspoiled(records'[i], kafka')
    BY <1>0, <1>1, <1>2, KeepsUnspoiled DEF Unspoiled
  <1>7. (Staged(records') => scheduled') /\ (scheduled' => WillFlush(micro'))
    <2>1. Staged(records') => Staged(records)
      BY <1>2, GoesDue DEF GoOn, Staged
    <2> QED BY <1>0, <1>1, <2>1 DEF RecordsInv
  <1> QED BY <1>0, <1>1, <1>2, <1>3, <1>4, <1>5, <1>6, <1>7, NoCall

LEMMA DeliverInv ==
  ASSUME CallsInv, TxInv, NEW i \in DOMAIN records, Deliver(i)
  PROVE  CallsInv'
  <1>0. /\ Shapes /\ RecordsInv /\ Len(ops) \in Nat /\ ops \in Seq(OpType) /\ kafka \in KafkaType
        /\ records \in Seq(RecordType) /\ i \in 1 .. Len(records) /\ Len(records) \in Nat
        /\ records[i] \in RecordType /\ records[i].status = "sent"
        /\ QueuedOnce(micro, timers, ops) /\ InTurn(micro, timers, ops, ongoing)
    BY RecordsAre DEF CallsInv, Shapes, Deliver
  <1>1. /\ state' = state /\ handle' = handle /\ scheduled' = scheduled /\ micro' = micro
        /\ timers' = timers /\ ops' = ops /\ ongoing' = ongoing /\ ends' = ends
        /\ isTransactional' = isTransactional /\ freed' = freed /\ pendingError' = pendingError
        /\ consumerOpen' = consumerOpen
    BY DEF Deliver, client, tasks
  <1>2. PICK r \in RecordType :
          /\ records' = [records EXCEPT ![i] = r] /\ r.meant = records[i].meant
          /\ r.txn = records[i].txn
          /\ \/ r.status = "acked" /\ kafka' = kafka
             \/ /\ r.status = "nacked"
                /\ kafka' = IF kafka.state \in {"open", "committing"}
                            THEN [kafka EXCEPT !.state = "abortable"] ELSE kafka
    <2>1. CASE /\ records' = [records EXCEPT ![i].status = "acked",
                                             ![i].offset = NextOffset(records[i].place)]
               /\ kafka' = kafka
      <3> DEFINE r == [records[i] EXCEPT !.status = "acked", !.offset = NextOffset(records[i].place)]
      <3>1. NextOffset(records[i].place) \in Nat
        <4> DEFINE S == {j \in 1 .. Len(records) : records[j].place = records[i].place
                                                     /\ records[j].offset > 0}
        <4>1. IsFiniteSet(1 .. Len(records)) /\ S \in SUBSET (1 .. Len(records))
          BY <1>0, FS_Interval
        <4>2. NextOffset(records[i].place) = Cardinality(S) + 1
          BY RecordsAre, <1>0 DEF NextOffset
        <4> HIDE DEF S
        <4>3. Cardinality(S) \in Nat
          BY <4>1, FS_Subset, FS_CardinalityType
        <4> QED BY <4>2, <4>3
      <3>2. r \in RecordType /\ r.status = "acked" /\ r.meant = records[i].meant /\ r.txn = records[i].txn
        BY <1>0, <3>1 DEF RecordType, Statuses
      <3>3. records' = [records EXCEPT ![i] = r]
        BY <2>1, <1>0
      <3> HIDE DEF r
      <3> QED BY <2>1, <3>2, <3>3
    <2>2. CASE /\ records' = [records EXCEPT ![i].status = "nacked"]
               /\ kafka' = IF kafka.state \in {"open", "committing"}
                           THEN [kafka EXCEPT !.state = "abortable"] ELSE kafka
      <3> DEFINE r == [records[i] EXCEPT !.status = "nacked"]
      <3>1. r \in RecordType /\ r.status = "nacked" /\ r.meant = records[i].meant /\ r.txn = records[i].txn
        BY <1>0 DEF RecordType, Statuses
      <3>2. records' = [records EXCEPT ![i] = r]
        BY <2>2, <1>0
      <3> HIDE DEF r
      <3> QED BY <2>2, <3>1, <3>2
    <2> QED BY <2>1, <2>2 DEF Deliver
  <1>3. /\ records' \in Seq(RecordType) /\ Len(records') = Len(records)
        /\ \A j \in 1 .. Len(records) : records'[j] = IF j = i THEN r ELSE records[j]
    BY <1>0, <1>2, ExceptSeq
  <1>4. GoOn(records, records', kafka.no)
    <2>1. Goes(records[i], r, kafka.no)
      BY <1>0, <1>2 DEF Goes, Unreported
    <2>2. \A j \in 1 .. Len(records) : Goes(records[j], records[j], kafka.no)
      BY DEF Goes
    <2>3. \A j \in 1 .. Len(records) : Goes(records[j], records'[j], kafka.no)
      BY <1>3, <2>1, <2>2
    <2> QED BY <1>0, <1>3, <2>3 DEF GoOn
  <1>5. /\ kafka' \in KafkaType /\ kafka'.no = kafka.no
        /\ kafka'.state \in Active => kafka.state \in Active
        /\ kafka'.state = kafka.state \/ kafka'.state \notin Committable
        /\ r.status = "nacked" => kafka'.state \notin Committable
    <2>1. CASE kafka' = kafka
      <3>1. r.status = "nacked" => kafka.state \notin {"open", "committing"}
        BY <1>0, <1>2, <2>1 DEF KafkaType
      <3> QED BY <1>0, <2>1, <3>1 DEF Committable
    <2>2. CASE kafka' = [kafka EXCEPT !.state = "abortable"] /\ kafka.state \in {"open", "committing"}
      BY <1>0, <2>2 DEF KafkaType, Active, Committable
    <2> QED BY <1>2, <2>1, <2>2
  <1>6. handle' = "open" => \A j \in 1 .. Len(records) : Unspoiled(records'[j], kafka')
    <2> SUFFICES ASSUME handle = "open", NEW j \in 1 .. Len(records)
                 PROVE  Unspoiled(records'[j], kafka')
      BY <1>1
    <2>1. Unspoiled(records[j], kafka)
      BY <1>0, KeepsUnspoiled
    <2>2. CASE j = i
      BY <1>2, <1>3, <1>5, <2>2 DEF Unspoiled
    <2>3. CASE j # i
      BY <1>3, <1>5, <2>1, <2>3 DEF Unspoiled
    <2> QED BY <2>2, <2>3
  <1>7. /\ Evolve(ops, ops') /\ (Staged(records') => scheduled')
        /\ scheduled' => WillFlush(micro')
    <2>1. Staged(records') => Staged(records)
      BY <1>3, <1>4, GoesDue DEF GoOn, Staged
    <2> QED BY <1>0, <1>1, <2>1 DEF RecordsInv, Evolve
  <1>8. \A j \in 1 .. Len(records) :
          records[j].status = "staged" => records'[j].status # "sent"
    BY <1>0, <1>3
  <1>9. Unborn'
    <2>1. state # "INIT"
      BY <1>0, EmptySeq DEF CallsInv, Unborn
    <2> QED BY <1>1, <2>1 DEF Unborn
  <1>10. /\ state' \in States /\ isTransactional' \in BOOLEAN /\ freed' \in BOOLEAN
         /\ pendingError' \in BOOLEAN /\ consumerOpen' \in BOOLEAN
         /\ handle' \in {"none", "open", "closed"} /\ scheduled' \in BOOLEAN
    BY <1>0, <1>1 DEF Shapes
  <1> QED BY <1>0, <1>1, <1>3, <1>4, <1>5, <1>6, <1>7, <1>8, <1>9, <1>10, NoCall

LEMMA DeadlineInv ==
  ASSUME CallsInv, TxInv, NEW op \in DOMAIN ops, DeadlinePasses(op)
  PROVE  CallsInv'
  <1>0. /\ Shapes /\ RecordsInv /\ Len(ops) \in Nat /\ ops \in Seq(OpType) /\ kafka \in KafkaType
        /\ records \in Seq(RecordType) /\ op \in 1 .. Len(ops) /\ ops[op] \in OpType
        /\ QueuedOnce(micro, timers, ops) /\ InTurn(micro, timers, ops, ongoing)
        /\ Len(records) \in Nat
    BY RecordsAre DEF CallsInv, Shapes
  <1>1. /\ state' = state /\ handle' = handle /\ scheduled' = scheduled /\ micro' = micro
        /\ timers' = timers /\ records' = records /\ ongoing' = ongoing /\ ends' = ends
        /\ isTransactional' = isTransactional /\ freed' = freed /\ pendingError' = pendingError
        /\ consumerOpen' = consumerOpen /\ kafka' = kafka
        /\ ops' = [ops EXCEPT ![op].late = TRUE]
    BY DEF DeadlinePasses, client, tasks, messages
  <1> DEFINE late == [ops[op] EXCEPT !.late = TRUE]
  <1>2. /\ late \in OpType /\ late.status = ops[op].status /\ late.kind = ops[op].kind
        /\ late.made = ops[op].made /\ late.txn = ops[op].txn /\ late.alone = ops[op].alone
    BY <1>0 DEF OpType
  <1>3. ops' = [ops EXCEPT ![op] = late]
    BY <1>0, <1>1
  <1> HIDE DEF late
  <1>4. /\ ops' \in Seq(OpType) /\ Len(ops') = Len(ops)
        /\ \A o \in 1 .. Len(ops) : ops'[o] = IF o = op THEN late ELSE ops[o]
    BY <1>0, <1>2, <1>3, ExceptSeq
  <1>5. Evolve(ops, ops') /\ \A o \in 1 .. Len(ops) : ops'[o].status = ops[o].status
    BY <1>0, <1>2, <1>4, SMTT(30) DEF Evolve
  <1>6. QueuedOnce(micro, timers, ops') /\ InTurn(micro, timers, ops', ongoing)
    <2>1. QueuesKnown(micro, timers, Len(ops))
      BY DEF TxInv
    <2>2. QueuedOnce(micro, timers, ops')
      BY <1>0, <1>5, <2>1, OnceOthers
    <2>3. \A o \in 1 .. Len(ops) : ops'[o].kind = ops[o].kind
      BY <1>5 DEF Evolve
    <2>4. InTurn(micro, timers, ops', ongoing)
      BY <1>0, <2>1, <2>3, SameKinds
    <2> QED BY <2>2, <2>4
  <1>7. /\ Staged(records') => scheduled'
        /\ scheduled' => WillFlush(micro')
    BY <1>0, <1>1 DEF RecordsInv
  <1>8. \A i \in 1 .. Len(records) : Unspoiled(records'[i], kafka') \/ handle' # "open"
    BY <1>0, <1>1, KeepsUnspoiled
  <1>9. FlushComes(micro, ops) => FlushComes(micro', ops')
    <2>1. QueuesKnown(micro, timers, Len(ops))
      BY DEF TxInv
    <2>2. \A o \in 1 .. Len(ops) : ops'[o].kind = ops[o].kind
      BY <1>5 DEF Evolve
    <2>3. FlushComes(micro, ops) => FlushComes(micro, ops')
      BY <1>0, <2>1, <2>2, SameKinds
    <2> QED BY <1>1, <2>3
  <1>10. Unborn'
    <2>1. state # "INIT"
      BY <1>0, EmptySeq DEF CallsInv, Unborn
    <2> QED BY <1>1, <2>1 DEF Unborn
  <1>11. /\ state' \in States /\ isTransactional' \in BOOLEAN /\ freed' \in BOOLEAN
         /\ pendingError' \in BOOLEAN /\ consumerOpen' \in BOOLEAN
         /\ handle' \in {"none", "open", "closed"} /\ scheduled' \in BOOLEAN
    BY <1>0, <1>1 DEF Shapes
  <1>12. /\ GoOn(records, records', kafka.no)
         /\ QueuedOnce(micro', timers', ops') /\ InTurn(micro', timers', ops', ongoing)
         /\ kafka' \in KafkaType /\ kafka'.no = kafka.no
         /\ kafka'.state \in Active => kafka.state \in Active
    BY <1>0, <1>1, <1>6, RecordsStay
  <1> QED BY <1>0, <1>1, <1>4, <1>5, <1>7, <1>8, <1>9, <1>10, <1>11, <1>12, NoCall

LEMMA FlushInv ==
  ASSUME CallsInv, TxInv, micro # <<>>, Head(micro).task = "flush", RunMicrotask
  PROVE  CallsInv'
  <1>0. /\ Shapes /\ RecordsInv /\ Len(ops) \in Nat /\ ops \in Seq(OpType) /\ kafka \in KafkaType
        /\ QueuedOnce(Tail(micro), timers, ops) /\ InTurn(Tail(micro), timers, ops, ongoing)
    BY RecordsAre, MicroTaken DEF CallsInv, Shapes
  <1>1. FlushStaging /\ micro' = Tail(micro)
        /\ UNCHANGED <<client, ongoing, timers, ops, kafka, ends, consumerOpen>>
    BY DEF RunMicrotask
  <1>2. /\ records' \in Seq(RecordType) /\ Len(records') = Len(records)
        /\ GoOn(records, records', kafka.no)
        /\ ~ Staged(records') /\ scheduled' = FALSE /\ pendingError' \in BOOLEAN
        /\ \A i \in 1 .. Len(records) : records[i].status = "staged" /\ records'[i].status = "sent"
             => handle = "open"
    BY <1>0, <1>1, FlushGoes
  <1>3. /\ handle' = handle
        /\ handle = "open" => \A i \in 1 .. Len(records) : Unspoiled(records'[i], kafka')
    BY <1>0, <1>1, FlushUnspoiled DEF client
  <1>4. \A i \in 1 .. Len(records) : ~ Due(records'[i])
    BY <1>2 DEF Staged, Due
  <1>5. Unborn'
    <2>1. state # "INIT"
      BY DEF CallsInv, Unborn
    <2> QED BY <1>1, <2>1 DEF Unborn, client
  <1>6. /\ state' \in States /\ isTransactional' \in BOOLEAN /\ freed' \in BOOLEAN
        /\ consumerOpen' \in BOOLEAN /\ handle' \in {"none", "open", "closed"}
    BY <1>0, <1>1 DEF Shapes, client
  <1>7. Evolve(ops, ops') /\ ops' = ops
    BY <1>0, <1>1 DEF Evolve
  <1> QED BY <1>0, <1>1, <1>2, <1>3, <1>4, <1>5, <1>6, <1>7, NoCall

LEMMA MetadataInv ==
  ASSUME CallsInv, TxInv, micro # <<>>, Head(micro).task = "metadata", RunMicrotask
  PROVE  CallsInv'
  <1>0. /\ Shapes /\ RecordsInv /\ state # "INIT"
        /\ QueuesKnown(Tail(micro), timers, Len(ops))
        /\ QueuedOnce(Tail(micro), timers, ops) /\ InTurn(Tail(micro), timers, ops, ongoing)
        /\ WillFlush(micro) => WillFlush(Tail(micro))
        /\ FlushComes(micro, ops) => FlushComes(Tail(micro), ops)
    BY MicroTaken DEF CallsInv, Unborn
  <1>1. /\ Metadata
        /\ UNCHANGED <<isTransactional, freed, ongoing, messages, timers, kafka, ends, consumerOpen>>
    BY DEF RunMicrotask
  <1>2. CASE /\ micro' = Tail(micro) /\ ops' = ops
             /\ \/ handle' = handle /\ (state' = state \/ state' = "CONNECTED")
                \/ handle' = "closed" /\ state' = "DISCONNECTED"
    <2>1. /\ state' \in States \ {"INIT"} /\ handle' \in {"none", "open", "closed"}
          /\ handle' = "open" => handle = "open"
          /\ isTransactional' \in BOOLEAN /\ freed' \in BOOLEAN /\ consumerOpen' \in BOOLEAN
      BY <1>0, <1>1, <1>2 DEF Shapes, States
    <2>2. Unborn'
      BY <2>1 DEF Unborn
    <2> QED BY <1>0, <1>1, <1>2, <2>1, <2>2, SameCalls
  <1>3. CASE /\ state' = "INITIALIZING_TRANSACTIONS" /\ ops' = Append(ops, Op("init"))
             /\ micro' = Append(Tail(micro), [task |-> "attempt", op |-> Len(ops')])
             /\ handle' = handle
    <2>1. /\ "init" \in Kinds /\ "init" \notin Ending /\ state' \in States \ {"INIT"}
          /\ UNCHANGED <<records, scheduled, pendingError>>
          /\ UNCHANGED <<handle, isTransactional, freed, ongoing, kafka, ends, consumerOpen>>
          /\ timers' = timers
      BY <1>1, <1>3 DEF Kinds, Ending, States, messages
    <2>2. scheduled' => WillFlush(Tail(micro))
      BY <1>0, <2>1 DEF RecordsInv
    <2>3. "init" # "commit" /\ "init" # "begin"
      OBVIOUS
    <2> QED BY ONLY CallsInv, <1>0, <1>3, <2>1, <2>2, <2>3, CallMade
  <1> QED BY <1>1, <1>2, <1>3 DEF Metadata

LEMMA MicrotaskInv ==
  ASSUME CallsInv, TxInv, RunMicrotask
  PROVE  CallsInv'
  <1> DEFINE left == [micro |-> Tail(micro), timers |-> timers]
             op == Head(micro).op
  <1>1. /\ micro # <<>> /\ Shapes /\ state # "INIT"
        /\ Head(micro).task \in Tasks
    <2>1. micro # <<>>
      BY DEF RunMicrotask
    <2> QED BY <2>1, MicroTaken DEF CallsInv, Unborn, TasksOf
  <1>2. /\ QueuedOnce(Tail(micro), timers, ops) /\ InTurn(Tail(micro), timers, ops, ongoing)
        /\ Head(micro).task # "flush" =>
             /\ WillFlush(micro) => WillFlush(Tail(micro))
             /\ FlushComes(micro, ops) => FlushComes(Tail(micro), ops)
        /\ IsCall(Head(micro)) => Pulled(op, left.micro, left.timers)
        /\ Head(micro).task = "attempt" => Taken(op, left.micro, left.timers)
    BY <1>1, MicroTaken
  <1>3. CASE Head(micro).task = "flush"
    BY <1>1, <1>3, FlushInv
  <1>4. CASE Head(micro).task = "attempt"
    <2>1. Attempt(op, left)
      BY <1>4 DEF RunMicrotask
    <2> HIDE DEF left, op
    <2> QED BY <1>2, <1>4, <2>1, AttemptInv
  <1>5. CASE Head(micro).task = "refused"
    <2>1. /\ Done(op, left, "failed")
          /\ UNCHANGED <<handle, isTransactional, freed, messages, kafka, ends, consumerOpen>>
      BY <1>5 DEF RunMicrotask
    <2>2. Pulled(op, left.micro, left.timers)
      BY <1>2, <1>5 DEF IsCall
    <2> HIDE DEF left, op
    <2>3. /\ UNCHANGED <<records, ends>> /\ kafka' = kafka
          /\ UNCHANGED <<handle, isTransactional, freed, scheduled, pendingError, consumerOpen>>
      BY <2>1 DEF messages
    <2> QED BY <2>1, <2>2, <2>3, AttemptRefused
  <1>6. CASE Head(micro).task = "metadata"
    BY <1>1, <1>6, MetadataInv
  <1>7. CASE Head(micro).task = "disconnected"
    <2>1. /\ state' = "DISCONNECTED" /\ freed' = TRUE /\ micro' = Tail(micro)
          /\ UNCHANGED <<ops, ongoing, ends, messages, kafka, timers>>
          /\ UNCHANGED <<handle, isTransactional, consumerOpen>>
      BY <1>7 DEF RunMicrotask
    <2>2. /\ state' \in States \ {"INIT"} /\ handle' \in {"none", "open", "closed"}
          /\ handle' = "open" => handle = "open"
          /\ isTransactional' \in BOOLEAN /\ freed' \in BOOLEAN /\ consumerOpen' \in BOOLEAN
      BY <1>1, <2>1 DEF Shapes, States
    <2>3. Unborn'
      BY <2>2 DEF Unborn
    <2> QED BY <1>2, <1>7, <2>1, <2>2, <2>3, SameCalls
  <1> QED BY <1>1, <1>3, <1>4, <1>5, <1>6, <1>7 DEF Tasks

LEMMA TimerInv ==
  ASSUME CallsInv, TxInv, RunTimer
  PROVE  CallsInv'
  <1> DEFINE left == [micro |-> micro, timers |-> Tail(timers)]
             op == Head(timers)
  <1>1. micro = <<>> /\ timers # <<>> /\ Attempt(op, left)
    BY DEF RunTimer
  <1>2. Taken(op, left.micro, left.timers)
    BY <1>1, TimerTaken
  <1> HIDE DEF left, op
  <1> QED BY <1>1, <1>2, AttemptInv

(* disconnect() once more, the consumer closes, or nothing happens.        *)
LEMMA StillInv ==
  ASSUME CallsInv, TxInv,
         UNCHANGED <<state, handle, isTransactional, ongoing, messages, tasks, ops, kafka, ends>>,
         freed' \in BOOLEAN, consumerOpen' \in BOOLEAN
  PROVE  CallsInv'
  <1>1. /\ UNCHANGED <<ops, ongoing, ends, messages, kafka>> /\ micro' = micro /\ timers' = timers
        /\ state' = state /\ handle' = handle /\ isTransactional' = isTransactional
    BY DEF tasks
  <1>2. /\ QueuedOnce(micro', timers', ops) /\ InTurn(micro', timers', ops, ongoing)
        /\ state' \in States /\ handle' \in {"none", "open", "closed"}
        /\ isTransactional' \in BOOLEAN
    BY <1>1 DEF CallsInv, Shapes
  <1>3. Unborn'
    BY <1>1 DEF CallsInv, Unborn, messages
  <1> QED BY <1>1, <1>2, <1>3, SameCalls

LEMMA InitCallsInv == Init => CallsInv
  <1> SUFFICES ASSUME Init PROVE CallsInv
    OBVIOUS
  <1>1. /\ records = <<>> /\ ops = <<>> /\ micro = <<>> /\ timers = <<>> /\ ends = <<>>
        /\ kafka = [state |-> "none", no |-> 0] /\ scheduled = FALSE /\ handle = "none"
    BY DEF Init
  <1>2. \A S : <<>> \in Seq(S) /\ Len(<<>>) = 0
    BY EmptySeq
  <1>3. Shapes
    <2>1. kafka \in KafkaType
      BY <1>1 DEF KafkaType
    <2> QED BY <1>1, <1>2, <2>1 DEF Init, Shapes, States
  <1>4. QueuedOnce(micro, timers, ops) /\ InTurn(micro, timers, ops, ongoing)
    BY <1>1, <1>2 DEF QueuedOnce, InTurn
  <1>5. RecordsInv
    <2>1. ~ Staged(records) /\ kafka.state \notin Active
      BY <1>1, <1>2 DEF Staged, Active
    <2>2. AllFlushed(ops, records) /\ AllWhole(ends, ops, records)
      BY <1>1, <1>2 DEF AllFlushed, AllWhole
    <2> QED BY <1>1, <1>2, <2>1, <2>2 DEF RecordsInv
  <1>6. AloneInv /\ Unborn
    BY <1>1, <1>2 DEF AloneInv, EndsAlone, OwnEnds, Unborn
  <1> QED BY <1>3, <1>4, <1>5, <1>6 DEF CallsInv

LEMMA NextCallsInv == TxInv /\ CallsInv /\ [Next]_vars => CallsInv'
  <1> SUFFICES ASSUME TxInv, CallsInv, [Next]_vars PROVE CallsInv'
    OBVIOUS
  <1>1. CASE Connect
    BY <1>1, ConnectInv
  <1>2. CASE Disconnect
    BY <1>2, DisconnectInv
  <1>3. CASE DisconnectAgain
    BY <1>3, StillInv DEF DisconnectAgain, CallsInv, Shapes
  <1>4. CASE \E batch \in Batches : Send(batch)
    BY <1>4, SendInv
  <1>5. CASE Transaction
    <2>1. /\ "begin" \in Kinds /\ "begin" \notin Ending /\ "begin" # "commit"
          /\ "attempt" \in {"attempt", "refused"}
      BY DEF Kinds, Ending
    <2>2. /\ Called("begin", "attempt") /\ state = "CONNECTED" /\ ~ ongoing /\ UNCHANGED messages
          /\ UNCHANGED <<client, ongoing, timers, kafka, ends, consumerOpen>>
      BY <1>5 DEF Transaction
    <2> QED BY <2>1, <2>2, CallInv
  <1>6. CASE SendOffsets
    <2>1. "offsets" \in Kinds /\ "offsets" # "begin" /\ "offsets" # "commit"
      BY DEF Kinds, Ending
    <2>2. PICK task \in {"attempt", "refused"} :
            Called("offsets", task) /\ (FlushStaging \/ UNCHANGED messages)
      BY <1>6 DEF SendOffsets
    <2>3. /\ state = "CONNECTED" /\ ongoing
          /\ UNCHANGED <<client, ongoing, timers, kafka, ends, consumerOpen>>
      BY <1>6 DEF SendOffsets
    <2> QED BY <2>1, <2>2, <2>3, CallInv
  <1>7. CASE \E kind \in {"commit", "abort"} : End(kind)
    <2>1. PICK kind \in {"commit", "abort"} : End(kind)
      BY <1>7
    <2>2. kind \in Kinds /\ kind # "begin" /\ "attempt" \in {"attempt", "refused"}
      BY DEF Kinds, Ending
    <2>3. /\ state = "CONNECTED" /\ ongoing /\ FlushStaging /\ Called(kind, "attempt")
          /\ UNCHANGED <<client, ongoing, timers, kafka, ends, consumerOpen>>
      BY <2>1 DEF End
    <2> QED BY <2>2, <2>3, CallInv
  <1>8. CASE RunMicrotask
    BY <1>8, MicrotaskInv
  <1>9. CASE RunTimer
    BY <1>9, TimerInv
  <1>10. CASE Round
    BY <1>10, RoundInv
  <1>11. CASE Broker
    BY <1>11, DeliverInv DEF Broker
  <1>12. CASE \E op \in DOMAIN ops : DeadlinePasses(op)
    BY <1>12, DeadlineInv
  <1>13. CASE ConsumerCloses
    BY <1>13, StillInv DEF ConsumerCloses, client, CallsInv, Shapes
  <1>14. CASE UNCHANGED vars
    BY <1>14, StillInv DEF vars, client, CallsInv, Shapes
  <1> QED
    BY <1>1, <1>2, <1>3, <1>4, <1>5, <1>6, <1>7, <1>8, <1>9, <1>10, <1>11, <1>12, <1>13, <1>14
       DEF Next, Application

LEMMA CallsInvariance == Spec => [](TxInv /\ CallsInv)
  <1>1. Init => TxInv /\ CallsInv
    BY InitTxInv, InitCallsInv
  <1>2. TxInv /\ CallsInv /\ [Next]_vars => TxInv' /\ CallsInv'
    BY NextTxInv, NextCallsInv
  <1> QED BY <1>1, <1>2, PTL DEF Spec

-----------------------------------------------------------------------------
(* The variables keep their shapes through every call, delivery, refusal,  *)
(* timeout and disconnect(), and the microtask that flushes is scheduled   *)
(* as long as a message of send() is staged.                               *)
THEOREM TypeCorrect == Spec => []TypeOK
  <1>1. TxInv /\ CallsInv => TypeOK
    <2> SUFFICES ASSUME TxInv, CallsInv PROVE TypeOK
      OBVIOUS
    <2>1. Shapes /\ RecordsInv /\ ongoing \in BOOLEAN /\ kafka.no \in Nat
      BY DEF CallsInv, TxInv, Agreement, Shapes, KafkaType
    <2>2. \A i \in DOMAIN records : records[i].status \in Statuses /\ records[i].txn \in 0 .. kafka.no
      <3> SUFFICES ASSUME NEW i \in 1 .. Len(records)
                   PROVE  records[i].status \in Statuses /\ records[i].txn \in 0 .. kafka.no
        BY <2>1, RecordsAre
      <3>1. records[i] \in RecordType /\ InOwn(records[i], kafka.no)
        BY <2>1, RecordsAre DEF RecordsInv
      <3> QED BY <2>1, <3>1 DEF RecordType, InOwn
    <2>3. \A o \in DOMAIN ops : ops[o].status \in {"waiting", "ok", "failed"}
      BY <2>1, RecordsAre DEF OpType
    <2>4. With("staged") # {} => scheduled
      <3>1. With("staged") # {} => Staged(records)
        BY <2>1, RecordsAre DEF With, Staged
      <3> QED BY <2>1, <3>1 DEF RecordsInv
    <2> QED BY <2>1, <2>2, <2>3, <2>4 DEF TypeOK, Shapes
  <1> QED BY <1>1, CallsInvariance, PTL

(* While every call that ends a transaction, or adds offsets to it, is     *)
(* made alone, each takes effect in the transaction it was made in, however *)
(* often its steps are retried from a timer.                               *)
THEOREM OwnTransactionAlways == Spec => []OwnTransaction
  <1>1. TxInv /\ CallsInv => OwnTransaction
    <2> SUFFICES ASSUME TxInv, CallsInv,
                        \A o \in DOMAIN ops : ops[o].kind \in Ending => ops[o].alone
                 PROVE  \A e \in ToSet(ends) : ops[e.op].txn = e.txn
      BY DEF OwnTransaction
    <2>1. Shapes /\ ends \in Seq([op : 1 .. Len(ops), txn : Nat])
      BY DEF CallsInv, Shapes
    <2>2. Solo(ops)
      BY <2>1, RecordsAre DEF Solo
    <2>3. DOMAIN ends = 1 .. Len(ends)
      BY <2>1, LenProperties
    <2> QED BY <2>2, <2>3 DEF CallsInv, AloneInv, OwnEnds, ToSet
  <1> QED BY <1>1, CallsInvariance, PTL

(* What was sent in a transaction before commit() was called is delivered  *)
(* in that transaction once commit() resolves, or its send() rejects and   *)
(* no part of it is in any transaction.                                    *)
THEOREM CommittedWholeAlways == Spec => []CommittedWhole
  <1>1. TxInv /\ CallsInv => CommittedWhole
    <2> SUFFICES ASSUME TxInv, CallsInv PROVE CommittedWhole
      OBVIOUS
    <2>1. ends \in Seq([op : 1 .. Len(ops), txn : Nat]) /\ AllWhole(ends, ops, records)
      BY DEF CallsInv, Shapes, RecordsInv
    <2>2. DOMAIN ends = 1 .. Len(ends)
      BY <2>1, LenProperties
    <2>3. \A e \in ToSet(ends) : Whole(e, ops, records)
      BY <2>1, <2>2 DEF AllWhole, ToSet
    <2> QED BY <2>3 DEF CommittedWhole, Whole
  <1> QED BY <1>1, CallsInvariance, PTL
=============================================================================

---------------------------- MODULE Transactions ----------------------------
(* The KafkaJS producer and the transaction calls of the callback producer   *)
(* under it: connect() with initTransactions(), send(), transaction(),       *)
(* commit(), abort(), sendOffsets() and disconnect().  Every call librdkafka *)
(* may block in is cut into steps: an attempt runs in a microtask, and again *)
(* from a timer while it times out or fails for now.  The application may    *)
(* make a call between any two tasks, and needs not await one.               *)
EXTENDS Naturals, Sequences, FiniteSets, SequencesExt, FiniteSetsExt

CONSTANTS
    Batches,     \* what send() is given: the topic-partitions of its messages
    MaxSends,    \* bound: send() calls
    MaxOps,      \* bound: transaction calls, the one of connect() included
    MaxTrouble   \* bound: what the network, the broker and the configuration do wrong

ASSUME BatchesAssumption == \A batch \in Batches : batch # <<>> /\ batch \in Seq(ToSet(batch))
ASSUME BoundsAssumption == {MaxSends, MaxOps, MaxTrouble} \subseteq Nat

VARIABLES
    state,            \* #state
    handle,           \* the native handle: none, open, closed
    isTransactional,
    ongoing,          \* #ongoingTransaction
    connection,       \* the promise of connect(): none, pending, resolved, rejected
    freed,            \* disconnect() resolved
    records,          \* every message of send()
    scheduled,        \* stagingScheduled
    pendingError,     \* pendingProduceError is set
    micro, timers,    \* microtasks; attempts that wait for their setTimeout(0)
    ops,              \* every transaction call
    kafka,            \* librdkafka's transaction: [state, no]
    ends,             \* history: what ended each transaction, and what added offsets
    consumerOpen,     \* the consumer given to sendOffsets() is connected
    trouble

client == <<state, handle, isTransactional, connection, freed>>
messages == <<records, scheduled, pendingError>>
tasks == <<micro, timers>>
vars == <<client, ongoing, messages, tasks, ops, kafka, ends, consumerOpen, trouble>>

States == {"INIT", "CONNECTING", "INITIALIZING_TRANSACTIONS", "CONNECTED", "DISCONNECTING",
           "DISCONNECTED"}
Statuses == {"staged",               \* in staging
             "sent", "acked", "nacked",   \* in librdkafka, its report unserved
             "delivered", "failed",  \* reported
             "thrown"}               \* produce() threw
Unreported == {"sent", "acked", "nacked"}
Trouble == trouble < MaxTrouble /\ trouble' = trouble + 1

With(status) == {i \in DOMAIN records : records[i].status = status}
Moved(from, to) == [i \in DOMAIN records |->
                      IF records[i].status \in from THEN [records[i] EXCEPT !.status = to] ELSE records[i]]

-----------------------------------------------------------------------------
(* send().                                                                   *)

Sends == {records[i].send : i \in DOMAIN records}
Of(send) == {i \in DOMAIN records : records[i].send = send}
SendStatus(send) ==
    IF \E i \in Of(send) : records[i].status \in {"failed", "thrown"} THEN "rejected"
    ELSE IF \A i \in Of(send) : records[i].status = "delivered" THEN "resolved"
    ELSE "waiting"

\* The metadata a resolved send() returns: one for each topic-partition, in a
\* Map that the messages fill in their order.
MergeLast(map, i) == [map EXCEPT ![records[i].place] = records[i].offset]
Merge(map, i) ==
    [map EXCEPT ![records[i].place] =
        IF @ = 0 \/ records[i].offset < @ THEN records[i].offset ELSE @]
Places == UNION {ToSet(batch) : batch \in Batches}
SendResult(send) == FoldLeft(Merge, [place \in Places |-> 0],
                             SetToSortSeq(Of(send), <))

\* produce() throws the error of an earlier record, and then forgets it.
Record(batch, i) == [send |-> Cardinality(Sends) + 1, place |-> batch[i],
                     status |-> IF pendingError /\ i = 1 THEN "thrown" ELSE "staged",
                     meant |-> IF ongoing THEN kafka.no ELSE 0, txn |-> 0, offset |-> 0]
Stages(batch) == Len(batch) > 1 \/ ~ pendingError

Send(batch) ==
    /\ state = "CONNECTED" /\ Cardinality(Sends) < MaxSends
    /\ records' = records \o [i \in DOMAIN batch |-> Record(batch, i)]
    /\ pendingError' = FALSE
    /\ scheduled' = (scheduled \/ Stages(batch))
    /\ micro' = IF scheduled \/ ~ Stages(batch) THEN micro ELSE Append(micro, [task |-> "flush", op |-> 0])
    /\ UNCHANGED <<client, ongoing, timers, ops, kafka, ends, consumerOpen, trouble>>

\* flushStaging(): librdkafka refuses what is not in a transaction, and may
\* take or refuse what comes while it commits.
MustRefuse == isTransactional /\ kafka.state \notin {"open", "committing"}
HandedButLast(refused) ==
    [i \in DOMAIN records |->
        IF records[i].status # "staged" \/ i = Max(With("staged")) THEN records[i]
        ELSE IF i \in refused THEN [records[i] EXCEPT !.status = "failed"]
        ELSE [records[i] EXCEPT !.status = "sent", !.txn = kafka.no]]
Handed(refused) ==
    [i \in DOMAIN records |->
        IF records[i].status # "staged" THEN records[i]
        ELSE IF i \in refused THEN [records[i] EXCEPT !.status = "failed"]
        ELSE [records[i] EXCEPT !.status = "sent", !.txn = kafka.no]]

FlushStaging ==
    /\ scheduled' = FALSE
    /\ IF handle # "open"
       THEN /\ records' = Moved({"staged"}, "failed")
            /\ UNCHANGED <<pendingError, trouble>>
       ELSE \E refused \in SUBSET With("staged") :
              /\ MustRefuse => refused = With("staged")
              /\ IF refused = {} \/ kafka.state # "open" THEN UNCHANGED trouble ELSE Trouble
              /\ records' = Handed(refused)
              /\ pendingError' = (pendingError \/ refused # {})

-----------------------------------------------------------------------------
(* Transaction calls.                                                        *)

Unsettled == {o \in DOMAIN ops : ops[o].status = "waiting"}
Ending == {"commit", "abort", "offsets"}
Op(kind) == [kind |-> kind, txn |-> kafka.no, status |-> "waiting", late |-> FALSE,
             alone |-> Unsettled = {}, made |-> Len(records)]
Called(kind, task) ==
    /\ Len(ops) < MaxOps
    /\ ops' = Append(ops, Op(kind))
    /\ micro' = Append(micro, [task |-> task, op |-> Len(ops')])

Transaction ==
    /\ state = "CONNECTED" /\ ~ ongoing
    /\ Called("begin", "attempt")
    /\ UNCHANGED <<client, ongoing, messages, timers, kafka, ends, consumerOpen, trouble>>

\* commit() and abort().
End(kind) ==
    /\ state = "CONNECTED" /\ ongoing
    /\ FlushStaging
    /\ Called(kind, "attempt")
    /\ UNCHANGED <<client, ongoing, timers, kafka, ends, consumerOpen>>

SendOffsets ==
    /\ state = "CONNECTED" /\ ongoing
    /\ IF consumerOpen
       THEN FlushStaging /\ Called("offsets", "attempt")
       ELSE Called("offsets", "refused") /\ UNCHANGED <<messages, trouble>>
    /\ UNCHANGED <<client, ongoing, timers, kafka, ends, consumerOpen>>

\* The callbacks of the calls: the promise settles, and so does the flag.
FlagDropped(op, status) ==
    CASE ops[op].kind = "begin" /\ status = "ok" -> TRUE
      [] ops[op].kind \in {"commit", "abort"} -> FALSE
      [] OTHER -> ongoing
Flag(op, status) ==
    CASE ops[op].kind = "begin" /\ status = "ok" -> TRUE
      [] ops[op].kind \in {"commit", "abort"} /\ status = "ok" -> FALSE
      [] OTHER -> ongoing
Settle(op, status) ==
    /\ ops' = [ops EXCEPT ![op].status = status]
    /\ ongoing' = Flag(op, status)
    /\ IF ops[op].kind # "init" THEN UNCHANGED <<state, connection>>
       ELSE IF status = "ok" THEN state' = "CONNECTED" /\ connection' = "resolved"
       ELSE state' = "DISCONNECTED" /\ connection' = "rejected"

\* A step that timed out or failed for now: again from a timer, or reported
\* when the deadline passed.
RetryHere(op, left) == /\ micro' = Append(left.micro, [task |-> "attempt", op |-> op])
                       /\ timers' = left.timers
Retry(op, left) == micro' = left.micro /\ timers' = Append(left.timers, op)
ExpiredAgain(op, left) == /\ Settle(op, "failed")
                          /\ micro' = left.micro /\ timers' = Append(left.timers, op)
Expired(op, left) == Settle(op, "failed") /\ micro' = left.micro /\ timers' = left.timers
NotNow(op, left) ==
    IF ops[op].late
    THEN Expired(op, left)
    ELSE Retry(op, left) /\ UNCHANGED <<ops, ongoing, state, connection>>

Done(op, left, status) == Settle(op, status) /\ micro' = left.micro /\ timers' = left.timers

-----------------------------------------------------------------------------
(* librdkafka's answers to an attempt.                                       *)

\* It ends a transaction when every report was served.
InFlight == \E i \in DOMAIN records : records[i].status \in Unreported

MayStart(kind) ==
    CASE kind = "init" -> kafka.state = "none"
      [] kind = "begin" -> isTransactional /\ kafka.state = "ready"
      [] kind = "commit" -> kafka.state \in {"open", "committing"}
      [] kind = "abort" -> kafka.state \in {"open", "abortable", "aborting"}
      [] kind = "offsets" -> kafka.state = "open" /\ consumerOpen

Busy(kind) == CASE kind = "commit" -> "committing" [] kind = "abort" -> "aborting"
                [] OTHER -> kafka.state

Accepts(op, left) ==
    /\ MayStart(ops[op].kind)
    /\ ops[op].kind \in {"commit", "abort"} => ~ InFlight
    /\ Done(op, left, "ok")
    /\ kafka' = CASE ops[op].kind = "begin" -> [state |-> "open", no |-> kafka.no + 1]
                  [] ops[op].kind = "offsets" -> kafka
                  [] OTHER -> [kafka EXCEPT !.state = "ready"]
    /\ ends' = IF ops[op].kind \in Ending
               THEN Append(ends, [op |-> op, txn |-> kafka.no]) ELSE ends
    /\ UNCHANGED <<records, trouble>>

\* A message in flight, or a slow broker.
Postpones(op, left) ==
    /\ MayStart(ops[op].kind) /\ ops[op].kind # "begin"
    /\ IF ops[op].kind \in {"commit", "abort"} /\ InFlight THEN UNCHANGED trouble ELSE Trouble
    /\ NotNow(op, left)
    /\ kafka' = [kafka EXCEPT !.state = Busy(ops[op].kind)]
    /\ records' = IF ops[op].kind = "abort" THEN Moved({"sent"}, "nacked") ELSE records
    /\ UNCHANGED ends

\* After a fatal error nothing starts any more.
Refuses(op, left) ==
    /\ IF MayStart(ops[op].kind) THEN Trouble ELSE UNCHANGED trouble
    /\ Done(op, left, "failed")
    /\ \/ kafka' = IF MayStart(ops[op].kind) /\ ops[op].kind = "commit"
                   THEN [kafka EXCEPT !.state = "abortable"] ELSE kafka
       \/ MayStart(ops[op].kind) /\ kafka' = [kafka EXCEPT !.state = "fatal"]
    /\ UNCHANGED <<records, ends>>

Attempt(op, left) ==
    /\ IF handle # "open"
       THEN Done(op, left, "failed") /\ UNCHANGED <<records, kafka, ends, trouble>>
       ELSE Accepts(op, left) \/ Postpones(op, left) \/ Refuses(op, left)
    /\ UNCHANGED <<handle, isTransactional, freed, scheduled, pendingError, consumerOpen>>

-----------------------------------------------------------------------------
(* connect() and disconnect().                                               *)

Connect ==
    /\ state = "INIT"
    /\ \/ \* The configuration is refused: by its mapping, or by the constructor
          \* of the callback producer, which leaves the state where it is.
          /\ Trouble
          /\ state' \in {"DISCONNECTED", "CONNECTING"} /\ connection' = "rejected"
          /\ UNCHANGED <<handle, micro>>
       \/ /\ state' = "CONNECTING" /\ connection' = "pending"
          /\ handle' = "open"
          /\ micro' = Append(micro, [task |-> "metadata", op |-> 0])
          /\ UNCHANGED trouble
    /\ UNCHANGED <<isTransactional, freed, ongoing, messages, timers, ops, kafka, ends, consumerOpen>>

\* The first metadata; a handle that disconnect() closed is skipped silently.
Metadata ==
    \/ /\ handle # "open"
       /\ micro' = Tail(micro)
       /\ UNCHANGED <<state, handle, connection, ops, trouble>>
    \/ /\ handle = "open" /\ Trouble
       /\ micro' = Tail(micro)
       /\ handle' = "closed" /\ state' = "DISCONNECTED" /\ connection' = "rejected"
       /\ UNCHANGED ops
    \/ /\ handle = "open"
       /\ IF isTransactional
          THEN /\ state' = "INITIALIZING_TRANSACTIONS"
               /\ ops' = Append(ops, Op("init"))
               /\ micro' = Append(Tail(micro), [task |-> "attempt", op |-> Len(ops')])
               /\ UNCHANGED connection
          ELSE /\ state' = "CONNECTED" /\ connection' = "resolved"
               /\ micro' = Tail(micro)
               /\ UNCHANGED ops
       /\ UNCHANGED <<handle, trouble>>

\* The reports that wait are served; the handle goes; what is left in the
\* ledger fails.  Without a client it waits for ever.
Disconnect ==
    /\ state \in {"CONNECTING", "INITIALIZING_TRANSACTIONS", "CONNECTED"}
    /\ state' = "DISCONNECTING"
    /\ handle' = IF handle = "open" THEN "closed" ELSE handle
    /\ records' = [i \in DOMAIN records |->
                     [records[i] EXCEPT !.status =
                        CASE @ = "acked" -> "delivered"
                          [] @ \in {"staged", "sent", "nacked"} -> "failed"
                          [] OTHER -> @]]
    /\ scheduled' = FALSE
    /\ micro' = IF handle = "none" THEN micro
                ELSE Append(micro, [task |-> "disconnected", op |-> 0])
    /\ UNCHANGED <<isTransactional, connection, freed, ongoing, pendingError, timers, ops, kafka,
                   ends, consumerOpen, trouble>>

DisconnectAgain ==
    /\ state \in {"DISCONNECTING", "DISCONNECTED"}
    /\ freed' = TRUE
    /\ UNCHANGED <<state, handle, isTransactional, connection, ongoing, messages, tasks, ops, kafka,
                   ends, consumerOpen, trouble>>

-----------------------------------------------------------------------------
(* The event loop.                                                           *)

RunMicrotask ==
    /\ micro # <<>>
    /\ LET left == [micro |-> Tail(micro), timers |-> timers]
           op == Head(micro).op
       IN  CASE Head(micro).task = "flush" ->
                  /\ FlushStaging
                  /\ micro' = left.micro
                  /\ UNCHANGED <<client, ongoing, timers, ops, kafka, ends, consumerOpen>>
             [] Head(micro).task = "attempt" -> Attempt(op, left)
             [] Head(micro).task = "refused" ->
                  /\ Done(op, left, "failed")
                  /\ UNCHANGED <<handle, isTransactional, freed, messages, kafka, ends, consumerOpen,
                                 trouble>>
             [] Head(micro).task = "metadata" ->
                  /\ Metadata
                  /\ UNCHANGED <<isTransactional, freed, ongoing, messages, timers, kafka, ends,
                                 consumerOpen>>
             [] Head(micro).task = "disconnected" ->
                  /\ state' = "DISCONNECTED" /\ freed' = TRUE
                  /\ micro' = left.micro
                  /\ UNCHANGED <<handle, isTransactional, connection, ongoing, messages, timers, ops,
                                 kafka, ends, consumerOpen, trouble>>

RunTimer ==
    /\ micro = <<>> /\ timers # <<>>
    /\ Attempt(Head(timers), [micro |-> micro, timers |-> Tail(timers)])

\* A poll round serves the reports.
Round ==
    /\ micro = <<>> /\ handle = "open"
    /\ With("acked") \cup With("nacked") # {}
    /\ records' = [i \in DOMAIN records |->
                     [records[i] EXCEPT !.status = CASE @ = "acked" -> "delivered"
                                                     [] @ = "nacked" -> "failed"
                                                     [] OTHER -> @]]
    /\ UNCHANGED <<client, ongoing, scheduled, pendingError, tasks, ops, kafka, ends, consumerOpen,
                   trouble>>

-----------------------------------------------------------------------------
(* The broker, the clock and the consumer.                                   *)

NextOffset(place) ==
    Cardinality({i \in DOMAIN records : records[i].place = place /\ records[i].offset > 0}) + 1

Deliver(i) ==
    /\ records[i].status = "sent"
    /\ \/ /\ records' = [records EXCEPT ![i].status = "acked",
                                        ![i].offset = NextOffset(records[i].place)]
          /\ UNCHANGED <<kafka, trouble>>
       \/ /\ Trouble
          /\ records' = [records EXCEPT ![i].status = "nacked"]
          /\ kafka' = IF kafka.state \in {"open", "committing"}
                      THEN [kafka EXCEPT !.state = "abortable"] ELSE kafka
    /\ UNCHANGED <<client, ongoing, scheduled, pendingError, tasks, ops, ends, consumerOpen>>

\* The deadline of a call passes.
DeadlinePasses(op) ==
    /\ op \in Unsettled /\ ~ ops[op].late /\ ops[op].kind # "begin"
    /\ Trouble
    /\ ops' = [ops EXCEPT ![op].late = TRUE]
    /\ UNCHANGED <<client, ongoing, messages, tasks, kafka, ends, consumerOpen>>

ConsumerCloses ==
    /\ consumerOpen /\ Trouble
    /\ consumerOpen' = FALSE
    /\ UNCHANGED <<client, ongoing, messages, tasks, ops, kafka, ends>>

-----------------------------------------------------------------------------
Init ==
    /\ state = "INIT" /\ handle = "none" /\ isTransactional \in BOOLEAN
    /\ ongoing = FALSE /\ connection = "none" /\ freed = FALSE
    /\ records = <<>> /\ scheduled = FALSE /\ pendingError = FALSE
    /\ micro = <<>> /\ timers = <<>>
    /\ ops = <<>> /\ kafka = [state |-> "none", no |-> 0] /\ ends = <<>>
    /\ consumerOpen = TRUE /\ trouble = 0

Application ==
    \/ Connect \/ Disconnect \/ DisconnectAgain
    \/ \E batch \in Batches : Send(batch)
    \/ Transaction \/ SendOffsets
    \/ \E kind \in {"commit", "abort"} : End(kind)
Broker == \E i \in DOMAIN records : Deliver(i)
Next ==
    \/ Application \/ RunMicrotask \/ RunTimer \/ Round \/ Broker
    \/ \E op \in DOMAIN ops : DeadlinePasses(op)
    \/ ConsumerCloses

\* Tasks run, poll rounds happen and a message is delivered or given up; a
\* deadline need not save a call.
Fairness == WF_vars(RunMicrotask) /\ WF_vars(RunTimer) /\ WF_vars(Round) /\ WF_vars(Broker)

Spec == Init /\ [][Next]_vars
FairSpec == Spec /\ Fairness

-----------------------------------------------------------------------------
\* The variables hold values of these shapes.
TypeOK ==
    /\ state \in States /\ handle \in {"none", "open", "closed"}
    /\ {isTransactional, ongoing, freed, scheduled, pendingError, consumerOpen} \subseteq BOOLEAN
    /\ \A i \in DOMAIN records : records[i].status \in Statuses /\ records[i].txn \in 0 .. kafka.no
    /\ \A o \in DOMAIN ops : ops[o].status \in {"waiting", "ok", "failed"}
    /\ With("staged") # {} => scheduled

\* isActive() says whether librdkafka has a transaction: a call that was
\* refused, timed out or overlapped another leaves the two agreeing, so that
\* the application can always go on with transaction() or end the one it has,
\* until an error is fatal.
\* (transaction(), commit(), abort(), runRetriableTxnOp().)
FlagAgrees ==
    handle = "open" /\ kafka.state # "fatal" =>
        (ongoing <=> kafka.state \in {"open", "committing", "aborting", "abortable"})

\* While calls are awaited one by one, a call ends, or adds offsets to, the
\* transaction it was made in and no later one, however long it is retried.
\* (runRetriableTxnOp().)
OwnTransaction ==
    (\A o \in DOMAIN ops : ops[o].kind \in Ending => ops[o].alone) =>
        \A e \in ToSet(ends) : ops[e.op].txn = e.txn

\* Whatever the application sent in a transaction before it called commit() is
\* delivered in that transaction when commit() resolves, unless its send()
\* rejects.  (commitTransaction(), flushStaging().)
CommittedWhole ==
    \A e \in ToSet(ends) : ops[e.op].kind = "commit" =>
        \A i \in 1 .. ops[e.op].made : records[i].meant = e.txn =>
            \/ records[i].status = "delivered" /\ records[i].txn = e.txn
            \/ records[i].status \in {"failed", "thrown"} /\ records[i].txn = 0

\* What a resolved send() returns is the least offset of its messages in each
\* topic-partition, whatever the order they were delivered in.  (send().)
SendResultsTrue ==
    \A send \in {s \in Sends : SendStatus(s) = "resolved"} : \A place \in Places :
        LET offsets == {records[i].offset : i \in {j \in Of(send) : records[j].place = place}}
        IN  SendResult(send)[place] = IF offsets = {} THEN 0 ELSE Min(offsets)

\* Every transaction call and every send() settles, without a deadline's help:
\* the reports a commit waits for are served between its steps.  The calls are
\* bounded, so at last none waits.  (runRetriableTxnOp(), send().)
Settles == <>[] (Unsettled = {} /\ \A send \in Sends : SendStatus(send) # "waiting")

\* "client handle: freed by brk_client_destroy on disconnect()"
\* (docs/02-detail-design.md, Memory and lifecycle management).
DisconnectFrees == freed => handle # "open"
=============================================================================

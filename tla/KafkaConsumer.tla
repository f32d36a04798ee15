--------------------------- MODULE KafkaConsumer ---------------------------
(* The callback KafkaConsumer: its poll round, the buffer of messages, the   *)
(* consume(n) requests, flowing mode and the assignment.  A round is         *)
(* synchronous, and wherever it emits an event the user's listener runs, may *)
(* call the consumer back, and may throw, which ends the round.              *)
EXTENDS Fifo, SequencesExt, Naturals, FiniteSets

CONSTANTS
    MaxBuffered,   \* MAX_BUFFERED_MESSAGES
    BatchMax,      \* CONSUME_BATCH_MAX
    Sizes,         \* the n of consume(n, cb)
    Kinds,         \* the records the broker has: "msg", "eof", "err"
    MaxRecords,    \* bound: records
    MaxRequests,   \* bound: consume(n), committed(), seek() calls
    MaxSessions,   \* bound: connect() calls
    MaxFrames      \* bound: rebalances, commit reports, failures of consumeBatch() and
                   \* callbacks that throw inside a try

ASSUME SizesAssumption == Sizes \subseteq Nat
ASSUME KindsAssumption == Kinds \subseteq {"msg", "eof", "err"}
ASSUME BlankAssumption == Blank \notin [kind : {"msg", "eof", "err"}, no : Nat]
ASSUME BoundsAssumption == {MaxBuffered, BatchMax, MaxRecords, MaxRequests, MaxSessions,
                            MaxFrames} \subseteq Nat

VARIABLES
    session,     \* the handle: [gen, open]
    queue,       \* records librdkafka holds for the consumer
    events,      \* event frames librdkafka holds
    assigned,    \* librdkafka has an assignment
    subscribed,  \* #subscribedTopics is set
    hasAssignment,
    misread,     \* the refresh of hasAssignment threw
    takesOver,   \* the user assigns: rebalance_cb is a function, or no subscription
    buffer, pending, flowing,
    round,       \* what pump() is doing: idle, events, routing, draining
    frames,      \* event frames of this round
    batch,       \* records of this round
    listening,   \* a listener of the user runs
    micro,       \* microtasks: replies to requests
    replies,     \* history: the first call of each request's callback, in order
    again,       \* history: the replies whose callback was called a second time
    catching,    \* the last callback threw inside the try of its caller
    delivered,   \* history: messages the user received
    dropped,     \* history: a throw or a disconnect dropped messages
    log,         \* history: the kind of every record of the broker
    raised       \* counts against MaxFrames

pump == <<round, frames, batch>>
subscription == <<subscribed, hasAssignment, misread, takesOver>>
buffers == <<buffer, pending, flowing>>
kafka == <<queue, events, assigned>>
callbacks == <<replies, again, catching, delivered, dropped>>
counters == <<log, raised>>
vars == <<session, kafka, subscription, buffers, pump, listening, micro, callbacks, counters>>

\* The user's code runs between rounds, or in a listener.
UserRuns == round = "idle" \/ listening

-----------------------------------------------------------------------------
(* The user.                                                                 *)

Requests == Len(replies) + Len(pending) + Len(micro)

\* consume(n, cb).
Consume(n) ==
    /\ UserRuns /\ session.open /\ Requests < MaxRequests
    /\ pending' = Append(pending, [id |-> Requests + 1, n |-> n, due |-> FALSE])
    /\ UNCHANGED <<session, kafka, subscription, buffer, flowing, pump, listening, micro, callbacks,
                   counters>>

\* consume() and consume(cb).
Flow ==
    /\ UserRuns /\ session.open /\ ~ flowing
    /\ flowing' = TRUE
    /\ UNCHANGED <<session, kafka, subscription, buffer, pending, pump, listening, micro, callbacks,
                   counters>>

Subscribe ==
    /\ UserRuns /\ session.open /\ ~ subscribed
    /\ subscribed' = TRUE
    /\ UNCHANGED <<session, kafka, hasAssignment, misread, takesOver, buffers, pump, listening, micro,
                   callbacks, counters>>

Unsubscribe ==
    /\ UserRuns /\ session.open /\ subscribed
    /\ subscribed' = FALSE
    /\ UNCHANGED <<session, kafka, hasAssignment, misread, takesOver, buffers, pump, listening, micro,
                   callbacks, counters>>

\* (incremental)Assign and (incremental)Unassign throw on a closed handle and
\* when librdkafka refuses.  Then #refreshHasAssignment(): an assignment() that
\* throws counts as no assignment.
RefreshedBefore(now, reads) == assigned /\ reads
RefreshedAssignment(now, reads) == now /\ reads
SetAssignment(now) ==
    \/ UNCHANGED <<assigned, hasAssignment, misread>>
    \/ /\ session.open
       /\ assigned' = now
       /\ \E reads \in BOOLEAN : /\ hasAssignment' = RefreshedAssignment(now, reads)
                                /\ misread' = (now /\ ~ reads)

Assign(now) ==
    /\ UserRuns /\ session.open /\ takesOver
    /\ SetAssignment(now)
    /\ UNCHANGED <<session, queue, events, subscribed, takesOver, buffers, pump, listening, micro,
                   callbacks, counters>>

\* commit() and commitMessage(): the broker reports later.
Commit ==
    /\ UserRuns /\ session.open /\ delivered # <<>> /\ raised < MaxFrames
    /\ events' = Append(events, "commit")
    /\ raised' = raised + 1
    /\ UNCHANGED <<session, queue, assigned, subscription, buffers, pump, listening, micro, callbacks,
                   log>>

\* committed(), offsetsForTimes() and seek() call back from a microtask.
Ask ==
    /\ UserRuns /\ Requests < MaxRequests
    /\ micro' = Append(micro, [id |-> Requests + 1, messages |-> <<>>, by |-> "broker"])
    /\ UNCHANGED <<session, kafka, subscription, buffers, pump, listening, callbacks, counters>>

Connect ==
    /\ UserRuns /\ ~ session.open /\ session.gen < MaxSessions
    /\ session' = [gen |-> session.gen + 1, open |-> TRUE]
    /\ UNCHANGED <<kafka, subscription, buffers, pump, listening, micro, callbacks, counters>>

-----------------------------------------------------------------------------
(* Serving requests.                                                         *)

Reply(request, f) == [id |-> request.id, messages |-> TakenOf(f, request.n),
                     by |-> "consume"]

\* The loop of #servePending() over the requests: it stops at the first that
\* finds no message and still has time.
WaitsForever(request, f) == Length(f) = 0
Waits(request, f) == Length(f) = 0 /\ ~ request.due
ServeOneAgain(acc, request) ==
    IF acc.waits \/ Waits(request, acc.buffer)
    THEN [acc EXCEPT !.waits = TRUE, !.left = Append(@, request)]
    ELSE [acc EXCEPT !.jobs = Append(@, Reply(request, acc.buffer)), !.left = Append(@, request),
                     !.buffer = Take(@, request.n)]
ServeOne(acc, request) ==
    IF acc.waits \/ Waits(request, acc.buffer)
    THEN [acc EXCEPT !.waits = TRUE, !.left = Append(@, request)]
    ELSE [acc EXCEPT !.jobs = Append(@, Reply(request, acc.buffer)),
                     !.buffer = Take(@, request.n)]
ServePending ==
    LET served[i \in 0 .. Len(pending)] ==
          IF i = 0 THEN [buffer |-> buffer, left |-> <<>>, jobs |-> <<>>, waits |-> FALSE]
          ELSE ServeOne(served[i - 1], pending[i])
        end == served[Len(pending)]
    IN  /\ buffer' = end.buffer
        /\ pending' = end.left
        /\ micro' = micro \o end.jobs

\* disconnect() answers every request with what is buffered, then clears.
HandOne(acc, request) == [buffer |-> Take(acc.buffer, request.n),
                          jobs |-> Append(acc.jobs, Reply(request, acc.buffer))]
HandOver(requests) ==
    LET handed[i \in 0 .. Len(requests)] ==
          IF i = 0 THEN [buffer |-> buffer, jobs |-> <<>>]
          ELSE HandOne(handed[i - 1], requests[i])
    IN  handed[Len(requests)].jobs

Disconnect ==
    /\ UserRuns /\ session.open
    /\ flowing' = FALSE
    /\ pending' = <<>>
    /\ micro' = micro \o HandOver(pending)
    /\ buffer' = EmptyFifo
    /\ subscribed' = FALSE /\ hasAssignment' = FALSE /\ misread' = FALSE
    /\ session' = [session EXCEPT !.open = FALSE]
    /\ queue' = <<>> /\ events' = <<>> /\ assigned' = FALSE
    /\ dropped' = TRUE
    /\ UNCHANGED <<takesOver, pump, listening, replies, again, catching, delivered, counters>>

-----------------------------------------------------------------------------
(* The poll round.                                                           *)

Active == subscribed \/ hasAssignment

\* pump(): the frames of the round; microtasks ran before it.
Pump ==
    /\ round = "idle" /\ session.open /\ micro = <<>> /\ ~ catching
    /\ round' = "events"
    /\ frames' = events /\ events' = <<>>
    /\ UNCHANGED <<session, queue, assigned, subscription, buffers, batch, listening, micro,
                   callbacks, counters>>

\* #handleRebalance() and #handleOffsetCommit(): without a rebalance_cb the
\* consumer assigns (a cooperative revoke may leave some); either way a
\* listener is called.
OnEventFrame ==
    /\ round = "events" /\ ~ listening /\ frames # <<>>
    /\ frames' = Tail(frames)
    /\ listening' = TRUE
    /\ IF Head(frames) = "commit" \/ takesOver
       THEN UNCHANGED <<assigned, hasAssignment, misread>>
       ELSE \E now \in BOOLEAN : (Head(frames) = "assign" => now) /\ SetAssignment(now)
    /\ UNCHANGED <<session, queue, events, subscribed, takesOver, buffers, round, batch, micro,
                   callbacks, counters>>

\* pollTick(): beyond the cap a round takes one record.
Room == MaxBuffered - Length(buffer)
Smallest(a, b) == IF a < b THEN a ELSE b
Want == IF Length(buffer) >= MaxBuffered THEN 1 ELSE Smallest(BatchMax, Room)

PollTick ==
    /\ round = "events" /\ ~ listening /\ frames = <<>>
    /\ \/ \* consumeBatch() returns some of what is there.
          \E k \in 0 .. Smallest(Len(queue), IF Active /\ session.open THEN Want ELSE 0) :
             /\ k = 0 => queue = <<>> \/ ~ (Active /\ session.open)
             /\ batch' = SubSeq(queue, 1, k)
             /\ queue' = SubSeq(queue, k + 1, Len(queue))
             /\ round' = "routing"
             /\ UNCHANGED raised
       \/ \* It throws, and so does the round.
          /\ Active /\ session.open /\ raised < MaxFrames
          /\ raised' = raised + 1
          /\ round' = "idle"
          /\ UNCHANGED <<batch, queue>>
    /\ UNCHANGED <<session, events, assigned, subscription, buffers, frames, listening, micro,
                   callbacks, log>>

\* #route(): a message is buffered, anything else is emitted.
Route ==
    /\ round = "routing" /\ ~ listening /\ batch # <<>>
    /\ batch' = Tail(batch)
    /\ IF Head(batch).kind = "msg"
       THEN buffer' = Push(buffer, Head(batch)) /\ UNCHANGED listening
       ELSE listening' = TRUE /\ UNCHANGED buffer
    /\ UNCHANGED <<session, kafka, subscription, pending, flowing, round, frames, micro, callbacks,
                   counters>>

Serve ==
    /\ round = "routing" /\ ~ listening /\ batch = <<>>
    /\ ServePending
    /\ round' = "draining"
    /\ UNCHANGED <<session, kafka, subscription, flowing, frames, batch, listening, callbacks,
                   counters>>

\* #drainFlowing(): one data event.
DrainFlowing ==
    /\ round = "draining" /\ ~ listening
    /\ IF flowing /\ Length(buffer) > 0
       THEN /\ delivered' = Append(delivered, [no |-> First(buffer).no, by |-> "data"])
            /\ buffer' = Shift(buffer)
            /\ listening' = TRUE
            /\ UNCHANGED round
       ELSE /\ round' = "idle"
            /\ UNCHANGED <<delivered, buffer, listening>>
    /\ UNCHANGED <<session, kafka, subscription, pending, flowing, frames, batch, micro, replies,
                   again, catching, dropped, counters>>

\* A listener returns, or throws: onError of the scheduler, and what was left
\* of the round is gone.
ListenerReturns ==
    /\ listening
    /\ listening' = FALSE
    /\ UNCHANGED <<session, kafka, subscription, buffers, pump, micro, callbacks, counters>>

ListenerThrows ==
    /\ listening
    /\ listening' = FALSE
    /\ round' = "idle" /\ frames' = <<>> /\ batch' = <<>>
    /\ dropped' = (dropped \/ batch # <<>>)
    /\ UNCHANGED <<session, kafka, subscription, buffers, micro, replies, again, catching, delivered,
                   counters>>

\* The callback of a request.  committed(), offsetsForTimes() and seek() call it
\* inside their try: one that throws when the broker call succeeded is called
\* again by the catch.
InTry(job) == job.by = "broker"
RunMicrotask ==
    /\ round = "idle" /\ micro # <<>> /\ ~ catching
    /\ micro' = Tail(micro)
    /\ replies' = Append(replies, Head(micro))
    /\ delivered' = delivered \o [i \in DOMAIN Head(micro).messages |->
                                    [no |-> Head(micro).messages[i].no, by |-> "request"]]
    /\ \/ catching' = FALSE /\ UNCHANGED raised
       \/ /\ InTry(Head(micro)) /\ session.open /\ raised < MaxFrames
          /\ catching' = TRUE /\ raised' = raised + 1
    /\ UNCHANGED <<session, kafka, subscription, buffers, pump, listening, again, dropped, log>>

RunCatch ==
    /\ catching
    /\ catching' = FALSE
    /\ again' = Append(again, Len(replies))
    /\ UNCHANGED <<session, kafka, subscription, buffers, pump, listening, micro, replies,
                   delivered, dropped, counters>>

-----------------------------------------------------------------------------
(* librdkafka, the group and the clock.                                      *)

Arrive ==
    /\ session.open /\ assigned /\ Len(log) < MaxRecords
    /\ \E kind \in Kinds :
          /\ log' = Append(log, kind)
          /\ queue' = Append(queue, [kind |-> kind, no |-> Len(log')])
    /\ UNCHANGED <<session, events, assigned, subscription, buffers, pump, listening, micro,
                   callbacks, raised>>

Rebalance ==
    /\ session.open /\ raised < MaxFrames
    /\ ~ (\E i \in DOMAIN events : events[i] # "commit")
    /\ raised' = raised + 1
    /\ \/ subscribed /\ ~ assigned /\ events' = Append(events, "assign")
       \/ assigned /\ events' = Append(events, "revoke")
    /\ UNCHANGED <<session, queue, assigned, subscription, buffers, pump, listening, micro,
                   callbacks, log>>

\* The deadline of the request at the head passes.
Deadline ==
    /\ pending # <<>> /\ ~ Head(pending).due
    /\ pending' = <<[Head(pending) EXCEPT !.due = TRUE]>> \o Tail(pending)
    /\ UNCHANGED <<session, kafka, subscription, buffer, flowing, pump, listening, micro, callbacks,
                   counters>>

-----------------------------------------------------------------------------
Init ==
    /\ session = [gen |-> 0, open |-> FALSE]
    /\ queue = <<>> /\ events = <<>> /\ assigned = FALSE
    /\ subscribed = FALSE /\ hasAssignment = FALSE /\ takesOver \in BOOLEAN
    /\ buffer = EmptyFifo /\ pending = <<>> /\ flowing = FALSE
    /\ round = "idle" /\ frames = <<>> /\ batch = <<>>
    /\ listening = FALSE /\ micro = <<>>
    /\ misread = FALSE /\ again = <<>> /\ catching = FALSE
    /\ replies = <<>> /\ delivered = <<>> /\ dropped = FALSE
    /\ log = <<>> /\ raised = 0

User == \/ \E n \in Sizes : Consume(n)
        \/ Flow \/ Subscribe \/ Unsubscribe \/ Commit \/ Ask \/ Connect \/ Disconnect
        \/ \E now \in BOOLEAN : Assign(now)
Round == Pump \/ OnEventFrame \/ PollTick \/ Route \/ Serve \/ DrainFlowing
Kafka == Arrive \/ Rebalance \/ Deadline
Next == User \/ Round \/ ListenerReturns \/ ListenerThrows \/ RunMicrotask \/ RunCatch \/ Kafka

\* The scheduler keeps polling, listeners end, microtasks run, time passes.
Fairness == /\ WF_vars(Round) /\ WF_vars(ListenerReturns \/ ListenerThrows)
            /\ WF_vars(RunMicrotask) /\ WF_vars(RunCatch) /\ WF_vars(Deadline)

Spec == Init /\ [][Next]_vars
FairSpec == Spec /\ Fairness

-----------------------------------------------------------------------------
\* The variables hold values of these shapes, and the blanks of the buffer's
\* array are the slots before its head.
TypeOK ==
    /\ session \in [gen : 0 .. MaxSessions, open : BOOLEAN]
    /\ round \in {"idle", "events", "routing", "draining"}
    /\ buffer.head \in 0 .. Len(buffer.items)
    /\ \A i \in DOMAIN buffer.items : (buffer.items[i] = Blank) = (i <= buffer.head)
    /\ {subscribed, hasAssignment, misread, takesOver, flowing, listening, assigned, catching}
          \subseteq BOOLEAN
    /\ \A i \in DOMAIN pending : pending[i] \in [id : 1 .. MaxRequests, n : Sizes, due : BOOLEAN]

\* The user receives no message twice, and each mode hands messages out in the
\* order they were consumed, through mode switches, disconnects and throwing
\* listeners.  (#servePending(), #drainFlowing(), disconnect(), Fifo.)
InOrderOnce ==
    \A i, j \in DOMAIN delivered : i < j =>
        /\ delivered[i].no # delivered[j].no
        /\ delivered[i].by = delivered[j].by => delivered[i].no < delivered[j].no

\* Until a listener throws in the middle of a batch or the user disconnects, a
\* message consumed is in the batch, in the buffer, with a callback about to
\* run, or was delivered.  (#route(), Fifo, #servePending(), #drainFlowing().)
Numbers(messages) == {m.no : m \in {r \in ToSet(messages) : r.kind = "msg"}}
NothingLost ==
    ~ dropped =>
        LET held == UNION {Numbers(s) : s \in {queue, batch, Contents(buffer)}
                                              \cup {micro[j].messages : j \in DOMAIN micro}}
            got == {d.no : d \in ToSet(delivered)}
        IN  {no \in DOMAIN log : log[no] = "msg"} \subseteq held \cup got

\* Every message consumed reaches the user once and in order, or is still on
\* its way.  (pollTick(), #route(), #servePending(), #drainFlowing().)
DeliveredOnce == InOrderOnce /\ NothingLost

\* Every request is waiting, about to be called back, or was called back, and
\* none with more messages than a request may ask for.  A callback is called a
\* second time only for a committed(), offsetsForTimes() or seek() it threw at,
\* and never a third time.
\* (consume(), #servePending(), disconnect(), committed(), seek().)
Owed == ToSet(replies) \cup ToSet(micro)
AnsweredOnce ==
    /\ {r.id : r \in Owed} \cup {pending[i].id : i \in DOMAIN pending} = 1 .. Requests
    /\ \A r \in Owed : r.messages # <<>> => \E n \in Sizes : Len(r.messages) <= n
    /\ \A i \in DOMAIN again :
          /\ again[i] \in DOMAIN replies /\ replies[again[i]].by = "broker"
          /\ \A j \in DOMAIN again : i < j => again[i] < again[j]

\* While librdkafka has an assignment the rounds consume, so that its
\* rebalances can surface, unless assignment() threw when the consumer last
\* asked for it; and the copied flag never outlives the assignment.
\* (#refreshHasAssignment(), #active(), disconnect().)
PollsWhatIsAssigned == /\ assigned => Active \/ misread
                       /\ hasAssignment => assigned

\* Every request is called back at last: the requests are bounded, so at last
\* none waits.  (pollTick(), #servePending(), disconnect().)
EveryRequestSettles == <>[] (pending = <<>> /\ micro = <<>> /\ ~ catching)

\* kafka-consumer.ts says: an active consumer "(subscribed or still holding an
\* assignment) ALWAYS `consumeBatch()`es every poll round".
AlwaysConsumes == assigned => Active

\* kafka-consumer.ts says of the buffer: "Internal buffer cap", and "memory
\* stays bounded".
BufferBounded == Length(buffer) <= MaxBuffered
=============================================================================

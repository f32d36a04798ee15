---------------------------- MODULE ShimConsumer ----------------------------
(***************************************************************************)
(* The consume side of the C shim (native/src/shim_consumer.c,             *)
(* shim_common.c, shim_events.c) with its caller, core/native-client.ts.   *)
(*                                                                         *)
(* consume_fill() moves records from librdkafka's consumer_q into a buffer *)
(* of bounded size. It runs on the JS thread, or on the prefetch thread,   *)
(* which fills a ring of frames that brk_consume_batch() then copies from. *)
(* Whatever else consumer_q holds is stashed for brk_events_poll(). The    *)
(* mutex pf->mu is held by JS exactly while `js` is "copying", and by the  *)
(* thread within single steps; h->mu guards single assignments.            *)
(***************************************************************************)
EXTENDS Integers, Sequences, FiniteSets, SequencesExt

CONSTANTS
  Scripts,       \* what librdkafka may put on consumer_q and main_q, in order
  PrefetchModes, \* the values of js.consume.prefetch
  BufferBytes,   \* js.consume.buffer.bytes, also the size of a new frame
  BufInitial, BufMin,   \* CONSUME_BUF_INITIAL, CONSUME_BUF_MIN
  EventBytes,    \* js.event.buffer.bytes
  NFrames,       \* js.consume.prefetch.frames
  MaxMsgs,       \* CONSUME_BATCH_MAX and CONSUME_PREFETCH_MAX_MSGS
  MaxEvents,     \* maxEvents of pollEvents()
  MaxRevokes     \* bound: rebalances while the consumer closes

ASSUME ShimAssumption ==
  /\ PrefetchModes \subseteq BOOLEAN /\ PrefetchModes # {}
  /\ {BufferBytes, BufInitial, BufMin, EventBytes, NFrames, MaxMsgs, MaxEvents}
       \subseteq Nat \ {0}
  /\ MaxRevokes \in Nat

\* Events and records have a size once they are serialized. What is forwarded is
\* of kind "consumer" or "main" by the queue it comes on. The end of a partition
\* becomes one record at most. Throttle callbacks run when main_q is polled; their
\* frame, which holds the name of a broker, fits the event buffer.
IsSequence(s) == s \in Seq(ToSet(s))
ASSUME ScriptsAssumption ==
  \A script \in Scripts :
    /\ IsSequence(script.consumer) /\ IsSequence(script.main)
    /\ \A event \in ToSet(script.consumer) :
         \/ /\ event.kind \in {"fetch", "eof"} /\ IsSequence(event.records)
            /\ \A r \in ToSet(event.records) : r.size \in Nat
            /\ event.kind = "eof" => Len(event.records) <= 1
         \/ event.kind \in {"consumer", "ignored"} /\ event.size \in Nat
    /\ \A event \in ToSet(script.main) :
         \/ event.kind \in {"main", "ignored"} /\ event.size \in Nat
         \/ event.kind = "throttle" /\ event.size \in 0..EventBytes

VARIABLES
  coming, mainComing,  \* what librdkafka has yet to put on its queues
  consumerQ, mainQ,    \* h->consumer_q, h->main_q
  curFetch,      \* records left in h->cur_fetch
  pending,       \* h->pending_msg: at most one record
  names,         \* h->topics: position is topic id + 1
  stash,         \* h->stash_head .. h->stash_tail
  lastRequired,  \* h->last_required
  fill,          \* the call of consume_fill() under way
  frames, head, tail, ready,  \* the ring
  enabled, running,           \* pf->enabled, pf->running
  thread,        \* where the prefetch thread is
  js,            \* where the JS thread is
  turn,          \* the call its poll round makes next
  retried,       \* that call is the retry of withGrowingBuffer()
  consumeBuf, eventBuf,       \* sizes of those buffers of NativeClient
  frameOut,      \* events written by the brk_events_poll() under way
  cgrp, revokes, \* librdkafka's side of closing the consumer
  got, events    \* records and events JS has received

queues == <<coming, mainComing, consumerQ, mainQ>>
filling == <<curFetch, pending, names, fill>>
ring == <<frames, head, tail, ready, enabled, running, thread>>
caller == <<js, turn, retried, consumeBuf, eventBuf, frameOut>>
closing == <<cgrp, revokes>>
received == <<got, events>>
vars == <<queues, filling, stash, lastRequired, ring, caller, closing, received>>

\* Mutants, used to show that the properties can fail.
NextFrameUnwrapped(i) == i + 1
RingFullLate == ready = NFrames + 1
DestroyAtOnce == "closing"
RequiredStale(size) == lastRequired
HitByPointer(message) == fill.cached # <<>> /\ fill.cached[1].rkt = message.rkt
WokenNever == thread

Larger(a, b) == IF a > b THEN a ELSE b
Smaller(a, b) == IF a < b THEN a ELSE b
SizeOf(items) ==
  LET sum[n \in 0..Len(items)] == IF n = 0 THEN 0 ELSE sum[n - 1] + items[n].size
  IN  sum[Len(items)]

NoFill == [by |-> "none", phase |-> "none", out |-> <<>>, cached |-> <<>>]
StartFill(by) == [NoFill EXCEPT !.by = by, !.phase = "enter"]
EmptyRing == [i \in 0..NFrames-1 |-> [out |-> <<>>, cap |-> BufferBytes]]

\* connect() has created the handle; brk_consume_prefetch_start() has run.
Init ==
  /\ \E script \in Scripts : coming = script.consumer /\ mainComing = script.main
  /\ consumerQ = <<>> /\ mainQ = <<>>
  /\ curFetch = <<>> /\ pending = <<>> /\ names = <<>> /\ stash = <<>>
  /\ lastRequired = 0 /\ fill = NoFill
  /\ frames = EmptyRing /\ head = 0 /\ tail = 0 /\ ready = 0
  /\ enabled \in PrefetchModes /\ running = enabled
  /\ thread = IF enabled THEN "top" ELSE "none"
  /\ js = "idle" /\ turn = "events" /\ retried = FALSE
  /\ consumeBuf = IF enabled THEN BufferBytes ELSE Smaller(BufInitial, BufferBytes)
  /\ eventBuf = EventBytes /\ frameOut = <<>>
  /\ cgrp = "open" /\ revokes = MaxRevokes
  /\ got = <<>> /\ events = <<>>

-----------------------------------------------------------------------------
(* librdkafka *)

\* Once the handle is being closed nothing reads these queues again.
Enqueue ==
  /\ js \notin {"closing", "freed"}
  /\ \/ /\ coming # <<>>
        /\ consumerQ' = Append(consumerQ, Head(coming)) /\ coming' = Tail(coming)
        /\ UNCHANGED <<mainComing, mainQ>>
     \/ /\ mainComing # <<>>
        /\ mainQ' = Append(mainQ, Head(mainComing)) /\ mainComing' = Tail(mainComing)
        /\ UNCHANGED <<coming, consumerQ>>
  /\ UNCHANGED <<filling, stash, lastRequired, ring, caller, closing, received>>

-----------------------------------------------------------------------------
(* consume_fill() *)

FillCap == IF fill.by = "prefetch" THEN frames[tail].cap ELSE consumeBuf
Room == FillCap - SizeOf(fill.out)

TopicId(table, topic) == CHOOSE i \in 1..Len(table) : table[i] = topic
\* brk_intern_topic()
Interned(topic) == IF Contains(names, topic) THEN names ELSE Append(names, topic)

\* brk_serialize_event_into(): what becomes of an event is its size, or
\* nothing for the types that are not forwarded.
Forwarded(event) == event.kind \in {"consumer", "main"}

\* brk_stash_push()
Stashed(event) == Append(stash, event)

\* What brk_last_required_size() will report.
Required(size) == size

\* Step 0: the record held over from the previous call.
FillEnter ==
  /\ fill.phase = "enter"
  /\ IF pending # <<>> /\ pending[1].size > FillCap
     THEN /\ fill' = [fill EXCEPT !.phase = "tooSmall"]
          /\ lastRequired' = Required(pending[1].size)
          /\ UNCHANGED pending
     ELSE /\ fill' = [fill EXCEPT !.phase = "loop", !.out = pending]
          /\ pending' = <<>>
          /\ UNCHANGED lastRequired
  /\ UNCHANGED <<queues, curFetch, names, stash, ring, caller, closing, received>>

\* Writes a record if it fits (directly, or through the scratch buffer), else
\* holds it over: emit_or_pend().
Emit(record, cached) ==
  IF record.size <= Room
  THEN /\ fill' = [fill EXCEPT !.out = Append(@, record), !.cached = cached]
       /\ UNCHANGED <<pending, lastRequired>>
  ELSE /\ pending' = <<record>>
       /\ IF fill.out = <<>>
          THEN fill' = [fill EXCEPT !.phase = "tooSmall"] /\ lastRequired' = Required(record.size)
          ELSE fill' = [fill EXCEPT !.phase = "done"] /\ UNCHANGED lastRequired

\* serialize_msg(): the cache holds the topic object and name seen last.
Hit(message) == fill.cached # <<>> /\ fill.cached[1].rkt = message.rkt
                                   /\ fill.cached[1].topic = message.topic

SerializeMessage ==
  LET message == Head(curFetch)
      hit == Hit(message)
      table == IF hit THEN names ELSE Interned(message.topic)
      tid == IF hit THEN fill.cached[1].tid ELSE TopicId(table, message.topic)
  IN /\ fill.phase = "loop" /\ Len(fill.out) < MaxMsgs
     /\ curFetch # <<>> /\ curFetch' = Tail(curFetch)
     /\ names' = table
     /\ Emit([id |-> message.id, tid |-> tid, size |-> message.size],
             <<[rkt |-> message.rkt, topic |-> message.topic, tid |-> tid]>>)
     /\ UNCHANGED <<queues, stash, ring, caller, closing, received>>

\* serialize_eof(): the end of a partition, reported as an error event, becomes
\* a record again (unless the event names no partition).
TakeEof(event) ==
  /\ event.kind = "eof"
  /\ IF event.records = <<>> THEN UNCHANGED <<names, fill, pending, lastRequired>>
     ELSE LET eof == Head(event.records) IN
          /\ names' = Interned(eof.topic)
          /\ Emit([id |-> eof.id, tid |-> TopicId(names', eof.topic), size |-> eof.size],
                  fill.cached)
  /\ UNCHANGED <<curFetch, stash>>

\* Rebalances and offset commits wait for brk_events_poll(); events that are
\* not forwarded are destroyed.
TakeOther(event) ==
  /\ event.kind \in {"consumer", "ignored"}
  /\ stash' = IF Forwarded(event) THEN Stashed(event) ELSE stash
  /\ UNCHANGED <<curFetch, names, fill, pending, lastRequired>>

TakeFetch(event) ==
  /\ event.kind = "fetch" /\ curFetch' = event.records
  /\ UNCHANGED <<stash, names, fill, pending, lastRequired>>

PollConsumerQueue ==
  /\ fill.phase = "loop" /\ Len(fill.out) < MaxMsgs /\ curFetch = <<>>
  /\ consumerQ # <<>> /\ consumerQ' = Tail(consumerQ)
  /\ LET event == Head(consumerQ)
     IN TakeFetch(event) \/ TakeEof(event) \/ TakeOther(event)
  /\ UNCHANGED <<coming, mainComing, mainQ, ring, caller, closing, received>>

\* The buffer has max_msgs records, or the queue was empty until the timeout.
FillDone ==
  /\ fill.phase = "loop"
  /\ Len(fill.out) = MaxMsgs \/ (curFetch = <<>> /\ consumerQ = <<>>)
  /\ fill' = [fill EXCEPT !.phase = "done"]
  /\ UNCHANGED <<queues, curFetch, pending, names, stash, lastRequired, ring,
                 caller, closing, received>>

ConsumeFill == FillEnter \/ SerializeMessage \/ PollConsumerQueue \/ FillDone

-----------------------------------------------------------------------------
(* prefetch_main() *)

NextFrame(i) == (i + 1) % NFrames
RingFull == ready = NFrames
Woken == IF thread = "asleep" THEN "top" ELSE thread  \* by a broadcast of pf->cv

PrefetchTop ==
  /\ thread = "top" /\ js # "copying"
  /\ \/ ~running /\ thread' = "exited" /\ UNCHANGED fill
     \/ running /\ RingFull /\ thread' = "asleep" /\ UNCHANGED fill
     \/ running /\ ~RingFull /\ thread' = "filling" /\ fill' = StartFill("prefetch")
  /\ UNCHANGED <<queues, curFetch, pending, names, stash, lastRequired, frames, head,
                 tail, ready, enabled, running, caller, closing, received>>

PrefetchPublish ==
  /\ thread = "filling" /\ fill.phase = "done"
  /\ thread' = "top" /\ fill' = NoFill
  /\ IF fill.out = <<>> THEN UNCHANGED <<frames, tail, ready>>
     ELSE /\ js # "copying"
          /\ frames' = [frames EXCEPT ![tail].out = fill.out]
          /\ tail' = NextFrame(tail)
          /\ ready' = ready + 1
  /\ UNCHANGED <<queues, curFetch, pending, names, stash, lastRequired, head, enabled,
                 running, caller, closing, received>>

PrefetchGrow ==
  /\ thread = "filling" /\ fill.phase = "tooSmall"
  /\ thread' = "top" /\ fill' = NoFill
  /\ frames' = [frames EXCEPT ![tail].cap = Larger(@, lastRequired)]
  /\ UNCHANGED <<queues, curFetch, pending, names, stash, lastRequired, head, tail,
                 ready, enabled, running, caller, closing, received>>

PrefetchThread ==
  \/ PrefetchTop \/ PrefetchPublish \/ PrefetchGrow
  \/ thread = "filling" /\ fill.by = "prefetch" /\ ConsumeFill

-----------------------------------------------------------------------------
(* NativeClient: pump() calls pollEvents(), then consumeBatch() *)

Return(next) == js' = "idle" /\ turn' = next /\ retried' = FALSE

\* withGrowingBuffer(): a call that reports BUFFER_TOO_SMALL is retried once.
\* The poll round ends with the exception of the retry, and the next one starts
\* over.
TooSmall(slot) ==
  /\ js' = IF retried THEN "failed" ELSE slot
  /\ UNCHANGED <<turn, retried>>

GrowConsume ==
  /\ js = "growConsume"
  /\ consumeBuf' = Larger(lastRequired, 2 * consumeBuf)
  /\ retried' = TRUE
  /\ js' = IF enabled THEN "take" ELSE "filling"
  /\ fill' = IF enabled THEN fill ELSE StartFill("js")
  /\ UNCHANGED <<queues, curFetch, pending, names, stash, lastRequired, ring, turn,
                 eventBuf, frameOut, closing, received>>

GrowEvents ==
  /\ js = "growEvents"
  /\ eventBuf' = Larger(lastRequired, 2 * eventBuf)
  /\ retried' = TRUE /\ js' = "stash"
  /\ UNCHANGED <<queues, filling, stash, lastRequired, ring, turn, consumeBuf, frameOut,
                 closing, received>>

Failed ==
  /\ js = "failed" /\ Return("events")
  /\ UNCHANGED <<queues, filling, stash, lastRequired, ring, consumeBuf, eventBuf,
                 frameOut, closing, received>>

ConsumeBatch ==
  /\ js = "idle" /\ turn = "consume"
  /\ js' = IF enabled THEN "take" ELSE "filling"
  /\ fill' = IF enabled THEN fill ELSE StartFill("js")
  /\ UNCHANGED <<queues, curFetch, pending, names, stash, lastRequired, ring, turn,
                 retried, consumeBuf, eventBuf, frameOut, closing, received>>

\* topicName(), brk_topic_name()
TopicName(tid) == names[tid]

\* The batch is decoded in place and the buffer retired: the next one is sized
\* to the traffic.
Deliver(records) ==
  /\ got' = got \o [i \in 1..Len(records) |->
                      [id |-> records[i].id, topic |-> TopicName(records[i].tid)]]
  /\ consumeBuf' = CASE records = <<>> -> consumeBuf
                     [] records # <<>> /\ enabled -> Larger(BufferBytes, consumeBuf)
                     [] OTHER -> Smaller(Larger(BufMin, 2 * SizeOf(records)), BufferBytes)
  /\ Return("events")

JsFillEnds ==
  /\ js = "filling" /\ fill.by = "js"
  /\ \/ fill.phase = "done" /\ Deliver(fill.out)
     \/ fill.phase = "tooSmall" /\ TooSmall("growConsume") /\ UNCHANGED <<got, consumeBuf>>
  /\ fill' = NoFill
  /\ UNCHANGED <<queues, curFetch, pending, names, stash, lastRequired, ring, eventBuf,
                 frameOut, closing, events>>

\* prefetch_take()
TakeFrame ==
  /\ js = "take"
  /\ \/ /\ ready = 0 /\ Return("events")
        /\ UNCHANGED lastRequired
     \/ /\ ready # 0 /\ SizeOf(frames[head].out) > consumeBuf
        /\ lastRequired' = Required(SizeOf(frames[head].out))
        /\ TooSmall("growConsume")
     \/ /\ ready # 0 /\ SizeOf(frames[head].out) <= consumeBuf
        /\ js' = "copying"
        /\ UNCHANGED <<lastRequired, turn, retried>>
  /\ UNCHANGED <<queues, filling, stash, ring, consumeBuf, eventBuf, frameOut, closing,
                 received>>

CopyFrame ==
  /\ js = "copying" /\ Deliver(frames[head].out)
  /\ head' = NextFrame(head)
  /\ ready' = ready - 1
  /\ thread' = Woken
  /\ UNCHANGED <<queues, filling, stash, lastRequired, frames, tail, enabled, running,
                 eventBuf, frameOut, closing, events>>

\* brk_events_poll(), first the stash.
PollEvents ==
  /\ js = "idle" /\ turn = "events"
  /\ js' = "stash" /\ frameOut' = <<>>
  /\ UNCHANGED <<queues, filling, stash, lastRequired, ring, turn, retried, consumeBuf,
                 eventBuf, closing, received>>

EventRoom == eventBuf - SizeOf(frameOut)
Full == Len(frameOut) = MaxEvents

EventsReturn ==
  /\ events' = events \o frameOut /\ frameOut' = <<>>
  /\ Return("consume")

PollStash ==
  /\ js = "stash"
  /\ \/ /\ ~Full /\ stash # <<>> /\ Head(stash).size <= EventRoom
        /\ frameOut' = Append(frameOut, Head(stash)) /\ stash' = Tail(stash)
        /\ UNCHANGED <<js, turn, retried, lastRequired, events>>
     \/ /\ ~Full /\ stash # <<>> /\ Head(stash).size > EventRoom
        /\ IF frameOut = <<>>
           THEN /\ lastRequired' = Required(Head(stash).size) /\ TooSmall("growEvents")
                /\ UNCHANGED <<frameOut, events>>
           ELSE EventsReturn /\ UNCHANGED lastRequired
        /\ UNCHANGED stash
     \/ /\ Full \/ stash = <<>>
        /\ js' = "main"
        /\ UNCHANGED <<turn, retried, lastRequired, frameOut, stash, events>>
  /\ UNCHANGED <<queues, filling, ring, consumeBuf, eventBuf, closing, got>>

\* ... then main_q. Polling it runs brk_throttle_cb(), which stashes.
PollMain ==
  /\ js = "main"
  /\ \/ /\ Full \/ mainQ = <<>>
        /\ EventsReturn
        /\ UNCHANGED <<mainQ, stash, lastRequired>>
     \/ /\ ~Full /\ mainQ # <<>> /\ mainQ' = Tail(mainQ)
        /\ LET event == Head(mainQ) IN
           \/ /\ event.kind # "throttle" /\ ~Forwarded(event)
              /\ UNCHANGED <<js, turn, retried, frameOut, events, stash, lastRequired>>
           \/ /\ event.kind = "throttle"
              /\ stash' = Stashed(event)
              /\ UNCHANGED <<js, turn, retried, frameOut, events, lastRequired>>
           \/ /\ Forwarded(event) /\ event.size <= EventRoom
              /\ frameOut' = Append(frameOut, event)
              /\ UNCHANGED <<js, turn, retried, events, stash, lastRequired>>
           \/ /\ Forwarded(event) /\ event.size > EventRoom
              /\ stash' = Stashed(event)
              /\ IF frameOut = <<>>
                 THEN /\ lastRequired' = Required(event.size) /\ TooSmall("growEvents")
                      /\ UNCHANGED <<frameOut, events>>
                 ELSE EventsReturn /\ UNCHANGED lastRequired
  /\ UNCHANGED <<coming, mainComing, consumerQ, filling, ring, consumeBuf, eventBuf,
                 closing, got>>

-----------------------------------------------------------------------------
(* disconnect(): brk_client_destroy() *)

AfterStop == IF enabled THEN "joining" ELSE "closing"

Destroy ==
  /\ js = "idle" /\ js' = AfterStop
  /\ running' = FALSE /\ thread' = Woken
  /\ UNCHANGED <<queues, filling, stash, lastRequired, frames, head, tail, ready, enabled,
                 turn, retried, consumeBuf, eventBuf, frameOut, closing, received>>

\* The rest of brk_consume_prefetch_teardown().
Join ==
  /\ js = "joining" /\ thread = "exited"
  /\ js' = "closing" /\ enabled' = FALSE
  /\ frames' = EmptyRing /\ ready' = 0 /\ head' = 0 /\ tail' = 0
  /\ UNCHANGED <<queues, filling, stash, lastRequired, running, thread, turn, retried,
                 consumeBuf, eventBuf, frameOut, closing, received>>

\* rd_kafka_consumer_close_queue() may refuse; otherwise rebalances are answered
\* until the group has closed.
CloseConsumer ==
  /\ js = "closing"
  /\ \/ cgrp = "open" /\ js' = "freed" /\ UNCHANGED cgrp
     \/ cgrp = "open" /\ cgrp' = "leaving" /\ UNCHANGED js
     \/ cgrp = "revoking" /\ cgrp' = "leaving" /\ UNCHANGED js
     \/ cgrp = "closed" /\ js' = "freed" /\ UNCHANGED cgrp
  /\ UNCHANGED <<queues, filling, stash, lastRequired, ring, turn, retried, consumeBuf,
                 eventBuf, frameOut, revokes, received>>

GroupCloses ==
  /\ cgrp = "leaving"
  /\ \/ revokes > 0 /\ cgrp' = "revoking" /\ revokes' = revokes - 1
     \/ cgrp' = "closed" /\ UNCHANGED revokes
  /\ UNCHANGED <<queues, filling, stash, lastRequired, ring, caller, received>>

JsThread ==
  \/ PollEvents \/ PollStash \/ PollMain \/ GrowEvents
  \/ ConsumeBatch \/ TakeFrame \/ CopyFrame \/ GrowConsume \/ JsFillEnds \/ Failed
  \/ js = "filling" /\ fill.by = "js" /\ ConsumeFill
  \/ Join \/ CloseConsumer

Next == Enqueue \/ PrefetchThread \/ JsThread \/ GroupCloses \/ Destroy

Spec == Init /\ [][Next]_vars

\* Both threads run, the poll scheduler starts a round after the other (see
\* PollScheduler), and librdkafka closes the group once it is answered.
FairSpec == Spec /\ WF_vars(PrefetchThread) /\ WF_vars(JsThread) /\ WF_vars(GroupCloses)

-----------------------------------------------------------------------------
(* Properties *)

TypeOK ==
  /\ Len(pending) <= 1 /\ lastRequired \in Nat /\ consumeBuf \in Nat /\ eventBuf \in Nat
  /\ fill.by \in {"none", "js", "prefetch"}
  /\ fill.phase \in {"none", "enter", "loop", "done", "tooSmall"}
  /\ {head, tail} \subseteq 0..NFrames-1 /\ ready \in 0..NFrames
  /\ enabled \in BOOLEAN /\ running \in BOOLEAN /\ retried \in BOOLEAN
  /\ thread \in {"none", "top", "asleep", "filling", "exited"}
  /\ js \in {"idle", "stash", "main", "growEvents", "filling", "take", "copying",
             "growConsume", "failed", "joining", "closing", "freed"}
  /\ turn \in {"events", "consume"}
  /\ cgrp \in {"open", "leaving", "revoking", "closed"} /\ revokes \in 0..MaxRevokes

\* "JS never touches frames[tail] while ready < nframes" (shim_consumer.c:433):
\* the thread never fills the frame JS is copying, and JS copies a full one.
FrameExclusive ==
  js = "copying" => /\ ready > 0
                    /\ thread = "filling" => tail # head

\* consume_fill() runs on one thread at a time (shim_consumer.c:328), and none
\* works on the ring or the queues of a handle that was freed.
OneFiller ==
  /\ fill.by = "js" => thread \in {"none", "exited"} /\ js = "filling"
  /\ fill.by = "prefetch" => thread = "filling" /\ js \notin {"closing", "freed"}
  /\ js \in {"closing", "freed"} => thread \in {"none", "exited"}

\* Each frame and each queue has one thread at work on it. (consume_fill,
\* prefetch_main, prefetch_take, brk_handle_destroy.)
RingExclusive == FrameExclusive /\ OneFiller

\* Once the prefetch thread is out of the way, the size brk_last_required_size()
\* reports is the one the caller is missing: the single retry always fits.
RetryFits == js = "failed" => enabled

\* The records on their way: in librdkafka, being serialized, in the ring.
Down == js \in {"closing", "freed"}
Known(written) == [i \in 1..Len(written) |->
                     [id |-> written[i].id, topic |-> names[written[i].tid]]]
Labels(records) ==
  [i \in 1..Len(records) |-> [id |-> records[i].id, topic |-> records[i].topic]]
Named(queue) ==
  FlattenSeq([i \in 1..Len(queue) |->
    IF queue[i].kind \in {"fetch", "eof"} THEN Labels(queue[i].records) ELSE <<>>])
Ring == FlattenSeq([i \in 1..ready |-> frames[(head + i - 1) % NFrames].out])
RecordsInTransit ==
  IF Down THEN <<>>
  ELSE Known(Ring \o fill.out \o pending) \o Labels(curFetch) \o Named(consumerQ)

\* The events of one kind.
Of(kind, queue) ==
  FlattenSeq([i \in 1..Len(queue) |-> IF queue[i].kind = kind THEN <<queue[i]>> ELSE <<>>])
EventsInTransit(kind) == IF Down THEN <<>> ELSE Of(kind, frameOut \o stash \o consumerQ \o mainQ)

Lanes == {"records", "consumer", "main", "throttle"}
ToSend == [lane \in Lanes |->
  IF lane = "records" THEN Named(coming) ELSE Of(lane, coming \o mainComing)]
InTransit == [lane \in Lanes |->
  IF lane = "records" THEN RecordsInTransit ELSE EventsInTransit(lane)]
Received == [lane \in Lanes |-> IF lane = "records" THEN got ELSE Of(lane, events)]

Shim == INSTANCE Channel WITH
  source <- ToSend, queue <- InTransit, received <- Received, closed <- Down

\* A record reaches JS once, in the order librdkafka delivered it and under its
\* own topic name, whatever the size of the buffers and whichever thread
\* serialized it (consume_fill, prefetch_main, prefetch_take). So do the events
\* of one origin, the stashed ones and those that did not fit included
\* (brk_events_poll, shim_events.c:193). Destroying the handle drops the rest.
OnceInOrder == Shim!Spec

\* Whatever librdkafka delivers is received in the end, and destroying the
\* handle ends: no wakeup of the prefetch thread is lost, no buffer stays too
\* small, and every rebalance met while closing is answered.
Drained ==
  /\ [](cgrp = "open" /\ js \notin {"joining", "closing", "freed"})
       => <>[](coming = <<>> /\ mainComing = <<>>
                 => RecordsInTransit = <<>> /\ stash = <<>> /\ mainQ = <<>>)
  /\ js \in {"joining", "closing"} ~> js = "freed"
=============================================================================

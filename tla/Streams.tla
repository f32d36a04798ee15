------------------------------- MODULE Streams -------------------------------
(* A ConsumerStream piped into a ProducerStream.  The consumer is asked for  *)
(* more while node:stream wants more; a chunk waits for the producer to      *)
(* connect and for room in its queue; ending, an error, destroy() and        *)
(* close() on either side release the client of that side, connected or      *)
(* still connecting.  node:stream, the consumer and the producer are         *)
(* modelled from what the streams use of them.                               *)
EXTENDS Naturals, Sequences, FiniteSets, SequencesExt, Selection

CONSTANTS
    Messages,     \* how many messages the consumer finds
    Tombstones,   \* the messages whose value is null
    FetchSize,    \* fetchSize
    HighWater,    \* highWaterMark, of either stream
    MaxPending,   \* js.producer.max.pending
    MaxTrouble    \* bound: failures

ASSUME BoundsAssumption == {Messages, FetchSize, HighWater, MaxPending, MaxTrouble} \subseteq Nat
ASSUME TombstonesAssumption == Tombstones \subseteq 1 .. Messages

VARIABLES
    consumer, producer,   \* the clients: away, connecting, connected
    readable,     \* ConsumerStream: open, destroying, closed
    subscribed,   \* #subscribed
    asked,        \* node:stream called _read() and nothing was pushed since
    deferred,     \* #pendingReadSize is set
    reading,      \* #reading: a consume() is in flight
    retrying,     \* #retryTimer
    fetched,      \* how many messages the consumer handed out
    fetch,        \* the field messages of the stream
    chunks,       \* node:stream: pushed, not yet piped
    ended,        \* push(null)
    writable,     \* ProducerStream: open, flushing, disconnecting, closed
    autoClose, closeRequested,
    written,      \* node:stream: written, not yet passed to _write()
    ending,       \* end() was called
    write,        \* the write under way: [at, chunks]
    failed,       \* the writable is errored
    staged, outq, pendingError,   \* the producer: staging, under way, error to throw
    handed,       \* history: chunks librdkafka took, in order
    refused,      \* history: chunks librdkafka refused
    cut,          \* history: the flush before a disconnect timed out
    dropped,      \* history: chunks whose report a disconnect dropped
    misused,      \* history: a push after the end
    trouble

source == <<consumer, readable, subscribed, asked, deferred, reading, retrying, fetched, fetch>>
sink == <<producer, writable, autoClose, closeRequested, write, failed>>
pipe == <<chunks, ended, written, ending>>
kafka == <<staged, outq, pendingError>>
history == <<handed, refused, cut, dropped, misused>>
vars == <<source, sink, pipe, kafka, history, trouble>>

Trouble == trouble < MaxTrouble /\ trouble' = trouble + 1
Smallest(a, b) == IF a < b THEN a ELSE b
Stopped == readable # "open"

-----------------------------------------------------------------------------
(* ConsumerStream.                                                           *)

\* _destroy(): the client is released even while it connects; what was
\* fetched is dropped.
HeldConnected == consumer = "connected"
Held == consumer # "away"
DestroyReadable ==
    /\ readable' = IF Held THEN "destroying" ELSE "closed"
    /\ consumer' = IF Held THEN "leaving" ELSE consumer
    /\ retrying' = FALSE
    /\ fetch' = <<>>

\* push(): one chunk, or an error once the stream has ended.
Push(chunk) ==
    IF ended
    THEN DestroyReadable /\ misused' = TRUE /\ asked' = asked /\ chunks' = <<>>
    ELSE /\ chunks' = Append(chunks, chunk)
         /\ asked' = FALSE
         /\ UNCHANGED <<readable, consumer, retrying, misused>>

\* What _read() does, called by node:stream.
Read ==
    IF fetch # <<>>
    THEN /\ Push(Head(fetch))
         /\ ~ ended => fetch' = Tail(fetch)
         /\ UNCHANGED <<deferred, reading>>
    ELSE /\ asked' = TRUE
         /\ deferred' = (deferred \/ ~ subscribed)
         /\ reading' = (reading \/ subscribed)
         /\ UNCHANGED <<chunks, readable, consumer, retrying, misused, fetch>>

NodeReads ==
    /\ readable = "open" /\ ~ asked /\ ~ ended
    /\ Len(chunks) < HighWater
    /\ Read
    /\ UNCHANGED <<subscribed, fetched, ended, written, ending, sink, kafka, handed, refused, cut, dropped, trouble>>

\* The read deferred until the subscription starts.
ConsumerConnects ==
    /\ consumer = "connecting"
    /\ \/ /\ consumer' = "connected"
          /\ subscribed' = TRUE
          /\ deferred' = FALSE
          /\ reading' = deferred
          /\ UNCHANGED <<readable, retrying, fetch, trouble>>
       \/ \* connect() fails, or the function of the topics throws.
          /\ Trouble
          /\ \/ consumer' = "away" /\ readable' = "closed" /\ retrying' = FALSE /\ fetch' = <<>>
             \/ DestroyReadable
          /\ UNCHANGED <<subscribed, deferred, reading>>
    /\ UNCHANGED <<asked, fetched, sink, pipe, kafka, history>>

\* The callback of consume(n): some messages, none, or an error.  With nothing
\* to push the stream reads again later.
NoRetry == UNCHANGED retrying
ReadsAgain == retrying' = TRUE
Values(from, n) == Ascending((from + 1 .. from + n) \ Tombstones)
ConsumeAnswers ==
    /\ reading /\ consumer = "connected"
    /\ reading' = FALSE
    /\ \E n \in 0 .. Smallest(FetchSize, Messages - fetched) :
          LET values == Values(fetched, n)
          IN  /\ IF n = 0 /\ fetched < Messages THEN Trouble ELSE UNCHANGED trouble
              /\ fetched' = fetched + n
              /\ IF values = <<>>
                 THEN /\ ReadsAgain
                      /\ UNCHANGED <<fetch, chunks, asked, misused, readable, consumer>>
                 ELSE /\ Push(Head(values))
                      /\ ~ ended => fetch' = Tail(values)
    /\ UNCHANGED <<subscribed, deferred, ended, written, ending, sink, kafka, handed, refused, cut, dropped>>

Retry ==
    /\ retrying
    /\ reading' = TRUE
    /\ retrying' = FALSE
    /\ UNCHANGED <<consumer, readable, subscribed, asked, deferred, fetched, fetch, sink, pipe, kafka, history,
                   trouble>>

\* The application unsubscribes the consumer, which ends the stream.
Unsubscribe ==
    /\ consumer = "connected" /\ readable = "open" /\ ~ ended
    /\ ended' = TRUE
    /\ UNCHANGED <<source, chunks, written, ending, sink, kafka, history, trouble>>

CloseReadable ==
    /\ readable = "open"
    /\ DestroyReadable
    /\ chunks' = <<>>
    /\ UNCHANGED <<subscribed, asked, deferred, reading, fetched, ended, written, ending, sink, kafka,
                   history, trouble>>

\* disconnect() of the consumer calls back every request, and then the stream
\* closes.
ConsumerLeaves ==
    /\ consumer = "leaving"
    /\ consumer' = "away" /\ reading' = FALSE
    /\ readable' = "closed"
    /\ UNCHANGED <<subscribed, asked, deferred, retrying, fetched, fetch, sink, pipe, kafka, history,
                   trouble>>

-----------------------------------------------------------------------------
(* node:stream.                                                              *)

\* pipe(): a chunk goes on while the writable has room; at the end of the
\* readable, end() is called, and the readable closes.
Pipe ==
    /\ readable = "open" /\ writable = "open" /\ ~ failed /\ ~ ending
    /\ chunks # <<>> /\ Len(written) < HighWater
    /\ written' = Append(written, Head(chunks))
    /\ chunks' = Tail(chunks)
    /\ UNCHANGED <<source, ended, ending, sink, kafka, history, trouble>>

EndOfReadable ==
    /\ readable = "open" /\ ended /\ chunks = <<>>
    /\ ending' = TRUE
    /\ DestroyReadable
    /\ UNCHANGED <<subscribed, asked, deferred, reading, fetched, chunks, ended, written, sink, kafka,
                   history, trouble>>

-----------------------------------------------------------------------------
(* ProducerStream.                                                           *)

Idle == [at |-> "idle", chunks |-> <<>>]
Ledger == Len(staged) + Cardinality(outq)

\* _destroy() and #teardown(): flush, then disconnect; a producer that is
\* still connecting is only disconnected.
TeardownAtOnce ==
    /\ writable' = IF producer = "away" THEN "closed" ELSE "disconnecting"
    /\ producer' = IF producer = "away" THEN "away" ELSE "leaving"
Teardown ==
    IF producer = "connected"
    THEN writable' = "flushing" /\ UNCHANGED producer
    ELSE TeardownAtOnce
Destroy(requested) ==
    IF autoClose \/ requested THEN Teardown
    ELSE writable' = "closed" /\ UNCHANGED producer

\* The callback of a write: an error destroys the stream, or with autoClose
\* off leaves it errored.
Answered(ok) ==
    /\ write' = Idle
    /\ failed' = (failed \/ ~ ok)
    /\ IF ok \/ ~ autoClose \/ writable # "open" THEN UNCHANGED <<writable, producer>>
       ELSE Destroy(FALSE)

\* flushStaging() and what librdkafka takes of it; its error is thrown by a
\* later produce().
HandOver(refuses) ==
    /\ staged' = <<>>
    /\ handed' = handed \o At(staged, {i \in DOMAIN staged : staged[i] \notin DOMAIN refuses})
    /\ outq' = outq \cup (ToSet(staged) \ DOMAIN refuses)
    /\ refused' = refused \cup {[chunk |-> c, code |-> refuses[c]] : c \in DOMAIN refuses}
    /\ pendingError' = IF pendingError = "none" /\ DOMAIN refuses # {}
                       THEN refuses[CHOOSE c \in DOMAIN refuses : TRUE] ELSE pendingError

\* #produceAll(): stops at the first produce() that throws.  A full queue is
\* retried from a timer with the rest, after a poll().
RestAll(list, k) == list
Rest(list, k) == SubSeq(list, k + 1, Len(list))
ProducesOver(list) == Smallest(MaxPending - Ledger + 1, Len(list))
Produces(list) == Smallest(MaxPending - Ledger, Len(list))
ProduceAll(list) ==
    CASE pendingError # "none" ->
            /\ pendingError' = "none"
            /\ write' = IF pendingError = "full" THEN [at |-> "backoff", chunks |-> list]
                        ELSE [at |-> "error", chunks |-> <<>>]
            /\ UNCHANGED <<staged, trouble>>
      [] pendingError = "none" ->
            \/ /\ staged' = staged \o SubSeq(list, 1, Produces(list))
               /\ write' = IF Produces(list) = Len(list) THEN [at |-> "done", chunks |-> <<>>]
                           ELSE [at |-> "backoff", chunks |-> Rest(list, Produces(list))]
               /\ UNCHANGED <<pendingError, trouble>>
            \/ \* A message that produce() refuses.
               \E k \in 0 .. Produces(list) :
                  /\ k < Len(list) /\ Trouble
                  /\ staged' = staged \o SubSeq(list, 1, k)
                  /\ write' = [at |-> "error", chunks |-> <<>>]
                  /\ UNCHANGED pendingError

\* _write(), or _writev() of everything that waits.
WriteNext ==
    /\ writable = "open" /\ ~ failed /\ write = Idle /\ written # <<>>
    /\ written' = <<>>
    /\ IF producer = "connected" THEN ProduceAll(written)
       ELSE /\ write' = [at |-> "ready", chunks |-> written]
            /\ UNCHANGED <<staged, pendingError, trouble>>
    /\ UNCHANGED <<source, producer, writable, autoClose, closeRequested, failed, chunks, ended, ending,
                   outq, history>>

\* ready: #whenReady() goes on with the write.
ProducerConnects ==
    /\ producer = "connecting"
    /\ \/ /\ producer' = "connected"
          /\ IF write.at # "ready" THEN UNCHANGED <<write, staged, pendingError, trouble>>
             ELSE IF writable = "open" THEN ProduceAll(write.chunks)
             ELSE write' = Idle /\ UNCHANGED <<staged, pendingError, trouble>>
          /\ UNCHANGED <<writable, failed>>
       \/ \* connect() fails and destroys the stream; the write never ends.
          /\ Trouble
          /\ producer' = "away" /\ writable' = "closed" /\ failed' = TRUE
          /\ UNCHANGED <<write, staged, pendingError>>
    /\ UNCHANGED <<source, autoClose, closeRequested, pipe, outq, history>>

\* The setImmediate() or the timer of the write.
WriteGoesOn ==
    /\ CASE write.at = "done" -> Answered(TRUE) /\ UNCHANGED <<staged, pendingError, trouble>>
         [] write.at = "error" -> Answered(FALSE) /\ UNCHANGED <<staged, pendingError, trouble>>
         [] write.at = "backoff" ->
              IF writable = "open" /\ producer = "connected"
              THEN ProduceAll(write.chunks) /\ UNCHANGED <<failed, writable, producer>>
              ELSE Answered(FALSE) /\ UNCHANGED <<staged, pendingError, trouble>>
         [] OTHER -> FALSE
    /\ UNCHANGED <<source, autoClose, closeRequested, pipe, outq, history>>

\* end() and everything written: finish.
Finish ==
    /\ writable = "open" /\ ~ failed /\ ending /\ written = <<>> /\ write = Idle
    /\ autoClose
    /\ Destroy(FALSE)
    /\ UNCHANGED <<source, autoClose, closeRequested, write, failed, pipe, kafka, history, trouble>>

\* destroy() from outside.
DestroyWritable ==
    /\ writable = "open"
    /\ Destroy(FALSE)
    /\ UNCHANGED <<source, autoClose, closeRequested, write, failed, pipe, kafka, history, trouble>>

\* close(): of a stream that is already destroyed it releases what is left.
CloseWritable ==
    /\ closeRequested' = TRUE /\ ~ closeRequested
    /\ \/ writable = "open" /\ Destroy(TRUE)
       \/ writable = "closed" /\ Teardown
       \/ writable \in {"flushing", "disconnecting"} /\ UNCHANGED <<writable, producer>>
    /\ UNCHANGED <<source, autoClose, write, failed, pipe, kafka, history, trouble>>

-----------------------------------------------------------------------------
(* The producer: its staging microtask, reports, flush() and disconnect().   *)

Refusals(chosen) == [chosen -> {"full", "other"}]
HandsOver ==
    /\ staged # <<>>
    /\ \/ HandOver(<<>>) /\ UNCHANGED trouble
       \/ \E c \in ToSet(staged) : \E refuses \in Refusals({c}) : HandOver(refuses) /\ Trouble
    /\ UNCHANGED <<source, sink, pipe, cut, dropped, misused>>

Deliver ==
    /\ \E c \in outq : outq' = outq \ {c}
    /\ UNCHANGED <<source, sink, pipe, staged, pendingError, history, trouble>>

FlushEnds ==
    /\ writable = "flushing"
    /\ \/ Ledger = 0 /\ UNCHANGED <<cut, trouble>>
       \/ Ledger > 0 /\ Trouble /\ cut' = TRUE
    /\ writable' = "disconnecting" /\ producer' = "leaving"
    /\ UNCHANGED <<source, autoClose, closeRequested, write, failed, pipe, kafka, handed, refused,
                   dropped, misused>>

ProducerLeaves ==
    /\ producer = "leaving" /\ staged = <<>>
    /\ producer' = "away" /\ writable' = "closed"
    /\ outq' = {}
    /\ dropped' = dropped \cup outq
    /\ UNCHANGED <<source, autoClose, closeRequested, write, failed, pipe, staged, pendingError,
                   handed, refused, cut, misused, trouble>>

-----------------------------------------------------------------------------
Init ==
    /\ consumer = "connecting" /\ producer \in {"connecting", "connected"}
    /\ readable = "open" /\ subscribed = FALSE
    /\ asked = FALSE /\ deferred = FALSE /\ reading = FALSE /\ retrying = FALSE
    /\ fetched = 0 /\ fetch = <<>> /\ chunks = <<>> /\ ended = FALSE
    /\ writable = "open" /\ autoClose \in BOOLEAN /\ closeRequested = FALSE
    /\ written = <<>> /\ ending = FALSE /\ write = Idle /\ failed = FALSE
    /\ staged = <<>> /\ outq = {} /\ pendingError = "none"
    /\ handed = <<>> /\ refused = {} /\ cut = FALSE /\ dropped = {} /\ misused = FALSE /\ trouble = 0

ConsumerSide == ConsumerConnects \/ ConsumeAnswers \/ Retry \/ ConsumerLeaves
Node == NodeReads \/ Pipe \/ EndOfReadable
ProducerSide == WriteNext \/ ProducerConnects \/ WriteGoesOn \/ Finish
Kafka == HandsOver \/ Deliver \/ FlushEnds \/ ProducerLeaves
Application == Unsubscribe \/ CloseReadable \/ DestroyWritable \/ CloseWritable
Next == ConsumerSide \/ Node \/ ProducerSide \/ Kafka \/ Application

\* Clients connect and answer, timers fire, node:stream moves chunks.
Fairness == /\ WF_vars(ConsumerConnects) /\ WF_vars(ConsumeAnswers) /\ WF_vars(Retry)
            /\ WF_vars(ConsumerLeaves) /\ WF_vars(NodeReads) /\ WF_vars(Pipe) /\ WF_vars(EndOfReadable)
            /\ WF_vars(WriteNext) /\ WF_vars(ProducerConnects) /\ WF_vars(WriteGoesOn) /\ WF_vars(Finish)
            /\ WF_vars(HandsOver) /\ WF_vars(Deliver) /\ WF_vars(FlushEnds) /\ WF_vars(ProducerLeaves)

Spec == Init /\ [][Next]_vars
FairSpec == Spec /\ Fairness
-----------------------------------------------------------------------------
\* The variables hold values of these shapes; the stream subscribes once and
\* waits for one thing at a time.
TypeOK ==
    /\ {consumer, producer} \subseteq {"away", "connecting", "connected", "leaving"}
    /\ readable \in {"open", "destroying", "closed"}
    /\ writable \in {"open", "flushing", "disconnecting", "closed"}
    /\ write.at \in {"idle", "ready", "backoff", "done", "error"}
    /\ Ledger <= MaxPending
    /\ readable = "open" => ~ (reading /\ retrying) /\ (reading \/ retrying \/ deferred => asked)

\* What librdkafka takes are the values the consumer found, in order and none
\* twice, through waits for the producer, full queues and destroyed streams; a
\* chunk is passed over only when librdkafka refused it.  (_read(),
\* #produceAll(), #retryAfterQueueFull().)
Passed == Tombstones \cup {r.chunk : r \in refused}
HandedInOrder ==
    \A i \in DOMAIN handed :
        LET last == IF i = 1 THEN 0 ELSE handed[i - 1]
        IN  last < handed[i] /\ (last + 1) .. (handed[i] - 1) \subseteq Passed

\* A closed stream has released its client, also one that was still
\* connecting.  (_destroy(), #teardown(), close().)
Released ==
    /\ readable = "closed" => consumer = "away"
    /\ writable = "closed" /\ (autoClose \/ closeRequested) => producer = "away"

\* No disconnect drops the report of a chunk unless the flush before it timed
\* out ("do not drop what was written").
NothingDropped == dropped # {} => cut

\* However a stream ends, then, it leaves neither a client nor a chunk behind.
EndsClean == Released /\ NothingDropped

\* At last nothing is being closed, and every value was handed over or refused
\* or one of the streams has closed or failed.
Flows == <>[] ( /\ readable # "destroying" /\ writable \notin {"flushing", "disconnecting"}
                /\ \/ 1 .. Messages \subseteq ToSet(handed) \cup Passed
                   \/ readable = "closed" \/ writable = "closed" \/ failed )

\* "ERR__QUEUE_FULL is retried with backoff (backpressure), other errors fail
\* the write" (docs/01-spec.md).
QueueFullIsRetried ==
    \A r \in refused : r.code = "full" /\ (\E i \in DOMAIN handed : handed[i] > r.chunk)
                          => r.chunk \in ToSet(handed)

\* "Set once the stream is shutting down: ignore late unsubscribed/consume
\* results" (#closing).
NothingAfterTheEnd == ~ misused
=============================================================================

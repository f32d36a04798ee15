-------------------------- MODULE KafkaJSConsumer --------------------------
(***************************************************************************)
(* The run() scheduler of the promisified consumer (kafkajs/consumer.ts):  *)
(* the fetch pump, the per-partition queues with their epochs, the worker  *)
(* pool, and the application's seek / pause / resume / stop / disconnect,  *)
(* with the part of the callback layer it drives (callback/                *)
(* kafka-consumer.ts: message buffer, consume requests, poll tick) and     *)
(* what it uses of librdkafka (fetch position, stored and committed        *)
(* offset, assignment, pause flag).                                        *)
(*                                                                         *)
(* One action is one run-to-completion segment of JavaScript: what happens *)
(* between two awaits, in one callback or in one call of the application.  *)
(* A message is its offset.                                                *)
(***************************************************************************)
EXTENDS Selection, Integers, Sequences, FiniteSets, SequencesExt

CONSTANTS
  Partitions,   \* the topic partitions of the subscription
  Workers,      \* one per partitionsConsumedConcurrently
  None,         \* no partition, no answer, no rebalance
  LogEnd,       \* each partition's log holds the offsets 0..LogEnd-1
  FetchChunk,   \* FETCH_CHUNK, messages per inner.consume()
  MaxQueued,    \* MAX_QUEUED_TOTAL, where the pump stops
  MaxBuffered,  \* MAX_BUFFERED_MESSAGES of the callback layer
  MaxBatch,     \* maxBatchSize: messages per turn, or per eachBatch call
  Handlers,     \* what run() may be given: see HandlerKinds
  AutoCommit,   \* enable.auto.commit
  MaxAttempts,  \* attempts of one seek answered PREV_IN_PROGRESS (40)
  Budgets       \* bounds: how often the environment may do each thing in a run

HandlerKinds == {"eachMessage", "eachBatch", "eachBatchAutoResolve"}

(* What the environment does, each a bounded number of times in a run.     *)
(* "fail": a handler throws, or leaves part of its batch unresolved.       *)
Events == {"fail", "seek", "pause", "store", "commit", "rebalance", "stop"}

(* FETCH_CHUNK is far below MAX_QUEUED_TOTAL / 2 in the code (500, 10000). *)
ASSUME ConstantsAssumption ==
  /\ IsFiniteSet(Partitions) /\ Partitions # {} /\ None \notin Partitions
  /\ Workers # {}
  /\ LogEnd \in Nat /\ MaxBuffered \in Nat \ {0} /\ MaxAttempts \in Nat
  /\ FetchChunk \in Nat \ {0} /\ MaxBatch \in Nat \ {0}
  /\ MaxQueued \in Nat /\ 2 * FetchChunk <= MaxQueued
  /\ AutoCommit \in BOOLEAN
  /\ Handlers \subseteq HandlerKinds /\ Handlers # {}
  /\ Budgets \subseteq [Events -> Nat] /\ Budgets # {}
  /\ None \notin [run : Nat, batch : Seq(Partitions \X Nat)]

VARIABLES
  connected, running, runEpoch, halting,
  handler,       \* what the latest run() was given
  order,         \* keys of #parts in Map order
  part,          \* the PartitionState of each key (the last one, once deleted)
  claimCursor, queuedTotal, pendingSeeks, pumpActive,
  worker,        \* what each #worker of the current run is awaiting
  request,       \* run epoch of the callback waiting in inner.consume(), 0 none
  answer,        \* batch handed to that callback in a microtask
  buffer,        \* #buffer of the callback layer, messages <<partition, offset>>
  seeks,         \* seek jobs: microtasks (attempt 0) and retry timers
  rebalance,     \* the rebalance the user's callback is awaited for
  assigned, rdPaused, pos, seeking, stored, committed,   \* librdkafka
  left,          \* what is left of the budget
  done,          \* offsets a handler completed, ever
  excused        \* offsets the application asked to jump over

runVars == <<connected, running, runEpoch, halting, handler>>
partVars == <<order, part, claimCursor, queuedTotal, pendingSeeks>>
fetchVars == <<pumpActive, request, answer, buffer>>
rdVars == <<assigned, rdPaused, pos, seeking, stored, committed>>
history == <<left, done, excused>>
vars == <<runVars, partVars, fetchVars, worker, seeks, rebalance, rdVars,
          history>>

Offsets == 0..(LogEnd - 1)
Upto(n) == 0..(n - 1)
Smallest(a, b) == IF a <= b THEN a ELSE b
Spend(event) == left[event] > 0 /\ left' = [left EXCEPT ![event] = @ - 1]

-----------------------------------------------------------------------------
(* Partition states.                                                       *)

Known(p) == \E i \in 1..Len(order) : order[i] = p

(* A new state object for a key. The epoch goes on from the deleted        *)
(* object's, which no holder of that one can mistake for its own: epochs   *)
(* are only compared for equality. born identifies the object.             *)
FreshPart(s) ==
  [epoch |-> s.epoch, born |-> s.epoch, queue |-> <<>>,
   claimed |-> FALSE, paused |-> FALSE, storedNext |-> -1]

Ensured(p) == IF Known(p) THEN part[p] ELSE FreshPart(part[p])

(* epoch++ and the queue dropped: #rewind, #forgetPartitions, #haltRun.    *)
BumpedKeepingQueue(s) == [s EXCEPT !.epoch = @ + 1]
Bumped(s) == [s EXCEPT !.epoch = @ + 1, !.queue = <<>>]

(* Where the queue holds entries that no bump of the epoch made stale.     *)
Current(s) == {i \in 1..Len(s.queue) : s.queue[i].epoch = s.epoch}

(* How many entries #take() shifts off to return k valid ones.             *)
Cut(s, k) ==
  IF Cardinality(Current(s)) < k THEN Len(s.queue)
  ELSE CHOOSE c \in Current(s) : Cardinality(Current(s) \intersect 1..c) = k

Taken(s, k) == At(s.queue, Current(s) \intersect 1..Cut(s, k))
Rest(s, k) == SubSeq(s.queue, Cut(s, k) + 1, Len(s.queue))

NextUnprocessedOffset(s) ==
  IF s.storedNext >= 0 THEN s.storedNext
  ELSE IF Current(s) = {} THEN -1 ELSE s.queue[Min(Current(s))].off

SeekJob(offset, epoch, attempt) ==
  [off |-> offset, epoch |-> epoch, attempt |-> attempt]

(* #rewind's seek: a microtask that carries the epoch the bump produced.   *)
SeekQueued(p, offset) ==
  seeks' = [seeks EXCEPT ![p] = @ \union {SeekJob(offset, part[p].epoch + 1, 0)}]

-----------------------------------------------------------------------------
(* Workers.                                                                *)

Idle(pc) == [pc |-> pc, p |-> None, born |-> 0, epoch |-> 0,
             entries |-> <<>>, resolved |-> -1, turn |-> 0]

(* #signal: every waiter's promise resolves.                               *)
NotSignalled(ws) == ws
Signalled(ws) ==
  [w \in Workers |-> IF ws[w].pc = "waiting" THEN Idle("ready") ELSE ws[w]]

ClaimIgnoringClaims(s) == ~s.paused /\ Current(s) # {}
Claimable(s) == ~s.claimed /\ ~s.paused /\ Current(s) # {}

(* Steps round robin from claimCursor to the first claimable state, or 0.  *)
ClaimIndex(ps) ==
  LET Place(i) == ((claimCursor + i) % Len(order)) + 1
      Hits == {i \in 0..(Len(order) - 1) : Claimable(ps[order[Place(i)]])}
  IN IF Hits = {} THEN 0
     ELSE Place(CHOOSE i \in Hits : \A j \in Hits : i <= j)

EachBatch == handler # "eachMessage"
AutoResolve == handler = "eachBatchAutoResolve"

TurnSize == IF EachBatch THEN MaxBatch ELSE 1

(* The handler is called with the entries #take() returns.                 *)
Handling(p, s, turn) ==
  [pc |-> "busy", p |-> p, born |-> s.born, epoch |-> s.epoch,
   entries |-> [i \in 1..Len(Taken(s, TurnSize)) |-> Taken(s, TurnSize)[i].off],
   resolved |-> -1, turn |-> turn]

(* The top of #worker's loop: leave, wait, or claim a partition and enter  *)
(* its handler. ps and ws are the states the segment reaches it with.      *)
LoopTop(w, ps, ws) ==
  LET c == ClaimIndex(ps)
      p == order[c]
      s == [ps[p] EXCEPT !.claimed = TRUE]
  IN IF ~running
     THEN /\ worker' = [ws EXCEPT ![w] = Idle("off")]
          /\ part' = ps
          /\ UNCHANGED <<claimCursor, queuedTotal>>
     ELSE IF c = 0
     THEN /\ worker' = [ws EXCEPT ![w] = Idle("waiting")]
          /\ part' = ps
          /\ UNCHANGED <<claimCursor, queuedTotal>>
     ELSE /\ worker' = [ws EXCEPT ![w] = Handling(p, s, 1)]
          /\ part' = [ps EXCEPT ![p] = [s EXCEPT !.queue = Rest(s, TurnSize)]]
          /\ claimCursor' = c % Len(order)
          /\ queuedTotal' = queuedTotal - Cut(s, TurnSize)

-----------------------------------------------------------------------------
(* The fetch pump. Pump(on, run, active, total): what #pump(run) does when *)
(* it finds the consumer in that state.                                    *)

PumpIgnoringActive(on, run, active, total) ==
  IF on /\ total < MaxQueued
  THEN pumpActive' = TRUE /\ request' = run
  ELSE pumpActive' = active /\ UNCHANGED request

PumpIgnoringCap(on, run, active, total) ==
  IF on /\ ~active
  THEN pumpActive' = TRUE /\ request' = run
  ELSE pumpActive' = active /\ UNCHANGED request

Pump(on, run, active, total) ==
  IF on /\ ~active /\ total < MaxQueued
  THEN pumpActive' = TRUE /\ request' = run
  ELSE pumpActive' = active /\ UNCHANGED request

MaybeResumePump ==
  IF 2 * queuedTotal < MaxQueued
  THEN Pump(running, runEpoch, pumpActive, queuedTotal)
  ELSE UNCHANGED <<pumpActive, request>>

(* The offsets of partition p in a batch.                                  *)
OffsetsOf(p, batch) == At(batch, {i \in 1..Len(batch) : batch[i][1] = p})

(* #route, for every message of the batch: the state is created when it is *)
(* missing and the entry is tagged with the state's epoch of this moment.  *)
Routed(p, batch) ==
  LET msgs == OffsetsOf(p, batch)
      s == Ensured(p)
      entries == [i \in 1..Len(msgs) |-> [off |-> msgs[i][2], epoch |-> s.epoch]]
  IN IF msgs = <<>> THEN part[p] ELSE [s EXCEPT !.queue = @ \o entries]

Arriving(batch) == {p \in Partitions : OffsetsOf(p, batch) # <<>> /\ ~Known(p)}

TotalUncounted(batch) == queuedTotal
TotalAfter(batch) == queuedTotal + Len(batch)

(* The callback of inner.consume(). It is a microtask: a worker woken by   *)
(* an earlier signal has resumed by then (two hops, against the poll round *)
(* and the hop a batch takes).                                             *)
PumpCallback ==
  /\ answer # None
  /\ \A w \in Workers : worker[w].pc # "ready"
  /\ answer' = None
  /\ IF running /\ answer.run = runEpoch
     THEN /\ part' = [p \in Partitions |-> Routed(p, answer.batch)]
          /\ order' = order \o SetToSeq(Arriving(answer.batch))
          /\ queuedTotal' = TotalAfter(answer.batch)
          /\ worker' = IF answer.batch = <<>> THEN worker ELSE Signalled(worker)
          /\ Pump(running, runEpoch, FALSE, queuedTotal')
     ELSE /\ pumpActive' = FALSE
          /\ UNCHANGED <<part, order, queuedTotal, worker, request>>
  /\ UNCHANGED <<runVars, claimCursor, pendingSeeks, buffer, seeks, rebalance,
                 rdVars, history>>

-----------------------------------------------------------------------------
(* The callback layer's poll tick: pull from librdkafka, then serve the    *)
(* waiting request. One call brings messages of one partition.             *)

PollTick ==
  LET room == MaxBuffered - Len(buffer)
      want == IF room <= 0 THEN 1 ELSE Smallest(FetchChunk, room)
  IN \E p \in Partitions, n \in 0..want :
       LET pulled == [i \in 1..n |-> <<p, pos[p] + i - 1>>]
           held == buffer \o pulled
           serve == request # 0 /\ held # <<>>
           size == Smallest(FetchChunk, Len(held))
       IN /\ connected
          /\ n > 0 => p \in assigned /\ ~rdPaused[p] /\ pos[p] + n <= LogEnd
          /\ n > 0 \/ serve
          /\ pos' = [pos EXCEPT ![p] = @ + n]
          /\ IF serve
             THEN /\ answer' = [run |-> request, batch |-> SubSeq(held, 1, size)]
                  /\ buffer' = SubSeq(held, size + 1, Len(held))
                  /\ request' = 0
             ELSE buffer' = held /\ UNCHANGED <<answer, request>>
          /\ UNCHANGED <<runVars, partVars, pumpActive, worker, seeks, rebalance,
                         assigned, rdPaused, seeking, stored, committed, history>>

(* The request's deadline passes with nothing buffered.                    *)
RequestTimeout ==
  /\ connected
  /\ request # 0 /\ buffer = <<>>
  /\ answer' = [run |-> request, batch |-> <<>>]
  /\ request' = 0
  /\ UNCHANGED <<runVars, partVars, pumpActive, buffer, worker, seeks, rebalance,
                 rdVars, history>>

-----------------------------------------------------------------------------
(* Worker segments.                                                        *)

(* A woken (or new) worker goes round its loop.                            *)
Wakeup(w) ==
  /\ worker[w].pc = "ready"
  /\ LoopTop(w, part, worker)
  /\ UNCHANGED <<runVars, order, pendingSeeks, fetchVars, seeks, rebalance,
                 rdVars, history>>

(* The turn is over: the finally block of #worker, then its loop again.    *)
StillClaimed(w) == part
Unclaimed(w) ==
  [p \in Partitions |->
     IF p = worker[w].p /\ part[p].born = worker[w].born
     THEN [part[p] EXCEPT !.claimed = FALSE] ELSE part[p]]

Release(w) ==
  /\ worker[w].pc = "release"
  /\ MaybeResumePump
  /\ LoopTop(w, Unclaimed(w), Signalled(worker))
  /\ UNCHANGED <<runVars, order, pendingSeeks, answer, buffer, seeks, rebalance,
                 rdVars, history>>

(* The epoch the handler started at is still the partition's.              *)
Live(w) == part[worker[w].p].epoch = worker[w].epoch

Releasing(w) == [worker EXCEPT ![w].pc = "release", ![w].entries = <<>>]

(* #store: librdkafka refuses a partition that is not assigned.            *)
Store(p, next, s) ==
  IF p \in assigned
  THEN /\ stored' = [stored EXCEPT ![p] = next]
       /\ part' = [part EXCEPT ![p] = [s EXCEPT !.storedNext = next]]
  ELSE stored' = stored /\ part' = [part EXCEPT ![p] = s]

FirstEntry(w) == worker[w].entries[1]
LastEntry(w) == worker[w].entries[Len(worker[w].entries)]

(* eachMessage succeeds: store offset + 1 and take the next message of the *)
(* same turn, unless the epoch moved while the handler ran.                *)
StoredTooFar(o) == o + 2
StoredOffset(o) == o + 1

MessageOk(w) ==
  LET p == worker[w].p
      s == part[p]
      more == running /\ worker[w].turn < MaxBatch /\ Current(s) # {}
  IN /\ ~EachBatch
     /\ worker[w].pc = "busy"
     /\ done' = [done EXCEPT ![p] = @ \union {FirstEntry(w)}]
     /\ IF ~Live(w)
        THEN /\ worker' = Releasing(w)
             /\ UNCHANGED <<part, stored, queuedTotal>>
        ELSE IF more
        THEN /\ worker' = [worker EXCEPT ![w] = Handling(p, s, worker[w].turn + 1)]
             /\ Store(p, StoredOffset(FirstEntry(w)), [s EXCEPT !.queue = Rest(s, 1)])
             /\ queuedTotal' = queuedTotal - Cut(s, 1)
        ELSE /\ worker' = Releasing(w)
             /\ Store(p, StoredOffset(FirstEntry(w)), s)
             /\ UNCHANGED queuedTotal
     /\ UNCHANGED <<runVars, order, claimCursor, pendingSeeks, fetchVars, seeks,
                    rebalance, assigned, rdPaused, pos, seeking, committed, left, excused>>

(* eachMessage throws: seek back to the very message.                      *)
TotalKept(p) == queuedTotal
TotalWithout(p) == queuedTotal - Len(part[p].queue)

NoRewind(p, offset) == UNCHANGED <<part, queuedTotal, seeks>>
RewindTo(p, offset) ==
  /\ part' = [part EXCEPT ![p] = Bumped(@)]
  /\ queuedTotal' = TotalWithout(p)
  /\ SeekQueued(p, offset)

MessageThrow(w) ==
  /\ ~EachBatch
  /\ worker[w].pc = "busy"
  /\ Spend("fail")
  /\ IF Live(w)
     THEN RewindTo(worker[w].p, FirstEntry(w))
     ELSE UNCHANGED <<part, queuedTotal, seeks>>
  /\ worker' = Releasing(w)
  /\ UNCHANGED <<runVars, order, claimCursor, pendingSeeks, fetchVars, rebalance,
                 rdVars, done, excused>>

(* resolveOffset(o), called by a running eachBatch handler.                *)
ResolveOffset(w) ==
  /\ EachBatch
  /\ worker[w].pc = "busy"
  /\ \E o \in ToSet(worker[w].entries) :
       /\ StoredOffset(o) > worker[w].resolved
       /\ worker' = [worker EXCEPT ![w].resolved = StoredOffset(o)]
       /\ done' = [done EXCEPT ![worker[w].p] =
                     @ \union {x \in ToSet(worker[w].entries) : x <= o}]
       /\ IF Live(w)
          THEN Store(worker[w].p, StoredOffset(o), part[worker[w].p])
          ELSE UNCHANGED <<part, stored>>
  /\ UNCHANGED <<runVars, order, claimCursor, queuedTotal, pendingSeeks, fetchVars,
                 seeks, rebalance, assigned, rdPaused, pos, seeking, committed, left, excused>>

(* The unresolved part of a batch is fetched again.                        *)
BatchRest(w) == IF worker[w].resolved >= 0 THEN worker[w].resolved ELSE FirstEntry(w)

(* eachBatch returns: autoResolve resolves the last offset, anything still *)
(* unresolved is sought back to.                                           *)
BatchOk(w) ==
  LET p == worker[w].p
      unresolved == worker[w].resolved <= LastEntry(w)
  IN /\ EachBatch
     /\ worker[w].pc = "busy"
     /\ worker' = Releasing(w)
     /\ done' = IF AutoResolve
                THEN [done EXCEPT ![p] = @ \union ToSet(worker[w].entries)]
                ELSE done
     /\ CASE Live(w) /\ unresolved /\ AutoResolve ->
               Store(p, StoredOffset(LastEntry(w)), part[p]) /\ UNCHANGED <<queuedTotal, seeks>>
          [] Live(w) /\ unresolved /\ ~AutoResolve ->
               RewindTo(p, BatchRest(w)) /\ UNCHANGED stored
          [] OTHER -> UNCHANGED <<part, queuedTotal, seeks, stored>>
     /\ IF unresolved /\ ~AutoResolve THEN Spend("fail") ELSE UNCHANGED left
     /\ UNCHANGED <<runVars, order, claimCursor, pendingSeeks, fetchVars, rebalance,
                    assigned, rdPaused, pos, seeking, committed, excused>>

BatchThrow(w) ==
  /\ EachBatch
  /\ worker[w].pc = "busy"
  /\ Spend("fail")
  /\ worker' = Releasing(w)
  /\ IF Live(w) /\ worker[w].resolved <= LastEntry(w)
     THEN RewindTo(worker[w].p, BatchRest(w))
     ELSE UNCHANGED <<part, queuedTotal, seeks>>
  /\ UNCHANGED <<runVars, order, claimCursor, pendingSeeks, fetchVars, rebalance,
                 rdVars, done, excused>>

-----------------------------------------------------------------------------
(* Seeks.                                                                  *)

(* librdkafka answers PREV_IN_PROGRESS while an earlier seek is in flight; *)
(* the job is then retried from a timer if no newer rewind has bumped the  *)
(* epoch. Microtasks run in the order they were queued, before any timer.  *)
RunSeek(p) ==
  \E j \in seeks[p] :
    LET others == seeks[p] \ {j}
        open == connected /\ p \in assigned
        retry == j.attempt < MaxAttempts /\ part[p].epoch = j.epoch
    IN /\ \A k \in others : k.attempt = 0 => j.attempt = 0 /\ j.epoch < k.epoch
       /\ IF open /\ p \notin seeking
          THEN pos' = [pos EXCEPT ![p] = j.off] /\ seeking' = seeking \union {p}
          ELSE UNCHANGED <<pos, seeking>>
       /\ seeks' = [seeks EXCEPT ![p] = others \union
               (IF open /\ p \in seeking /\ retry
                THEN {SeekJob(j.off, j.epoch, j.attempt + 1)} ELSE {})]
       /\ UNCHANGED <<runVars, partVars, fetchVars, worker, rebalance, assigned,
                      rdPaused, stored, committed, history>>

(* librdkafka has completed the seek.                                      *)
SeekCompleted(p) ==
  /\ p \in seeking
  /\ seeking' = seeking \ {p}
  /\ UNCHANGED <<runVars, partVars, fetchVars, worker, seeks, rebalance, assigned,
                 rdPaused, pos, stored, committed, history>>

(* seek(): remembered for a partition that has no state, else a rewind and *)
(* (with autoCommit) a commit of the target.                               *)
Seek(p) ==
  \E o \in 0..LogEnd :
    /\ connected
    /\ Spend("seek")
    /\ excused' = [excused EXCEPT ![p] = @ \union Upto(o)]
    /\ IF Known(p)
       THEN /\ part' = [part EXCEPT ![p] = [Bumped(@) EXCEPT !.storedNext = o]]
            /\ queuedTotal' = TotalWithout(p)
            /\ SeekQueued(p, o)
            /\ committed' = IF AutoCommit THEN [committed EXCEPT ![p] = o] ELSE committed
            /\ UNCHANGED pendingSeeks
       ELSE /\ pendingSeeks' = [pendingSeeks EXCEPT ![p] = o]
            /\ UNCHANGED <<part, queuedTotal, seeks, committed>>
    /\ UNCHANGED <<runVars, order, claimCursor, fetchVars, worker, rebalance,
                   assigned, rdPaused, pos, seeking, stored, done>>

-----------------------------------------------------------------------------
(* Flow control and offset calls of the application.                       *)

Pause(p) ==
  LET s == part[p]
      next == NextUnprocessedOffset(s)
  IN /\ connected
     /\ p \in assigned
     /\ Spend("pause")
     /\ rdPaused' = [rdPaused EXCEPT ![p] = TRUE]
     /\ CASE ~Known(p) -> UNCHANGED <<part, queuedTotal, seeks>>
          [] Known(p) /\ next >= 0 ->
               /\ part' = [part EXCEPT ![p] = [Bumped(@) EXCEPT !.paused = TRUE]]
               /\ queuedTotal' = TotalWithout(p)
               /\ SeekQueued(p, next)
          [] Known(p) /\ next < 0 ->
               /\ part' = [part EXCEPT ![p] =
                             [BumpedKeepingQueue(@) EXCEPT !.paused = TRUE]]
               /\ UNCHANGED <<queuedTotal, seeks>>
     /\ UNCHANGED <<runVars, order, claimCursor, pendingSeeks, fetchVars, worker,
                    rebalance, assigned, pos, seeking, stored, committed, done, excused>>

Resume(p) ==
  /\ connected
  /\ p \in assigned /\ rdPaused[p]
  /\ rdPaused' = [rdPaused EXCEPT ![p] = FALSE]
  /\ part' = IF Known(p) THEN [part EXCEPT ![p].paused = FALSE] ELSE part
  /\ worker' = Signalled(worker)
  /\ UNCHANGED <<runVars, order, claimCursor, queuedTotal, pendingSeeks, fetchVars,
                 seeks, rebalance, assigned, pos, seeking, stored, committed, history>>

StoreOffsets(p) ==
  \E o \in 0..LogEnd :
    /\ connected
    /\ p \in assigned
    /\ Spend("store")
    /\ stored' = [stored EXCEPT ![p] = o]
    /\ part' = IF Known(p) THEN [part EXCEPT ![p].storedNext = o] ELSE part
    /\ excused' = [excused EXCEPT ![p] = @ \union Upto(o)]
    /\ UNCHANGED <<runVars, order, claimCursor, queuedTotal, pendingSeeks, fetchVars,
                   worker, seeks, rebalance, assigned, rdPaused, pos, seeking, committed, done>>

(* commitOffsets(), or librdkafka's auto commit: the stored offset.        *)
CommitOffsets(p) ==
  /\ connected
  /\ p \in assigned
  /\ stored[p] >= 0
  /\ Spend("commit")
  /\ committed' = [committed EXCEPT ![p] = stored[p]]
  /\ UNCHANGED <<runVars, partVars, fetchVars, worker, seeks, rebalance, assigned,
                 rdPaused, pos, seeking, stored, done, excused>>

-----------------------------------------------------------------------------
(* Rebalances. The user's callback is awaited between the two halves.      *)

Forgotten(S) ==
  [p \in Partitions |-> IF p \in S /\ Known(p) THEN Bumped(part[p]) ELSE part[p]]

(* The places of the queues of S that hold an entry, one for each entry.   *)
Queued(S) == UNION {{p} \X (1..Len(part[p].queue)) : p \in S}

ForgetPartitions(S) ==
  /\ part' = Forgotten(S)
  /\ order' = At(order, {i \in 1..Len(order) : order[i] \notin S})
  /\ queuedTotal' = queuedTotal - Cardinality(Queued({p \in S : Known(p)}))

RevokeEvent ==
  \E S \in SUBSET assigned \ {{}} :
    /\ connected
    /\ rebalance = None
    /\ Spend("rebalance")
    /\ ForgetPartitions(S)
    /\ rebalance' = [assign |-> FALSE, parts |-> S]
    /\ UNCHANGED <<runVars, claimCursor, pendingSeeks, fetchVars, worker, seeks,
                   rdVars, done, excused>>

AssignEvent ==
  \E S \in SUBSET (Partitions \ assigned) \ {{}} :
    /\ connected
    /\ rebalance = None
    /\ Spend("rebalance")
    /\ rebalance' = [assign |-> TRUE, parts |-> S]
    /\ UNCHANGED <<runVars, partVars, fetchVars, worker, seeks, rdVars, done, excused>>

(* assignFn: pending seeks become start offsets, else librdkafka starts    *)
(* from the committed offset (or the log's beginning).                     *)
AssignFn(S) ==
  LET sought == {p \in S : pendingSeeks[p] >= 0}
      start(p) == CASE p \in sought -> pendingSeeks[p]
                    [] p \notin sought /\ committed[p] >= 0 -> committed[p]
                    [] OTHER -> 0
  IN /\ assigned' = assigned \union S
     /\ pos' = [p \in Partitions |-> IF p \in S THEN start(p) ELSE pos[p]]
     /\ stored' = [p \in Partitions |-> IF p \in S THEN -1 ELSE stored[p]]
     /\ rdPaused' = [p \in Partitions |-> p \notin S /\ rdPaused[p]]
     /\ part' = [p \in Partitions |->
                   CASE p \in sought -> [Ensured(p) EXCEPT !.storedNext = pendingSeeks[p]]
                     [] p \in S \ sought -> Ensured(p)
                     [] OTHER -> part[p]]
     /\ order' = order \o SetToSeq({p \in S : ~Known(p)})
     /\ pendingSeeks' = [p \in Partitions |-> IF p \in S THEN -1 ELSE pendingSeeks[p]]
     /\ worker' = Signalled(worker)
     /\ UNCHANGED <<queuedTotal, committed, seeking>>

(* unassignFn: forget again what a late batch re-created, then unassign;   *)
(* librdkafka commits the stored offsets of what it gives up.              *)
UnassignFn(S) ==
  /\ ForgetPartitions(S)
  /\ assigned' = assigned \ S
  /\ committed' = [p \in Partitions |->
                     IF p \in S /\ AutoCommit /\ stored[p] >= 0
                     THEN stored[p] ELSE committed[p]]
  /\ stored' = [p \in Partitions |-> IF p \in S THEN -1 ELSE stored[p]]
  /\ seeking' = seeking \ S
  /\ UNCHANGED <<pos, rdPaused, pendingSeeks, worker>>

RebalanceDone ==
  /\ rebalance # None
  /\ connected
  /\ rebalance' = None
  /\ IF rebalance.assign THEN AssignFn(rebalance.parts) ELSE UnassignFn(rebalance.parts)
  /\ UNCHANGED <<runVars, claimCursor, fetchVars, seeks, history>>

-----------------------------------------------------------------------------
(* run(), stop(), disconnect(). The application awaits stop() before it    *)
(* calls run() again.                                                      *)

Run ==
  /\ connected /\ ~running /\ halting = "no"
  /\ handler' \in Handlers
  /\ running' = TRUE
  /\ runEpoch' = runEpoch + 1
  /\ Pump(TRUE, runEpoch + 1, pumpActive, queuedTotal)
  /\ worker' = [w \in Workers |-> Idle("ready")]
  /\ UNCHANGED <<connected, halting, partVars, answer, buffer, seeks, rebalance,
                 rdVars, history>>

(* The synchronous half of #haltRun.                                       *)
Halt(kind) ==
  /\ running
  /\ Spend("stop")
  /\ running' = FALSE
  /\ runEpoch' = runEpoch + 1
  /\ halting' = kind
  /\ worker' = Signalled(worker)
  /\ UNCHANGED <<connected, handler, partVars, fetchVars, seeks, rebalance, rdVars,
                 done, excused>>

Stop == Halt("stop")
Disconnect == Halt("disconnect")

NobodyWaiting == \A w \in Workers : worker[w].pc # "waiting"
WorkersLeft == \A w \in Workers : worker[w].pc = "off"

(* Every worker promise has settled: the other half of #haltRun, and for   *)
(* disconnect() the last commit and the end of the connection, which       *)
(* settles the waiting request.                                            *)
HaltDone ==
  /\ halting # "no"
  /\ WorkersLeft
  /\ part' = [p \in Partitions |-> IF Known(p) THEN Bumped(part[p]) ELSE part[p]]
  /\ queuedTotal' = 0
  /\ halting' = "no"
  /\ IF halting = "disconnect"
     THEN /\ connected' = FALSE
          /\ committed' = [p \in Partitions |->
               IF AutoCommit /\ p \in assigned /\ stored[p] >= 0
               THEN stored[p] ELSE committed[p]]
          /\ answer' = IF request = 0 THEN answer
                       ELSE [run |-> request,
                             batch |-> SubSeq(buffer, 1, Smallest(FetchChunk, Len(buffer)))]
          /\ request' = 0
          /\ buffer' = <<>>
     ELSE UNCHANGED <<connected, committed, answer, request, buffer>>
  /\ UNCHANGED <<running, runEpoch, handler, order, claimCursor, pendingSeeks, pumpActive,
                 worker, seeks, rebalance, assigned, rdPaused, pos, seeking, stored, history>>

-----------------------------------------------------------------------------
(* The consumer is connected and its first assignment has been applied.    *)
Init ==
  /\ connected = TRUE /\ running = FALSE /\ runEpoch = 0 /\ halting = "no"
  /\ handler \in Handlers
  /\ order = SetToSeq(Partitions)
  /\ part = [p \in Partitions |->
               FreshPart([epoch |-> 0])]
  /\ claimCursor = 0 /\ queuedTotal = 0
  /\ pendingSeeks = [p \in Partitions |-> -1]
  /\ pumpActive = FALSE /\ request = 0 /\ answer = None /\ buffer = <<>>
  /\ worker = [w \in Workers |-> Idle("off")]
  /\ seeks = [p \in Partitions |-> {}]
  /\ rebalance = None
  /\ assigned = Partitions
  /\ rdPaused = [p \in Partitions |-> FALSE]
  /\ pos = [p \in Partitions |-> 0]
  /\ seeking = {}
  /\ stored = [p \in Partitions |-> -1]
  /\ committed = [p \in Partitions |-> -1]
  /\ left \in Budgets
  /\ done = [p \in Partitions |-> {}]
  /\ excused = [p \in Partitions |-> {}]

HandlerSettles(w) == MessageOk(w) \/ MessageThrow(w) \/ BatchOk(w) \/ BatchThrow(w)

Next ==
  \/ PumpCallback \/ PollTick \/ RequestTimeout
  \/ \E w \in Workers : Wakeup(w) \/ Release(w) \/ HandlerSettles(w) \/ ResolveOffset(w)
  \/ \E p \in Partitions : RunSeek(p) \/ SeekCompleted(p) \/ Seek(p) \/ Pause(p) \/ Resume(p)
                           \/ StoreOffsets(p) \/ CommitOffsets(p)
  \/ RevokeEvent \/ AssignEvent \/ RebalanceDone
  \/ Run \/ Stop \/ Disconnect \/ HaltDone

Spec == Init /\ [][Next]_vars

(* The event loop runs every queued callback, librdkafka hands over what   *)
(* it has fetched, handlers settle and the user's rebalance callback       *)
(* returns. Nothing is assumed of the calls of the application.            *)
Fairness ==
  /\ WF_vars(PumpCallback) /\ WF_vars(PollTick) /\ WF_vars(RequestTimeout)
  /\ \A w \in Workers : /\ WF_vars(Wakeup(w)) /\ WF_vars(Release(w))
                        /\ WF_vars(HandlerSettles(w))
  /\ \A p \in Partitions : WF_vars(RunSeek(p)) /\ WF_vars(SeekCompleted(p))
  /\ WF_vars(RebalanceDone) /\ WF_vars(HaltDone)

FairSpec == Spec /\ Fairness
RunningSpec == FairSpec /\ WF_vars(Run)

-----------------------------------------------------------------------------
(* Type invariant.                                                         *)

Entry == [off : Offsets, epoch : Nat]
PartitionState ==
  [epoch : Nat, born : Nat, queue : Seq(Entry), claimed : BOOLEAN,
   paused : BOOLEAN, storedNext : Nat \union {-1}]
Message == Partitions \X Offsets
WorkerState ==
  [pc : {"off", "ready", "waiting", "busy", "release"},
   p : Partitions \union {None}, born : Nat, epoch : Nat, entries : Seq(Offsets),
   resolved : Nat \union {-1}, turn : Nat]

TypeOK ==
  /\ connected \in BOOLEAN /\ running \in BOOLEAN /\ runEpoch \in Nat
  /\ halting \in {"no", "stop", "disconnect"} /\ handler \in HandlerKinds
  /\ order \in Seq(Partitions)
  /\ part \in [Partitions -> PartitionState]
  /\ claimCursor \in Nat /\ queuedTotal \in Nat
  /\ pendingSeeks \in [Partitions -> Nat \union {-1}]
  /\ pumpActive \in BOOLEAN /\ request \in Nat
  /\ answer \in {None} \union [run : Nat, batch : Seq(Message)]
  /\ buffer \in Seq(Message)
  /\ worker \in [Workers -> WorkerState]
  /\ seeks \in [Partitions -> SUBSET [off : Nat, epoch : Nat, attempt : Nat]]
  /\ rebalance \in {None} \union [assign : BOOLEAN, parts : SUBSET Partitions]
  /\ assigned \in SUBSET Partitions
  /\ rdPaused \in [Partitions -> BOOLEAN]
  /\ pos \in [Partitions -> Nat]
  /\ seeking \in SUBSET Partitions
  /\ stored \in [Partitions -> Nat \union {-1}]
  /\ committed \in [Partitions -> Nat \union {-1}]
  /\ left \in [Events -> Nat]
  /\ done \in [Partitions -> SUBSET Offsets]
  /\ excused \in [Partitions -> SUBSET Offsets]

-----------------------------------------------------------------------------
(* Safety.                                                                 *)

(* #queuedTotal is the number of entries in all queues: every place that   *)
(* drops or takes entries accounts for them. A drift stops the pump for    *)
(* good (or lets the queues grow without bound).                           *)
QueuedTotalExact ==
  queuedTotal = Cardinality(Queued(Partitions))

(* Backpressure: the queues never hold more than one chunk over the cap,   *)
(* however requests, rewinds and halts interleave.                         *)
QueueBounded == queuedTotal < MaxQueued + FetchChunk

(* No queue ever holds an entry of another epoch than its partition's:     *)
(* whatever bumps an epoch also empties the queue.                         *)
QueueIsCurrent ==
  \A p \in Partitions : \A i \in 1..Len(part[p].queue) :
    part[p].queue[i].epoch = part[p].epoch

(* A claim is held by exactly one worker and is given up with its turn: a  *)
(* leaked claim would silence the partition, a shared one would run two    *)
(* handlers on it.                                                         *)
Holders(p) ==
  {w \in Workers : /\ worker[w].pc \in {"busy", "release"}
                   /\ worker[w].p = p /\ worker[w].born = part[p].born}
ClaimHeldByOneWorker ==
  \A p \in Partitions : Known(p) =>
    Cardinality(Holders(p)) = IF part[p].claimed THEN 1 ELSE 0

(* No lost wake-up: no worker sleeps while a partition could be claimed.   *)
NoLostWakeup ==
  running /\ (\E w \in Workers : worker[w].pc = "waiting")
    => \A p \in Partitions : Known(p) => ~Claimable(part[p])

(* The pump chains itself: when every worker sleeps and the queues are     *)
(* below half the cap, a fetch is outstanding (consumer.ts:15-18).         *)
PumpNeverStalls ==
  running /\ (\A w \in Workers : worker[w].pc = "waiting")
          /\ 2 * queuedTotal < MaxQueued
    => pumpActive

(* One fetch at a time, and #pumpActive says so.                           *)
OneFetchAtATime ==
  /\ pumpActive <=> request # 0 \/ answer # None
  /\ request = 0 \/ answer = None

(* stop() has returned: no handler is left running, no message is queued.  *)
StopMeansStopped ==
  ~running /\ halting = "no"
    => /\ \A w \in Workers : worker[w].pc = "off"
       /\ \A p \in Partitions : part[p].queue = <<>>

Processed(p) == done[p] \union excused[p]
StoresProcessed(p) == Upto(stored[p]) \subseteq Processed(p)

(* At least once: every offset below the stored one was processed, or the  *)
(* application asked to jump over it (consumer.ts:29-40).                  *)
AtLeastOnce == \A p \in Partitions : StoresProcessed(p)

Busy(w, p) == worker[w].pc = "busy" /\ worker[w].p = p
InOrder(w, p) == Busy(w, p) => Upto(FirstEntry(w)) \subseteq Processed(p)

(* Absolute per-partition ordering (consumer.ts:22): a handler is given an *)
(* offset only after every earlier one was processed or jumped over.       *)
DeliveredInOrder == \A p \in Partitions, w \in Workers : InOrder(w, p)

(* #parts holds only currently assigned partitions (consumer.ts:391).      *)
PartsAreAssigned == \A p \in Partitions : Known(p) => p \in assigned

Alone(p) == \A v, w \in Workers : Busy(v, p) /\ Busy(w, p) => v = w

(* A worker claims one partition exclusively (consumer.ts:18-20): no two   *)
(* handlers run on one partition.                                          *)
ExclusiveHandlers == \A p \in Partitions : Alone(p)

(* A message mid-processing does not count as processed: a pause during    *)
(* its handler seeks back to it or before it (consumer.ts:41-43).          *)
PauseSeeksBackToInFlight ==
  [][\A p \in Partitions, w \in Workers :
       rdPaused'[p] /\ ~rdPaused[p] /\ worker[w].pc = "busy" /\ worker[w].p = p /\ Live(w)
         => \E j \in seeks'[p] : j.epoch = part'[p].epoch /\ j.off <= FirstEntry(w)]_vars

(* A seek is retried only while no newer rewind has replaced its target    *)
(* (consumer.ts:862-863): a seek that takes effect is the newest's.        *)
SeekAppliedIsNewest ==
  [][\A p \in Partitions : \A j \in seeks[p] \ seeks'[p] :
       j.attempt > 0 /\ p \in seeking' \ seeking => j.epoch = part[p].epoch]_vars

(* The queues stay counted, bounded and current, whatever empties them.    *)
(* (#route, #take, #rewind, #forgetPartitions, #haltRun.)                  *)
QueueConsistent == QueuedTotalExact /\ QueueBounded /\ QueueIsCurrent

(* Workers and pump hand work over without losing it or doing it twice,    *)
(* and stop() leaves neither at work.                                      *)
(* (#worker, #signal, #claimNext, #pump, #haltRun.)                        *)
WorkersConsistent ==
  ClaimHeldByOneWorker /\ NoLostWakeup /\ OneFetchAtATime /\ StopMeansStopped

Undisturbed(p) == part[p].epoch = 0

(* Until a partition is first rewound, revoked or halted, whatever happens *)
(* to the others: its offsets are handled in order and by one handler at a *)
(* time, and none is stored past an unprocessed one.                       *)
(* (#claimNext, #processMessages, #processBatch, #store.)                  *)
ProcessedInOrder ==
  \A p \in Partitions : Undisturbed(p) =>
    StoresProcessed(p) /\ (\A w \in Workers : InOrder(w, p)) /\ Alone(p)

-----------------------------------------------------------------------------
(* Liveness.                                                               *)

(* The first run() ends up having processed the whole log, whatever a      *)
(* handler threw or left unresolved, unless it is stopped.                 *)
EverythingProcessed ==
  <>[](\/ \A p \in Partitions : Offsets \subseteq done[p] \union excused[p]
       \/ runEpoch > 1)

(* stop() returns: no worker is left asleep or unsettled.                  *)
StopReturns == halting # "no" ~> halting = "no"

(* A run goes on to the end of the log, or to the end of its stop().       *)
(* (#pump, #worker, #rewind, #haltRun.)                                    *)
RunsAndStops == EverythingProcessed /\ StopReturns

=============================================================================

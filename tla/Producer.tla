------------------------------ MODULE Producer ------------------------------
(***************************************************************************)
(* The callback producer (callback/producer.ts) with its delivery ledger   *)
(* (core/delivery-ledger.ts): produce() stages records, a microtask hands  *)
(* them to librdkafka in one batch, and delivery reports come back through *)
(* the poll rounds. A record is its opaque id.                             *)
(*                                                                         *)
(* Every outcome is reported by calling into the application, which may    *)
(* call the producer again, or throw, from inside that callback. `stack`   *)
(* holds the calls of the producer that are under way, innermost last.     *)
(***************************************************************************)
EXTENDS Selection, Integers, Sequences, FiniteSets, SequencesExt

CONSTANTS
  MaxPending,   \* js.producer.max.pending
  StagingMax,   \* STAGING_MAX_RECORDS
  ErrOutSize,   \* length of a new client's produceErrOut
  MaxRecords,   \* bound: calls of produce() that track a record
  MaxDepth,     \* bound: calls of the producer nested in one another
  Budgets       \* bounds: how often the environment may do each thing in a run

Events ==
  {"throw",     \* a callback or listener throws
   "headers",   \* produce() is given headers it refuses
   "refuse",    \* librdkafka refuses records, or the whole batch
   "metadata",  \* the first metadata request of connect() fails
   "connect", "disconnect", "flush", "poll",
   "closeInside"}  \* disconnect() from inside a callback

ASSUME ConstantsAssumption ==
  /\ MaxPending \in Nat \ {0} /\ StagingMax \in Nat \ {0} /\ ErrOutSize \in Nat
  /\ MaxRecords \in Nat /\ MaxDepth \in Nat
  /\ Budgets \subseteq [Events -> Nat]

VARIABLES
  phase,         \* of the native handle: "none", "connecting" or "ready"
  session,       \* identity of that handle
  errOut,        \* the arrays that have been a client's produceErrOut: see ErrArray
  ledger,        \* ids of the entries, which a Map keeps in order of id
  nextId,        \* nextIdValue
  staging, scheduled,   \* staging, stagingScheduled
  microtasks,    \* flushStaging() calls in the microtask queue
  pendingError,  \* pendingProduceError is set
  outq, reports, \* librdkafka: records under way, delivery reports to poll
  stack,         \* see Frame
  flush,         \* the latest flush(): see Flush
  left,          \* what is left of the budget
  called,        \* times each record's callback was called
  handed,        \* records librdkafka accepted, in order
  lost           \* records whose outcome an exception, a failed connect() or an
                 \* overwritten error code kept from being reported

client == <<phase, session, errOut, ledger, nextId, staging, scheduled, microtasks,
            pendingError, stack, flush>>
rdkafka == <<outq, reports>>
history == <<left, called, handed, lost>>
vars == <<client, rdkafka, history>>

Ids == 1..MaxRecords
Open == phase # "none"
Spend(event) == left[event] > 0 /\ left' = [left EXCEPT ![event] = @ - 1]

-----------------------------------------------------------------------------
(* A call under way: the steps to come, what the loop it is in does with   *)
(* the outcomes it still has to report, and whether a callback is running. *)
(* A loop over a batch has read so many codes of an array of errOut.       *)

Outcome(id, ok) == [id |-> id, ok |-> ok]
Failures(ids) == [i \in 1..Len(ids) |-> Outcome(ids[i], FALSE)]
IdsOf(outcomes) == {outcomes[i].id : i \in 1..Len(outcomes)}

(* What a call is to report: of a batch, only the records refused.         *)
Due(frame) ==
  {frame.todo[i].id : i \in
     {j \in 1..Len(frame.todo) : frame.loop = "batch" => ~frame.todo[j].ok}}

Top == stack[Len(stack)]
Below == SubSeq(stack, 1, Len(stack) - 1)
Quiet == stack = <<>>

NewErrOut(size) == [size |-> size, refused |-> {}]

(* The application runs: in a task of its own, or in a callback.           *)
AppRuns == Len(stack) < MaxDepth /\ (stack # <<>> => Top.inCallback)

Call(steps) ==
  stack' = Append(stack, [steps |-> steps, loop |-> "none", todo |-> <<>>,
                          view |-> 0, read |-> 0,
                          begun |-> FALSE, inCallback |-> FALSE])

(* The next step of the innermost call starts a loop over todo.            *)
LoopWith(view, kind, todo) ==
  stack' = Append(Below, [steps |-> Tail(Top.steps), loop |-> kind, todo |-> todo,
                          view |-> view, read |-> 0,
                          begun |-> FALSE, inCallback |-> FALSE])
Loop(kind, todo) == LoopWith(0, kind, todo)

AtStep(step) ==
  ~Quiet /\ Top.todo = <<>> /\ Top.steps # <<>> /\ Head(Top.steps) = step

(* What flushStaging() does after a failed record's callback returned.     *)
AfterCallback ==
  pendingError' = \/ pendingError
                  \/ Top.loop = "batch" /\ Top.begun
                  \/ Top.loop = "failed" /\ Top.todo = <<>>

-----------------------------------------------------------------------------
(* produce().                                                              *)

(* An error of an earlier record is thrown instead.                        *)
ProduceThrowsPending ==
  /\ AppRuns /\ Open
  /\ pendingError
  /\ pendingError' = FALSE
  /\ UNCHANGED <<phase, session, errOut, ledger, nextId, staging, scheduled,
                 microtasks, stack, flush, rdkafka, history>>

FullLate == Cardinality(ledger) > MaxPending
Full == Cardinality(ledger) >= MaxPending

Track ==
  /\ AppRuns /\ Open /\ ~pendingError
  /\ ~Full
  /\ nextId <= MaxRecords
  /\ ledger' = ledger \union {nextId}
  /\ nextId' = nextId + 1

Produce ==
  /\ Track
  /\ staging' = Append(staging, nextId)
  /\ IF Len(staging') >= StagingMax
     THEN Call(<<"flush">>) /\ UNCHANGED <<scheduled, microtasks>>
     ELSE /\ scheduled' = TRUE
          /\ microtasks' = IF scheduled THEN microtasks ELSE microtasks + 1
          /\ UNCHANGED stack
  /\ UNCHANGED <<phase, session, errOut, pendingError, flush, rdkafka, history>>

(* The headers are looked at after track(): the entry stays.               *)
ProduceBadHeaders ==
  /\ Track
  /\ Spend("headers")
  /\ lost' = lost \union {nextId}
  /\ UNCHANGED <<phase, session, errOut, staging, scheduled, microtasks,
                 pendingError, stack, flush, rdkafka, called, handed>>

-----------------------------------------------------------------------------
(* flushStaging().                                                         *)

KeepsScheduled == scheduled
Unscheduled == FALSE

StagingKept == staging
StagingTaken == <<>>

(* The handle is gone: every staged record fails.                          *)
ForgetStaged == <<>>
ClosedFailures == Failures(staging)

FlushClosed ==
  /\ ~Open
  /\ Loop("closed", ClosedFailures)
  /\ UNCHANGED <<errOut, outq, handed, left>>

(* brk_produce_batch() writes a code for each of n records, those at R     *)
(* refused, into produceErrOut: the array of the last batch, unless it is  *)
(* too short. What produceBatch() returns is a view of it.                 *)
ErrOutFor(n) ==
  LET last == errOut[Len(errOut)]
  IN IF n <= last.size THEN errOut
     ELSE Append(errOut, NewErrOut(IF n < 2 * last.size THEN 2 * last.size ELSE n))

WriteCodes(n, R) ==
  LET arrays == ErrOutFor(n)
  IN errOut' = [arrays EXCEPT ![Len(arrays)].refused = (@ \ (1..n)) \union R]

(* librdkafka takes the batch and refuses the records at the indices R.    *)
FlushBatch ==
  \E R \in SUBSET DOMAIN staging :
    LET taken == At(staging, DOMAIN staging \ R)
    IN /\ Open
       /\ IF R = {} THEN UNCHANGED left ELSE Spend("refuse")
       /\ outq' = outq \union ToSet(taken)
       /\ handed' = handed \o taken
       /\ IF staging = <<>>
          THEN Loop("none", <<>>) /\ UNCHANGED errOut
          ELSE /\ WriteCodes(Len(staging), R)
               /\ LoopWith(Len(errOut'), "batch",
                           [i \in DOMAIN staging |-> Outcome(staging[i], i \notin R)])

(* The batch cannot be encoded: nothing of it is enqueued.                 *)
FlushFails ==
  /\ Open /\ staging # <<>>
  /\ Spend("refuse")
  /\ Loop("failed", Failures(staging))
  /\ UNCHANGED <<errOut, outq, handed>>

FlushStaging ==
  /\ AtStep("flush")
  /\ AfterCallback
  /\ scheduled' = Unscheduled
  /\ staging' = StagingTaken
  /\ FlushClosed \/ FlushBatch \/ FlushFails
  /\ UNCHANGED <<phase, session, ledger, nextId, microtasks, flush, reports, called,
                 lost>>

-----------------------------------------------------------------------------
(* Outcomes: settleAll() over polled reports, fail() over a batch,         *)
(* failAll(). Only failAll() has taken its entries out of the ledger       *)
(* before; a report without an entry is ignored.                           *)

EntryKept(id) == ledger
EntryRemoved(id) == ledger \ {id}

(* The code of the next record of the batch, as it is by now: a batch      *)
(* handed over in a callback since may have been written over it.          *)
CodeIsError == Top.read + 1 \in errOut[Top.view].refused

SettleNext ==
  LET o == Head(Top.todo)
      calls == Top.loop = "destroy" \/ o.id \in ledger
  IN /\ ~Quiet /\ Top.todo # <<>>
     /\ Top.loop = "batch" => CodeIsError
     /\ AfterCallback
     /\ ledger' = EntryRemoved(o.id)
     /\ called' = IF calls THEN [called EXCEPT ![o.id] = @ + 1] ELSE called
     /\ stack' = Append(Below, [Top EXCEPT !.todo = Tail(@), !.read = @ + 1,
                                           !.begun = TRUE, !.inCallback = calls])
     /\ UNCHANGED <<phase, session, errOut, nextId, staging, scheduled, microtasks,
                    flush, rdkafka, left, handed, lost>>

(* A record whose code is 0 is passed over, for its report will come; none *)
(* will if the code was that of another batch's record.                    *)
PassOver ==
  LET o == Head(Top.todo)
  IN /\ ~Quiet /\ Top.todo # <<>>
     /\ Top.loop = "batch" /\ ~CodeIsError
     /\ AfterCallback
     /\ lost' = IF o.ok THEN lost ELSE lost \union {o.id}
     /\ stack' = Append(Below, [Top EXCEPT !.todo = Tail(@), !.read = @ + 1,
                                           !.begun = FALSE, !.inCallback = FALSE])
     /\ UNCHANGED <<phase, session, errOut, ledger, nextId, staging, scheduled,
                    microtasks, flush, rdkafka, left, called, handed>>

(* The callback, or another listener of the round, throws. runOnce() takes *)
(* the exception and the rest of the polled events is gone; any other loop *)
(* ends with the call it belongs to.                                       *)
Throw ==
  /\ ~Quiet
  /\ Top.inCallback \/ (Top.loop = "round" /\ Top.todo # <<>>)
  /\ Spend("throw")
  /\ lost' = lost \union Due(Top)
  /\ IF Top.loop = "round"
     THEN stack' = Append(Below, [Top EXCEPT !.todo = <<>>, !.inCallback = FALSE,
                                             !.loop = "none"])
     ELSE stack' = Below
  /\ flush' = IF Top.loop # "round" /\ "check" \in ToSet(Top.steps)
              THEN [flush EXCEPT !.state = "silent"] ELSE flush
  /\ UNCHANGED <<phase, session, errOut, ledger, nextId, staging, scheduled,
                 microtasks, pendingError, rdkafka, called, handed>>

(* The last step of the innermost call is done.                            *)
Return ==
  /\ ~Quiet /\ Top.todo = <<>> /\ Top.steps = <<>>
  /\ AfterCallback
  /\ stack' = Below
  /\ UNCHANGED <<phase, session, errOut, ledger, nextId, staging, scheduled,
                 microtasks, flush, rdkafka, history>>

-----------------------------------------------------------------------------
(* The event loop: the staging microtask, and the scheduler's poll rounds  *)
(* (runOnce() to pump() to the ledger).                                    *)

RunMicrotask ==
  /\ Quiet
  /\ microtasks > 0
  /\ microtasks' = microtasks - 1
  /\ Call(<<"flush">>)
  /\ UNCHANGED <<phase, session, errOut, ledger, nextId, staging, scheduled,
                 pendingError, flush, rdkafka, history>>

Tick ==
  /\ Quiet
  /\ Open /\ reports # <<>>
  /\ Call(<<"round">>)
  /\ UNCHANGED <<phase, session, errOut, ledger, nextId, staging, scheduled,
                 microtasks, pendingError, flush, rdkafka, history>>

(* One FFI call drains reports, as many as fit.                            *)
Round ==
  \E n \in 0..Len(reports) :
    /\ AtStep("round")
    /\ AfterCallback
    /\ n = 0 <=> reports = <<>>
    /\ reports' = SubSeq(reports, n + 1, Len(reports))
    /\ Loop("round", SubSeq(reports, 1, n))
    /\ UNCHANGED <<phase, session, errOut, ledger, nextId, staging, scheduled,
                   microtasks, flush, outq, history>>

(* librdkafka: a record is delivered, or given up (message.timeout.ms).    *)
Deliver ==
  \E id \in outq, ok \in BOOLEAN :
    /\ outq' = outq \ {id}
    /\ reports' = Append(reports, Outcome(id, ok))
    /\ UNCHANGED <<client, history>>

Poll ==
  /\ AppRuns
  /\ Spend("poll")
  /\ Call(<<"flush", "round">>)
  /\ UNCHANGED <<phase, session, errOut, ledger, nextId, staging, scheduled,
                 microtasks, pendingError, flush, rdkafka, called, handed, lost>>

-----------------------------------------------------------------------------
(* flush(): answered from a step that runs every FLUSH_POLL_STEP_MS.       *)

FlushCall ==
  /\ AppRuns /\ Open /\ flush.state # "waiting"
  /\ Spend("flush")
  /\ Call(<<"flush", "register">>)
  /\ UNCHANGED <<phase, session, errOut, ledger, nextId, staging, scheduled,
                 microtasks, pendingError, flush, rdkafka, called, handed, lost>>

FlushRegisters ==
  /\ AtStep("register")
  /\ AfterCallback
  /\ Loop("none", <<>>)
  /\ flush' = IF Open THEN [state |-> "waiting", session |-> session, below |-> nextId]
              ELSE [flush EXCEPT !.state = "notConnected"]
  /\ UNCHANGED <<phase, session, errOut, ledger, nextId, staging, scheduled,
                 microtasks, rdkafka, history>>

SameHandle == Open /\ flush.session = session

FlushStepIfOpen ==
  /\ Quiet
  /\ flush.state = "waiting" /\ SameHandle
  /\ Call(<<"flush", "round", "check">>)
  /\ UNCHANGED <<phase, session, errOut, ledger, nextId, staging, scheduled,
                 microtasks, pendingError, flush, rdkafka, history>>
FlushStep ==
  /\ Quiet
  /\ flush.state = "waiting"
  /\ IF SameHandle
     THEN Call(<<"flush", "round", "check">>) /\ UNCHANGED flush
     ELSE flush' = [flush EXCEPT !.state = "notConnected"] /\ UNCHANGED stack
  /\ UNCHANGED <<phase, session, errOut, ledger, nextId, staging, scheduled,
                 microtasks, pendingError, rdkafka, history>>

NothingToPoll == reports = <<>>
Drained == outq = {} /\ reports = <<>> /\ ledger = {}

(* outqLen() of a handle closed by a callback of this very step throws.    *)
FlushChecks ==
  /\ AtStep("check")
  /\ AfterCallback
  /\ Loop("none", <<>>)
  /\ \E timeout \in BOOLEAN :
       flush' = [flush EXCEPT !.state =
                   CASE ~SameHandle -> "silent"
                     [] SameHandle /\ Drained -> "ok"
                     [] SameHandle /\ ~Drained /\ timeout -> "timedOut"
                     [] OTHER -> "waiting"]
  /\ UNCHANGED <<phase, session, errOut, ledger, nextId, staging, scheduled,
                 microtasks, rdkafka, history>>

-----------------------------------------------------------------------------
(* connect() and disconnect().                                             *)

Connect ==
  /\ AppRuns /\ ~Open
  /\ Spend("connect")
  /\ phase' = "connecting"
  /\ session' = session + 1
  /\ errOut' = Append(errOut, NewErrOut(ErrOutSize))
  /\ UNCHANGED <<ledger, nextId, staging, scheduled, microtasks, pendingError,
                 stack, flush, rdkafka, called, handed, lost>>

Ready ==
  /\ Quiet /\ phase = "connecting"
  /\ phase' = "ready"
  /\ UNCHANGED <<session, errOut, ledger, nextId, staging, scheduled, microtasks,
                 pendingError, stack, flush, rdkafka, history>>

Teardown == phase' = "none" /\ outq' = {} /\ reports' = <<>>

(* The base class tears the handle down: the ledger is not told.           *)
ConnectFails ==
  /\ Quiet /\ phase = "connecting"
  /\ Spend("metadata")
  /\ Teardown
  /\ lost' = lost \union outq \union IdsOf(reports)
  /\ UNCHANGED <<session, errOut, ledger, nextId, staging, scheduled, microtasks,
                 pendingError, stack, flush, called, handed>>

Disconnect ==
  /\ AppRuns
  /\ Spend(IF Quiet THEN "disconnect" ELSE "closeInside")
  /\ Call(IF Open THEN <<"flush", "round", "close">> ELSE <<"close">>)
  /\ UNCHANGED <<phase, session, errOut, ledger, nextId, staging, scheduled,
                 microtasks, pendingError, flush, rdkafka, called, handed, lost>>

(* failAll(): the ledger is cleared, then every entry is rejected.         *)
FailNone == <<>>
FailedEntries == Ascending(ledger)

Close ==
  /\ AtStep("close")
  /\ AfterCallback
  /\ Teardown
  /\ ledger' = ledger \ ToSet(FailedEntries)
  /\ Loop("destroy", Failures(FailedEntries))
  /\ UNCHANGED <<session, errOut, nextId, staging, scheduled, microtasks, flush,
                 history>>

-----------------------------------------------------------------------------
Init ==
  /\ phase = "none" /\ session = 0 /\ errOut = <<>>
  /\ ledger = {} /\ nextId = 1
  /\ staging = <<>> /\ scheduled = FALSE /\ microtasks = 0 /\ pendingError = FALSE
  /\ outq = {} /\ reports = <<>>
  /\ stack = <<>>
  /\ flush = [state |-> "none", session |-> 0, below |-> 1]
  /\ left \in Budgets
  /\ called = [id \in Ids |-> 0]
  /\ handed = <<>> /\ lost = {}

Continue ==
  \/ FlushStaging \/ SettleNext \/ PassOver \/ Round
  \/ FlushRegisters \/ FlushChecks \/ Close \/ Return

Next ==
  \/ ProduceThrowsPending \/ Produce \/ ProduceBadHeaders
  \/ Poll \/ FlushCall \/ Connect \/ Disconnect
  \/ Continue \/ Throw
  \/ RunMicrotask \/ Tick \/ FlushStep \/ Ready \/ ConnectFails
  \/ Deliver

Spec == Init /\ [][Next]_vars

(* Callbacks return, the event loop runs what is queued, and librdkafka    *)
(* gives every record an outcome. Nothing is assumed of the application.   *)
FairSpec ==
  /\ Spec
  /\ WF_vars(Continue) /\ WF_vars(RunMicrotask) /\ SF_vars(Tick) /\ SF_vars(FlushStep)
  /\ WF_vars(Deliver)

-----------------------------------------------------------------------------
Steps == {"flush", "round", "check", "register", "close"}
Report == [id : Ids, ok : BOOLEAN]
Frame ==
  [steps : Seq(Steps), loop : {"none", "closed", "batch", "failed", "round", "destroy"},
   todo : Seq(Report), view : Nat, read : Nat, begun : BOOLEAN, inCallback : BOOLEAN]
ErrArray == [size : Nat, refused : SUBSET Nat]
Flush ==
  [state : {"none", "waiting", "ok", "timedOut", "notConnected", "silent"},
   session : Nat, below : Nat]

TypeOK ==
  /\ phase \in {"none", "connecting", "ready"} /\ session \in Nat
  /\ errOut \in Seq(ErrArray) /\ (Open => errOut # <<>>)
  /\ ledger \in SUBSET Ids /\ Cardinality(ledger) <= MaxPending
  /\ nextId \in 1..(MaxRecords + 1)
  /\ staging \in Seq(Ids) /\ scheduled \in BOOLEAN /\ microtasks \in Nat
  /\ pendingError \in BOOLEAN
  /\ outq \in SUBSET Ids /\ reports \in Seq(Report)
  /\ stack \in Seq(Frame)
  /\ flush \in Flush
  /\ left \in [Events -> Nat]
  /\ called \in [Ids -> Nat]
  /\ handed \in Seq(Ids)
  /\ lost \in SUBSET Ids

-----------------------------------------------------------------------------
(* Safety.                                                                 *)

(* Whatever callbacks do, nest or throw, across disconnect and reconnect,  *)
(* each record's outcome is reported at most once.                         *)
CalledAtMostOnce == \A id \in Ids : called[id] <= 1

(* Where the outcomes of the ledger's entries are to come from.            *)
InTodo == UNION {Due(stack[i]) : i \in 1..Len(stack)}
Awaiting == ToSet(staging) \union outq \union IdsOf(reports) \union InTodo

(* The ledger holds the records that await a report: staged or handed to   *)
(* librdkafka (producer.ts:605).                                           *)
LedgerIsAwaiting == ledger \subseteq Awaiting

(* Only an exception, a failed connect() or an overwritten error code      *)
(* makes the ledger forget where an entry's outcome is to come from.       *)
NothingForgotten == ledger \subseteq Awaiting \union lost

(* librdkafka gets the records in the order of the produce() calls, each   *)
(* once, however flushes nest (producer.ts:13-15).                         *)
HandedInOrder ==
  \A i, j \in 1..Len(handed) : i < j => handed[i] < handed[j]

(* Once disconnect() has returned, no entry waits for a report that cannot *)
(* come any more (producer.ts:628).                                        *)
ClosedMeansSettled ==
  phase = "none" /\ Quiet => ledger \subseteq ToSet(staging) \union lost

(* flush() answers without error only after every record produced before   *)
(* it was reported (producer.ts:560-562).                                  *)
FlushMeansReported ==
  flush.state = "ok" =>
    \A id \in Ids : id < flush.below => called[id] = 1 \/ id \in lost

(* The codes that flushStaging() reads are those of its records: 0 for one *)
(* that is enqueued (native-client.ts:149).                                *)
CodesAreOfTheBatch ==
  ~Quiet /\ Top.loop = "batch" /\ Top.todo # <<>> => (CodeIsError <=> ~Head(Top.todo).ok)

(* One report for each record: called at most once, never forgotten but by *)
(* an exception, a failed connect() or an overwritten code, settled when   *)
(* the producer closes and before flush() answers (delivery-ledger.ts,     *)
(* flushStaging(), disconnect(), flush()).                                 *)
ReportedOnce ==
  CalledAtMostOnce /\ NothingForgotten /\ ClosedMeansSettled /\ FlushMeansReported

-----------------------------------------------------------------------------
(* Liveness.                                                               *)

(* Every record's callback is called, delivered, failed or disconnected,   *)
(* unless its outcome is lost (see lost). There are MaxRecords of them, so  *)
(* at last none waits.                                                     *)
EveryRecordReported ==
  <>[](\A id \in Ids : id < nextId => called[id] = 1 \/ id \in lost)

(* flush() calls back, unless an exception leaves its step; its deadline   *)
(* need only help when a record's outcome is lost.                         *)
FlushReturns ==
  flush.state = "waiting" ~> flush.state # "waiting" \/ ledger \intersect lost # {}

(* Records and flush() calls all come to an end, across callbacks that     *)
(* throw, disconnect() and reconnects (flush(), disconnect(), settle()).   *)
EverythingReported == EveryRecordReported /\ FlushReturns

=============================================================================

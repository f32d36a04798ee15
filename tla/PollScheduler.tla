--------------------------- MODULE PollScheduler ---------------------------
(***************************************************************************)
(* The heartbeat of a client (core/poll-scheduler.ts): who polls           *)
(* librdkafka next, and when. Nothing else calls into JavaScript, so a     *)
(* client whose heartbeat stops is dead, and one with two heartbeats       *)
(* polls from two chains.                                                  *)
(*                                                                         *)
(* poll() dispatches events to listeners, and a listener may call the      *)
(* scheduler again: kick(), stop(), start() and runOnce() are therefore    *)
(* enabled at any time, inside a poll too.                                 *)
(***************************************************************************)
EXTENDS Integers, Sequences

CONSTANTS
  None,            \* an empty timer or immediate slot
  IdleMin, IdleMax, ColdInterval,   \* idleMinMs, idleMaxMs, coldIntervalMs
  MacrotaskEvery,  \* macrotaskEvery
  HasImmediate,    \* the timers offer setImmediate
  MayBeCold,       \* isCold() may answer true (false: a subscribed consumer)
  MaxNested,       \* bound: runOnce() calls under way at a time
  MaxEpoch         \* bound: calls of kick() and stop()

(* Every client keeps idleMinMs = 1; the other two come from its config.   *)
ASSUME ConstantsAssumption ==
  /\ IdleMin \in Nat \ {0} /\ IdleMax \in Nat /\ IdleMin <= IdleMax
  /\ ColdInterval \in Nat /\ (ColdInterval = 0 \/ IdleMin <= ColdInterval)
  /\ MacrotaskEvery \in Nat \ {0}
  /\ HasImmediate \in BOOLEAN /\ MayBeCold \in BOOLEAN
  /\ MaxNested \in Nat /\ MaxEpoch \in Nat
  /\ None \notin [epoch : Nat, ms : Nat] /\ None \notin Nat

VARIABLES
  phase,    \* "STOPPED", "HOT", "WARM" or "COLD"
  delay,    \* ms until the next round, when WARM
  recent,   \* the last non-empty poll is less than idleHoldMs ago
  cb,       \* the callbacks scheduled: see Callbacks
  ticking,  \* a scheduled tick is inside poll()
  manual,   \* runOnce() calls of the application or a listener inside poll()
  burst,    \* polls since the event loop last reached its macrotasks
  deferrals,\* calls of start() and kick() since then
  escaped   \* history: onError threw out of a tick with nothing scheduled

vars == <<phase, delay, recent, cb, ticking, manual, burst, deferrals, escaped>>

Running == phase # "STOPPED"

(* cb: the fields scheduled, epoch and hotTicks (modulo macrotaskEvery, all *)
(* that is read of it), the epochs of the ticks in the microtask queue, and *)
(* the tick in the timer and in the immediate slot.                         *)
Nothing ==
  [scheduled |-> FALSE, epoch |-> 0, hotTicks |-> 0, micro |-> <<>>,
   timer |-> None, immediate |-> None]

-----------------------------------------------------------------------------
(* cancelPending(): a queued microtask cannot be removed, only outdated.   *)
CancelledSameEpoch(c) ==
  [c EXCEPT !.scheduled = FALSE, !.timer = None, !.immediate = None]
Cancelled(c) ==
  [c EXCEPT !.epoch = @ + 1, !.scheduled = FALSE, !.timer = None, !.immediate = None]

InMicrotask(c) == [c EXCEPT !.micro = Append(@, c.epoch)]
InImmediate(c) == [c EXCEPT !.immediate = c.epoch]
InTimer(c, ms) == [c EXCEPT !.timer = [epoch |-> c.epoch, ms |-> ms]]

(* The HOT half of schedule(): every macrotaskEvery rounds a macrotask.    *)
HotRoundLate(c) ==
  LET counted == [c EXCEPT !.hotTicks = (@ + 1) % (MacrotaskEvery + 1)]
  IN CASE counted.hotTicks # 0 -> InMicrotask(counted)
       [] counted.hotTicks = 0 /\ HasImmediate -> InImmediate(counted)
       [] OTHER -> InTimer(counted, 0)
HotRound(c) ==
  LET counted == [c EXCEPT !.hotTicks = (@ + 1) % MacrotaskEvery]
  IN CASE counted.hotTicks # 0 -> InMicrotask(counted)
       [] counted.hotTicks = 0 /\ HasImmediate -> InImmediate(counted)
       [] OTHER -> InTimer(counted, 0)

(* schedule(), in phase ph (not STOPPED) with delay ms.                    *)
ScheduledAgain(c, ph, ms) ==
  LET claimed == [c EXCEPT !.scheduled = TRUE]
  IN CASE ph = "HOT" -> HotRound(claimed)
       [] ph = "WARM" -> InTimer(claimed, ms)
       [] OTHER -> InTimer(claimed, ColdInterval)

Scheduled(c, ph, ms) ==
  LET claimed == [c EXCEPT !.scheduled = TRUE]
  IN CASE c.scheduled -> c
       [] ~c.scheduled /\ ph = "HOT" -> HotRound(claimed)
       [] ~c.scheduled /\ ph = "WARM" -> InTimer(claimed, ms)
       [] OTHER -> InTimer(claimed, ColdInterval)

-----------------------------------------------------------------------------
(* start(), stop(), kick().                                                *)

Start ==
  /\ ~Running
  /\ phase' = "HOT"
  /\ delay' = 0
  /\ cb' = Scheduled([cb EXCEPT !.hotTicks = 0], "HOT", 0)
  /\ deferrals' = deferrals + 1
  /\ escaped' = FALSE
  /\ UNCHANGED <<recent, ticking, manual, burst>>

Stop ==
  /\ cb.epoch < MaxEpoch
  /\ cb' = Cancelled(cb)
  /\ phase' = "STOPPED"
  /\ UNCHANGED <<delay, recent, ticking, manual, burst, deferrals, escaped>>

KickKeepingPending ==
  /\ Running
  /\ cb.epoch < MaxEpoch
  /\ phase' = "HOT"
  /\ delay' = 0
  /\ cb' = Scheduled(cb, "HOT", 0)
  /\ deferrals' = deferrals + 1
  /\ escaped' = FALSE
  /\ UNCHANGED <<recent, ticking, manual, burst>>
Kick ==
  /\ Running
  /\ cb.epoch < MaxEpoch
  /\ phase' = "HOT"
  /\ delay' = 0
  /\ cb' = Scheduled(Cancelled(cb), "HOT", 0)
  /\ deferrals' = deferrals + 1
  /\ escaped' = FALSE
  /\ UNCHANGED <<recent, ticking, manual, burst>>

-----------------------------------------------------------------------------
(* applyResult(n), isCold() answering cold: the next phase and delay.      *)

UncappedDelay ==
  IF delay = 0 \/ recent THEN IdleMin ELSE delay * 2
BackedOff ==
  IF delay = 0 \/ recent THEN IdleMin
  ELSE IF delay * 2 <= IdleMax THEN delay * 2 ELSE IdleMax

ApplyResult(data, cold) ==
  CASE ~Running -> UNCHANGED <<phase, delay, recent>>
    [] Running /\ data -> phase' = "HOT" /\ delay' = 0 /\ recent' = TRUE
    [] Running /\ ~data /\ cold ->
         phase' = "COLD" /\ delay' = ColdInterval /\ UNCHANGED recent
    [] OTHER -> phase' = "WARM" /\ delay' = BackedOff /\ UNCHANGED recent

(* runOnce() called by the application or by a listener.                   *)
RunOnce ==
  /\ manual < MaxNested
  /\ manual' = manual + 1
  /\ UNCHANGED <<phase, delay, recent, cb, ticking, burst, deferrals, escaped>>

ManualReturns ==
  /\ manual > 0
  /\ manual' = manual - 1
  /\ \E data \in BOOLEAN, cold \in {FALSE, MayBeCold} : ApplyResult(data, cold)
  /\ UNCHANGED <<cb, ticking, burst, deferrals, escaped>>

(* poll() throws inside runOnce(): reported, no result applied.            *)
ManualThrows ==
  /\ manual > 0
  /\ manual' = manual - 1
  /\ UNCHANGED <<phase, delay, recent, cb, ticking, burst, deferrals, escaped>>

-----------------------------------------------------------------------------
(* A scheduled tick: the three ways the event loop calls it.               *)

Idle == ~ticking /\ manual = 0

FiredStillScheduled(c) == [c EXCEPT !.timer = None, !.immediate = None]
Fired(c) == [c EXCEPT !.scheduled = FALSE, !.timer = None, !.immediate = None]

UpToDate(epoch) == epoch = cb.epoch /\ Running

RunMicrotask ==
  LET rest == [cb EXCEPT !.micro = Tail(@)]
  IN /\ Idle
     /\ cb.micro # <<>>
     /\ IF UpToDate(Head(cb.micro))
        THEN cb' = Fired(rest) /\ ticking' = TRUE /\ burst' = burst + 1
        ELSE cb' = rest /\ UNCHANGED <<ticking, burst>>
     /\ UNCHANGED <<phase, delay, recent, manual, deferrals, escaped>>

RunImmediate ==
  /\ Idle
  /\ cb.micro = <<>>
  /\ cb.immediate # None
  /\ burst' = 0 /\ deferrals' = 0
  /\ IF UpToDate(cb.immediate)
     THEN cb' = Fired(cb) /\ ticking' = TRUE
     ELSE cb' = [cb EXCEPT !.immediate = None] /\ UNCHANGED ticking
  /\ UNCHANGED <<phase, delay, recent, manual, escaped>>

RunTimer ==
  /\ Idle
  /\ cb.micro = <<>>
  /\ cb.timer # None
  /\ burst' = 0 /\ deferrals' = 0
  /\ IF UpToDate(cb.timer.epoch)
     THEN cb' = Fired(cb) /\ ticking' = TRUE
     ELSE cb' = [cb EXCEPT !.timer = None] /\ UNCHANGED ticking
  /\ UNCHANGED <<phase, delay, recent, manual, escaped>>

(* The end of tick(): the result is applied, then schedule().              *)
TickReturns ==
  /\ ticking /\ manual = 0
  /\ ticking' = FALSE
  /\ \E data \in BOOLEAN, cold \in {FALSE, MayBeCold} : ApplyResult(data, cold)
  /\ cb' = IF Running THEN Scheduled(cb, phase', delay') ELSE cb
  /\ UNCHANGED <<manual, burst, deferrals, escaped>>

(* poll() threw and onError took it: schedule() all the same.              *)
TickThrows ==
  /\ ticking /\ manual = 0
  /\ ticking' = FALSE
  /\ cb' = IF Running THEN Scheduled(cb, phase, delay) ELSE cb
  /\ UNCHANGED <<phase, delay, recent, manual, burst, deferrals, escaped>>

(* onError threw as well: the exception leaves tick() before schedule().   *)
TickErrorEscapes ==
  /\ ticking /\ manual = 0
  /\ ticking' = FALSE
  /\ escaped' = ~cb.scheduled
  /\ UNCHANGED <<phase, delay, recent, cb, manual, burst, deferrals>>

-----------------------------------------------------------------------------
(* idleHoldMs have passed since the last non-empty poll.                   *)
HoldExpires ==
  /\ recent
  /\ recent' = FALSE
  /\ UNCHANGED <<phase, delay, cb, ticking, manual, burst, deferrals, escaped>>

(* The microtask queue is empty and the event loop does its I/O.           *)
Yield ==
  /\ Idle /\ cb.micro = <<>>
  /\ burst' = 0 /\ deferrals' = 0
  /\ UNCHANGED <<phase, delay, recent, cb, ticking, manual, escaped>>

Init ==
  /\ phase = "STOPPED" /\ delay = 0 /\ recent = FALSE
  /\ cb = Nothing
  /\ ticking = FALSE /\ manual = 0 /\ burst = 0 /\ deferrals = 0 /\ escaped = FALSE

Tick == RunMicrotask \/ RunImmediate \/ RunTimer
TickEnds == TickReturns \/ TickThrows \/ TickErrorEscapes
ManualEnds == ManualReturns \/ ManualThrows

Next ==
  \/ Start \/ Stop \/ Kick
  \/ RunOnce \/ ManualEnds
  \/ Tick \/ TickEnds
  \/ HoldExpires \/ Yield

Spec == Init /\ [][Next]_vars

(* The event loop gets round to what is queued (however often runOnce() is *)
(* called in between), and poll() never blocks (timeout 0).                *)
FairSpec ==
  Spec /\ SF_vars(Tick) /\ WF_vars(TickEnds) /\ WF_vars(ManualEnds)

-----------------------------------------------------------------------------
Callbacks ==
  [scheduled : BOOLEAN, epoch : Nat, hotTicks : 0..(MacrotaskEvery - 1),
   micro : Seq(Nat), timer : {None} \union [epoch : Nat, ms : Nat],
   immediate : {None} \union Nat]

TypeOK ==
  /\ phase \in {"STOPPED", "HOT", "WARM", "COLD"}
  /\ delay \in Nat
  /\ recent \in BOOLEAN
  /\ cb \in Callbacks
  /\ ticking \in BOOLEAN
  /\ manual \in 0..MaxNested
  /\ burst \in Nat /\ deferrals \in Nat /\ escaped \in BOOLEAN

(* The ticks of c that will poll when the event loop reaches them.         *)
LiveMicrotasks(c) == {i \in 1..Len(c.micro) : c.micro[i] = c.epoch}
LiveTimer(c) == c.timer # None /\ c.timer.epoch = c.epoch
LiveImmediate(c) == c.immediate # None /\ c.immediate = c.epoch
SomeLive(c) == LiveMicrotasks(c) # {} \/ LiveTimer(c) \/ LiveImmediate(c)
OneLive(c) ==
  /\ \A i, j \in LiveMicrotasks(c) : i = j
  /\ ~(LiveMicrotasks(c) # {} /\ (LiveTimer(c) \/ LiveImmediate(c)))
  /\ ~(LiveTimer(c) /\ LiveImmediate(c))

(* The heartbeat never stops: a running scheduler is inside a tick or has  *)
(* a tick coming, whatever listeners do to it (poll-scheduler.ts:23-29),   *)
(* unless onError itself threw, and then only until start() or kick().     *)
HeartbeatAlive == Running => ticking \/ SomeLive(cb) \/ escaped

(* There is one heartbeat, and none while the scheduler is stopped: however *)
(* kick(), stop(), start() and runOnce() nest inside polls, at most one     *)
(* live tick is scheduled, and what stop() left queued never polls.         *)
SingleHeartbeat == OneLive(cb) /\ (~Running => ~SomeLive(cb))

(* Exactly one heartbeat, then, from start() to stop().                    *)
HeartbeatKept == HeartbeatAlive /\ SingleHeartbeat

(* A WARM round comes within idleMin..idleMax ms: poll-scheduler.ts:11-13. *)
BackoffBounded == phase = "WARM" => IdleMin <= delay /\ delay <= IdleMax

(* A subscribed consumer sees a rebalance at most idleMax ms late          *)
(* (poll-scheduler.ts:36-40).                                              *)
LatencyBounded == ~MayBeCold /\ LiveTimer(cb) => cb.timer.ms <= IdleMax

(* Nothing but kick() and start() defers the macrotask round, and each     *)
(* call by macrotaskEvery rounds at most: throwing polls, manual rounds,   *)
(* outdated ticks and changes of phase never do.                           *)
DeferralBounded == burst < MacrotaskEvery * (deferrals + 1)

(* A running scheduler polls again, whatever phase it is in.               *)
PollsAgain == Running ~> (ticking \/ ~Running \/ escaped)

=============================================================================

------------------------ MODULE PollScheduler_proofs ------------------------
(***************************************************************************)
(* Proofs about PollScheduler, for all values of its constants: its type,  *)
(* that there is never a second heartbeat and none in a stopped scheduler, *)
(* that the backoff stays within its bounds, and that nothing but a        *)
(* throwing onError stops the heartbeat of a running scheduler.            *)
(***************************************************************************)
EXTENDS PollScheduler, TLAPS

(* The tick slots of c agree with its scheduled flag: no live tick when it *)
(* is unset, exactly one when it is set, and no slot outdated.             *)
Consistent(c) ==
  /\ \A i \in 1..Len(c.micro) : c.micro[i] <= c.epoch
  /\ c.timer # None => c.timer.epoch = c.epoch
  /\ c.immediate # None => c.immediate = c.epoch
  /\ OneLive(c)
  /\ c.scheduled <=> SomeLive(c)

Slots == Consistent(cb) /\ (~Running => ~cb.scheduled)

(* The delay is unset or at least idleMin, and within bounds when WARM;    *)
(* never COLD if isCold() never answers true.                              *)
Delays ==
  /\ delay = 0 \/ IdleMin <= delay
  /\ BackoffBounded
  /\ ~MayBeCold => phase # "COLD"

(* No timer of c is due later than idleMax ms.                             *)
WithinIdle(c) == c.timer # None => c.timer.ms <= IdleMax

Latency == ~MayBeCold => WithinIdle(cb)

(* Nothing live means STOPPED, inside a tick, or that onError threw.       *)
Alive == Running => ticking \/ cb.scheduled \/ escaped

Inv == TypeOK /\ Slots /\ Delays /\ Latency /\ Alive

-----------------------------------------------------------------------------
(* cancelPending() leaves no live tick: every queued one is outdated.      *)
LEMMA CancelledIsConsistent ==
  ASSUME NEW c \in Callbacks, Consistent(c)
  PROVE  /\ Cancelled(c) \in Callbacks
         /\ Consistent(Cancelled(c))
         /\ ~Cancelled(c).scheduled
  <1> DEFINE d == Cancelled(c)
  <1>1. [c EXCEPT !.epoch = @ + 1] \in Callbacks
    BY DEF Callbacks
  <1>2. d \in Callbacks
    BY <1>1 DEF Cancelled, Callbacks
  <1>3. /\ d.micro = c.micro /\ d.epoch = c.epoch + 1 /\ d.timer = None
        /\ d.immediate = None /\ d.scheduled = FALSE
    BY DEF Cancelled, Callbacks
  <1>4. /\ c.epoch \in Nat /\ Len(c.micro) \in Nat
        /\ \A i \in 1..Len(c.micro) : c.micro[i] \in Nat /\ c.micro[i] <= c.epoch
    BY DEF Callbacks, Consistent
  <1>5. LiveMicrotasks(d) = {}
    BY <1>3, <1>4 DEF LiveMicrotasks
  <1>6. ~LiveTimer(d) /\ ~LiveImmediate(d)
    BY <1>3 DEF LiveTimer, LiveImmediate
  <1>7. \A i \in 1..Len(d.micro) : d.micro[i] <= d.epoch
    BY <1>3, <1>4
  <1> HIDE DEF d
  <1>8. Consistent(d)
    BY <1>3, <1>5, <1>6, <1>7 DEF Consistent, OneLive, SomeLive
  <1> QED BY <1>2, <1>3, <1>8 DEF d

(* What an unset flag says of the slots: nothing in them is live.          *)
LEMMA UnsetMeansEmpty ==
  ASSUME NEW c \in Callbacks, Consistent(c), ~c.scheduled
  PROVE  /\ LiveMicrotasks(c) = {}
         /\ c.timer = None /\ c.immediate = None
         /\ \A i \in 1..Len(c.micro) : c.micro[i] # c.epoch /\ c.micro[i] <= c.epoch
  BY DEF Consistent, SomeLive, LiveMicrotasks, LiveTimer, LiveImmediate

(* Slots d that differ from such c by one live tick are consistent.        *)
LEMMA OneTickIsConsistent ==
  ASSUME NEW c \in Callbacks, Consistent(c), ~c.scheduled,
         NEW d \in Callbacks, d.scheduled, d.epoch = c.epoch,
         \/ /\ d.micro = c.micro /\ d.immediate = None
            /\ d.timer # None /\ d.timer.epoch = d.epoch
         \/ /\ d.micro = c.micro /\ d.timer = None
            /\ d.immediate # None /\ d.immediate = d.epoch
         \/ /\ d.timer = None /\ d.immediate = None
            /\ d.micro = Append(c.micro, d.epoch)
  PROVE  Consistent(d)
  <1>1. /\ LiveMicrotasks(c) = {}
        /\ \A i \in 1..Len(c.micro) : c.micro[i] # c.epoch /\ c.micro[i] <= c.epoch
    BY UnsetMeansEmpty
  <1>2. CASE d.micro = c.micro
    <2>1. LiveMicrotasks(d) = {}
      BY <1>1, <1>2 DEF LiveMicrotasks
    <2>2. \A i \in 1..Len(d.micro) : d.micro[i] <= d.epoch
      BY <1>1, <1>2
    <2>3. CASE d.immediate = None /\ d.timer # None /\ d.timer.epoch = d.epoch
      BY <2>1, <2>2, <2>3
      DEF Consistent, OneLive, SomeLive, LiveTimer, LiveImmediate
    <2>4. CASE d.timer = None /\ d.immediate # None /\ d.immediate = d.epoch
      BY <2>1, <2>2, <2>4
      DEF Consistent, OneLive, SomeLive, LiveTimer, LiveImmediate
    <2>5. CASE d.timer = None /\ d.immediate = None /\ d.micro = Append(c.micro, d.epoch)
      <3>1. c.micro \in Seq(Nat) /\ d.epoch \in Nat
        BY DEF Callbacks
      <3>2. Len(d.micro) = Len(c.micro) + 1 /\ Len(c.micro) \in Nat
        BY <2>5, <3>1
      <3> QED BY <1>2, <3>2
    <2> QED BY <2>3, <2>4, <2>5
  <1>3. CASE d.timer = None /\ d.immediate = None /\ d.micro = Append(c.micro, d.epoch)
    <2>1. c.micro \in Seq(Nat) /\ d.epoch \in Nat /\ c.epoch = d.epoch
      BY DEF Callbacks
    <2>2. /\ Len(c.micro) \in Nat /\ Len(d.micro) = Len(c.micro) + 1
          /\ d.micro[Len(c.micro) + 1] = d.epoch
          /\ \A i \in 1..Len(c.micro) : d.micro[i] = c.micro[i]
      BY <1>3, <2>1
    <2>3. LiveMicrotasks(d) = {Len(c.micro) + 1}
      BY <1>1, <2>1, <2>2 DEF LiveMicrotasks
    <2>4. \A i \in 1..Len(d.micro) : d.micro[i] <= d.epoch
      BY <1>1, <2>1, <2>2
    <2> QED BY <1>3, <2>3, <2>4
         DEF Consistent, OneLive, SomeLive, LiveTimer, LiveImmediate
  <1> QED BY <1>2, <1>3

LEMMA TimerIsConsistent ==
  ASSUME NEW c \in Callbacks, Consistent(c), ~c.scheduled, NEW ms \in Nat
  PROVE  LET d == InTimer([c EXCEPT !.scheduled = TRUE], ms)
         IN d \in Callbacks /\ Consistent(d) /\ d.scheduled
  <1> DEFINE d == InTimer([c EXCEPT !.scheduled = TRUE], ms)
  <1>1. [epoch |-> c.epoch, ms |-> ms] \in [epoch : Nat, ms : Nat]
    BY DEF Callbacks
  <1>2. /\ d \in Callbacks /\ d.scheduled = TRUE
        /\ d.timer = [epoch |-> c.epoch, ms |-> ms] /\ d.epoch = c.epoch
        /\ d.micro = c.micro /\ d.immediate = c.immediate
    BY <1>1 DEF InTimer, Callbacks
  <1>3. d.immediate = None /\ d.timer # None /\ d.timer.epoch = d.epoch
    BY <1>1, <1>2, UnsetMeansEmpty, ConstantsAssumption
  <1> HIDE DEF d
  <1>4. Consistent(d)
    BY <1>2, <1>3, OneTickIsConsistent
  <1> QED BY <1>2, <1>4 DEF d

LEMMA HotRoundIsConsistent ==
  ASSUME NEW c \in Callbacks, Consistent(c), ~c.scheduled
  PROVE  LET d == HotRound([c EXCEPT !.scheduled = TRUE])
         IN d \in Callbacks /\ Consistent(d) /\ d.scheduled
  <1> DEFINE n == (c.hotTicks + 1) % MacrotaskEvery
             e == [c EXCEPT !.scheduled = TRUE, !.hotTicks = n]
             d == HotRound([c EXCEPT !.scheduled = TRUE])
  <1>1. n \in 0..(MacrotaskEvery - 1)
    BY ConstantsAssumption DEF Callbacks
  <1>2. /\ e \in Callbacks /\ e.scheduled = TRUE /\ e.epoch = c.epoch
        /\ e.micro = c.micro /\ e.timer = None /\ e.immediate = None
        /\ e.epoch \in Nat /\ e.micro \in Seq(Nat) /\ e.hotTicks = n
    BY <1>1, UnsetMeansEmpty DEF Callbacks
  <1>3. d = CASE n # 0 -> InMicrotask(e)
              [] n = 0 /\ HasImmediate -> InImmediate(e)
              [] OTHER -> InTimer(e, 0)
    BY DEF HotRound, Callbacks
  <1> HIDE DEF e
  <1>4. CASE n # 0
    <2>1. d = InMicrotask(e)
      BY <1>3, <1>4
    <2> HIDE DEF d, n
    <2>2. Append(e.micro, e.epoch) \in Seq(Nat)
      BY <1>2
    <2>3. /\ d \in Callbacks /\ d.scheduled /\ d.epoch = c.epoch
          /\ d.timer = None /\ d.immediate = None
          /\ d.micro = Append(c.micro, d.epoch)
      BY <1>2, <2>1, <2>2 DEF InMicrotask, Callbacks
    <2>4. Consistent(d)
      BY <2>3, OneTickIsConsistent
    <2> QED BY <2>3, <2>4 DEF d
  <1>5. CASE n = 0 /\ HasImmediate
    <2>1. d = InImmediate(e)
      BY <1>3, <1>5
    <2> HIDE DEF d, n
    <2>2. /\ d \in Callbacks /\ d.scheduled /\ d.epoch = c.epoch
          /\ d.timer = None /\ d.micro = c.micro
          /\ d.immediate = d.epoch /\ d.immediate # None
      BY <1>2, <2>1, ConstantsAssumption DEF InImmediate, Callbacks
    <2>3. Consistent(d)
      BY <2>2, OneTickIsConsistent
    <2> QED BY <2>2, <2>3 DEF d
  <1>6. CASE n = 0 /\ ~HasImmediate
    <2>1. d = InTimer(e, 0)
      BY <1>3, <1>6
    <2> HIDE DEF d, n
    <2>2. [epoch |-> e.epoch, ms |-> 0] \in [epoch : Nat, ms : Nat]
      BY <1>2
    <2>3. /\ d \in Callbacks /\ d.scheduled /\ d.epoch = c.epoch
          /\ d.immediate = None /\ d.micro = c.micro
          /\ d.timer = [epoch |-> e.epoch, ms |-> 0]
      BY <1>2, <2>1, <2>2 DEF InTimer, Callbacks
    <2>4. d.timer # None /\ d.timer.epoch = d.epoch
      BY <1>2, <2>2, <2>3, ConstantsAssumption
    <2>5. Consistent(d)
      BY <2>3, <2>4, OneTickIsConsistent
    <2> QED BY <2>3, <2>5 DEF d
  <1> QED BY <1>4, <1>5, <1>6

(* schedule() leaves exactly one live tick.                                *)
LEMMA ScheduledIsConsistent ==
  ASSUME NEW c \in Callbacks, Consistent(c), NEW ph, NEW ms \in Nat
  PROVE  /\ Scheduled(c, ph, ms) \in Callbacks
         /\ Consistent(Scheduled(c, ph, ms))
         /\ Scheduled(c, ph, ms).scheduled
  <1>1. CASE c.scheduled
    BY <1>1 DEF Scheduled
  <1>2. CASE ~c.scheduled /\ ph = "HOT"
    BY <1>2, HotRoundIsConsistent DEF Scheduled
  <1>3. CASE ~c.scheduled /\ ph = "WARM"
    BY <1>3, TimerIsConsistent DEF Scheduled
  <1>4. CASE ~c.scheduled /\ ph # "HOT" /\ ph # "WARM"
    BY <1>4, TimerIsConsistent, ConstantsAssumption DEF Scheduled
  <1> QED BY <1>1, <1>2, <1>3, <1>4

(* A tick leaves its slot to run: no live tick is left once the flag is    *)
(* unset, if none is left in the microtask queue.                          *)
LEMMA FiredIsConsistent ==
  ASSUME NEW c \in Callbacks, LiveMicrotasks(c) = {},
         \A i \in 1..Len(c.micro) : c.micro[i] <= c.epoch
  PROVE  Fired(c) \in Callbacks /\ Consistent(Fired(c)) /\ ~Fired(c).scheduled
  <1> DEFINE d == Fired(c)
  <1>1. /\ d \in Callbacks /\ d.scheduled = FALSE /\ d.epoch = c.epoch
        /\ d.micro = c.micro /\ d.timer = None /\ d.immediate = None
    BY DEF Fired, Callbacks
  <1> HIDE DEF d
  <1>2. LiveMicrotasks(d) = {}
    BY <1>1 DEF LiveMicrotasks
  <1>3. Consistent(d)
    BY <1>1, <1>2 DEF Consistent, OneLive, SomeLive, LiveTimer, LiveImmediate
  <1> QED BY <1>1, <1>3 DEF d

(* A timer or an immediate is the one live tick, so its slot empties the   *)
(* way above.                                                              *)
LEMMA SlotMeansNoMicrotask ==
  ASSUME NEW c \in Callbacks, Consistent(c), c.timer # None \/ c.immediate # None
  PROVE  /\ LiveMicrotasks(c) = {}
         /\ \A i \in 1..Len(c.micro) : c.micro[i] <= c.epoch
  BY DEF Consistent, OneLive, LiveTimer, LiveImmediate

(* The oldest microtask leaves the queue: if it was live, no live one is   *)
(* left, else the slots stay consistent.                                   *)
LEMMA PoppedIsConsistent ==
  ASSUME NEW c \in Callbacks, Consistent(c), c.micro # <<>>
  PROVE  LET d == [c EXCEPT !.micro = Tail(@)]
         IN /\ d \in Callbacks /\ d.scheduled = c.scheduled /\ d.epoch = c.epoch
            /\ Head(c.micro) = c.epoch =>
                 /\ LiveMicrotasks(d) = {}
                 /\ \A i \in 1..Len(d.micro) : d.micro[i] <= d.epoch
            /\ Head(c.micro) # c.epoch => Consistent(d)
  <1> DEFINE d == [c EXCEPT !.micro = Tail(@)]
  <1>1. /\ c.micro \in Seq(Nat) /\ Tail(c.micro) \in Seq(Nat)
        /\ Len(c.micro) \in Nat /\ Len(c.micro) > 0
        /\ Head(c.micro) = c.micro[1]
        /\ Len(Tail(c.micro)) = Len(c.micro) - 1
        /\ \A i \in 1..Len(Tail(c.micro)) : Tail(c.micro)[i] = c.micro[i + 1]
    BY DEF Callbacks
  <1>2. /\ d \in Callbacks /\ d.micro = Tail(c.micro) /\ d.scheduled = c.scheduled
        /\ d.epoch = c.epoch /\ d.timer = c.timer /\ d.immediate = c.immediate
    BY <1>1 DEF Callbacks
  <1> HIDE DEF d
  <1>3. \A i \in LiveMicrotasks(d) : i + 1 \in LiveMicrotasks(c) /\ i \in Nat \ {0}
    BY <1>1, <1>2 DEF LiveMicrotasks
  <1>4. \A i \in 1..Len(d.micro) : d.micro[i] <= d.epoch
    BY <1>1, <1>2 DEF Consistent
  <1>5. ASSUME Head(c.micro) = c.epoch PROVE LiveMicrotasks(d) = {}
    <2>1. 1 \in LiveMicrotasks(c)
      BY <1>1, <1>5 DEF LiveMicrotasks
    <2> QED BY <1>3, <2>1 DEF Consistent, OneLive
  <1>6. ASSUME Head(c.micro) # c.epoch PROVE Consistent(d)
    <2>1. \A i \in LiveMicrotasks(c) : i - 1 \in LiveMicrotasks(d)
      BY <1>1, <1>2, <1>6 DEF LiveMicrotasks
    <2>2. /\ LiveTimer(d) <=> LiveTimer(c)
          /\ LiveImmediate(d) <=> LiveImmediate(c)
      BY <1>2 DEF LiveTimer, LiveImmediate
    <2>3. LiveMicrotasks(d) # {} <=> LiveMicrotasks(c) # {}
      BY <1>3, <2>1
    <2>4. \A i, j \in LiveMicrotasks(d) : i = j
      <3> SUFFICES ASSUME NEW i \in LiveMicrotasks(d), NEW j \in LiveMicrotasks(d)
                   PROVE  i = j
        OBVIOUS
      <3>1. i + 1 = j + 1
        BY <1>3 DEF Consistent, OneLive
      <3> QED BY <1>3, <3>1
    <2> QED BY <1>2, <1>4, <2>2, <2>3, <2>4 DEF Consistent, OneLive, SomeLive
  <1> QED BY <1>2, <1>4, <1>5, <1>6 DEF d

(* schedule() sets no timer past idleMax unless the phase is COLD.         *)
LEMMA ScheduledWithinIdle ==
  ASSUME NEW c \in Callbacks, WithinIdle(c), NEW ph, NEW ms \in Nat,
         ph = "HOT" \/ (ph = "WARM" /\ ms <= IdleMax)
  PROVE  WithinIdle(Scheduled(c, ph, ms))
  <1>1. CASE c.scheduled
    BY <1>1 DEF Scheduled
  <1>2. CASE ~c.scheduled /\ ph = "WARM"
    BY <1>2, ConstantsAssumption DEF Scheduled, InTimer, WithinIdle, Callbacks
  <1>3. CASE ~c.scheduled /\ ph = "HOT"
    <2> DEFINE n == (c.hotTicks + 1) % MacrotaskEvery
               e == [c EXCEPT !.scheduled = TRUE, !.hotTicks = n]
    <2>1. /\ e.timer = c.timer /\ InMicrotask(e).timer = c.timer
          /\ InImmediate(e).timer = c.timer
          /\ InTimer(e, 0).timer = [epoch |-> c.epoch, ms |-> 0]
      BY DEF InMicrotask, InImmediate, InTimer, Callbacks
    <2>2. Scheduled(c, ph, ms) = CASE n # 0 -> InMicrotask(e)
                                   [] n = 0 /\ HasImmediate -> InImmediate(e)
                                   [] OTHER -> InTimer(e, 0)
      BY <1>3 DEF Scheduled, HotRound, Callbacks
    <2> HIDE DEF e, n
    <2> QED BY <2>1, <2>2, ConstantsAssumption DEF WithinIdle
  <1> QED BY <1>1, <1>2, <1>3

(* A microtask set by schedule() has been counted as a hot round.          *)
LEMMA ScheduledCounts ==
  ASSUME NEW c \in Callbacks, Consistent(c), ~c.scheduled, NEW ph, NEW ms \in Nat,
         LiveMicrotasks(Scheduled(c, ph, ms)) # {}
  PROVE  Scheduled(c, ph, ms).hotTicks = c.hotTicks + 1
  <1> DEFINE n == (c.hotTicks + 1) % MacrotaskEvery
             e == [c EXCEPT !.scheduled = TRUE, !.hotTicks = n]
             d == Scheduled(c, ph, ms)
  <1>1. n # 0 => n = c.hotTicks + 1
    <2>1. c.hotTicks \in 0..(MacrotaskEvery - 1) /\ MacrotaskEvery \in Nat \ {0}
      BY ConstantsAssumption DEF Callbacks
    <2>2. CASE c.hotTicks + 1 = MacrotaskEvery
      BY <2>1, <2>2
    <2>3. CASE c.hotTicks + 1 < MacrotaskEvery
      BY <2>1, <2>3
    <2> QED BY <2>1, <2>2, <2>3
  <1>2. e.micro = c.micro /\ e.epoch = c.epoch /\ e.hotTicks = n
    BY DEF Callbacks
  <1>3. CASE ph # "HOT"
    <2>1. d.micro = c.micro /\ d.epoch = c.epoch
      BY <1>3 DEF Scheduled, InTimer, Callbacks
    <2>2. LiveMicrotasks(d) = LiveMicrotasks(c)
      BY <2>1 DEF LiveMicrotasks
    <2> QED BY <2>2, UnsetMeansEmpty
  <1>4. CASE ph = "HOT"
    <2>1. d = CASE n # 0 -> InMicrotask(e)
                [] n = 0 /\ HasImmediate -> InImmediate(e)
                [] OTHER -> InTimer(e, 0)
      BY <1>4 DEF Scheduled, HotRound, Callbacks
    <2>2. /\ InImmediate(e).micro = c.micro /\ InImmediate(e).epoch = c.epoch
          /\ InTimer(e, 0).micro = c.micro /\ InTimer(e, 0).epoch = c.epoch
          /\ InMicrotask(e).hotTicks = n
      BY <1>2 DEF InImmediate, InTimer, InMicrotask, Callbacks
    <2> HIDE DEF e, n
    <2>3. ASSUME d.micro = c.micro, d.epoch = c.epoch PROVE FALSE
      <3>1. LiveMicrotasks(d) = LiveMicrotasks(c)
        BY <2>3 DEF LiveMicrotasks
      <3> QED BY <3>1, UnsetMeansEmpty
    <2> QED BY <1>1, <2>1, <2>2, <2>3
  <1> QED BY <1>3, <1>4

(* applyResult() keeps the phase's type and the bounds of the delay.       *)
LEMMA ApplyResultIsBounded ==
  ASSUME TypeOK, Delays, NEW data \in BOOLEAN, NEW cold \in {FALSE, MayBeCold},
         ApplyResult(data, cold)
  PROVE  /\ phase' \in {"STOPPED", "HOT", "WARM", "COLD"}
         /\ delay' \in Nat /\ recent' \in BOOLEAN
         /\ Delays'
         /\ Running' <=> Running
  <1> USE ConstantsAssumption
  <1> USE DEF TypeOK, Delays, BackoffBounded, Running
  <1>1. CASE ~Running
    BY <1>1 DEF ApplyResult
  <1>2. CASE Running /\ data
    BY <1>2 DEF ApplyResult
  <1>3. CASE Running /\ ~data /\ cold
    BY <1>3 DEF ApplyResult
  <1>4. CASE Running /\ ~data /\ ~cold
    <2>1. phase' = "WARM" /\ delay' = BackedOff /\ recent' = recent
      BY <1>4 DEF ApplyResult
    <2>2. BackedOff \in Nat /\ IdleMin <= BackedOff /\ BackedOff <= IdleMax
      BY DEF BackedOff
    <2> QED BY <2>1, <2>2, <1>4
  <1> QED BY <1>1, <1>2, <1>3, <1>4

-----------------------------------------------------------------------------
(* The inductive invariant.                                                *)

LEMMA InitInv == Init => Inv
  <1> SUFFICES ASSUME Init PROVE Inv
    OBVIOUS
  <1> USE ConstantsAssumption
  <1>1. /\ <<>> \in Seq(Nat) /\ Len(<<>>) = 0
        /\ 0 \in 0..(MacrotaskEvery - 1) /\ 0 \in 0..MaxNested
    OBVIOUS
  <1>2. /\ cb = Nothing /\ ~cb.scheduled /\ cb.micro = <<>>
        /\ cb.timer = None /\ cb.immediate = None
    BY DEF Init, Nothing
  <1>3. Nothing \in Callbacks
    <2> DEFINE empty == <<>>
    <2>1. empty \in Seq(Nat)
      BY <1>1
    <2>2. Nothing = [scheduled |-> FALSE, epoch |-> 0, hotTicks |-> 0, micro |-> empty,
                     timer |-> None, immediate |-> None]
      BY DEF Nothing
    <2> HIDE DEF empty
    <2> QED BY <1>1, <2>1, <2>2 DEF Callbacks
  <1>4. TypeOK
    BY <1>1, <1>2, <1>3 DEF Init, TypeOK
  <1>5. LiveMicrotasks(cb) = {} /\ Len(cb.micro) = 0
    BY <1>1, <1>2 DEF LiveMicrotasks
  <1>6. Slots
    BY <1>2, <1>5 DEF Slots, Consistent, OneLive, SomeLive, LiveTimer, LiveImmediate
  <1>7. Delays /\ Latency /\ Alive
    BY <1>2 DEF Init, Delays, BackoffBounded, Latency, WithinIdle, Alive, Running
  <1> QED BY <1>4, <1>6, <1>7 DEF Inv

LEMMA NextInv == Inv /\ [Next]_vars => Inv'
  <1> SUFFICES ASSUME Inv, [Next]_vars PROVE Inv'
    OBVIOUS
  <1> USE ConstantsAssumption
  <1>0. /\ cb \in Callbacks /\ Consistent(cb) /\ delay \in Nat
        /\ phase \in {"STOPPED", "HOT", "WARM", "COLD"} /\ manual \in 0..MaxNested
        /\ recent \in BOOLEAN /\ ticking \in BOOLEAN /\ burst \in Nat
        /\ deferrals \in Nat /\ escaped \in BOOLEAN
        /\ Delays
    BY DEF Inv, TypeOK, Slots
  <1>1. CASE Start
    <2> DEFINE c == [cb EXCEPT !.hotTicks = 0]
    <2>1. /\ c \in Callbacks /\ c.epoch = cb.epoch /\ c.micro = cb.micro
          /\ c.timer = cb.timer /\ c.immediate = cb.immediate
          /\ c.scheduled = cb.scheduled
      <3>1. 0 \in 0..(MacrotaskEvery - 1)
        OBVIOUS
      <3> QED BY <1>0, <3>1 DEF Callbacks
    <2> HIDE DEF c
    <2>2. /\ LiveMicrotasks(c) = LiveMicrotasks(cb)
          /\ LiveTimer(c) <=> LiveTimer(cb)
          /\ LiveImmediate(c) <=> LiveImmediate(cb)
      BY <2>1 DEF LiveMicrotasks, LiveTimer, LiveImmediate
    <2>3. Consistent(c) /\ (~MayBeCold => WithinIdle(c))
      BY <1>0, <2>1, <2>2 DEF Consistent, OneLive, SomeLive, Inv, WithinIdle, Latency
    <2>4. cb' = Scheduled(c, "HOT", 0)
      BY <1>1 DEF Start, c
    <2>5. cb' \in Callbacks /\ Consistent(cb') /\ cb'.scheduled
      BY <2>1, <2>3, <2>4, ScheduledIsConsistent
    <2>6. Latency'
      BY <2>1, <2>3, <2>4, ScheduledWithinIdle DEF Inv, Latency, WithinIdle
    <2>7. escaped' \in BOOLEAN /\ Alive'
      BY <1>1, <2>5 DEF Start, Alive
    <2>8. /\ phase' = "HOT" /\ delay' = 0 /\ deferrals' = deferrals + 1
          /\ UNCHANGED <<recent, ticking, manual, burst>>
      BY <1>1 DEF Start
    <2> QED BY <1>0, <2>5, <2>6, <2>7, <2>8
         DEF Inv, TypeOK, Slots, Delays, BackoffBounded, Running
  <1>2. CASE Stop
    <2>1. cb' \in Callbacks /\ Consistent(cb') /\ ~cb'.scheduled
      BY <1>0, <1>2, CancelledIsConsistent DEF Stop
    <2>2. cb'.timer = None
      BY <1>0, <1>2 DEF Stop, Cancelled, Callbacks
    <2> QED BY <1>0, <1>2, <2>1, <2>2
         DEF Stop, Inv, TypeOK, Slots, Delays, BackoffBounded, Alive, Running, Latency, WithinIdle
  <1>3. CASE Kick
    <2>1. /\ Cancelled(cb) \in Callbacks /\ Consistent(Cancelled(cb))
          /\ WithinIdle(Cancelled(cb))
      BY <1>0, CancelledIsConsistent DEF WithinIdle, Cancelled, Callbacks
    <2>2. cb' = Scheduled(Cancelled(cb), "HOT", 0)
      BY <1>3 DEF Kick
    <2>3. cb' \in Callbacks /\ Consistent(cb') /\ cb'.scheduled /\ WithinIdle(cb')
      BY <2>1, <2>2, ScheduledIsConsistent, ScheduledWithinIdle
    <2>4. escaped' \in BOOLEAN /\ Alive'
      BY <1>3, <2>3 DEF Kick, Alive
    <2>5. /\ phase' = "HOT" /\ delay' = 0 /\ deferrals' = deferrals + 1
          /\ UNCHANGED <<recent, ticking, manual, burst>>
      BY <1>3 DEF Kick
    <2> QED BY <1>0, <2>3, <2>4, <2>5
         DEF Inv, TypeOK, Slots, Delays, BackoffBounded, Running, Latency, WithinIdle
  <1>4. CASE RunOnce \/ HoldExpires \/ Yield \/ ManualThrows
    <2>1. /\ cb' = cb /\ phase' = phase /\ delay' = delay /\ ticking' = ticking
          /\ recent' \in BOOLEAN /\ burst' \in Nat /\ manual' \in 0..MaxNested
          /\ deferrals' \in Nat /\ escaped' = escaped
      <3>1. CASE RunOnce
        BY <1>0, <3>1 DEF RunOnce
      <3>2. CASE HoldExpires
        BY <1>0, <3>2 DEF HoldExpires
      <3>3. CASE Yield
        BY <1>0, <3>3 DEF Yield
      <3>4. CASE ManualThrows
        BY <1>0, <3>4 DEF ManualThrows
      <3> QED BY <1>4, <3>1, <3>2, <3>3, <3>4
    <2> QED BY <1>0, <2>1
         DEF Inv, TypeOK, Slots, Delays, BackoffBounded, Alive, Running, Latency, WithinIdle
  <1>5. CASE ManualReturns
    <2>1. PICK data \in BOOLEAN, cold \in {FALSE, MayBeCold} : ApplyResult(data, cold)
      BY <1>5 DEF ManualReturns
    <2>2. /\ phase' \in {"STOPPED", "HOT", "WARM", "COLD"}
          /\ delay' \in Nat /\ recent' \in BOOLEAN
          /\ Delays' /\ (Running' <=> Running)
      BY <2>1, ApplyResultIsBounded DEF Inv
    <2> QED BY <1>0, <1>5, <2>2
         DEF ManualReturns, Inv, TypeOK, Slots, Alive, Latency, WithinIdle
  <1>6. CASE RunMicrotask
    <2> DEFINE rest == [cb EXCEPT !.micro = Tail(@)]
    <2>1. cb.micro # <<>>
      BY <1>6 DEF RunMicrotask
    <2>2. /\ rest \in Callbacks /\ rest.scheduled = cb.scheduled /\ rest.epoch = cb.epoch
          /\ Head(cb.micro) = cb.epoch =>
               /\ LiveMicrotasks(rest) = {}
               /\ \A i \in 1..Len(rest.micro) : rest.micro[i] <= rest.epoch
          /\ Head(cb.micro) # cb.epoch => Consistent(rest)
      BY <1>0, <2>1, PoppedIsConsistent
    <2>3. rest.timer = cb.timer /\ Fired(rest).timer = None
      BY <1>0, <2>2 DEF Fired, Callbacks
    <2>4. CASE UpToDate(Head(cb.micro))
      <3>1. cb' = Fired(rest) /\ ticking' = TRUE /\ burst' = burst + 1
        BY <1>6, <2>4 DEF RunMicrotask
      <3> HIDE DEF rest
      <3>2. cb' \in Callbacks /\ Consistent(cb') /\ ~cb'.scheduled
        BY <2>2, <2>4, <3>1, FiredIsConsistent DEF UpToDate
      <3> QED BY <1>0, <1>6, <2>3, <3>1, <3>2
           DEF RunMicrotask, Inv, TypeOK, Slots, Delays, BackoffBounded, Alive, Running,
               Latency, WithinIdle
    <2>5. CASE ~UpToDate(Head(cb.micro))
      <3>1. cb' = rest /\ ticking' = ticking /\ burst' = burst
        BY <1>6, <2>5 DEF RunMicrotask
      <3> HIDE DEF rest
      <3>2. Head(cb.micro) # cb.epoch
        <4> SUFFICES ASSUME Head(cb.micro) = cb.epoch PROVE FALSE
          OBVIOUS
        <4>1. ~Running /\ ~cb.scheduled
          BY <2>5 DEF UpToDate, Inv, Slots
        <4>2. 1 \in LiveMicrotasks(cb)
          BY <1>0, <2>1 DEF LiveMicrotasks, Callbacks
        <4> QED BY <1>0, <4>1, <4>2 DEF Consistent, SomeLive
      <3> QED BY <1>0, <1>6, <2>2, <2>3, <3>1, <3>2
           DEF RunMicrotask, Inv, TypeOK, Slots, Delays, BackoffBounded, Alive, Running,
               Latency, WithinIdle
    <2> QED BY <2>4, <2>5
  <1>7. CASE RunImmediate \/ RunTimer
    <2>1. cb.timer # None \/ cb.immediate # None
      BY <1>7 DEF RunImmediate, RunTimer
    <2>2. Running /\ (cb.timer # None => cb.timer.epoch = cb.epoch)
                  /\ (cb.immediate # None => cb.immediate = cb.epoch)
      BY <1>0, <2>1 DEF Inv, Slots, Consistent, SomeLive, LiveTimer, LiveImmediate
    <2>3. cb' = Fired(cb) /\ ticking' = TRUE /\ burst' = 0 /\ deferrals' = 0
      BY <1>7, <2>2 DEF RunImmediate, RunTimer, UpToDate
    <2>4. cb' \in Callbacks /\ Consistent(cb') /\ ~cb'.scheduled
      BY <1>0, <2>1, <2>3, SlotMeansNoMicrotask, FiredIsConsistent
    <2>5. cb'.timer = None
      BY <1>0, <2>3 DEF Fired, Callbacks
    <2> QED BY <1>0, <1>7, <2>3, <2>4, <2>5
         DEF RunImmediate, RunTimer, Inv, TypeOK, Slots, Delays, BackoffBounded, Alive,
             Running, Latency, WithinIdle
  <1>8. CASE TickReturns
    <2>1. PICK data \in BOOLEAN, cold \in {FALSE, MayBeCold} : ApplyResult(data, cold)
      BY <1>8 DEF TickReturns
    <2>2. /\ phase' \in {"STOPPED", "HOT", "WARM", "COLD"}
          /\ delay' \in Nat /\ recent' \in BOOLEAN
          /\ Delays' /\ (Running' <=> Running)
      BY <2>1, ApplyResultIsBounded DEF Inv
    <2>3. CASE Running
      <3>1. cb' = Scheduled(cb, phase', delay')
        BY <1>8, <2>3 DEF TickReturns
      <3>2. cb' \in Callbacks /\ Consistent(cb') /\ cb'.scheduled
        BY <1>0, <2>2, <3>1, ScheduledIsConsistent
      <3>3. ~MayBeCold => phase' = "HOT" \/ (phase' = "WARM" /\ delay' <= IdleMax)
        BY <2>2, <2>3 DEF Delays, BackoffBounded, Running
      <3>4. ~MayBeCold => WithinIdle(cb')
        BY <1>0, <2>2, <3>1, <3>3, ScheduledWithinIdle DEF Inv, Latency
      <3> QED BY <1>0, <1>8, <2>2, <3>2, <3>4
           DEF TickReturns, Inv, TypeOK, Slots, Alive, Latency, WithinIdle
    <2>4. CASE ~Running
      BY <1>0, <1>8, <2>2, <2>4
      DEF TickReturns, Inv, TypeOK, Slots, Alive, Latency, WithinIdle
    <2> QED BY <2>3, <2>4
  <1>9. CASE TickThrows
    <2>1. CASE Running
      <3>1. cb' = Scheduled(cb, phase, delay)
        BY <1>9, <2>1 DEF TickThrows
      <3>2. cb' \in Callbacks /\ Consistent(cb') /\ cb'.scheduled
        BY <1>0, <3>1, ScheduledIsConsistent
      <3>3. ~MayBeCold => phase = "HOT" \/ (phase = "WARM" /\ delay <= IdleMax)
        BY <1>0, <2>1 DEF Delays, BackoffBounded, Running
      <3>4. ~MayBeCold => WithinIdle(cb')
        BY <1>0, <3>1, <3>3, ScheduledWithinIdle DEF Inv, Latency
      <3> QED BY <1>0, <1>9, <3>2, <3>4
           DEF TickThrows, Inv, TypeOK, Slots, Alive, Latency, WithinIdle, Delays,
               BackoffBounded, Running
    <2>2. CASE ~Running
      BY <1>0, <1>9, <2>2
      DEF TickThrows, Inv, TypeOK, Slots, Alive, Latency, WithinIdle, Delays,
          BackoffBounded, Running
    <2> QED BY <2>1, <2>2
  <1>10. CASE TickErrorEscapes
    BY <1>0, <1>10
    DEF TickErrorEscapes, Inv, TypeOK, Slots, Alive, Latency, WithinIdle, Delays,
        BackoffBounded, Running
  <1>11. CASE UNCHANGED vars
    BY <1>0, <1>11
    DEF vars, Inv, TypeOK, Slots, Alive, Latency, WithinIdle, Delays, BackoffBounded, Running
  <1> QED
    BY <1>1, <1>2, <1>3, <1>4, <1>5, <1>6, <1>7, <1>8, <1>9, <1>10, <1>11
    DEF Next, Tick, TickEnds, ManualEnds

-----------------------------------------------------------------------------
(* The microtask rounds since the last macrotask: a live microtask is the  *)
(* hotTicks-th round after the last macrotask or deferral, and so is the   *)
(* tick it becomes.                                                        *)
Deferred ==
  LET before == MacrotaskEvery * deferrals
  IN /\ DeferralBounded
     /\ LiveMicrotasks(cb) # {} => burst < before + cb.hotTicks
     /\ ticking => burst <= before + cb.hotTicks

LEMMA InitDeferred == Init => Deferred
  <1> SUFFICES ASSUME Init PROVE Deferred
    OBVIOUS
  <1>1. cb.micro = <<>> /\ Len(cb.micro) = 0 /\ burst = 0 /\ deferrals = 0 /\ ~ticking
    BY DEF Init, Nothing
  <1>2. LiveMicrotasks(cb) = {}
    BY <1>1 DEF LiveMicrotasks
  <1> QED BY <1>1, <1>2, ConstantsAssumption DEF Deferred, DeferralBounded

LEMMA NextDeferred == Inv /\ Deferred /\ [Next]_vars => Deferred'
  <1> SUFFICES ASSUME Inv, Deferred, [Next]_vars PROVE Deferred'
    OBVIOUS
  <1> DEFINE M == MacrotaskEvery
             before == M * deferrals
  <1>1. /\ cb \in Callbacks /\ cb.hotTicks \in 0..(M - 1) /\ M \in Nat \ {0}
        /\ Consistent(cb) /\ delay \in Nat /\ burst \in Nat /\ deferrals \in Nat
        /\ before \in Nat
    BY ConstantsAssumption DEF Inv, TypeOK, Slots, Callbacks
  <1>2. cb' \in Callbacks /\ cb'.hotTicks \in 0..(M - 1)
    BY NextInv DEF Inv, TypeOK, Callbacks
  <1>3. M * (deferrals + 1) = before + M
    BY <1>1
  <1>4. /\ burst < before + M
        /\ LiveMicrotasks(cb) # {} => burst < before + cb.hotTicks
        /\ ticking => burst <= before + cb.hotTicks
    BY <1>3 DEF Deferred, DeferralBounded
  <1>5. ASSUME deferrals' = deferrals + 1, burst' = burst PROVE Deferred'
    <2>1. M * deferrals' = before + M /\ M * (deferrals' + 1) = before + M + M
      BY <1>1, <1>5
    <2> HIDE DEF before
    <2> QED BY <1>1, <1>2, <1>4, <1>5, <2>1 DEF Deferred, DeferralBounded
  <1>6. ASSUME burst' = 0, deferrals' = 0, LiveMicrotasks(cb') = {} PROVE Deferred'
    <2>1. M * deferrals' = 0 /\ M * (deferrals' + 1) = M
      BY <1>1, <1>6
    <2> QED BY <1>1, <1>2, <1>6, <2>1 DEF Deferred, DeferralBounded
  <1>7. ASSUME deferrals' = deferrals, burst' \in Nat,
               burst' < before + M,
               LiveMicrotasks(cb') # {} => burst' < before + cb'.hotTicks,
               ticking' => burst' <= before + cb'.hotTicks
        PROVE  Deferred'
    <2>1. M * deferrals' = before /\ M * (deferrals' + 1) = before + M
      BY <1>3, <1>7
    <2> HIDE DEF before
    <2> QED BY <1>7, <2>1 DEF Deferred, DeferralBounded
  <1> HIDE DEF before
  <1>8. CASE Start \/ Kick
    BY <1>5, <1>8 DEF Start, Kick
  <1>9. CASE Stop
    <2>1. cb'.hotTicks = cb.hotTicks /\ LiveMicrotasks(cb') = {}
      <3>1. /\ cb'.hotTicks = cb.hotTicks /\ cb'.micro = cb.micro
            /\ cb'.epoch = cb.epoch + 1 /\ cb.epoch \in Nat
            /\ cb.micro \in Seq(Nat)
        BY <1>1, <1>9 DEF Stop, Cancelled, Callbacks
      <3> QED BY <1>1, <3>1 DEF LiveMicrotasks, Consistent
    <2> QED BY <1>1, <1>4, <1>7, <1>9, <2>1 DEF Stop
  <1>10. CASE RunOnce \/ ManualEnds \/ HoldExpires \/ UNCHANGED vars
    <2>1. cb' = cb /\ ticking' = ticking /\ burst' = burst /\ deferrals' = deferrals
      BY <1>10 DEF RunOnce, ManualEnds, ManualReturns, ManualThrows, HoldExpires, vars
    <2> QED BY <1>1, <1>4, <1>7, <2>1
  <1>11. CASE RunMicrotask
    <2> DEFINE rest == [cb EXCEPT !.micro = Tail(@)]
    <2>1. /\ cb.micro # <<>> /\ ~ticking /\ deferrals' = deferrals
      BY <1>11 DEF RunMicrotask, Idle
    <2>2. /\ rest.hotTicks = cb.hotTicks /\ Fired(rest).hotTicks = cb.hotTicks
          /\ rest.epoch = cb.epoch /\ Fired(rest).epoch = cb.epoch
          /\ rest.micro = Tail(cb.micro) /\ Fired(rest).micro = Tail(cb.micro)
          /\ cb.micro \in Seq(Nat)
      BY <1>1 DEF Fired, Callbacks
    <2>3. \A i \in 1..Len(Tail(cb.micro)) : i + 1 \in 1..Len(cb.micro)
                                           /\ Tail(cb.micro)[i] = cb.micro[i + 1]
      BY <2>1, <2>2
    <2>4. ASSUME cb'.micro = Tail(cb.micro), cb'.epoch = cb.epoch, LiveMicrotasks(cb') # {}
          PROVE  LiveMicrotasks(cb) # {}
      BY <2>3, <2>4 DEF LiveMicrotasks
    <2>5. CASE UpToDate(Head(cb.micro))
      <3>1. cb' = Fired(rest) /\ ticking' = TRUE /\ burst' = burst + 1
        BY <1>11, <2>5 DEF RunMicrotask
      <3>2. 1 \in LiveMicrotasks(cb)
        BY <2>1, <2>2, <2>5 DEF LiveMicrotasks, UpToDate
      <3>3. LiveMicrotasks(cb') = {}
        <4>1. rest.epoch = cb.epoch /\ LiveMicrotasks(rest) = {}
          BY <1>1, <2>1, <2>5, PoppedIsConsistent DEF UpToDate
        <4> QED BY <2>2, <3>1, <4>1 DEF LiveMicrotasks
      <3> HIDE DEF rest
      <3> QED BY <1>1, <1>4, <1>7, <2>1, <2>2, <3>1, <3>2, <3>3
    <2>6. CASE ~UpToDate(Head(cb.micro))
      <3>1. cb' = rest /\ ticking' = ticking /\ burst' = burst
        BY <1>11, <2>6 DEF RunMicrotask
      <3> HIDE DEF rest
      <3> QED BY <1>1, <1>4, <1>7, <2>1, <2>2, <2>4, <3>1
    <2> QED BY <2>5, <2>6
  <1>12. CASE RunImmediate \/ RunTimer \/ Yield
    <2>1. cb.micro = <<>> /\ burst' = 0 /\ deferrals' = 0
      BY <1>12 DEF RunImmediate, RunTimer, Yield
    <2>2. cb'.micro = cb.micro
      BY <1>1, <1>12 DEF RunImmediate, RunTimer, Yield, Fired, Callbacks
    <2>3. LiveMicrotasks(cb') = {}
      BY <2>1, <2>2 DEF LiveMicrotasks
    <2> QED BY <1>6, <2>1, <2>3
  <1>13. CASE TickReturns \/ TickThrows \/ TickErrorEscapes
    <2>1. ticking /\ ticking' = FALSE /\ burst' = burst /\ deferrals' = deferrals
      BY <1>13 DEF TickReturns, TickThrows, TickErrorEscapes
    <2>2. cb' = cb \/ (~cb.scheduled /\ \E ms \in Nat : \E ph : cb' = Scheduled(cb, ph, ms))
      <3>1. delay' \in Nat
        BY NextInv DEF Inv, TypeOK
      <3> QED BY <1>1, <1>13, <3>1
          DEF TickReturns, TickThrows, TickErrorEscapes, Scheduled
    <2>3. LiveMicrotasks(cb') # {} => burst < before + cb'.hotTicks
      <3>1. CASE cb' = cb
        BY <1>4, <3>1
      <3>2. CASE ~cb.scheduled /\ \E ms \in Nat : \E ph : cb' = Scheduled(cb, ph, ms)
        <4>1. LiveMicrotasks(cb') # {} => cb'.hotTicks = cb.hotTicks + 1
          BY <1>1, <3>2, ScheduledCounts
        <4> QED BY <1>1, <1>2, <1>4, <2>1, <4>1
      <3> QED BY <2>2, <3>1, <3>2
    <2> QED BY <1>1, <1>4, <1>7, <2>1, <2>3
  <1> QED
    BY <1>8, <1>9, <1>10, <1>11, <1>12, <1>13 DEF Next, Tick, TickEnds

-----------------------------------------------------------------------------
LEMMA AlwaysInv == Spec => []Inv
  BY InitInv, NextInv, PTL DEF Spec

(* Every variable keeps its type.                                          *)
THEOREM TypeCorrect == Spec => []TypeOK
  <1>1. Inv => TypeOK
    BY DEF Inv
  <1> QED BY <1>1, AlwaysInv, PTL

(* A running scheduler is inside a tick or has one coming, and never two:  *)
(* kick(), stop(), start() and runOnce(), called from listeners in any     *)
(* nesting or between polls, neither end the heartbeat nor double it, and  *)
(* after onError itself threw start() and kick() bring it back.            *)
THEOREM HeartbeatIsKept == Spec => []HeartbeatKept
  <1>1. Inv => SingleHeartbeat
    BY DEF Inv, Slots, Consistent, SingleHeartbeat
  <1>2. Inv => HeartbeatAlive
    BY DEF Inv, Alive, Slots, Consistent, HeartbeatAlive
  <1>3. Inv => HeartbeatKept
    BY <1>1, <1>2 DEF HeartbeatKept
  <1> QED BY <1>3, AlwaysInv, PTL

(* The WARM delay stays within idleMin..idleMax, whatever the poll results *)
(* and the cold intervals before.                                          *)
THEOREM BackoffStaysBounded == Spec => []BackoffBounded
  <1>1. Inv => BackoffBounded
    BY DEF Inv, Delays
  <1> QED BY <1>1, AlwaysInv, PTL

(* A client that is never cold (a subscribed consumer) never waits longer  *)
(* than idleMax for its next poll.                                         *)
THEOREM ConsumerLatency == Spec => []LatencyBounded
  <1>1. Inv => LatencyBounded
    BY DEF Inv, Latency, WithinIdle, LatencyBounded, LiveTimer
  <1> QED BY <1>1, AlwaysInv, PTL

(* The macrotask round comes after fewer than macrotaskEvery microtask     *)
(* rounds, plus macrotaskEvery for each kick() or start() in between.      *)
THEOREM MacrotaskComes == Spec => []DeferralBounded
  <1>1. Inv /\ Deferred => DeferralBounded
    BY DEF Deferred
  <1>2. Spec => []Deferred
    BY AlwaysInv, InitDeferred, NextDeferred, PTL DEF Spec
  <1> QED BY <1>1, <1>2, AlwaysInv, PTL

=============================================================================

------------------------ MODULE ShimConsumer_proofs ------------------------
(***************************************************************************)
(* Proofs about ShimConsumer, for every script of librdkafka, every number *)
(* of frames and every size of the buffers: the prefetch thread and the JS *)
(* thread are never at work on the same frame, nor in consume_fill() at a  *)
(* time; a handle is freed only after the thread has ended; a buffer that  *)
(* was too small is not too small twice; and a record or an event reaches  *)
(* JS once, in order and under its own topic: the shim implements Channel. *)
(***************************************************************************)
EXTENDS ShimConsumer, WellFoundedInduction, SequenceTheorems, TLAPS

JsStates == {"idle", "stash", "main", "growEvents", "filling", "take", "copying",
             "growConsume", "failed", "joining", "closing", "freed"}
ThreadStates == {"none", "top", "asleep", "filling", "exited"}

(* The shape of the variables the argument is about.                       *)
Shapes ==
  /\ head \in 0..NFrames-1 /\ tail \in 0..NFrames-1 /\ ready \in 0..NFrames
  /\ enabled \in BOOLEAN
  /\ thread \in ThreadStates /\ js \in JsStates
  /\ DOMAIN fill = {"by", "phase", "out", "cached"}
  /\ fill.by \in {"none", "js", "prefetch"}

(* The frames from head on are full, up to tail.                           *)
RingCounts == tail = head + ready \/ tail + NFrames = head + ready

(* The thread fills a frame only while one is empty, JS copies only while  *)
(* one is full: neither takes the other's reason away.                     *)
FrameClaims ==
  /\ thread = "filling" => ready < NFrames
  /\ js = "copying" => ready > 0

(* Who is in consume_fill(): the thread while prefetching is enabled, JS   *)
(* otherwise, and pf->enabled is cleared only once the thread has ended.   *)
FillClaims ==
  /\ fill.by = "prefetch" <=> thread = "filling"
  /\ fill.by = "js" => js = "filling"
  /\ js \in {"filling", "closing", "freed"} => ~enabled
  /\ ~enabled => thread \in {"none", "exited"}

RingInv == Shapes /\ RingCounts /\ FrameClaims /\ FillClaims

LEMMA InvMeansExclusive == RingInv => RingExclusive
  <1> SUFFICES ASSUME RingInv PROVE RingExclusive
    OBVIOUS
  <1> USE ShimAssumption DEF ShimAssumption
  <1>1. FrameExclusive
    <2> SUFFICES ASSUME js = "copying" PROVE ready > 0 /\ (thread = "filling" => tail # head)
      BY DEF FrameExclusive
    <2>1. ready > 0
      BY DEF RingInv, FrameClaims
    <2>2. ASSUME thread = "filling" PROVE tail # head
      <3>1. ready < NFrames /\ NFrames \in Nat /\ head \in Nat /\ tail \in Nat /\ ready \in Nat
        BY <2>2 DEF RingInv, FrameClaims, Shapes
      <3> QED BY <2>1, <3>1 DEF RingInv, RingCounts
    <2> QED BY <2>1, <2>2
  <1>2. OneFiller
    BY DEF OneFiller, RingInv, FillClaims, Shapes
  <1> QED BY <1>1, <1>2 DEF RingExclusive

LEMMA InitRingInv == Init => RingInv
  BY ShimAssumption DEF Init, ShimAssumption, RingInv, Shapes, RingCounts, FrameClaims, FillClaims,
       NoFill, JsStates, ThreadStates

(* The ring goes round: no % is needed to say where it is.                 *)
LEMMA NextFrameIs ==
  ASSUME NEW i \in 0..NFrames-1
  PROVE  NextFrame(i) = IF i + 1 = NFrames THEN 0 ELSE i + 1
  BY ShimAssumption DEF NextFrame, ShimAssumption

-----------------------------------------------------------------------------
(* What a step of consume_fill() changes of these variables: nothing but   *)
(* where the call is. It may not end as another caller's.                  *)
LEMMA FillKeepsCaller ==
  ASSUME Shapes, ConsumeFill
  PROVE  /\ DOMAIN fill' = {"by", "phase", "out", "cached"} /\ fill'.by = fill.by
         /\ UNCHANGED <<ring, js>>
  <1>1. CASE FillEnter
    BY <1>1 DEF FillEnter, Shapes, ring, caller
  <1>2. CASE SerializeMessage
    BY <1>2 DEF SerializeMessage, Emit, Shapes, ring, caller
  <1>3. CASE PollConsumerQueue
    <2>1. UNCHANGED <<ring, js>>
      BY <1>3 DEF PollConsumerQueue, ring, caller
    <2>2. PICK event : TakeFetch(event) \/ TakeEof(event) \/ TakeOther(event)
      BY <1>3 DEF PollConsumerQueue
    <2>3. DOMAIN fill' = {"by", "phase", "out", "cached"} /\ fill'.by = fill.by
      <3>1. CASE TakeFetch(event)
        BY <3>1 DEF TakeFetch, Shapes
      <3>2. CASE TakeEof(event)
        BY <3>2 DEF TakeEof, Emit, Shapes
      <3>3. CASE TakeOther(event)
        BY <3>3 DEF TakeOther, Shapes
      <3> QED BY <2>2, <3>1, <3>2, <3>3
    <2> QED BY <2>1, <2>3
  <1>4. CASE FillDone
    BY <1>4 DEF FillDone, Shapes, ring, caller
  <1> QED BY <1>1, <1>2, <1>3, <1>4 DEF ConsumeFill

(* A step of consume_fill() keeps the invariant, whoever made the call.    *)
LEMMA FillKeepsInv ==
  ASSUME RingInv, ConsumeFill
  PROVE  RingInv'
  <1>1. /\ DOMAIN fill' = {"by", "phase", "out", "cached"} /\ fill'.by = fill.by
        /\ UNCHANGED <<ring, js>>
    BY FillKeepsCaller DEF RingInv
  <1> QED
    BY <1>1 DEF RingInv, Shapes, RingCounts, FrameClaims, FillClaims, ring

(* A step of JS between two calls touches neither the ring nor the call of *)
(* consume_fill(), and takes no new claim.                                 *)
LEMMA QuietStepKeepsInv ==
  ASSUME RingInv, UNCHANGED <<ring, fill>>, js' \in JsStates,
         js' = "copying" => js = "copying" \/ ready > 0,
         js' \in {"filling", "closing", "freed"} => ~enabled,
         fill.by = "js" => js' = "filling"
  PROVE  RingInv'
  BY DEF RingInv, Shapes, RingCounts, FrameClaims, FillClaims, ring

LEMMA NextRingInv == RingInv /\ [Next]_vars => RingInv'
  <1> SUFFICES ASSUME RingInv, [Next]_vars PROVE RingInv'
    OBVIOUS
  <1> USE DEF RingInv
  <1>1. CASE Enqueue \/ GroupCloses
    BY <1>1, QuietStepKeepsInv
       DEF Enqueue, GroupCloses, filling, caller, Shapes, FillClaims, FrameClaims
  <1>2. CASE ConsumeFill
    BY <1>2, FillKeepsInv
  <1>3. CASE PrefetchTop
    <2>1. thread = "top" /\ UNCHANGED <<head, tail, ready, enabled, js>>
      BY <1>3 DEF PrefetchTop, caller
    <2>2. CASE thread' \in {"exited", "asleep"} /\ fill' = fill /\ (thread' = "asleep" => enabled)
      BY <2>1, <2>2 DEF Shapes, RingCounts, FrameClaims, FillClaims, ThreadStates
    <2>3. CASE ~RingFull /\ thread' = "filling" /\ fill' = StartFill("prefetch")
      <3>1. ready < NFrames
        BY <2>3, ShimAssumption DEF RingFull, Shapes, ShimAssumption
      <3>2. DOMAIN fill' = {"by", "phase", "out", "cached"} /\ fill'.by = "prefetch"
        BY <2>3 DEF StartFill, NoFill
      <3> QED
        BY <2>1, <2>3, <3>1, <3>2 DEF Shapes, RingCounts, FrameClaims, FillClaims, ThreadStates
    <2>4. enabled
      BY <2>1 DEF FillClaims
    <2> QED BY <1>3, <2>2, <2>3, <2>4 DEF PrefetchTop
  <1>4. CASE PrefetchPublish
    <2>1. /\ thread = "filling" /\ thread' = "top" /\ fill' = NoFill
          /\ UNCHANGED <<head, enabled, js>>
      BY <1>4 DEF PrefetchPublish, caller
    <2>2. CASE UNCHANGED <<tail, ready>>
      BY <2>1, <2>2 DEF Shapes, RingCounts, FrameClaims, FillClaims, ThreadStates, NoFill
    <2>3. CASE tail' = NextFrame(tail) /\ ready' = ready + 1
      <3>1. tail' = IF tail + 1 = NFrames THEN 0 ELSE tail + 1
        BY <2>3, NextFrameIs DEF Shapes
      <3>2. Shapes'
        BY <2>1, <2>3, <3>1, ShimAssumption
           DEF Shapes, FrameClaims, ThreadStates, NoFill, ShimAssumption
      <3>3. RingCounts'
        BY <2>1, <2>3, <3>1, ShimAssumption DEF Shapes, RingCounts, FrameClaims, ShimAssumption
      <3>4. FrameClaims' /\ FillClaims'
        BY <2>1, <2>3 DEF Shapes, FrameClaims, FillClaims, NoFill
      <3> QED BY <3>2, <3>3, <3>4
    <2> QED BY <1>4, <2>2, <2>3 DEF PrefetchPublish
  <1>5. CASE PrefetchGrow
    BY <1>5 DEF PrefetchGrow, NoFill, caller, Shapes, RingCounts, FrameClaims, FillClaims,
                ThreadStates
  <1>6. CASE PollEvents \/ PollStash \/ PollMain \/ GrowEvents \/ Failed
    <2>1. /\ UNCHANGED <<ring, fill>> /\ js # "filling" /\ js # "copying"
          /\ js' \in {"stash", "main", "growEvents", "idle", "failed"} \/ js' = js
      BY <1>6 DEF PollEvents, PollStash, PollMain, GrowEvents, Failed, filling, EventsReturn,
                  Return, TooSmall
    <2>2. js' \in JsStates
      BY <2>1 DEF Shapes, JsStates
    <2> QED BY <2>1, <2>2, QuietStepKeepsInv DEF Shapes, FillClaims
  <1>7. CASE ConsumeBatch \/ GrowConsume
    <2>1. /\ js \in {"idle", "growConsume"} /\ UNCHANGED ring
          /\ js' = IF enabled THEN "take" ELSE "filling"
          /\ fill' = IF enabled THEN fill ELSE StartFill("js")
      BY <1>7 DEF ConsumeBatch, GrowConsume
    <2> QED
      BY <2>1 DEF ring, StartFill, NoFill, Shapes, RingCounts, FrameClaims, FillClaims, JsStates
  <1>8. CASE JsFillEnds
    <2>1. /\ js = "filling" /\ fill' = NoFill /\ UNCHANGED ring
          /\ js' \in {"idle", "failed", "growConsume"}
      BY <1>8 DEF JsFillEnds, Deliver, Return, TooSmall
    <2> QED
      BY <2>1 DEF ring, NoFill, Shapes, RingCounts, FrameClaims, FillClaims, JsStates
  <1>9. CASE TakeFrame
    <2>1. /\ js = "take" /\ UNCHANGED <<ring, fill>>
          /\ js' \in {"idle", "failed", "growConsume", "copying"}
          /\ js' = "copying" => ready # 0
      BY <1>9 DEF TakeFrame, Return, TooSmall, filling
    <2>2. js' = "copying" => ready > 0
      BY <2>1, ShimAssumption DEF Shapes, ShimAssumption
    <2>3. js' \in JsStates
      BY <2>1 DEF JsStates
    <2> QED BY <2>1, <2>2, <2>3, QuietStepKeepsInv DEF Shapes, FillClaims
  <1>10. CASE CopyFrame
    <2>1. /\ js = "copying" /\ js' = "idle" /\ head' = NextFrame(head) /\ ready' = ready - 1
          /\ thread' = Woken /\ UNCHANGED <<fill, tail, enabled>>
      BY <1>10 DEF CopyFrame, Deliver, Return, filling
    <2>2. head' = IF head + 1 = NFrames THEN 0 ELSE head + 1
      BY <2>1, NextFrameIs DEF Shapes
    <2>3. Shapes'
      BY <2>1, <2>2, ShimAssumption
         DEF Shapes, FrameClaims, ThreadStates, JsStates, Woken, ShimAssumption
    <2>4. RingCounts'
      BY <2>1, <2>2, ShimAssumption DEF Shapes, RingCounts, FrameClaims, ShimAssumption
    <2>5. FrameClaims'
      BY <2>1, ShimAssumption DEF Shapes, FrameClaims, Woken, ShimAssumption
    <2>6. FillClaims'
      BY <2>1 DEF Shapes, FillClaims, Woken
    <2> QED BY <2>3, <2>4, <2>5, <2>6
  <1>11. CASE Destroy
    <2>1. /\ js = "idle" /\ js' = (IF enabled THEN "joining" ELSE "closing")
          /\ thread' = (IF thread = "asleep" THEN "top" ELSE thread)
          /\ UNCHANGED <<fill, head, tail, ready, enabled>>
      BY <1>11 DEF Destroy, AfterStop, Woken, filling
    <2>2. Shapes' /\ RingCounts'
      BY <2>1 DEF Shapes, RingCounts, JsStates, ThreadStates
    <2>3. FrameClaims' /\ FillClaims'
      BY <2>1 DEF Shapes, FrameClaims, FillClaims
    <2> QED BY <2>2, <2>3
  <1>12. CASE Join
    <2>1. /\ js = "joining" /\ js' = "closing" /\ thread = "exited" /\ ~enabled'
          /\ head' = 0 /\ tail' = 0 /\ ready' = 0 /\ UNCHANGED <<fill, thread>>
          /\ enabled' \in BOOLEAN
      BY <1>12 DEF Join, filling
    <2>2. Shapes' /\ RingCounts'
      BY <2>1, ShimAssumption DEF Shapes, RingCounts, JsStates, ShimAssumption
    <2>3. FrameClaims' /\ FillClaims'
      BY <2>1 DEF Shapes, FrameClaims, FillClaims
    <2> QED BY <2>2, <2>3
  <1>13. CASE CloseConsumer
    <2>1. js = "closing" /\ js' \in {"closing", "freed"} /\ UNCHANGED <<ring, fill>>
      BY <1>13 DEF CloseConsumer, filling
    <2> QED BY <2>1, QuietStepKeepsInv DEF Shapes, FillClaims, JsStates
  <1>14. CASE UNCHANGED vars
    BY <1>14 DEF vars, filling, ring, caller, Shapes, RingCounts, FrameClaims, FillClaims
  <1> QED
    BY <1>1, <1>2, <1>3, <1>4, <1>5, <1>6, <1>7, <1>8, <1>9, <1>10, <1>11, <1>12, <1>13, <1>14
       DEF Next, PrefetchThread, JsThread

(* "JS never touches frames[tail] while ready < nframes" and consume_fill()*)
(* runs on one thread at a time, whatever the ring's size and whatever is  *)
(* fetched: the thread never fills the frame prefetch_take() copies, and   *)
(* brk_handle_destroy() frees no queue the thread still reads.             *)
THEOREM RingIsExclusive == Spec => []RingExclusive
  <1>1. Spec => []RingInv
    BY InitRingInv, NextRingInv, PTL DEF Spec
  <1> QED BY <1>1, InvMeansExclusive, PTL
-----------------------------------------------------------------------------
(* Sizes. The recursive sum of SizeOf is a number: a smallest place where  *)
(* it were not would come after one where it is.                           *)
LEMMA LeastNumber ==
  ASSUME NEW S, S \subseteq Nat, S # {}
  PROVE  \E m \in S : \A n \in S : m <= n
  <1>1. PICK m \in S : \A n \in S : ~ (<<n, m>> \in OpToRel(<, Nat))
    BY WFMin, NatLessThanWellFounded
  <1>2. \A n \in S : ~ (n < m)
    BY <1>1 DEF OpToRel
  <1> QED BY <1>2

Sums(items, f) == f = [n \in 0..Len(items) |-> IF n = 0 THEN 0 ELSE f[n - 1] + items[n].size]

LEMMA SumsExist ==
  ASSUME NEW S, NEW items \in Seq(S), \A x \in S : x.size \in Nat
  PROVE  \E f : Sums(items, f)
  <1> DEFINE Upto(k, f) == \A n \in 0..k : f[n] = IF n = 0 THEN 0 ELSE f[n - 1] + items[n].size
             Bad == {k \in 0..Len(items) : ~ \E f \in [0..Len(items) -> Nat] : Upto(k, f)}
  <1>0. Len(items) \in Nat /\ \A n \in 1..Len(items) : items[n].size \in Nat
    OBVIOUS
  <1>1. CASE Bad = {}
    <2>1. PICK f \in [0..Len(items) -> Nat] : Upto(Len(items), f)
      <3>1. Len(items) \in 0..Len(items) /\ Len(items) \notin Bad
        BY <1>0, <1>1
      <3> QED BY <3>1
    <2>2. f = [n \in 0..Len(items) |-> f[n]]
      BY <2>1
    <2> QED BY <2>1, <2>2 DEF Sums
  <1>2. CASE Bad # {}
    <2>1. PICK k \in Bad : \A m \in Bad : k <= m
      <3>1. Bad \subseteq Nat
        BY <1>0
      <3> QED BY <1>2, <3>1, LeastNumber
    <2>2. k \in 0..Len(items) /\ ~ \E f \in [0..Len(items) -> Nat] : Upto(k, f)
      BY <2>1
    <2>3. k # 0
      <3>1. [n \in 0..Len(items) |-> 0] \in [0..Len(items) -> Nat] /\ Upto(0, [n \in 0..Len(items) |-> 0])
        BY <1>0
      <3> QED BY <3>1, <2>2
    <2>4. k - 1 \in 0..Len(items) /\ k \in 1..Len(items)
      BY <2>2, <2>3, <1>0
    <2>5. PICK f \in [0..Len(items) -> Nat] : Upto(k - 1, f)
      <3>1. ASSUME k - 1 \in Bad PROVE FALSE
        <4>1. k <= k - 1
          BY <3>1, <2>1
        <4> QED BY <4>1, <2>4
      <3> QED BY <2>4, <3>1
    <2> DEFINE g == [f EXCEPT ![k] = f[k - 1] + items[k].size]
    <2>6. g \in [0..Len(items) -> Nat]
      <3>1. f[k - 1] \in Nat /\ items[k].size \in Nat
        BY <2>4, <2>5, <1>0
      <3>2. f[k - 1] + items[k].size \in Nat
        BY <3>1
      <3> QED BY <3>2, <2>5
    <2>7. Upto(k, g)
      BY <2>4, <2>5, <1>0
    <2> QED BY <2>2, <2>6, <2>7
  <1> QED BY <1>1, <1>2

LEMMA SumsAreNat ==
  ASSUME NEW S, NEW items \in Seq(S), \A x \in S : x.size \in Nat, NEW f, Sums(items, f)
  PROVE  f \in [0..Len(items) -> Nat]
  <1> DEFINE Bad == {k \in 0..Len(items) : f[k] \notin Nat}
  <1>0. Len(items) \in Nat /\ \A n \in 1..Len(items) : items[n].size \in Nat
    OBVIOUS
  <1>1. \A n \in 0..Len(items) : f[n] = IF n = 0 THEN 0 ELSE f[n - 1] + items[n].size
    BY DEF Sums
  <1>2. ASSUME Bad # {} PROVE FALSE
    <2>0. Bad \subseteq Nat
      BY <1>0
    <2>1. PICK k \in Bad : \A m \in Bad : k <= m
      BY <1>2, <2>0, LeastNumber
    <2>2. k \in 0..Len(items) /\ f[k] \notin Nat
      BY <2>1
    <2>3. k # 0
      BY <1>1, <2>2, <1>0
    <2>4. k - 1 \in 0..Len(items) /\ k \in 1..Len(items)
      BY <2>2, <2>3, <1>0
    <2>5. ASSUME f[k - 1] \notin Nat PROVE FALSE
      <3>1. k <= k - 1
        BY <2>1, <2>4, <2>5
      <3> QED BY <3>1, <2>4
    <2>6. f[k] = f[k - 1] + items[k].size
      BY <1>1, <2>2, <2>3
    <2> QED BY <2>2, <2>4, <2>5, <2>6, <1>0
  <1>3. DOMAIN f = 0..Len(items) /\ f = [n \in 0..Len(items) |-> f[n]]
    BY DEF Sums
  <1> QED BY <1>2, <1>3

(* What is on its way through a buffer: things that have a size.           *)
Sized(items) == IsSequence(items) /\ \A x \in ToSet(items) : x.size \in Nat

LEMMA SizeIsNat ==
  ASSUME NEW items, Sized(items)
  PROVE  SizeOf(items) \in Nat /\ (items = <<>> => SizeOf(items) = 0)
  <1> DEFINE F == CHOOSE f : Sums(items, f)
  <1>0. items \in Seq(ToSet(items)) /\ \A x \in ToSet(items) : x.size \in Nat
    BY DEF Sized, IsSequence
  <1>1. Sums(items, F)
    BY <1>0, SumsExist
  <1>2. SizeOf(items) = F[Len(items)]
    BY DEF SizeOf, Sums
  <1> HIDE DEF F
  <1>3. F \in [0..Len(items) -> Nat]
    BY <1>0, <1>1, SumsAreNat
  <1>4. F[0] = 0 /\ Len(items) \in 0..Len(items)
    BY <1>0, <1>1 DEF Sums
  <1> QED BY <1>2, <1>3, <1>4

LEMMA NothingSized == Sized(<<>>)
  BY DEF Sized, IsSequence, ToSet

LEMMA AppendSized ==
  ASSUME NEW items, Sized(items), NEW x, x.size \in Nat
  PROVE  Sized(Append(items, x)) /\ Append(items, x) # <<>>
  <1> DEFINE S == ToSet(items) \cup {x}
             s == Append(items, x)
  <1>1. items \in Seq(S)
    BY DEF Sized, IsSequence
  <1>2. s \in Seq(S) /\ Len(s) = Len(items) + 1
    BY <1>1
  <1>3. ToSet(s) = S
    <2>1. /\ \A i \in 1..Len(items) : s[i] = items[i] /\ i \in 1..Len(s)
          /\ s[Len(s)] = x /\ Len(s) \in 1..Len(s)
          /\ \A i \in 1..Len(s) : i \in 1..Len(items) \/ i = Len(s)
          /\ DOMAIN s = 1..Len(s) /\ DOMAIN items = 1..Len(items)
      BY <1>1, <1>2
    <2> HIDE DEF s
    <2> QED BY <2>1 DEF ToSet
  <1>4. s # <<>>
    <2>1. Len(s) # 0
      BY <1>1, <1>2
    <2> QED BY <2>1
  <1> QED BY <1>2, <1>3, <1>4 DEF Sized, IsSequence

LEMMA OneSized ==
  ASSUME NEW x, x.size \in Nat
  PROVE  Sized(<<x>>) /\ Len(<<x>>) = 1 /\ <<x>>[1] = x
  <1>1. <<x>> \in Seq({x}) /\ ToSet(<<x>>) = {x}
    BY DEF ToSet
  <1> QED BY <1>1 DEF Sized, IsSequence

LEMMA ElementSized ==
  ASSUME NEW items, Sized(items), items # <<>>
  PROVE  items[1].size \in Nat /\ Len(items) \in Nat \ {0}
  BY DEF Sized, IsSequence, ToSet

-----------------------------------------------------------------------------
(* Types.                                                                  *)
AllEvents == UNION {ToSet(script.consumer) \cup ToSet(script.main) : script \in Scripts}
Batches == {event \in AllEvents : event.kind \in {"fetch", "eof"}}
Items == AllEvents \ Batches
AllRecords == UNION {ToSet(event.records) : event \in Batches}

QueuesTyped ==
  /\ coming \in Seq(AllEvents) /\ mainComing \in Seq(AllEvents)
  /\ consumerQ \in Seq(AllEvents) /\ mainQ \in Seq(AllEvents)
EventsTyped == stash \in Seq(Items) /\ frameOut \in Seq(Items)
RecordsTyped == curFetch \in Seq(AllRecords) /\ Sized(pending) /\ Len(pending) <= 1
FillTyped ==
  /\ Sized(fill.out)
  /\ fill.phase \in {"none", "enter", "loop", "done", "tooSmall"}
Frame(f) == DOMAIN f = {"out", "cap"} /\ Sized(f.out) /\ f.cap \in Nat
RingTyped == DOMAIN frames = 0..NFrames-1 /\ \A i \in 0..NFrames-1 : Frame(frames[i])
CallerTyped ==
  /\ lastRequired \in Nat /\ consumeBuf \in Nat /\ eventBuf \in Nat /\ eventBuf >= EventBytes
  /\ running \in BOOLEAN /\ retried \in BOOLEAN /\ turn \in {"events", "consume"}
ClosingTyped ==
  cgrp \in {"open", "leaving", "revoking", "closed"} /\ revokes \in 0..MaxRevokes

Typed ==
  /\ QueuesTyped /\ EventsTyped /\ RecordsTyped /\ FillTyped /\ RingTyped
  /\ CallerTyped /\ ClosingTyped

(* Why a retry fits. Between two calls nothing is a retry. A record that   *)
(* did not fit is held over, and the next buffer is at least its size: it  *)
(* goes in first, after which the call cannot find the buffer too small.   *)
RecordFits ==
  /\ js = "growConsume" => pending # <<>> /\ pending[1].size = lastRequired
  /\ js = "filling" /\ fill.phase = "tooSmall" =>
       ~retried /\ pending # <<>> /\ pending[1].size = lastRequired
  /\ js = "filling" /\ retried =>
       /\ fill.phase = "enter" => pending # <<>> /\ pending[1].size <= consumeBuf
       /\ fill.phase = "loop" => fill.out # <<>>

(* The same of an event, which waits in the stash. Something other than it *)
(* may be at the head: a throttle frame, or what fitted the old buffer.    *)
EventFits ==
  /\ js = "growEvents" =>
       stash # <<>> /\ Head(stash).size <= Larger(lastRequired, 2 * eventBuf)
  /\ js = "stash" /\ retried /\ frameOut = <<>> => stash # <<>> /\ Head(stash).size <= eventBuf
  /\ js = "main" /\ frameOut = <<>> =>
       ~retried /\ (stash # <<>> => Head(stash).size <= eventBuf)

Fits ==
  /\ js = "idle" => ~retried
  /\ js = "growEvents" => frameOut = <<>>
  /\ ~enabled => RecordFits /\ EventFits /\ js \notin {"take", "failed"}

Inv == RingInv /\ Typed /\ Fits

LEMMA ScriptTypes ==
  /\ \A script \in Scripts : script.consumer \in Seq(AllEvents) /\ script.main \in Seq(AllEvents)
  /\ \A event \in Items : event.size \in Nat /\ (event.kind = "throttle" => event.size <= EventBytes)
  /\ \A event \in Batches : event.records \in Seq(AllRecords)
  /\ \A r \in AllRecords : r.size \in Nat
  <1> DEFINE Good(event) ==
        \/ /\ event.kind \in {"fetch", "eof"} /\ IsSequence(event.records)
           /\ \A r \in ToSet(event.records) : r.size \in Nat
        \/ event.kind \notin {"fetch", "eof", "throttle"} /\ event.size \in Nat
        \/ event.kind = "throttle" /\ event.size \in 0..EventBytes
  <1>1. ASSUME NEW script \in Scripts
        PROVE  /\ ToSet(script.consumer) \subseteq AllEvents /\ ToSet(script.main) \subseteq AllEvents
               /\ IsSequence(script.consumer) /\ IsSequence(script.main)
               /\ \A event \in ToSet(script.consumer) \cup ToSet(script.main) : Good(event)
    <2>1. ToSet(script.consumer) \subseteq AllEvents /\ ToSet(script.main) \subseteq AllEvents
      BY DEF AllEvents
    <2>2. IsSequence(script.consumer) /\ IsSequence(script.main)
      BY ScriptsAssumption
    <2>3. \A event \in ToSet(script.consumer) : Good(event)
      BY ScriptsAssumption
    <2>4. \A event \in ToSet(script.main) : Good(event)
      BY ScriptsAssumption
    <2> QED BY <2>1, <2>2, <2>3, <2>4
  <1>2. \A event \in AllEvents : Good(event)
    BY <1>1 DEF AllEvents
  <1> HIDE DEF Good
  <1>3. ASSUME NEW script \in Scripts
        PROVE  script.consumer \in Seq(AllEvents) /\ script.main \in Seq(AllEvents)
    <2>1. /\ script.consumer \in Seq(ToSet(script.consumer)) /\ script.main \in Seq(ToSet(script.main))
          /\ ToSet(script.consumer) \subseteq AllEvents /\ ToSet(script.main) \subseteq AllEvents
      BY <1>1 DEF IsSequence
    <2> QED BY ONLY <2>1
  <1>4. \A event \in Items : event.size \in Nat /\ (event.kind = "throttle" => event.size <= EventBytes)
    BY <1>2, ShimAssumption DEF Good, Items, Batches, ShimAssumption
  <1>5. ASSUME NEW event \in Batches
        PROVE  /\ IsSequence(event.records) /\ ToSet(event.records) \subseteq AllRecords
               /\ \A r \in ToSet(event.records) : r.size \in Nat
    <2>1. IsSequence(event.records) /\ \A r \in ToSet(event.records) : r.size \in Nat
      BY <1>2 DEF Good, Batches
    <2>2. ToSet(event.records) \subseteq AllRecords
      BY DEF AllRecords
    <2> QED BY <2>1, <2>2
  <1>6. ASSUME NEW event \in Batches PROVE event.records \in Seq(AllRecords)
    <2>1. event.records \in Seq(ToSet(event.records)) /\ ToSet(event.records) \subseteq AllRecords
      BY <1>5 DEF IsSequence
    <2> QED BY ONLY <2>1
  <1>7. \A r \in AllRecords : r.size \in Nat
    BY <1>5 DEF AllRecords
  <1> QED BY <1>3, <1>4, <1>6, <1>7

(* Sequences: what Append, Tail and Head keep of a type.                   *)
LEMMA TailTyped ==
  ASSUME NEW S, NEW s \in Seq(S), s # <<>>
  PROVE  Tail(s) \in Seq(S) /\ Head(s) \in S /\ Head(s) = s[1]
  OBVIOUS

LEMMA AppendTyped ==
  ASSUME NEW S, NEW s \in Seq(S), NEW x \in S
  PROVE  /\ Append(s, x) \in Seq(S) /\ Append(s, x) # <<>>
         /\ Head(Append(s, x)) = IF s = <<>> THEN x ELSE Head(s)
  <1>1. Append(s, x) \in Seq(S) /\ Len(Append(s, x)) = Len(s) + 1 /\ Len(s) \in Nat
    OBVIOUS
  <1>2. Append(s, x) # <<>> /\ Head(Append(s, x)) = Append(s, x)[1]
    BY <1>1
  <1>3. s = <<>> => Append(s, x)[1] = x
    OBVIOUS
  <1>4. s # <<>> => Append(s, x)[1] = s[1] /\ s[1] = Head(s)
    OBVIOUS
  <1> QED BY <1>1, <1>2, <1>3, <1>4

LEMMA InitTyped == Init => Typed
  <1> SUFFICES ASSUME Init PROVE Typed
    OBVIOUS
  <1> USE ShimAssumption DEF ShimAssumption
  <1>1. QueuesTyped
    BY ScriptTypes DEF Init, QueuesTyped
  <1>2. EventsTyped /\ RecordsTyped /\ FillTyped
    BY NothingSized DEF Init, EventsTyped, RecordsTyped, FillTyped, NoFill
  <1>3. RingTyped
    BY NothingSized DEF Init, RingTyped, Frame, EmptyRing
  <1>4. CallerTyped
    <2>1. BufferBytes \in Nat /\ BufInitial \in Nat /\ EventBytes \in Nat
      OBVIOUS
    <2>2. Smaller(BufInitial, BufferBytes) \in Nat
      BY <2>1 DEF Smaller
    <2>3. Init => lastRequired \in Nat /\ consumeBuf \in Nat /\ eventBuf \in Nat
                  /\ eventBuf >= EventBytes
      BY <2>1, <2>2 DEF Init
    <2>4. Init => enabled \in BOOLEAN /\ running = enabled /\ retried = FALSE /\ turn = "events"
      BY DEF Init
    <2> QED BY <2>3, <2>4 DEF CallerTyped
  <1>5. ClosingTyped
    BY DEF Init, ClosingTyped
  <1> QED BY <1>1, <1>2, <1>3, <1>4, <1>5 DEF Typed

-----------------------------------------------------------------------------
(* consume_fill().                                                         *)
(* A record is written, or held over.                                      *)
LEMMA EmitTyped ==
  ASSUME FillTyped, RecordsTyped, CallerTyped, NEW record, record.size \in Nat, NEW cached,
         DOMAIN fill = {"by", "phase", "out", "cached"},
         fill.phase = "loop", Emit(record, cached)
  PROVE  /\ FillTyped' /\ Sized(pending') /\ Len(pending') <= 1 /\ lastRequired' \in Nat
         /\ fill'.phase = "tooSmall" =>
              fill.out = <<>> /\ pending' # <<>> /\ pending'[1].size = lastRequired'
         /\ fill'.phase # "enter"
         /\ fill'.phase = "loop" => fill'.out # <<>>
  <1>1. CASE fill' = [fill EXCEPT !.out = Append(@, record), !.cached = cached]
             /\ UNCHANGED <<pending, lastRequired>>
    <2>1. fill'.out = Append(fill.out, record) /\ fill'.phase = "loop"
      BY <1>1
    <2>2. Sized(Append(fill.out, record)) /\ Append(fill.out, record) # <<>>
      BY AppendSized DEF FillTyped
    <2> QED BY <1>1, <2>1, <2>2 DEF FillTyped, RecordsTyped, CallerTyped
  <1>2. CASE /\ pending' = <<record>> /\ fill.out = <<>>
             /\ fill' = [fill EXCEPT !.phase = "tooSmall"] /\ lastRequired' = Required(record.size)
    <2>1. fill'.out = fill.out /\ fill'.phase = "tooSmall"
      BY <1>2
    <2> QED BY <1>2, <2>1, OneSized DEF FillTyped, Required
  <1>3. CASE /\ pending' = <<record>> /\ fill' = [fill EXCEPT !.phase = "done"]
             /\ UNCHANGED lastRequired
    <2>1. fill'.out = fill.out /\ fill'.phase = "done"
      BY <1>3
    <2> QED BY <1>3, <2>1, OneSized DEF FillTyped, CallerTyped
  <1> QED BY <1>1, <1>2, <1>3 DEF Emit

(* What a step of consume_fill() does to a call that is a retry or not.    *)
FillMoves ==
  /\ fill.phase \in {"enter", "loop"} /\ fill'.phase # "enter"
  /\ fill'.phase = "tooSmall" =>
       /\ pending' # <<>> /\ pending'[1].size = lastRequired'
       /\ fill.phase = "enter" => pending # <<>> /\ pending[1].size > FillCap
       /\ fill.phase = "loop" => fill.out = <<>>
  /\ fill'.phase = "loop" =>
       /\ fill.phase = "enter" => fill'.out = pending
       /\ fill.phase = "loop" => fill'.out = fill.out \/ fill'.out # <<>>

LEMMA EnterTyped ==
  ASSUME Shapes, Typed, FillEnter
  PROVE  Typed' /\ FillMoves
  <1> USE DEF Typed
  <1>1. QueuesTyped' /\ EventsTyped' /\ RingTyped' /\ ClosingTyped' /\ curFetch' \in Seq(AllRecords)
    BY DEF FillEnter, queues, ring, caller, closing, QueuesTyped, EventsTyped, RingTyped,
           ClosingTyped, RecordsTyped
  <1>2. CASE /\ pending # <<>> /\ pending[1].size > FillCap /\ fill' = [fill EXCEPT !.phase = "tooSmall"]
             /\ lastRequired' = Required(pending[1].size) /\ UNCHANGED pending
    <2>1. fill'.out = fill.out /\ fill'.phase = "tooSmall"
      BY <1>2 DEF Shapes
    <2>2. pending[1].size \in Nat
      BY <1>2, ElementSized DEF RecordsTyped
    <2>3. RecordsTyped' /\ FillTyped' /\ CallerTyped'
      BY <1>1, <1>2, <2>1, <2>2
         DEF FillEnter, ring, caller, RecordsTyped, FillTyped, CallerTyped, Required
    <2>4. FillMoves
      BY <1>2, <2>1 DEF FillEnter, FillMoves, Required
    <2> QED BY <1>1, <2>3, <2>4
  <1>3. CASE fill' = [fill EXCEPT !.phase = "loop", !.out = pending] /\ pending' = <<>>
             /\ UNCHANGED lastRequired
    <2>1. fill'.out = pending /\ fill'.phase = "loop"
      BY <1>3 DEF Shapes
    <2>2. RecordsTyped' /\ FillTyped' /\ CallerTyped'
      BY <1>1, <1>3, <2>1, NothingSized
         DEF FillEnter, ring, caller, RecordsTyped, FillTyped, CallerTyped
    <2>3. FillMoves
      BY <2>1 DEF FillEnter, FillMoves
    <2> QED BY <1>1, <2>2, <2>3
  <1> QED BY <1>2, <1>3 DEF FillEnter

LEMMA SerializeTyped ==
  ASSUME Shapes, Typed, SerializeMessage
  PROVE  Typed' /\ FillMoves
  <1> USE DEF Typed
  <1>1. /\ UNCHANGED <<queues, stash, ring, caller, closing, received>>
        /\ fill.phase = "loop" /\ curFetch # <<>> /\ curFetch' = Tail(curFetch)
        /\ \E tid, cached : Emit([id |-> Head(curFetch).id, tid |-> tid, size |-> Head(curFetch).size],
                                 cached)
    BY DEF SerializeMessage
  <1>2. QueuesTyped' /\ EventsTyped' /\ RingTyped' /\ ClosingTyped'
    BY <1>1 DEF queues, ring, caller, closing, QueuesTyped, EventsTyped, RingTyped, ClosingTyped
  <1>3. curFetch' \in Seq(AllRecords) /\ Head(curFetch) \in AllRecords
    BY <1>1, TailTyped DEF RecordsTyped
  <1>4. PICK tid, cached :
          Emit([id |-> Head(curFetch).id, tid |-> tid, size |-> Head(curFetch).size], cached)
    BY <1>1
  <1> DEFINE record == [id |-> Head(curFetch).id, tid |-> tid, size |-> Head(curFetch).size]
  <1>5. record.size \in Nat /\ Emit(record, cached)
    BY <1>3, <1>4, ScriptTypes
  <1> HIDE DEF record
  <1>6. /\ FillTyped' /\ Sized(pending') /\ Len(pending') <= 1 /\ lastRequired' \in Nat
        /\ fill'.phase = "tooSmall" =>
             fill.out = <<>> /\ pending' # <<>> /\ pending'[1].size = lastRequired'
        /\ fill'.phase # "enter"
        /\ fill'.phase = "loop" => fill'.out # <<>>
    BY <1>1, <1>5, EmitTyped DEF Shapes
  <1>7. CallerTyped'
    BY <1>1, <1>6 DEF ring, caller, CallerTyped
  <1>8. FillMoves
    BY <1>1, <1>6 DEF FillMoves
  <1> QED BY <1>2, <1>3, <1>6, <1>7, <1>8 DEF RecordsTyped

LEMMA PollQueueTyped ==
  ASSUME Shapes, Typed, PollConsumerQueue
  PROVE  Typed' /\ FillMoves
  <1> USE DEF Typed
  <1>1. /\ UNCHANGED <<coming, mainComing, mainQ, ring, caller, closing, received>>
        /\ fill.phase = "loop" /\ consumerQ # <<>> /\ consumerQ' = Tail(consumerQ)
        /\ TakeFetch(Head(consumerQ)) \/ TakeEof(Head(consumerQ)) \/ TakeOther(Head(consumerQ))
    BY DEF PollConsumerQueue
  <1> DEFINE event == Head(consumerQ)
  <1>2. consumerQ' \in Seq(AllEvents) /\ event \in AllEvents
    BY <1>1, TailTyped DEF QueuesTyped
  <1> HIDE DEF event
  <1>3. QueuesTyped' /\ RingTyped' /\ ClosingTyped'
    BY <1>1, <1>2 DEF ring, caller, closing, QueuesTyped, RingTyped, ClosingTyped
  <1>4. CASE UNCHANGED <<fill, pending, lastRequired>>
             /\ curFetch' \in Seq(AllRecords) /\ stash' \in Seq(Items)
    <2>1. EventsTyped' /\ RecordsTyped' /\ FillTyped' /\ CallerTyped'
      BY <1>1, <1>4 DEF ring, caller, EventsTyped, RecordsTyped, FillTyped, CallerTyped
    <2>2. FillMoves
      BY <1>1, <1>4 DEF FillMoves
    <2> QED BY <1>3, <2>1, <2>2
  <1>5. CASE TakeFetch(event)
    <2>1. event \in Batches
      BY <1>2, <1>5 DEF TakeFetch, Batches
    <2>2. curFetch' \in Seq(AllRecords) /\ stash' \in Seq(Items)
      BY <1>5, <2>1, ScriptTypes DEF TakeFetch, EventsTyped
    <2> QED BY <1>4, <1>5, <2>2 DEF TakeFetch
  <1>6. CASE TakeOther(event)
    <2>1. event \in Items
      BY <1>2, <1>6 DEF TakeOther, Items, Batches
    <2>2. stash' \in Seq(Items)
      BY <1>6, <2>1, AppendTyped DEF TakeOther, Stashed, EventsTyped
    <2> QED BY <1>4, <1>6, <2>2 DEF TakeOther, RecordsTyped
  <1>7. CASE TakeEof(event) /\ event.records = <<>>
    BY <1>4, <1>7 DEF TakeEof, RecordsTyped, EventsTyped
  <1>8. CASE TakeEof(event) /\ event.records # <<>>
    <2>1. event \in Batches
      BY <1>2, <1>8 DEF TakeEof, Batches
    <2>2. event.records \in Seq(AllRecords)
      BY <2>1, ScriptTypes
    <2>3. Head(event.records).size \in Nat
      BY <1>8, <2>2, TailTyped, ScriptTypes
    <2>4. /\ UNCHANGED <<curFetch, stash>>
          /\ \E tid : Emit([id |-> Head(event.records).id, tid |-> tid,
                            size |-> Head(event.records).size], fill.cached)
      BY <1>8 DEF TakeEof
    <2>5. PICK tid : Emit([id |-> Head(event.records).id, tid |-> tid,
                           size |-> Head(event.records).size], fill.cached)
      BY <2>4
    <2> DEFINE record == [id |-> Head(event.records).id, tid |-> tid,
                          size |-> Head(event.records).size]
    <2>6. record.size \in Nat /\ Emit(record, fill.cached)
      BY <2>3, <2>5
    <2> HIDE DEF record
    <2>7. /\ FillTyped' /\ Sized(pending') /\ Len(pending') <= 1 /\ lastRequired' \in Nat
          /\ fill'.phase = "tooSmall" =>
               fill.out = <<>> /\ pending' # <<>> /\ pending'[1].size = lastRequired'
          /\ fill'.phase # "enter"
          /\ fill'.phase = "loop" => fill'.out # <<>>
      BY <1>1, <2>6, EmitTyped DEF Shapes
    <2>8. EventsTyped' /\ RecordsTyped' /\ CallerTyped'
      BY <1>1, <2>4, <2>7 DEF ring, caller, CallerTyped, EventsTyped, RecordsTyped
    <2>9. FillMoves
      BY <1>1, <2>7 DEF FillMoves
    <2> QED BY <1>3, <2>7, <2>8, <2>9
  <1> QED BY <1>1, <1>5, <1>6, <1>7, <1>8 DEF event

LEMMA FillTypes ==
  ASSUME Shapes, Typed, ConsumeFill
  PROVE  Typed' /\ FillMoves
  <1>1. CASE FillDone
    <2>1. fill'.out = fill.out /\ fill'.phase = "done" /\ fill.phase = "loop"
      BY <1>1 DEF FillDone, Shapes
    <2>2. Typed'
      BY <1>1, <2>1 DEF FillDone, Typed, queues, ring, caller, closing, QueuesTyped, EventsTyped,
         RecordsTyped, FillTyped, RingTyped, CallerTyped, ClosingTyped
    <2> QED BY <2>1, <2>2 DEF FillMoves
  <1> QED BY <1>1, EnterTyped, SerializeTyped, PollQueueTyped DEF ConsumeFill

-----------------------------------------------------------------------------
(* The prefetch thread runs only while prefetching is enabled, and Fits    *)
(* says nothing of what it touches then.                                   *)
LEMMA EnqueueInv ==
  ASSUME Inv, Enqueue \/ GroupCloses \/ Destroy
  PROVE  Typed' /\ Fits'
  <1> USE DEF Inv, RingInv, Typed
  <1>1. CASE Enqueue
    <2>1. QueuesTyped'
      <3>1. CASE /\ coming # <<>> /\ consumerQ' = Append(consumerQ, Head(coming))
                 /\ coming' = Tail(coming) /\ UNCHANGED <<mainComing, mainQ>>
        BY <3>1, TailTyped, AppendTyped DEF QueuesTyped
      <3>2. CASE /\ mainComing # <<>> /\ mainQ' = Append(mainQ, Head(mainComing))
                 /\ mainComing' = Tail(mainComing) /\ UNCHANGED <<coming, consumerQ>>
        BY <3>2, TailTyped, AppendTyped DEF QueuesTyped
      <3> QED BY <1>1, <3>1, <3>2 DEF Enqueue
    <2>2. /\ EventsTyped' /\ RecordsTyped' /\ FillTyped' /\ RingTyped' /\ CallerTyped'
          /\ ClosingTyped'
      BY <1>1 DEF Enqueue, filling, ring, caller, closing, EventsTyped, RecordsTyped, FillTyped,
         RingTyped, CallerTyped, ClosingTyped
    <2>3. Fits'
      BY <1>1 DEF Enqueue, filling, ring, caller, Fits, RecordFits, EventFits
    <2> QED BY <2>1, <2>2, <2>3
  <1>2. CASE GroupCloses
    <2>1. /\ QueuesTyped' /\ EventsTyped' /\ RecordsTyped' /\ FillTyped' /\ RingTyped'
          /\ CallerTyped'
      BY <1>2 DEF GroupCloses, queues, filling, ring, caller, QueuesTyped, EventsTyped,
         RecordsTyped, FillTyped, RingTyped, CallerTyped
    <2>2. ClosingTyped'
      BY <1>2, ShimAssumption DEF GroupCloses, ClosingTyped, ShimAssumption
    <2>3. Fits'
      BY <1>2 DEF GroupCloses, filling, ring, caller, Fits, RecordFits, EventFits
    <2> QED BY <2>1, <2>2, <2>3
  <1>3. CASE Destroy
    <2>1. /\ QueuesTyped' /\ EventsTyped' /\ RecordsTyped' /\ FillTyped' /\ RingTyped'
          /\ CallerTyped' /\ ClosingTyped'
      BY <1>3 DEF Destroy, queues, filling, closing, QueuesTyped, EventsTyped,
         RecordsTyped, FillTyped, RingTyped, CallerTyped, ClosingTyped
    <2>2. Fits'
      BY <1>3 DEF Destroy, AfterStop, Fits, RecordFits, EventFits
    <2> QED BY <2>1, <2>2
  <1> QED BY <1>1, <1>2, <1>3

LEMMA PrefetchInv ==
  ASSUME Inv, PrefetchThread
  PROVE  Typed' /\ Fits'
  <1> USE DEF Inv, RingInv, Typed
  <1>0. enabled /\ tail \in 0..NFrames-1 /\ DOMAIN fill = {"by", "phase", "out", "cached"}
    BY DEF PrefetchThread, PrefetchTop, PrefetchPublish, PrefetchGrow, FillClaims, Shapes
  <1>1. UNCHANGED <<js, enabled, retried, frameOut>>
    <2>1. CASE ConsumeFill
      BY <2>1 DEF ConsumeFill, FillEnter, SerializeMessage, PollConsumerQueue, FillDone, ring, caller
    <2> QED BY <2>1 DEF PrefetchThread, PrefetchTop, PrefetchPublish, PrefetchGrow, caller
  <1>2. Fits'
    BY <1>0, <1>1 DEF Fits
  <1>3. CASE ConsumeFill
    BY <1>2, <1>3, FillTypes
  <1>4. CASE PrefetchTop
    <2>1. \/ fill'.out = fill.out /\ fill'.phase = fill.phase
          \/ fill'.out = <<>> /\ fill'.phase = "enter"
      BY <1>4 DEF PrefetchTop, StartFill, NoFill
    <2>2. FillTyped'
      BY <2>1, NothingSized DEF FillTyped
    <2> QED BY <1>2, <1>4, <2>2
        DEF PrefetchTop, queues, caller, closing, QueuesTyped, EventsTyped, RecordsTyped, RingTyped,
            CallerTyped, ClosingTyped
  <1>5. CASE PrefetchPublish
    <2>1. FillTyped'
      BY <1>5, NothingSized DEF PrefetchPublish, NoFill, FillTyped
    <2>2. RingTyped'
      <3>1. CASE frames' = [frames EXCEPT ![tail].out = fill.out]
        <4> DEFINE f == [frames[tail] EXCEPT !.out = fill.out]
        <4>1. frames' = [frames EXCEPT ![tail] = f]
          BY <3>1
        <4>2. Frame(f)
          BY <1>0 DEF RingTyped, Frame, FillTyped
        <4> HIDE DEF f
        <4> QED BY <1>0, <4>1, <4>2 DEF RingTyped
      <3>2. CASE UNCHANGED frames
        BY <3>2 DEF RingTyped
      <3> QED BY <1>5, <3>1, <3>2 DEF PrefetchPublish
    <2> QED BY <1>2, <1>5, <2>1, <2>2
        DEF PrefetchPublish, queues, caller, closing, QueuesTyped, EventsTyped, RecordsTyped,
            CallerTyped, ClosingTyped
  <1>6. CASE PrefetchGrow
    <2>1. FillTyped'
      BY <1>6, NothingSized DEF PrefetchGrow, NoFill, FillTyped
    <2>2. RingTyped'
      <3> DEFINE f == [frames[tail] EXCEPT !.cap = Larger(@, lastRequired)]
      <3>1. frames' = [frames EXCEPT ![tail] = f]
        BY <1>6 DEF PrefetchGrow
      <3>2. Frame(f)
        BY <1>0 DEF RingTyped, Frame, CallerTyped, Larger
      <3> HIDE DEF f
      <3> QED BY <1>0, <3>1, <3>2 DEF RingTyped
    <2> QED BY <1>2, <1>6, <2>1, <2>2
        DEF PrefetchGrow, queues, caller, closing, QueuesTyped, EventsTyped, RecordsTyped,
            CallerTyped, ClosingTyped
  <1> QED BY <1>3, <1>4, <1>5, <1>6 DEF PrefetchThread

-----------------------------------------------------------------------------
(* JS, in consume_fill() and around it.                                    *)
LEMMA JsFillInv ==
  ASSUME Inv, js = "filling", fill.by = "js", ConsumeFill
  PROVE  Typed' /\ Fits'
  <1> USE DEF Inv, RingInv
  <1>1. Typed' /\ FillMoves
    BY FillTypes
  <1>2. UNCHANGED <<js, enabled, retried, consumeBuf>> /\ FillCap = consumeBuf /\ ~enabled
    BY DEF ConsumeFill, FillEnter, SerializeMessage, PollConsumerQueue, FillDone, ring, caller,
           FillCap, FillClaims
  <1>3. pending # <<>> => pending[1].size \in Nat
    BY ElementSized DEF Typed, RecordsTyped
  <1>4. RecordFits'
    <2>1. CASE retried
      <3>1. fill'.phase # "tooSmall"
        BY <1>1, <1>2, <1>3, <2>1 DEF FillMoves, Fits, RecordFits, Typed, CallerTyped
      <3>2. fill'.phase = "loop" => fill'.out # <<>>
        BY <1>1, <1>2, <2>1 DEF FillMoves, Fits, RecordFits
      <3> QED BY <1>1, <1>2, <3>1, <3>2 DEF FillMoves, RecordFits
    <2>2. CASE ~retried
      BY <1>1, <1>2, <2>2 DEF FillMoves, RecordFits
    <2> QED BY <2>1, <2>2
  <1> QED BY <1>1, <1>2, <1>4 DEF Fits, EventFits

(* A call of consume_fill() begins: the first, or the retry in a buffer    *)
(* the record fits.                                                        *)
LEMMA StartInv ==
  ASSUME Inv, ConsumeBatch \/ GrowConsume
  PROVE  Typed' /\ Fits'
  <1> USE DEF Inv, RingInv
  <1>1. /\ UNCHANGED <<queues, curFetch, pending, names, stash, lastRequired, ring, turn, eventBuf,
                       frameOut, closing>>
        /\ js' = IF enabled THEN "take" ELSE "filling"
        /\ fill' = IF enabled THEN fill ELSE StartFill("js")
    BY DEF ConsumeBatch, GrowConsume
  <1>2. consumeBuf' \in Nat /\ retried' \in BOOLEAN
    <2>1. lastRequired \in Nat /\ 2 * consumeBuf \in Nat /\ consumeBuf \in Nat
      BY DEF Typed, CallerTyped
    <2> QED BY <2>1 DEF ConsumeBatch, GrowConsume, Larger, Typed, CallerTyped
  <1>3. FillTyped'
    <2>1. fill' = fill \/ (fill'.out = <<>> /\ fill'.phase = "enter")
      BY <1>1 DEF StartFill, NoFill
    <2> QED BY <2>1, NothingSized DEF Typed, FillTyped
  <1>4. Typed'
    BY <1>1, <1>2, <1>3 DEF Typed, queues, ring, closing, QueuesTyped, EventsTyped, RecordsTyped,
       RingTyped, CallerTyped, ClosingTyped
  <1>5. ASSUME ~enabled PROVE RecordFits'
    <2>1. js' = "filling" /\ fill'.phase = "enter"
      BY <1>1, <1>5 DEF StartFill, NoFill
    <2>2. CASE ConsumeBatch
      <3>1. retried' = FALSE
        BY <2>2 DEF ConsumeBatch, Fits, Typed, CallerTyped
      <3> QED BY <2>1, <3>1 DEF RecordFits
    <2>3. CASE GrowConsume
      <3>1. pending # <<>> /\ pending[1].size = lastRequired /\ consumeBuf' = Larger(lastRequired, 2 * consumeBuf)
        BY <1>5, <2>3 DEF GrowConsume, Fits, RecordFits
      <3>2. lastRequired <= consumeBuf'
        BY <3>1 DEF Larger, Typed, CallerTyped
      <3> QED BY <1>1, <2>1, <3>1, <3>2 DEF RecordFits
    <2> QED BY <2>2, <2>3
  <1>6. Fits'
    BY <1>1, <1>5 DEF ring, Fits, EventFits
  <1> QED BY <1>4, <1>6

(* A batch is handed over.                                                 *)
LEMMA DeliverTypes ==
  ASSUME NEW records, Sized(records), Deliver(records), CallerTyped
  PROVE  consumeBuf' \in Nat /\ js' = "idle" /\ retried' = FALSE /\ turn' = "events"
  <1>1. SizeOf(records) \in Nat
    BY SizeIsNat
  <1>2. BufferBytes \in Nat /\ BufMin \in Nat /\ consumeBuf \in Nat
    BY ShimAssumption DEF ShimAssumption, CallerTyped
  <1>3. Larger(BufMin, 2 * SizeOf(records)) \in Nat /\ Larger(BufferBytes, consumeBuf) \in Nat
    BY <1>1, <1>2 DEF Larger
  <1>4. Smaller(Larger(BufMin, 2 * SizeOf(records)), BufferBytes) \in Nat
    BY <1>2, <1>3 DEF Smaller
  <1>5. consumeBuf' \in {consumeBuf, Larger(BufferBytes, consumeBuf),
                         Smaller(Larger(BufMin, 2 * SizeOf(records)), BufferBytes)}
    BY DEF Deliver
  <1> QED BY <1>2, <1>3, <1>4, <1>5 DEF Deliver, Return

LEMMA FillEndsInv ==
  ASSUME Inv, JsFillEnds
  PROVE  Typed' /\ Fits'
  <1> USE DEF Inv, RingInv
  <1>1. /\ UNCHANGED <<queues, curFetch, pending, names, stash, lastRequired, ring, eventBuf,
                       frameOut, closing>>
        /\ js = "filling" /\ fill' = NoFill
    BY DEF JsFillEnds
  <1>2. FillTyped'
    BY <1>1, NothingSized DEF NoFill, FillTyped
  <1>3. consumeBuf' \in Nat /\ retried' \in BOOLEAN /\ turn' \in {"events", "consume"}
    <2>1. CASE Deliver(fill.out)
      BY <2>1, DeliverTypes DEF Typed, FillTyped
    <2>2. CASE TooSmall("growConsume") /\ UNCHANGED consumeBuf
      BY <2>2 DEF TooSmall, Typed, CallerTyped
    <2> QED BY <2>1, <2>2 DEF JsFillEnds
  <1>4. Typed'
    BY <1>1, <1>2, <1>3 DEF Typed, queues, ring, closing, QueuesTyped, EventsTyped, RecordsTyped,
       RingTyped, CallerTyped, ClosingTyped
  <1>5. ~enabled /\ UNCHANGED enabled
    BY <1>1 DEF FillClaims, ring
  <1>6. CASE Deliver(fill.out)
    BY <1>4, <1>6 DEF Deliver, Return, Fits, RecordFits, EventFits
  <1>7. CASE fill.phase = "tooSmall" /\ TooSmall("growConsume")
    <2>1. ~retried /\ pending # <<>> /\ pending[1].size = lastRequired
      BY <1>1, <1>5, <1>7 DEF Fits, RecordFits
    <2>2. js' = "growConsume"
      BY <1>7, <2>1 DEF TooSmall
    <2> QED BY <1>1, <1>4, <2>1, <2>2 DEF Fits, RecordFits, EventFits
  <1> QED BY <1>4, <1>6, <1>7 DEF JsFillEnds

(* With prefetching, JS takes what the thread filled.                      *)
LEMMA TakeInv ==
  ASSUME Inv, TakeFrame \/ CopyFrame
  PROVE  Typed' /\ Fits'
  <1> USE DEF Inv, RingInv
  <1>1. CASE TakeFrame
    <2>1. /\ UNCHANGED <<queues, filling, stash, ring, consumeBuf, eventBuf, frameOut, closing>>
          /\ js = "take" /\ enabled
      BY <1>1 DEF TakeFrame, Fits, Shapes
    <2>2. Sized(frames[head].out)
      BY DEF Typed, RingTyped, Frame, Shapes
    <2>3. lastRequired' \in Nat
      BY <1>1, <2>2, SizeIsNat DEF TakeFrame, Required, Typed, CallerTyped
    <2>4. retried' \in BOOLEAN /\ turn' \in {"events", "consume"}
      BY <1>1 DEF TakeFrame, Return, TooSmall, Typed, CallerTyped
    <2>5. Typed'
      BY <2>1, <2>3, <2>4 DEF Typed, queues, filling, ring, closing, QueuesTyped, EventsTyped,
         RecordsTyped, FillTyped, RingTyped, CallerTyped, ClosingTyped
    <2>6. Fits'
      BY <1>1, <2>1 DEF TakeFrame, Return, TooSmall, ring, Fits
    <2> QED BY <2>5, <2>6
  <1>2. CASE CopyFrame
    <2>1. /\ UNCHANGED <<queues, filling, stash, lastRequired, frames, tail, enabled, running,
                         eventBuf, frameOut, closing>>
          /\ Deliver(frames[head].out)
      BY <1>2 DEF CopyFrame
    <2>2. Sized(frames[head].out)
      BY DEF Typed, RingTyped, Frame, Shapes
    <2>3. consumeBuf' \in Nat /\ js' = "idle" /\ retried' = FALSE /\ turn' = "events"
      BY <2>1, <2>2, DeliverTypes DEF Typed
    <2>4. Typed'
      BY <2>1, <2>3 DEF Typed, queues, filling, closing, QueuesTyped, EventsTyped,
         RecordsTyped, FillTyped, RingTyped, CallerTyped, ClosingTyped
    <2>5. Fits'
      BY <2>3 DEF Fits, RecordFits, EventFits
    <2> QED BY <2>4, <2>5
  <1> QED BY <1>1, <1>2

-----------------------------------------------------------------------------
(* JS, in brk_events_poll().                                               *)
EventsQuiet ==
  UNCHANGED <<coming, mainComing, consumerQ, filling, ring, consumeBuf, closing>>

(* The rest of the type invariant, for these actions.                      *)
LEMMA EventsTypes ==
  ASSUME Typed, EventsQuiet, mainQ' \in Seq(AllEvents), EventsTyped', lastRequired' \in Nat,
         eventBuf' \in Nat, eventBuf' >= EventBytes, retried' \in BOOLEAN,
         turn' \in {"events", "consume"}
  PROVE  Typed'
  BY DEF Typed, EventsQuiet, filling, ring, closing, QueuesTyped, RecordsTyped, FillTyped, RingTyped,
         CallerTyped, ClosingTyped

(* A call that ends, with events or not.                                   *)
LEMMA EventsReturnInv ==
  ASSUME Typed, EventsQuiet, EventsReturn, mainQ' \in Seq(AllEvents), stash' \in Seq(Items),
         UNCHANGED <<lastRequired, eventBuf>>
  PROVE  Typed' /\ Fits'
  <1>1. frameOut' = <<>> /\ js' = "idle" /\ retried' = FALSE /\ turn' = "consume"
    BY DEF EventsReturn, Return
  <1>2. EventsTyped'
    BY <1>1 DEF EventsTyped
  <1>3. Typed'
    BY <1>1, <1>2, EventsTypes DEF Typed, CallerTyped
  <1>4. Fits'
    BY <1>1 DEF Fits, RecordFits, EventFits
  <1> QED BY <1>3, <1>4

(* A call that finds the buffer too small for the event at hand, which is  *)
(* in the stash by then: only once in a row.                               *)
LEMMA EventsGrowInv ==
  ASSUME Typed, EventsQuiet, mainQ' \in Seq(AllEvents), stash' \in Seq(Items),
         NEW event \in Items, lastRequired' = event.size, TooSmall("growEvents"),
         UNCHANGED <<frameOut, eventBuf>>, frameOut = <<>>,
         ~enabled => ~retried,
         ~enabled => /\ stash' # <<>>
                     /\ Head(stash') = event \/ Head(stash').size <= eventBuf
  PROVE  Typed' /\ Fits'
  <1>1. event.size \in Nat
    BY ScriptTypes
  <1>2. EventsTyped'
    BY DEF EventsTyped
  <1>3. Typed'
    BY <1>1, <1>2, EventsTypes DEF TooSmall, Typed, CallerTyped
  <1>4. js' \in {"growEvents", "failed"} /\ (js' = "failed" => retried) /\ UNCHANGED enabled
    BY DEF TooSmall, EventsQuiet, ring
  <1>5. ASSUME ~enabled PROVE Head(stash').size <= Larger(lastRequired', 2 * eventBuf')
    <2>1. Head(stash') \in Items
      BY <1>5, TailTyped
    <2>2. Head(stash').size \in Nat /\ eventBuf \in Nat
      BY <2>1, ScriptTypes DEF Typed, CallerTyped
    <2> QED BY <1>1, <1>5, <2>2 DEF Larger
  <1>6. Fits'
    BY <1>4, <1>5 DEF Fits, RecordFits, EventFits
  <1> QED BY <1>3, <1>6

LEMMA EventsRoomIs ==
  ASSUME Typed
  PROVE  EventRoom \in Int /\ (frameOut = <<>> => EventRoom = eventBuf)
  <1>1. frameOut \in Seq(Items)
    BY DEF Typed, EventsTyped
  <1>2. frameOut \in Seq(ToSet(frameOut)) /\ ToSet(frameOut) \subseteq Items
    BY <1>1 DEF ToSet
  <1>3. Sized(frameOut)
    BY <1>2, ScriptTypes DEF Sized, IsSequence
  <1>4. SizeOf(frameOut) \in Nat /\ (frameOut = <<>> => SizeOf(frameOut) = 0)
    BY <1>3, SizeIsNat
  <1>5. eventBuf \in Nat
    BY DEF Typed, CallerTyped
  <1> QED BY <1>4, <1>5 DEF EventRoom

(* The stash goes first.                                                   *)
LEMMA PollStashInv ==
  ASSUME Inv, PollStash
  PROVE  Typed' /\ Fits'
  <1> USE DEF Inv, RingInv
  <1>0. EventsQuiet /\ js = "stash" /\ UNCHANGED <<mainQ, eventBuf>>
    BY DEF PollStash, EventsQuiet, queues
  <1>1. mainQ \in Seq(AllEvents) /\ stash \in Seq(Items) /\ frameOut \in Seq(Items)
    BY DEF Typed, QueuesTyped, EventsTyped
  <1>2. CASE /\ stash # <<>>
             /\ frameOut' = Append(frameOut, Head(stash)) /\ stash' = Tail(stash)
             /\ UNCHANGED <<js, turn, retried, lastRequired>>
    <2>1. Head(stash) \in Items /\ stash' \in Seq(Items) /\ frameOut' \in Seq(Items)
          /\ frameOut' # <<>>
      BY <1>1, <1>2, TailTyped, AppendTyped
    <2>2. Typed'
      BY <1>0, <1>1, <1>2, <2>1, EventsTypes DEF Typed, EventsTyped, CallerTyped
    <2>3. Fits'
      BY <1>0, <1>2, <2>1 DEF EventsQuiet, ring, Fits, RecordFits, EventFits
    <2> QED BY <2>2, <2>3
  <1>3. CASE /\ stash # <<>> /\ Head(stash).size > EventRoom /\ frameOut = <<>>
             /\ lastRequired' = Required(Head(stash).size) /\ TooSmall("growEvents")
             /\ UNCHANGED <<frameOut, stash>>
    <2>1. Head(stash) \in Items
      BY <1>1, <1>3, TailTyped
    <2>2. Head(stash).size \in Nat /\ eventBuf \in Nat /\ EventRoom = eventBuf
      BY <1>3, <2>1, ScriptTypes, EventsRoomIs DEF Typed, CallerTyped
    <2>3. ~enabled => ~retried
      BY <1>0, <1>3, <2>2 DEF Fits, EventFits
    <2> QED BY <1>0, <1>1, <1>3, <2>1, <2>3, EventsGrowInv DEF Required
  <1>4. CASE EventsReturn /\ UNCHANGED <<lastRequired, stash>>
    BY <1>0, <1>1, <1>4, EventsReturnInv
  <1>5. CASE /\ Full \/ stash = <<>>
             /\ js' = "main" /\ UNCHANGED <<turn, retried, lastRequired, frameOut, stash>>
    <2>1. Typed'
      BY <1>0, <1>1, <1>5, EventsTypes DEF Typed, EventsTyped, CallerTyped
    <2>2. frameOut = <<>> => stash = <<>>
      BY <1>5, ShimAssumption DEF Full, ShimAssumption
    <2>3. Fits'
      BY <1>0, <1>5, <2>2 DEF EventsQuiet, ring, Fits, RecordFits, EventFits
    <2> QED BY <2>1, <2>3
  <1> QED BY <1>2, <1>3, <1>4, <1>5 DEF PollStash

(* Then main_q, whose throttle frames join the stash.                      *)
LEMMA PollMainInv ==
  ASSUME Inv, PollMain
  PROVE  Typed' /\ Fits'
  <1> USE DEF Inv, RingInv
  <1>0. EventsQuiet /\ js = "main" /\ UNCHANGED <<eventBuf>>
    BY DEF PollMain, EventsQuiet
  <1>1. mainQ \in Seq(AllEvents) /\ stash \in Seq(Items) /\ frameOut \in Seq(Items)
        /\ eventBuf \in Nat /\ eventBuf >= EventBytes /\ EventBytes \in Nat
    BY ShimAssumption DEF ShimAssumption, Typed, QueuesTyped, EventsTyped, CallerTyped
  <1>2. CASE EventsReturn /\ UNCHANGED <<mainQ, stash, lastRequired>>
    BY <1>0, <1>1, <1>2, EventsReturnInv
  <1>3. CASE mainQ # <<>> /\ mainQ' = Tail(mainQ)
    <2> DEFINE event == Head(mainQ)
    <2>1. event \in AllEvents /\ mainQ' \in Seq(AllEvents)
      BY <1>1, <1>3, TailTyped
    <2> HIDE DEF event
    <2>2. Forwarded(event) \/ event.kind = "throttle" => event \in Items
      BY <2>1 DEF Forwarded, Items, Batches
    <2>3. CASE UNCHANGED <<js, turn, retried, frameOut, stash, lastRequired>>
      <3>1. Typed'
        BY <1>0, <1>1, <2>1, <2>3, EventsTypes DEF Typed, EventsTyped, CallerTyped
      <3>2. Fits'
        BY <1>0, <2>3 DEF EventsQuiet, ring, Fits, RecordFits, EventFits
      <3> QED BY <3>1, <3>2
    <2>4. CASE /\ event.kind = "throttle" /\ stash' = Stashed(event)
               /\ UNCHANGED <<js, turn, retried, frameOut, lastRequired>>
      <3>1. event \in Items /\ event.size \in Nat /\ event.size <= eventBuf
        BY <1>1, <2>2, <2>4, ScriptTypes
      <3>2. /\ stash' \in Seq(Items) /\ stash' # <<>>
            /\ Head(stash') = IF stash = <<>> THEN event ELSE Head(stash)
        BY <1>1, <2>4, <3>1, AppendTyped DEF Stashed
      <3>3. Typed'
        BY <1>0, <1>1, <2>1, <2>4, <3>2, EventsTypes DEF Typed, EventsTyped, CallerTyped
      <3>4. Fits'
        BY <1>0, <2>4, <3>1, <3>2 DEF EventsQuiet, ring, Fits, RecordFits, EventFits
      <3> QED BY <3>3, <3>4
    <2>5. CASE /\ Forwarded(event) /\ frameOut' = Append(frameOut, event)
               /\ UNCHANGED <<js, turn, retried, stash, lastRequired>>
      <3>1. frameOut' \in Seq(Items) /\ frameOut' # <<>>
        BY <1>1, <2>2, <2>5, AppendTyped
      <3>2. Typed'
        BY <1>0, <1>1, <2>1, <2>5, <3>1, EventsTypes DEF Typed, EventsTyped, CallerTyped
      <3>3. Fits'
        BY <1>0, <2>5, <3>1 DEF EventsQuiet, ring, Fits, RecordFits, EventFits
      <3> QED BY <3>2, <3>3
    <2>6. CASE Forwarded(event) /\ stash' = Stashed(event)
      <3>1. /\ stash' \in Seq(Items) /\ stash' # <<>>
            /\ Head(stash') = IF stash = <<>> THEN event ELSE Head(stash)
        BY <1>1, <2>2, <2>6, AppendTyped DEF Stashed
      <3>2. CASE frameOut = <<>> /\ lastRequired' = Required(event.size) /\ TooSmall("growEvents")
                 /\ UNCHANGED frameOut
        <4>1. ~enabled => ~retried /\ (stash # <<>> => Head(stash).size <= eventBuf)
          BY <1>0, <3>2 DEF Fits, EventFits
        <4> QED BY <1>0, <1>1, <2>1, <2>2, <2>6, <3>1, <3>2, <4>1, EventsGrowInv DEF Required
      <3>3. CASE EventsReturn /\ UNCHANGED lastRequired
        BY <1>0, <1>1, <2>1, <3>1, <3>3, EventsReturnInv
      <3>4. \/ /\ frameOut = <<>> /\ lastRequired' = Required(event.size) /\ TooSmall("growEvents")
               /\ UNCHANGED frameOut
            \/ EventsReturn /\ UNCHANGED lastRequired
            \/ UNCHANGED <<stash, lastRequired>> /\ frameOut' = Append(frameOut, event)
               /\ UNCHANGED <<js, turn, retried>>
            \/ ~Forwarded(event)
            \/ event.kind = "throttle"
        BY <1>0 DEF PollMain, event
      <3> QED BY <2>5, <2>6, <3>2, <3>3, <3>4 DEF Forwarded
    <2>7. \/ EventsReturn /\ UNCHANGED <<mainQ, stash, lastRequired>>
          \/ UNCHANGED <<js, turn, retried, frameOut, stash, lastRequired>>
          \/ /\ event.kind = "throttle" /\ stash' = Stashed(event)
             /\ UNCHANGED <<js, turn, retried, frameOut, lastRequired>>
          \/ /\ Forwarded(event) /\ frameOut' = Append(frameOut, event)
             /\ UNCHANGED <<js, turn, retried, stash, lastRequired>>
          \/ Forwarded(event) /\ stash' = Stashed(event)
      BY DEF PollMain, event
    <2> QED BY <1>2, <2>3, <2>4, <2>5, <2>6, <2>7
  <1> QED BY <1>2, <1>3 DEF PollMain

LEMMA JsQuietInv ==
  ASSUME Inv, PollEvents \/ GrowEvents \/ Failed \/ Join \/ CloseConsumer
  PROVE  Typed' /\ Fits'
  <1> USE DEF Inv, RingInv
  <1>1. CASE PollEvents
    <2>1. Typed'
      BY <1>1 DEF PollEvents, Typed, queues, filling, ring, closing, QueuesTyped, EventsTyped,
         RecordsTyped, FillTyped, RingTyped, CallerTyped, ClosingTyped
    <2>2. Fits'
      BY <1>1 DEF PollEvents, ring, Fits, RecordFits, EventFits
    <2> QED BY <2>1, <2>2
  <1>2. CASE GrowEvents
    <2>1. eventBuf' = Larger(lastRequired, 2 * eventBuf) /\ eventBuf' \in Nat
          /\ eventBuf' >= EventBytes
      BY <1>2, ShimAssumption DEF ShimAssumption, GrowEvents, Larger, Typed, CallerTyped
    <2>2. Typed'
      BY <1>2, <2>1 DEF GrowEvents, Typed, queues, filling, ring, closing, QueuesTyped, EventsTyped,
         RecordsTyped, FillTyped, RingTyped, CallerTyped, ClosingTyped
    <2>3. Fits'
      BY <1>2, <2>1 DEF GrowEvents, ring, Fits, RecordFits, EventFits
    <2> QED BY <2>2, <2>3
  <1>3. CASE Failed
    <2>1. Typed'
      BY <1>3 DEF Failed, Return, Typed, queues, filling, ring, closing, QueuesTyped, EventsTyped,
         RecordsTyped, FillTyped, RingTyped, CallerTyped, ClosingTyped
    <2>2. Fits'
      BY <1>3 DEF Failed, Return, Fits, RecordFits, EventFits
    <2> QED BY <2>1, <2>2
  <1>4. CASE Join
    <2>1. RingTyped'
      BY <1>4, NothingSized, ShimAssumption DEF ShimAssumption, Join, EmptyRing, RingTyped, Frame
    <2>2. Typed'
      BY <1>4, <2>1 DEF Join, Typed, queues, filling, closing, QueuesTyped, EventsTyped,
         RecordsTyped, FillTyped, CallerTyped, ClosingTyped
    <2>3. Fits'
      BY <1>4 DEF Join, Fits, RecordFits, EventFits
    <2> QED BY <2>2, <2>3
  <1>5. CASE CloseConsumer
    <2>1. Typed'
      BY <1>5 DEF CloseConsumer, Typed, queues, filling, ring, QueuesTyped, EventsTyped,
         RecordsTyped, FillTyped, RingTyped, CallerTyped, ClosingTyped
    <2>2. Fits'
      BY <1>5 DEF CloseConsumer, Fits, RecordFits, EventFits
    <2> QED BY <2>1, <2>2
  <1> QED BY <1>1, <1>2, <1>3, <1>4, <1>5

-----------------------------------------------------------------------------
LEMMA NextInv == Inv /\ [Next]_vars => Inv'
  <1> SUFFICES ASSUME Inv, [Next]_vars PROVE Inv'
    OBVIOUS
  <1>1. RingInv'
    BY NextRingInv DEF Inv
  <1>2. CASE UNCHANGED vars
    <2>1. Typed'
      BY <1>2 DEF vars, Inv, Typed, queues, filling, ring, caller, closing, QueuesTyped, EventsTyped,
         RecordsTyped, FillTyped, RingTyped, CallerTyped, ClosingTyped
    <2>2. Fits'
      BY <1>2 DEF vars, filling, ring, caller, Inv, Fits, RecordFits, EventFits
    <2> QED BY <1>1, <2>1, <2>2 DEF Inv
  <1>3. CASE JsThread
    BY <1>1, <1>3, JsFillInv, StartInv, FillEndsInv, TakeInv, PollStashInv, PollMainInv, JsQuietInv
       DEF JsThread, Inv
  <1> QED BY <1>1, <1>2, <1>3, EnqueueInv, PrefetchInv DEF Next, Inv

LEMMA InitInv == Init => Inv
  <1>1. Init => Fits
    BY DEF Init, Fits, RecordFits, EventFits
  <1> QED BY <1>1, InitRingInv, InitTyped DEF Inv

LEMMA SpecInv == Spec => []Inv
  BY InitInv, NextInv, PTL DEF Spec

(* Everything the shim and its caller keep is what they take it for, for   *)
(* any script: the sizes they compare are sizes, one record is held over   *)
(* at most, the ring's indices stay within it.                             *)
THEOREM TypeCorrect == Spec => []TypeOK
  <1>1. Inv => TypeOK
    BY DEF Inv, RingInv, Shapes, JsStates, ThreadStates, Typed, RecordsTyped, CallerTyped, FillTyped,
       ClosingTyped, TypeOK
  <1> QED BY <1>1, SpecInv, PTL

(* withGrowingBuffer() retries once, and without the prefetch thread that  *)
(* is enough: what did not fit waits at the head, nothing overtakes it,    *)
(* and the buffer grew to the size reported, whatever the sizes are.       *)
THEOREM RetryAlwaysFits == Spec => []RetryFits
  <1>1. Inv => RetryFits
    BY DEF Inv, Fits, RetryFits, RingInv, Shapes
  <1> QED BY <1>1, SpecInv, PTL

-----------------------------------------------------------------------------
(* FlattenSeq. Its recursive function exists, and the flattened prefixes   *)
(* of a sequence do not depend on what follows them.                       *)
Flattens(f, parts) ==
  f = [i \in 1..Len(parts) |-> IF i = 1 THEN parts[i] ELSE f[i - 1] \o parts[i]]

LEMMA FlattensExists ==
  ASSUME NEW S, NEW parts \in Seq(Seq(S))
  PROVE  \E f : Flattens(f, parts)
  <1> DEFINE N == Len(parts)
             Upto(k, f) == \A i \in 1..k : f[i] = IF i = 1 THEN parts[i] ELSE f[i - 1] \o parts[i]
             Bad == {k \in 0..N : ~ \E f \in [1..N -> Seq(S)] : Upto(k, f)}
  <1>0. N \in Nat /\ \A i \in 1..N : parts[i] \in Seq(S)
    OBVIOUS
  <1>1. CASE Bad = {}
    <2>0. N \in 0..N
      BY <1>0
    <2>1. N \in 0..N /\ N \notin Bad
      <3> HIDE DEF Bad
      <3> QED BY <1>1, <2>0
    <2>2. PICK f \in [1..N -> Seq(S)] : Upto(N, f)
      BY <2>1
    <2>3. f = [i \in 1..N |-> f[i]]
      BY <2>2
    <2> QED BY <2>2, <2>3 DEF Flattens
  <1>2. CASE Bad # {}
    <2>0. Bad \subseteq Nat
      BY <1>0
    <2>1. PICK k \in Bad : \A m \in Bad : k <= m
      BY <1>2, <2>0, LeastNumber
    <2>2. k \in 0..N /\ ~ \E f \in [1..N -> Seq(S)] : Upto(k, f)
      BY <2>1
    <2>3. k # 0
      <3>1. parts \in [1..N -> Seq(S)] /\ Upto(0, parts)
        BY <1>0
      <3> QED BY <2>2, <3>1
    <2>4. k - 1 \in 0..N /\ k \in 1..N /\ k \in Nat
      BY <1>0, <2>2, <2>3
    <2>5. PICK f \in [1..N -> Seq(S)] : Upto(k - 1, f)
      <3>1. ASSUME k - 1 \in Bad PROVE FALSE
        <4>1. k <= k - 1
          BY <2>1, <3>1
        <4> QED BY <2>4, <4>1
      <3> QED BY <2>4, <3>1
    <2> DEFINE v == IF k = 1 THEN parts[k] ELSE f[k - 1] \o parts[k]
               g == [f EXCEPT ![k] = v]
    <2>6. v \in Seq(S)
      <3>1. parts[k] \in Seq(S)
        BY <1>0, <2>4
      <3>2. k # 1 => f[k - 1] \in Seq(S)
        <4>1. k # 1 => k - 1 \in 1..N
          BY <1>0, <2>4
        <4> HIDE DEF N
        <4> QED BY <2>5, <4>1
      <3> QED BY <3>1, <3>2
    <2>7. g \in [1..N -> Seq(S)]
      BY <2>4, <2>5, <2>6
    <2>8. Upto(k, g)
      <3> SUFFICES ASSUME NEW i \in 1..k
                   PROVE  g[i] = IF i = 1 THEN parts[i] ELSE g[i - 1] \o parts[i]
        OBVIOUS
      <3>1. i \in 1..N /\ (i # 1 => i - 1 \in 1..N /\ i - 1 # k)
        BY <1>0, <2>4
      <3>2. i # 1 => g[i - 1] = f[i - 1]
        BY <3>1
      <3>3. CASE i = k
        BY <3>1, <3>2, <3>3
      <3>4. CASE i # k
        <4>1. i \in 1..k-1 /\ g[i] = f[i]
          BY <2>4, <3>1, <3>4
        <4> QED BY <2>5, <3>2, <4>1
      <3> QED BY <3>3, <3>4
    <2> HIDE DEF g
    <2> QED BY <2>2, <2>7, <2>8
  <1> QED BY <1>1, <1>2

LEMMA FlattensTyped ==
  ASSUME NEW S, NEW parts \in Seq(Seq(S)), NEW f, Flattens(f, parts)
  PROVE  f \in [1..Len(parts) -> Seq(S)]
  <1> DEFINE N == Len(parts)
             Bad == {i \in 1..N : f[i] \notin Seq(S)}
  <1>0. N \in Nat /\ \A i \in 1..N : parts[i] \in Seq(S)
    OBVIOUS
  <1>1. \A i \in 1..N : f[i] = IF i = 1 THEN parts[i] ELSE f[i - 1] \o parts[i]
    BY DEF Flattens
  <1>2. ASSUME Bad # {} PROVE FALSE
    <2>0. Bad \subseteq Nat
      BY <1>0
    <2>1. PICK k \in Bad : \A m \in Bad : k <= m
      BY <1>2, <2>0, LeastNumber
    <2>2. k \in 1..N /\ f[k] \notin Seq(S) /\ parts[k] \in Seq(S)
      BY <1>0, <2>1
    <2>3. k # 1
      BY <1>1, <2>2
    <2>4. k - 1 \in 1..N /\ ~(k <= k - 1)
      BY <1>0, <2>2, <2>3
    <2>5. f[k - 1] \in Seq(S)
      BY <2>1, <2>4
    <2>6. f[k] = f[k - 1] \o parts[k]
      BY <1>1, <2>2, <2>3
    <2> QED BY <2>2, <2>5, <2>6
  <1>3. f = [i \in 1..N |-> f[i]]
    BY DEF Flattens
  <1> QED BY <1>2, <1>3

LEMMA FlattenIs ==
  ASSUME NEW S, NEW parts \in Seq(Seq(S))
  PROVE  /\ FlattenSeq(parts) \in Seq(S)
         /\ parts = <<>> => FlattenSeq(parts) = <<>>
         /\ \E f : Flattens(f, parts) /\ (parts # <<>> => FlattenSeq(parts) = f[Len(parts)])
  <1> DEFINE F == CHOOSE f : Flattens(f, parts)
  <1>1. Flattens(F, parts)
    BY FlattensExists
  <1>2. parts # <<>> => FlattenSeq(parts) = F[Len(parts)]
    <2>1. parts # <<>> => Len(parts) # 0
      OBVIOUS
    <2> QED BY <2>1 DEF FlattenSeq, Flattens
  <1> HIDE DEF F
  <1>3. parts = <<>> => FlattenSeq(parts) = <<>>
    BY DEF FlattenSeq
  <1>4. FlattenSeq(parts) \in Seq(S)
    <2>1. F \in [1..Len(parts) -> Seq(S)]
      BY <1>1, FlattensTyped
    <2>2. CASE parts = <<>>
      <3>1. <<>> \in Seq(S)
        OBVIOUS
      <3> QED BY <1>3, <2>2, <3>1
    <2>3. CASE parts # <<>>
      <3>1. Len(parts) \in 1..Len(parts)
        BY <2>3
      <3> QED BY <1>2, <2>1, <2>3, <3>1
    <2> QED BY <2>2, <2>3
  <1> QED BY <1>1, <1>2, <1>3, <1>4

Agree(f, g, n) == \A i \in 1..n : f[i] = g[i]

LEMMA FlattensPrefix ==
  ASSUME NEW S, NEW parts \in Seq(Seq(S)), NEW more \in Seq(Seq(S)), NEW f, NEW g,
         Flattens(f, parts), Flattens(g, more), Len(parts) <= Len(more),
         Agree(parts, more, Len(parts))
  PROVE  Agree(f, g, Len(parts))
  <1> DEFINE N == Len(parts)
             Bad == {i \in 1..N : g[i] # f[i]}
  <1>0. N \in Nat /\ Len(more) \in Nat /\ N <= Len(more)
    OBVIOUS
  <1>1. \A i \in 1..N : f[i] = IF i = 1 THEN parts[i] ELSE f[i - 1] \o parts[i]
    BY DEF Flattens
  <1>2. \A i \in 1..N : g[i] = IF i = 1 THEN parts[i] ELSE g[i - 1] \o parts[i]
    <2>1. \A i \in 1..Len(more) : g[i] = IF i = 1 THEN more[i] ELSE g[i - 1] \o more[i]
      BY DEF Flattens
    <2>2. \A i \in 1..N : i \in 1..Len(more) /\ more[i] = parts[i]
      BY <1>0 DEF Agree
    <2> QED BY <2>1, <2>2
  <1>3. ASSUME Bad # {} PROVE FALSE
    <2>0. Bad \subseteq Nat
      BY <1>0
    <2>1. PICK k \in Bad : \A m \in Bad : k <= m
      BY <1>3, <2>0, LeastNumber
    <2>2. k \in 1..N /\ g[k] # f[k]
      BY <2>1
    <2>3. k # 1
      BY <1>1, <1>2, <2>2
    <2>4. k - 1 \in 1..N /\ ~(k <= k - 1)
      BY <1>0, <2>2, <2>3
    <2>5. g[k - 1] = f[k - 1]
      BY <2>1, <2>4
    <2> QED BY <1>1, <1>2, <2>2, <2>3, <2>5
  <1> QED BY <1>3 DEF Agree

(* Sequences put end to end. Cat keeps the laws of \o and hides what it is *)
(* from the provers, which the length of a sequence would distract.        *)
Cat(s, t) == s \o t

LEMMA CatTyped ==
  ASSUME NEW S, NEW s \in Seq(S), NEW t \in Seq(S)
  PROVE  Cat(s, t) \in Seq(S)
  BY DEF Cat

LEMMA CatAssociates ==
  ASSUME NEW S, NEW s \in Seq(S), NEW t \in Seq(S), NEW u \in Seq(S)
  PROVE  Cat(Cat(s, t), u) = Cat(s, Cat(t, u))
  BY DEF Cat

LEMMA CatNothing ==
  ASSUME NEW S, NEW s \in Seq(S)
  PROVE  Cat(s, <<>>) = s /\ Cat(<<>>, s) = s
  BY DEF Cat

LEMMA AppendIsCat ==
  ASSUME NEW S, NEW s \in Seq(S), NEW x \in S
  PROVE  Append(s, x) = Cat(s, <<x>>) /\ <<x>> \in Seq(S)
  <1>1. Append(s, x) = s \o <<x>>
    BY AppendIsConcat
  <1>2. <<x>> \in Seq(S)
    OBVIOUS
  <1> QED BY <1>1, <1>2 DEF Cat

LEMMA HeadTailIsCat ==
  ASSUME NEW S, NEW s \in Seq(S), s # <<>>
  PROVE  s = Cat(<<Head(s)>>, Tail(s)) /\ <<Head(s)>> \in Seq(S) /\ Tail(s) \in Seq(S)
         /\ Head(s) \in S
  BY DEF Cat

LEMMA FlattenAppend ==
  ASSUME NEW S, NEW parts \in Seq(Seq(S)), NEW part \in Seq(S)
  PROVE  FlattenSeq(Append(parts, part)) = Cat(FlattenSeq(parts), part)
  <1> DEFINE more == Append(parts, part)
  <1>1. /\ more \in Seq(Seq(S)) /\ more # <<>> /\ Len(more) = Len(parts) + 1
        /\ \A i \in 1..Len(parts) : more[i] = parts[i]
        /\ more[Len(parts) + 1] = part
    BY AppendProperties
  <1> HIDE DEF more
  <1>2. PICK f : Flattens(f, parts) /\ (parts # <<>> => FlattenSeq(parts) = f[Len(parts)])
    BY FlattenIs
  <1>3. PICK g : Flattens(g, more) /\ FlattenSeq(more) = g[Len(more)]
    BY <1>1, FlattenIs
  <1>4. Len(parts) \in Nat /\ Len(parts) <= Len(more)
    BY <1>1
  <1>5. Agree(parts, more, Len(parts))
    BY <1>1 DEF Agree
  <1>6. Agree(f, g, Len(parts))
    BY <1>1, <1>2, <1>3, <1>4, <1>5, FlattensPrefix
  <1>7. g[Len(more)] = IF Len(more) = 1 THEN part ELSE Cat(g[Len(more) - 1], part)
    <2>1. Len(more) \in 1..Len(more)
      BY <1>1, <1>4
    <2> QED BY <1>1, <1>3, <2>1 DEF Flattens, Cat
  <1>8. CASE parts = <<>>
    <2>1. FlattenSeq(parts) = <<>>
      BY <1>8, FlattenIs
    <2>2. Len(more) = 1
      BY <1>1, <1>8
    <2>3. Cat(<<>>, part) = part
      BY CatNothing
    <2> QED BY <1>3, <1>7, <2>1, <2>2, <2>3 DEF more
  <1>9. CASE parts # <<>>
    <2>1. Len(parts) \in 1..Len(parts) /\ Len(more) # 1 /\ Len(more) - 1 = Len(parts)
      BY <1>1, <1>4, <1>9
    <2>2. g[Len(parts)] = FlattenSeq(parts)
      BY <1>2, <1>6, <1>9, <2>1 DEF Agree
    <2> QED BY <1>3, <1>7, <2>1, <2>2 DEF more
  <1> QED BY <1>8, <1>9

(* The sequence of parts a sequence is made of, one for each item.         *)
Spread(g, items) == FlattenSeq([i \in 1..Len(items) |-> g[items[i]]])
Spreader(g, E, S) == g \in [E -> Seq(S)]

LEMMA SpreadTyped ==
  ASSUME NEW E, NEW S, NEW g, NEW items \in Seq(E), Spreader(g, E, S)
  PROVE  /\ [i \in 1..Len(items) |-> g[items[i]]] \in Seq(Seq(S))
         /\ Spread(g, items) \in Seq(S)
         /\ items = <<>> => Spread(g, items) = <<>>
  <1>1. [i \in 1..Len(items) |-> g[items[i]]] \in Seq(Seq(S))
    <2>1. Len(items) \in Nat /\ \A i \in 1..Len(items) : g[items[i]] \in Seq(S)
      BY DEF Spreader
    <2> QED BY <2>1
  <1>2. items = <<>> => [i \in 1..Len(items) |-> g[items[i]]] = <<>>
    OBVIOUS
  <1> QED BY <1>1, <1>2, FlattenIs DEF Spread

LEMMA SpreadAppend ==
  ASSUME NEW E, NEW S, NEW g, NEW items \in Seq(E), NEW x \in E, Spreader(g, E, S)
  PROVE  Spread(g, Append(items, x)) = Cat(Spread(g, items), g[x])
  <1> DEFINE more == Append(items, x)
             p == [i \in 1..Len(items) |-> g[items[i]]]
             q == [i \in 1..Len(more) |-> g[more[i]]]
  <1>1. /\ more \in Seq(E) /\ Len(more) = Len(items) + 1 /\ Len(items) \in Nat
        /\ \A i \in 1..Len(items) : more[i] = items[i]
        /\ more[Len(items) + 1] = x
    BY AppendProperties
  <1> HIDE DEF more
  <1>2. p \in Seq(Seq(S)) /\ g[x] \in Seq(S)
    BY SpreadTyped DEF Spreader
  <1>3. q = Append(p, g[x])
    <2>1. Len(p) = Len(items) /\ Len(q) = Len(items) + 1
      BY <1>1
    <2>2. \A i \in 1..Len(items) : q[i] = p[i]
      BY <1>1
    <2>3. q[Len(items) + 1] = g[x]
      BY <1>1
    <2>4. q \in Seq(Seq(S))
      <3>1. Len(more) \in Nat /\ \A i \in 1..Len(more) : g[more[i]] \in Seq(S)
        BY <1>1 DEF Spreader
      <3> QED BY <3>1
    <2> HIDE DEF p, q
    <2> QED BY <1>1, <1>2, <2>1, <2>2, <2>3, <2>4
  <1> HIDE DEF p, q
  <1>4. FlattenSeq(q) = Cat(FlattenSeq(p), g[x])
    BY <1>2, <1>3, FlattenAppend
  <1> QED BY <1>4 DEF p, q, more, Spread

LEMMA SpreadConcat ==
  ASSUME NEW E, NEW S, NEW g, NEW a \in Seq(E), NEW b \in Seq(E), Spreader(g, E, S)
  PROVE  Spread(g, Cat(a, b)) = Cat(Spread(g, a), Spread(g, b))
  <1> DEFINE N == Len(b)
             Part(k) == SubSeq(b, 1, k)
             Good(k) == Spread(g, Cat(a, Part(k))) = Cat(Spread(g, a), Spread(g, Part(k)))
             Bad == {k \in 0..N : ~Good(k)}
  <1>0. N \in Nat /\ \A i \in 1..N : b[i] \in E
    OBVIOUS
  <1>1. \A k \in 0..N : Part(k) \in Seq(E)
    <2> SUFFICES ASSUME NEW k \in 0..N PROVE Part(k) \in Seq(E)
      OBVIOUS
    <2>1. \A i \in 1..k : b[i] \in E
      BY <1>0
    <2> QED BY <2>1, SubSeqProperties
  <1>2. Part(0) = <<>> /\ Part(N) = b
    BY <1>0, SubSeqEmpty, SubSeqFull
  <1>3. \A k \in 1..N : Part(k) = Append(Part(k - 1), b[k])
    <2> SUFFICES ASSUME NEW k \in 1..N PROVE Part(k) = Append(Part(k - 1), b[k])
      OBVIOUS
    <2>1. SubSeq(b, 1, k) = SubSeq(b, 1, k - 1) \o <<b[k]>>
      <3>1. 1 \in 1..N /\ k \in 1..N
        BY <1>0
      <3> QED BY <3>1, SubSeqRecursiveSecond
    <2>2. Part(k - 1) \in Seq(E) /\ b[k] \in E
      BY <1>0, <1>1
    <2> QED BY <2>1, <2>2, AppendIsConcat
  <1> HIDE DEF Part
  <1>4. Good(0)
    <2>1. Spread(g, a) \in Seq(S) /\ Spread(g, <<>>) = <<>>
      <3>1. <<>> \in Seq(E)
        OBVIOUS
      <3> QED BY <3>1, SpreadTyped
    <2>2. Cat(a, <<>>) = a /\ Cat(Spread(g, a), <<>>) = Spread(g, a)
      BY <2>1, CatNothing
    <2> QED BY <1>2, <2>1, <2>2
  <1>5. ASSUME NEW k \in 1..N, Good(k - 1) PROVE Good(k)
    <2> DEFINE p == Part(k - 1)
               x == b[k]
    <2>1. p \in Seq(E) /\ x \in E /\ Part(k) = Append(p, x)
      BY <1>0, <1>1, <1>3
    <2> HIDE DEF p, x
    <2>2. Cat(a, Append(p, x)) = Append(Cat(a, p), x) /\ Cat(a, p) \in Seq(E)
      <3>1. Append(p, x) = Cat(p, <<x>>) /\ <<x>> \in Seq(E)
        BY <2>1, AppendIsCat
      <3>2. Cat(a, p) \in Seq(E)
        BY <2>1, CatTyped
      <3>3. Append(Cat(a, p), x) = Cat(Cat(a, p), <<x>>)
        BY <2>1, <3>2, AppendIsCat
      <3>4. Cat(Cat(a, p), <<x>>) = Cat(a, Cat(p, <<x>>))
        <4> DEFINE one == <<x>>
        <4>1. one \in Seq(E) /\ p \in Seq(E)
          BY <2>1, <3>1
        <4> HIDE DEF one
        <4>2. Cat(Cat(a, p), one) = Cat(a, Cat(p, one))
          BY <4>1, CatAssociates
        <4> QED BY <4>2 DEF one
      <3> QED BY <3>1, <3>2, <3>3, <3>4
    <2>3. Spread(g, Append(Cat(a, p), x)) = Cat(Spread(g, Cat(a, p)), g[x])
      BY <2>1, <2>2, SpreadAppend
    <2>4. Spread(g, Append(p, x)) = Cat(Spread(g, p), g[x])
      BY <2>1, SpreadAppend
    <2>5. Spread(g, Cat(a, p)) = Cat(Spread(g, a), Spread(g, p))
      BY <1>5 DEF p
    <2>6. Cat(Cat(Spread(g, a), Spread(g, p)), g[x]) = Cat(Spread(g, a), Cat(Spread(g, p), g[x]))
      <3>1. Spread(g, a) \in Seq(S) /\ Spread(g, p) \in Seq(S) /\ g[x] \in Seq(S)
        BY <2>1, SpreadTyped DEF Spreader
      <3> QED BY <3>1, CatAssociates
    <2> QED BY <2>1, <2>2, <2>3, <2>4, <2>5, <2>6
  <1> HIDE DEF Good
  <1>6. ASSUME Bad # {} PROVE FALSE
    <2>0. Bad \subseteq Nat
      BY <1>0
    <2>1. PICK k \in Bad : \A m \in Bad : k <= m
      BY <1>6, <2>0, LeastNumber
    <2>2. k \in 0..N /\ ~Good(k)
      BY <2>1
    <2>3. k # 0
      BY <1>4, <2>2
    <2>4. k \in 1..N /\ k - 1 \in 0..N /\ ~(k <= k - 1)
      BY <1>0, <2>2, <2>3
    <2>5. Good(k - 1)
      BY <2>1, <2>4
    <2> QED BY <1>5, <2>2, <2>4, <2>5
  <1>7. Good(N)
    <2>1. N \in 0..N
      BY <1>0
    <2> QED BY <1>6, <2>1
  <1> QED BY <1>2, <1>7 DEF Good

LEMMA SpreadOne ==
  ASSUME NEW E, NEW S, NEW g, NEW x \in E, Spreader(g, E, S)
  PROVE  Spread(g, <<x>>) = g[x] /\ g[x] \in Seq(S)
  <1>1. <<>> \in Seq(E) /\ <<x>> = Append(<<>>, x) /\ g[x] \in Seq(S)
    BY DEF Spreader
  <1>2. Spread(g, <<>>) = <<>>
    BY <1>1, SpreadTyped
  <1>4. Cat(<<>>, g[x]) = g[x]
    BY <1>1, CatNothing
  <1>3. Spread(g, Append(<<>>, x)) = Cat(Spread(g, <<>>), g[x])
    BY <1>1, SpreadAppend
  <1> QED BY <1>1, <1>2, <1>3, <1>4

LEMMA SpreadHead ==
  ASSUME NEW E, NEW S, NEW g, NEW items \in Seq(E), items # <<>>, Spreader(g, E, S)
  PROVE  Spread(g, items) = Cat(g[Head(items)], Spread(g, Tail(items)))
  <1> DEFINE h == Head(items)
             t == Tail(items)
             one == <<h>>
  <1>1. items = Cat(one, t) /\ one \in Seq(E) /\ t \in Seq(E) /\ h \in E
    BY HeadTailIsCat
  <1>2. Spread(g, one) = g[h]
    BY <1>1, SpreadOne
  <1> HIDE DEF h, t, one
  <1>3. Spread(g, Cat(one, t)) = Cat(Spread(g, one), Spread(g, t))
    BY <1>1, SpreadConcat
  <1> QED BY <1>1, <1>2, <1>3 DEF h, t

-----------------------------------------------------------------------------
(* A lane moves when something is sent along it, or received, or nothing.  *)
(* That is what the steps of Channel allow, which say how many were.       *)
Moves(T, s, q, r, s2, q2, r2) ==
  \/ \E p \in Seq(T) : s = Cat(p, s2) /\ q2 = Cat(q, p) /\ r2 = r
  \/ \E p \in Seq(T) : q = Cat(p, q2) /\ r2 = Cat(r, p) /\ s2 = s

Along(s, q, r, s2, q2, r2) ==
  \/ \E n \in 0..Len(s) : /\ q2 = q \o SubSeq(s, 1, n)
                          /\ s2 = SubSeq(s, n + 1, Len(s))
                          /\ r2 = r
  \/ \E n \in 1..Len(q) : /\ r2 = r \o SubSeq(q, 1, n)
                          /\ q2 = SubSeq(q, n + 1, Len(q))
                          /\ s2 = s

Parts(c, p, s) ==
  /\ Len(p) \in 0..Len(c)
  /\ SubSeq(c, 1, Len(p)) = p /\ SubSeq(c, Len(p) + 1, Len(c)) = s

LEMMA CatParts ==
  ASSUME NEW T, NEW p \in Seq(T), NEW s \in Seq(T)
  PROVE  Parts(Cat(p, s), p, s)
  <1> DEFINE c == Cat(p, s)
  <1>1. /\ c \in Seq(T) /\ Len(c) = Len(p) + Len(s) /\ Len(p) \in Nat /\ Len(s) \in Nat
        /\ \A i \in 1..Len(p) + Len(s) : c[i] = IF i <= Len(p) THEN p[i] ELSE s[i - Len(p)]
    BY ConcatProperties DEF Cat
  <1> HIDE DEF c
  <1>2. SubSeq(c, 1, Len(p)) = p
    <2>1. \A i \in 1..Len(p) : c[i] = p[i] /\ c[i] \in T
      BY <1>1
    <2> DEFINE u == SubSeq(c, 1, Len(p))
    <2>2. u \in Seq(T) /\ Len(u) = Len(p) /\ \A i \in 1..Len(p) : u[i] = p[i]
      BY <1>1, <2>1, SubSeqProperties
    <2> HIDE DEF u
    <2>3. u = p
      BY <2>2, SeqEqual
    <2> QED BY <2>3 DEF u
  <1>3. SubSeq(c, Len(p) + 1, Len(c)) = s
    <2> DEFINE u == SubSeq(c, Len(p) + 1, Len(c))
               m == Len(p) + 1
    <2>0. \A i \in 1..Len(s) : c[m + i - 1] = s[i] /\ s[i] \in T
      <3> SUFFICES ASSUME NEW i \in 1..Len(s) PROVE c[m + i - 1] = s[i] /\ s[i] \in T
        OBVIOUS
      <3>1. m + i - 1 \in 1..Len(p) + Len(s) /\ ~(m + i - 1 <= Len(p)) /\ m + i - 1 - Len(p) = i
        BY <1>1
      <3> DEFINE j == m + i - 1
      <3>2. j \in 1..Len(p) + Len(s) /\ ~(j <= Len(p)) /\ j - Len(p) = i
        BY <3>1
      <3> HIDE DEF j, m
      <3>3. c[j] = s[i]
        BY <1>1, <3>2
      <3>4. s[i] \in T
        OBVIOUS
      <3> QED BY <3>3, <3>4 DEF j
    <2>1. \A i \in m..Len(c) : c[i] \in T
      BY <1>1
    <2>2. u \in Seq(T) /\ Len(u) = Len(s) /\ \A i \in 1..Len(s) : u[i] = c[m + i - 1]
      BY <1>1, <2>1, SubSeqProperties
    <2> HIDE DEF u, m
    <2>3. u = s
      BY <2>0, <2>2, SeqEqual
    <2> QED BY <2>3 DEF u
  <1> QED BY <1>1, <1>2, <1>3 DEF c, Parts

LEMMA MovesAlong ==
  ASSUME NEW T, NEW s \in Seq(T), NEW q \in Seq(T), NEW r \in Seq(T),
         NEW s2 \in Seq(T), NEW q2 \in Seq(T), NEW r2 \in Seq(T),
         Moves(T, s, q, r, s2, q2, r2)
  PROVE  Along(s, q, r, s2, q2, r2)
  <1>1. ASSUME NEW p \in Seq(T), s = Cat(p, s2), q2 = Cat(q, p), r2 = r
        PROVE  \E n \in 0..Len(s) : /\ q2 = q \o SubSeq(s, 1, n)
                                    /\ s2 = SubSeq(s, n + 1, Len(s))
                                    /\ r2 = r
    <2>0. Parts(Cat(p, s2), p, s2)
      BY CatParts
    <2>1. /\ Len(p) \in 0..Len(s) /\ SubSeq(s, 1, Len(p)) = p
          /\ SubSeq(s, Len(p) + 1, Len(s)) = s2
      BY <2>0, <1>1 DEF Parts
    <2> QED BY <1>1, <2>1 DEF Cat
  <1>2. ASSUME NEW p \in Seq(T), q = Cat(p, q2), r2 = Cat(r, p), s2 = s
        PROVE  \/ \E n \in 1..Len(q) : /\ r2 = r \o SubSeq(q, 1, n)
                                       /\ q2 = SubSeq(q, n + 1, Len(q))
                                       /\ s2 = s
               \/ p = <<>>
    <2>0. Parts(Cat(p, q2), p, q2)
      BY CatParts
    <2>1. /\ Len(p) \in 0..Len(q) /\ SubSeq(q, 1, Len(p)) = p
          /\ SubSeq(q, Len(p) + 1, Len(q)) = q2
      BY <2>0, <1>2 DEF Parts
    <2>2. p # <<>> => Len(p) \in 1..Len(q)
      BY <2>1
    <2> QED BY <1>2, <2>1, <2>2 DEF Cat
  <1>3. ASSUME q = Cat(<<>>, q2), r2 = Cat(r, <<>>), s2 = s
        PROVE  s = Cat(<<>>, s2) /\ q2 = Cat(q, <<>>) /\ r2 = r /\ <<>> \in Seq(T)
    <2>1. <<>> \in Seq(T)
      OBVIOUS
    <2> QED BY <1>3, <2>1, CatNothing
  <1> QED BY <1>1, <1>2, <1>3 DEF Moves, Along

(* An instance of Moves for a lane on which nothing moves.                 *)
LEMMA Rests ==
  ASSUME NEW T, NEW s \in Seq(T), NEW q \in Seq(T), NEW r
  PROVE  Moves(T, s, q, r, s, q, r)
  <1>1. <<>> \in Seq(T) /\ s = Cat(<<>>, s) /\ q = Cat(q, <<>>)
    BY CatNothing
  <1> QED BY <1>1 DEF Moves

-----------------------------------------------------------------------------
(* Who delivers what, and what becomes of a record.                        *)
ConsumerEvents == UNION {ToSet(script.consumer) : script \in Scripts}
MainEvents == UNION {ToSet(script.main) : script \in Scripts}
Ids == {r.id : r \in AllRecords}
Topics == {r.topic : r \in AllRecords}
Label == [id : Ids, topic : Topics]
Written(table) == [id : Ids, tid : 1..Len(table), size : Nat]

(* Each queue has its kinds of events, so that lanes do not mix.           *)
KindsApart ==
  /\ coming \in Seq(ConsumerEvents) /\ consumerQ \in Seq(ConsumerEvents)
  /\ mainComing \in Seq(MainEvents) /\ mainQ \in Seq(MainEvents)

(* The topic ids in use name a topic, those of frames long copied included,*)
(* and a cached id names the topic it is cached for.                       *)
Holds(fs, S) == \A i \in 0..NFrames-1 : fs[i].out \in Seq(S)
Names(table, cached) ==
  cached # <<>> => cached[1].tid \in 1..Len(table) /\ table[cached[1].tid] = cached[1].topic
Interning ==
  /\ names \in Seq(Topics) /\ Names(names, fill.cached)
  /\ fill.out \in Seq(Written(names)) /\ pending \in Seq(Written(names))
  /\ Holds(frames, Written(names))

(* What the next step forgets is empty: the buffer of a call that fails or *)
(* has yet to begin, the record held over, the ring without its thread.    *)
Kept ==
  /\ fill.by = "none" \/ fill.phase \in {"enter", "tooSmall"} => fill.out = <<>>
  /\ fill.phase = "loop" => pending = <<>>
  /\ ~enabled => ready = 0
  /\ frameOut # <<>> => js \in {"stash", "main"}

(* An event of main_q goes past the stash only while none waits there.     *)
MainInOrder ==
  js = "main" => Full \/ \A i \in 1..Len(stash) : stash[i].kind # "main"

Delivered == got \in Seq(Label) /\ events \in Seq(Items)

(* What holds of the order of records and events beside Inv.               *)
OrderInv == KindsApart /\ Interning /\ Kept /\ MainInOrder /\ Delivered

-----------------------------------------------------------------------------
(* What the two functions that read a queue do: the labels of its records, *)
(* and its events of one kind.                                             *)
LabelsOf(event) == IF event.kind \in {"fetch", "eof"} THEN Labels(event.records) ELSE <<>>
Picked(kind, event) == IF event.kind = kind THEN <<event>> ELSE <<>>
Labelling == [event \in AllEvents |-> LabelsOf(event)]
Picking(kind) == [event \in AllEvents |-> Picked(kind, event)]

LEMMA LabelsTyped ==
  ASSUME NEW records \in Seq(AllRecords)
  PROVE  /\ Labels(records) \in Seq(Label) /\ Len(Labels(records)) = Len(records)
         /\ \A i \in 1..Len(records) :
              Labels(records)[i] = [id |-> records[i].id, topic |-> records[i].topic]
  <1>1. Len(records) \in Nat /\ \A i \in 1..Len(records) : records[i] \in AllRecords
    OBVIOUS
  <1>2. \A r \in AllRecords : [id |-> r.id, topic |-> r.topic] \in Label
    BY DEF Label, Ids, Topics
  <1> HIDE DEF Label
  <1>3. \A i \in 1..Len(records) : [id |-> records[i].id, topic |-> records[i].topic] \in Label
    BY <1>1, <1>2
  <1> QED BY <1>1, <1>3 DEF Labels

LEMMA LabelsHead ==
  ASSUME NEW records \in Seq(AllRecords), records # <<>>
  PROVE  /\ Labels(records) = Cat(<<[id |-> Head(records).id, topic |-> Head(records).topic]>>,
                                  Labels(Tail(records)))
         /\ [id |-> Head(records).id, topic |-> Head(records).topic] \in Label
  <1> DEFINE labels == Labels(records)
             rest == Tail(records)
             one == [id |-> Head(records).id, topic |-> Head(records).topic]
  <1>1. /\ labels \in Seq(Label) /\ Len(labels) = Len(records)
        /\ \A i \in 1..Len(records) : labels[i] = [id |-> records[i].id, topic |-> records[i].topic]
    BY LabelsTyped
  <1>2. /\ rest \in Seq(AllRecords) /\ Len(rest) = Len(records) - 1 /\ Len(records) \in Nat \ {0}
        /\ \A i \in 1..Len(rest) : rest[i] = records[i + 1] /\ i + 1 \in 1..Len(records)
        /\ Head(records) = records[1]
    OBVIOUS
  <1>3. labels # <<>> /\ Head(labels) = labels[1] /\ 1 \in 1..Len(records)
    BY <1>1, <1>2
  <1>4. Head(labels) = one
    BY <1>1, <1>2, <1>3
  <1>5. labels = Cat(<<Head(labels)>>, Tail(labels)) /\ Tail(labels) \in Seq(Label)
        /\ Head(labels) \in Label
    BY <1>1, <1>3, HeadTailIsCat
  <1>6. Tail(labels) = Labels(rest)
    <2> DEFINE u == Tail(labels)
               w == Labels(rest)
    <2>1. u \in Seq(Label) /\ Len(u) = Len(records) - 1
          /\ \A i \in 1..Len(u) : u[i] = labels[i + 1]
      BY <1>1, <1>3, HeadTailProperties
    <2>2. w \in Seq(Label) /\ Len(w) = Len(rest)
          /\ \A i \in 1..Len(rest) : w[i] = [id |-> rest[i].id, topic |-> rest[i].topic]
      BY <1>2, LabelsTyped
    <2> HIDE DEF u, w
    <2>3. \A i \in 1..Len(u) : u[i] = w[i]
      BY <1>1, <1>2, <2>1, <2>2
    <2>4. u = w
      BY <1>2, <2>1, <2>2, <2>3, SeqEqual
    <2> QED BY <2>4 DEF u, w
  <1> QED BY <1>4, <1>5, <1>6

LEMMA LabellingIs == Spreader(Labelling, AllEvents, Label)
  <1> SUFFICES ASSUME NEW event \in AllEvents PROVE LabelsOf(event) \in Seq(Label)
    BY DEF Spreader, Labelling
  <1>1. CASE event.kind \in {"fetch", "eof"}
    <2>1. event.records \in Seq(AllRecords)
      BY <1>1, ScriptTypes DEF Batches
    <2> QED BY <1>1, <2>1, LabelsTyped DEF LabelsOf
  <1>2. CASE event.kind \notin {"fetch", "eof"}
    <2>1. <<>> \in Seq(Label)
      OBVIOUS
    <2> QED BY <1>2, <2>1 DEF LabelsOf
  <1> QED BY <1>1, <1>2

LEMMA PickingIs ==
  ASSUME NEW kind
  PROVE  Spreader(Picking(kind), AllEvents, AllEvents)
  BY DEF Spreader, Picking, Picked

LEMMA NamedIs ==
  ASSUME NEW queue \in Seq(AllEvents)
  PROVE  Named(queue) = Spread(Labelling, queue)
  <1>1. \A i \in 1..Len(queue) :
          Labelling[queue[i]] = IF queue[i].kind \in {"fetch", "eof"}
                                THEN Labels(queue[i].records) ELSE <<>>
    BY DEF Labelling, LabelsOf
  <1>2. [i \in 1..Len(queue) |-> IF queue[i].kind \in {"fetch", "eof"}
                                 THEN Labels(queue[i].records) ELSE <<>>]
        = [i \in 1..Len(queue) |-> Labelling[queue[i]]]
    BY <1>1
  <1> QED BY <1>2 DEF Named, Spread

LEMMA OfIs ==
  ASSUME NEW queue \in Seq(AllEvents), NEW kind
  PROVE  Of(kind, queue) = Spread(Picking(kind), queue)
  <1>1. \A i \in 1..Len(queue) :
          Picking(kind)[queue[i]] = IF queue[i].kind = kind THEN <<queue[i]>> ELSE <<>>
    BY DEF Picking, Picked
  <1>2. [i \in 1..Len(queue) |-> IF queue[i].kind = kind THEN <<queue[i]>> ELSE <<>>]
        = [i \in 1..Len(queue) |-> Picking(kind)[queue[i]]]
    BY <1>1
  <1> QED BY <1>2 DEF Of, Spread

LEMMA NamedTyped ==
  ASSUME NEW queue \in Seq(AllEvents)
  PROVE  Named(queue) \in Seq(Label) /\ (queue = <<>> => Named(queue) = <<>>)
  BY NamedIs, LabellingIs, SpreadTyped

LEMMA NamedHead ==
  ASSUME NEW queue \in Seq(AllEvents), queue # <<>>
  PROVE  Named(queue) = Cat(LabelsOf(Head(queue)), Named(Tail(queue)))
         /\ LabelsOf(Head(queue)) \in Seq(Label)
  <1>1. Head(queue) \in AllEvents /\ Tail(queue) \in Seq(AllEvents)
    OBVIOUS
  <1>2. Spread(Labelling, queue) = Cat(Labelling[Head(queue)], Spread(Labelling, Tail(queue)))
    BY LabellingIs, SpreadHead
  <1>3. Labelling[Head(queue)] = LabelsOf(Head(queue))
    BY <1>1 DEF Labelling
  <1>4. Named(queue) = Spread(Labelling, queue) /\ Named(Tail(queue)) = Spread(Labelling, Tail(queue))
    BY <1>1, NamedIs
  <1>5. Labelling[Head(queue)] \in Seq(Label)
    BY <1>1, LabellingIs DEF Spreader
  <1> QED BY <1>2, <1>3, <1>4, <1>5

LEMMA NamedAppend ==
  ASSUME NEW queue \in Seq(AllEvents), NEW event \in AllEvents
  PROVE  Named(Append(queue, event)) = Cat(Named(queue), LabelsOf(event))
  <1>1. Append(queue, event) \in Seq(AllEvents)
    OBVIOUS
  <1>2. Spread(Labelling, Append(queue, event)) = Cat(Spread(Labelling, queue), Labelling[event])
    BY LabellingIs, SpreadAppend
  <1>3. Labelling[event] = LabelsOf(event)
    BY DEF Labelling
  <1>4. Named(Append(queue, event)) = Spread(Labelling, Append(queue, event))
        /\ Named(queue) = Spread(Labelling, queue)
    BY <1>1, NamedIs
  <1> QED BY <1>2, <1>3, <1>4

LEMMA OfTyped ==
  ASSUME NEW queue \in Seq(AllEvents), NEW kind
  PROVE  Of(kind, queue) \in Seq(AllEvents) /\ (queue = <<>> => Of(kind, queue) = <<>>)
  BY OfIs, PickingIs, SpreadTyped

LEMMA OfHead ==
  ASSUME NEW queue \in Seq(AllEvents), queue # <<>>, NEW kind
  PROVE  Of(kind, queue) = Cat(Picked(kind, Head(queue)), Of(kind, Tail(queue)))
         /\ Picked(kind, Head(queue)) \in Seq(AllEvents)
  <1>1. Head(queue) \in AllEvents /\ Tail(queue) \in Seq(AllEvents)
    OBVIOUS
  <1>2. Spread(Picking(kind), queue)
          = Cat(Picking(kind)[Head(queue)], Spread(Picking(kind), Tail(queue)))
    BY PickingIs, SpreadHead
  <1>3. Picking(kind)[Head(queue)] = Picked(kind, Head(queue))
    BY <1>1 DEF Picking
  <1>4. Of(kind, queue) = Spread(Picking(kind), queue)
        /\ Of(kind, Tail(queue)) = Spread(Picking(kind), Tail(queue))
    BY <1>1, OfIs
  <1>5. Picking(kind)[Head(queue)] \in Seq(AllEvents)
    BY <1>1, PickingIs DEF Spreader
  <1> QED BY <1>2, <1>3, <1>4, <1>5

LEMMA OfAppend ==
  ASSUME NEW queue \in Seq(AllEvents), NEW event \in AllEvents, NEW kind
  PROVE  Of(kind, Append(queue, event)) = Cat(Of(kind, queue), Picked(kind, event))
         /\ Picked(kind, event) \in Seq(AllEvents)
  <1>1. Append(queue, event) \in Seq(AllEvents)
    OBVIOUS
  <1>2. Spread(Picking(kind), Append(queue, event))
          = Cat(Spread(Picking(kind), queue), Picking(kind)[event])
    BY PickingIs, SpreadAppend
  <1>3. Picking(kind)[event] = Picked(kind, event)
    BY DEF Picking
  <1>4. Of(kind, Append(queue, event)) = Spread(Picking(kind), Append(queue, event))
        /\ Of(kind, queue) = Spread(Picking(kind), queue)
    BY <1>1, OfIs
  <1>5. Picking(kind)[event] \in Seq(AllEvents)
    BY PickingIs DEF Spreader
  <1> QED BY <1>2, <1>3, <1>4, <1>5

LEMMA OfConcat ==
  ASSUME NEW a \in Seq(AllEvents), NEW b \in Seq(AllEvents), NEW kind
  PROVE  Of(kind, Cat(a, b)) = Cat(Of(kind, a), Of(kind, b)) /\ Cat(a, b) \in Seq(AllEvents)
  <1>1. Cat(a, b) \in Seq(AllEvents)
    BY CatTyped
  <1>2. Spread(Picking(kind), Cat(a, b))
          = Cat(Spread(Picking(kind), a), Spread(Picking(kind), b))
    BY PickingIs, SpreadConcat
  <1>3. Of(kind, Cat(a, b)) = Spread(Picking(kind), Cat(a, b))
    BY <1>1, OfIs
  <1> QED BY <1>1, <1>2, <1>3, OfIs

(* A kind that is not on a queue.                                          *)
LEMMA OfNothing ==
  ASSUME NEW S, S \subseteq AllEvents, NEW queue \in Seq(S), NEW kind,
         \A event \in S : event.kind # kind
  PROVE  Of(kind, queue) = <<>>
  <1> DEFINE g == [event \in S |-> <<>>]
  <1>1. Spreader(g, S, {})
    BY DEF Spreader
  <1>2. Spread(g, queue) \in Seq({})
    <2> HIDE DEF g
    <2> QED BY <1>1, SpreadTyped
  <1>3. \A i \in 1..Len(queue) :
          g[queue[i]] = IF queue[i].kind = kind THEN <<queue[i]>> ELSE <<>>
    OBVIOUS
  <1>4. [i \in 1..Len(queue) |-> IF queue[i].kind = kind THEN <<queue[i]>> ELSE <<>>]
        = [i \in 1..Len(queue) |-> g[queue[i]]]
    BY <1>3
  <1>5. Of(kind, queue) = Spread(g, queue)
    BY <1>4 DEF Of, Spread
  <1> HIDE DEF g
  <1> QED BY <1>2, <1>5

-----------------------------------------------------------------------------
(* Records as they are written: a topic id for a topic name.               *)
KnownIn(table, written) ==
  [i \in 1..Len(written) |-> [id |-> written[i].id, topic |-> table[written[i].tid]]]
Extends(table, longer) ==
  Len(table) <= Len(longer) /\ \A i \in 1..Len(table) : longer[i] = table[i]

LEMMA KnownTyped ==
  ASSUME NEW table \in Seq(Topics), NEW written \in Seq(Written(table))
  PROVE  /\ KnownIn(table, written) \in Seq(Label)
         /\ Len(KnownIn(table, written)) = Len(written)
         /\ \A i \in 1..Len(written) : KnownIn(table, written)[i]
              = [id |-> written[i].id, topic |-> table[written[i].tid]]
  <1>1. Len(written) \in Nat /\ \A i \in 1..Len(written) : written[i] \in Written(table)
    OBVIOUS
  <1>2. \A i \in 1..Len(table) : table[i] \in Topics
    OBVIOUS
  <1>3. \A r \in Written(table) : r.id \in Ids /\ r.tid \in 1..Len(table)
    BY DEF Written
  <1>4. \A i \in 1..Len(written) : [id |-> written[i].id, topic |-> table[written[i].tid]] \in Label
    BY <1>1, <1>2, <1>3 DEF Label
  <1> HIDE DEF Label, Written
  <1> QED BY <1>1, <1>4 DEF KnownIn

LEMMA KnownCat ==
  ASSUME NEW table \in Seq(Topics), NEW a \in Seq(Written(table)), NEW b \in Seq(Written(table))
  PROVE  KnownIn(table, Cat(a, b)) = Cat(KnownIn(table, a), KnownIn(table, b))
  <1> DEFINE ab == Cat(a, b)
             k == KnownIn(table, a)
             l == KnownIn(table, b)
             m == KnownIn(table, ab)
             kl == Cat(k, l)
  <1>1. /\ ab \in Seq(Written(table)) /\ Len(ab) = Len(a) + Len(b)
        /\ \A i \in 1..Len(a) + Len(b) : ab[i] = IF i <= Len(a) THEN a[i] ELSE b[i - Len(a)]
    BY ConcatProperties DEF Cat
  <1> HIDE DEF ab
  <1>2. /\ k \in Seq(Label) /\ Len(k) = Len(a)
        /\ \A i \in 1..Len(a) : k[i] = [id |-> a[i].id, topic |-> table[a[i].tid]]
    BY KnownTyped
  <1>3. /\ l \in Seq(Label) /\ Len(l) = Len(b)
        /\ \A i \in 1..Len(b) : l[i] = [id |-> b[i].id, topic |-> table[b[i].tid]]
    BY KnownTyped
  <1>4. /\ m \in Seq(Label) /\ Len(m) = Len(ab)
        /\ \A i \in 1..Len(ab) : m[i] = [id |-> ab[i].id, topic |-> table[ab[i].tid]]
    BY <1>1, KnownTyped
  <1> HIDE DEF k, l, m
  <1>5. /\ kl \in Seq(Label) /\ Len(kl) = Len(k) + Len(l)
        /\ \A i \in 1..Len(k) + Len(l) : kl[i] = IF i <= Len(k) THEN k[i] ELSE l[i - Len(k)]
    <2>1. k \in Seq(Label) /\ l \in Seq(Label) /\ kl = k \o l
      BY <1>2, <1>3 DEF Cat
    <2> HIDE DEF kl
    <2> QED BY <2>1, ConcatProperties
  <1> HIDE DEF kl
  <1>6. ASSUME NEW i \in 1..Len(m) PROVE m[i] = kl[i]
    <2>0. Len(a) \in Nat /\ Len(b) \in Nat /\ i \in 1..Len(a) + Len(b)
          /\ i \in 1..Len(k) + Len(l) /\ i \in 1..Len(ab)
      BY <1>1, <1>2, <1>3, <1>4
    <2>1. CASE i <= Len(a)
      <3>1. i \in 1..Len(a) /\ ab[i] = a[i] /\ kl[i] = k[i]
        BY <2>0, <2>1, <1>1, <1>2, <1>5
      <3> QED BY <2>0, <3>1, <1>2, <1>4
    <2>2. CASE ~(i <= Len(a))
      <3>1. i - Len(a) \in 1..Len(b) /\ ab[i] = b[i - Len(a)] /\ kl[i] = l[i - Len(a)]
        BY <2>0, <2>2, <1>1, <1>2, <1>5
      <3> QED BY <2>0, <3>1, <1>3, <1>4
    <2> QED BY <2>1, <2>2
  <1>7. Len(m) = Len(kl)
    BY <1>1, <1>2, <1>3, <1>4, <1>5
  <1>8. m = kl
    BY <1>4, <1>5, <1>6, <1>7, SeqEqual
  <1> QED BY <1>8 DEF ab, k, l, m, kl

LEMMA KnownOne ==
  ASSUME NEW table, NEW record
  PROVE  KnownIn(table, <<record>>) = <<[id |-> record.id, topic |-> table[record.tid]]>>
  BY DEF KnownIn

(* A table that grows keeps what is written readable.                      *)
LEMMA KnownLater ==
  ASSUME NEW table \in Seq(Topics), NEW longer \in Seq(Topics), Extends(table, longer),
         NEW written \in Seq(Written(table))
  PROVE  /\ written \in Seq(Written(longer))
         /\ KnownIn(longer, written) = KnownIn(table, written)
  <1>1. Written(table) \subseteq Written(longer)
    <2>1. 1..Len(table) \subseteq 1..Len(longer)
      BY DEF Extends
    <2> QED BY <2>1 DEF Written
  <1>2. written \in Seq(Written(longer))
    BY <1>1, SeqMonotonic
  <1>3. \A i \in 1..Len(written) : written[i].tid \in 1..Len(table)
    <2>1. \A i \in 1..Len(written) : written[i] \in Written(table)
      OBVIOUS
    <2> QED BY <2>1 DEF Written
  <1>4. \A i \in 1..Len(written) :
          [id |-> written[i].id, topic |-> longer[written[i].tid]]
            = [id |-> written[i].id, topic |-> table[written[i].tid]]
    BY <1>3 DEF Extends
  <1> QED BY <1>2, <1>4 DEF KnownIn

LEMMA InternedIs ==
  ASSUME names \in Seq(Topics), NEW topic \in Topics
  PROVE  /\ Interned(topic) \in Seq(Topics) /\ Extends(names, Interned(topic))
         /\ TopicId(Interned(topic), topic) \in 1..Len(Interned(topic))
         /\ Interned(topic)[TopicId(Interned(topic), topic)] = topic
  <1> DEFINE table == Interned(topic)
  <1>1. /\ table \in Seq(Topics) /\ Extends(names, table)
        /\ \E i \in 1..Len(table) : table[i] = topic
    <2>1. CASE Contains(names, topic)
      <3>1. table = names
        BY <2>1 DEF Interned
      <3>2. \E i \in 1..Len(names) : names[i] = topic
        BY <2>1 DEF Contains
      <3> QED BY <3>1, <3>2 DEF Extends
    <2>2. CASE ~Contains(names, topic)
      <3>1. table = Append(names, topic)
        BY <2>2 DEF Interned
      <3>2. /\ table \in Seq(Topics) /\ Len(table) = Len(names) + 1 /\ Len(names) \in Nat
            /\ \A i \in 1..Len(names) : table[i] = names[i]
            /\ table[Len(names) + 1] = topic
        BY <3>1, AppendProperties
      <3> HIDE DEF table
      <3>3. Len(names) + 1 \in 1..Len(table)
        BY <3>2
      <3> QED BY <3>2, <3>3 DEF Extends
    <2> QED BY <2>1, <2>2
  <1> HIDE DEF table
  <1>2. TopicId(table, topic) \in 1..Len(table) /\ table[TopicId(table, topic)] = topic
    BY <1>1 DEF TopicId
  <1> QED BY <1>1, <1>2 DEF table

-----------------------------------------------------------------------------
(* The records in the ring, from head on.                                  *)
RingOf(fs, h, n) == FlattenSeq([i \in 1..n |-> fs[(h + i - 1) % NFrames].out])

LEMMA Wraps ==
  ASSUME NEW h \in 0..NFrames-1, NEW k \in 0..NFrames
  PROVE  /\ (h + k) % NFrames = IF h + k < NFrames THEN h + k ELSE h + k - NFrames
         /\ (h + k) % NFrames \in 0..NFrames-1
  <1> USE ShimAssumption DEF ShimAssumption
  <1>1. NFrames \in Nat \ {0} /\ h + k \in 0..2*NFrames-1
    OBVIOUS
  <1> QED BY <1>1

LEMMA RingOfTyped ==
  ASSUME NEW S, NEW fs, NEW h \in 0..NFrames-1, NEW n \in 0..NFrames, Holds(fs, S)
  PROVE  /\ [i \in 1..n |-> fs[(h + i - 1) % NFrames].out] \in Seq(Seq(S))
         /\ RingOf(fs, h, n) \in Seq(S)
         /\ n = 0 => RingOf(fs, h, n) = <<>>
  <1> USE ShimAssumption DEF ShimAssumption
  <1>1. ASSUME NEW i \in 1..n PROVE fs[(h + i - 1) % NFrames].out \in Seq(S)
    <2>1. i - 1 \in 0..NFrames /\ h + (i - 1) = h + i - 1
      OBVIOUS
    <2>2. (h + i - 1) % NFrames \in 0..NFrames-1
      BY <2>1, Wraps
    <2> QED BY <2>2 DEF Holds
  <1>2. [i \in 1..n |-> fs[(h + i - 1) % NFrames].out] \in Seq(Seq(S))
    BY <1>1
  <1>3. n = 0 => [i \in 1..n |-> fs[(h + i - 1) % NFrames].out] = <<>>
    OBVIOUS
  <1> QED BY <1>2, <1>3, FlattenIs DEF RingOf

(* The thread fills the frame after the last one.                          *)
Behind(t, h, n) == t = h + n \/ t + NFrames = h + n
Filled(fs, gs, t, out) ==
  gs[t].out = out /\ \A i \in 0..NFrames-1 : i # t => gs[i] = fs[i]

LEMMA RingGrows ==
  ASSUME NEW S, NEW fs, NEW gs, NEW h \in 0..NFrames-1, NEW t \in 0..NFrames-1,
         NEW n \in 0..NFrames-1, NEW out \in Seq(S),
         Behind(t, h, n), Holds(fs, S), Filled(fs, gs, t, out)
  PROVE  RingOf(gs, h, n + 1) = Cat(RingOf(fs, h, n), out)
  <1> USE ShimAssumption DEF ShimAssumption
  <1> DEFINE p == [i \in 1..n |-> fs[(h + i - 1) % NFrames].out]
             q == [i \in 1..n+1 |-> gs[(h + i - 1) % NFrames].out]
  <1>0. n \in Nat /\ n \in 0..NFrames /\ n < NFrames /\ (t = h + n \/ t + NFrames = h + n)
    BY DEF Behind
  <1>1. gs[t].out = out /\ \A i \in 0..NFrames-1 : i # t => gs[i] = fs[i]
    BY DEF Filled
  <1>2. p \in Seq(Seq(S)) /\ Len(p) = n
    <2>1. p \in Seq(Seq(S))
      BY ONLY <1>0, RingOfTyped, Holds(fs, S), h \in 0..NFrames-1
    <2>2. Len(p) = n
      BY <1>0
    <2> QED BY <2>1, <2>2
  <1>3. \A i \in 1..n : q[i] = p[i]
    <2> SUFFICES ASSUME NEW i \in 1..n PROVE q[i] = p[i]
      OBVIOUS
    <2>1. i - 1 \in 0..NFrames /\ h + (i - 1) = h + i - 1
      OBVIOUS
    <2>2. /\ (h + i - 1) % NFrames = IF h + i - 1 < NFrames THEN h + i - 1 ELSE h + i - 1 - NFrames
          /\ (h + i - 1) % NFrames \in 0..NFrames-1
      BY <2>1, Wraps
    <2>3. (h + i - 1) % NFrames # t
      <3> DEFINE j == (h + i - 1) % NFrames
      <3>1. j = (IF h + i - 1 < NFrames THEN h + i - 1 ELSE h + i - 1 - NFrames) /\ i <= n
            /\ h \in Nat /\ i \in Nat /\ NFrames \in Nat /\ n < NFrames /\ t \in Nat
        BY <1>0, <2>2
      <3> HIDE DEF j
      <3>2. j # t
        BY <3>1, <1>0
      <3> QED BY <3>2 DEF j
    <2>4. i \in 1..n+1
      OBVIOUS
    <2> QED BY <1>1, <2>2, <2>3, <2>4
  <1>4. q[n + 1] = out
    <2>1. (h + n) % NFrames = t
      <3> DEFINE j == (h + n) % NFrames
      <3>1. j = IF h + n < NFrames THEN h + n ELSE h + n - NFrames
        BY <1>0, Wraps
      <3> HIDE DEF j
      <3>2. j = t
        BY <3>1, <1>0
      <3> QED BY <3>2 DEF j
    <2>2. h + (n + 1) - 1 = h + n /\ n + 1 \in 1..n+1
      OBVIOUS
    <2> QED BY <1>1, <2>1, <2>2
  <1>5. q = Append(p, out)
    <2>1. DOMAIN q = 1..n+1 /\ \A i \in 1..n+1 : i \in 1..n \/ i = n + 1
      OBVIOUS
    <2>2. /\ Append(p, out) \in Seq(Seq(S)) /\ Len(Append(p, out)) = n + 1
          /\ \A i \in 1..n : Append(p, out)[i] = p[i]
          /\ Append(p, out)[n + 1] = out
      <3> HIDE DEF p
      <3> QED BY <1>2, AppendProperties
    <2>3. q = [i \in 1..n+1 |-> q[i]]
      OBVIOUS
    <2>5. Append(p, out) = [i \in 1..n+1 |-> Append(p, out)[i]]
      <3> DEFINE u == Append(p, out)
      <3>1. u \in Seq(Seq(S)) /\ Len(u) = n + 1
        BY <2>2
      <3> HIDE DEF u
      <3>2. u = [i \in 1..n+1 |-> u[i]]
        BY <3>1
      <3> QED BY <3>2 DEF u
    <2>4. \A i \in 1..n+1 : q[i] = Append(p, out)[i]
      <3> HIDE DEF p, q
      <3> QED BY <1>3, <1>4, <2>1, <2>2
    <2> HIDE DEF p, q
    <2> QED BY <2>3, <2>4, <2>5
  <1> HIDE DEF p, q
  <1>6. FlattenSeq(q) = Cat(FlattenSeq(p), out)
    BY <1>2, <1>5, FlattenAppend
  <1> QED BY <1>6 DEF p, q, RingOf

(* JS copies the first.                                                    *)
LEMMA FlattenHead ==
  ASSUME NEW S, NEW parts \in Seq(Seq(S)), parts # <<>>
  PROVE  FlattenSeq(parts) = Cat(Head(parts), FlattenSeq(Tail(parts)))
  <1> DEFINE E == Seq(S)
             g == [part \in E |-> part]
             rest == Tail(parts)
  <1>1. Spreader(g, E, S) /\ parts \in Seq(E) /\ rest \in Seq(E) /\ Head(parts) \in E
    BY DEF Spreader
  <1>2. [i \in 1..Len(parts) |-> g[parts[i]]] = parts
    OBVIOUS
  <1>3. [i \in 1..Len(rest) |-> g[rest[i]]] = rest
    <2>1. \A i \in 1..Len(rest) : rest[i] \in E
      BY <1>1
    <2> HIDE DEF rest
    <2>2. rest = [i \in 1..Len(rest) |-> rest[i]]
      BY <1>1
    <2> QED BY <2>1, <2>2
  <1>4. g[Head(parts)] = Head(parts)
    BY <1>1
  <1> HIDE DEF E, g, rest
  <1>5. Spread(g, parts) = Cat(g[Head(parts)], Spread(g, Tail(parts)))
    BY <1>1, SpreadHead
  <1> QED BY <1>2, <1>3, <1>4, <1>5 DEF Spread, rest

LEMMA RingShrinks ==
  ASSUME NEW S, NEW fs, NEW h \in 0..NFrames-1, NEW n \in 1..NFrames, Holds(fs, S)
  PROVE  RingOf(fs, h, n) = Cat(fs[h].out, RingOf(fs, NextFrame(h), n - 1))
  <1> USE ShimAssumption DEF ShimAssumption
  <1> DEFINE p == [i \in 1..n |-> fs[(h + i - 1) % NFrames].out]
             h2 == NextFrame(h)
             q == [i \in 1..n-1 |-> fs[(h2 + i - 1) % NFrames].out]
  <1>0. h2 \in 0..NFrames-1 /\ h2 = IF h + 1 = NFrames THEN 0 ELSE h + 1
    BY NextFrameIs
  <1> HIDE DEF h2
  <1>1. p \in Seq(Seq(S)) /\ Len(p) = n
    <2>0. n \in 0..NFrames /\ n \in Nat
      OBVIOUS
    <2>1. p \in Seq(Seq(S))
      BY <2>0, RingOfTyped
    <2>2. Len(p) = n
      BY <2>0
    <2> QED BY <2>1, <2>2
  <1>2. p # <<>> /\ Head(p) = p[1]
    BY <1>1
  <1>3. p[1] = fs[h].out
    <2>1. (h + 0) % NFrames = h
      BY Wraps
    <2>2. h + 1 - 1 = h + 0 /\ 1 \in 1..n
      OBVIOUS
    <2> QED BY <2>1, <2>2
  <1>4. Tail(p) = q
    <2>1. Tail(p) \in Seq(Seq(S)) /\ Len(Tail(p)) = n - 1
          /\ \A i \in 1..n-1 : Tail(p)[i] = p[i + 1]
      <3> HIDE DEF p
      <3> QED BY <1>1, <1>2, HeadTailProperties
    <2>2. ASSUME NEW i \in 1..n-1 PROVE p[i + 1] = q[i]
      <3>1. i \in 0..NFrames /\ i - 1 \in 0..NFrames /\ i + 1 \in 1..n
            /\ h + (i + 1) - 1 = h + i /\ h2 + i - 1 = h2 + (i - 1)
        BY <1>0
      <3>2. (h + i) % NFrames = IF h + i < NFrames THEN h + i ELSE h + i - NFrames
        BY <3>1, Wraps
      <3>3. (h2 + (i - 1)) % NFrames
              = IF h2 + (i - 1) < NFrames THEN h2 + (i - 1) ELSE h2 + (i - 1) - NFrames
        BY <1>0, <3>1, Wraps
      <3>4. (h + i) % NFrames = (h2 + (i - 1)) % NFrames
        BY <1>0, <3>1, <3>2, <3>3
      <3> QED BY <3>1, <3>4
    <2>3. q = [i \in 1..n-1 |-> q[i]]
      OBVIOUS
    <2>4. Tail(p) = [i \in 1..n-1 |-> Tail(p)[i]]
      <3> DEFINE u == Tail(p)
      <3>1. u \in Seq(Seq(S)) /\ Len(u) = n - 1
        BY <2>1
      <3> HIDE DEF u
      <3>2. u = [i \in 1..n-1 |-> u[i]]
        BY <3>1
      <3> QED BY <3>2 DEF u
    <2> HIDE DEF p, q
    <2> QED BY <2>1, <2>2, <2>3, <2>4
  <1> HIDE DEF p, q
  <1>5. FlattenSeq(p) = Cat(Head(p), FlattenSeq(Tail(p)))
    BY <1>1, <1>2, FlattenHead
  <1> QED BY <1>2, <1>3, <1>4, <1>5 DEF p, q, h2, RingOf

-----------------------------------------------------------------------------
(* OrderInv, for every script.                                             *)
LEMMA ScriptKinds ==
  /\ ConsumerEvents \subseteq AllEvents /\ MainEvents \subseteq AllEvents
  /\ \A script \in Scripts :
       script.consumer \in Seq(ConsumerEvents) /\ script.main \in Seq(MainEvents)
  /\ \A event \in ConsumerEvents : event.kind \in {"fetch", "eof", "consumer", "ignored"}
  /\ \A event \in ConsumerEvents : event.kind = "eof" => Len(event.records) <= 1
  /\ \A event \in MainEvents : event.kind \in {"main", "ignored", "throttle"}
  <1>1. ConsumerEvents \subseteq AllEvents /\ MainEvents \subseteq AllEvents
    BY DEF ConsumerEvents, MainEvents, AllEvents
  <1>2. ASSUME NEW script \in Scripts
        PROVE  script.consumer \in Seq(ConsumerEvents) /\ script.main \in Seq(MainEvents)
    <2>1. /\ script.consumer \in Seq(ToSet(script.consumer))
          /\ script.main \in Seq(ToSet(script.main))
      BY ScriptsAssumption DEF IsSequence
    <2>2. ToSet(script.consumer) \subseteq ConsumerEvents /\ ToSet(script.main) \subseteq MainEvents
      BY DEF ConsumerEvents, MainEvents
    <2> QED BY ONLY <2>1, <2>2
  <1>3. \A event \in ConsumerEvents :
          /\ event.kind \in {"fetch", "eof", "consumer", "ignored"}
          /\ event.kind = "eof" => Len(event.records) <= 1
    BY ScriptsAssumption DEF ConsumerEvents
  <1>4. \A event \in MainEvents : event.kind \in {"main", "ignored", "throttle"}
    BY ScriptsAssumption DEF MainEvents
  <1> QED BY <1>1, <1>2, <1>3, <1>4

LEMMA InitOrder == Init => OrderInv
  <1> SUFFICES ASSUME Init PROVE OrderInv
    OBVIOUS
  <1>1. KindsApart
    BY ScriptKinds DEF Init, KindsApart
  <1>2. \A S : <<>> \in Seq(S)
    OBVIOUS
  <1>3. Holds(frames, Written(names))
    BY <1>2 DEF Init, EmptyRing, Holds
  <1>4. Interning
    BY <1>2, <1>3 DEF Init, Interning, NoFill, Names
  <1>5. Kept /\ MainInOrder
    BY DEF Init, NoFill, Kept, MainInOrder
  <1>6. Delivered
    BY <1>2 DEF Init, Delivered
  <1> QED BY <1>1, <1>4, <1>5, <1>6 DEF OrderInv

LEMMA WrittenLater ==
  ASSUME NEW table, NEW longer, Extends(table, longer), Len(table) \in Nat, Len(longer) \in Nat
  PROVE  Seq(Written(table)) \subseteq Seq(Written(longer))
  <1>1. 1..Len(table) \subseteq 1..Len(longer)
    BY DEF Extends
  <1>2. Written(table) \subseteq Written(longer)
    BY <1>1 DEF Written
  <1> QED BY <1>2, SeqMonotonic

(* A record is interned and written, or held over.                         *)
Writes(r, record, cached) ==
  /\ names' \in Seq(Topics) /\ Extends(names, names')
  /\ record \in Written(names') /\ record.id = r.id /\ names'[record.tid] = r.topic
  /\ Names(names', cached) /\ Emit(record, cached)

LEMMA RecordIsWritten ==
  ASSUME NEW table, NEW r \in AllRecords, NEW tid \in 1..Len(table)
  PROVE  LET record == [id |-> r.id, tid |-> tid, size |-> r.size]
         IN  record \in Written(table) /\ record.id = r.id /\ record.tid = tid
  BY ScriptTypes DEF Written, Ids

LEMMA SerializeWrites ==
  ASSUME Inv, OrderInv, SerializeMessage
  PROVE  /\ \E record, cached : Writes(Head(curFetch), record, cached)
         /\ Head(curFetch) \in AllRecords /\ fill.phase = "loop"
         /\ curFetch # <<>> /\ curFetch' = Tail(curFetch)
         /\ UNCHANGED <<queues, stash, ring, caller, closing, received>>
  <1> DEFINE message == Head(curFetch)
             hit == Hit(message)
             table == IF hit THEN names ELSE Interned(message.topic)
             tid == IF hit THEN fill.cached[1].tid ELSE TopicId(table, message.topic)
             record == [id |-> message.id, tid |-> tid, size |-> message.size]
             cached == <<[rkt |-> message.rkt, topic |-> message.topic, tid |-> tid]>>
  <1>1. /\ fill.phase = "loop" /\ curFetch # <<>> /\ curFetch' = Tail(curFetch)
        /\ names' = table /\ Emit(record, cached)
        /\ UNCHANGED <<queues, stash, ring, caller, closing, received>>
    BY DEF SerializeMessage
  <1>2. message \in AllRecords /\ message.topic \in Topics
    <2>1. curFetch \in Seq(AllRecords)
      BY DEF Inv, Typed, RecordsTyped
    <2> QED BY <1>1, <2>1 DEF Topics
  <1> HIDE DEF message
  <1>3. names \in Seq(Topics) /\ Names(names, fill.cached)
    BY DEF OrderInv, Interning
  <1>4. /\ table \in Seq(Topics) /\ Extends(names, table)
        /\ tid \in 1..Len(table) /\ table[tid] = message.topic
    <2>1. CASE hit
      BY <1>3, <2>1 DEF Hit, Names, Extends
    <2>2. CASE ~hit
      BY <1>2, <1>3, <2>2, InternedIs
    <2> QED BY <2>1, <2>2
  <1> HIDE DEF hit, table, tid
  <1>5. record \in Written(table) /\ record.id = message.id /\ record.tid = tid
    BY <1>2, <1>4, RecordIsWritten
  <1>6. Names(table, cached)
    BY <1>4 DEF Names
  <1> HIDE DEF record, cached
  <1>7. Writes(message, record, cached)
    BY <1>1, <1>4, <1>5, <1>6 DEF Writes
  <1> QED BY <1>1, <1>2, <1>7 DEF message

LEMMA EofWrites ==
  ASSUME Inv, OrderInv, NEW event \in ConsumerEvents, TakeEof(event), event.records # <<>>
  PROVE  /\ \E record, cached : Writes(Head(event.records), record, cached)
         /\ event.records \in Seq(AllRecords) /\ Head(event.records) \in AllRecords
         /\ Tail(event.records) = <<>>
         /\ UNCHANGED <<curFetch, stash>>
  <1> DEFINE eof == Head(event.records)
             table == Interned(eof.topic)
             record == [id |-> eof.id, tid |-> TopicId(table, eof.topic), size |-> eof.size]
  <1>1. /\ event.kind = "eof" /\ names' = table /\ Emit(record, fill.cached)
        /\ UNCHANGED <<curFetch, stash>>
    BY DEF TakeEof
  <1>2. event.records \in Seq(AllRecords) /\ Len(event.records) <= 1
    <2>1. event \in Batches
      BY <1>1, ScriptKinds DEF Batches
    <2> QED BY <1>1, <2>1, ScriptTypes, ScriptKinds
  <1>3. eof \in AllRecords /\ eof.topic \in Topics /\ Tail(event.records) = <<>>
    BY <1>2 DEF Topics
  <1> HIDE DEF eof
  <1>4. names \in Seq(Topics) /\ Names(names, fill.cached)
    BY DEF OrderInv, Interning
  <1>5. /\ table \in Seq(Topics) /\ Extends(names, table)
        /\ TopicId(table, eof.topic) \in 1..Len(table) /\ table[TopicId(table, eof.topic)] = eof.topic
    BY <1>3, <1>4, InternedIs
  <1> HIDE DEF table
  <1>6. record \in Written(table) /\ record.id = eof.id /\ record.tid = TopicId(table, eof.topic)
    BY <1>3, <1>5, RecordIsWritten
  <1> HIDE DEF record
  <1>7. Names(table, fill.cached)
    BY <1>4, <1>5 DEF Names, Extends
  <1>8. Writes(eof, record, fill.cached)
    BY <1>1, <1>5, <1>6, <1>7 DEF Writes
  <1> QED BY <1>1, <1>2, <1>3, <1>8 DEF eof

(* Either way it comes after what was written before.                      *)
LEMMA WritesKeep ==
  ASSUME Inv, OrderInv, fill.phase = "loop", NEW r \in AllRecords, NEW record, NEW cached,
         Writes(r, record, cached), UNCHANGED frames
  PROVE  /\ Interning' /\ Extends(names, names')
         /\ Cat(fill'.out, pending') = Cat(Cat(fill.out, pending), <<record>>)
         /\ fill'.phase = "loop" => pending' = <<>>
         /\ fill'.phase \in {"loop", "done", "tooSmall"} /\ (fill'.phase = "tooSmall" => fill'.out = <<>>)
         /\ fill'.by = fill.by
  <1>1. /\ names \in Seq(Topics) /\ Names(names, fill.cached)
        /\ fill.out \in Seq(Written(names)) /\ pending = <<>>
        /\ Holds(frames, Written(names))
    BY DEF OrderInv, Interning, Kept
  <1>2. /\ names' \in Seq(Topics) /\ Extends(names, names') /\ record \in Written(names')
        /\ Names(names', cached) /\ Emit(record, cached)
    BY DEF Writes
  <1>3. Seq(Written(names)) \subseteq Seq(Written(names'))
    BY <1>1, <1>2, WrittenLater
  <1>4. Holds(frames', Written(names'))
    BY <1>1, <1>3 DEF Holds
  <1>5. fill.out \in Seq(Written(names')) /\ Names(names', fill.cached)
    BY <1>1, <1>2, <1>3 DEF Names, Extends
  <1>6. Append(fill.out, record) = Cat(fill.out, <<record>>)
        /\ <<record>> \in Seq(Written(names')) /\ <<>> \in Seq(Written(names'))
    BY <1>2, <1>5, AppendIsCat
  <1>7. Cat(fill.out, <<>>) = fill.out /\ Cat(<<>>, <<record>>) = <<record>>
        /\ Cat(Append(fill.out, record), <<>>) = Append(fill.out, record)
    <2>1. Append(fill.out, record) \in Seq(Written(names'))
      BY <1>2, <1>5
    <2> QED BY <1>5, <1>6, <2>1, CatNothing
  <1>8. DOMAIN fill = {"by", "phase", "out", "cached"}
    BY DEF Inv, RingInv, Shapes
  <1>9. CASE fill' = [fill EXCEPT !.out = Append(@, record), !.cached = cached]
             /\ UNCHANGED <<pending, lastRequired>>
    <2>1. fill'.out = Append(fill.out, record) /\ fill'.phase = "loop" /\ fill'.cached = cached
          /\ fill'.by = fill.by
      BY <1>8, <1>9
    <2>2. Append(fill.out, record) \in Seq(Written(names'))
      BY <1>2, <1>5
    <2>3. Interning'
      BY <1>1, <1>2, <1>4, <1>6, <1>9, <2>1, <2>2 DEF Interning
    <2> QED BY <1>1, <1>2, <1>6, <1>7, <1>9, <2>1, <2>3
  <1>10. CASE /\ pending' = <<record>>
              /\ \/ fill.out = <<>> /\ fill' = [fill EXCEPT !.phase = "tooSmall"]
                 \/ fill' = [fill EXCEPT !.phase = "done"]
    <2>1. fill'.out = fill.out /\ fill'.phase \in {"done", "tooSmall"} /\ fill'.cached = fill.cached
          /\ fill'.by = fill.by /\ (fill'.phase = "tooSmall" => fill.out = <<>>)
      BY <1>8, <1>10
    <2>2. Interning'
      BY <1>1, <1>2, <1>4, <1>5, <1>6, <1>10, <2>1 DEF Interning
    <2> QED BY <1>1, <1>2, <1>7, <1>10, <2>1, <2>2
  <1> QED BY <1>2, <1>9, <1>10 DEF Emit

(* The steps keep OrderInv, one part at a time.                            *)
LEMMA KindsNext == ASSUME Inv, OrderInv, [Next]_vars PROVE KindsApart'
  <1> DEFINE C == ConsumerEvents
             M == MainEvents
  <1>1. coming \in Seq(C) /\ consumerQ \in Seq(C) /\ mainComing \in Seq(M) /\ mainQ \in Seq(M)
    BY DEF OrderInv, KindsApart
  <1>2. CASE UNCHANGED queues
    BY <1>1, <1>2 DEF queues, KindsApart
  <1>3. CASE Enqueue
    <2>1. CASE /\ coming # <<>> /\ UNCHANGED <<mainComing, mainQ>>
               /\ consumerQ' = Append(consumerQ, Head(coming)) /\ coming' = Tail(coming)
      <3> HIDE DEF C
      <3>1. consumerQ' \in Seq(C) /\ coming' \in Seq(C)
        BY <1>1, <2>1
      <3> QED BY <1>1, <2>1, <3>1 DEF KindsApart, C
    <2>2. CASE /\ mainComing # <<>> /\ UNCHANGED <<coming, consumerQ>>
               /\ mainQ' = Append(mainQ, Head(mainComing)) /\ mainComing' = Tail(mainComing)
      <3> HIDE DEF M
      <3>1. mainQ' \in Seq(M) /\ mainComing' \in Seq(M)
        BY <1>1, <2>2
      <3> QED BY <1>1, <2>2, <3>1 DEF KindsApart, M
    <2> QED BY <1>3, <2>1, <2>2 DEF Enqueue
  <1>4. CASE consumerQ # <<>> /\ consumerQ' = Tail(consumerQ) /\ UNCHANGED <<coming, mainComing, mainQ>>
    <2> HIDE DEF C
    <2>1. consumerQ' \in Seq(C)
      BY <1>1, <1>4
    <2> QED BY <1>1, <1>4, <2>1 DEF KindsApart, C
  <1>5. CASE mainQ # <<>> /\ mainQ' = Tail(mainQ) /\ UNCHANGED <<coming, mainComing, consumerQ>>
    <2> HIDE DEF M
    <2>1. mainQ' \in Seq(M)
      BY <1>1, <1>5
    <2> QED BY <1>1, <1>5, <2>1 DEF KindsApart, M
  <1>6. ASSUME PrefetchThread PROVE UNCHANGED queues \/ PollConsumerQueue
    BY <1>6 DEF PrefetchThread, PrefetchTop, PrefetchPublish, PrefetchGrow, ConsumeFill, FillEnter,
                SerializeMessage, FillDone
  <1>7. ASSUME JsThread PROVE UNCHANGED queues \/ PollConsumerQueue \/ PollMain
    <2>1. ASSUME ConsumeFill PROVE UNCHANGED queues \/ PollConsumerQueue
      BY <2>1 DEF ConsumeFill, FillEnter, SerializeMessage, FillDone
    <2> QED
      BY <1>7, <2>1 DEF JsThread, PollEvents, PollStash, GrowEvents, ConsumeBatch, TakeFrame,
         CopyFrame, GrowConsume, JsFillEnds, Failed, Join, CloseConsumer
  <1>8. PollConsumerQueue => KindsApart'
    BY <1>4 DEF PollConsumerQueue
  <1>9. PollMain => KindsApart'
    <2>1. PollMain => UNCHANGED queues \/ (/\ mainQ # <<>> /\ mainQ' = Tail(mainQ)
                                           /\ UNCHANGED <<coming, mainComing, consumerQ>>)
      BY DEF PollMain, queues
    <2> QED BY <1>2, <1>5, <2>1
  <1>10. Destroy \/ GroupCloses \/ UNCHANGED vars => UNCHANGED queues
    BY DEF Destroy, GroupCloses, vars
  <1> QED BY <1>2, <1>3, <1>6, <1>7, <1>8, <1>9, <1>10 DEF Next

(* What OrderInv says of a call of consume_fill() and of what it wrote.    *)
FillKept ==
  /\ fill.by = "none" \/ fill.phase \in {"enter", "tooSmall"} => fill.out = <<>>
  /\ fill.phase = "loop" => pending = <<>>

LEMMA FillOrder ==
  ASSUME Inv, OrderInv, ConsumeFill, fill.by # "none"
  PROVE  Interning' /\ FillKept' /\ UNCHANGED <<ring, caller, received>>
  <1>0. /\ Interning /\ FillKept /\ DOMAIN fill = {"by", "phase", "out", "cached"}
        /\ fill.by = "none" => fill.out = <<>>
    BY DEF OrderInv, Kept, FillKept, Inv, RingInv, Shapes
  <1>1. UNCHANGED <<ring, caller, received>>
    BY DEF ConsumeFill, FillEnter, SerializeMessage, PollConsumerQueue, FillDone
  <1>2. UNCHANGED frames
    BY <1>1 DEF ring
  <1>3. CASE FillEnter
    <2>1. UNCHANGED <<names, frames>> /\ fill.out = <<>> /\ fill.phase = "enter"
      BY <1>0, <1>2, <1>3 DEF FillEnter, FillKept
    <2>2. \/ UNCHANGED pending /\ fill' = [fill EXCEPT !.phase = "tooSmall"]
          \/ pending' = <<>> /\ fill' = [fill EXCEPT !.phase = "loop", !.out = pending]
      BY <1>3 DEF FillEnter
    <2>3. CASE UNCHANGED pending /\ fill' = [fill EXCEPT !.phase = "tooSmall"]
      <3>1. fill'.out = fill.out /\ fill'.phase = "tooSmall" /\ fill'.cached = fill.cached
        BY <1>0, <2>3
      <3> QED BY <1>0, <1>1, <2>1, <2>3, <3>1 DEF Interning, FillKept
    <2>4. CASE pending' = <<>> /\ fill' = [fill EXCEPT !.phase = "loop", !.out = pending]
      <3>1. fill'.out = pending /\ fill'.phase = "loop" /\ fill'.cached = fill.cached
            /\ fill'.by = fill.by
        BY <1>0, <2>4
      <3>2. <<>> \in Seq(Written(names))
        OBVIOUS
      <3> QED BY <1>0, <1>1, <2>1, <2>4, <3>1, <3>2 DEF Interning, FillKept
    <2> QED BY <2>2, <2>3, <2>4
  <1>4. ASSUME NEW r \in AllRecords, NEW record, NEW cached, Writes(r, record, cached),
               fill.phase = "loop"
        PROVE  Interning' /\ FillKept'
    <2>1. /\ Interning'
          /\ fill'.phase = "loop" => pending' = <<>>
          /\ fill'.phase = "tooSmall" => fill'.out = <<>>
          /\ fill'.phase \in {"loop", "done", "tooSmall"} /\ fill'.by = fill.by
      BY <1>2, <1>4, WritesKeep
    <2> QED BY <2>1 DEF FillKept
  <1>5. CASE SerializeMessage
    BY <1>1, <1>4, <1>5, SerializeWrites
  <1>6. CASE UNCHANGED <<fill, pending, names>>
    BY <1>0, <1>1, <1>2, <1>6 DEF Interning, FillKept
  <1>7. CASE PollConsumerQueue
    <2>1. /\ consumerQ # <<>> /\ fill.phase = "loop"
          /\ TakeFetch(Head(consumerQ)) \/ TakeEof(Head(consumerQ)) \/ TakeOther(Head(consumerQ))
      BY <1>7 DEF PollConsumerQueue
    <2> DEFINE event == Head(consumerQ)
    <2>2. event \in ConsumerEvents
      <3>1. consumerQ \in Seq(ConsumerEvents)
        BY DEF OrderInv, KindsApart
      <3> QED BY <2>1, <3>1, TailTyped
    <2> HIDE DEF event
    <2>3. CASE TakeEof(event) /\ event.records # <<>>
      BY <1>1, <1>4, <2>1, <2>2, <2>3, EofWrites
    <2>4. CASE TakeFetch(event) \/ TakeOther(event) \/ (TakeEof(event) /\ event.records = <<>>)
      BY <1>6, <2>4 DEF TakeFetch, TakeOther, TakeEof
    <2> QED BY <2>1, <2>3, <2>4 DEF event
  <1>8. CASE FillDone
    <2>1. fill'.out = fill.out /\ fill'.phase = "done" /\ fill'.cached = fill.cached
          /\ fill'.by = fill.by /\ UNCHANGED <<pending, names>>
      BY <1>0, <1>8 DEF FillDone
    <2> QED BY <1>0, <1>1, <1>2, <2>1 DEF Interning, FillKept
  <1> QED BY <1>1, <1>3, <1>5, <1>7, <1>8 DEF ConsumeFill

(* The buffer of a call that has yet to begin, or that is over, is empty.  *)
LEMMA FreshFill ==
  ASSUME OrderInv, UNCHANGED <<names, pending>>, Holds(frames', Written(names)),
         fill' \in {fill, NoFill, StartFill("js"), StartFill("prefetch")}
  PROVE  Interning' /\ FillKept'
  <1>1. CASE fill' = fill
    BY <1>1 DEF OrderInv, Interning, Kept, FillKept
  <1>2. CASE fill' \in {NoFill, StartFill("js"), StartFill("prefetch")}
    <2>1. fill'.out = <<>> /\ fill'.cached = <<>> /\ fill'.phase \in {"none", "enter"}
      <3>1. \A by : StartFill(by).out = <<>> /\ StartFill(by).cached = <<>>
                     /\ StartFill(by).phase = "enter"
        BY DEF NoFill, StartFill
      <3>2. NoFill.out = <<>> /\ NoFill.cached = <<>> /\ NoFill.phase = "none"
        BY DEF NoFill
      <3> QED BY <1>2, <3>1, <3>2
    <2>2. <<>> \in Seq(Written(names))
      OBVIOUS
    <2> QED BY <2>1, <2>2 DEF OrderInv, Interning, FillKept, Names
  <1> QED BY <1>1, <1>2

LEMMA InterningNext == ASSUME Inv, OrderInv, [Next]_vars PROVE Interning' /\ FillKept'
  <1>0. Holds(frames, Written(names))
    BY DEF OrderInv, Interning
  <1>1. ASSUME ConsumeFill, fill.by # "none" PROVE Interning' /\ FillKept'
    BY <1>1, FillOrder
  <1>2. CASE /\ UNCHANGED <<names, pending, frames>>
             /\ fill' \in {fill, NoFill, StartFill("js"), StartFill("prefetch")}
    BY <1>0, <1>2, FreshFill
  <1>3. CASE PrefetchPublish
    <2>1. UNCHANGED <<names, pending>> /\ fill' = NoFill
      BY <1>3 DEF PrefetchPublish
    <2>2. Holds(frames', Written(names))
      <3>1. CASE UNCHANGED frames
        BY <1>0, <3>1 DEF Holds
      <3>2. CASE frames' = [frames EXCEPT ![tail].out = fill.out]
        <4> DEFINE frame == [frames[tail] EXCEPT !.out = fill.out]
        <4>1. frames' = [frames EXCEPT ![tail] = frame]
          BY <3>2
        <4>2. frame.out = fill.out /\ DOMAIN frames = 0..NFrames-1
          BY DEF Inv, Typed, RingTyped, Frame, RingInv, Shapes
        <4>3. fill.out \in Seq(Written(names))
          BY DEF OrderInv, Interning
        <4> HIDE DEF frame
        <4> QED BY <1>0, <4>1, <4>2, <4>3 DEF Holds
      <3> QED BY <1>3, <3>1, <3>2 DEF PrefetchPublish
    <2> QED BY <2>1, <2>2, FreshFill
  <1>4. CASE PrefetchGrow
    <2>1. UNCHANGED <<names, pending>> /\ fill' = NoFill
      BY <1>4 DEF PrefetchGrow
    <2>2. Holds(frames', Written(names))
      <3> DEFINE frame == [frames[tail] EXCEPT !.cap = Larger(@, lastRequired)]
      <3>1. frames' = [frames EXCEPT ![tail] = frame]
        BY <1>4 DEF PrefetchGrow
      <3>2. frame.out = frames[tail].out /\ DOMAIN frames = 0..NFrames-1
        BY DEF Inv, Typed, RingTyped, Frame, RingInv, Shapes
      <3> HIDE DEF frame
      <3> QED BY <1>0, <3>1, <3>2 DEF Holds
    <2> QED BY <2>1, <2>2, FreshFill
  <1>5. CASE Join
    <2>1. UNCHANGED <<names, pending, fill>> /\ frames' = EmptyRing
      BY <1>5 DEF Join, filling
    <2>2. <<>> \in Seq(Written(names))
      OBVIOUS
    <2>3. Holds(frames', Written(names))
      BY <2>1, <2>2 DEF EmptyRing, Holds
    <2> QED BY <2>1, <2>3, FreshFill
  <1>6. CASE Enqueue \/ Destroy \/ GroupCloses \/ UNCHANGED vars
    BY <1>2, <1>6 DEF Enqueue, Destroy, GroupCloses, filling, ring, vars
  <1>7. CASE PrefetchThread
    <2>1. PrefetchTop => Interning' /\ FillKept'
      BY <1>2 DEF PrefetchTop
    <2> QED BY <1>1, <1>3, <1>4, <1>7, <2>1 DEF PrefetchThread
  <1>8. CASE JsThread
    <2>1. ASSUME PollEvents \/ PollStash \/ PollMain \/ GrowEvents \/ TakeFrame \/ Failed
                 \/ CloseConsumer \/ CopyFrame
          PROVE  Interning' /\ FillKept'
      BY <1>2, <2>1 DEF PollEvents, PollStash, PollMain, GrowEvents, TakeFrame, Failed,
                        CloseConsumer, CopyFrame, filling, ring
    <2>2. ASSUME ConsumeBatch \/ GrowConsume \/ JsFillEnds PROVE Interning' /\ FillKept'
      BY <1>2, <2>2 DEF ConsumeBatch, GrowConsume, JsFillEnds, ring
    <2> QED BY <1>1, <1>5, <1>8, <2>1, <2>2 DEF JsThread
  <1> QED BY <1>6, <1>7, <1>8 DEF Next

(* Once the ring's thread is gone, so are its frames.                      *)
LEMMA RingKeptNext == ASSUME Inv, OrderInv, [Next]_vars PROVE ~enabled' => ready' = 0
  <1>0. ~enabled => ready = 0
    BY DEF OrderInv, Kept
  <1>1. CASE UNCHANGED <<enabled, ready>>
    BY <1>0, <1>1
  <1>2. ConsumeFill => UNCHANGED <<enabled, ready>>
    BY DEF ConsumeFill, FillEnter, SerializeMessage, PollConsumerQueue, FillDone, ring
  <1>3. CASE Enqueue \/ Destroy \/ GroupCloses \/ UNCHANGED vars
    BY <1>1, <1>3 DEF Enqueue, Destroy, GroupCloses, ring, vars
  <1>4. CASE PrefetchThread
    <2>1. PrefetchTop \/ PrefetchGrow => UNCHANGED <<enabled, ready>>
      BY DEF PrefetchTop, PrefetchGrow
    <2>2. PrefetchPublish => enabled /\ UNCHANGED enabled
      BY DEF PrefetchPublish, Inv, RingInv, FillClaims
    <2> QED BY <1>1, <1>2, <1>4, <2>1, <2>2 DEF PrefetchThread
  <1>5. CASE JsThread
    <2>1. PollEvents \/ PollStash \/ PollMain \/ GrowEvents \/ TakeFrame \/ Failed \/ CloseConsumer
          \/ ConsumeBatch \/ GrowConsume \/ JsFillEnds => UNCHANGED <<enabled, ready>>
      BY DEF PollEvents, PollStash, PollMain, GrowEvents, TakeFrame, Failed, CloseConsumer,
             ConsumeBatch, GrowConsume, JsFillEnds, ring
    <2>2. CopyFrame => enabled /\ UNCHANGED enabled
      <3>1. CopyFrame => ready > 0 /\ UNCHANGED enabled
        BY DEF CopyFrame, Inv, RingInv, FrameClaims
      <3> QED BY <1>0, <3>1
    <2>3. Join => ready' = 0
      BY DEF Join
    <2> QED BY <1>1, <1>2, <1>5, <2>1, <2>2, <2>3 DEF JsThread
  <1> QED BY <1>3, <1>4, <1>5 DEF Next

(* brk_events_poll() returns what it wrote.                                *)
LEMMA EventsKeptNext ==
  ASSUME Inv, OrderInv, [Next]_vars
  PROVE  frameOut' # <<>> => js' \in {"stash", "main"}
  <1>0. frameOut # <<>> => js \in {"stash", "main"}
    BY DEF OrderInv, Kept
  <1>1. CASE UNCHANGED frameOut /\ (UNCHANGED js \/ js \notin {"stash", "main"})
    BY <1>0, <1>1
  <1>2. ConsumeFill => UNCHANGED <<frameOut, js>>
    BY DEF ConsumeFill, FillEnter, SerializeMessage, PollConsumerQueue, FillDone, caller
  <1>3. CASE Enqueue \/ Destroy \/ GroupCloses \/ UNCHANGED vars
    BY <1>1, <1>3 DEF Enqueue, Destroy, GroupCloses, caller, vars
  <1>4. CASE PrefetchThread
    <2>1. PrefetchTop \/ PrefetchGrow \/ PrefetchPublish => UNCHANGED <<frameOut, js>>
      BY DEF PrefetchTop, PrefetchGrow, PrefetchPublish, caller
    <2> QED BY <1>1, <1>2, <1>4, <2>1 DEF PrefetchThread
  <1>5. CASE JsThread
    <2>1. GrowEvents \/ TakeFrame \/ Failed \/ CloseConsumer \/ ConsumeBatch \/ GrowConsume
          \/ JsFillEnds \/ CopyFrame \/ Join => UNCHANGED frameOut /\ js \notin {"stash", "main"}
      BY DEF GrowEvents, TakeFrame, Failed, CloseConsumer, ConsumeBatch, GrowConsume, JsFillEnds,
             CopyFrame, Join
    <2>2. PollEvents => frameOut' = <<>>
      BY DEF PollEvents
    <2>3. PollStash \/ PollMain => js' \in {"stash", "main"} \/ frameOut' = <<>>
      BY DEF PollStash, PollMain, EventsReturn
    <2> QED BY <1>1, <1>2, <1>5, <2>1, <2>2, <2>3 DEF JsThread
  <1> QED BY <1>3, <1>4, <1>5 DEF Next

LEMMA LengthOfAppend ==
  ASSUME NEW S, NEW s \in Seq(S), NEW x \in S
  PROVE  /\ Len(Append(s, x)) = Len(s) + 1 /\ Append(s, x)[Len(s) + 1] = x
         /\ \A i \in 1..Len(s) : Append(s, x)[i] = s[i]
  OBVIOUS

LEMMA MainNext == ASSUME Inv, OrderInv, [Next]_vars PROVE MainInOrder'
  <1>0. MainInOrder
    BY DEF OrderInv
  <1> DEFINE NoMain(s) == \A i \in 1..Len(s) : s[i].kind # "main"
  <1>1. CASE js' # "main"
    BY <1>1 DEF MainInOrder
  <1>2. CASE UNCHANGED <<js, frameOut, stash>>
    BY <1>0, <1>2 DEF MainInOrder, Full
  <1>3. ASSUME UNCHANGED <<js, frameOut>>, NEW event \in Items, event.kind # "main",
               stash' = Stashed(event)
        PROVE  MainInOrder'
    <2>0. stash \in Seq(Items)
      BY DEF Inv, Typed, EventsTyped
    <2>1. /\ Len(stash') = Len(stash) + 1 /\ Len(stash) \in Nat
          /\ \A i \in 1..Len(stash) : stash'[i] = stash[i]
          /\ stash'[Len(stash) + 1] = event
      BY <1>3, <2>0, LengthOfAppend DEF Stashed
    <2>2. NoMain(stash) => NoMain(stash')
      BY <1>3, <2>1
    <2> QED BY <1>0, <1>3, <2>2 DEF MainInOrder, Full
  <1>4. CASE ConsumeFill
    <2>1. UNCHANGED <<js, frameOut>>
      BY <1>4 DEF ConsumeFill, FillEnter, SerializeMessage, PollConsumerQueue, FillDone, caller
    <2>2. CASE PollConsumerQueue
      <3> DEFINE event == Head(consumerQ)
      <3>1. TakeFetch(event) \/ TakeEof(event) \/ TakeOther(event)
        BY <2>2 DEF PollConsumerQueue
      <3>2. event \in ConsumerEvents
        <4>1. consumerQ \in Seq(ConsumerEvents) /\ consumerQ # <<>>
          BY <2>2 DEF OrderInv, KindsApart, PollConsumerQueue
        <4> QED BY <4>1, TailTyped
      <3> HIDE DEF event
      <3>3. CASE UNCHANGED stash
        BY <1>2, <2>1, <3>3
      <3>4. CASE TakeOther(event) /\ stash' = Stashed(event)
        <4>1. event.kind \in {"consumer", "ignored"} /\ event \in AllEvents
          BY <3>2, <3>4, ScriptKinds DEF TakeOther
        <4>2. event \in Items /\ event.kind # "main"
          BY <4>1 DEF Items, Batches
        <4> QED BY <1>3, <2>1, <3>4, <4>2
      <3> QED BY <3>1, <3>3, <3>4 DEF TakeFetch, TakeEof, TakeOther
    <2> QED BY <1>2, <1>4, <2>1, <2>2 DEF ConsumeFill, FillEnter, SerializeMessage, FillDone
  <1>5. CASE Enqueue \/ Destroy \/ GroupCloses \/ UNCHANGED vars
    BY <1>1, <1>2, <1>5 DEF Enqueue, Destroy, AfterStop, GroupCloses, caller, vars
  <1>6. CASE PrefetchThread
    <2>1. PrefetchTop \/ PrefetchGrow \/ PrefetchPublish => UNCHANGED <<js, frameOut, stash>>
      BY DEF PrefetchTop, PrefetchGrow, PrefetchPublish, caller
    <2> QED BY <1>2, <1>4, <1>6, <2>1 DEF PrefetchThread
  <1>7. CASE PollStash
    <2>1. js' # "main" \/ (js' = "main" /\ UNCHANGED <<frameOut, stash>> /\ (Full \/ stash = <<>>))
      BY <1>7 DEF PollStash, TooSmall, EventsReturn, Return
    <2> QED BY <1>1, <2>1 DEF MainInOrder, Full
  <1>8. CASE PollMain
    <2>1. js' # "main" \/ (~Full /\ mainQ # <<>>)
      BY <1>8 DEF PollMain, TooSmall, EventsReturn, Return
    <2>2. CASE ~Full /\ mainQ # <<>> /\ js' = "main"
      <3> DEFINE event == Head(mainQ)
      <3>1. \/ UNCHANGED <<js, frameOut, stash>>
            \/ event.kind = "throttle" /\ stash' = Stashed(event) /\ UNCHANGED <<js, frameOut>>
            \/ UNCHANGED <<js, stash>>
        BY <1>8, <2>2 DEF PollMain, TooSmall, EventsReturn, Return
      <3>2. event \in MainEvents
        <4>1. mainQ \in Seq(MainEvents)
          BY DEF OrderInv, KindsApart
        <4> QED BY <2>2, <4>1, TailTyped
      <3> HIDE DEF event
      <3>3. event.kind = "throttle" => event \in Items /\ event.kind # "main"
        BY <3>2, ScriptKinds DEF Items, Batches
      <3>4. UNCHANGED <<js, stash>> => NoMain(stash')
        BY <1>0, <1>8, <2>2 DEF MainInOrder, PollMain
      <3>5. NoMain(stash') => MainInOrder'
        BY DEF MainInOrder
      <3> QED BY <1>3, <3>1, <3>3, <3>4, <3>5
    <2> QED BY <1>1, <2>1, <2>2
  <1>9. CASE JsThread /\ ~ConsumeFill /\ ~PollStash /\ ~PollMain
    <2>1. js' # "main"
      BY <1>9 DEF JsThread, PollEvents, GrowEvents, ConsumeBatch, TakeFrame, CopyFrame, GrowConsume,
                  JsFillEnds, Failed, Join, CloseConsumer, Deliver, Return, TooSmall
    <2> QED BY <1>1, <2>1
  <1> QED BY <1>4, <1>5, <1>6, <1>7, <1>8, <1>9 DEF Next

(* What JS receives has its name.                                          *)
LEMMA DeliverIs ==
  ASSUME OrderInv, NEW records \in Seq(Written(names)), Deliver(records)
  PROVE  /\ got' = Cat(got, KnownIn(names, records))
         /\ got' \in Seq(Label) /\ KnownIn(names, records) \in Seq(Label)
  <1>1. got' = got \o KnownIn(names, records)
    BY DEF Deliver, KnownIn, TopicName
  <1>2. KnownIn(names, records) \in Seq(Label) /\ got \in Seq(Label)
    BY KnownTyped DEF OrderInv, Interning, Delivered
  <1>3. got' = Cat(got, KnownIn(names, records))
    BY <1>1 DEF Cat
  <1> QED BY <1>2, <1>3, CatTyped

LEMMA DeliveredNext == ASSUME Inv, OrderInv, [Next]_vars PROVE Delivered'
  <1>0. Delivered /\ Interning
    BY DEF OrderInv
  <1>1. CASE UNCHANGED <<got, events>>
    BY <1>0, <1>1 DEF Delivered
  <1>2. ConsumeFill => UNCHANGED <<got, events>>
    BY DEF ConsumeFill, FillEnter, SerializeMessage, PollConsumerQueue, FillDone, received
  <1>3. CASE Enqueue \/ Destroy \/ GroupCloses \/ UNCHANGED vars
    BY <1>1, <1>3 DEF Enqueue, Destroy, GroupCloses, received, vars
  <1>4. CASE PrefetchThread
    <2>1. PrefetchTop \/ PrefetchGrow \/ PrefetchPublish => UNCHANGED <<got, events>>
      BY DEF PrefetchTop, PrefetchGrow, PrefetchPublish, received
    <2> QED BY <1>1, <1>2, <1>4, <2>1 DEF PrefetchThread
  <1>5. CASE JsFillEnds
    <2>1. UNCHANGED events /\ (UNCHANGED got \/ Deliver(fill.out))
      BY <1>5 DEF JsFillEnds
    <2>2. fill.out \in Seq(Written(names))
      BY <1>0 DEF Interning
    <2>3. got' \in Seq(Label)
      BY <1>0, <2>1, <2>2, DeliverIs DEF Delivered
    <2> QED BY <1>0, <2>1, <2>3 DEF Delivered
  <1>6. CASE CopyFrame
    <2>1. UNCHANGED events /\ Deliver(frames[head].out)
      BY <1>6 DEF CopyFrame
    <2>2. frames[head].out \in Seq(Written(names))
      BY <1>0 DEF Interning, Holds, Inv, RingInv, Shapes
    <2>3. got' \in Seq(Label)
      BY <2>1, <2>2, DeliverIs
    <2> QED BY <1>0, <2>1, <2>3 DEF Delivered
  <1>7. CASE PollStash \/ PollMain
    <2>1. UNCHANGED got /\ (UNCHANGED events \/ EventsReturn)
      BY <1>7 DEF PollStash, PollMain
    <2>2. frameOut \in Seq(Items) /\ events \in Seq(Items)
      BY <1>0 DEF Delivered, Inv, Typed, EventsTyped
    <2>3. EventsReturn => events' \in Seq(Items)
      BY <2>2 DEF EventsReturn
    <2> QED BY <1>0, <2>1, <2>3 DEF Delivered
  <1>8. CASE JsThread /\ ~ConsumeFill /\ ~PollStash /\ ~PollMain /\ ~JsFillEnds /\ ~CopyFrame
    BY <1>1, <1>8 DEF JsThread, PollEvents, GrowEvents, ConsumeBatch, TakeFrame, GrowConsume,
                      Failed, Join, CloseConsumer, received
  <1> QED BY <1>2, <1>1, <1>3, <1>4, <1>5, <1>6, <1>7, <1>8 DEF Next

LEMMA NextOrder == Inv /\ OrderInv /\ [Next]_vars => OrderInv'
  <1> SUFFICES ASSUME Inv, OrderInv, [Next]_vars PROVE OrderInv'
    OBVIOUS
  <1>1. Kept'
    BY InterningNext, RingKeptNext, EventsKeptNext DEF Kept, FillKept
  <1> QED BY <1>1, KindsNext, InterningNext, MainNext, DeliveredNext DEF OrderInv

-----------------------------------------------------------------------------
(* The steps of the channel, from those of its lanes.                      *)
Carried(lane) == IF lane = "records" THEN Label ELSE AllEvents
LaneTyped(lane) ==
  /\ ToSend[lane] \in Seq(Carried(lane)) /\ InTransit[lane] \in Seq(Carried(lane))
  /\ Received[lane] \in Seq(Carried(lane))
LaneMoves(lane) ==
  Moves(Carried(lane), ToSend[lane], InTransit[lane], Received[lane],
        ToSend'[lane], InTransit'[lane], Received'[lane])

LEMMA LanesCarry ==
  ASSUME ~Down, ~Down', \A lane \in Lanes : LaneTyped(lane) /\ LaneTyped(lane)' /\ LaneMoves(lane)
  PROVE  Shim!Next
  <1>1. ASSUME NEW lane \in Lanes
        PROVE  \/ \E n \in 0..Len(ToSend[lane]) : Shim!Send(lane, n)
               \/ \E n \in 1..Len(InTransit[lane]) : Shim!Receive(lane, n)
    <2> DEFINE s == ToSend[lane]
               q == InTransit[lane]
               r == Received[lane]
               s2 == ToSend'[lane]
               q2 == InTransit'[lane]
               r2 == Received'[lane]
               T == Carried(lane)
    <2>1. /\ s \in Seq(T) /\ q \in Seq(T) /\ r \in Seq(T)
          /\ s2 \in Seq(T) /\ q2 \in Seq(T) /\ r2 \in Seq(T)
          /\ Moves(T, s, q, r, s2, q2, r2)
      BY DEF LaneTyped, LaneMoves, Carried
    <2> HIDE DEF s, q, r, s2, q2, r2, T
    <2>2. Along(s, q, r, s2, q2, r2)
      BY <2>1, MovesAlong
    <2> QED BY <2>2 DEF Along, Shim!Send, Shim!Receive, s, q, r, s2, q2, r2
  <1>2. Shim!Carry
    BY <1>1 DEF Shim!Carry
  <1> QED BY <1>2 DEF Shim!Next

-----------------------------------------------------------------------------
(* The lane of a kind of event: the frame being written, the stash, and    *)
(* the one queue of librdkafka this kind comes on.                         *)
EventKinds == {"consumer", "main", "throttle"}
OwnQueue(kind, c, m) == IF kind = "consumer" THEN c ELSE m

LEMMA KindsOnTheirQueue ==
  ASSUME NEW kind \in EventKinds, NEW c \in Seq(ConsumerEvents), NEW m \in Seq(MainEvents)
  PROVE  /\ c \in Seq(AllEvents) /\ m \in Seq(AllEvents)
         /\ OwnQueue(kind, c, m) \in Seq(AllEvents)
         /\ kind = "consumer" => Of(kind, m) = <<>>
         /\ kind # "consumer" => Of(kind, c) = <<>>
  <1>1. c \in Seq(AllEvents) /\ m \in Seq(AllEvents)
    BY ScriptKinds, SeqMonotonic
  <1>2. ASSUME kind = "consumer" PROVE Of(kind, m) = <<>>
    <2>1. \A event \in MainEvents : event.kind # kind
      BY <1>2, ScriptKinds
    <2>2. MainEvents \subseteq AllEvents
      BY ScriptKinds
    <2> QED BY <2>1, <2>2, OfNothing
  <1>3. ASSUME kind # "consumer" PROVE Of(kind, c) = <<>>
    <2>1. \A event \in ConsumerEvents : event.kind # kind
      BY <1>3, ScriptKinds DEF EventKinds
    <2>2. ConsumerEvents \subseteq AllEvents
      BY ScriptKinds
    <2> QED BY <2>1, <2>2, OfNothing
  <1> QED BY <1>1, <1>2, <1>3 DEF OwnQueue

LEMMA EventSourceIs ==
  ASSUME NEW kind \in EventKinds, NEW c \in Seq(ConsumerEvents), NEW m \in Seq(MainEvents)
  PROVE  Of(kind, c \o m) = Of(kind, OwnQueue(kind, c, m))
  <1> DEFINE C == Of(kind, c)
             M == Of(kind, m)
  <1>1. /\ c \in Seq(AllEvents) /\ m \in Seq(AllEvents)
        /\ kind = "consumer" => M = <<>>
        /\ kind # "consumer" => C = <<>>
    BY KindsOnTheirQueue
  <1>2. Of(kind, Cat(c, m)) = Cat(C, M) /\ C \in Seq(AllEvents) /\ M \in Seq(AllEvents)
    BY <1>1, OfConcat, OfTyped
  <1> HIDE DEF C, M
  <1>3. Cat(C, M) = IF kind = "consumer" THEN C ELSE M
    BY <1>1, <1>2, CatNothing
  <1>4. Of(kind, OwnQueue(kind, c, m)) = IF kind = "consumer" THEN C ELSE M
    BY DEF OwnQueue, C, M
  <1> QED BY <1>2, <1>3, <1>4 DEF Cat

LEMMA EventLaneIs ==
  ASSUME NEW kind \in EventKinds, NEW f \in Seq(AllEvents), NEW s \in Seq(AllEvents),
         NEW c \in Seq(ConsumerEvents), NEW m \in Seq(MainEvents)
  PROVE  Of(kind, f \o s \o c \o m)
           = Cat(Of(kind, f), Cat(Of(kind, s), Of(kind, OwnQueue(kind, c, m))))
  <1> DEFINE cm == Cat(c, m)
             scm == Cat(s, cm)
  <1>1. c \in Seq(AllEvents) /\ m \in Seq(AllEvents)
    BY KindsOnTheirQueue
  <1>2. Of(kind, cm) = Of(kind, OwnQueue(kind, c, m)) /\ cm \in Seq(AllEvents)
    BY <1>1, EventSourceIs, CatTyped DEF Cat
  <1> HIDE DEF cm
  <1>3. Of(kind, scm) = Cat(Of(kind, s), Of(kind, cm)) /\ scm \in Seq(AllEvents)
    BY <1>2, OfConcat
  <1> HIDE DEF scm
  <1>4. Of(kind, Cat(f, scm)) = Cat(Of(kind, f), Of(kind, scm))
    BY <1>3, OfConcat
  <1>5. f \o s \o c \o m = Cat(f, scm)
    <2>1. Cat(f, s) \in Seq(AllEvents) /\ Cat(s, c) \in Seq(AllEvents)
      BY <1>1, CatTyped
    <2>2. Cat(Cat(Cat(f, s), c), m) = Cat(Cat(f, s), cm)
      BY <1>1, <2>1, CatAssociates DEF cm
    <2>3. Cat(Cat(f, s), cm) = Cat(f, scm)
      BY <1>2, CatAssociates DEF scm
    <2> QED BY <2>2, <2>3 DEF Cat
  <1> QED BY <1>2, <1>3, <1>4, <1>5

(* What may happen to such a lane, of parts f, s and x, with y to come.    *)
LEMMA LaneSends ==
  ASSUME NEW T, NEW f \in Seq(T), NEW s \in Seq(T), NEW x \in Seq(T), NEW p \in Seq(T),
         NEW y \in Seq(T), NEW r
  PROVE  Moves(T, Cat(p, y), Cat(f, Cat(s, x)), r, y, Cat(f, Cat(s, Cat(x, p))), r)
  <1> DEFINE sx == Cat(s, x)
             q == Cat(f, sx)
  <1>1. sx \in Seq(T)
    BY CatTyped
  <1>2. Cat(s, Cat(x, p)) = Cat(sx, p)
    BY CatAssociates
  <1> HIDE DEF sx
  <1>3. Cat(f, Cat(sx, p)) = Cat(q, p)
    BY <1>1, CatAssociates
  <1> HIDE DEF q
  <1> QED BY <1>2, <1>3 DEF Moves, q, sx

LEMMA LaneWrites ==
  ASSUME NEW T, NEW f \in Seq(T), NEW s \in Seq(T), NEW x \in Seq(T), NEW p \in Seq(T)
  PROVE  Cat(Cat(f, p), Cat(s, x)) = Cat(f, Cat(Cat(p, s), x))
  <1>1. Cat(s, x) \in Seq(T) /\ Cat(Cat(p, s), x) = Cat(p, Cat(s, x))
    BY CatTyped, CatAssociates
  <1>2. Cat(Cat(f, p), Cat(s, x)) = Cat(f, Cat(p, Cat(s, x)))
    BY <1>1, CatAssociates
  <1> QED BY <1>1, <1>2

LEMMA LaneReturns ==
  ASSUME NEW T, NEW f \in Seq(T), NEW w \in Seq(T), NEW r, NEW y
  PROVE  Moves(T, y, Cat(f, w), r, y, Cat(<<>>, w), Cat(r, f))
  <1>1. Cat(<<>>, w) = w
    BY CatNothing
  <1> QED BY <1>1 DEF Moves

EventLane(kind) ==
  Cat(Of(kind, frameOut), Cat(Of(kind, stash), Of(kind, OwnQueue(kind, consumerQ, mainQ))))
EventSource(kind) == Of(kind, OwnQueue(kind, coming, mainComing))
EventMoves(kind) ==
  Moves(AllEvents, EventSource(kind), EventLane(kind), Of(kind, events),
        EventSource(kind)', EventLane(kind)', Of(kind, events)')

LEMMA EventQueues ==
  ASSUME Inv, OrderInv, NEW kind \in EventKinds
  PROVE  /\ coming \in Seq(ConsumerEvents) /\ mainComing \in Seq(MainEvents)
         /\ consumerQ \in Seq(ConsumerEvents) /\ mainQ \in Seq(MainEvents)
         /\ frameOut \in Seq(AllEvents) /\ stash \in Seq(AllEvents) /\ events \in Seq(AllEvents)
         /\ coming \in Seq(AllEvents) /\ mainComing \in Seq(AllEvents)
         /\ consumerQ \in Seq(AllEvents) /\ mainQ \in Seq(AllEvents)
         /\ Of(kind, frameOut) \in Seq(AllEvents) /\ Of(kind, stash) \in Seq(AllEvents)
         /\ Of(kind, OwnQueue(kind, consumerQ, mainQ)) \in Seq(AllEvents)
         /\ EventSource(kind) \in Seq(AllEvents) /\ Of(kind, events) \in Seq(AllEvents)
  <1>1. /\ coming \in Seq(ConsumerEvents) /\ mainComing \in Seq(MainEvents)
        /\ consumerQ \in Seq(ConsumerEvents) /\ mainQ \in Seq(MainEvents)
    BY DEF OrderInv, KindsApart
  <1>2. /\ coming \in Seq(AllEvents) /\ mainComing \in Seq(AllEvents)
        /\ consumerQ \in Seq(AllEvents) /\ mainQ \in Seq(AllEvents)
        /\ OwnQueue(kind, consumerQ, mainQ) \in Seq(AllEvents)
        /\ OwnQueue(kind, coming, mainComing) \in Seq(AllEvents)
    BY <1>1, KindsOnTheirQueue
  <1>3. frameOut \in Seq(AllEvents) /\ stash \in Seq(AllEvents) /\ events \in Seq(AllEvents)
    <2>1. Items \subseteq AllEvents
      BY DEF Items
    <2> QED BY <2>1, SeqMonotonic DEF Inv, Typed, EventsTyped, OrderInv, Delivered
  <1> QED BY <1>1, <1>2, <1>3, OfTyped DEF EventSource

LEMMA EventsStay ==
  ASSUME Inv, OrderInv, NEW kind \in EventKinds,
         EventSource(kind)' = EventSource(kind), EventLane(kind)' = EventLane(kind),
         Of(kind, events)' = Of(kind, events)
  PROVE  EventMoves(kind)
  <1>1. EventSource(kind) \in Seq(AllEvents) /\ EventLane(kind) \in Seq(AllEvents)
    BY EventQueues, CatTyped DEF EventLane
  <1> QED BY <1>1, Rests DEF EventMoves

-----------------------------------------------------------------------------
(* The steps of these lanes.                                               *)
Own(kind) == Of(kind, OwnQueue(kind, consumerQ, mainQ))

LEMMA PickedIs ==
  ASSUME NEW kind, NEW event
  PROVE  event.kind # kind => Picked(kind, event) = <<>>
  BY DEF Picked

LEMMA EventsEnqueued ==
  ASSUME Inv, OrderInv, NEW kind \in EventKinds, Enqueue
  PROVE  EventMoves(kind)
  <1>1. /\ UNCHANGED <<stash, frameOut, events>>
        /\ \/ /\ coming # <<>> /\ UNCHANGED <<mainComing, mainQ>>
              /\ consumerQ' = Append(consumerQ, Head(coming)) /\ coming' = Tail(coming)
           \/ /\ mainComing # <<>> /\ UNCHANGED <<coming, consumerQ>>
              /\ mainQ' = Append(mainQ, Head(mainComing)) /\ mainComing' = Tail(mainComing)
    BY DEF Enqueue, caller, received
  <1>2. ASSUME NEW c \in Seq(AllEvents), c # <<>>, NEW queue \in Seq(AllEvents),
               EventSource(kind) = Of(kind, c), EventSource(kind)' = Of(kind, Tail(c)),
               Own(kind) = Of(kind, queue), Own(kind)' = Of(kind, Append(queue, Head(c)))
        PROVE  EventMoves(kind)
    <2> DEFINE p == Picked(kind, Head(c))
               y == Of(kind, Tail(c))
               f == Of(kind, frameOut)
               s == Of(kind, stash)
               x == Of(kind, queue)
    <2>1. Tail(c) \in Seq(AllEvents) /\ Head(c) \in AllEvents
      BY <1>2, TailTyped
    <2>2. Of(kind, c) = Cat(p, y) /\ p \in Seq(AllEvents) /\ y \in Seq(AllEvents)
      BY <1>2, <2>1, OfHead, OfTyped
    <2>3. Of(kind, Append(queue, Head(c))) = Cat(x, p) /\ x \in Seq(AllEvents)
      BY <1>2, <2>1, OfAppend, OfTyped
    <2>4. f \in Seq(AllEvents) /\ s \in Seq(AllEvents)
      BY EventQueues
    <2>5. EventLane(kind) = Cat(f, Cat(s, x)) /\ EventLane(kind)' = Cat(f, Cat(s, Cat(x, p)))
      BY <1>1, <1>2, <2>3 DEF EventLane, Own
    <2>6. Of(kind, events)' = Of(kind, events)
      BY <1>1
    <2> HIDE DEF p, y, f, s, x
    <2>7. Moves(AllEvents, Cat(p, y), Cat(f, Cat(s, x)), Of(kind, events),
                y, Cat(f, Cat(s, Cat(x, p))), Of(kind, events))
      BY <2>2, <2>3, <2>4, LaneSends
    <2>8. EventSource(kind)' = y
      BY <1>2 DEF y
    <2> QED BY <1>2, <2>2, <2>5, <2>6, <2>7, <2>8 DEF EventMoves
  <1>3. CASE kind = "consumer" /\ coming # <<>> /\ consumerQ' = Append(consumerQ, Head(coming))
             /\ coming' = Tail(coming)
    BY <1>2, <1>3, EventQueues DEF EventSource, Own, OwnQueue
  <1>4. CASE kind # "consumer" /\ mainComing # <<>> /\ mainQ' = Append(mainQ, Head(mainComing))
             /\ mainComing' = Tail(mainComing)
    BY <1>2, <1>4, EventQueues DEF EventSource, Own, OwnQueue
  <1>5. CASE \/ kind = "consumer" /\ UNCHANGED <<coming, consumerQ>>
             \/ kind # "consumer" /\ UNCHANGED <<mainComing, mainQ>>
    BY <1>1, <1>5, EventsStay DEF EventSource, EventLane, OwnQueue
  <1> QED BY <1>1, <1>3, <1>4, <1>5

(* An event leaves its queue.                                              *)
LEMMA TakenConsumer ==
  ASSUME Inv, OrderInv, NEW kind \in EventKinds,
         consumerQ # <<>>, consumerQ' = Tail(consumerQ), UNCHANGED mainQ
  PROVE  /\ Own(kind) = Cat(Picked(kind, Head(consumerQ)), Own(kind)')
         /\ Picked(kind, Head(consumerQ)) \in Seq(AllEvents) /\ Own(kind)' \in Seq(AllEvents)
         /\ Head(consumerQ) \in ConsumerEvents /\ Head(consumerQ) \in AllEvents
  <1>1. consumerQ \in Seq(ConsumerEvents) /\ consumerQ \in Seq(AllEvents) /\ mainQ \in Seq(AllEvents)
    BY EventQueues
  <1>2. Head(consumerQ) \in ConsumerEvents
    BY <1>1, TailTyped
  <1>3. Head(consumerQ) \in AllEvents /\ Tail(consumerQ) \in Seq(AllEvents)
    BY <1>1, TailTyped
  <1>4. /\ Of(kind, consumerQ) = Cat(Picked(kind, Head(consumerQ)), Of(kind, Tail(consumerQ)))
        /\ Picked(kind, Head(consumerQ)) \in Seq(AllEvents)
        /\ Of(kind, Tail(consumerQ)) \in Seq(AllEvents) /\ Of(kind, mainQ) \in Seq(AllEvents)
    BY <1>1, <1>3, OfHead, OfTyped
  <1>5. CASE kind = "consumer"
    BY <1>2, <1>3, <1>4, <1>5 DEF Own, OwnQueue
  <1>6. CASE kind # "consumer"
    <2>1. Picked(kind, Head(consumerQ)) = <<>>
      BY <1>2, <1>6, ScriptKinds, PickedIs DEF EventKinds
    <2>2. Own(kind) = Of(kind, mainQ) /\ Own(kind)' = Of(kind, mainQ)
      BY <1>6 DEF Own, OwnQueue
    <2>3. Of(kind, mainQ) = Cat(<<>>, Of(kind, mainQ))
      BY <1>4, CatNothing
    <2> QED BY <1>2, <1>3, <1>4, <2>1, <2>2, <2>3
  <1> QED BY <1>5, <1>6

LEMMA TakenMain ==
  ASSUME Inv, OrderInv, NEW kind \in EventKinds,
         mainQ # <<>>, mainQ' = Tail(mainQ), UNCHANGED consumerQ
  PROVE  /\ Own(kind) = Cat(Picked(kind, Head(mainQ)), Own(kind)')
         /\ Picked(kind, Head(mainQ)) \in Seq(AllEvents) /\ Own(kind)' \in Seq(AllEvents)
         /\ Head(mainQ) \in MainEvents /\ Head(mainQ) \in AllEvents
  <1>1. mainQ \in Seq(MainEvents) /\ consumerQ \in Seq(AllEvents) /\ mainQ \in Seq(AllEvents)
    BY EventQueues
  <1>2. Head(mainQ) \in MainEvents
    BY <1>1, TailTyped
  <1>3. Head(mainQ) \in AllEvents /\ Tail(mainQ) \in Seq(AllEvents)
    BY <1>1, TailTyped
  <1>4. /\ Of(kind, mainQ) = Cat(Picked(kind, Head(mainQ)), Of(kind, Tail(mainQ)))
        /\ Picked(kind, Head(mainQ)) \in Seq(AllEvents)
        /\ Of(kind, Tail(mainQ)) \in Seq(AllEvents) /\ Of(kind, consumerQ) \in Seq(AllEvents)
    BY <1>1, <1>3, OfHead, OfTyped
  <1>5. CASE kind # "consumer"
    BY <1>2, <1>3, <1>4, <1>5 DEF Own, OwnQueue
  <1>6. CASE kind = "consumer"
    <2>1. Picked(kind, Head(mainQ)) = <<>>
      BY <1>2, <1>6, ScriptKinds, PickedIs
    <2>2. Own(kind) = Of(kind, consumerQ) /\ Own(kind)' = Of(kind, consumerQ)
      BY <1>6 DEF Own, OwnQueue
    <2>3. Of(kind, consumerQ) = Cat(<<>>, Of(kind, consumerQ))
      BY <1>4, CatNothing
    <2> QED BY <1>2, <1>3, <1>4, <2>1, <2>2, <2>3
  <1> QED BY <1>5, <1>6

(* ... for the stash, or to be destroyed,                                  *)
LEMMA TakenRest ==
  ASSUME Inv, OrderInv, NEW kind \in EventKinds, NEW event \in AllEvents,
         Own(kind) = Cat(Picked(kind, event), Own(kind)'), Own(kind)' \in Seq(AllEvents),
         \/ stash' = Stashed(event)
         \/ UNCHANGED stash /\ Picked(kind, event) = <<>>
  PROVE  /\ Cat(Of(kind, stash)', Own(kind)') = Cat(Of(kind, stash), Own(kind))
         /\ Cat(Of(kind, stash), Own(kind)) \in Seq(AllEvents)
  <1> DEFINE p == Picked(kind, event)
             s == Of(kind, stash)
             x == Own(kind)'
  <1>1. stash \in Seq(AllEvents) /\ s \in Seq(AllEvents) /\ Own(kind) \in Seq(AllEvents)
    BY EventQueues DEF Own
  <1>2. p \in Seq(AllEvents)
    BY PickingIs DEF Picked
  <1>3. CASE stash' = Stashed(event)
    <2>1. Of(kind, stash)' = Cat(s, p)
      BY <1>1, <1>3, OfAppend DEF Stashed
    <2> HIDE DEF p, s, x
    <2>2. Cat(Cat(s, p), x) = Cat(s, Cat(p, x))
      BY <1>1, <1>2, CatAssociates DEF x
    <2> QED BY <1>1, <2>1, <2>2, CatTyped DEF p, s, x
  <1>4. CASE UNCHANGED stash /\ p = <<>>
    BY <1>1, <1>4, CatNothing, CatTyped
  <1> QED BY <1>3, <1>4

LEMMA EventsTaken ==
  ASSUME Inv, OrderInv, NEW kind \in EventKinds, NEW event \in AllEvents,
         Own(kind) = Cat(Picked(kind, event), Own(kind)'), Own(kind)' \in Seq(AllEvents),
         \/ stash' = Stashed(event)
         \/ UNCHANGED stash /\ Picked(kind, event) = <<>>,
         UNCHANGED <<coming, mainComing>>,
         \/ UNCHANGED <<frameOut, events>>
         \/ EventsReturn
  PROVE  EventMoves(kind)
  <1> DEFINE rest == Cat(Of(kind, stash), Own(kind))
             f == Of(kind, frameOut)
             r == Of(kind, events)
  <1>1. Cat(Of(kind, stash)', Own(kind)') = rest /\ rest \in Seq(AllEvents)
    BY TakenRest
  <1>2. EventLane(kind) = Cat(f, rest) /\ EventLane(kind)' = Cat(Of(kind, frameOut)', rest)
    BY <1>1 DEF EventLane, Own
  <1>3. EventSource(kind)' = EventSource(kind)
    BY DEF EventSource
  <1>4. CASE UNCHANGED <<frameOut, events>>
    BY <1>2, <1>3, <1>4, EventsStay
  <1>5. CASE EventsReturn
    <2>1. frameOut \in Seq(AllEvents) /\ events \in Seq(AllEvents) /\ f \in Seq(AllEvents)
      BY EventQueues
    <2>2. events' = Cat(events, frameOut) /\ frameOut' = <<>>
      BY <1>5 DEF EventsReturn, Cat
    <2>3. Of(kind, events)' = Cat(r, f)
      BY <2>1, <2>2, OfConcat
    <2>4. Of(kind, frameOut)' = <<>>
      <3>1. <<>> \in Seq(AllEvents)
        OBVIOUS
      <3> QED BY <2>2, <3>1, OfTyped
    <2>5. EventLane(kind)' = Cat(<<>>, rest)
      BY <1>2, <2>4
    <2> HIDE DEF rest, f, r
    <2>6. Moves(AllEvents, EventSource(kind), Cat(f, rest), r, EventSource(kind), Cat(<<>>, rest), Cat(r, f))
      BY <1>1, <2>1, LaneReturns
    <2> QED BY <1>2, <1>3, <2>3, <2>5, <2>6 DEF EventMoves, r
  <1> QED BY <1>4, <1>5

(* ... or from main_q for the frame at once, past an empty lane.           *)
LEMMA EventsPassed ==
  ASSUME Inv, OrderInv, NEW kind \in EventKinds, NEW event \in AllEvents,
         Own(kind) = Cat(Picked(kind, event), Own(kind)'), Own(kind)' \in Seq(AllEvents),
         Picked(kind, event) = <<>> \/ Of(kind, stash) = <<>>,
         frameOut' = Append(frameOut, event),
         UNCHANGED <<coming, mainComing, stash, events>>
  PROVE  EventMoves(kind)
  <1> DEFINE p == Picked(kind, event)
             s == Of(kind, stash)
             f == Of(kind, frameOut)
             x == Own(kind)'
  <1>1. /\ frameOut \in Seq(AllEvents) /\ s \in Seq(AllEvents) /\ f \in Seq(AllEvents)
        /\ p \in Seq(AllEvents) /\ x \in Seq(AllEvents)
    BY EventQueues DEF Picked
  <1>2. Of(kind, frameOut)' = Cat(f, p)
    BY <1>1, OfAppend
  <1>3. EventLane(kind) = Cat(f, Cat(s, Cat(p, x))) /\ EventLane(kind)' = Cat(Cat(f, p), Cat(s, x))
    BY <1>2 DEF EventLane, Own
  <1>4. p = <<>> \/ s = <<>>
    OBVIOUS
  <1> HIDE DEF p, s, f, x
  <1>5. Cat(Cat(f, p), Cat(s, x)) = Cat(f, Cat(Cat(p, s), x))
    BY <1>1, LaneWrites
  <1>6. Cat(Cat(p, s), x) = Cat(s, Cat(p, x))
    <2>1. Cat(p, x) \in Seq(AllEvents)
      BY <1>1, CatTyped
    <2>2. CASE p = <<>>
      BY <1>1, <2>2, CatNothing
    <2>3. CASE s = <<>>
      BY <1>1, <2>1, <2>3, CatNothing
    <2> QED BY <1>4, <2>2, <2>3
  <1>7. EventLane(kind)' = EventLane(kind)
    BY <1>3, <1>5, <1>6
  <1> QED BY <1>7, EventsStay DEF EventSource

LEMMA EventsPolled ==
  ASSUME Inv, OrderInv, NEW kind \in EventKinds, PollConsumerQueue
  PROVE  EventMoves(kind)
  <1> DEFINE event == Head(consumerQ)
  <1>1. /\ consumerQ # <<>> /\ consumerQ' = Tail(consumerQ)
        /\ UNCHANGED <<coming, mainComing, mainQ, frameOut, events>>
        /\ TakeFetch(event) \/ TakeEof(event) \/ TakeOther(event)
    BY DEF PollConsumerQueue, caller, received
  <1>2. /\ Own(kind) = Cat(Picked(kind, event), Own(kind)') /\ Own(kind)' \in Seq(AllEvents)
        /\ event \in AllEvents
    BY <1>1, TakenConsumer
  <1> HIDE DEF event
  <1>3. \/ stash' = Stashed(event)
        \/ UNCHANGED stash /\ event.kind \in {"fetch", "eof", "ignored"}
    BY <1>1 DEF TakeFetch, TakeEof, TakeOther, Forwarded
  <1>4. event.kind \in {"fetch", "eof", "ignored"} => Picked(kind, event) = <<>>
    BY PickedIs DEF EventKinds
  <1> QED BY <1>1, <1>2, <1>3, <1>4, EventsTaken

LEMMA EventsReturned ==
  ASSUME Inv, OrderInv, NEW kind \in EventKinds, EventsReturn, UNCHANGED <<queues, stash>>
  PROVE  EventMoves(kind)
  <1> DEFINE s == Of(kind, stash)
             x == Own(kind)
             f == Of(kind, frameOut)
             r == Of(kind, events)
             rest == Cat(s, x)
  <1>1. /\ frameOut \in Seq(AllEvents) /\ events \in Seq(AllEvents) /\ f \in Seq(AllEvents)
        /\ s \in Seq(AllEvents) /\ x \in Seq(AllEvents)
    BY EventQueues DEF Own
  <1>2. events' = Cat(events, frameOut) /\ frameOut' = <<>>
    BY DEF EventsReturn, Cat
  <1>3. Of(kind, events)' = Cat(r, f)
    BY <1>1, <1>2, OfConcat
  <1>4. Of(kind, frameOut)' = <<>>
    <2>1. <<>> \in Seq(AllEvents)
      OBVIOUS
    <2> QED BY <1>2, <2>1, OfTyped
  <1>5. EventLane(kind) = Cat(f, rest) /\ EventLane(kind)' = Cat(<<>>, rest)
        /\ EventSource(kind)' = EventSource(kind)
    BY <1>4 DEF EventLane, EventSource, Own, queues
  <1> HIDE DEF s, x, f, r
  <1>6. rest \in Seq(AllEvents)
    BY <1>1, CatTyped
  <1> HIDE DEF rest
  <1>7. Moves(AllEvents, EventSource(kind), Cat(f, rest), r, EventSource(kind), Cat(<<>>, rest), Cat(r, f))
    BY <1>1, <1>6, LaneReturns
  <1> QED BY <1>3, <1>5, <1>7 DEF EventMoves, r

LEMMA EventsFromStash ==
  ASSUME Inv, OrderInv, NEW kind \in EventKinds, PollStash
  PROVE  EventMoves(kind)
  <1>1. UNCHANGED queues
    BY DEF PollStash
  <1>2. CASE UNCHANGED <<frameOut, stash, events>>
    BY <1>1, <1>2, EventsStay DEF EventSource, EventLane, queues
  <1>3. CASE EventsReturn /\ UNCHANGED stash
    BY <1>1, <1>3, EventsReturned
  <1>4. CASE /\ stash # <<>> /\ UNCHANGED events
             /\ frameOut' = Append(frameOut, Head(stash)) /\ stash' = Tail(stash)
    <2> DEFINE p == Picked(kind, Head(stash))
               s == Of(kind, stash)'
               f == Of(kind, frameOut)
               x == Own(kind)
    <2>1. /\ frameOut \in Seq(AllEvents) /\ stash \in Seq(AllEvents)
          /\ f \in Seq(AllEvents) /\ x \in Seq(AllEvents)
      BY EventQueues DEF Own
    <2>2. Head(stash) \in AllEvents /\ Tail(stash) \in Seq(AllEvents)
      BY <1>4, <2>1, TailTyped
    <2>3. Of(kind, stash) = Cat(p, s) /\ p \in Seq(AllEvents) /\ s \in Seq(AllEvents)
      BY <1>4, <2>1, <2>2, OfHead, OfTyped
    <2>4. Of(kind, frameOut)' = Cat(f, p)
      BY <1>4, <2>1, <2>2, OfAppend
    <2>5. Own(kind)' = x /\ EventSource(kind)' = EventSource(kind)
      BY <1>1 DEF Own, EventSource, queues
    <2>6. EventLane(kind) = Cat(f, Cat(Cat(p, s), x)) /\ EventLane(kind)' = Cat(Cat(f, p), Cat(s, x))
      BY <2>3, <2>4, <2>5 DEF EventLane, Own
    <2> HIDE DEF p, s, f, x
    <2>7. Cat(Cat(f, p), Cat(s, x)) = Cat(f, Cat(Cat(p, s), x))
      BY <2>1, <2>3, LaneWrites
    <2>8. EventLane(kind)' = EventLane(kind)
      BY <2>6, <2>7
    <2> QED BY <1>4, <2>5, <2>8, EventsStay
  <1> QED BY <1>2, <1>3, <1>4 DEF PollStash

LEMMA EventsFromMain ==
  ASSUME Inv, OrderInv, NEW kind \in EventKinds, PollMain
  PROVE  EventMoves(kind)
  <1>0. UNCHANGED <<coming, mainComing, consumerQ>> /\ js = "main"
    BY DEF PollMain
  <1>1. CASE EventsReturn /\ UNCHANGED <<mainQ, stash>>
    BY <1>0, <1>1, EventsReturned DEF queues
  <1>2. CASE ~Full /\ mainQ # <<>> /\ mainQ' = Tail(mainQ)
    <2> DEFINE event == Head(mainQ)
    <2>1. /\ Own(kind) = Cat(Picked(kind, event), Own(kind)') /\ Own(kind)' \in Seq(AllEvents)
          /\ event \in AllEvents /\ event \in MainEvents
      BY <1>0, <1>2, TakenMain
    <2>2. \/ /\ event.kind # "throttle" /\ ~Forwarded(event)
             /\ UNCHANGED <<frameOut, events, stash>>
          \/ stash' = Stashed(event) /\ UNCHANGED <<frameOut, events>>
          \/ stash' = Stashed(event) /\ EventsReturn
          \/ /\ Forwarded(event) /\ frameOut' = Append(frameOut, event)
             /\ UNCHANGED <<events, stash>>
      BY <1>2 DEF PollMain, Full
    <2> HIDE DEF event
    <2>3. CASE event.kind # "throttle" /\ ~Forwarded(event) /\ UNCHANGED <<frameOut, events, stash>>
      <3>1. event.kind # kind
        BY <2>3 DEF Forwarded, EventKinds
      <3> QED BY <1>0, <2>1, <2>3, <3>1, PickedIs, EventsTaken
    <2>4. CASE stash' = Stashed(event) /\ (UNCHANGED <<frameOut, events>> \/ EventsReturn)
      BY <1>0, <2>1, <2>4, EventsTaken
    <2>5. CASE Forwarded(event) /\ frameOut' = Append(frameOut, event) /\ UNCHANGED <<events, stash>>
      <3>1. event.kind = "main"
        BY <2>1, <2>5, ScriptKinds DEF Forwarded
      <3>2. CASE kind # "main"
        BY <1>0, <2>1, <2>5, <3>1, <3>2, PickedIs, EventsPassed
      <3>3. CASE kind = "main"
        <4> DEFINE S == {e \in AllEvents : e.kind # "main"}
        <4>1. \A i \in 1..Len(stash) : stash[i].kind # "main"
          BY <1>0, <1>2 DEF OrderInv, MainInOrder
        <4>2. stash \in Seq(AllEvents)
          BY EventQueues
        <4>3. stash \in Seq(S)
          <5>1. \A i \in 1..Len(stash) : stash[i] \in S
            BY <4>1, <4>2
          <5> QED BY <4>2, <5>1
        <4>4. S \subseteq AllEvents /\ \A e \in S : e.kind # kind
          BY <3>3
        <4> HIDE DEF S
        <4>5. Of(kind, stash) = <<>>
          BY <4>3, <4>4, OfNothing
        <4> QED BY <1>0, <2>1, <2>5, <4>5, EventsPassed
      <3> QED BY <3>2, <3>3
    <2> QED BY <2>2, <2>3, <2>4, <2>5
  <1> QED BY <1>1, <1>2 DEF PollMain

LEMMA EventsMove ==
  ASSUME Inv, OrderInv, NEW kind \in EventKinds, [Next]_vars
  PROVE  EventMoves(kind)
  <1>1. CASE UNCHANGED <<queues, stash, frameOut, events>>
    BY <1>1, EventsStay DEF EventSource, EventLane, queues
  <1>2. CASE Enqueue \/ PollConsumerQueue \/ PollStash \/ PollMain
    BY <1>2, EventsEnqueued, EventsPolled, EventsFromStash, EventsFromMain
  <1>3. CASE Destroy \/ GroupCloses \/ UNCHANGED vars
    BY <1>1, <1>3 DEF Destroy, GroupCloses, caller, received, vars
  <1>4. CASE FillEnter \/ SerializeMessage \/ FillDone
    BY <1>1, <1>4 DEF FillEnter, SerializeMessage, FillDone, caller, received
  <1>5. CASE PrefetchTop \/ PrefetchGrow \/ PrefetchPublish
    BY <1>1, <1>5 DEF PrefetchTop, PrefetchGrow, PrefetchPublish, caller, received
  <1>6. CASE PollEvents
    <2>1. frameOut = <<>>
      BY <1>6 DEF PollEvents, OrderInv, Kept
    <2> QED BY <1>1, <1>6, <2>1 DEF PollEvents, received
  <1>7. CASE GrowEvents \/ ConsumeBatch \/ TakeFrame \/ CopyFrame \/ GrowConsume \/ JsFillEnds \/ Failed
             \/ Join \/ CloseConsumer
    BY <1>1, <1>7 DEF GrowEvents, ConsumeBatch, TakeFrame, CopyFrame, GrowConsume, JsFillEnds, Failed,
                      Join, CloseConsumer, received
  <1> QED BY <1>2, <1>3, <1>4, <1>5, <1>6, <1>7 DEF Next, PrefetchThread, JsThread, ConsumeFill

-----------------------------------------------------------------------------
(* The lane of the records: what is written and not yet handed over, what  *)
(* is left of the batch at hand, and the batches after it.                 *)
OnWay == Cat(Cat(RingOf(frames, head, ready), fill.out), pending)
RecordLane == Cat(KnownIn(names, OnWay), Cat(Labels(curFetch), Named(consumerQ)))
RecordMoves ==
  Moves(Label, Named(coming), RecordLane, got, Named(coming)', RecordLane', got')

LEMMA OnWayTyped ==
  ASSUME Inv, OrderInv
  PROVE  /\ names \in Seq(Topics) /\ Holds(frames, Written(names))
         /\ RingOf(frames, head, ready) \in Seq(Written(names))
         /\ fill.out \in Seq(Written(names)) /\ pending \in Seq(Written(names))
         /\ OnWay \in Seq(Written(names))
  <1>1. /\ names \in Seq(Topics) /\ Holds(frames, Written(names))
        /\ fill.out \in Seq(Written(names)) /\ pending \in Seq(Written(names))
    BY DEF OrderInv, Interning
  <1>2. RingOf(frames, head, ready) \in Seq(Written(names))
    <2>1. head \in 0..NFrames-1 /\ ready \in 0..NFrames
      BY DEF Inv, RingInv, Shapes
    <2> QED BY <1>1, <2>1, RingOfTyped
  <1> QED BY <1>1, <1>2, CatTyped DEF OnWay

LEMMA RecordParts ==
  ASSUME Inv, OrderInv
  PROVE  /\ KnownIn(names, OnWay) \in Seq(Label)
         /\ curFetch \in Seq(AllRecords) /\ Labels(curFetch) \in Seq(Label)
         /\ consumerQ \in Seq(ConsumerEvents) /\ consumerQ \in Seq(AllEvents)
         /\ coming \in Seq(ConsumerEvents) /\ coming \in Seq(AllEvents)
         /\ Named(consumerQ) \in Seq(Label) /\ Named(coming) \in Seq(Label)
         /\ RecordLane \in Seq(Label) /\ got \in Seq(Label)
  <1>1. KnownIn(names, OnWay) \in Seq(Label)
    BY OnWayTyped, KnownTyped
  <1>2. curFetch \in Seq(AllRecords) /\ Labels(curFetch) \in Seq(Label)
    BY LabelsTyped DEF Inv, Typed, RecordsTyped
  <1>3. /\ consumerQ \in Seq(ConsumerEvents) /\ consumerQ \in Seq(AllEvents)
        /\ coming \in Seq(ConsumerEvents) /\ coming \in Seq(AllEvents)
    BY ScriptKinds, SeqMonotonic DEF OrderInv, KindsApart
  <1>4. Named(consumerQ) \in Seq(Label) /\ Named(coming) \in Seq(Label)
    BY <1>3, NamedTyped
  <1>5. RecordLane \in Seq(Label)
    BY <1>1, <1>2, <1>4, CatTyped DEF RecordLane
  <1> QED BY <1>1, <1>2, <1>3, <1>4, <1>5 DEF OrderInv, Delivered

LEMMA RecordsStay ==
  ASSUME Inv, OrderInv, UNCHANGED <<coming, got>>, RecordLane' = RecordLane
  PROVE  RecordMoves
  BY RecordParts, Rests DEF RecordMoves

LEMMA NothingWritten ==
  ASSUME Inv, OrderInv, UNCHANGED <<coming, got, names, curFetch, consumerQ>>, OnWay' = OnWay
  PROVE  RecordMoves
  BY RecordsStay DEF RecordLane

LEMMA RecordsEnqueued ==
  ASSUME Inv, OrderInv, Enqueue
  PROVE  RecordMoves
  <1>1. UNCHANGED <<got, names, curFetch, pending, fill, frames, head, ready>>
    BY DEF Enqueue, filling, ring, received
  <1>2. OnWay' = OnWay
    BY <1>1 DEF OnWay
  <1>3. CASE /\ coming # <<>> /\ consumerQ' = Append(consumerQ, Head(coming))
             /\ coming' = Tail(coming)
    <2> DEFINE p == LabelsOf(Head(coming))
               y == Named(coming)'
               k == KnownIn(names, OnWay)
               l == Labels(curFetch)
               n == Named(consumerQ)
    <2>1. /\ coming \in Seq(AllEvents) /\ consumerQ \in Seq(AllEvents)
          /\ k \in Seq(Label) /\ l \in Seq(Label) /\ n \in Seq(Label)
      BY RecordParts
    <2>2. Tail(coming) \in Seq(AllEvents) /\ Head(coming) \in AllEvents
      BY <1>3, <2>1, TailTyped
    <2>3. Named(coming) = Cat(p, y) /\ p \in Seq(Label) /\ y \in Seq(Label)
      BY <1>3, <2>1, <2>2, NamedHead, NamedTyped
    <2>4. Named(consumerQ)' = Cat(n, p)
      BY <1>3, <2>1, <2>2, NamedAppend
    <2>5. RecordLane = Cat(k, Cat(l, n)) /\ RecordLane' = Cat(k, Cat(l, Cat(n, p)))
      BY <1>1, <1>2, <2>4 DEF RecordLane
    <2> HIDE DEF p, y, k, l, n
    <2>6. Moves(Label, Cat(p, y), Cat(k, Cat(l, n)), got, y, Cat(k, Cat(l, Cat(n, p))), got)
      BY <2>1, <2>3, LaneSends
    <2> QED BY <1>1, <2>3, <2>5, <2>6 DEF RecordMoves, y
  <1>4. CASE UNCHANGED <<coming, consumerQ>>
    BY <1>1, <1>2, <1>4, NothingWritten
  <1> QED BY <1>3, <1>4 DEF Enqueue

(* A record is written: the first of those before it.                      *)
LEMMA OnWayGrows ==
  ASSUME Inv, OrderInv, fill.phase = "loop", NEW r \in AllRecords, NEW record, NEW cached,
         Writes(r, record, cached), UNCHANGED <<frames, head, ready>>
  PROVE  KnownIn(names, OnWay)' = Cat(KnownIn(names, OnWay), <<[id |-> r.id, topic |-> r.topic]>>)
  <1> DEFINE W == Written(names')
             one == <<record>>
             o == Cat(fill.out, pending)
             ring0 == RingOf(frames, head, ready)
  <1>1. /\ Interning' /\ Extends(names, names')
        /\ Cat(fill'.out, pending') = Cat(o, one)
    BY WritesKeep
  <1>2. /\ names \in Seq(Topics) /\ ring0 \in Seq(Written(names))
        /\ fill.out \in Seq(Written(names)) /\ pending \in Seq(Written(names))
        /\ OnWay \in Seq(Written(names))
    BY OnWayTyped
  <1>3. /\ names' \in Seq(Topics) /\ fill'.out \in Seq(W) /\ pending' \in Seq(W)
        /\ record \in W /\ one \in Seq(W)
        /\ record.id = r.id /\ names'[record.tid] = r.topic
    BY <1>1 DEF Interning, Writes
  <1>4. Seq(Written(names)) \subseteq Seq(W)
    <2>1. Len(names) \in Nat /\ Len(names') \in Nat
      BY <1>2, <1>3
    <2> QED BY <1>1, <2>1, WrittenLater
  <1>5. ring0 \in Seq(W) /\ fill.out \in Seq(W) /\ pending \in Seq(W) /\ OnWay \in Seq(W)
        /\ o \in Seq(W)
    BY <1>2, <1>4, CatTyped
  <1>6. OnWay = Cat(ring0, o)
    BY <1>5, CatAssociates DEF OnWay
  <1>7. OnWay' = Cat(Cat(ring0, fill'.out), pending')
    BY DEF OnWay
  <1> HIDE DEF o, one, ring0, W
  <1>8. Cat(Cat(ring0, fill'.out), pending') = Cat(ring0, Cat(fill'.out, pending'))
    BY <1>3, <1>5, CatAssociates
  <1>9. Cat(ring0, Cat(o, one)) = Cat(Cat(ring0, o), one)
    BY <1>3, <1>5, CatAssociates
  <1>10. OnWay' = Cat(OnWay, one)
    BY <1>1, <1>6, <1>7, <1>8, <1>9
  <1>11. KnownIn(names', Cat(OnWay, one)) = Cat(KnownIn(names', OnWay), KnownIn(names', one))
    BY <1>3, <1>5, KnownCat DEF W
  <1>12. KnownIn(names', OnWay) = KnownIn(names, OnWay)
    BY <1>1, <1>2, <1>3, KnownLater
  <1>13. KnownIn(names', one) = <<[id |-> r.id, topic |-> r.topic]>>
    BY <1>3, KnownOne DEF one
  <1>14. KnownIn(names, OnWay)' = KnownIn(names', OnWay')
    OBVIOUS
  <1> QED BY <1>10, <1>11, <1>12, <1>13, <1>14

(* Hence the lane is what it was.                                          *)
LEMMA RecordWritten ==
  ASSUME Inv, OrderInv, fill.phase = "loop", NEW r \in AllRecords, NEW record, NEW cached,
         Writes(r, record, cached), UNCHANGED <<frames, head, ready, coming, got>>,
         [id |-> r.id, topic |-> r.topic] \in Label,
         NEW rest \in Seq(Label),
         Cat(Labels(curFetch), Named(consumerQ)) = Cat(<<[id |-> r.id, topic |-> r.topic]>>, rest),
         Cat(Labels(curFetch), Named(consumerQ))' = rest
  PROVE  RecordMoves
  <1> DEFINE one == <<[id |-> r.id, topic |-> r.topic]>>
             k == KnownIn(names, OnWay)
  <1>1. KnownIn(names, OnWay)' = Cat(k, one)
    BY OnWayGrows
  <1>2. one \in Seq(Label) /\ k \in Seq(Label)
    BY RecordParts
  <1>3. RecordLane = Cat(k, Cat(one, rest)) /\ RecordLane' = Cat(Cat(k, one), rest)
    BY <1>1 DEF RecordLane
  <1> HIDE DEF one, k
  <1>4. Cat(Cat(k, one), rest) = Cat(k, Cat(one, rest))
    BY <1>2, CatAssociates
  <1> QED BY <1>3, <1>4, RecordsStay

LEMMA RecordsFilled ==
  ASSUME Inv, OrderInv, ConsumeFill
  PROVE  RecordMoves
  <1>0. UNCHANGED <<frames, head, ready, coming, got>>
    BY DEF ConsumeFill, FillEnter, SerializeMessage, PollConsumerQueue, FillDone, queues, ring,
           received
  <1>1. DOMAIN fill = {"by", "phase", "out", "cached"}
    BY DEF Inv, RingInv, Shapes
  <1>2. CASE FillEnter
    <2>1. fill.out = <<>> /\ UNCHANGED <<names, curFetch, consumerQ>>
      BY <1>2 DEF FillEnter, OrderInv, Kept, queues
    <2>2. \/ UNCHANGED pending /\ fill'.out = fill.out
          \/ pending' = <<>> /\ fill'.out = pending
      BY <1>1, <1>2 DEF FillEnter
    <2> DEFINE ring0 == RingOf(frames, head, ready)
    <2>3. ring0 \in Seq(Written(names)) /\ pending \in Seq(Written(names))
      BY OnWayTyped
    <2>4. RingOf(frames, head, ready)' = ring0
      BY <1>0
    <2> HIDE DEF ring0
    <2>5. Cat(ring0, <<>>) = ring0 /\ Cat(Cat(ring0, pending), <<>>) = Cat(ring0, pending)
      <3>1. Cat(ring0, pending) \in Seq(Written(names))
        BY <2>3, CatTyped
      <3> QED BY <2>3, <3>1, CatNothing
    <2>6. OnWay' = OnWay
      BY <2>1, <2>2, <2>4, <2>5 DEF OnWay, ring0
    <2> QED BY <1>0, <2>1, <2>6, NothingWritten
  <1>3. CASE SerializeMessage
    <2> DEFINE r == Head(curFetch)
               one == <<[id |-> r.id, topic |-> r.topic]>>
               l == Labels(Tail(curFetch))
               n == Named(consumerQ)
    <2>1. /\ \E record, cached : Writes(r, record, cached)
          /\ r \in AllRecords /\ fill.phase = "loop"
          /\ curFetch # <<>> /\ curFetch' = Tail(curFetch) /\ UNCHANGED consumerQ
      BY <1>3, SerializeWrites DEF queues
    <2>2. curFetch \in Seq(AllRecords) /\ n \in Seq(Label) /\ Tail(curFetch) \in Seq(AllRecords)
      BY <2>1, RecordParts, TailTyped
    <2>3. /\ Labels(curFetch) = Cat(one, l) /\ [id |-> r.id, topic |-> r.topic] \in Label
          /\ l \in Seq(Label)
      BY <2>1, <2>2, LabelsHead, LabelsTyped
    <2>4. one \in Seq(Label)
      BY <2>3
    <2>5. Cat(Labels(curFetch), Named(consumerQ))' = Cat(l, n)
      BY <2>1
    <2> HIDE DEF one, l, n, r
    <2>6. Cat(Cat(one, l), n) = Cat(one, Cat(l, n)) /\ Cat(l, n) \in Seq(Label)
      BY <2>2, <2>3, <2>4, CatAssociates, CatTyped
    <2>7. Cat(Labels(curFetch), Named(consumerQ)) = Cat(one, Cat(l, n))
      BY <2>3, <2>6 DEF n
    <2> QED BY <1>0, <2>1, <2>3, <2>5, <2>6, <2>7, RecordWritten DEF one
  <1>4. CASE PollConsumerQueue
    <2> DEFINE event == Head(consumerQ)
               p == LabelsOf(event)
               n == Named(Tail(consumerQ))
    <2>1. /\ consumerQ # <<>> /\ consumerQ' = Tail(consumerQ) /\ curFetch = <<>> /\ fill.phase = "loop"
          /\ TakeFetch(event) \/ TakeEof(event) \/ TakeOther(event)
      BY <1>4 DEF PollConsumerQueue
    <2>2. consumerQ \in Seq(AllEvents) /\ consumerQ \in Seq(ConsumerEvents)
      BY RecordParts
    <2>3. Tail(consumerQ) \in Seq(AllEvents) /\ event \in ConsumerEvents
      BY <2>1, <2>2, TailTyped
    <2>4. Named(consumerQ) = Cat(p, n) /\ p \in Seq(Label) /\ n \in Seq(Label)
      BY <2>1, <2>2, <2>3, NamedHead, NamedTyped
    <2>5. Named(consumerQ)' = n
      BY <2>1
    <2>6. Labels(curFetch) = <<>>
      BY <2>1 DEF Labels
    <2> HIDE DEF event, n
    <2>7. Cat(<<>>, Cat(p, n)) = Cat(p, n) /\ Cat(<<>>, n) = n /\ Cat(p, n) \in Seq(Label)
      <3> HIDE DEF p
      <3>1. Cat(p, n) \in Seq(Label)
        BY <2>4, CatTyped
      <3> QED BY <2>4, <3>1, CatNothing
    <2>8. CASE TakeFetch(event)
      <3>1. Labels(curFetch)' = p /\ UNCHANGED <<names, fill, pending>>
        BY <2>8 DEF TakeFetch, LabelsOf
      <3>2. OnWay' = OnWay
        BY <1>0, <3>1 DEF OnWay
      <3>3. RecordLane' = RecordLane
        BY <2>4, <2>5, <2>6, <2>7, <3>1, <3>2 DEF RecordLane
      <3> QED BY <1>0, <3>3, RecordsStay
    <2>9. CASE TakeOther(event) \/ (TakeEof(event) /\ event.records = <<>>)
      <3>1. p = <<>> /\ UNCHANGED <<curFetch, names, fill, pending>>
        BY <2>9 DEF TakeOther, TakeEof, LabelsOf, Labels
      <3>2. OnWay' = OnWay
        BY <1>0, <3>1 DEF OnWay
      <3>3. Named(consumerQ) = n
        BY <2>4, <2>7, <3>1
      <3>4. RecordLane' = RecordLane
        BY <2>5, <3>1, <3>2, <3>3 DEF RecordLane
      <3> QED BY <1>0, <3>4, RecordsStay
    <2>10. CASE TakeEof(event) /\ event.records # <<>>
      <3> DEFINE r == Head(event.records)
                 one == <<[id |-> r.id, topic |-> r.topic]>>
      <3>1. /\ \E record, cached : Writes(r, record, cached)
            /\ event.records \in Seq(AllRecords) /\ r \in AllRecords
            /\ Tail(event.records) = <<>> /\ UNCHANGED curFetch
        BY <2>3, <2>10, EofWrites
      <3>2. /\ Labels(event.records) = Cat(one, Labels(Tail(event.records)))
            /\ [id |-> r.id, topic |-> r.topic] \in Label
        BY <2>10, <3>1, LabelsHead
      <3>3. Labels(Tail(event.records)) = <<>>
        <4>1. Labels(<<>>) = <<>>
          BY DEF Labels
        <4> QED BY <3>1, <4>1
      <3>4. one \in Seq(Label)
        BY <3>2
      <3>5. p = Labels(event.records)
        BY <2>10 DEF TakeEof, LabelsOf
      <3> HIDE DEF one, r, p
      <3>6. p = one
        BY <3>2, <3>3, <3>4, <3>5, CatNothing
      <3>7. Cat(Labels(curFetch), Named(consumerQ)) = Cat(one, n)
            /\ Cat(Labels(curFetch), Named(consumerQ))' = n
        BY <2>4, <2>5, <2>6, <2>7, <3>1, <3>6
      <3> QED BY <1>0, <2>1, <2>4, <3>1, <3>2, <3>7, RecordWritten DEF one
    <2> QED BY <2>1, <2>8, <2>9, <2>10
  <1>5. CASE FillDone
    <2>1. fill'.out = fill.out /\ UNCHANGED <<curFetch, pending, names, consumerQ>>
      BY <1>1, <1>5 DEF FillDone, queues
    <2>2. OnWay' = OnWay
      BY <1>0, <2>1 DEF OnWay
    <2> QED BY <1>0, <2>1, <2>2, NothingWritten
  <1> QED BY <1>2, <1>3, <1>4, <1>5 DEF ConsumeFill

(* A call of consume_fill() begins with an empty buffer, and is the only   *)
(* one under way.                                                          *)
LEMMA StartsEmpty ==
  ASSUME Inv, OrderInv, PrefetchTop \/ ConsumeBatch \/ GrowConsume
  PROVE  fill'.out = fill.out
  <1>1. \A by : StartFill(by).out = <<>>
    BY DEF StartFill, NoFill
  <1>2. CASE fill' = fill
    BY <1>2
  <1>3. CASE fill' # fill
    <2>1. /\ fill' = StartFill("prefetch") \/ fill' = StartFill("js")
          /\ \/ thread = "top"
             \/ js \in {"idle", "growConsume"} /\ ~enabled
      BY <1>3 DEF PrefetchTop, ConsumeBatch, GrowConsume
    <2>2. fill.by = "none"
      BY <2>1 DEF Inv, RingInv, Shapes, FillClaims
    <2>3. fill.out = <<>>
      BY <2>2 DEF OrderInv, Kept
    <2> QED BY <1>1, <2>1, <2>3
  <1> QED BY <1>2, <1>3

(* prefetch_main() puts the frame behind the others.                       *)
LEMMA RecordsPublished ==
  ASSUME Inv, OrderInv, PrefetchPublish
  PROVE  RecordMoves
  <1> DEFINE W == Written(names)
             ring0 == RingOf(frames, head, ready)
             o == fill.out
  <1>0. /\ UNCHANGED <<coming, got, names, curFetch, consumerQ, pending, head>>
        /\ thread = "filling" /\ fill' = NoFill
    BY DEF PrefetchPublish, queues, received
  <1>1. ring0 \in Seq(W) /\ o \in Seq(W) /\ pending \in Seq(W) /\ Holds(frames, W)
    BY OnWayTyped
  <1>2. fill'.out = <<>>
    BY <1>0 DEF NoFill
  <1>3. RingOf(frames, head, ready)' = Cat(ring0, o)
    <2>1. CASE o = <<>> /\ UNCHANGED <<frames, tail, ready>>
      <3>1. Cat(ring0, o) = ring0
        BY <1>1, <2>1, CatNothing
      <3> QED BY <1>0, <2>1, <3>1
    <2>2. CASE /\ frames' = [frames EXCEPT ![tail].out = fill.out]
               /\ ready' = ready + 1
      <3> DEFINE frame == [frames[tail] EXCEPT !.out = fill.out]
      <3>1. frames' = [frames EXCEPT ![tail] = frame]
        BY <2>2
      <3>2. frame.out = o /\ DOMAIN frames = 0..NFrames-1 /\ tail \in 0..NFrames-1
        BY DEF Inv, Typed, RingTyped, Frame, RingInv, Shapes
      <3> HIDE DEF frame
      <3>3. frames'[tail].out = o
        BY <3>1, <3>2
      <3>6. \A i \in 0..NFrames-1 : i # tail => frames'[i] = frames[i]
        BY <3>1, <3>2
      <3>4. /\ head \in 0..NFrames-1 /\ ready \in 0..NFrames-1
            /\ tail = head + ready \/ tail + NFrames = head + ready
        BY <1>0, ShimAssumption
           DEF ShimAssumption, Inv, RingInv, Shapes, RingCounts, FrameClaims
      <3> HIDE DEF W, o
      <3>5. RingOf(frames', head, ready + 1) = Cat(RingOf(frames, head, ready), o)
        <4>1. Filled(frames, frames', tail, o)
          BY <3>3, <3>6 DEF Filled
        <4>2. Behind(tail, head, ready)
          BY <3>4 DEF Behind
        <4>3. head \in 0..NFrames-1 /\ ready \in 0..NFrames-1 /\ tail \in 0..NFrames-1
          BY <3>2, <3>4
        <4> QED BY <1>1, <4>1, <4>2, <4>3, RingGrows
      <3> QED BY <1>0, <2>2, <3>5
    <2> QED BY <2>1, <2>2 DEF PrefetchPublish
  <1>4. OnWay' = Cat(Cat(Cat(ring0, o), <<>>), pending)
    BY <1>0, <1>2, <1>3 DEF OnWay
  <1>5. Cat(Cat(ring0, o), <<>>) = Cat(ring0, o)
    <2> HIDE DEF ring0, o
    <2>1. Cat(ring0, o) \in Seq(W)
      BY <1>1, CatTyped
    <2> QED BY <2>1, CatNothing
  <1>6. OnWay' = OnWay
    BY <1>4, <1>5 DEF OnWay
  <1> QED BY <1>0, <1>6, NothingWritten

(* The size of a frame is nothing to its records.                          *)
LEMMA RingSame ==
  ASSUME NEW fs, NEW gs, NEW h \in 0..NFrames-1, NEW n \in 0..NFrames,
         \A i \in 0..NFrames-1 : gs[i].out = fs[i].out
  PROVE  RingOf(gs, h, n) = RingOf(fs, h, n)
  <1>1. ASSUME NEW i \in 1..n PROVE gs[(h + i - 1) % NFrames].out = fs[(h + i - 1) % NFrames].out
    <2>1. i - 1 \in 0..NFrames /\ h + (i - 1) = h + i - 1
      BY ShimAssumption DEF ShimAssumption
    <2>2. (h + i - 1) % NFrames \in 0..NFrames-1
      BY <2>1, Wraps
    <2> QED BY <2>2
  <1>2. [i \in 1..n |-> gs[(h + i - 1) % NFrames].out] = [i \in 1..n |-> fs[(h + i - 1) % NFrames].out]
    BY <1>1
  <1> QED BY <1>2 DEF RingOf

LEMMA FrameGrown ==
  ASSUME Inv, OrderInv, PrefetchGrow
  PROVE  RecordMoves
  <1> DEFINE frame == [frames[tail] EXCEPT !.cap = Larger(@, lastRequired)]
  <1>1. /\ frames' = [frames EXCEPT ![tail] = frame]
        /\ UNCHANGED <<coming, got, names, curFetch, consumerQ, pending, head, ready>>
        /\ fill.out = <<>> /\ fill' = NoFill
    BY DEF PrefetchGrow, OrderInv, Kept, queues, received
  <1>2. frame.out = frames[tail].out /\ DOMAIN frames = 0..NFrames-1
        /\ head \in 0..NFrames-1 /\ ready \in 0..NFrames
    BY DEF Inv, Typed, RingTyped, Frame, RingInv, Shapes
  <1> HIDE DEF frame
  <1>3. \A i \in 0..NFrames-1 : frames'[i].out = frames[i].out
    BY <1>1, <1>2
  <1>4. RingOf(frames', head, ready) = RingOf(frames, head, ready)
    BY <1>2, <1>3, RingSame
  <1>5. OnWay' = OnWay
    BY <1>1, <1>4 DEF OnWay, NoFill
  <1> QED BY <1>1, <1>5, NothingWritten

(* A batch is handed over: the first of what is on its way.                *)
LEMMA RecordsReceived ==
  ASSUME Inv, OrderInv, NEW o \in Seq(Written(names)), Deliver(o),
         UNCHANGED <<coming, names, curFetch, consumerQ>>,
         OnWay = Cat(o, OnWay'), OnWay' \in Seq(Written(names))
  PROVE  RecordMoves
  <1> DEFINE p == KnownIn(names, o)
             k == KnownIn(names, OnWay')
             rest == Cat(Labels(curFetch), Named(consumerQ))
  <1>1. names \in Seq(Topics)
    BY OnWayTyped
  <1>2. p \in Seq(Label) /\ k \in Seq(Label) /\ KnownIn(names, OnWay) = Cat(p, k)
    BY <1>1, KnownTyped, KnownCat
  <1>3. rest \in Seq(Label)
    BY RecordParts, CatTyped
  <1>4. got' = Cat(got, p)
    BY DeliverIs
  <1>5. RecordLane = Cat(Cat(p, k), rest) /\ RecordLane' = Cat(k, rest)
    BY <1>2 DEF RecordLane
  <1> HIDE DEF p, k, rest
  <1>6. Cat(Cat(p, k), rest) = Cat(p, Cat(k, rest))
    BY <1>2, <1>3, CatAssociates
  <1> QED BY <1>2, <1>4, <1>5, <1>6 DEF RecordMoves, Moves

LEMMA FilledReceived ==
  ASSUME Inv, OrderInv, JsFillEnds
  PROVE  RecordMoves
  <1>1. /\ UNCHANGED <<coming, names, curFetch, consumerQ, pending, frames, head, ready>>
        /\ js = "filling" /\ fill' = NoFill
    BY DEF JsFillEnds, queues, ring
  <1>2. fill'.out = <<>>
    BY <1>1 DEF NoFill
  <1>3. CASE Deliver(fill.out)
    <2> DEFINE W == Written(names)
               ring0 == RingOf(frames, head, ready)
    <2>1. fill.out \in Seq(W) /\ pending \in Seq(W) /\ ring0 \in Seq(W) /\ Holds(frames, W)
      BY OnWayTyped
    <2>2. ring0 = <<>>
      <3>1. ready = 0
        BY <1>1 DEF OrderInv, Kept, Inv, RingInv, FillClaims
      <3>2. head \in 0..NFrames-1 /\ ready \in 0..NFrames
        BY DEF Inv, RingInv, Shapes
      <3> QED BY <2>1, <3>1, <3>2, RingOfTyped
    <2>3. Cat(<<>>, fill.out) = fill.out /\ Cat(<<>>, pending) = pending /\ Cat(<<>>, <<>>) = <<>>
      <3>1. <<>> \in Seq(W)
        OBVIOUS
      <3> QED BY <2>1, <3>1, CatNothing
    <2>4. OnWay = Cat(fill.out, pending) /\ OnWay' = pending
      BY <1>1, <1>2, <2>2, <2>3 DEF OnWay
    <2> QED BY <1>1, <1>3, <2>1, <2>4, RecordsReceived
  <1>4. CASE fill.phase = "tooSmall" /\ UNCHANGED got
    <2>1. fill.out = <<>>
      BY <1>4 DEF OrderInv, Kept
    <2>2. OnWay' = OnWay
      BY <1>1, <1>2, <2>1 DEF OnWay
    <2> QED BY <1>1, <1>4, <2>2, NothingWritten
  <1> QED BY <1>3, <1>4 DEF JsFillEnds

LEMMA FrameReceived ==
  ASSUME Inv, OrderInv, CopyFrame
  PROVE  RecordMoves
  <1> DEFINE W == Written(names)
             o == frames[head].out
             rest == RingOf(frames, head, ready)'
  <1>1. /\ UNCHANGED <<coming, names, curFetch, consumerQ, pending, fill, frames>>
        /\ Deliver(o) /\ head' = NextFrame(head) /\ ready' = ready - 1 /\ js = "copying"
    BY DEF CopyFrame, queues, filling
  <1>2. head \in 0..NFrames-1 /\ ready \in 1..NFrames
    BY <1>1, ShimAssumption DEF ShimAssumption, Inv, RingInv, Shapes, FrameClaims
  <1>3. fill.out \in Seq(W) /\ pending \in Seq(W) /\ Holds(frames, W)
    BY OnWayTyped
  <1>4. o \in Seq(W)
    BY <1>2, <1>3 DEF Holds
  <1>5. head' \in 0..NFrames-1 /\ ready' \in 0..NFrames
    <2>1. head' = IF head + 1 = NFrames THEN 0 ELSE head + 1
      BY <1>1, <1>2, NextFrameIs
    <2> QED BY <1>1, <1>2, <2>1, ShimAssumption DEF ShimAssumption
  <1>6. rest = RingOf(frames, NextFrame(head), ready - 1) /\ rest \in Seq(W)
    <2>1. rest = RingOf(frames, head', ready')
      BY <1>1
    <2> HIDE DEF rest
    <2> QED BY <1>1, <1>3, <1>5, <2>1, RingOfTyped
  <1>7. RingOf(frames, head, ready) = Cat(o, rest)
    <2> HIDE DEF W, rest
    <2> QED BY <1>2, <1>3, <1>6, RingShrinks
  <1>8. OnWay = Cat(Cat(Cat(o, rest), fill.out), pending) /\ OnWay' = Cat(Cat(rest, fill.out), pending)
    BY <1>1, <1>7 DEF OnWay
  <1> DEFINE later == Cat(Cat(rest, fill.out), pending)
  <1>9. Cat(Cat(Cat(o, rest), fill.out), pending) = Cat(o, later) /\ later \in Seq(W)
    <2> HIDE DEF o, rest, W
    <2>1. Cat(rest, fill.out) \in Seq(W)
      BY <1>3, <1>6, CatTyped
    <2>2. Cat(Cat(o, rest), fill.out) = Cat(o, Cat(rest, fill.out))
      BY <1>3, <1>4, <1>6, CatAssociates
    <2>3. Cat(Cat(o, Cat(rest, fill.out)), pending) = Cat(o, later)
      BY <1>3, <1>4, <2>1, CatAssociates
    <2> QED BY <1>3, <2>1, <2>2, <2>3, CatTyped
  <1> HIDE DEF later, o
  <1> QED BY <1>1, <1>4, <1>8, <1>9, RecordsReceived DEF later

LEMMA RecordsMove ==
  ASSUME Inv, OrderInv, [Next]_vars, ~Join
  PROVE  RecordMoves
  <1>1. CASE /\ UNCHANGED <<coming, got, names, curFetch, consumerQ, pending, frames, head, ready>>
             /\ fill'.out = fill.out
    <2>1. OnWay' = OnWay
      BY <1>1 DEF OnWay
    <2> QED BY <1>1, <2>1, NothingWritten
  <1>2. CASE Enqueue \/ ConsumeFill
    BY <1>2, RecordsEnqueued, RecordsFilled
  <1>3. CASE PrefetchPublish \/ PrefetchGrow \/ JsFillEnds \/ CopyFrame
    BY <1>3, RecordsPublished, FrameGrown, FilledReceived, FrameReceived
  <1>4. CASE PrefetchTop \/ ConsumeBatch \/ GrowConsume
    <2>1. UNCHANGED <<coming, got, names, curFetch, consumerQ, pending, frames, head, ready>>
      BY <1>4 DEF PrefetchTop, ConsumeBatch, GrowConsume, queues, ring, received
    <2> QED BY <1>1, <1>4, <2>1, StartsEmpty
  <1>5. CASE Destroy \/ GroupCloses \/ UNCHANGED vars
    BY <1>1, <1>5 DEF Destroy, GroupCloses, queues, filling, ring, received, vars
  <1>6. CASE PollEvents \/ PollStash \/ PollMain
    BY <1>1, <1>6 DEF PollEvents, PollStash, PollMain, queues, filling, ring, received
  <1>7. CASE GrowEvents \/ TakeFrame \/ Failed \/ CloseConsumer
    BY <1>1, <1>7 DEF GrowEvents, TakeFrame, Failed, CloseConsumer, queues, filling, ring, received
  <1> QED BY <1>2, <1>3, <1>4, <1>5, <1>6, <1>7 DEF Next, PrefetchThread, JsThread

-----------------------------------------------------------------------------
(* The shim is a channel.                                                  *)
LanesMapped ==
  /\ ToSend["records"] = Named(coming) /\ Received["records"] = got
  /\ \A kind \in EventKinds :
       ToSend[kind] = EventSource(kind) /\ Received[kind] = Of(kind, events)
  /\ ~Down => InTransit["records"] = RecordLane
  /\ ~Down => \A kind \in EventKinds : InTransit[kind] = EventLane(kind)

LEMMA LanesAre == Inv /\ OrderInv => LanesMapped
  <1> SUFFICES ASSUME Inv, OrderInv PROVE LanesMapped
    OBVIOUS
  <1>1. ToSend["records"] = Named(coming) /\ Received["records"] = got
    BY DEF ToSend, Received, Lanes
  <1>2. ASSUME NEW kind \in EventKinds
        PROVE  /\ ToSend[kind] = EventSource(kind) /\ Received[kind] = Of(kind, events)
               /\ ~Down => InTransit[kind] = EventLane(kind)
    <2>1. kind \in Lanes /\ kind # "records"
      BY DEF EventKinds, Lanes
    <2>2. ToSend[kind] = Of(kind, coming \o mainComing) /\ Received[kind] = Of(kind, events)
          /\ InTransit[kind] = EventsInTransit(kind)
      BY <2>1 DEF ToSend, Received, InTransit
    <2>3. Of(kind, coming \o mainComing) = EventSource(kind)
      BY EventQueues, EventSourceIs DEF EventSource
    <2>4. Of(kind, frameOut \o stash \o consumerQ \o mainQ) = EventLane(kind)
      BY EventQueues, EventLaneIs DEF EventLane
    <2> QED BY <2>2, <2>3, <2>4 DEF EventsInTransit
  <1>3. ASSUME ~Down PROVE InTransit["records"] = RecordLane
    <2> DEFINE k == KnownIn(names, OnWay)
               l == Labels(curFetch)
               n == Named(consumerQ)
    <2>1. InTransit["records"] = RecordsInTransit
      BY DEF InTransit, Lanes
    <2>2. Known(Ring \o fill.out \o pending) = k
      BY DEF Known, KnownIn, Ring, RingOf, OnWay, Cat
    <2>3. RecordsInTransit = (k \o l) \o n
      BY <1>3, <2>2 DEF RecordsInTransit
    <2>4. k \in Seq(Label) /\ l \in Seq(Label) /\ n \in Seq(Label)
      BY RecordParts
    <2> HIDE DEF k, l, n
    <2>5. Cat(Cat(k, l), n) = Cat(k, Cat(l, n))
      BY <2>4, CatAssociates
    <2> QED BY <2>1, <2>3, <2>5 DEF RecordLane, k, l, n, Cat
  <1> QED BY <1>1, <1>2, <1>3 DEF LanesMapped

LEMMA LanesTyped ==
  Inv /\ OrderInv /\ ~Down => \A lane \in Lanes : LaneTyped(lane)
  <1> SUFFICES ASSUME Inv, OrderInv, ~Down, NEW lane \in Lanes PROVE LaneTyped(lane)
    OBVIOUS
  <1>1. CASE lane = "records"
    BY <1>1, LanesAre, RecordParts DEF LanesMapped, LaneTyped, Carried
  <1>2. CASE lane # "records"
    <2>1. lane \in EventKinds
      BY <1>2 DEF Lanes, EventKinds
    <2>2. EventLane(lane) \in Seq(AllEvents) /\ EventSource(lane) \in Seq(AllEvents)
          /\ Of(lane, events) \in Seq(AllEvents)
      BY <2>1, EventQueues, CatTyped DEF EventLane
    <2> QED BY <1>2, <2>1, <2>2, LanesAre DEF LanesMapped, LaneTyped, Carried
  <1> QED BY <1>1, <1>2

LEMMA ChannelInit == Init => Shim!Init
  <1> SUFFICES ASSUME Init PROVE Shim!Init
    OBVIOUS
  <1>1. Inv /\ OrderInv /\ ~Down
    <2>1. Inv
      BY InitInv
    <2> QED BY <2>1, InitOrder DEF Init, Down
  <1>2. \A S : <<>> \in Seq(S)
    OBVIOUS
  <1>3. \A kind : Of(kind, <<>>) = <<>>
    BY <1>2, OfTyped
  <1>4. RecordLane = <<>>
    <2>1. RingOf(frames, head, ready) = <<>>
      <3>1. head \in 0..NFrames-1 /\ ready \in 0..NFrames /\ Holds(frames, Written(names))
        BY <1>1, OnWayTyped DEF Inv, RingInv, Shapes
      <3>2. ready = 0
        BY DEF Init
      <3> QED BY <3>1, <3>2, RingOfTyped
    <2>2. Cat(<<>>, <<>>) = <<>>
      BY <1>2, CatNothing
    <2>3. OnWay = <<>>
      BY <2>1, <2>2 DEF OnWay, Init, NoFill
    <2>4. KnownIn(names, <<>>) = <<>> /\ Labels(<<>>) = <<>>
      BY DEF KnownIn, Labels
    <2>5. Named(<<>>) = <<>>
      BY <1>2, NamedTyped
    <2> QED BY <2>2, <2>3, <2>4, <2>5 DEF RecordLane, Init
  <1>5. ASSUME NEW kind \in EventKinds PROVE EventLane(kind) = <<>>
    <2>1. OwnQueue(kind, consumerQ, mainQ) = <<>> /\ frameOut = <<>> /\ stash = <<>>
      BY DEF Init, OwnQueue
    <2>2. Cat(<<>>, <<>>) = <<>>
      BY <1>2, CatNothing
    <2> QED BY <1>3, <2>1, <2>2 DEF EventLane
  <1>6. got = <<>> /\ events = <<>>
    BY DEF Init
  <1>7. ASSUME NEW lane \in Lanes PROVE InTransit[lane] = <<>> /\ Received[lane] = <<>>
    <2>1. lane = "records" \/ lane \in EventKinds
      BY DEF Lanes, EventKinds
    <2> QED BY <1>1, <1>3, <1>4, <1>5, <1>6, <2>1, LanesAre DEF LanesMapped
  <1> QED BY <1>1, <1>7 DEF Shim!Init

(* Destroying the handle: what is on its way is dropped, nothing moves.    *)
LEMMA Closes ==
  ASSUME Inv, OrderInv, [Next]_vars, Inv', OrderInv', Down'
  PROVE  Shim!Next
  <1>1. UNCHANGED <<coming, mainComing, got, events>>
    <2>1. CASE Destroy \/ Join \/ CloseConsumer \/ GroupCloses \/ UNCHANGED vars
      BY <2>1 DEF Destroy, Join, CloseConsumer, GroupCloses, queues, received, vars
    <2>2. CASE Enqueue
      BY <2>2 DEF Enqueue, Down, caller
    <2>3. CASE PrefetchThread
      <3>1. UNCHANGED js
        BY <2>3 DEF PrefetchThread, PrefetchTop, PrefetchPublish, PrefetchGrow, ConsumeFill,
                    FillEnter, SerializeMessage, PollConsumerQueue, FillDone, caller
      <3>2. thread \in {"top", "filling"}
        BY <2>3 DEF PrefetchThread, PrefetchTop, PrefetchPublish, PrefetchGrow
      <3>3. enabled /\ js \notin {"closing", "freed"}
        BY <3>2 DEF Inv, RingInv, FillClaims
      <3> QED BY <3>1, <3>3 DEF Down
    <2>4. CASE JsThread /\ ~Join /\ ~CloseConsumer
      <3>1. ASSUME ConsumeFill, js = "filling" PROVE js' = "filling"
        BY <3>1 DEF ConsumeFill, FillEnter, SerializeMessage, PollConsumerQueue, FillDone, caller
      <3>2. js' \notin {"closing", "freed"}
        BY <2>4, <3>1 DEF JsThread, PollEvents, PollStash, PollMain, GrowEvents, ConsumeBatch,
           TakeFrame, CopyFrame, GrowConsume, JsFillEnds, Failed, Deliver, EventsReturn, Return,
           TooSmall
      <3> QED BY <3>2 DEF Down
    <2> QED BY <2>1, <2>2, <2>3, <2>4 DEF Next
  <1>2. UNCHANGED <<ToSend, Received>>
    BY <1>1 DEF ToSend, Received
  <1>3. \A lane \in Lanes : InTransit'[lane] = <<>>
    BY DEF InTransit, RecordsInTransit, EventsInTransit, Lanes
  <1>4. Shim!Close
    BY <1>2, <1>3 DEF Shim!Close
  <1> QED BY <1>4 DEF Shim!Next

LEMMA DownStaysDown ==
  ASSUME Inv, [Next]_vars, Down
  PROVE  Down'
  <1>1. js \in {"closing", "freed"} /\ ~enabled /\ thread \in {"none", "exited"}
    BY DEF Down, Inv, RingInv, FillClaims
  <1>2. ~PrefetchThread /\ ~Enqueue /\ ~Destroy
    BY <1>1 DEF PrefetchThread, PrefetchTop, PrefetchPublish, PrefetchGrow, Enqueue, Destroy
  <1>3. CASE CloseConsumer \/ GroupCloses \/ UNCHANGED vars
    BY <1>1, <1>3 DEF CloseConsumer, GroupCloses, caller, vars, Down
  <1>4. JsThread => CloseConsumer
    BY <1>1 DEF JsThread, PollEvents, PollStash, PollMain, GrowEvents, ConsumeBatch, TakeFrame,
       CopyFrame, GrowConsume, JsFillEnds, Failed, Join
  <1> QED BY <1>2, <1>3, <1>4 DEF Next

LEMMA ChannelStep ==
  Inv /\ OrderInv /\ [Next]_vars /\ Inv' /\ OrderInv'
    => [Shim!Next]_<<ToSend, InTransit, Received, Down>>
  <1> SUFFICES ASSUME Inv, OrderInv, [Next]_vars, Inv', OrderInv' PROVE Shim!Next
    OBVIOUS
  <1>1. CASE Down'
    BY <1>1, Closes
  <1>2. CASE ~Down'
    <2>1. ~Down /\ ~Join
      BY <1>2, DownStaysDown DEF Join, Down
    <2>2. \A lane \in Lanes : LaneTyped(lane)
      BY <2>1, LanesTyped
    <2>3. (Inv /\ OrderInv /\ ~Down => \A lane \in Lanes : LaneTyped(lane))'
      BY LanesTyped, PTL
    <2>4. \A lane \in Lanes : LaneTyped(lane)'
      BY <1>2, <2>3
    <2>5. (Inv /\ OrderInv => LanesMapped)'
      BY LanesAre, PTL
    <2>6. LanesMapped /\ LanesMapped'
      BY <2>5, LanesAre
    <2>7. ASSUME NEW lane \in Lanes PROVE LaneMoves(lane)
      <3>1. CASE lane = "records"
        <4>1. RecordMoves
          BY <2>1, RecordsMove
        <4> QED BY <1>2, <2>1, <2>6, <3>1, <4>1 DEF LanesMapped, LaneMoves, Carried, RecordMoves
      <3>2. CASE lane # "records"
        <4>1. lane \in EventKinds
          BY <3>2 DEF Lanes, EventKinds
        <4>2. EventMoves(lane)
          BY <4>1, EventsMove
        <4> QED BY <1>2, <2>1, <2>6, <3>2, <4>1, <4>2 DEF LanesMapped, LaneMoves, Carried, EventMoves
      <3> QED BY <3>1, <3>2
    <2> QED BY <1>2, <2>1, <2>2, <2>4, <2>7, LanesCarry
  <1> QED BY <1>1, <1>2

(* A record reaches JS once, in the order librdkafka delivered it and under*)
(* its own topic name, and so does an event: from consumer_q through a     *)
(* frame of the ring or the buffer of the call, through the record held    *)
(* over and the stash of brk_events_poll(), for every script, every size   *)
(* of the buffers and of the ring. The shim implements Channel.            *)
THEOREM ReachesJsOnceInOrder == Spec => OnceInOrder
  <1>1. Init => Inv /\ OrderInv
    BY InitInv, InitOrder
  <1>2. Inv /\ OrderInv /\ [Next]_vars => Inv' /\ OrderInv'
    BY NextInv, NextOrder
  <1> QED
    BY <1>1, <1>2, ChannelInit, ChannelStep, PTL DEF Spec, OnceInOrder, Shim!Spec
=============================================================================

---------------------------- MODULE Producer_proofs ----------------------------
(***************************************************************************)
(* Proofs about Producer, for any limits, any number of records, any depth *)
(* of nested calls and any budget: its type, that every record is reported *)
(* once (ReportedOnce), and that librdkafka gets the records in order.     *)
(***************************************************************************)
EXTENDS Producer, Integers, SequenceTheorems, FunctionTheorems,
        FiniteSetTheorems, WellFoundedInduction, TLAPS

-----------------------------------------------------------------------------
(* What Ascending and At return, for every set of numbers and sequence.    *)
Rising(seq) == \A i, j \in 1..Len(seq) : i < j => seq[i] < seq[j]

(* A finite set of numbers can be put in ascending order: a smallest set   *)
(* without such an order would be without its minimum, which comes first.  *)
InAscent(s) == \A i, j \in DOMAIN s : i < j => s[i] < s[j]

LEMMA LeastNumber ==
  ASSUME NEW S, S \subseteq Nat, S # {}
  PROVE  \E m \in S : \A n \in S : m <= n
  <1>1. PICK m \in S : \A n \in S : ~ (<<n, m>> \in OpToRel(<, Nat))
    BY WFMin, NatLessThanWellFounded
  <1>2. \A n \in S : ~ (n < m)
    BY <1>1 DEF OpToRel
  <1> QED BY <1>2

LEMMA AscentExists ==
  ASSUME NEW S, S \subseteq Nat, IsFiniteSet(S)
  PROVE  \E s \in [1..Cardinality(S) -> S] : InAscent(s)
  <1> DEFINE HasAscent(T) == \E s \in [1..Cardinality(T) -> T] : InAscent(s)
             Bad == {n \in Nat : \E T \in SUBSET Nat :
                       IsFiniteSet(T) /\ Cardinality(T) = n /\ ~HasAscent(T)}
  <1>1. SUFFICES ASSUME ~HasAscent(S) PROVE FALSE
    OBVIOUS
  <1>2. Bad # {}
    BY <1>1, FS_CardinalityType
  <1>3. PICK n \in Bad : \A m \in Bad : n <= m
    BY <1>2, LeastNumber
  <1>4. PICK T \in SUBSET Nat : IsFiniteSet(T) /\ Cardinality(T) = n /\ ~HasAscent(T)
    BY <1>3
  <1>5. n \in Nat
    BY <1>3
  <1>6. T # {}
    <2>1. ASSUME T = {} PROVE FALSE
      <3>1. Cardinality(T) = 0
        BY <2>1, FS_EmptySet
      <3>2. [i \in 1..0 |-> i] \in [1..Cardinality(T) -> T] /\ InAscent([i \in 1..0 |-> i])
        BY <3>1 DEF InAscent
      <3> QED BY <3>2, <1>4
    <2> QED BY <2>1
  <1>7. PICK m \in T : \A k \in T : m <= k
    BY <1>6, LeastNumber
  <1>8. IsFiniteSet(T \ {m}) /\ Cardinality(T \ {m}) = n - 1 /\ n - 1 \in Nat
    <2>1. IsFiniteSet(T \ {m}) /\ Cardinality(T \ {m}) = n - 1
      BY <1>4, <1>7, FS_RemoveElement
    <2> QED BY <2>1, FS_CardinalityType
  <1>9. HasAscent(T \ {m})
    <2>1. n - 1 \notin Bad
      BY <1>3, <1>5
    <2> QED BY <2>1, <1>8
  <1>10. PICK s \in [1..n-1 -> T \ {m}] : InAscent(s)
    BY <1>8, <1>9
  <1> DEFINE t == [i \in 1..n |-> IF i = 1 THEN m ELSE s[i - 1]]
  <1>11. t \in [1..n -> T]
    BY <1>5, <1>7, <1>10
  <1>12. InAscent(t)
    <2> SUFFICES ASSUME NEW i \in 1..n, NEW j \in 1..n, i < j PROVE t[i] < t[j]
      BY DEF InAscent
    <2>1. t[j] = s[j - 1] /\ j - 1 \in 1..n-1 /\ s[j - 1] \in T \ {m}
      BY <1>5, <1>10
    <2>2. CASE i = 1
      <3>1. m <= s[j - 1] /\ m # s[j - 1] /\ m \in Nat /\ s[j - 1] \in Nat
        BY <2>1, <1>7
      <3> QED BY <2>1, <2>2, <3>1
    <2>3. CASE i # 1
      <3>1. t[i] = s[i - 1] /\ i - 1 \in 1..n-1 /\ i - 1 < j - 1
        BY <2>3, <1>5
      <3> QED BY <3>1, <2>1, <1>10 DEF InAscent
    <2> QED BY <2>2, <2>3
  <1> QED BY <1>4, <1>11, <1>12

(* Ascending(S) is the members of S, each once, in ascending order.        *)
LEMMA AscendingProperties ==
  ASSUME NEW S, S \subseteq Nat, IsFiniteSet(S)
  PROVE  /\ Ascending(S) \in Seq(S) /\ Len(Ascending(S)) = Cardinality(S)
         /\ Cardinality(S) \in Nat
         /\ Rising(Ascending(S))
         /\ \A x \in S : \E i \in 1..Cardinality(S) : Ascending(S)[i] = x
  <1> DEFINE a == Ascending(S)
             n == Cardinality(S)
  <1>1. n \in Nat
    BY FS_CardinalityType
  <1>2. a \in [1..n -> S] /\ InAscent(a)
    BY AscentExists DEF Ascending, InAscent
  <1>3. a \in Seq(S) /\ Len(a) = n
    BY <1>1, <1>2, IsASeq
  <1>4. Rising(a)
    BY <1>2, <1>3 DEF InAscent, Rising
  <1>5. a \in Injection(1..n, S)
    <2>1. \A i, j \in 1..n : a[i] = a[j] => i = j
      <3> SUFFICES ASSUME NEW i \in 1..n, NEW j \in 1..n, a[i] = a[j], i # j PROVE FALSE
        OBVIOUS
      <3>1. a[i] \in Nat /\ a[j] \in Nat
        BY <1>2
      <3>2. a[i] < a[j] \/ a[j] < a[i]
        BY <1>1, <1>2 DEF InAscent
      <3> QED BY <3>1, <3>2
    <2> QED BY <1>2, <2>1 DEF Injection, IsInjective
  <1>6. Cardinality(1..n) = n
    BY <1>1, FS_Interval
  <1>7. a \in Surjection(1..n, S)
    BY <1>5, <1>6, FS_Injection
  <1> QED BY <1>1, <1>3, <1>4, <1>7 DEF Surjection

(* At(seq, I) keeps the order, and is just what seq holds at I.            *)
LEMMA AtProperties ==
  ASSUME NEW T, T \subseteq Nat, NEW seq \in Seq(T), NEW I, I \subseteq DOMAIN seq
  PROVE  /\ At(seq, I) \in Seq(T)
         /\ ToSet(At(seq, I)) = {seq[i] : i \in I}
         /\ Rising(seq) => Rising(At(seq, I))
  <1> DEFINE a == Ascending(I)
             n == Cardinality(I)
  <1>1. I \subseteq 1..Len(seq) /\ Len(seq) \in Nat /\ I \subseteq Nat
    BY LenProperties
  <1>2. IsFiniteSet(I)
    BY <1>1, FS_Interval, FS_Subset
  <1>3. /\ a \in Seq(I) /\ Len(a) = n /\ n \in Nat /\ Rising(a)
        /\ \A x \in I : \E i \in 1..n : a[i] = x
    BY <1>1, <1>2, AscendingProperties
  <1>4. \A k \in 1..n : a[k] \in I
    BY <1>3, ElementOfSeq
  <1>5. \A i \in I : seq[i] \in T
    BY <1>1, ElementOfSeq
  <1> HIDE DEF a, n
  <1>6. At(seq, I) = [k \in 1..n |-> seq[a[k]]]
    BY DEF At, a, n
  <1>7. At(seq, I) \in Seq(T) /\ Len(At(seq, I)) = n
    <2>1. At(seq, I) \in [1..n -> T]
      BY <1>4, <1>5, <1>6
    <2> QED BY <1>3, <2>1
  <1>8. ToSet(At(seq, I)) = {seq[i] : i \in I}
    <2>1. DOMAIN At(seq, I) = 1..n /\ \A k \in 1..n : At(seq, I)[k] = seq[a[k]]
      BY <1>6
    <2>2. ToSet(At(seq, I)) = {At(seq, I)[k] : k \in 1..n}
      BY <2>1 DEF ToSet
    <2> QED BY <1>3, <1>4, <2>1, <2>2
  <1>9. ASSUME Rising(seq) PROVE Rising(At(seq, I))
    <2> SUFFICES ASSUME NEW i \in 1..n, NEW j \in 1..n, i < j
                 PROVE  At(seq, I)[i] < At(seq, I)[j]
      BY <1>7 DEF Rising
    <2>1. a[i] \in 1..Len(seq) /\ a[j] \in 1..Len(seq) /\ a[i] < a[j]
      BY <1>1, <1>3, <1>4 DEF Rising
    <2> QED BY <2>1, <1>6, <1>9 DEF Rising
  <1> QED BY <1>7, <1>8, <1>9

(* What the calls of a stack are still to report: all of it, and the       *)
(* entries that failAll() has already taken out of the ledger.             *)
Todo(frames) == UNION {Due(frames[i]) : i \in 1..Len(frames)}
DueIn(loop, todo) == Due([loop |-> loop, todo |-> todo])
Rejects(frame) == IF frame.loop = "destroy" THEN IdsOf(frame.todo) ELSE {}
ToReject(frames) == UNION {Rejects(frames[i]) : i \in 1..Len(frames)}
Rejecting == ToReject(stack)

(* No call is to reject an entry twice, and no two calls the same one.     *)
Distinct(todo) == \A k, l \in 1..Len(todo) : todo[k].id = todo[l].id => k = l
EachOnce(frames) ==
  /\ \A i \in 1..Len(frames) : frames[i].loop = "destroy" => Distinct(frames[i].todo)
  /\ \A i, j \in 1..Len(frames) :
       i # j => Rejects(frames[i]) \intersect Rejects(frames[j]) = {}
RejectsOnce == EachOnce(stack)

(* Each record is in the ledger, about to be rejected, reported, or lost.  *)
Accounts ==
  /\ \A id \in Ids : called[id] <= 1 /\ (called[id] = 1 => id < nextId)
  /\ \A id \in ledger \union Rejecting : id < nextId /\ called[id] = 0
  /\ ledger \intersect Rejecting = {}
  /\ \A id \in Ids :
       id < nextId => id \in ledger \union Rejecting \union lost \/ called[id] = 1

(* A closed handle leaves nothing with librdkafka.                         *)
ClosedIsEmpty == phase = "none" => outq = {} /\ reports = <<>>

(* flush() is checked from a task of its own, and counts known records.    *)
OnlyFirstChecks(frames) == \A i \in 2..Len(frames) : "check" \notin ToSet(frames[i].steps)
StackKept == RejectsOnce /\ OnlyFirstChecks(stack)
KnowsItsRecords == flush.below <= nextId

(* The records go from produce() over staging to librdkafka in order.      *)
StagedInOrder ==
  /\ Rising(handed) /\ Rising(staging)
  /\ \A i \in 1..Len(handed), j \in 1..Len(staging) : handed[i] < staging[j]
  /\ \A i \in 1..Len(handed) : handed[i] < nextId
  /\ \A i \in 1..Len(staging) : staging[i] < nextId

Inv ==
  /\ TypeOK
  /\ StackKept /\ Accounts
  /\ NothingForgotten /\ ClosedIsEmpty
  /\ KnowsItsRecords /\ FlushMeansReported
  /\ StagedInOrder

-----------------------------------------------------------------------------
(* The stack is what is below its top, and its top.                        *)
LEMMA Peel ==
  ASSUME stack \in Seq(Frame), ~Quiet
  PROVE  /\ Top \in Frame /\ Below \in Seq(Frame)
         /\ stack = Append(Below, Top)
         /\ Len(stack) \in Nat \ {0} /\ Len(Below) = Len(stack) - 1
  <1>1. Len(stack) \in Nat /\ Len(stack) > 0
    BY EmptySeq DEF Quiet
  <1>2. Top \in Frame
    BY <1>1, ElementOfSeq DEF Top
  <1>3. Below \in Seq(Frame) /\ Len(Below) = Len(stack) - 1
    <2>1. \A i \in 1..Len(stack) - 1 : stack[i] \in Frame
      BY <1>1, ElementOfSeq
    <2>2. Below \in Seq(Frame)
      BY <1>1, <2>1, SubSeqProperties DEF Below
    <2>3. Len(Below) = IF 1 <= Len(stack) - 1 THEN (Len(stack) - 1) - 1 + 1 ELSE 0
      BY <1>1, <2>1, SubSeqProperties DEF Below
    <2>4. CASE 1 <= Len(stack) - 1
      BY <1>1, <2>2, <2>3, <2>4
    <2>5. CASE Len(stack) = 1
      BY <1>1, <2>2, <2>3, <2>5
    <2>6. 1 <= Len(stack) - 1 \/ Len(stack) = 1
      <3>1. \A n \in Nat : n > 0 => 1 <= n - 1 \/ n = 1
        OBVIOUS
      <3> QED BY <1>1, <3>1
    <2> QED BY <2>4, <2>5, <2>6
  <1>4. stack = Append(Below, Top)
    BY <1>1, <1>3 DEF Below, Top
  <1> QED BY <1>1, <1>2, <1>3, <1>4

(* What one more call adds to what a stack is still to report.             *)
LEMMA OneMoreFrame ==
  ASSUME NEW frames \in Seq(Frame), NEW f \in Frame
  PROVE  /\ Append(frames, f) \in Seq(Frame)
         /\ Todo(Append(frames, f)) = Todo(frames) \union Due(f)
         /\ ToReject(Append(frames, f)) = ToReject(frames) \union Rejects(f)
  <1> DEFINE n == Len(frames)
             t == Append(frames, f)
  <1>1. t \in Seq(Frame) /\ Len(t) = n + 1 /\ n \in Nat
    BY AppendProperties
  <1>2. t[n + 1] = f /\ \A i \in 1..n : t[i] = frames[i]
    BY AppendProperties
  <1>3. 1..n+1 = 1..n \union {n + 1}
    BY <1>1
  <1> HIDE DEF t, n
  <1>4. Todo(t) = Todo(frames) \union Due(f)
    BY <1>1, <1>2, <1>3 DEF Todo, n
  <1>5. ToReject(t) = ToReject(frames) \union Rejects(f)
    BY <1>1, <1>2, <1>3 DEF ToReject, n
  <1> QED BY <1>1, <1>4, <1>5 DEF t

LEMMA OneMoreOnce ==
  ASSUME NEW frames \in Seq(Frame), NEW f \in Frame
  PROVE  EachOnce(Append(frames, f)) <=>
           /\ EachOnce(frames)
           /\ f.loop = "destroy" => Distinct(f.todo)
           /\ ToReject(frames) \intersect Rejects(f) = {}
  <1> DEFINE n == Len(frames)
             t == Append(frames, f)
  <1>1. t \in Seq(Frame) /\ Len(t) = n + 1 /\ n \in Nat
    BY AppendProperties
  <1>2. t[n + 1] = f /\ \A i \in 1..n : t[i] = frames[i]
    BY AppendProperties
  <1>3. 1..n+1 = 1..n \union {n + 1} /\ n + 1 \notin 1..n
    BY <1>1
  <1> HIDE DEF t, n
  <1>4. ASSUME EachOnce(t)
        PROVE  /\ EachOnce(frames)
               /\ f.loop = "destroy" => Distinct(f.todo)
               /\ ToReject(frames) \intersect Rejects(f) = {}
    <2>1. EachOnce(frames)
      BY <1>1, <1>2, <1>3, <1>4 DEF EachOnce, n
    <2>2. f.loop = "destroy" => Distinct(f.todo)
      BY <1>1, <1>2, <1>3, <1>4 DEF EachOnce
    <2>3. \A i \in 1..n : Rejects(frames[i]) \intersect Rejects(f) = {}
      BY <1>1, <1>2, <1>3, <1>4 DEF EachOnce
    <2> QED BY <2>1, <2>2, <2>3 DEF ToReject, n
  <1>5. ASSUME EachOnce(frames), f.loop = "destroy" => Distinct(f.todo),
               ToReject(frames) \intersect Rejects(f) = {}
        PROVE  EachOnce(t)
    <2>1. \A i \in 1..n : Rejects(frames[i]) \intersect Rejects(f) = {}
      BY <1>5 DEF ToReject, n
    <2>2. \A i \in 1..n+1 : t[i].loop = "destroy" => Distinct(t[i].todo)
      BY <1>2, <1>3, <1>5 DEF EachOnce, n
    <2>3. \A i, j \in 1..n+1 : i # j => Rejects(t[i]) \intersect Rejects(t[j]) = {}
      BY <1>2, <1>3, <1>5, <2>1 DEF EachOnce, n
    <2> QED BY <1>1, <2>2, <2>3 DEF EachOnce
  <1> QED BY <1>4, <1>5 DEF t

LEMMA OneMoreChecks ==
  ASSUME NEW frames \in Seq(Frame), NEW f \in Frame
  PROVE  OnlyFirstChecks(Append(frames, f)) <=>
           /\ OnlyFirstChecks(frames)
           /\ frames # <<>> => "check" \notin ToSet(f.steps)
  <1> DEFINE n == Len(frames)
             t == Append(frames, f)
  <1>1. t \in Seq(Frame) /\ Len(t) = n + 1 /\ n \in Nat /\ (frames # <<>> <=> n # 0)
    BY AppendProperties, EmptySeq
  <1>2. t[n + 1] = f /\ \A i \in 1..n : t[i] = frames[i]
    BY AppendProperties
  <1>3. /\ n # 0 => 2..n+1 = 2..n \union {n + 1}
        /\ n = 0 => 2..n+1 = {} /\ 2..n = {}
        /\ 2..n \subseteq 1..n
    BY <1>1
  <1> HIDE DEF t, n
  <1>4. OnlyFirstChecks(t) <=> \A i \in 2..n+1 : "check" \notin ToSet(t[i].steps)
    BY <1>1 DEF OnlyFirstChecks
  <1>5. OnlyFirstChecks(frames) <=> \A i \in 2..n : "check" \notin ToSet(t[i].steps)
    BY <1>2, <1>3 DEF OnlyFirstChecks, n
  <1> QED BY <1>1, <1>2, <1>3, <1>4, <1>5 DEF t

(* The calls of a stack without calls, and of a call without outcomes.     *)
LEMMA NothingToReport ==
  /\ <<>> \in Seq(Frame) /\ Todo(<<>>) = {} /\ ToReject(<<>>) = {}
  /\ EachOnce(<<>>) /\ OnlyFirstChecks(<<>>)
  /\ IdsOf(<<>>) = {}
  /\ \A f \in Frame : f.todo = <<>> => Due(f) = {} /\ Rejects(f) = {} /\ Distinct(f.todo)
  <1>1. Len(<<>>) = 0 /\ <<>> \in Seq(Frame) /\ 1..0 = {} /\ 2..0 = {}
    BY EmptySeq
  <1>2. IdsOf(<<>>) = {}
    BY <1>1 DEF IdsOf
  <1>3. Todo(<<>>) = {} /\ ToReject(<<>>) = {}
    BY <1>1 DEF Todo, ToReject
  <1>4. EachOnce(<<>>) /\ OnlyFirstChecks(<<>>)
    BY <1>1 DEF EachOnce, OnlyFirstChecks
  <1>5. Distinct(<<>>)
    BY <1>1 DEF Distinct
  <1>6. \A f \in Frame : f.todo = <<>> => Due(f) = {}
    BY <1>1 DEF Due
  <1> QED BY <1>1, <1>2, <1>3, <1>4, <1>5, <1>6 DEF Rejects

(* Only of a batch is less due than there is to look at.                   *)
LEMMA DueProperties ==
  ASSUME NEW f
  PROVE  /\ Due(f) = DueIn(f.loop, f.todo)
         /\ Due(f) \subseteq IdsOf(f.todo)
         /\ f.loop # "batch" => Due(f) = IdsOf(f.todo)
         /\ Rejects(f) \subseteq Due(f)
  <1>1. Due(f) = DueIn(f.loop, f.todo)
    BY DEF Due, DueIn
  <1>2. Due(f) \subseteq IdsOf(f.todo)
    BY DEF Due, IdsOf
  <1>3. f.loop # "batch" => Due(f) = IdsOf(f.todo)
    BY DEF Due, IdsOf
  <1>4. Rejects(f) \subseteq Due(f)
    BY <1>3 DEF Rejects
  <1> QED BY <1>1, <1>2, <1>3, <1>4

LEMMA DueInLoop ==
  ASSUME NEW kind, kind # "batch", NEW todo
  PROVE  DueIn(kind, todo) = IdsOf(todo)
  BY DEF DueIn, Due, IdsOf

-----------------------------------------------------------------------------
(* Type correctness.                                                       *)

LEMMA BudgetType ==
  ASSUME left \in [Events -> Nat], NEW event \in Events, Spend(event)
  PROVE  left' \in [Events -> Nat]
  BY DEF Spend

LEMMA FinitelyMany ==
  ASSUME NEW S, S \subseteq Ids
  PROVE  S \subseteq Nat /\ IsFiniteSet(S) /\ Cardinality(S) \in Nat
  <1>1. IsFiniteSet(Ids) /\ Ids \subseteq Nat
    BY ConstantsAssumption, FS_Interval DEF Ids
  <1> QED BY <1>1, FS_Subset, FS_CardinalityType

(* The ledger never grows but in track().                                  *)
LEMMA SmallerLedger ==
  ASSUME TypeOK, NEW S
  PROVE  ledger \ S \in SUBSET Ids /\ Cardinality(ledger \ S) <= MaxPending
  <1>1. IsFiniteSet(ledger) /\ Cardinality(ledger) \in Nat /\ ledger \in SUBSET Ids
    BY FinitelyMany DEF TypeOK
  <1>2. Cardinality(ledger \ S) <= Cardinality(ledger) /\ Cardinality(ledger \ S) \in Nat
    BY <1>1, FS_Subset, FS_CardinalityType
  <1> QED BY <1>1, <1>2, ConstantsAssumption DEF TypeOK

LEMMA FailuresType ==
  ASSUME NEW T, T \subseteq Ids, NEW ids \in Seq(T)
  PROVE  /\ Failures(ids) \in Seq(Report) /\ Len(Failures(ids)) = Len(ids)
         /\ \A i \in 1..Len(ids) : Failures(ids)[i].id = ids[i]
         /\ IdsOf(Failures(ids)) = ToSet(ids)
  <1>1. Len(ids) \in Nat /\ DOMAIN ids = 1..Len(ids) /\ \A i \in 1..Len(ids) : ids[i] \in Ids
    BY LenProperties, ElementOfSeq
  <1>2. Failures(ids) \in [1..Len(ids) -> Report]
    BY <1>1 DEF Failures, Outcome, Report
  <1>3. Failures(ids) \in Seq(Report) /\ Len(Failures(ids)) = Len(ids)
    BY <1>1, <1>2
  <1>4. \A i \in 1..Len(ids) : Failures(ids)[i].id = ids[i]
    BY <1>1 DEF Failures, Outcome
  <1>5. IdsOf(Failures(ids)) = ToSet(ids)
    BY <1>1, <1>3, <1>4 DEF IdsOf, ToSet
  <1> QED BY <1>3, <1>4, <1>5

LEMMA CallType ==
  ASSUME stack \in Seq(Frame), NEW steps \in Seq(Steps), Call(steps)
  PROVE  stack' \in Seq(Frame)
  <1> DEFINE f == [steps |-> steps, loop |-> "none", todo |-> <<>>,
                   view |-> 0, read |-> 0, begun |-> FALSE, inCallback |-> FALSE]
  <1>1. f \in Frame
    BY EmptySeq DEF Frame
  <1> QED BY <1>1, AppendProperties DEF Call

Kinds == {"none", "closed", "batch", "failed", "round", "destroy"}

LEMMA LoopWithType ==
  ASSUME stack \in Seq(Frame), NEW step, AtStep(step),
         NEW view \in Nat, NEW kind \in Kinds,
         NEW todo \in Seq(Report), LoopWith(view, kind, todo)
  PROVE  stack' \in Seq(Frame)
  <1> DEFINE f == [steps |-> Tail(Top.steps), loop |-> kind, todo |-> todo,
                   view |-> view, read |-> 0, begun |-> FALSE, inCallback |-> FALSE]
  <1>1. Top \in Frame /\ Below \in Seq(Frame) /\ Top.steps # <<>>
    BY Peel DEF AtStep
  <1>2. Tail(Top.steps) \in Seq(Steps)
    BY <1>1, HeadTailProperties DEF Frame
  <1>3. f \in Frame
    BY <1>2 DEF Frame, Kinds
  <1> QED BY <1>1, <1>3, AppendProperties DEF LoopWith

LEMMA LoopType ==
  ASSUME stack \in Seq(Frame), NEW step, AtStep(step), NEW kind \in Kinds,
         NEW todo \in Seq(Report), Loop(kind, todo)
  PROVE  stack' \in Seq(Frame)
  BY LoopWithType DEF Loop

LEMMA AfterType ==
  ASSUME pendingError \in BOOLEAN, AfterCallback
  PROVE  pendingError' \in BOOLEAN
  BY DEF AfterCallback

LEMMA TrackType ==
  ASSUME TypeOK, Track
  PROVE  /\ ledger' \in SUBSET Ids /\ Cardinality(ledger') <= MaxPending
         /\ nextId \in Ids /\ nextId' \in 1..(MaxRecords + 1)
  <1>1. nextId \in Ids /\ nextId' \in 1..(MaxRecords + 1)
    BY ConstantsAssumption DEF TypeOK, Track, Ids
  <1>2. IsFiniteSet(ledger) /\ Cardinality(ledger) \in Nat
    BY FinitelyMany DEF TypeOK
  <1>3. Cardinality(ledger') <= Cardinality(ledger) + 1
    BY <1>2, FS_AddElement DEF Track
  <1>4. Cardinality(ledger) < MaxPending
    BY <1>2, ConstantsAssumption DEF Track, Full
  <1>5. ledger' \in SUBSET Ids
    BY <1>1 DEF TypeOK, Track
  <1>6. Cardinality(ledger') \in Nat
    BY <1>5, FinitelyMany
  <1> QED BY <1>1, <1>2, <1>3, <1>4, <1>5, <1>6, ConstantsAssumption

LEMMA IdsType ==
  ASSUME NEW todo \in Seq(Report)
  PROVE  IdsOf(todo) \subseteq Ids
  <1>1. \A i \in 1..Len(todo) : todo[i] \in Report
    BY ElementOfSeq
  <1>2. \A i \in 1..Len(todo) : todo[i].id \in Ids
    BY <1>1 DEF Report
  <1> QED BY <1>2 DEF IdsOf

LEMMA InitType == Init => TypeOK
  <1> SUFFICES ASSUME Init PROVE TypeOK
    OBVIOUS
  <1>1. \A S : <<>> \in Seq(S)
    BY EmptySeq
  <1>2. ledger \in SUBSET Ids /\ Cardinality(ledger) <= MaxPending
    BY FS_EmptySet, ConstantsAssumption DEF Init
  <1>3. left \in [Events -> Nat]
    BY ConstantsAssumption DEF Init
  <1>4. called \in [Ids -> Nat] /\ flush \in Flush /\ nextId \in 1..(MaxRecords + 1)
    BY ConstantsAssumption DEF Init, Flush
  <1> QED BY <1>1, <1>2, <1>3, <1>4 DEF Init, TypeOK, Open

(* The array for a batch's codes: the last one, or a new one after it.     *)
LEMMA CodesType ==
  ASSUME errOut \in Seq(ErrArray), errOut # <<>>, NEW n \in Nat, NEW R \in SUBSET Nat,
         WriteCodes(n, R)
  PROVE  errOut' \in Seq(ErrArray) /\ errOut' # <<>> /\ Len(errOut') \in Nat
  <1> DEFINE last == errOut[Len(errOut)]
             new == NewErrOut(IF n < 2 * last.size THEN 2 * last.size ELSE n)
             arrays == ErrOutFor(n)
             m == Len(arrays)
  <1>1. Len(errOut) \in Nat /\ Len(errOut) > 0 /\ last \in ErrArray
    BY EmptySeq, ElementOfSeq
  <1>2. new \in ErrArray
    BY <1>1 DEF NewErrOut, ErrArray
  <1>3. arrays \in Seq(ErrArray) /\ m \in Nat /\ m > 0
    <2>1. arrays = errOut \/ arrays = Append(errOut, new)
      BY DEF ErrOutFor
    <2> HIDE DEF new
    <2>2. Append(errOut, new) \in Seq(ErrArray) /\ Len(Append(errOut, new)) = Len(errOut) + 1
      BY <1>2, AppendProperties
    <2> QED BY <1>1, <2>1, <2>2
  <1> HIDE DEF arrays
  <1>4. arrays[m] \in ErrArray
    BY <1>3, ElementOfSeq
  <1> DEFINE written == [arrays[m] EXCEPT !.refused = (@ \ (1..n)) \union R]
  <1>5. written \in ErrArray
    BY <1>4 DEF ErrArray
  <1> HIDE DEF written
  <1>6. errOut' = [arrays EXCEPT ![m] = written]
    BY DEF WriteCodes, arrays, written
  <1>7. errOut' \in Seq(ErrArray) /\ Len(errOut') = Len(arrays)
    BY <1>3, <1>5, <1>6, ExceptSeq
  <1> QED BY <1>3, <1>7, EmptySeq

(* The outcomes of a batch: due are those of the records at R.             *)
LEMMA BatchOutcomes ==
  ASSUME staging \in Seq(Ids), NEW R, R \subseteq DOMAIN staging
  PROVE  LET todo == [i \in DOMAIN staging |-> Outcome(staging[i], i \notin R)]
         IN todo \in Seq(Report) /\ DueIn("batch", todo) = {staging[i] : i \in R}
  <1> DEFINE n == Len(staging)
             todo == [i \in DOMAIN staging |-> Outcome(staging[i], i \notin R)]
  <1>1. n \in Nat /\ DOMAIN staging = 1..n /\ \A i \in 1..n : staging[i] \in Ids
    BY LenProperties, ElementOfSeq
  <1>2. todo \in [1..n -> Report]
    BY <1>1 DEF Outcome, Report
  <1>3. todo \in Seq(Report) /\ Len(todo) = n
    BY <1>1, <1>2
  <1>4. \A i \in 1..n : todo[i].id = staging[i] /\ (todo[i].ok <=> i \notin R)
    BY <1>1 DEF Outcome
  <1> HIDE DEF todo, n
  <1>5. DueIn("batch", todo) = {todo[i].id : i \in {j \in 1..n : ~todo[j].ok}}
    BY <1>3 DEF DueIn, Due
  <1>6. {j \in 1..n : ~todo[j].ok} = R
    BY <1>1, <1>4
  <1> QED BY <1>1, <1>3, <1>4, <1>5, <1>6 DEF todo

(* What becomes of a batch that librdkafka takes.                          *)
LEMMA BatchTaken ==
  ASSUME TypeOK, AtStep("flush"), FlushBatch
  PROVE  \E R \in SUBSET DOMAIN staging :
           /\ IF R = {} THEN UNCHANGED left ELSE Spend("refuse")
           /\ outq' = outq \union ToSet(At(staging, DOMAIN staging \ R))
           /\ handed' = handed \o At(staging, DOMAIN staging \ R)
           /\ errOut' \in Seq(ErrArray) /\ errOut' # <<>>
           /\ \E view \in Nat, kind \in {"none", "batch"}, todo \in Seq(Report) :
                /\ LoopWith(view, kind, todo)
                /\ DueIn(kind, todo) = {staging[i] : i \in R}
  <1>1. PICK R \in SUBSET DOMAIN staging :
          /\ IF R = {} THEN UNCHANGED left ELSE Spend("refuse")
          /\ outq' = outq \union ToSet(At(staging, DOMAIN staging \ R))
          /\ handed' = handed \o At(staging, DOMAIN staging \ R)
          /\ IF staging = <<>>
             THEN Loop("none", <<>>) /\ UNCHANGED errOut
             ELSE /\ WriteCodes(Len(staging), R)
                  /\ LoopWith(Len(errOut'), "batch",
                              [i \in DOMAIN staging |-> Outcome(staging[i], i \notin R)])
    BY DEF FlushBatch
  <1>2. errOut \in Seq(ErrArray) /\ errOut # <<>> /\ staging \in Seq(Ids)
    BY DEF TypeOK, FlushBatch
  <1>3. DOMAIN staging = 1..Len(staging) /\ Len(staging) \in Nat
    BY <1>2, LenProperties
  <1>4. CASE staging = <<>>
    <2>1. R = {} /\ LoopWith(0, "none", <<>>) /\ errOut' = errOut
      BY <1>1, <1>3, <1>4, EmptySeq DEF Loop
    <2>2. <<>> \in Seq(Report) /\ DueIn("none", <<>>) = {}
      BY EmptySeq, DueInLoop, NothingToReport
    <2> QED BY <1>1, <1>2, <2>1, <2>2
  <1>5. CASE staging # <<>>
    <2> DEFINE todo == [i \in DOMAIN staging |-> Outcome(staging[i], i \notin R)]
    <2>1. WriteCodes(Len(staging), R) /\ LoopWith(Len(errOut'), "batch", todo)
      BY <1>1, <1>5
    <2>2. R \in SUBSET Nat
      BY <1>3
    <2>3. errOut' \in Seq(ErrArray) /\ errOut' # <<>> /\ Len(errOut') \in Nat
      BY <1>2, <1>3, <2>1, <2>2, CodesType
    <2>4. todo \in Seq(Report) /\ DueIn("batch", todo) = {staging[i] : i \in R}
      BY <1>2, BatchOutcomes
    <2> HIDE DEF todo
    <2> QED BY <1>1, <2>1, <2>3, <2>4
  <1> QED BY <1>4, <1>5

(* flushStaging() with each of its three outcomes.                         *)
LEMMA FlushStagingType ==
  ASSUME TypeOK, FlushStaging
  PROVE  TypeOK'
  <1>1. AtStep("flush") /\ stack \in Seq(Frame) /\ staging \in Seq(Ids)
    BY DEF FlushStaging, TypeOK
  <1>2. Ids \subseteq Nat
    BY ConstantsAssumption DEF Ids
  <1>3. /\ outq' \in SUBSET Ids /\ handed' \in Seq(Ids)
        /\ left' \in [Events -> Nat] /\ stack' \in Seq(Frame)
        /\ errOut' \in Seq(ErrArray) /\ (Open => errOut' # <<>>)
    <2>1. CASE FlushClosed
      <3>1. Failures(staging) \in Seq(Report)
        BY <1>1, FailuresType
      <3>2. stack' \in Seq(Frame)
        BY <1>1, <2>1, <3>1, LoopType DEF FlushClosed, ClosedFailures, Kinds
      <3> QED BY <2>1, <3>2 DEF FlushClosed, TypeOK
    <2>2. CASE FlushFails
      <3>1. Failures(staging) \in Seq(Report)
        BY <1>1, FailuresType
      <3>2. stack' \in Seq(Frame)
        BY <1>1, <2>2, <3>1, LoopType DEF FlushFails, Kinds
      <3>3. left' \in [Events -> Nat]
        BY <2>2, BudgetType DEF FlushFails, TypeOK, Events
      <3> QED BY <2>2, <3>2, <3>3 DEF FlushFails, TypeOK
    <2>3. CASE FlushBatch
      <3>1. PICK R \in SUBSET DOMAIN staging :
              /\ IF R = {} THEN UNCHANGED left ELSE Spend("refuse")
              /\ outq' = outq \union ToSet(At(staging, DOMAIN staging \ R))
              /\ handed' = handed \o At(staging, DOMAIN staging \ R)
              /\ errOut' \in Seq(ErrArray) /\ errOut' # <<>>
              /\ \E view \in Nat, kind \in {"none", "batch"}, todo \in Seq(Report) :
                   LoopWith(view, kind, todo)
        BY <1>1, <2>3, BatchTaken
      <3> DEFINE taken == At(staging, DOMAIN staging \ R)
      <3>2. taken \in Seq(Ids)
        <4>1. DOMAIN staging \ R \subseteq DOMAIN staging
          OBVIOUS
        <4> QED BY <1>1, <1>2, <4>1, AtProperties
      <3>4. stack' \in Seq(Frame)
        BY <1>1, <3>1, LoopWithType DEF Kinds
      <3>5. left' \in [Events -> Nat]
        BY <3>1, BudgetType DEF TypeOK, Events
      <3>6. outq' \in SUBSET Ids
        <4>1. ToSet(taken) \subseteq Ids
          BY <3>2, LenProperties, ElementOfSeq DEF ToSet
        <4> QED BY <3>1, <4>1 DEF TypeOK
      <3>7. handed' \in Seq(Ids)
        BY <3>1, <3>2, ConcatProperties DEF TypeOK
      <3> QED BY <3>1, <3>4, <3>5, <3>6, <3>7
    <2> QED BY <2>1, <2>2, <2>3 DEF FlushStaging
  <1>4. pendingError' \in BOOLEAN
    BY AfterType DEF FlushStaging, TypeOK
  <1>5. staging' \in Seq(Ids)
    BY EmptySeq DEF FlushStaging, StagingTaken
  <1> QED BY <1>3, <1>4, <1>5 DEF FlushStaging, TypeOK, Unscheduled, Open

(* A loop that has looked at the first of what it has to do.               *)
LEMMA LookedAt ==
  ASSUME NEW e \in Frame, e.todo # <<>>, NEW begun \in BOOLEAN, NEW calls \in BOOLEAN,
         NEW f, f = [e EXCEPT !.todo = Tail(@), !.read = @ + 1,
                              !.begun = begun, !.inCallback = calls]
  PROVE  /\ f \in Frame /\ f.loop = e.loop /\ f.todo = Tail(e.todo) /\ f.steps = e.steps
         /\ Head(e.todo) \in Report /\ Tail(e.todo) \in Seq(Report)
  <1> DEFINE rest == Tail(e.todo)
             next == e.read + 1
  <1>1. e.todo \in Seq(Report) /\ e.read \in Nat
    BY DEF Frame
  <1>2. Head(e.todo) \in Report /\ rest \in Seq(Report) /\ next \in Nat
    BY <1>1, HeadTailProperties
  <1>3. f = [e EXCEPT !.todo = rest, !.read = next, !.begun = begun, !.inCallback = calls]
    OBVIOUS
  <1> HIDE DEF rest, next
  <1>4. f \in Frame /\ f.loop = e.loop /\ f.todo = rest /\ f.steps = e.steps
    BY <1>2, <1>3 DEF Frame
  <1> QED BY <1>2, <1>4 DEF rest

LEMMA SettleNextType ==
  ASSUME TypeOK, SettleNext
  PROVE  TypeOK'
  <1>1. Top \in Frame /\ Below \in Seq(Frame) /\ Top.todo \in Seq(Report) /\ Top.todo # <<>>
    BY Peel DEF SettleNext, TypeOK, Frame
  <1>2. Head(Top.todo) \in Report /\ Tail(Top.todo) \in Seq(Report)
    BY <1>1, HeadTailProperties
  <1> DEFINE o == Head(Top.todo)
             calls == Top.loop = "destroy" \/ o.id \in ledger
             f == [Top EXCEPT !.todo = Tail(@), !.read = @ + 1,
                              !.begun = TRUE, !.inCallback = calls]
  <1>3. f \in Frame
    BY <1>1, LookedAt
  <1>4. stack' = Append(Below, f)
    BY DEF SettleNext
  <1> HIDE DEF f
  <1>5. stack' \in Seq(Frame)
    BY <1>1, <1>3, <1>4, AppendProperties
  <1>6. called' \in [Ids -> Nat]
    <2>1. called' = IF calls THEN [called EXCEPT ![o.id] = @ + 1] ELSE called
      BY DEF SettleNext
    <2>2. o.id \in Ids /\ called \in [Ids -> Nat]
      BY <1>2 DEF TypeOK, Report
    <2> HIDE DEF o, calls
    <2>3. [called EXCEPT ![o.id] = @ + 1] \in [Ids -> Nat]
      BY <2>2
    <2> QED BY <2>1, <2>2, <2>3
  <1>7. ledger' \in SUBSET Ids /\ Cardinality(ledger') <= MaxPending
    BY SmallerLedger DEF SettleNext, EntryRemoved
  <1>8. pendingError' \in BOOLEAN
    BY AfterType DEF SettleNext, TypeOK
  <1> QED BY <1>5, <1>6, <1>7, <1>8 DEF SettleNext, TypeOK, Open, rdkafka

LEMMA PassOverType ==
  ASSUME TypeOK, PassOver
  PROVE  TypeOK'
  <1>1. Top \in Frame /\ Below \in Seq(Frame) /\ Top.todo \in Seq(Report) /\ Top.todo # <<>>
    BY Peel DEF PassOver, TypeOK, Frame
  <1>2. Head(Top.todo) \in Report /\ Tail(Top.todo) \in Seq(Report)
    BY <1>1, HeadTailProperties
  <1> DEFINE f == [Top EXCEPT !.todo = Tail(@), !.read = @ + 1,
                              !.begun = FALSE, !.inCallback = FALSE]
  <1>3. f \in Frame
    BY <1>1, LookedAt
  <1>4. stack' = Append(Below, f)
    BY DEF PassOver
  <1> HIDE DEF f
  <1>5. stack' \in Seq(Frame)
    BY <1>1, <1>3, <1>4, AppendProperties
  <1>6. lost' \in SUBSET Ids
    BY <1>2 DEF PassOver, TypeOK, Report
  <1>7. pendingError' \in BOOLEAN
    BY AfterType DEF PassOver, TypeOK
  <1> QED BY <1>5, <1>6, <1>7 DEF PassOver, TypeOK, Open, rdkafka

LEMMA ThrowType ==
  ASSUME TypeOK, Throw
  PROVE  TypeOK'
  <1>1. Top \in Frame /\ Below \in Seq(Frame) /\ Top.todo \in Seq(Report)
    BY Peel DEF Throw, TypeOK, Frame
  <1>2. Due(Top) \subseteq Ids
    BY <1>1, IdsType, DueProperties
  <1> DEFINE f == [Top EXCEPT !.todo = <<>>, !.inCallback = FALSE, !.loop = "none"]
  <1>3. f \in Frame
    BY <1>1, EmptySeq DEF Frame
  <1>4. stack' = Append(Below, f) \/ stack' = Below
    BY DEF Throw
  <1> HIDE DEF f
  <1>5. stack' \in Seq(Frame)
    BY <1>1, <1>3, <1>4, AppendProperties
  <1>6. left' \in [Events -> Nat]
    BY BudgetType DEF Throw, TypeOK, Events
  <1>7. flush' \in Flush
    BY DEF Throw, TypeOK, Flush
  <1> QED BY <1>2, <1>5, <1>6, <1>7 DEF Throw, TypeOK, Open, rdkafka

(* The actions that begin a call, and those that leave the stack alone.    *)
LEMMA BeginType ==
  ASSUME TypeOK,
         ProduceThrowsPending \/ Produce \/ ProduceBadHeaders \/ Poll \/ FlushCall
         \/ Connect \/ Disconnect \/ RunMicrotask \/ Tick \/ FlushStep \/ Ready
         \/ ConnectFails \/ Deliver
  PROVE  TypeOK'
  <1> DEFINE Calls == \E steps \in Seq(Steps) : Call(steps)
  <1>1. /\ <<"flush">> \in Seq(Steps) /\ <<"round">> \in Seq(Steps)
        /\ <<"flush", "round">> \in Seq(Steps) /\ <<"flush", "register">> \in Seq(Steps)
        /\ <<"flush", "round", "check">> \in Seq(Steps) /\ <<"close">> \in Seq(Steps)
        /\ <<"flush", "round", "close">> \in Seq(Steps)
    BY DEF Steps
  <1>2. Calls => stack' \in Seq(Frame)
    BY CallType DEF TypeOK
  <1>3. CASE ProduceThrowsPending
    BY <1>3 DEF ProduceThrowsPending, TypeOK, Open, rdkafka, history
  <1>4. CASE Produce
    <2>1. staging' \in Seq(Ids)
      BY <1>4, TrackType, AppendProperties DEF Produce, TypeOK
    <2>2. stack' \in Seq(Frame)
      BY <1>1, <1>2, <1>4 DEF Produce, TypeOK
    <2>3. microtasks' = microtasks \/ microtasks' = microtasks + 1
      BY <1>4 DEF Produce
    <2>4. scheduled' = scheduled \/ scheduled' = TRUE
      BY <1>4 DEF Produce
    <2>5. scheduled' \in BOOLEAN
      BY <2>4 DEF TypeOK
    <2>8. microtasks' \in Nat
      BY <2>3 DEF TypeOK
    <2>6. UNCHANGED <<phase, session, errOut, pendingError, flush, rdkafka, history>>
      BY <1>4 DEF Produce
    <2>7. ledger' \in SUBSET Ids /\ Cardinality(ledger') <= MaxPending
          /\ nextId' \in 1..(MaxRecords + 1)
      BY <1>4, TrackType DEF Produce
    <2> QED BY <2>1, <2>2, <2>5, <2>6, <2>7, <2>8 DEF TypeOK, Open, rdkafka, history
  <1>5. CASE ProduceBadHeaders
    <2>1. left' \in [Events -> Nat]
      BY <1>5, BudgetType DEF ProduceBadHeaders, TypeOK, Events
    <2> QED BY <1>5, <2>1, TrackType DEF ProduceBadHeaders, TypeOK, Open, rdkafka
  <1>6. CASE Poll
    <2>1. left' \in [Events -> Nat]
      BY <1>6, BudgetType DEF Poll, TypeOK, Events
    <2>2. stack' \in Seq(Frame)
      BY <1>1, <1>2, <1>6 DEF Poll
    <2> QED BY <1>6, <2>1, <2>2 DEF Poll, TypeOK, Open, rdkafka
  <1>7. CASE FlushCall
    <2>1. left' \in [Events -> Nat]
      BY <1>7, BudgetType DEF FlushCall, TypeOK, Events
    <2>2. stack' \in Seq(Frame)
      BY <1>1, <1>2, <1>7 DEF FlushCall
    <2> QED BY <1>7, <2>1, <2>2 DEF FlushCall, TypeOK, Open, rdkafka
  <1>8. CASE Connect
    <2>1. left' \in [Events -> Nat]
      BY <1>8, BudgetType DEF Connect, TypeOK, Events
    <2>2. errOut' \in Seq(ErrArray) /\ errOut' # <<>>
      <3>1. NewErrOut(ErrOutSize) \in ErrArray
        BY ConstantsAssumption DEF NewErrOut, ErrArray
      <3>2. /\ Append(errOut, NewErrOut(ErrOutSize)) \in Seq(ErrArray)
            /\ Len(Append(errOut, NewErrOut(ErrOutSize))) = Len(errOut) + 1
            /\ Len(errOut) \in Nat
        BY <3>1, AppendProperties DEF TypeOK
      <3> QED BY <1>8, <3>2, EmptySeq DEF Connect
    <2> QED BY <1>8, <2>1, <2>2 DEF Connect, TypeOK, Open, rdkafka
  <1>9. CASE Disconnect
    <2>1. left' \in [Events -> Nat]
      BY <1>9, BudgetType DEF Disconnect, TypeOK, Events
    <2>2. stack' \in Seq(Frame)
      BY <1>1, <1>2, <1>9 DEF Disconnect
    <2> QED BY <1>9, <2>1, <2>2 DEF Disconnect, TypeOK, Open, rdkafka
  <1>10. CASE RunMicrotask
    <2>1. stack' \in Seq(Frame)
      BY <1>1, <1>2, <1>10 DEF RunMicrotask
    <2> QED BY <1>10, <2>1 DEF RunMicrotask, TypeOK, Open, rdkafka, history
  <1>11. CASE Tick
    <2>1. stack' \in Seq(Frame)
      BY <1>1, <1>2, <1>11 DEF Tick
    <2> QED BY <1>11, <2>1 DEF Tick, TypeOK, Open, rdkafka, history
  <1>12. CASE FlushStep
    <2>1. stack' \in Seq(Frame) /\ flush' \in Flush
      BY <1>1, <1>2, <1>12 DEF FlushStep, TypeOK, Flush
    <2> QED BY <1>12, <2>1 DEF FlushStep, TypeOK, Open, rdkafka, history
  <1>13. CASE Ready
    BY <1>13 DEF Ready, TypeOK, Open, rdkafka, history
  <1>14. CASE ConnectFails
    <2>1. left' \in [Events -> Nat]
      BY <1>14, BudgetType DEF ConnectFails, TypeOK, Events
    <2>2. lost' \in SUBSET Ids
      BY <1>14, IdsType DEF ConnectFails, TypeOK
    <2>3. reports' \in Seq(Report)
      BY <1>14, EmptySeq DEF ConnectFails, Teardown
    <2> QED BY <1>14, <2>1, <2>2, <2>3 DEF ConnectFails, Teardown, TypeOK, Open
  <1>15. CASE Deliver
    <2>1. PICK id \in outq, ok \in BOOLEAN :
            outq' = outq \ {id} /\ reports' = Append(reports, Outcome(id, ok))
      BY <1>15 DEF Deliver
    <2>2. Outcome(id, ok) \in Report
      BY <2>1 DEF Outcome, Report, TypeOK
    <2>3. reports' \in Seq(Report) /\ outq' \in SUBSET Ids
      BY <2>1, <2>2, AppendProperties DEF TypeOK
    <2> QED BY <1>15, <2>3 DEF Deliver, TypeOK, Open, client, history
  <1> QED BY <1>3, <1>4, <1>5, <1>6, <1>7, <1>8, <1>9, <1>10, <1>11, <1>12, <1>13,
             <1>14, <1>15

(* What the step of flush() makes of it; "ok" needs everything drained.    *)
LEMMA FlushAnswers ==
  ASSUME FlushChecks
  PROVE  \E answer \in {"silent", "ok", "timedOut", "waiting"} :
           /\ flush' = [flush EXCEPT !.state = answer]
           /\ answer = "ok" => SameHandle /\ Drained
  <1>1. PICK timeout \in BOOLEAN :
          flush' = [flush EXCEPT !.state =
                      CASE ~SameHandle -> "silent"
                        [] SameHandle /\ Drained -> "ok"
                        [] SameHandle /\ ~Drained /\ timeout -> "timedOut"
                        [] OTHER -> "waiting"]
    BY DEF FlushChecks
  <1>2. CASE ~SameHandle
    BY <1>1, <1>2
  <1>3. CASE SameHandle /\ Drained
    BY <1>1, <1>3
  <1>4. CASE SameHandle /\ ~Drained
    BY <1>1, <1>4
  <1> QED BY <1>2, <1>3, <1>4

LEMMA ContinueType ==
  ASSUME TypeOK, Continue
  PROVE  TypeOK'
  <1>1. stack \in Seq(Frame) /\ <<>> \in Seq(Report)
    BY EmptySeq DEF TypeOK
  <1>2. CASE FlushStaging
    BY <1>2, FlushStagingType
  <1>3. CASE SettleNext
    BY <1>3, SettleNextType
  <1>9. CASE PassOver
    BY <1>9, PassOverType
  <1>4. CASE Round
    <2>1. PICK n \in 0..Len(reports) :
            /\ AtStep("round") /\ AfterCallback
            /\ reports' = SubSeq(reports, n + 1, Len(reports))
            /\ Loop("round", SubSeq(reports, 1, n))
            /\ UNCHANGED <<phase, session, errOut, ledger, nextId, staging, scheduled, microtasks,
                           flush, outq, history>>
      BY <1>4 DEF Round
    <2>2. Len(reports) \in Nat /\ \A i \in 1..Len(reports) : reports[i] \in Report
      BY LenProperties, ElementOfSeq DEF TypeOK
    <2>3. SubSeq(reports, 1, n) \in Seq(Report)
      BY <2>2, SubSeqProperties
    <2>4. reports' \in Seq(Report)
      BY <2>1, <2>2, SubSeqProperties
    <2>5. stack' \in Seq(Frame)
      BY <1>1, <2>1, <2>3, LoopType DEF Kinds
    <2>6. pendingError' \in BOOLEAN
      BY <2>1, AfterType DEF TypeOK
    <2> QED BY <2>1, <2>4, <2>5, <2>6 DEF TypeOK, Open, history
  <1>5. CASE FlushRegisters
    <2>1. stack' \in Seq(Frame)
      BY <1>1, <1>5, LoopType DEF FlushRegisters, Kinds
    <2>2. pendingError' \in BOOLEAN
      BY <1>5, AfterType DEF FlushRegisters, TypeOK
    <2>3. flush' \in Flush
      <3>1. CASE Open
        BY <1>5, <3>1 DEF FlushRegisters, TypeOK, Flush
      <3>2. CASE ~Open
        BY <1>5, <3>2 DEF FlushRegisters, TypeOK, Flush
      <3> QED BY <3>1, <3>2
    <2> QED BY <1>5, <2>1, <2>2, <2>3 DEF FlushRegisters, TypeOK, Open, rdkafka, history
  <1>6. CASE FlushChecks
    <2>1. stack' \in Seq(Frame)
      BY <1>1, <1>6, LoopType DEF FlushChecks, Kinds
    <2>2. pendingError' \in BOOLEAN
      BY <1>6, AfterType DEF FlushChecks, TypeOK
    <2>3. flush \in Flush
      BY DEF TypeOK
    <2>4. PICK answer \in {"silent", "ok", "timedOut", "waiting"} :
            flush' = [flush EXCEPT !.state = answer]
      BY <1>6, FlushAnswers
    <2>5. flush' \in Flush
      <3>1. answer \in {"none", "waiting", "ok", "timedOut", "notConnected", "silent"}
        BY <2>4
      <3> QED BY <2>3, <2>4, <3>1 DEF Flush
    <2> QED BY <1>6, <2>1, <2>2, <2>5 DEF FlushChecks, TypeOK, Open, rdkafka, history
  <1>7. CASE Close
    <2>1. FailedEntries \in Seq(ledger) /\ ledger \subseteq Ids
      BY FinitelyMany, AscendingProperties DEF TypeOK, FailedEntries
    <2>2. Failures(FailedEntries) \in Seq(Report)
      BY <2>1, FailuresType
    <2>3. stack' \in Seq(Frame)
      BY <1>1, <1>7, <2>2, LoopType DEF Close, Kinds
    <2>4. pendingError' \in BOOLEAN
      BY <1>7, AfterType DEF Close, TypeOK
    <2>5. ledger' \in SUBSET Ids /\ Cardinality(ledger') <= MaxPending
      BY <1>7, SmallerLedger DEF Close
    <2> QED BY <1>1, <1>7, <2>3, <2>4, <2>5 DEF Close, Teardown, TypeOK, Open, history
  <1>8. CASE Return
    <2>1. Below \in Seq(Frame)
      BY <1>8, Peel DEF Return, TypeOK
    <2>2. pendingError' \in BOOLEAN
      BY <1>8, AfterType DEF Return, TypeOK
    <2> QED BY <1>8, <2>1, <2>2 DEF Return, TypeOK, Open, rdkafka, history
  <1> QED BY <1>2, <1>3, <1>4, <1>5, <1>6, <1>7, <1>8, <1>9 DEF Continue

LEMMA NextType ==
  ASSUME TypeOK, [Next]_vars
  PROVE  TypeOK'
  <1>1. CASE Next
    BY <1>1, BeginType, ContinueType, ThrowType DEF Next
  <1>2. CASE UNCHANGED vars
    BY <1>2 DEF vars, client, rdkafka, history, TypeOK, Open
  <1> QED BY <1>1, <1>2

(* TypeOK holds in every state, in particular the ledger never holds more  *)
(* than js.producer.max.pending entries (delivery-ledger.ts, track()).     *)
THEOREM TypeCorrect == Spec => []TypeOK
  BY InitType, NextType, PTL DEF Spec

-----------------------------------------------------------------------------
(* Order.                                                                  *)

LEMMA OrderAtFirst == Init => StagedInOrder
  <1>1. Len(<<>>) = 0 /\ 1..0 = {}
    BY EmptySeq
  <1> QED BY <1>1 DEF Init, StagedInOrder, Rising

(* One more staged record, or one that is not staged.                      *)
LEMMA TrackedOrder ==
  ASSUME TypeOK, StagedInOrder, Produce \/ ProduceBadHeaders
  PROVE  StagedInOrder'
  <1>1. /\ nextId \in Nat /\ nextId' = nextId + 1 /\ handed' = handed
        /\ staging' = staging \/ staging' = Append(staging, nextId)
    BY ConstantsAssumption DEF Produce, ProduceBadHeaders, Track, TypeOK, history
  <1>2. /\ \A i \in 1..Len(handed) : handed[i] \in Nat
        /\ \A i \in 1..Len(staging) : staging[i] \in Nat
        /\ Len(staging) \in Nat
    <2>1. handed \in Seq(Ids) /\ staging \in Seq(Ids) /\ Ids \subseteq Nat
      BY ConstantsAssumption DEF TypeOK, Ids
    <2> QED BY <2>1, ElementOfSeq, LenProperties
  <1>3. CASE staging' = staging
    BY <1>1, <1>2, <1>3 DEF StagedInOrder
  <1>4. CASE staging' = Append(staging, nextId)
    <2>1. /\ Len(staging') = Len(staging) + 1 /\ staging'[Len(staging) + 1] = nextId
          /\ \A i \in 1..Len(staging) : staging'[i] = staging[i]
      BY <1>1, <1>4, TrackType, AppendProperties DEF TypeOK, Produce, ProduceBadHeaders
    <2>2. \A i \in 1..Len(staging') : i \in 1..Len(staging) \/ i = Len(staging) + 1
      BY <1>2, <2>1
    <2>3. Rising(staging')
      <3> SUFFICES ASSUME NEW i \in 1..Len(staging'), NEW j \in 1..Len(staging'), i < j
                   PROVE  staging'[i] < staging'[j]
        BY DEF Rising
      <3>1. i \in 1..Len(staging)
        BY <1>2, <2>1
      <3>2. CASE j \in 1..Len(staging)
        BY <2>1, <3>1, <3>2 DEF StagedInOrder, Rising
      <3>3. CASE j = Len(staging) + 1
        BY <1>2, <2>1, <3>1, <3>3 DEF StagedInOrder
      <3> QED BY <2>2, <3>2, <3>3
    <2>4. \A i \in 1..Len(handed), j \in 1..Len(staging') : handed[i] < staging'[j]
      BY <2>1, <2>2 DEF StagedInOrder
    <2>5. \A i \in 1..Len(handed) : handed[i] < nextId'
      BY <1>1, <1>2 DEF StagedInOrder
    <2>6. \A i \in 1..Len(staging') : staging'[i] < nextId'
      BY <1>1, <1>2, <2>1, <2>2 DEF StagedInOrder
    <2> QED BY <1>1, <2>3, <2>4, <2>5, <2>6 DEF StagedInOrder
  <1> QED BY <1>1, <1>3, <1>4

(* A batch, or what librdkafka took of it, follows what it has.            *)
LEMMA FlushedOrder ==
  ASSUME TypeOK, StagedInOrder, FlushStaging
  PROVE  StagedInOrder'
  <1>1. nextId \in Nat /\ nextId' = nextId /\ staging' = <<>> /\ Len(<<>>) = 0 /\ 1..0 = {}
    BY EmptySeq DEF FlushStaging, StagingTaken, TypeOK
  <1>2. Rising(handed') /\ \A i \in 1..Len(handed') : handed'[i] < nextId
    <2>1. CASE handed' = handed
      BY <2>1 DEF StagedInOrder
    <2>2. CASE FlushBatch
      <3>1. PICK R \in SUBSET DOMAIN staging :
              handed' = handed \o At(staging, DOMAIN staging \ R)
        BY <2>2 DEF FlushBatch
      <3> DEFINE taken == At(staging, DOMAIN staging \ R)
      <3>2. Ids \subseteq Nat /\ DOMAIN staging \ R \subseteq DOMAIN staging
            /\ staging \in Seq(Ids) /\ handed \in Seq(Ids)
        BY ConstantsAssumption DEF Ids, TypeOK
      <3>3. /\ taken \in Seq(Ids) /\ Rising(taken)
            /\ ToSet(taken) = {staging[i] : i \in DOMAIN staging \ R}
        BY <3>2, AtProperties DEF StagedInOrder
      <3>4. \A k \in 1..Len(taken) : \E i \in 1..Len(staging) : taken[k] = staging[i]
        <4>1. DOMAIN taken = 1..Len(taken) /\ DOMAIN staging = 1..Len(staging)
          BY <3>2, <3>3, LenProperties
        <4> QED BY <3>3, <4>1 DEF ToSet
      <3> HIDE DEF taken
      <3>5. /\ Len(handed') = Len(handed) + Len(taken)
            /\ Len(handed) \in Nat /\ Len(taken) \in Nat
            /\ \A i \in 1..Len(handed) + Len(taken) :
                  handed'[i] = IF i <= Len(handed) THEN handed[i] ELSE taken[i - Len(handed)]
        BY <3>1, <3>2, <3>3, ConcatProperties, LenProperties DEF taken
      <3>6. \A i \in 1..Len(handed), k \in 1..Len(taken) : handed[i] < taken[k]
        BY <3>4 DEF StagedInOrder
      <3>7. Rising(handed')
        <4> SUFFICES ASSUME NEW i \in 1..Len(handed'), NEW j \in 1..Len(handed'), i < j
                     PROVE  handed'[i] < handed'[j]
          BY DEF Rising
        <4>1. CASE j <= Len(handed)
          BY <3>5, <4>1 DEF StagedInOrder, Rising
        <4>2. CASE i <= Len(handed) /\ ~(j <= Len(handed))
          BY <3>5, <3>6, <4>2
        <4>3. CASE ~(i <= Len(handed))
          <5>1. /\ i - Len(handed) \in 1..Len(taken) /\ j - Len(handed) \in 1..Len(taken)
                /\ i - Len(handed) < j - Len(handed) /\ ~(j <= Len(handed))
            BY <3>5, <4>3
          <5> QED BY <3>3, <3>5, <4>3, <5>1 DEF Rising
        <4> QED BY <3>5, <4>1, <4>2, <4>3
      <3>8. \A i \in 1..Len(handed') : handed'[i] < nextId
        <4> SUFFICES ASSUME NEW i \in 1..Len(handed') PROVE handed'[i] < nextId
          OBVIOUS
        <4>1. CASE i <= Len(handed)
          BY <3>5, <4>1 DEF StagedInOrder
        <4>2. CASE ~(i <= Len(handed))
          <5>1. i - Len(handed) \in 1..Len(taken)
            BY <3>5, <4>2
          <5> QED BY <3>4, <3>5, <4>2, <5>1 DEF StagedInOrder
        <4> QED BY <4>1, <4>2
      <3> QED BY <3>7, <3>8
    <2> QED BY <2>1, <2>2 DEF FlushStaging, FlushClosed, FlushFails
  <1> QED BY <1>1, <1>2 DEF StagedInOrder, Rising

LEMMA OtherOrder ==
  ASSUME UNCHANGED <<handed, staging, nextId>>, StagedInOrder
  PROVE  StagedInOrder'
  BY DEF StagedInOrder, Rising

LEMMA NextOrder ==
  ASSUME TypeOK, StagedInOrder, [Next]_vars
  PROVE  StagedInOrder'
  <1>1. CASE Produce \/ ProduceBadHeaders
    BY <1>1, TrackedOrder
  <1>2. CASE FlushStaging
    BY <1>2, FlushedOrder
  <1>3. CASE ProduceThrowsPending \/ Poll \/ FlushCall \/ Connect \/ Disconnect
    BY <1>3, OtherOrder
    DEF ProduceThrowsPending, Poll, FlushCall, Connect, Disconnect, rdkafka, history
  <1>4. CASE SettleNext \/ PassOver \/ Round \/ FlushRegisters \/ FlushChecks \/ Close
             \/ Return \/ Throw
    BY <1>4, OtherOrder
    DEF SettleNext, PassOver, Round, FlushRegisters, FlushChecks, Close, Return, Throw, rdkafka, history
  <1>5. CASE RunMicrotask \/ Tick \/ FlushStep \/ Ready \/ ConnectFails \/ Deliver
    BY <1>5, OtherOrder
    DEF RunMicrotask, Tick, FlushStep, Ready, ConnectFails, Deliver, client, rdkafka, history
  <1>6. CASE UNCHANGED vars
    BY <1>6, OtherOrder DEF vars, client, rdkafka, history
  <1> QED BY <1>1, <1>2, <1>3, <1>4, <1>5, <1>6 DEF Next, Continue

(* librdkafka gets every record in the order of the produce() calls, and   *)
(* once: flushes nested in callbacks never overtake one another            *)
(* (producer.ts, produce() and flushStaging()).                            *)
THEOREM HandedInOrderAlways == Spec => []HandedInOrder
  <1>1. StagedInOrder => HandedInOrder
    BY DEF StagedInOrder, Rising, HandedInOrder
  <1> QED BY InitType, OrderAtFirst, NextType, NextOrder, <1>1, PTL DEF Spec

-----------------------------------------------------------------------------
(* What a step does to the outcomes that the calls are still to report.    *)

LEMMA HeadOfTodo ==
  ASSUME NEW todo \in Seq(Report), todo # <<>>
  PROVE  /\ IdsOf(todo) = {Head(todo).id} \union IdsOf(Tail(todo))
         /\ Distinct(todo) => Distinct(Tail(todo)) /\ Head(todo).id \notin IdsOf(Tail(todo))
  <1> DEFINE n == Len(todo)
             rest == Tail(todo)
  <1>1. n \in Nat /\ n > 0 /\ Head(todo) = todo[1]
    BY EmptySeq
  <1>2. rest \in Seq(Report) /\ Len(rest) = n - 1 /\ \A i \in 1..n-1 : rest[i] = todo[i + 1]
    BY HeadTailProperties
  <1> HIDE DEF n, rest
  <1>3. IdsOf(todo) = {todo[i].id : i \in 1..n} /\ IdsOf(rest) = {rest[i].id : i \in 1..n-1}
    BY <1>2 DEF IdsOf, n
  <1>4. \A i \in 1..n : i = 1 \/ (i - 1 \in 1..n-1 /\ todo[i] = rest[i - 1])
    <2> SUFFICES ASSUME NEW i \in 1..n, i # 1
                 PROVE  i - 1 \in 1..n-1 /\ todo[i] = rest[i - 1]
      OBVIOUS
    <2>1. i - 1 \in 1..n-1 /\ (i - 1) + 1 = i
      BY <1>1
    <2> QED BY <1>2, <2>1
  <1>5. \A i \in 1..n-1 : i + 1 \in 1..n /\ rest[i] = todo[i + 1] /\ i + 1 # 1
    BY <1>1, <1>2
  <1>6. 1 \in 1..n
    BY <1>1
  <1>7. IdsOf(todo) = {todo[1].id} \union IdsOf(rest)
    BY <1>3, <1>4, <1>5, <1>6
  <1>8. ASSUME Distinct(todo) PROVE Distinct(rest) /\ todo[1].id \notin IdsOf(rest)
    <2>1. \A k, l \in 1..n : todo[k].id = todo[l].id => k = l
      BY <1>8 DEF Distinct, n
    <2>2. Distinct(rest)
      <3> SUFFICES ASSUME NEW k \in 1..n-1, NEW l \in 1..n-1, rest[k].id = rest[l].id
                   PROVE  k = l
        BY <1>2 DEF Distinct
      <3>1. k + 1 = l + 1
        BY <1>5, <2>1
      <3> QED BY <3>1, <1>1
    <2>3. \A i \in 1..n-1 : rest[i].id # todo[1].id
      BY <1>5, <1>6, <2>1
    <2> QED BY <1>3, <2>2, <2>3
  <1> QED BY <1>1, <1>7, <1>8 DEF rest

(* A frame f that goes on with the rest of what the frame e had to do.     *)
LEMMA DueOfRest ==
  ASSUME NEW e, NEW f, e.todo \in Seq(Report), e.todo # <<>>,
         f.loop = e.loop, f.todo = Tail(e.todo)
  PROVE  /\ Due(e) \subseteq Due(f) \union {Head(e.todo).id}
         /\ e.loop = "batch" /\ Head(e.todo).ok => Due(e) \subseteq Due(f)
  <1> DEFINE n == Len(e.todo)
             asked(todo, i) == e.loop = "batch" => ~todo[i].ok
  <1>1. n \in Nat /\ n > 0 /\ Head(e.todo) = e.todo[1]
    BY EmptySeq
  <1>2. Len(f.todo) = n - 1 /\ \A i \in 1..n-1 : f.todo[i] = e.todo[i + 1]
    BY HeadTailProperties
  <1>3. \A i \in 1..n : i = 1 \/ (i - 1 \in 1..n-1 /\ e.todo[i] = f.todo[i - 1])
    <2> SUFFICES ASSUME NEW i \in 1..n, i # 1
                 PROVE  i - 1 \in 1..n-1 /\ e.todo[i] = f.todo[i - 1]
      OBVIOUS
    <2>1. i - 1 \in 1..n-1 /\ (i - 1) + 1 = i
      BY <1>1
    <2> QED BY <1>2, <2>1
  <1>4. Due(e) = {e.todo[i].id : i \in {j \in 1..n : asked(e.todo, j)}}
    BY DEF Due
  <1>5. Due(f) = {f.todo[i].id : i \in {j \in 1..n-1 : asked(f.todo, j)}}
    BY <1>2 DEF Due
  <1> HIDE DEF n
  <1>6. \A i \in 1..n : asked(e.todo, i) => i = 1 \/ e.todo[i].id \in Due(f)
    <2> SUFFICES ASSUME NEW i \in 1..n, asked(e.todo, i), i # 1
                 PROVE  e.todo[i].id \in Due(f)
      OBVIOUS
    <2>1. i - 1 \in 1..n-1 /\ e.todo[i] = f.todo[i - 1]
      BY <1>3
    <2>2. asked(f.todo, i - 1)
      BY <2>1
    <2> QED BY <1>5, <2>1, <2>2
  <1>7. e.loop = "batch" /\ Head(e.todo).ok => ~asked(e.todo, 1)
    BY <1>1
  <1> QED BY <1>1, <1>4, <1>6, <1>7

LEMMA CalledStack ==
  ASSUME stack \in Seq(Frame), NEW steps \in Seq(Steps), Call(steps),
         Quiet \/ "check" \notin ToSet(steps), StackKept
  PROVE  StackKept' /\ Todo(stack') = Todo(stack) /\ Rejecting' = Rejecting
  <1> DEFINE f == [steps |-> steps, loop |-> "none", todo |-> <<>>,
                   view |-> 0, read |-> 0, begun |-> FALSE, inCallback |-> FALSE]
  <1>1. f \in Frame /\ f.todo = <<>> /\ f.steps = steps
    BY EmptySeq DEF Frame
  <1>2. stack' = Append(stack, f)
    BY DEF Call
  <1> HIDE DEF f
  <1>3. Due(f) = {} /\ Rejects(f) = {} /\ Distinct(f.todo)
    BY <1>1, NothingToReport
  <1>4. Todo(stack') = Todo(stack) /\ ToReject(stack') = ToReject(stack)
    BY <1>1, <1>2, <1>3, OneMoreFrame
  <1>5. EachOnce(stack')
    BY <1>1, <1>2, <1>3, OneMoreOnce DEF StackKept, RejectsOnce
  <1>6. OnlyFirstChecks(stack')
    BY <1>1, <1>2, OneMoreChecks DEF StackKept, Quiet
  <1> QED BY <1>4, <1>5, <1>6 DEF StackKept, RejectsOnce, Rejecting

(* The top of the stack is replaced by f.                                  *)
LEMMA ReplacedTop ==
  ASSUME stack \in Seq(Frame), ~Quiet, StackKept, NEW f \in Frame,
         stack' = Append(Below, f),
         f.loop = "destroy" => Distinct(f.todo),
         Rejects(f) \intersect ToReject(Below) = {},
         ToSet(f.steps) \subseteq ToSet(Top.steps)
  PROVE  /\ StackKept'
         /\ Todo(stack) = Todo(Below) \union Due(Top)
         /\ Todo(stack') = Todo(Below) \union Due(f)
         /\ Rejecting = ToReject(Below) \union Rejects(Top)
         /\ Rejecting' = ToReject(Below) \union Rejects(f)
  <1>1. Top \in Frame /\ Below \in Seq(Frame) /\ stack = Append(Below, Top)
    BY Peel
  <1>2. /\ EachOnce(Below)
        /\ OnlyFirstChecks(Below) /\ (Below # <<>> => "check" \notin ToSet(Top.steps))
    BY <1>1, OneMoreOnce, OneMoreChecks DEF StackKept, RejectsOnce
  <1>3. EachOnce(stack')
    BY <1>1, <1>2, OneMoreOnce
  <1>4. OnlyFirstChecks(stack')
    BY <1>1, <1>2, OneMoreChecks
  <1>5. /\ Todo(stack) = Todo(Below) \union Due(Top)
        /\ ToReject(stack) = ToReject(Below) \union Rejects(Top)
    BY <1>1, OneMoreFrame
  <1>6. /\ Todo(stack') = Todo(Below) \union Due(f)
        /\ ToReject(stack') = ToReject(Below) \union Rejects(f)
    BY <1>1, OneMoreFrame
  <1> QED BY <1>3, <1>4, <1>5, <1>6 DEF StackKept, RejectsOnce, Rejecting

LEMMA PoppedTop ==
  ASSUME stack \in Seq(Frame), ~Quiet, StackKept, stack' = Below
  PROVE  /\ StackKept'
         /\ Todo(stack) = Todo(stack') \union Due(Top)
         /\ Rejecting = Rejecting' \union Rejects(Top)
  <1>1. Top \in Frame /\ Below \in Seq(Frame) /\ stack = Append(Below, Top)
    BY Peel
  <1>2. EachOnce(Below) /\ OnlyFirstChecks(Below)
    BY <1>1, OneMoreOnce, OneMoreChecks DEF StackKept, RejectsOnce
  <1>3. /\ Todo(stack) = Todo(Below) \union Due(Top)
        /\ ToReject(stack) = ToReject(Below) \union Rejects(Top)
    BY <1>1, OneMoreFrame
  <1> QED BY <1>2, <1>3 DEF StackKept, RejectsOnce, Rejecting

LEMMA TailSteps ==
  ASSUME NEW steps \in Seq(Steps), steps # <<>>
  PROVE  ToSet(Tail(steps)) \subseteq ToSet(steps) /\ Head(steps) \in ToSet(steps)
  <1>1. /\ Len(steps) \in Nat /\ Len(steps) > 0 /\ DOMAIN steps = 1..Len(steps)
        /\ Head(steps) = steps[1]
    BY EmptySeq, LenProperties
  <1>2. /\ Tail(steps) \in Seq(Steps) /\ Len(Tail(steps)) = Len(steps) - 1
        /\ \A i \in 1..Len(steps) - 1 : Tail(steps)[i] = steps[i + 1]
    BY HeadTailProperties
  <1>3. DOMAIN Tail(steps) = 1..Len(steps) - 1
    BY <1>2, LenProperties
  <1>4. \A i \in 1..Len(steps) - 1 : i + 1 \in 1..Len(steps)
    BY <1>1
  <1> QED BY <1>1, <1>2, <1>3, <1>4 DEF ToSet

(* The next step of a call begins a loop.                                  *)
LEMMA LoopedWithStack ==
  ASSUME stack \in Seq(Frame), StackKept, NEW step, AtStep(step),
         NEW view \in Nat, NEW kind \in Kinds,
         NEW todo \in Seq(Report), LoopWith(view, kind, todo),
         kind = "destroy" => Distinct(todo) /\ IdsOf(todo) \intersect Rejecting = {}
  PROVE  /\ StackKept'
         /\ Todo(stack') = Todo(stack) \union DueIn(kind, todo)
         /\ Rejecting' = Rejecting \union (IF kind = "destroy" THEN IdsOf(todo) ELSE {})
  <1> DEFINE f == [steps |-> Tail(Top.steps), loop |-> kind, todo |-> todo,
                   view |-> view, read |-> 0, begun |-> FALSE, inCallback |-> FALSE]
  <1>1. /\ ~Quiet /\ Top \in Frame /\ Below \in Seq(Frame) /\ stack = Append(Below, Top)
        /\ Top.steps \in Seq(Steps) /\ Top.steps # <<>> /\ Top.todo = <<>>
    BY Peel DEF AtStep, Frame
  <1>2. Tail(Top.steps) \in Seq(Steps)
    BY <1>1, HeadTailProperties
  <1>3. f \in Frame /\ f.loop = kind /\ f.todo = todo /\ f.steps = Tail(Top.steps)
    BY <1>2 DEF Frame, Kinds
  <1>4. stack' = Append(Below, f)
    BY DEF LoopWith
  <1> HIDE DEF f
  <1>5. Due(Top) = {} /\ Rejects(Top) = {}
    BY <1>1, NothingToReport
  <1>6. Rejects(f) = IF kind = "destroy" THEN IdsOf(todo) ELSE {}
    BY <1>3 DEF Rejects
  <1>7. Rejecting = ToReject(Below)
    <2>1. ToReject(stack) = ToReject(Below) \union Rejects(Top)
      BY <1>1, OneMoreFrame
    <2> QED BY <1>5, <2>1 DEF Rejecting
  <1>8. Rejects(f) \intersect ToReject(Below) = {} /\ (f.loop = "destroy" => Distinct(f.todo))
    BY <1>3, <1>6, <1>7
  <1>9. ToSet(f.steps) \subseteq ToSet(Top.steps)
    BY <1>1, <1>3, TailSteps
  <1>10. Due(f) = DueIn(kind, todo)
    BY <1>3, DueProperties
  <1> QED BY <1>1, <1>3, <1>4, <1>5, <1>6, <1>7, <1>8, <1>9, <1>10, ReplacedTop

LEMMA LoopedStack ==
  ASSUME stack \in Seq(Frame), StackKept, NEW step, AtStep(step),
         NEW kind \in Kinds, kind # "batch",
         NEW todo \in Seq(Report), Loop(kind, todo),
         kind = "destroy" => Distinct(todo) /\ IdsOf(todo) \intersect Rejecting = {}
  PROVE  /\ StackKept'
         /\ Todo(stack') = Todo(stack) \union IdsOf(todo)
         /\ Rejecting' = Rejecting \union (IF kind = "destroy" THEN IdsOf(todo) ELSE {})
  <1>1. LoopWith(0, kind, todo)
    BY DEF Loop
  <1>2. DueIn(kind, todo) = IdsOf(todo)
    BY DueInLoop
  <1> QED BY <1>1, <1>2, LoopedWithStack

(* The next outcome of a loop is reported.                                 *)
LEMMA SettledStack ==
  ASSUME stack \in Seq(Frame), StackKept, SettleNext
  PROVE  /\ StackKept'
         /\ Head(Top.todo) \in Report
         /\ Todo(stack) \subseteq Todo(stack') \union {Head(Top.todo).id}
         /\ IF Top.loop = "destroy"
            THEN /\ Rejecting' = Rejecting \ {Head(Top.todo).id}
                 /\ Head(Top.todo).id \in Rejecting
            ELSE Rejecting' = Rejecting
  <1> DEFINE o == Head(Top.todo)
             calls == Top.loop = "destroy" \/ o.id \in ledger
             f == [Top EXCEPT !.todo = Tail(@), !.read = @ + 1,
                              !.begun = TRUE, !.inCallback = calls]
  <1>1. /\ ~Quiet /\ Top \in Frame /\ Below \in Seq(Frame) /\ stack = Append(Below, Top)
        /\ Top.todo \in Seq(Report) /\ Top.todo # <<>>
    BY Peel DEF SettleNext, Frame
  <1>2. o \in Report /\ Tail(Top.todo) \in Seq(Report)
    BY <1>1, HeadTailProperties
  <1>3. /\ f \in Frame /\ f.loop = Top.loop /\ f.todo = Tail(Top.todo)
        /\ f.steps = Top.steps
    BY <1>1, LookedAt
  <1>4. stack' = Append(Below, f)
    BY DEF SettleNext
  <1> HIDE DEF f
  <1>5. /\ IdsOf(Top.todo) = {o.id} \union IdsOf(f.todo)
        /\ Distinct(Top.todo) => Distinct(f.todo) /\ o.id \notin IdsOf(f.todo)
    BY <1>1, <1>3, HeadOfTodo
  <1>6. Top.loop = "destroy" => Distinct(Top.todo)
    BY <1>1, OneMoreOnce DEF StackKept, RejectsOnce
  <1>7. ToReject(Below) \intersect Rejects(Top) = {}
    BY <1>1, OneMoreOnce DEF StackKept, RejectsOnce
  <1>8. Rejects(f) = IF Top.loop = "destroy" THEN IdsOf(f.todo) ELSE {}
    BY <1>3 DEF Rejects
  <1>9. Rejects(Top) = IF Top.loop = "destroy" THEN IdsOf(Top.todo) ELSE {}
    BY DEF Rejects
  <1>10. /\ StackKept'
         /\ Todo(stack) = Todo(Below) \union Due(Top)
         /\ Todo(stack') = Todo(Below) \union Due(f)
         /\ Rejecting = ToReject(Below) \union Rejects(Top)
         /\ Rejecting' = ToReject(Below) \union Rejects(f)
    <2>1. f.loop = "destroy" => Distinct(f.todo)
      BY <1>3, <1>5, <1>6
    <2>2. Rejects(f) \intersect ToReject(Below) = {}
      BY <1>5, <1>7, <1>8, <1>9
    <2> QED BY <1>1, <1>3, <1>4, <2>1, <2>2, ReplacedTop
  <1>11. Due(Top) \subseteq Due(f) \union {o.id}
    BY <1>1, <1>3, DueOfRest
  <1> QED BY <1>2, <1>5, <1>6, <1>7, <1>8, <1>9, <1>10, <1>11

(* A record of a batch is passed over: only an overwritten code loses it.  *)
LEMMA PassedStack ==
  ASSUME stack \in Seq(Frame), StackKept, PassOver
  PROVE  StackKept' /\ Rejecting' = Rejecting /\ Todo(stack) \subseteq Todo(stack') \union lost'
  <1> DEFINE f == [Top EXCEPT !.todo = Tail(@), !.read = @ + 1,
                              !.begun = FALSE, !.inCallback = FALSE]
  <1>1. /\ ~Quiet /\ Top \in Frame /\ Top.loop = "batch"
        /\ Top.todo \in Seq(Report) /\ Top.todo # <<>>
    BY Peel DEF PassOver, Frame
  <1>2. Tail(Top.todo) \in Seq(Report)
    BY <1>1, HeadTailProperties
  <1>3. /\ f \in Frame /\ f.loop = Top.loop /\ f.todo = Tail(Top.todo)
        /\ f.steps = Top.steps
    BY <1>1, LookedAt
  <1>4. stack' = Append(Below, f)
    BY DEF PassOver
  <1> HIDE DEF f
  <1>5. Rejects(f) = {} /\ Rejects(Top) = {}
    BY <1>1, <1>3 DEF Rejects
  <1>6. /\ StackKept' /\ Rejecting' = Rejecting
        /\ Todo(stack) = Todo(Below) \union Due(Top)
        /\ Todo(stack') = Todo(Below) \union Due(f)
    BY <1>1, <1>3, <1>4, <1>5, ReplacedTop
  <1>7. Due(Top) \subseteq Due(f) \union lost'
    <2>1. CASE Head(Top.todo).ok
      BY <1>1, <1>3, <2>1, DueOfRest
    <2>2. CASE ~Head(Top.todo).ok
      <3>1. Head(Top.todo).id \in lost'
        BY <2>2 DEF PassOver
      <3> QED BY <1>1, <1>3, <3>1, DueOfRest
    <2> QED BY <2>1, <2>2
  <1> QED BY <1>6, <1>7

(* A call ends by an exception, or one round of it does.                   *)
LEMMA ThrownStack ==
  ASSUME stack \in Seq(Frame), StackKept, Throw
  PROVE  /\ StackKept'
         /\ Todo(stack) \subseteq Todo(stack') \union lost'
         /\ Rejecting' \subseteq Rejecting
         /\ Rejecting \subseteq Rejecting' \union lost'
  <1> DEFINE f == [Top EXCEPT !.todo = <<>>, !.inCallback = FALSE, !.loop = "none"]
  <1>1. ~Quiet /\ Top \in Frame /\ Due(Top) \subseteq lost'
    BY Peel DEF Throw
  <1>2. f \in Frame /\ f.todo = <<>> /\ f.steps = Top.steps
    BY <1>1, EmptySeq DEF Frame
  <1>3. stack' = Append(Below, f) \/ stack' = Below
    BY DEF Throw
  <1> HIDE DEF f
  <1>4. Due(f) = {} /\ Rejects(f) = {} /\ Distinct(f.todo)
    BY <1>2, NothingToReport
  <1>5. Rejects(Top) \subseteq Due(Top)
    BY DueProperties
  <1>6. CASE stack' = Append(Below, f)
    BY <1>1, <1>2, <1>4, <1>5, <1>6, ReplacedTop
  <1>7. CASE stack' = Below
    BY <1>1, <1>5, <1>7, PoppedTop
  <1> QED BY <1>3, <1>6, <1>7

(* Every other step keeps what is to be rejected, and adds to what is to   *)
(* be reported.                                                            *)
Other ==
  \/ ProduceThrowsPending \/ Produce \/ ProduceBadHeaders \/ Poll \/ FlushCall \/ Connect
  \/ Disconnect \/ FlushStaging \/ Round \/ FlushRegisters \/ FlushChecks \/ Return
  \/ RunMicrotask \/ Tick \/ FlushStep \/ Ready \/ ConnectFails \/ Deliver
  \/ UNCHANGED vars

LEMMA OtherStack ==
  ASSUME TypeOK, StackKept, Other
  PROVE  StackKept' /\ Rejecting' = Rejecting /\ Todo(stack) \subseteq Todo(stack')
  <1> DEFINE Kept == StackKept' /\ Rejecting' = Rejecting /\ Todo(stack) \subseteq Todo(stack')
  <1> SUFFICES Kept
    OBVIOUS
  <1>1. stack \in Seq(Frame)
    BY DEF TypeOK
  <1>2. ASSUME stack' = stack PROVE Kept
    BY <1>2 DEF StackKept, RejectsOnce, Rejecting
  <1>3. /\ <<"flush">> \in Seq(Steps) /\ <<"round">> \in Seq(Steps)
        /\ <<"flush", "round">> \in Seq(Steps) /\ <<"flush", "register">> \in Seq(Steps)
        /\ <<"flush", "round", "check">> \in Seq(Steps) /\ <<"close">> \in Seq(Steps)
        /\ <<"flush", "round", "close">> \in Seq(Steps)
    BY DEF Steps
  <1>4. /\ "check" \notin ToSet(<<"flush">>) /\ "check" \notin ToSet(<<"round">>)
        /\ "check" \notin ToSet(<<"flush", "round">>)
        /\ "check" \notin ToSet(<<"flush", "register">>) /\ "check" \notin ToSet(<<"close">>)
        /\ "check" \notin ToSet(<<"flush", "round", "close">>)
    BY DEF ToSet
  <1>5. ASSUME NEW steps \in Seq(Steps), Call(steps), Quiet \/ "check" \notin ToSet(steps)
        PROVE  Kept
    BY <1>1, <1>5, CalledStack
  <1>6. ASSUME NEW step, AtStep(step), NEW kind \in {"none", "closed", "failed", "round"},
               NEW todo \in Seq(Report), Loop(kind, todo)
        PROVE  Kept
    BY <1>1, <1>6, LoopedStack DEF Kinds
  <1> HIDE DEF Kept
  <1>7. CASE ProduceThrowsPending \/ ProduceBadHeaders \/ Connect \/ Ready \/ ConnectFails
             \/ Deliver \/ UNCHANGED vars
    BY <1>2, <1>7
    DEF ProduceThrowsPending, ProduceBadHeaders, Connect, Ready, ConnectFails, Deliver, vars, client
  <1>8. CASE Produce \/ RunMicrotask \/ Tick
    BY <1>2, <1>3, <1>4, <1>5, <1>8 DEF Produce, RunMicrotask, Tick
  <1>9. CASE Poll \/ FlushCall \/ Disconnect
    BY <1>3, <1>4, <1>5, <1>9 DEF Poll, FlushCall, Disconnect
  <1>10. CASE FlushStep
    BY <1>2, <1>3, <1>5, <1>10 DEF FlushStep
  <1>11. CASE FlushStaging
    <2>1. AtStep("flush") /\ staging \in Seq(Ids)
      BY <1>11 DEF FlushStaging, TypeOK
    <2>2. CASE FlushClosed \/ FlushFails
      <3>1. Failures(staging) \in Seq(Report)
        BY <2>1, FailuresType
      <3> QED BY <1>6, <2>1, <2>2, <3>1 DEF FlushClosed, ClosedFailures, FlushFails
    <2>3. CASE FlushBatch
      <3>1. PICK view \in Nat, kind \in {"none", "batch"}, todo \in Seq(Report) :
              LoopWith(view, kind, todo)
        BY <2>1, <2>3, BatchTaken
      <3> QED BY <1>1, <2>1, <3>1, LoopedWithStack DEF Kinds, Kept
    <2> QED BY <1>11, <2>2, <2>3 DEF FlushStaging
  <1>12. CASE Round
    <2>1. PICK n \in 0..Len(reports) : AtStep("round") /\ Loop("round", SubSeq(reports, 1, n))
      BY <1>12 DEF Round
    <2>2. Len(reports) \in Nat /\ \A i \in 1..Len(reports) : reports[i] \in Report
      BY LenProperties, ElementOfSeq DEF TypeOK
    <2>3. SubSeq(reports, 1, n) \in Seq(Report)
      BY <2>2, SubSeqProperties
    <2> QED BY <1>6, <2>1, <2>3
  <1>13. CASE FlushRegisters \/ FlushChecks
    <2>1. <<>> \in Seq(Report)
      BY EmptySeq
    <2> QED BY <1>6, <1>13, <2>1 DEF FlushRegisters, FlushChecks
  <1>14. CASE Return
    <2>1. ~Quiet /\ stack' = Below /\ Top.todo = <<>> /\ Top \in Frame
      BY <1>1, <1>14, Peel DEF Return
    <2>2. Due(Top) = {} /\ Rejects(Top) = {}
      BY <2>1, NothingToReport
    <2> QED BY <1>1, <2>1, <2>2, PoppedTop DEF Kept
  <1> QED BY <1>7, <1>8, <1>9, <1>10, <1>11, <1>12, <1>13, <1>14 DEF Other

(* Close takes all entries out of the ledger, to reject each once.         *)
LEMMA ClosedStack ==
  ASSUME TypeOK, StackKept, Accounts, Close
  PROVE  StackKept' /\ ledger' = {} /\ Rejecting' = Rejecting \union ledger
  <1>1. stack \in Seq(Frame) /\ ledger \subseteq Ids /\ AtStep("close")
    BY DEF TypeOK, Close
  <1>2. /\ FailedEntries \in Seq(ledger) /\ Rising(FailedEntries)
        /\ Len(FailedEntries) = Cardinality(ledger)
        /\ \A x \in ledger : \E i \in 1..Cardinality(ledger) : FailedEntries[i] = x
    BY <1>1, FinitelyMany, AscendingProperties DEF FailedEntries
  <1>3. ToSet(FailedEntries) = ledger
    <2>1. /\ DOMAIN FailedEntries = 1..Len(FailedEntries)
          /\ \A i \in 1..Len(FailedEntries) : FailedEntries[i] \in ledger
      BY <1>2, LenProperties, ElementOfSeq
    <2> QED BY <1>2, <2>1 DEF ToSet
  <1>4. /\ Failures(FailedEntries) \in Seq(Report)
        /\ IdsOf(Failures(FailedEntries)) = ledger
        /\ Len(Failures(FailedEntries)) = Len(FailedEntries)
        /\ \A i \in 1..Len(FailedEntries) : Failures(FailedEntries)[i].id = FailedEntries[i]
    BY <1>1, <1>2, <1>3, FailuresType
  <1>5. Distinct(Failures(FailedEntries))
    <2> SUFFICES ASSUME NEW k \in 1..Len(FailedEntries), NEW l \in 1..Len(FailedEntries),
                        FailedEntries[k] = FailedEntries[l]
                 PROVE  k = l
      BY <1>4 DEF Distinct
    <2>1. FailedEntries[k] \in Nat
      BY <1>1, <1>2, ElementOfSeq, FinitelyMany
    <2>2. ~(k < l) /\ ~(l < k)
      BY <1>2, <2>1 DEF Rising
    <2>3. Len(FailedEntries) \in Nat
      BY <1>2, LenProperties
    <2> QED BY <2>2, <2>3
  <1>6. IdsOf(Failures(FailedEntries)) \intersect Rejecting = {}
    BY <1>4 DEF Accounts
  <1>7. Loop("destroy", Failures(FailedEntries)) /\ ledger' = ledger \ ToSet(FailedEntries)
    BY DEF Close
  <1> QED BY <1>1, <1>3, <1>4, <1>5, <1>6, <1>7, LoopedStack DEF Kinds

-----------------------------------------------------------------------------
(* Each record is accounted for.                                           *)

LEMMA RejectingIds ==
  ASSUME stack \in Seq(Frame)
  PROVE  Rejecting \subseteq Ids
  <1>1. \A i \in 1..Len(stack) : stack[i] \in Frame
    BY ElementOfSeq
  <1>2. \A i \in 1..Len(stack) : stack[i].todo \in Seq(Report)
    BY <1>1 DEF Frame
  <1>3. \A i \in 1..Len(stack) : IdsOf(stack[i].todo) \subseteq Ids
    BY <1>2, IdsType
  <1> QED BY <1>3 DEF Rejecting, ToReject, Rejects

LEMMA SameAccounts ==
  ASSUME TypeOK, Accounts, UNCHANGED <<ledger, nextId, called>>,
         Rejecting' \subseteq Rejecting, Rejecting \subseteq Rejecting' \union lost',
         lost \subseteq lost'
  PROVE  Accounts'
  BY DEF Accounts

LEMMA TrackedAccounts ==
  ASSUME TypeOK, StackKept, Accounts, Produce \/ ProduceBadHeaders
  PROVE  Accounts'
  <1>1. Rejecting' = Rejecting
    BY OtherStack DEF Other
  <1>2. /\ nextId \in Ids /\ nextId \in Nat /\ nextId' = nextId + 1
        /\ ledger' = ledger \union {nextId} /\ called' = called /\ lost \subseteq lost'
    BY TrackType, ConstantsAssumption DEF Produce, ProduceBadHeaders, Track, Ids, history
  <1>3. called[nextId] = 0
    <2>1. called[nextId] \in Nat /\ called[nextId] <= 1 /\ (called[nextId] = 1 => nextId < nextId)
      BY <1>2 DEF Accounts, TypeOK
    <2> QED BY <1>2, <2>1
  <1>4. \A id \in ledger \union Rejecting : id < nextId /\ id # nextId
    <2>1. \A id \in ledger \union Rejecting : id < nextId
      BY DEF Accounts
    <2> QED BY <1>2, <2>1
  <1>5. \A id \in Ids : id \in Nat
    BY ConstantsAssumption DEF Ids
  <1>6. \A id \in Ids : called[id] <= 1 /\ (called[id] = 1 => id < nextId')
    BY <1>2, <1>5 DEF Accounts
  <1>7. \A id \in ledger' \union Rejecting : id < nextId' /\ called[id] = 0
    <2> SUFFICES ASSUME NEW id \in ledger' \union Rejecting
                 PROVE  id < nextId' /\ called[id] = 0
      OBVIOUS
    <2>1. CASE id = nextId
      BY <1>2, <1>3, <2>1
    <2>2. CASE id \in ledger \union Rejecting
      <3>1. id < nextId /\ called[id] = 0
        BY <2>2 DEF Accounts
      <3>2. id \in Int
        BY <2>2, <1>4, <1>5, RejectingIds DEF TypeOK, StackKept
      <3> QED BY <1>2, <3>1, <3>2
    <2> QED BY <1>2, <2>1, <2>2
  <1>8. ledger' \intersect Rejecting = {}
    BY <1>2, <1>4 DEF Accounts
  <1>9. \A id \in Ids :
          id < nextId' => id \in ledger' \union Rejecting \union lost' \/ called[id] = 1
    <2> SUFFICES ASSUME NEW id \in Ids, id < nextId', id # nextId
                 PROVE  id \in ledger \union Rejecting \union lost \/ called[id] = 1
      BY <1>2
    <2>1. id < nextId
      BY <1>2, <1>5
    <2> QED BY <2>1 DEF Accounts
  <1> QED BY <1>1, <1>2, <1>6, <1>7, <1>8, <1>9 DEF Accounts

LEMMA SettledAccounts ==
  ASSUME TypeOK, StackKept, Accounts, SettleNext
  PROVE  /\ Accounts'
         /\ \A id \in Ids : called[id] = 1 => called'[id] = 1
  <1> DEFINE x == Head(Top.todo).id
             calls == Top.loop = "destroy" \/ x \in ledger
  <1>1. stack \in Seq(Frame) /\ called \in [Ids -> Nat]
    BY DEF TypeOK
  <1>2. /\ x \in Ids
        /\ IF Top.loop = "destroy" THEN Rejecting' = Rejecting \ {x} /\ x \in Rejecting
           ELSE Rejecting' = Rejecting
    <2>1. Head(Top.todo) \in Report
      BY <1>1, SettledStack
    <2> QED BY <1>1, <2>1, SettledStack DEF Report
  <1>3. /\ ledger' = ledger \ {x} /\ nextId' = nextId /\ lost' = lost
        /\ called' = IF calls THEN [called EXCEPT ![x] = @ + 1] ELSE called
    BY DEF SettleNext, EntryRemoved
  <1> HIDE DEF x
  <1>4. CASE calls
    <2>1. x \in ledger \union Rejecting
      BY <1>2, <1>4
    <2>2. called[x] = 0 /\ x < nextId
      BY <2>1 DEF Accounts
    <2>3. \A id \in Ids : called'[id] = IF id = x THEN 1 ELSE called[id]
      BY <1>1, <1>2, <1>3, <1>4, <2>2
    <2>4. x \notin Rejecting'
      BY <1>2, <1>4 DEF Accounts
    <2>5. Rejecting' \subseteq Rejecting /\ Rejecting \subseteq Rejecting' \union {x}
      BY <1>2
    <2>6. \A id \in ledger' \union Rejecting' : id # x /\ id \in ledger \union Rejecting
      BY <1>3, <2>4, <2>5
    <2>7. \A id \in Ids : called'[id] <= 1 /\ (called'[id] = 1 => id < nextId')
      BY <1>3, <2>2, <2>3 DEF Accounts
    <2>8. Rejecting \subseteq Ids /\ ledger \subseteq Ids
      BY RejectingIds DEF TypeOK
    <2>9. \A id \in ledger' \union Rejecting' : id < nextId' /\ called'[id] = 0
      BY <1>3, <2>3, <2>6, <2>8 DEF Accounts
    <2>10. ledger' \intersect Rejecting' = {}
      BY <1>3, <2>5 DEF Accounts
    <2>11. \A id \in Ids : id < nextId' =>
             id \in ledger' \union Rejecting' \union lost' \/ called'[id] = 1
      BY <1>3, <2>3, <2>5 DEF Accounts
    <2> QED BY <2>3, <2>7, <2>9, <2>10, <2>11 DEF Accounts
  <1>5. CASE ~calls
    <2>1. ledger' = ledger /\ called' = called /\ Rejecting' = Rejecting
      BY <1>2, <1>3, <1>5
    <2> QED BY <1>3, <2>1 DEF Accounts
  <1> QED BY <1>4, <1>5

LEMMA ClosedAccounts ==
  ASSUME TypeOK, StackKept, Accounts, Close
  PROVE  Accounts'
  <1>1. ledger' = {} /\ Rejecting' = Rejecting \union ledger
    BY ClosedStack
  <1>2. UNCHANGED <<nextId, called, lost>>
    BY DEF Close, history
  <1> QED BY <1>1, <1>2 DEF Accounts

(* The parts of the history that only grow.                                *)
LEMMA OtherAccounts ==
  ASSUME TypeOK, StackKept, Accounts, Other
  PROVE  Accounts' /\ called' = called /\ lost \subseteq lost'
  <1>1. CASE Produce \/ ProduceBadHeaders
    <2>1. called' = called /\ lost \subseteq lost'
      BY <1>1 DEF Produce, ProduceBadHeaders, history
    <2> QED BY <1>1, <2>1, TrackedAccounts
  <1>2. ASSUME UNCHANGED <<ledger, nextId, called>>, lost \subseteq lost' PROVE Accounts'
    BY <1>2, OtherStack, SameAccounts
  <1>3. CASE ProduceThrowsPending \/ Poll \/ FlushCall \/ Connect \/ Disconnect
    BY <1>2, <1>3
    DEF ProduceThrowsPending, Poll, FlushCall, Connect, Disconnect, rdkafka, history
  <1>4. CASE FlushStaging \/ Round \/ FlushRegisters \/ FlushChecks \/ Return
    BY <1>2, <1>4 DEF FlushStaging, Round, FlushRegisters, FlushChecks, Return, rdkafka, history
  <1>5. CASE RunMicrotask \/ Tick \/ FlushStep \/ Ready \/ ConnectFails \/ Deliver
    BY <1>2, <1>5
    DEF RunMicrotask, Tick, FlushStep, Ready, ConnectFails, Deliver, client, rdkafka, history
  <1>6. CASE UNCHANGED vars
    BY <1>2, <1>6 DEF vars, client, rdkafka, history
  <1> QED BY <1>1, <1>3, <1>4, <1>5, <1>6 DEF Other

LEMMA StepKinds ==
  ASSUME [Next]_vars
  PROVE  Other \/ SettleNext \/ PassOver \/ Close \/ Throw
  BY DEF Next, Continue, Other

LEMMA NextAccounts ==
  ASSUME TypeOK, StackKept, Accounts, [Next]_vars
  PROVE  /\ StackKept' /\ Accounts' /\ lost \subseteq lost'
         /\ \A id \in Ids : called[id] = 1 => called'[id] = 1
  <1>1. stack \in Seq(Frame)
    BY DEF TypeOK
  <1>2. CASE Other
    BY <1>2, OtherStack, OtherAccounts
  <1>3. CASE SettleNext
    <2>1. lost' = lost
      BY <1>3 DEF SettleNext
    <2> QED BY <1>1, <1>3, <2>1, SettledStack, SettledAccounts
  <1>4. CASE Close
    <2>1. lost' = lost /\ called' = called
      BY <1>4 DEF Close, history
    <2> QED BY <1>4, <2>1, ClosedStack, ClosedAccounts
  <1>5. CASE Throw
    <2>1. lost \subseteq lost' /\ UNCHANGED <<ledger, nextId, called>>
      BY <1>5 DEF Throw
    <2> QED BY <1>1, <1>5, <2>1, ThrownStack, SameAccounts
  <1>6. CASE PassOver
    <2>1. lost \subseteq lost' /\ UNCHANGED <<ledger, nextId, called>>
      BY <1>6 DEF PassOver
    <2> QED BY <1>1, <1>6, <2>1, PassedStack, SameAccounts
  <1> QED BY <1>2, <1>3, <1>4, <1>5, <1>6, StepKinds

-----------------------------------------------------------------------------
(* Where the outcomes of the ledger's entries are to come from.            *)

LEMMA AwaitingIs == Awaiting = ToSet(staging) \union outq \union IdsOf(reports) \union Todo(stack)
  BY DEF Awaiting, InTodo, Todo

LEMMA InitForgetsNothing == Init => NothingForgotten
  BY DEF Init, NothingForgotten

(* A staged batch goes to librdkafka or to the failures.                   *)
LEMMA FlushForgetsNothing ==
  ASSUME TypeOK, StackKept, NothingForgotten, FlushStaging
  PROVE  NothingForgotten'
  <1>1. /\ stack \in Seq(Frame) /\ AtStep("flush") /\ staging \in Seq(Ids)
        /\ ledger' = ledger /\ reports' = reports /\ lost' = lost /\ Ids \subseteq Nat
    BY ConstantsAssumption DEF FlushStaging, TypeOK, Ids
  <1>2. outq \subseteq outq' /\ ToSet(staging) \union Todo(stack) \subseteq outq' \union Todo(stack')
    <2>1. CASE FlushClosed \/ FlushFails
      <3>1. Failures(staging) \in Seq(Report) /\ IdsOf(Failures(staging)) = ToSet(staging)
        BY <1>1, FailuresType
      <3>2. \E kind \in {"closed", "failed"} : Loop(kind, Failures(staging))
        BY <2>1 DEF FlushClosed, ClosedFailures, FlushFails
      <3>3. Todo(stack') = Todo(stack) \union ToSet(staging)
        BY <1>1, <3>1, <3>2, LoopedStack DEF Kinds
      <3>4. outq' = outq
        BY <2>1 DEF FlushClosed, FlushFails
      <3> QED BY <3>3, <3>4
    <2>2. CASE FlushBatch
      <3>1. PICK R \in SUBSET DOMAIN staging :
              /\ outq' = outq \union ToSet(At(staging, DOMAIN staging \ R))
              /\ \E view \in Nat, kind \in {"none", "batch"}, todo \in Seq(Report) :
                   /\ LoopWith(view, kind, todo)
                   /\ DueIn(kind, todo) = {staging[i] : i \in R}
        BY <1>1, <2>2, BatchTaken
      <3>2. R \subseteq DOMAIN staging /\ DOMAIN staging \ R \subseteq DOMAIN staging
        OBVIOUS
      <3>3. ToSet(At(staging, DOMAIN staging \ R)) = {staging[i] : i \in DOMAIN staging \ R}
        BY <1>1, <3>2, AtProperties
      <3>5. Todo(stack') = Todo(stack) \union {staging[i] : i \in R}
        BY <1>1, <3>1, LoopedWithStack DEF Kinds
      <3>6. ToSet(staging) = {staging[i] : i \in R} \union {staging[i] : i \in DOMAIN staging \ R}
        BY <3>2 DEF ToSet
      <3> QED BY <3>1, <3>3, <3>5, <3>6
    <2> QED BY <2>1, <2>2 DEF FlushStaging
  <1>3. Awaiting' = ToSet(staging') \union outq' \union IdsOf(reports') \union Todo(stack')
    BY DEF Awaiting, InTodo, Todo
  <1> QED BY <1>1, <1>2, <1>3, AwaitingIs DEF NothingForgotten

(* Polled reports are the next the round reports.                          *)
LEMMA RoundForgetsNothing ==
  ASSUME TypeOK, StackKept, NothingForgotten, Round
  PROVE  NothingForgotten'
  <1>1. PICK n \in 0..Len(reports) :
          /\ AtStep("round")
          /\ reports' = SubSeq(reports, n + 1, Len(reports))
          /\ Loop("round", SubSeq(reports, 1, n))
          /\ UNCHANGED <<ledger, staging, outq, lost>>
    BY DEF Round, history
  <1> DEFINE polled == SubSeq(reports, 1, n)
             m == Len(reports)
  <1>2. /\ stack \in Seq(Frame) /\ m \in Nat /\ n \in Nat /\ n <= m
        /\ \A i \in 1..m : reports[i] \in Report
    BY LenProperties, ElementOfSeq DEF TypeOK
  <1>3. polled \in Seq(Report) /\ Len(polled) = n /\ \A i \in 1..n : polled[i] = reports[i]
    <2>1. CASE n = 0
      BY <1>2, <2>1, SubSeqEmpty, EmptySeq
    <2>2. CASE n > 0
      BY <1>2, <2>2, SubSeqProperties
    <2> QED BY <1>2, <2>1, <2>2
  <1>4. /\ reports' \in Seq(Report) /\ Len(reports') = m - n
        /\ \A i \in 1..m-n : reports'[i] = reports[n + i]
    <2>1. CASE n = m
      BY <1>1, <1>2, <2>1, SubSeqEmpty, EmptySeq
    <2>2. CASE n < m
      BY <1>1, <1>2, <2>2, SubSeqProperties
    <2> QED BY <1>2, <2>1, <2>2
  <1> HIDE DEF polled, m
  <1>5. \A i \in 1..m : i \in 1..n \/ (i - n \in 1..m-n /\ n + (i - n) = i)
    BY <1>2
  <1>6. IdsOf(reports) \subseteq IdsOf(polled) \union IdsOf(reports')
    <2> SUFFICES ASSUME NEW i \in 1..m PROVE reports[i].id \in IdsOf(polled) \union IdsOf(reports')
      BY DEF IdsOf, m
    <2>1. CASE i \in 1..n
      BY <1>3, <2>1 DEF IdsOf
    <2>2. CASE i - n \in 1..m-n /\ n + (i - n) = i
      <3>1. reports'[i - n] = reports[i]
        BY <1>4, <2>2
      <3> QED BY <1>4, <2>2, <3>1 DEF IdsOf
    <2> QED BY <1>5, <2>1, <2>2
  <1>7. Todo(stack') = Todo(stack) \union IdsOf(polled)
    BY <1>1, <1>2, <1>3, LoopedStack DEF polled, Kinds
  <1>8. Awaiting' = ToSet(staging') \union outq' \union IdsOf(reports') \union Todo(stack')
    BY DEF Awaiting, InTodo, Todo
  <1> QED BY <1>1, <1>6, <1>7, <1>8, AwaitingIs DEF NothingForgotten

LEMMA DeliverForgetsNothing ==
  ASSUME TypeOK, StackKept, NothingForgotten, Deliver
  PROVE  NothingForgotten'
  <1>1. PICK id \in outq, ok \in BOOLEAN :
          /\ outq' = outq \ {id} /\ reports' = Append(reports, Outcome(id, ok))
          /\ UNCHANGED <<ledger, staging, stack, lost>>
    BY DEF Deliver, client, history
  <1>2. Outcome(id, ok) \in Report /\ Outcome(id, ok).id = id /\ reports \in Seq(Report)
    BY <1>1 DEF Outcome, Report, TypeOK
  <1>3. /\ Len(reports') = Len(reports) + 1 /\ Len(reports) \in Nat
        /\ \A i \in 1..Len(reports) : reports'[i] = reports[i]
        /\ reports'[Len(reports) + 1] = Outcome(id, ok)
    BY <1>1, <1>2, AppendProperties, LenProperties
  <1>4. 1..Len(reports) + 1 = 1..Len(reports) \union {Len(reports) + 1}
    BY <1>3
  <1>5. IdsOf(reports') = IdsOf(reports) \union {id}
    BY <1>2, <1>3, <1>4 DEF IdsOf
  <1>6. Awaiting' = ToSet(staging') \union outq' \union IdsOf(reports') \union Todo(stack')
    BY DEF Awaiting, InTodo, Todo
  <1> QED BY <1>1, <1>5, <1>6, AwaitingIs DEF NothingForgotten

LEMMA ProduceForgetsNothing ==
  ASSUME TypeOK, StackKept, NothingForgotten, Produce
  PROVE  NothingForgotten'
  <1>1. /\ staging' = Append(staging, nextId) /\ ledger' = ledger \union {nextId}
        /\ UNCHANGED <<outq, reports, lost>> /\ staging \in Seq(Ids) /\ nextId \in Ids
    BY TrackType DEF Produce, Track, rdkafka, history, TypeOK
  <1>2. /\ Len(staging') = Len(staging) + 1 /\ Len(staging) \in Nat
        /\ \A i \in 1..Len(staging) : staging'[i] = staging[i]
        /\ staging'[Len(staging) + 1] = nextId
        /\ DOMAIN staging = 1..Len(staging) /\ DOMAIN staging' = 1..Len(staging')
    BY <1>1, AppendProperties, LenProperties
  <1>3. 1..Len(staging) + 1 = 1..Len(staging) \union {Len(staging) + 1}
    BY <1>2
  <1>4. ToSet(staging') = ToSet(staging) \union {nextId}
    BY <1>2, <1>3 DEF ToSet
  <1>5. Todo(stack) \subseteq Todo(stack')
    BY OtherStack DEF Other
  <1>6. Awaiting' = ToSet(staging') \union outq' \union IdsOf(reports') \union Todo(stack')
    BY DEF Awaiting, InTodo, Todo
  <1> QED BY <1>1, <1>4, <1>5, <1>6, AwaitingIs DEF NothingForgotten

LEMMA NextForgetsNothing ==
  ASSUME TypeOK, StackKept, Accounts, NothingForgotten, [Next]_vars
  PROVE  NothingForgotten'
  <1>1. Awaiting' = ToSet(staging') \union outq' \union IdsOf(reports') \union Todo(stack')
    BY DEF Awaiting, InTodo, Todo
  <1>2. stack \in Seq(Frame)
    BY DEF TypeOK
  <1>3. ASSUME Other, UNCHANGED <<ledger, staging, outq, reports>>, lost \subseteq lost'
        PROVE  NothingForgotten'
    BY <1>1, <1>3, AwaitingIs, OtherStack DEF NothingForgotten
  <1>4. CASE Produce \/ FlushStaging \/ Round \/ Deliver
    BY <1>4, ProduceForgetsNothing, FlushForgetsNothing, RoundForgetsNothing,
       DeliverForgetsNothing
  <1>5. CASE ProduceThrowsPending \/ Poll \/ FlushCall \/ Connect \/ Disconnect
    BY <1>3, <1>5
    DEF Other, ProduceThrowsPending, Poll, FlushCall, Connect, Disconnect, rdkafka, history
  <1>6. CASE FlushRegisters \/ FlushChecks \/ Return
    BY <1>3, <1>6 DEF Other, FlushRegisters, FlushChecks, Return, rdkafka, history
  <1>7. CASE RunMicrotask \/ Tick \/ FlushStep \/ Ready
    BY <1>3, <1>7 DEF Other, RunMicrotask, Tick, FlushStep, Ready, rdkafka, history
  <1>8. CASE UNCHANGED vars
    BY <1>3, <1>8 DEF Other, vars, client, rdkafka, history
  <1>9. CASE ProduceBadHeaders
    <2>1. /\ ledger' = ledger \union {nextId} /\ lost' = lost \union {nextId}
          /\ UNCHANGED <<staging, outq, reports, stack>>
      BY <1>9 DEF ProduceBadHeaders, Track, rdkafka
    <2> QED BY <1>1, <2>1, AwaitingIs DEF NothingForgotten
  <1>10. CASE ConnectFails
    <2>1. /\ lost' = lost \union outq \union IdsOf(reports)
          /\ UNCHANGED <<ledger, staging, stack>>
      BY <1>10 DEF ConnectFails
    <2> QED BY <1>1, <2>1, AwaitingIs DEF NothingForgotten
  <1>11. CASE SettleNext
    <2>1. /\ ledger' = ledger \ {Head(Top.todo).id}
          /\ UNCHANGED <<staging, outq, reports, lost>>
      BY <1>11 DEF SettleNext, EntryRemoved, rdkafka
    <2>2. Todo(stack) \subseteq Todo(stack') \union {Head(Top.todo).id}
      BY <1>2, <1>11, SettledStack
    <2> QED BY <1>1, <2>1, <2>2, AwaitingIs DEF NothingForgotten
  <1>12. CASE Close
    BY <1>12, ClosedStack DEF NothingForgotten
  <1>13. CASE Throw
    <2>1. lost \subseteq lost' /\ UNCHANGED <<ledger, staging, outq, reports>>
      BY <1>13 DEF Throw, rdkafka
    <2>2. Todo(stack) \subseteq Todo(stack') \union lost'
      BY <1>2, <1>13, ThrownStack
    <2> QED BY <1>1, <2>1, <2>2, AwaitingIs DEF NothingForgotten
  <1>14. CASE PassOver
    <2>1. lost \subseteq lost' /\ UNCHANGED <<ledger, staging, outq, reports>>
      BY <1>14 DEF PassOver, rdkafka
    <2>2. Todo(stack) \subseteq Todo(stack') \union lost'
      BY <1>2, <1>14, PassedStack
    <2> QED BY <1>1, <2>1, <2>2, AwaitingIs DEF NothingForgotten
  <1> QED BY <1>4, <1>5, <1>6, <1>7, <1>8, <1>9, <1>10, <1>11, <1>12, <1>13, <1>14
          DEF Next, Continue

-----------------------------------------------------------------------------
(* The closed handle, and flush().                                         *)

LEMMA NextClosedIsEmpty ==
  ASSUME TypeOK, ClosedIsEmpty, [Next]_vars
  PROVE  ClosedIsEmpty'
  <1>1. CASE FlushStaging
    BY <1>1 DEF FlushStaging, FlushClosed, FlushBatch, FlushFails, ClosedIsEmpty, Open
  <1>2. CASE Round
    <2>1. reports = <<>> => reports' = <<>>
      BY <1>2, EmptySeq, SubSeqEmpty DEF Round
    <2> QED BY <1>2, <2>1 DEF Round, ClosedIsEmpty
  <1>3. CASE Deliver
    BY <1>3 DEF Deliver, ClosedIsEmpty, client
  <1>4. CASE ConnectFails \/ Close
    BY <1>4 DEF ConnectFails, Close, Teardown, ClosedIsEmpty
  <1>5. CASE Connect \/ Ready
    BY <1>5 DEF Connect, Ready, ClosedIsEmpty
  <1>6. CASE ProduceThrowsPending \/ Produce \/ ProduceBadHeaders \/ Poll \/ FlushCall \/ Disconnect
    BY <1>6 DEF ProduceThrowsPending, Produce, ProduceBadHeaders, Poll, FlushCall, Disconnect,
                rdkafka, ClosedIsEmpty
  <1>7. CASE SettleNext \/ PassOver \/ FlushRegisters \/ FlushChecks \/ Return \/ Throw
    BY <1>7 DEF SettleNext, PassOver, FlushRegisters, FlushChecks, Return, Throw, rdkafka, ClosedIsEmpty
  <1>8. CASE RunMicrotask \/ Tick \/ FlushStep \/ UNCHANGED vars
    BY <1>8 DEF RunMicrotask, Tick, FlushStep, vars, client, rdkafka, ClosedIsEmpty
  <1> QED BY <1>1, <1>2, <1>3, <1>4, <1>5, <1>6, <1>7, <1>8 DEF Next, Continue

(* The step that checks flush() runs alone: nothing is left to reject.     *)
LEMMA CheckedAlone ==
  ASSUME TypeOK, StackKept, FlushChecks
  PROVE  Rejecting = {}
  <1>1. /\ stack \in Seq(Frame) /\ ~Quiet /\ Top.todo = <<>> /\ Top.steps # <<>>
        /\ Head(Top.steps) = "check"
    BY DEF TypeOK, FlushChecks, AtStep
  <1>2. Top \in Frame /\ Below \in Seq(Frame) /\ stack = Append(Below, Top)
    BY <1>1, Peel
  <1>3. "check" \in ToSet(Top.steps)
    BY <1>1, <1>2, TailSteps DEF Frame
  <1>4. Below = <<>>
    BY <1>2, <1>3, OneMoreChecks DEF StackKept
  <1>5. Rejects(Top) = {} /\ ToReject(<<>>) = {}
    BY <1>1, <1>2, NothingToReport
  <1>6. ToReject(stack) = ToReject(Below) \union Rejects(Top)
    BY <1>2, OneMoreFrame
  <1> QED BY <1>4, <1>5, <1>6 DEF Rejecting

LEMMA NextFlush ==
  ASSUME TypeOK, StackKept, Accounts, KnowsItsRecords, FlushMeansReported, [Next]_vars
  PROVE  KnowsItsRecords' /\ FlushMeansReported'
  <1>1. /\ lost \subseteq lost'
        /\ \A id \in Ids : called[id] = 1 => called'[id] = 1
    BY NextAccounts
  <1>2. flush.below \in Nat /\ nextId \in Nat /\ flush \in Flush
    BY ConstantsAssumption DEF TypeOK, Flush
  <1>3. ASSUME flush' = flush PROVE FlushMeansReported'
    BY <1>1, <1>3 DEF FlushMeansReported
  <1>4. ASSUME flush'.state # "ok" PROVE FlushMeansReported'
    BY <1>4 DEF FlushMeansReported
  <1>5. CASE FlushChecks
    <2>1. PICK answer \in {"silent", "ok", "timedOut", "waiting"} :
            /\ flush' = [flush EXCEPT !.state = answer]
            /\ answer = "ok" => SameHandle /\ Drained
      BY <1>5, FlushAnswers
    <2>2. flush'.state = answer /\ flush'.below = flush.below
      BY <1>2, <2>1 DEF Flush
    <2>3. UNCHANGED <<nextId, called, lost>>
      BY <1>5 DEF FlushChecks, history
    <2>4. CASE answer = "ok"
      <3>1. ledger = {} /\ Rejecting = {}
        BY <1>5, <2>1, <2>4, CheckedAlone DEF Drained
      <3>2. \A id \in Ids : id < nextId => id \in lost \/ called[id] = 1
        BY <3>1 DEF Accounts
      <3>3. \A id \in Ids : id < flush.below => id < nextId
        BY <1>2, ConstantsAssumption DEF KnowsItsRecords, Ids
      <3> QED BY <2>2, <2>3, <3>2, <3>3 DEF KnowsItsRecords, FlushMeansReported
    <2> QED BY <1>4, <2>2, <2>3, <2>4 DEF KnowsItsRecords
  <1>6. CASE FlushRegisters
    <2>1. nextId' = nextId
      BY <1>6 DEF FlushRegisters
    <2>2. CASE Open
      <3>1. flush' = [state |-> "waiting", session |-> session, below |-> nextId]
        BY <1>6, <2>2 DEF FlushRegisters
      <3> QED BY <1>2, <1>4, <2>1, <3>1 DEF KnowsItsRecords
    <2>3. CASE ~Open
      <3>1. flush' = [flush EXCEPT !.state = "notConnected"]
        BY <1>6, <2>3 DEF FlushRegisters
      <3>2. flush'.state = "notConnected" /\ flush'.below = flush.below
        BY <1>2, <3>1 DEF Flush
      <3> QED BY <1>4, <2>1, <3>2 DEF KnowsItsRecords
    <2> QED BY <2>2, <2>3
  <1>7. CASE FlushStep \/ Throw
    <2>1. nextId' = nextId /\ (flush' = flush \/ \E answer \in {"notConnected", "silent"} :
                                 flush' = [flush EXCEPT !.state = answer])
      BY <1>7 DEF FlushStep, Throw
    <2>2. CASE flush' = flush
      BY <1>3, <2>1, <2>2 DEF KnowsItsRecords
    <2>3. CASE flush' # flush
      <3>1. PICK answer \in {"notConnected", "silent"} : flush' = [flush EXCEPT !.state = answer]
        BY <2>1, <2>3
      <3>2. flush'.state = answer /\ flush'.below = flush.below
        BY <1>2, <3>1 DEF Flush
      <3> QED BY <1>4, <2>1, <3>1, <3>2 DEF KnowsItsRecords
    <2> QED BY <2>2, <2>3
  <1>8. ASSUME flush' = flush, nextId' = nextId \/ nextId' = nextId + 1
        PROVE  KnowsItsRecords' /\ FlushMeansReported'
    BY <1>2, <1>3, <1>8 DEF KnowsItsRecords
  <1>9. CASE ProduceThrowsPending \/ Produce \/ ProduceBadHeaders \/ Poll \/ FlushCall
             \/ Connect \/ Disconnect
    BY <1>8, <1>9 DEF ProduceThrowsPending, Produce, ProduceBadHeaders, Track, Poll, FlushCall,
                      Connect, Disconnect
  <1>10. CASE FlushStaging \/ SettleNext \/ PassOver \/ Round \/ Close \/ Return
    BY <1>8, <1>10 DEF FlushStaging, SettleNext, PassOver, Round, Close, Return
  <1>11. CASE RunMicrotask \/ Tick \/ Ready \/ ConnectFails \/ Deliver \/ UNCHANGED vars
    BY <1>8, <1>11 DEF RunMicrotask, Tick, Ready, ConnectFails, Deliver, vars, client
  <1> QED BY <1>5, <1>6, <1>7, <1>9, <1>10, <1>11 DEF Next, Continue

-----------------------------------------------------------------------------
LEMMA InitInv == Init => Inv
  <1> SUFFICES ASSUME Init PROVE Inv
    OBVIOUS
  <1>1. stack = <<>> /\ Todo(stack) = {} /\ Rejecting = {} /\ RejectsOnce
        /\ OnlyFirstChecks(stack)
    BY NothingToReport DEF Init, RejectsOnce, Rejecting
  <1>2. Accounts
    BY <1>1, ConstantsAssumption DEF Init, Accounts, Ids
  <1>3. KnowsItsRecords /\ FlushMeansReported
    BY DEF Init, KnowsItsRecords, FlushMeansReported
  <1> QED BY <1>1, <1>2, <1>3, InitType, OrderAtFirst, InitForgetsNothing
          DEF Inv, StackKept, Init, ClosedIsEmpty

LEMMA NextInv ==
  ASSUME Inv, [Next]_vars
  PROVE  Inv'
  <1>1. TypeOK /\ StackKept /\ Accounts /\ KnowsItsRecords
    BY DEF Inv
  <1>2. TypeOK' /\ StackKept' /\ Accounts'
    BY <1>1, NextType, NextAccounts
  <1>3. NothingForgotten' /\ ClosedIsEmpty' /\ StagedInOrder'
    BY <1>1, NextForgetsNothing, NextClosedIsEmpty, NextOrder DEF Inv
  <1>4. KnowsItsRecords' /\ FlushMeansReported'
    BY <1>1, NextFlush DEF Inv
  <1> QED BY <1>2, <1>3, <1>4 DEF Inv

(* Each record's outcome is reported at most once and never forgotten but  *)
(* by an exception, a failed connect() or an overwritten error code; it is *)
(* settled when the producer closes and before flush() answers             *)
(* (delivery-ledger.ts, flushStaging(), disconnect() and flush()).         *)
THEOREM ReportedOnceAlways == Spec => []ReportedOnce
  <1>1. Inv => ReportedOnce
    <2> SUFFICES ASSUME Inv PROVE ReportedOnce
      OBVIOUS
    <2>1. CalledAtMostOnce
      BY DEF Inv, Accounts, CalledAtMostOnce
    <2>2. ClosedMeansSettled
      <3> SUFFICES ASSUME phase = "none", Quiet PROVE ledger \subseteq ToSet(staging) \union lost
        BY DEF ClosedMeansSettled
      <3>1. outq = {} /\ reports = <<>> /\ stack = <<>>
        BY DEF Inv, ClosedIsEmpty, Quiet
      <3>2. IdsOf(reports) = {} /\ Todo(stack) = {}
        BY <3>1, NothingToReport
      <3> QED BY <3>1, <3>2, AwaitingIs DEF Inv, NothingForgotten
    <2> QED BY <2>1, <2>2 DEF Inv, ReportedOnce
  <1> QED BY InitInv, NextInv, <1>1, PTL DEF Spec
================================================================================

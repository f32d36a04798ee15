------------------------ MODULE AdminClient_proofs -------------------------
(***************************************************************************)
(* AdminClient, for any methods, arguments, names and bounds: a request    *)
(* without an answer is on its way to one, what a call tells the user is   *)
(* what the broker did, and a disconnected admin leaves no handle open.    *)
(* None of these is inductive.  AdminInv adds what they rest on: a request *)
(* has one job in the microtask queue at most, which says whether it has   *)
(* an answer yet; who is registered waits for nothing else; nothing else   *)
(* happens before the first metadata of connect(); an answer to a write    *)
(* tells of each of its names; and a call that writes asks for all its     *)
(* names.  Steps are proved by what they do to the requests: answer some   *)
(* (AnswersInv), make new ones (CollectStep, CallInv), only pass jobs on   *)
(* (JobsInv), or leave them to librdkafka and the poll (ServerStep).       *)
(***************************************************************************)
EXTENDS AdminClient, Integers, SequenceTheorems, FunctionTheorems,
        FiniteSetTheorems, WellFoundedInduction, TLAPS

-----------------------------------------------------------------------------
(* What Ascending and SetToSeq return.                                     *)
Rising(seq) == \A i, j \in 1..Len(seq) : i < j => seq[i] < seq[j]

(* A finite set of numbers can be put in ascending order: a smallest set   *)
(* without such an order would be without its minimum, which comes first.  *)
InAscent(s) == \A i, j \in DOMAIN s : i < j => s[i] < s[j]

LEMMA LeastNumber ==
  ASSUME NEW S, S \subseteq Nat, S # {}
  PROVE  \E m \in S : \A n \in S : m <= n
  <1>1. PICK m \in S : \A n \in S : ~ (<<n, m>> \in OpToRel(<, Nat))
    BY WFMin, NatLessThanWellFounded
  <1>2. \A n \in S : ~ (n < m)
    BY <1>1 DEF OpToRel
  <1> QED BY <1>2

LEMMA AscentExists ==
  ASSUME NEW S, S \subseteq Nat, IsFiniteSet(S)
  PROVE  \E s \in [1..Cardinality(S) -> S] : InAscent(s)
  <1> DEFINE HasAscent(T) == \E s \in [1..Cardinality(T) -> T] : InAscent(s)
             Bad == {n \in Nat : \E T \in SUBSET Nat :
                       IsFiniteSet(T) /\ Cardinality(T) = n /\ ~HasAscent(T)}
  <1>1. SUFFICES ASSUME ~HasAscent(S) PROVE FALSE
    OBVIOUS
  <1>2. Bad # {}
    BY <1>1, FS_CardinalityType
  <1>3. PICK n \in Bad : \A m \in Bad : n <= m
    BY <1>2, LeastNumber
  <1>4. PICK T \in SUBSET Nat : IsFiniteSet(T) /\ Cardinality(T) = n /\ ~HasAscent(T)
    BY <1>3
  <1>5. n \in Nat
    BY <1>3
  <1>6. T # {}
    <2>1. ASSUME T = {} PROVE FALSE
      <3>1. Cardinality(T) = 0
        BY <2>1, FS_EmptySet
      <3>2. [i \in 1..0 |-> i] \in [1..Cardinality(T) -> T] /\ InAscent([i \in 1..0 |-> i])
        BY <3>1 DEF InAscent
      <3> QED BY <3>2, <1>4
    <2> QED BY <2>1
  <1>7. PICK m \in T : \A k \in T : m <= k
    BY <1>6, LeastNumber
  <1>8. IsFiniteSet(T \ {m}) /\ Cardinality(T \ {m}) = n - 1 /\ n - 1 \in Nat
    <2>1. IsFiniteSet(T \ {m}) /\ Cardinality(T \ {m}) = n - 1
      BY <1>4, <1>7, FS_RemoveElement
    <2> QED BY <2>1, FS_CardinalityType
  <1>9. HasAscent(T \ {m})
    <2>1. n - 1 \notin Bad
      BY <1>3, <1>5
    <2> QED BY <2>1, <1>8
  <1>10. PICK s \in [1..n-1 -> T \ {m}] : InAscent(s)
    BY <1>8, <1>9
  <1> DEFINE t == [i \in 1..n |-> IF i = 1 THEN m ELSE s[i - 1]]
  <1>11. t \in [1..n -> T]
    BY <1>5, <1>7, <1>10
  <1>12. InAscent(t)
    <2> SUFFICES ASSUME NEW i \in 1..n, NEW j \in 1..n, i < j PROVE t[i] < t[j]
      BY DEF InAscent
    <2>1. t[j] = s[j - 1] /\ j - 1 \in 1..n-1 /\ s[j - 1] \in T \ {m}
      BY <1>5, <1>10
    <2>2. CASE i = 1
      <3>1. m <= s[j - 1] /\ m # s[j - 1] /\ m \in Nat /\ s[j - 1] \in Nat
        BY <2>1, <1>7
      <3> QED BY <2>1, <2>2, <3>1
    <2>3. CASE i # 1
      <3>1. t[i] = s[i - 1] /\ i - 1 \in 1..n-1 /\ i - 1 < j - 1
        BY <2>3, <1>5
      <3> QED BY <3>1, <2>1, <1>10 DEF InAscent
    <2> QED BY <2>2, <2>3
  <1> QED BY <1>4, <1>11, <1>12

(* Ascending(S) is the members of S, each once, in ascending order.        *)
LEMMA AscendingProperties ==
  ASSUME NEW S, S \subseteq Nat, IsFiniteSet(S)
  PROVE  /\ Ascending(S) \in Seq(S) /\ Len(Ascending(S)) = Cardinality(S)
         /\ Cardinality(S) \in Nat
         /\ Rising(Ascending(S))
         /\ \A x \in S : \E i \in 1..Cardinality(S) : Ascending(S)[i] = x
  <1> DEFINE a == Ascending(S)
             n == Cardinality(S)
  <1>1. n \in Nat
    BY FS_CardinalityType
  <1>2. a \in [1..n -> S] /\ InAscent(a)
    BY AscentExists DEF Ascending, InAscent
  <1>3. a \in Seq(S) /\ Len(a) = n
    BY <1>1, <1>2, IsASeq
  <1>4. Rising(a)
    BY <1>2, <1>3 DEF InAscent, Rising
  <1>5. a \in Injection(1..n, S)
    <2>1. \A i, j \in 1..n : a[i] = a[j] => i = j
      <3> SUFFICES ASSUME NEW i \in 1..n, NEW j \in 1..n, a[i] = a[j], i # j PROVE FALSE
        OBVIOUS
      <3>1. a[i] \in Nat /\ a[j] \in Nat
        BY <1>2
      <3>2. a[i] < a[j] \/ a[j] < a[i]
        BY <1>1, <1>2 DEF InAscent
      <3> QED BY <3>1, <3>2
    <2> QED BY <1>2, <2>1 DEF Injection, IsInjective
  <1>6. Cardinality(1..n) = n
    BY <1>1, FS_Interval
  <1>7. a \in Surjection(1..n, S)
    BY <1>5, <1>6, FS_Injection
  <1> QED BY <1>1, <1>3, <1>4, <1>7 DEF Surjection

(* SetToSeq(S) lists a finite set.                                         *)
LEMMA SetToSeqLists ==
  ASSUME NEW S, IsFiniteSet(S)
  PROVE  /\ SetToSeq(S) \in Seq(S)
         /\ \A x \in S : \E i \in 1..Len(SetToSeq(S)) : SetToSeq(S)[i] = x
  <1> DEFINE n == Cardinality(S)
             Lists(f) == \A a, b \in DOMAIN f : f[a] = f[b] => a = b
  <1>1. n \in Nat /\ ExistsBijection(1..n, S)
    BY FS_CardinalityType
  <1>2. \E f \in [1..n -> S] : Lists(f)
    BY <1>1 DEF ExistsBijection, Bijection, Injection, IsInjective
  <1>3. SetToSeq(S) \in [1..n -> S] /\ Lists(SetToSeq(S))
    BY <1>2 DEF SetToSeq, IsInjective
  <1>4. SetToSeq(S) \in Injection(1..n, S)
    BY <1>3 DEF Injection, IsInjective
  <1>5. SetToSeq(S) \in Surjection(1..n, S)
    <2>1. Cardinality(1..n) = n
      BY <1>1, FS_Interval
    <2> QED BY <1>4, <2>1, FS_Injection
  <1>6. SetToSeq(S) \in Seq(S) /\ Len(SetToSeq(S)) = n
    BY <1>1, <1>3
  <1> QED BY <1>5, <1>6 DEF Surjection

(* The shapes of what is kept.                                             *)
Ops == {"CREATE_TOPICS", "DELETE_TOPICS", "CREATE_PARTITIONS", "METADATA", "LIST_GROUPS",
        "DESCRIBE_GROUPS", "DELETE_GROUPS", "LIST_CONSUMER_GROUP_OFFSETS", "DELETE_RECORDS",
        "LIST_OFFSETS", "DESCRIBE_TOPICS", "WATERMARK"}
Codings == {"ok", "exists", "failed"}
Items == UNION {[S -> Codings] : S \in SUBSET Names}
Errors == {"", "FAILED", "DESTROY", "STATE", "DECODE", "BAD_ARGS", "TIMED_OUT"}
Replies == [err : Errors, items : Items]
Questions == [op : Ops, names : Seq(Names)]
Requests == [op : Ops, names : Seq(Names), call : Nat, answer : Replies \cup {NoAnswer}]
Calls == [method : Methods, args : Seq(Names), found : Seq(Names), stage : Nat \ {0},
          ids : SUBSET Nat, result : {"none", "resolved", "rejected", "false"}]
Jobs == [do : {"metadata", "nativeFailed", "closed", "request", "query", "settled", "empty"},
         id : Nat, hops : Nat]
Events == [id : Nat, answer : Replies]

Shapes ==
  /\ requests \in Seq(Requests) /\ calls \in Seq(Calls) /\ micro \in Seq(Jobs)
  /\ events \in Seq(Events) /\ batch \in Seq(Events)

(* The jobs about a request, and the requests a queue has a job about.     *)
OfRequest == {"request", "query", "settled"}
Waiting(q) == {job.id : job \in {x \in ToSet(q) : x.do \in OfRequest}}
Distinct(q) ==
  \A j, k \in 1..Len(q) :
    q[j].do \in OfRequest /\ q[k].do \in OfRequest /\ q[j].id = q[k].id => j = k
Unanswered(id) == requests[id].answer = NoAnswer

(* A request has one job at most, which hands its answer on once there is  *)
(* one, and asks for it before.                                            *)
JobKnown(job) ==
  /\ job.do \in OfRequest => job.id \in Ids /\ (job.do = "settled" <=> ~ Unanswered(job.id))
  /\ job.do = "query" => requests[job.id].op \in {"METADATA", "WATERMARK"}
  /\ job.do = "empty" => job.id \in DOMAIN calls
QueueInv == Distinct(micro) /\ \A job \in ToSet(micro) : JobKnown(job)

(* Requests belong to a call, but for the first of a connect(); who is     *)
(* registered waits for nothing else.                                      *)
RequestsInv ==
  /\ \A id \in Ids : requests[id].call = 0 => id = 1 /\ ~ hosted /\ requests[id].op = "METADATA"
  /\ \A id \in registered :
       requests[id].op # "METADATA" /\ Unanswered(id) /\ id \notin Waiting(micro)
  /\ \A e \in ToSet(events) \cup ToSet(batch) : e.id \in Ids
  /\ \A c \in DOMAIN calls : /\ calls[c].ids \subseteq Ids
                             /\ calls[c].method \in NeedsName => calls[c].args # <<>>

(* Before the handle's first metadata nothing else was asked for.          *)
Starters == {"metadata", "nativeFailed"}
StartsAlone(q) ==
  \A j \in 1..Len(q) : q[j].do \in Starters => \A k \in 1..Len(q) : k # j => q[k].do = "closed"
StartInv ==
  /\ state = "INIT" => /\ requests = <<>> /\ calls = <<>> /\ micro = <<>> /\ ~ disconnected
                       /\ ~ hosted => client.gen = 0 /\ client.state = "INIT"
  /\ StartsAlone(micro)
  /\ (\E job \in ToSet(micro) : job.do \in Starters) =>
        /\ calls = <<>> /\ state \notin {"INIT", "CONNECTED"} /\ ~ hosted
        /\ Len(requests) = 1 /\ Unanswered(1)

(* disconnect() closes an own handle at once, and none is opened again.    *)
EndInv ==
  ~ hosted => /\ disconnected => ~ Open
              /\ state = "DISCONNECTED" => disconnected
              /\ (\E job \in ToSet(micro) : job.do = "closed") => disconnected

(* An answer to a write tells of each of its names, and truly.             *)
Truth(id, answer) ==
  requests[id].op \in Writes /\ answer.err = "" =>
    /\ DOMAIN answer.items = ToSet(requests[id].names)
    /\ \A name \in DOMAIN answer.items : answer.items[name] = "ok" => <<id, name>> \in done
AnswersTrue ==
  /\ \A id \in Ids : Truth(id, requests[id].answer)
  /\ \A e \in ToSet(events) \cup ToSet(batch) : Truth(e.id, e.answer)

(* A call that writes asks for all its names, createTopics() for each.     *)
Writers == {"createTopics", "deleteTopics", "deleteGroups", "deleteTopicRecords"}
AsksAll(call) ==
  /\ \A name \in ToSet(call.args) : \E id \in call.ids :
       requests[id].op \in Writes /\ name \in ToSet(requests[id].names)
  /\ \A id \in call.ids : requests[id].op \notin ReportsItems
CreatesEach(call) ==
  \A id \in call.ids : /\ requests[id].op = "CREATE_TOPICS"
                       /\ \E name \in ToSet(call.args) : requests[id].names = <<name>>
CallAsks(call) ==
  call.method \in Writers =>
    /\ call.stage = 1 /\ AsksAll(call)
    /\ call.method = "createTopics" => CreatesEach(call)
    /\ call.method # "createTopics" =>
         \A id \in call.ids : requests[id].op # "CREATE_TOPICS"
AsksInv == \A c \in DOMAIN calls : CallAsks(calls[c])

(* What one call tells the user.                                           *)
Did(call, name) == \E id \in call.ids : <<id, name>> \in done
Existed(call, name) ==
  \E id \in call.ids : requests[id].names = <<name>> /\ Exists(requests[id].answer)
CallTrue(call) ==
  /\ call.result = "resolved" /\ call.method \in Writers =>
       \A name \in ToSet(call.args) : Did(call, name)
  /\ call.result = "false" =>
       /\ \A name \in ToSet(call.args) : Did(call, name) \/ Existed(call, name)
       /\ \E name \in ToSet(call.args) : Existed(call, name)
  /\ call.result = "false" => call.method = "createTopics"
  /\ call.result # "none" /\ call.method = "createTopics" =>
       \A id \in call.ids : ~ Unanswered(id)
ResultsInv == \A c \in DOMAIN calls : CallTrue(calls[c])

(* A request without an answer is on its way to one (NothingForgotten).    *)
Owed(id) == id \in native \/ \E e \in ToSet(events) \cup ToSet(batch) : e.id = id
Promised ==
  /\ guards = registered
  /\ \A id \in Ids : Unanswered(id) /\ requests[id].call # 0 =>
       id \in Waiting(micro) \/ (id \in registered /\ Open /\ Owed(id))

AdminInv ==
  /\ TypeOK /\ Shapes /\ QueueInv /\ RequestsInv /\ StartInv /\ EndInv
  /\ Promised /\ AnswersTrue /\ AsksInv /\ ResultsInv

-----------------------------------------------------------------------------
(* Queues of jobs.                                                         *)
LEMMA MembersAt ==
  ASSUME NEW T, NEW q \in Seq(T)
  PROVE  ToSet(q) = {q[i] : i \in 1..Len(q)} /\ ToSet(q) \subseteq T /\ Len(q) \in Nat
  BY DEF ToSet

LEMMA MembersConcat ==
  ASSUME NEW T, NEW q \in Seq(T), NEW p \in Seq(T)
  PROVE  q \o p \in Seq(T) /\ ToSet(q \o p) = ToSet(q) \cup ToSet(p)
  <1>1. /\ q \o p \in Seq(T) /\ Len(q \o p) = Len(q) + Len(p)
        /\ Len(q) \in Nat /\ Len(p) \in Nat
        /\ \A i \in 1..Len(q) + Len(p) :
             (q \o p)[i] = IF i <= Len(q) THEN q[i] ELSE p[i - Len(q)]
    BY ConcatProperties, LenProperties
  <1>2. /\ ToSet(q) = {q[i] : i \in 1..Len(q)} /\ ToSet(p) = {p[i] : i \in 1..Len(p)}
        /\ ToSet(q \o p) = {(q \o p)[i] : i \in 1..Len(q) + Len(p)}
    BY <1>1, MembersAt
  <1>3. ASSUME NEW i \in 1..Len(q) PROVE q[i] = (q \o p)[i] /\ i \in 1..Len(q) + Len(p)
    BY <1>1
  <1>4. ASSUME NEW i \in 1..Len(p)
        PROVE  p[i] = (q \o p)[i + Len(q)] /\ i + Len(q) \in 1..Len(q) + Len(p)
    BY <1>1
  <1>5. ASSUME NEW i \in 1..Len(q) + Len(p) PROVE (q \o p)[i] \in ToSet(q) \cup ToSet(p)
    <2>1. CASE i <= Len(q)
      BY <1>1, <1>2, <2>1
    <2>2. CASE ~ (i <= Len(q))
      <3>1. i - Len(q) \in 1..Len(p)
        BY <1>1, <2>2
      <3> QED BY <1>1, <1>2, <2>2, <3>1
    <2> QED BY <2>1, <2>2
  <1>6. ToSet(q \o p) \subseteq ToSet(q) \cup ToSet(p)
    BY <1>2, <1>5
  <1>7. ToSet(q) \subseteq ToSet(q \o p)
    BY <1>2, <1>3
  <1>8. ToSet(p) \subseteq ToSet(q \o p)
    BY <1>2, <1>4
  <1> QED BY <1>1, <1>6, <1>7, <1>8

LEMMA MembersTail ==
  ASSUME NEW T, NEW q \in Seq(T), q # <<>>
  PROVE  /\ Tail(q) \in Seq(T) /\ Head(q) \in ToSet(q) /\ ToSet(q) = {Head(q)} \cup ToSet(Tail(q))
         /\ Len(q) \in Nat \ {0} /\ Len(Tail(q)) = Len(q) - 1 /\ Head(q) = q[1]
         /\ \A i \in 1..Len(Tail(q)) : Tail(q)[i] = q[i + 1] /\ i + 1 \in 1..Len(q)
  <1>1. /\ Tail(q) \in Seq(T) /\ Len(q) \in Nat \ {0} /\ Len(Tail(q)) = Len(q) - 1
        /\ Head(q) = q[1]
        /\ \A i \in 1..Len(Tail(q)) : Tail(q)[i] = q[i + 1] /\ i + 1 \in 1..Len(q)
    BY HeadTailProperties, EmptySeq
  <1>2. ToSet(q) = {q[i] : i \in 1..Len(q)} /\ ToSet(Tail(q)) = {Tail(q)[i] : i \in 1..Len(Tail(q))}
    BY <1>1, MembersAt
  <1>3. ASSUME NEW i \in 1..Len(q) PROVE i = 1 \/ (i - 1 \in 1..Len(Tail(q)) /\ q[i] = Tail(q)[i - 1])
    BY <1>1
  <1>4. 1 \in 1..Len(q)
    BY <1>1
  <1>5. Head(q) \in ToSet(q)
    BY <1>1, <1>2, <1>4
  <1>6. ToSet(Tail(q)) \subseteq ToSet(q)
    <2>1. \A i \in 1..Len(Tail(q)) : q[i + 1] \in ToSet(q)
      BY <1>1, <1>2
    <2> QED BY <1>1, <1>2, <2>1
  <1>7. ASSUME NEW x \in ToSet(q) PROVE x \in {Head(q)} \cup ToSet(Tail(q))
    <2>1. PICK i \in 1..Len(q) : x = q[i]
      BY <1>2
    <2>2. CASE i = 1
      BY <1>1, <2>1, <2>2
    <2>3. CASE i # 1
      BY <1>2, <1>3, <2>1, <2>3
    <2> QED BY <2>2, <2>3
  <1> QED BY <1>1, <1>5, <1>6, <1>7

LEMMA MembersOne ==
  ASSUME NEW T, NEW x \in T
  PROVE  /\ <<x>> \in Seq(T) /\ ToSet(<<x>>) = {x}
         /\ \A q \in Seq(T) : Append(q, x) = q \o <<x>>
  <1>1. <<x>> \in Seq(T) /\ Len(<<x>>) = 1 /\ <<x>>[1] = x
    OBVIOUS
  <1>2. ToSet(<<x>>) = {x}
    <2>1. ToSet(<<x>>) = {<<x>>[i] : i \in 1..1}
      BY <1>1, MembersAt
    <2>2. 1..1 = {1}
      OBVIOUS
    <2> QED BY <1>1, <2>1, <2>2
  <1>3. \A q \in Seq(T) : Append(q, x) = q \o <<x>>
    OBVIOUS
  <1> QED BY <1>1, <1>2, <1>3

LEMMA MembersNone == ASSUME NEW T PROVE <<>> \in Seq(T) /\ ToSet(<<>>) = {}
  <1>1. <<>> \in Seq(T) /\ Len(<<>>) = 0
    BY EmptySeq
  <1>2. ToSet(<<>>) = {<<>>[i] : i \in 1..0}
    BY <1>1, MembersAt
  <1>3. 1..0 = {}
    OBVIOUS
  <1> QED BY <1>1, <1>2, <1>3

LEMMA WaitingConcat ==
  ASSUME NEW q \in Seq(Jobs), NEW p \in Seq(Jobs)
  PROVE  Waiting(q \o p) = Waiting(q) \cup Waiting(p)
  BY MembersConcat DEF Waiting

LEMMA DistinctConcat ==
  ASSUME NEW q \in Seq(Jobs), NEW p \in Seq(Jobs), Distinct(q), Distinct(p),
         Waiting(q) \cap Waiting(p) = {}
  PROVE  Distinct(q \o p)
  <1>1. /\ Len(q \o p) = Len(q) + Len(p) /\ Len(q) \in Nat /\ Len(p) \in Nat
        /\ \A i \in 1..Len(q) + Len(p) :
             (q \o p)[i] = IF i <= Len(q) THEN q[i] ELSE p[i - Len(q)]
    BY ConcatProperties, LenProperties
  <1> DEFINE u == q \o p
  <1>2. ASSUME NEW j \in 1..Len(q), q[j].do \in OfRequest PROVE q[j].id \in Waiting(q)
    BY <1>2, MembersAt DEF Waiting
  <1>3. ASSUME NEW j \in 1..Len(p), p[j].do \in OfRequest PROVE p[j].id \in Waiting(p)
    BY <1>3, MembersAt DEF Waiting
  <1>4. ASSUME NEW j \in 1..Len(q), NEW k \in 1..Len(p),
               q[j].do \in OfRequest, p[k].do \in OfRequest
        PROVE  q[j].id # p[k].id
    BY <1>2, <1>3, <1>4
  <1> HIDE DEF u
  <1> SUFFICES ASSUME NEW j \in 1..Len(q) + Len(p), NEW k \in 1..Len(q) + Len(p),
                      u[j].do \in OfRequest, u[k].do \in OfRequest, u[j].id = u[k].id
               PROVE  j = k
    BY <1>1 DEF Distinct, u
  <1>5. CASE j <= Len(q) /\ k <= Len(q)
    BY <1>1, <1>5 DEF Distinct, u
  <1>6. CASE j <= Len(q) /\ ~ (k <= Len(q))
    <2>1. k - Len(q) \in 1..Len(p) /\ j \in 1..Len(q)
      BY <1>1, <1>6
    <2> QED BY <1>1, <1>4, <1>6, <2>1 DEF u
  <1>7. CASE ~ (j <= Len(q)) /\ k <= Len(q)
    <2>1. j - Len(q) \in 1..Len(p) /\ k \in 1..Len(q)
      BY <1>1, <1>7
    <2> QED BY <1>1, <1>4, <1>7, <2>1 DEF u
  <1>8. CASE ~ (j <= Len(q)) /\ ~ (k <= Len(q))
    <2>1. j - Len(q) \in 1..Len(p) /\ k - Len(q) \in 1..Len(p)
      BY <1>1, <1>8
    <2>2. j - Len(q) = k - Len(q)
      BY <1>1, <1>8, <2>1 DEF Distinct, u
    <2> QED BY <1>1, <2>2
  <1> QED BY <1>5, <1>6, <1>7, <1>8

LEMMA DistinctTail ==
  ASSUME NEW q \in Seq(Jobs), q # <<>>, Distinct(q)
  PROVE  /\ Distinct(Tail(q))
         /\ Waiting(Tail(q)) \subseteq Waiting(q)
         /\ Head(q).do \in OfRequest => /\ Head(q).id \in Waiting(q)
                                        /\ Waiting(Tail(q)) = Waiting(q) \ {Head(q).id}
         /\ Head(q).do \notin OfRequest => Waiting(Tail(q)) = Waiting(q)
  <1>1. /\ ToSet(q) = {Head(q)} \cup ToSet(Tail(q)) /\ Tail(q) \in Seq(Jobs)
        /\ Len(q) \in Nat \ {0} /\ Len(Tail(q)) = Len(q) - 1 /\ Head(q) = q[1]
        /\ \A i \in 1..Len(Tail(q)) : Tail(q)[i] = q[i + 1] /\ i + 1 \in 1..Len(q)
    BY MembersTail
  <1>2. Distinct(Tail(q))
    <2> SUFFICES ASSUME NEW j \in 1..Len(Tail(q)), NEW k \in 1..Len(Tail(q)),
                        Tail(q)[j].do \in OfRequest, Tail(q)[k].do \in OfRequest,
                        Tail(q)[j].id = Tail(q)[k].id
                 PROVE  j = k
      BY DEF Distinct
    <2>1. j + 1 = k + 1
      BY <1>1 DEF Distinct
    <2> QED BY <2>1, <1>1
  <1>3. ASSUME Head(q).do \in OfRequest PROVE Head(q).id \notin Waiting(Tail(q))
    <2> SUFFICES ASSUME NEW job \in ToSet(Tail(q)), job.do \in OfRequest, job.id = Head(q).id
                 PROVE  FALSE
      BY DEF Waiting
    <2>1. PICK i \in 1..Len(Tail(q)) : job = Tail(q)[i]
      <3>1. ToSet(Tail(q)) = {Tail(q)[i] : i \in 1..Len(Tail(q))}
        BY <1>1, MembersAt
      <3> QED BY <3>1
    <2>2. i + 1 = 1
      BY <1>1, <1>3, <2>1 DEF Distinct
    <2> QED BY <1>1, <2>1, <2>2
  <1>4. \A x : x \in Waiting(q) <=> x \in Waiting(Tail(q)) \/ (Head(q).do \in OfRequest /\ x = Head(q).id)
    BY <1>1 DEF Waiting
  <1> QED BY <1>2, <1>3, <1>4

-----------------------------------------------------------------------------
(* The jobs a step adds.                                                   *)
LEMMA SettledTyped ==
  ASSUME Shapes, NEW id \in Ids
  PROVE  /\ Settled(id) \in Jobs /\ Settled(id).do = "settled" /\ Settled(id).id = id
         /\ id \in Nat
  <1>1. id \in 1..Len(requests) /\ Len(requests) \in Nat
    BY LenProperties DEF Shapes, Ids
  <1> QED BY <1>1 DEF Settled, Jobs, Hops

LEMMA SettledMany ==
  ASSUME Shapes, NEW S, S \subseteq Ids
  PROVE  /\ SettledJobs(S) \in Seq(Jobs) /\ Waiting(SettledJobs(S)) = S /\ Distinct(SettledJobs(S))
         /\ \A job \in ToSet(SettledJobs(S)) : job.do = "settled"
  <1> DEFINE a == Ascending(S)
             q == SettledJobs(S)
  <1>1. Ids = 1..Len(requests) /\ Len(requests) \in Nat
    BY LenProperties DEF Shapes, Ids
  <1>2. IsFiniteSet(S) /\ S \subseteq Nat
    <2>1. IsFiniteSet(1..Len(requests)) /\ 1..Len(requests) \subseteq Nat
      BY <1>1, FS_Interval
    <2> QED BY <1>1, <2>1, FS_Subset
  <1>3. /\ a \in Seq(S) /\ Len(a) = Cardinality(S) /\ Cardinality(S) \in Nat /\ Rising(a)
        /\ \A x \in S : \E i \in 1..Len(a) : a[i] = x
    BY <1>2, AscendingProperties
  <1>4. DOMAIN a = 1..Len(a) /\ Len(a) \in Nat /\ \A i \in 1..Len(a) : a[i] \in S
    BY <1>3, LenProperties
  <1>5. q = [i \in 1..Len(a) |-> Settled(a[i])]
    BY <1>4 DEF SettledJobs, Each
  <1> HIDE DEF a, q
  <1>6. \A i \in 1..Len(a) : q[i] = Settled(a[i]) /\ q[i] \in Jobs
                             /\ q[i].do = "settled" /\ q[i].id = a[i]
    BY <1>4, <1>5, SettledTyped
  <1>7. q \in Seq(Jobs) /\ Len(q) = Len(a)
    BY <1>4, <1>5, <1>6
  <1>8. ToSet(q) = {q[i] : i \in 1..Len(a)}
    BY <1>7, MembersAt
  <1>9. \A job \in ToSet(q) : job.do = "settled"
    BY <1>6, <1>8
  <1>10. Distinct(q)
    <2> SUFFICES ASSUME NEW j \in 1..Len(a), NEW k \in 1..Len(a), a[j] = a[k], j # k PROVE FALSE
      BY <1>6, <1>7 DEF Distinct
    <2>1. a[j] \in Nat /\ a[k] \in Nat
      BY <1>2, <1>4
    <2>2. CASE j < k
      BY <1>3, <2>1, <2>2 DEF Rising
    <2>3. CASE k < j
      BY <1>3, <2>1, <2>3 DEF Rising
    <2> QED BY <2>2, <2>3, <1>4
  <1>11. Waiting(q) = S
    <2>1. ASSUME NEW x \in S PROVE x \in Waiting(q)
      <3>1. PICK i \in 1..Len(a) : a[i] = x
        BY <1>3
      <3>2. q[i] \in ToSet(q) /\ q[i].do \in OfRequest /\ q[i].id = x
        BY <1>6, <1>8, <3>1 DEF OfRequest
      <3> QED BY <3>2 DEF Waiting
    <2>2. ASSUME NEW x \in Waiting(q) PROVE x \in S
      <3>1. PICK job \in ToSet(q) : x = job.id
        BY DEF Waiting
      <3>2. PICK i \in 1..Len(a) : job = q[i]
        BY <1>8
      <3> QED BY <1>4, <1>6, <3>1, <3>2
    <2> QED BY <2>1, <2>2
  <1> QED BY <1>7, <1>9, <1>10, <1>11 DEF q

LEMMA AskedTyped ==
  ASSUME Shapes, TypeOK, NEW rs \in Seq(Questions)
  PROVE  /\ Asked(rs) \in Seq(Jobs) /\ Distinct(Asked(rs))
         /\ Waiting(Asked(rs)) = Len(requests) + 1 .. Len(requests) + Len(rs)
         /\ \A job \in ToSet(Asked(rs)) :
              \E i \in 1..Len(rs) : /\ job.id = Len(requests) + i /\ job.do \in {"request", "query"}
                                    /\ job.do = "query" => rs[i].op = "WATERMARK"
  <1> DEFINE n == Len(requests)
             q == Asked(rs)
  <1>1. n \in Nat /\ DOMAIN rs = 1..Len(rs) /\ Len(rs) \in Nat /\ client.gen \in Nat
    BY LenProperties DEF Shapes, TypeOK
  <1>2. q = [i \in 1..Len(rs) |-> FirstJob(rs[i], n + i)]
    <2>1. q = [i \in 1..Len(rs) |-> FirstJob(rs[i], n + 1 + i - 1)]
      BY <1>1 DEF Asked, NextCorrelationId
    <2>2. \A i \in 1..Len(rs) : n + 1 + i - 1 = n + i
      BY <1>1
    <2> QED BY <2>1, <2>2
  <1> HIDE DEF n, q
  <1>3. \A i \in 1..Len(rs) : /\ q[i] \in Jobs /\ q[i].id = n + i /\ q[i].do \in {"request", "query"}
                              /\ q[i].do = "query" => rs[i].op = "WATERMARK"
    BY <1>1, <1>2 DEF FirstJob, Job, Jobs
  <1>4. q \in Seq(Jobs) /\ Len(q) = Len(rs)
    BY <1>1, <1>2, <1>3
  <1>5. ToSet(q) = {q[i] : i \in 1..Len(rs)}
    BY <1>4, MembersAt
  <1>6. Distinct(q)
    <2> SUFFICES ASSUME NEW j \in 1..Len(rs), NEW k \in 1..Len(rs), q[j].id = q[k].id PROVE j = k
      BY <1>4 DEF Distinct
    <2> QED BY <1>1, <1>3
  <1>7. Waiting(q) = n + 1 .. n + Len(rs)
    <2>1. ASSUME NEW x \in n + 1 .. n + Len(rs) PROVE x \in Waiting(q)
      <3>1. x - n \in 1..Len(rs) /\ n + (x - n) = x
        BY <1>1
      <3>2. q[x - n] \in ToSet(q) /\ q[x - n].do \in OfRequest /\ q[x - n].id = x
        BY <1>3, <1>5, <3>1 DEF OfRequest
      <3> QED BY <3>2 DEF Waiting
    <2>2. ASSUME NEW x \in Waiting(q) PROVE x \in n + 1 .. n + Len(rs)
      <3>1. PICK job \in ToSet(q) : x = job.id
        BY DEF Waiting
      <3>2. PICK i \in 1..Len(rs) : job = q[i]
        BY <1>5
      <3> QED BY <1>1, <1>3, <3>1, <3>2
    <2> QED BY <2>1, <2>2
  <1>8. ASSUME NEW job \in ToSet(q)
        PROVE  \E i \in 1..Len(rs) : /\ job.id = n + i /\ job.do \in {"request", "query"}
                                     /\ job.do = "query" => rs[i].op = "WATERMARK"
    <2>1. PICK i \in 1..Len(rs) : job = q[i]
      BY <1>5
    <2> QED BY <1>3, <2>1
  <1> QED BY <1>4, <1>6, <1>7, <1>8 DEF n, q

LEMMA MadeTyped ==
  ASSUME NEW rs \in Seq(Questions), NEW call \in Nat
  PROVE  /\ Made(rs, call) \in Seq(Requests) /\ Len(Made(rs, call)) = Len(rs)
         /\ \A i \in 1..Len(rs) : /\ Made(rs, call)[i].op = rs[i].op
                                  /\ Made(rs, call)[i].names = rs[i].names
                                  /\ Made(rs, call)[i].call = call
                                  /\ Made(rs, call)[i].answer = NoAnswer
  <1>1. DOMAIN rs = 1..Len(rs) /\ Len(rs) \in Nat /\ \A i \in 1..Len(rs) : rs[i] \in Questions
    BY LenProperties
  <1>2. Made(rs, call) = [i \in 1..Len(rs) |-> [op |-> rs[i].op, names |-> rs[i].names,
                                               call |-> call, answer |-> NoAnswer]]
    BY <1>1 DEF Made
  <1>3. \A i \in 1..Len(rs) : [op |-> rs[i].op, names |-> rs[i].names, call |-> call,
                               answer |-> NoAnswer] \in Requests
    BY <1>1 DEF Requests, Questions
  <1> QED BY <1>1, <1>2, <1>3

LEMMA NoItemsTyped == NoItems \in Items
  <1>1. NoItems \in [{} -> Codings]
    BY DEF NoItems
  <1> QED BY <1>1 DEF Items

LEMMA RepliesTyped ==
  /\ \A err \in Errors : Failure(err) \in Replies
  /\ \A S \in SUBSET Names : \A items \in [S -> Codings] : Result(items) \in Replies
  /\ \A answer \in Replies : answer # NoAnswer
  <1>1. NoItems \in Items
    BY NoItemsTyped
  <1>2. NoAnswer.err = "none"
    BY DEF NoAnswer, Failure
  <1> QED BY <1>1, <1>2 DEF Replies, Failure, Result, Errors, Items

-----------------------------------------------------------------------------
(* What the methods ask for.                                               *)
LEMMA EachTyped ==
  ASSUME NEW args \in Seq(Names)
  PROVE  /\ Each(CreateTopic, args) \in Seq(Questions)
         /\ Each(DeleteTopic, args) \in Seq(Questions)
         /\ Each(CreatePartitions, args) \in Seq(Questions)
         /\ Each(DeleteRecords, args) \in Seq(Questions)
         /\ Each(QueryWatermarkOffsets, args) \in Seq(Questions)
  <1>1. DOMAIN args = 1..Len(args) /\ Len(args) \in Nat /\ \A i \in 1..Len(args) : args[i] \in Names
    BY LenProperties
  <1>2. \A i \in 1..Len(args) : <<args[i]>> \in Seq(Names)
    BY <1>1
  <1>3. ASSUME NEW op \in Ops
        PROVE  [i \in DOMAIN args |-> [op |-> op, names |-> <<args[i]>>]] \in Seq(Questions)
    <2>1. \A i \in 1..Len(args) : [op |-> op, names |-> <<args[i]>>] \in Questions
      BY <1>2 DEF Questions
    <2> QED BY <1>1, <2>1
  <1> QED
    BY <1>3 DEF Each, CreateTopic, DeleteTopic, CreatePartitions, DeleteRecords,
       QueryWatermarkOffsets, Request, Ops

LEMMA BatchesTyped ==
  ASSUME NEW method \in AllMethods, NEW args \in Seq(Names), NEW found \in Seq(Names),
         args # <<>> \/ method \notin NeedsName
  PROVE  /\ Batches(method, args, found) \in Seq(Seq(Questions))
         /\ Len(Batches(method, args, found)) \in Nat \ {0}
  <1> DEFINE B == Batches(method, args, found)
             Q == Seq(Seq(Questions))
             One(b) == <<b>>
             Two(b, d) == <<b, d>>
  <1>1. \A op \in Ops : \A names \in Seq(Names) : <<Request(op, names)>> \in Seq(Questions)
    BY DEF Request, Questions
  <1>2. <<>> \in Seq(Names) /\ (args # <<>> => <<Head(args)>> \in Seq(Names) /\ Head(args) \in Names)
    OBVIOUS
  <1>3. \A b \in Seq(Questions) : One(b) \in Q /\ Len(One(b)) \in Nat \ {0}
    OBVIOUS
  <1>4. \A b, d \in Seq(Questions) : Two(b, d) \in Q /\ Len(Two(b, d)) \in Nat \ {0}
    OBVIOUS
  <1>5. \A names \in Seq(Names) : /\ <<DescribeTopics(names)>> \in Seq(Questions)
                                 /\ <<ListOffsets(names)>> \in Seq(Questions)
                                 /\ <<DescribeGroups(names)>> \in Seq(Questions)
                                 /\ <<DeleteGroups(names)>> \in Seq(Questions)
                                 /\ <<ListOffsets(names), ListOffsets(names)>> \in Seq(Questions)
    BY DEF DescribeTopics, ListOffsets, DescribeGroups, DeleteGroups, Request, Ops, Questions
  <1>6. <<ListTopics>> \in Seq(Questions) /\ <<ListGroups>> \in Seq(Questions)
    BY <1>1, <1>2 DEF ListTopics, ListGroups, Ops
  <1>7. args # <<>> => <<ListConsumerGroupOffsets(Head(args))>> \in Seq(Questions)
    BY <1>1, <1>2 DEF ListConsumerGroupOffsets, Ops
  <1> HIDE DEF Q, One, Two
  <1> SUFFICES B \in Q /\ Len(B) \in Nat \ {0}
    BY DEF Q
  <1>8. CASE method = "createTopics"
    <2>1. B = One(Each(CreateTopic, args))
      BY <1>8 DEF Batches, createTopics, One, Two
    <2> HIDE DEF B
    <2> QED BY <1>3, EachTyped, <1>8, <2>1, Zenon
  <1>9. CASE method = "deleteTopics"
    <2>1. B = One(Each(DeleteTopic, args))
      BY <1>9 DEF Batches, deleteTopics, One, Two
    <2> HIDE DEF B
    <2> QED BY <1>3, EachTyped, <1>9, <2>1, Zenon
  <1>10. CASE method = "createPartitions"
    <2>1. <<Head(args)>> \in Seq(Names)
      BY <1>2, <1>10 DEF NeedsName
    <2>2. Each(CreatePartitions, <<Head(args)>>) \in Seq(Questions)
      BY <2>1, EachTyped
    <2>3. B = One(Each(CreatePartitions, <<Head(args)>>))
      BY <1>10 DEF Batches, One, Two
    <2> HIDE DEF B
    <2> QED BY <1>3, <2>2, <2>3, Zenon
  <1>11. CASE method = "listTopics"
    <2>1. B = One(<<ListTopics>>)
      BY <1>11 DEF Batches, listTopics, One, Two
    <2> HIDE DEF B
    <2> QED BY <1>3, <1>6, <1>11, <2>1, Zenon
  <1>12. CASE method = "listGroups"
    <2>1. B = One(<<ListGroups>>)
      BY <1>12 DEF Batches, listGroups, One, Two
    <2> HIDE DEF B
    <2> QED BY <1>3, <1>6, <1>12, <2>1, Zenon
  <1>13. CASE method = "describeGroups"
    <2>1. B = One(<<DescribeGroups(args)>>)
      BY <1>13 DEF Batches, describeGroups, One, Two
    <2> HIDE DEF B
    <2> QED BY <1>3, <1>5, <1>13, <2>1, Zenon
  <1>14. CASE method = "deleteGroups"
    <2>1. B = One(<<DeleteGroups(args)>>)
      BY <1>14 DEF Batches, deleteGroups, One, Two
    <2> HIDE DEF B
    <2> QED BY <1>3, <1>5, <1>14, <2>1, Zenon
  <1>15. CASE method = "fetchOffsets"
    <2>1. B = One(<<ListConsumerGroupOffsets(Head(args))>>)
      BY <1>15 DEF Batches, fetchOffsets, One, Two
    <2>2. args # <<>>
      BY <1>15 DEF NeedsName
    <2> HIDE DEF B
    <2> QED BY <1>3, <1>7, <2>1, <2>2, Zenon
  <1>16. CASE method = "deleteTopicRecords"
    <2>1. B = One(Each(DeleteRecords, args))
      BY <1>16 DEF Batches, deleteTopicRecords, One, Two
    <2> HIDE DEF B
    <2> QED BY <1>3, EachTyped, <1>16, <2>1, Zenon
  <1>17. CASE method = "fetchTopicMetadata"
    <2>1. B = IF args = <<>> THEN Two(<<ListTopics>>, <<DescribeTopics(found)>>)
                             ELSE One(<<DescribeTopics(args)>>)
      BY <1>17 DEF Batches, fetchTopicMetadata, One, Two
    <2> HIDE DEF B
    <2> QED BY <1>3, <1>4, <1>5, <1>6, <2>1, Zenon
  <1>18. ASSUME method \in NeedsName, NEW second \in Seq(Questions)
         PROVE  PartitionIds(args, second) \in Q /\ Len(PartitionIds(args, second)) \in Nat \ {0}
    <2>1. <<DescribeTopics(<<Head(args)>>)>> \in Seq(Questions)
      BY <1>2, <1>5, <1>18
    <2> DEFINE first == <<DescribeTopics(<<Head(args)>>)>>
    <2>2. PartitionIds(args, second) = Two(first, second)
      BY DEF PartitionIds, Two
    <2> HIDE DEF first
    <2>3. first \in Seq(Questions)
      BY <2>1 DEF first
    <2> QED BY <1>4, <2>2, <2>3
  <1>19. CASE method = "fetchTopicOffsets"
    <2>1. B = PartitionIds(args, Each(QueryWatermarkOffsets, found))
      BY <1>19 DEF Batches, fetchTopicOffsets
    <2>2. Each(QueryWatermarkOffsets, found) \in Seq(Questions) /\ method \in NeedsName
      BY <1>5, <1>19, EachTyped DEF NeedsName
    <2> HIDE DEF B
    <2> QED BY <1>18, <2>1, <2>2, Zenon
  <1>20. CASE method = "fetchCommittedOffsets"
    <2>1. B = PartitionIds(args, <<ListOffsets(found), ListOffsets(found)>>)
      BY <1>20 DEF Batches, fetchCommittedOffsets
    <2>2. <<ListOffsets(found), ListOffsets(found)>> \in Seq(Questions) /\ method \in NeedsName
      BY <1>5, <1>20, EachTyped DEF NeedsName
    <2> HIDE DEF B
    <2> QED BY <1>18, <2>1, <2>2, Zenon
  <1>21. CASE method = "fetchTopicOffsetsByTimestamp"
    <2>1. B = PartitionIds(args, <<ListOffsets(found)>>)
      BY <1>21 DEF Batches, fetchTopicOffsetsByTimestamp
    <2>2. <<ListOffsets(found)>> \in Seq(Questions) /\ method \in NeedsName
      BY <1>5, <1>21, EachTyped DEF NeedsName
    <2> HIDE DEF B
    <2> QED BY <1>18, <2>1, <2>2, Zenon
  <1> QED BY <1>8, <1>9, <1>10, <1>11, <1>12, <1>13, <1>14, <1>15, <1>16, <1>17, <1>19, <1>20, <1>21
          DEF AllMethods

(* Those that write ask in one batch, and for every name.                  *)
LEMMA BatchesOfWriters ==
  ASSUME NEW method \in Writers, NEW args \in Seq(Names), NEW found
  PROVE  LET b == Batches(method, args, found)[1]
         IN  /\ Len(Batches(method, args, found)) = 1
             /\ \A name \in ToSet(args) : \E i \in 1..Len(b) :
                  b[i].op \in Writes /\ name \in ToSet(b[i].names)
             /\ \A i \in 1..Len(b) : b[i].op \notin ReportsItems
             /\ method = "createTopics" =>
                  \A i \in 1..Len(b) : /\ b[i].op = "CREATE_TOPICS"
                                       /\ \E name \in ToSet(args) : b[i].names = <<name>>
             /\ method # "createTopics" => \A i \in 1..Len(b) : b[i].op # "CREATE_TOPICS"
  <1> DEFINE b == Batches(method, args, found)[1]
  <1> SUFFICES /\ Len(Batches(method, args, found)) = 1
               /\ \A name \in ToSet(args) : \E i \in 1..Len(b) :
                    b[i].op \in Writes /\ name \in ToSet(b[i].names)
               /\ \A i \in 1..Len(b) : b[i].op \notin ReportsItems
               /\ method = "createTopics" =>
                    \A i \in 1..Len(b) : /\ b[i].op = "CREATE_TOPICS"
                                         /\ \E name \in ToSet(args) : b[i].names = <<name>>
               /\ method # "createTopics" => \A i \in 1..Len(b) : b[i].op # "CREATE_TOPICS"
    OBVIOUS
  <1>1. DOMAIN args = 1..Len(args) /\ Len(args) \in Nat /\ \A i \in 1..Len(args) : args[i] \in Names
    BY LenProperties
  <1>2. ToSet(args) = {args[i] : i \in 1..Len(args)}
    BY MembersAt
  <1>3. \A name \in Names : name \in ToSet(<<name>>)
    BY MembersOne
  <1>4. ASSUME NEW op \in {"CREATE_TOPICS", "DELETE_TOPICS", "DELETE_RECORDS"},
               Batches(method, args, found) = <<[i \in DOMAIN args |-> Request(op, <<args[i]>>)]>>
        PROVE  /\ Len(Batches(method, args, found)) = 1
               /\ \A name \in ToSet(args) : \E i \in 1..Len(b) :
                    b[i].op \in Writes /\ name \in ToSet(b[i].names)
               /\ \A i \in 1..Len(b) : b[i].op = op /\ \E name \in ToSet(args) : b[i].names = <<name>>
    <2>1. b = [i \in 1..Len(args) |-> [op |-> op, names |-> <<args[i]>>]]
      BY <1>1, <1>4 DEF Request
    <2>2. Len(Batches(method, args, found)) = 1
      BY <1>4
    <2> HIDE DEF b
    <2>3. Len(b) = Len(args) /\ \A i \in 1..Len(args) : b[i].op = op /\ b[i].names = <<args[i]>>
      BY <1>1, <2>1
    <2>4. op \in Writes
      BY DEF Writes
    <2>5. ASSUME NEW name \in ToSet(args)
          PROVE  \E i \in 1..Len(b) : b[i].op \in Writes /\ name \in ToSet(b[i].names)
      <3>1. PICK i \in 1..Len(args) : name = args[i]
        BY <1>2
      <3> QED BY <1>1, <1>3, <2>3, <2>4, <3>1
    <2>6. \A i \in 1..Len(b) : \E name \in ToSet(args) : b[i].names = <<name>>
      BY <1>2, <2>3
    <2> QED BY <2>2, <2>3, <2>5, <2>6
  <1>5. CASE method = "createTopics"
    <2>1. Batches(method, args, found) = <<[i \in DOMAIN args |-> Request("CREATE_TOPICS", <<args[i]>>)]>>
      BY <1>5 DEF Batches, createTopics, Each, CreateTopic
    <2> HIDE DEF b
    <2> QED BY <1>4, <1>5, <2>1 DEF b, ReportsItems
  <1>6. CASE method = "deleteTopics"
    <2>1. Batches(method, args, found) = <<[i \in DOMAIN args |-> Request("DELETE_TOPICS", <<args[i]>>)]>>
      BY <1>6 DEF Batches, deleteTopics, Each, DeleteTopic
    <2> HIDE DEF b
    <2> QED BY <1>4, <1>6, <2>1 DEF b, ReportsItems
  <1>7. CASE method = "deleteTopicRecords"
    <2>1. Batches(method, args, found) = <<[i \in DOMAIN args |-> Request("DELETE_RECORDS", <<args[i]>>)]>>
      BY <1>7 DEF Batches, deleteTopicRecords, Each, DeleteRecords
    <2> HIDE DEF b
    <2> QED BY <1>4, <1>7, <2>1 DEF b, ReportsItems
  <1>8. CASE method = "deleteGroups"
    <2>1. Batches(method, args, found) = << <<[op |-> "DELETE_GROUPS", names |-> args]>> >>
      BY <1>8 DEF Batches, deleteGroups, DeleteGroups, Request
    <2>2. /\ Len(Batches(method, args, found)) = 1 /\ Len(b) = 1
          /\ b[1].op = "DELETE_GROUPS" /\ b[1].names = args
      BY <2>1
    <2> HIDE DEF b
    <2> QED BY <1>8, <2>2 DEF b, Writes, ReportsItems
  <1> QED BY <1>5, <1>6, <1>7, <1>8 DEF Writers

(* The names a first batch found.                                          *)
LEMMA FoundTyped ==
  ASSUME Shapes, NEW c \in DOMAIN calls, calls[c].ids \subseteq Ids
  PROVE  FoundBy(calls[c]) \in Seq(Names)
  <1> DEFINE call == calls[c]
  <1>1. CASE call.ids = {}
    BY <1>1 DEF FoundBy
  <1>2. CASE call.ids # {}
    <2> DEFINE r == requests[CHOOSE id \in call.ids : TRUE]
    <2>1. r \in Requests
      <3>1. (CHOOSE id \in call.ids : TRUE) \in Ids
        BY <1>2
      <3> QED BY <3>1 DEF Ids, Shapes
    <2> HIDE DEF r
    <2>2. r.answer.items \in Items
      <3>1. NoAnswer.items = NoItems /\ NoItems \in Items
        BY NoItemsTyped DEF NoAnswer, Failure
      <3> QED BY <2>1, <3>1 DEF Requests, Replies
    <2>3. IsFiniteSet(DOMAIN r.answer.items) /\ DOMAIN r.answer.items \subseteq Names
      <3>1. DOMAIN r.answer.items \subseteq Names
        BY <2>2 DEF Items
      <3> QED BY <3>1, FS_Subset, NamesAssumption
    <2>4. SetToSeq(DOMAIN r.answer.items) \in Seq(DOMAIN r.answer.items)
      BY <2>3, SetToSeqLists
    <2>5. SetToSeq(DOMAIN r.answer.items) \in Seq(Names)
      BY <2>3, <2>4
    <2>6. Found(r) \in Seq(Names)
      BY <2>5, NamesAssumption DEF Found
    <2> QED BY <1>2, <2>6 DEF FoundBy, r
  <1> QED BY <1>1, <1>2

-----------------------------------------------------------------------------
(* A step answers requests, makes new ones, or only passes jobs on.        *)
LEMMA AnsweredIs ==
  ASSUME Shapes, NEW S, NEW answer \in Replies
  PROVE  /\ Answered(S, answer) \in Seq(Requests) /\ Len(Answered(S, answer)) = Len(requests)
         /\ \A id \in Ids : /\ Answered(S, answer)[id].op = requests[id].op
                            /\ Answered(S, answer)[id].names = requests[id].names
                            /\ Answered(S, answer)[id].call = requests[id].call
                            /\ Answered(S, answer)[id].answer =
                                 IF id \in S THEN answer ELSE requests[id].answer
  <1> DEFINE b == Answered(S, answer)
  <1>1. Ids = 1..Len(requests) /\ Len(requests) \in Nat /\ \A id \in Ids : requests[id] \in Requests
    BY LenProperties DEF Shapes, Ids
  <1>2. b = [id \in 1..Len(requests) |->
               IF id \in S THEN [requests[id] EXCEPT !.answer = answer] ELSE requests[id]]
    BY <1>1 DEF Answered, Ids
  <1>3. \A id \in Ids : /\ [requests[id] EXCEPT !.answer = answer] \in Requests
                        /\ [requests[id] EXCEPT !.answer = answer].op = requests[id].op
                        /\ [requests[id] EXCEPT !.answer = answer].names = requests[id].names
                        /\ [requests[id] EXCEPT !.answer = answer].call = requests[id].call
                        /\ [requests[id] EXCEPT !.answer = answer].answer = answer
    BY <1>1 DEF Requests
  <1> HIDE DEF b
  <1>4. \A id \in Ids : b[id] \in Requests
    BY <1>1, <1>2, <1>3
  <1>5. b \in Seq(Requests) /\ Len(b) = Len(requests)
    BY <1>1, <1>2, <1>4
  <1>6. \A id \in Ids : b[id] = IF id \in S THEN [requests[id] EXCEPT !.answer = answer] ELSE requests[id]
    BY <1>1, <1>2
  <1> QED BY <1>3, <1>5, <1>6 DEF b

(* What no step undoes.                                                    *)
Keeps ==
  /\ Ids \subseteq Ids' /\ done \subseteq done'
  /\ \A id \in Ids : /\ requests'[id].op = requests[id].op /\ requests'[id].names = requests[id].names
                     /\ requests'[id].call = requests[id].call
                     /\ ~ Unanswered(id) => requests'[id].answer = requests[id].answer

Rest(rest) ==
  /\ rest \in Seq(Jobs) /\ Distinct(rest) /\ ToSet(rest) \subseteq ToSet(micro)
  /\ Waiting(rest) \subseteq Waiting(micro)

LEMMA RestAll == ASSUME Shapes, QueueInv PROVE Rest(micro)
  BY DEF Rest, Shapes, QueueInv

LEMMA RestTail == ASSUME Shapes, QueueInv, micro # <<>> PROVE Rest(Tail(micro))
  <1>1. Tail(micro) \in Seq(Jobs) /\ ToSet(Tail(micro)) \subseteq ToSet(micro)
    BY MembersTail DEF Shapes
  <1> QED BY <1>1, DistinctTail DEF Rest, Shapes, QueueInv

LEMMA WaitingKnown == ASSUME QueueInv PROVE Waiting(micro) \subseteq Ids
  BY DEF QueueInv, JobKnown, Waiting

HaveAnswer(S, answer, rest, jobs) ==
  /\ requests' \in Seq(Requests) /\ Len(requests') = Len(requests) /\ Ids' = Ids
  /\ \A id \in Ids : /\ requests'[id].op = requests[id].op
                     /\ requests'[id].names = requests[id].names
                     /\ requests'[id].call = requests[id].call
                     /\ requests'[id].answer =
                          IF id \in S THEN answer ELSE requests[id].answer
  /\ micro' \in Seq(Jobs) /\ ToSet(micro') = ToSet(rest) \cup ToSet(jobs)
  /\ Waiting(micro)' = Waiting(rest) \cup S /\ QueueInv'

LEMMA AnswerStep ==
  ASSUME Shapes, QueueInv, NEW S, S \subseteq Ids, NEW answer \in Replies,
         NEW rest, Rest(rest), NEW jobs \in Seq(Jobs),
         \A id \in S : Unanswered(id), S \cap Waiting(rest) = {},
         Waiting(jobs) = S, Distinct(jobs),
         \A job \in ToSet(jobs) : job.do \in {"settled", "closed"},
         requests' = Answered(S, answer), calls' = calls, micro' = rest \o jobs
  PROVE  HaveAnswer(S, answer, rest, jobs)
  <1>1. /\ requests' \in Seq(Requests) /\ Len(requests') = Len(requests)
        /\ \A id \in Ids : /\ requests'[id].op = requests[id].op
                           /\ requests'[id].names = requests[id].names
                           /\ requests'[id].call = requests[id].call
                           /\ requests'[id].answer =
                                IF id \in S THEN answer ELSE requests[id].answer
    BY AnsweredIs
  <1>2. Ids' = Ids
    BY <1>1, LenProperties DEF Ids, Shapes
  <1>3. /\ micro' \in Seq(Jobs) /\ ToSet(micro') = ToSet(rest) \cup ToSet(jobs)
        /\ Waiting(micro') = Waiting(rest) \cup S /\ Distinct(micro')
    BY MembersConcat, WaitingConcat, DistinctConcat DEF Rest
  <1>4. ASSUME NEW job \in ToSet(rest) PROVE JobKnown(job)'
    <2>1. JobKnown(job)
      BY DEF Rest, QueueInv
    <2>2. job.do \in OfRequest => job.id \in Ids /\ job.id \notin S
      BY <2>1 DEF Waiting, JobKnown
    <2>3. job.do = "query" => job.do \in OfRequest
      BY DEF OfRequest
    <2> QED BY <1>1, <1>2, <2>1, <2>2, <2>3 DEF JobKnown, Unanswered
  <1>5. ASSUME NEW job \in ToSet(jobs) PROVE JobKnown(job)'
    <2>1. job.do \in OfRequest => job.id \in S
      BY DEF Waiting
    <2>2. answer # NoAnswer
      BY RepliesTyped
    <2> QED BY <1>1, <1>2, <2>1, <2>2 DEF JobKnown, Unanswered, OfRequest
  <1>6. QueueInv'
    BY <1>3, <1>4, <1>5 DEF QueueInv, Distinct
  <1> QED BY <1>1, <1>2, <1>3, <1>6 DEF Waiting, HaveAnswer

HaveAsked(rs, call, rest, jobs) ==
  /\ requests' \in Seq(Requests) /\ Len(requests') = Len(requests) + Len(rs)
  /\ Ids' = Ids \cup (Len(requests) + 1 .. Len(requests) + Len(rs))
  /\ \A id \in Ids : requests'[id] = requests[id]
  /\ \A i \in 1..Len(rs) : /\ requests'[Len(requests) + i].op = rs[i].op
                           /\ requests'[Len(requests) + i].names = rs[i].names
                           /\ requests'[Len(requests) + i].call = call
                           /\ requests'[Len(requests) + i].answer = NoAnswer
  /\ micro' \in Seq(Jobs) /\ ToSet(micro') = ToSet(rest) \cup ToSet(jobs)
  /\ Waiting(micro)' = Waiting(rest) \cup (Len(requests) + 1 .. Len(requests) + Len(rs))
  /\ QueueInv'
  /\ \A job \in ToSet(jobs) : job.do \in {"request", "query", "empty"}

LEMMA NewStep ==
  ASSUME Shapes, TypeOK, QueueInv, NEW rs \in Seq(Questions), NEW call \in Nat,
         NEW rest, Rest(rest), NEW jobs,
         \/ jobs = Asked(rs)
         \/ rs = <<>> /\ jobs = <<Job("empty", call)>> /\ call \in DOMAIN calls',
         requests' = requests \o Made(rs, call), DOMAIN calls \subseteq DOMAIN calls',
         micro' = rest \o jobs
  PROVE  HaveAsked(rs, call, rest, jobs)
  <1> DEFINE n == Len(requests)
             new == n + 1 .. n + Len(rs)
  <1>1. n \in Nat /\ Ids = 1..n /\ Len(rs) \in Nat
    BY LenProperties DEF Shapes, Ids
  <1>2. /\ Made(rs, call) \in Seq(Requests) /\ Len(Made(rs, call)) = Len(rs)
        /\ \A i \in 1..Len(rs) : /\ Made(rs, call)[i].op = rs[i].op
                                 /\ Made(rs, call)[i].names = rs[i].names
                                 /\ Made(rs, call)[i].call = call
                                 /\ Made(rs, call)[i].answer = NoAnswer
    BY MadeTyped
  <1>3. /\ requests' \in Seq(Requests) /\ Len(requests') = n + Len(rs)
        /\ \A i \in 1..n + Len(rs) :
             requests'[i] = IF i <= n THEN requests[i] ELSE Made(rs, call)[i - n]
    <2> DEFINE m == Made(rs, call)
    <2>1. m \in Seq(Requests) /\ Len(m) = Len(rs) /\ requests' = requests \o m
      BY <1>2
    <2> HIDE DEF m
    <2>2. /\ requests \o m \in Seq(Requests) /\ Len(requests \o m) = Len(requests) + Len(m)
          /\ \A i \in 1..Len(requests) + Len(m) :
               (requests \o m)[i] = IF i <= Len(requests) THEN requests[i] ELSE m[i - Len(requests)]
      BY <2>1, ConcatProperties DEF Shapes
    <2> QED BY <2>1, <2>2 DEF m
  <1>4. Ids' = 1..n + Len(rs)
    BY <1>3, LenProperties DEF Ids
  <1>5. Ids' = Ids \cup new
    BY <1>1, <1>4
  <1>6. \A id \in Ids : requests'[id] = requests[id]
    BY <1>1, <1>3
  <1>7. \A i \in 1..Len(rs) : n + i \in 1..n + Len(rs) /\ ~ (n + i <= n) /\ (n + i) - n = i
    BY <1>1
  <1>8. \A i \in 1..Len(rs) : /\ requests'[n + i].op = rs[i].op
                              /\ requests'[n + i].names = rs[i].names
                              /\ requests'[n + i].call = call
                              /\ requests'[n + i].answer = NoAnswer
    BY <1>2, <1>3, <1>7
  <1>9. /\ jobs \in Seq(Jobs) /\ Distinct(jobs) /\ Waiting(jobs) = new
        /\ \A job \in ToSet(jobs) :
             \/ /\ job.do = "empty" /\ job.id \in DOMAIN calls'
             \/ \E i \in 1..Len(rs) : /\ job.id = n + i /\ job.do \in {"request", "query"}
                                      /\ job.do = "query" => rs[i].op = "WATERMARK"
    <2>1. CASE jobs = Asked(rs)
      BY <2>1, AskedTyped
    <2>2. CASE rs = <<>> /\ jobs = <<Job("empty", call)>> /\ call \in DOMAIN calls'
      <3>1. /\ Job("empty", call) \in Jobs /\ Job("empty", call).do = "empty"
            /\ Job("empty", call).id = call
        BY DEF Job, Jobs
      <3>2. jobs \in Seq(Jobs) /\ ToSet(jobs) = {Job("empty", call)}
        BY <2>2, <3>1, MembersOne
      <3>3. Distinct(jobs)
        <4>1. Len(jobs) = 1
          BY <2>2
        <4> QED BY <4>1 DEF Distinct
      <3>4. Waiting(jobs) = {}
        BY <3>1, <3>2 DEF Waiting, OfRequest
      <3>5. new = {}
        BY <1>1, <2>2
      <3> QED BY <2>2, <3>1, <3>2, <3>3, <3>4, <3>5
    <2> QED BY <2>1, <2>2
  <1>10. Waiting(rest) \cap new = {}
    <2>1. Waiting(rest) \subseteq Ids
      BY WaitingKnown DEF Rest
    <2> QED BY <1>1, <2>1
  <1> HIDE DEF new, n
  <1>11. /\ micro' \in Seq(Jobs) /\ ToSet(micro') = ToSet(rest) \cup ToSet(jobs)
         /\ Waiting(micro') = Waiting(rest) \cup new /\ Distinct(micro')
    BY <1>9, <1>10, MembersConcat, WaitingConcat, DistinctConcat DEF Rest
  <1>12. ASSUME NEW job \in ToSet(rest) PROVE JobKnown(job)'
    <2>1. JobKnown(job)
      BY DEF Rest, QueueInv
    <2>2. job.do = "query" => job.do \in OfRequest
      BY DEF OfRequest
    <2> QED BY <1>5, <1>6, <2>1, <2>2 DEF JobKnown, Unanswered
  <1>13. ASSUME NEW job \in ToSet(jobs) PROVE JobKnown(job)'
    <2>1. CASE job.do = "empty" /\ job.id \in DOMAIN calls'
      BY <2>1 DEF JobKnown, OfRequest
    <2>2. CASE \E i \in 1..Len(rs) : /\ job.id = n + i /\ job.do \in {"request", "query"}
                                     /\ job.do = "query" => rs[i].op = "WATERMARK"
      <3>1. PICK i \in 1..Len(rs) : /\ job.id = n + i /\ job.do \in {"request", "query"}
                                    /\ job.do = "query" => rs[i].op = "WATERMARK"
        BY <2>2
      <3>2. job.id \in Ids'
        BY <1>4, <1>7, <3>1 DEF n
      <3> QED BY <1>8, <3>1, <3>2 DEF JobKnown, Unanswered
    <2> QED BY <1>9, <2>1, <2>2
  <1>14. QueueInv'
    BY <1>11, <1>12, <1>13 DEF QueueInv, Distinct
  <1>15. \A job \in ToSet(jobs) : job.do \in {"request", "query", "empty"}
    BY <1>9
  <1> QED BY <1>3, <1>5, <1>6, <1>8, <1>11, <1>14, <1>15 DEF Waiting, n, new, HaveAsked

HavePassed(rest, jobs) ==
  /\ micro' \in Seq(Jobs) /\ ToSet(micro') = ToSet(rest) \cup ToSet(jobs)
  /\ Waiting(micro)' = Waiting(rest) \cup Waiting(jobs) /\ QueueInv'

LEMMA PassStep ==
  ASSUME Shapes, QueueInv, NEW rest, Rest(rest), NEW jobs \in Seq(Jobs), Distinct(jobs),
         Waiting(rest) \cap Waiting(jobs) = {}, \A job \in ToSet(jobs) : JobKnown(job),
         requests' = requests, DOMAIN calls \subseteq DOMAIN calls', micro' = rest \o jobs
  PROVE  HavePassed(rest, jobs)
  <1>1. /\ micro' \in Seq(Jobs) /\ ToSet(micro') = ToSet(rest) \cup ToSet(jobs)
        /\ Waiting(micro') = Waiting(rest) \cup Waiting(jobs) /\ Distinct(micro')
    BY MembersConcat, WaitingConcat, DistinctConcat DEF Rest
  <1>2. ASSUME NEW job \in ToSet(micro') PROVE JobKnown(job)'
    <2>1. JobKnown(job)
      BY <1>1 DEF Rest, QueueInv
    <2> QED BY <2>1 DEF JobKnown, Unanswered, Ids
  <1>3. QueueInv'
    BY <1>1, <1>2 DEF QueueInv, Distinct
  <1> QED BY <1>1, <1>3 DEF Waiting, HavePassed

-----------------------------------------------------------------------------
(* What holds of requests and calls stays so.                              *)
LEMMA TruthKept ==
  ASSUME Keeps, NEW CONSTANT id, id \in Ids, NEW CONSTANT answer, Truth(id, answer)
  PROVE  Truth(id, answer)'
  BY DEF Keeps, Truth

LEMMA CallKept ==
  ASSUME Keeps, NEW CONSTANT call, call.ids \subseteq Ids, CallAsks(call), CallTrue(call)
  PROVE  CallAsks(call)' /\ CallTrue(call)'
  <1>1. \A id \in call.ids : /\ requests'[id].op = requests[id].op
                             /\ requests'[id].names = requests[id].names
                             /\ ~ Unanswered(id) => requests'[id].answer = requests[id].answer
    BY DEF Keeps
  <1>2. CallAsks(call)'
    BY <1>1 DEF CallAsks, AsksAll, CreatesEach
  <1>3. \A name : Did(call, name) => Did(call, name)'
    BY DEF Did, Keeps
  <1>4. call.result = "false" => \A id \in call.ids : requests'[id].answer = requests[id].answer
    BY <1>1 DEF CallTrue
  <1>5. call.result = "false" => \A name : Existed(call, name) => Existed(call, name)'
    BY <1>1, <1>4 DEF Existed
  <1>6. \A id \in call.ids : ~ Unanswered(id) => ~ Unanswered(id)'
    BY <1>1 DEF Unanswered
  <1>7. CallTrue(call)'
    BY <1>3, <1>5, <1>6 DEF CallTrue
  <1> QED BY <1>2, <1>7

LEMMA CallsKept ==
  ASSUME Keeps, RequestsInv, AsksInv, ResultsInv, NEW CONSTANT c, c \in DOMAIN calls,
         calls'[c] = calls[c]
  PROVE  CallAsks(calls[c])' /\ CallTrue(calls[c])'
  <1>1. PICK call : call = calls[c]
    OBVIOUS
  <1>2. call.ids \subseteq Ids /\ CallAsks(call) /\ CallTrue(call)
    BY <1>1 DEF RequestsInv, AsksInv, ResultsInv
  <1>3. CallAsks(call)' /\ CallTrue(call)'
    BY <1>2, CallKept
  <1>4. calls'[c] = call
    BY <1>1
  <1>5. CallAsks(calls[c])'
    BY <1>3, <1>4 DEF CallAsks, AsksAll, CreatesEach
  <1>6. CallTrue(calls[c])'
    BY <1>3, <1>4 DEF CallTrue, Did, Existed
  <1> QED BY <1>5, <1>6

LEMMA StepInv ==
  ASSUME Keeps, RequestsInv, AsksInv, ResultsInv, AnswersTrue,
         Ids' = Ids, calls' = calls, hosted' = hosted, guards' = registered',
         \A id \in registered' : /\ id \in Ids /\ requests[id].op # "METADATA"
                                 /\ Unanswered(id)' /\ id \notin Waiting(micro)',
         \A e \in ToSet(events') \cup ToSet(batch') : e.id \in Ids /\ Truth(e.id, e.answer)',
         \A id \in Ids : Unanswered(id)' /\ requests[id].call # 0 =>
           id \in Waiting(micro)' \/ (id \in registered' /\ Open' /\ Owed(id)'),
         \A id \in Ids : \/ requests'[id].answer = requests[id].answer
                         \/ Truth(id, requests[id].answer)'
  PROVE  RequestsInv' /\ Promised' /\ AnswersTrue' /\ AsksInv' /\ ResultsInv'
  <1>1. \A c \in DOMAIN calls : CallAsks(calls[c])' /\ CallTrue(calls[c])'
    BY CallsKept
  <1>2. \A id \in Ids : /\ requests'[id].op = requests[id].op
                        /\ requests'[id].call = requests[id].call
    BY DEF Keeps
  <1>3. RequestsInv'
    <2>1. \A id \in Ids' : requests'[id].call = 0 =>
            id = 1 /\ ~ hosted' /\ requests'[id].op = "METADATA"
      BY <1>2 DEF RequestsInv
    <2>2. \A id \in registered' :
            requests'[id].op # "METADATA" /\ Unanswered(id)' /\ id \notin Waiting(micro)'
      BY <1>2
    <2>3. \A e \in (ToSet(events) \cup ToSet(batch))' : e.id \in Ids'
      BY DEF ToSet
    <2>4. \A c \in DOMAIN calls' : /\ calls'[c].ids \subseteq Ids'
                                   /\ calls'[c].method \in NeedsName => calls'[c].args # <<>>
      BY DEF RequestsInv
    <2> QED BY <2>1, <2>2, <2>3, <2>4 DEF RequestsInv
  <1>4. Promised'
    BY <1>2 DEF Promised
  <1>5. AnswersTrue'
    <2>1. ASSUME NEW CONSTANT id, id \in Ids PROVE Truth(id, requests[id].answer)'
      <3>1. CASE requests'[id].answer = requests[id].answer
        BY <2>1, <3>1 DEF AnswersTrue, Truth, Keeps
      <3>2. CASE Truth(id, requests[id].answer)'
        BY <3>2 DEF Truth
      <3> QED BY <2>1, <3>1, <3>2 DEF Truth
    <2> QED BY <2>1 DEF AnswersTrue, ToSet
  <1>6. AsksInv' /\ ResultsInv'
    BY <1>1 DEF AsksInv, ResultsInv
  <1> QED BY <1>3, <1>4, <1>5, <1>6

-----------------------------------------------------------------------------
(* The parts of TypeOK: what each variable alone holds, and the rest.      *)
Scalars ==
  /\ hosted \in BOOLEAN /\ disconnected \in BOOLEAN
  /\ client \in [gen : 0 .. MaxHandles, state : {"INIT", "CONNECTING", "READY", "CLOSED"}]
  /\ ready \in {"pending", "ok", "failed"}
  /\ state \in {"INIT", "CONNECTING", "CONNECTED", "DISCONNECTING", "DISCONNECTED"}
  /\ connecting \in {"none", "pending", "resolved", "rejected"}
  /\ closing \in {"none", "pending", "resolved"}

LEMMA ScalarsOf == TypeOK => Scalars
  BY DEF TypeOK, Scalars

LEMMA TypeStep ==
  ASSUME TypeOK, Scalars', Promised', calls' \in Seq(Calls),
         registered' \subseteq Ids', native' \subseteq Ids',
         \A id \in Ids' : requests'[id].call \in 0..Len(calls'),
         existing' \subseteq Names, done' \subseteq Ids' \X Names
  PROVE  TypeOK'
  <1>1. \A c \in DOMAIN calls' : calls'[c].result \in {"none", "resolved", "rejected", "false"}
    <2>1. DOMAIN calls' = 1..Len(calls') /\ \A c \in 1..Len(calls') : calls'[c] \in Calls
      BY LenProperties
    <2> QED BY <2>1 DEF Calls
  <1> QED BY <1>1 DEF TypeOK, Scalars, Promised

(* The jobs that start a connection, and the one that ends it.             *)
HasStarter(q) == \E job \in ToSet(q) : job.do \in Starters
HasClosed(q) == \E job \in ToSet(q) : job.do = "closed"

LEMMA StartDone ==
  ASSUME micro' \in Seq(Jobs), ~ HasStarter(micro'), state' # "INIT"
  PROVE  StartInv'
  <1>1. \A j \in 1..Len(micro') : micro'[j] \in ToSet(micro')
    BY MembersAt
  <1>2. \A j \in 1..Len(micro') : micro'[j].do \notin Starters
    BY <1>1 DEF HasStarter
  <1>3. StartsAlone(micro')
    BY <1>2 DEF StartsAlone
  <1>4. ~ \E job \in ToSet(micro') : job.do \in Starters
    BY DEF HasStarter
  <1> QED BY <1>3, <1>4 DEF StartInv, StartsAlone, ToSet

LEMMA StartSame ==
  ASSUME StartInv, UNCHANGED <<state, requests, calls, micro, disconnected, hosted>>,
         hosted \/ client' = client
  PROVE  StartInv'
  BY DEF StartInv, StartsAlone, ToSet, Unanswered

LEMMA HeadAlone ==
  ASSUME Shapes, StartInv, micro # <<>>, Head(micro).do # "closed"
  PROVE  ~ HasStarter(Tail(micro)) /\ state # "INIT"
  <1>1. /\ Tail(micro) \in Seq(Jobs) /\ Len(micro) \in Nat \ {0} /\ Len(Tail(micro)) = Len(micro) - 1
        /\ Head(micro) = micro[1]
        /\ \A i \in 1..Len(Tail(micro)) : Tail(micro)[i] = micro[i + 1] /\ i + 1 \in 1..Len(micro)
    BY MembersTail DEF Shapes
  <1>2. ASSUME HasStarter(Tail(micro)) PROVE FALSE
    <2>0. ToSet(Tail(micro)) = {Tail(micro)[i] : i \in 1..Len(Tail(micro))}
      <3>1. Tail(micro) \in Seq(Jobs)
        BY <1>1
      <3> HIDE <1>1
      <3> QED BY <3>1, MembersAt
    <2>1. PICK i \in 1..Len(Tail(micro)) : Tail(micro)[i].do \in Starters
      BY <1>2, <2>0 DEF HasStarter
    <2>2. micro[i + 1].do \in Starters /\ i + 1 \in 1..Len(micro) /\ 1 # i + 1 /\ 1 \in 1..Len(micro)
      BY <1>1, <2>1
    <2>3. micro[1].do = "closed"
      BY <2>2 DEF StartInv, StartsAlone
    <2> QED BY <1>1, <2>3
  <1> QED BY <1>2 DEF StartInv

(* Nothing is registered before the first metadata.                        *)
LEMMA RegisteredLate ==
  ASSUME Shapes, TypeOK, RequestsInv, StartInv, HasStarter(micro) \/ state = "INIT"
  PROVE  registered = {}
  <1>1. CASE state = "INIT"
    <2>1. Ids = {}
      BY <1>1 DEF StartInv, Ids
    <2> QED BY <2>1 DEF TypeOK
  <1>2. CASE HasStarter(micro)
    <2>1. calls = <<>>
      BY <1>2 DEF StartInv, HasStarter
    <2>2. \A id \in registered : id \in Ids /\ requests[id].call \in 0..0
      BY <2>1 DEF TypeOK
    <2> QED BY <2>2 DEF RequestsInv
  <1> QED BY <1>1, <1>2

LEMMA StarterAlone ==
  ASSUME Shapes, StartInv, micro # <<>>, Head(micro).do \in Starters
  PROVE  /\ HasStarter(micro) /\ ~ HasStarter(Tail(micro))
         /\ \A job \in ToSet(Tail(micro)) : job.do = "closed"
         /\ Waiting(micro) = {} /\ Waiting(Tail(micro)) = {}
  <1>1. /\ Tail(micro) \in Seq(Jobs) /\ Len(micro) \in Nat \ {0} /\ Len(Tail(micro)) = Len(micro) - 1
        /\ Head(micro) = micro[1] /\ ToSet(micro) = {Head(micro)} \cup ToSet(Tail(micro))
        /\ \A i \in 1..Len(Tail(micro)) : Tail(micro)[i] = micro[i + 1] /\ i + 1 \in 1..Len(micro)
    BY MembersTail DEF Shapes
  <1>2. \A k \in 1..Len(micro) : k # 1 => micro[k].do = "closed"
    <2>1. micro[1].do \in Starters /\ 1 \in 1..Len(micro)
      BY <1>1
    <2> QED BY <2>1 DEF StartInv, StartsAlone
  <1>3. \A i \in 1..Len(Tail(micro)) : Tail(micro)[i].do = "closed"
    <2>1. \A i \in 1..Len(Tail(micro)) : i + 1 # 1
      BY <1>1
    <2> QED BY <1>1, <1>2, <2>1
  <1>4. ToSet(Tail(micro)) = {Tail(micro)[i] : i \in 1..Len(Tail(micro))}
    <2>1. Tail(micro) \in Seq(Jobs)
      BY <1>1
    <2> QED BY <2>1, MembersAt
  <1>5. \A job \in ToSet(Tail(micro)) : job.do = "closed"
    BY <1>3, <1>4
  <1> QED BY <1>1, <1>5 DEF HasStarter, Starters, Waiting, OfRequest

LEMMA StartAppend ==
  ASSUME Shapes, StartInv, NEW jobs \in Seq(Jobs), micro' = micro \o jobs,
         \A job \in ToSet(jobs) : job.do \notin Starters,
         HasStarter(micro) => \A job \in ToSet(jobs) : job.do = "closed",
         HasStarter(micro) => Len(requests') = Len(requests) /\ Unanswered(1)',
         calls' = calls, hosted' = hosted, state' \notin {"INIT", "CONNECTED"}
  PROVE  StartInv'
  <1>1. micro' \in Seq(Jobs) /\ ToSet(micro') = ToSet(micro) \cup ToSet(jobs)
    BY MembersConcat DEF Shapes
  <1>2. CASE ~ HasStarter(micro)
    <2>1. ~ HasStarter(micro')
      BY <1>1, <1>2 DEF HasStarter
    <2> QED BY <1>1, <2>1, StartDone
  <1>3. CASE HasStarter(micro)
    <2>1. /\ Len(micro') = Len(micro) + Len(jobs) /\ Len(micro) \in Nat /\ Len(jobs) \in Nat
          /\ \A i \in 1..Len(micro) + Len(jobs) :
               micro'[i] = IF i <= Len(micro) THEN micro[i] ELSE jobs[i - Len(micro)]
      BY ConcatProperties, LenProperties DEF Shapes
    <2>2. ToSet(jobs) = {jobs[i] : i \in 1..Len(jobs)}
      BY MembersAt
    <2>3. ASSUME NEW i \in 1..Len(micro'), ~ (i <= Len(micro)) PROVE micro'[i].do = "closed"
      <3>1. i - Len(micro) \in 1..Len(jobs)
        BY <2>1, <2>3
      <3> QED BY <1>3, <2>1, <2>2, <2>3, <3>1
    <2>4. StartsAlone(micro')
      <3> SUFFICES ASSUME NEW j \in 1..Len(micro'), micro'[j].do \in Starters,
                          NEW k \in 1..Len(micro'), k # j
                   PROVE  micro'[k].do = "closed"
        BY DEF StartsAlone
      <3>1. j <= Len(micro)
        BY <2>3 DEF Starters
      <3>2. CASE k <= Len(micro)
        BY <2>1, <3>1, <3>2 DEF StartInv, StartsAlone
      <3> QED BY <2>3, <3>2
    <2>5. calls = <<>> /\ ~ hosted /\ Len(requests) = 1
      BY <1>3 DEF StartInv, HasStarter
    <2> QED BY <1>3, <2>4, <2>5 DEF StartInv, StartsAlone, ToSet
  <1> QED BY <1>2, <1>3

LEMMA StartTail ==
  ASSUME Shapes, StartInv, micro # <<>>, micro' = Tail(micro),
         UNCHANGED <<requests, calls, hosted>>, state' \notin {"INIT", "CONNECTED"}
  PROVE  StartInv'
  <1>1. /\ Tail(micro) \in Seq(Jobs) /\ Len(micro) \in Nat \ {0} /\ Len(Tail(micro)) = Len(micro) - 1
        /\ ToSet(micro) = {Head(micro)} \cup ToSet(Tail(micro))
        /\ \A i \in 1..Len(Tail(micro)) : Tail(micro)[i] = micro[i + 1] /\ i + 1 \in 1..Len(micro)
    BY MembersTail DEF Shapes
  <1>2. StartsAlone(Tail(micro))
    <2> SUFFICES ASSUME NEW j \in 1..Len(Tail(micro)), Tail(micro)[j].do \in Starters,
                        NEW k \in 1..Len(Tail(micro)), k # j
                 PROVE  Tail(micro)[k].do = "closed"
      BY DEF StartsAlone
    <2>1. j + 1 # k + 1
      BY <1>1
    <2> QED BY <1>1, <2>1 DEF StartInv, StartsAlone
  <1>3. (\E job \in ToSet(Tail(micro)) : job.do \in Starters) =>
           calls = <<>> /\ ~ hosted /\ Len(requests) = 1 /\ Unanswered(1)
    BY <1>1 DEF StartInv
  <1> QED BY <1>2, <1>3 DEF StartInv, StartsAlone, ToSet, Unanswered

LEMMA EndKept ==
  ASSUME EndInv, hosted' = hosted, disconnected' = disconnected,
         ~ hosted /\ Open' => Open, state' = "DISCONNECTED" => state = "DISCONNECTED",
         HasClosed(micro') => HasClosed(micro)
  PROVE  EndInv'
  BY DEF EndInv, HasClosed, ToSet

LEMMA EndClosed ==
  ASSUME ~ Open', disconnected'
  PROVE  EndInv'
  BY DEF EndInv

LEMMA EndHosted == ASSUME hosted' PROVE EndInv'
  BY DEF EndInv
-----------------------------------------------------------------------------
(* A step that only passes jobs on.                                        *)
LEMMA JobsInv ==
  ASSUME AdminInv, UNCHANGED <<hosted, requests, calls, transport, broker>>,
         Scalars', micro' \in Seq(Jobs), QueueInv', StartInv', EndInv',
         \A id \in Waiting(micro) : Unanswered(id) => id \in Waiting(micro)',
         registered \cap Waiting(micro)' = {}, Open => Open' \/ registered = {}
  PROVE  AdminInv'
  <1> USE DEF AdminInv
  <1>1. Keeps /\ Ids' = Ids
    BY DEF Keeps, Ids, broker
  <1>2. \A id : Unanswered(id)' <=> Unanswered(id)
    BY DEF Unanswered
  <1>3. UNCHANGED <<registered, guards, native, events, batch, existing, done>>
    BY DEF transport, broker
  <1>4. \A id : Owed(id)' <=> Owed(id)
    BY <1>3 DEF Owed, ToSet
  <1>5. \A e \in ToSet(events') \cup ToSet(batch') : e.id \in Ids /\ Truth(e.id, e.answer)'
    <2>1. ToSet(events') \cup ToSet(batch') = ToSet(events) \cup ToSet(batch)
      BY <1>3
    <2>2. \A e \in ToSet(events) \cup ToSet(batch) : e.id \in Ids /\ Truth(e.id, e.answer)
      BY DEF RequestsInv, AnswersTrue, Truth
    <2> QED BY <1>1, <2>1, <2>2 DEF Truth, Keeps
  <1>6. \A id \in registered' : /\ id \in Ids /\ requests[id].op # "METADATA"
                                /\ Unanswered(id)' /\ id \notin Waiting(micro)'
    BY <1>2, <1>3 DEF RequestsInv, TypeOK
  <1>7. \A id \in Ids : Unanswered(id)' /\ requests[id].call # 0 =>
           id \in Waiting(micro)' \/ (id \in registered' /\ Open' /\ Owed(id)')
    BY <1>2, <1>3, <1>4 DEF Promised
  <1>8. RequestsInv' /\ Promised' /\ AnswersTrue' /\ AsksInv' /\ ResultsInv'
    <2>1. guards' = registered'
      BY <1>3 DEF Promised
    <2>2. RequestsInv /\ AsksInv /\ ResultsInv /\ AnswersTrue
      OBVIOUS
    <2> QED BY <1>1, <1>5, <1>6, <1>7, <2>1, <2>2, StepInv
  <1>9. TypeOK'
    BY <1>1, <1>3, <1>8, TypeStep DEF TypeOK, Shapes
  <1>10. Shapes'
    BY <1>3 DEF Shapes
  <1> QED BY <1>8, <1>9, <1>10

(* A step that answers requests.                                           *)
LEMMA AnswersInv ==
  ASSUME AdminInv, NEW S, S \subseteq Ids, NEW answer \in Replies,
         NEW rest, Rest(rest), NEW jobs \in Seq(Jobs),
         \A id \in S : Unanswered(id), S \cap Waiting(rest) = {},
         Waiting(jobs) = S, Distinct(jobs),
         \A job \in ToSet(jobs) : job.do \in {"settled", "closed"},
         requests' = Answered(S, answer), micro' = rest \o jobs,
         \A id \in Waiting(micro) : Unanswered(id) => id \in Waiting(rest) \cup S,
         UNCHANGED <<hosted, calls, broker>>,
         guards' = registered', registered' = registered \ S, native' \subseteq native,
         events' \in Seq(Events), batch' \in Seq(Events),
         ToSet(events') \subseteq ToSet(events), ToSet(batch') \subseteq ToSet(batch),
         \A id \in registered' : /\ id \notin Waiting(rest)
                                 /\ Open => Open'
                                 /\ Owed(id) => Owed(id)',
         \A id \in S : Truth(id, answer),
         Scalars', StartInv', EndInv'
  PROVE  AdminInv'
  <1>1. /\ requests' \in Seq(Requests) /\ Len(requests') = Len(requests) /\ Ids' = Ids
        /\ \A id \in Ids : /\ requests'[id].op = requests[id].op
                           /\ requests'[id].names = requests[id].names
                           /\ requests'[id].call = requests[id].call
                           /\ requests'[id].answer =
                                IF id \in S THEN answer ELSE requests[id].answer
        /\ micro' \in Seq(Jobs) /\ ToSet(micro') = ToSet(rest) \cup ToSet(jobs)
        /\ Waiting(micro)' = Waiting(rest) \cup S /\ QueueInv'
    <2>1. Shapes /\ QueueInv /\ calls' = calls
      BY DEF AdminInv
    <2>2. HaveAnswer(S, answer, rest, jobs)
      BY <2>1, AnswerStep
    <2> QED BY <2>2 DEF HaveAnswer
  <1> USE DEF AdminInv
  <1>2. existing' = existing /\ done' = done
    BY DEF broker
  <1>3. Keeps
    BY <1>1, <1>2 DEF Keeps
  <1>4. \A id \in Ids : Unanswered(id)' <=> Unanswered(id) /\ id \notin S
    BY <1>1, RepliesTyped DEF Unanswered
  <1>5. ASSUME NEW e \in ToSet(events') \cup ToSet(batch')
        PROVE  e.id \in Ids /\ Truth(e.id, e.answer)'
    <2>1. e \in ToSet(events) \cup ToSet(batch)
      OBVIOUS
    <2>2. e.id \in Ids
      BY <2>1 DEF RequestsInv
    <2> QED BY <1>3, <2>1, <2>2 DEF Keeps, AnswersTrue, Truth
  <1>6. \A id \in registered' : /\ id \in Ids /\ requests[id].op # "METADATA"
                                /\ Unanswered(id)' /\ id \notin Waiting(micro)'
    BY <1>1, <1>4 DEF RequestsInv, TypeOK
  <1>7. \A id \in Ids : Unanswered(id)' /\ requests[id].call # 0 =>
           id \in Waiting(micro)' \/ (id \in registered' /\ Open' /\ Owed(id)')
    BY <1>1, <1>4 DEF Promised
  <1>8. \A id \in Ids : \/ requests'[id].answer = requests[id].answer
                        \/ Truth(id, requests[id].answer)'
    <2>1. ASSUME NEW CONSTANT id, id \in S PROVE Truth(id, requests[id].answer)'
      <3>1. id \in Ids /\ Truth(id, answer)
        BY <2>1
      <3>2. Truth(id, answer)'
        BY <1>3, <3>1, TruthKept
      <3>3. requests'[id].answer = answer
        BY <1>1, <2>1, <3>1
      <3> QED BY <3>2, <3>3 DEF Truth
    <2>2. \A id \in Ids : id \notin S => requests'[id].answer = requests[id].answer
      BY <1>1
    <2> QED BY <2>1, <2>2 DEF Truth
  <1>9. RequestsInv' /\ Promised' /\ AnswersTrue' /\ AsksInv' /\ ResultsInv'
    <2>2. RequestsInv /\ AsksInv /\ ResultsInv /\ AnswersTrue
      OBVIOUS
    <2> QED BY <1>1, <1>3, <1>5, <1>6, <1>7, <1>8, <2>2, StepInv
  <1>10. TypeOK'
    <2>1. TypeOK /\ calls' \in Seq(Calls)
      BY DEF Shapes
    <2>2. registered' \subseteq Ids' /\ native' \subseteq Ids' /\ existing' \subseteq Names
          /\ done' \subseteq Ids' \X Names
      BY <1>1, <1>2, <2>1 DEF TypeOK
    <2>3. \A id \in Ids' : requests'[id].call \in 0..Len(calls')
      BY <1>1, <2>1 DEF TypeOK
    <2> QED BY <1>9, <2>1, <2>2, <2>3, TypeStep
  <1>11. Shapes'
    BY <1>1 DEF Shapes
  <1> QED BY <1>1, <1>9, <1>10, <1>11

-----------------------------------------------------------------------------
(* A step that asks the next batch of call c.                              *)
LEMMA AsksNew ==
  ASSUME AdminInv, NEW rs \in Seq(Questions), NEW c \in Nat \ {0},
         NEW rest, Rest(rest), NEW jobs,
         \/ jobs = Asked(rs)
         \/ rs = <<>> /\ jobs = <<Job("empty", c)>>,
         requests' = requests \o Made(rs, c), micro' = rest \o jobs,
         calls' \in Seq(Calls), DOMAIN calls' = DOMAIN calls \cup {c},
         \A d \in DOMAIN calls : d # c => calls'[d] = calls[d],
         calls'[c].ids = Len(requests) + 1 .. Len(requests) + Len(rs),
         calls'[c].method \in NeedsName => calls'[c].args # <<>>,
         CallAsks(calls[c])', CallTrue(calls[c])',
         UNCHANGED <<admin, client, transport, broker>>,
         \A id \in Waiting(micro) : Unanswered(id) => id \in Waiting(rest),
         StartInv'
  PROVE  AdminInv'
  <1> DEFINE new == Len(requests) + 1 .. Len(requests) + Len(rs)
  <1>1. Shapes /\ TypeOK /\ QueueInv
    BY DEF AdminInv
  <1>2. HaveAsked(rs, c, rest, jobs)
    BY <1>1, NewStep
  <1>3. /\ requests' \in Seq(Requests) /\ Len(requests') = Len(requests) + Len(rs)
        /\ Ids' = Ids \cup new
        /\ \A id \in Ids : requests'[id] = requests[id]
        /\ micro' \in Seq(Jobs) /\ ToSet(micro') = ToSet(rest) \cup ToSet(jobs)
        /\ Waiting(micro)' = Waiting(rest) \cup new
        /\ QueueInv'
        /\ \A job \in ToSet(jobs) : job.do \in {"request", "query", "empty"}
    BY <1>2 DEF HaveAsked
  <1>4. \A id \in new : requests'[id].call = c /\ requests'[id].answer = NoAnswer
    <2>1. Len(requests) \in Nat /\ Len(rs) \in Nat
      BY <1>1, LenProperties DEF Shapes
    <2>2. \A i \in 1..Len(rs) : /\ requests'[Len(requests) + i].call = c
                                /\ requests'[Len(requests) + i].answer = NoAnswer
      BY <1>2 DEF HaveAsked
    <2>3. ASSUME NEW id \in new PROVE \E i \in 1..Len(rs) : id = Len(requests) + i
      <3>1. id - Len(requests) \in 1..Len(rs) /\ Len(requests) + (id - Len(requests)) = id
        BY <2>1
      <3> QED BY <3>1
    <2> HIDE DEF new
    <2> QED BY <2>2, <2>3
  <1>5. Ids = 1..Len(requests) /\ Len(requests) \in Nat
    BY <1>1, LenProperties DEF Shapes, Ids
  <1>6. Ids \cap new = {}
    BY <1>5
  <1> HIDE DEF new
  <1> USE DEF AdminInv
  <1>7. UNCHANGED <<hosted, ready, disconnected, state, connecting, closing, client, registered,
                    guards, native, events, batch, existing, done>>
    BY DEF admin, transport, broker
  <1>8. Keeps
    BY <1>3, <1>7 DEF Keeps
  <1>9. \A id \in Ids : Unanswered(id)' <=> Unanswered(id)
    BY <1>3 DEF Unanswered
  <1>10. Open' = Open /\ \A id : Owed(id)' <=> Owed(id)
    BY <1>7 DEF Open, Owed, ToSet
  <1>11. RequestsInv'
    <2>1. \A id \in Ids' : requests'[id].call = 0 =>
            id = 1 /\ ~ hosted' /\ requests'[id].op = "METADATA"
      BY <1>3, <1>4, <1>7 DEF RequestsInv
    <2>2. \A id \in registered' :
            requests'[id].op # "METADATA" /\ Unanswered(id)' /\ id \notin Waiting(micro)'
      <3>1. \A id \in registered : /\ id \in Ids /\ id \notin new /\ Unanswered(id)
                                   /\ requests[id].op # "METADATA" /\ id \notin Waiting(micro)
        BY <1>6 DEF RequestsInv, TypeOK
      <3>2. Waiting(rest) \subseteq Waiting(micro)
        BY DEF Rest
      <3> QED BY <1>3, <1>7, <1>9, <3>1, <3>2
    <2>3. \A e \in (ToSet(events) \cup ToSet(batch))' : e.id \in Ids'
      BY <1>3, <1>7 DEF RequestsInv, ToSet
    <2>4. ASSUME NEW d \in DOMAIN calls'
          PROVE  /\ calls'[d].ids \subseteq Ids'
                 /\ calls'[d].method \in NeedsName => calls'[d].args # <<>>
      <3>1. CASE d = c
        BY <1>3, <3>1 DEF new
      <3>2. CASE d # c
        BY <1>3, <3>2 DEF RequestsInv
      <3> QED BY <3>1, <3>2
    <2> QED BY <2>1, <2>2, <2>3, <2>4 DEF RequestsInv
  <1>12. Promised'
    <2>1. guards' = registered'
      BY <1>7 DEF Promised
    <2>2. ASSUME NEW id \in Ids', Unanswered(id)', requests'[id].call # 0
          PROVE  id \in Waiting(micro)' \/ (id \in registered' /\ Open' /\ Owed(id)')
      <3>1. CASE id \in new
        BY <1>3, <3>1
      <3>2. CASE id \in Ids
        BY <1>3, <1>7, <1>9, <1>10, <2>2, <3>2 DEF Promised
      <3> QED BY <1>3, <3>1, <3>2
    <2> QED BY <2>1, <2>2 DEF Promised
  <1>13. AnswersTrue'
    <2>1. ASSUME NEW CONSTANT id, id \in Ids' PROVE Truth(id, requests[id].answer)'
      <3>1. CASE id \in new
        <4>1. requests'[id].answer = NoAnswer
          BY <1>4, <3>1
        <4>2. NoAnswer.err = "none"
          BY DEF NoAnswer, Failure
        <4> QED BY <4>1, <4>2 DEF Truth
      <3>2. CASE id \in Ids
        BY <1>3, <1>7, <3>2 DEF AnswersTrue, Truth
      <3> QED BY <1>3, <2>1, <3>1, <3>2 DEF Truth
    <2>2. ASSUME NEW CONSTANT e, e \in ToSet(events') \cup ToSet(batch')
          PROVE  Truth(e.id, e.answer)'
      <3>1. e \in ToSet(events) \cup ToSet(batch)
        BY <1>7, <2>2
      <3>2. e.id \in Ids
        BY <3>1 DEF RequestsInv
      <3> QED BY <1>3, <1>7, <3>1, <3>2 DEF AnswersTrue, Truth
    <2> QED BY <2>1, <2>2 DEF AnswersTrue, Truth, ToSet
  <1>14. ASSUME NEW CONSTANT d, d \in DOMAIN calls' PROVE CallAsks(calls[d])' /\ CallTrue(calls[d])'
    <2>1. CASE d = c
      BY <2>1 DEF CallAsks, AsksAll, CreatesEach, CallTrue, Did, Existed
    <2>2. CASE d # c
      <3>1. d \in DOMAIN calls /\ calls'[d] = calls[d]
        BY <1>14, <2>2
      <3>2. RequestsInv /\ AsksInv /\ ResultsInv
        OBVIOUS
      <3> QED BY <1>8, <3>1, <3>2, CallsKept
    <2> QED BY <2>1, <2>2
  <1>15. AsksInv' /\ ResultsInv'
    <2>1. \A d \in DOMAIN calls' : CallAsks(calls[d])'
      BY <1>14 DEF CallAsks, AsksAll, CreatesEach
    <2>2. \A d \in DOMAIN calls' : CallTrue(calls[d])'
      BY <1>14 DEF CallTrue, Did, Existed
    <2> QED BY <2>1, <2>2 DEF AsksInv, ResultsInv, CallAsks, AsksAll, CreatesEach, CallTrue, Did, Existed
  <1>16. Scalars'
    BY <1>7, ScalarsOf DEF Scalars
  <1>17. TypeOK'
    <2>1. /\ DOMAIN calls' = 1..Len(calls') /\ Len(calls') \in Nat
          /\ DOMAIN calls = 1..Len(calls) /\ Len(calls) \in Nat
      BY LenProperties DEF Shapes
    <2>2. \A k \in 0..Len(calls) : k \in 0..Len(calls')
      <3>1. PICK m, k : m = Len(calls) /\ k = Len(calls')
        OBVIOUS
      <3>2. DOMAIN calls \subseteq DOMAIN calls'
        OBVIOUS
      <3>3. 1..m \subseteq 1..k /\ m \in Nat /\ k \in Nat
        BY <2>1, <3>1, <3>2, Zenon
      <3>4. m <= k
        BY <3>3
      <3> QED BY <3>1, <3>3, <3>4
    <2>3. c \in 0..Len(calls')
      BY <2>1
    <2>4. \A id \in Ids' : requests'[id].call \in 0..Len(calls')
      BY <1>1, <1>3, <1>4, <2>2, <2>3 DEF TypeOK
    <2>5. /\ registered' \subseteq Ids' /\ native' \subseteq Ids' /\ existing' \subseteq Names
          /\ done' \subseteq Ids' \X Names
      BY <1>1, <1>3, <1>7 DEF TypeOK
    <2> QED BY <1>1, <1>12, <1>16, <2>4, <2>5, TypeStep
  <1>18. EndInv'
    <2>1. HasClosed(micro') => HasClosed(micro)
      <3>1. ToSet(rest) \subseteq ToSet(micro)
        BY DEF Rest
      <3> QED BY <1>3, <3>1 DEF HasClosed
    <2> QED BY <1>7, <1>10, <2>1, EndKept
  <1>19. Shapes'
    BY <1>3, <1>7 DEF Shapes
  <1> QED BY <1>3, <1>11, <1>12, <1>13, <1>15, <1>17, <1>18, <1>19

-----------------------------------------------------------------------------
(* The outcome a call is told is true.                                     *)
LEMMA AnswerOk ==
  ASSUME Shapes, NEW id \in Ids, NEW name, Truth(id, requests[id].answer),
         requests[id].op \in Writes, name \in ToSet(requests[id].names),
         ~ Unanswered(id), requests[id].answer.err = "", ~ ItemFailed(requests[id].answer)
  PROVE  \/ <<id, name>> \in done
         \/ name \in DOMAIN requests[id].answer.items /\ requests[id].answer.items[name] = "exists"
  <1>1. /\ DOMAIN requests[id].answer.items = ToSet(requests[id].names)
        /\ \A x \in DOMAIN requests[id].answer.items :
             requests[id].answer.items[x] = "ok" => <<id, x>> \in done
    BY DEF Truth
  <1>2. requests[id].answer \in Replies
    <2>1. requests[id] \in Requests
      <3>1. \A x \in Ids : requests[x] \in Requests
        BY LenProperties DEF Shapes, Ids
      <3> QED BY <3>1
    <2> QED BY <2>1 DEF Requests, Unanswered
  <1>3. PICK S \in SUBSET Names : requests[id].answer.items \in [S -> Codings]
    BY <1>2 DEF Replies, Items
  <1>4. requests[id].answer.items[name] \in Codings /\ name \in DOMAIN requests[id].answer.items
    BY <1>1, <1>3
  <1>5. requests[id].answer.items[name] # "failed"
    BY <1>4 DEF ItemFailed
  <1> QED BY <1>1, <1>4, <1>5 DEF Codings

LEMMA OutcomeTrue ==
  ASSUME Shapes, AnswersTrue, NEW CONSTANT call, call \in Calls, call.ids \subseteq Ids,
         CallAsks(call), CallTrue(call), NEW CONSTANT told,
         told = [call EXCEPT !.result = Outcome(call)]
  PROVE  told \in Calls /\ CallAsks(told) /\ CallTrue(told)
  <1>1. Outcome(call) \in {"none", "resolved", "rejected", "false"}
    BY DEF Outcome
  <1>2. /\ told \in Calls /\ told.ids = call.ids /\ told.args = call.args
        /\ told.method = call.method /\ told.stage = call.stage /\ told.result = Outcome(call)
    BY <1>1 DEF Calls
  <1>3. CallAsks(told)
    BY <1>2 DEF CallAsks, AsksAll, CreatesEach
  <1>4. \A id \in call.ids : requests[id] \in Answers(call)
    BY DEF Answers
  <1>5. \A id \in call.ids : Truth(id, requests[id].answer)
    BY DEF AnswersTrue, Truth
  <1>6. Outcome(call) \in {"resolved", "false"} =>
           \A id \in call.ids : ~ Unanswered(id) /\ ~ Rejected(requests[id])
    BY <1>4 DEF Outcome, AllIn, AnyRejected, Unanswered
  <1>7. Outcome(call) = "resolved" /\ call.method \in Writers =>
           \A name \in ToSet(call.args) : Did(call, name)
    <2> SUFFICES ASSUME Outcome(call) = "resolved", call.method \in Writers,
                        NEW name \in ToSet(call.args)
                 PROVE  Did(call, name)
      OBVIOUS
    <2>1. PICK id \in call.ids : requests[id].op \in Writes /\ name \in ToSet(requests[id].names)
      BY DEF CallAsks, AsksAll
    <2>2. ~ Unanswered(id) /\ ~ Rejected(requests[id]) /\ requests[id].op \notin ReportsItems
      BY <1>6 DEF CallAsks, AsksAll
    <2>3. requests[id].answer.err = "" /\ ~ ItemFailed(requests[id].answer)
      BY <2>2 DEF Rejected
    <2>4. ~ Exists(requests[id].answer)
      <3>1. CASE call.method = "createTopics"
        BY <1>4, <3>1 DEF Outcome
      <3>2. CASE call.method # "createTopics"
        BY <2>2, <3>2 DEF CallAsks, Rejected
      <3> QED BY <3>1, <3>2
    <2>5. <<id, name>> \in done
      BY <1>5, <2>1, <2>2, <2>3, <2>4, AnswerOk DEF Exists
    <2> QED BY <2>5 DEF Did
  <1>8. Outcome(call) = "false" => call.method = "createTopics"
    BY DEF Outcome
  <1>9. ASSUME Outcome(call) = "false"
        PROVE  /\ \A name \in ToSet(call.args) : Did(call, name) \/ Existed(call, name)
               /\ \E name \in ToSet(call.args) : Existed(call, name)
    <2>1. CreatesEach(call) /\ AsksAll(call)
      BY <1>8, <1>9 DEF CallAsks, Writers
    <2>2. ASSUME NEW name \in ToSet(call.args) PROVE Did(call, name) \/ Existed(call, name)
      <3>1. PICK id \in call.ids : requests[id].op \in Writes /\ name \in ToSet(requests[id].names)
        BY <2>1 DEF AsksAll
      <3>2. ~ Unanswered(id) /\ ~ Rejected(requests[id]) /\ requests[id].op \notin ReportsItems
        BY <1>6, <1>9, <2>1 DEF AsksAll
      <3>3. requests[id].answer.err = "" /\ ~ ItemFailed(requests[id].answer)
        BY <3>2 DEF Rejected
      <3>4. \/ <<id, name>> \in done
            \/ name \in DOMAIN requests[id].answer.items /\ requests[id].answer.items[name] = "exists"
        BY <1>5, <3>1, <3>2, <3>3, AnswerOk
      <3>5. PICK x \in ToSet(call.args) : requests[id].names = <<x>>
        BY <2>1 DEF CreatesEach
      <3>6. ToSet(<<x>>) = {x}
        BY MembersOne
      <3>7. requests[id].names = <<name>>
        BY <3>1, <3>5, <3>6
      <3> QED BY <3>4, <3>7 DEF Did, Existed, Exists
    <2>3. PICK id \in call.ids : Exists(requests[id].answer)
      BY <1>9 DEF Outcome, Answers
    <2>4. PICK x \in ToSet(call.args) : requests[id].names = <<x>>
      BY <2>1 DEF CreatesEach
    <2>5. Existed(call, x)
      BY <2>3, <2>4 DEF Existed
    <2> QED BY <2>2, <2>5
  <1>10. Outcome(call) # "none" /\ call.method = "createTopics" =>
            \A id \in call.ids : ~ Unanswered(id)
    BY <1>4 DEF Outcome, AllIn, WaitsForAll, Unanswered
  <1>11. \A name : (Did(told, name) <=> Did(call, name)) /\ (Existed(told, name) <=> Existed(call, name))
    BY <1>2 DEF Did, Existed
  <1>12. CallTrue(told)
    BY <1>2, <1>7, <1>8, <1>9, <1>10, <1>11 DEF CallTrue
  <1> QED BY <1>2, <1>3, <1>12

-----------------------------------------------------------------------------
(* A call is told its outcome, and nothing else.                           *)
LEMMA ToldStep ==
  ASSUME AdminInv, NEW CONSTANT c, c \in DOMAIN calls,
         calls' = [calls EXCEPT ![c].result = Outcome(calls[c])], requests' = requests,
         NEW rest, Rest(rest), micro' = rest,
         UNCHANGED <<admin, client, transport, broker>>,
         \A id \in Waiting(micro) : Unanswered(id) => id \in Waiting(rest),
         StartInv'
  PROVE  AdminInv'
  <1> USE DEF AdminInv
  <1>1. UNCHANGED <<hosted, ready, disconnected, state, connecting, closing, client, registered,
                    guards, native, events, batch, existing, done>>
    BY DEF admin, transport, broker
  <1>2. Keeps /\ Ids' = Ids
    BY <1>1 DEF Keeps, Ids
  <1>3. PICK call : call = calls[c]
    OBVIOUS
  <1>4. PICK told : told = [call EXCEPT !.result = Outcome(call)]
    OBVIOUS
  <1>5. /\ DOMAIN calls = 1..Len(calls) /\ Len(calls) \in Nat /\ calls \in Seq(Calls)
        /\ call \in Calls
    <2>1. DOMAIN calls = 1..Len(calls) /\ Len(calls) \in Nat /\ calls \in Seq(Calls)
      BY LenProperties DEF Shapes
    <2> HIDE DEF Calls
    <2> QED BY <1>3, <2>1
  <1>6. told \in Calls /\ CallAsks(told) /\ CallTrue(told)
    <2>1. call.ids \subseteq Ids /\ CallAsks(call) /\ CallTrue(call)
      BY <1>3 DEF RequestsInv, AsksInv, ResultsInv
    <2> QED BY <1>4, <1>5, <2>1, OutcomeTrue
  <1>7. calls' = [calls EXCEPT ![c] = told]
    BY <1>3, <1>4
  <1>8. /\ calls' \in Seq(Calls) /\ DOMAIN calls' = DOMAIN calls /\ Len(calls') = Len(calls)
        /\ calls'[c] = told
        /\ \A d \in DOMAIN calls : d # c => calls'[d] = calls[d]
    <2> HIDE DEF Calls
    <2> QED BY <1>5, <1>6, <1>7
  <1>9. told.ids = call.ids /\ told.method = call.method /\ told.args = call.args
    BY <1>4, <1>5 DEF Calls
  <1>10. HavePassed(rest, <<>>)
    <2>1. <<>> \in Seq(Jobs) /\ ToSet(<<>>) = {} /\ Distinct(<<>>) /\ Waiting(<<>>) = {}
      BY MembersNone DEF Distinct, Waiting
    <2>2. micro' = rest \o <<>>
      BY DEF Rest
    <2>3. Shapes /\ QueueInv /\ DOMAIN calls \subseteq DOMAIN calls'
      BY <1>8
    <2> QED BY <2>1, <2>2, <2>3, PassStep
  <1>11. /\ micro' \in Seq(Jobs) /\ ToSet(micro') = ToSet(rest)
         /\ Waiting(micro)' = Waiting(rest) /\ QueueInv'
    <2>1. Waiting(<<>>) = {} /\ ToSet(<<>>) = {}
      BY MembersNone DEF Waiting
    <2> QED BY <1>10, <2>1 DEF HavePassed
  <1>12. \A id : (Unanswered(id)' <=> Unanswered(id)) /\ (Owed(id)' <=> Owed(id))
    BY <1>1 DEF Unanswered, Owed, ToSet
  <1>13. Open' = Open
    BY <1>1 DEF Open
  <1>14. RequestsInv'
    <2>1. \A id \in Ids' : requests'[id].call = 0 =>
            id = 1 /\ ~ hosted' /\ requests'[id].op = "METADATA"
      BY <1>1, <1>2 DEF RequestsInv
    <2>2. \A id \in registered' :
            requests'[id].op # "METADATA" /\ Unanswered(id)' /\ id \notin Waiting(micro)'
      <3>1. Waiting(rest) \subseteq Waiting(micro)
        BY DEF Rest
      <3> QED BY <1>1, <1>11, <1>12, <3>1 DEF RequestsInv
    <2>3. \A e \in (ToSet(events) \cup ToSet(batch))' : e.id \in Ids'
      BY <1>1, <1>2 DEF RequestsInv, ToSet
    <2>4. ASSUME NEW d \in DOMAIN calls'
          PROVE  /\ calls'[d].ids \subseteq Ids'
                 /\ calls'[d].method \in NeedsName => calls'[d].args # <<>>
      <3>1. CASE d = c
        BY <1>2, <1>3, <1>8, <1>9, <3>1 DEF RequestsInv
      <3>2. CASE d # c
        BY <1>2, <1>8, <3>2 DEF RequestsInv
      <3> QED BY <3>1, <3>2
    <2> QED BY <2>1, <2>2, <2>3, <2>4 DEF RequestsInv
  <1>15. Promised'
    BY <1>1, <1>2, <1>11, <1>12, <1>13 DEF Promised
  <1>16. AnswersTrue'
    <2>1. ToSet(events') \cup ToSet(batch') = ToSet(events) \cup ToSet(batch)
      BY <1>1
    <2>2. ASSUME NEW CONSTANT id, id \in Ids' PROVE Truth(id, requests[id].answer)'
      BY <1>1, <1>2, <2>2 DEF AnswersTrue, Truth
    <2>3. ASSUME NEW CONSTANT e, e \in ToSet(events') \cup ToSet(batch')
          PROVE  Truth(e.id, e.answer)'
      BY <1>1, <2>1, <2>3 DEF AnswersTrue, Truth
    <2> QED BY <2>2, <2>3 DEF AnswersTrue, Truth, ToSet
  <1>17. ASSUME NEW CONSTANT d, d \in DOMAIN calls' PROVE CallAsks(calls[d])' /\ CallTrue(calls[d])'
    <2>1. CASE d = c
      <3>1. CallAsks(calls[d])'
        <4>1. CallAsks(told)'
          BY <1>6 DEF CallAsks, AsksAll, CreatesEach
        <4> QED BY <1>8, <2>1, <4>1 DEF CallAsks, AsksAll, CreatesEach
      <3>2. CallTrue(calls[d])'
        <4>1. CallTrue(told)'
          BY <1>1, <1>6 DEF CallTrue, Did, Existed, Unanswered
        <4>2. calls'[d] = told
          BY <1>8, <2>1
        <4> HIDE DEF Calls
        <4> QED BY <4>1, <4>2 DEF CallTrue, Did, Existed, Unanswered
      <3> QED BY <3>1, <3>2
    <2>2. CASE d # c
      <3>1. d \in DOMAIN calls /\ calls'[d] = calls[d]
        BY <1>8, <1>17, <2>2
      <3>2. RequestsInv /\ AsksInv /\ ResultsInv
        OBVIOUS
      <3> QED BY <1>2, <3>1, <3>2, CallsKept
    <2> QED BY <2>1, <2>2
  <1>18. AsksInv' /\ ResultsInv'
    <2>1. \A d \in DOMAIN calls' : CallAsks(calls[d])'
      BY <1>17 DEF CallAsks, AsksAll, CreatesEach
    <2>2. \A d \in DOMAIN calls' : CallTrue(calls[d])'
      BY <1>17 DEF CallTrue, Did, Existed
    <2> QED BY <2>1, <2>2 DEF AsksInv, ResultsInv, CallAsks, AsksAll, CreatesEach, CallTrue, Did, Existed
  <1>19. TypeOK'
    <2>1. Scalars'
      BY <1>1, ScalarsOf DEF Scalars
    <2>2. \A id \in Ids' : requests'[id].call \in 0..Len(calls')
      BY <1>2, <1>8 DEF TypeOK
    <2>3. TypeOK
      OBVIOUS
    <2>4. /\ registered' \subseteq Ids' /\ native' \subseteq Ids' /\ existing' \subseteq Names
          /\ done' \subseteq Ids' \X Names
      BY <1>1, <1>2, <2>3 DEF TypeOK
    <2> QED BY <1>8, <1>15, <2>1, <2>2, <2>3, <2>4, TypeStep
  <1>20. EndInv'
    <2>1. HasClosed(micro') => HasClosed(micro)
      BY <1>11 DEF HasClosed, Rest
    <2> QED BY <1>1, <1>13, <2>1, EndKept
  <1>21. Shapes'
    BY <1>1, <1>8, <1>11 DEF Shapes
  <1> QED BY <1>11, <1>14, <1>15, <1>16, <1>18, <1>19, <1>20, <1>21

(* What collects the answers of a batch.                                   *)
LEMMA CollectStep ==
  ASSUME AdminInv, NEW CONSTANT c, c \in DOMAIN calls, Collect(c),
         micro # <<>>, Rest(Tail(micro)),
         \A id \in Waiting(micro) : Unanswered(id) => id \in Waiting(Tail(micro)),
         UNCHANGED <<admin, client, transport, broker>>,
         ~ HasStarter(Tail(micro)), state # "INIT"
  PROVE  AdminInv'
  <1> DEFINE next == Batches(calls[c].method, calls[c].args, FoundBy(calls[c]))
             rest == next[calls[c].stage + 1]
  <1>1. CASE ~ (Outcome(calls[c]) = "resolved" /\ calls[c].stage < Len(next))
    <2>1. /\ calls' = [calls EXCEPT ![c].result = Outcome(calls[c])]
          /\ micro' = Tail(micro) /\ requests' = requests
      BY <1>1 DEF Collect
    <2>2. StartInv'
      <3>1. micro' \in Seq(Jobs) /\ ~ HasStarter(micro') /\ state' # "INIT"
        BY <2>1 DEF Rest, admin
      <3> QED BY <3>1, StartDone
    <2> QED BY <2>1, <2>2, ToldStep
  <1>2. CASE Outcome(calls[c]) = "resolved" /\ calls[c].stage < Len(next)
    <2>1. /\ calls' = [calls EXCEPT ![c].stage = calls[c].stage + 1, ![c].found = FoundBy(calls[c]),
                        ![c].ids = NextCorrelationId .. NextCorrelationId + Len(rest) - 1]
          /\ requests' = requests \o Made(rest, c)
          /\ micro' = Tail(micro) \o (IF rest = <<>> THEN <<Job("empty", c)>> ELSE Asked(rest))
      BY <1>2 DEF Collect
    <2>2. /\ DOMAIN calls = 1..Len(calls) /\ Len(calls) \in Nat /\ calls \in Seq(Calls)
          /\ calls[c] \in Calls /\ Len(requests) \in Nat
      <3>1. DOMAIN calls = 1..Len(calls) /\ Len(calls) \in Nat /\ calls \in Seq(Calls)
        BY LenProperties DEF Shapes, AdminInv
      <3>2. Len(requests) \in Nat
        BY LenProperties DEF Shapes, AdminInv
      <3> HIDE DEF Calls
      <3> QED BY <3>1, <3>2
    <2>3. calls[c].ids \subseteq Ids /\ (calls[c].method \in NeedsName => calls[c].args # <<>>)
      BY DEF AdminInv, RequestsInv
    <2>4. FoundBy(calls[c]) \in Seq(Names)
      BY <2>3, FoundTyped DEF AdminInv
    <2>5. /\ calls[c].method \in AllMethods /\ calls[c].args \in Seq(Names)
          /\ calls[c].stage \in Nat \ {0}
      BY <2>2, MethodsAssumption DEF Calls
    <2>6. next \in Seq(Seq(Questions)) /\ Len(next) \in Nat \ {0}
      BY <2>3, <2>4, <2>5, BatchesTyped
    <2>7. rest \in Seq(Questions)
      <3>1. calls[c].stage + 1 \in 1..Len(next)
        BY <1>2, <2>5, <2>6
      <3> HIDE DEF next
      <3> QED BY <2>6, <3>1
    <2>8. calls[c].method \notin Writers
      <3>1. ASSUME calls[c].method \in Writers PROVE FALSE
        <4>1. Len(next) = 1
          BY <2>4, <2>5, <3>1, BatchesOfWriters
        <4>2. calls[c].stage = 1
          BY <3>1 DEF AdminInv, AsksInv, CallAsks
        <4> QED BY <1>2, <4>1, <4>2
      <3> QED BY <3>1
    <2>9. calls[c].result # "false"
      <3>1. CallTrue(calls[c])
        BY DEF AdminInv, ResultsInv, CallTrue, Did, Existed
      <3> QED BY <2>8, <3>1 DEF CallTrue, Writers
    <2> HIDE DEF next, rest
    <2>10. NextCorrelationId .. NextCorrelationId + Len(rest) - 1
             = Len(requests) + 1 .. Len(requests) + Len(rest)
      <3>1. Len(rest) \in Nat
        BY <2>7, LenProperties
      <3>2. Len(requests) + 1 + Len(rest) - 1 = Len(requests) + Len(rest)
        BY <2>2, <3>1
      <3> QED BY <3>2 DEF NextCorrelationId
    <2>11. PICK told : told = [calls[c] EXCEPT !.stage = calls[c].stage + 1, !.found = FoundBy(calls[c]),
                                 !.ids = Len(requests) + 1 .. Len(requests) + Len(rest)]
      OBVIOUS
    <2>12. /\ told \in Calls /\ told.method = calls[c].method /\ told.args = calls[c].args
           /\ told.result = calls[c].result
           /\ told.ids = Len(requests) + 1 .. Len(requests) + Len(rest)
      <3>1. Len(requests) + 1 .. Len(requests) + Len(rest) \in SUBSET Nat
        BY <2>2
      <3>2. calls[c].stage + 1 \in Nat \ {0}
        BY <2>5
      <3>3. PICK call, stage, found, ids :
              /\ call = calls[c] /\ stage = calls[c].stage + 1 /\ found = FoundBy(calls[c])
              /\ ids = Len(requests) + 1 .. Len(requests) + Len(rest)
        OBVIOUS
      <3>4. told = [call EXCEPT !.stage = stage, !.found = found, !.ids = ids]
        BY <2>11, <3>3
      <3>5. /\ call \in Calls /\ stage \in Nat \ {0} /\ found \in Seq(Names)
            /\ ids \in SUBSET Nat
        BY <2>2, <2>4, <3>1, <3>2, <3>3
      <3>6. /\ told \in Calls /\ told.method = call.method /\ told.args = call.args
            /\ told.result = call.result /\ told.ids = ids
        BY <3>4, <3>5 DEF Calls
      <3> QED BY <3>3, <3>6
    <2>13. calls' = [calls EXCEPT ![c] = told]
      BY <2>1, <2>10, <2>11
    <2>14. /\ calls' \in Seq(Calls) /\ DOMAIN calls' = DOMAIN calls \cup {c} /\ calls'[c] = told
           /\ \A d \in DOMAIN calls : d # c => calls'[d] = calls[d]
      <3> HIDE DEF Calls
      <3> QED BY <2>2, <2>12, <2>13
    <2>15. CallAsks(calls[c])'
      BY <2>8, <2>12, <2>14 DEF CallAsks
    <2>16. CallTrue(calls[c])'
      BY <2>8, <2>9, <2>12, <2>14 DEF CallTrue, Writers
    <2>17. PICK jobs : jobs = IF rest = <<>> THEN <<Job("empty", c)>> ELSE Asked(rest)
      OBVIOUS
    <2>18. PICK rs : rs = rest
      OBVIOUS
    <2>19. PICK tail : tail = Tail(micro)
      OBVIOUS
    <2>20. /\ rs \in Seq(Questions) /\ c \in Nat \ {0} /\ requests' = requests \o Made(rs, c)
           /\ micro' = tail \o jobs
           /\ calls'[c].ids = Len(requests) + 1 .. Len(requests) + Len(rs)
      <3>1. c \in Nat \ {0}
        BY <2>2
      <3>2. rs \in Seq(Questions) /\ requests' = requests \o Made(rs, c)
        BY <2>1, <2>7, <2>18
      <3>3. micro' = tail \o jobs
        BY <2>1, <2>17, <2>19, Zenon
      <3>4. calls'[c].ids = Len(requests) + 1 .. Len(requests) + Len(rs)
        BY <2>12, <2>14, <2>18
      <3> QED BY <3>1, <3>2, <3>3, <3>4
    <2>21. jobs = Asked(rs) \/ (rs = <<>> /\ jobs = <<Job("empty", c)>>)
      BY <2>17, <2>18
    <2>22. Rest(tail) /\ \A id \in Waiting(micro) : Unanswered(id) => id \in Waiting(tail)
      BY <2>19 DEF Rest
    <2>23. calls'[c].method \in NeedsName => calls'[c].args # <<>>
      BY <2>3, <2>12, <2>14
    <2>24. StartInv'
      <3>1. HaveAsked(rs, c, tail, jobs)
        <4>1. DOMAIN calls \subseteq DOMAIN calls' /\ c \in DOMAIN calls' /\ c \in Nat
          BY <2>14, <2>20
        <4>2. Shapes /\ TypeOK /\ QueueInv
          BY DEF AdminInv
        <4> QED BY <2>20, <2>21, <2>22, <4>1, <4>2, NewStep
      <3>2. /\ micro' \in Seq(Jobs) /\ ToSet(micro') = ToSet(tail) \cup ToSet(jobs)
            /\ \A job \in ToSet(jobs) : job.do \in {"request", "query", "empty"}
        BY <3>1 DEF HaveAsked
      <3>3. ~ HasStarter(micro')
        BY <2>19, <3>2 DEF HasStarter, Starters
      <3>4. state' # "INIT"
        BY DEF admin
      <3> QED BY <3>2, <3>3, <3>4, StartDone
    <2> QED BY <2>14, <2>15, <2>16, <2>20, <2>21, <2>22, <2>23, <2>24, AsksNew
  <1> QED BY <1>1, <1>2

-----------------------------------------------------------------------------
(* teardown() answers whoever is registered.                               *)
LEMMA TeardownInv ==
  ASSUME AdminInv, Teardown, NEW rest, Rest(rest), NEW after \in Seq(Jobs),
         \A job \in ToSet(after) : job.do = "closed", Distinct(after),
         micro' = rest \o (SettledJobs(registered) \o after),
         UNCHANGED <<hosted, calls, batch, broker>>,
         \A id \in Waiting(micro) : Unanswered(id) => id \in Waiting(rest),
         Scalars', StartInv', EndInv'
  PROVE  AdminInv'
  <1>1. PICK S : S = registered
    OBVIOUS
  <1>2. SettledJobs(registered) = SettledJobs(S)
    BY <1>1 DEF SettledJobs, Each, Settled, Hops
  <1>3. /\ S \subseteq Ids /\ \A id \in S : Unanswered(id) /\ id \notin Waiting(micro)
    BY <1>1 DEF AdminInv, TypeOK, RequestsInv, Unanswered
  <1>4. /\ SettledJobs(S) \in Seq(Jobs) /\ Waiting(SettledJobs(S)) = S /\ Distinct(SettledJobs(S))
        /\ \A job \in ToSet(SettledJobs(S)) : job.do = "settled"
    BY <1>3, SettledMany DEF AdminInv
  <1>5. PICK jobs : jobs = SettledJobs(S) \o after
    OBVIOUS
  <1>6. Waiting(after) = {}
    BY DEF Waiting, OfRequest
  <1>7. /\ jobs \in Seq(Jobs) /\ Waiting(jobs) = S /\ Distinct(jobs)
        /\ \A job \in ToSet(jobs) : job.do \in {"settled", "closed"}
    <2>1. PICK sj : sj = SettledJobs(S)
      OBVIOUS
    <2>2. /\ sj \in Seq(Jobs) /\ Waiting(sj) = S /\ Distinct(sj) /\ jobs = sj \o after
          /\ \A job \in ToSet(sj) : job.do = "settled"
      BY <1>4, <1>5, <2>1
    <2>3. jobs \in Seq(Jobs) /\ ToSet(jobs) = ToSet(sj) \cup ToSet(after)
      BY <2>2, MembersConcat
    <2>4. Waiting(jobs) = S
      <3>1. Waiting(sj \o after) = Waiting(sj) \cup Waiting(after)
        BY <2>2, WaitingConcat
      <3>2. Waiting(jobs) = Waiting(sj) \cup Waiting(after)
        BY <2>2, <3>1
      <3> HIDE DEF Waiting
      <3> QED BY <1>6, <2>2, <3>2
    <2>5. Distinct(jobs)
      BY <1>6, <2>2, DistinctConcat
    <2> QED BY <2>2, <2>3, <2>4, <2>5
  <1>8. PICK answer : answer = Failure("DESTROY")
    OBVIOUS
  <1>9. answer \in Replies /\ answer.err # ""
    BY <1>8, RepliesTyped DEF Errors, Failure
  <1>10. \A id \in S : Truth(id, answer)
    BY <1>9 DEF Truth
  <1>11. requests' = Answered(S, answer)
    BY <1>1, <1>8 DEF Teardown, Answered, Orphans
  <1>12. micro' = rest \o jobs
    BY <1>2, <1>5
  <1>13. /\ registered' = registered \ S /\ guards' = registered' /\ registered' = {}
         /\ native' \subseteq native /\ events' = <<>>
    BY <1>1 DEF Teardown, Orphans, AdminInv, Promised
  <1>14. /\ events' \in Seq(Events) /\ batch' \in Seq(Events)
         /\ ToSet(events') \subseteq ToSet(events) /\ ToSet(batch') \subseteq ToSet(batch)
    BY <1>13, MembersNone DEF AdminInv, Shapes
  <1>15. S \cap Waiting(rest) = {}
    BY <1>3 DEF Rest
  <1>16. \A id \in registered' : /\ id \notin Waiting(rest)
                                 /\ Open => Open'
                                 /\ Owed(id) => Owed(id)'
    BY <1>13
  <1>17. \A id \in Waiting(micro) : Unanswered(id) => id \in Waiting(rest) \cup S
    OBVIOUS
  <1>18. UNCHANGED <<hosted, calls, broker>>
    OBVIOUS
  <1>19. \A id \in S : Unanswered(id)
    BY <1>3
  <1> HIDE DEF Replies
  <1> QED BY <1>3, <1>7, <1>9, <1>10, <1>11, <1>12, <1>13, <1>14, <1>15, <1>16, <1>17, <1>18,
             <1>19, AnswersInv

(* librdkafka's side of a step, and the poll's.                            *)
LEMMA ServerStep ==
  ASSUME AdminInv, UNCHANGED <<admin, client, registered, guards, requests, calls, micro>>,
         native' \subseteq Ids, existing' \subseteq Names, done \subseteq done',
         done' \subseteq Ids \X Names,
         events' \in Seq(Events), batch' \in Seq(Events),
         \A e \in ToSet(events') \cup ToSet(batch') :
           e \in ToSet(events) \cup ToSet(batch) \/ (e.id \in Ids /\ Truth(e.id, e.answer)'),
         \A id \in registered : Owed(id) => Owed(id)'
  PROVE  AdminInv'
  <1> USE DEF AdminInv
  <1>1. UNCHANGED <<hosted, ready, disconnected, state, connecting, closing>>
    BY DEF admin
  <1>2. Keeps /\ Ids' = Ids
    BY DEF Keeps, Ids
  <1>3. \A id : (Unanswered(id)' <=> Unanswered(id)) /\ Open' = Open /\ Waiting(micro)' = Waiting(micro)
    BY DEF Unanswered, Open
  <1>4. ASSUME NEW CONSTANT e, e \in ToSet(events') \cup ToSet(batch')
        PROVE  e.id \in Ids /\ Truth(e.id, e.answer)'
    <2>1. CASE e \in ToSet(events) \cup ToSet(batch)
      <3>1. e.id \in Ids
        BY <2>1 DEF RequestsInv
      <3> QED BY <1>2, <2>1, <3>1 DEF AnswersTrue, Truth, Keeps
    <2> QED BY <1>4, <2>1 DEF Truth
  <1>5. \A id \in registered' : /\ id \in Ids /\ requests[id].op # "METADATA"
                                /\ Unanswered(id)' /\ id \notin Waiting(micro)'
    BY <1>3 DEF RequestsInv, TypeOK
  <1>6. \A id \in Ids : Unanswered(id)' /\ requests[id].call # 0 =>
          id \in Waiting(micro)' \/ (id \in registered' /\ Open' /\ Owed(id)')
    BY <1>3 DEF Promised
  <1>7. RequestsInv' /\ Promised' /\ AnswersTrue' /\ AsksInv' /\ ResultsInv'
    <2>1. RequestsInv /\ AsksInv /\ ResultsInv /\ AnswersTrue /\ guards' = registered'
      BY DEF Promised
    <2>2. \A e \in ToSet(events') \cup ToSet(batch') : e.id \in Ids /\ Truth(e.id, e.answer)'
      BY <1>4 DEF Truth
    <2> QED BY <1>1, <1>2, <1>5, <1>6, <2>1, <2>2, StepInv
  <1>8. TypeOK'
    <2>1. Scalars'
      BY <1>1, ScalarsOf DEF Scalars
    <2>2. TypeOK /\ calls' \in Seq(Calls)
      BY DEF Shapes
    <2>3. registered' \subseteq Ids' /\ native' \subseteq Ids' /\ done' \subseteq Ids' \X Names
      BY <1>2, <2>2 DEF TypeOK
    <2>4. \A id \in Ids' : requests'[id].call \in 0..Len(calls')
      BY <1>2, <2>2 DEF TypeOK
    <2> QED BY <1>7, <2>1, <2>2, <2>3, <2>4, TypeStep
  <1>9. StartInv'
    BY <1>1, StartSame
  <1>10. EndInv'
    BY <1>1, <1>3 DEF EndInv, ToSet
  <1>11. Shapes' /\ QueueInv'
    BY <1>2, <1>3 DEF Shapes, QueueInv, Distinct, JobKnown, ToSet, Unanswered
  <1> QED BY <1>7, <1>8, <1>9, <1>10, <1>11

-----------------------------------------------------------------------------
(* connect() and disconnect().                                             *)
LEMMA OneJob ==
  ASSUME NEW x \in Jobs
  PROVE  /\ <<x>> \in Seq(Jobs) /\ ToSet(<<x>>) = {x} /\ Distinct(<<x>>)
         /\ x.do \in OfRequest => Waiting(<<x>>) = {x.id}
         /\ x.do \notin OfRequest => Waiting(<<x>>) = {}
         /\ \A q \in Seq(Jobs) : Append(q, x) = q \o <<x>>
  <1>1. /\ <<x>> \in Seq(Jobs) /\ ToSet(<<x>>) = {x}
        /\ \A q \in Seq(Jobs) : Append(q, x) = q \o <<x>>
    BY MembersOne
  <1>2. Distinct(<<x>>)
    BY DEF Distinct
  <1> QED BY <1>1, <1>2 DEF Waiting

LEMMA ConnectInv == ASSUME AdminInv, Connect PROVE AdminInv'
  <1>1. /\ requests = <<>> /\ calls = <<>> /\ micro = <<>> /\ ~ disconnected /\ state = "INIT"
        /\ ~ hosted => client.gen = 0 /\ client.state = "INIT"
    BY DEF Connect, AdminInv, StartInv
  <1>2. registered = {}
    BY <1>1, RegisteredLate DEF AdminInv
  <1>3. Ids = {} /\ Waiting(micro) = {}
    <2>1. ToSet(micro) = {}
      BY <1>1, MembersNone
    <2> QED BY <1>1, <2>1 DEF Ids, Waiting
  <1>4. UNCHANGED <<hosted, disconnected, closing, transport, calls, broker>>
    BY DEF Connect
  <1>5. UNCHANGED <<registered, guards, native, events, batch, existing, done>>
    BY <1>4 DEF transport, broker
  <1>6. TypeOK /\ Shapes /\ Scalars
    BY ScalarsOf DEF AdminInv
  <1>7. CASE hosted
    <2>1. /\ UNCHANGED <<client, requests, micro>> /\ state' \in {"CONNECTED", "DISCONNECTED"}
          /\ connecting' \in {"resolved", "rejected"} /\ ready' \in {"pending", "ok", "failed"}
      BY <1>6, <1>7 DEF Connect, Scalars
    <2>2. Scalars'
      BY <1>4, <1>6, <2>1 DEF Scalars
    <2>3. micro' \in Seq(Jobs) /\ QueueInv' /\ Waiting(micro)' = Waiting(micro)
      BY <1>4, <1>6, <2>1 DEF AdminInv, Shapes, QueueInv, Distinct, JobKnown, ToSet, Ids, Unanswered
    <2>4. StartInv'
      <3>1. ToSet(micro') = {}
        BY <1>1, <2>1, MembersNone
      <3> QED BY <2>1, <2>3, <3>1, StartDone DEF HasStarter
    <2>5. EndInv'
      BY <1>4, <1>7, EndHosted
    <2> QED BY <1>2, <1>4, <2>1, <2>2, <2>3, <2>4, <2>5, JobsInv
  <1>8. CASE ~ hosted
    <2>1. PICK job : /\ job \in Jobs /\ job.do \in {"metadata", "nativeFailed"} /\ micro' = <<job>>
                     /\ client' = client \/ client' = [gen |-> 1, state |-> "CONNECTING"]
      <3>1. \A x : Append(micro, x) = <<x>>
        BY <1>1
      <3>2. \/ micro' = Append(micro, Job("metadata", 1)) /\ client' = NewHandle
            \/ micro' = Append(micro, Job("nativeFailed", 0)) /\ client' = client
        BY <1>1, <1>8 DEF Connect, NewHandle
      <3>3. NewHandle = [gen |-> 1, state |-> "CONNECTING"]
        BY <1>1, <1>8 DEF NewHandle
      <3>4. /\ Job("metadata", 1) \in Jobs /\ Job("metadata", 1).do = "metadata"
            /\ Job("nativeFailed", 0) \in Jobs /\ Job("nativeFailed", 0).do = "nativeFailed"
        BY DEF Job, Jobs
      <3> QED BY <3>1, <3>2, <3>3, <3>4
    <2>2. /\ state' = "CONNECTING" /\ connecting' = "pending" /\ ready' = ready
          /\ requests' = Made(<<ListTopics>>, 0)
      BY <1>8 DEF Connect
    <2>3. Scalars'
      <3>1. 0 .. MaxHandles = {n \in Nat : n <= MaxHandles} /\ 1 \in 0 .. MaxHandles
        BY BoundsAssumption
      <3>2. client' \in [gen : 0 .. MaxHandles, state : {"INIT", "CONNECTING", "READY", "CLOSED"}]
        BY <1>6, <2>1, <3>1 DEF Scalars
      <3> QED BY <1>4, <1>6, <2>2, <3>2 DEF Scalars
    <2>4. /\ requests' \in Seq(Requests) /\ Len(requests') = 1
          /\ requests'[1].op = "METADATA" /\ requests'[1].call = 0 /\ requests'[1].answer = NoAnswer
      <3>1. ListTopics \in Questions /\ ListTopics.op = "METADATA"
        BY DEF ListTopics, Request, Questions, Ops
      <3>2. PICK rs : rs = <<ListTopics>>
        OBVIOUS
      <3>3. rs \in Seq(Questions) /\ Len(rs) = 1 /\ rs[1].op = "METADATA" /\ 1 \in 1..Len(rs)
        BY <3>1, <3>2
      <3>4. /\ Made(rs, 0) \in Seq(Requests) /\ Len(Made(rs, 0)) = 1
            /\ Made(rs, 0)[1].op = "METADATA" /\ Made(rs, 0)[1].call = 0
            /\ Made(rs, 0)[1].answer = NoAnswer
        BY <3>3, MadeTyped
      <3>5. requests' = Made(rs, 0)
        BY <2>2, <3>2, Zenon
      <3> QED BY <3>4, <3>5, Zenon
    <2>5. Ids' = {1}
      <3>1. DOMAIN requests' = 1..1
        BY <2>4, LenProperties
      <3> QED BY <3>1 DEF Ids
    <2>6. micro' \in Seq(Jobs) /\ ToSet(micro') = {job} /\ Distinct(micro') /\ Len(micro') = 1
      BY <2>1, OneJob
    <2>7. QueueInv'
      BY <2>1, <2>6 DEF QueueInv, JobKnown, OfRequest, Distinct
    <2>8. registered' = {} /\ guards' = {} /\ native' = {} /\ done' = {} /\ existing' \subseteq Names
      BY <1>2, <1>3, <1>5, <1>6 DEF TypeOK
    <2>9. ToSet(events') = {} /\ ToSet(batch') = {}
      BY <1>3, <1>5 DEF AdminInv, RequestsInv
    <2>10. calls' = <<>> /\ DOMAIN calls' = {} /\ Len(calls') = 0
      BY <1>1, <1>4
    <2>11. RequestsInv'
      BY <1>4, <1>8, <2>4, <2>5, <2>8, <2>9, <2>10 DEF RequestsInv, ToSet
    <2>12. Promised'
      BY <2>4, <2>5, <2>8 DEF Promised
    <2>13. AnswersTrue'
      <3>1. \A id \in Ids' : requests'[id].op \notin Writes
        BY <2>4, <2>5 DEF Writes
      <3> QED BY <2>9, <3>1 DEF AnswersTrue, Truth, ToSet
    <2>14. AsksInv' /\ ResultsInv'
      BY <2>10 DEF AsksInv, ResultsInv
    <2>15. Shapes'
      BY <1>4, <1>5, <1>6, <2>4, <2>6 DEF Shapes
    <2>16. TypeOK'
      <3>1. calls' \in Seq(Calls)
        BY <2>15 DEF Shapes
      <3>2. \A id \in Ids' : requests'[id].call \in 0..Len(calls')
        BY <2>4, <2>5, <2>10
      <3> QED BY <1>6, <2>3, <2>8, <2>12, <3>1, <3>2, TypeStep
    <2>17. EndInv'
      <3>1. ~ disconnected' /\ state' # "DISCONNECTED" /\ \A x \in ToSet(micro') : x.do # "closed"
        BY <1>1, <1>4, <2>1, <2>2, <2>6
      <3> QED BY <3>1 DEF EndInv, ToSet
    <2>18. StartInv'
      <3>1. StartsAlone(micro')
        BY <2>6 DEF StartsAlone
      <3> QED BY <1>4, <1>8, <2>2, <2>4, <2>10, <3>1 DEF StartInv, StartsAlone, Unanswered
    <2> QED BY <2>7, <2>11, <2>12, <2>13, <2>14, <2>15, <2>16, <2>17, <2>18 DEF AdminInv
  <1> QED BY <1>7, <1>8

LEMMA ClosedJob ==
  /\ Job("closed", 0) \in Jobs /\ <<Job("closed", 0)>> \in Seq(Jobs)
  /\ ToSet(<<Job("closed", 0)>>) = {Job("closed", 0)} /\ Job("closed", 0).do = "closed"
  /\ Distinct(<<Job("closed", 0)>>) /\ Waiting(<<Job("closed", 0)>>) = {}
  <1>1. Job("closed", 0) \in Jobs /\ Job("closed", 0).do = "closed"
    BY DEF Job, Jobs
  <1> QED BY <1>1, OneJob DEF OfRequest

LEMMA DisconnectInv == ASSUME AdminInv, Disconnect PROVE AdminInv'
  <1>1. /\ state' = "DISCONNECTING" /\ closing' = "pending" /\ disconnected' = TRUE
        /\ state \in {"CONNECTING", "CONNECTED"}
        /\ UNCHANGED <<hosted, ready, connecting, calls, batch, broker>>
    BY DEF Disconnect, ClientDisconnect
  <1>2. PICK after : after = <<Job("closed", 0)>>
    OBVIOUS
  <1>3. /\ after \in Seq(Jobs) /\ Distinct(after) /\ Waiting(after) = {}
        /\ \A job \in ToSet(after) : job.do = "closed"
    BY <1>2, ClosedJob
  <1>4. TypeOK /\ Shapes /\ QueueInv /\ Scalars /\ StartInv /\ RequestsInv /\ EndInv
    BY ScalarsOf DEF AdminInv
  <1>5. CASE OwnsHandle
    <2>1. Teardown /\ micro' = micro \o SettledJobs(registered) \o after
      BY <1>2, <1>5 DEF Disconnect, ClientDisconnect, Orphans
    <2>2. client' = [client EXCEPT !.state = "CLOSED"]
      BY <2>1 DEF Teardown, Torn
    <2>3. Scalars'
      BY <1>1, <1>4, <2>2 DEF Scalars
    <2>4. PICK sj : sj = SettledJobs(registered)
      OBVIOUS
    <2>5. /\ sj \in Seq(Jobs) /\ Waiting(sj) = registered
          /\ \A job \in ToSet(sj) : job.do = "settled"
      <3>1. PICK S : S = registered
        OBVIOUS
      <3>2. SettledJobs(registered) = SettledJobs(S)
        BY <3>1 DEF SettledJobs, Each, Settled, Hops
      <3>3. S \subseteq Ids
        BY <1>4, <3>1 DEF TypeOK
      <3> QED BY <1>4, <2>4, <3>1, <3>2, <3>3, SettledMany
    <2>6. micro' = micro \o (sj \o after)
      <3>1. micro' = (micro \o sj) \o after
        BY <2>1, <2>4, Zenon
      <3>2. micro \in Seq(Jobs)
        BY <1>4 DEF Shapes
      <3>3. (micro \o sj) \o after = micro \o (sj \o after)
        BY <1>3, <2>5, <3>2, ConcatAssociative
      <3> QED BY <3>1, <3>3, Zenon
    <2>7. sj \o after \in Seq(Jobs) /\ ToSet(sj \o after) = ToSet(sj) \cup ToSet(after)
      BY <1>3, <2>5, MembersConcat
    <2>8. StartInv'
      <3>1. HasStarter(micro) => registered = {}
        BY <1>4, RegisteredLate
      <3>2. HasStarter(micro) => \A job \in ToSet(sj) : FALSE
        BY <2>5, <3>1 DEF Waiting, OfRequest
      <3>3. HasStarter(micro) => Len(requests') = Len(requests) /\ Unanswered(1)'
        <4>1. ASSUME HasStarter(micro)
              PROVE  Len(requests') = Len(requests) /\ requests'[1] = requests[1] /\ Unanswered(1)
          <5>1. Len(requests) = 1 /\ Unanswered(1)
            BY <1>4, <4>1 DEF StartInv, HasStarter
          <5>2. requests' = [id \in DOMAIN requests |-> requests[id]]
            BY <2>1, <3>1, <4>1 DEF Teardown, Answered, Orphans
          <5>3. requests' = requests
            BY <1>4, <5>2, LenProperties DEF Shapes
          <5> QED BY <5>1, <5>3
        <4> QED BY <4>1 DEF Unanswered
      <3>4. \A job \in ToSet(sj \o after) : job.do \notin Starters
        BY <1>3, <2>5, <2>7 DEF Starters
      <3>5. HasStarter(micro) => \A job \in ToSet(sj \o after) : job.do = "closed"
        BY <1>3, <2>7, <3>2
      <3>6. PICK jobs : jobs = sj \o after
        OBVIOUS
      <3> QED BY <1>1, <1>4, <2>6, <2>7, <3>3, <3>4, <3>5, <3>6, StartAppend
    <2>9. EndInv'
      <3>1. client'.state = "CLOSED"
        BY <1>4, <2>2 DEF Scalars
      <3>2. ~ Open' /\ disconnected'
        BY <1>1, <3>1 DEF Open
      <3> QED BY <3>2, EndClosed
    <2>10. Rest(micro)
      BY <1>4, RestAll
    <2>11. PICK rest : rest = micro
      OBVIOUS
    <2>12. /\ Rest(rest) /\ micro' = rest \o (SettledJobs(registered) \o after)
           /\ \A id \in Waiting(micro) : Unanswered(id) => id \in Waiting(rest)
      BY <2>4, <2>6, <2>10, <2>11 DEF Rest
    <2> QED BY <1>1, <1>3, <2>1, <2>3, <2>8, <2>9, <2>12, TeardownInv
  <1>6. CASE ~ OwnsHandle
    <2>1. /\ micro' = micro \o after
          /\ UNCHANGED <<client, requests, registered, guards, native, events>>
      BY <1>2, <1>6 DEF Disconnect, ClientDisconnect
    <2>2. PICK rest : rest = micro
      OBVIOUS
    <2>3. Rest(rest)
      BY <1>4, <2>2, RestAll DEF Rest
    <2>4. HavePassed(rest, after)
      <3>1. \A job \in ToSet(after) : JobKnown(job)
        BY <1>3 DEF JobKnown, OfRequest
      <3> QED BY <1>1, <1>3, <1>4, <2>1, <2>2, <2>3, <3>1, PassStep
    <2>5. /\ micro' \in Seq(Jobs) /\ ToSet(micro') = ToSet(micro) \cup ToSet(after)
          /\ Waiting(micro)' = Waiting(micro) /\ QueueInv'
      BY <1>3, <2>2, <2>4 DEF HavePassed
    <2>6. Scalars'
      BY <1>1, <1>4, <2>1 DEF Scalars
    <2>7. StartInv'
      <3>1. HasStarter(micro) => Unanswered(1)'
        BY <1>4, <2>1 DEF StartInv, HasStarter, Unanswered
      <3>2. \A job \in ToSet(after) : job.do \notin Starters
        BY <1>3 DEF Starters
      <3> QED BY <1>1, <1>3, <1>4, <2>1, <3>1, <3>2, StartAppend
    <2>8. EndInv'
      BY <1>1, <1>6, <2>1 DEF EndInv, OwnsHandle, Open
    <2>9. UNCHANGED <<hosted, requests, calls, transport, broker>>
      BY <1>1, <2>1 DEF transport
    <2>10. registered \cap Waiting(micro)' = {}
      BY <1>4, <2>5 DEF RequestsInv
    <2>11. Open => Open'
      BY <2>1 DEF Open
    <2> QED BY <2>5, <2>6, <2>7, <2>8, <2>9, <2>10, <2>11, JobsInv
  <1> QED BY <1>5, <1>6

-----------------------------------------------------------------------------
(* The host, and the calls of the user.                                    *)
LEMMA HostConnectInv == ASSUME AdminInv, HostConnect PROVE AdminInv'
  <1>1. /\ hosted /\ client' = [gen |-> client.gen + 1, state |-> "READY"] /\ client.gen < MaxHandles
        /\ UNCHANGED <<admin, transport, requests, calls, micro, broker>>
    BY DEF HostConnect
  <1>2. UNCHANGED <<hosted, ready, disconnected, state, connecting, closing>>
    BY <1>1 DEF admin
  <1>3. TypeOK /\ Shapes /\ QueueInv /\ Scalars /\ StartInv /\ RequestsInv
    BY ScalarsOf DEF AdminInv
  <1>4. Scalars'
    <2>1. client.gen + 1 \in 0 .. MaxHandles
      BY <1>1, <1>3, BoundsAssumption DEF Scalars
    <2> QED BY <1>1, <1>2, <1>3, <2>1 DEF Scalars
  <1>5. micro' \in Seq(Jobs) /\ QueueInv' /\ Waiting(micro)' = Waiting(micro)
    BY <1>1, <1>3 DEF Shapes, QueueInv, Distinct, JobKnown, ToSet, Ids, Unanswered
  <1>6. StartInv'
    BY <1>1, <1>2, <1>3, StartSame
  <1>7. EndInv' /\ Open'
    BY <1>1, <1>2, EndHosted DEF Open
  <1>8. registered \cap Waiting(micro)' = {}
    BY <1>3, <1>5 DEF RequestsInv
  <1> QED BY <1>1, <1>2, <1>4, <1>5, <1>6, <1>7, <1>8, JobsInv

LEMMA HostDisconnectInv == ASSUME AdminInv, HostDisconnect PROVE AdminInv'
  <1>1. /\ hosted /\ Teardown /\ micro' = micro \o SettledJobs(registered)
        /\ UNCHANGED <<admin, calls, batch, broker>>
    BY DEF HostDisconnect, Orphans
  <1>2. UNCHANGED <<hosted, ready, disconnected, state, connecting, closing>>
    BY <1>1 DEF admin
  <1>3. TypeOK /\ Shapes /\ QueueInv /\ Scalars /\ StartInv /\ RequestsInv
    BY ScalarsOf DEF AdminInv
  <1>4. Scalars'
    BY <1>1, <1>2, <1>3 DEF Scalars, Teardown, Torn
  <1>5. PICK sj : sj = SettledJobs(registered)
    OBVIOUS
  <1>6. /\ sj \in Seq(Jobs) /\ Waiting(sj) = registered
        /\ \A job \in ToSet(sj) : job.do = "settled"
    <2>1. PICK S : S = registered
      OBVIOUS
    <2>2. SettledJobs(registered) = SettledJobs(S)
      BY <2>1 DEF SettledJobs, Each, Settled, Hops
    <2>3. S \subseteq Ids
      BY <1>3, <2>1 DEF TypeOK
    <2> QED BY <1>3, <1>5, <2>1, <2>2, <2>3, SettledMany
  <1>7. PICK rest : rest = micro
    OBVIOUS
  <1>8. PICK after : after = <<>>
    OBVIOUS
  <1>9. /\ after \in Seq(Jobs) /\ Distinct(after) /\ \A job \in ToSet(after) : job.do = "closed"
    BY <1>8, MembersNone DEF Distinct
  <1>10. /\ Rest(rest) /\ micro' = rest \o (SettledJobs(registered) \o after)
         /\ \A id \in Waiting(micro) : Unanswered(id) => id \in Waiting(rest)
    <2>1. Rest(rest)
      BY <1>3, <1>7, RestAll DEF Rest
    <2>2. sj \o after = sj
      BY <1>6, <1>8
    <2> QED BY <1>1, <1>5, <1>7, <2>1, <2>2
  <1>11. micro \in Seq(Jobs) /\ micro' = micro \o sj
    BY <1>1, <1>3, <1>5 DEF Shapes
  <1>12. StartInv'
    <2>1. ~ HasStarter(micro)
      BY <1>1, <1>3 DEF StartInv, HasStarter
    <2>2. CASE state = "INIT"
      <3>1. registered = {} /\ micro = <<>> /\ requests = <<>> /\ calls = <<>> /\ ~ disconnected
        BY <1>3, <2>2, RegisteredLate DEF StartInv
      <3>2. ToSet(sj) = {}
        BY <1>6, <3>1 DEF Waiting, OfRequest
      <3>3. sj = <<>>
        <4>1. Len(sj) \in Nat /\ \A i \in 1..Len(sj) : sj[i] \in ToSet(sj)
          BY <1>6, MembersAt
        <4>2. Len(sj) = 0
          BY <3>2, <4>1
        <4> QED BY <1>6, <4>2, EmptySeq
      <3>4. micro' = micro
        BY <1>11, <3>1, <3>3
      <3>5. requests' = [id \in DOMAIN requests |-> requests[id]]
        BY <1>1, <3>1 DEF Teardown, Answered, Orphans
      <3>6. requests' = requests
        BY <1>3, <3>5, LenProperties DEF Shapes
      <3> QED BY <1>1, <1>2, <1>3, <3>4, <3>6, StartSame
    <2>3. CASE state # "INIT"
      <3>1. ToSet(micro') = ToSet(micro) \cup ToSet(sj) /\ micro' \in Seq(Jobs)
        BY <1>6, <1>11, MembersConcat
      <3>2. ~ HasStarter(micro')
        BY <1>6, <2>1, <3>1 DEF HasStarter, Starters
      <3> QED BY <1>2, <2>3, <3>1, <3>2, StartDone
    <2> QED BY <2>2, <2>3
  <1>13. EndInv'
    BY <1>1, <1>2, EndHosted
  <1> QED BY <1>1, <1>2, <1>4, <1>9, <1>10, <1>12, <1>13, TeardownInv

LEMMA CallInv ==
  ASSUME AdminInv, NEW method \in Methods, NEW args \in Arguments, Call(method, args)
  PROVE  AdminInv'
  <1> DEFINE first == Batches(method, args, <<>>)[1]
  <1>1. PICK c : c = Len(calls) + 1
    OBVIOUS
  <1>2. PICK told : told = [method |-> method, args |-> args, found |-> <<>>, stage |-> 1,
                            ids |-> Len(requests) + 1 .. Len(requests) + Len(first),
                            result |-> "none"]
    OBVIOUS
  <1>3. method \in AllMethods /\ args \in Seq(Names) /\ <<>> \in Seq(Names)
    BY MethodsAssumption, ArgumentsAssumption
  <1>4. args # <<>> \/ method \notin NeedsName
    BY DEF Call
  <1>5. first \in Seq(Questions)
    <2>1. /\ Batches(method, args, <<>>) \in Seq(Seq(Questions))
          /\ Len(Batches(method, args, <<>>)) \in Nat \ {0}
      BY <1>3, <1>4, BatchesTyped
    <2>2. 1 \in 1..Len(Batches(method, args, <<>>))
      BY <2>1
    <2> QED BY <2>1, <2>2
  <1> HIDE DEF first
  <1>6. /\ state = "CONNECTED" /\ calls' = Append(calls, told)
        /\ requests' = requests \o Made(first, c)
        /\ micro' = micro \o (IF first = <<>> THEN <<Job("empty", c)>> ELSE Asked(first))
        /\ UNCHANGED <<admin, client, transport, broker>>
    <2>1. Len(requests) \in Nat /\ Len(first) \in Nat
      BY <1>5, LenProperties DEF AdminInv, Shapes
    <2>2. Len(requests) + 1 + Len(first) - 1 = Len(requests) + Len(first)
      BY <2>1
    <2>3. calls' = Append(calls, [method |-> method, args |-> args, found |-> <<>>, stage |-> 1,
                      ids |-> Len(requests) + 1 .. Len(requests) + 1 + Len(first) - 1,
                      result |-> "none"])
      BY DEF Call, NextCorrelationId, first
    <2>4. calls' = Append(calls, told)
      BY <1>2, <2>2, <2>3
    <2>5. /\ state = "CONNECTED" /\ requests' = requests \o Made(first, c)
          /\ micro' = micro \o (IF first = <<>> THEN <<Job("empty", c)>> ELSE Asked(first))
          /\ UNCHANGED <<admin, client, transport, broker>>
      BY <1>1 DEF Call, first
    <2> QED BY <2>4, <2>5
  <1>7. TypeOK /\ Shapes /\ QueueInv /\ StartInv
    BY DEF AdminInv
  <1>8. /\ calls \in Seq(Calls) /\ Len(calls) \in Nat /\ DOMAIN calls = 1..Len(calls)
        /\ Len(requests) \in Nat /\ Len(first) \in Nat /\ DOMAIN requests = 1..Len(requests)
    BY <1>5, <1>7, LenProperties DEF Shapes
  <1>9. /\ told \in Calls /\ told.method = method /\ told.args = args /\ told.stage = 1
        /\ told.result = "none" /\ told.ids = Len(requests) + 1 .. Len(requests) + Len(first)
    <2>1. Len(requests) + 1 .. Len(requests) + Len(first) \in SUBSET Nat
      BY <1>8
    <2> QED BY <1>2, <1>3, <2>1 DEF Calls
  <1>10. /\ calls' \in Seq(Calls) /\ DOMAIN calls' = DOMAIN calls \cup {c} /\ calls'[c] = told
         /\ c \in Nat \ {0}
         /\ \A d \in DOMAIN calls : d # c => calls'[d] = calls[d]
    <2> HIDE DEF Calls
    <2>1. /\ calls' \in Seq(Calls) /\ Len(calls') = Len(calls) + 1 /\ calls'[c] = told
          /\ \A d \in 1..Len(calls) : calls'[d] = calls[d]
      BY <1>1, <1>6, <1>8, <1>9, AppendProperties
    <2>2. DOMAIN calls' = 1..Len(calls) + 1
      BY <2>1, LenProperties
    <2> QED BY <1>1, <1>8, <2>1, <2>2
  <1>11. PICK jobs : jobs = IF first = <<>> THEN <<Job("empty", c)>> ELSE Asked(first)
    OBVIOUS
  <1>12. PICK rest : rest = micro
    OBVIOUS
  <1>13. PICK rs : rs = first
    OBVIOUS
  <1>14. /\ Rest(rest) /\ micro' = rest \o jobs
         /\ \A id \in Waiting(micro) : Unanswered(id) => id \in Waiting(rest)
    <2>1. Rest(rest)
      BY <1>7, <1>12, RestAll DEF Rest
    <2>2. micro' = rest \o jobs
      BY <1>6, <1>11, <1>12, Zenon
    <2> QED BY <1>12, <2>1, <2>2
  <1>15. /\ rs \in Seq(Questions) /\ requests' = requests \o Made(rs, c)
         /\ jobs = Asked(rs) \/ (rs = <<>> /\ jobs = <<Job("empty", c)>>)
         /\ calls'[c].ids = Len(requests) + 1 .. Len(requests) + Len(rs)
    BY <1>5, <1>6, <1>9, <1>10, <1>11, <1>13
  <1>16. calls'[c].method \in NeedsName => calls'[c].args # <<>>
    BY <1>4, <1>9, <1>10
  <1>17. CallTrue(calls[c])'
    BY <1>9, <1>10 DEF CallTrue
  <1>18. CallAsks(calls[c])'
    <2> SUFFICES ASSUME method \in Writers PROVE CallAsks(calls[c])'
      BY <1>9, <1>10 DEF CallAsks
    <2>1. /\ \A name \in ToSet(args) : \E i \in 1..Len(first) :
               first[i].op \in Writes /\ name \in ToSet(first[i].names)
          /\ \A i \in 1..Len(first) : first[i].op \notin ReportsItems
          /\ method = "createTopics" =>
               \A i \in 1..Len(first) : /\ first[i].op = "CREATE_TOPICS"
                                        /\ \E name \in ToSet(args) : first[i].names = <<name>>
          /\ method # "createTopics" => \A i \in 1..Len(first) : first[i].op # "CREATE_TOPICS"
      BY <1>3, BatchesOfWriters DEF first
    <2>2. HaveAsked(rs, c, rest, jobs)
      <3>1. DOMAIN calls \subseteq DOMAIN calls' /\ c \in DOMAIN calls' /\ c \in Nat
        BY <1>10
      <3> QED BY <1>7, <1>14, <1>15, <3>1, NewStep
    <2>3. \A i \in 1..Len(first) : /\ requests'[Len(requests) + i].op = first[i].op
                                   /\ requests'[Len(requests) + i].names = first[i].names
      BY <1>13, <2>2 DEF HaveAsked
    <2>4. \A i \in 1..Len(first) : Len(requests) + i \in told.ids
      BY <1>8, <1>9
    <2>5. ASSUME NEW id \in told.ids PROVE \E i \in 1..Len(first) : id = Len(requests) + i
      <3>1. id - Len(requests) \in 1..Len(first) /\ id = Len(requests) + (id - Len(requests))
        BY <1>8, <1>9
      <3> QED BY <3>1
    <2>6. AsksAll(told)'
      <3>1. ASSUME NEW name \in ToSet(args)
            PROVE  \E id \in told.ids : requests'[id].op \in Writes /\ name \in ToSet(requests'[id].names)
        <4>1. PICK i \in 1..Len(first) : first[i].op \in Writes /\ name \in ToSet(first[i].names)
          BY <2>1
        <4> QED BY <2>3, <2>4, <4>1
      <3>2. ASSUME NEW id \in told.ids PROVE requests'[id].op \notin ReportsItems
        BY <2>1, <2>3, <2>5
      <3> QED BY <1>9, <3>1, <3>2 DEF AsksAll, ToSet
    <2>7. method = "createTopics" => CreatesEach(told)'
      <3>1. ASSUME method = "createTopics", NEW id \in told.ids
            PROVE  /\ requests'[id].op = "CREATE_TOPICS"
                   /\ \E name \in ToSet(args) : requests'[id].names = <<name>>
        <4>1. PICK i \in 1..Len(first) : id = Len(requests) + i
          BY <2>5
        <4>2. PICK name \in ToSet(args) : first[i].names = <<name>>
          BY <2>1, <3>1
        <4> QED BY <2>1, <2>3, <3>1, <4>1, <4>2
      <3> QED BY <1>9, <3>1 DEF CreatesEach, ToSet
    <2>8. method # "createTopics" => \A id \in told.ids : requests'[id].op # "CREATE_TOPICS"
      BY <2>1, <2>3, <2>5
    <2>9. CallAsks(told)'
      BY <1>9, <2>6, <2>7, <2>8 DEF CallAsks
    <2> QED BY <1>10, <2>9 DEF CallAsks, AsksAll, CreatesEach
  <1>19. StartInv'
    <2>1. /\ ToSet(micro') = ToSet(micro) \cup ToSet(jobs) /\ micro' \in Seq(Jobs)
          /\ \A job \in ToSet(jobs) : job.do \in {"request", "query", "empty"}
      <3>1. HaveAsked(rs, c, rest, jobs)
        <4>1. DOMAIN calls \subseteq DOMAIN calls' /\ c \in DOMAIN calls' /\ c \in Nat
          BY <1>10
        <4> QED BY <1>7, <1>14, <1>15, <4>1, NewStep
      <3> QED BY <1>12, <3>1 DEF HaveAsked
    <2>2. ~ HasStarter(micro)
      BY <1>6, <1>7 DEF StartInv, HasStarter
    <2>3. ~ HasStarter(micro')
      BY <2>1, <2>2 DEF HasStarter, Starters
    <2>4. state' = "CONNECTED"
      BY <1>6 DEF admin
    <2> QED BY <2>1, <2>3, <2>4, StartDone
  <1> QED BY <1>6, <1>10, <1>14, <1>15, <1>16, <1>17, <1>18, <1>19, AsksNew

-----------------------------------------------------------------------------
(* The microtasks.                                                         *)
LEMMA HeadKnown ==
  ASSUME AdminInv, micro # <<>>
  PROVE  /\ Head(micro) \in Jobs /\ JobKnown(Head(micro)) /\ Rest(Tail(micro))
         /\ Tail(micro) \in Seq(Jobs) /\ state # "INIT"
         /\ Head(micro).do \in OfRequest =>
              /\ Head(micro).id \in Ids /\ Head(micro).id \notin Waiting(Tail(micro))
              /\ Waiting(micro) = Waiting(Tail(micro)) \cup {Head(micro).id}
         /\ Head(micro).do \notin OfRequest => Waiting(micro) = Waiting(Tail(micro))
         /\ Waiting(Tail(micro)) \cap registered = {}
  <1>1. Shapes /\ QueueInv /\ StartInv /\ RequestsInv
    BY DEF AdminInv
  <1>2. Head(micro) \in ToSet(micro) /\ ToSet(micro) \subseteq Jobs
    BY <1>1, MembersTail, MembersAt DEF Shapes
  <1>3. JobKnown(Head(micro))
    BY <1>1, <1>2 DEF QueueInv, JobKnown, Unanswered
  <1>4. Rest(Tail(micro))
    BY <1>1, RestTail
  <1>5. state # "INIT"
    BY <1>1 DEF StartInv
  <1>6. /\ Head(micro).do \in OfRequest => /\ Head(micro).id \in Waiting(micro)
                                           /\ Waiting(Tail(micro)) = Waiting(micro) \ {Head(micro).id}
        /\ Head(micro).do \notin OfRequest => Waiting(Tail(micro)) = Waiting(micro)
    BY <1>1, DistinctTail DEF Shapes, QueueInv
  <1>7. Waiting(Tail(micro)) \cap registered = {}
    BY <1>1, <1>6 DEF RequestsInv
  <1>8. Tail(micro) \in Seq(Jobs)
    BY <1>1, MembersTail DEF Shapes
  <1>9. Head(micro).do \in OfRequest => Head(micro).id \in Ids
    BY <1>3 DEF JobKnown
  <1> HIDE DEF Jobs, Waiting, OfRequest
  <1> QED BY <1>2, <1>3, <1>4, <1>5, <1>6, <1>7, <1>8, <1>9

(* A job is done, and answers one request.                                 *)
LEMMA OneAnswered ==
  ASSUME AdminInv, micro # <<>>, NEW id \in Ids, Unanswered(id), id \notin registered,
         id \notin Waiting(Tail(micro)), Waiting(micro) \subseteq Waiting(Tail(micro)) \cup {id},
         NEW answer \in Replies, Truth(id, answer), requests' = Answered({id}, answer),
         micro' = Append(Tail(micro), Settled(id)),
         UNCHANGED <<hosted, calls, transport, broker>>, Open => Open' \/ registered = {},
         Head(micro).do # "closed", state' # "INIT", Scalars', EndInv'
  PROVE  AdminInv'
  <1>1. /\ Rest(Tail(micro)) /\ Tail(micro) \in Seq(Jobs) /\ state # "INIT"
        /\ Waiting(Tail(micro)) \cap registered = {}
    BY HeadKnown
  <1>2. PICK job : job = Settled(id)
    OBVIOUS
  <1>3. job \in Jobs /\ job.do = "settled" /\ job.id = id
    BY <1>2, SettledTyped DEF AdminInv
  <1>4. PICK jobs : jobs = <<job>>
    OBVIOUS
  <1>5. /\ jobs \in Seq(Jobs) /\ ToSet(jobs) = {job} /\ Distinct(jobs) /\ Waiting(jobs) = {id}
        /\ \A q \in Seq(Jobs) : Append(q, job) = q \o jobs
    BY <1>3, <1>4, OneJob DEF OfRequest
  <1>6. PICK rest : rest = Tail(micro)
    OBVIOUS
  <1>7. Rest(rest) /\ rest \in Seq(Jobs) /\ micro' = rest \o jobs /\ id \notin Waiting(rest)
    BY <1>1, <1>2, <1>5, <1>6 DEF Rest
  <1>8. PICK S : S = {id}
    OBVIOUS
  <1>9. /\ S \subseteq Ids /\ S \cap Waiting(rest) = {} /\ Waiting(jobs) = S
        /\ requests' = Answered(S, answer) /\ registered' = registered \ S
        /\ \A x \in Waiting(micro) : Unanswered(x) => x \in Waiting(rest) \cup S
    BY <1>5, <1>6, <1>7, <1>8 DEF transport
  <1>10. /\ \A x \in S : Unanswered(x)
         /\ \A x \in S : Truth(x, answer)
    BY <1>8 DEF Truth, Unanswered
  <1>11. UNCHANGED <<registered, guards, native, events, batch>>
    BY DEF transport
  <1>12. /\ guards' = registered' /\ native' \subseteq native
         /\ events' \in Seq(Events) /\ batch' \in Seq(Events)
         /\ ToSet(events') \subseteq ToSet(events) /\ ToSet(batch') \subseteq ToSet(batch)
    BY <1>11 DEF AdminInv, Promised, Shapes
  <1>13. \A x \in registered' : /\ x \notin Waiting(rest)
                                /\ Open => Open'
                                /\ Owed(x) => Owed(x)'
    BY <1>1, <1>6, <1>11 DEF Owed, ToSet
  <1>14. StartInv'
    <2>1. ~ HasStarter(Tail(micro))
      BY HeadAlone DEF AdminInv
    <2>2. micro' \in Seq(Jobs) /\ ToSet(micro') = ToSet(rest) \cup ToSet(jobs)
      <3>1. rest \o jobs \in Seq(Jobs) /\ ToSet(rest \o jobs) = ToSet(rest) \cup ToSet(jobs)
        BY <1>5, <1>7, MembersConcat
      <3> QED BY <1>7, <3>1, Zenon
    <2>3. ~ HasStarter(micro')
      BY <1>3, <1>5, <1>6, <2>1, <2>2 DEF HasStarter, Starters
    <2> QED BY <2>2, <2>3, StartDone
  <1>15. \A x \in ToSet(jobs) : x.do \in {"settled", "closed"}
    BY <1>3, <1>5
  <1>16. UNCHANGED <<hosted, calls, broker>>
    OBVIOUS
  <1> HIDE DEF Replies
  <1> QED BY <1>5, <1>7, <1>9, <1>10, <1>12, <1>13, <1>14, <1>15, <1>16, AnswersInv

(* A job is done, and leaves at most another one.                          *)
LEMMA OnePassed ==
  ASSUME AdminInv, micro # <<>>, NEW jobs \in Seq(Jobs), Distinct(jobs),
         \A job \in ToSet(jobs) : JobKnown(job) /\ job.do \in OfRequest,
         Waiting(jobs) \cap (Waiting(Tail(micro)) \cup registered) = {},
         \A id \in Waiting(micro) : Unanswered(id) => id \in Waiting(Tail(micro)) \cup Waiting(jobs),
         micro' = Tail(micro) \o jobs,
         UNCHANGED <<hosted, requests, calls, transport, broker>>, Open => Open' \/ registered = {},
         Head(micro).do # "closed", state' # "INIT", Scalars', EndInv'
  PROVE  AdminInv'
  <1>1. /\ Rest(Tail(micro)) /\ Tail(micro) \in Seq(Jobs) /\ state # "INIT"
        /\ Waiting(Tail(micro)) \cap registered = {}
    BY HeadKnown
  <1>2. PICK rest : rest = Tail(micro)
    OBVIOUS
  <1>3. Rest(rest) /\ rest \in Seq(Jobs) /\ micro' = rest \o jobs
    BY <1>1, <1>2 DEF Rest
  <1>4. HavePassed(rest, jobs)
    <2>1. \A job \in ToSet(jobs) : JobKnown(job)
      BY DEF JobKnown, Unanswered
    <2>2. Waiting(rest) \cap Waiting(jobs) = {}
      BY <1>2
    <2>3. Shapes /\ QueueInv /\ DOMAIN calls \subseteq DOMAIN calls' /\ requests' = requests
      BY DEF AdminInv
    <2> QED BY <1>3, <2>1, <2>2, <2>3, PassStep
  <1>5. /\ micro' \in Seq(Jobs) /\ ToSet(micro') = ToSet(rest) \cup ToSet(jobs)
        /\ Waiting(micro)' = Waiting(rest) \cup Waiting(jobs) /\ QueueInv'
    BY <1>4 DEF HavePassed
  <1>6. StartInv'
    <2>1. ~ HasStarter(Tail(micro))
      BY HeadAlone DEF AdminInv
    <2>2. ~ HasStarter(micro')
      BY <1>2, <1>5, <2>1 DEF HasStarter, Starters, OfRequest
    <2> QED BY <1>5, <2>2, StartDone
  <1>7. /\ \A id \in Waiting(micro) : Unanswered(id) => id \in Waiting(micro)'
        /\ registered \cap Waiting(micro)' = {}
    BY <1>1, <1>2, <1>5
  <1> QED BY <1>5, <1>6, <1>7, JobsInv

-----------------------------------------------------------------------------
LEMMA FailureOk ==
  ASSUME NEW err \in {"FAILED", "DESTROY", "STATE", "DECODE", "BAD_ARGS", "TIMED_OUT"}, NEW id
  PROVE  Failure(err) \in Replies /\ Truth(id, Failure(err))
  <1>1. Failure(err).err # ""
    BY DEF Failure
  <1> QED BY <1>1, RepliesTyped DEF Errors, Truth

LEMMA ClosedKept ==
  ASSUME AdminInv, micro # <<>>, NEW x \in Jobs, x.do # "closed", micro' = Append(Tail(micro), x)
  PROVE  HasClosed(micro') => HasClosed(micro)
  <1>1. PICK rest : rest = Tail(micro)
    OBVIOUS
  <1>2. rest \in Seq(Jobs) /\ ToSet(rest) \subseteq ToSet(micro)
    BY <1>1, HeadKnown DEF Rest
  <1>3. PICK jobs : jobs = <<x>>
    OBVIOUS
  <1>4. jobs \in Seq(Jobs) /\ ToSet(jobs) = {x} /\ Append(rest, x) = rest \o jobs
    BY <1>2, <1>3, OneJob
  <1>5. ToSet(rest \o jobs) = ToSet(rest) \cup ToSet(jobs)
    BY <1>2, <1>4, MembersConcat
  <1>6. ToSet(micro') = ToSet(rest) \cup {x}
    BY <1>1, <1>4, <1>5, Zenon
  <1> QED BY <1>2, <1>6 DEF HasClosed

LEMMA StarterKnown ==
  ASSUME AdminInv, micro # <<>>, Head(micro).do \in Starters
  PROVE  /\ 1 \in Ids /\ Unanswered(1) /\ registered = {} /\ calls = <<>> /\ ~ hosted
         /\ Waiting(micro) = {} /\ Waiting(Tail(micro)) = {} /\ state \notin {"INIT", "CONNECTED"}
  <1>1. TypeOK /\ Shapes /\ StartInv /\ RequestsInv
    BY DEF AdminInv
  <1>2. HasStarter(micro) /\ Waiting(micro) = {} /\ Waiting(Tail(micro)) = {}
    BY <1>1, StarterAlone
  <1>3. /\ calls = <<>> /\ ~ hosted /\ Len(requests) = 1 /\ Unanswered(1)
        /\ state \notin {"INIT", "CONNECTED"}
    BY <1>1, <1>2 DEF StartInv, HasStarter, Unanswered
  <1>4. registered = {}
    BY <1>1, <1>2, RegisteredLate
  <1>5. 1 \in Ids
    BY <1>1, <1>3, LenProperties DEF Ids, Shapes
  <1> QED BY <1>2, <1>3, <1>4, <1>5

LEMMA FirstMetadataInv ==
  ASSUME AdminInv, micro # <<>>, FirstMetadata(Head(micro))
  PROVE  AdminInv'
  <1>1. /\ Head(micro).do = "metadata" /\ Head(micro).do \in Starters /\ Head(micro).do # "closed"
        /\ UNCHANGED <<hosted, disconnected, state, connecting, closing, calls, batch, existing, done>>
    BY DEF FirstMetadata, Starters
  <1>2. /\ 1 \in Ids /\ Unanswered(1) /\ registered = {} /\ calls = <<>> /\ ~ hosted
        /\ Waiting(micro) = {} /\ Waiting(Tail(micro)) = {} /\ state # "INIT"
    BY <1>1, StarterKnown
  <1>3. TypeOK /\ Scalars /\ Shapes /\ EndInv
    BY ScalarsOf DEF AdminInv
  <1>4. Tail(micro) \in Seq(Jobs) /\ ToSet(Tail(micro)) \subseteq ToSet(micro)
    BY HeadKnown DEF Rest
  <1>5. CASE /\ micro' = Tail(micro)
             /\ UNCHANGED <<client, ready, registered, guards, requests, native, events>>
    <2>1. PICK jobs : jobs = <<>>
      OBVIOUS
    <2>2. /\ jobs \in Seq(Jobs) /\ Distinct(jobs) /\ ToSet(jobs) = {} /\ Waiting(jobs) = {}
          /\ micro' = Tail(micro) \o jobs
      BY <1>4, <1>5, <2>1, MembersNone DEF Distinct, Waiting
    <2>3. UNCHANGED <<hosted, requests, calls, transport, broker>>
      BY <1>1, <1>5 DEF transport, broker
    <2>4. Scalars' /\ Open' = Open
      BY <1>1, <1>3, <1>5 DEF Scalars, Open
    <2>5. EndInv'
      BY <1>1, <1>3, <1>4, <1>5, <2>4, EndKept DEF HasClosed
    <2> QED BY <1>1, <1>2, <2>2, <2>3, <2>4, <2>5, OnePassed
  <1>6. CASE /\ Open /\ client' = [client EXCEPT !.state = "READY"] /\ ready' = "ok"
             /\ micro' = Append(Tail(micro), Job("request", 1))
             /\ UNCHANGED <<registered, guards, requests, native, events>>
    <2>1. PICK job : job = Job("request", 1)
      OBVIOUS
    <2>2. job \in Jobs /\ job.do = "request" /\ job.id = 1
      BY <2>1 DEF Job, Jobs
    <2>3. PICK jobs : jobs = <<job>>
      OBVIOUS
    <2>4. /\ jobs \in Seq(Jobs) /\ Distinct(jobs) /\ ToSet(jobs) = {job} /\ Waiting(jobs) = {1}
          /\ micro' = Tail(micro) \o jobs
      BY <1>4, <1>6, <2>1, <2>2, <2>3, OneJob DEF OfRequest
    <2>5. UNCHANGED <<hosted, requests, calls, transport, broker>>
      BY <1>1, <1>6 DEF transport, broker
    <2>6. Scalars' /\ Open'
      BY <1>1, <1>3, <1>6 DEF Scalars, Open
    <2>7. \A x \in ToSet(jobs) : JobKnown(x) /\ x.do \in OfRequest
      BY <1>2, <2>2, <2>4 DEF JobKnown, OfRequest
    <2>8. EndInv'
      <3>1. HasClosed(micro') => HasClosed(micro)
        BY <1>6, <2>1, <2>2, ClosedKept
      <3> QED BY <1>1, <1>3, <1>6, <3>1, EndKept
    <2> QED BY <1>1, <1>2, <2>4, <2>5, <2>6, <2>7, <2>8, OnePassed
  <1>7. CASE /\ Open /\ client' = Torn /\ requests' = Answered({1}, Failure("FAILED"))
             /\ ready' = "failed" /\ micro' = Append(Tail(micro), Settled(1))
             /\ UNCHANGED <<registered, guards, native, events>>
    <2>1. PICK answer : answer = Failure("FAILED")
      OBVIOUS
    <2>2. answer \in Replies /\ Truth(1, answer) /\ requests' = Answered({1}, answer)
      BY <1>7, <2>1, FailureOk
    <2>3. UNCHANGED <<hosted, calls, transport, broker>>
      BY <1>1, <1>7 DEF transport, broker
    <2>4. Scalars' /\ ~ Open'
      BY <1>1, <1>3, <1>7 DEF Scalars, Open, Torn
    <2>5. EndInv'
      <3>1. HasClosed(micro') => HasClosed(micro)
        <4>1. PICK job : job = Settled(1)
          OBVIOUS
        <4>2. job \in Jobs /\ job.do = "settled" /\ micro' = Append(Tail(micro), job)
          BY <1>2, <1>3, <1>7, <4>1, SettledTyped
        <4> QED BY <4>2, ClosedKept
      <3> QED BY <1>1, <1>3, <2>4, <3>1, EndKept
    <2> HIDE DEF Replies
    <2> QED BY <1>1, <1>2, <1>7, <2>2, <2>3, <2>4, <2>5, OneAnswered
  <1> QED BY <1>5, <1>6, <1>7 DEF FirstMetadata

LEMMA NativeFailedInv ==
  ASSUME AdminInv, micro # <<>>, NativeFailed(Head(micro))
  PROVE  AdminInv'
  <1>1. /\ Head(micro).do = "nativeFailed" /\ Head(micro).do \in Starters
        /\ Head(micro).do # "closed" /\ ready' = "failed"
        /\ requests' = Answered({1}, Failure("FAILED")) /\ micro' = Append(Tail(micro), Settled(1))
        /\ UNCHANGED <<hosted, disconnected, state, connecting, closing, client, transport, calls,
                       broker>>
    BY DEF NativeFailed, Starters
  <1>2. /\ 1 \in Ids /\ Unanswered(1) /\ registered = {} /\ calls = <<>> /\ ~ hosted
        /\ Waiting(micro) = {} /\ Waiting(Tail(micro)) = {} /\ state # "INIT"
    BY <1>1, StarterKnown
  <1>3. TypeOK /\ Scalars /\ Shapes /\ EndInv
    BY ScalarsOf DEF AdminInv
  <1>4. Tail(micro) \in Seq(Jobs) /\ ToSet(Tail(micro)) \subseteq ToSet(micro)
    BY HeadKnown DEF Rest
  <1>5. PICK answer : answer = Failure("FAILED")
    OBVIOUS
  <1>6. answer \in Replies /\ Truth(1, answer) /\ requests' = Answered({1}, answer)
    BY <1>1, <1>5, FailureOk
  <1>7. Scalars' /\ Open' = Open
    BY <1>1, <1>3 DEF Scalars, Open
  <1>8. EndInv'
    <2>1. HasClosed(micro') => HasClosed(micro)
      <3>1. PICK job : job = Settled(1)
        OBVIOUS
      <3>2. job \in Jobs /\ job.do = "settled" /\ micro' = Append(Tail(micro), job)
        BY <1>1, <1>2, <1>3, <3>1, SettledTyped
      <3> QED BY <3>2, ClosedKept
    <2> QED BY <1>1, <1>3, <1>7, <2>1, EndKept
  <1> HIDE DEF Replies
  <1> QED BY <1>1, <1>2, <1>6, <1>7, <1>8, OneAnswered

LEMMA DisconnectedInv ==
  ASSUME AdminInv, micro # <<>>, Disconnected(Head(micro))
  PROVE  AdminInv'
  <1>1. /\ Head(micro).do = "closed" /\ state' = "DISCONNECTED" /\ closing' = "resolved"
        /\ micro' = Tail(micro)
        /\ UNCHANGED <<hosted, client, ready, disconnected, connecting, requests, calls, transport,
                       broker>>
    BY DEF Disconnected
  <1>2. TypeOK /\ Scalars /\ Shapes /\ EndInv /\ StartInv /\ QueueInv
    BY ScalarsOf DEF AdminInv
  <1>3. /\ Rest(Tail(micro)) /\ Tail(micro) \in Seq(Jobs)
        /\ Waiting(micro) = Waiting(Tail(micro)) /\ Waiting(Tail(micro)) \cap registered = {}
    BY <1>1, HeadKnown DEF OfRequest
  <1>4. Scalars'
    BY <1>1, <1>2 DEF Scalars
  <1>5. QueueInv' /\ Waiting(micro)' = Waiting(micro) /\ micro' \in Seq(Jobs)
    BY <1>1, <1>2, <1>3 DEF Rest, QueueInv, Distinct, JobKnown, Unanswered, Ids
  <1>6. StartInv'
    BY <1>1, <1>2, StartTail
  <1>7. EndInv'
    <2>1. HasClosed(micro)
      <3>1. Head(micro) \in ToSet(micro)
        BY <1>2, MembersTail DEF Shapes
      <3> QED BY <1>1, <3>1 DEF HasClosed
    <2>2. ~ hosted => disconnected /\ ~ Open
      BY <1>2, <2>1 DEF EndInv, HasClosed
    <2> QED BY <1>1, <2>2 DEF EndInv, Open
  <1>8. Open' = Open
    BY <1>1 DEF Open
  <1>9. registered \cap Waiting(micro)' = {}
    BY <1>3, <1>5
  <1> QED BY <1>1, <1>4, <1>5, <1>6, <1>7, <1>8, <1>9, JobsInv

-----------------------------------------------------------------------------
LEMMA SubmitInv == ASSUME AdminInv, micro # <<>>, Submit(Head(micro)) PROVE AdminInv'
  <1>1. PICK id : id = Head(micro).id
    OBVIOUS
  <1>2. PICK r : r = requests[id]
    OBVIOUS
  <1>3. /\ Head(micro).do = "request" /\ Head(micro).do \in OfRequest /\ Head(micro).do # "closed"
        /\ UNCHANGED <<admin, client, calls, events, batch, broker>>
    BY DEF Submit, OfRequest
  <1>4. /\ id \in Ids /\ id \notin Waiting(Tail(micro)) /\ Tail(micro) \in Seq(Jobs)
        /\ Waiting(micro) = Waiting(Tail(micro)) \cup {id} /\ state # "INIT" /\ Rest(Tail(micro))
        /\ Waiting(Tail(micro)) \cap registered = {}
    BY <1>1, <1>3, HeadKnown
  <1>5. TypeOK /\ Scalars /\ Shapes /\ EndInv /\ RequestsInv /\ QueueInv /\ StartInv /\ Promised
    BY ScalarsOf DEF AdminInv
  <1>6. Unanswered(id) /\ id \notin registered /\ id \in Waiting(micro) /\ id \in Nat
    <2>1. JobKnown(Head(micro))
      BY HeadKnown
    <2>2. Unanswered(id)
      BY <1>1, <1>3, <2>1 DEF JobKnown, Unanswered
    <2>3. id \in Waiting(micro)
      BY <1>4
    <2> QED BY <1>4, <1>5, <2>2, <2>3, SettledTyped DEF RequestsInv
  <1>7. r \in Requests
    <2>1. \A x \in Ids : requests[x] \in Requests
      BY <1>5, LenProperties DEF Shapes, Ids
    <2> QED BY <1>2, <1>4, <2>1
  <1>8. UNCHANGED <<hosted, ready, disconnected, state, connecting, closing>>
    BY <1>3 DEF admin
  <1>9. Scalars' /\ Open' = Open
    BY <1>3, <1>5, <1>8 DEF Scalars, Open
  <1>10. CASE /\ r.op = "METADATA"
              /\ micro' = Append(Tail(micro), [Job("query", id) EXCEPT !.hops = client.gen])
              /\ UNCHANGED <<registered, guards, requests, native>>
    <2>1. PICK job : job = [Job("query", id) EXCEPT !.hops = client.gen]
      OBVIOUS
    <2>2. job \in Jobs /\ job.do = "query" /\ job.id = id
      <3>1. client.gen \in Nat
        BY <1>5, BoundsAssumption DEF Scalars
      <3> QED BY <1>6, <2>1, <3>1 DEF Job, Jobs
    <2>3. PICK jobs : jobs = <<job>>
      OBVIOUS
    <2>4. /\ jobs \in Seq(Jobs) /\ Distinct(jobs) /\ ToSet(jobs) = {job} /\ Waiting(jobs) = {id}
          /\ micro' = Tail(micro) \o jobs
      BY <1>4, <1>10, <2>1, <2>2, <2>3, OneJob DEF OfRequest
    <2>5. UNCHANGED <<hosted, requests, calls, transport, broker>>
      BY <1>3, <1>8, <1>10 DEF transport
    <2>6. \A x \in ToSet(jobs) : JobKnown(x) /\ x.do \in OfRequest
      BY <1>2, <1>4, <1>6, <1>10, <2>2, <2>4 DEF JobKnown, OfRequest
    <2>7. EndInv'
      <3>1. HasClosed(micro') => HasClosed(micro)
        BY <1>10, <2>1, <2>2, ClosedKept
      <3> QED BY <1>5, <1>8, <1>9, <3>1, EndKept
    <2>8. Waiting(jobs) \cap (Waiting(Tail(micro)) \cup registered) = {}
      BY <1>4, <1>6, <2>4
    <2>9. \A x \in Waiting(micro) : Unanswered(x) => x \in Waiting(Tail(micro)) \cup Waiting(jobs)
      BY <1>4, <2>4
    <2>10. state' # "INIT"
      BY <1>4, <1>8
    <2> QED BY <1>3, <1>9, <2>4, <2>5, <2>6, <2>7, <2>8, <2>9, <2>10, OnePassed
  <1>11. CASE /\ r.op # "METADATA"
              /\ \E code \in AdminRequest(r) \ {""} : requests' = Answered({id}, Failure(code))
              /\ micro' = Append(Tail(micro), Settled(id))
              /\ UNCHANGED <<registered, guards, native>>
    <2>1. AdminRequest(r) \ {""} \subseteq {"STATE", "DECODE", "BAD_ARGS"}
      BY DEF AdminRequest, Refusals
    <2>2. PICK code \in {"STATE", "DECODE", "BAD_ARGS"} : requests' = Answered({id}, Failure(code))
      BY <1>11, <2>1
    <2>3. PICK answer : answer = Failure(code)
      OBVIOUS
    <2>4. answer \in Replies /\ Truth(id, answer) /\ requests' = Answered({id}, answer)
      BY <2>2, <2>3, FailureOk
    <2>5. UNCHANGED <<hosted, calls, transport, broker>>
      BY <1>3, <1>8, <1>11 DEF transport
    <2>6. EndInv'
      <3>1. PICK job : job = Settled(id)
        OBVIOUS
      <3>2. job \in Jobs /\ job.do = "settled" /\ micro' = Append(Tail(micro), job)
        BY <1>4, <1>5, <1>11, <3>1, SettledTyped
      <3>3. HasClosed(micro') => HasClosed(micro)
        BY <3>2, ClosedKept
      <3> QED BY <1>5, <1>8, <1>9, <3>3, EndKept
    <2>7. state' # "INIT" /\ Waiting(micro) \subseteq Waiting(Tail(micro)) \cup {id}
      BY <1>4, <1>8
    <2> HIDE DEF Replies
    <2> QED BY <1>3, <1>4, <1>6, <1>9, <1>11, <2>4, <2>5, <2>6, <2>7, OneAnswered
  <1>12. CASE /\ r.op # "METADATA" /\ "" \in AdminRequest(r)
              /\ registered' = registered \cup {id} /\ guards' = guards \cup {id}
              /\ native' = native \cup {id} /\ micro' = Tail(micro) /\ UNCHANGED requests
    <2>1. Open
      BY <1>12 DEF AdminRequest
    <2>2. Keeps /\ Ids' = Ids
      BY <1>3, <1>12 DEF Keeps, Ids, broker
    <2>3. PICK rest : rest = Tail(micro)
      OBVIOUS
    <2>4. PICK jobs : jobs = <<>>
      OBVIOUS
    <2>5. /\ jobs \in Seq(Jobs) /\ Distinct(jobs) /\ ToSet(jobs) = {} /\ Waiting(jobs) = {}
          /\ micro' = rest \o jobs /\ Rest(rest)
      <3>1. /\ jobs \in Seq(Jobs) /\ Distinct(jobs) /\ ToSet(jobs) = {} /\ Waiting(jobs) = {}
        BY <2>4, MembersNone DEF Distinct, Waiting
      <3>2. Rest(rest) /\ rest \in Seq(Jobs) /\ micro' = rest
        BY <1>4, <1>12, <2>3 DEF Rest
      <3>3. rest \o jobs = rest
        BY <2>4, <3>2
      <3> QED BY <3>1, <3>2, <3>3
    <2>6. HavePassed(rest, jobs)
      <3>1. requests' = requests /\ DOMAIN calls \subseteq DOMAIN calls'
        BY <1>3, <1>12
      <3>2. \A job \in ToSet(jobs) : JobKnown(job)
        BY <2>5
      <3>3. Waiting(rest) \cap Waiting(jobs) = {}
        BY <2>5
      <3> QED BY <1>5, <2>5, <3>1, <3>2, <3>3, PassStep
    <2>7. /\ micro' \in Seq(Jobs) /\ ToSet(micro') = ToSet(rest) /\ QueueInv'
          /\ Waiting(micro)' = Waiting(Tail(micro))
      BY <2>3, <2>5, <2>6 DEF HavePassed
    <2>8. \A x : Unanswered(x)' <=> Unanswered(x)
      BY <1>12 DEF Unanswered
    <2>9. \A x \in registered' : /\ x \in Ids /\ requests[x].op # "METADATA"
                                 /\ Unanswered(x)' /\ x \notin Waiting(micro)'
      BY <1>2, <1>4, <1>5, <1>6, <1>12, <2>7, <2>8 DEF RequestsInv, TypeOK
    <2>10. \A x \in Ids : Unanswered(x)' /\ requests[x].call # 0 =>
             x \in Waiting(micro)' \/ (x \in registered' /\ Open' /\ Owed(x)')
      <3>1. \A x : Owed(x) => Owed(x)'
        BY <1>3, <1>12 DEF Owed, ToSet
      <3>2. Owed(id)'
        BY <1>12 DEF Owed
      <3> QED BY <1>4, <1>5, <1>9, <1>12, <2>1, <2>7, <2>8, <3>1, <3>2 DEF Promised
    <2>11. \A e \in ToSet(events') \cup ToSet(batch') : e.id \in Ids /\ Truth(e.id, e.answer)'
      <3>1. ToSet(events') \cup ToSet(batch') = ToSet(events) \cup ToSet(batch)
        BY <1>3
      <3>2. \A e \in ToSet(events) \cup ToSet(batch) : e.id \in Ids /\ Truth(e.id, e.answer)
        BY DEF AdminInv, RequestsInv, AnswersTrue, Truth
      <3> QED BY <2>2, <3>1, <3>2 DEF Truth, Keeps
    <2>12. RequestsInv' /\ Promised' /\ AnswersTrue' /\ AsksInv' /\ ResultsInv'
      <3>1. RequestsInv /\ AsksInv /\ ResultsInv /\ AnswersTrue
        BY DEF AdminInv
      <3>2. guards' = registered' /\ calls' = calls /\ hosted' = hosted
        BY <1>3, <1>5, <1>8, <1>12 DEF Promised
      <3>3. \A x \in Ids : \/ requests'[x].answer = requests[x].answer
                           \/ Truth(x, requests[x].answer)'
        BY <1>12
      <3> QED BY <2>2, <2>9, <2>10, <2>11, <3>1, <3>2, <3>3, StepInv
    <2>13. TypeOK'
      <3>1. calls' \in Seq(Calls)
        BY <1>3, <1>5 DEF Shapes
      <3>2. registered' \subseteq Ids' /\ native' \subseteq Ids' /\ existing' \subseteq Names
            /\ done' \subseteq Ids' \X Names
        BY <1>3, <1>4, <1>5, <1>12, <2>2 DEF TypeOK, broker
      <3>3. \A x \in Ids' : requests'[x].call \in 0..Len(calls')
        BY <1>3, <1>5, <1>12, <2>2 DEF TypeOK
      <3> QED BY <1>5, <1>9, <2>12, <3>1, <3>2, <3>3, TypeStep
    <2>14. Shapes'
      BY <1>3, <1>5, <1>12, <2>7 DEF Shapes
    <2>15. StartInv'
      <3>1. ~ HasStarter(Tail(micro))
        BY <1>3, <1>5, HeadAlone
      <3>2. ~ HasStarter(micro') /\ state' # "INIT"
        BY <1>4, <1>8, <1>12, <3>1
      <3> QED BY <2>7, <3>2, StartDone
    <2>16. EndInv'
      <3>1. HasClosed(micro') => HasClosed(micro)
        BY <1>4, <1>12 DEF HasClosed, Rest
      <3> QED BY <1>5, <1>8, <1>9, <3>1, EndKept
    <2> QED BY <2>7, <2>12, <2>13, <2>14, <2>15, <2>16 DEF AdminInv
  <1> QED BY <1>1, <1>2, <1>10, <1>11, <1>12 DEF Submit

LEMMA QueryInv == ASSUME AdminInv, micro # <<>>, Query(Head(micro)) PROVE AdminInv'
  <1>1. PICK id : id = Head(micro).id
    OBVIOUS
  <1>2. PICK r : r = requests[id]
    OBVIOUS
  <1>3. /\ Head(micro).do = "query" /\ Head(micro).do \in OfRequest /\ Head(micro).do # "closed"
        /\ UNCHANGED <<admin, client, calls, transport, broker>>
        /\ micro' = Append(Tail(micro), Settled(id))
    BY <1>1 DEF Query, OfRequest, Settled, Hops
  <1>4. /\ id \in Ids /\ id \notin Waiting(Tail(micro)) /\ Tail(micro) \in Seq(Jobs)
        /\ Waiting(micro) = Waiting(Tail(micro)) \cup {id} /\ state # "INIT" /\ Rest(Tail(micro))
        /\ Waiting(Tail(micro)) \cap registered = {}
    BY <1>1, <1>3, HeadKnown
  <1>5. TypeOK /\ Scalars /\ Shapes /\ EndInv /\ RequestsInv
    BY ScalarsOf DEF AdminInv
  <1>6. Unanswered(id) /\ id \notin registered /\ r.op \in {"METADATA", "WATERMARK"}
    <2>1. JobKnown(Head(micro))
      BY HeadKnown
    <2>2. Unanswered(id) /\ r.op \in {"METADATA", "WATERMARK"}
      BY <1>1, <1>2, <1>3, <2>1 DEF JobKnown, Unanswered
    <2>3. id \in Waiting(micro)
      BY <1>4
    <2> QED BY <1>5, <2>2, <2>3 DEF RequestsInv
  <1>7. r.names \in Seq(Names)
    <2>1. \A x \in Ids : requests[x] \in Requests
      BY <1>5, LenProperties DEF Shapes, Ids
    <2> QED BY <1>2, <1>4, <2>1 DEF Requests
  <1>8. UNCHANGED <<hosted, ready, disconnected, state, connecting, closing>>
    BY <1>3 DEF admin
  <1>9. Scalars' /\ Open' = Open
    BY <1>3, <1>5, <1>8 DEF Scalars, Open
  <1>10. PICK all : all = Result([name \in Reported(r.op, r.names) |-> "ok"])
    OBVIOUS
  <1>11. all \in Replies
    <2>1. Reported(r.op, r.names) \in SUBSET Names
      <3>1. ToSet(r.names) \subseteq Names /\ existing \subseteq Names
        BY <1>5, <1>7, MembersAt DEF TypeOK
      <3> QED BY <3>1 DEF Reported
    <2>2. [name \in Reported(r.op, r.names) |-> "ok"] \in [Reported(r.op, r.names) -> Codings]
      BY DEF Codings
    <2> QED BY <1>10, <2>1, <2>2, RepliesTyped
  <1>12. PICK answer \in {all, Failure("FAILED"), Failure("STATE")} : requests' = Answered({id}, answer)
    <2>1. \E answer \in IF Open /\ client.gen = Head(micro).hops THEN {all, Failure("FAILED")}
                        ELSE {Failure("STATE")} :
            requests' = Answered({id}, answer)
      BY <1>1, <1>2, <1>10 DEF Query, Reported, Answered
    <2> QED BY <2>1
  <1>13. answer \in Replies /\ Truth(id, answer)
    <2>1. answer \in Replies
      BY <1>11, <1>12, FailureOk
    <2>2. requests[id].op \notin Writes
      BY <1>2, <1>6 DEF Writes
    <2> QED BY <2>1, <2>2 DEF Truth
  <1>14. EndInv'
    <2>1. PICK job : job = Settled(id)
      OBVIOUS
    <2>2. job \in Jobs /\ job.do = "settled" /\ micro' = Append(Tail(micro), job)
      BY <1>3, <1>4, <1>5, <2>1, SettledTyped
    <2>3. HasClosed(micro') => HasClosed(micro)
      BY <2>2, ClosedKept
    <2> QED BY <1>5, <1>8, <1>9, <2>3, EndKept
  <1>15. state' # "INIT" /\ Waiting(micro) \subseteq Waiting(Tail(micro)) \cup {id} /\ hosted' = hosted
    BY <1>4, <1>8
  <1> HIDE DEF Replies
  <1> QED BY <1>3, <1>4, <1>6, <1>9, <1>12, <1>13, <1>14, <1>15, OneAnswered

-----------------------------------------------------------------------------
LEMMA ConnectDoneInv ==
  ASSUME AdminInv, micro # <<>>, Head(micro).do = "settled", Head(micro).hops = 0, ConnectDone
  PROVE  AdminInv'
  <1>1. Head(micro).do \in OfRequest /\ Head(micro).do # "closed"
    BY DEF OfRequest
  <1>2. PICK id : id = Head(micro).id
    OBVIOUS
  <1>3. /\ id \in Ids /\ id \notin Waiting(Tail(micro)) /\ Tail(micro) \in Seq(Jobs)
        /\ Waiting(micro) = Waiting(Tail(micro)) \cup {id} /\ state # "INIT" /\ Rest(Tail(micro))
        /\ Waiting(Tail(micro)) \cap registered = {}
    BY <1>1, <1>2, HeadKnown
  <1>4. TypeOK /\ Scalars /\ Shapes /\ EndInv /\ RequestsInv /\ StartInv
    BY ScalarsOf DEF AdminInv
  <1>5. ~ Unanswered(id)
    <2>1. JobKnown(Head(micro))
      BY HeadKnown
    <2> QED BY <1>1, <1>2, <2>1 DEF JobKnown, Unanswered
  <1>6. \A x \in Waiting(micro) : Unanswered(x) => x \in Waiting(Tail(micro))
    BY <1>3, <1>5
  <1>7. ~ HasStarter(Tail(micro))
    BY <1>1, <1>4, HeadAlone
  <1>8. UNCHANGED <<hosted, ready, closing, calls, batch, broker>>
    BY DEF ConnectDone
  <1>9. CASE Rejected(requests[1]) /\ Open
    <2>1. /\ state' = "DISCONNECTED" /\ connecting' = "rejected" /\ disconnected' = TRUE
          /\ Teardown /\ micro' = Tail(micro) \o SettledJobs(registered)
      BY <1>9 DEF ConnectDone, Orphans
    <2>2. PICK sj : sj = SettledJobs(registered)
      OBVIOUS
    <2>3. sj \in Seq(Jobs) /\ \A job \in ToSet(sj) : job.do = "settled"
      <3>1. PICK S : S = registered
        OBVIOUS
      <3>2. SettledJobs(registered) = SettledJobs(S)
        BY <3>1 DEF SettledJobs, Each, Settled, Hops
      <3>3. S \subseteq Ids
        BY <1>4, <3>1 DEF TypeOK
      <3> QED BY <1>4, <2>2, <3>1, <3>2, <3>3, SettledMany
    <2>4. PICK rest : rest = Tail(micro)
      OBVIOUS
    <2>5. PICK after : after = <<>>
      OBVIOUS
    <2>6. /\ after \in Seq(Jobs) /\ Distinct(after) /\ \A job \in ToSet(after) : job.do = "closed"
      BY <2>5, MembersNone DEF Distinct
    <2>7. /\ Rest(rest) /\ micro' = rest \o (SettledJobs(registered) \o after)
          /\ \A x \in Waiting(micro) : Unanswered(x) => x \in Waiting(rest)
      <3>1. sj \o after = sj
        BY <2>3, <2>5
      <3>2. Rest(rest)
        BY <1>3, <2>4 DEF Rest
      <3> QED BY <1>6, <2>1, <2>2, <2>4, <3>1, <3>2
    <2>8. client' = [client EXCEPT !.state = "CLOSED"]
      BY <2>1 DEF Teardown, Torn
    <2>9. Scalars' /\ ~ Open'
      BY <1>4, <1>8, <2>1, <2>8 DEF Scalars, Open
    <2>10. EndInv'
      BY <2>1, <2>9, EndClosed
    <2>11. StartInv'
      <3>1. micro' = rest \o sj /\ rest \in Seq(Jobs)
        BY <1>3, <2>1, <2>2, <2>4
      <3>2. micro' \in Seq(Jobs) /\ ToSet(micro') = ToSet(rest) \cup ToSet(sj)
        <4>1. rest \o sj \in Seq(Jobs) /\ ToSet(rest \o sj) = ToSet(rest) \cup ToSet(sj)
          BY <2>3, <3>1, MembersConcat
        <4> QED BY <3>1, <4>1, Zenon
      <3>3. ~ HasStarter(micro')
        BY <1>7, <2>3, <2>4, <3>2 DEF HasStarter, Starters
      <3>4. state' # "INIT"
        BY <2>1
      <3> QED BY <3>2, <3>3, <3>4, StartDone
    <2> QED BY <1>8, <2>1, <2>6, <2>7, <2>9, <2>10, <2>11, TeardownInv
  <1>10. CASE ~ (Rejected(requests[1]) /\ Open)
    <2>1. /\ micro' = Tail(micro)
          /\ UNCHANGED <<client, requests, registered, guards, native, events>>
          /\ \/ /\ state' = "DISCONNECTED" /\ connecting' = "rejected" /\ disconnected' = TRUE
                /\ ~ Open
             \/ state' = "CONNECTED" /\ connecting' = "resolved" /\ UNCHANGED disconnected
      BY <1>10 DEF ConnectDone
    <2>2. PICK jobs : jobs = <<>>
      OBVIOUS
    <2>3. /\ jobs \in Seq(Jobs) /\ Distinct(jobs) /\ ToSet(jobs) = {} /\ Waiting(jobs) = {}
      BY <2>2, MembersNone DEF Distinct, Waiting
    <2>4. micro' = Tail(micro) \o jobs
      BY <1>3, <2>1, <2>2
    <2>5. UNCHANGED <<hosted, requests, calls, transport, broker>>
      BY <1>8, <2>1 DEF transport
    <2>6. Scalars' /\ Open' = Open
      BY <1>4, <1>8, <2>1 DEF Scalars, Open
    <2>7. EndInv'
      <3>1. HasClosed(micro') => HasClosed(micro)
        BY <1>3, <2>1 DEF HasClosed, Rest
      <3>2. CASE disconnected' = TRUE /\ ~ Open
        BY <2>6, <3>2, EndClosed
      <3>3. CASE state' = "CONNECTED" /\ UNCHANGED disconnected
        BY <1>4, <1>8, <2>6, <3>1, <3>3, EndKept
      <3> QED BY <2>1, <3>2, <3>3
    <2>8. state' # "INIT"
      BY <2>1
    <2> QED BY <1>1, <1>6, <2>3, <2>4, <2>5, <2>6, <2>7, <2>8, OnePassed
  <1> QED BY <1>9, <1>10

LEMMA SettleInv == ASSUME AdminInv, micro # <<>>, Settle(Head(micro)) PROVE AdminInv'
  <1>1. PICK id : id = Head(micro).id
    OBVIOUS
  <1>2. /\ Head(micro).do = "settled" /\ Head(micro).do \in OfRequest /\ Head(micro).do # "closed"
    BY DEF Settle, OfRequest
  <1>3. /\ id \in Ids /\ id \notin Waiting(Tail(micro)) /\ Tail(micro) \in Seq(Jobs)
        /\ Waiting(micro) = Waiting(Tail(micro)) \cup {id} /\ state # "INIT" /\ Rest(Tail(micro))
        /\ Waiting(Tail(micro)) \cap registered = {} /\ Head(micro) \in Jobs
    BY <1>1, <1>2, HeadKnown
  <1>4. TypeOK /\ Scalars /\ Shapes /\ EndInv /\ RequestsInv /\ StartInv
    BY ScalarsOf DEF AdminInv
  <1>5. ~ Unanswered(id) /\ id \notin registered
    <2>1. JobKnown(Head(micro))
      BY HeadKnown
    <2>2. ~ Unanswered(id)
      BY <1>1, <1>2, <2>1 DEF JobKnown, Unanswered
    <2> QED BY <1>4, <2>2 DEF RequestsInv
  <1>6. \A x \in Waiting(micro) : Unanswered(x) => x \in Waiting(Tail(micro))
    BY <1>3, <1>5
  <1>7. ~ HasStarter(Tail(micro))
    BY <1>2, <1>4, HeadAlone
  <1>8. CASE /\ Head(micro).hops > 0
             /\ micro' = Append(Tail(micro), [Head(micro) EXCEPT !.hops = @ - 1])
             /\ UNCHANGED <<admin, client, requests, calls, transport, broker>>
    <2>1. PICK job : job = [Head(micro) EXCEPT !.hops = @ - 1]
      OBVIOUS
    <2>2. job \in Jobs /\ job.do = "settled" /\ job.id = id
      BY <1>1, <1>2, <1>3, <1>8, <2>1 DEF Jobs
    <2>3. PICK jobs : jobs = <<job>>
      OBVIOUS
    <2>4. /\ jobs \in Seq(Jobs) /\ Distinct(jobs) /\ ToSet(jobs) = {job} /\ Waiting(jobs) = {id}
          /\ micro' = Tail(micro) \o jobs
      BY <1>3, <1>8, <2>1, <2>2, <2>3, OneJob DEF OfRequest
    <2>5. UNCHANGED <<hosted, ready, disconnected, state, connecting, closing>>
      BY <1>8 DEF admin
    <2>6. \A x \in ToSet(jobs) : JobKnown(x) /\ x.do \in OfRequest
      BY <1>3, <1>5, <2>2, <2>4 DEF JobKnown, OfRequest
    <2>7. Scalars' /\ Open' = Open
      BY <1>4, <1>8, <2>5 DEF Scalars, Open
    <2>8. EndInv'
      <3>1. HasClosed(micro') => HasClosed(micro)
        BY <1>8, <2>1, <2>2, ClosedKept
      <3> QED BY <1>4, <2>5, <2>7, <3>1, EndKept
    <2>9. Waiting(jobs) \cap (Waiting(Tail(micro)) \cup registered) = {}
      BY <1>3, <1>5, <2>4
    <2>10. /\ \A x \in Waiting(micro) : Unanswered(x) => x \in Waiting(Tail(micro)) \cup Waiting(jobs)
           /\ state' # "INIT" /\ UNCHANGED <<hosted, requests, calls, transport, broker>>
      BY <1>3, <1>6, <1>8, <2>5
    <2> QED BY <1>2, <2>4, <2>6, <2>7, <2>8, <2>9, <2>10, OnePassed
  <1>9. CASE Head(micro).hops = 0 /\ ConnectDone
    BY <1>2, <1>9, ConnectDoneInv
  <1>10. CASE /\ calls[requests[Head(micro).id].call].result # "none"
              /\ micro' = Tail(micro)
              /\ UNCHANGED <<calls, requests>> /\ UNCHANGED <<admin, client, transport, broker>>
    <2>1. PICK jobs : jobs = <<>>
      OBVIOUS
    <2>2. /\ jobs \in Seq(Jobs) /\ Distinct(jobs) /\ ToSet(jobs) = {} /\ Waiting(jobs) = {}
      BY <2>1, MembersNone DEF Distinct, Waiting
    <2>3. micro' = Tail(micro) \o jobs
      BY <1>3, <1>10, <2>1
    <2>4. UNCHANGED <<hosted, ready, disconnected, state, connecting, closing>>
      BY <1>10 DEF admin
    <2>5. Scalars' /\ Open' = Open
      BY <1>4, <1>10, <2>4 DEF Scalars, Open
    <2>6. EndInv'
      <3>1. HasClosed(micro') => HasClosed(micro)
        BY <1>3, <1>10 DEF HasClosed, Rest
      <3> QED BY <1>4, <2>4, <2>5, <3>1, EndKept
    <2>7. state' # "INIT" /\ UNCHANGED <<hosted, requests, calls, transport, broker>>
      BY <1>3, <1>10, <2>4
    <2> QED BY <1>2, <1>6, <2>2, <2>3, <2>5, <2>6, <2>7, OnePassed
  <1>11. CASE /\ requests[Head(micro).id].call # 0
              /\ Collect(requests[Head(micro).id].call) /\ UNCHANGED <<admin, client, transport, broker>>
    <2>1. PICK c : c = requests[id].call
      OBVIOUS
    <2>2. c \in DOMAIN calls
      <3>1. c \in 0..Len(calls) /\ c # 0
        BY <1>1, <1>3, <1>4, <1>11, <2>1 DEF TypeOK
      <3>2. DOMAIN calls = 1..Len(calls) /\ Len(calls) \in Nat
        BY <1>4, LenProperties DEF Shapes
      <3> QED BY <3>1, <3>2
    <2>3. Collect(c)
      BY <1>1, <1>11, <2>1 DEF Collect
    <2> QED BY <1>3, <1>6, <1>7, <1>11, <2>2, <2>3, CollectStep
  <1> QED BY <1>8, <1>9, <1>10, <1>11 DEF Settle

LEMMA SettleEmptyInv == ASSUME AdminInv, micro # <<>>, SettleEmpty(Head(micro)) PROVE AdminInv'
  <1>1. PICK c : c = Head(micro).id
    OBVIOUS
  <1>2. /\ Head(micro).do = "empty" /\ Head(micro).do \notin OfRequest
        /\ Head(micro).do # "closed" /\ UNCHANGED <<admin, client, transport, broker>>
    BY DEF SettleEmpty, OfRequest
  <1>3. Collect(c)
    BY <1>1 DEF SettleEmpty, Collect
  <1>4. /\ Rest(Tail(micro)) /\ Waiting(micro) = Waiting(Tail(micro)) /\ state # "INIT"
    BY <1>2, HeadKnown
  <1>5. c \in DOMAIN calls
    <2>1. JobKnown(Head(micro))
      BY HeadKnown
    <2> QED BY <1>1, <1>2, <2>1 DEF JobKnown
  <1>6. ~ HasStarter(Tail(micro))
    BY <1>2, HeadAlone DEF AdminInv
  <1> QED BY <1>2, <1>3, <1>4, <1>5, <1>6, CollectStep

LEMMA MicrotaskInv == ASSUME AdminInv, Microtask PROVE AdminInv'
  <1>1. micro # <<>>
    BY DEF Microtask
  <1>2. \/ FirstMetadata(Head(micro)) \/ NativeFailed(Head(micro)) \/ Disconnected(Head(micro))
        \/ Submit(Head(micro)) \/ Query(Head(micro)) \/ Settle(Head(micro))
        \/ SettleEmpty(Head(micro))
    BY DEF Microtask
  <1> QED BY <1>1, <1>2, FirstMetadataInv, NativeFailedInv, DisconnectedInv, SubmitInv, QueryInv,
             SettleInv, SettleEmptyInv

-----------------------------------------------------------------------------
(* A registered request is answered, by its event or by its guard.         *)
LEMMA RegisteredAnswered ==
  ASSUME AdminInv, NEW id \in registered, NEW answer \in Replies, Truth(id, answer),
         requests' = Answered({id}, answer), micro' = Append(micro, Settled(id)),
         registered' = registered \ {id}, guards' = guards \ {id},
         UNCHANGED <<admin, client, calls, native, events, broker>>,
         batch' \in Seq(Events), ToSet(batch') \subseteq ToSet(batch),
         \A e \in ToSet(batch) : e.id # id => e \in ToSet(batch')
  PROVE  AdminInv'
  <1>1. /\ TypeOK /\ Scalars /\ Shapes /\ EndInv /\ RequestsInv /\ StartInv /\ QueueInv
        /\ guards = registered
    BY ScalarsOf DEF AdminInv, Promised
  <1>2. UNCHANGED <<hosted, ready, disconnected, state, connecting, closing>>
    BY DEF admin
  <1>3. id \in Ids /\ Unanswered(id) /\ id \notin Waiting(micro)
    BY <1>1 DEF TypeOK, RequestsInv, Unanswered
  <1>4. ~ HasStarter(micro) /\ state # "INIT"
    BY <1>1, RegisteredLate
  <1>5. PICK job : job = Settled(id)
    OBVIOUS
  <1>6. job \in Jobs /\ job.do = "settled" /\ job.id = id
    BY <1>1, <1>3, <1>5, SettledTyped
  <1>7. PICK jobs : jobs = <<job>>
    OBVIOUS
  <1>8. /\ jobs \in Seq(Jobs) /\ ToSet(jobs) = {job} /\ Distinct(jobs) /\ Waiting(jobs) = {id}
        /\ \A q \in Seq(Jobs) : Append(q, job) = q \o jobs
    BY <1>6, <1>7, OneJob DEF OfRequest
  <1>9. PICK rest : rest = micro
    OBVIOUS
  <1>10. Rest(rest) /\ rest \in Seq(Jobs) /\ micro' = rest \o jobs /\ id \notin Waiting(rest)
    <2>1. Rest(micro)
      BY <1>1, RestAll
    <2>2. rest \in Seq(Jobs)
      BY <1>1, <1>9 DEF Shapes
    <2>3. Rest(rest)
      BY <1>9, <2>1 DEF Rest
    <2> QED BY <1>3, <1>5, <1>8, <1>9, <2>2, <2>3
  <1>11. PICK S : S = {id}
    OBVIOUS
  <1>12. /\ S \subseteq Ids /\ S \cap Waiting(rest) = {} /\ Waiting(jobs) = S
         /\ requests' = Answered(S, answer) /\ registered' = registered \ S
         /\ \A x \in Waiting(micro) : Unanswered(x) => x \in Waiting(rest) \cup S
    BY <1>3, <1>8, <1>9, <1>10, <1>11
  <1>13. (\A x \in S : Unanswered(x)) /\ \A x \in S : Truth(x, answer)
    BY <1>3, <1>11 DEF Truth, Unanswered
  <1>14. /\ guards' = registered' /\ native' \subseteq native
         /\ events' \in Seq(Events) /\ batch' \in Seq(Events)
         /\ ToSet(events') \subseteq ToSet(events) /\ ToSet(batch') \subseteq ToSet(batch)
    BY <1>1 DEF Shapes
  <1>15. \A x \in registered' : /\ x \notin Waiting(rest)
                                /\ Open => Open'
                                /\ Owed(x) => Owed(x)'
    <2>1. Open' = Open
      BY DEF Open
    <2>2. ASSUME NEW CONSTANT x, x \in registered' PROVE x \notin Waiting(rest)
      BY <1>1, <1>9, <2>2 DEF RequestsInv
    <2>3. ASSUME NEW CONSTANT x, x \in registered', Owed(x) PROVE Owed(x)'
      <3>1. x # id /\ native' = native /\ events' = events
        BY <2>3
      <3>2. CASE x \in native
        BY <3>1, <3>2 DEF Owed
      <3>3. CASE \E e \in ToSet(events) \cup ToSet(batch) : e.id = x
        <4>1. PICK e \in ToSet(events) \cup ToSet(batch) : e.id = x
          BY <3>3
        <4>2. e \in ToSet(events') \cup ToSet(batch')
          BY <3>1, <4>1
        <4> QED BY <4>1, <4>2 DEF Owed, ToSet
      <3> QED BY <2>3, <3>2, <3>3 DEF Owed
    <2> QED BY <2>1, <2>2, <2>3
  <1>16. micro' \in Seq(Jobs) /\ ToSet(micro') = ToSet(micro) \cup {job}
    <2>1. rest \o jobs \in Seq(Jobs) /\ ToSet(rest \o jobs) = ToSet(rest) \cup ToSet(jobs)
      BY <1>8, <1>10, MembersConcat
    <2>2. micro' \in Seq(Jobs) /\ ToSet(micro') = ToSet(rest) \cup ToSet(jobs)
      BY <1>10, <2>1, Zenon
    <2> QED BY <1>8, <1>9, <2>2
  <1>17. StartInv'
    <2>1. ~ HasStarter(micro')
      BY <1>4, <1>6, <1>16 DEF HasStarter, Starters
    <2>2. state' # "INIT"
      BY <1>2, <1>4
    <2> QED BY <1>16, <2>1, <2>2, StartDone
  <1>18. Scalars' /\ Open' = Open
    BY <1>1, <1>2 DEF Scalars, Open
  <1>19. EndInv'
    <2>1. HasClosed(micro') => HasClosed(micro)
      BY <1>6, <1>16 DEF HasClosed
    <2> QED BY <1>1, <1>2, <1>18, <2>1, EndKept
  <1>20. \A x \in ToSet(jobs) : x.do \in {"settled", "closed"}
    BY <1>6, <1>8
  <1>21. UNCHANGED <<hosted, calls, broker>>
    BY <1>2
  <1> HIDE DEF Replies
  <1> QED BY <1>8, <1>10, <1>12, <1>13, <1>14, <1>15, <1>17, <1>18, <1>19, <1>20, <1>21, AnswersInv

LEMMA GuardFiresInv ==
  ASSUME AdminInv, NEW id \in guards, GuardFires(id)
  PROVE  AdminInv'
  <1>1. id \in registered /\ batch \in Seq(Events)
    BY DEF AdminInv, Promised, Shapes
  <1>2. PICK answer : answer = Failure("TIMED_OUT")
    OBVIOUS
  <1>3. answer \in Replies /\ Truth(id, answer)
    BY <1>2, FailureOk
  <1>4. /\ requests' = Answered({id}, answer) /\ micro' = Append(micro, Settled(id))
        /\ registered' = registered \ {id} /\ guards' = guards \ {id} /\ batch' = batch
        /\ UNCHANGED <<admin, client, calls, native, events, broker>>
    BY <1>1, <1>2 DEF GuardFires, Expired
  <1> HIDE DEF Replies
  <1> QED BY <1>1, <1>3, <1>4, RegisteredAnswered

LEMMA DispatchEventInv == ASSUME AdminInv, DispatchEvent PROVE AdminInv'
  <1>1. /\ Shapes /\ AnswersTrue /\ RequestsInv /\ TypeOK /\ batch # <<>> /\ batch' = Tail(batch)
        /\ UNCHANGED <<admin, client, calls, native, events, broker>>
    BY DEF AdminInv, DispatchEvent
  <1>2. /\ Head(batch) \in ToSet(batch) /\ Tail(batch) \in Seq(Events)
        /\ ToSet(batch) = ToSet(Tail(batch)) \cup {Head(batch)} /\ ToSet(batch) \subseteq Events
    BY <1>1, MembersTail, MembersAt DEF Shapes
  <1>3. PICK event : event = Head(batch)
    OBVIOUS
  <1>4. /\ event \in ToSet(batch) /\ event \in Events /\ batch' \in Seq(Events)
        /\ ToSet(batch') \subseteq ToSet(batch)
        /\ \A e \in ToSet(batch) : e.id # event.id => e \in ToSet(batch')
    BY <1>1, <1>2, <1>3
  <1>5. CASE event.id \in registered
    <2>1. PICK id : id = event.id
      OBVIOUS
    <2>2. PICK answer : answer = event.answer
      OBVIOUS
    <2>3. answer \in Replies /\ Truth(id, answer)
      <3>1. answer \in Replies
        BY <1>4, <2>2 DEF Events
      <3> QED BY <1>1, <1>4, <2>1, <2>2, <3>1 DEF AnswersTrue, Truth
    <2>4. /\ id \in registered
          /\ requests' = Answered({id}, answer) /\ micro' = Append(micro, Settled(id))
          /\ registered' = registered \ {id} /\ guards' = guards \ {id}
      BY <1>3, <1>5, <2>1, <2>2 DEF DispatchEvent
    <2>5. \A e \in ToSet(batch) : e.id # id => e \in ToSet(batch')
      BY <1>4, <2>1
    <2> HIDE DEF Replies, Events
    <2> QED BY <1>1, <1>4, <2>3, <2>4, <2>5, RegisteredAnswered
  <1>6. CASE event.id \notin registered
    <2>1. UNCHANGED <<admin, client, registered, guards, requests, calls, micro, native, events,
                      existing, done>>
      BY <1>1, <1>3, <1>6 DEF DispatchEvent, broker
    <2>2. /\ native' \subseteq Ids /\ existing' \subseteq Names /\ done \subseteq done'
          /\ done' \subseteq Ids \X Names /\ events' \in Seq(Events)
      BY <1>1, <2>1 DEF TypeOK, Shapes
    <2>3. \A e \in ToSet(events') \cup ToSet(batch') : e \in ToSet(events) \cup ToSet(batch)
      BY <1>4, <2>1
    <2>4. ASSUME NEW CONSTANT x, x \in registered, Owed(x) PROVE Owed(x)'
      <3>1. x # event.id /\ native' = native /\ events' = events
        BY <1>6, <2>1, <2>4
      <3>2. CASE x \in native
        BY <3>1, <3>2 DEF Owed
      <3>3. CASE \E e \in ToSet(events) \cup ToSet(batch) : e.id = x
        <4>1. PICK e \in ToSet(events) \cup ToSet(batch) : e.id = x
          BY <3>3
        <4>2. e \in ToSet(events') \cup ToSet(batch')
          BY <1>4, <3>1, <4>1
        <4> QED BY <4>1, <4>2 DEF Owed, ToSet
      <3> QED BY <2>4, <3>2, <3>3 DEF Owed
    <2> HIDE DEF Events
    <2> QED BY <1>4, <2>1, <2>2, <2>3, <2>4, ServerStep
  <1> QED BY <1>5, <1>6

LEMMA PumpInv == ASSUME AdminInv, Pump PROVE AdminInv'
  <1>1. Shapes /\ TypeOK
    BY DEF AdminInv
  <1>2. /\ UNCHANGED <<admin, client, registered, guards, requests, calls, micro, native, existing,
                       done>>
        /\ batch = <<>> /\ batch' = events /\ events' = <<>>
    BY DEF Pump, broker
  <1>3. events' \in Seq(Events) /\ batch' \in Seq(Events) /\ ToSet(events') = {} /\ ToSet(batch) = {}
    BY <1>1, <1>2, MembersNone DEF Shapes
  <1>4. ToSet(batch') = ToSet(events)
    BY <1>2
  <1>5. /\ native' \subseteq Ids /\ existing' \subseteq Names /\ done \subseteq done'
        /\ done' \subseteq Ids \X Names
    BY <1>1, <1>2 DEF TypeOK
  <1>6. \A x \in registered : Owed(x) => Owed(x)'
    BY <1>2, <1>3, <1>4 DEF Owed, ToSet
  <1> HIDE DEF Events
  <1> QED BY <1>2, <1>3, <1>4, <1>5, <1>6, ServerStep

-----------------------------------------------------------------------------
(* What the broker answers is what it did.                                 *)
LEMMA ExecuteInv == ASSUME AdminInv, NEW id \in native, Execute(id) PROVE AdminInv'
  <1>1. Shapes /\ TypeOK
    BY DEF AdminInv
  <1>2. id \in Ids /\ id \in Nat /\ existing \subseteq Names /\ done \subseteq Ids \X Names
    BY <1>1, SettledTyped DEF TypeOK
  <1>3. PICK op : op = requests[id].op
    OBVIOUS
  <1>4. PICK names : names = requests[id].names
    OBVIOUS
  <1>5. names \in Seq(Names)
    <2>1. \A x \in Ids : requests[x] \in Requests
      BY <1>1, LenProperties DEF Shapes, Ids
    <2> QED BY <1>2, <1>4, <2>1 DEF Requests
  <1>6. PICK items \in [Reported(op, names) -> {"ok", "exists", "failed"}] :
          /\ LET okay == {name \in DOMAIN items : items[name] = "ok"}
             IN  /\ existing' = Applied(op, okay)
                 /\ done' = IF op \in Writes THEN done \cup ({id} \X okay) ELSE done
          /\ \E answer \in {Result(items), Failure("FAILED")} :
                events' = Append(events, [id |-> id, answer |-> answer])
    BY <1>3, <1>4 DEF Execute
  <1>7. /\ UNCHANGED <<admin, client, registered, guards, requests, calls, batch, micro>>
        /\ native' = native \ {id}
    BY DEF Execute
  <1>8. PICK okay : okay = {name \in DOMAIN items : items[name] = "ok"}
    OBVIOUS
  <1>9. /\ existing' = Applied(op, okay)
        /\ done' = IF op \in Writes THEN done \cup ({id} \X okay) ELSE done
    BY <1>6, <1>8
  <1>10. PICK answer \in {Result(items), Failure("FAILED")} :
           events' = Append(events, [id |-> id, answer |-> answer])
    BY <1>6
  <1>11. Reported(op, names) \subseteq Names /\ (op \in Writes => Reported(op, names) = ToSet(names))
    <2>1. ToSet(names) \subseteq Names
      BY <1>5, MembersAt
    <2> QED BY <1>2, <2>1 DEF Reported, Writes
  <1>12. DOMAIN items = Reported(op, names) /\ okay \subseteq Names
    BY <1>6, <1>8, <1>11
  <1>13. existing' \subseteq Names /\ done \subseteq done' /\ done' \subseteq Ids \X Names
    BY <1>2, <1>9, <1>12 DEF Applied
  <1>14. answer \in Replies
    <2>1. Reported(op, names) \in SUBSET Names /\ items \in [Reported(op, names) -> Codings]
      BY <1>6, <1>11 DEF Codings
    <2>2. Result(items) \in Replies /\ Failure("FAILED") \in Replies
      BY <2>1, RepliesTyped DEF Errors
    <2> HIDE DEF Replies
    <2> QED BY <1>10, <2>2
  <1>15. Truth(id, answer)'
    <2>1. requests'[id].op = op /\ requests'[id].names = names
      BY <1>3, <1>4, <1>7
    <2>2. CASE op \in Writes /\ answer = Result(items)
      <3>1. answer.items = items
        BY <2>2 DEF Result
      <3>2. \A name \in DOMAIN items : items[name] = "ok" => <<id, name>> \in done'
        BY <1>8, <1>9, <2>2
      <3> QED BY <1>11, <1>12, <2>1, <2>2, <3>1, <3>2 DEF Truth
    <2>3. CASE answer = Failure("FAILED")
      BY <2>3 DEF Truth, Failure
    <2>4. CASE op \notin Writes
      BY <2>1, <2>4 DEF Truth
    <2> QED BY <1>10, <2>2, <2>3, <2>4
  <1>16. PICK event : event = [id |-> id, answer |-> answer]
    OBVIOUS
  <1>17. event \in Events /\ event.id = id /\ event.answer = answer
    <2> HIDE DEF Replies
    <2> QED BY <1>2, <1>14, <1>16 DEF Events
  <1>18. events' \in Seq(Events) /\ ToSet(events') = ToSet(events) \cup {event}
    <2>1. PICK last : last = <<event>>
      OBVIOUS
    <2>2. /\ last \in Seq(Events) /\ ToSet(last) = {event}
          /\ \A q \in Seq(Events) : Append(q, event) = q \o last
      BY <1>17, <2>1, MembersOne
    <2>3. events \in Seq(Events) /\ events' = events \o last
      BY <1>1, <1>10, <1>16, <2>2 DEF Shapes
    <2>4. events \o last \in Seq(Events) /\ ToSet(events \o last) = ToSet(events) \cup ToSet(last)
      BY <2>2, <2>3, MembersConcat
    <2> QED BY <2>2, <2>3, <2>4, Zenon
  <1>19. \A e \in ToSet(events') \cup ToSet(batch') :
           e \in ToSet(events) \cup ToSet(batch) \/ (e.id \in Ids /\ Truth(e.id, e.answer)')
    BY <1>2, <1>7, <1>15, <1>17, <1>18 DEF Truth
  <1>20. ASSUME NEW CONSTANT x, x \in registered, Owed(x) PROVE Owed(x)'
    <2>1. CASE x = id
      BY <1>17, <1>18, <2>1 DEF Owed, ToSet
    <2>2. CASE x \in native /\ x # id
      BY <1>7, <2>2 DEF Owed
    <2>3. CASE \E e \in ToSet(events) \cup ToSet(batch) : e.id = x
      BY <1>7, <1>18, <2>3 DEF Owed, ToSet
    <2> QED BY <1>20, <2>1, <2>2, <2>3 DEF Owed
  <1>21. native' \subseteq Ids /\ batch' \in Seq(Events)
    BY <1>1, <1>7 DEF TypeOK, Shapes
  <1> HIDE DEF Events
  <1> QED BY <1>7, <1>13, <1>18, <1>19, <1>20, <1>21, ServerStep

LEMMA InitInv == Init => AdminInv
  <1> SUFFICES ASSUME Init PROVE AdminInv
    OBVIOUS
  <1> USE DEF Init
  <1>1. Ids = {} /\ DOMAIN calls = {} /\ Len(calls) = 0
    BY DEF Ids
  <1>2. Waiting(micro) = {} /\ ToSet(micro) = {} /\ ToSet(events) = {} /\ ToSet(batch) = {}
    BY DEF Waiting, ToSet
  <1>3. Shapes
    BY DEF Shapes
  <1>4. TypeOK
    <2>1. client \in [gen : 0..MaxHandles, state : {"INIT", "CONNECTING", "READY", "CLOSED"}]
      BY BoundsAssumption
    <2>2. hosted \in BOOLEAN /\ disconnected \in BOOLEAN /\ existing \subseteq Names
      OBVIOUS
    <2>3. /\ registered \subseteq Ids /\ guards \subseteq Ids /\ native \subseteq Ids
          /\ done \subseteq Ids \X Names
      OBVIOUS
    <2>4. /\ \A id \in Ids : requests[id].call \in 0..Len(calls)
          /\ \A c \in DOMAIN calls : calls[c].result \in {"none", "resolved", "rejected", "false"}
      BY <1>1
    <2>5. /\ ready \in {"pending", "ok", "failed"} /\ connecting = "none" /\ closing = "none"
          /\ state = "INIT"
      OBVIOUS
    <2> QED BY <2>1, <2>2, <2>3, <2>4, <2>5 DEF TypeOK
  <1>5. QueueInv /\ RequestsInv /\ Promised /\ AnswersTrue /\ AsksInv /\ ResultsInv
    BY <1>1, <1>2 DEF QueueInv, Distinct, RequestsInv, Promised, AnswersTrue, AsksInv, ResultsInv
  <1>6. StartInv /\ EndInv
    BY <1>2 DEF StartInv, StartsAlone, EndInv
  <1> QED BY <1>3, <1>4, <1>5, <1>6 DEF AdminInv

LEMMA NextInv == ASSUME AdminInv, [Next]_vars PROVE AdminInv'
  <1>1. CASE UNCHANGED vars
    <2>1. UNCHANGED <<admin, client, registered, guards, requests, calls, micro, native, events,
                      batch, existing, done>>
      BY <1>1 DEF vars, admin
    <2>2. TypeOK /\ Shapes
      BY DEF AdminInv
    <2>3. /\ native' \subseteq Ids /\ existing' \subseteq Names /\ done \subseteq done'
          /\ done' \subseteq Ids \X Names /\ events' \in Seq(Events) /\ batch' \in Seq(Events)
      BY <2>1, <2>2 DEF TypeOK, Shapes
    <2>4. /\ \A x \in registered : Owed(x) => Owed(x)'
          /\ \A e \in ToSet(events') \cup ToSet(batch') : e \in ToSet(events) \cup ToSet(batch)
      BY <2>1 DEF Owed, ToSet
    <2> HIDE DEF Events
    <2> QED BY <2>1, <2>3, <2>4, ServerStep
  <1>2. CASE \E method \in Methods, args \in Arguments : Call(method, args)
    BY <1>2, CallInv
  <1>3. CASE \E id \in native : Execute(id)
    BY <1>3, ExecuteInv
  <1>4. CASE \E id \in guards : GuardFires(id)
    BY <1>4, GuardFiresInv
  <1>5. CASE Connect \/ Disconnect \/ HostConnect \/ HostDisconnect
    BY <1>5, ConnectInv, DisconnectInv, HostConnectInv, HostDisconnectInv
  <1>6. CASE Microtask \/ Pump \/ DispatchEvent
    BY <1>6, MicrotaskInv, PumpInv, DispatchEventInv
  <1> QED BY <1>1, <1>2, <1>3, <1>4, <1>5, <1>6 DEF Next

LEMMA AdminInvImplies ==
  ASSUME AdminInv PROVE NothingLeft /\ ResultsTrue
  <1>1. NothingForgotten
    <2>1. Promised /\ Shapes /\ guards = registered
      BY DEF AdminInv, Promised
    <2>2. /\ DOMAIN micro = 1..Len(micro) /\ DOMAIN events = 1..Len(events)
          /\ DOMAIN batch = 1..Len(batch)
      BY <2>1, LenProperties DEF Shapes
    <2>3. ASSUME NEW CONSTANT id, id \in Waiting(micro) PROVE InMicro(id)
      <3>1. PICK job \in ToSet(micro) : job.do \in OfRequest /\ job.id = id
        BY <2>3 DEF Waiting
      <3>2. PICK j \in DOMAIN micro : micro[j] = job
        BY <2>1, <2>2, <3>1, MembersAt DEF Shapes
      <3> QED BY <3>1, <3>2 DEF InMicro, OfRequest
    <2>4. ASSUME NEW CONSTANT id, Owed(id) PROVE Arriving(id)
      <3>1. CASE id \in native
        BY <3>1 DEF Arriving
      <3>2. CASE \E e \in ToSet(events) : e.id = id
        <4>1. PICK e \in ToSet(events) : e.id = id
          BY <3>2
        <4>2. PICK j \in DOMAIN events : events[j] = e
          BY <2>1, <2>2, <4>1, MembersAt DEF Shapes
        <4> QED BY <4>1, <4>2 DEF Arriving
      <3>3. CASE \E e \in ToSet(batch) : e.id = id
        <4>1. PICK e \in ToSet(batch) : e.id = id
          BY <3>3
        <4>2. PICK j \in DOMAIN batch : batch[j] = e
          BY <2>1, <2>2, <4>1, MembersAt DEF Shapes
        <4> QED BY <4>1, <4>2 DEF Arriving
      <3> QED BY <2>4, <3>1, <3>2, <3>3 DEF Owed
    <2> QED BY <2>1, <2>3, <2>4 DEF Promised, NothingForgotten, Unanswered
  <1>2. ResultsTrue
    BY DEF AdminInv, ResultsInv, CallTrue, ResultsTrue, Did, Existed, Writers, Unanswered
  <1>3. DisconnectedIsClosed
    BY DEF AdminInv, EndInv, DisconnectedIsClosed
  <1> QED BY <1>1, <1>2, <1>3 DEF NothingLeft

LEMMA AdminInvAlways == Spec => []AdminInv
  <1>1. AdminInv /\ [Next]_vars => AdminInv'
    BY NextInv
  <1> QED BY <1>1, InitInv, PTL DEF Spec

-----------------------------------------------------------------------------
(* The variables keep their types: who is registered, guarded or at        *)
(* librdkafka is a request that was made, and a request is of a call that  *)
(* was made or of connect().                                               *)
THEOREM TypeCorrect == Spec => []TypeOK
  <1>1. AdminInv => TypeOK
    BY DEF AdminInv
  <1> QED BY <1>1, AdminInvAlways, PTL

(* A request of a call that has no answer yet is in the microtask queue,   *)
(* or is registered with its guard armed while the open handle still owes  *)
(* its result, through refusals, lost events, guards that fire, teardown   *)
(* and a host that reconnects; no guard outlives its registration; and a   *)
(* standalone admin that is disconnected, by disconnect() or because its   *)
(* connect() failed, leaves no handle open, whatever the order of          *)
(* disconnect() and the microtasks of connect().                           *)
THEOREM NothingLeftAlways == Spec => []NothingLeft
  <1>1. AdminInv => NothingLeft
    BY AdminInvImplies
  <1> QED BY <1>1, AdminInvAlways, PTL

(* A call that resolves tells the truth: each name of a resolved write was *)
(* carried out by the broker, createTopics() answers false only when the   *)
(* others existed and at least one did, and only once all its topics have  *)
(* an answer.                                                              *)
THEOREM CallsTellTruth == Spec => []ResultsTrue
  <1>1. AdminInv => ResultsTrue
    BY AdminInvImplies
  <1> QED BY <1>1, AdminInvAlways, PTL
=============================================================================

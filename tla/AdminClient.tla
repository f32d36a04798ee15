---------------------------- MODULE AdminClient ----------------------------
(* The admin stack: KafkaJS Admin over the callback AdminClient over Client  *)
(* over the shim's brk_admin_request.  A call of the user becomes one or two *)
(* batches of requests; a request is registered under a correlation id with  *)
(* a guard timer, and is answered by an ADMIN_RESULT event of the poll, by   *)
(* the guard, by teardown, or at once when the shim or the client refuses    *)
(* it.  The admin owns its handle ("standalone") or rides a host's.          *)
(* Names stand for topics, groups and partitions alike.  micro is the JS     *)
(* microtask queue; timers and polls run when it is empty, and the user's    *)
(* code runs anywhere.                                                       *)
EXTENDS Naturals, Sequences, FiniteSets, SequencesExt, Selection

CONSTANTS
    Names,        \* topics, groups or partitions
    Partitions,   \* the partitions of a topic, a sequence over Names
    Methods,      \* the methods the user calls
    Arguments,    \* the argument lists the user gives, sequences over Names
    MaxCalls,     \* bound: calls of the user
    MaxHandles    \* bound: handles the client opens

ASSUME NamesAssumption == IsFiniteSet(Names) /\ Partitions \in Seq(Names)
ASSUME BoundsAssumption == MaxCalls \in Nat /\ MaxHandles \in Nat \ {0}
ASSUME ArgumentsAssumption == \A args \in Arguments : args \in Seq(Names)

VARIABLES
    hosted,      \* createFrom(): the handle belongs to a host client
    client,      \* Client.native of the transport: [gen, state]
    ready,       \* AdminClient.readyPromise
    disconnected,\* AdminClient.disconnected
    state,       \* KafkaJS Admin #state
    connecting,  \* the promise of connect()
    closing,     \* the promise of disconnect()
    registered,  \* Client.adminPending: correlation ids
    guards,      \* the guard timers armed
    requests,    \* every request made, by correlation id
    calls,       \* every call made
    native,      \* requests librdkafka holds
    events,      \* main_q: the requests answered
    batch,       \* the events pump() is going through
    micro,       \* the microtask queue
    existing,    \* the broker's topics and groups
    done         \* what the broker did: <<id, name>>

admin == <<hosted, ready, disconnected, state, connecting, closing>>
transport == <<registered, guards, native, events, batch>>
broker == <<existing, done>>
vars == <<hosted, client, ready, disconnected, state, connecting, closing, registered, guards,
          requests, calls, native, events, batch, micro, existing, done>>

Open == client.state \in {"CONNECTING", "READY"}

-----------------------------------------------------------------------------
(* What each method asks for.  A batch is a sequence of requests.            *)

Request(op, names) == [op |-> op, names |-> names]

CreateTopic(topic) == Request("CREATE_TOPICS", <<topic>>)
DeleteTopic(topic) == Request("DELETE_TOPICS", <<topic>>)
CreatePartitions(topic) == Request("CREATE_PARTITIONS", <<topic>>)
ListTopics == Request("METADATA", <<>>)
ListGroups == Request("LIST_GROUPS", <<>>)
DescribeGroups(groups) == Request("DESCRIBE_GROUPS", groups)
DeleteGroups(groups) == Request("DELETE_GROUPS", groups)
ListConsumerGroupOffsets(group) == Request("LIST_CONSUMER_GROUP_OFFSETS", <<group>>)
DeleteRecords(partition) == Request("DELETE_RECORDS", <<partition>>)
ListOffsets(partitions) == Request("LIST_OFFSETS", partitions)
DescribeTopics(topics) == Request("DESCRIBE_TOPICS", topics)
QueryWatermarkOffsets(partition) == Request("WATERMARK", <<partition>>)

Each(F(_), args) == [i \in DOMAIN args |-> F(args[i])]

createTopics(args) == <<Each(CreateTopic, args)>>
deleteTopics(args) == <<Each(DeleteTopic, args)>>
listTopics == << <<ListTopics>> >>
listGroups == << <<ListGroups>> >>
describeGroups(args) == << <<DescribeGroups(args)>> >>
deleteGroups(args) == << <<DeleteGroups(args)>> >>
fetchOffsets(args) == << <<ListConsumerGroupOffsets(Head(args))>> >>
deleteTopicRecords(args) == <<Each(DeleteRecords, args)>>
fetchTopicMetadata(args, found) ==
    IF args = <<>> THEN << <<ListTopics>>, <<DescribeTopics(found)>> >>
                   ELSE << <<DescribeTopics(args)>> >>
PartitionIds(args, second) == << <<DescribeTopics(<<Head(args)>>)>>, second >>
fetchTopicOffsets(args, found) == PartitionIds(args, Each(QueryWatermarkOffsets, found))
fetchCommittedOffsets(args, found) ==
    PartitionIds(args, <<ListOffsets(found), ListOffsets(found)>>)
fetchTopicOffsetsByTimestamp(args, found) == PartitionIds(args, <<ListOffsets(found)>>)

AllMethods == {"createTopics", "deleteTopics", "createPartitions", "listTopics", "listGroups",
               "describeGroups", "deleteGroups", "fetchOffsets", "deleteTopicRecords",
               "fetchTopicMetadata", "fetchTopicOffsets", "fetchCommittedOffsets",
               "fetchTopicOffsetsByTimestamp"}
ASSUME MethodsAssumption == Methods \subseteq AllMethods

\* The batches of a method; found is what its first batch found.
Batches(method, args, found) ==
    CASE method = "createTopics" -> createTopics(args)
      [] method = "deleteTopics" -> deleteTopics(args)
      [] method = "createPartitions" -> <<Each(CreatePartitions, <<Head(args)>>)>>
      [] method = "listTopics" -> listTopics
      [] method = "listGroups" -> listGroups
      [] method = "describeGroups" -> describeGroups(args)
      [] method = "deleteGroups" -> deleteGroups(args)
      [] method = "fetchOffsets" -> fetchOffsets(args)
      [] method = "deleteTopicRecords" -> deleteTopicRecords(args)
      [] method = "fetchTopicMetadata" -> fetchTopicMetadata(args, found)
      [] method = "fetchTopicOffsets" -> fetchTopicOffsets(args, found)
      [] method = "fetchCommittedOffsets" -> fetchCommittedOffsets(args, found)
      [] method = "fetchTopicOffsetsByTimestamp" -> fetchTopicOffsetsByTimestamp(args, found)

\* The methods whose first argument is one name.
NeedsName == {"createPartitions", "fetchOffsets", "fetchTopicOffsets",
              "fetchCommittedOffsets", "fetchTopicOffsetsByTimestamp"}

-----------------------------------------------------------------------------
(* Answers.  err is "" for a result event without error; items is the code   *)
(* of every name it reports on.                                              *)

NoItems == [name \in {} |-> "ok"]
Failure(err) == [err |-> err, items |-> NoItems]
Result(items) == [err |-> "", items |-> items]
NoAnswer == Failure("none")

ItemFailed(answer) == \E name \in DOMAIN answer.items : answer.items[name] = "failed"
Exists(answer) == \E name \in DOMAIN answer.items : answer.items[name] = "exists"

\* describeGroups() hands the errors of its items to the user.
ReportsItems == {"DESCRIBE_GROUPS"}
Rejected(r) == \/ r.answer.err # ""
               \/ ItemFailed(r.answer) /\ r.op \notin ReportsItems
               \/ Exists(r.answer) /\ r.op # "CREATE_TOPICS"

\* The names an answer reports on.
Reported(op, names) == IF op \in {"METADATA", "LIST_GROUPS"} THEN existing ELSE ToSet(names)

Found(r) == IF r.op = "METADATA" THEN SetToSeq(DOMAIN r.answer.items)
            ELSE IF r.op = "DESCRIBE_TOPICS" THEN Partitions
            ELSE <<>>

-----------------------------------------------------------------------------
(* The microtask queue.                                                      *)

Job(do, id) == [do |-> do, id |-> id, hops |-> 0]

\* listTopics() of connect() goes through four promises to its continuation.
Hops(id) == IF requests[id].call = 0 THEN 3 ELSE 0
Settled(id) == [do |-> "settled", id |-> id, hops |-> Hops(id)]

\* The requests of a set are answered in one synchronous block.
Answered(ids, answer) ==
    [id \in DOMAIN requests |->
        IF id \in ids THEN [requests[id] EXCEPT !.answer = answer] ELSE requests[id]]
SettledJobs(ids) == Each(Settled, Ascending(ids))

\* request(): a batch of requests, each waiting for readyPromise first.
NextCorrelationId == Len(requests) + 1
FirstJob(r, id) == IF r.op = "WATERMARK" THEN [Job("query", id) EXCEPT !.hops = client.gen]
                   ELSE Job("request", id)
MadeForNext(rs, call) ==
    [i \in DOMAIN rs |-> [op |-> rs[i].op, names |-> rs[i].names, call |-> call + 1,
                          answer |-> NoAnswer]]
Made(rs, call) ==
    [i \in DOMAIN rs |-> [op |-> rs[i].op, names |-> rs[i].names, call |-> call,
                          answer |-> NoAnswer]]
Asked(rs) == [i \in DOMAIN rs |-> FirstJob(rs[i], NextCorrelationId + i - 1)]

-----------------------------------------------------------------------------
(* The client under the admin.                                               *)

\* teardown(): no result will arrive any more.
Torn == [client EXCEPT !.state = "CLOSED"]
NoOrphans == {}
Orphans == registered
Teardown ==
    /\ client' = Torn
    /\ requests' = Answered(Orphans, Failure("DESTROY"))
    /\ registered' = registered \ Orphans
    /\ guards' = guards \ Orphans
    /\ native' = {}
    /\ events' = <<>>

\* NativeClient.connect(): the conf, then the handle.
NewHandle == [gen |-> client.gen + 1, state |-> "CONNECTING"]

\* The microtask of connect(): the first metadata, which blocks.
FirstMetadata(job) ==
    /\ job.do = "metadata"
    /\ UNCHANGED <<hosted, disconnected, state, connecting, closing, calls, batch, existing, done>>
    /\ \/ /\ ~ (Open /\ client.gen = job.id)
          /\ micro' = Tail(micro)
          /\ UNCHANGED <<client, ready, registered, guards, requests, native, events>>
       \/ /\ Open /\ client.gen = job.id
          /\ client' = [client EXCEPT !.state = "READY"]
          /\ ready' = "ok"
          /\ micro' = Append(Tail(micro), Job("request", 1))
          /\ UNCHANGED <<registered, guards, requests, native, events>>
       \/ /\ Open /\ client.gen = job.id
          /\ client' = Torn
          /\ requests' = Answered({1}, Failure("FAILED"))
          /\ ready' = "failed"
          /\ micro' = Append(Tail(micro), Settled(1))
          /\ UNCHANGED <<registered, guards, native, events>>

\* The native handle could not be created.
NativeFailed(job) ==
    /\ job.do = "nativeFailed"
    /\ ready' = "failed"
    /\ requests' = Answered({1}, Failure("FAILED"))
    /\ micro' = Append(Tail(micro), Settled(1))
    /\ UNCHANGED <<hosted, disconnected, state, connecting, closing, client, transport, calls,
                   broker>>

-----------------------------------------------------------------------------
(* KafkaJS connect() and disconnect().                                       *)

Connect ==
    /\ state = "INIT"
    /\ UNCHANGED <<hosted, disconnected, closing, transport, calls, broker>>
    /\ \/ /\ hosted /\ client.state = "READY"
          /\ state' = "CONNECTED" /\ connecting' = "resolved" /\ ready' = "ok"
          /\ UNCHANGED <<client, requests, micro>>
       \/ /\ hosted /\ client.state # "READY"
          /\ state' = "DISCONNECTED" /\ connecting' = "rejected"
          /\ UNCHANGED <<client, ready, requests, micro>>
       \/ /\ ~ hosted
          /\ state' = "CONNECTING" /\ connecting' = "pending"
          /\ requests' = Made(<<ListTopics>>, 0)
          /\ \/ /\ client' = NewHandle
                /\ micro' = Append(micro, Job("metadata", NewHandle.gen))
             \/ /\ micro' = Append(micro, Job("nativeFailed", 0))
                /\ UNCHANGED client
          /\ UNCHANGED ready

\* Client.disconnect() tears the handle down while there is one.
OwnsHandle == ~ hosted /\ Open

\* AdminClient.disconnect(): a hosted admin leaves the handle to its host.
ClientDisconnect(after) ==
    /\ disconnected' = TRUE
    /\ IF OwnsHandle
       THEN /\ Teardown
            /\ micro' = micro \o SettledJobs(Orphans) \o after
       ELSE /\ micro' = micro \o after
            /\ UNCHANGED <<client, requests, registered, guards, native, events>>

Disconnect ==
    /\ state \in {"CONNECTING", "CONNECTED"}
    /\ state' = "DISCONNECTING" /\ closing' = "pending"
    /\ ClientDisconnect(<<Job("closed", 0)>>)
    /\ UNCHANGED <<hosted, ready, connecting, calls, batch, broker>>

Disconnected(job) ==
    /\ job.do = "closed"
    /\ state' = "DISCONNECTED"
    /\ closing' = "resolved"
    /\ micro' = Tail(micro)
    /\ UNCHANGED <<hosted, client, ready, disconnected, connecting, requests, calls, transport,
                   broker>>

\* The continuation of connect(), or its catch block.
ConnectDone ==
    /\ UNCHANGED <<hosted, ready, closing, calls, batch, broker>>
    /\ IF Rejected(requests[1])
       THEN /\ state' = "DISCONNECTED" /\ connecting' = "rejected"
            /\ disconnected' = TRUE
            /\ IF Open THEN /\ Teardown
                            /\ micro' = Tail(micro) \o SettledJobs(Orphans)
                       ELSE /\ micro' = Tail(micro)
                            /\ UNCHANGED <<client, requests, registered, guards, native, events>>
       ELSE /\ state' = "CONNECTED" /\ connecting' = "resolved"
            /\ micro' = Tail(micro)
            /\ UNCHANGED <<disconnected, client, requests, registered, guards, native, events>>

\* The host of a hosted admin.
HostConnect ==
    /\ hosted /\ client.state \in {"INIT", "CLOSED"} /\ client.gen < MaxHandles
    /\ client' = [gen |-> client.gen + 1, state |-> "READY"]
    /\ UNCHANGED <<admin, transport, requests, calls, micro, broker>>

HostDisconnect ==
    /\ hosted /\ Open
    /\ Teardown
    /\ micro' = micro \o SettledJobs(Orphans)
    /\ UNCHANGED <<admin, calls, batch, broker>>

-----------------------------------------------------------------------------
(* Calls.                                                                    *)

\* #requireConnected(), then the first batch.
Call(method, args) ==
    /\ state = "CONNECTED"
    /\ Len(calls) < MaxCalls
    /\ args # <<>> \/ method \notin NeedsName
    /\ LET first == Batches(method, args, <<>>)[1]
           id == Len(calls) + 1
       IN  /\ calls' = Append(calls, [method |-> method, args |-> args, found |-> <<>>, stage |-> 1,
                                      ids |-> NextCorrelationId .. NextCorrelationId + Len(first) - 1,
                                      result |-> "none"])
           /\ requests' = requests \o Made(first, id)
           /\ micro' = micro \o (IF first = <<>> THEN <<Job("empty", id)>> ELSE Asked(first))
    /\ UNCHANGED <<admin, client, transport, broker>>

\* brk_admin_request() refuses an empty list, and the values librdkafka does.
TopicList == {"CREATE_TOPICS", "DELETE_TOPICS", "CREATE_PARTITIONS"}
GroupList == {"DESCRIBE_GROUPS", "DELETE_GROUPS"}
PartitionList == {"DELETE_RECORDS", "DESCRIBE_TOPICS", "LIST_OFFSETS"}
Validated == {"CREATE_TOPICS", "CREATE_PARTITIONS"}
Refusals(r) ==
    IF r.names = <<>> /\ r.op \in TopicList \cup GroupList \cup PartitionList THEN {"DECODE"}
    ELSE IF r.op \in Validated THEN {"", "BAD_ARGS"}
    ELSE {""}

\* _adminRequest() throws, or the shim's code does.
AdminRequest(r) == IF disconnected \/ ~ Open THEN {"STATE"} ELSE Refusals(r)

\* The microtask of request() behind readyPromise.
Submit(job) ==
    /\ job.do = "request"
    /\ UNCHANGED <<admin, client, calls, events, batch, broker>>
    /\ LET id == job.id
           r == requests[id]
       IN  \/ /\ r.op = "METADATA"
              /\ micro' = Append(Tail(micro), [Job("query", id) EXCEPT !.hops = client.gen])
              /\ UNCHANGED <<registered, guards, requests, native>>
           \/ /\ r.op # "METADATA"
              /\ \E code \in AdminRequest(r) \ {""} :
                    requests' = Answered({id}, Failure(code))
              /\ micro' = Append(Tail(micro), Settled(id))
              /\ UNCHANGED <<registered, guards, native>>
           \/ /\ r.op # "METADATA" /\ "" \in AdminRequest(r)
              /\ registered' = registered \cup {id}
              /\ guards' = guards \cup {id}
              /\ native' = native \cup {id}
              /\ micro' = Tail(micro)
              /\ UNCHANGED requests

\* The microtask of getMetadata() or queryWatermarkOffsets(): hops is the
\* handle they saw.
Query(job) ==
    /\ job.do = "query"
    /\ LET r == requests[job.id]
           all == Result([name \in Reported(r.op, r.names) |-> "ok"])
       IN  \E answer \in IF Open /\ client.gen = job.hops THEN {all, Failure("FAILED")}
                         ELSE {Failure("STATE")} :
              requests' = Answered({job.id}, answer)
    /\ micro' = Append(Tail(micro), Settled(job.id))
    /\ UNCHANGED <<admin, client, calls, transport, broker>>

\* The outcome of a batch: "none" while the call waits.
Answers(call) == {requests[id] : id \in call.ids}
AllIn(call) == \A r \in Answers(call) : r.answer # NoAnswer
AnyRejected(call) == \E r \in Answers(call) : r.answer # NoAnswer /\ Rejected(r)

\* createTopics() waits for all its topics; the others are Promise.all().
WaitsForNone == {}
WaitsForAll == {"createTopics"}
Outcome(call) ==
    IF AnyRejected(call) /\ (AllIn(call) \/ call.method \notin WaitsForAll) THEN "rejected"
    ELSE IF ~ AllIn(call) THEN "none"
    ELSE IF call.method = "createTopics" /\ \E r \in Answers(call) : Exists(r.answer)
         THEN "false"
    ELSE "resolved"

\* The names the first batch found, for the second one.
FoundBy(call) == IF call.ids = {} THEN <<>> ELSE Found(requests[CHOOSE id \in call.ids : TRUE])

Collect(call) ==
    LET c == calls[call]
        outcome == Outcome(c)
        next == Batches(c.method, c.args, FoundBy(c))
        rest == next[c.stage + 1]
    IN  IF outcome = "resolved" /\ c.stage < Len(next)
        THEN /\ calls' = [calls EXCEPT ![call].stage = c.stage + 1, ![call].found = FoundBy(c),
                 ![call].ids = NextCorrelationId .. NextCorrelationId + Len(rest) - 1]
             /\ requests' = requests \o Made(rest, call)
             /\ micro' = Tail(micro) \o
                         (IF rest = <<>> THEN <<Job("empty", call)>> ELSE Asked(rest))
        ELSE /\ calls' = [calls EXCEPT ![call].result = outcome]
             /\ micro' = Tail(micro)
             /\ UNCHANGED requests

\* A request's promise reaches the call.
Settle(job) ==
    /\ job.do = "settled"
    /\ \/ /\ job.hops > 0
          /\ micro' = Append(Tail(micro), [job EXCEPT !.hops = @ - 1])
          /\ UNCHANGED <<admin, client, requests, calls, transport, broker>>
       \/ /\ job.hops = 0 /\ requests[job.id].call = 0
          /\ ConnectDone
       \/ /\ job.hops = 0 /\ requests[job.id].call # 0
          /\ IF calls[requests[job.id].call].result = "none"
             THEN Collect(requests[job.id].call)
             ELSE /\ micro' = Tail(micro)
                  /\ UNCHANGED <<calls, requests>>
          /\ UNCHANGED <<admin, client, transport, broker>>

\* A batch without requests.
SettleEmpty(job) ==
    /\ job.do = "empty"
    /\ Collect(job.id)
    /\ UNCHANGED <<admin, client, transport, broker>>

Microtask ==
    /\ micro # <<>> /\ batch = <<>>
    /\ LET job == Head(micro)
       IN  \/ FirstMetadata(job) \/ NativeFailed(job) \/ Disconnected(job)
           \/ Submit(job) \/ Query(job) \/ Settle(job) \/ SettleEmpty(job)

-----------------------------------------------------------------------------
(* librdkafka and the poll.                                                  *)

Writes == {"CREATE_TOPICS", "DELETE_TOPICS", "CREATE_PARTITIONS", "DELETE_GROUPS",
           "DELETE_RECORDS"}
\* What the broker may say of a name.
Codes(op, name) ==
    IF op = "CREATE_TOPICS" THEN IF name \in existing THEN {"exists"} ELSE {"ok", "failed"}
    ELSE IF op = "LIST_GROUPS" THEN {"ok"}
    ELSE IF op = "LIST_OFFSETS" \/ name \in existing THEN {"ok", "failed"}
    ELSE {"failed"}
Applied(op, names) ==
    IF op = "CREATE_TOPICS" THEN existing \cup names
    ELSE IF op \in {"DELETE_TOPICS", "DELETE_GROUPS"} THEN existing \ names
    ELSE existing

\* The broker carries the request out, whether or not its answer arrives.
Execute(id) ==
    /\ id \in native
    /\ native' = native \ {id}
    /\ \E items \in [Reported(requests[id].op, requests[id].names) -> {"ok", "exists", "failed"}] :
          /\ \A name \in DOMAIN items : items[name] \in Codes(requests[id].op, name)
          /\ LET okay == {name \in DOMAIN items : items[name] = "ok"}
             IN  /\ existing' = Applied(requests[id].op, okay)
                 /\ done' = IF requests[id].op \in Writes
                            THEN done \cup ({id} \X okay) ELSE done
          /\ \E answer \in {Result(items), Failure("FAILED")} :
                events' = Append(events, [id |-> id, answer |-> answer])
    /\ UNCHANGED <<admin, client, registered, guards, requests, calls, batch, micro>>

\* pump(): the events of one round.
Pump ==
    /\ Open /\ micro = <<>> /\ batch = <<>> /\ events # <<>>
    /\ batch' = events
    /\ events' = <<>>
    /\ UNCHANGED <<admin, client, registered, guards, requests, calls, native, micro, broker>>

\* dispatchEvent(): an answer nobody waits for is dropped.
DispatchEvent ==
    /\ batch # <<>>
    /\ batch' = Tail(batch)
    /\ LET event == Head(batch)
       IN  IF event.id \in registered
           THEN /\ registered' = registered \ {event.id}
                /\ guards' = guards \ {event.id}
                /\ requests' = Answered({event.id}, event.answer)
                /\ micro' = Append(micro, Settled(event.id))
           ELSE UNCHANGED <<registered, guards, requests, micro>>
    /\ UNCHANGED <<admin, client, calls, native, events, broker>>

\* The guard timer: the only answer if the event is missing.
ExpiredAnswered(id) == id \notin registered
Expired(id) == id \in registered
GuardFires(id) ==
    /\ id \in guards /\ micro = <<>> /\ batch = <<>>
    /\ guards' = guards \ {id}
    /\ IF Expired(id)
       THEN /\ registered' = registered \ {id}
            /\ requests' = Answered({id}, Failure("TIMED_OUT"))
            /\ micro' = Append(micro, Settled(id))
       ELSE UNCHANGED <<registered, requests, micro>>
    /\ UNCHANGED <<admin, client, calls, native, events, batch, broker>>

-----------------------------------------------------------------------------
Init ==
    /\ hosted \in BOOLEAN
    /\ client = IF hosted THEN [gen |-> 1, state |-> "READY"] ELSE [gen |-> 0, state |-> "INIT"]
    /\ ready = "pending" /\ disconnected = FALSE
    /\ state = "INIT" /\ connecting = "none" /\ closing = "none"
    /\ registered = {} /\ guards = {} /\ requests = <<>> /\ calls = <<>>
    /\ native = {} /\ events = <<>> /\ batch = <<>> /\ micro = <<>>
    /\ existing \in SUBSET Names
    /\ done = {}

Next ==
    \/ Connect \/ Disconnect \/ HostConnect \/ HostDisconnect
    \/ \E method \in Methods, args \in Arguments : Call(method, args)
    \/ Microtask
    \/ \E id \in native : Execute(id)
    \/ Pump \/ DispatchEvent
    \/ \E id \in guards : GuardFires(id)

\* Microtasks always run; the loop polls while the handle is open; timers fire.
Fairness ==
    /\ WF_vars(Microtask) /\ WF_vars(Pump) /\ WF_vars(DispatchEvent)
    /\ WF_vars(\E id \in guards : GuardFires(id))

Spec == Init /\ [][Next]_vars
FairSpec == Spec /\ Fairness

-----------------------------------------------------------------------------
Ids == DOMAIN requests

\* The variables hold values of these shapes.
TypeOK ==
    /\ hosted \in BOOLEAN /\ disconnected \in BOOLEAN
    /\ client \in [gen : 0 .. MaxHandles, state : {"INIT", "CONNECTING", "READY", "CLOSED"}]
    /\ ready \in {"pending", "ok", "failed"}
    /\ state \in {"INIT", "CONNECTING", "CONNECTED", "DISCONNECTING", "DISCONNECTED"}
    /\ connecting \in {"none", "pending", "resolved", "rejected"}
    /\ closing \in {"none", "pending", "resolved"}
    /\ registered \subseteq Ids /\ guards \subseteq Ids /\ native \subseteq Ids
    /\ \A id \in Ids : requests[id].call \in 0 .. Len(calls)
    /\ \A c \in DOMAIN calls : calls[c].result \in {"none", "resolved", "rejected", "false"}
    /\ existing \subseteq Names /\ done \subseteq Ids \X Names

InMicro(id) == \E j \in DOMAIN micro : micro[j].id = id /\ micro[j].do \in {"request", "query", "settled"}
Arriving(id) == id \in native \/ \E q \in {events, batch} : \E j \in DOMAIN q : q[j].id = id

\* A request of a call that has no answer yet is on its way to one: it is in
\* the microtask queue, or it is registered, has its guard armed, and the open
\* handle still owes its result; and a guard is armed for no other request.
\* (request(), _registerAdminResult(), teardown(), dispatchEvent().)
NothingForgotten ==
    /\ guards = registered
    /\ \A id \in Ids : requests[id].answer = NoAnswer /\ requests[id].call # 0 =>
           InMicro(id) \/ (id \in registered /\ Open /\ Arriving(id))

\* What a call tells the user is what the broker did: a resolved write was
\* carried out for each of its names, createTopics() answers false when the
\* others existed, and it answers only when none of its topics is under way.
ResultsTrue ==
    \A c \in DOMAIN calls :
        LET call == calls[c]
            Did(name) == \E id \in call.ids : <<id, name>> \in done
            Existed(name) == \E id \in call.ids : requests[id].names = <<name>> /\ Exists(requests[id].answer)
        IN  /\ call.result = "resolved"
                /\ call.method \in {"createTopics", "deleteTopics", "deleteGroups", "deleteTopicRecords"}
                => \A name \in ToSet(call.args) : Did(name)
            /\ call.result = "false" => /\ \A name \in ToSet(call.args) : Did(name) \/ Existed(name)
                                        /\ \E name \in ToSet(call.args) : Existed(name)
            /\ call.result # "none" /\ call.method = "createTopics" =>
                   \A id \in call.ids : requests[id].answer # NoAnswer

\* A disconnected standalone admin, and one whose connect() failed, leaves no
\* handle open.  (Admin.connect()'s catch block, Admin.disconnect().)
DisconnectedIsClosed == state = "DISCONNECTED" /\ ~ hosted => ~ Open

\* Nothing is left behind, then: no request without an answer to come, no handle.
NothingLeft == NothingForgotten /\ DisconnectedIsClosed

\* Every call and every disconnect() settles, even if librdkafka never answers.
Settles ==
    /\ \A c \in 1 .. MaxCalls : (c \in DOMAIN calls) ~> (c \in DOMAIN calls /\ calls[c].result # "none")
    /\ (closing = "pending") ~> (closing = "resolved")

\* admin.ts says of connect(): "this call resolves when ready / rejects with the
\* exact connect error".
ConnectSettles == (connecting = "pending") ~> (connecting # "pending")
=============================================================================

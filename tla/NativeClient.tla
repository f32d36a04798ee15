---------------------------- MODULE NativeClient ----------------------------
(***************************************************************************)
(* What crosses the FFI between a consumer's core/native-client.ts and the *)
(* C shim, in the formats of core/batch-decoder.ts: lists of names (1),    *)
(* lists of topic-partitions both ways (2), batches of messages (4) and    *)
(* frames of events (5). Topics cross to JS as ids that C hands out and JS *)
(* looks up and caches; JS writes with one BufWriter, call after call; C   *)
(* writes into buffers that JS owns, enlarges and uses again.              *)
(*                                                                         *)
(* A call runs to its end before anything else does: the handle is used by *)
(* the JS thread (js.consume.prefetch is off; ShimConsumer has the         *)
(* prefetch thread, and the order of records and events). librdkafka may   *)
(* be handed and may answer any list of a small set: what it makes of it   *)
(* is not modelled. A buffer is a sequence of fields: a number is one, and *)
(* text is as many as it is long.                                          *)
(***************************************************************************)
EXTENDS Integers, FiniteSets, SequencesExt

CONSTANTS
  Topics, Partitions,
  NameSize,       \* the length of each topic's name
  MaxMetadata,    \* MAX_I16
  WriterInitial,  \* the capacity of a new tplWriter
  ScratchInitial, NameInitial, EventInitial,   \* scratchBuf, nameBuf, eventBuf
  ConsumeInitial, ConsumeMin, \* CONSUME_BUF_INITIAL, CONSUME_BUF_MIN
  ConsumeLimit,   \* js.consume.buffer.bytes
  MaxMsgs,        \* CONSUME_BATCH_MAX
  Lists,          \* lists of topic-partitions the application may hand over
  Subscriptions,  \* lists of topics it may subscribe to
  Traffic,        \* what librdkafka may bring: messages, and events
  MaxHeld,        \* bound: messages the application keeps
  None            \* null

Absent == -1      \* no leader epoch, no length
OffsetInvalid == -1001
TP == Topics \X Partitions

ASSUME NativeAssumption ==
  /\ NameSize \in [Topics -> Nat \ {0}]
  /\ {MaxMetadata, WriterInitial, ScratchInitial, NameInitial, EventInitial, ConsumeInitial,
      ConsumeMin, ConsumeLimit, MaxMsgs} \subseteq Nat \ {0}
  /\ MaxHeld \in Nat
  /\ Subscriptions \subseteq Seq(Topics) \ {<<>>}
  /\ \A list \in Lists : \A i \in DOMAIN list :
       /\ list[i].topic \in Topics /\ list[i].partition \in Partitions
       /\ list[i].offset \in Nat \cup {None} /\ list[i].epoch \in Nat \cup {None}
       /\ list[i].metadata = None \/ list[i].metadata \in Seq(Nat)
  /\ \A t \in Traffic :
       /\ \A i \in DOMAIN t.messages : t.messages[i].topic \in Topics
       /\ \A i \in DOMAIN t.events : t.events[i] \in Lists \cup {None}

VARIABLES
  state,      \* stateValue; "OPEN" is CONNECTING or READY, which no call tells apart
  tplWriter,  \* tplWriter: its buffer and position
  names,      \* topics.names: what each id seen is the name of (topics.ids is its inverse)
  cap,        \* the lengths of scratchBuf, nameBuf and eventBuf
  consumeBuf, \* consumeBuf: which buffer, and its length
  buffers,    \* what has been written into the buffers of batches
  held,       \* the messages the application keeps: views of a buffer
  interned,   \* h->topics: position is id + 1
  required,   \* h->last_required
  storeTpl,   \* the topic-partition of h->store_tpl
  stash,      \* the stash: frames, and what they are of
  coming,     \* librdkafka: messages fetched and events raised
  outcome     \* of the last call

inBufs == <<cap, consumeBuf, buffers, held>>
js == <<state, tplWriter, names, inBufs>>
shim == <<interned, required, storeTpl, stash>>
vars == <<js, shim, coming, outcome>>

Larger(a, b) == IF a > b THEN a ELSE b
Smaller(a, b) == IF a < b THEN a ELSE b
\* The sum of the first n sizes.
Sum(sizes, n) ==
  LET sum[i \in 0 .. n] == IF i = 0 THEN 0 ELSE sum[i - 1] + sizes[i] IN sum[n]
Upto(n) == [i \in 1 .. n |-> i]
TopicsOf(list) == [i \in DOMAIN list |-> list[i].topic]

\* What became of a call: what was meant to cross, and what arrived.
Outcome(meant, arrived) == IF arrived = meant THEN "agreed" ELSE "misread"

NewWriter == [buf |-> [i \in 1 .. WriterInitial |-> 0], pos |-> 0]
BufferIds == 1 .. (MaxHeld + 2)

Init ==
  /\ state = "INIT" /\ tplWriter = NewWriter /\ names = <<>>
  /\ cap = [scratch |-> ScratchInitial, name |-> NameInitial, event |-> EventInitial]
  /\ consumeBuf = [id |-> 1, cap |-> Smaller(ConsumeInitial, ConsumeLimit)]
  /\ buffers = [b \in BufferIds |-> <<>>] /\ held = {}
  /\ interned = <<>> /\ required = 0 /\ storeTpl = None /\ stash = <<>>
  /\ coming \in Traffic
  /\ outcome = "agreed"

Open == state = "OPEN"

-----------------------------------------------------------------------------
(* From JavaScript to C. *)

\* BufWriter: fields are written at the position, over what earlier calls left, into a
\* buffer that is doubled as long as they do not fit. unsafeBytes() ends at the position.
Doubled(size, need) ==
  CHOOSE c \in {size * 2^k : k \in 0 .. need} : c >= need /\ (c = size \/ c < 2 * need)
Ensure(w, n) ==
  [w EXCEPT !.buf = @ \o [i \in 1 .. Doubled(Len(@), w.pos + n) - Len(@) |-> 0]]
Put(w, fields) ==
  LET e == Ensure(w, Len(fields))
      end == w.pos + Len(fields)
  IN  [buf |-> SubSeq(e.buf, 1, w.pos) \o fields \o SubSeq(e.buf, end + 1, Len(e.buf)), pos |-> end]
Reset(w) == [w EXCEPT !.pos = 0]
UnsafeBytes(w) == SubSeq(w.buf, 1, w.pos)

\* stringU16(), and utf8(): the text of a name.
NameBytes(topic) == [i \in 1 .. NameSize[topic] |-> topic]
StringU16(topic) == <<NameSize[topic]>> \o NameBytes(topic)
Text(fields) == IF \A i \in DOMAIN fields : fields[i] = fields[1] THEN fields[1] ELSE None

\* encodeTpl(): no caller names a topic by its id. The length of the metadata is
\* negative if there is none, and 0 if it is empty; metadata that is too long throws,
\* with the entry half written.
EntryFields(entry) ==
  <<-1>> \o StringU16(entry.topic) \o
  <<entry.partition, IF entry.offset = None THEN OffsetInvalid ELSE entry.offset,
    IF entry.epoch = None THEN Absent ELSE entry.epoch>> \o
  (IF entry.metadata = None THEN <<Absent>>
   ELSE IF Len(entry.metadata) > MaxMetadata THEN <<>>
   ELSE <<Len(entry.metadata)>> \o entry.metadata)
TooLong(entry) == entry.metadata # None /\ Len(entry.metadata) > MaxMetadata
Throws(list) == \E i \in DOMAIN list : TooLong(list[i])
EncodeTpl(w, list) ==
  LET written == IF Throws(list) THEN SubSeq(list, 1, SelectInSeq(list, TooLong)) ELSE list
  IN  Put(w, <<Len(list)>> \o FlattenSeq([i \in DOMAIN written |-> EntryFields(written[i])]))

\* brk_intern_topic(), for each topic of a list.
InternTwice(table, topics) == table \o topics
Intern(table, topics) ==
  FoldLeft(LAMBDA t, topic : IF topic \in ToSet(t) THEN t ELSE Append(t, topic), table, topics)
IdOf(topic, table) == SelectInSeq(table, LAMBDA t : t = topic) - 1

\* brk_tpl_decode() makes a list of librdkafka's out of the fields.
ReadText(bytes, at, length) ==
  IF length < 0 THEN None ELSE SubSeq(bytes, at + 1, at + length)
DecodeEntry(bytes, r) ==
  LET name == r.pos + 2
      rest == name + bytes[name]
      length == bytes[rest + 4]
  IN  [pos |-> rest + 4 + Larger(length, 0),
       out |-> Append(r.out,
         [topic |-> Text(SubSeq(bytes, name + 1, rest)), partition |-> bytes[rest + 1],
          offset |-> bytes[rest + 2], epoch |-> Larger(bytes[rest + 3], Absent),
          metadata |-> ReadText(bytes, rest + 4, length)])]
TplDecode(bytes) ==
  FoldLeft(LAMBDA r, i : DecodeEntry(bytes, r), [pos |-> 1, out |-> <<>>], Upto(bytes[1])).out

\* What the application means by a list: no offset is the invalid one, no epoch -1.
Meaning(list) ==
  [i \in DOMAIN list |->
     [list[i] EXCEPT !.offset = IF @ = None THEN OffsetInvalid ELSE @,
                     !.epoch = IF @ = None THEN Absent ELSE @]]

\* encodeTplPayload(), and the call that takes the list.
Encoded(list) == EncodeTpl(Reset(tplWriter), list)
Taken(writer) == TplDecode(UnsafeBytes(writer))
Hand(list) ==
  LET writer == Encoded(list)
      taken == Taken(writer)
  IN  /\ tplWriter' = writer
      /\ IF Throws(list) THEN outcome' = "thrown" /\ UNCHANGED interned
         ELSE interned' = Intern(interned, TopicsOf(taken)) /\ outcome' = Outcome(Meaning(list), taken)

-----------------------------------------------------------------------------
(* From C to JavaScript. *)

\* brk_tpl_encode(): the name crosses as its id, and has no length.
Sized(text) == IF text = None THEN <<Absent>> ELSE <<Len(text)>> \o text
EntryBytes(entry, table) ==
  <<IdOf(entry.topic, table), 0, entry.partition, entry.offset, entry.epoch>>
    \o Sized(entry.metadata)
EntrySize(entry) == 5 + Len(Sized(entry.metadata))
TplBytes(list, table) ==
  <<Len(list)>> \o FlattenSeq([i \in DOMAIN list |-> EntryBytes(list[i], table)])

\* How many of the leading sizes fit.
Fitting(sizes, room) ==
  CHOOSE n \in 0 .. Len(sizes) :
    Sum(sizes, n) <= room /\ (n < Len(sizes) => Sum(sizes, n + 1) > room)

\* withGrowingBuffer(): a call that reports too small a buffer is made once more.
\* `needs` is what brk_last_required_size() says by then.
Grown(size, needs) == Larger(needs, 2 * size)
AfterCall(size, total, needs) == IF total <= size THEN size ELSE Grown(size, needs)

\* A BufReader, with what JS learns as it reads. topicName() has C write a name to the
\* front of a buffer: were it the one being read, it would replace what is there.
Reader(bytes, needs) ==
  [bytes |-> bytes, pos |-> 0, names |-> names, nameCap |-> cap.name, required |-> needs,
   last |-> Absent, out |-> <<>>]
SharedNameBuffer == "scratch"
NameBuffer == "name"
NameWritten(bytes, topic, slot) ==
  IF slot # NameBuffer THEN bytes
  ELSE [i \in DOMAIN bytes |-> IF i <= NameSize[topic] THEN topic ELSE bytes[i]]

\* TopicNameTable.resolve(): what is not cached is asked of C.
Resolve(r, id, table, slot) ==
  IF id \in DOMAIN r.names THEN r
  ELSE LET topic == table[id + 1]
           size == NameSize[topic]
       IN  [r EXCEPT
              !.names = (id :> topic) @@ @,
              !.nameCap = AfterCall(@, size, size),
              !.required = IF size > r.nameCap THEN size ELSE @,
              !.bytes = NameWritten(@, topic, slot)]

\* decodeTpl() reads an id, resolves it, and reads the rest of the entry.
ReadEntry(before, table, slot) ==
  LET id == before.bytes[before.pos + 1]
      r == Resolve(before, id, table, slot)
      length == r.bytes[r.pos + 6]
  IN  [r EXCEPT
         !.pos = @ + 6 + Larger(length, 0),
         !.out = Append(@, [topic |-> r.names[id], partition |-> r.bytes[r.pos + 3],
                            offset |-> r.bytes[r.pos + 4], epoch |-> r.bytes[r.pos + 5],
                            metadata |-> ReadText(r.bytes, r.pos + 6, length)])]
DecodeTpl(r, table, slot) ==
  FoldLeft(LAMBDA s, i : ReadEntry(s, table, slot), [r EXCEPT !.pos = @ + 1, !.out = <<>>],
           Upto(r.bytes[r.pos + 1]))

Learned(r, slot, size) ==
  /\ names' = r.names /\ required' = r.required
  /\ cap' = [cap EXCEPT ![slot] = size, !.name = r.nameCap]

-----------------------------------------------------------------------------
(* The life of the client. *)

Connect == /\ state = "INIT" /\ state' = "OPEN" /\ outcome' = "agreed"
           /\ UNCHANGED <<tplWriter, names, inBufs, shim, coming>>

\* The handle is destroyed with all it holds; messages handed out stay.
Disconnect ==
  /\ state # "CLOSED" /\ state' = "CLOSED" /\ names' = <<>>
  /\ interned' = <<>> /\ required' = 0 /\ storeTpl' = None /\ stash' = <<>>
  /\ outcome' = "agreed"
  /\ UNCHANGED <<tplWriter, inBufs, coming>>

-----------------------------------------------------------------------------
(* Calls that hand something to librdkafka. *)

\* subscribe(): a list of names, each with its length; listWriter is reused as tplWriter
\* is, and what earlier calls left in it is left out.
EncodeStringList(w, topics) ==
  Put(w, <<Len(topics)>> \o FlattenSeq([i \in DOMAIN topics |-> StringU16(topics[i])]))
ReadNames(bytes) ==
  FoldLeft(LAMBDA r, i : LET n == bytes[r.pos + 1]
                         IN  [pos |-> r.pos + 1 + n,
                              out |-> Append(r.out, Text(SubSeq(bytes, r.pos + 2, r.pos + 1 + n)))],
           [pos |-> 1, out |-> <<>>], Upto(bytes[1])).out
Subscribe ==
  /\ Open
  /\ \E topics \in Subscriptions :
       LET taken == ReadNames(UnsafeBytes(EncodeStringList(NewWriter, topics)))
       IN  interned' = Intern(interned, taken) /\ outcome' = Outcome(topics, taken)
  /\ UNCHANGED <<js, required, storeTpl, stash, coming>>

\* assign() of a list, which may be empty, commit() of one and pauseResume(). Without a
\* list, assign() and commit() hand over no buffer.
HandList ==
  /\ Open
  /\ \E list \in Lists \cup {<<>>} : Hand(list)
  /\ UNCHANGED <<state, names, inBufs, required, storeTpl, stash, coming>>

\* brk_offset_store_single(): the list made for the last such call is used again for
\* the same topic-partition.
SingleTpl(tp) == IF storeTpl = tp THEN storeTpl ELSE tp
IsSingle(list) ==
  /\ Len(list) = 1 /\ list[1].topic \in {names[i] : i \in DOMAIN names}
  /\ list[1].offset # None /\ list[1].metadata = None
StoreSingle(entry) ==
  LET id == CHOOSE i \in DOMAIN names : names[i] = entry.topic
      tp == SingleTpl(<<interned[id + 1], entry.partition>>)
  IN  /\ storeTpl' = tp /\ UNCHANGED <<interned, tplWriter>>
      /\ outcome' = Outcome(Meaning(<<entry>>),
           <<[topic |-> tp[1], partition |-> tp[2], offset |-> entry.offset, metadata |-> None,
              epoch |-> IF entry.epoch = None THEN Absent ELSE entry.epoch]>>)

\* offsetsStore()
OffsetsStore ==
  /\ Open
  /\ \E list \in Lists :
       IF IsSingle(list) THEN StoreSingle(list[1]) ELSE Hand(list) /\ UNCHANGED storeTpl
  /\ UNCHANGED <<state, names, inBufs, required, stash, coming>>

-----------------------------------------------------------------------------
(* Calls that bring a list back, through scratchBuf. *)

\* brk_tpl_encode() gives up at the entry that does not fit, having interned its
\* topic, and does not say what it needs.
Fetch(list, table) ==
  LET sizes == [i \in DOMAIN list |-> EntrySize(list[i])]
      size == AfterCall(cap.scratch, 1 + Sum(sizes, Len(list)), required)
      written == Fitting(sizes, size - 1)
      seen == Intern(table, TopicsOf(SubSeq(list, 1, Smaller(written + 1, Len(list)))))
      r == DecodeTpl(Reader(TplBytes(list, seen), required), seen, "scratch")
  IN  /\ interned' = seen
      /\ IF written = Len(list)
         THEN Learned(r, "scratch", size) /\ outcome' = Outcome(list, r.out)
         ELSE /\ cap' = [cap EXCEPT !.scratch = size] /\ UNCHANGED <<names, required>>
              /\ outcome' = "too small"
      /\ UNCHANGED <<state, consumeBuf, buffers, held, storeTpl, stash, coming>>

\* assignment(), position(), and committed() of the assignment.
Assignment ==
  /\ Open /\ UNCHANGED tplWriter
  /\ \E list \in Lists \cup {<<>>} : ~ Throws(list) /\ Fetch(Meaning(list), interned)

\* committed() and offsetsForTimes() of a list: the answer is of the same partitions.
Places(list) == [i \in DOMAIN list |-> <<list[i].topic, list[i].partition>>]
Committed ==
  /\ Open
  /\ \E asked \in Lists, list \in Lists :
       /\ ~ Throws(asked) /\ ~ Throws(list) /\ Places(list) = Places(asked)
       /\ tplWriter' = Encoded(asked)
       /\ Fetch(Meaning(list), Intern(interned, TopicsOf(Taken(tplWriter'))))

\* brk_subscription() neither interns the names nor says what it needs.
Subscription ==
  /\ Open
  /\ \E topics \in Subscriptions \cup {<<>>} :
       LET bytes == UnsafeBytes(EncodeStringList(NewWriter, topics))
           size == AfterCall(cap.scratch, Len(bytes), required)
       IN  /\ cap' = [cap EXCEPT !.scratch = size]
           /\ outcome' = IF Len(bytes) <= size THEN Outcome(topics, ReadNames(bytes))
                         ELSE "too small"
  /\ UNCHANGED <<state, tplWriter, names, consumeBuf, buffers, held, shim, coming>>

-----------------------------------------------------------------------------
(* Messages and events. *)

\* A buffer that nobody looks at.
KeptBuffer(used) == consumeBuf.id
FreshBuffer(used) == CHOOSE b \in BufferIds : b \notin used

\* serialize_msg() and serialize_eof(): a message may have no value.
MessageBytes(message, table) ==
  <<IdOf(message.topic, table), message.partition, message.offset>> \o Sized(message.value)
MessageSize(message) == 3 + Len(Sized(message.value))

\* decodeMessageBatchWithSize(): the fields, a view of the value, and the name of the
\* topic, which is not looked up if the message before has the same.
ReadMessage(r, table, message) ==
  LET id == r.bytes[r.pos + 1]
      length == r.bytes[r.pos + 4]
      read == IF id = r.last THEN r ELSE Resolve(r, id, table, "consume")
  IN  [read EXCEPT
         !.pos = @ + 4 + Larger(length, 0), !.last = id,
         !.out = Append(@, [topic |-> read.names[id], partition |-> r.bytes[r.pos + 2],
                            offset |-> r.bytes[r.pos + 3],
                            value |-> ReadText(r.bytes, r.pos + 4, length)])]
View(buffer, sizes, i, message) ==
  [buffer |-> buffer, from |-> Sum(sizes, i - 1) + 5, to |-> Sum(sizes, i),
   value |-> message.value]

\* consumeBatch(): a record that does not fit is held over for the next call, which
\* is made at once if it was the first. The buffer of a batch is not used again.
ConsumeBatch ==
  /\ Open /\ coming.messages # <<>>
  /\ LET queue == coming.messages
         sizes == [i \in DOMAIN queue |-> MessageSize(queue[i])]
         short == sizes[1] > consumeBuf.cap
         needs == IF short THEN sizes[1] ELSE required
         room == AfterCall(consumeBuf.cap, sizes[1], needs)
         viewed == {h.buffer : h \in held}
         buffer == IF short THEN FreshBuffer(viewed \cup {consumeBuf.id}) ELSE consumeBuf.id
         count == Smaller(Fitting(sizes, room), MaxMsgs)
         batch == SubSeq(queue, 1, count)
         tried == SubSeq(queue, 1, Smaller(Smaller(count + 1, MaxMsgs), Len(queue)))
         seen == Intern(interned, TopicsOf(tried))
         bytes == FlattenSeq([i \in DOMAIN batch |-> MessageBytes(batch[i], seen)])
         r == FoldLeft(LAMBDA s, m : ReadMessage(s, seen, m), Reader(bytes, needs), batch)
         valued == {i \in DOMAIN batch : batch[i].value # None}
     IN  \E keep \in SUBSET valued :
           /\ held' = held \cup {View(buffer, sizes, i, batch[i]) : i \in keep}
           /\ Cardinality(held') <= MaxHeld
           /\ buffers' = [b \in BufferIds |-> IF b = buffer THEN bytes
                                              ELSE IF b \in viewed THEN buffers[b] ELSE <<>>]
           /\ consumeBuf' = [id |-> FreshBuffer({h.buffer : h \in held'} \cup {buffer}),
                             cap |-> Smaller(Larger(ConsumeMin, 2 * r.pos), ConsumeLimit)]
           /\ interned' = seen /\ names' = r.names /\ required' = r.required
           /\ cap' = [cap EXCEPT !.name = r.nameCap]
           /\ coming' = [coming EXCEPT !.messages = SubSeq(@, count + 1, Len(@))]
           /\ outcome' = IF batch = <<>> THEN "lost"
                         ELSE Outcome([i \in DOMAIN batch |-> batch[i]], r.out)
  /\ UNCHANGED <<state, tplWriter, storeTpl, stash>>

\* The application lets go of a message.
Release == /\ \E h \in held : held' = held \ {h}
           /\ outcome' = "agreed"
           /\ UNCHANGED <<state, tplWriter, names, cap, consumeBuf, buffers, shim, coming>>

\* consumeBatch() meets an event, which it stashes as a frame: a REBALANCE or an
\* OFFSET_COMMIT with its list, or another without.
ListEvent == 1
OtherEvent == 2
Frame(list, table) ==
  IF list = None THEN <<OtherEvent, 1, 0>>
  ELSE <<ListEvent, 1 + Len(TplBytes(list, table)), 0>> \o TplBytes(list, table)
ConsumeEvent ==
  /\ Open /\ coming.events # <<>>
  /\ LET given == Head(coming.events)
         list == IF given = None THEN None ELSE Meaning(given)
         seen == IF given = None THEN interned ELSE Intern(interned, TopicsOf(given))
     IN  /\ interned' = seen
         /\ stash' = Append(stash, [bytes |-> Frame(list, seen), list |-> list])
  /\ coming' = [coming EXCEPT !.events = Tail(@)] /\ outcome' = "agreed"
  /\ UNCHANGED <<js, required, storeTpl>>

\* decodeEventFrames(), decodeEventPayload()
ReadFrame(r, table) ==
  LET end == r.pos + 2 + r.bytes[r.pos + 2]
      tpl == DecodeTpl([r EXCEPT !.pos = @ + 3], table, "event")
  IN  IF r.bytes[r.pos + 1] = ListEvent
      THEN [tpl EXCEPT !.pos = end, !.out = Append(r.out, tpl.out)]
      ELSE [r EXCEPT !.pos = end, !.out = Append(@, None)]

\* pollEvents(): as many frames as fit; what the first one needs is known.
PollEvents ==
  /\ Open /\ stash # <<>>
  /\ LET sizes == [i \in DOMAIN stash |-> Len(stash[i].bytes)]
         needs == IF sizes[1] > cap.event THEN sizes[1] ELSE required
         size == AfterCall(cap.event, sizes[1], needs)
         count == Fitting(sizes, size)
         frames == SubSeq(stash, 1, count)
         bytes == FlattenSeq([i \in DOMAIN frames |-> frames[i].bytes])
         r == FoldLeft(LAMBDA s, i : ReadFrame(s, interned), Reader(bytes, needs), Upto(count))
     IN  /\ Learned(r, "event", size)
         /\ outcome' = IF count = 0 THEN "lost"
                       ELSE Outcome([i \in DOMAIN frames |-> frames[i].list], r.out)
         /\ stash' = SubSeq(stash, count + 1, Len(stash))
  /\ UNCHANGED <<state, tplWriter, consumeBuf, buffers, held, interned, storeTpl, coming>>

-----------------------------------------------------------------------------
Next ==
  \/ Connect \/ Disconnect
  \/ Subscribe \/ HandList \/ OffsetsStore
  \/ Assignment \/ Committed \/ Subscription
  \/ ConsumeBatch \/ Release \/ ConsumeEvent \/ PollEvents

Spec == Init /\ [][Next]_vars

-----------------------------------------------------------------------------
TypeOK ==
  /\ state \in {"INIT", "OPEN", "CLOSED"}
  /\ tplWriter.pos \in 0 .. Len(tplWriter.buf)
  /\ DOMAIN names \subseteq 0 .. Cardinality(Topics) - 1
  /\ \A id \in DOMAIN names : names[id] \in Topics
  /\ \A slot \in DOMAIN cap : cap[slot] \in Nat \ {0}
  /\ consumeBuf.id \in BufferIds /\ consumeBuf.cap \in Nat \ {0}
  /\ \A h \in held : h.buffer \in BufferIds /\ h.from <= h.to + 1
  /\ IsInjective(interned) /\ ToSet(interned) \subseteq Topics
  /\ required \in Nat /\ storeTpl \in TP \cup {None}
  /\ outcome \in {"agreed", "misread", "lost", "thrown", "too small"}

\* What JS caches of the topic ids is what C handed out.
IdsAgree == \A id \in DOMAIN names : id < Len(interned) /\ names[id] = interned[id + 1]

\* However ids are cached, buffers enlarged, a writer reused after a call that threw and
\* lists of one entry cut short, what the application asks reaches librdkafka as asked,
\* and what librdkafka answers reaches the application: names, offsets, epochs, and
\* metadata empty or absent; a batch and an event always fit the buffer enlarged for
\* them.  (encodeTpl(), decodeTpl(), decodeMessageBatchWithSize(), decodeEventFrames(),
\* TopicNameTable, BufWriter, offsetsStore(), topicName(), withGrowingBuffer().)
CallsAgree == IdsAgree /\ outcome \notin {"misread", "lost"}

\* A message the application keeps reads as it did, whatever is consumed later and
\* after disconnect(): views "stay valid for as long as the app keeps them".
\* (consumeBatch().)
HandedOutIntact ==
  \A h \in held :
    h.to <= Len(buffers[h.buffer]) /\ SubSeq(buffers[h.buffer], h.from, h.to) = h.value

\* "For BRK_ERR_BUFFER_TOO_SMALL, the required size is available via
\* brk_last_required_size()" (bunrdkafka.h:62): the call made again has room.
GrownBufferFits == outcome # "too small"

=============================================================================

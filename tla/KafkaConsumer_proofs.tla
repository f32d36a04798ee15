------------------------ MODULE KafkaConsumer_proofs ------------------------
(***************************************************************************)
(* Proofs about KafkaConsumer, for every cap, batch size, threshold of the *)
(* buffer's compaction and number of records, requests, sessions and       *)
(* rebalances: the flag that keeps the rounds consuming never lags behind  *)
(* librdkafka's assignment; every message reaches the user once and in     *)
(* order; and every request is answered at most once and none forgotten.   *)
(* The loops of #servePending() and disconnect() are recursive functions   *)
(* over the requests: that their states exist, and what each one keeps, is *)
(* shown by the least index at which it would fail.                        *)
(***************************************************************************)
EXTENDS KafkaConsumer, Integers, SequenceTheorems, WellFoundedInduction, TLAPS

(***************************************************************************)
(* The buffer: Fifo is a queue, for every threshold of the compaction,     *)
(* every length and every element.  The array with its head index holds    *)
(* what a sequence would, in the same order, whenever it is cut.           *)
(***************************************************************************)

(* A queue of elements of S: what lies behind the head was pushed.         *)
Fifos(S) ==
  {f \in [items : Seq(S \union {Blank}), head : Nat] :
     f.head <= Len(f.items) /\ \A i \in f.head + 1 .. Len(f.items) : f.items[i] \in S}

LEMMA FifoShape ==
  ASSUME NEW S, NEW f \in Fifos(S)
  PROVE  /\ f.items \in Seq(S \union {Blank}) /\ f.head \in Nat /\ f.head <= Len(f.items)
         /\ Len(f.items) \in Nat
         /\ \A i \in f.head + 1 .. Len(f.items) : f.items[i] \in S
  BY LenProperties DEF Fifos

(* What a queue holds is a sequence of elements: its i-th is the slot i    *)
(* places behind the head.                                                 *)
LEMMA ContentsAre ==
  ASSUME NEW S, NEW f \in Fifos(S)
  PROVE  /\ Contents(f) \in Seq(S)
         /\ Len(Contents(f)) = Len(f.items) - f.head
         /\ \A i \in 1 .. Len(f.items) - f.head : Contents(f)[i] = f.items[f.head + i]
  <1>1. /\ f.head \in Nat /\ Len(f.items) \in Nat /\ f.head <= Len(f.items)
        /\ \A i \in f.head + 1 .. Len(f.items) : f.items[i] \in S
    BY FifoShape
  <1>a. f.head + 1 \in Int /\ Len(f.items) \in Int
    BY <1>1
  <1>2. /\ SubSeq(f.items, f.head + 1, Len(f.items)) \in Seq(S)
        /\ Len(SubSeq(f.items, f.head + 1, Len(f.items)))
             = IF f.head + 1 <= Len(f.items) THEN Len(f.items) - (f.head + 1) + 1 ELSE 0
        /\ \A i \in 1 .. Len(f.items) - (f.head + 1) + 1 :
             SubSeq(f.items, f.head + 1, Len(f.items))[i] = f.items[f.head + 1 + i - 1]
    <2> DEFINE first == f.head + 1
               last == Len(f.items)
    <2>1. first \in Int /\ last \in Int /\ \A i \in first .. last : f.items[i] \in S
      BY <1>1, <1>a
    <2> HIDE DEF first, last
    <2>2. /\ SubSeq(f.items, first, last) \in Seq(S)
          /\ Len(SubSeq(f.items, first, last)) = IF first <= last THEN last - first + 1 ELSE 0
          /\ \A i \in 1 .. last - first + 1 :
               SubSeq(f.items, first, last)[i] = f.items[first + i - 1]
      BY ONLY <2>1, SubSeqProperties
    <2> QED BY <2>2 DEF first, last
  <1>3. Len(f.items) - (f.head + 1) + 1 = Len(f.items) - f.head
    BY <1>1
  <1>4. \A i \in 1 .. Len(f.items) - f.head : f.head + 1 + i - 1 = f.head + i
    BY <1>1
  <1>5. (IF f.head + 1 <= Len(f.items) THEN Len(f.items) - (f.head + 1) + 1 ELSE 0)
          = Len(f.items) - f.head
    BY <1>1
  <1> QED BY <1>2, <1>3, <1>4, <1>5 DEF Contents

(* push() adds at the end.                                                 *)
THEOREM PushAppends ==
  ASSUME NEW S, NEW f \in Fifos(S), NEW item \in S
  PROVE  Push(f, item) \in Fifos(S) /\ Contents(Push(f, item)) = Append(Contents(f), item)
  <1> DEFINE g == Push(f, item)
             n == Len(f.items) - f.head
  <1>1. /\ f.items \in Seq(S \union {Blank}) /\ f.head \in Nat /\ f.head <= Len(f.items)
        /\ Len(f.items) \in Nat
        /\ \A i \in f.head + 1 .. Len(f.items) : f.items[i] \in S
    BY FifoShape
  <1>2. g.items = Append(f.items, item) /\ g.head = f.head
    BY DEF Push, Fifos
  <1>3. /\ g.items \in Seq(S \union {Blank})
        /\ Len(g.items) = Len(f.items) + 1
        /\ \A i \in 1 .. Len(f.items) : g.items[i] = f.items[i]
        /\ g.items[Len(f.items) + 1] = item
    BY <1>1, <1>2, AppendProperties
  <1>4. g \in Fifos(S)
    <2>1. g \in [items : Seq(S \union {Blank}), head : Nat]
      BY <1>1, <1>2, <1>3 DEF Push, Fifos
    <2>2. \A i \in g.head + 1 .. Len(g.items) : g.items[i] \in S
      BY <1>1, <1>2, <1>3
    <2>3. g.head <= Len(g.items)
      BY <1>1, <1>2, <1>3
    <2> QED BY <2>1, <2>2, <2>3 DEF Fifos
  <1> HIDE DEF g
  <1>5. /\ Contents(f) \in Seq(S) /\ Len(Contents(f)) = n
        /\ \A i \in 1 .. n : Contents(f)[i] = f.items[f.head + i]
    BY ContentsAre
  <1>6. /\ Contents(g) \in Seq(S) /\ Len(Contents(g)) = n + 1
        /\ \A i \in 1 .. n + 1 : Contents(g)[i] = g.items[f.head + i]
    <2>1. Len(g.items) - g.head = n + 1
      BY <1>1, <1>2, <1>3
    <2>2. /\ Contents(g) \in Seq(S) /\ Len(Contents(g)) = Len(g.items) - g.head
          /\ \A i \in 1 .. Len(g.items) - g.head : Contents(g)[i] = g.items[g.head + i]
      BY <1>4, ContentsAre
    <2> QED BY <1>2, <2>1, <2>2
  <1>7. /\ Append(Contents(f), item) \in Seq(S)
        /\ Len(Append(Contents(f), item)) = n + 1
        /\ \A i \in 1 .. n : Append(Contents(f), item)[i] = Contents(f)[i]
        /\ Append(Contents(f), item)[n + 1] = item
    BY <1>5, AppendProperties
  <1>8. ASSUME NEW i \in 1 .. n + 1 PROVE Contents(g)[i] = Append(Contents(f), item)[i]
    <2>1. CASE i = n + 1
      <3>1. f.head + (n + 1) = Len(f.items) + 1
        BY <1>1
      <3>2. Contents(g)[i] = g.items[f.head + (n + 1)]
        BY <1>6, <2>1
      <3> QED BY <1>3, <1>7, <2>1, <3>1, <3>2
    <2>2. CASE i \in 1 .. n
      <3>1. f.head + i \in 1 .. Len(f.items)
        BY <1>1, <2>2
      <3>2. Contents(g)[i] = f.items[f.head + i]
        BY <1>3, <1>6, <3>1
      <3>3. Append(Contents(f), item)[i] = f.items[f.head + i]
        BY <1>5, <1>7, <2>2
      <3> QED BY <3>2, <3>3
    <2>3. i = n + 1 \/ i \in 1 .. n
      <3>1. n \in Int
        BY <1>1
      <3> HIDE DEF n
      <3> QED BY <3>1
    <2> QED BY <2>1, <2>2, <2>3
  <1>9. Contents(g) = Append(Contents(f), item)
    BY <1>6, <1>7, <1>8, SeqEqual
  <1> QED BY <1>4, <1>9 DEF g

(* The compaction changes the array, never what the queue holds.           *)
LEMMA CompactKeepsContents ==
  ASSUME NEW S, NEW f \in Fifos(S)
  PROVE  Compact(f) \in Fifos(S) /\ Contents(Compact(f)) = Contents(f)
  <1>1. /\ f.items \in Seq(S \union {Blank}) /\ f.head \in Nat /\ f.head <= Len(f.items)
        /\ Len(f.items) \in Nat
    BY FifoShape
  <1>2. Contents(f) \in Seq(S) /\ Len(Contents(f)) = Len(f.items) - f.head
    BY ContentsAre
  <1>3. CASE f.head = Len(f.items)
    <2>1. Compact(f) = [items |-> <<>>, head |-> 0]
      BY <1>3 DEF Compact, EmptyFifo
    <2>2. <<>> \in Seq(S) /\ <<>> \in Seq(S \union {Blank}) /\ Len(<<>>) = 0
      BY EmptySeq
    <2>3. Compact(f) \in Fifos(S)
      BY <2>1, <2>2 DEF Fifos
    <2>4. Contents(Compact(f)) \in Seq(S) /\ Len(Contents(Compact(f))) = 0
      BY <2>1, <2>2, <2>3, ContentsAre
    <2>5. Len(Contents(f)) = 0
      BY <1>1, <1>2, <1>3
    <2>6. Contents(Compact(f)) = Contents(f)
      BY <1>2, <2>4, <2>5, SeqEqual
    <2> QED BY <2>3, <2>6
  <1>4. CASE f.head # Len(f.items) /\ f.head >= CompactAt /\ f.head * 2 >= Len(f.items)
    <2> DEFINE c == Contents(f)
    <2>1. Compact(f) = [items |-> c, head |-> 0]
      BY <1>4 DEF Compact, Contents
    <2>2. Contents(f) \in Seq(S \union {Blank})
      BY <1>2, SeqMonotonic
    <2>3. Len(Contents(f)) \in Nat /\ \A i \in 1 .. Len(Contents(f)) : Contents(f)[i] \in S
      BY <1>2, LenProperties, ElementOfSeq
    <2>4. Compact(f) \in Fifos(S)
      BY <2>1, <2>2, <2>3 DEF Fifos
    <2>5. SubSeq(c, 1, Len(c)) = c
      BY <1>2, SubSeqFull
    <2> HIDE DEF c
    <2>6. Contents(Compact(f)) = SubSeq(c, 0 + 1, Len(c))
      BY <2>1 DEF Contents
    <2>7. Contents(Compact(f)) = c
      BY <2>5, <2>6
    <2> QED BY <2>4, <2>7 DEF c
  <1>5. CASE ~ (f.head = Len(f.items)) /\ ~ (f.head >= CompactAt /\ f.head * 2 >= Len(f.items))
    BY <1>5 DEF Compact
  <1> QED BY <1>3, <1>4, <1>5

(* Taking the slots up to end leaves the others.                           *)
LEMMA AdvanceLeavesRest ==
  ASSUME NEW S, NEW f \in Fifos(S), NEW end \in f.head .. Len(f.items)
  PROVE  /\ Advance(f, end) \in Fifos(S)
         /\ Contents(Advance(f, end)) = SubSeq(f.items, end + 1, Len(f.items))
  <1> DEFINE items == [i \in 1 .. Len(f.items) |->
                         IF i > f.head /\ i <= end THEN Blank ELSE f.items[i]]
             g == [items |-> items, head |-> end]
             rest == SubSeq(f.items, end + 1, Len(f.items))
  <1>1. /\ f.items \in Seq(S \union {Blank}) /\ f.head \in Nat /\ f.head <= Len(f.items)
        /\ Len(f.items) \in Nat
        /\ \A i \in f.head + 1 .. Len(f.items) : f.items[i] \in S
    BY FifoShape
  <1>2. \A i \in 1 .. Len(f.items) : items[i] \in S \union {Blank}
    BY <1>1, ElementOfSeq
  <1>3. items \in Seq(S \union {Blank}) /\ Len(items) = Len(f.items)
    <2>1. items \in [1 .. Len(f.items) -> S \union {Blank}] /\ DOMAIN items = 1 .. Len(f.items)
      BY <1>2
    <2>2. items \in Seq(S \union {Blank})
      BY <1>1, <2>1, SeqDef
    <2>3. Len(items) \in Nat /\ DOMAIN items = 1 .. Len(items)
      BY <2>2, LenProperties
    <2>4. Len(items) = Len(f.items)
      BY <1>1, <2>1, <2>3
    <2> QED BY <2>2, <2>4
  <1>4. end \in Nat /\ end <= Len(f.items) /\ f.head <= end
    BY <1>1
  <1>5. \A i \in end + 1 .. Len(f.items) : items[i] = f.items[i] /\ f.items[i] \in S
    BY <1>1, <1>4
  <1>6. g \in Fifos(S)
    <2> HIDE DEF items
    <2>1. g.items = items /\ g.head = end /\ g \in [items : Seq(S \union {Blank}), head : Nat]
      BY <1>3, <1>4
    <2> QED BY <1>3, <1>4, <1>5, <2>1 DEF Fifos
  <1>7. Advance(f, end) = Compact(g)
    BY DEF Advance
  <1>8. Advance(f, end) \in Fifos(S) /\ Contents(Advance(f, end)) = Contents(g)
    BY <1>6, <1>7, CompactKeepsContents
  <1> DEFINE n == Len(f.items) - end
  <1>9. n \in Nat
    BY <1>1, <1>4
  <1>10. /\ Contents(g) \in Seq(S) /\ Len(Contents(g)) = n
         /\ \A i \in 1 .. n : Contents(g)[i] = items[end + i]
    <2> HIDE DEF items
    <2>1. g.items = items /\ g.head = end
      OBVIOUS
    <2>2. /\ Contents(g) \in Seq(S) /\ Len(Contents(g)) = Len(g.items) - g.head
          /\ \A i \in 1 .. Len(g.items) - g.head : Contents(g)[i] = g.items[g.head + i]
      BY <1>6, ContentsAre
    <2> QED BY <1>3, <2>1, <2>2
  <1>11. /\ rest \in Seq(S) /\ Len(rest) = n
         /\ \A i \in 1 .. n : rest[i] = f.items[end + i]
    <2>1. /\ end + 1 \in Int /\ Len(f.items) \in Int
          /\ \A i \in end + 1 .. Len(f.items) : f.items[i] \in S
      BY <1>1, <1>4, <1>5
    <2>2. /\ rest \in Seq(S)
          /\ Len(rest) = IF end + 1 <= Len(f.items) THEN Len(f.items) - (end + 1) + 1 ELSE 0
          /\ \A i \in 1 .. Len(f.items) - (end + 1) + 1 : rest[i] = f.items[end + 1 + i - 1]
      BY <2>1, SubSeqProperties
    <2>3. /\ Len(f.items) - (end + 1) + 1 = n
          /\ (IF end + 1 <= Len(f.items) THEN Len(f.items) - (end + 1) + 1 ELSE 0) = n
          /\ \A i \in 1 .. n : end + 1 + i - 1 = end + i
      BY <1>1, <1>4
    <2> QED BY <2>2, <2>3
  <1>12. \A i \in 1 .. n : items[end + i] = f.items[end + i]
    <2> SUFFICES ASSUME NEW i \in 1 .. n PROVE items[end + i] = f.items[end + i]
      OBVIOUS
    <2>1. end + i \in end + 1 .. Len(f.items)
      BY <1>1, <1>4
    <2> QED BY <1>5, <2>1
  <1> HIDE DEF items, g, rest, n
  <1>13. Contents(g) = rest
    BY <1>10, <1>11, <1>12, SeqEqual
  <1> QED BY <1>8, <1>13 DEF rest

(* take(n) hands out the first n elements, or all if there are fewer, and  *)
(* leaves the rest: nothing is lost, repeated or moved, however often the  *)
(* array is cut.                                                           *)
THEOREM TakeSplits ==
  ASSUME NEW S, NEW f \in Fifos(S), NEW n \in Nat
  PROVE  /\ Take(f, n) \in Fifos(S)
         /\ TakenOf(f, n) \o Contents(Take(f, n)) = Contents(f)
         /\ Len(TakenOf(f, n)) = IF n < Length(f) THEN n ELSE Length(f)
  <1>1. /\ f.items \in Seq(S \union {Blank}) /\ f.head \in Nat /\ f.head <= Len(f.items)
        /\ Len(f.items) \in Nat
        /\ \A i \in f.head + 1 .. Len(f.items) : f.items[i] \in S
    BY FifoShape
  <1> DEFINE end == End(f, n)
  <1>2. end \in f.head .. Len(f.items)
    BY <1>1 DEF End
  <1>3. end - f.head = IF n < Length(f) THEN n ELSE Length(f)
    BY <1>1 DEF End, Length
  <1> HIDE DEF end
  <1>4. /\ Take(f, n) \in Fifos(S)
        /\ Contents(Take(f, n)) = SubSeq(f.items, end + 1, Len(f.items))
    BY <1>2, AdvanceLeavesRest DEF Take, end
  <1>5. SubSeq(f.items, f.head + 1, end) \o SubSeq(f.items, end + 1, Len(f.items))
          = SubSeq(f.items, f.head + 1, Len(f.items))
    <2> DEFINE first == f.head + 1
               last == Len(f.items)
    <2>1. first \in 1 .. last + 1 /\ end \in first - 1 .. last /\ last \in end .. last
      BY <1>1, <1>2
    <2>2. f.items \in Seq(S \union {Blank}) /\ last = Len(f.items)
      BY <1>1
    <2> HIDE DEF first, last
    <2>3. SubSeq(f.items, first, end) \o SubSeq(f.items, end + 1, last)
            = SubSeq(f.items, first, last)
      BY <2>1, <2>2, ConcatAdjacentSubSeq
    <2> QED BY <2>3 DEF first, last
  <1>6. Len(SubSeq(f.items, f.head + 1, end)) = end - f.head
    <2>1. /\ f.head + 1 \in Int /\ end \in Int
          /\ \A i \in f.head + 1 .. end : f.items[i] \in S
      BY <1>1, <1>2
    <2>2. Len(SubSeq(f.items, f.head + 1, end))
            = IF f.head + 1 <= end THEN end - (f.head + 1) + 1 ELSE 0
      BY <2>1, SubSeqProperties
    <2> QED BY <1>1, <1>2, <2>2
  <1>7. TakenOf(f, n) = SubSeq(f.items, f.head + 1, end)
    BY DEF TakenOf, end
  <1> QED BY <1>3, <1>4, <1>5, <1>6, <1>7 DEF Contents

(* shift() of a queue that is not empty takes its first element.           *)
THEOREM ShiftTakesFirst ==
  ASSUME NEW S, NEW f \in Fifos(S), Length(f) > 0
  PROVE  Shift(f) \in Fifos(S) /\ First(f) = Head(Contents(f))
                               /\ Contents(Shift(f)) = Tail(Contents(f))
  <1>1. /\ f.items \in Seq(S \union {Blank}) /\ f.head \in Nat /\ f.head <= Len(f.items)
        /\ Len(f.items) \in Nat /\ Len(f.items) - f.head > 0
    BY FifoShape DEF Length
  <1>2. f.head + 1 \in f.head .. Len(f.items)
    BY <1>1
  <1>3. /\ Shift(f) \in Fifos(S)
        /\ Contents(Shift(f)) = SubSeq(f.items, f.head + 1 + 1, Len(f.items))
    BY <1>2, AdvanceLeavesRest DEF Shift
  <1>4. /\ Head(SubSeq(f.items, f.head + 1, Len(f.items))) = f.items[f.head + 1]
        /\ Tail(SubSeq(f.items, f.head + 1, Len(f.items)))
             = SubSeq(f.items, f.head + 1 + 1, Len(f.items))
    <2>1. f.head + 1 \in 1 .. Len(f.items) /\ Len(f.items) \in f.head + 1 .. Len(f.items)
      BY <1>1
    <2>2. f.items \in Seq(S \union {Blank})
      BY <1>1
    <2> QED BY <2>1, <2>2, HeadTailOfSubSeq
  <1> QED BY <1>3, <1>4 DEF Contents, First

-----------------------------------------------------------------------------
(* What was taken is blank: the array keeps no element alive that the user *)
(* has.                                                                    *)
Tidy(f) == \A i \in 1 .. f.head : f.items[i] = Blank

LEMMA PushKeepsTidy ==
  ASSUME NEW S, NEW f \in Fifos(S), NEW item \in S, Tidy(f)
  PROVE  Tidy(Push(f, item))
  <1> DEFINE g == Push(f, item)
  <1>1. /\ f.items \in Seq(S \union {Blank}) /\ f.head \in Nat /\ f.head <= Len(f.items)
        /\ Len(f.items) \in Nat
    BY FifoShape
  <1>2. g.items = Append(f.items, item) /\ g.head = f.head
    BY DEF Push, Fifos
  <1>3. \A i \in 1 .. Len(f.items) : g.items[i] = f.items[i]
    BY <1>1, <1>2, AppendProperties
  <1> HIDE DEF g
  <1>4. Tidy(g)
    BY <1>1, <1>2, <1>3 DEF Tidy
  <1> QED BY <1>4 DEF g

LEMMA AdvanceKeepsTidy ==
  ASSUME NEW S, NEW f \in Fifos(S), NEW end \in f.head .. Len(f.items), Tidy(f)
  PROVE  Tidy(Advance(f, end))
  <1> DEFINE items == [i \in 1 .. Len(f.items) |->
                         IF i > f.head /\ i <= end THEN Blank ELSE f.items[i]]
             g == [items |-> items, head |-> end]
  <1>1. f.head \in Nat /\ Len(f.items) \in Nat /\ end \in Nat /\ end <= Len(f.items)
    <2>1. f.head \in Nat /\ Len(f.items) \in Nat
      BY FifoShape
    <2> QED BY <2>1
  <1>2. ASSUME NEW i \in 1 .. end PROVE items[i] = Blank
    <2>1. i \in 1 .. Len(f.items) /\ (i > f.head \/ i \in 1 .. f.head)
      BY <1>1
    <2>2. CASE i > f.head
      BY <2>1, <2>2
    <2>3. CASE i \in 1 .. f.head
      BY <2>1, <2>3 DEF Tidy
    <2> QED BY <2>1, <2>2, <2>3
  <1> HIDE DEF items
  <1>3. g.items = items /\ g.head = end
    OBVIOUS
  <1> HIDE DEF g
  <1>4. Tidy(g)
    BY <1>2, <1>3 DEF Tidy
  <1>5. Tidy(Compact(g))
    <2>1. CASE Compact(g) = g
      BY <1>4, <2>1
    <2>2. CASE Compact(g).head = 0
      BY <2>2 DEF Tidy
    <2>3. Compact(g) = g \/ Compact(g).head = 0
      BY DEF Compact, EmptyFifo
    <2> QED BY <2>1, <2>2, <2>3
  <1>6. Advance(f, end) = Compact(g)
    BY DEF Advance, g, items
  <1> QED BY <1>5, <1>6

LEMMA TakeKeepsTidy ==
  ASSUME NEW S, NEW f \in Fifos(S), Tidy(f)
  PROVE  /\ \A n \in Nat : Tidy(Take(f, n))
         /\ Length(f) > 0 => Tidy(Shift(f))
  <1>1. f.head \in Nat /\ Len(f.items) \in Nat /\ f.head <= Len(f.items)
    BY FifoShape
  <1>2. ASSUME NEW n \in Nat PROVE Tidy(Take(f, n))
    <2>1. End(f, n) \in f.head .. Len(f.items)
      BY <1>1 DEF End
    <2> QED BY <2>1, AdvanceKeepsTidy DEF Take
  <1>3. ASSUME Length(f) > 0 PROVE Tidy(Shift(f))
    <2>1. f.head + 1 \in f.head .. Len(f.items)
      BY <1>1, <1>3 DEF Length
    <2> QED BY <2>1, AdvanceKeepsTidy DEF Shift
  <1> QED BY <1>2, <1>3

(* ... and nothing else is.                                                *)
LEMMA BlanksAre ==
  ASSUME NEW S, NEW f \in Fifos(S), Tidy(f), Blank \notin S
  PROVE  /\ f.head \in 0 .. Len(f.items)
         /\ \A i \in DOMAIN f.items : (f.items[i] = Blank) = (i <= f.head)
  <1>1. /\ f.items \in Seq(S \union {Blank}) /\ f.head \in Nat /\ f.head <= Len(f.items)
        /\ Len(f.items) \in Nat
        /\ \A i \in f.head + 1 .. Len(f.items) : f.items[i] \in S
    BY FifoShape
  <1>2. DOMAIN f.items = 1 .. Len(f.items)
    BY <1>1, LenProperties
  <1>3. ASSUME NEW i \in 1 .. Len(f.items) PROVE (f.items[i] = Blank) = (i <= f.head)
    <2>1. CASE i <= f.head
      <3>1. i \in 1 .. f.head
        BY <1>1, <2>1
      <3> QED BY <2>1, <3>1 DEF Tidy
    <2>2. CASE ~ (i <= f.head)
      <3>1. i \in f.head + 1 .. Len(f.items)
        BY <1>1, <2>2
      <3>2. f.items[i] # Blank
        BY <1>1, <3>1
      <3> QED BY <2>2, <3>2
    <2> QED BY <2>1, <2>2
  <1> QED BY <1>1, <1>2, <1>3

(***************************************************************************)
(* The consumer.                                                           *)
(***************************************************************************)

(* The copy says what librdkafka says, unless the last refresh threw: a    *)
(* subscription that ended while the assignment goes on does not matter.   *)
CopyKnows == /\ assigned => hasAssignment \/ misread
             /\ hasAssignment => assigned

LEMMA SetAssignmentKnows ==
  ASSUME CopyKnows, NEW now \in BOOLEAN, SetAssignment(now)
  PROVE  CopyKnows'
  BY DEF CopyKnows, SetAssignment, RefreshedAssignment

LEMMA NextCopyKnows == CopyKnows /\ [Next]_vars => CopyKnows'
  <1> SUFFICES ASSUME CopyKnows, [Next]_vars PROVE CopyKnows'
    OBVIOUS
  <1>1. CASE \E n \in Sizes : Consume(n)
    BY <1>1 DEF Consume, kafka, subscription, CopyKnows
  <1>2. CASE Flow \/ Subscribe \/ Unsubscribe \/ Commit \/ Ask \/ Connect
    BY <1>2 DEF Flow, Subscribe, Unsubscribe, Commit, Ask, Connect, kafka, subscription, CopyKnows
  <1>3. CASE Disconnect
    BY <1>3 DEF Disconnect, CopyKnows
  <1>4. CASE \E now \in BOOLEAN : Assign(now)
    BY <1>4, SetAssignmentKnows DEF Assign
  <1>5. CASE OnEventFrame
    <2>1. CASE UNCHANGED <<assigned, hasAssignment, misread>>
      BY <2>1 DEF CopyKnows
    <2>2. CASE \E now \in BOOLEAN : SetAssignment(now)
      BY <2>2, SetAssignmentKnows
    <2> QED BY <1>5, <2>1, <2>2 DEF OnEventFrame
  <1>6. CASE Pump \/ PollTick \/ Route \/ Serve \/ DrainFlowing
    BY <1>6 DEF Pump, PollTick, Route, Serve, DrainFlowing, kafka, subscription, CopyKnows
  <1>7. CASE ListenerReturns \/ ListenerThrows \/ RunMicrotask \/ RunCatch
    BY <1>7 DEF ListenerReturns, ListenerThrows, RunMicrotask, RunCatch, kafka, subscription,
                CopyKnows
  <1>8. CASE Arrive \/ Rebalance \/ Deadline
    BY <1>8 DEF Arrive, Rebalance, Deadline, kafka, subscription, CopyKnows
  <1>9. CASE UNCHANGED vars
    BY <1>9 DEF vars, kafka, subscription, CopyKnows
  <1> QED
    BY <1>1, <1>2, <1>3, <1>4, <1>5, <1>6, <1>7, <1>8, <1>9 DEF Next, User, Round, Kafka

(* While librdkafka has an assignment, pollTick() consumes, unless         *)
(* assignment() threw when the consumer last asked for it: a rebalance of  *)
(* a consumer that unsubscribed, or that the user's rebalance_cb assigned  *)
(* by hand, surfaces in a later round, through any disconnect, reconnect   *)
(* or call of a listener, and a good refresh repairs a bad one.  Nor does  *)
(* the copied flag outlive the assignment.                                 *)
THEOREM AssignedIsPolled == Spec => []PollsWhatIsAssigned
  <1>1. Init => CopyKnows
    BY DEF Init, CopyKnows
  <1>2. CopyKnows => PollsWhatIsAssigned
    BY DEF CopyKnows, PollsWhatIsAssigned, Active
  <1> QED BY <1>1, <1>2, NextCopyKnows, PTL DEF Spec

-----------------------------------------------------------------------------
(* Records, and sequences of them in the order of their numbers.           *)
Records == [kind : {"msg", "eof", "err"}, no : Nat]
Msgs == {m \in Records : m.kind = "msg"}

Rises(s) == \A i, j \in DOMAIN s : i < j => s[i].no < s[j].no
Below(S, T) == \A x \in S, y \in T : x.no < y.no

LEMMA RecordsAre ==
  /\ Msgs \subseteq Records
  /\ \A m \in Records : m.no \in Nat /\ (m.kind = "msg" => m \in Msgs)
  /\ \A m \in Msgs : m.kind = "msg"
  BY DEF Records, Msgs

LEMMA EmptyFacts ==
  ToSet(<<>>) = {} /\ Rises(<<>>)
  BY DEF ToSet, Rises

LEMMA AppendSet ==
  ASSUME NEW S, NEW s \in Seq(S), NEW x \in S
  PROVE  ToSet(Append(s, x)) = ToSet(s) \cup {x}
  <1> DEFINE t == Append(s, x)
  <1>1. Len(s) \in Nat /\ DOMAIN s = 1..Len(s) /\ DOMAIN t = 1..Len(s) + 1
    OBVIOUS
  <1>2. /\ \A i \in 1..Len(s) : t[i] = s[i]
        /\ t[Len(s) + 1] = x
    OBVIOUS
  <1> HIDE DEF t
  <1>3. /\ \A i \in 1..Len(s) : i \in 1..Len(s) + 1
        /\ \A i \in 1..Len(s) + 1 : i \in 1..Len(s) \/ i = Len(s) + 1
        /\ Len(s) + 1 \in 1..Len(s) + 1
    BY <1>1
  <1>4. ToSet(t) = ToSet(s) \cup {x}
    BY <1>1, <1>2, <1>3 DEF ToSet
  <1> QED BY <1>4 DEF t

LEMMA AppendRises ==
  ASSUME NEW S, NEW s \in Seq(S), NEW x \in S, Rises(s), \A y \in ToSet(s) : y.no < x.no
  PROVE  Rises(Append(s, x))
  <1> DEFINE t == Append(s, x)
  <1>1. Len(s) \in Nat /\ DOMAIN s = 1..Len(s) /\ DOMAIN t = 1..Len(s) + 1
    OBVIOUS
  <1>2. /\ \A i \in 1..Len(s) : t[i] = s[i]
        /\ t[Len(s) + 1] = x
    OBVIOUS
  <1> HIDE DEF t
  <1>3. ASSUME NEW i \in DOMAIN t, NEW j \in DOMAIN t, i < j PROVE t[i].no < t[j].no
    <2>1. i \in 1..Len(s) /\ (j \in 1..Len(s) \/ j = Len(s) + 1)
      BY <1>1, <1>3
    <2>2. s[i] \in ToSet(s)
      BY <1>1, <2>1 DEF ToSet
    <2> QED BY <1>1, <1>2, <1>3, <2>1, <2>2 DEF Rises
  <1> QED BY <1>3 DEF Rises, t

LEMMA ConcatFacts ==
  ASSUME NEW S, NEW s \in Seq(S), NEW t \in Seq(S)
  PROVE  /\ s \o t \in Seq(S)
         /\ ToSet(s \o t) = ToSet(s) \cup ToSet(t)
         /\ Rises(s \o t) <=> Rises(s) /\ Rises(t) /\ Below(ToSet(s), ToSet(t))
  <1> DEFINE u == s \o t
  <1>1. /\ u \in Seq(S) /\ Len(u) = Len(s) + Len(t) /\ Len(s) \in Nat /\ Len(t) \in Nat
        /\ DOMAIN s = 1..Len(s) /\ DOMAIN t = 1..Len(t) /\ DOMAIN u = 1..Len(s) + Len(t)
    OBVIOUS
  <1>2. /\ \A i \in 1..Len(s) : u[i] = s[i]
        /\ \A i \in Len(s) + 1 .. Len(s) + Len(t) : u[i] = t[i - Len(s)]
    OBVIOUS
  <1>3. \A i \in 1..Len(t) : u[i + Len(s)] = t[i] /\ i + Len(s) \in 1..Len(s) + Len(t)
    BY <1>1, <1>2
  <1> HIDE DEF u
  <1>4. ToSet(u) = ToSet(s) \cup ToSet(t)
    <2>1. ASSUME NEW i \in DOMAIN u PROVE u[i] \in ToSet(s) \cup ToSet(t)
      <3>1. CASE i \in 1..Len(s)
        BY <1>1, <1>2, <3>1 DEF ToSet
      <3>2. CASE i \in Len(s) + 1 .. Len(s) + Len(t)
        <4>1. i - Len(s) \in 1..Len(t)
          BY <1>1, <3>2
        <4> QED BY <1>1, <1>2, <3>2, <4>1 DEF ToSet
      <3> QED BY <1>1, <3>1, <3>2
    <2>2. ASSUME NEW i \in DOMAIN s PROVE s[i] \in ToSet(u)
      <3>1. i \in DOMAIN u /\ u[i] = s[i]
        BY <1>1, <1>2
      <3> QED BY <3>1 DEF ToSet
    <2>3. ASSUME NEW i \in DOMAIN t PROVE t[i] \in ToSet(u)
      <3>1. i + Len(s) \in DOMAIN u /\ u[i + Len(s)] = t[i]
        BY <1>1, <1>3
      <3> QED BY <3>1 DEF ToSet
    <2> QED BY <2>1, <2>2, <2>3 DEF ToSet
  <1>5. ASSUME Rises(u) PROVE Rises(s) /\ Rises(t) /\ Below(ToSet(s), ToSet(t))
    <2>1. Rises(s)
      BY <1>1, <1>2, <1>5 DEF Rises
    <2>2. Rises(t)
      <3> SUFFICES ASSUME NEW i \in DOMAIN t, NEW j \in DOMAIN t, i < j PROVE t[i].no < t[j].no
        BY DEF Rises
      <3>1. i + Len(s) < j + Len(s)
        BY <1>1
      <3> QED BY <1>1, <1>3, <1>5, <3>1 DEF Rises
    <2>3. ASSUME NEW i \in DOMAIN s, NEW j \in DOMAIN t PROVE s[i].no < t[j].no
      <3>1. i < j + Len(s) /\ i \in DOMAIN u /\ j + Len(s) \in DOMAIN u
        BY <1>1, <1>3
      <3> QED BY <1>1, <1>2, <1>3, <1>5, <3>1 DEF Rises
    <2> QED BY <2>1, <2>2, <2>3 DEF Below, ToSet
  <1>6. ASSUME Rises(s), Rises(t), Below(ToSet(s), ToSet(t)) PROVE Rises(u)
    <2> SUFFICES ASSUME NEW i \in DOMAIN u, NEW j \in DOMAIN u, i < j PROVE u[i].no < u[j].no
      BY DEF Rises
    <2>1. CASE i \in 1..Len(s) /\ j \in 1..Len(s)
      BY <1>1, <1>2, <1>6, <2>1 DEF Rises
    <2>2. CASE i \in 1..Len(s) /\ j \in Len(s) + 1 .. Len(s) + Len(t)
      <3>1. s[i] \in ToSet(s) /\ t[j - Len(s)] \in ToSet(t)
        BY <1>1, <2>2 DEF ToSet
      <3> QED BY <1>2, <1>6, <2>2, <3>1 DEF Below
    <2>3. CASE i \in Len(s) + 1 .. Len(s) + Len(t) /\ j \in Len(s) + 1 .. Len(s) + Len(t)
      <3>1. i - Len(s) \in DOMAIN t /\ j - Len(s) \in DOMAIN t /\ i - Len(s) < j - Len(s)
        BY <1>1, <2>3
      <3> QED BY <1>2, <1>6, <2>3, <3>1 DEF Rises
    <2> QED BY <1>1, <2>1, <2>2, <2>3
  <1> QED BY <1>1, <1>4, <1>5, <1>6 DEF u

LEMMA TailFacts ==
  ASSUME NEW S, NEW s \in Seq(S), s # <<>>
  PROVE  /\ Tail(s) \in Seq(S) /\ Head(s) \in S /\ Len(s) = Len(Tail(s)) + 1
         /\ ToSet(s) = {Head(s)} \cup ToSet(Tail(s))
         /\ Rises(s) => Rises(Tail(s)) /\ Below({Head(s)}, ToSet(Tail(s)))
  <1>1. Tail(s) \in Seq(S) /\ Head(s) \in S /\ <<Head(s)>> \in Seq(S) /\ s = <<Head(s)>> \o Tail(s)
    OBVIOUS
  <1>2. ToSet(<<Head(s)>>) = {Head(s)} /\ Len(<<Head(s)>>) = 1
    BY DEF ToSet
  <1> DEFINE h == <<Head(s)>>
             t == Tail(s)
  <1>3. h \in Seq(S) /\ t \in Seq(S) /\ s = h \o t /\ ToSet(h) = {Head(s)} /\ Len(h) = 1
    BY <1>1, <1>2
  <1> HIDE DEF h, t
  <1>a. h \in Seq(S) /\ t \in Seq(S)
    BY <1>3
  <1>4. ToSet(h \o t) = ToSet(h) \cup ToSet(t)
    BY ONLY <1>a, ConcatFacts
  <1>7. Len(h \o t) = Len(h) + Len(t)
    BY ONLY <1>a
  <1>8. Rises(h \o t) <=> Rises(h) /\ Rises(t) /\ Below(ToSet(h), ToSet(t))
    BY ONLY <1>a, ConcatFacts
  <1>5. Len(t) \in Nat
    BY <1>3
  <1>6. Len(s) = Len(t) + 1
    BY ONLY <1>3, <1>5, <1>7
  <1>9. ToSet(s) = {Head(s)} \cup ToSet(t) /\ (Rises(s) => Rises(t) /\ Below({Head(s)}, ToSet(t)))
    <2>1. s = h \o t /\ ToSet(h) = {Head(s)}
      BY <1>3
    <2> QED BY ONLY <2>1, <1>4, <1>8
  <1> QED BY <1>1, <1>6, <1>9 DEF t

-----------------------------------------------------------------------------
(* Requests, the answers given to them, and the messages in these.         *)
Asks == [id : 1..MaxRequests, n : Sizes, due : BOOLEAN]
Jobs == [id : 1..MaxRequests, messages : Seq(Msgs), by : {"consume", "broker"}]

Messages(jobs) == UNION {ToSet(r.messages) : r \in ToSet(jobs)}
JobsRise(jobs) ==
  /\ \A i \in DOMAIN jobs : Rises(jobs[i].messages)
  /\ \A i, j \in DOMAIN jobs : i < j => Below(ToSet(jobs[i].messages), ToSet(jobs[j].messages))

LEMMA JobsAre ==
  /\ \A r \in Jobs : r.id \in 1..MaxRequests /\ r.messages \in Seq(Msgs)
  /\ \A a \in Asks : a.id \in 1..MaxRequests /\ a.n \in Sizes /\ a.n \in Nat /\ a.due \in BOOLEAN
  BY SizesAssumption DEF Jobs, Asks

LEMMA MessagesOf ==
  ASSUME NEW jobs \in Seq(Jobs)
  PROVE  /\ \A x \in Messages(jobs) : \E i \in 1..Len(jobs) : x \in ToSet(jobs[i].messages)
         /\ \A i \in 1..Len(jobs) : ToSet(jobs[i].messages) \subseteq Messages(jobs)
  <1>1. DOMAIN jobs = 1..Len(jobs)
    OBVIOUS
  <1>2. /\ \A r \in ToSet(jobs) : \E i \in 1..Len(jobs) : jobs[i] = r
        /\ \A i \in 1..Len(jobs) : jobs[i] \in ToSet(jobs)
    BY <1>1 DEF ToSet
  <1>3. ASSUME NEW x \in Messages(jobs)
        PROVE  \E i \in 1..Len(jobs) : x \in ToSet(jobs[i].messages)
    <2>1. PICK r \in ToSet(jobs) : x \in ToSet(r.messages)
      BY DEF Messages
    <2> QED BY <1>2, <2>1
  <1>4. ASSUME NEW i \in 1..Len(jobs) PROVE ToSet(jobs[i].messages) \subseteq Messages(jobs)
    BY <1>2 DEF Messages
  <1> QED BY <1>3, <1>4

LEMMA AppendJob ==
  ASSUME NEW jobs \in Seq(Jobs), NEW r \in Jobs
  PROVE  /\ Append(jobs, r) \in Seq(Jobs)
         /\ Messages(Append(jobs, r)) = Messages(jobs) \cup ToSet(r.messages)
         /\ JobsRise(jobs) /\ Rises(r.messages) /\ Below(Messages(jobs), ToSet(r.messages))
              => JobsRise(Append(jobs, r))
  <1> DEFINE t == Append(jobs, r)
  <1>1. /\ t \in Seq(Jobs) /\ Len(jobs) \in Nat /\ DOMAIN jobs = 1..Len(jobs)
        /\ DOMAIN t = 1..Len(jobs) + 1
        /\ \A i \in 1..Len(jobs) : t[i] = jobs[i]
        /\ t[Len(jobs) + 1] = r
    OBVIOUS
  <1>2. ToSet(t) = ToSet(jobs) \cup {r}
    <2>1. jobs \in Seq(Jobs) /\ r \in Jobs
      OBVIOUS
    <2> QED BY ONLY <2>1, AppendSet DEF t
  <1> HIDE DEF t
  <1>3. Messages(t) = Messages(jobs) \cup ToSet(r.messages)
    BY <1>2 DEF Messages
  <1>4. ASSUME JobsRise(jobs), Rises(r.messages), Below(Messages(jobs), ToSet(r.messages))
        PROVE  JobsRise(t)
    <2>1. \A i \in DOMAIN t : Rises(t[i].messages)
      BY <1>1, <1>4 DEF JobsRise
    <2>2. ASSUME NEW i \in DOMAIN t, NEW j \in DOMAIN t, i < j
          PROVE  Below(ToSet(t[i].messages), ToSet(t[j].messages))
      <3>1. i \in 1..Len(jobs) /\ (j \in 1..Len(jobs) \/ j = Len(jobs) + 1)
        BY <1>1, <2>2
      <3>2. CASE j \in 1..Len(jobs)
        BY <1>1, <1>4, <2>2, <3>1, <3>2 DEF JobsRise
      <3>3. CASE j = Len(jobs) + 1
        <4>1. jobs[i] \in ToSet(jobs)
          BY <1>1, <3>1 DEF ToSet
        <4>2. ToSet(jobs[i].messages) \subseteq Messages(jobs)
          BY <4>1 DEF Messages
        <4> QED BY <1>1, <1>4, <3>1, <3>3, <4>2 DEF Below
      <3> QED BY <3>1, <3>2, <3>3
    <2> QED BY <2>1, <2>2 DEF JobsRise
  <1> QED BY <1>1, <1>3, <1>4 DEF t

LEMMA ConcatJobs ==
  ASSUME NEW jobs \in Seq(Jobs), NEW more \in Seq(Jobs)
  PROVE  /\ jobs \o more \in Seq(Jobs)
         /\ Messages(jobs \o more) = Messages(jobs) \cup Messages(more)
         /\ JobsRise(jobs \o more)
              <=> JobsRise(jobs) /\ JobsRise(more) /\ Below(Messages(jobs), Messages(more))
  <1> DEFINE u == jobs \o more
             n == Len(jobs)
  <1>1. /\ u \in Seq(Jobs) /\ Len(jobs) \in Nat /\ Len(more) \in Nat
        /\ DOMAIN jobs = 1..Len(jobs) /\ DOMAIN more = 1..Len(more)
        /\ DOMAIN u = 1..Len(jobs) + Len(more)
        /\ \A i \in 1..Len(jobs) : u[i] = jobs[i]
        /\ \A i \in Len(jobs) + 1 .. Len(jobs) + Len(more) : u[i] = more[i - Len(jobs)]
    OBVIOUS
  <1>2. ToSet(u) = ToSet(jobs) \cup ToSet(more)
    BY ConcatFacts
  <1>3. \A i \in 1..Len(more) : /\ u[i + Len(jobs)] = more[i]
                               /\ i + Len(jobs) \in 1..Len(jobs) + Len(more)
    BY <1>1
  <1> HIDE DEF u
  <1>4. Messages(u) = Messages(jobs) \cup Messages(more)
    BY <1>2 DEF Messages
  <1>5. /\ \A x \in Messages(jobs) : \E i \in 1..Len(jobs) : x \in ToSet(jobs[i].messages)
        /\ \A i \in 1..Len(jobs) : ToSet(jobs[i].messages) \subseteq Messages(jobs)
        /\ \A x \in Messages(more) : \E i \in 1..Len(more) : x \in ToSet(more[i].messages)
        /\ \A i \in 1..Len(more) : ToSet(more[i].messages) \subseteq Messages(more)
    BY <1>1, MessagesOf
  <1>6. ASSUME JobsRise(u)
        PROVE  JobsRise(jobs) /\ JobsRise(more) /\ Below(Messages(jobs), Messages(more))
    <2>1. JobsRise(jobs)
      BY <1>1, <1>6 DEF JobsRise
    <2>2. JobsRise(more)
      <3>1. \A i \in 1..Len(more) : Rises(more[i].messages)
        BY <1>1, <1>3, <1>6 DEF JobsRise
      <3>2. ASSUME NEW i \in 1..Len(more), NEW j \in 1..Len(more), i < j
            PROVE  Below(ToSet(more[i].messages), ToSet(more[j].messages))
        <4>1. i + Len(jobs) < j + Len(jobs)
          BY <1>1, <3>2
        <4> QED BY <1>1, <1>3, <1>6, <4>1 DEF JobsRise
      <3> QED BY <1>1, <3>1, <3>2 DEF JobsRise
    <2>3. ASSUME NEW x \in Messages(jobs), NEW y \in Messages(more) PROVE x.no < y.no
      <3>1. PICK i \in 1..Len(jobs) : x \in ToSet(jobs[i].messages)
        BY <1>5
      <3>2. PICK j \in 1..Len(more) : y \in ToSet(more[j].messages)
        BY <1>5
      <3>3. i < j + Len(jobs) /\ i \in DOMAIN u /\ j + Len(jobs) \in DOMAIN u
            /\ u[i] = jobs[i] /\ u[j + Len(jobs)] = more[j]
        BY <1>1, <1>3
      <3>4. Below(ToSet(jobs[i].messages), ToSet(more[j].messages))
        BY <1>6, <3>3 DEF JobsRise
      <3> QED BY <3>1, <3>2, <3>4 DEF Below
    <2> QED BY <2>1, <2>2, <2>3 DEF Below
  <1>7. ASSUME JobsRise(jobs), JobsRise(more), Below(Messages(jobs), Messages(more))
        PROVE  JobsRise(u)
    <2>1. ASSUME NEW i \in DOMAIN u
          PROVE  \/ i \in 1..Len(jobs) /\ u[i] = jobs[i]
                 \/ i \in Len(jobs) + 1 .. Len(jobs) + Len(more) /\ i - Len(jobs) \in 1..Len(more)
                    /\ u[i] = more[i - Len(jobs)]
      <3>1. i \in 1..Len(jobs) \/ i \in Len(jobs) + 1 .. Len(jobs) + Len(more)
        BY <1>1
      <3>2. i \in Len(jobs) + 1 .. Len(jobs) + Len(more) => i - Len(jobs) \in 1..Len(more)
        BY <1>1
      <3> QED BY <1>1, <3>1, <3>2
    <2>2. \A i \in DOMAIN u : Rises(u[i].messages)
      BY <1>1, <1>7, <2>1 DEF JobsRise
    <2>3. ASSUME NEW i \in DOMAIN u, NEW j \in DOMAIN u, i < j
          PROVE  Below(ToSet(u[i].messages), ToSet(u[j].messages))
      <3>1. CASE j \in 1..Len(jobs)
        <4>1. i \in 1..Len(jobs)
          BY <1>1, <2>3, <3>1
        <4> QED BY <1>1, <1>7, <2>3, <3>1, <4>1 DEF JobsRise
      <3>2. CASE i \in 1..Len(jobs) /\ j \in Len(jobs) + 1 .. Len(jobs) + Len(more)
        <4>1. u[i] = jobs[i] /\ j - Len(jobs) \in 1..Len(more) /\ u[j] = more[j - Len(jobs)]
          BY <1>1, <2>1, <3>2
        <4> QED BY <1>5, <1>7, <3>2, <4>1 DEF Below
      <3>3. CASE /\ i \in Len(jobs) + 1 .. Len(jobs) + Len(more)
                 /\ j \in Len(jobs) + 1 .. Len(jobs) + Len(more)
        <4>1. /\ i - Len(jobs) \in 1..Len(more) /\ u[i] = more[i - Len(jobs)]
              /\ j - Len(jobs) \in 1..Len(more) /\ u[j] = more[j - Len(jobs)]
              /\ i - Len(jobs) < j - Len(jobs)
          BY <1>1, <2>3, <3>3
        <4> QED BY <1>1, <1>7, <4>1 DEF JobsRise
      <3> QED BY <2>1, <3>1, <3>2, <3>3
    <2> QED BY <2>2, <2>3 DEF JobsRise
  <1> QED BY <1>1, <1>4, <1>6, <1>7 DEF u

LEMMA TailJobs ==
  ASSUME NEW jobs \in Seq(Jobs), jobs # <<>>
  PROVE  /\ Tail(jobs) \in Seq(Jobs) /\ Head(jobs) \in Jobs
         /\ Messages(jobs) = ToSet(Head(jobs).messages) \cup Messages(Tail(jobs))
         /\ JobsRise(jobs) => /\ Rises(Head(jobs).messages) /\ JobsRise(Tail(jobs))
                              /\ Below(ToSet(Head(jobs).messages), Messages(Tail(jobs)))
  <1> DEFINE h == <<Head(jobs)>>
             t == Tail(jobs)
  <1>1. t \in Seq(Jobs) /\ Head(jobs) \in Jobs /\ h \in Seq(Jobs) /\ jobs = h \o t
    OBVIOUS
  <1>2. ToSet(h) = {Head(jobs)} /\ DOMAIN h = {1} /\ h[1] = Head(jobs)
    BY DEF ToSet
  <1> HIDE DEF h, t
  <1>3. Messages(h) = ToSet(Head(jobs).messages)
    BY <1>2 DEF Messages
  <1>4. /\ Messages(h \o t) = Messages(h) \cup Messages(t)
        /\ JobsRise(h \o t) => JobsRise(h) /\ JobsRise(t) /\ Below(Messages(h), Messages(t))
    BY ONLY <1>1, ConcatJobs
  <1>5. JobsRise(h) => Rises(Head(jobs).messages)
    BY <1>2 DEF JobsRise
  <1>6. /\ Messages(jobs) = ToSet(Head(jobs).messages) \cup Messages(t)
        /\ JobsRise(jobs) => /\ Rises(Head(jobs).messages) /\ JobsRise(t)
                             /\ Below(ToSet(Head(jobs).messages), Messages(t))
    <2>1. jobs = h \o t
      BY <1>1
    <2> QED BY ONLY <2>1, <1>3, <1>4, <1>5
  <1> QED BY <1>1, <1>6 DEF t

-----------------------------------------------------------------------------
(* The loops that answer requests.                                         *)
LEMMA TakenTyped ==
  ASSUME NEW S, NEW f \in Fifos(S), NEW n \in Nat
  PROVE  TakenOf(f, n) \in Seq(S) /\ Len(TakenOf(f, n)) <= n
  <1>1. /\ f.items \in Seq(S \union {Blank}) /\ f.head \in Nat /\ f.head <= Len(f.items)
        /\ Len(f.items) \in Nat
        /\ \A i \in f.head + 1 .. Len(f.items) : f.items[i] \in S
    BY FifoShape
  <1> DEFINE end == End(f, n)
             t == TakenOf(f, n)
  <1>2. end \in f.head .. Len(f.items) /\ end <= f.head + n /\ f.head + 1 \in Int /\ end \in Int
    BY <1>1 DEF End
  <1>a. t = SubSeq(f.items, f.head + 1, end)
    BY DEF TakenOf
  <1> HIDE DEF end, t
  <1>3. \A i \in f.head + 1 .. end : f.items[i] \in S
    BY <1>1, <1>2
  <1>4. /\ SubSeq(f.items, f.head + 1, end) \in Seq(S)
        /\ Len(SubSeq(f.items, f.head + 1, end))
             = IF f.head + 1 <= end THEN end - (f.head + 1) + 1 ELSE 0
    <2>1. \A i \in f.head + 1 .. end : f.items[i] \in S /\ i \in 1..Len(f.items)
      BY <1>1, <1>2, <1>3
    <2>2. /\ SubSeq(f.items, f.head + 1, end) \in Seq(S)
          /\ Len(SubSeq(f.items, f.head + 1, end))
               = IF f.head + 1 <= end THEN end - (f.head + 1) + 1 ELSE 0
      BY <1>1, <1>2, <2>1, SubSeqProperties
    <2> QED BY <2>2
  <1>5. Len(t) <= n
    BY <1>1, <1>2, <1>a, <1>4
  <1> QED BY <1>a, <1>4, <1>5 DEF t

(* How far a loop has come that started with the messages C: the answers   *)
(* have the first of them, in order, and the buffer the others.            *)
Enough(jobs) ==
  \A r \in ToSet(jobs) : r.messages # <<>> => \E n \in Sizes : Len(r.messages) <= n
Answering(C, buf, jobs) ==
  /\ buf \in Fifos(Msgs) /\ Tidy(buf) /\ jobs \in Seq(Jobs)
  /\ ToSet(C) = Messages(jobs) \cup ToSet(Contents(buf))
  /\ JobsRise(jobs) /\ Rises(Contents(buf)) /\ Below(Messages(jobs), ToSet(Contents(buf)))
  /\ Enough(jobs)

LEMMA NoJobs == Messages(<<>>) = {} /\ JobsRise(<<>>) /\ Enough(<<>>) /\ ToSet(<<>>) = {}
  <1>1. ToSet(<<>>) = {}
    BY DEF ToSet
  <1> QED BY <1>1 DEF Messages, JobsRise, Enough

LEMMA AnswersBegin ==
  ASSUME NEW buf \in Fifos(Msgs), Tidy(buf), Rises(Contents(buf))
  PROVE  Answering(Contents(buf), buf, <<>>)
  BY NoJobs DEF Answering, Below

LEMMA AnswerOne ==
  ASSUME NEW C, NEW buf, NEW jobs, Answering(C, buf, jobs), NEW request \in Asks
  PROVE  /\ Answering(C, Take(buf, request.n), Append(jobs, Reply(request, buf)))
         /\ Reply(request, buf) \in Jobs /\ Reply(request, buf).id = request.id
  <1> DEFINE n == request.n
             taken == TakenOf(buf, n)
             rest == Take(buf, n)
             r == Reply(request, buf)
             more == Append(jobs, r)
  <1>1. n \in Nat /\ n \in Sizes /\ request.id \in 1..MaxRequests
    BY JobsAre
  <1>2. /\ buf \in Fifos(Msgs) /\ Tidy(buf) /\ jobs \in Seq(Jobs)
        /\ ToSet(C) = Messages(jobs) \cup ToSet(Contents(buf))
        /\ JobsRise(jobs) /\ Rises(Contents(buf)) /\ Below(Messages(jobs), ToSet(Contents(buf)))
        /\ Enough(jobs)
    BY DEF Answering
  <1>3. taken \in Seq(Msgs) /\ Len(taken) <= n
    BY <1>1, <1>2, TakenTyped
  <1>4. rest \in Fifos(Msgs) /\ taken \o Contents(rest) = Contents(buf)
    BY <1>1, <1>2, TakeSplits
  <1>a. Tidy(rest)
    BY <1>1, <1>2, TakeKeepsTidy
  <1>5. r = [id |-> request.id, messages |-> taken, by |-> "consume"]
    BY DEF Reply
  <1>6. r \in Jobs /\ r.id = request.id /\ r.messages = taken
    BY <1>1, <1>3, <1>5 DEF Jobs
  <1> HIDE DEF n, taken, rest, r
  <1>7. Contents(rest) \in Seq(Msgs)
    BY <1>4, ContentsAre
  <1>8. /\ ToSet(taken \o Contents(rest)) = ToSet(taken) \cup ToSet(Contents(rest))
        /\ Rises(taken \o Contents(rest))
             <=> Rises(taken) /\ Rises(Contents(rest)) /\ Below(ToSet(taken), ToSet(Contents(rest)))
    BY ONLY <1>3, <1>7, ConcatFacts
  <1>9. /\ ToSet(Contents(buf)) = ToSet(taken) \cup ToSet(Contents(rest))
        /\ Rises(taken) /\ Rises(Contents(rest)) /\ Below(ToSet(taken), ToSet(Contents(rest)))
    BY ONLY <1>2, <1>4, <1>8
  <1>10. /\ Below(Messages(jobs), ToSet(taken)) /\ Below(Messages(jobs), ToSet(Contents(rest)))
         /\ ToSet(C) = (Messages(jobs) \cup ToSet(taken)) \cup ToSet(Contents(rest))
         /\ Below(Messages(jobs) \cup ToSet(taken), ToSet(Contents(rest)))
    BY <1>2, <1>9 DEF Below
  <1>11. /\ more \in Seq(Jobs)
         /\ Messages(more) = Messages(jobs) \cup ToSet(taken)
         /\ JobsRise(more)
    <2>1. /\ Append(jobs, r) \in Seq(Jobs)
          /\ Messages(Append(jobs, r)) = Messages(jobs) \cup ToSet(r.messages)
          /\ JobsRise(jobs) /\ Rises(r.messages) /\ Below(Messages(jobs), ToSet(r.messages))
               => JobsRise(Append(jobs, r))
      BY ONLY <1>2, <1>6, AppendJob
    <2> QED BY <1>2, <1>6, <1>9, <1>10, <2>1
  <1>12. Enough(more)
    <2>1. ToSet(more) = ToSet(jobs) \cup {r}
      BY <1>2, <1>6, AppendSet
    <2> QED BY <1>1, <1>2, <1>3, <1>6, <2>1 DEF Enough
  <1> HIDE DEF more
  <1>13. Answering(C, rest, more)
    BY <1>4, <1>a, <1>9, <1>10, <1>11, <1>12 DEF Answering
  <1> QED BY <1>6, <1>13 DEF rest, more, r, n

LEMMA LeastNumber ==
  ASSUME NEW S, S \subseteq Nat, S # {}
  PROVE  \E m \in S : \A n \in S : m <= n
  <1>1. PICK m \in S : \A n \in S : ~ (<<n, m>> \in OpToRel(<, Nat))
    BY WFMin, NatLessThanWellFounded
  <1>2. \A n \in S : ~ (n < m)
    BY <1>1 DEF OpToRel
  <1> QED BY <1>2

(* A set of numbers that holds 0, and with a number the next, holds all    *)
(* up to n.                                                                *)
LEMMA UpTo ==
  ASSUME NEW n \in Nat, NEW Good, 0 \in Good, \A k \in 1..n : k - 1 \in Good => k \in Good
  PROVE  0..n \subseteq Good
  <1> DEFINE Bad == {k \in 0..n : k \notin Good}
  <1>1. ASSUME Bad # {} PROVE FALSE
    <2>1. Bad \subseteq Nat
      OBVIOUS
    <2>2. PICK k \in Bad : \A m \in Bad : k <= m
      BY <1>1, <2>1, LeastNumber
    <2>3. k \in 0..n /\ k \notin Good /\ k # 0
      BY <2>2
    <2>4. k \in 1..n /\ k - 1 \in 0..n
      BY <2>3
    <2>5. ASSUME k - 1 \notin Good PROVE FALSE
      <3>1. k <= k - 1
        BY <2>2, <2>4, <2>5
      <3> QED BY <3>1, <2>4
    <2> QED BY <2>3, <2>4, <2>5
  <1> QED BY <1>1

(* #servePending(). The states of the loop exist ...                       *)
Served(start, requests, f) ==
  f = [i \in 0..Len(requests) |-> IF i = 0 THEN start ELSE ServeOne(f[i - 1], requests[i])]

LEMMA ServedExists ==
  ASSUME NEW start, NEW requests, Len(requests) \in Nat
  PROVE  \E f : Served(start, requests, f)
  <1> DEFINE n == Len(requests)
             Part(f, k) ==
               \A i \in 0..k : f[i] = IF i = 0 THEN start ELSE ServeOne(f[i - 1], requests[i])
             Good == {k \in 0..n : \E f : DOMAIN f = 0..k /\ Part(f, k)}
  <1>1. 0 \in Good
    <2> DEFINE f == [i \in 0..0 |-> start]
    <2>1. DOMAIN f = 0..0 /\ \A i \in 0..0 : f[i] = start /\ i = 0
      OBVIOUS
    <2> HIDE DEF f
    <2>2. DOMAIN f = 0..0 /\ Part(f, 0)
      BY <2>1
    <2>3. 0 \in 0..n
      OBVIOUS
    <2> QED BY <2>2, <2>3
  <1>2. ASSUME NEW k \in 1..n, k - 1 \in Good PROVE k \in Good
    <2>1. PICK f : DOMAIN f = 0..k-1 /\ Part(f, k - 1)
      BY <1>2
    <2> DEFINE g == [i \in 0..k |-> IF i = k THEN ServeOne(f[k - 1], requests[k]) ELSE f[i]]
    <2>2. /\ DOMAIN g = 0..k /\ g[k] = ServeOne(f[k - 1], requests[k])
          /\ \A i \in 0..k-1 : g[i] = f[i]
      OBVIOUS
    <2> HIDE DEF g
    <2>3. ASSUME NEW i \in 0..k
          PROVE  g[i] = IF i = 0 THEN start ELSE ServeOne(g[i - 1], requests[i])
      <3>1. CASE i = k
        <4>1. g[i - 1] = f[k - 1] /\ i # 0
          BY <2>2, <3>1
        <4> QED BY <2>2, <3>1, <4>1
      <3>2. CASE i # k
        <4>1. i \in 0..k-1
          BY <3>2
        <4>2. i = 0 \/ i - 1 \in 0..k-1
          BY <4>1
        <4> QED BY <2>1, <2>2, <4>1, <4>2
      <3> QED BY <3>1, <3>2
    <2> QED BY <2>2, <2>3
  <1> HIDE DEF Good
  <1>3. n \in Good
    <2>1. 0..n \subseteq Good
      BY <1>1, <1>2, UpTo
    <2> QED BY <2>1
  <1> USE DEF Good
  <1>4. PICK f : DOMAIN f = 0..n /\ Part(f, n)
    BY <1>3
  <1>5. ASSUME NEW g, g = [i \in 0..n |-> f[i]] PROVE Served(start, requests, g)
    <2>1. DOMAIN g = 0..n /\ \A i \in 0..n : g[i] = f[i]
      BY <1>5
    <2>2. \A i \in 0..n : g[i] = IF i = 0 THEN start ELSE ServeOne(g[i - 1], requests[i])
      <3> SUFFICES ASSUME NEW i \in 0..n
                   PROVE  g[i] = IF i = 0 THEN start ELSE ServeOne(g[i - 1], requests[i])
        OBVIOUS
      <3>1. i = 0 \/ i - 1 \in 0..n
        OBVIOUS
      <3> QED BY <1>4, <2>1, <3>1
    <2>3. g = [i \in 0..n |-> IF i = 0 THEN start ELSE ServeOne(g[i - 1], requests[i])]
      <3>1. g = [i \in 0..n |-> g[i]]
        BY <1>5, <2>1
      <3> QED BY <2>2, <3>1
    <2> QED BY <2>3 DEF Served
  <1> QED BY <1>5

(* ... and each answers what the first requests get and keeps the others.  *)
Ids(s) == {r.id : r \in ToSet(s)}
ServeGood(C, requests, acc, k) ==
  /\ DOMAIN acc = {"buffer", "left", "jobs", "waits"}
  /\ Answering(C, acc.buffer, acc.jobs)
  /\ acc.left \in Seq(Asks)
  /\ Len(acc.jobs) + Len(acc.left) = k
  /\ Ids(acc.jobs) \cup Ids(acc.left) = {requests[i].id : i \in 1..k}

LEMMA AddIds ==
  ASSUME NEW S, NEW s \in Seq(S), NEW x \in S
  PROVE  Ids(Append(s, x)) = Ids(s) \cup {x.id} /\ Len(Append(s, x)) = Len(s) + 1
  <1>1. ToSet(Append(s, x)) = ToSet(s) \cup {x}
    BY AppendSet
  <1>2. Ids(Append(s, x)) = Ids(s) \cup {x.id}
    BY <1>1 DEF Ids
  <1>3. Len(Append(s, x)) = Len(s) + 1
    OBVIOUS
  <1> QED BY <1>2, <1>3

LEMMA ServeStep ==
  ASSUME NEW C, NEW requests \in Seq(Asks), NEW acc, NEW k \in 1..Len(requests),
         ServeGood(C, requests, acc, k - 1)
  PROVE  ServeGood(C, requests, ServeOne(acc, requests[k]), k)
  <1> DEFINE request == requests[k]
             next == ServeOne(acc, request)
             r == Reply(request, acc.buffer)
  <1>1. /\ DOMAIN acc = {"buffer", "left", "jobs", "waits"}
        /\ Answering(C, acc.buffer, acc.jobs) /\ acc.left \in Seq(Asks)
        /\ Len(acc.jobs) + Len(acc.left) = k - 1
        /\ Ids(acc.jobs) \cup Ids(acc.left) = {requests[i].id : i \in 1..k-1}
    BY DEF ServeGood
  <1>2. request \in Asks /\ k \in Nat
    OBVIOUS
  <1>3. {requests[i].id : i \in 1..k} = {requests[i].id : i \in 1..k-1} \cup {request.id}
    <2>1. \A i \in 1..k : i \in 1..k-1 \/ i = k
      OBVIOUS
    <2>2. \A i \in 1..k-1 : i \in 1..k
      OBVIOUS
    <2> QED BY <2>1, <2>2
  <1>4. acc.jobs \in Seq(Jobs) /\ Len(acc.jobs) \in Nat /\ Len(acc.left) \in Nat
    BY <1>1 DEF Answering
  <1>5. CASE acc.waits \/ Waits(request, acc.buffer)
    <2>1. next = [acc EXCEPT !.waits = TRUE, !.left = Append(@, request)]
      BY <1>5 DEF ServeOne
    <2>2. /\ DOMAIN next = {"buffer", "left", "jobs", "waits"}
          /\ next.buffer = acc.buffer /\ next.jobs = acc.jobs
          /\ next.left = Append(acc.left, request)
      BY <1>1, <2>1
    <2>3. /\ Ids(Append(acc.left, request)) = Ids(acc.left) \cup {request.id}
          /\ Len(Append(acc.left, request)) = Len(acc.left) + 1
      BY <1>1, <1>2, AddIds
    <2>4. next.left \in Seq(Asks) /\ Len(next.jobs) + Len(next.left) = k
      BY <1>1, <1>2, <1>4, <2>2, <2>3
    <2>5. Ids(next.jobs) \cup Ids(next.left) = {requests[i].id : i \in 1..k}
      BY <1>1, <1>3, <2>2, <2>3
    <2>6. Answering(C, next.buffer, next.jobs)
      BY <1>1, <2>2
    <2> HIDE DEF next
    <2>7. ServeGood(C, requests, next, k)
      BY <2>2, <2>4, <2>5, <2>6 DEF ServeGood
    <2> QED BY <2>7 DEF next
  <1>6. CASE ~ (acc.waits \/ Waits(request, acc.buffer))
    <2>1. next = [acc EXCEPT !.jobs = Append(@, r), !.buffer = Take(@, request.n)]
      BY <1>6 DEF ServeOne
    <2>2. /\ DOMAIN next = {"buffer", "left", "jobs", "waits"}
          /\ next.buffer = Take(acc.buffer, request.n) /\ next.jobs = Append(acc.jobs, r)
          /\ next.left = acc.left
      BY <1>1, <2>1
    <2>3. /\ Answering(C, Take(acc.buffer, request.n), Append(acc.jobs, r))
          /\ r \in Jobs /\ r.id = request.id
      BY <1>1, <1>2, AnswerOne
    <2> HIDE DEF r
    <2>4. /\ Ids(Append(acc.jobs, r)) = Ids(acc.jobs) \cup {r.id}
          /\ Len(Append(acc.jobs, r)) = Len(acc.jobs) + 1
      BY <1>4, <2>3, AddIds
    <2>5. next.left \in Seq(Asks) /\ Len(next.jobs) + Len(next.left) = k
      BY <1>1, <1>2, <1>4, <2>2, <2>4
    <2>6. Ids(next.jobs) \cup Ids(next.left) = {requests[i].id : i \in 1..k}
      BY <1>1, <1>3, <2>2, <2>3, <2>4
    <2>7. Answering(C, next.buffer, next.jobs)
      BY <2>2, <2>3
    <2> HIDE DEF next
    <2>8. ServeGood(C, requests, next, k)
      BY <2>2, <2>5, <2>6, <2>7 DEF ServeGood
    <2> QED BY <2>8 DEF next
  <1> QED BY <1>5, <1>6

(* What #servePending() leaves.                                            *)
LEMMA ServeFacts ==
  ASSUME buffer \in Fifos(Msgs), Tidy(buffer), Rises(Contents(buffer)), pending \in Seq(Asks),
         ServePending
  PROVE  \E jobs : /\ Answering(Contents(buffer), buffer', jobs) /\ micro' = micro \o jobs
                   /\ pending' \in Seq(Asks) /\ Len(jobs) + Len(pending') = Len(pending)
                   /\ Ids(jobs) \cup Ids(pending') = Ids(pending)
  <1> DEFINE start == [buffer |-> buffer, left |-> <<>>, jobs |-> <<>>, waits |-> FALSE]
             n == Len(pending)
             F == CHOOSE f : Served(start, pending, f)
             C == Contents(buffer)
  <1>1. n \in Nat
    OBVIOUS
  <1>2. Served(start, pending, F)
    BY <1>1, ServedExists
  <1>3. buffer' = F[n].buffer /\ pending' = F[n].left /\ micro' = micro \o F[n].jobs
    BY DEF ServePending, Served
  <1> HIDE DEF F
  <1>4. F[0] = start /\ \A k \in 1..n : F[k] = ServeOne(F[k - 1], pending[k])
    <2>1. \A k \in 0..n : F[k] = IF k = 0 THEN start ELSE ServeOne(F[k - 1], pending[k])
      BY <1>2 DEF Served
    <2> HIDE DEF start
    <2> QED BY <1>1, <2>1
  <1>5. ServeGood(C, pending, start, 0)
    <2>1. Answering(C, start.buffer, start.jobs)
      BY AnswersBegin
    <2>2. Ids(<<>>) = {} /\ {pending[i].id : i \in 1..0} = {} /\ Len(<<>>) = 0
      BY NoJobs DEF Ids
    <2> QED BY <2>1, <2>2 DEF ServeGood
  <1> DEFINE Good == {k \in 0..n : ServeGood(C, pending, F[k], k)}
  <1>6. 0 \in Good
    BY <1>1, <1>4, <1>5
  <1>7. ASSUME NEW k \in 1..n, k - 1 \in Good PROVE k \in Good
    <2>1. ServeGood(C, pending, F[k - 1], k - 1)
      BY <1>7
    <2>2. ServeGood(C, pending, ServeOne(F[k - 1], pending[k]), k)
      BY <2>1, ServeStep
    <2> QED BY <1>4, <2>2
  <1> HIDE DEF Good
  <1>8. n \in Good
    <2>1. 0..n \subseteq Good
      BY <1>1, <1>6, <1>7, UpTo
    <2> QED BY <1>1, <2>1
  <1>9. ServeGood(C, pending, F[n], n)
    BY <1>8 DEF Good
  <1>10. {pending[i].id : i \in 1..n} = Ids(pending)
    BY DEF Ids, ToSet
  <1> WITNESS F[n].jobs
  <1> QED BY <1>3, <1>9, <1>10 DEF ServeGood

(* disconnect() answers them all: its loop, in the same way.               *)
Handed(start, requests, f) ==
  f = [i \in 0..Len(requests) |-> IF i = 0 THEN start ELSE HandOne(f[i - 1], requests[i])]

LEMMA HandedExists ==
  ASSUME NEW start, NEW requests, Len(requests) \in Nat
  PROVE  \E f : Handed(start, requests, f)
  <1> DEFINE n == Len(requests)
             Part(f, k) ==
               \A i \in 0..k : f[i] = IF i = 0 THEN start ELSE HandOne(f[i - 1], requests[i])
             Good == {k \in 0..n : \E f : DOMAIN f = 0..k /\ Part(f, k)}
  <1>1. 0 \in Good
    <2> DEFINE f == [i \in 0..0 |-> start]
    <2>1. DOMAIN f = 0..0 /\ \A i \in 0..0 : f[i] = start /\ i = 0
      OBVIOUS
    <2> HIDE DEF f
    <2>2. DOMAIN f = 0..0 /\ Part(f, 0)
      BY <2>1
    <2>3. 0 \in 0..n
      OBVIOUS
    <2> QED BY <2>2, <2>3
  <1>2. ASSUME NEW k \in 1..n, k - 1 \in Good PROVE k \in Good
    <2>1. PICK f : DOMAIN f = 0..k-1 /\ Part(f, k - 1)
      BY <1>2
    <2> DEFINE g == [i \in 0..k |-> IF i = k THEN HandOne(f[k - 1], requests[k]) ELSE f[i]]
    <2>2. /\ DOMAIN g = 0..k /\ g[k] = HandOne(f[k - 1], requests[k])
          /\ \A i \in 0..k-1 : g[i] = f[i]
      OBVIOUS
    <2> HIDE DEF g
    <2>3. ASSUME NEW i \in 0..k
          PROVE  g[i] = IF i = 0 THEN start ELSE HandOne(g[i - 1], requests[i])
      <3>1. CASE i = k
        <4>1. g[i - 1] = f[k - 1] /\ i # 0
          BY <2>2, <3>1
        <4> QED BY <2>2, <3>1, <4>1
      <3>2. CASE i # k
        <4>1. i \in 0..k-1
          BY <3>2
        <4>2. i = 0 \/ i - 1 \in 0..k-1
          BY <4>1
        <4> QED BY <2>1, <2>2, <4>1, <4>2
      <3> QED BY <3>1, <3>2
    <2> QED BY <2>2, <2>3
  <1> HIDE DEF Good
  <1>3. n \in Good
    <2>1. 0..n \subseteq Good
      BY <1>1, <1>2, UpTo
    <2> QED BY <2>1
  <1> USE DEF Good
  <1>4. PICK f : DOMAIN f = 0..n /\ Part(f, n)
    BY <1>3
  <1>5. ASSUME NEW g, g = [i \in 0..n |-> f[i]] PROVE Handed(start, requests, g)
    <2>1. DOMAIN g = 0..n /\ \A i \in 0..n : g[i] = f[i]
      BY <1>5
    <2>2. \A i \in 0..n : g[i] = IF i = 0 THEN start ELSE HandOne(g[i - 1], requests[i])
      <3> SUFFICES ASSUME NEW i \in 0..n
                   PROVE  g[i] = IF i = 0 THEN start ELSE HandOne(g[i - 1], requests[i])
        OBVIOUS
      <3>1. i = 0 \/ i - 1 \in 0..n
        OBVIOUS
      <3> QED BY <1>4, <2>1, <3>1
    <2>3. g = [i \in 0..n |-> IF i = 0 THEN start ELSE HandOne(g[i - 1], requests[i])]
      <3>1. g = [i \in 0..n |-> g[i]]
        BY <1>5, <2>1
      <3> QED BY <2>2, <3>1
    <2> QED BY <2>3 DEF Handed
  <1> QED BY <1>5

HandGood(C, requests, acc, k) ==
  /\ Answering(C, acc.buffer, acc.jobs)
  /\ Len(acc.jobs) = k
  /\ Ids(acc.jobs) = {requests[i].id : i \in 1..k}

LEMMA HandStep ==
  ASSUME NEW C, NEW requests \in Seq(Asks), NEW acc, NEW k \in 1..Len(requests),
         HandGood(C, requests, acc, k - 1)
  PROVE  HandGood(C, requests, HandOne(acc, requests[k]), k)
  <1> DEFINE request == requests[k]
             next == HandOne(acc, request)
             r == Reply(request, acc.buffer)
  <1>1. /\ Answering(C, acc.buffer, acc.jobs) /\ Len(acc.jobs) = k - 1
        /\ Ids(acc.jobs) = {requests[i].id : i \in 1..k-1}
    BY DEF HandGood
  <1>2. request \in Asks /\ k \in Nat
    OBVIOUS
  <1>3. {requests[i].id : i \in 1..k} = {requests[i].id : i \in 1..k-1} \cup {request.id}
    <2>1. \A i \in 1..k : i \in 1..k-1 \/ i = k
      OBVIOUS
    <2>2. \A i \in 1..k-1 : i \in 1..k
      OBVIOUS
    <2> QED BY <2>1, <2>2
  <1>4. acc.jobs \in Seq(Jobs)
    BY <1>1 DEF Answering
  <1>5. next.buffer = Take(acc.buffer, request.n) /\ next.jobs = Append(acc.jobs, r)
    BY DEF HandOne
  <1>6. /\ Answering(C, Take(acc.buffer, request.n), Append(acc.jobs, r))
        /\ r \in Jobs /\ r.id = request.id
    BY <1>1, <1>2, AnswerOne
  <1> HIDE DEF r
  <1>7. /\ Ids(Append(acc.jobs, r)) = Ids(acc.jobs) \cup {r.id}
        /\ Len(Append(acc.jobs, r)) = Len(acc.jobs) + 1
    BY <1>4, <1>6, AddIds
  <1>8. Len(next.jobs) = k
    BY <1>1, <1>2, <1>5, <1>7
  <1>9. Ids(next.jobs) = {requests[i].id : i \in 1..k}
    BY <1>1, <1>3, <1>5, <1>6, <1>7
  <1>10. Answering(C, next.buffer, next.jobs)
    BY <1>5, <1>6
  <1> HIDE DEF next
  <1>11. HandGood(C, requests, next, k)
    BY <1>8, <1>9, <1>10 DEF HandGood
  <1> QED BY <1>11 DEF next

LEMMA HandFacts ==
  ASSUME buffer \in Fifos(Msgs), Tidy(buffer), Rises(Contents(buffer)), NEW requests \in Seq(Asks)
  PROVE  /\ \E buf : Answering(Contents(buffer), buf, HandOver(requests))
         /\ Len(HandOver(requests)) = Len(requests)
         /\ Ids(HandOver(requests)) = Ids(requests)
  <1> DEFINE start == [buffer |-> buffer, jobs |-> <<>>]
             n == Len(requests)
             F == CHOOSE f : Handed(start, requests, f)
             C == Contents(buffer)
  <1>1. n \in Nat
    OBVIOUS
  <1>2. Handed(start, requests, F)
    BY <1>1, HandedExists
  <1>3. HandOver(requests) = F[n].jobs
    BY DEF HandOver, Handed
  <1> HIDE DEF F
  <1>4. F[0] = start /\ \A k \in 1..n : F[k] = HandOne(F[k - 1], requests[k])
    <2>1. \A k \in 0..n : F[k] = IF k = 0 THEN start ELSE HandOne(F[k - 1], requests[k])
      BY <1>2 DEF Handed
    <2> HIDE DEF start
    <2> QED BY <1>1, <2>1
  <1>5. HandGood(C, requests, start, 0)
    <2>1. Answering(C, start.buffer, start.jobs)
      BY AnswersBegin
    <2>2. Ids(<<>>) = {} /\ {requests[i].id : i \in 1..0} = {} /\ Len(<<>>) = 0
      BY NoJobs DEF Ids
    <2> QED BY <2>1, <2>2 DEF HandGood
  <1> DEFINE Good == {k \in 0..n : HandGood(C, requests, F[k], k)}
  <1>6. 0 \in Good
    BY <1>1, <1>4, <1>5
  <1>7. ASSUME NEW k \in 1..n, k - 1 \in Good PROVE k \in Good
    <2>1. HandGood(C, requests, F[k - 1], k - 1)
      BY <1>7
    <2>2. HandGood(C, requests, HandOne(F[k - 1], requests[k]), k)
      BY <2>1, HandStep
    <2> QED BY <1>4, <2>2
  <1> HIDE DEF Good
  <1>8. n \in Good
    <2>1. 0..n \subseteq Good
      BY <1>1, <1>6, <1>7, UpTo
    <2> QED BY <1>1, <2>1
  <1>9. HandGood(C, requests, F[n], n)
    BY <1>8 DEF Good
  <1>10. {requests[i].id : i \in 1..n} = Ids(requests)
    BY DEF Ids, ToSet
  <1> QED BY <1>3, <1>9, <1>10 DEF HandGood

-----------------------------------------------------------------------------
(* The inductive invariant.                                                *)

(* The variables hold values of these sets.                                *)
Given == [no : Nat, by : {"data", "request"}]
Flags ==
  /\ session \in [gen : 0..MaxSessions, open : BOOLEAN]
  /\ {subscribed, hasAssignment, misread, takesOver, flowing, listening, assigned} \subseteq BOOLEAN
Stores ==
  /\ log \in Seq(Kinds) /\ queue \in Seq(Records) /\ batch \in Seq(Records)
  /\ buffer \in Fifos(Msgs) /\ Tidy(buffer) /\ pending \in Seq(Asks)
  /\ micro \in Seq(Jobs) /\ replies \in Seq(Jobs) /\ delivered \in Seq(Given)

(* A batch is there only while a round routes it.                          *)
Phases ==
  /\ round \in {"idle", "events", "routing", "draining"}
  /\ round # "routing" => batch = <<>>

(* What is on its way to the user stands in line: the buffer, the batch    *)
(* and librdkafka's queue, each in order and before the next.              *)
Buffered == ToSet(Contents(buffer))
Ahead == Buffered \cup ToSet(batch) \cup ToSet(queue)
InLine ==
  /\ Rises(Contents(buffer)) /\ Rises(batch) /\ Rises(queue)
  /\ Below(Buffered, ToSet(batch)) /\ Below(Buffered, ToSet(queue))
  /\ Below(ToSet(batch), ToSet(queue))

(* What was given to requests and to the user comes before all of it.  A   *)
(* message of a callback to come was not delivered, and the callbacks      *)
(* before had earlier ones; a data event may have had a later one.         *)
Behind(M, D, A) ==
  /\ Below(M, A) /\ Below(D, A)
  /\ \A d \in D, m \in M : d.no # m.no /\ (d.by = "request" => d.no < m.no)

(* All of it are records of the broker.                                    *)
Logged(X, l) == \A x \in X : x.no \in DOMAIN l /\ x.kind = l[x.no]

Ordered ==
  /\ InLine /\ JobsRise(micro)
  /\ Behind(Messages(micro), ToSet(delivered), Ahead)
  /\ Logged(Ahead \cup Messages(micro), log)
  /\ \A d \in ToSet(delivered) : d.no \in DOMAIN log
  /\ InOrderOnce

(* Nothing is lost.                                                        *)
Kept ==
  ~ dropped =>
    \A no \in DOMAIN log :
      log[no] = "msg" => \E x \in Ahead \cup Messages(micro) \cup ToSet(delivered) : x.no = no

(* Each request is at one place.                                           *)
Accounted ==
  /\ Ids(replies) \cup Ids(micro) \cup Ids(pending) = 1..Requests
  /\ Enough(replies) /\ Enough(micro)

(* A callback called a second time is one of a broker call, at a later     *)
(* place than those before it; the one that threw last is such a one.      *)
Called ==
  /\ catching \in BOOLEAN /\ again \in Seq(Nat)
  /\ \A i \in DOMAIN again : again[i] \in 1..Len(replies) /\ replies[again[i]].by = "broker"
  /\ \A i, j \in DOMAIN again : i < j => again[i] < again[j]
  /\ catching => /\ Len(replies) > 0 /\ replies[Len(replies)].by = "broker"
                 /\ \A i \in DOMAIN again : again[i] < Len(replies)

ConsumerInv == Flags /\ Stores /\ Phases /\ Ordered /\ Kept /\ Accounted /\ Called

-----------------------------------------------------------------------------
(* What a step must show of the line.                                      *)
LEMMA LineUnchanged ==
  ASSUME UNCHANGED <<log, queue, batch, buffer, micro, delivered, dropped>>
  PROVE  (Ordered => Ordered') /\ (Kept => Kept')
  BY DEF Ordered, Kept, InLine, Ahead, Buffered, InOrderOnce

LEMMA StaysOrdered ==
  ASSUME Ordered, UNCHANGED <<delivered, log, micro>>, InLine', Ahead' \subseteq Ahead
  PROVE  Ordered'
  <1> DEFINE A == Ahead
             M == Messages(micro)
             D == ToSet(delivered)
  <1>1. /\ JobsRise(micro) /\ Behind(M, D, A) /\ Logged(A \cup M, log)
        /\ \A d \in D : d.no \in DOMAIN log
        /\ InOrderOnce
    BY DEF Ordered
  <1>2. /\ Messages(micro') = M /\ ToSet(delivered') = D /\ log' = log
        /\ JobsRise(micro') /\ InOrderOnce'
    BY <1>1 DEF InOrderOnce
  <1>3. Behind(M, D, Ahead') /\ Logged(Ahead' \cup M, log)
    <2>1. Ahead' \subseteq A
      OBVIOUS
    <2> HIDE DEF A, M, D
    <2> QED BY <1>1, <2>1 DEF Behind, Below, Logged
  <1> HIDE DEF A, M, D
  <1> QED BY <1>1, <1>2, <1>3 DEF Ordered

LEMMA StaysKept ==
  ASSUME Ordered, Kept, UNCHANGED <<delivered, log, micro>>, dropped => dropped',
         \A x \in Ahead : x \in Ahead' \/ x.kind # "msg"
  PROVE  Kept'
  <1> DEFINE A == Ahead
             M == Messages(micro)
             D == ToSet(delivered)
  <1>1. Logged(A \cup M, log)
    BY DEF Ordered
  <1>2. Messages(micro') = M /\ ToSet(delivered') = D /\ log' = log
    OBVIOUS
  <1>3. ASSUME ~ dropped', NEW no \in DOMAIN log, log[no] = "msg"
        PROVE  \E x \in Ahead' \cup M \cup D : x.no = no
    <2>1. PICK x \in A \cup M \cup D : x.no = no
      BY <1>3 DEF Kept
    <2>2. CASE x \in A
      <3>1. x.kind = "msg"
        BY <1>1, <1>3, <2>1, <2>2 DEF Logged
      <3> QED BY <2>1, <2>2, <3>1
    <2> QED BY <2>1, <2>2
  <1> HIDE DEF A, M, D
  <1> QED BY <1>2, <1>3 DEF Kept

(* Answers leave the buffer: their messages come after those of the        *)
(* callbacks to come and before everything else.                           *)
LEMMA HandedOrdered ==
  ASSUME Stores, Ordered, NEW buf, NEW jobs, Answering(Contents(buffer), buf, jobs),
         micro' = micro \o jobs, UNCHANGED <<delivered, log, batch>>, InLine',
         Buffered' \subseteq ToSet(Contents(buf)), ToSet(queue') \subseteq ToSet(queue)
  PROVE  Ordered' /\ micro' \in Seq(Jobs) /\ Messages(micro') = Messages(micro) \cup Messages(jobs)
  <1> DEFINE B == Buffered
             R == ToSet(Contents(buf))
             T == ToSet(batch)
             Q == ToSet(queue)
             J == Messages(jobs)
             M == Messages(micro)
             D == ToSet(delivered)
  <1>1. /\ JobsRise(micro) /\ Behind(M, D, B \cup T \cup Q) /\ Logged((B \cup T \cup Q) \cup M, log)
        /\ \A d \in D : d.no \in DOMAIN log
        /\ InOrderOnce
        /\ Below(B, T) /\ Below(B, Q)
    BY DEF Ordered, Ahead, InLine
  <1>2. jobs \in Seq(Jobs) /\ JobsRise(jobs) /\ Below(J, R) /\ B = J \cup R
    BY DEF Answering, Buffered
  <1>3. micro \in Seq(Jobs)
    BY DEF Stores
  <1>4. /\ micro \o jobs \in Seq(Jobs)
        /\ Messages(micro \o jobs) = Messages(micro) \cup Messages(jobs)
        /\ JobsRise(micro \o jobs)
              <=> JobsRise(micro) /\ JobsRise(jobs) /\ Below(Messages(micro), Messages(jobs))
    BY ONLY <1>2, <1>3, ConcatJobs
  <1>5. Buffered' \subseteq R /\ ToSet(queue') \subseteq Q /\ ToSet(batch') = T
    OBVIOUS
  <1>6. Ahead' \subseteq R \cup T \cup Q
    BY <1>5 DEF Ahead
  <1> HIDE DEF B, R, T, Q, J, M, D
  <1>7. Below(M, J)
    BY <1>1, <1>2 DEF Behind, Below
  <1>8. JobsRise(micro') /\ Messages(micro') = M \cup J /\ micro' \in Seq(Jobs)
    BY <1>1, <1>2, <1>4, <1>7 DEF M, J
  <1>9. Behind(M \cup J, D, Ahead')
    <2>1. \A d \in D, m \in J : d.no < m.no
      BY <1>1, <1>2 DEF Behind, Below
    <2>2. ASSUME NEW d \in D, NEW m \in J PROVE d.no # m.no
      <3>1. m \in Msgs
        <4>1. J \subseteq Msgs
          <5>1. \A r \in ToSet(jobs) : r.messages \in Seq(Msgs)
            BY <1>2, JobsAre DEF ToSet
          <5>2. \A r \in ToSet(jobs) : ToSet(r.messages) \subseteq Msgs
            BY <5>1 DEF ToSet
          <5> QED BY <5>2 DEF J, Messages
        <4> QED BY <4>1
      <3>2. d \in Given
        BY DEF Stores, D, ToSet
      <3> QED BY <2>1, <3>1, <3>2, RecordsAre DEF Given
    <2>3. Below(M, Ahead') /\ Below(D, Ahead')
      BY <1>1, <1>2, <1>6 DEF Behind, Below
    <2>4. Below(J, Ahead')
      BY <1>1, <1>2, <1>6 DEF Below
    <2> QED BY <1>1, <2>1, <2>2, <2>3, <2>4 DEF Behind, Below
  <1>10. Logged(Ahead' \cup (M \cup J), log)
    BY <1>1, <1>2, <1>6 DEF Logged
  <1>11. ToSet(delivered') = D /\ log' = log /\ InOrderOnce'
    BY <1>1 DEF InOrderOnce, D
  <1> QED BY <1>1, <1>8, <1>9, <1>10, <1>11 DEF Ordered, M, J

(* #route(): the next of the batch goes behind the buffer.                 *)
LEMMA RouteStep ==
  ASSUME Stores, Ordered, Kept, Route
  PROVE  Stores' /\ Ordered' /\ Kept'
  <1> DEFINE C == Contents(buffer)
             B == ToSet(C)
             h == Head(batch)
             t == Tail(batch)
             T == ToSet(t)
             Q == ToSet(queue)
  <1>1. batch # <<>> /\ batch \in Seq(Records) /\ queue \in Seq(Records)
        /\ buffer \in Fifos(Msgs) /\ Tidy(buffer)
    BY DEF Route, Stores
  <1>2. t \in Seq(Records) /\ h \in Records /\ ToSet(batch) = {h} \cup T
        /\ (Rises(batch) => Rises(t) /\ Below({h}, T))
    BY <1>1, TailFacts
  <1>3. C \in Seq(Msgs)
    BY <1>1, ContentsAre
  <1>4. /\ Rises(C) /\ Rises(batch) /\ Rises(queue)
        /\ Below(B, ToSet(batch)) /\ Below(B, Q) /\ Below(ToSet(batch), Q)
    BY DEF Ordered, InLine, Buffered
  <1>5. /\ batch' = t
        /\ UNCHANGED <<log, queue, pending, micro, replies, delivered, dropped>>
        /\ \/ h.kind = "msg" /\ buffer' = Push(buffer, h)
           \/ h.kind # "msg" /\ buffer' = buffer
    BY DEF Route, kafka, callbacks, counters
  <1> HIDE DEF t, h
  <1>6. Ahead = B \cup ({h} \cup T) \cup Q
    BY <1>2 DEF Ahead, Buffered
  <1>a. Below({h}, T) /\ Rises(t) /\ Below(B, {h}) /\ Below({h}, Q) /\ Below(B, T) /\ Below(T, Q)
    <2> HIDE DEF T, B, Q
    <2> QED BY <1>2, <1>4 DEF Below
  <1>7. CASE h.kind = "msg" /\ buffer' = Push(buffer, h)
    <2>1. h \in Msgs
      BY <1>2, <1>7, RecordsAre
    <2>2. buffer' \in Fifos(Msgs) /\ Contents(buffer') = Append(C, h)
      BY <1>1, <1>7, <2>1, PushAppends
    <2>3. Tidy(buffer')
      BY <1>1, <1>7, <2>1, PushKeepsTidy
    <2>4. ToSet(Append(C, h)) = B \cup {h}
      BY <1>3, <2>1, AppendSet
    <2>5. Rises(Append(C, h))
      <3>1. \A y \in ToSet(C) : y.no < h.no
        BY <1>a DEF Below
      <3> QED BY <1>3, <1>4, <2>1, <3>1, AppendRises
    <2>6. Buffered' = B \cup {h}
      BY <2>2, <2>4 DEF Buffered
    <2> HIDE DEF B, C, T, Q
    <2>7. InLine'
      <3>1. Below(B \cup {h}, T) /\ Below(B \cup {h}, Q)
        BY <1>a, <1>4 DEF Below
      <3> QED BY <1>4, <1>5, <1>a, <2>2, <2>5, <2>6, <3>1 DEF InLine, T, Q
    <2>8. Ahead' = Ahead
      BY <1>5, <1>6, <2>6 DEF Ahead, T, Q
    <2>9. Ordered' /\ Kept'
      BY <1>5, <2>7, <2>8, StaysOrdered, StaysKept
    <2> QED BY <1>2, <1>5, <2>2, <2>3, <2>9 DEF Stores
  <1>8. CASE h.kind # "msg" /\ buffer' = buffer
    <2>1. Buffered' = B
      BY <1>8 DEF Buffered
    <2>2. Rises(Contents(buffer'))
      BY <1>4, <1>8
    <2> HIDE DEF B, C, T, Q
    <2>3. InLine'
      BY <1>4, <1>5, <1>a, <2>1, <2>2 DEF InLine, T, Q
    <2>4. Ahead' = B \cup T \cup Q
      BY <1>5, <2>1 DEF Ahead, T, Q
    <2>5. Ordered' /\ Kept'
      BY <1>5, <1>6, <1>8, <2>3, <2>4, StaysOrdered, StaysKept
    <2> QED BY <1>2, <1>5, <1>8, <2>5 DEF Stores
  <1> QED BY <1>5, <1>7, <1>8

(* pollTick(): the first of the queue become the batch.                    *)
LEMMA PollStep ==
  ASSUME Stores, Ordered, Kept, Phases, PollTick
  PROVE  Stores' /\ Ordered' /\ Kept'
  <1>1. UNCHANGED <<log, buffer, pending, micro, replies, delivered, dropped>>
    BY DEF PollTick, buffers, callbacks
  <1>2. CASE UNCHANGED <<batch, queue>>
    BY <1>1, <1>2, LineUnchanged DEF Stores
  <1>3. CASE \E k \in 0 .. Smallest(Len(queue), IF Active /\ session.open THEN Want ELSE 0) :
               /\ batch' = SubSeq(queue, 1, k)
               /\ queue' = SubSeq(queue, k + 1, Len(queue))
    <2>1. queue \in Seq(Records) /\ batch = <<>> /\ buffer \in Fifos(Msgs) /\ Len(queue) \in Nat
      BY DEF Stores, Phases, PollTick
    <2>2. Want \in Int
      <3>1. Length(buffer) \in Int
        <4>1. buffer.head \in Nat /\ Len(buffer.items) \in Nat
          BY <2>1, FifoShape
        <4> QED BY <4>1 DEF Length
      <3> QED BY <3>1, BoundsAssumption DEF Want, Smallest, Room
    <2>3. PICK k \in 0 .. Smallest(Len(queue), IF Active /\ session.open THEN Want ELSE 0) :
                 /\ batch' = SubSeq(queue, 1, k)
                 /\ queue' = SubSeq(queue, k + 1, Len(queue))
      BY <1>3
    <2>4. k \in 0..Len(queue)
      BY <2>1, <2>2 DEF Smallest
    <2>5. batch' \o queue' = queue
      <3>1. /\ 1 \in 1..Len(queue) + 1 /\ k \in 1 - 1 .. Len(queue) /\ Len(queue) \in k..Len(queue)
        BY <2>1, <2>4
      <3>2. SubSeq(queue, 1, k) \o SubSeq(queue, k + 1, Len(queue)) = SubSeq(queue, 1, Len(queue))
        BY <2>1, <3>1, ConcatAdjacentSubSeq
      <3>3. SubSeq(queue, 1, Len(queue)) = queue
        BY <2>1, SubSeqFull
      <3> QED BY <2>3, <3>2, <3>3
    <2>6. batch' \in Seq(Records) /\ queue' \in Seq(Records)
      <3>1. \A i \in 1..Len(queue) : queue[i] \in Records
        BY <2>1
      <3>2. SubSeq(queue, 1, k) \in Seq(Records)
        <4>1. k \in Int /\ \A i \in 1..k : queue[i] \in Records
          BY <2>4, <3>1
        <4> QED BY <4>1, SubSeqProperties
      <3>3. SubSeq(queue, k + 1, Len(queue)) \in Seq(Records)
        <4>1. /\ k + 1 \in Int /\ Len(queue) \in Int
              /\ \A i \in k + 1 .. Len(queue) : queue[i] \in Records
          BY <2>1, <2>4, <3>1
        <4> QED BY <4>1, SubSeqProperties
      <3> QED BY <2>3, <3>2, <3>3
    <2> DEFINE T == ToSet(batch')
               Q == ToSet(queue')
    <2>7. /\ ToSet(batch' \o queue') = T \cup Q
          /\ Rises(batch' \o queue') <=> Rises(batch') /\ Rises(queue') /\ Below(T, Q)
      BY <2>6, ConcatFacts
    <2>8. Rises(queue) /\ Below(Buffered, ToSet(queue)) /\ Rises(Contents(buffer))
      BY DEF Ordered, InLine
    <2>9. ToSet(queue) = T \cup Q /\ Rises(batch') /\ Rises(queue') /\ Below(T, Q)
      BY ONLY <2>5, <2>7, <2>8
    <2>10. Buffered' = Buffered /\ Rises(Contents(buffer'))
      BY <1>1, <2>8 DEF Buffered
    <2>11. Ahead' = Buffered \cup T \cup Q /\ Ahead = Buffered \cup T \cup Q
      BY <2>1, <2>9, <2>10, EmptyFacts DEF Ahead
    <2> HIDE DEF T, Q
    <2>12. InLine'
      <3>1. Below(Buffered, T) /\ Below(Buffered, Q)
        BY <2>8, <2>9 DEF Below
      <3> QED BY <2>9, <2>10, <3>1 DEF InLine, T, Q
    <2>13. Ordered' /\ Kept'
      BY <1>1, <2>11, <2>12, StaysOrdered, StaysKept
    <2> QED BY <1>1, <2>6, <2>13 DEF Stores
  <1> QED BY <1>2, <1>3 DEF PollTick

(* A listener throws: what was left of the batch is gone.                  *)
LEMMA ThrowStep ==
  ASSUME Stores, Ordered, Kept, ListenerThrows
  PROVE  Stores' /\ Ordered' /\ Kept'
  <1>1. /\ UNCHANGED <<log, queue, buffer, pending, micro, replies, delivered>>
        /\ batch' = <<>> /\ dropped' = (dropped \/ batch # <<>>)
    BY DEF ListenerThrows, kafka, buffers, counters
  <1>2. Buffered' = Buffered /\ ToSet(batch') = {} /\ ToSet(queue') = ToSet(queue)
    BY <1>1, EmptyFacts DEF Buffered
  <1>3. Ahead' = Buffered \cup ToSet(queue)
    BY <1>2 DEF Ahead
  <1>4. InLine'
    <2>1. Below(Buffered, {}) /\ Below({}, ToSet(queue))
      BY DEF Below
    <2> QED BY <1>1, <1>2, <2>1, EmptyFacts DEF Ordered, InLine
  <1>5. Ordered'
    BY <1>1, <1>3, <1>4, StaysOrdered DEF Ahead
  <1>6. Kept'
    <2>1. CASE batch = <<>>
      <3>1. Ahead = Ahead'
        BY <1>3, <2>1, EmptyFacts DEF Ahead
      <3> QED BY <1>1, <3>1, StaysKept
    <2>2. CASE batch # <<>>
      BY <1>1, <2>2 DEF Kept
    <2> QED BY <2>1, <2>2
  <1> QED BY <1>1, <1>5, <1>6 DEF Stores

(* #drainFlowing(): the first of the buffer is delivered.                  *)
LEMMA DrainStep ==
  ASSUME Stores, Ordered, Kept, DrainFlowing
  PROVE  Stores' /\ Ordered' /\ Kept'
  <1>1. UNCHANGED <<log, queue, batch, pending, micro, replies, dropped>>
    BY DEF DrainFlowing, kafka, counters
  <1>2. CASE UNCHANGED <<delivered, buffer>>
    BY <1>1, <1>2, LineUnchanged DEF Stores
  <1>3. CASE Length(buffer) > 0 /\ buffer' = Shift(buffer)
             /\ delivered' = Append(delivered, [no |-> First(buffer).no, by |-> "data"])
    <2> DEFINE C == Contents(buffer)
               h == First(buffer)
               t == Contents(buffer')
               R == ToSet(t)
               T == ToSet(batch)
               Q == ToSet(queue)
               M == Messages(micro)
               D == ToSet(delivered)
               d == [no |-> h.no, by |-> "data"]
    <2>1. buffer \in Fifos(Msgs) /\ Tidy(buffer) /\ delivered \in Seq(Given)
      BY DEF Stores
    <2>2. C \in Seq(Msgs) /\ Len(C) > 0
      BY <1>3, <2>1, ContentsAre DEF Length
    <2>3. C # <<>>
      BY <2>2
    <2>4. buffer' \in Fifos(Msgs) /\ h = Head(C) /\ t = Tail(C)
      BY <1>3, <2>1, ShiftTakesFirst
    <2>5. Tidy(buffer')
      BY <1>3, <2>1, TakeKeepsTidy
    <2>6. /\ h \in Msgs /\ ToSet(C) = {h} \cup R
          /\ (Rises(C) => Rises(t) /\ Below({h}, R))
      <3>1. /\ Head(C) \in Msgs /\ ToSet(C) = {Head(C)} \cup ToSet(Tail(C))
            /\ (Rises(C) => Rises(Tail(C)) /\ Below({Head(C)}, ToSet(Tail(C))))
        BY <2>2, <2>3, TailFacts
      <3> QED BY <2>4, <3>1
    <2>7. /\ Rises(C) /\ Rises(batch) /\ Rises(queue)
          /\ Below(ToSet(C), T) /\ Below(ToSet(C), Q) /\ Below(T, Q)
          /\ JobsRise(micro) /\ Behind(M, D, ToSet(C) \cup T \cup Q)
          /\ Logged((ToSet(C) \cup T \cup Q) \cup M, log)
          /\ \A x \in D : x.no \in DOMAIN log
          /\ InOrderOnce
      BY DEF Ordered, InLine, Buffered, Ahead
    <2>8. d \in Given /\ d.no = h.no /\ d.by = "data"
      BY <2>6 DEF Given, Msgs, Records
    <2> HIDE DEF d
    <2>9. delivered' \in Seq(Given) /\ ToSet(delivered') = D \cup {d}
      <3>1. ToSet(Append(delivered, d)) = D \cup {d}
        BY <2>1, <2>8, AppendSet
      <3>2. delivered' = Append(delivered, d)
        BY <1>3 DEF d
      <3> QED BY <2>1, <2>8, <3>1, <3>2
    <2>10. Ahead' = R \cup T \cup Q /\ Buffered' = R
      BY <1>1 DEF Ahead, Buffered
    <2>11. M = Messages(micro') /\ T = ToSet(batch') /\ Q = ToSet(queue') /\ JobsRise(micro')
           /\ Rises(batch') /\ Rises(queue') /\ Rises(t)
      BY <1>1, <2>6, <2>7
    <2>12. InOrderOnce'
      <3>1. /\ Len(delivered) \in Nat /\ DOMAIN delivered = 1..Len(delivered)
            /\ DOMAIN delivered' = 1..Len(delivered) + 1
            /\ \A i \in 1..Len(delivered) : delivered'[i] = delivered[i]
            /\ delivered'[Len(delivered) + 1] = d
        BY <1>3, <2>1 DEF d
      <3>2. \A i \in 1..Len(delivered) : delivered[i] \in D
        BY <3>1 DEF ToSet
      <3>3. \A x \in D : x.no < d.no /\ x.no # d.no
        <4>1. \A x \in D : x.no \in Nat
          <5>1. \A x \in D : x \in Given
            BY <2>1 DEF ToSet
          <5> QED BY <5>1 DEF Given
        <4>2. \A x \in D : x.no < d.no
          BY <2>6, <2>7, <2>8 DEF Behind, Below
        <4>3. d.no \in Nat
          BY <2>8 DEF Given
        <4> QED BY <4>1, <4>2, <4>3
      <3> HIDE DEF D
      <3>4. ASSUME NEW i \in DOMAIN delivered', NEW j \in DOMAIN delivered', i < j
            PROVE  /\ delivered'[i].no # delivered'[j].no
                   /\ delivered'[i].by = delivered'[j].by => delivered'[i].no < delivered'[j].no
        <4>1. i \in 1..Len(delivered) /\ (j \in 1..Len(delivered) \/ j = Len(delivered) + 1)
          BY <3>1, <3>4
        <4>2. CASE j \in 1..Len(delivered)
          BY <2>7, <3>1, <3>4, <4>1, <4>2 DEF InOrderOnce
        <4>3. CASE j = Len(delivered) + 1
          BY <3>1, <3>2, <3>3, <4>1, <4>3
        <4> QED BY <4>1, <4>2, <4>3
      <3> QED BY <3>4 DEF InOrderOnce
    <2>13. \A m \in M : m.no \in Nat /\ m.no < h.no
      <3>1. \A m \in M : m.no < h.no
        BY <2>6, <2>7 DEF Behind, Below
      <3>2. \A m \in M : m.no \in DOMAIN log
        BY <2>7 DEF Logged
      <3>3. DOMAIN log = 1..Len(log)
        BY DEF Stores
      <3> QED BY <3>1, <3>2, <3>3
    <2>14. h.no \in Nat
      BY <2>6 DEF Msgs, Records
    <2> HIDE DEF R, T, Q, M, D, C, t, h
    <2>15. InLine'
      <3>1. Below(R, T) /\ Below(R, Q)
        BY <2>6, <2>7 DEF Below
      <3> QED BY <2>7, <2>10, <2>11, <3>1 DEF InLine, t
    <2>16. Behind(M, D \cup {d}, R \cup T \cup Q)
      <3>1. Below({d}, R \cup T \cup Q)
        BY <2>6, <2>7, <2>8 DEF Below
      <3>2. \A m \in M : d.no # m.no /\ (d.by = "request" => d.no < m.no)
        BY <2>8, <2>13, <2>14
      <3> QED BY <2>6, <2>7, <3>1, <3>2 DEF Behind, Below
    <2>17. Logged(R \cup T \cup Q \cup M, log) /\ \A x \in D \cup {d} : x.no \in DOMAIN log
      BY <2>6, <2>7, <2>8 DEF Logged
    <2>18. Ordered'
      <3>1. log' = log
        BY <1>1
      <3> QED BY <2>9, <2>10, <2>11, <2>12, <2>15, <2>16, <2>17, <3>1 DEF Ordered
    <2>19. Kept'
      <3>1. Ahead = ({h} \cup R) \cup T \cup Q
        BY <2>6 DEF Ahead, Buffered, C, T, Q
      <3>2. ASSUME ~ dropped, NEW no \in DOMAIN log, log[no] = "msg"
            PROVE  \E x \in (R \cup T \cup Q) \cup M \cup (D \cup {d}) : x.no = no
        <4>1. PICK x \in Ahead \cup M \cup D : x.no = no
          BY <3>2 DEF Kept, M, D
        <4> QED BY <2>8, <3>1, <4>1
      <3>3. log' = log /\ dropped' = dropped
        BY <1>1
      <3> QED BY <2>9, <2>10, <2>11, <3>2, <3>3 DEF Kept
    <2> QED BY <1>1, <2>4, <2>5, <2>9, <2>18, <2>19 DEF Stores
  <1> QED BY <1>2, <1>3 DEF DrainFlowing

(* A record of the broker.                                                 *)
LEMMA ArriveStep ==
  ASSUME Stores, Ordered, Kept, Arrive
  PROVE  Stores' /\ Ordered' /\ Kept'
  <1>1. UNCHANGED <<batch, buffer, pending, micro, replies, delivered, dropped>>
    BY DEF Arrive, buffers, pump, callbacks
  <1>2. PICK kind \in Kinds : /\ log' = Append(log, kind)
                              /\ queue' = Append(queue, [kind |-> kind, no |-> Len(log')])
    BY DEF Arrive
  <1>3. log \in Seq(Kinds) /\ queue \in Seq(Records) /\ Len(log) \in Nat /\ DOMAIN log = 1..Len(log)
    BY DEF Stores
  <1>4. /\ log' \in Seq(Kinds) /\ DOMAIN log' = 1..Len(log) + 1 /\ Len(log') = Len(log) + 1
        /\ \A i \in 1..Len(log) : log'[i] = log[i]
        /\ log'[Len(log) + 1] = kind
    BY <1>2, <1>3
  <1> DEFINE r == [kind |-> kind, no |-> Len(log')]
             B == Buffered
             T == ToSet(batch)
             Q == ToSet(queue)
             M == Messages(micro)
             D == ToSet(delivered)
  <1>5. r \in Records /\ r.no = Len(log) + 1 /\ r.kind = kind /\ queue' = Append(queue, r)
    BY <1>2, <1>3, <1>4, KindsAssumption DEF Records
  <1> HIDE DEF r
  <1>6. /\ Rises(Contents(buffer)) /\ Rises(batch) /\ Rises(queue)
        /\ Below(B, T) /\ Below(B, Q) /\ Below(T, Q)
        /\ JobsRise(micro) /\ Behind(M, D, B \cup T \cup Q)
        /\ Logged((B \cup T \cup Q) \cup M, log)
        /\ \A x \in D : x.no \in DOMAIN log
        /\ InOrderOnce
    BY DEF Ordered, InLine, Ahead
  <1>7. queue' \in Seq(Records) /\ ToSet(queue') = Q \cup {r}
    BY <1>3, <1>5, AppendSet
  <1>8. Buffered' = B /\ ToSet(batch') = T /\ Messages(micro') = M /\ ToSet(delivered') = D
        /\ Rises(Contents(buffer')) /\ Rises(batch') /\ JobsRise(micro')
        /\ InOrderOnce'
    BY <1>1, <1>6 DEF Buffered, InOrderOnce
  <1>9. Ahead' = B \cup T \cup (Q \cup {r})
    BY <1>7, <1>8 DEF Ahead
  <1>a. Ahead = B \cup T \cup Q
    BY DEF Ahead
  <1>10. Rises(queue')
    <2>1. \A y \in ToSet(queue) : y.no < r.no
      BY <1>3, <1>5, <1>6 DEF Logged
    <2>2. Rises(Append(queue, r))
      BY <1>3, <1>5, <1>6, <2>1, AppendRises
    <2> QED BY <1>5, <2>2
  <1> HIDE DEF B, T, Q, M, D
  <1>11. \A x \in (B \cup T \cup Q) \cup M \cup D : x.no \in 1..Len(log)
    BY <1>3, <1>6 DEF Logged
  <1>12. \A x \in (B \cup T \cup Q) \cup M \cup D : x.no < r.no
    BY <1>3, <1>5, <1>11
  <1>13. InLine'
    <2>1. Below(B, Q \cup {r}) /\ Below(T, Q \cup {r})
      BY <1>6, <1>12 DEF Below
    <2> QED BY <1>6, <1>7, <1>8, <1>10, <2>1 DEF InLine
  <1>14. Behind(M, D, B \cup T \cup (Q \cup {r}))
    BY <1>6, <1>12 DEF Behind, Below
  <1>15. Logged((B \cup T \cup (Q \cup {r})) \cup M, log') /\ \A x \in D : x.no \in DOMAIN log'
    <2>1. \A x \in (B \cup T \cup Q) \cup M : x.no \in DOMAIN log' /\ x.kind = log'[x.no]
      BY <1>3, <1>4, <1>6, <1>11 DEF Logged
    <2>2. r.no \in DOMAIN log' /\ r.kind = log'[r.no]
      BY <1>3, <1>4, <1>5
    <2>3. \A x \in D : x.no \in DOMAIN log'
      BY <1>3, <1>4, <1>11
    <2> QED BY <2>1, <2>2, <2>3 DEF Logged
  <1>16. Ordered'
    BY <1>8, <1>9, <1>13, <1>14, <1>15 DEF Ordered
  <1>17. Kept'
    <2>1. ASSUME ~ dropped, NEW no \in DOMAIN log', log'[no] = "msg"
          PROVE  \E x \in (B \cup T \cup (Q \cup {r})) \cup M \cup D : x.no = no
      <3>1. CASE no \in DOMAIN log
        <4>1. log[no] = "msg"
          BY <1>3, <1>4, <2>1, <3>1
        <4>2. \E x \in Ahead \cup M \cup D : x.no = no
          BY <2>1, <3>1, <4>1 DEF Kept, M, D
        <4> QED BY <1>a, <4>2
      <3>2. CASE no = Len(log) + 1
        BY <1>5, <3>2
      <3> QED BY <1>3, <1>4, <3>1, <3>2
    <2> QED BY <1>1, <1>8, <1>9, <2>1 DEF Kept
  <1> QED BY <1>1, <1>4, <1>7, <1>16, <1>17 DEF Stores

LEMMA ConcatIs ==
  ASSUME NEW S, NEW s \in Seq(S), NEW t \in Seq(S)
  PROVE  /\ Len(s) \in Nat /\ DOMAIN s = 1..Len(s)
         /\ DOMAIN (s \o t) = 1..Len(s) + Len(t)
         /\ \A i \in 1..Len(s) : (s \o t)[i] = s[i]
         /\ \A i \in Len(s) + 1 .. Len(s) + Len(t) : (s \o t)[i] = t[i - Len(s)]
  <1>1. Len(s) \in Nat /\ DOMAIN s = 1..Len(s) /\ DOMAIN (s \o t) = 1..Len(s) + Len(t)
    OBVIOUS
  <1>2. /\ \A i \in 1..Len(s) : (s \o t)[i] = s[i]
        /\ \A i \in Len(s) + 1 .. Len(s) + Len(t) : (s \o t)[i] = t[i - Len(s)]
    OBVIOUS
  <1> QED BY <1>1, <1>2

(* A callback runs: its messages are delivered.                            *)
LEMMA CallbackStep ==
  ASSUME Stores, Ordered, Kept, RunMicrotask
  PROVE  Stores' /\ Ordered' /\ Kept'
  <1> DEFINE job == Head(micro)
             m == job.messages
             N == [i \in DOMAIN m |-> [no |-> m[i].no, by |-> "request"]]
             J == ToSet(m)
             M == Messages(Tail(micro))
             D == ToSet(delivered)
             E == ToSet(N)
  <1>1. /\ UNCHANGED <<log, queue, batch, buffer, pending, dropped>>
        /\ micro # <<>> /\ micro' = Tail(micro) /\ replies' = Append(replies, job)
        /\ delivered' = delivered \o N
    BY DEF RunMicrotask, kafka, buffers, pump
  <1>2. micro \in Seq(Jobs) /\ replies \in Seq(Jobs) /\ delivered \in Seq(Given)
    BY DEF Stores
  <1>3. /\ Tail(micro) \in Seq(Jobs) /\ job \in Jobs /\ Messages(micro) = J \cup M
        /\ (JobsRise(micro) => Rises(m) /\ JobsRise(Tail(micro)) /\ Below(J, M))
    BY <1>1, <1>2, TailJobs
  <1> HIDE DEF job
  <1>4. m \in Seq(Msgs)
    BY <1>3, JobsAre
  <1> HIDE DEF m
  <1>5. /\ Len(m) \in Nat /\ DOMAIN m = 1..Len(m) /\ DOMAIN N = DOMAIN m
        /\ \A i \in DOMAIN m : m[i] \in Msgs /\ N[i] = [no |-> m[i].no, by |-> "request"]
    BY <1>4
  <1>6. \A i \in DOMAIN m : N[i] \in Given /\ N[i].no = m[i].no /\ N[i].by = "request"
    <2>1. \A x \in Msgs : x.no \in Nat
      BY RecordsAre
    <2> HIDE DEF N
    <2> QED BY <1>5, <2>1 DEF Given
  <1>7. N \in Seq(Given) /\ Len(N) = Len(m)
    <2>1. N \in [1..Len(m) -> Given] /\ DOMAIN N = 1..Len(m)
      BY <1>5, <1>6
    <2> QED BY <1>5, <2>1
  <1> HIDE DEF N
  <1>8. /\ \A e \in E : e.by = "request" /\ \E x \in J : x.no = e.no
        /\ \A x \in J : \E e \in E : e.no = x.no
    BY <1>5, <1>6 DEF ToSet
  <1>9. ToSet(delivered') = D \cup E /\ delivered' \in Seq(Given)
    BY <1>1, <1>2, <1>7, ConcatFacts
  <1>10. /\ InLine /\ Rises(m) /\ JobsRise(Tail(micro)) /\ Below(J, M)
         /\ Behind(J \cup M, D, Ahead)
         /\ Logged(Ahead \cup (J \cup M), log)
         /\ \A x \in D : x.no \in DOMAIN log
         /\ InOrderOnce
    BY <1>3 DEF Ordered
  <1>11. InLine' /\ Ahead' = Ahead /\ Messages(micro') = M /\ JobsRise(micro')
    BY <1>1, <1>10 DEF InLine, Ahead, Buffered
  <1>12. InOrderOnce'
    <2> DEFINE u == delivered'
               n == Len(delivered)
    <2>1. /\ n \in Nat /\ DOMAIN delivered = 1..n /\ DOMAIN u = 1..n + Len(m)
          /\ \A i \in 1..n : u[i] = delivered[i]
          /\ \A i \in n + 1 .. n + Len(m) : u[i] = N[i - n]
      <3>1. delivered \in Seq(Given) /\ N \in Seq(Given) /\ Len(N) = Len(m) /\ u = delivered \o N
        BY <1>1, <1>2, <1>7
      <3>2. /\ Len(delivered) \in Nat /\ DOMAIN delivered = 1..Len(delivered)
            /\ DOMAIN (delivered \o N) = 1..Len(delivered) + Len(N)
            /\ \A i \in 1..Len(delivered) : (delivered \o N)[i] = delivered[i]
            /\ \A i \in Len(delivered) + 1 .. Len(delivered) + Len(N) :
                 (delivered \o N)[i] = N[i - Len(delivered)]
        BY ONLY <3>1, ConcatIs
      <3> QED BY ONLY <3>1, <3>2
    <2>2. \A i \in 1..n : delivered[i] \in D /\ delivered[i] \in Given
      BY <1>2, <2>1 DEF ToSet
    <2>3. \A i \in DOMAIN m : m[i] \in J
      BY DEF ToSet
    <2> HIDE DEF u, n, D, J
    <2>4. ASSUME NEW i \in DOMAIN u, NEW j \in DOMAIN u, i < j
          PROVE  u[i].no # u[j].no /\ (u[i].by = u[j].by => u[i].no < u[j].no)
      <3>1. CASE j \in 1..n
        <4>1. i \in 1..n
          BY <2>1, <2>4, <3>1
        <4> QED BY <1>10, <2>1, <2>4, <3>1, <4>1 DEF InOrderOnce
      <3>2. CASE i \in 1..n /\ j \in n + 1 .. n + Len(m)
        <4>1. j - n \in DOMAIN m /\ u[j] = N[j - n] /\ u[i] = delivered[i]
          BY <1>5, <2>1, <3>2
        <4>2. u[j].no = m[j - n].no /\ u[j].by = "request" /\ m[j - n] \in J
          BY <1>6, <2>3, <4>1
        <4>3. u[i] \in D
          BY <2>2, <3>2, <4>1
        <4> QED BY <1>10, <4>2, <4>3 DEF Behind
      <3>3. CASE i \in n + 1 .. n + Len(m) /\ j \in n + 1 .. n + Len(m)
        <4>1. /\ i - n \in DOMAIN m /\ u[i] = N[i - n] /\ j - n \in DOMAIN m /\ u[j] = N[j - n]
              /\ i - n < j - n
          BY <1>5, <2>1, <2>4, <3>3
        <4>2. m[i - n].no < m[j - n].no
          BY <1>10, <4>1 DEF Rises
        <4>3. u[i].no = m[i - n].no /\ u[j].no = m[j - n].no
          BY <1>6, <4>1
        <4>4. m[i - n].no \in Nat /\ m[j - n].no \in Nat
          BY <1>5, <4>1, RecordsAre
        <4> QED BY <4>2, <4>3, <4>4
      <3> QED BY <1>5, <2>1, <2>4, <3>1, <3>2, <3>3
    <2> QED BY <2>4 DEF InOrderOnce, u
  <1> HIDE DEF J, M, D, E
  <1>13. Behind(M, D \cup E, Ahead)
    <2>1. Below(E, Ahead)
      BY <1>8, <1>10 DEF Behind, Below
    <2>2. \A e \in E, x \in M : e.no < x.no
      BY <1>8, <1>10 DEF Below
    <2>3. \A x \in J \cup M : x.no \in Nat
      <3>1. DOMAIN log = 1..Len(log)
        BY DEF Stores
      <3> QED BY <1>10, <3>1 DEF Logged
    <2>4. \A e \in E, x \in M : e.no # x.no
      <3> SUFFICES ASSUME NEW e \in E, NEW x \in M PROVE e.no # x.no
        OBVIOUS
      <3>1. e.no < x.no /\ e.no \in Nat /\ x.no \in Nat
        BY <1>8, <2>2, <2>3
      <3> QED BY <3>1
    <2> QED BY <1>10, <2>1, <2>2, <2>4 DEF Behind, Below
  <1>14. Logged(Ahead \cup M, log) /\ \A x \in D \cup E : x.no \in DOMAIN log
    BY <1>8, <1>10 DEF Logged
  <1>15. Ordered'
    BY <1>1, <1>9, <1>11, <1>12, <1>13, <1>14 DEF Ordered
  <1>16. Kept'
    <2>1. ASSUME ~ dropped, NEW no \in DOMAIN log, log[no] = "msg"
          PROVE  \E x \in Ahead \cup M \cup (D \cup E) : x.no = no
      <3>1. PICK x \in Ahead \cup (J \cup M) \cup D : x.no = no
        BY <1>3, <2>1 DEF Kept, D, J, M
      <3> QED BY <1>8, <3>1
    <2> QED BY <1>1, <1>9, <1>11, <2>1 DEF Kept
  <1>17. replies' \in Seq(Jobs)
    BY <1>1, <1>2, <1>3
  <1> QED BY <1>1, <1>3, <1>9, <1>15, <1>16, <1>17 DEF Stores

(* #servePending().                                                        *)
LEMMA ServeTurn ==
  ASSUME Stores, Ordered, Kept, Accounted, Serve
  PROVE  Stores' /\ Ordered' /\ Kept' /\ Accounted'
  <1>1. /\ UNCHANGED <<log, queue, batch, replies, delivered, dropped>>
        /\ ServePending
    BY DEF Serve, kafka, callbacks, counters
  <1>2. buffer \in Fifos(Msgs) /\ Tidy(buffer) /\ Rises(Contents(buffer)) /\ pending \in Seq(Asks)
    BY DEF Stores, Ordered, InLine
  <1>3. PICK jobs : /\ Answering(Contents(buffer), buffer', jobs) /\ micro' = micro \o jobs
                    /\ pending' \in Seq(Asks) /\ Len(jobs) + Len(pending') = Len(pending)
                    /\ Ids(jobs) \cup Ids(pending') = Ids(pending)
    BY <1>1, <1>2, ServeFacts
  <1> DEFINE R == ToSet(Contents(buffer'))
             J == Messages(jobs)
             B == Buffered
             T == ToSet(batch)
             Q == ToSet(queue)
  <1>4. /\ buffer' \in Fifos(Msgs) /\ Tidy(buffer') /\ jobs \in Seq(Jobs)
        /\ B = J \cup R /\ Rises(Contents(buffer')) /\ Enough(jobs)
    BY <1>3 DEF Answering, Buffered
  <1>5. Rises(batch) /\ Rises(queue) /\ Below(B, T) /\ Below(B, Q) /\ Below(T, Q)
    BY DEF Ordered, InLine
  <1>6. Buffered' = R
    BY DEF Buffered
  <1>7. InLine'
    <2> HIDE DEF B, J, T, Q
    <2>1. Below(R, T) /\ Below(R, Q)
      BY <1>4, <1>5 DEF Below
    <2>2. Rises(batch') /\ Rises(queue') /\ ToSet(batch') = T /\ ToSet(queue') = Q
      BY <1>1, <1>5 DEF T, Q
    <2> QED BY <1>4, <1>5, <1>6, <2>1, <2>2 DEF InLine
  <1>8. Ordered' /\ micro' \in Seq(Jobs) /\ Messages(micro') = Messages(micro) \cup J
    <2>1. UNCHANGED <<delivered, log, batch>> /\ ToSet(queue') \subseteq ToSet(queue)
          /\ Buffered' \subseteq ToSet(Contents(buffer'))
      BY <1>1, <1>6
    <2> QED BY <1>3, <1>7, <2>1, HandedOrdered
  <1>9. Kept'
    <2>1. Ahead' = R \cup T \cup Q /\ Ahead = (J \cup R) \cup T \cup Q
      BY <1>1, <1>4, <1>6 DEF Ahead
    <2> HIDE DEF R, J, T, Q
    <2>2. Ahead' \cup Messages(micro') = Ahead \cup Messages(micro)
      BY <1>8, <2>1
    <2>3. Ahead' \cup Messages(micro') \cup ToSet(delivered')
            = Ahead \cup Messages(micro) \cup ToSet(delivered)
      BY <1>1, <2>2
    <2> QED BY <1>1, <2>3 DEF Kept
  <1>10. Accounted'
    <2>1. micro \in Seq(Jobs) /\ replies \in Seq(Jobs) /\ pending \in Seq(Asks)
      BY DEF Stores
    <2>2. ToSet(micro \o jobs) = ToSet(micro) \cup ToSet(jobs)
      BY <1>4, <2>1, ConcatFacts
    <2>3. Ids(micro') = Ids(micro) \cup Ids(jobs)
      BY <1>3, <2>2 DEF Ids
    <2>4. Enough(micro')
      BY <1>3, <1>4, <2>2 DEF Enough, Accounted
    <2>5. Len(micro') = Len(micro) + Len(jobs)
      BY <1>3, <1>4, <2>1
    <2>6. Len(micro) \in Nat /\ Len(jobs) \in Nat /\ Len(replies) \in Nat /\ Len(pending) \in Nat
          /\ Len(pending') \in Nat
      BY <1>3, <1>4, <2>1
    <2>7. Requests' = Requests
      <3>1. Len(jobs) + Len(pending') = Len(pending) /\ Len(replies') = Len(replies)
        BY <1>1, <1>3
      <3> QED BY ONLY <2>5, <2>6, <3>1 DEF Requests
    <2>8. Ids(replies') \cup Ids(micro') \cup Ids(pending')
            = Ids(replies) \cup Ids(micro) \cup Ids(pending)
      BY <1>1, <1>3, <2>3
    <2> QED BY <1>1, <2>4, <2>7, <2>8 DEF Accounted
  <1> QED BY <1>1, <1>3, <1>4, <1>8, <1>9, <1>10 DEF Stores

(* disconnect(): every request is answered, and the rest is gone.          *)
LEMMA DisconnectTurn ==
  ASSUME Stores, Ordered, Kept, Accounted, Disconnect
  PROVE  Stores' /\ Ordered' /\ Kept' /\ Accounted'
  <1> DEFINE jobs == HandOver(pending)
             J == Messages(jobs)
             T == ToSet(batch)
  <1>1. /\ UNCHANGED <<log, batch, replies, delivered>>
        /\ queue' = <<>> /\ buffer' = EmptyFifo /\ pending' = <<>> /\ dropped' = TRUE
        /\ micro' = micro \o jobs
    BY DEF Disconnect, pump, counters
  <1>2. buffer \in Fifos(Msgs) /\ Tidy(buffer) /\ Rises(Contents(buffer)) /\ pending \in Seq(Asks)
    BY DEF Stores, Ordered, InLine
  <1>3. /\ \E buf : Answering(Contents(buffer), buf, jobs)
        /\ Len(jobs) = Len(pending) /\ Ids(jobs) = Ids(pending)
    BY <1>2, HandFacts
  <1> HIDE DEF jobs
  <1>4. PICK buf : Answering(Contents(buffer), buf, jobs)
    BY <1>3
  <1>5. jobs \in Seq(Jobs) /\ Enough(jobs)
    BY <1>4 DEF Answering
  <1>6. /\ EmptyFifo \in Fifos(Msgs) /\ Tidy(EmptyFifo) /\ Contents(EmptyFifo) = <<>>
    <2>1. EmptyFifo.items = <<>> /\ EmptyFifo.head = 0
      BY DEF EmptyFifo
    <2>2. EmptyFifo \in Fifos(Msgs)
      <3>1. <<>> \in Seq(Msgs \union {Blank}) /\ Len(<<>>) = 0
        OBVIOUS
      <3> QED BY <3>1 DEF Fifos, EmptyFifo
    <2>3. Tidy(EmptyFifo)
      BY <2>1 DEF Tidy
    <2>4. Contents(EmptyFifo) = <<>>
      BY DEF Contents, EmptyFifo
    <2> QED BY <2>2, <2>3, <2>4
  <1>7. Buffered' = {} /\ ToSet(queue') = {} /\ ToSet(batch') = T
        /\ Rises(Contents(buffer')) /\ Rises(queue') /\ Rises(batch')
    BY <1>1, <1>6, EmptyFacts DEF Buffered, Ordered, InLine
  <1>8. InLine'
    BY <1>7 DEF InLine, Below
  <1>9. Ordered' /\ micro' \in Seq(Jobs)
    <2>1. UNCHANGED <<delivered, log, batch>> /\ ToSet(queue') \subseteq ToSet(queue)
          /\ Buffered' \subseteq ToSet(Contents(buf))
      BY <1>1, <1>7
    <2> QED BY <1>1, <1>4, <1>8, <2>1, HandedOrdered
  <1>10. Accounted'
    <2>1. micro \in Seq(Jobs) /\ replies \in Seq(Jobs)
      BY DEF Stores
    <2>2. ToSet(micro \o jobs) = ToSet(micro) \cup ToSet(jobs)
      BY <1>5, <2>1, ConcatFacts
    <2>3. Ids(micro') = Ids(micro) \cup Ids(jobs)
      BY <1>1, <2>2 DEF Ids
    <2>4. Enough(micro')
      BY <1>1, <1>5, <2>2 DEF Enough, Accounted
    <2>5. Len(micro') = Len(micro) + Len(jobs) /\ Len(pending') = 0
      BY <1>1, <1>5, <2>1
    <2>6. Len(micro) \in Nat /\ Len(replies) \in Nat /\ Len(pending) \in Nat
      BY <1>2, <2>1
    <2>7. Requests' = Requests
      <3>1. Len(micro') = Len(micro) + Len(pending) /\ Len(replies') = Len(replies)
        BY <1>1, <1>3, <2>5
      <3> QED BY ONLY <2>5, <2>6, <3>1 DEF Requests
    <2>8. Ids(pending') = {}
      BY <1>1, EmptyFacts DEF Ids
    <2>9. Ids(replies') \cup Ids(micro') \cup Ids(pending')
            = Ids(replies) \cup Ids(micro) \cup Ids(pending)
      BY <1>1, <1>3, <2>3, <2>8
    <2> QED BY <1>1, <2>4, <2>7, <2>9 DEF Accounted
  <1>11. Kept'
    BY <1>1 DEF Kept
  <1>12. pending' \in Seq(Asks) /\ queue' \in Seq(Records)
    BY <1>1
  <1> QED BY <1>1, <1>6, <1>9, <1>10, <1>11, <1>12 DEF Stores

-----------------------------------------------------------------------------
(* The steps of the requests.                                              *)
LEMMA AccountUnchanged ==
  ASSUME Accounted, UNCHANGED <<replies, micro, pending>>
  PROVE  Accounted'
  BY DEF Accounted, Requests

LEMMA CallbackAccounts ==
  ASSUME Stores, Accounted, RunMicrotask
  PROVE  Accounted'
  <1> DEFINE job == Head(micro)
  <1>1. /\ pending' = pending /\ micro # <<>> /\ micro' = Tail(micro)
        /\ replies' = Append(replies, job)
    BY DEF RunMicrotask, buffers
  <1>2. micro \in Seq(Jobs) /\ replies \in Seq(Jobs) /\ pending \in Seq(Asks)
    BY DEF Stores
  <1>3. /\ Tail(micro) \in Seq(Jobs) /\ job \in Jobs /\ Len(micro) = Len(Tail(micro)) + 1
        /\ ToSet(micro) = {job} \cup ToSet(Tail(micro))
    BY <1>1, <1>2, TailFacts
  <1> HIDE DEF job
  <1>4. ToSet(Append(replies, job)) = ToSet(replies) \cup {job}
    BY <1>2, <1>3, AppendSet
  <1>5. Len(Append(replies, job)) = Len(replies) + 1
    BY <1>2
  <1>6. /\ Len(replies) \in Nat /\ Len(pending) \in Nat /\ Len(Tail(micro)) \in Nat
        /\ Len(replies') = Len(replies) + 1 /\ Len(micro) = Len(micro') + 1 /\ Len(micro') \in Nat
        /\ Len(pending') = Len(pending)
    BY <1>1, <1>2, <1>3, <1>5
  <1>7. Requests' = Requests
    BY ONLY <1>6 DEF Requests
  <1>8. Ids(replies') \cup Ids(micro') = Ids(replies) \cup Ids(micro)
    BY <1>1, <1>3, <1>4 DEF Ids
  <1>9. Enough(replies') /\ Enough(micro')
    BY <1>1, <1>3, <1>4 DEF Enough, Accounted
  <1> QED BY <1>1, <1>7, <1>8, <1>9 DEF Accounted

LEMMA OneMore ==
  ASSUME NEW n \in Nat, n < MaxRequests
  PROVE  1..n + 1 = 1..n \cup {n + 1} /\ n + 1 \in 1..MaxRequests
  BY BoundsAssumption

(* consume(n, cb).                                                         *)
LEMMA ConsumeTurn ==
  ASSUME Stores, Ordered, Kept, Accounted, NEW n \in Sizes, Consume(n)
  PROVE  Stores' /\ Ordered' /\ Kept' /\ Accounted'
  <1> DEFINE request == [id |-> Requests + 1, n |-> n, due |-> FALSE]
  <1>1. /\ UNCHANGED <<log, queue, batch, buffer, micro, replies, delivered, dropped>>
        /\ pending' = Append(pending, request) /\ Requests < MaxRequests
    BY DEF Consume, kafka, pump, callbacks, counters
  <1>2. micro \in Seq(Jobs) /\ replies \in Seq(Jobs) /\ pending \in Seq(Asks)
    BY DEF Stores
  <1>3. Len(micro) \in Nat /\ Len(replies) \in Nat /\ Len(pending) \in Nat
    BY <1>2
  <1>4. Requests \in Nat
    BY <1>3 DEF Requests
  <1>5. 1..Requests + 1 = 1..Requests \cup {Requests + 1} /\ Requests + 1 \in 1..MaxRequests
    BY <1>1, <1>4, OneMore
  <1>6. request \in Asks /\ request.id = Requests + 1
    BY <1>5 DEF Asks
  <1> HIDE DEF request
  <1>7. Ids(Append(pending, request)) = Ids(pending) \cup {request.id}
        /\ Len(Append(pending, request)) = Len(pending) + 1
    BY <1>2, <1>6, AddIds
  <1>8. Len(pending') = Len(pending) + 1 /\ Len(micro') = Len(micro) /\ Len(replies') = Len(replies)
    BY <1>1, <1>7
  <1>9. Requests' = Requests + 1
    BY ONLY <1>3, <1>8 DEF Requests
  <1>10. Accounted'
    BY <1>1, <1>5, <1>6, <1>7, <1>9 DEF Accounted
  <1>11. Ordered' /\ Kept'
    BY <1>1, LineUnchanged
  <1>12. pending' \in Seq(Asks)
    BY <1>1, <1>2, <1>6
  <1> QED BY <1>1, <1>10, <1>11, <1>12 DEF Stores

(* The deadline of a request.                                              *)
LEMMA DeadlineTurn ==
  ASSUME Stores, Ordered, Kept, Accounted, Deadline
  PROVE  Stores' /\ Ordered' /\ Kept' /\ Accounted'
  <1> DEFINE h == Head(pending)
             t == Tail(pending)
             g == [h EXCEPT !.due = TRUE]
  <1>1. /\ UNCHANGED <<log, queue, batch, buffer, micro, replies, delivered, dropped>>
        /\ pending # <<>> /\ pending' = <<g>> \o t
    BY DEF Deadline, kafka, pump, callbacks, counters
  <1>2. pending \in Seq(Asks) /\ micro \in Seq(Jobs) /\ replies \in Seq(Jobs)
    BY DEF Stores
  <1>3. h \in Asks /\ t \in Seq(Asks) /\ ToSet(pending) = {h} \cup ToSet(t)
        /\ Len(pending) = Len(t) + 1
    BY <1>1, <1>2, TailFacts
  <1>4. g \in Asks /\ g.id = h.id
    BY <1>3 DEF Asks
  <1> HIDE DEF h, t, g
  <1> DEFINE f == <<g>>
  <1>5. f \in Seq(Asks) /\ ToSet(f) = {g} /\ Len(f) = 1 /\ pending' = f \o t
    BY <1>1, <1>4 DEF ToSet
  <1> HIDE DEF f
  <1>6. f \o t \in Seq(Asks) /\ ToSet(f \o t) = {g} \cup ToSet(t)
    <2>1. f \in Seq(Asks) /\ t \in Seq(Asks)
      BY <1>3, <1>5
    <2>2. f \o t \in Seq(Asks) /\ ToSet(f \o t) = ToSet(f) \cup ToSet(t)
      BY ONLY <2>1, ConcatFacts
    <2> QED BY <1>5, <2>2
  <1>7. Len(f \o t) = Len(t) + 1
    <2>1. f \in Seq(Asks) /\ t \in Seq(Asks) /\ Len(f) = 1
      BY <1>3, <1>5
    <2>2. Len(f \o t) = Len(f) + Len(t) /\ Len(t) \in Nat
      BY ONLY <2>1, ConcatProperties, LenProperties
    <2> QED BY ONLY <2>1, <2>2
  <1>8. Ids(pending') = Ids(pending)
    BY <1>3, <1>4, <1>5, <1>6 DEF Ids
  <1>9. Len(pending') = Len(pending) /\ Len(micro') = Len(micro) /\ Len(replies') = Len(replies)
    BY <1>1, <1>3, <1>5, <1>7
  <1>10. Requests' = Requests
    BY ONLY <1>9 DEF Requests
  <1>11. Accounted'
    BY <1>1, <1>8, <1>10 DEF Accounted
  <1>12. Ordered' /\ Kept'
    BY <1>1, LineUnchanged
  <1> QED BY <1>1, <1>5, <1>6, <1>11, <1>12 DEF Stores

(* committed(), offsetsForTimes() and seek().                              *)
LEMMA AskTurn ==
  ASSUME Stores, Ordered, Kept, Accounted, Ask
  PROVE  Stores' /\ Ordered' /\ Kept' /\ Accounted'
  <1> DEFINE job == [id |-> Requests + 1, messages |-> <<>>, by |-> "broker"]
  <1>1. /\ UNCHANGED <<log, queue, batch, buffer, pending, replies, delivered, dropped>>
        /\ micro' = Append(micro, job) /\ Requests < MaxRequests
    BY DEF Ask, kafka, buffers, pump, callbacks, counters
  <1>2. micro \in Seq(Jobs) /\ replies \in Seq(Jobs) /\ pending \in Seq(Asks)
    BY DEF Stores
  <1>3. Len(micro) \in Nat /\ Len(replies) \in Nat /\ Len(pending) \in Nat
    BY <1>2
  <1>4. Requests \in Nat
    BY <1>3 DEF Requests
  <1>5. 1..Requests + 1 = 1..Requests \cup {Requests + 1} /\ Requests + 1 \in 1..MaxRequests
    BY <1>1, <1>4, OneMore
  <1>6. job \in Jobs /\ job.id = Requests + 1 /\ job.messages = <<>>
    BY <1>5 DEF Jobs
  <1> HIDE DEF job
  <1>7. Ids(Append(micro, job)) = Ids(micro) \cup {job.id}
        /\ Len(Append(micro, job)) = Len(micro) + 1
    BY <1>2, <1>6, AddIds
  <1>8. Len(pending') = Len(pending) /\ Len(micro') = Len(micro) + 1 /\ Len(replies') = Len(replies)
    BY <1>1, <1>7
  <1>9. Requests' = Requests + 1
    BY ONLY <1>3, <1>8 DEF Requests
  <1>10. ToSet(Append(micro, job)) = ToSet(micro) \cup {job}
    BY <1>2, <1>6, AppendSet
  <1>11. Accounted'
    <2>1. Enough(micro')
      BY <1>1, <1>6, <1>10 DEF Enough, Accounted
    <2> QED BY <1>1, <1>5, <1>6, <1>7, <1>9, <2>1 DEF Accounted
  <1>12. /\ Append(micro, job) \in Seq(Jobs)
         /\ Messages(Append(micro, job)) = Messages(micro) \cup ToSet(job.messages)
         /\ JobsRise(micro) /\ Rises(job.messages) /\ Below(Messages(micro), ToSet(job.messages))
              => JobsRise(Append(micro, job))
    BY <1>2, <1>6, AppendJob
  <1>13. ToSet(job.messages) = {} /\ Rises(job.messages) /\ Below(Messages(micro), {})
    BY <1>6, EmptyFacts DEF Below
  <1>14. micro' \in Seq(Jobs) /\ Messages(micro') = Messages(micro) /\ JobsRise(micro')
    BY <1>1, <1>12, <1>13 DEF Ordered
  <1>15. Ordered' /\ Kept'
    BY <1>1, <1>14 DEF Ordered, Kept, InLine, Ahead, Buffered, InOrderOnce
  <1> QED BY <1>1, <1>11, <1>14, <1>15 DEF Stores

-----------------------------------------------------------------------------
LEMMA InitConsumerInv == Init => ConsumerInv
  <1> SUFFICES ASSUME Init PROVE ConsumerInv
    OBVIOUS
  <1>1. Flags
    <2>1. 0 \in 0..MaxSessions
      BY BoundsAssumption
    <2>2. session \in [gen : 0..MaxSessions, open : BOOLEAN]
      BY <2>1 DEF Init
    <2>3. {subscribed, hasAssignment, misread, takesOver, flowing, listening, assigned} \subseteq BOOLEAN
      BY DEF Init
    <2> QED BY <2>2, <2>3 DEF Flags
  <1>2. EmptyFifo \in Fifos(Msgs) /\ Tidy(EmptyFifo) /\ Contents(EmptyFifo) = <<>>
    <2>1. EmptyFifo.items = <<>> /\ EmptyFifo.head = 0
      BY DEF EmptyFifo
    <2>2. EmptyFifo \in Fifos(Msgs)
      <3>1. <<>> \in Seq(Msgs \union {Blank}) /\ Len(<<>>) = 0
        OBVIOUS
      <3> QED BY <3>1 DEF Fifos, EmptyFifo
    <2>3. Tidy(EmptyFifo)
      BY <2>1 DEF Tidy
    <2>4. Contents(EmptyFifo) = <<>>
      BY DEF Contents, EmptyFifo
    <2> QED BY <2>2, <2>3, <2>4
  <1>3. Stores
    BY <1>2 DEF Init, Stores
  <1>4. Phases
    BY DEF Init, Phases
  <1>5. /\ Buffered = {} /\ ToSet(batch) = {} /\ ToSet(queue) = {} /\ ToSet(delivered) = {}
        /\ Rises(Contents(buffer)) /\ Rises(batch) /\ Rises(queue)
        /\ Messages(micro) = {} /\ JobsRise(micro) /\ Enough(micro) /\ Enough(replies)
    BY <1>2, EmptyFacts, NoJobs DEF Init, Buffered
  <1>6. Ordered
    <2>1. InLine
      BY <1>5 DEF InLine, Below
    <2>2. InOrderOnce
      BY DEF Init, InOrderOnce
    <2> QED BY <1>5, <2>1, <2>2 DEF Ordered, Behind, Below, Logged, Ahead
  <1>7. Kept
    <2>1. DOMAIN log = {}
      BY DEF Init
    <2> QED BY <2>1 DEF Kept
  <1>8. Accounted
    <2>1. Ids(<<>>) = {}
      BY EmptyFacts DEF Ids
    <2>2. Requests = 0
      BY DEF Init, Requests
    <2>3. 1..0 = {}
      OBVIOUS
    <2> QED BY <1>5, <2>1, <2>2, <2>3 DEF Init, Accounted
  <1>9. Called
    <2>1. catching = FALSE /\ again = <<>> /\ DOMAIN again = {}
      BY DEF Init
    <2>2. catching \in BOOLEAN /\ ~ catching
      BY <2>1
    <2>3. again \in Seq(Nat)
      BY <2>1
    <2> QED BY <2>1, <2>2, <2>3, Zenon DEF Called
  <1> QED BY <1>1, <1>3, <1>4, <1>6, <1>7, <1>8, <1>9 DEF ConsumerInv

LEMMA NextFlags ==
  ASSUME Flags, Phases, [Next]_vars
  PROVE  Flags' /\ Phases'
  <1> USE DEF Flags, Phases
  <1>1. CASE \E n \in Sizes : Consume(n)
    BY <1>1 DEF Consume, kafka, subscription, pump
  <1>2. CASE Flow \/ Subscribe \/ Unsubscribe \/ Commit \/ Ask
    BY <1>2 DEF Flow, Subscribe, Unsubscribe, Commit, Ask, kafka, subscription, buffers, pump
  <1>3. CASE Connect
    BY <1>3, BoundsAssumption DEF Connect, kafka, subscription, buffers, pump
  <1>4. CASE Disconnect
    BY <1>4 DEF Disconnect, pump
  <1>5. CASE \E now \in BOOLEAN : Assign(now)
    BY <1>5 DEF Assign, SetAssignment, RefreshedAssignment, buffers, pump
  <1>6. CASE Pump
    BY <1>6 DEF Pump, subscription, buffers
  <1>7. CASE OnEventFrame
    BY <1>7 DEF OnEventFrame, SetAssignment, RefreshedAssignment, buffers
  <1>8. CASE PollTick
    BY <1>8 DEF PollTick, subscription, buffers
  <1>9. CASE Route
    BY <1>9 DEF Route, kafka, subscription
  <1>10. CASE Serve
    BY <1>10 DEF Serve, kafka, subscription
  <1>11. CASE DrainFlowing
    BY <1>11 DEF DrainFlowing, kafka, subscription
  <1>12. CASE ListenerReturns \/ ListenerThrows \/ RunMicrotask \/ RunCatch
    BY <1>12 DEF ListenerReturns, ListenerThrows, RunMicrotask, RunCatch, kafka, subscription,
                 buffers, pump
  <1>13. CASE Arrive \/ Rebalance \/ Deadline
    BY <1>13 DEF Arrive, Rebalance, Deadline, kafka, subscription, buffers, pump
  <1>14. CASE UNCHANGED vars
    BY <1>14 DEF vars, kafka, subscription, buffers, pump
  <1> QED
    BY <1>1, <1>2, <1>3, <1>4, <1>5, <1>6, <1>7, <1>8, <1>9, <1>10, <1>11, <1>12, <1>13, <1>14
    DEF Next, User, Round, Kafka

(* The callbacks that are called again: only RunMicrotask and RunCatch     *)
(* speak of them.                                                          *)
LEMMA OthersCallNone ==
  ASSUME [Next]_vars, ~ RunMicrotask, ~ RunCatch
  PROVE  UNCHANGED <<replies, again, catching>>
  <1>1. CASE \E n \in Sizes : Consume(n)
    BY <1>1 DEF Consume, callbacks
  <1>2. CASE Flow \/ Subscribe \/ Unsubscribe \/ Commit \/ Ask \/ Connect \/ Disconnect
    BY <1>2 DEF Flow, Subscribe, Unsubscribe, Commit, Ask, Connect, Disconnect, callbacks
  <1>3. CASE \E now \in BOOLEAN : Assign(now)
    BY <1>3 DEF Assign, callbacks
  <1>4. CASE Round
    BY <1>4 DEF Round, Pump, OnEventFrame, PollTick, Route, Serve, DrainFlowing, callbacks
  <1>5. CASE ListenerReturns \/ ListenerThrows
    BY <1>5 DEF ListenerReturns, ListenerThrows, callbacks
  <1>6. CASE Kafka
    BY <1>6 DEF Kafka, Arrive, Rebalance, Deadline, callbacks
  <1>7. CASE UNCHANGED vars
    BY <1>7 DEF vars, callbacks
  <1> QED BY <1>1, <1>2, <1>3, <1>4, <1>5, <1>6, <1>7 DEF Next, User

LEMMA CalledStep ==
  ASSUME Stores, Called, [Next]_vars
  PROVE  Called'
  <1> DEFINE n == Len(replies)
  <1>1. n \in Nat /\ replies \in Seq(Jobs) /\ DOMAIN again = 1..Len(again) /\ Len(again) \in Nat
    BY DEF Stores, Called
  <1>2. CASE RunMicrotask
    <2>1. /\ replies' = Append(replies, Head(micro)) /\ ~ catching /\ again' = again
          /\ catching' \in BOOLEAN /\ (catching' => Head(micro).by = "broker")
      BY <1>2 DEF RunMicrotask, InTry
    <2>2. /\ Len(replies') = n + 1 /\ replies'[n + 1] = Head(micro)
          /\ \A k \in 1..n : replies'[k] = replies[k]
      BY <1>1, <2>1
    <2>3. \A i \in DOMAIN again : again[i] \in 1..n /\ again[i] \in 1..n + 1 /\ again[i] < n + 1
      BY <1>1 DEF Called
    <2> HIDE DEF n
    <2>4. catching' => /\ Len(replies') > 0 /\ replies'[Len(replies')].by = "broker"
                       /\ \A i \in DOMAIN again' : again'[i] < Len(replies')
      BY <1>1, <2>1, <2>2, <2>3
    <2>5. \A i \in DOMAIN again' : again'[i] \in 1..Len(replies') /\ replies'[again'[i]].by = "broker"
      BY <2>1, <2>2, <2>3 DEF Called
    <2> QED BY <2>1, <2>4, <2>5 DEF Called
  <1>3. CASE RunCatch
    <2>1. /\ catching /\ catching' = FALSE /\ replies' = replies /\ again' = Append(again, n)
      BY <1>3 DEF RunCatch
    <2> DEFINE m == Len(again)
    <2>2. /\ m \in Nat /\ again' \in Seq(Nat) /\ DOMAIN again' = 1..m + 1 /\ again'[m + 1] = n
          /\ \A i \in 1..m : again'[i] = again[i]
      BY <1>1, <2>1 DEF Called
    <2>3. n \in 1..n /\ replies[n].by = "broker" /\ \A i \in 1..m : again[i] < n
      <3>1. n > 0 /\ replies[n].by = "broker" /\ \A i \in DOMAIN again : again[i] < n
        BY <2>1, Zenon DEF Called
      <3> QED BY <1>1, <3>1
    <2>4. /\ \A i \in 1..m : again[i] \in 1..n /\ replies[again[i]].by = "broker"
          /\ \A i, j \in 1..m : i < j => again[i] < again[j]
      BY <1>1 DEF Called
    <2>5. Len(replies') = n
      BY <2>1
    <2> HIDE DEF n, m
    <2>6. \A i \in 1..m + 1 : i \in 1..m \/ i = m + 1
      BY <2>2
    <2>7. \A i \in DOMAIN again' : again'[i] \in 1..n /\ replies[again'[i]].by = "broker"
      BY <2>2, <2>3, <2>4, <2>6
    <2>8. ASSUME NEW i \in DOMAIN again', NEW j \in DOMAIN again', i < j
          PROVE  again'[i] < again'[j]
      <3>1. i \in 1..m
        BY <2>2, <2>8
      <3> QED BY <2>2, <2>3, <2>4, <2>6, <2>8, <3>1
    <2> QED BY <2>1, <2>2, <2>5, <2>7, <2>8 DEF Called
  <1>4. CASE UNCHANGED <<replies, again, catching>>
    BY <1>4 DEF Called
  <1> QED BY <1>2, <1>3, <1>4, OthersCallNone

LEMMA NextConsumerInv == ConsumerInv /\ [Next]_vars => ConsumerInv'
  <1> SUFFICES ASSUME ConsumerInv, [Next]_vars
               PROVE  Stores' /\ Ordered' /\ Kept' /\ Accounted'
    BY NextFlags, CalledStep DEF ConsumerInv
  <1>1. Stores /\ Phases /\ Ordered /\ Kept /\ Accounted
    BY DEF ConsumerInv
  <1>2. CASE UNCHANGED <<log, queue, batch, buffer, pending, micro, replies, delivered, dropped>>
    BY <1>1, <1>2, LineUnchanged, AccountUnchanged DEF Stores
  <1>3. CASE \E n \in Sizes : Consume(n)
    BY <1>1, <1>3, ConsumeTurn
  <1>4. CASE \/ Flow \/ Subscribe \/ Unsubscribe \/ Commit \/ Connect
             \/ \E now \in BOOLEAN : Assign(now)
    BY <1>2, <1>4 DEF Flow, Subscribe, Unsubscribe, Commit, Connect, Assign, kafka, buffers, pump,
                      callbacks, counters
  <1>5. CASE Ask
    BY <1>1, <1>5, AskTurn
  <1>6. CASE Disconnect
    BY <1>1, <1>6, DisconnectTurn
  <1>7. CASE Pump \/ OnEventFrame
    BY <1>2, <1>7 DEF Pump, OnEventFrame, buffers, callbacks, counters
  <1>8. CASE PollTick
    <2>1. UNCHANGED <<replies, micro, pending>>
      BY <1>8 DEF PollTick, buffers, callbacks
    <2> QED BY <1>1, <1>8, <2>1, PollStep, AccountUnchanged
  <1>9. CASE Route
    <2>1. UNCHANGED <<replies, micro, pending>>
      BY <1>9 DEF Route, callbacks
    <2> QED BY <1>1, <1>9, <2>1, RouteStep, AccountUnchanged
  <1>10. CASE Serve
    BY <1>1, <1>10, ServeTurn
  <1>11. CASE DrainFlowing
    <2>1. UNCHANGED <<replies, micro, pending>>
      BY <1>11 DEF DrainFlowing
    <2> QED BY <1>1, <1>11, <2>1, DrainStep, AccountUnchanged
  <1>12. CASE ListenerReturns
    BY <1>2, <1>12 DEF ListenerReturns, kafka, buffers, pump, callbacks, counters
  <1>13. CASE ListenerThrows
    <2>1. UNCHANGED <<replies, micro, pending>>
      BY <1>13 DEF ListenerThrows, buffers
    <2> QED BY <1>1, <1>13, <2>1, ThrowStep, AccountUnchanged
  <1>14. CASE RunMicrotask
    BY <1>1, <1>14, CallbackStep, CallbackAccounts
  <1>19. CASE RunCatch
    BY <1>2, <1>19 DEF RunCatch, kafka, buffers, pump, counters
  <1>15. CASE Arrive
    <2>1. UNCHANGED <<replies, micro, pending>>
      BY <1>15 DEF Arrive, buffers, callbacks
    <2> QED BY <1>1, <1>15, <2>1, ArriveStep, AccountUnchanged
  <1>16. CASE Rebalance
    BY <1>2, <1>16 DEF Rebalance, buffers, pump, callbacks
  <1>17. CASE Deadline
    BY <1>1, <1>17, DeadlineTurn
  <1>18. CASE UNCHANGED vars
    BY <1>2, <1>18 DEF vars, kafka, buffers, pump, callbacks, counters
  <1> QED
    BY <1>3, <1>4, <1>5, <1>6, <1>7, <1>8, <1>9, <1>10, <1>11, <1>12, <1>13, <1>14, <1>15, <1>16,
       <1>17, <1>18, <1>19
    DEF Next, User, Round, Kafka

LEMMA ConsumerInvAlways == Spec => []ConsumerInv
  <1> QED BY InitConsumerInv, NextConsumerInv, PTL DEF Spec

(* The variables keep their types, and the array of the buffer is blank    *)
(* exactly where messages were taken.                                      *)
THEOREM TypeCorrect == Spec => []TypeOK
  <1>1. ConsumerInv => TypeOK
    <2> SUFFICES ASSUME ConsumerInv PROVE TypeOK
      OBVIOUS
    <2>1. Flags /\ Phases /\ catching \in BOOLEAN /\ buffer \in Fifos(Msgs) /\ Tidy(buffer) /\ pending \in Seq(Asks)
      BY DEF ConsumerInv, Stores, Called
    <2>2. Blank \notin Msgs
      BY BlankAssumption DEF Msgs, Records
    <2>3. /\ buffer.head \in 0 .. Len(buffer.items)
          /\ \A i \in DOMAIN buffer.items : (buffer.items[i] = Blank) = (i <= buffer.head)
      BY <2>1, <2>2, BlanksAre
    <2>4. \A i \in DOMAIN pending : pending[i] \in [id : 1 .. MaxRequests, n : Sizes, due : BOOLEAN]
      <3>1. \A i \in DOMAIN pending : pending[i] \in Asks
        BY <2>1
      <3> QED BY <3>1 DEF Asks
    <2> QED BY <2>1, <2>3, <2>4 DEF TypeOK, Flags, Phases
  <1> QED BY <1>1, ConsumerInvAlways, PTL

(* Every message consumed reaches the user once and in order, through any  *)
(* mix of consume(n), flowing mode, disconnects and listeners that throw,  *)
(* and none is lost before the first of these: whatever the cap, the       *)
(* batches and the threshold at which the buffer is cut.                   *)
THEOREM DeliveredOnceAlways == Spec => []DeliveredOnce
  <1>1. ConsumerInv => DeliveredOnce
    <2> SUFFICES ASSUME ConsumerInv PROVE DeliveredOnce
      OBVIOUS
    <2>1. Stores /\ Ordered /\ Kept
      BY DEF ConsumerInv
    <2>2. InOrderOnce /\ Logged(Ahead \cup Messages(micro), log)
      BY <2>1 DEF Ordered
    <2> DEFINE held == UNION {Numbers(s) : s \in {queue, batch, Contents(buffer)}
                                              \cup {micro[j].messages : j \in DOMAIN micro}}
               got == {d.no : d \in ToSet(delivered)}
    <2>3. ASSUME ~ dropped, NEW no \in DOMAIN log, log[no] = "msg" PROVE no \in held \cup got
      <3>1. PICK x \in Ahead \cup Messages(micro) \cup ToSet(delivered) : x.no = no
        BY <2>1, <2>3 DEF Kept
      <3>2. CASE x \in ToSet(delivered)
        BY <3>1, <3>2
      <3>3. CASE x \in Ahead \cup Messages(micro)
        <4>1. x.kind = "msg"
          BY <2>2, <2>3, <3>1, <3>3 DEF Logged
        <4>2. ASSUME NEW s, x \in ToSet(s) PROVE no \in Numbers(s)
          BY <3>1, <4>1, <4>2 DEF Numbers
        <4>3. CASE x \in Ahead
          BY <4>2, <4>3 DEF Ahead, Buffered
        <4>4. CASE x \in Messages(micro)
          <5>1. PICK j \in 1..Len(micro) : x \in ToSet(micro[j].messages)
            BY <2>1, <4>4, MessagesOf DEF Stores
          <5>2. j \in DOMAIN micro
            BY <2>1 DEF Stores
          <5> QED BY <4>2, <5>1, <5>2
        <4> QED BY <3>3, <4>3, <4>4
      <3> QED BY <3>1, <3>2, <3>3
    <2>4. NothingLost
      BY <2>3 DEF NothingLost
    <2> QED BY <2>2, <2>4 DEF DeliveredOnce
  <1> QED BY <1>1, ConsumerInvAlways, PTL

(* Every request is answered and none is forgotten, however consume(n),    *)
(* its deadline, disconnect() and the other calls interleave; no answer    *)
(* has more messages than a request may ask for; and only the callbacks of *)
(* committed(), offsetsForTimes() and seek() that throw inside the try of  *)
(* their caller are called again, once each.                               *)
THEOREM AnsweredOnceAlways == Spec => []AnsweredOnce
  <1>1. ConsumerInv => AnsweredOnce
    <2> SUFFICES ASSUME ConsumerInv PROVE AnsweredOnce
      OBVIOUS
    <2>1. /\ Ids(replies) \cup Ids(micro) \cup Ids(pending) = 1..Requests
          /\ Enough(replies) /\ Enough(micro)
      BY DEF ConsumerInv, Accounted
    <2>2. {pending[i].id : i \in DOMAIN pending} = Ids(pending)
      BY DEF Ids, ToSet
    <2>3. {r.id : r \in Owed} = Ids(replies) \cup Ids(micro)
      BY DEF Owed, Ids
    <2>4. \A r \in Owed : r.messages # <<>> => \E n \in Sizes : Len(r.messages) <= n
      BY <2>1 DEF Owed, Enough
    <2>5. \A i \in DOMAIN again :
            /\ again[i] \in DOMAIN replies /\ replies[again[i]].by = "broker"
            /\ \A j \in DOMAIN again : i < j => again[i] < again[j]
      <3>1. Stores /\ Called
        BY DEF ConsumerInv
      <3>2. DOMAIN replies = 1..Len(replies)
        BY <3>1 DEF Stores
      <3> QED BY <3>1, <3>2 DEF Called
    <2> QED BY <2>1, <2>2, <2>3, <2>4, <2>5 DEF AnsweredOnce
  <1> QED BY <1>1, ConsumerInvAlways, PTL
=============================================================================

-------------------------------- MODULE Fifo --------------------------------
(* core/fifo.ts: a queue in an array.  The first head slots of items were    *)
(* taken and are blank; the array is cut when everything was taken, or when  *)
(* CompactAt slots and at least half of it are blank.                        *)
EXTENDS Naturals, Sequences

CONSTANTS
    CompactAt,   \* 1024
    Blank        \* undefined, in a slot that was taken

ASSUME CompactAtAssumption == CompactAt \in Nat

EmptyFifo == [items |-> <<>>, head |-> 0]

\* What the queue holds, oldest first.
Contents(f) == SubSeq(f.items, f.head + 1, Len(f.items))
Length(f) == Len(f.items) - f.head

Push(f, item) == [f EXCEPT !.items = Append(f.items, item)]

CompactEarly(f) ==
    IF f.head >= CompactAt /\ f.head * 2 >= Len(f.items)
    THEN [items |-> SubSeq(f.items, f.head + 2, Len(f.items)), head |-> 0]
    ELSE f
Compact(f) ==
    IF f.head = Len(f.items) THEN EmptyFifo
    ELSE IF f.head >= CompactAt /\ f.head * 2 >= Len(f.items)
         THEN [items |-> SubSeq(f.items, f.head + 1, Len(f.items)), head |-> 0]
         ELSE f

\* The slots up to end are taken.
AdvanceUnblanked(f, end) == Compact([items |-> f.items, head |-> end])
Advance(f, end) ==
    Compact([items |-> [i \in 1 .. Len(f.items) |->
                           IF i > f.head /\ i <= end THEN Blank ELSE f.items[i]],
             head |-> end])

\* take(n) returns Taken and leaves Take; shift() is take(1) of a queue that
\* is not empty.
End(f, n) == IF f.head + n < Len(f.items) THEN f.head + n ELSE Len(f.items)
TakenOf(f, n) == SubSeq(f.items, f.head + 1, End(f, n))
Take(f, n) == Advance(f, End(f, n))
First(f) == f.items[f.head + 1]
Shift(f) == Advance(f, f.head + 1)
=============================================================================

------------------------------ MODULE Channel ------------------------------
(***************************************************************************)
(* What the queues between two parties promise, one lane per kind of item. *)
(* `source` is what one party has yet to send, in order; what is sent is   *)
(* received once, in that order, and nothing else is. A step may carry     *)
(* several items, of several lanes. Closing the channel drops what is in   *)
(* it. The detailed modules show that the path a record or an event takes  *)
(* through them is such a channel.                                         *)
(***************************************************************************)
EXTENDS Naturals, Sequences

CONSTANT Lanes
VARIABLES source, queue, received, closed  \* the first three per lane

Init == /\ \A lane \in Lanes : queue[lane] = <<>> /\ received[lane] = <<>>
        /\ ~closed

Send(lane, n) ==
  /\ queue'[lane] = queue[lane] \o SubSeq(source[lane], 1, n)
  /\ source'[lane] = SubSeq(source[lane], n + 1, Len(source[lane]))
  /\ received'[lane] = received[lane]

Receive(lane, n) ==
  /\ received'[lane] = received[lane] \o SubSeq(queue[lane], 1, n)
  /\ queue'[lane] = SubSeq(queue[lane], n + 1, Len(queue[lane]))
  /\ source'[lane] = source[lane]

Carry ==
  /\ ~closed /\ ~closed'
  /\ \A lane \in Lanes : \/ \E n \in 0..Len(source[lane]) : Send(lane, n)
                         \/ \E n \in 1..Len(queue[lane]) : Receive(lane, n)

Close ==
  /\ closed'
  /\ \A lane \in Lanes : queue'[lane] = <<>>
  /\ UNCHANGED <<source, received>>

Next == Carry \/ Close

Spec == Init /\ [][Next]_<<source, queue, received, closed>>
=============================================================================

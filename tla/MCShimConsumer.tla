--------------------------- MODULE MCShimConsumer ---------------------------
(***************************************************************************)
(* Instances of ShimConsumer. Sizes are relative to a consume buffer of 4  *)
(* and an event buffer of 2: records that fit together, alone, or not at   *)
(* all, and a topic object (rkt) that is recycled for another topic.       *)
(***************************************************************************)
EXTENDS ShimConsumer

Record(id, rkt, topic, size) == [id |-> id, rkt |-> rkt, topic |-> topic, size |-> size]
Fetch(records) == [kind |-> "fetch", records |-> records]
Eof(records) == [kind |-> "eof", records |-> records]
Event(kind, id, size) == [kind |-> kind, id |-> id, size |-> size]

LargeRecords ==
  [consumer |-> <<Fetch(<<Record(1, "p", "t", 9), Record(2, "p", "t", 6)>>),
                  Event("consumer", 11, 1),
                  Fetch(<<Record(3, "p", "u", 1), Record(4, "p", "t", 2)>>)>>,
   main |-> <<>>]
MixedRecords ==
  [consumer |-> <<Fetch(<<Record(1, "p", "t", 2), Record(2, "q", "u", 3)>>),
                  Eof(<<Record(3, "none", "u", 1)>>), Eof(<<>>),
                  Event("ignored", 10, 1), Event("consumer", 11, 3)>>,
   main |-> <<Event("main", 21, 3)>>]
ManyEvents ==
  [consumer |-> <<Event("consumer", 11, 1), Event("consumer", 12, 2)>>,
   main |-> <<Event("throttle", 21, 1), Event("main", 22, 1), Event("ignored", 23, 1),
              Event("main", 24, 3)>>]

AllScripts == {LargeRecords, MixedRecords, ManyEvents}
Modes == BOOLEAN
=============================================================================

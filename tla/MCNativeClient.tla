-------------------------- MODULE MCNativeClient --------------------------
(***************************************************************************)
(* An instance of NativeClient: lists with and without offsets and         *)
(* metadata, entries and messages that do not fit the first buffers, and   *)
(* either messages or events.                                              *)
(***************************************************************************)
EXTENDS NativeClient

CONSTANTS orders, bills

In(topic, offset, epoch, metadata) ==
  [topic |-> topic, partition |-> 0, offset |-> offset, epoch |-> epoch, metadata |-> metadata]

MCNameSize == [t \in Topics |-> IF t = orders THEN 2 ELSE 4]
Plain == <<In(orders, 1, None, None)>>
Other == <<In(bills, 4, 2, None)>>
Noted == <<In(bills, 2, 1, <<7, 7>>)>>
Both == <<In(bills, None, None, <<>>), In(orders, 2, 0, None)>>
Overlong == <<In(orders, 3, None, <<7, 7, 7>>)>>
MCLists == {Plain, Other, Noted, Both, Overlong}
MCSubscriptions == {<<bills, orders>>}
Message(topic, offset, value) ==
  [topic |-> topic, partition |-> 0, offset |-> offset, value |-> value]
MCTraffic ==
  {[messages |-> <<Message(bills, 0, <<5>>), Message(bills, 1, None), Message(orders, 0, <<6, 6, 6>>)>>,
    events |-> <<>>],
   [messages |-> <<>>, events |-> <<None, Both>>]}
===========================================================================

---------------------------- MODULE MC_MeshServer ----------------------------
(***************************************************************************)
(* Two generated nodes of which one is a repeater, an observer, packets    *)
(* cut short or of another route, and posted packets.                      *)
(* A tick is five minutes in some places and longer in others: an hour is  *)
(* two ticks, a day three, so that all thresholds are crossed.             *)
(***************************************************************************)
EXTENDS MeshServer

CONSTANTS o1, k1

\* "West", a repeater, and "E", a companion.
West == [id |-> << 161, 2, 3, 4 >>, name |-> << 87, 101, 115, 116 >>,
         lat |-> 16909060, lng |-> -7, role |-> 1]
East == [id |-> << 178, 195, 0, 9 >>, name |-> << 69 >>, lat |-> 300, lng |-> 12, role |-> 3]
MCNode == {West, East}

Greeting == << 104, 105 >>
MCMessage == {Greeting}

MCRoutes == {<< East, West, East >>}

\* A toy cipher: the text is the ciphertext, and the key adds one.
MCMac(text, key) == << Len(text), 1 >>
MCDecrypt(text, key) == text
MCChannelKeys == << [name |-> "fargo", key |-> k1] >>

\* A group text of channel "fargo"; an advert of a repeater that ends in its
\* latitude; a path longer than its packet; a transport code cut off; an
\* acknowledgement over a transport route.
MCFrames ==
  { << 21, 1, 7, 104, 105, 2, 1 >>,
    << 17, 1, 5 >> \o [i \in 1 .. 102 |-> i % 7] \o << 1, 9 >>,
    << 17, 194, 1, 2, 3 >>,
    << 12, 1, 2 >>,
    << 15, 1, 2, 3, 4, 1, 8 >> }

MCObserver == {o1}

Body == [type |-> "direct", hopPath |-> << >>, snr |-> NULL, channel |-> NULL,
         observerId |-> o1, sourceId |-> Gen!bytesToHex(West.id),
         destId |-> Gen!bytesToHex(East.id), destinationId |-> NULL]
MCPosts ==
  { Body,
    [Body EXCEPT !.type = "ROUTING_APP", !.snr = -9, !.destinationId = Gen!bytesToHex(East.id)] }

MCDistance(a, b) == IF a[1] >= b[1] THEN a[1] - b[1] ELSE b[1] - a[1]

MCWindowLength == [day |-> 3]

MCSnr == -5

MCZone == -2
=============================================================================

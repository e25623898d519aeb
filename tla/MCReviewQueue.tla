---------------------------- MODULE MCReviewQueue ----------------------------
(***************************************************************************)
(* One URL that shows two texts.  Text a is first seen, gives way to text b, *)
(* comes back and stays, or its check fails; one packet is compared with a *)
(* text the queue may not have seen.  They are imported in any order.      *)
(***************************************************************************)
EXTENDS ReviewQueue, TLC

CONSTANTS u1, a, b

Packet(t, v, p) == [url |-> u1, captured_at |-> t, version |-> v, prior |-> p]

SomeCaptures ==
  {Packet(1, a, NULL), Packet(2, b, a), Packet(2, b, b),
   Packet(3, a, b), Packet(4, a, a), Packet(4, NULL, a)}
=============================================================================

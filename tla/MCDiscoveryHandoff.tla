------------------------- MODULE MCDiscoveryHandoff -------------------------
(***************************************************************************)
(* One URL.  The index shows metadata 1, is checked again, changes to      *)
(* metadata 2 and back; its document shows text 1, text 2 in between, or   *)
(* fails.  Six events order imports, reviews and decisions of both queues. *)
(***************************************************************************)
EXTENDS DiscoveryHandoff

CONSTANTS u1, meta1, meta2, text1, text2

Packet(k, t, v) == [run |-> k, finished_at |-> t, entries |-> <<[url |-> u1, at |-> t, meta |-> v]>>]

SomePackets == {Packet(1, 1, meta1), Packet(2, 2, meta2), Packet(3, 3, meta1), Packet(4, 4, meta1)}

Check(t, v, p) == [url |-> u1, captured_at |-> t, version |-> v, prior |-> p]

SomeCaptures == {Check(2, text1, None), Check(3, text2, text1), Check(4, text1, text1), Check(5, None, text1)}
=============================================================================

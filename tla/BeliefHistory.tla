---------------------------- MODULE BeliefHistory ----------------------------
(***************************************************************************)
(* What the bitemporal store promises, whatever its tables are: for every  *)
(* slot (a claim series and a valid_from) there is one history that tells  *)
(* which claim was believed at each knowledge time.  A new claim replaces  *)
(* the belief from its clock on and touches no earlier knowledge time, and *)
(* it is only accepted where no belief has changed since: history is       *)
(* extended at its end.                                                    *)
(***************************************************************************)
EXTENDS Naturals

CONSTANTS Slot, Time, ClaimId, NULL   \* Time is a set of naturals

VARIABLE belief

TypeOK == belief \in [Slot -> [Time -> ClaimId \cup {NULL}]]

Init == belief = [s \in Slot |-> [k \in Time |-> NULL]]

\* The belief held just before t.
Earlier(t) == {k \in Time : k < t}
Before(s, t) ==
  IF Earlier(t) = {} THEN NULL
  ELSE belief[s][CHOOSE k \in Earlier(t) : \A j \in Earlier(t) : j <= k]

Fresh(c) == \A s \in Slot, k \in Time : belief[s][k] # c

\* Nothing was learnt about the slot at t or later.
Settled(s, t) == \A k \in Time : k >= t => belief[s][k] = Before(s, t)

Believe(s, t, c) ==
  /\ Fresh(c)
  /\ Settled(s, t)
  /\ belief' = [belief EXCEPT ![s] = [k \in Time |-> IF k < t THEN @[k] ELSE c]]

Next == \E s \in Slot, t \in Time, c \in ClaimId : Believe(s, t, c)

Spec == Init /\ [][Next]_belief
=============================================================================

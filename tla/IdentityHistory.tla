--------------------------- MODULE IdentityHistory ---------------------------
(***************************************************************************)
(* What the identity tables promise, whatever they are: a set of facts "on *)
(* this date, as known at this time, that observed entity was that         *)
(* canonical one".  Facts are only added where nothing was said yet, and   *)
(* an identity is only withdrawn from some later knowledge time on, never  *)
(* from the time it was first known: no identity is ever overwritten by    *)
(* another one, and none is erased.                                        *)
(***************************************************************************)
EXTENDS Naturals

CONSTANTS Entity, Date, Time   \* Time is a set of naturals

VARIABLE facts

Fact == [observed : Entity, date : Date, known : Time, canonical : Entity]

Init == facts = {}

SameCell(f, g) == f.observed = g.observed /\ f.date = g.date /\ f.known = g.known

\* One entity, on some dates, becomes c: only where nothing was said of it.
Fill ==
  LET later == facts'
      new == later \ facts
  IN /\ facts \subseteq later
     /\ \A f, g \in new : f.observed = g.observed /\ f.canonical = g.canonical
     /\ \A f \in new, g \in later : SameCell(f, g) => f = g

\* One entity ceases to be c on some dates, from the knowledge time u on; that it
\* was c had been known before u, and remains so.
Withdraw ==
  LET later == facts'
      gone == facts \ later
  IN /\ later \subseteq facts
     /\ \A f, g \in gone : f.observed = g.observed /\ f.canonical = g.canonical
     /\ \E u \in Time : \A f \in gone :
          /\ f.known >= u
          /\ \A t \in Time : t >= u => [f EXCEPT !.known = t] \in gone
          /\ \E t \in Time : t < u /\ [f EXCEPT !.known = t] \in later

Next == Fill \/ Withdraw

Spec == Init /\ [][Next]_facts
=============================================================================

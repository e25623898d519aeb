----------------------- MODULE EntityResolutionProofs -----------------------
(***************************************************************************)
(* Proofs about EntityResolution, for any rows of the claim store and any  *)
(* clocks.  What a reader is shown rests on a chain of rows; each link of  *)
(* the chain is an invariant (RunChain, CandidateChain, DecisionChain,     *)
(* AssignmentChain), and later links keep earlier ones because nothing of  *)
(* a finalized run changes.                                                *)
(***************************************************************************)
EXTENDS EntityResolution, TLAPS

\* A stored run has a start; a finalized one a completion; its inputs had completed.
RunChain ==
  \A r \in ResolutionRun :
    /\ status[r] # "absent" => started_at[r] \in Time
    /\ status[r] \in {"succeeded", "failed"} => completed_at[r] \in Time
    /\ \A n \in inputs[r] : /\ status[r] # "absent" /\ CompletedAt[n] # NULL
                            /\ CompletedAt[n] <= started_at[r]

\* A candidate's run is stored, and compared what was known at its start.
CandidateChain ==
  \A c \in Candidate : created_at[c] # NULL =>
    /\ status[c.run] # "absent"
    /\ started_at[c.run] <= created_at[c]
    /\ RecordRun[c.record] \in inputs[c.run]
    /\ \A v \in cited[c] :
         ClaimRun[v] \in inputs[c.run] /\ ClaimRecordedAt[v] <= started_at[c.run]
    /\ EntityCreatedAt[c.canonical] <= started_at[c.run]
    /\ status[c.run] \in {"succeeded", "failed"} => created_at[c] <= completed_at[c.run]

DecisionChain ==
  \A c \in Candidate : decision[c] # NULL =>
    /\ created_at[c] # NULL /\ status[c.run] = "succeeded"
    /\ created_at[c] <= decision[c].decided_at
    /\ completed_at[c.run] <= decision[c].decided_at

AssignmentChain ==
  \A c \in Candidate : assignment[c] # NULL =>
    /\ decision[c] # NULL /\ decision[c].outcome = "match"
    /\ decision[c].decided_at <= assignment[c].recorded_at
    /\ BeginsBefore(assignment[c].recorded_at, superseded_at[c])

\* No two assignments of one entity overlap in both times.
Disjoint ==
  \A c, e \in Candidate :
    c # e /\ c.observed = e.observed /\ assignment[c] # NULL /\ assignment[e] # NULL =>
      ~Overlaps(e, assignment[c], superseded_at[c])

IInv == TypeOK /\ RunChain /\ CandidateChain /\ DecisionChain /\ AssignmentChain /\ Disjoint

-----------------------------------------------------------------------------
LEMMA CandidateFields ==
  ASSUME NEW c \in Candidate
  PROVE  /\ c.run \in ResolutionRun /\ c.record \in SourceRecord
         /\ c.observed \in Entity /\ c.canonical \in Entity
BY RowAssumption

LEMMA NullIsNoTime == NULL \notin Time
BY ClockAssumption

LEMMA AssignmentFields ==
  ASSUME NEW a \in Assignment
  PROVE  /\ a.recorded_at \in Time /\ a.recorded_at \in Nat /\ a # NULL
         /\ a.valid_from \in Date /\ a.valid_from \in Nat
         /\ a.valid_to \in Date \cup {NULL}
BY ClockAssumption DEF Assignment

LEMMA DecisionFields ==
  ASSUME NEW a \in Decision
  PROVE  /\ a.decided_at \in Time /\ a.decided_at \in Nat /\ a # NULL
         /\ a.outcome \in Outcome
BY ClockAssumption DEF Decision

LEMMA InitIInv == Init => IInv
<1> SUFFICES ASSUME Init PROVE IInv
  OBVIOUS
<1>1. TypeOK
  BY DEF Init, TypeOK, Status
<1>2. RunChain
  BY DEF Init, RunChain
<1>3. CandidateChain
  BY DEF Init, CandidateChain
<1>4. DecisionChain /\ AssignmentChain /\ Disjoint
  BY DEF Init, DecisionChain, AssignmentChain, Disjoint
<1> QED
  BY <1>1, <1>2, <1>3, <1>4 DEF IInv

-----------------------------------------------------------------------------
LEMMA AddRunIInv ==
  ASSUME IInv, NEW r \in ResolutionRun, NEW t \in StartTimes, AddRun(r, t)
  PROVE  IInv'
<1> USE DEF IInv
<1>0. t \in Time /\ t \in Nat
  BY ClockAssumption
<1>1. TypeOK'
  BY <1>0 DEF TypeOK, AddRun, cohort, identity, Status
<1>2. RunChain'
  BY <1>0 DEF TypeOK, AddRun, cohort, identity, RunChain
<1>3. CandidateChain'
  BY CandidateFields DEF TypeOK, AddRun, cohort, identity, CandidateChain
<1>4. DecisionChain'
  BY CandidateFields DEF TypeOK, AddRun, cohort, identity, DecisionChain
<1>5. AssignmentChain' /\ Disjoint'
  BY DEF AddRun, identity, AssignmentChain, Disjoint, Overlaps
<1> QED
  BY <1>1, <1>2, <1>3, <1>4, <1>5

LEMMA AddRunInputIInv ==
  ASSUME IInv, NEW r \in ResolutionRun, NEW n \in IngestionRun, AddRunInput(r, n)
  PROVE  IInv'
<1> USE DEF IInv
<1>1. TypeOK'
  BY DEF TypeOK, AddRunInput, runs, identity
<1>2. RunChain'
  BY DEF TypeOK, AddRunInput, runs, identity, RunChain
<1>3. CandidateChain'
  BY CandidateFields DEF TypeOK, AddRunInput, runs, identity, CandidateChain
<1>4. DecisionChain'
  BY DEF AddRunInput, runs, identity, DecisionChain
<1>5. AssignmentChain' /\ Disjoint'
  BY DEF AddRunInput, identity, AssignmentChain, Disjoint, Overlaps
<1> QED
  BY <1>1, <1>2, <1>3, <1>4, <1>5

LEMMA FinalizeRunIInv ==
  ASSUME IInv, NEW r \in ResolutionRun, NEW o \in {"succeeded", "failed"},
         NEW t \in RunTimes, FinalizeRun(r, o, t)
  PROVE  IInv'
<1> USE DEF IInv
<1>0. t \in Time
  BY ClockAssumption
<1>1. TypeOK'
  BY <1>0 DEF TypeOK, FinalizeRun, cohort, identity, Status
<1>2. RunChain'
  BY <1>0 DEF TypeOK, FinalizeRun, cohort, identity, RunChain
<1>3. CandidateChain'
  BY CandidateFields DEF TypeOK, FinalizeRun, cohort, identity, CandidateChain
<1>4. DecisionChain'
  BY CandidateFields DEF TypeOK, FinalizeRun, cohort, identity, DecisionChain
<1>5. AssignmentChain' /\ Disjoint'
  BY DEF FinalizeRun, identity, AssignmentChain, Disjoint, Overlaps
<1> QED
  BY <1>1, <1>2, <1>3, <1>4, <1>5

LEMMA AddCandidateIInv ==
  ASSUME IInv, NEW c \in Candidate, NEW t \in RunTimes, NEW V \in SUBSET ClaimVersion,
         AddCandidate(c, t, V)
  PROVE  IInv'
<1> USE DEF IInv
<1>0. t \in Time /\ c.run \in ResolutionRun
  BY ClockAssumption, CandidateFields
<1>1. TypeOK'
  BY <1>0 DEF TypeOK, AddCandidate, runs, identity
<1>2. RunChain'
  BY DEF AddCandidate, runs, identity, RunChain
<1>3. CandidateChain'
  BY <1>0 DEF TypeOK, AddCandidate, runs, identity, CandidateChain, HasLineage,
              CutoffSafe, AcceptsCandidates
<1>4. DecisionChain'
  BY <1>0, ClockAssumption
  DEF TypeOK, AddCandidate, runs, identity, DecisionChain, AcceptsCandidates
<1>5. AssignmentChain' /\ Disjoint'
  BY DEF AddCandidate, identity, AssignmentChain, Disjoint, Overlaps
<1> QED
  BY <1>1, <1>2, <1>3, <1>4, <1>5

LEMMA AddDecisionIInv ==
  ASSUME IInv, NEW c \in Candidate, NEW o \in Outcome, NEW t \in DecisionTimes,
         AddDecision(c, o, t)
  PROVE  IInv'
<1> USE DEF IInv
<1> DEFINE d == [outcome |-> o, decided_at |-> t]
<1>0. d \in Decision /\ d # NULL /\ d.decided_at = t
  BY ClockAssumption DEF Decision
<1>1. decision' = [decision EXCEPT ![c] = d]
  BY DEF AddDecision
<1> HIDE DEF d
<1>2. TypeOK'
  BY <1>0, <1>1 DEF TypeOK, AddDecision, runs, cohort, identity
<1>3. RunChain' /\ CandidateChain'
  BY DEF AddDecision, runs, cohort, RunChain, CandidateChain
<1>4. DecisionChain'
  BY <1>0, <1>1 DEF TypeOK, AddDecision, runs, cohort, DecisionChain
<1>5. AssignmentChain'
  BY <1>0, <1>1 DEF TypeOK, AddDecision, identity, AssignmentChain
<1>6. Disjoint'
  BY DEF AddDecision, identity, Disjoint, Overlaps
<1> QED
  BY <1>2, <1>3, <1>4, <1>5, <1>6

\* Overlap is symmetric.
LEMMA OverlapSymmetric ==
  ASSUME NEW c \in Candidate, NEW e \in Candidate,
         Overlaps(e, assignment[c], superseded_at[c])
  PROVE  Overlaps(c, assignment[e], superseded_at[e])
BY DEF Overlaps, ValidTogether

LEMMA AddAssignmentIInv ==
  ASSUME IInv, NEW c \in Candidate, NEW a \in Assignment, NEW u \in Time \cup {NULL},
         AddAssignment(c, a, u)
  PROVE  IInv'
<1> USE DEF IInv
<1>0. /\ assignment' = [assignment EXCEPT ![c] = a]
      /\ superseded_at' = [superseded_at EXCEPT ![c] = u]
      /\ UNCHANGED <<runs, cohort, decision>> /\ assignment[c] = NULL
  BY DEF AddAssignment
<1>1. TypeOK'
  BY <1>0 DEF TypeOK, runs, cohort
<1>2. RunChain' /\ CandidateChain' /\ DecisionChain'
  BY <1>0 DEF runs, cohort, RunChain, CandidateChain, DecisionChain
<1>3. AssignmentChain'
  BY <1>0 DEF TypeOK, AddAssignment, AssignmentChain
<1>4. Disjoint'
  <2> SUFFICES ASSUME NEW x \in Candidate, NEW y \in Candidate, x # y,
                      x.observed = y.observed, assignment'[x] # NULL, assignment'[y] # NULL,
                      Overlaps(y, assignment[x], superseded_at[x])'
               PROVE  FALSE
    BY DEF Disjoint
  <2>1. CASE x # c /\ y # c
    BY <1>0, <2>1 DEF TypeOK, Disjoint, Overlaps
  <2>2. CASE x = c
    <3>1. assignment'[x] = a /\ superseded_at'[x] = u
      BY <1>0, <2>2 DEF TypeOK
    <3>2. assignment'[y] = assignment[y] /\ superseded_at'[y] = superseded_at[y]
      BY <1>0, <2>2 DEF TypeOK
    <3>3. Overlaps(y, a, u)
      BY <3>1, <3>2 DEF Overlaps
    <3> QED
      BY <3>2, <3>3, <2>2 DEF AddAssignment
  <2>3. CASE y = c
    <3>1. assignment'[y] = a /\ superseded_at'[y] = u
      BY <1>0, <2>3 DEF TypeOK
    <3>2. assignment'[x] = assignment[x] /\ superseded_at'[x] = superseded_at[x]
      BY <1>0, <2>3 DEF TypeOK
    <3>3. Overlaps(x, a, u)
      BY <3>1, <3>2 DEF Overlaps, ValidTogether
    <3> QED
      BY <3>2, <3>3, <2>3 DEF AddAssignment
  <2> QED
    BY <2>1, <2>2, <2>3
<1> QED
  BY <1>1, <1>2, <1>3, <1>4

LEMMA SupersedeIInv ==
  ASSUME IInv, NEW c \in Candidate, NEW u \in Time, SupersedeAssignment(c, u)
  PROVE  IInv'
<1> USE DEF IInv
<1>0. /\ superseded_at' = [superseded_at EXCEPT ![c] = u]
      /\ UNCHANGED <<runs, cohort, decision, assignment>>
      /\ assignment[c] # NULL /\ superseded_at[c] = NULL /\ u > assignment[c].recorded_at
  BY DEF SupersedeAssignment, MaySupersede
<1>1. TypeOK'
  BY <1>0 DEF TypeOK, runs, cohort
<1>2. RunChain' /\ CandidateChain' /\ DecisionChain'
  BY <1>0 DEF runs, cohort, RunChain, CandidateChain, DecisionChain
<1>3. AssignmentChain'
  BY <1>0, AssignmentFields, ClockAssumption DEF TypeOK, AssignmentChain, BeginsBefore
<1>4. Disjoint'
  <2> SUFFICES ASSUME NEW x \in Candidate, NEW y \in Candidate, x # y,
                      x.observed = y.observed, assignment[x] # NULL, assignment[y] # NULL,
                      Overlaps(y, assignment[x], superseded_at[x])'
               PROVE  Overlaps(y, assignment[x], superseded_at[x])
    BY <1>0 DEF Disjoint
  <2>1. \A z \in Candidate : superseded_at[z] = NULL \/ superseded_at'[z] = superseded_at[z]
    BY <1>0 DEF TypeOK
  <2> QED
    BY <1>0, <2>1 DEF Overlaps, BeginsBefore
<1> QED
  BY <1>1, <1>2, <1>3, <1>4

LEMMA StutterIInv == IInv /\ UNCHANGED vars => IInv'
BY DEF IInv, vars, runs, cohort, identity, TypeOK, RunChain, CandidateChain,
       DecisionChain, AssignmentChain, Disjoint, Overlaps

LEMMA ValidPeriodRow ==
  ASSUME NEW p \in ValidPeriods, NEW t \in Time
  PROVE  [valid_from |-> p[1], valid_to |-> p[2], recorded_at |-> t] \in Assignment
BY RowAssumption DEF Assignment

LEMMA NextIInv == IInv /\ [Next]_vars => IInv'
<1> SUFFICES ASSUME IInv, [Next]_vars PROVE IInv'
  OBVIOUS
<1>1. CASE UNCHANGED vars
  BY <1>1, StutterIInv
<1>2. CASE \E r \in ResolutionRun, t \in StartTimes : AddRun(r, t)
  BY <1>2, AddRunIInv
<1>3. CASE \E r \in ResolutionRun, n \in IngestionRun : AddRunInput(r, n)
  BY <1>3, AddRunInputIInv
<1>4. CASE \E r \in ResolutionRun, o \in {"succeeded", "failed"}, t \in RunTimes :
             FinalizeRun(r, o, t)
  BY <1>4, FinalizeRunIInv
<1>5. CASE \E c \in Candidate, t \in RunTimes, V \in SUBSET ClaimVersion :
             AddCandidate(c, t, V)
  BY <1>5, AddCandidateIInv
<1>6. CASE \E c \in Candidate, o \in Outcome, t \in DecisionTimes : AddDecision(c, o, t)
  BY <1>6, AddDecisionIInv
<1>7. CASE \E c \in Candidate, p \in ValidPeriods, t \in Time, u \in Time \cup {NULL} :
             AddAssignment(c, [valid_from |-> p[1], valid_to |-> p[2], recorded_at |-> t], u)
  BY <1>7, AddAssignmentIInv, ValidPeriodRow
<1>8. CASE \E c \in Candidate, u \in Time : SupersedeAssignment(c, u)
  BY <1>8, SupersedeIInv
<1> QED
  BY <1>1, <1>2, <1>3, <1>4, <1>5, <1>6, <1>7, <1>8 DEF Next

LEMMA IInvAlways == Spec => []IInv
BY InitIInv, NextIInv, PTL DEF Spec

-----------------------------------------------------------------------------
\* The tables keep their types under any sequence of accepted calls.
THEOREM TypeCorrect == Spec => []TypeOK
<1>1. IInv => TypeOK
  BY DEF IInv
<1> QED
  BY <1>1, IInvAlways, PTL

\* What a reader of the assignments is shown as of k rests on a complete chain, known
\* by k (the lineage triggers of candidates, decisions and assignments).
THEOREM RestsOnKnownAlways == Spec => []RestsOnKnown
<1>1. ASSUME IInv PROVE RestsOnKnown
  <2> USE <1>1 DEF IInv
  <2> SUFFICES ASSUME NEW c \in Candidate, NEW k \in Time, Known(c, k)
               PROVE  RestsOnKnown!(c, k)!2
    BY DEF RestsOnKnown
  <2>1. /\ assignment[c] \in Assignment /\ assignment[c] # NULL
        /\ assignment[c].recorded_at <= k /\ assignment[c].recorded_at \in Nat
    BY AssignmentFields DEF Known, TypeOK
  <2>2. /\ decision[c] # NULL /\ decision[c].outcome = "match"
        /\ decision[c].decided_at <= assignment[c].recorded_at
        /\ decision[c].decided_at \in Nat
    BY <2>1, DecisionFields DEF AssignmentChain, TypeOK
  <2>3. /\ created_at[c] # NULL /\ status[c.run] = "succeeded"
        /\ created_at[c] <= decision[c].decided_at
        /\ completed_at[c.run] <= decision[c].decided_at
    BY <2>2 DEF DecisionChain
  <2>4. /\ c.run \in ResolutionRun /\ created_at[c] \in Nat /\ started_at[c.run] \in Nat
    BY <2>3, CandidateFields, ClockAssumption DEF TypeOK, RunChain
  <2> QED
    BY <2>1, <2>2, <2>3, <2>4, ClockAssumption DEF CandidateChain, RunChain
<1> QED
  BY <1>1, IInvAlways, PTL

\* Two assignments that both cover a date at a knowledge time overlap in both times.
LEMMA SharedMoment ==
  ASSUME NEW a \in Assignment, NEW b \in Assignment,
         NEW u \in Time \cup {NULL}, NEW w \in Time \cup {NULL},
         NEW d \in Date, NEW k \in Time,
         a.recorded_at <= k, BeginsBefore(k, u), b.recorded_at <= k, BeginsBefore(k, w),
         a.valid_from <= d, BeginsBefore(d, a.valid_to),
         b.valid_from <= d, BeginsBefore(d, b.valid_to)
  PROVE  /\ BeginsBefore(a.recorded_at, w) /\ BeginsBefore(b.recorded_at, u)
         /\ ValidTogether(b, a)
<1>1. /\ d \in Nat /\ k \in Nat /\ NULL \notin Nat
      /\ u \in Nat \cup {NULL} /\ w \in Nat \cup {NULL}
      /\ a.recorded_at \in Nat /\ b.recorded_at \in Nat
      /\ a.valid_from \in Nat /\ b.valid_from \in Nat
      /\ a.valid_to \in Nat \cup {NULL} /\ b.valid_to \in Nat \cup {NULL}
  BY AssignmentFields, ClockAssumption
<1>2. BeginsBefore(a.recorded_at, w) /\ BeginsBefore(b.recorded_at, u)
  BY <1>1 DEF BeginsBefore
<1>3. ValidTogether(b, a)
  BY <1>1 DEF ValidTogether, BeginsBefore
<1> QED
  BY <1>2, <1>3

\* No entity is ever shown as two on one date at one knowledge time: the overlap
\* trigger suffices for any number of rows, in any order of clocks.
THEOREM OneCanonicalAlways == Spec => []OneCanonical
<1>1. ASSUME IInv PROVE OneCanonical
  <2> USE <1>1 DEF IInv
  <2> SUFFICES ASSUME NEW o \in Entity, NEW d \in Date, NEW k \in Time,
                      NEW x \in Current(o, d, k), NEW y \in Current(o, d, k), x # y
               PROVE  FALSE
    BY DEF OneCanonical
  <2>1. /\ x \in Candidate /\ y \in Candidate /\ x.observed = y.observed
        /\ Shown(x, d, k) /\ Shown(y, d, k)
    BY DEF Current
  <2>2. assignment[x] \in Assignment /\ assignment[y] \in Assignment
    BY <2>1 DEF TypeOK, Shown, Known
  <2>3. Overlaps(y, assignment[x], superseded_at[x])
    BY <2>1, <2>2, SharedMoment DEF TypeOK, Overlaps, Shown, Known
  <2> QED
    BY <2>1, <2>2, <2>3, AssignmentFields DEF Disjoint
<1> QED
  BY <1>1, IInvAlways, PTL
\* While a decision stands, the alternatives and the evidence of its run do too.
THEOREM SealedOnceAlways == Spec => SealedOnce
<1>1. ASSUME IInv, [Next]_vars PROVE [JudgedStaysPut]_vars
  <2> USE <1>1 DEF IInv
  <2> SUFFICES ASSUME NEW c \in Candidate, decision[c] # NULL
               PROVE  /\ inputs'[c.run] = inputs[c.run]
                      /\ started_at'[c.run] = started_at[c.run]
                      /\ \A e \in Candidate : e.run = c.run =>
                           created_at'[e] = created_at[e] /\ cited'[e] = cited[e]
    BY DEF JudgedStaysPut
  <2>1. status[c.run] = "succeeded" /\ c.run \in ResolutionRun
    BY CandidateFields DEF DecisionChain
  <2>2. CASE UNCHANGED vars
    BY <2>2 DEF vars, runs, cohort
  <2>3. CASE \E r \in ResolutionRun, t \in StartTimes : AddRun(r, t)
    BY <2>1, <2>3 DEF AddRun, cohort, TypeOK
  <2>4. CASE \E r \in ResolutionRun, n \in IngestionRun : AddRunInput(r, n)
    BY <2>1, <2>4 DEF AddRunInput, runs, TypeOK
  <2>5. CASE \E r \in ResolutionRun, o \in {"succeeded", "failed"}, t \in RunTimes :
               FinalizeRun(r, o, t)
    BY <2>5 DEF FinalizeRun, cohort
  <2>6. CASE \E e \in Candidate, t \in RunTimes, V \in SUBSET ClaimVersion :
               AddCandidate(e, t, V)
    BY <2>1, <2>6 DEF AddCandidate, AcceptsCandidates, runs, TypeOK
  <2>7. CASE \E e \in Candidate, o \in Outcome, t \in DecisionTimes : AddDecision(e, o, t)
    BY <2>7 DEF AddDecision, runs, cohort
  <2>8. CASE \E e \in Candidate, p \in ValidPeriods, t \in Time, u \in Time \cup {NULL} :
          AddAssignment(e, [valid_from |-> p[1], valid_to |-> p[2], recorded_at |-> t], u)
    BY <2>8 DEF AddAssignment, runs, cohort
  <2>9. CASE \E e \in Candidate, u \in Time : SupersedeAssignment(e, u)
    BY <2>9 DEF SupersedeAssignment, runs, cohort
  <2> QED
    BY <1>1, <2>2, <2>3, <2>4, <2>5, <2>6, <2>7, <2>8, <2>9 DEF Next
<1> QED
  BY <1>1, IInvAlways, PTL DEF Spec, SealedOnce

-----------------------------------------------------------------------------
\* An accepted assignment adds what it says and nothing else.
LEMMA AssignmentFills ==
  ASSUME IInv, NEW c \in Candidate, NEW a \in Assignment, NEW u \in Time \cup {NULL},
         AddAssignment(c, a, u)
  PROVE  History!Fill
<1> DEFINE new == Extent(c)'
<1>0. /\ assignment' = [assignment EXCEPT ![c] = a]
      /\ superseded_at' = [superseded_at EXCEPT ![c] = u]
      /\ assignment[c] = NULL
      /\ TypeOK /\ a # NULL
  BY AssignmentFields DEF AddAssignment, IInv
<1>1. \A e \in Candidate \ {c} :
        assignment'[e] = assignment[e] /\ superseded_at'[e] = superseded_at[e]
  BY <1>0 DEF TypeOK
<1>2. assignment'[c] = a /\ superseded_at'[c] = u
  BY <1>0 DEF TypeOK
<1>3. \A e \in Candidate \ {c} : Extent(e)' = Extent(e)
  BY <1>1 DEF Extent, Known
<1>4. Facts' = Facts \cup new
  BY <1>0, <1>1, <1>2, <1>3 DEF Facts
<1>5. \A f \in new : /\ f \in History!Fact
                     /\ f.observed = c.observed /\ f.canonical = c.canonical
                     /\ a.valid_from <= f.date /\ BeginsBefore(f.date, a.valid_to)
                     /\ a.recorded_at <= f.known /\ BeginsBefore(f.known, u)
  BY <1>2, CandidateFields DEF Extent, Known, History!Fact
<1> HIDE DEF new
<1>6. ASSUME NEW f \in new, NEW g \in Facts, History!SameCell(f, g)
      PROVE  FALSE
  <2>1. PICK e \in Candidate : assignment[e] # NULL /\ g \in Extent(e)
    BY DEF Facts
  <2>2. /\ e.observed = c.observed /\ f.date \in Date /\ f.known \in Time
        /\ assignment[e] \in Assignment /\ superseded_at[e] \in Time \cup {NULL}
        /\ assignment[e].recorded_at <= f.known /\ BeginsBefore(f.known, superseded_at[e])
        /\ assignment[e].valid_from <= f.date /\ BeginsBefore(f.date, assignment[e].valid_to)
    BY <1>0, <1>5, <1>6, <2>1 DEF Extent, Known, History!SameCell, History!Fact, TypeOK
  <2>3. Overlaps(e, a, u)
    BY <1>5, <2>2, SharedMoment DEF Overlaps
  <2> QED
    BY <2>1, <2>2, <2>3 DEF AddAssignment
<1>7. ASSUME NEW f \in new, NEW g \in new, History!SameCell(f, g)
      PROVE  f = g
  BY <1>5, <1>7 DEF History!SameCell, History!Fact
<1> QED
  BY <1>4, <1>5, <1>6, <1>7 DEF History!Fill

\* A supersession at u takes away what its assignment said from u on.
LEMMA SupersessionWithdraws ==
  ASSUME IInv, NEW c \in Candidate, NEW u \in Time, SupersedeAssignment(c, u)
  PROVE  History!Withdraw
<1> DEFINE gone == {f \in Extent(c) : f.known >= u}
           r == assignment[c].recorded_at
<1>0. /\ superseded_at' = [superseded_at EXCEPT ![c] = u] /\ assignment' = assignment
      /\ assignment[c] # NULL /\ superseded_at[c] = NULL /\ u > r
      /\ TypeOK /\ Disjoint
  BY DEF SupersedeAssignment, MaySupersede, IInv
<1>1. /\ assignment[c] \in Assignment /\ r \in Time /\ r \in Nat /\ u \in Nat
      /\ \A t \in Time : t \in Nat /\ t # NULL
  BY <1>0, AssignmentFields, ClockAssumption DEF TypeOK
<1> HIDE DEF r
<1>2. \A e \in Candidate \ {c} : Extent(e)' = Extent(e)
  BY <1>0 DEF Extent, Known, TypeOK
<1>3. superseded_at'[c] = u
  BY <1>0 DEF TypeOK
<1>4. \A f : f \in Extent(c) <=>
        /\ f \in History!Fact /\ f.observed = c.observed /\ f.canonical = c.canonical
        /\ assignment[c].valid_from <= f.date /\ BeginsBefore(f.date, assignment[c].valid_to)
        /\ r <= f.known
  BY <1>0, CandidateFields DEF Extent, Known, BeginsBefore, History!Fact, r
<1>5. Extent(c)' = Extent(c) \ gone
  <2>1. ASSUME NEW k \in Time PROVE Known(c, k)' <=> Known(c, k) /\ ~(k >= u)
    <3>1. Known(c, k) <=> r <= k
      BY <1>0 DEF Known, BeginsBefore, r
    <3>2. Known(c, k)' <=> r <= k /\ k < u
      BY <1>0, <1>1, <1>3 DEF Known, BeginsBefore, r
    <3> QED
      BY <1>1, <3>1, <3>2
  <2> QED
    BY <2>1, <1>0 DEF Extent, gone
<1>6. \A f \in gone : f \in History!Fact
  BY <1>4
<1> HIDE DEF gone
<1>7. ASSUME NEW f \in gone, NEW e \in Candidate \ {c}, assignment[e] # NULL, f \in Extent(e)
      PROVE  FALSE
  <2>1. f \in Extent(c)
    BY DEF gone
  <2>2. /\ e.observed = c.observed /\ f.date \in Date /\ f.known \in Time
        /\ assignment[e] \in Assignment /\ superseded_at[e] \in Time \cup {NULL}
        /\ assignment[e].recorded_at <= f.known /\ BeginsBefore(f.known, superseded_at[e])
        /\ assignment[e].valid_from <= f.date /\ BeginsBefore(f.date, assignment[e].valid_to)
    BY <1>0, <1>4, <1>7, <2>1 DEF Extent, Known, TypeOK
  <2>3. /\ assignment[c].recorded_at <= f.known /\ BeginsBefore(f.known, superseded_at[c])
        /\ assignment[c].valid_from <= f.date /\ BeginsBefore(f.date, assignment[c].valid_to)
    BY <2>1 DEF Extent, Known
  <2>4. Overlaps(e, assignment[c], superseded_at[c])
    BY <1>0, <1>1, <2>2, <2>3, SharedMoment DEF Overlaps
  <2> QED
    BY <1>0, <1>7, <2>2, <2>4 DEF Disjoint
<1>8. Facts' = Facts \ gone
  <2>1. ASSUME NEW f \in Facts' PROVE f \in Facts /\ f \notin gone
    <3>1. PICK e \in Candidate : assignment[e] # NULL /\ f \in Extent(e)'
      BY <1>0 DEF Facts
    <3>2. CASE e = c
      BY <1>5, <3>1, <3>2 DEF Facts
    <3>3. CASE e # c
      BY <1>2, <1>7, <3>1, <3>3 DEF Facts
    <3> QED
      BY <3>2, <3>3
  <2>2. ASSUME NEW f \in Facts, f \notin gone PROVE f \in Facts'
    <3>1. PICK e \in Candidate : assignment[e] # NULL /\ f \in Extent(e)
      BY DEF Facts
    <3>2. f \in Extent(e)'
      BY <1>2, <1>5, <2>2, <3>1
    <3> QED
      BY <1>0, <3>1, <3>2 DEF Facts
  <2> QED
    BY <2>1, <2>2
<1>9. gone \subseteq Facts
  BY <1>0 DEF gone, Facts
<1>10. ASSUME NEW f \in gone, NEW t \in Time
       PROVE  /\ t >= u => [f EXCEPT !.known = t] \in gone
              /\ t = r => [f EXCEPT !.known = t] \in Facts'
  <2> DEFINE g == [f EXCEPT !.known = t]
  <2>1. /\ g \in History!Fact /\ g.known = t /\ g.observed = f.observed
        /\ g.canonical = f.canonical /\ g.date = f.date
    BY <1>6 DEF History!Fact
  <2> HIDE DEF g
  <2>2. r <= t => g \in Extent(c)
    BY <1>4, <2>1 DEF gone
  <2>3. t >= u => g \in gone
    BY <1>0, <1>1, <2>1, <2>2 DEF gone
  <2>4. t = r => g \in Facts /\ g \notin gone
    BY <1>0, <1>1, <2>1, <2>2 DEF gone, Facts
  <2> USE DEF g
  <2> QED
    BY <1>8, <2>3, <2>4
<1>11. \A f \in gone : f.known >= u /\ f.observed = c.observed /\ f.canonical = c.canonical
  BY <1>4 DEF gone
<1>12. Facts \ Facts' = gone /\ Facts' \subseteq Facts
  BY <1>8, <1>9
<1> QED
  BY <1>0, <1>1, <1>10, <1>11, <1>12 DEF History!Withdraw

\* The tables implement the identity history: an assignment fills a gap, a supersession
\* withdraws the end of what was known, every other call leaves the identities alone.
THEOREM ImplementsIdentityHistoryAlways == Spec => ImplementsIdentityHistory
<1>1. ASSUME Init PROVE History!Init
  BY <1>1 DEF Init, History!Init, Facts
<1>2. ASSUME IInv, [Next]_vars PROVE [History!Next]_Facts
  <2> SUFFICES ASSUME ~(assignment' = assignment /\ superseded_at' = superseded_at)
               PROVE  History!Next
    BY DEF Facts, Extent, Known
  <2>1. CASE \E c \in Candidate, p \in ValidPeriods, t \in Time, u \in Time \cup {NULL} :
          AddAssignment(c, [valid_from |-> p[1], valid_to |-> p[2], recorded_at |-> t], u)
    BY <1>2, <2>1, AssignmentFills, ValidPeriodRow DEF History!Next
  <2>2. CASE \E c \in Candidate, u \in Time : SupersedeAssignment(c, u)
    BY <1>2, <2>2, SupersessionWithdraws DEF History!Next
  <2> QED
    BY <1>2, <2>1, <2>2
    DEF Next, vars, identity, AddRun, AddRunInput, FinalizeRun, AddCandidate, AddDecision
<1> QED
  BY <1>1, <1>2, IInvAlways, PTL DEF Spec, ImplementsIdentityHistory, History!Spec
=============================================================================

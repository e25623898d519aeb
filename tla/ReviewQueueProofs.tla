-------------------------- MODULE ReviewQueueProofs --------------------------
(***************************************************************************)
(* Proofs about ReviewQueue, for any packets, imported in any order, and   *)
(* any decisions.  The report is a fold of the events; what is proved      *)
(* rests on what each candidate of it says of the events: which one it     *)
(* stands on, and which returns of its text were known there.              *)
(***************************************************************************)
EXTENDS ReviewQueue, FiniteSetTheorems, TLAPS

CandidateState ==
  [status : Open \cup Resolved, last_event : Nat, requires_reopen : BOOLEAN,
   resolved_recurrences : SUBSET (Clock \X SUBSET Version)]

ReportTyped ==
  /\ report = [event_count |-> report.event_count, captures |-> report.captures,
               candidates |-> report.candidates]
  /\ report.event_count \in Nat
  /\ report.captures \subseteq Captures
  /\ DOMAIN Candidates \subseteq Candidate
  /\ Candidates \in [DOMAIN Candidates -> CandidateState]

Typed == events \in Seq(Import \cup Decision) /\ Len(events) <= MaxEvents /\ ReportTyped

Decides(n, i) == events[n].kind = "review_decision" /\ events[n].candidate = i

Resolves(n, i) == Decides(n, i) /\ events[n].action \in {"dismiss", "handoff"}

Brings(n, i) ==
  events[n].kind = "capture_imported" /\ <<events[n].capture.url, events[n].capture.version>> = i

\* The report counts the events, and has their captures.
Counted == report.event_count = Len(events) /\ report.captures = ImportedBy(Len(events))

\* A candidate names the event that admitted it or last decided on it; a resolved one was
\* resolved there, and keeps the returns that were known then.
StandsOn(i) ==
  LET n == Disposition(i)
  IN /\ n \in 1 .. Len(events)
     /\ Decides(n, i) \/ Brings(n, i)
     /\ \A m \in n + 1 .. Len(events) : ~Decides(m, i)
     /\ Candidates[i].status \in Resolved =>
          /\ Resolves(n, i)
          /\ Candidates[i].resolved_recurrences = Recurrences(ImportedBy(n), i)

\* A resolved candidate that has a new return, or was proposed again, asks to be reopened.
Asks(i) ==
  /\ Candidates[i].status \in Resolved
  /\ \/ Recurrences(report.captures, i) \ Candidates[i].resolved_recurrences # {}
     \/ FlaggedSince(i)
  => Candidates[i].requires_reopen

\* A decision was made on the event that its candidate stood on.
Informed(n) ==
  events[n].kind = "review_decision" =>
    LET i == events[n].candidate
        token == events[n].expected_event
    IN /\ token \in 1 .. n - 1
       /\ Decides(token, i) \/ Brings(token, i)
       /\ \A m \in token + 1 .. n - 1 : ~Decides(m, i)

IInv ==
  /\ Typed /\ Counted
  /\ \A i \in DOMAIN Candidates : StandsOn(i) /\ Asks(i)
  /\ \A n \in 1 .. Len(events) : Informed(n)

-----------------------------------------------------------------------------
(* Returns. *)

\* Every nonempty set of naturals has a least element.
LEMMA LeastNatural ==
  ASSUME NEW T, T \subseteq Nat, T # {}
  PROVE  \E x \in T : \A y \in T : x <= y
<1>. DEFINE Initial == {0 .. x : x \in T}
<1>1. Initial \subseteq FiniteSubsetsOf(Nat) /\ Initial # {}
  <2>1. ASSUME NEW x \in T PROVE 0 .. x \in SUBSET Nat /\ IsFiniteSet(0 .. x)
    BY FS_Interval
  <2>. QED
    BY <2>1 DEF FiniteSubsetsOf
<1>2. PICK s \in Initial : \A r \in Initial : ~ (<<r, s>> \in StrictSubsetOrdering(Nat))
  BY <1>1, WFMin, FS_StrictSubsetOrderingWellFounded
<1>3. PICK x \in T : s = 0 .. x
  BY <1>2
<1>4. ASSUME NEW y \in T, ~(x <= y) PROVE FALSE
  <2>1. 0 .. y \in Initial /\ s \in SUBSET Nat /\ 0 .. y \in SUBSET Nat
    BY <1>3
  <2>2. 0 .. y \subseteq s /\ x \in s /\ x \notin 0 .. y
    BY <1>3, <1>4
  <2>. QED
    BY <1>2, <2>1, <2>2 DEF StrictSubsetOrdering
<1>. QED
  BY <1>4

LEMMA CaptureFields ==
  \A c \in Captures : /\ c.captured_at \in Clock /\ c.captured_at \in Nat /\ c.url \in Url
                      /\ Eligible(c) => c.version \in Version /\ <<c.url, c.version>> \in Candidate
BY QueueAssumption DEF Capture, Eligible, Candidate

\* What is known of a return: its clock is one of a known eligible capture of the text.
LEMMA RecurrencesTyped ==
  ASSUME NEW known, known \subseteq Captures, NEW i
  PROVE  /\ Recurrences(known, i) \subseteq Clock \X SUBSET Version
         /\ \A r \in Recurrences(known, i) :
              \E c \in EligibleOf(known, i[1]) : c.version = i[2] /\ c.captured_at = r[1]
<1>1. \A t : Before(EligibleOf(known, i[1]), t) \subseteq EligibleOf(known, i[1])
  BY DEF Before
<1>2. \A c \in EligibleOf(known, i[1]) : c.version \in Version
  BY CaptureFields DEF EligibleOf
<1>. QED
  BY <1>1, <1>2 DEF Recurrences, VersionsAt

\* Of the captures before a clock some are the last.
LEMMA LastBefore ==
  ASSUME NEW known, known \subseteq Captures, NEW t \in Nat,
         NEW c \in known, c.captured_at < t
  PROVE  Before(known, t) # {}
<1>. DEFINE Early == {d \in known : d.captured_at < t}
            Gaps == {t - d.captured_at : d \in Early}
<1>1. ASSUME NEW d \in Early
      PROVE  d \in known /\ d.captured_at \in Nat /\ d.captured_at < t /\ t - d.captured_at \in Nat
  <2>1. d \in known /\ d.captured_at < t
    OBVIOUS
  <2>2. d.captured_at \in Nat
    BY <2>1, CaptureFields
  <2>. QED
    BY <2>1, <2>2
<1>2. Gaps \subseteq Nat /\ Gaps # {}
  BY <1>1
<1>3. PICK x \in Gaps : \A y \in Gaps : x <= y
  BY <1>2, LeastNatural
<1>4. PICK d \in Early : x = t - d.captured_at
  BY <1>3
<1>5. ASSUME NEW e \in known, e.captured_at < t PROVE e.captured_at <= d.captured_at
  <2>1. e \in Early
    BY <1>5
  <2>2. t - e.captured_at \in Gaps
    BY <2>1
  <2>3. t - d.captured_at <= t - e.captured_at
    BY <1>3, <1>4, <2>2
  <2>4. e.captured_at \in Nat /\ d.captured_at \in Nat
    BY <1>1, <2>1
  <2>. HIDE DEF Early, Gaps
  <2>. QED
    BY <2>3, <2>4
<1>. QED
  BY <1>1, <1>4, <1>5 DEF Before

\* A text that is captured again after another has a return at the first such capture.
LEMMA ReturnRecurs ==
  ASSUME NEW known, known \subseteq Captures, NEW i,
         NEW c \in EligibleOf(known, i[1]), NEW d \in EligibleOf(known, i[1]),
         c.version # i[2], d.version = i[2], c.captured_at < d.captured_at
  PROVE  \E r \in Recurrences(known, i) : c.captured_at < r[1] /\ r[1] \in Clock
<1>. DEFINE K == EligibleOf(known, i[1])
            Returns == {e \in K : e.version = i[2] /\ c.captured_at < e.captured_at}
            Times == {e.captured_at : e \in Returns}
<1>1. K \subseteq Captures /\ \A e \in K : e.captured_at \in Nat /\ e.captured_at \in Clock
  BY CaptureFields DEF EligibleOf
<1>. HIDE DEF K
<1>2. Times \subseteq Nat /\ Times # {}
  BY <1>1 DEF K
<1>3. PICK u \in Times : \A y \in Times : u <= y
  BY <1>2, LeastNatural
<1>4. PICK e \in Returns : u = e.captured_at
  BY <1>3
<1>5. e \in K /\ e.version = i[2] /\ c.captured_at < u /\ u \in Nat /\ u \in Clock
  BY <1>1, <1>4
<1>6. PICK b \in Before(K, u) : TRUE
  BY <1>1, <1>5, LastBefore DEF K
<1>7. b.version # i[2] \/ b.captured_at = c.captured_at
  <2>1. b \in K /\ b.captured_at < u /\ c.captured_at <= b.captured_at
    BY <1>5, <1>6 DEF Before, K
  <2>2. ~(b \in Returns)
    BY <1>1, <1>3, <1>5, <2>1
  <2>. QED
    BY <1>1, <2>1, <2>2 DEF K
<1>8. \E v \in {b.version, c.version} : v \in {f.version : f \in Before(K, u)} \ {i[2]}
  <2>1. CASE b.version # i[2]
    BY <1>6, <2>1
  <2>2. CASE b.captured_at = c.captured_at
    <3>1. c \in Before(K, u)
      BY <1>5, <1>6, <2>2 DEF Before, K
    <3>. QED
      BY <3>1
  <2>. QED
    BY <1>7, <2>1, <2>2
<1>9. i[2] \in VersionsAt(K, u)
  BY <1>4, <1>5 DEF VersionsAt
<1>10. <<u, {f.version : f \in Before(K, u)} \ {i[2]}>> \in Recurrences(known, i)
  BY <1>5, <1>8, <1>9 DEF Recurrences, K
<1>. QED
  BY <1>5, <1>10

-----------------------------------------------------------------------------
(* The events. *)

LEMMA Appended ==
  ASSUME events \in Seq(Import \cup Decision), NEW e \in Import \cup Decision,
         events' = Append(events, e)
  PROVE  /\ events' \in Seq(Import \cup Decision)
         /\ Len(events) \in Nat /\ Len(events') = Len(events) + 1
         /\ \A m \in 1 .. Len(events) : events'[m] = events[m] /\ events[m] \in Import \cup Decision
         /\ events'[Len(events) + 1] = e
OBVIOUS

\* What was known at an event stays known, and what comes later is added.
LEMMA ImportedAppended ==
  ASSUME events \in Seq(Import \cup Decision), NEW e \in Import \cup Decision,
         events' = Append(events, e), NEW n \in 0 .. Len(events)
  PROVE  /\ ImportedBy(n)' = ImportedBy(n)
         /\ ImportedAfter(n)' = ImportedAfter(n) \cup
              (IF e.kind = "capture_imported" THEN {e.capture} ELSE {})
<1>. DEFINE l == Len(events)
<1>1. /\ l \in Nat /\ Len(events') = l + 1 /\ events'[l + 1] = e
      /\ \A m \in 1 .. l : events'[m] = events[m]
  BY Appended
<1>2. ImportedBy(n)' = ImportedBy(n)
  <2>1. \A m \in 1 .. n : events'[m] = events[m]
    BY <1>1
  <2>. QED
    BY <2>1 DEF ImportedBy
<1>3. n + 1 .. Len(events') = (n + 1 .. l) \cup {l + 1}
  BY <1>1
<1>4. \A m \in n + 1 .. l : events'[m] = events[m]
  BY <1>1
<1>5. ImportedAfter(n)' =
        {events'[m].capture : m \in {k \in (n + 1 .. l) \cup {l + 1} : events'[k].kind = "capture_imported"}}
  BY <1>3 DEF ImportedAfter
<1>. QED
  BY <1>1, <1>2, <1>4, <1>5 DEF ImportedAfter

LEMMA ImportedByAll ==
  ASSUME events \in Seq(Import \cup Decision), NEW e \in Import \cup Decision,
         events' = Append(events, e)
  PROVE  ImportedBy(Len(events))' = ImportedBy(Len(events)) \cup
           (IF e.kind = "capture_imported" THEN {e.capture} ELSE {})
<1>. DEFINE l == Len(events)
<1>1. /\ l \in Nat /\ Len(events') = l + 1 /\ events'[l + 1] = e
      /\ \A m \in 1 .. l : events'[m] = events[m]
  BY Appended
<1>2. 1 .. Len(events') = (1 .. l) \cup {l + 1}
  BY <1>1
<1>3. ImportedBy(Len(events))' =
        {events'[m].capture : m \in {k \in (1 .. l) \cup {l + 1} : events'[k].kind = "capture_imported"}}
  BY <1>2 DEF ImportedBy
<1>. QED
  BY <1>1, <1>3 DEF ImportedBy

\* What a candidate stands on, it stands on until the next decision on it.
LEMMA StandsStill ==
  ASSUME IInv, NEW e \in Import \cup Decision, events' = Append(events, e),
         NEW i \in DOMAIN Candidates, i \in DOMAIN Candidates',
         Candidates'[i].last_event = Candidates[i].last_event,
         Candidates'[i].status = Candidates[i].status,
         Candidates'[i].resolved_recurrences = Candidates[i].resolved_recurrences,
         ~(e.kind = "review_decision" /\ e.candidate = i)
  PROVE  StandsOn(i)'
<1>. DEFINE n == Disposition(i)
            l == Len(events)
<1>1. /\ l \in Nat /\ Len(events') = l + 1 /\ events'[l + 1] = e
      /\ \A m \in 1 .. l : events'[m] = events[m]
  BY Appended DEF IInv, Typed
<1>2. Disposition(i)' = n /\ n \in 1 .. l
  BY DEF IInv, StandsOn, Disposition
<1>3. (Decides(n, i) \/ Brings(n, i))'
  BY <1>1, <1>2 DEF IInv, StandsOn, Decides, Brings, Disposition
<1>4. \A m \in n + 1 .. l + 1 : ~Decides(m, i)'
  <2>1. ASSUME NEW m \in n + 1 .. l + 1 PROVE ~Decides(m, i)'
    <3>1. CASE m = l + 1
      BY <1>1, <3>1 DEF Decides
    <3>2. CASE m # l + 1
      <4>1. m \in n + 1 .. l /\ m \in 1 .. l
        BY <1>1, <1>2, <3>2
      <4>. QED
        BY <1>1, <4>1 DEF IInv, StandsOn, Decides, Disposition
    <3>. QED
      BY <3>1, <3>2
  <2>. QED
    BY <2>1
<1>5. ImportedBy(n)' = ImportedBy(n)
  BY <1>1, <1>2, ImportedAppended DEF IInv, Typed
<1>6. Candidates'[i].status \in Resolved =>
        /\ Resolves(n, i)'
        /\ Candidates'[i].resolved_recurrences = Recurrences(ImportedBy(n)', i)
  BY <1>1, <1>2, <1>5 DEF IInv, StandsOn, Disposition, Resolves, Decides
<1>. QED
  BY <1>1, <1>2, <1>3, <1>4, <1>6 DEF StandsOn

\* A later event leaves what is known of the earlier ones.
LEMMA InformedStill ==
  ASSUME IInv, NEW e \in Import \cup Decision, events' = Append(events, e),
         NEW n \in 1 .. Len(events)
  PROVE  Informed(n)'
<1>1. /\ Len(events) \in Nat /\ \A m \in 1 .. Len(events) : events'[m] = events[m]
  BY Appended DEF IInv, Typed
<1>2. CASE events[n].kind = "review_decision"
  <2>. DEFINE token == events[n].expected_event
              i == events[n].candidate
  <2>1. /\ token \in 1 .. n - 1 /\ (Decides(token, i) \/ Brings(token, i))
        /\ \A m \in token + 1 .. n - 1 : ~Decides(m, i)
    BY <1>2 DEF IInv, Informed
  <2>2. events'[n] = events[n] /\ events'[token] = events[token]
    BY <1>1, <2>1
  <2>3. \A m \in token + 1 .. n - 1 : events'[m] = events[m]
    BY <1>1, <2>1
  <2>. QED
    BY <2>1, <2>2, <2>3 DEF Informed, Decides, Brings
<1>3. CASE events[n].kind # "review_decision"
  BY <1>1, <1>3 DEF Informed
<1>. QED
  BY <1>2, <1>3

-----------------------------------------------------------------------------
LEMMA InitIInv == Init => IInv
<1>. SUFFICES ASSUME Init PROVE IInv
  OBVIOUS
<1>1. /\ events = <<>> /\ Len(events) = 0 /\ report.event_count = 0 /\ report.captures = {}
      /\ DOMAIN Candidates = {} /\ report = EmptyReport
  BY DEF Init, EmptyReport, Candidates
<1>2. Typed
  BY <1>1, QueueAssumption DEF Typed, ReportTyped, EmptyReport, Candidates
<1>3. Counted
  BY <1>1 DEF Counted, ImportedBy
<1>. QED
  BY <1>1, <1>2, <1>3 DEF IInv

\* What an import makes of a report.
LEMMA FoldImportIs ==
  ASSUME ReportTyped, NEW c \in Captures, report' = FoldImport(report, c),
         NEW new, new = IF Admits(c) THEN {<<c.url, c.version>>} ELSE {}
  PROVE  /\ ReportTyped'
         /\ report'.event_count = report.event_count + 1
         /\ report'.captures = report.captures \cup {c}
         /\ DOMAIN Candidates' = DOMAIN Candidates \cup new
         /\ \A i \in DOMAIN Candidates :
              Candidates'[i] = [Candidates[i] EXCEPT !.requires_reopen =
                                  @ \/ Reopens(Candidates[i], i, c, report.captures \cup {c})]
         /\ \A i \in new \ DOMAIN Candidates :
              Candidates'[i].status = "pending" /\ Candidates'[i].last_event = report.event_count + 1
<1>. DEFINE n == report.event_count + 1
            captures == report.captures \cup {c}
            known == DOMAIN Candidates
            candidate(i) == IF i \in known THEN Candidates[i] ELSE NewCandidate(n)
            asks == [i \in known \cup new |->
                      candidate(i).requires_reopen \/ Reopens(candidate(i), i, c, captures)]
            next == [i \in known \cup new |->
                      [candidate(i) EXCEPT !.requires_reopen = @ \/ Reopens(candidate(i), i, c, captures)]]
<1>1. report' = [event_count |-> n, captures |-> captures, candidates |-> next]
  BY DEF FoldImport, Candidates
<1>2. report'.event_count = n /\ report'.captures = captures /\ Candidates' = next
  BY <1>1 DEF Candidates
<1>3. \A i \in known \cup new :
        Candidates'[i] = [candidate(i) EXCEPT !.requires_reopen = asks[i]] /\ asks[i] \in BOOLEAN
  BY <1>2
<1>4. new \subseteq Candidate /\ captures \subseteq Captures /\ n \in Nat /\ known \subseteq Candidate
  BY CaptureFields DEF Admits, ReportTyped
<1>5. NewCandidate(n) \in CandidateState /\ NewCandidate(n).status = "pending"
      /\ NewCandidate(n).last_event = n
  BY <1>4 DEF NewCandidate, CandidateState, Open
<1>6. \A i \in known \cup new : candidate(i) \in CandidateState
  BY <1>5 DEF ReportTyped
<1>7. \A i \in known \cup new : Candidates'[i] \in CandidateState
  <2>. SUFFICES ASSUME NEW i \in known \cup new PROVE Candidates'[i] \in CandidateState
    OBVIOUS
  <2>. HIDE DEF candidate, asks, known
  <2>1. PICK x, b : x = candidate(i) /\ b = asks[i]
    OBVIOUS
  <2>2. x \in CandidateState /\ b \in BOOLEAN
    BY <1>3, <1>6, <2>1
  <2>3. Candidates'[i] = [x EXCEPT !.requires_reopen = b]
    BY <1>3, <2>1
  <2>4. [x EXCEPT !.requires_reopen = b] \in CandidateState
    BY <2>2 DEF CandidateState
  <2>. QED
    BY <2>3, <2>4
<1>8. DOMAIN Candidates' = known \cup new
  BY <1>2
<1>9. Candidates' \in [DOMAIN Candidates' -> CandidateState]
  <2>. HIDE DEF candidate, known
  <2>. QED
    BY <1>2, <1>7, <1>8
<1>10. ReportTyped'
  BY <1>1, <1>2, <1>4, <1>8, <1>9 DEF ReportTyped, Candidates
<1>11. \A i \in new \ known :
         Candidates'[i].status = "pending" /\ Candidates'[i].last_event = n
  <2>. SUFFICES ASSUME NEW i \in new \ known
                PROVE  Candidates'[i].status = "pending" /\ Candidates'[i].last_event = n
    OBVIOUS
  <2>1. candidate(i).status = "pending" /\ candidate(i).last_event = n /\ i \in known \cup new
    BY <1>5
  <2>. HIDE DEF candidate, asks, known, n
  <2>2. candidate(i) \in CandidateState
    BY <1>6, <2>1
  <2>3. Candidates'[i] = [candidate(i) EXCEPT !.requires_reopen = asks[i]]
    BY <1>3, <2>1
  <2>. QED
    BY <2>1, <2>2, <2>3 DEF CandidateState
<1>. QED
  BY <1>2, <1>3, <1>8, <1>10, <1>11

\* What a decision makes of one.
LEMMA FoldDecisionIs ==
  ASSUME ReportTyped, NEW decision \in Decision, NEW i \in DOMAIN Candidates,
         decision.candidate = i, report' = FoldDecision(report, decision)
  PROVE  /\ ReportTyped'
         /\ report'.event_count = report.event_count + 1
         /\ report'.captures = report.captures
         /\ DOMAIN Candidates' = DOMAIN Candidates
         /\ \A j \in DOMAIN Candidates \ {i} : Candidates'[j] = Candidates[j]
         /\ Candidates'[i].last_event = report.event_count + 1
         /\ Candidates'[i].status = StatusAfter(decision.action)
         /\ Candidates'[i].status \in Resolved =>
              Candidates'[i].resolved_recurrences = Recurrences(report.captures, i)
<1>. DEFINE n == report.event_count + 1
            status == StatusAfter(decision.action)
            next == [status |-> status, last_event |-> n, requires_reopen |-> FALSE,
                     resolved_recurrences |-> IF status \in Open THEN Candidates[i].resolved_recurrences
                                              ELSE Recurrences(report.captures, i)]
<1>1. report' = [report EXCEPT !.event_count = n, !.candidates[i] = next]
  BY DEF FoldDecision, Candidates
<1>. HIDE DEF next
<1>2. /\ report'.event_count = n /\ report'.captures = report.captures
      /\ Candidates' = [Candidates EXCEPT ![i] = next]
      /\ report' = [event_count |-> report'.event_count, captures |-> report'.captures,
                    candidates |-> report'.candidates]
  BY <1>1 DEF Candidates, ReportTyped
<1>3. status \in Open \cup Resolved
  <2>1. decision.action \in Action
    BY DEF Decision
  <2>. QED
    BY <2>1 DEF StatusAfter, Action, Open, Resolved
<1>4. next \in CandidateState
  <2>1. Candidates[i].resolved_recurrences \in SUBSET (Clock \X SUBSET Version)
    BY DEF ReportTyped, CandidateState
  <2>2. Recurrences(report.captures, i) \in SUBSET (Clock \X SUBSET Version)
    BY RecurrencesTyped DEF ReportTyped
  <2>3. n \in Nat
    BY DEF ReportTyped
  <2>. QED
    BY <1>3, <2>1, <2>2, <2>3 DEF next, CandidateState
<1>5. /\ DOMAIN Candidates' = DOMAIN Candidates /\ Candidates'[i] = next
      /\ \A j \in DOMAIN Candidates \ {i} : Candidates'[j] = Candidates[j]
      /\ Candidates' \in [DOMAIN Candidates' -> CandidateState]
  BY <1>2, <1>4 DEF ReportTyped
<1>6. ReportTyped'
  BY <1>2, <1>5 DEF ReportTyped, Candidates
<1>7. next.last_event = n /\ next.status = status
      /\ (next.status \in Resolved => next.resolved_recurrences = Recurrences(report.captures, i))
  BY DEF next, Open, Resolved
<1>. QED
  BY <1>2, <1>5, <1>6, <1>7

-----------------------------------------------------------------------------
LEMMA ImportCaptureIInv ==
  ASSUME IInv, NEW c \in Captures, NEW t \in RecordClock, ImportCapture(c, t)
  PROVE  IInv'
<1>. DEFINE e == [kind |-> "capture_imported", capture |-> c, recorded_at |-> t]
            new == IF Admits(c) THEN {<<c.url, c.version>>} ELSE {}
            captures == report.captures \cup {c}
<1>0. PICK l : l = Len(events)
  OBVIOUS
<1>1. /\ Typed /\ e \in Import \cup Decision /\ l < MaxEvents /\ l = Len(events)
      /\ events' = Append(events, e) /\ report' = FoldImport(report, c)
      /\ e.kind = "capture_imported" /\ e.capture = c
  BY <1>0 DEF IInv, ImportCapture, AppendEvent, Fold, Import
<1>. HIDE DEF e
<1>2. /\ l \in Nat /\ Len(events') = l + 1 /\ events'[l + 1] = e
      /\ events' \in Seq(Import \cup Decision)
      /\ \A m \in 1 .. l : events'[m] = events[m]
  BY <1>1, Appended DEF Typed
<1>3. /\ ReportTyped' /\ report'.event_count = report.event_count + 1 /\ report'.captures = captures
      /\ DOMAIN Candidates' = DOMAIN Candidates \cup new
      /\ \A i \in DOMAIN Candidates :
           Candidates'[i] = [Candidates[i] EXCEPT !.requires_reopen =
                               @ \/ Reopens(Candidates[i], i, c, captures)]
      /\ \A i \in new \ DOMAIN Candidates :
           Candidates'[i].status = "pending" /\ Candidates'[i].last_event = report.event_count + 1
  BY <1>1, FoldImportIs DEF Typed
<1>. HIDE DEF new
<1>4. Typed'
  BY <1>1, <1>2, <1>3, QueueAssumption DEF Typed
<1>5. Counted'
  <2>1. ImportedBy(Len(events))' = ImportedBy(l) \cup {c}
    BY <1>1, ImportedByAll DEF Typed
  <2>. QED
    BY <1>1, <1>2, <1>3, <2>1 DEF IInv, Counted
<1>6. ASSUME NEW i \in DOMAIN Candidates PROVE StandsOn(i)' /\ Asks(i)'
  <2>1. /\ Candidates[i] \in CandidateState
        /\ Candidates'[i] = [Candidates[i] EXCEPT !.requires_reopen =
                               @ \/ Reopens(Candidates[i], i, c, captures)]
    BY <1>1, <1>3 DEF Typed, ReportTyped
  <2>2. /\ Candidates'[i].status = Candidates[i].status
        /\ Candidates'[i].last_event = Candidates[i].last_event
        /\ Candidates'[i].resolved_recurrences = Candidates[i].resolved_recurrences
    BY <2>1 DEF CandidateState
  <2>3. Candidates[i].requires_reopen \/ Reopens(Candidates[i], i, c, captures) =>
          Candidates'[i].requires_reopen
    BY <2>1 DEF CandidateState
  <2>4. StandsOn(i)'
    BY <1>1, <1>3, <2>2, StandsStill
  <2>5. ImportedAfter(Disposition(i))' = ImportedAfter(Disposition(i)) \cup {c}
    <3>1. Disposition(i)' = Disposition(i) /\ Disposition(i) \in 0 .. l
      BY <1>1, <2>2 DEF Disposition, IInv, StandsOn
    <3>2. ASSUME NEW n \in 0 .. l PROVE ImportedAfter(n)' = ImportedAfter(n) \cup {c}
      BY <1>1, ImportedAppended DEF Typed
    <3>3. ImportedAfter(Disposition(i))' =
            {events'[m].capture : m \in {k \in Disposition(i) + 1 .. Len(events') :
                                           events'[k].kind = "capture_imported"}}
      BY <3>1 DEF ImportedAfter
    <3>. QED
      BY <3>1, <3>2, <3>3 DEF ImportedAfter
  <2>6. Asks(i)'
    <3>. SUFFICES ASSUME Candidates'[i].status \in Resolved,
                         \/ Recurrences(report'.captures, i) \ Candidates'[i].resolved_recurrences # {}
                         \/ FlaggedSince(i)'
                  PROVE  Candidates'[i].requires_reopen
      BY DEF Asks
    <3>1. Candidates[i].status \notin Open
      BY <2>2 DEF Open, Resolved
    <3>2. CASE Recurrences(report'.captures, i) \ Candidates'[i].resolved_recurrences # {}
      BY <1>3, <2>2, <2>3, <3>1, <3>2 DEF Reopens
    <3>3. CASE FlaggedSince(i)'
      <4>1. PICK x \in ImportedAfter(Disposition(i)) \cup {c} :
              ReviewRequired(x) /\ <<x.url, x.version>> = i
        BY <2>5, <3>3 DEF FlaggedSince
      <4>2. CASE x = c
        BY <2>3, <3>1, <4>1, <4>2 DEF Reopens
      <4>3. CASE x \in ImportedAfter(Disposition(i))
        BY <2>2, <2>3, <4>1, <4>3 DEF IInv, Asks, FlaggedSince
      <4>. QED
        BY <4>1, <4>2, <4>3
    <3>. QED
      BY <3>2, <3>3
  <2>. QED
    BY <2>4, <2>6
<1>7. ASSUME NEW i \in new \ DOMAIN Candidates PROVE StandsOn(i)' /\ Asks(i)'
  <2>1. /\ Candidates'[i].status = "pending" /\ Candidates'[i].last_event = l + 1
        /\ i = <<c.url, c.version>>
    BY <1>1, <1>3 DEF IInv, Counted, new
  <2>2. Brings(l + 1, i)'
    BY <1>1, <1>2, <2>1 DEF Brings
  <2>. QED
    BY <1>2, <2>1, <2>2 DEF StandsOn, Asks, Disposition, Resolved
<1>8. ASSUME NEW n \in 1 .. Len(events') PROVE Informed(n)'
  <2>1. CASE n = l + 1
    BY <1>1, <1>2, <2>1 DEF Informed
  <2>2. CASE n # l + 1
    <3>1. n \in 1 .. l
      BY <1>2, <2>2
    <3>. QED
      BY <1>1, <3>1, InformedStill
  <2>. QED
    BY <2>1, <2>2
<1>. QED
  BY <1>3, <1>4, <1>5, <1>6, <1>7, <1>8 DEF IInv

LEMMA RecordDecisionIInv ==
  ASSUME IInv, NEW i \in Candidate, NEW token \in DOMAIN events, NEW a \in ReviewerActions,
         NEW t \in RecordClock, RecordDecision(i, token, a, t)
  PROVE  IInv'
<1>. DEFINE e == [kind |-> "review_decision", candidate |-> i, action |-> a,
                  expected_event |-> token, recorded_at |-> t]
<1>0. PICK l : l = Len(events)
  OBVIOUS
<1>1. /\ Typed /\ l < MaxEvents /\ l = Len(events) /\ l \in Nat /\ token \in 1 .. l
      /\ i \in DOMAIN Candidates /\ token = Candidates[i].last_event
      /\ events' = Append(events, e) /\ report' = FoldDecision(report, e)
      /\ e.kind = "review_decision" /\ e.candidate = i /\ e.expected_event = token
  BY <1>0 DEF IInv, Typed, RecordDecision, Current, AppendEvent, Fold, Candidates
<1>2. e \in Decision
  BY <1>1, QueueAssumption DEF Decision
<1>. HIDE DEF e
<1>3. /\ Len(events') = l + 1 /\ events'[l + 1] = e /\ events' \in Seq(Import \cup Decision)
      /\ \A m \in 1 .. l : events'[m] = events[m]
  BY <1>1, <1>2, Appended DEF Typed
<1>4. /\ ReportTyped' /\ report'.event_count = report.event_count + 1
      /\ report'.captures = report.captures /\ DOMAIN Candidates' = DOMAIN Candidates
      /\ \A j \in DOMAIN Candidates \ {i} : Candidates'[j] = Candidates[j]
      /\ Candidates'[i].last_event = l + 1 /\ Candidates'[i].status = StatusAfter(e.action)
      /\ Candidates'[i].status \in Resolved =>
           Candidates'[i].resolved_recurrences = Recurrences(report.captures, i)
  BY <1>1, <1>2, FoldDecisionIs DEF IInv, Typed, Counted
<1>5. Typed'
  BY <1>1, <1>3, <1>4, QueueAssumption DEF Typed
<1>6. ImportedBy(l + 1)' = ImportedBy(l) /\ Counted'
  <2>1. ImportedBy(Len(events))' = ImportedBy(l)
    BY <1>1, <1>2, ImportedByAll DEF Typed
  <2>2. ImportedBy(Len(events))' = ImportedBy(l + 1)'
    BY <1>3 DEF ImportedBy
  <2>. QED
    BY <1>1, <1>3, <1>4, <2>1, <2>2 DEF IInv, Counted
<1>7. StandsOn(i)' /\ Asks(i)'
  <2>1. Decides(l + 1, i)'
    BY <1>1, <1>3 DEF Decides
  <2>2. Disposition(i)' = l + 1
    BY <1>4 DEF Disposition
  <2>0. e.action \in Action /\ (Candidates'[i].status \in Resolved => Resolves(l + 1, i)')
    <3>1. e.action \in Action
      BY <1>2 DEF Decision
    <3>2. StatusAfter(e.action) \in Resolved => e.action \in {"dismiss", "handoff"}
      BY <3>1 DEF Action, StatusAfter, Resolved
    <3>. QED
      BY <1>3, <1>4, <2>1, <3>1, <3>2 DEF Resolves
  <2>3. StandsOn(i)'
    BY <1>1, <1>3, <1>4, <1>6, <2>0, <2>1, <2>2 DEF IInv, Counted, StandsOn
  <2>4. ImportedAfter(Disposition(i))' = {}
    BY <1>1, <1>3, <2>2 DEF ImportedAfter
  <2>5. Asks(i)'
    BY <1>4, <2>4 DEF Asks, FlaggedSince
  <2>. QED
    BY <2>3, <2>5
<1>8. ASSUME NEW j \in DOMAIN Candidates \ {i} PROVE StandsOn(j)' /\ Asks(j)'
  <2>1. Candidates'[j] = Candidates[j] /\ Disposition(j)' = Disposition(j) /\ Disposition(j) \in 0 .. l
    BY <1>1, <1>4 DEF Disposition, IInv, StandsOn
  <2>2. StandsOn(j)'
    BY <1>1, <1>2, <1>4, <2>1, StandsStill
  <2>3. ImportedAfter(Disposition(j))' = ImportedAfter(Disposition(j))
    <3>1. ASSUME NEW n \in 0 .. l PROVE ImportedAfter(n)' = ImportedAfter(n)
      BY <1>1, <1>2, ImportedAppended DEF Typed
    <3>. QED
      BY <2>1, <3>1 DEF ImportedAfter
  <2>4. Asks(j)'
    BY <1>4, <2>1, <2>3 DEF IInv, Asks, FlaggedSince
  <2>. QED
    BY <2>2, <2>4
<1>9. ASSUME NEW n \in 1 .. Len(events') PROVE Informed(n)'
  <2>1. CASE n = l + 1
    <3>1. /\ Decides(token, i) \/ Brings(token, i)
          /\ \A m \in token + 1 .. l : ~Decides(m, i)
      BY <1>1 DEF IInv, StandsOn, Disposition
    <3>2. (Decides(token, i) \/ Brings(token, i))'
      BY <1>1, <1>3, <3>1 DEF Decides, Brings
    <3>3. ASSUME NEW m \in token + 1 .. l PROVE ~Decides(m, i)'
      BY <1>1, <1>3, <3>1 DEF Decides
    <3>4. n - 1 = l
      BY <1>1, <2>1
    <3>. QED
      BY <1>1, <1>3, <2>1, <3>2, <3>3, <3>4 DEF Informed
  <2>2. CASE n # l + 1
    <3>1. n \in 1 .. l
      BY <1>1, <1>3, <2>2
    <3>. QED
      BY <1>1, <1>2, <3>1, InformedStill
  <2>. QED
    BY <2>1, <2>2
<1>. QED
  BY <1>4, <1>5, <1>6, <1>7, <1>8, <1>9 DEF IInv

LEMMA NextIInv == IInv /\ [Next]_vars => IInv'
<1>. SUFFICES ASSUME IInv, [Next]_vars PROVE IInv'
  OBVIOUS
<1>1. CASE UNCHANGED vars
  <2>1. UNCHANGED <<events, report>>
    BY <1>1 DEF vars
  <2>2. Typed' /\ Counted'
    BY <2>1 DEF IInv, Typed, ReportTyped, Counted, ImportedBy, Candidates
  <2>3. ASSUME NEW i \in DOMAIN Candidates PROVE StandsOn(i)' /\ Asks(i)'
    <3>1. StandsOn(i)' = StandsOn(i)
      BY <2>1 DEF StandsOn, ImportedBy, Resolves, Decides, Brings, Disposition, Candidates
    <3>2. Asks(i)' = Asks(i)
      BY <2>1 DEF Asks, FlaggedSince, ImportedAfter, Disposition, Candidates
    <3>. QED
      BY <3>1, <3>2 DEF IInv
  <2>4. \A n \in 1 .. Len(events) : Informed(n)'
    BY <2>1 DEF IInv, Informed, Decides, Brings
  <2>. QED
    BY <2>1, <2>2, <2>3, <2>4 DEF IInv, Candidates
<1>. QED
  BY <1>1, ImportCaptureIInv, RecordDecisionIInv DEF Next

\* A text that stays resolved has no return that was not known where it was resolved.
LEMMA ResolvedKnows ==
  ASSUME IInv, NEW i \in DOMAIN Candidates, Candidates[i].status \in Resolved
  PROVE  /\ Candidates[i].last_event \in 1 .. Len(events) /\ Resolves(Candidates[i].last_event, i)
         /\ ~Candidates[i].requires_reopen =>
              Recurrences(ImportedBy(Len(events)), i) \subseteq
                Recurrences(ImportedBy(Candidates[i].last_event), i)
BY DEF IInv, Counted, StandsOn, Asks, Disposition

\* Captures that show a return of a text show another text since any capture before it.
LEMMA RecurrenceShowsOther ==
  ASSUME NEW old, old \subseteq Captures, NEW i, NEW r \in Recurrences(old, i), r[1] \in Clock,
         NEW k \in EligibleOf(old, i[1]), k.captured_at < r[1]
  PROVE  \E b \in EligibleOf(old, i[1]) : b.version # i[2] /\ k.captured_at <= b.captured_at
<1>1. r[2] = {b.version : b \in Before(EligibleOf(old, i[1]), r[1])} \ {i[2]} /\ r[2] # {}
  BY DEF Recurrences
<1>2. PICK b \in Before(EligibleOf(old, i[1]), r[1]) : b.version # i[2]
  BY <1>1
<1>. QED
  BY <1>2 DEF Before

THEOREM Invariance == Spec => []IInv
BY InitIInv, NextIInv, PTL DEF Spec

\* No decision is lost or repeated: each was made on the event that its candidate stood on.
THEOREM DecisionsAreInformedAlways == Spec => []DecisionsAreInformed
<1>1. IInv => DecisionsAreInformed
  BY DEF IInv, Typed, Informed, Decides, Brings, DecisionsAreInformed
<1>. QED
  BY <1>1, Invariance, PTL

\* Whatever the order in which packets are imported, a resolved version that comes back,
\* or that the collector proposes again, asks to be reopened.
THEOREM ReturnIsFlaggedAlways == Spec => []ReturnIsFlagged
<1>1. ASSUME IInv PROVE ReturnIsFlagged
  <2>. SUFFICES ASSUME NEW i \in DOMAIN Candidates, Candidates[i].status \in Resolved,
                       ReturnedSince(i) \/ FlaggedSince(i)
                PROVE  Candidates[i].requires_reopen
    BY DEF ReturnIsFlagged
  <2>1. CASE FlaggedSince(i)
    BY <1>1, <2>1 DEF IInv, Asks
  <2>2. CASE ReturnedSince(i)
    <3>. DEFINE n == Disposition(i)
                before == EligibleOf(ImportedBy(n), i[1])
    <3>1. /\ n \in 1 .. Len(events) /\ Len(events) \in Nat /\ report.captures = ImportedBy(Len(events))
          /\ report.captures \subseteq Captures
          /\ Candidates[i].resolved_recurrences = Recurrences(ImportedBy(n), i)
      BY <1>1 DEF IInv, Typed, ReportTyped, Counted, StandsOn
    <3>2. ImportedBy(n) \subseteq Captures /\ ImportedAfter(n) \subseteq report.captures
      BY <3>1 DEF ImportedBy, ImportedAfter
    <3>3. PICK c, d \in EligibleOf(ImportedAfter(n), i[1]) :
            /\ \A k \in before : k.captured_at < c.captured_at
            /\ c.version # i[2] /\ d.version = i[2] /\ c.captured_at < d.captured_at
      BY <2>2 DEF ReturnedSince
    <3>. HIDE DEF n
    <3>4. c \in EligibleOf(report.captures, i[1]) /\ d \in EligibleOf(report.captures, i[1])
      BY <3>2 DEF EligibleOf
    <3>5. PICK r \in Recurrences(report.captures, i) : c.captured_at < r[1] /\ r[1] \in Clock
      BY <3>1, <3>3, <3>4, ReturnRecurs
    <3>6. ASSUME r \in Recurrences(ImportedBy(n), i) PROVE FALSE
      <4>1. PICK k \in before : k.captured_at = r[1]
        BY <3>2, <3>6, RecurrencesTyped
      <4>2. k.captured_at < c.captured_at /\ k.captured_at \in Nat /\ c.captured_at \in Nat
        BY <3>1, <3>2, <3>3, <3>4, CaptureFields DEF EligibleOf
      <4>. QED
        BY <3>5, <4>1, <4>2
    <3>. QED
      BY <1>1, <3>1, <3>5, <3>6 DEF IInv, Asks
  <2>. QED
    BY <2>1, <2>2
<1>. QED
  BY <1>1, Invariance, PTL

\* A later packet with the one latest text makes no return of anything.
LEMMA ContinuationIsNoReturn ==
  ASSUME NEW known, known \subseteq Captures, NEW c \in Captures, NEW i,
         \A k \in EligibleOf(known, c.url) : k.captured_at < c.captured_at,
         {k.version : k \in Before(EligibleOf(known, c.url), c.captured_at)} = {c.version},
         Eligible(c)
  PROVE  Recurrences(known \cup {c}, i) \subseteq Recurrences(known, i)
<1>. DEFINE K == EligibleOf(known, i[1])
            K2 == EligibleOf(known \cup {c}, i[1])
<1>1. CASE i[1] # c.url
  <2>1. K2 = K
    BY <1>1 DEF EligibleOf
  <2>. QED
    BY <2>1 DEF Recurrences
<1>2. CASE i[1] = c.url
  <2>1. K2 = K \cup {c} /\ \A k \in K : k.captured_at < c.captured_at /\ k.captured_at \in Nat
    BY <1>2, CaptureFields DEF EligibleOf
  <2>2. c.captured_at \in Nat
    BY CaptureFields
  <2>3. {k.version : k \in Before(K, c.captured_at)} = {c.version}
    BY <1>2
  <2>. HIDE DEF K, K2
  <2>. SUFFICES ASSUME NEW t \in Clock, i[2] \in VersionsAt(K2, t),
                       {k.version : k \in Before(K2, t)} \ {i[2]} # {}
                PROVE  /\ i[2] \in VersionsAt(K, t)
                       /\ {k.version : k \in Before(K2, t)} = {k.version : k \in Before(K, t)}
    BY DEF Recurrences, K, K2
  <2>4. PICK e \in K2 : e.captured_at = t /\ e.version = i[2]
    BY DEF VersionsAt
  <2>5. t \in Nat /\ t <= c.captured_at
    BY <2>1, <2>2, <2>4
  <2>6. Before(K2, t) = Before(K, t)
    BY <2>1, <2>2, <2>5 DEF Before
  <2>7. e # c
    BY <2>3, <2>4, <2>6
  <2>. QED
    BY <2>1, <2>4, <2>6, <2>7 DEF VersionsAt
<1>. QED
  BY <1>1, <1>2

\* A simple continuation leaves a disposition alone.
THEOREM ContinuationStaysResolvedAlways == Spec => ContinuationStaysResolved
<1>1. ASSUME IInv, [Next]_vars, NEW c \in report'.captures \ report.captures, Continues(c),
             NEW i \in DOMAIN Candidates
      PROVE  Candidates'[i] = Candidates[i]
  <2>1. ~ UNCHANGED vars
    BY <1>1 DEF vars
  <2>2. ASSUME NEW j \in Candidate, NEW token \in DOMAIN events, NEW a \in ReviewerActions,
               NEW t \in RecordClock, RecordDecision(j, token, a, t)
        PROVE  FALSE
    BY <1>1, <2>2 DEF IInv, Typed, ReportTyped, RecordDecision, AppendEvent, Fold, FoldDecision
  <2>3. PICK x \in Captures, t \in RecordClock : ImportCapture(x, t)
    BY <1>1, <2>1, <2>2 DEF Next
  <2>4. /\ report' = FoldImport(report, x) /\ ReportTyped /\ report.captures \subseteq Captures
    BY <1>1, <2>3 DEF IInv, Typed, ReportTyped, ImportCapture, AppendEvent, Fold
  <2>5. /\ report'.captures = report.captures \cup {x}
        /\ Candidates'[i] = [Candidates[i] EXCEPT !.requires_reopen =
                               @ \/ Reopens(Candidates[i], i, x, report.captures \cup {x})]
    BY <1>1, <2>4, FoldImportIs
  <2>6. x = c
    BY <1>1, <2>5
  <2>7. /\ Eligible(c) /\ ~ReviewRequired(c)
        /\ \A k \in EligibleOf(report.captures, c.url) : k.captured_at < c.captured_at
        /\ {k.version : k \in Before(EligibleOf(report.captures, c.url), c.captured_at)} = {c.version}
    BY <1>1 DEF Continues
  <2>8. Recurrences(report.captures \cup {c}, i) \subseteq Recurrences(report.captures, i)
    BY <2>3, <2>4, <2>6, <2>7, ContinuationIsNoReturn
  <2>9. Candidates[i] \in CandidateState
    BY <2>4 DEF ReportTyped
  <2>10. Reopens(Candidates[i], i, c, report.captures \cup {c}) => Candidates[i].requires_reopen
    BY <1>1, <2>7, <2>8, <2>9 DEF IInv, Asks, Reopens, CandidateState
  <2>. QED
    BY <2>5, <2>6, <2>9, <2>10 DEF CandidateState
<1>2. IInv /\ [Next]_vars =>
        [\A c \in report'.captures \ report.captures :
           Continues(c) => \A i \in DOMAIN Candidates : Candidates'[i] = Candidates[i]]_vars
  BY <1>1
<1>3. Spec => [][Next]_vars
  BY DEF Spec
<1>. QED
  BY <1>2, <1>3, Invariance, PTL DEF ContinuationStaysResolved
=============================================================================

----------------------------- MODULE ReviewQueue -----------------------------
(***************************************************************************)
(* The append-only queue of source-version reviews of                      *)
(* src/semiconductor_atlas/curated_review.py.                              *)
(*                                                                         *)
(* The queue stores two kinds of events, imports of capture packets and    *)
(* decisions of reviewers, and nothing else: every report is a fold of the *)
(* events, and an operation is admitted when the fold of the events with   *)
(* its own does not fail.  Packets may be imported in any order, long      *)
(* after they were captured, and reviewers decide on what they last read.  *)
(*                                                                         *)
(* A packet has one document here: the documents of a packet have          *)
(* different URLs and the fold keeps URLs apart.                           *)
(***************************************************************************)
EXTENDS Naturals, Sequences, FiniteSets, SequencesExt

CONSTANTS
  Url, Version,    \* exact source URLs; the hashes of their visible text
  NULL,
  Clock,
  Captures,        \* bound: the validated packets that exist
  RecordClock,     \* bound: clocks of the host that appends events
  ReviewerActions, \* bound: the actions reviewers take
  MaxEvents        \* bound: the length of the queue

\* captured_at is the response clock of the document.  version is NULL for a failed
\* or blocked check; prior is the text it was compared with, or NULL.
Capture == [url : Url, captured_at : Clock, version : Version \cup {NULL},
            prior : Version \cup {NULL}]

Open == {"pending", "acknowledged", "deferred"}
Resolved == {"dismissed", "handed_off"}
Action == {"acknowledge", "defer", "dismiss", "handoff", "reopen"}

ASSUME QueueAssumption ==
  /\ Clock \subseteq Nat /\ RecordClock \subseteq Nat
  /\ Captures \subseteq Capture
  /\ NULL \notin Version
  /\ ReviewerActions \subseteq Action
  /\ MaxEvents \in Nat

Candidate == Url \X Version

Import == [kind : {"capture_imported"}, capture : Captures, recorded_at : RecordClock]
Decision == [kind : {"review_decision"}, candidate : Candidate, action : Action,
             expected_event : 1 .. MaxEvents, recorded_at : RecordClock]

-----------------------------------------------------------------------------
Eligible(c) == c.version # NULL

\* first_observation_requires_review and visible_text_changed_requires_review.
ReviewRequired(c) == Eligible(c) /\ c.prior # c.version

EligibleOf(captures, url) == {c \in captures : Eligible(c) /\ c.url = url}

VersionsAt(captures, t) == {c.version : c \in {d \in captures : d.captured_at = t}}

Before(captures, t) ==
  {c \in captures : /\ c.captured_at < t
                    /\ \A d \in captures : d.captured_at < t => d.captured_at <= c.captured_at}

\* _recurrences: the clocks at which a version is seen right after other versions.
\* Equal clocks stay parallel.
Recurrences(captures, i) ==
  LET known == EligibleOf(captures, i[1])
      others(t) == {c.version : c \in Before(known, t)} \ {i[2]}
  IN {<<t, others(t)>> : t \in {u \in Clock : /\ i[2] \in VersionsAt(known, u)
                                             /\ others(u) # {}}}

-----------------------------------------------------------------------------
\* The fold.  The identifier of an event is a hash over its place in the chain: its
\* sequence number stands for it.
EmptyReport == [event_count |-> 0, captures |-> {}, candidates |-> [i \in {} |-> NULL]]

NewCandidate(n) ==
  [status |-> "pending", last_event |-> n, requires_reopen |-> FALSE,
   resolved_recurrences |-> {}]

ReopensOnOwnImportOnly(candidate, i, capture, captures) ==
  /\ candidate.status \notin Open
  /\ ReviewRequired(capture) /\ i = <<capture.url, capture.version>>

ReopensOnAnyReturn(candidate, i, capture, captures) ==
  /\ candidate.status \notin Open
  /\ \/ ReviewRequired(capture) /\ i = <<capture.url, capture.version>>
     \/ Recurrences(captures, i) # {}

\* An import reopens the question of a resolved version: a collector candidate
\* again, or a return that was not known when it was resolved.
Reopens(candidate, i, capture, captures) ==
  /\ candidate.status \notin Open
  /\ \/ ReviewRequired(capture) /\ i = <<capture.url, capture.version>>
     \/ Recurrences(captures, i) \ candidate.resolved_recurrences # {}

\* Every eligible text enters review, also one that its packet calls unchanged.
Admits(capture) == Eligible(capture)

FoldImport(report, capture) ==
  LET n == report.event_count + 1
      captures == report.captures \cup {capture}
      admitted == IF Admits(capture) THEN {<<capture.url, capture.version>>} ELSE {}
      known == DOMAIN report.candidates
      candidate(i) == IF i \in known THEN report.candidates[i] ELSE NewCandidate(n)
  IN [event_count |-> n, captures |-> captures,
      candidates |->
        [i \in known \cup admitted |->
           [candidate(i) EXCEPT !.requires_reopen = @ \/ Reopens(candidate(i), i, capture, captures)]]]

StatusAfter(action) ==
  CASE action = "acknowledge" -> "acknowledged"
    [] action = "defer" -> "deferred"
    [] action = "dismiss" -> "dismissed"
    [] action = "handoff" -> "handed_off"
    [] action = "reopen" -> "pending"

FoldDecision(report, decision) ==
  LET n == report.event_count + 1
      i == decision.candidate
      status == StatusAfter(decision.action)
  IN [report EXCEPT
        !.event_count = n,
        !.candidates[i] =
          [status |-> status, last_event |-> n, requires_reopen |-> FALSE,
           resolved_recurrences |-> IF status \in Open THEN @.resolved_recurrences
                                    ELSE Recurrences(report.captures, i)]]

Fold(report, event) ==
  IF event.kind = "capture_imported" THEN FoldImport(report, event.capture)
                                     ELSE FoldDecision(report, event)

Report(log) == FoldLeft(Fold, EmptyReport, log)

VARIABLES
  events,   \* the rows of review_events
  report    \* their fold, which the code recomputes from all of them

vars == <<events, report>>

\* Only a resolved candidate can ask to be reopened.
TypeOK ==
  /\ events \in Seq(Import \cup Decision) /\ Len(events) <= MaxEvents
  /\ report = Report(events)
  /\ \A i \in DOMAIN report.candidates :
       /\ report.candidates[i].status \in Open \cup Resolved
       /\ report.candidates[i].last_event \in DOMAIN events
       /\ report.candidates[i].requires_reopen => report.candidates[i].status \in Resolved

Init == events = <<>> /\ report = EmptyReport

AsOf(log, t) == SelectSeq(log, LAMBDA e : e.recorded_at <= t)

-----------------------------------------------------------------------------
\* _append, under BEGIN IMMEDIATE: the clock of the host may stand still but not
\* move behind the queue.
AppendEvent(event) ==
  /\ Len(events) < MaxEvents
  /\ events # <<>> => events[Len(events)].recorded_at <= event.recorded_at
  /\ events' = Append(events, event)
  /\ report' = Fold(report, event)

\* A packet that is already imported changes nothing.
ImportCapture(capture, t) ==
  /\ capture \notin report.captures
  /\ capture.captured_at <= t
  /\ AppendEvent([kind |-> "capture_imported", capture |-> capture, recorded_at |-> t])

ValidDecision(candidate, action) == action = "reopen" <=> candidate.status \notin Open

StaleAccepted(candidate, token) == token <= candidate.last_event

\* The compare-and-set of record_decision.
Current(candidate, token) == token = candidate.last_event

\* The token names the event under which the reviewer read the candidate, in the
\* present report or in an old one.
RecordDecision(i, token, action, t) ==
  /\ i \in DOMAIN report.candidates
  /\ Current(report.candidates[i], token)
  /\ ValidDecision(report.candidates[i], action)
  /\ AppendEvent([kind |-> "review_decision", candidate |-> i, action |-> action,
                  expected_event |-> token, recorded_at |-> t])

Next ==
  \/ \E c \in Captures, t \in RecordClock : ImportCapture(c, t)
  \/ \E i \in Candidate, token \in DOMAIN events, a \in ReviewerActions, t \in RecordClock :
       RecordDecision(i, token, a, t)

Spec == Init /\ [][Next]_vars

-----------------------------------------------------------------------------
Candidates == report.candidates

\* The place of the decision that a candidate's disposition rests on.
Disposition(i) == Candidates[i].last_event

ImportedAfter(n) ==
  {events[m].capture : m \in {k \in n + 1 .. Len(events) : events[k].kind = "capture_imported"}}

ImportedBy(n) ==
  {events[m].capture : m \in {k \in 1 .. n : events[k].kind = "capture_imported"}}

\* A resolved version comes back: since its disposition another version of the URL
\* was captured, then it again, both later than anything the reviewer could know.
ReturnedSince(i) ==
  LET later == {c \in EligibleOf(ImportedAfter(Disposition(i)), i[1]) :
                  \A k \in EligibleOf(ImportedBy(Disposition(i)), i[1]) :
                    k.captured_at < c.captured_at}
  IN \E c, d \in later :
       c.version # i[2] /\ d.version = i[2] /\ c.captured_at < d.captured_at

FlaggedSince(i) ==
  \E c \in ImportedAfter(Disposition(i)) : ReviewRequired(c) /\ <<c.url, c.version>> = i

\* Whatever the order in which packets reach the queue, a resolved version that
\* comes back, or that the collector proposes again, asks to be reopened.
ReturnIsFlagged ==
  \A i \in DOMAIN Candidates :
    Candidates[i].status \in Resolved /\ (ReturnedSince(i) \/ FlaggedSince(i)) =>
      Candidates[i].requires_reopen

\* A simple continuation leaves a disposition alone: a packet that finds the text
\* unchanged, later than all the others, while that text is the only latest one.
Continues(c) ==
  LET known == EligibleOf(report.captures, c.url)
  IN /\ Eligible(c) /\ ~ReviewRequired(c) /\ c \notin known
     /\ \A k \in known : k.captured_at < c.captured_at
     /\ {k.version : k \in Before(known, c.captured_at)} = {c.version}

ContinuationStaysResolved ==
  [][\A c \in report'.captures \ report.captures :
       Continues(c) => \A i \in DOMAIN Candidates : Candidates'[i] = Candidates[i]]_vars

\* No decision is lost or repeated: the token a decision was made on is that of the
\* event that admitted the candidate or last decided on it, with no other decision
\* on the candidate since.
DecisionsAreInformed ==
  \A n \in DOMAIN events : events[n].kind = "review_decision" =>
    LET i == events[n].candidate
        decided(m) == events[m].kind = "review_decision" /\ events[m].candidate = i
        admitted(m) == /\ events[m].kind = "capture_imported"
                       /\ <<events[m].capture.url, events[m].capture.version>> = i
        token == events[n].expected_event
    IN /\ decided(token) \/ admitted(token)
       /\ \A m \in token + 1 .. n - 1 : ~decided(m)
=============================================================================

-------------------------- MODULE DiscoveryHandoff --------------------------
(***************************************************************************)
(* discovery_handoff.py: the link from a discovered URL, through a review  *)
(* of access to it, to a capture of the document, and a review of its      *)
(* text.  It composes the queue of discovered URLs (DiscoveryReview) with  *)
(* the queue of source texts (ReviewQueue), which share only the host's    *)
(* clock.                                                                  *)
(*                                                                         *)
(* The verifier writes to neither queue: it is a predicate on exports of   *)
(* the two histories, which it folds as of three different clocks, those   *)
(* written in the access review, the text review and the link review.      *)
(* These are documents: their author may read one report and date the      *)
(* review to any other moment.  A decision carries the document it cites,  *)
(* since the link is refused unless their hashes agree.                    *)
(*                                                                         *)
(* One document has one URL and facility here; the bindings to the plan,   *)
(* the baseline and the scope compare hashes of files that do not change.  *)
(***************************************************************************)
EXTENDS DiscoveryReview

CONSTANTS
  Text,            \* hashes of the visible text of a document
  Captures,        \* bound: the validated captures of documents that exist
  SourceActions    \* bound: the actions reviewers of texts take

VARIABLES
  source_events,   \* the events of the queue of source texts
  source_report,   \* their fold
  source_reports,  \* the fold of each prefix of them
  text_reviews     \* for a decision in that queue, the text review it cites, or None

Source == INSTANCE ReviewQueue WITH
            Version <- Text, NULL <- None, Clock <- HostClock, RecordClock <- HostClock,
            ReviewerActions <- SourceActions, MaxEvents <- MaxTime,
            events <- source_events, report <- source_report

ASSUME HandoffAssumption ==
  Captures \subseteq Source!Capture /\ None \notin Text /\ SourceActions \subseteq Source!Action

handoff_vars == <<now, found, reports, source_events, source_report, source_reports, text_reviews>>

HandoffInit ==
  /\ now = 0 /\ found = <<>> /\ reports = <<>>
  /\ Source!Init /\ source_reports = <<>> /\ text_reviews = <<>>

\* The dates that a document written by now may bear.
Dates == 1 .. now

-----------------------------------------------------------------------------
\* An access review binds the candidate as its author read it in a report, and the
\* packet that he took for the latest one.
AccessReviews(u) ==
  UNION {LET c == ReportAfter(n).candidates[u]
             fingerprint == Signature(c.observations)
         IN {[at |-> t, token |-> c.last_event, fingerprint |-> fingerprint, run |-> p] :
               t \in Dates, p \in ReportAfter(n).runs} :
         n \in {k \in DOMAIN found : u \in DOMAIN ReportAfter(k).candidates}}

\* A text review binds the version's token and the capture that was read.
TextReviews(i) ==
  {[at |-> t, token |-> n, capture |-> c] :
     t \in Dates, n \in DOMAIN source_events,
     c \in {d \in source_report.captures : d.url = i[1] /\ d.version = i[2]}}

UpdateDiscovery ==
  /\ \/ \E p \in Packets : ImportDiscovery(p)
     \/ \E u \in Url, token \in DOMAIN found, a \in ReviewerActions :
          DecideDiscovery(u, token, a, AccessReviews(u))
  /\ UNCHANGED <<source_events, source_report, source_reports, text_reviews>>

UpdateSource ==
  /\ now < MaxTime /\ now' = now + 1
  /\ \/ /\ \E c \in Captures : Source!ImportCapture(c, now + 1)
        /\ text_reviews' = Append(text_reviews, None)
     \/ \E i \in Source!Candidate, token \in DOMAIN source_events, a \in SourceActions :
          /\ Source!RecordDecision(i, token, a, now + 1)
          /\ \E e \in IF a \in {"dismiss", "handoff"} THEN TextReviews(i) ELSE {None} :
               text_reviews' = Append(text_reviews, e)
  /\ source_reports' = Append(source_reports, source_report')
  /\ UNCHANGED <<found, reports>>

HandoffNext == UpdateDiscovery \/ UpdateSource

HandoffSpec == HandoffInit /\ [][HandoffNext]_handoff_vars

-----------------------------------------------------------------------------
SourceAsOf(t) ==
  LET admitted == Cardinality({n \in DOMAIN source_events : source_events[n].recorded_at <= t})
  IN IF admitted = 0 THEN Source!EmptyReport ELSE source_reports[admitted]

\* A link review selects a URL with a decided access review, a version with a decided
\* text review, and the packet and the capture it binds.
Discovery(l) == ReportAsOf(l.reviewed_at).candidates[l.url]
Handoff(l) == found[Discovery(l).decision]
Access(l) == Handoff(l).evidence

Acquired(l) == SourceAsOf(l.reviewed_at).candidates[<<l.url, l.version>>]
Disposal(l) == source_events[Acquired(l).last_event]
TextReview(l) == text_reviews[Acquired(l).last_event]

\* imported_at
PacketAdmitted(p) ==
  (CHOOSE e \in Range(found) : e.kind = "import" /\ e.packet = p).recorded_at

CaptureAdmitted(c) ==
  (CHOOSE e \in Range(source_events) : e.kind = "capture_imported" /\ e.capture = c).recorded_at

\* _candidate: the candidate a link selects has its disposition and is not to be reopened.
Settled(candidate, statuses) == candidate.status \in statuses /\ ~candidate.requires_reopen

Undecided(candidate, open) == candidate.status \in open /\ ~candidate.requires_reopen

\* Some check shows the text.
ShownBySource(report, l) ==
  \E c \in report.captures : c.url = l.url /\ c.version = l.version

\* _current_source: the latest checks, failed ones too, all show the text.
CurrentSource(report, l) ==
  \A c \in report.captures :
    (c.url = l.url /\ \A d \in report.captures : d.url = l.url => d.captured_at <= c.captured_at)
      => c.version = l.version

\* The date of the access review is not looked at.
ApprovesUndated(l) ==
  Access(l).token = Handoff(l).token /\ Access(l).run = l.run

\* The access review binds the state of the candidate as of its own date, the one the
\* handoff was decided on, and a packet with its latest observation.
Approves(l) ==
  LET access == Access(l)
      then == ReportAsOf(access.at).candidates
  IN /\ l.url \in DOMAIN then
     /\ access.token = then[l.url].last_event
     /\ access.token = Handoff(l).token
     /\ access.fingerprint = Signature(then[l.url].observations)
     /\ Undecided(then[l.url], OpenStatus)
     /\ access.run = l.run
     /\ \E e \in Range(l.run.entries) :
          e.url = l.url /\ \A o \in then[l.url].observations : o.at <= e.at

\* The text review binds the version as of its own date, the state decided on.
ReadsText(l) ==
  LET review == TextReview(l)
      then == SourceAsOf(review.at)
      i == <<l.url, l.version>>
  IN /\ review.capture = l.capture
     /\ review.token = Disposal(l).expected_event
     /\ i \in DOMAIN then.candidates
     /\ review.token = then.candidates[i].last_event
     /\ Undecided(then.candidates[i], Source!Open)
     /\ CurrentSource(then, l)

InOrder(clocks) == \A n \in 1 .. Len(clocks) - 1 : clocks[n] <= clocks[n + 1]

\* The clocks of the route, from the admission of the packet to the link.
Route(l) ==
  <<PacketAdmitted(l.run), Access(l).at, Handoff(l).recorded_at,
    l.capture.captured_at, CaptureAdmitted(l.capture), TextReview(l).at,
    Disposal(l).recorded_at, l.reviewed_at>>

\* build_handoff: the link reviews of date t that verify.
LinksOf(t) ==
  LET discovered == ReportAsOf(t)
      acquired == SourceAsOf(t)
      handed == {u \in DOMAIN discovered.candidates :
                   Settled(discovered.candidates[u], {"handed_off"})}
      disposed == {i \in DOMAIN acquired.candidates :
                     Settled(acquired.candidates[i], {"dismissed", "handed_off"})}
      proposed == UNION {[url : {i[1]} \cap handed, version : {i[2]}, reviewed_at : {t},
                          run : discovered.runs, capture : acquired.captures] : i \in disposed}
  IN {l \in proposed :
        /\ \E e \in Range(l.run.entries) : e.url = l.url
        /\ l.capture.url = l.url /\ l.capture.version = l.version
        /\ CurrentSource(acquired, l)
        /\ Approves(l) /\ ReadsText(l)
        /\ InOrder(Route(l))}

Links == UNION {LinksOf(t) : t \in Dates}

-----------------------------------------------------------------------------
\* From the date of the access review to the date of the link, whatever order packets
\* and decisions came in and whatever dates the reviewers wrote, the queue knew one
\* history of the URL, the one the review was written about.
LinkRestsOnOneHistory ==
  \A l \in Links :
    \A t \in Access(l).at .. l.reviewed_at :
      Fingerprint(AdmittedBy(t), l.url) = Access(l).fingerprint

\* Another text that the URL has shown by the time of the selected capture or since.
OtherTexts(captures, l) ==
  {c \in captures : /\ c.url = l.url /\ c.version \notin {l.version, None}
                    /\ c.captured_at >= l.capture.captured_at}

\* A change of the text cannot be hidden by selecting an older capture, or by a later
\* return to the text: if none was known when the text was disposed of, none is known
\* to the link.
LinkHidesNoChange ==
  \A l \in Links :
    (OtherTexts(SourceAsOf(Disposal(l).recorded_at).captures, l) = {} =>
       OtherTexts(SourceAsOf(l.reviewed_at).captures, l) = {})

\* A link that verifies is not rewritten by what the queues learn later, even about
\* earlier captures.
LinksAreFinal == [][Links \subseteq Links']_handoff_vars
=============================================================================

--------------------------- MODULE DiscoveryReview ---------------------------
(***************************************************************************)
(* The append-only queue of discovered URLs of discovery_review.py.        *)
(*                                                                         *)
(* Like the queue of ReviewQueue it stores imports and decisions and folds *)
(* them into a report, under rules of its own: a candidate is a URL, not a *)
(* text; its fingerprint is the history of its metadata in the order of    *)
(* the observations; an import moves the candidate's token when, and only  *)
(* when, it changes that history.                                          *)
(***************************************************************************)
EXTENDS Integers, Sequences, FiniteSets, SequencesExt

CONSTANTS
  Url, Meta,       \* canonical URLs; hashes of the metadata an index shows of one
  None,
  Packets,         \* bound: the validated packets that exist
  ReviewerActions, \* bound: the actions reviewers take
  MaxTime          \* bound: the clock of the host

HostClock == 1 .. MaxTime

\* An entry of a packet; observed_at is the response clock of its index page.
Entry == [url : Url, at : HostClock, meta : Meta]

OpenStatus == {"pending", "acknowledged", "deferred"}
ResolvedStatus == {"dismissed", "handed_off"}
ActionName == {"acknowledge", "defer", "dismiss", "handoff", "reopen"}

\* A packet is named by its manifest: run tells packets with the same content apart.
ASSUME DiscoveryAssumption ==
  /\ MaxTime \in Nat
  /\ \A p \in Packets : p.finished_at \in HostClock /\ p.entries \in Seq(Entry)
  /\ ReviewerActions \subseteq ActionName
  /\ None \notin Seq(SUBSET Meta)

-----------------------------------------------------------------------------
\* An observation, without the run, the page and the packet it comes from.
Seen(e) == [at |-> e.at, meta |-> e.meta]

ShownAt(observations, t) == {o.meta : o \in {x \in observations : x.at = t}}

Clocks(observations) == {o.at : o \in observations}

\* The n-th of a set of clocks.
Nth(clocks, n) == CHOOSE t \in clocks : Cardinality({s \in clocks : s <= t}) = n

Histories(observations, clocks) ==
  [n \in 1 .. Cardinality(clocks) |-> ShownAt(observations, Nth(clocks, n))]

\* The clocks at which the URL shows something else than at the clock before.
Changes(observations) ==
  {t \in Clocks(observations) :
     \A s \in Clocks(observations) :
       s < t /\ ShownAt(observations, s) = ShownAt(observations, t) =>
         \E r \in Clocks(observations) : s < r /\ r < t}

\* _signature: the sets of metadata shown at one clock after another, each change once.
Signature(observations) == Histories(observations, Changes(observations))

-----------------------------------------------------------------------------
\* The fold.  An event's identifier is its sequence number, as in ReviewQueue.
NothingYet == [runs |-> {}, candidates |-> <<>>]

Discovered(n) ==
  [status |-> "pending", requires_reopen |-> FALSE, last_event |-> n,
   observations |-> {}, resolved |-> None, decision |-> 0]

\* The token moves only with the first observation.
FoldEntriesKeepingToken(c, u, entries, n) ==
  LET own == {k \in DOMAIN entries : entries[k].url = u}
      known(k) == c.observations \cup {Seen(entries[j]) : j \in {i \in own : i <= k}}
  IN [c EXCEPT !.observations = known(Len(entries)),
               !.requires_reopen = @ \/ (c.resolved # None /\
                                         \E k \in own : Signature(known(k)) # c.resolved)]

\* The entries about one candidate, one after the other: the token moves with the
\* fingerprint, and a candidate that was resolved under another one is flagged until
\* the next decision.
FoldEntries(c, u, entries, n) ==
  LET own == {k \in DOMAIN entries : entries[k].url = u}
      known(k) == c.observations \cup {Seen(entries[j]) : j \in {i \in own : i <= k}}
      fingerprint(k) == Signature(known(k))
  IN [c EXCEPT !.observations = known(Len(entries)),
               !.last_event = IF \E k \in own : fingerprint(k) # fingerprint(k - 1) THEN n ELSE @,
               !.requires_reopen = @ \/ (c.resolved # None /\
                                         \E k \in own : fingerprint(k) # c.resolved)]

FoldPacket(report, packet, n) ==
  LET listed == {packet.entries[k].url : k \in DOMAIN packet.entries}
      known == DOMAIN report.candidates
      start(u) == IF u \in known THEN report.candidates[u] ELSE Discovered(n)
  IN [runs |-> report.runs \cup {packet},
      candidates |-> [u \in known \cup listed |-> FoldEntries(start(u), u, packet.entries, n)]]

StatusOf(action) ==
  CASE action = "acknowledge" -> "acknowledged"
    [] action = "defer" -> "deferred"
    [] action = "dismiss" -> "dismissed"
    [] action = "handoff" -> "handed_off"
    [] action = "reopen" -> "pending"

DecideOn(report, event, n) ==
  LET status == StatusOf(event.action)
  IN [report EXCEPT !.candidates[event.url] =
        [status |-> status, requires_reopen |-> FALSE, last_event |-> n, decision |-> n,
         observations |-> @.observations,
         resolved |-> IF status \in OpenStatus THEN None ELSE Signature(@.observations)]]

FoldEvent(report, event, n) ==
  IF event.kind = "import" THEN FoldPacket(report, event.packet, n)
                           ELSE DecideOn(report, event, n)

-----------------------------------------------------------------------------
VARIABLES
  now,      \* the clock of the host
  found,    \* the events of the discovery queue
  reports   \* the fold of each prefix of them, which the code recomputes

Queue == <<now, found, reports>>

ReportAfter(n) == IF n = 0 THEN NothingYet ELSE reports[n]
Report == ReportAfter(Len(found))
Candidates == Report.candidates

CapturedBy(t) ==
  Cardinality({n \in DOMAIN found :
    t >= IF found[n].kind = "import" THEN found[n].packet.finished_at ELSE found[n].recorded_at})

\* _fold with as_of: what was admitted by t, whatever the clocks of the observations.
\* The clocks of the queue never move back, so that it is a prefix of the events.
AdmittedBy(t) == Cardinality({n \in DOMAIN found : found[n].recorded_at <= t})
ReportAsOf(t) == ReportAfter(AdmittedBy(t))

\* Two events do not share a microsecond.
Append1(event) ==
  /\ now < MaxTime
  /\ now' = now + 1
  /\ found' = Append(found, [event EXCEPT !.recorded_at = now + 1])
  /\ reports' = Append(reports, FoldEvent(Report, event, Len(found) + 1))

\* import_capture: a packet that is in the queue is left alone.
ImportDiscovery(p) ==
  /\ p.finished_at <= now + 1
  /\ p \notin Report.runs
  /\ Append1([kind |-> "import", packet |-> p, recorded_at |-> 0])

\* record_decision: the token is that of the report the reviewer read, now or long ago.
\* A handoff cites one of the access reviews that exist.
DecideDiscovery(u, token, action, reviews) ==
  /\ u \in DOMAIN Candidates
  /\ token = Candidates[u].last_event
  /\ action = "reopen" <=> Candidates[u].status \notin OpenStatus
  /\ \E e \in IF action = "handoff" THEN reviews ELSE {None} :   \* bound: others cite none
       Append1([kind |-> "decision", url |-> u, action |-> action, token |-> token,
                evidence |-> e, recorded_at |-> 0])

-----------------------------------------------------------------------------
Fingerprint(n, u) == Signature(ReportAfter(n).candidates[u].observations)

\* The reports in which a reviewer could read the token of the n-th event, a decision.
Readings(n) ==
  {k \in found[n].token .. n - 1 :
     ReportAfter(k).candidates[found[n].url].last_event = found[n].token}

\* What a reviewer decided on is what there was to decide: in every report that showed
\* the decision's token the history of the URL was the one the decision was recorded
\* on; and it still is, unless the candidate asks to be reopened.
DispositionMatchesReading ==
  \A u \in DOMAIN Candidates :
    LET n == Candidates[u].decision
    IN n # 0 =>
         /\ \A k \in Readings(n) : Fingerprint(k, u) = Fingerprint(n, u)
         /\ Candidates[u].status \in ResolvedStatus /\ ~Candidates[u].requires_reopen =>
              Fingerprint(Len(found), u) = Fingerprint(n, u)
=============================================================================

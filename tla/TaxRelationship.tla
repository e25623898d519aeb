--------------------------- MODULE TaxRelationship ---------------------------
(***************************************************************************)
(* accept_taiwan_tax_relationship_review of taiwan_tax_relationship.py: a  *)
(* review of candidate links between facilities and tax units becomes an   *)
(* ingestion run and its relationship claims.  It runs beside              *)
(* accept_taiwan_facility_review (IdentityAcceptance), whose assignments   *)
(* say which entity a link is about: the observed facility, or the one it  *)
(* is assigned to.                                                         *)
(*                                                                         *)
(* A candidate artifact is proposed as of a cutoff that its author chooses *)
(* and is recomputed by each call.  A call proposes, checks and plans      *)
(* first, takes the write lock, writes, checks again and commits.  A       *)
(* release exports a run once all of its effects are visible.              *)
(*                                                                         *)
(* Links of different subjects and tax units are series of their own and   *)
(* are decided one by one: one facility and one tax unit are modelled, and *)
(* the claims that state their common number as one claim that an importer *)
(* may supersede.                                                          *)
(***************************************************************************)
EXTENDS IdentityAcceptance

CONSTANTS
  Facility,        \* the observed facility that states the tax unit's number
  NumberFrom,      \* the date from which it does
  LinkDates,       \* bound: the valid_from dates that reviews give to links
  Cutoffs,         \* bound: knowledge_cutoff_at of the artifacts
  NumberTimes      \* bound: the clocks of a refresh that ends the number

ASSUME LinkAssumption ==
  Cutoffs \subseteq Nat /\ NumberTimes \subseteq Nat /\ LinkDates \subseteq Nat /\ NumberFrom \in Nat

VARIABLES
  number_ended,   \* when the claim of the number was superseded, or NULL
  links,          \* accepted link reviews: what they superseded and reaffirmed
  link_ended,     \* superseded_at of every link claim, which its run names
  known           \* auxiliary: the runs of both kinds that a link review planned on

linkVars == <<number_ended, links, link_ended, known>>
allVars == <<vars, linkVars>>

LinkRuns == DOMAIN links
Stored == DOMAIN link_ended

LinkInit == Init /\ number_ended = NULL /\ links = <<>> /\ link_ended = <<>> /\ known = <<>>

-----------------------------------------------------------------------------
\* _current_assignment
AssignmentsNow(k) == {a \in Assigned : a.observed = Facility /\ superseded_at[a] = NULL}

AssignmentsAsOf(k) ==
  {a \in Assigned : /\ a.observed = Facility /\ RecordedAt(a.run.at) <= k
                    /\ superseded_at[a] # NULL => superseded_at[a] > k}

\* propose_taiwan_tax_relationship_candidates; two assignments are an error.
Proposed(k) ==
  LET assigned == AssignmentsAsOf(k)
  IN IF Cardinality(assigned) > 1 THEN {}
     ELSE {[cutoff |-> k, assignment |-> a] : a \in IF assigned = {} THEN {NULL} ELSE assigned}

Subject(x) ==
  IF x.assignment = NULL THEN Facility
  ELSE TargetOf[ArtifactOf[x.assignment.run.review]][Facility]

\* The date from which the number and the assignment both hold.
EvidenceFrom(x) ==
  IF x.assignment = NULL \/ ValidFromOf[x.assignment.run.review] < NumberFrom THEN NumberFrom
  ELSE ValidFromOf[x.assignment.run.review]

\* _assert_recomputed and _assert_evidence_current at the recorded clock
LinkStands(id) ==
  /\ id.artifact \in Proposed(id.artifact.cutoff)
  /\ number_ended # NULL => number_ended > RecordedAt(id.at)
  /\ LET a == id.artifact.assignment
     IN a # NULL /\ superseded_at[a] # NULL => superseded_at[a] > RecordedAt(id.at)

StoodAtBegin(id) == TRUE

StillStands(id) == LinkStands(id)

RefreshNumber(t) ==
  /\ number_ended = NULL /\ number_ended' = t
  /\ UNCHANGED <<vars, links, link_ended, known>>

\* valid_from is NULL unless the review says that the link is a match.
Matches(id) == id.valid_from # NULL

MayCall == Cardinality(Busy) + Cardinality(Runs) + Cardinality(LinkRuns) < MaxCalls

BeginLink(p, k, from, t) ==
  /\ call[p] = Idle /\ MayCall
  /\ t >= k
  /\ \E x \in Proposed(k) :
       LET id == [artifact |-> x, valid_from |-> from, at |-> t]
       IN /\ Matches(id) => from >= EvidenceFrom(x)
          /\ id \notin LinkRuns
          /\ LinkStands(id)
          /\ call' = [call EXCEPT ![p] = [step |-> "plan link", id |-> id]]
  /\ UNCHANGED <<evidence_ended, runs, superseded_at, seen, linkVars>>

-----------------------------------------------------------------------------
\* _open_relationship_claims
OpenLinks(s) == {l \in Stored : Subject(l.artifact) = s /\ link_ended[l] = NULL}

\* A claim stores neither the artifact nor the assignment: it is restated by a match
\* from the same date.
ReaffirmedLinks(id) ==
  LET open == OpenLinks(Subject(id.artifact))
  IN IF Cardinality(open) = 1 THEN {l \in open : l.valid_from = id.valid_from} ELSE {}

SameDateOnly(id) ==
  {l \in OpenLinks(Subject(id.artifact)) : Matches(id) => l.valid_from = id.valid_from}
    \ ReaffirmedLinks(id)

SupersededLinks(id) == OpenLinks(Subject(id.artifact)) \ ReaffirmedLinks(id)

\* _acceptance_plan, outside any transaction
PlanLink(p) ==
  /\ call[p].step = "plan link"
  /\ LET id == call[p].id
     IN /\ \A l \in OpenLinks(Subject(id.artifact)) : RecordedAt(l.at) < RecordedAt(id.at)
        /\ call' = [call EXCEPT ![p] =
                      [step |-> "commit link", id |-> id, superseded |-> SupersededLinks(id),
                       reaffirmed |-> ReaffirmedLinks(id), known |-> Runs \cup LinkRuns]]
  /\ UNCHANGED <<evidence_ended, runs, superseded_at, seen, linkVars>>

\* The claims of the new claim's series and date, which insert_claim orders.
SlotOf(id) ==
  {l \in Stored : Subject(l.artifact) = Subject(id.artifact) /\ l.valid_from = id.valid_from}

\* insert_claim after the supersession of S: the series is known by then, and the new
\* claim is later than an active one of its slot, which it supersedes.
Insertable(id, S) ==
  /\ LET series == {l \in Stored : Subject(l.artifact) = Subject(id.artifact)}
     IN series # {} => \E l \in series : l.at <= id.at
  /\ \A l \in SlotOf(id) : /\ l.at # id.at
                           /\ link_ended[l] = NULL /\ l \notin S => l.at < id.at

\* The transaction.  Prior claims must still be open; what was proposed and stood
\* when the call began must stand before the commit.
CommitLink(p) ==
  /\ call[p].step = "commit link"
  /\ LET id == call[p].id
         S == call[p].superseded
         created == IF Matches(id) /\ call[p].reaffirmed = {} THEN {id} ELSE {}
         ended == S \cup UNION {{l \in SlotOf(c) : link_ended[l] = NULL} : c \in created}
     IN /\ id \notin LinkRuns
        /\ \A l \in S : link_ended[l] = NULL
        /\ \A c \in created : Insertable(c, S)
        /\ StillStands(id)
        /\ links' = [i \in LinkRuns \cup {id} |->
                       IF i = id THEN [superseded |-> S, kept |-> created \cup call[p].reaffirmed]
                                 ELSE links[i]]
        /\ link_ended' = [l \in Stored \cup created |->
                            IF l \in ended THEN RecordedAt(id.at)
                            ELSE IF l \in Stored THEN link_ended[l] ELSE NULL]
        /\ known' = [i \in LinkRuns \cup {id} |-> IF i = id THEN call[p].known ELSE known[i]]
  /\ call' = [call EXCEPT ![p] = Idle]
  /\ UNCHANGED <<evidence_ended, runs, superseded_at, seen, number_ended>>

LinkNext ==
  \/ \E t \in NumberTimes : RefreshNumber(t)
  \/ \E p \in Process :
       \/ \E k \in Cutoffs, from \in LinkDates \cup {NULL}, t \in AcceptTimes : BeginLink(p, k, from, t)
       \/ PlanLink(p) \/ CommitLink(p)
  \/ /\ Next /\ UNCHANGED linkVars
     /\ Cardinality(Busy') > Cardinality(Busy) => MayCall

LinkSpec == LinkInit /\ [][LinkNext]_allVars

-----------------------------------------------------------------------------
\* _reviewed_relationship_runs: a release of knowledge time k exports a run when it
\* is complete and every claim it kept or superseded is visible as such.
Exported(k) ==
  {i \in LinkRuns : /\ i.at + 1 <= k
                    /\ \A l \in links[i].kept : RecordedAt(l.at) <= k
                    /\ \A l \in links[i].superseded : link_ended[l] <= k}

ShownLinks(s, k) ==
  {l \in Stored : /\ Subject(l.artifact) = s /\ RecordedAt(l.at) <= k
                  /\ link_ended[l] # NULL => k < link_ended[l]}

\* The latest of the exported runs about a subject, if those with an earlier clock are
\* exported too, and had committed when it was planned, and no others.
LastExported(s, k) ==
  LET about == {i \in LinkRuns : Subject(i.artifact) = s}
  IN {i \in about \cap Exported(k) :
        \A j \in about \ {i} :
          /\ j.at < i.at <=> j \in Exported(k)
          /\ j.at < i.at <=> j \in known[i]}

\* In a release of any knowledge time, the latest review it exports decides the
\* links it shows: the match from its date, or none (data_contract.md:228).
LatestLinkDecides ==
  \A k \in Clock \cup {t + 1 : t \in AcceptTimes} :
    \A s \in {Subject(i.artifact) : i \in LinkRuns} : \A id \in LastExported(s, k) :
      {l.valid_from : l \in ShownLinks(s, k)} = {id.valid_from} \ {NULL}

\* A claim rests on what stands at its own clock: neither the number nor the assignment
\* that makes it a claim about another facility had ended by then, though importers
\* and facility reviews commit at any moment of the call.
LinkRestsOnCurrent ==
  [][\A l \in DOMAIN link_ended' \ Stored :
       LET a == l.artifact.assignment
       IN /\ number_ended # NULL => number_ended > RecordedAt(l.at)
          /\ a # NULL /\ superseded_at[a] # NULL => superseded_at[a] > RecordedAt(l.at)]_allVars

\* _later_supersession_is_proven
LinkProven(l) ==
  \E i \in LinkRuns : /\ i.at > RecordedAt(l.at) /\ l \in links[i].superseded
                      /\ RecordedAt(i.at) = link_ended[l]

\* _verify_exact_replay, after the artifact was recomputed
LinkReplayVerifies(id) ==
  /\ id.artifact \in Proposed(id.artifact.cutoff)
  /\ \A l \in links[id].kept : link_ended[l] # NULL => LinkProven(l)
  /\ \A l \in links[id].superseded : link_ended[l] = RecordedAt(id.at)

\* Replay verifies a link review for ever if the reviews after it are accepted one at a
\* time with clocks past its own three seconds, and no facility review is dated back
\* behind the cutoff: what importers and reviewers change later leaves it alone.
LinkReplaysLater ==
  \A id \in LinkRuns :
    /\ \A i \in Runs \ known[id] : RecordedAt(i.at) > id.artifact.cutoff
    /\ \A i \in LinkRuns \ (known[id] \cup {id}) : id \in known[i] /\ i.at > RecordedAt(id.at)
    => LinkReplayVerifies(id)
=============================================================================

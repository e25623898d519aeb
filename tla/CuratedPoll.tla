----------------------------- MODULE CuratedPoll -----------------------------
(***************************************************************************)
(* The scheduled poller of src/semiconductor_atlas/curated_poll.py: its    *)
(* durable receipts, the capture packets it leaves, the review queue it    *)
(* imports them into, and the recovery of an invocation that died.         *)
(*                                                                         *)
(* Everything that survives a crash is on disk: an intent, written before  *)
(* any request; a packet, complete once its manifest is there; an outcome; *)
(* the queue.  An invocation holds a kernel lock that dies with it, first  *)
(* reconciles the jobs it finds, then visits the targets of the catalog.   *)
(* Two processes may be invoked at any time; an operator may import a      *)
(* packet by hand.                                                         *)
(***************************************************************************)
EXTENDS Naturals, Sequences, FiniteSets

CONSTANTS
  Poller, Key,     \* processes; a facility with the hash of its plan
  Catalog,         \* the targets in catalog order
  Interval,        \* interval_seconds
  ExpiresAt,       \* when the plans expire
  NULL, Torn,      \* no value; a receipt that a crash left unreadable
  MaxJobs,         \* bound: jobs of a key
  MaxTime,         \* bound: the clock
  MaxCrashes, MaxFailures, MaxDamages, MaxForces   \* bounds: faults and forced runs

Status == {"interrupted_capture", "recovered_import", "captured_imported",
           "capture_failed", "queue_import_failed"}

ASSUME PollAssumption ==
  /\ Catalog \in Seq(Key) /\ \A i, j \in DOMAIN Catalog : Catalog[i] = Catalog[j] => i = j
  /\ Interval \in Nat \ {0} /\ ExpiresAt \in Nat /\ MaxTime \in Nat /\ MaxJobs \in Nat
  /\ NULL \notin Nat \cup Poller \cup Status
  /\ Torn \notin Nat /\ NULL # Torn

Job == Key \X (1 .. MaxJobs)
Clock == 0 .. MaxTime

VARIABLES
  now,
  intent,     \* intent.json of a job: its clock, NULL or Torn
  packet,     \* the job's packet: "incomplete" (or absent), "complete" or "damaged"
  finished,   \* run.finished_at of a complete packet
  outcome,    \* outcome.json of a job, or NULL
  queue,      \* the jobs whose packets the review queue has imported, in order
  lock,       \* the process that holds the queue's poll lock, or NULL
  tick,       \* what each process has in memory
  forced,     \* the jobs that --force started
  faults      \* how many faults of each kind have happened

disk == <<intent, packet, finished, outcome, queue>>
vars == <<now, disk, lock, tick, forced, faults>>

Idle == [pc |-> "idle", force |-> FALSE, todo |-> {}, seen |-> {}, runs |-> {},
         blocked |-> {}, target |-> 1, job |-> NULL, result |-> NULL]

Pc == {"idle", "reconcile", "receipt", "targets", "pace", "capture", "import", "outcome"}

TypeOK ==
  /\ now \in Clock
  /\ intent \in [Job -> Clock \cup {NULL, Torn}]
  /\ packet \in [Job -> {"incomplete", "complete", "damaged"}]
  /\ finished \in [Job -> Clock \cup {NULL}]
  /\ outcome \in [Job -> Status \cup {NULL}]
  /\ queue \in Seq(Job)
  /\ lock \in Poller \cup {NULL}
  /\ \A p \in Poller :
       /\ tick[p].pc # "idle" <=> lock = p
       /\ tick[p].pc \in Pc /\ tick[p].seen \subseteq Job /\ tick[p].todo \subseteq tick[p].seen
       /\ tick[p].blocked \subseteq Key /\ tick[p].job \in Job \cup {NULL}
       /\ tick[p].target \in 1 .. Len(Catalog) + 1

NoFaults == [crash |-> 0, import |-> 0, damage |-> 0, force |-> 0]

Init ==
  /\ now = 0
  /\ intent = [j \in Job |-> NULL] /\ packet = [j \in Job |-> "incomplete"]
  /\ finished = [j \in Job |-> NULL] /\ outcome = [j \in Job |-> NULL]
  /\ queue = <<>>
  /\ lock = NULL /\ tick = [p \in Poller |-> Idle]
  /\ forced = {} /\ faults = NoFaults

-----------------------------------------------------------------------------
Imported == {queue[i] : i \in DOMAIN queue}

\* import_capture, in one transaction: a manifest that is already there is left alone.
Enqueue(j) == queue' = IF j \in Imported THEN queue ELSE Append(queue, j)

\* A receipt is created exclusively, and only where there is none.
Receive(j, status) ==
  outcome' = IF outcome[j] = NULL THEN [outcome EXCEPT ![j] = status] ELSE outcome

At(p, pc) == tick[p].pc = pc
Goto(p, pc) == tick' = [tick EXCEPT ![p].pc = pc]

Fault(kind, max) == faults[kind] < max /\ faults' = [faults EXCEPT ![kind] = @ + 1]

LockIgnored(p) == lock' = p

AcquireLock(p) == lock = NULL /\ lock' = p

Unreadable == \E j \in Job : intent[j] = Torn

\* An invocation reads the jobs under the lock.  It refuses to work with an intent
\* it cannot read.
Invoke(p, force) ==
  /\ At(p, "idle")
  /\ AcquireLock(p)
  /\ ~Unreadable
  /\ IF force THEN Fault("force", MaxForces) ELSE UNCHANGED faults
  /\ LET jobs == {j \in Job : intent[j] # NULL}
     IN tick' = [tick EXCEPT ![p] =
                   [Idle EXCEPT !.pc = "reconcile", !.force = force, !.seen = jobs, !.todo = jobs]]
  /\ UNCHANGED <<now, disk, forced>>

-----------------------------------------------------------------------------
\* _reconcile, one job at a time, in the order of the random names of the ticks.
Done(p, j) == tick' = [tick EXCEPT ![p].todo = @ \ {j}]

RecordInterrupted(p, j) ==
  /\ packet[j] = "incomplete"
  /\ Receive(j, "interrupted_capture")
  /\ Done(p, j)
  /\ UNCHANGED <<now, intent, packet, finished, queue, lock, forced, faults>>

RecoverUnreceipted(p, j) ==
  /\ packet[j] = "complete"
  /\ IF outcome[j] = NULL
       THEN Enqueue(j) /\ tick' = [tick EXCEPT ![p].pc = "receipt", ![p].job = j]
       ELSE Done(p, j) /\ UNCHANGED queue
  /\ UNCHANGED <<now, intent, packet, finished, outcome, lock, forced, faults>>

\* A completed packet is imported whatever receipt its job has.
RecoverImport(p, j) ==
  /\ packet[j] = "complete"
  /\ Enqueue(j)
  /\ tick' = [tick EXCEPT ![p].pc = "receipt", ![p].job = j]
  /\ UNCHANGED <<now, intent, packet, finished, outcome, lock, forced, faults>>

RecoverReceipt(p) ==
  /\ At(p, "receipt")
  /\ Receive(tick[p].job, "recovered_import")
  /\ tick' = [tick EXCEPT ![p].pc = "reconcile", ![p].todo = @ \ {tick[p].job}]
  /\ UNCHANGED <<now, intent, packet, finished, queue, lock, forced, faults>>

\* A packet that does not validate, or a queue that refuses, blocks the key.
RecoveryBlocked(p, j) ==
  /\ \/ packet[j] = "damaged" /\ UNCHANGED faults
     \/ packet[j] = "complete" /\ Fault("import", MaxFailures)
  /\ tick' = [tick EXCEPT ![p].todo = @ \ {j}, ![p].blocked = @ \cup {j[1]}]
  /\ UNCHANGED <<now, disk, lock, forced>>

Reconcile(p) ==
  /\ At(p, "reconcile")
  /\ \/ \E j \in tick[p].todo :
          \/ RecordInterrupted(p, j) \/ RecoverImport(p, j)
          \/ RecoveryBlocked(p, j)
     \/ /\ tick[p].todo = {}
        /\ tick' = [tick EXCEPT ![p].pc = "targets", ![p].runs = Imported]
        /\ UNCHANGED <<now, disk, lock, forced, faults>>

-----------------------------------------------------------------------------
\* The targets, one at a time, on the jobs seen and the runs read after recovery.
Target(p) == Catalog[tick[p].target]
Of(jobs, k) == {j \in jobs : j[1] = k}

ClocksOfRuns(p) == {finished[j] : j \in Of(tick[p].runs, Target(p))}

\* Skips and queue admissions do not count; every intent does, also an interrupted one.
Clocks(p) == ClocksOfRuns(p) \cup {intent[j] : j \in Of(tick[p].seen, Target(p))}

Due(p) == \A t \in Clocks(p) : t + Interval <= now

AmbiguousPrior(p) ==
  LET runs == Of(tick[p].runs, Target(p))
  IN \E i, j \in runs : /\ i # j /\ finished[i] = finished[j]
                        /\ \A r \in runs : finished[r] <= finished[i]

NextJob(k) == <<k, Cardinality({j \in Of(Job, k) : intent[j] # NULL}) + 1>>

Attempts(p) ==
  /\ Target(p) \notin tick[p].blocked
  /\ now < ExpiresAt
  /\ Due(p) \/ tick[p].force
  /\ ~AmbiguousPrior(p)
  /\ NextJob(Target(p)) \in Job   \* bound

NextTarget(p) ==
  tick' = [tick EXCEPT ![p].pc = "targets", ![p].target = @ + 1, ![p].job = NULL,
                       ![p].result = NULL]

VisitTarget(p) ==
  /\ At(p, "targets") /\ tick[p].target <= Len(Catalog)
  /\ IF Attempts(p) THEN Goto(p, "pace") ELSE NextTarget(p)
  /\ UNCHANGED <<now, disk, lock, forced, faults>>

\* The plan may expire while the poller waits between two plans.
StillAllowed == now < ExpiresAt

WriteIntent(p) ==
  /\ At(p, "pace")
  /\ LET j == NextJob(Target(p))
     IN IF StillAllowed
          THEN /\ intent' = [intent EXCEPT ![j] = now]
               /\ forced' = IF tick[p].force THEN forced \cup {j} ELSE forced
               /\ tick' = [tick EXCEPT ![p].pc = "capture", ![p].job = j]
          ELSE /\ NextTarget(p)
               /\ UNCHANGED <<intent, forced>>
  /\ UNCHANGED <<now, packet, finished, outcome, queue, lock, faults>>

\* capture_sources publishes the manifest last; failed checks complete a packet too.
CompleteCapture(p) ==
  /\ At(p, "capture") /\ now < ExpiresAt
  /\ packet' = [packet EXCEPT ![tick[p].job] = "complete"]
  /\ finished' = [finished EXCEPT ![tick[p].job] = now]
  /\ Goto(p, "import")
  /\ UNCHANGED <<now, intent, outcome, queue, lock, forced, faults>>

FailCapture(p) ==
  /\ At(p, "capture")
  /\ tick' = [tick EXCEPT ![p].pc = "outcome", ![p].result = "capture_failed"]
  /\ UNCHANGED <<now, disk, lock, forced, faults>>

ImportPacket(p) ==
  /\ At(p, "import")
  /\ LET j == tick[p].job
     IN \/ /\ packet[j] = "complete"
           /\ Enqueue(j)
           /\ tick' = [tick EXCEPT ![p].pc = "outcome", ![p].result = "captured_imported"]
           /\ UNCHANGED faults
        \/ /\ \/ packet[j] = "damaged" /\ UNCHANGED faults
              \/ packet[j] = "complete" /\ Fault("import", MaxFailures)
           /\ tick' = [tick EXCEPT ![p].pc = "outcome", ![p].result = "queue_import_failed"]
           /\ UNCHANGED queue
  /\ UNCHANGED <<now, intent, packet, finished, outcome, lock, forced>>

\* The receipt of an attempt is created exclusively: it is an error if it exists.
WriteOutcome(p) ==
  /\ At(p, "outcome")
  /\ IF outcome[tick[p].job] = NULL
       THEN Receive(tick[p].job, tick[p].result) /\ NextTarget(p) /\ UNCHANGED lock
       ELSE tick' = [tick EXCEPT ![p] = Idle] /\ lock' = NULL /\ UNCHANGED outcome
  /\ UNCHANGED <<now, intent, packet, finished, queue, forced, faults>>

Finish(p) ==
  /\ At(p, "targets") /\ tick[p].target > Len(Catalog)
  /\ tick' = [tick EXCEPT ![p] = Idle]
  /\ lock' = NULL
  /\ UNCHANGED <<now, disk, forced, faults>>

-----------------------------------------------------------------------------
\* A process dies anywhere, even while it writes the intent or the manifest, whose
\* files are created before they are filled; the kernel frees the lock.
Crash(p) ==
  /\ ~At(p, "idle")
  /\ Fault("crash", MaxCrashes)
  /\ \/ UNCHANGED <<intent, packet>>
     \/ /\ At(p, "pace") /\ StillAllowed
        /\ intent' = [intent EXCEPT ![NextJob(Target(p))] = Torn]
        /\ UNCHANGED packet
     \/ /\ At(p, "capture") /\ now < ExpiresAt
        /\ packet' = [packet EXCEPT ![tick[p].job] = "damaged"]
        /\ UNCHANGED intent
  /\ tick' = [tick EXCEPT ![p] = Idle]
  /\ lock' = NULL
  /\ UNCHANGED <<now, finished, outcome, queue, forced>>

\* Bytes of a packet that is not imported yet are lost or altered.
Damage(j) ==
  /\ packet[j] = "complete" /\ j \notin Imported
  /\ Fault("damage", MaxDamages)
  /\ packet' = [packet EXCEPT ![j] = "damaged"]
  /\ UNCHANGED <<now, intent, finished, outcome, queue, lock, tick, forced>>

\* The import command of scripts/review_curated_sources.py takes no poll lock.
OperatorImport(j) ==
  /\ packet[j] = "complete" /\ j \notin Imported
  /\ Enqueue(j)
  /\ UNCHANGED <<now, intent, packet, finished, outcome, lock, tick, forced, faults>>

Pass ==
  /\ now < MaxTime
  /\ now' = now + 1
  /\ UNCHANGED <<disk, lock, tick, forced, faults>>

Step(p) ==
  \/ Reconcile(p) \/ RecoverReceipt(p)
  \/ VisitTarget(p) \/ WriteIntent(p) \/ CompleteCapture(p) \/ FailCapture(p)
  \/ ImportPacket(p) \/ WriteOutcome(p) \/ Finish(p)

Next ==
  \/ \E p \in Poller : Step(p) \/ Crash(p) \/ \E force \in BOOLEAN : Invoke(p, force)
  \/ \E j \in Job : Damage(j) \/ OperatorImport(j)
  \/ Pass

\* The daily task keeps invoking; a running process runs on.
Fairness == \A p \in Poller : WF_vars(Step(p)) /\ WF_vars(Invoke(p, FALSE))

Spec == Init /\ [][Next]_vars /\ Fairness

-----------------------------------------------------------------------------
\* Nothing of a key is fetched again while a completed packet of that key waits for
\* its import: recovery comes before acquisition, and a packet that cannot be
\* recovered stops it.
RecoverBeforeFetch ==
  \A p \in Poller : At(p, "capture") =>
    \A j \in Of(Job, tick[p].job[1]) : packet[j] # "incomplete" => j \in Imported

\* Two attempts on a key are an interval apart, and an attempt an interval after the
\* last completed capture, through crashes, interrupted captures and concurrent
\* invocations, unless the later one was forced.
Cadence ==
  \A i, j \in Job :
    /\ i[1] = j[1] /\ i[2] < j[2] /\ j \notin forced
    /\ intent[i] \in Nat /\ intent[j] \in Nat
    => /\ intent[i] + Interval <= intent[j]
       /\ finished[i] # NULL => finished[i] + Interval <= intent[j]

\* A receipt is true when it is written and stays true.
ReceiptsAreTrue ==
  \A j \in Job :
    /\ outcome[j] \in {"recovered_import", "captured_imported"} => j \in Imported
    /\ outcome[j] \in {"interrupted_capture", "capture_failed"} => packet[j] = "incomplete"


\* docs/curated_poll.md: on the next invocation, completed managed packets are
\* verified and imported before any fetch.
RecoveredByLaterInvocation ==
  \A j \in Job : packet[j] = "complete" ~> (j \in Imported \/ packet[j] = "damaged")
=============================================================================

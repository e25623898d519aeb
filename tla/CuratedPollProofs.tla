-------------------------- MODULE CuratedPollProofs --------------------------
(***************************************************************************)
(* Proofs about CuratedPoll, for any processes, keys, catalogs, intervals, *)
(* faults and invocations.  The kernel lock keeps all ticks but one idle;  *)
(* what the one that runs has read is true for as long as it runs.         *)
(***************************************************************************)
EXTENDS CuratedPoll, FiniteSetTheorems, TLAPS

Tick == [pc : Pc, force : BOOLEAN, todo : SUBSET Job, seen : SUBSET Job, runs : SUBSET Job,
         blocked : SUBSET Key, target : 1 .. Len(Catalog) + 1, job : Job \cup {NULL},
         result : Status \cup {NULL}]

Typed == TypeOK /\ tick \in [Poller -> Tick] /\ forced \subseteq Job

Recovering(p) == tick[p].pc \in {"reconcile", "receipt"}
Working(p) == tick[p].pc \in {"capture", "import", "outcome"}

-----------------------------------------------------------------------------
(* The disk. *)

\* The jobs of a key are numbered in the order in which they were started.
IntentsInOrder ==
  \A k \in Key : \E n \in 0 .. MaxJobs : \A m \in 1 .. MaxJobs :
    intent[<<k, m>>] # NULL <=> m <= n

\* A packet or a receipt belongs to a job that was started; a job finishes with a packet,
\* and only a finished one is imported.
IntentFirst ==
  \A j \in Job :
    /\ packet[j] # "incomplete" \/ outcome[j] # NULL => intent[j] # NULL
    /\ finished[j] # NULL => packet[j] # "incomplete"
    /\ packet[j] = "complete" \/ j \in Imported => finished[j] # NULL

-----------------------------------------------------------------------------
(* The tick of the process that holds the lock. *)

\* While it runs nobody else starts a job: there are those it read, all of them readable,
\* those of the targets it has visited, and the one it works on.
KnowsJobs(p) ==
  /\ \A j \in tick[p].seen : intent[j] \in Clock
  /\ \A j \in Job : intent[j] # NULL =>
       \/ j \in tick[p].seen
       \/ \E i \in 1 .. tick[p].target - 1 : j[1] = Catalog[i]
       \/ Working(p) /\ j = tick[p].job

\* What it has reconciled stays as it left it, unless the key is blocked.
Reconciled(p) ==
  /\ \A j \in tick[p].seen \ tick[p].todo :
       packet[j] = "incomplete" \/ j \in Imported \/ j[1] \in tick[p].blocked
  /\ tick[p].runs \subseteq Imported
  /\ Recovering(p) => tick[p].target = 1
  /\ tick[p].pc = "receipt" => tick[p].job \in Imported /\ tick[p].job \in tick[p].todo
  /\ ~Recovering(p) =>
       /\ tick[p].todo = {}
       /\ \A j \in tick[p].seen :
            finished[j] # NULL => j \in tick[p].runs \/ j[1] \in tick[p].blocked

\* The target it is about to attempt may be attempted.
MayAttempt(p) ==
  tick[p].pc = "pace" =>
    /\ tick[p].target <= Len(Catalog) /\ Target(p) \notin tick[p].blocked
    /\ NextJob(Target(p)) \in Job
    /\ tick[p].force \/ Due(p)

\* The job it works on is new, the last of its key, and of a target that is not blocked.
OwnJob(p) ==
  Working(p) =>
    /\ tick[p].target <= Len(Catalog)
    /\ tick[p].job \in Job \ tick[p].seen
    /\ tick[p].job[1] = Target(p) /\ Target(p) \notin tick[p].blocked
    /\ intent[tick[p].job] # NULL
    /\ \A j \in Job : j[1] = tick[p].job[1] /\ j[2] > tick[p].job[2] => intent[j] = NULL

\* How far that job has come.
Progress(p) ==
  /\ tick[p].pc = "capture" =>
       packet[tick[p].job] = "incomplete" /\ outcome[tick[p].job] = NULL
  /\ tick[p].pc = "import" => packet[tick[p].job] # "incomplete"
  /\ tick[p].pc = "outcome" =>
       /\ tick[p].result \in {"captured_imported", "capture_failed", "queue_import_failed"}
       /\ tick[p].result = "captured_imported" => tick[p].job \in Imported
       /\ tick[p].result = "capture_failed" => packet[tick[p].job] = "incomplete"

TickInv(p) ==
  KnowsJobs(p) /\ Reconciled(p) /\ MayAttempt(p) /\ OwnJob(p) /\ Progress(p)

IInv ==
  /\ Typed
  /\ IntentsInOrder /\ IntentFirst
  /\ Cadence /\ ReceiptsAreTrue
  /\ \A p \in Poller : ~At(p, "idle") => TickInv(p)

-----------------------------------------------------------------------------
LEMMA EnqueueImports ==
  ASSUME Typed, NEW j \in Job, Enqueue(j)
  PROVE  queue' \in Seq(Job) /\ Imported' = Imported \cup {j}
<1>1. queue \in Seq(Job)
  BY DEF Typed, TypeOK
<1>2. CASE j \in Imported
  BY <1>1, <1>2 DEF Enqueue, Imported
<1>3. CASE j \notin Imported
  <2>1. queue' = Append(queue, j) /\ queue' \in Seq(Job) /\ Len(queue') = Len(queue) + 1
    BY <1>1, <1>3 DEF Enqueue
  <2>2. /\ DOMAIN queue = 1 .. Len(queue) /\ DOMAIN queue' = 1 .. Len(queue) + 1 /\ Len(queue) \in Nat
        /\ \A i \in 1 .. Len(queue) : queue'[i] = queue[i]
        /\ queue'[Len(queue) + 1] = j
    BY <1>1, <2>1
  <2>3. Imported' = Imported \cup {j}
    BY <2>2 DEF Imported
  <2>. QED
    BY <2>1, <2>3
<1>. QED
  BY <1>2, <1>3

\* The next job of a key is the first that was not started.
LEMMA NextJobIsNew ==
  ASSUME Typed, IntentsInOrder, NEW k \in Key, NextJob(k) \in Job
  PROVE  /\ NextJob(k)[1] = k /\ intent[NextJob(k)] = NULL
         /\ \A m \in 1 .. MaxJobs : intent[<<k, m>>] # NULL <=> m < NextJob(k)[2]
         /\ NextJob(k)[2] \in 1 .. MaxJobs
<1>1. PICK n \in 0 .. MaxJobs : \A m \in 1 .. MaxJobs : intent[<<k, m>>] # NULL <=> m <= n
  BY DEF IntentsInOrder
<1>. DEFINE started == {j \in Of(Job, k) : intent[j] # NULL}
            f == [m \in 1 .. n |-> <<k, m>>]
<1>2. MaxJobs \in Nat /\ n \in Nat
  BY PollAssumption
<1>3. f \in Bijection(1 .. n, started)
  <2>1. \A j \in Job : j = <<j[1], j[2]>> /\ j[1] \in Key /\ j[2] \in 1 .. MaxJobs
    BY DEF Job
  <2>2. ASSUME NEW m \in 1 .. n PROVE f[m] \in started
    BY <1>1, <1>2 DEF Of, Job
  <2>3. ASSUME NEW j \in started PROVE \E m \in 1 .. n : f[m] = j
    <3>1. j = <<k, j[2]>> /\ j[2] \in 1 .. MaxJobs /\ intent[j] # NULL
      BY <2>1 DEF Of
    <3>2. j[2] \in 1 .. n
      BY <1>1, <1>2, <3>1
    <3>. QED
      BY <3>1, <3>2
  <2>4. \A a, b \in 1 .. n : f[a] = f[b] => a = b
    OBVIOUS
  <2>. HIDE DEF started
  <2>5. f \in [1 .. n -> started]
    BY <2>2
  <2>. HIDE DEF f
  <2>. QED
    BY <2>3, <2>4, <2>5 DEF Bijection, Injection, Surjection, IsInjective
<1>4. Cardinality(started) = n
  BY <1>2, <1>3, FS_CountingElements DEF ExistsBijection
<1>5. NextJob(k) = <<k, n + 1>>
  BY <1>4 DEF NextJob
<1>6. n + 1 \in 1 .. MaxJobs
  BY <1>5, <1>2 DEF Job
<1>. QED
  BY <1>1, <1>2, <1>5, <1>6

\* A catalog lists a key once.
LEMMA CatalogFacts ==
  /\ Len(Catalog) \in Nat /\ DOMAIN Catalog = 1 .. Len(Catalog)
  /\ \A i \in 1 .. Len(Catalog) : Catalog[i] \in Key
  /\ \A i, j \in 1 .. Len(Catalog) : Catalog[i] = Catalog[j] => i = j
BY PollAssumption

LEMMA ClockFacts == Clock \subseteq Nat /\ NULL \notin Clock /\ Torn \notin Clock
BY PollAssumption DEF Clock

\* Only the process that holds the lock runs.
LEMMA OneRuns ==
  ASSUME Typed, NEW p \in Poller
  PROVE  /\ ~At(p, "idle") <=> lock = p
         /\ ~At(p, "idle") => \A q \in Poller : q # p => At(q, "idle")
BY DEF Typed, TypeOK, At

\* What is kept of the disk when receipts and intents are, and imports are only added.
LEMMA DiskKept ==
  ASSUME IInv, UNCHANGED <<intent, packet, finished, outcome>>, forced \subseteq forced',
         Imported \subseteq Imported', \A j \in Imported' \ Imported : packet[j] = "complete"
  PROVE  IntentsInOrder' /\ IntentFirst' /\ Cadence' /\ ReceiptsAreTrue'
BY DEF IInv, IntentsInOrder, IntentFirst, Cadence, ReceiptsAreTrue

LEMMA InitIInv == Init => IInv
<1>. SUFFICES ASSUME Init PROVE IInv
  OBVIOUS
<1>. USE PollAssumption
<1>1. Typed
  <2>1. /\ Idle \in Tick /\ Idle.pc = "idle" /\ Idle.seen = {} /\ Idle.todo = {}
        /\ Idle.blocked = {} /\ Idle.job = NULL /\ Idle.target = 1
    BY CatalogFacts DEF Idle, Tick, Pc
  <2>2. \A p \in Poller : tick[p] = Idle /\ p # NULL
    BY DEF Init
  <2>3. lock = NULL /\ tick \in [Poller -> Tick] /\ forced \subseteq Job
    BY <2>1 DEF Init
  <2>4. TypeOK
    BY <2>1, <2>2, <2>3, CatalogFacts DEF Init, TypeOK, Clock, Pc
  <2>. QED
    BY <2>3, <2>4 DEF Typed
<1>2. IntentsInOrder
  <2>1. ASSUME NEW k \in Key PROVE \A m \in 1 .. MaxJobs : intent[<<k, m>>] # NULL <=> m <= 0
    BY DEF Init, Job
  <2>. QED
    BY <2>1 DEF IntentsInOrder
<1>3. IntentFirst /\ Cadence
  BY DEF Init, IntentFirst, Cadence, Imported
<1>4. ReceiptsAreTrue
  BY DEF Init, ReceiptsAreTrue, Status
<1>5. \A p \in Poller : At(p, "idle")
  BY DEF Init, At, Idle
<1>. QED
  BY <1>1, <1>2, <1>3, <1>4, <1>5 DEF IInv

-----------------------------------------------------------------------------
\* What is typed besides the lock and the ticks.
WorldTyped ==
  /\ now \in Clock /\ intent \in [Job -> Clock \cup {NULL, Torn}]
  /\ packet \in [Job -> {"incomplete", "complete", "damaged"}]
  /\ finished \in [Job -> Clock \cup {NULL}] /\ outcome \in [Job -> Status \cup {NULL}]
  /\ queue \in Seq(Job) /\ forced \subseteq Job

\* A step of the process that holds the lock and keeps it.
LEMMA HolderTyped ==
  ASSUME Typed, NEW p \in Poller, lock = p, lock' = p, NEW t \in Tick,
         t.pc # "idle", t.todo \subseteq t.seen, tick' = [tick EXCEPT ![p] = t], WorldTyped'
  PROVE  Typed' /\ tick'[p] = t
BY DEF Typed, TypeOK, Tick, WorldTyped

LEMMA HolderKeeps ==
  ASSUME Typed', NEW p \in Poller, lock' = p, TickInv(p)'
  PROVE  \A q \in Poller : ~At(q, "idle")' => TickInv(q)'
BY DEF Typed, TypeOK, At

\* A step of it in memory.
LEMMA HolderThinks ==
  ASSUME IInv, NEW p \in Poller, lock = p, NEW t \in Tick, t.pc # "idle", t.todo \subseteq t.seen,
         tick' = [tick EXCEPT ![p] = t], UNCHANGED <<now, disk, lock, forced>>
  PROVE  tick'[p] = t /\ Imported' = Imported /\ (TickInv(p)' => IInv')
<1>1. UNCHANGED <<now, intent, packet, finished, outcome, queue, lock, forced>>
  BY DEF disk
<1>2. Typed' /\ tick'[p] = t
  <2>1. Typed
    BY DEF IInv
  <2>2. WorldTyped'
    BY <1>1, <2>1 DEF Typed, TypeOK, WorldTyped
  <2>. QED
    BY <1>1, <2>1, <2>2, HolderTyped
<1>3. Imported' = Imported
  BY <1>1 DEF Imported
<1>4. IntentsInOrder' /\ IntentFirst' /\ Cadence' /\ ReceiptsAreTrue'
  BY <1>1, <1>3, DiskKept
<1>. QED
  BY <1>1, <1>2, <1>3, <1>4, HolderKeeps DEF IInv

\* The process ends, or dies.
LEMMA HolderLeaves ==
  ASSUME Typed, NEW p \in Poller, lock = p, lock' = NULL, tick' = [tick EXCEPT ![p] = Idle],
         now' \in Clock, intent' \in [Job -> Clock \cup {NULL, Torn}],
         packet' \in [Job -> {"incomplete", "complete", "damaged"}],
         finished' \in [Job -> Clock \cup {NULL}], outcome' \in [Job -> Status \cup {NULL}],
         queue' \in Seq(Job), forced' \subseteq Job
  PROVE  Typed' /\ \A q \in Poller : At(q, "idle")'
<1>1. /\ Idle \in Tick /\ Idle.pc = "idle" /\ Idle.seen = {} /\ Idle.todo = {}
      /\ Idle.blocked = {} /\ Idle.job = NULL /\ Idle.target = 1
  BY CatalogFacts DEF Idle, Tick, Pc
<1>2. \A q \in Poller : tick'[q] = IF q = p THEN Idle ELSE tick[q]
  BY DEF Typed
<1>3. tick' \in [Poller -> Tick] /\ NULL \notin Poller
  BY <1>1, PollAssumption DEF Typed
<1>4. TypeOK'
  BY <1>1, <1>2, <1>3, CatalogFacts DEF Typed, TypeOK, Pc
<1>. QED
  BY <1>1, <1>2, <1>3, <1>4 DEF Typed, TypeOK, At

-----------------------------------------------------------------------------
LEMMA RecordInterruptedIInv ==
  ASSUME IInv, NEW p \in Poller, At(p, "reconcile"), NEW j \in tick[p].todo, RecordInterrupted(p, j)
  PROVE  IInv'
<1>1. /\ Typed /\ TickInv(p) /\ lock = p /\ lock' = p /\ j \in Job /\ tick[p] \in Tick
      /\ tick[p].todo \subseteq tick[p].seen /\ intent[j] # NULL /\ packet[j] = "incomplete"
  BY OneRuns, ClockFacts DEF IInv, RecordInterrupted, At, Typed, TypeOK, TickInv, KnowsJobs
<1>. DEFINE t == [tick[p] EXCEPT !.todo = @ \ {j}]
<1>2. /\ tick' = [tick EXCEPT ![p] = t] /\ t \in Tick /\ t.pc = "reconcile"
      /\ t.todo = tick[p].todo \ {j} /\ t.seen = tick[p].seen /\ t.target = tick[p].target
      /\ t.blocked = tick[p].blocked /\ t.runs = tick[p].runs
  BY <1>1 DEF RecordInterrupted, Done, Typed, Tick, At
<1>. HIDE DEF t
<1>3. /\ UNCHANGED <<now, intent, packet, finished, queue, forced>>
      /\ outcome' \in [Job -> Status \cup {NULL}]
      /\ \A i \in Job : outcome'[i] = outcome[i] \/ (i = j /\ outcome'[i] = "interrupted_capture")
  BY <1>1 DEF RecordInterrupted, Receive, Typed, TypeOK, Status
<1>4. Typed' /\ tick'[p] = t
  <2>1. WorldTyped'
    BY <1>1, <1>3 DEF Typed, TypeOK, WorldTyped
  <2>2. t.pc # "idle" /\ t.todo \subseteq t.seen
    BY <1>1, <1>2
  <2>. QED
    BY <1>1, <1>2, <2>1, <2>2, HolderTyped
<1>5. Imported' = Imported
  BY <1>3 DEF Imported
<1>6. IntentsInOrder' /\ Cadence'
  BY <1>3 DEF IInv, IntentsInOrder, Cadence
<1>7. IntentFirst' /\ ReceiptsAreTrue'
  BY <1>1, <1>3, <1>5 DEF IInv, IntentFirst, ReceiptsAreTrue
<1>8. KnowsJobs(p)'
  BY <1>1, <1>2, <1>3, <1>4 DEF TickInv, KnowsJobs, Working, At
<1>9. Reconciled(p)'
  BY <1>1, <1>2, <1>3, <1>4, <1>5 DEF TickInv, Reconciled, Recovering, At
<1>10. MayAttempt(p)' /\ OwnJob(p)' /\ Progress(p)'
  BY <1>2, <1>4 DEF MayAttempt, OwnJob, Progress, Working
<1>. QED
  BY <1>1, <1>4, <1>6, <1>7, <1>8, <1>9, <1>10, HolderKeeps DEF IInv, TickInv

LEMMA RecoverImportIInv ==
  ASSUME IInv, NEW p \in Poller, At(p, "reconcile"), NEW j \in tick[p].todo, RecoverImport(p, j)
  PROVE  IInv'
<1>1. /\ Typed /\ TickInv(p) /\ lock = p /\ lock' = p /\ j \in Job /\ tick[p] \in Tick
      /\ tick[p].todo \subseteq tick[p].seen /\ packet[j] = "complete"
  BY OneRuns DEF IInv, RecoverImport, At, Typed, TypeOK
<1>. DEFINE t == [tick[p] EXCEPT !.pc = "receipt", !.job = j]
<1>2. /\ tick' = [tick EXCEPT ![p] = t] /\ t \in Tick /\ t.pc = "receipt" /\ t.job = j
      /\ t.todo = tick[p].todo /\ t.seen = tick[p].seen /\ t.target = tick[p].target
      /\ t.blocked = tick[p].blocked /\ t.runs = tick[p].runs
  BY <1>1 DEF RecoverImport, Typed, Tick, Pc
<1>. HIDE DEF t
<1>3. /\ UNCHANGED <<now, intent, packet, finished, outcome, forced>>
      /\ queue' \in Seq(Job) /\ Imported' = Imported \cup {j}
  BY <1>1, EnqueueImports DEF RecoverImport
<1>4. Typed' /\ tick'[p] = t
  <2>1. WorldTyped'
    BY <1>1, <1>3 DEF Typed, TypeOK, WorldTyped
  <2>2. t.pc # "idle" /\ t.todo \subseteq t.seen
    BY <1>1, <1>2
  <2>. QED
    BY <1>1, <1>2, <2>1, <2>2, HolderTyped
<1>5. IntentsInOrder' /\ IntentFirst' /\ Cadence' /\ ReceiptsAreTrue'
  BY <1>1, <1>3, DiskKept
<1>6. KnowsJobs(p)'
  BY <1>1, <1>2, <1>3, <1>4 DEF TickInv, KnowsJobs, Working, At
<1>7. Reconciled(p)'
  BY <1>1, <1>2, <1>3, <1>4 DEF TickInv, Reconciled, Recovering, At
<1>8. MayAttempt(p)' /\ OwnJob(p)' /\ Progress(p)'
  BY <1>2, <1>4 DEF MayAttempt, OwnJob, Progress, Working
<1>. QED
  BY <1>1, <1>4, <1>5, <1>6, <1>7, <1>8, HolderKeeps DEF IInv, TickInv

LEMMA RecoverReceiptIInv ==
  ASSUME IInv, NEW p \in Poller, RecoverReceipt(p)
  PROVE  IInv'
<1>. DEFINE j == tick[p].job
            t == [tick[p] EXCEPT !.pc = "reconcile", !.todo = @ \ {j}]
<1>1. /\ Typed /\ TickInv(p) /\ lock = p /\ lock' = p /\ tick[p] \in Tick
      /\ tick[p].todo \subseteq tick[p].seen /\ tick[p].pc = "receipt"
  BY OneRuns DEF IInv, RecoverReceipt, At, Typed, TypeOK
<1>2. j \in Imported /\ j \in Job /\ intent[j] # NULL
  BY <1>1, ClockFacts DEF TickInv, Reconciled, KnowsJobs, Typed, TypeOK
<1>3. /\ tick' = [tick EXCEPT ![p] = t] /\ t \in Tick /\ t.pc = "reconcile"
      /\ t.todo = tick[p].todo \ {j} /\ t.seen = tick[p].seen /\ t.target = tick[p].target
      /\ t.blocked = tick[p].blocked /\ t.runs = tick[p].runs
  BY <1>1 DEF RecoverReceipt, Typed, Tick, Pc
<1>. HIDE DEF t
<1>4. /\ UNCHANGED <<now, intent, packet, finished, queue, forced>>
      /\ outcome' \in [Job -> Status \cup {NULL}]
      /\ \A i \in Job : outcome'[i] = outcome[i] \/ (i = j /\ outcome'[i] = "recovered_import")
  BY <1>1, <1>2 DEF RecoverReceipt, Receive, Typed, TypeOK, Status
<1>. HIDE DEF j
<1>5. Typed' /\ tick'[p] = t
  <2>1. WorldTyped'
    BY <1>1, <1>4 DEF Typed, TypeOK, WorldTyped
  <2>2. t.pc # "idle" /\ t.todo \subseteq t.seen
    BY <1>1, <1>3
  <2>. QED
    BY <1>1, <1>3, <2>1, <2>2, HolderTyped
<1>6. Imported' = Imported
  BY <1>4 DEF Imported
<1>7. IntentsInOrder' /\ Cadence'
  BY <1>4 DEF IInv, IntentsInOrder, Cadence
<1>8. IntentFirst' /\ ReceiptsAreTrue'
  BY <1>2, <1>4, <1>6 DEF IInv, IntentFirst, ReceiptsAreTrue
<1>9. KnowsJobs(p)'
  BY <1>1, <1>3, <1>4, <1>5 DEF TickInv, KnowsJobs, Working
<1>10. Reconciled(p)'
  BY <1>1, <1>2, <1>3, <1>4, <1>5, <1>6 DEF TickInv, Reconciled, Recovering
<1>11. MayAttempt(p)' /\ OwnJob(p)' /\ Progress(p)'
  BY <1>3, <1>5 DEF MayAttempt, OwnJob, Progress, Working
<1>. QED
  BY <1>1, <1>5, <1>7, <1>8, <1>9, <1>10, <1>11, HolderKeeps DEF IInv, TickInv

LEMMA RecoveryBlockedIInv ==
  ASSUME IInv, NEW p \in Poller, At(p, "reconcile"), NEW j \in tick[p].todo, RecoveryBlocked(p, j)
  PROVE  IInv'
<1>1. /\ Typed /\ TickInv(p) /\ lock = p /\ j \in Job /\ tick[p] \in Tick
      /\ tick[p].todo \subseteq tick[p].seen /\ j[1] \in Key
  BY OneRuns DEF IInv, At, Typed, TypeOK, Job
<1>. DEFINE t == [tick[p] EXCEPT !.todo = @ \ {j}, !.blocked = @ \cup {j[1]}]
<1>2. /\ tick' = [tick EXCEPT ![p] = t] /\ t \in Tick /\ t.pc = "reconcile"
      /\ t.todo = tick[p].todo \ {j} /\ t.seen = tick[p].seen /\ t.target = tick[p].target
      /\ t.blocked = tick[p].blocked \cup {j[1]} /\ t.runs = tick[p].runs
  BY <1>1 DEF RecoveryBlocked, Typed, Tick, At
<1>. HIDE DEF t
<1>3. UNCHANGED <<now, disk, lock, forced>>
  BY DEF RecoveryBlocked
<1>4. tick'[p] = t /\ Imported' = Imported /\ (TickInv(p)' => IInv')
  BY <1>1, <1>2, <1>3, HolderThinks
<1>5. KnowsJobs(p)'
  BY <1>1, <1>2, <1>3, <1>4 DEF TickInv, KnowsJobs, Working, At, disk
<1>6. Reconciled(p)'
  BY <1>1, <1>2, <1>3, <1>4 DEF TickInv, Reconciled, Recovering, At, disk
<1>7. MayAttempt(p)' /\ OwnJob(p)' /\ Progress(p)'
  BY <1>2, <1>4 DEF MayAttempt, OwnJob, Progress, Working
<1>. QED
  BY <1>4, <1>5, <1>6, <1>7 DEF TickInv

LEMMA ReconcileIInv ==
  ASSUME IInv, NEW p \in Poller, Reconcile(p)
  PROVE  IInv'
<1>1. ASSUME tick[p].todo = {},
             tick' = [tick EXCEPT ![p].pc = "targets", ![p].runs = Imported],
             UNCHANGED <<now, disk, lock, forced, faults>>
      PROVE  IInv'
  <2>1. /\ Typed /\ TickInv(p) /\ lock = p /\ tick[p] \in Tick /\ tick[p].pc = "reconcile"
        /\ Imported \subseteq Job
    BY OneRuns DEF IInv, Reconcile, At, Typed, TypeOK, Imported
  <2>. DEFINE t == [tick[p] EXCEPT !.pc = "targets", !.runs = Imported]
  <2>2. /\ tick' = [tick EXCEPT ![p] = t] /\ t \in Tick /\ t.pc = "targets"
        /\ t.todo = {} /\ t.seen = tick[p].seen /\ t.target = tick[p].target
        /\ t.blocked = tick[p].blocked /\ t.runs = Imported
    BY <1>1, <2>1 DEF Typed, Tick, Pc
  <2>. HIDE DEF t
  <2>3. tick'[p] = t /\ Imported' = Imported /\ (TickInv(p)' => IInv')
    BY <1>1, <2>1, <2>2, HolderThinks
  <2>4. KnowsJobs(p)'
    BY <1>1, <2>1, <2>2, <2>3 DEF TickInv, KnowsJobs, Working, disk
  <2>5. Reconciled(p)'
    BY <1>1, <2>1, <2>2, <2>3 DEF IInv, IntentFirst, TickInv, Reconciled, Recovering, disk, Typed, TypeOK
  <2>6. MayAttempt(p)' /\ OwnJob(p)' /\ Progress(p)'
    BY <2>2, <2>3 DEF MayAttempt, OwnJob, Progress, Working
  <2>. QED
    BY <2>3, <2>4, <2>5, <2>6 DEF TickInv
<1>. QED
  BY <1>1, RecordInterruptedIInv, RecoverImportIInv, RecoveryBlockedIInv DEF Reconcile

-----------------------------------------------------------------------------
LEMMA InvokeIInv ==
  ASSUME IInv, NEW p \in Poller, NEW force \in BOOLEAN, Invoke(p, force)
  PROVE  IInv'
<1>. DEFINE jobs == {j \in Job : intent[j] # NULL}
            t == [Idle EXCEPT !.pc = "reconcile", !.force = force, !.seen = jobs, !.todo = jobs]
<1>1. /\ Typed /\ lock = NULL /\ lock' = p /\ tick' = [tick EXCEPT ![p] = t]
      /\ UNCHANGED <<now, disk, forced>> /\ ~Unreadable
  BY DEF IInv, Invoke, AcquireLock
<1>2. /\ t \in Tick /\ t.pc = "reconcile" /\ t.todo = jobs /\ t.seen = jobs /\ t.target = 1
      /\ t.runs = {}
  <2>1. jobs \in SUBSET Job
    OBVIOUS
  <2>. HIDE DEF jobs
  <2>2. Idle \in Tick /\ Idle.target = 1 /\ Idle.runs = {}
    BY CatalogFacts DEF Idle, Tick, Pc
  <2>. QED
    BY <2>1, <2>2 DEF Tick, Pc
<1>. HIDE DEF t
<1>3. UNCHANGED <<intent, packet, finished, outcome, queue>> /\ Imported' = Imported
  BY <1>1 DEF disk, Imported
<1>4. Typed' /\ tick'[p] = t
  <2>1. \A q \in Poller : tick[q].pc = "idle" /\ q # NULL
    BY <1>1, PollAssumption DEF Typed, TypeOK
  <2>2. \A q \in Poller : tick'[q] = IF q = p THEN t ELSE tick[q]
    BY <1>1 DEF Typed
  <2>3. tick' \in [Poller -> Tick]
    BY <1>1, <1>2 DEF Typed
  <2>. QED
    BY <1>1, <1>2, <1>3, <2>1, <2>2, <2>3 DEF Typed, TypeOK, Tick
<1>5. IntentsInOrder' /\ IntentFirst' /\ Cadence' /\ ReceiptsAreTrue'
  BY <1>1, <1>3, DiskKept
<1>6. \A j \in jobs : intent[j] \in Clock
  BY <1>1 DEF Typed, TypeOK, Unreadable
<1>7. KnowsJobs(p)'
  BY <1>2, <1>3, <1>4, <1>6 DEF KnowsJobs, Clock
<1>8. Reconciled(p)'
  BY <1>2, <1>4 DEF Reconciled, Recovering
<1>9. MayAttempt(p)' /\ OwnJob(p)' /\ Progress(p)'
  BY <1>2, <1>4 DEF MayAttempt, OwnJob, Progress, Working
<1>. QED
  BY <1>1, <1>4, <1>5, <1>7, <1>8, <1>9, HolderKeeps DEF IInv, TickInv

-----------------------------------------------------------------------------
\* The process goes on to its next target, having done with this one.
LEMMA NextTargetIInv ==
  ASSUME IInv, NEW p \in Poller, tick[p].pc \in {"targets", "pace"}, tick[p].target <= Len(Catalog),
         NextTarget(p), UNCHANGED <<now, disk, lock, forced>>
  PROVE  IInv'
<1>1. /\ Typed /\ TickInv(p) /\ lock = p /\ tick[p] \in Tick
      /\ tick[p].todo \subseteq tick[p].seen /\ tick[p].target \in 1 .. Len(Catalog)
  BY OneRuns, CatalogFacts DEF IInv, At, Typed, TypeOK
<1>. DEFINE t == [tick[p] EXCEPT !.pc = "targets", !.target = @ + 1, !.job = NULL, !.result = NULL]
<1>2. /\ tick' = [tick EXCEPT ![p] = t] /\ t \in Tick /\ t.pc = "targets"
      /\ t.todo = tick[p].todo /\ t.seen = tick[p].seen /\ t.target = tick[p].target + 1
      /\ t.blocked = tick[p].blocked /\ t.runs = tick[p].runs
  BY <1>1, CatalogFacts DEF NextTarget, Typed, Tick, Pc
<1>. HIDE DEF t
<1>3. tick'[p] = t /\ Imported' = Imported /\ (TickInv(p)' => IInv')
  BY <1>1, <1>2, HolderThinks
<1>4. KnowsJobs(p)'
  <2>1. KnowsJobs(p) /\ ~Working(p) /\ tick[p].target \in Nat
    BY <1>1, CatalogFacts DEF TickInv, Working
  <2>2. intent' = intent
    BY DEF disk
  <2>3. ASSUME NEW j \in Job, intent[j] # NULL, j \notin tick[p].seen
        PROVE  \E i \in 1 .. t.target - 1 : j[1] = Catalog[i]
    <3>1. PICK i \in 1 .. tick[p].target - 1 : j[1] = Catalog[i]
      BY <2>1, <2>3 DEF KnowsJobs
    <3>2. i \in 1 .. t.target - 1
      BY <1>2, <2>1
    <3>. QED
      BY <3>1, <3>2
  <2>. QED
    BY <1>2, <1>3, <2>1, <2>2, <2>3 DEF KnowsJobs
<1>5. Reconciled(p)'
  BY <1>1, <1>2, <1>3 DEF TickInv, Reconciled, Recovering, disk
<1>6. MayAttempt(p)' /\ OwnJob(p)' /\ Progress(p)'
  BY <1>2, <1>3 DEF MayAttempt, OwnJob, Progress, Working
<1>. QED
  BY <1>3, <1>4, <1>5, <1>6 DEF TickInv

LEMMA VisitTargetIInv ==
  ASSUME IInv, NEW p \in Poller, VisitTarget(p)
  PROVE  IInv'
<1>1. CASE Attempts(p)
  <2>1. /\ Typed /\ TickInv(p) /\ lock = p /\ tick[p] \in Tick /\ tick[p].pc = "targets"
        /\ tick[p].todo \subseteq tick[p].seen
    BY OneRuns DEF IInv, At, Typed, TypeOK, VisitTarget
  <2>. DEFINE t == [tick[p] EXCEPT !.pc = "pace"]
  <2>2. /\ tick' = [tick EXCEPT ![p] = t] /\ t \in Tick /\ t.pc = "pace"
        /\ t.todo = tick[p].todo /\ t.seen = tick[p].seen /\ t.target = tick[p].target
        /\ t.blocked = tick[p].blocked /\ t.runs = tick[p].runs /\ t.force = tick[p].force
    BY <1>1, <2>1 DEF VisitTarget, Goto, Typed, Tick, Pc
  <2>. HIDE DEF t
  <2>3. UNCHANGED <<now, disk, lock, forced>>
    BY DEF VisitTarget
  <2>4. tick'[p] = t /\ Imported' = Imported /\ (TickInv(p)' => IInv')
    BY <2>1, <2>2, <2>3, HolderThinks
  <2>5. KnowsJobs(p)'
    BY <2>1, <2>2, <2>3, <2>4 DEF TickInv, KnowsJobs, Working, disk
  <2>6. Reconciled(p)'
    BY <2>1, <2>2, <2>3, <2>4 DEF TickInv, Reconciled, Recovering, disk
  <2>7. MayAttempt(p)'
    <3>1. /\ tick[p].target <= Len(Catalog) /\ Target(p) \notin tick[p].blocked
          /\ NextJob(Target(p)) \in Job /\ (tick[p].force \/ Due(p))
      BY <1>1 DEF Attempts, VisitTarget
    <3>2. Target(p)' = Target(p) /\ NextJob(Target(p))' = NextJob(Target(p))
      BY <2>2, <2>3, <2>4 DEF Target, NextJob, disk
    <3>3. Due(p)' <=> Due(p)
      BY <2>2, <2>3, <2>4, <3>2 DEF Due, Clocks, ClocksOfRuns, disk
    <3>. QED
      BY <2>2, <2>4, <3>1, <3>2, <3>3 DEF MayAttempt
  <2>8. OwnJob(p)' /\ Progress(p)'
    BY <2>2, <2>4 DEF OwnJob, Progress, Working
  <2>. QED
    BY <2>4, <2>5, <2>6, <2>7, <2>8 DEF TickInv
<1>2. CASE ~Attempts(p)
  BY <1>2, NextTargetIInv DEF VisitTarget, At
<1>. QED
  BY <1>1, <1>2

\* The heart of the cadence: what is due is due after every job of the key.
LEMMA WriteIntentIInv ==
  ASSUME IInv, NEW p \in Poller, WriteIntent(p)
  PROVE  IInv'
<1>1. /\ Typed /\ TickInv(p) /\ lock = p /\ lock' = p /\ tick[p] \in Tick /\ tick[p].pc = "pace"
      /\ tick[p].todo \subseteq tick[p].seen /\ tick[p].target \in 1 .. Len(Catalog)
  BY OneRuns, CatalogFacts DEF IInv, At, Typed, TypeOK, WriteIntent, TickInv, MayAttempt
<1>2. CASE ~StillAllowed
  BY <1>1, <1>2, NextTargetIInv, CatalogFacts DEF WriteIntent, disk
<1>3. CASE StillAllowed
  <2>. DEFINE k == Target(p)
              j == NextJob(k)
              t == [tick[p] EXCEPT !.pc = "capture", !.job = j]
  <2>1. /\ j \in Job /\ k \in Key /\ k \notin tick[p].blocked /\ (tick[p].force \/ Due(p))
        /\ k = Catalog[tick[p].target]
    BY <1>1, CatalogFacts DEF TickInv, MayAttempt, Target
  <2>2. /\ j[1] = k /\ j[2] \in 1 .. MaxJobs /\ intent[j] = NULL
        /\ \A m \in 1 .. MaxJobs : intent[<<k, m>>] # NULL <=> m < j[2]
    BY <1>1, <2>1, NextJobIsNew DEF IInv
  <2>3. /\ UNCHANGED <<now, packet, finished, outcome, queue>>
        /\ intent' = [intent EXCEPT ![j] = now]
        /\ forced' = IF tick[p].force THEN forced \cup {j} ELSE forced
        /\ tick' = [tick EXCEPT ![p] = t]
    BY <1>1, <1>3 DEF WriteIntent, Typed, Tick
  <2>4. /\ t \in Tick /\ t.pc = "capture" /\ t.job = j
        /\ t.todo = tick[p].todo /\ t.seen = tick[p].seen /\ t.target = tick[p].target
        /\ t.blocked = tick[p].blocked /\ t.runs = tick[p].runs
    BY <1>1, <2>1 DEF Tick, Pc
  <2>. HIDE DEF t, j, k
  <2>5. /\ \A i \in Job : intent'[i] = IF i = j THEN now ELSE intent[i]
        /\ intent' \in [Job -> Clock \cup {NULL, Torn}] /\ now \in Clock /\ now # NULL
        /\ now \in Nat /\ forced' \subseteq Job /\ forced \subseteq forced' /\ Imported' = Imported
    BY <1>1, <2>1, <2>3, ClockFacts DEF Typed, TypeOK, Imported
  <2>6. Typed' /\ tick'[p] = t
    <3>1. WorldTyped'
      BY <1>1, <2>3, <2>5 DEF Typed, TypeOK, WorldTyped
    <3>2. t.pc # "idle" /\ t.todo \subseteq t.seen
      BY <1>1, <2>4
    <3>. QED
      BY <1>1, <2>3, <2>4, <3>1, <3>2, HolderTyped
  <2>7. \A i \in Job : i = <<i[1], i[2]>> /\ i[1] \in Key /\ i[2] \in 1 .. MaxJobs
    BY DEF Job
  <2>8. \A i \in Job : i[1] = k /\ intent[i] # NULL => i \in tick[p].seen
    BY <1>1, <2>1, CatalogFacts DEF TickInv, KnowsJobs, Working
  <2>9. IntentsInOrder'
    <3>1. ASSUME NEW h \in Key
          PROVE  \E n \in 0 .. MaxJobs : \A m \in 1 .. MaxJobs : intent'[<<h, m>>] # NULL <=> m <= n
      <4>1. CASE h = k
        <5>1. ASSUME NEW m \in 1 .. MaxJobs PROVE intent'[<<k, m>>] # NULL <=> m <= j[2]
          <6>1. <<k, m>> \in Job /\ j = <<k, j[2]>> /\ j[2] \in Nat /\ m \in Nat
            BY <2>1, <2>2, <2>7, PollAssumption DEF Job
          <6>2. CASE m = j[2]
            BY <2>5, <6>1, <6>2
          <6>3. CASE m # j[2]
            BY <2>2, <2>5, <6>1, <6>3
          <6>. QED
            BY <6>2, <6>3
        <5>. QED
          <6>1. j[2] \in 0 .. MaxJobs
            BY <2>2, PollAssumption
          <6>. QED
            BY <4>1, <5>1, <6>1
      <4>2. CASE h # k
        <5>1. PICK n \in 0 .. MaxJobs : \A m \in 1 .. MaxJobs : intent[<<h, m>>] # NULL <=> m <= n
          BY DEF IInv, IntentsInOrder
        <5>2. \A m \in 1 .. MaxJobs : intent'[<<h, m>>] = intent[<<h, m>>]
          BY <2>2, <2>5, <4>2 DEF Job
        <5>. QED
          BY <5>1, <5>2
      <4>. QED
        BY <4>1, <4>2
    <3>. QED
      BY <3>1 DEF IntentsInOrder
  <2>10. IntentFirst'
    BY <2>1, <2>3, <2>5 DEF IInv, IntentFirst
  <2>11. Cadence'
    <3>. SUFFICES ASSUME NEW i \in Job, NEW l \in Job, i[1] = l[1], i[2] < l[2], l \notin forced',
                         intent'[i] \in Nat, intent'[l] \in Nat
                  PROVE  /\ intent'[i] + Interval <= intent'[l]
                         /\ finished'[i] # NULL => finished'[i] + Interval <= intent'[l]
      BY DEF Cadence
    <3>1. CASE l = j
      <4>1. i # j /\ i[1] = k /\ intent'[i] = intent[i] /\ intent'[l] = now
        BY <2>2, <2>5, <2>7, <3>1
      <4>2. ~tick[p].force /\ Due(p)
        BY <2>1, <2>3, <3>1
      <4>3. i \in tick[p].seen
        BY <2>8, <4>1, PollAssumption
      <4>4. finished[i] # NULL => i \in tick[p].runs
        BY <1>1, <2>1, <4>1, <4>3 DEF TickInv, Reconciled, Recovering
      <4>. QED
        BY <2>1, <2>3, <4>1, <4>2, <4>3, <4>4 DEF Due, Clocks, ClocksOfRuns, Of, Target
    <3>2. CASE l # j
      <4>1. i # j
        BY <2>2, <2>5, <2>7, <3>2, PollAssumption
      <4>. QED
        <5>1. /\ intent'[i] = intent[i] /\ intent'[l] = intent[l] /\ finished'[i] = finished[i]
              /\ l \notin forced
          BY <2>3, <2>5, <3>2, <4>1
        <5>. QED
          BY <5>1 DEF IInv, Cadence
    <3>. QED
      BY <3>1, <3>2
  <2>12. ReceiptsAreTrue'
    BY <2>3, <2>5 DEF IInv, ReceiptsAreTrue
  <2>13. KnowsJobs(p)'
    <3>1. \A i \in tick'[p].seen : intent'[i] \in Clock
      BY <1>1, <2>4, <2>5, <2>6 DEF TickInv, KnowsJobs, Tick
    <3>2. \A i \in Job : intent'[i] # NULL =>
            \/ i \in tick'[p].seen
            \/ \E m \in 1 .. tick'[p].target - 1 : i[1] = Catalog[m]
            \/ Working(p)' /\ i = tick'[p].job
      BY <1>1, <2>4, <2>5, <2>6 DEF TickInv, KnowsJobs, Working
    <3>. QED
      BY <3>1, <3>2 DEF KnowsJobs
  <2>14. Reconciled(p)'
    BY <1>1, <2>3, <2>4, <2>5, <2>6 DEF TickInv, Reconciled, Recovering
  <2>15. OwnJob(p)'
    <3>1. j \notin tick[p].seen
      BY <1>1, <2>2, ClockFacts DEF TickInv, KnowsJobs
    <3>2. \A i \in Job : i[1] = j[1] /\ i[2] > j[2] => intent'[i] = NULL
      BY <2>2, <2>5, <2>7, PollAssumption
    <3>3. Target(p)' = k
      BY <2>1, <2>4, <2>6 DEF Target
    <3>4. /\ tick'[p].target <= Len(Catalog) /\ tick'[p].job \in Job \ tick'[p].seen
          /\ tick'[p].job[1] = k /\ k \notin tick'[p].blocked /\ intent'[tick'[p].job] # NULL
      BY <1>1, <2>1, <2>2, <2>4, <2>5, <2>6, <3>1, CatalogFacts
    <3>. QED
      BY <2>4, <2>6, <3>2, <3>3, <3>4 DEF OwnJob
  <2>16. MayAttempt(p)' /\ Progress(p)'
    BY <2>1, <2>2, <2>3, <2>4, <2>6 DEF IInv, IntentFirst, MayAttempt, Progress
  <2>. QED
    BY <1>1, <2>6, <2>9, <2>10, <2>11, <2>12, <2>13, <2>14, <2>15, <2>16, HolderKeeps
    DEF IInv, TickInv
<1>. QED
  BY <1>2, <1>3

LEMMA CompleteCaptureIInv ==
  ASSUME IInv, NEW p \in Poller, CompleteCapture(p)
  PROVE  IInv'
<1>. DEFINE j == tick[p].job
            t == [tick[p] EXCEPT !.pc = "import"]
<1>1. /\ Typed /\ TickInv(p) /\ lock = p /\ lock' = p /\ tick[p] \in Tick /\ tick[p].pc = "capture"
      /\ tick[p].todo \subseteq tick[p].seen
  BY OneRuns DEF IInv, At, Typed, TypeOK, CompleteCapture
<1>2. /\ j \in Job \ tick[p].seen /\ intent[j] # NULL /\ packet[j] = "incomplete" /\ outcome[j] = NULL
      /\ \A i \in Job : i[1] = j[1] /\ i[2] > j[2] => intent[i] = NULL
  BY <1>1 DEF TickInv, OwnJob, Working, Progress
<1>3. /\ tick' = [tick EXCEPT ![p] = t] /\ t \in Tick /\ t.pc = "import" /\ t.job = j
      /\ t.todo = tick[p].todo /\ t.seen = tick[p].seen /\ t.target = tick[p].target
      /\ t.blocked = tick[p].blocked /\ t.runs = tick[p].runs
  BY <1>1 DEF CompleteCapture, Goto, Typed, Tick, Pc
<1>. HIDE DEF t
<1>4. /\ UNCHANGED <<now, intent, outcome, queue, forced>>
      /\ packet' = [packet EXCEPT ![j] = "complete"] /\ finished' = [finished EXCEPT ![j] = now]
  BY DEF CompleteCapture
<1>. HIDE DEF j
<1>5. /\ packet' \in [Job -> {"incomplete", "complete", "damaged"}]
      /\ finished' \in [Job -> Clock \cup {NULL}] /\ now # NULL
      /\ \A i \in Job : i # j => packet'[i] = packet[i] /\ finished'[i] = finished[i]
      /\ packet'[j] = "complete" /\ finished'[j] = now
  BY <1>1, <1>2, <1>4, ClockFacts DEF Typed, TypeOK
<1>6. Typed' /\ tick'[p] = t
  <2>1. WorldTyped'
    BY <1>1, <1>4, <1>5 DEF Typed, TypeOK, WorldTyped
  <2>2. t.pc # "idle" /\ t.todo \subseteq t.seen
    BY <1>1, <1>3
  <2>. QED
    BY <1>1, <1>3, <2>1, <2>2, HolderTyped
<1>7. Imported' = Imported
  BY <1>4 DEF Imported
<1>8. IntentsInOrder'
  BY <1>4 DEF IInv, IntentsInOrder
<1>9. IntentFirst' /\ ReceiptsAreTrue'
  BY <1>2, <1>4, <1>5, <1>7, PollAssumption DEF IInv, IntentFirst, ReceiptsAreTrue, Status
<1>10. Cadence'
  <2>. SUFFICES ASSUME NEW i \in Job, NEW l \in Job, i[1] = l[1], i[2] < l[2], l \notin forced',
                       intent'[i] \in Nat, intent'[l] \in Nat
                PROVE  /\ intent'[i] + Interval <= intent'[l]
                       /\ finished'[i] # NULL => finished'[i] + Interval <= intent'[l]
    BY DEF Cadence
  <2>1. i # j
    BY <1>2, <1>4, PollAssumption DEF Job
  <2>. QED
    BY <1>4, <1>5, <2>1 DEF IInv, Cadence
<1>11. KnowsJobs(p)'
  BY <1>1, <1>3, <1>4, <1>6 DEF TickInv, KnowsJobs, Working, Clock, j
<1>12. Reconciled(p)'
  <2>1. \A i \in tick[p].seen : i \in Job /\ i # j
    BY <1>1, <1>2 DEF Tick
  <2>. QED
    BY <1>1, <1>3, <1>4, <1>5, <1>6, <1>7, <2>1 DEF TickInv, Reconciled, Recovering
<1>13. OwnJob(p)'
  BY <1>1, <1>2, <1>3, <1>4, <1>6 DEF TickInv, OwnJob, Working, Target, j
<1>14. MayAttempt(p)' /\ Progress(p)'
  BY <1>3, <1>5, <1>6 DEF MayAttempt, Progress
<1>. QED
  BY <1>1, <1>6, <1>8, <1>9, <1>10, <1>11, <1>12, <1>13, <1>14, HolderKeeps DEF IInv, TickInv

\* A step to the outcome of the own job, whose packet is as it was.
LEMMA ToOutcomeIInv ==
  ASSUME IInv, NEW p \in Poller, Working(p),
         NEW result \in {"captured_imported", "capture_failed", "queue_import_failed"},
         result = "captured_imported" => tick[p].job \in Imported',
         result = "capture_failed" => packet[tick[p].job] = "incomplete",
         tick' = [tick EXCEPT ![p] = [@ EXCEPT !.pc = "outcome", !.result = result]],
         UNCHANGED <<now, intent, packet, finished, outcome, lock, forced>>,
         UNCHANGED queue \/ (packet[tick[p].job] = "complete" /\ Enqueue(tick[p].job))
  PROVE  IInv'
<1>1. /\ Typed /\ TickInv(p) /\ lock = p /\ tick[p] \in Tick
      /\ tick[p].todo \subseteq tick[p].seen /\ tick[p].job \in Job
  BY OneRuns DEF IInv, At, Typed, TypeOK, Working, TickInv, OwnJob
<1>. DEFINE t == [tick[p] EXCEPT !.pc = "outcome", !.result = result]
<1>2. /\ tick' = [tick EXCEPT ![p] = t] /\ t \in Tick /\ t.pc = "outcome" /\ t.job = tick[p].job
      /\ t.todo = tick[p].todo /\ t.seen = tick[p].seen /\ t.target = tick[p].target
      /\ t.blocked = tick[p].blocked /\ t.runs = tick[p].runs /\ t.result = result
  BY <1>1 DEF Typed, Tick, Pc, Status
<1>. HIDE DEF t
<1>3. /\ queue' \in Seq(Job) /\ Imported \subseteq Imported'
      /\ \A j \in Imported' \ Imported : packet[j] = "complete"
  <2>1. CASE UNCHANGED queue
    BY <1>1, <2>1 DEF Imported, Typed, TypeOK
  <2>2. CASE packet[tick[p].job] = "complete" /\ Enqueue(tick[p].job)
    BY <1>1, <2>2, EnqueueImports
  <2>. QED
    BY <2>1, <2>2
<1>4. Typed' /\ tick'[p] = t
  <2>1. WorldTyped'
    BY <1>1, <1>3 DEF Typed, TypeOK, WorldTyped
  <2>2. t.pc # "idle" /\ t.todo \subseteq t.seen /\ lock' = p
    BY <1>1, <1>2
  <2>. QED
    BY <1>1, <1>2, <2>1, <2>2, HolderTyped
<1>5. IntentsInOrder' /\ IntentFirst' /\ Cadence' /\ ReceiptsAreTrue'
  BY <1>3, DiskKept
<1>6. KnowsJobs(p)'
  BY <1>1, <1>2, <1>4 DEF TickInv, KnowsJobs, Working, Clock
<1>7. Reconciled(p)'
  BY <1>1, <1>2, <1>3, <1>4 DEF TickInv, Reconciled, Recovering, Working
<1>8. OwnJob(p)'
  BY <1>1, <1>2, <1>4 DEF TickInv, OwnJob, Working, Target
<1>9. MayAttempt(p)' /\ Progress(p)'
  BY <1>2, <1>4 DEF MayAttempt, Progress
<1>. QED
  BY <1>1, <1>4, <1>5, <1>6, <1>7, <1>8, <1>9, HolderKeeps DEF IInv, TickInv

LEMMA FailCaptureIInv ==
  ASSUME IInv, NEW p \in Poller, FailCapture(p)
  PROVE  IInv'
<1>1. Working(p) /\ packet[tick[p].job] = "incomplete"
  BY DEF IInv, FailCapture, At, Working, TickInv, Progress
<1>2. /\ tick' = [tick EXCEPT ![p] = [@ EXCEPT !.pc = "outcome", !.result = "capture_failed"]]
      /\ UNCHANGED <<now, intent, packet, finished, outcome, lock, forced>> /\ UNCHANGED queue
  BY DEF FailCapture, disk
<1>. QED
  BY <1>1, <1>2, ToOutcomeIInv

LEMMA ImportPacketIInv ==
  ASSUME IInv, NEW p \in Poller, ImportPacket(p)
  PROVE  IInv'
<1>1. Working(p) /\ Typed /\ tick[p].job \in Job
  BY DEF IInv, ImportPacket, At, Working, TickInv, OwnJob
<1>2. CASE /\ packet[tick[p].job] = "complete" /\ Enqueue(tick[p].job)
           /\ tick' = [tick EXCEPT ![p].pc = "outcome", ![p].result = "captured_imported"]
  <2>1. tick[p].job \in Imported'
    BY <1>1, <1>2, EnqueueImports
  <2>2. UNCHANGED <<now, intent, packet, finished, outcome, lock, forced>>
    BY DEF ImportPacket
  <2>3. tick' = [tick EXCEPT ![p] = [@ EXCEPT !.pc = "outcome", !.result = "captured_imported"]]
    BY <1>2
  <2>. QED
    BY <1>1, <1>2, <2>1, <2>2, <2>3, ToOutcomeIInv
<1>3. CASE /\ tick' = [tick EXCEPT ![p].pc = "outcome", ![p].result = "queue_import_failed"]
           /\ UNCHANGED queue
  <2>1. UNCHANGED <<now, intent, packet, finished, outcome, lock, forced>>
    BY DEF ImportPacket
  <2>. QED
    BY <1>1, <1>3, <2>1, ToOutcomeIInv
<1>. QED
  BY <1>2, <1>3 DEF ImportPacket

-----------------------------------------------------------------------------
LEMMA WriteOutcomeIInv ==
  ASSUME IInv, NEW p \in Poller, WriteOutcome(p)
  PROVE  IInv'
<1>. DEFINE j == tick[p].job
<1>1. /\ Typed /\ TickInv(p) /\ lock = p /\ tick[p] \in Tick /\ tick[p].pc = "outcome"
      /\ tick[p].todo \subseteq tick[p].seen
      /\ UNCHANGED <<now, intent, packet, finished, queue, forced>>
  BY OneRuns DEF IInv, At, Typed, TypeOK, WriteOutcome
<1>2. /\ tick[p].target \in 1 .. Len(Catalog) /\ j \in Job /\ j[1] = Catalog[tick[p].target]
      /\ intent[j] # NULL
      /\ tick[p].result \in {"captured_imported", "capture_failed", "queue_import_failed"}
      /\ tick[p].result = "captured_imported" => j \in Imported
      /\ tick[p].result = "capture_failed" => packet[j] = "incomplete"
  BY <1>1, CatalogFacts DEF TickInv, OwnJob, Working, Target, Progress, Tick
<1>3. Imported' = Imported
  BY <1>1 DEF Imported
<1>4. CASE outcome[j] = NULL
  <2>. DEFINE t == [tick[p] EXCEPT !.pc = "targets", !.target = @ + 1, !.job = NULL, !.result = NULL]
  <2>1. /\ tick' = [tick EXCEPT ![p] = t] /\ t \in Tick /\ t.pc = "targets"
        /\ t.todo = tick[p].todo /\ t.seen = tick[p].seen /\ t.target = tick[p].target + 1
        /\ t.blocked = tick[p].blocked /\ t.runs = tick[p].runs
    BY <1>1, <1>2, <1>4, CatalogFacts DEF WriteOutcome, NextTarget, Typed, Tick, Pc
  <2>. HIDE DEF t
  <2>2. lock' = p /\ outcome' = [outcome EXCEPT ![j] = tick[p].result]
    BY <1>1, <1>4 DEF WriteOutcome, Receive
  <2>. HIDE DEF j
  <2>3. /\ outcome' \in [Job -> Status \cup {NULL}] /\ outcome'[j] = tick[p].result
        /\ \A i \in Job : i # j => outcome'[i] = outcome[i]
    BY <1>1, <1>2, <2>2 DEF Typed, TypeOK, Status
  <2>4. Typed' /\ tick'[p] = t
    <3>1. WorldTyped'
      BY <1>1, <1>4, <2>2, <2>3 DEF Typed, TypeOK, WorldTyped
    <3>2. t.pc # "idle" /\ t.todo \subseteq t.seen
      BY <1>1, <2>1
    <3>. QED
      BY <1>1, <2>1, <2>2, <3>1, <3>2, HolderTyped
  <2>5. IntentsInOrder' /\ Cadence'
    BY <1>1 DEF IInv, IntentsInOrder, Cadence
  <2>6. IntentFirst' /\ ReceiptsAreTrue'
    BY <1>1, <1>2, <1>3, <2>3 DEF IInv, IntentFirst, ReceiptsAreTrue
  <2>7. KnowsJobs(p)'
    <3>1. \A i \in tick'[p].seen : intent'[i] \in Clock
      BY <1>1, <2>1, <2>4 DEF TickInv, KnowsJobs
    <3>2. \A i \in Job : intent'[i] # NULL =>
            \/ i \in tick'[p].seen
            \/ \E m \in 1 .. tick'[p].target - 1 : i[1] = Catalog[m]
      BY <1>1, <1>2, <2>1, <2>4 DEF TickInv, KnowsJobs, j
    <3>. QED
      BY <3>1, <3>2 DEF KnowsJobs, Clock
  <2>8. Reconciled(p)'
    BY <1>1, <1>3, <2>1, <2>4 DEF TickInv, Reconciled, Recovering
  <2>9. MayAttempt(p)' /\ OwnJob(p)' /\ Progress(p)'
    BY <2>1, <2>4 DEF MayAttempt, OwnJob, Progress, Working
  <2>. QED
    BY <1>1, <2>2, <2>4, <2>5, <2>6, <2>7, <2>8, <2>9, HolderKeeps DEF IInv, TickInv
<1>5. CASE outcome[j] # NULL
  <2>1. tick' = [tick EXCEPT ![p] = Idle] /\ lock' = NULL /\ UNCHANGED outcome
    BY <1>5 DEF WriteOutcome
  <2>2. Typed' /\ \A q \in Poller : At(q, "idle")'
    BY <1>1, <2>1, HolderLeaves DEF Typed, TypeOK
  <2>. QED
    BY <1>1, <1>3, <2>1, <2>2, DiskKept DEF IInv
<1>. QED
  BY <1>4, <1>5

LEMMA FinishIInv ==
  ASSUME IInv, NEW p \in Poller, Finish(p)
  PROVE  IInv'
<1>1. /\ Typed /\ lock = p /\ tick' = [tick EXCEPT ![p] = Idle] /\ lock' = NULL
      /\ UNCHANGED <<now, intent, packet, finished, outcome, queue, forced>>
  BY OneRuns DEF IInv, At, Finish, disk
<1>2. Typed' /\ \A q \in Poller : At(q, "idle")'
  BY <1>1, HolderLeaves DEF Typed, TypeOK
<1>. QED
  BY <1>1, <1>2, DiskKept DEF IInv, Imported

LEMMA CrashIInv ==
  ASSUME IInv, NEW p \in Poller, Crash(p)
  PROVE  IInv'
<1>1. /\ Typed /\ TickInv(p) /\ lock = p /\ tick' = [tick EXCEPT ![p] = Idle] /\ lock' = NULL
      /\ UNCHANGED <<now, finished, outcome, queue, forced>> /\ Imported' = Imported
  BY OneRuns DEF IInv, At, Crash, Imported
<1>2. CASE UNCHANGED <<intent, packet>>
  <2>1. Typed' /\ \A q \in Poller : At(q, "idle")'
    BY <1>1, <1>2, HolderLeaves DEF Typed, TypeOK
  <2>. QED
    BY <1>1, <1>2, <2>1, DiskKept DEF IInv
<1>3. CASE /\ At(p, "pace")
           /\ intent' = [intent EXCEPT ![NextJob(Target(p))] = Torn]
           /\ UNCHANGED packet
  <2>. DEFINE k == Target(p)
              j == NextJob(k)
  <2>1. j \in Job /\ k \in Key
    BY <1>1, <1>3, CatalogFacts DEF TickInv, MayAttempt, Target, At, Typed, Tick
  <2>2. /\ j[1] = k /\ j[2] \in 1 .. MaxJobs /\ intent[j] = NULL
        /\ \A m \in 1 .. MaxJobs : intent[<<k, m>>] # NULL <=> m < j[2]
    BY <1>1, <2>1, NextJobIsNew DEF IInv
  <2>3. intent' = [intent EXCEPT ![j] = Torn]
    BY <1>3
  <2>. HIDE DEF j, k
  <2>4. /\ intent' \in [Job -> Clock \cup {NULL, Torn}] /\ Torn # NULL /\ Torn \notin Nat
        /\ \A i \in Job : intent'[i] = IF i = j THEN Torn ELSE intent[i]
    BY <1>1, <2>1, <2>3, PollAssumption DEF Typed, TypeOK
  <2>5. Typed' /\ \A q \in Poller : At(q, "idle")'
    <3>1. /\ now' \in Clock /\ packet' \in [Job -> {"incomplete", "complete", "damaged"}]
          /\ finished' \in [Job -> Clock \cup {NULL}] /\ outcome' \in [Job -> Status \cup {NULL}]
          /\ queue' \in Seq(Job) /\ forced' \subseteq Job
      BY <1>1, <1>3 DEF Typed, TypeOK
    <3>. QED
      BY <1>1, <2>4, <3>1, HolderLeaves
  <2>6. IntentsInOrder'
    <3>1. ASSUME NEW h \in Key
          PROVE  \E n \in 0 .. MaxJobs : \A m \in 1 .. MaxJobs : intent'[<<h, m>>] # NULL <=> m <= n
      <4>1. CASE h = k
        <5>1. ASSUME NEW m \in 1 .. MaxJobs PROVE intent'[<<k, m>>] # NULL <=> m <= j[2]
          <6>1. <<k, m>> \in Job /\ j = <<k, j[2]>> /\ j[2] \in Nat /\ m \in Nat
            BY <2>1, <2>2, PollAssumption DEF Job
          <6>2. CASE m = j[2]
            BY <2>4, <6>1, <6>2
          <6>3. CASE m # j[2]
            BY <2>2, <2>4, <6>1, <6>3
          <6>. QED
            BY <6>2, <6>3
        <5>2. j[2] \in 0 .. MaxJobs
          BY <2>2, PollAssumption
        <5>. QED
          BY <4>1, <5>1, <5>2
      <4>2. CASE h # k
        <5>1. PICK n \in 0 .. MaxJobs : \A m \in 1 .. MaxJobs : intent[<<h, m>>] # NULL <=> m <= n
          BY DEF IInv, IntentsInOrder
        <5>2. \A m \in 1 .. MaxJobs : intent'[<<h, m>>] = intent[<<h, m>>]
          BY <2>2, <2>4, <4>2 DEF Job
        <5>. QED
          BY <5>1, <5>2
      <4>. QED
        BY <4>1, <4>2
    <3>. QED
      BY <3>1 DEF IntentsInOrder
  <2>7. IntentFirst' /\ ReceiptsAreTrue'
    BY <1>1, <1>3, <2>4 DEF IInv, IntentFirst, ReceiptsAreTrue
  <2>8. Cadence'
    BY <1>1, <2>4 DEF IInv, Cadence
  <2>. QED
    BY <2>5, <2>6, <2>7, <2>8 DEF IInv
<1>4. CASE /\ At(p, "capture")
           /\ packet' = [packet EXCEPT ![tick[p].job] = "damaged"]
           /\ UNCHANGED intent
  <2>1. /\ tick[p].job \in Job /\ intent[tick[p].job] # NULL
        /\ packet[tick[p].job] = "incomplete" /\ outcome[tick[p].job] = NULL
    BY <1>1, <1>4 DEF TickInv, OwnJob, Working, Progress, At
  <2>2. /\ packet' \in [Job -> {"incomplete", "complete", "damaged"}]
        /\ \A i \in Job : packet'[i] = IF i = tick[p].job THEN "damaged" ELSE packet[i]
    BY <1>1, <1>4, <2>1 DEF Typed, TypeOK
  <2>3. Typed' /\ \A q \in Poller : At(q, "idle")'
    BY <1>1, <1>4, <2>2, HolderLeaves DEF Typed, TypeOK
  <2>4. IntentsInOrder' /\ Cadence'
    BY <1>1, <1>4 DEF IInv, IntentsInOrder, Cadence
  <2>5. IntentFirst' /\ ReceiptsAreTrue'
    BY <1>1, <1>4, <2>1, <2>2, PollAssumption DEF IInv, IntentFirst, ReceiptsAreTrue, Status
  <2>. QED
    BY <2>3, <2>4, <2>5 DEF IInv
<1>. QED
  BY <1>2, <1>3, <1>4 DEF Crash

-----------------------------------------------------------------------------
\* What the rest of the world does while a process runs.
LEMMA DamageIInv ==
  ASSUME IInv, NEW j \in Job, Damage(j)
  PROVE  IInv'
<1>1. /\ UNCHANGED <<now, intent, finished, outcome, queue, lock, tick, forced>> /\ Imported' = Imported
      /\ packet[j] = "complete" /\ j \notin Imported /\ Typed
      /\ packet' = [packet EXCEPT ![j] = "damaged"]
  BY DEF IInv, Damage, Imported
<1>2. /\ packet' \in [Job -> {"incomplete", "complete", "damaged"}]
      /\ \A i \in Job : packet'[i] = IF i = j THEN "damaged" ELSE packet[i]
  BY <1>1 DEF Typed, TypeOK
<1>3. Typed'
  BY <1>1, <1>2 DEF Typed, TypeOK
<1>4. IntentsInOrder' /\ Cadence'
  BY <1>1 DEF IInv, IntentsInOrder, Cadence
<1>5. IntentFirst' /\ ReceiptsAreTrue'
  BY <1>1, <1>2 DEF IInv, IntentFirst, ReceiptsAreTrue
<1>6. ASSUME NEW p \in Poller, TickInv(p) PROVE TickInv(p)'
  <2>1. KnowsJobs(p)'
    BY <1>1, <1>6 DEF TickInv, KnowsJobs, Working, Clock
  <2>2. Reconciled(p)'
    BY <1>1, <1>2, <1>6 DEF TickInv, Reconciled, Recovering, Typed, TypeOK
  <2>3. MayAttempt(p)'
    BY <1>1, <1>6 DEF TickInv, MayAttempt, Target, NextJob, Of, Due, Clocks, ClocksOfRuns
  <2>4. OwnJob(p)'
    BY <1>1, <1>6 DEF TickInv, OwnJob, Working, Target
  <2>5. Progress(p)'
    BY <1>1, <1>2, <1>6 DEF TickInv, OwnJob, Working, Progress
  <2>. QED
    BY <2>1, <2>2, <2>3, <2>4, <2>5 DEF TickInv
<1>. QED
  BY <1>1, <1>3, <1>4, <1>5, <1>6 DEF IInv, At

LEMMA OperatorImportIInv ==
  ASSUME IInv, NEW j \in Job, OperatorImport(j)
  PROVE  IInv'
<1>1. /\ UNCHANGED <<now, intent, packet, finished, outcome, lock, tick, forced>> /\ Typed
      /\ packet[j] = "complete" /\ queue' \in Seq(Job) /\ Imported' = Imported \cup {j}
  BY EnqueueImports DEF IInv, OperatorImport
<1>2. Typed'
  BY <1>1 DEF Typed, TypeOK
<1>3. IntentsInOrder' /\ IntentFirst' /\ Cadence' /\ ReceiptsAreTrue'
  BY <1>1, DiskKept
<1>4. ASSUME NEW p \in Poller, TickInv(p) PROVE TickInv(p)'
  <2>1. KnowsJobs(p)' /\ Reconciled(p)'
    BY <1>1, <1>4 DEF TickInv, KnowsJobs, Working, Clock, Reconciled, Recovering
  <2>2. MayAttempt(p)'
    BY <1>1, <1>4 DEF TickInv, MayAttempt, Target, NextJob, Of, Due, Clocks, ClocksOfRuns
  <2>3. OwnJob(p)' /\ Progress(p)'
    BY <1>1, <1>4 DEF TickInv, OwnJob, Working, Target, Progress
  <2>. QED
    BY <2>1, <2>2, <2>3 DEF TickInv
<1>. QED
  BY <1>1, <1>2, <1>3, <1>4 DEF IInv, At

\* What is due stays due.
LEMMA PassIInv ==
  ASSUME IInv, Pass
  PROVE  IInv'
<1>1. /\ UNCHANGED <<intent, packet, finished, outcome, queue, lock, tick, forced>> /\ Typed
      /\ now \in Clock /\ now' \in Clock /\ now' = now + 1 /\ Imported' = Imported
  BY PollAssumption DEF IInv, Typed, TypeOK, Pass, Clock, disk, Imported
<1>2. Typed'
  BY <1>1 DEF Typed, TypeOK
<1>3. IntentsInOrder' /\ IntentFirst' /\ Cadence' /\ ReceiptsAreTrue'
  BY <1>1, DiskKept
<1>4. ASSUME NEW p \in Poller, TickInv(p) PROVE TickInv(p)'
  <2>1. KnowsJobs(p)' /\ Reconciled(p)'
    BY <1>1, <1>4 DEF TickInv, KnowsJobs, Working, Clock, Reconciled, Recovering
  <2>2. MayAttempt(p)'
    <3>1. Clocks(p) \subseteq Clock
      <4>1. \A j \in tick[p].seen : intent[j] \in Clock
        BY <1>4 DEF TickInv, KnowsJobs
      <4>2. ASSUME NEW j \in tick[p].runs PROVE finished[j] \in Clock
        <5>1. j \in Job /\ j \in Imported
          BY <1>1, <1>4 DEF TickInv, Reconciled, Typed, Tick
        <5>. QED
          BY <1>1, <5>1 DEF IInv, IntentFirst, Typed, TypeOK
      <4>. QED
        BY <4>1, <4>2 DEF Clocks, ClocksOfRuns, Of
    <3>2. Clocks(p)' = Clocks(p) /\ Target(p)' = Target(p) /\ NextJob(Target(p))' = NextJob(Target(p))
      BY <1>1 DEF Clocks, ClocksOfRuns, Target, NextJob
    <3>3. ASSUME Due(p) PROVE Due(p)'
      <4>1. \A u \in Clocks(p) : u \in Nat /\ u + Interval <= now
        BY <3>1, <3>3, ClockFacts DEF Due
      <4>2. \A u \in Clocks(p) : u + Interval <= now + 1
        BY <1>1, <4>1, ClockFacts, PollAssumption
      <4>. QED
        BY <1>1, <3>2, <4>2 DEF Due
    <3>. QED
      BY <1>1, <1>4, <3>2, <3>3 DEF TickInv, MayAttempt
  <2>3. OwnJob(p)' /\ Progress(p)'
    BY <1>1, <1>4 DEF TickInv, OwnJob, Working, Target, Progress
  <2>. QED
    BY <2>1, <2>2, <2>3 DEF TickInv
<1>. QED
  BY <1>1, <1>2, <1>3, <1>4 DEF IInv, At

LEMMA StutterIInv ==
  ASSUME IInv, UNCHANGED vars
  PROVE  IInv'
<1>1. /\ UNCHANGED <<now, intent, packet, finished, outcome, queue, lock, tick, forced>>
      /\ Typed /\ Imported' = Imported
  BY DEF IInv, vars, disk, Imported
<1>2. Typed'
  BY <1>1 DEF Typed, TypeOK
<1>3. IntentsInOrder' /\ IntentFirst' /\ Cadence' /\ ReceiptsAreTrue'
  BY <1>1, DiskKept
<1>4. ASSUME NEW p \in Poller, TickInv(p) PROVE TickInv(p)'
  BY <1>1, <1>4 DEF TickInv, KnowsJobs, Reconciled, MayAttempt, OwnJob, Progress, Working, Recovering,
     Target, NextJob, Of, Due, Clocks, ClocksOfRuns, Clock
<1>. QED
  BY <1>1, <1>2, <1>3, <1>4 DEF IInv, At

-----------------------------------------------------------------------------
LEMMA NextIInv == IInv /\ [Next]_vars => IInv'
<1>. SUFFICES ASSUME IInv, [Next]_vars PROVE IInv'
  OBVIOUS
<1>1. ASSUME NEW p \in Poller, Step(p) PROVE IInv'
  BY <1>1, ReconcileIInv, RecoverReceiptIInv, VisitTargetIInv, WriteIntentIInv, CompleteCaptureIInv,
     FailCaptureIInv, ImportPacketIInv, WriteOutcomeIInv, FinishIInv DEF Step
<1>2. ASSUME NEW p \in Poller, NEW force \in BOOLEAN, Invoke(p, force) PROVE IInv'
  BY <1>2, InvokeIInv
<1>3. ASSUME NEW p \in Poller, Crash(p) PROVE IInv'
  BY <1>3, CrashIInv
<1>4. ASSUME NEW j \in Job, Damage(j) \/ OperatorImport(j) PROVE IInv'
  BY <1>4, DamageIInv, OperatorImportIInv
<1>. QED
  BY <1>1, <1>2, <1>3, <1>4, PassIInv, StutterIInv DEF Next

THEOREM Invariance == Spec => []IInv
BY InitIInv, NextIInv, PTL DEF Spec

\* Every state is one of the declared kind; in particular at most one process runs at a
\* time, the one that holds the lock.
THEOREM TypeCorrect == Spec => []TypeOK
<1>1. IInv => TypeOK
  BY DEF IInv, Typed
<1>. QED
  BY <1>1, Invariance, PTL

\* Recovery comes before acquisition: a process about to fetch has reconciled every job
\* of the key, none was started since, and the key is not blocked.
THEOREM RecoverBeforeFetchAlways == Spec => []RecoverBeforeFetch
<1>1. ASSUME IInv PROVE RecoverBeforeFetch
  <2>. SUFFICES ASSUME NEW p \in Poller, At(p, "capture"), NEW j \in Of(Job, tick[p].job[1]),
                       packet[j] # "incomplete"
                PROVE  j \in Imported
    BY DEF RecoverBeforeFetch
  <2>1. TickInv(p) /\ Working(p) /\ ~Recovering(p) /\ tick[p].pc = "capture"
    BY <1>1 DEF IInv, At, Working, Recovering
  <2>2. /\ j \in Job /\ j[1] = Target(p) /\ Target(p) \notin tick[p].blocked
        /\ j # tick[p].job /\ intent[j] # NULL
    BY <1>1, <2>1 DEF IInv, IntentFirst, TickInv, OwnJob, Progress, Of
  <2>3. j \in tick[p].seen
    BY <1>1, <2>1, <2>2, CatalogFacts DEF IInv, Typed, Tick, TickInv, OwnJob, KnowsJobs, Target
  <2>. QED
    BY <2>1, <2>2, <2>3 DEF TickInv, Reconciled
<1>. QED
  BY <1>1, Invariance, PTL

\* Two attempts on a key are an interval apart, through crashes, interrupted captures and
\* concurrent invocations.
THEOREM CadenceAlways == Spec => []Cadence
<1>1. IInv => Cadence
  BY DEF IInv
<1>. QED
  BY <1>1, Invariance, PTL

\* A receipt is true when it is written, and stays true.
THEOREM ReceiptsAreTrueAlways == Spec => []ReceiptsAreTrue
<1>1. IInv => ReceiptsAreTrue
  BY DEF IInv
<1>. QED
  BY <1>1, Invariance, PTL
=============================================================================

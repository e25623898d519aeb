----------------------- MODULE DirectoryInstallProofs -----------------------
(***************************************************************************)
(* The two ways in which directories are installed, proved for any number  *)
(* of crashes and failures.  Releases replace each other at one name, and  *)
(* ReleaseInstall implements Publication.  Snapshots stay at their names,  *)
(* whatever their number, the processes, the faults, the power losses and  *)
(* the operators.                                                          *)
(***************************************************************************)
EXTENDS ReleaseInstall, SnapshotAcquisition, FiniteSetTheorems, TLAPS

-----------------------------------------------------------------------------
(* Releases. *)

\* The two names.  Where only the backup is there it is whole; a writer that has
\* recovered finds no backup; a stage is whole before it is published.
BackupIsWhole == output = NULL /\ backup # NULL => backup.whole

NoBackupYet == pc \in {"inspect", "recheck", "copy", "write", "aside"} => backup = NULL

StageMatches ==
  /\ pc \in {"write", "aside", "publish"} =>
       stage # NULL /\ stage.release = release /\ stage.notes = kept /\ ~stage.edited
  /\ pc \in {"aside", "publish"} => stage.whole

\* What the writer knows of the release it replaces.
KeptMatches ==
  /\ pc \in {"recheck", "copy", "write", "aside"} =>
       IF output = NULL THEN kept = {} ELSE kept = output.notes /\ ~output.edited
  /\ pc = "publish" =>
       /\ output = NULL
       /\ IF backup = NULL THEN kept = {} ELSE kept = backup.notes /\ ~backup.edited

\* Releases are numbered by the calls that write them.
Numbered ==
  /\ pc \in {"recover", "inspect", "recheck", "copy", "write", "aside", "publish"} =>
       /\ release > 0
       /\ output # NULL => output.release < release
       /\ backup # NULL => backup.release < release
  /\ output # NULL => output.release <= release
  /\ backup # NULL => backup.release <= release

DiscardsBesideOutput == pc = "discard" => output # NULL

ReleaseIInv ==
  /\ TypeOK /\ OutputIsWhole /\ OnlyCrashesHide
  /\ BackupIsWhole /\ NoBackupYet /\ StageMatches /\ KeptMatches /\ Numbered
  /\ DiscardsBesideOutput

-----------------------------------------------------------------------------
\* The conjuncts hold of a new site.
LEMMA InitReleaseIInv == Init => ReleaseIInv
BY ReleaseAssumption DEF Init, ReleaseIInv, TypeOK, OutputIsWhole, OnlyCrashesHide, BackupIsWhole,
  NoBackupYet, StageMatches, KeptMatches, Numbered, DiscardsBesideOutput

\* Every operation, failure and crash keeps them.
LEMMA NextReleaseIInv == ReleaseIInv /\ [Next]_vars => ReleaseIInv'
<1>1. SUFFICES ASSUME ReleaseIInv, [Next]_vars PROVE ReleaseIInv'
  OBVIOUS
<1>. USE <1>1, ReleaseAssumption, NullAssumption DEF ReleaseIInv, TypeOK, OutputIsWhole,
       OnlyCrashesHide, BackupIsWhole, NoBackupYet, StageMatches, KeptMatches, Numbered, DiscardsBesideOutput, Directory, Go
<1>2. CASE Call
  BY <1>2 DEF Call
<1>3. CASE RecoverFirst
  BY <1>3 DEF RecoverFirst, Recover
<1>4. CASE Inspect
  BY <1>4 DEF Inspect
<1>5. CASE RecoverAgain
  BY <1>5 DEF RecoverAgain, Recover
<1>6. CASE Copy
  <2>1. release \in 1 .. MaxReleases
    BY <1>6 DEF Copy
  <2>2. /\ stage' \in Directory
        /\ stage'.release = release /\ stage'.notes = kept /\ ~stage'.edited
    BY <1>6, <2>1 DEF Copy
  <2>3. stage' # NULL
    BY <2>2
  <2>4. /\ pc = "copy" /\ pc' = "write"
        /\ UNCHANGED <<output, backup, kept, release, crashes, failures>>
    BY <1>6 DEF Copy
  <2>5. TypeOK' /\ StageMatches'
    BY <2>2, <2>3, <2>4
  <2>. QED
    BY <2>4, <2>5
<1>7. CASE WriteFiles
  BY <1>7 DEF WriteFiles
<1>8. CASE SetAside
  BY <1>8 DEF SetAside
<1>9. CASE Publish
  BY <1>9 DEF Publish
<1>10. CASE Discard
  BY <1>10 DEF Discard
<1>11. CASE Fail
  BY <1>11 DEF Fail, Restore
<1>12. CASE Crash
  BY <1>12 DEF Crash
<1>13. ASSUME NEW n \in Note, AddNote(n) PROVE ReleaseIInv'
  BY <1>13 DEF AddNote
<1>14. CASE Edit
  BY <1>14 DEF Edit
<1>15. CASE RemoveBackup
  BY <1>15 DEF RemoveBackup
<1>16. CASE UNCHANGED vars
  BY <1>16 DEF vars
<1>. QED
  BY <1>2, <1>3, <1>4, <1>5, <1>6, <1>7, <1>8, <1>9, <1>10, <1>11, <1>12, <1>13, <1>14, <1>15, <1>16
     DEF Next

\* The inductive invariant holds for ever.
LEMMA ReleaseInvariance == Spec => []ReleaseIInv
BY InitReleaseIInv, NextReleaseIInv, PTL DEF Spec

\* The variables keep their types.
THEOREM TypeCorrect == Spec => []TypeOK
BY ReleaseInvariance, PTL DEF ReleaseIInv

\* The directory at the output's name has every file of its manifest, whatever
\* _install_release_directory and its recovery went through.
THEOREM OutputIsWholeAlways == Spec => []OutputIsWhole
BY ReleaseInvariance, PTL DEF ReleaseIInv

\* An operation of _install_release_directory that fails never leaves the release
\* under the backup's name.
THEOREM OnlyCrashesHideAlways == Spec => []OnlyCrashesHide
BY ReleaseInvariance, PTL DEF ReleaseIInv

-----------------------------------------------------------------------------
\* A site without directories shows nothing.
LEMMA InitPublished == Init => Published!Init
BY DEF Init, Published!Init, Shown

\* What a directory shows is something.
LEMMA ContentIsNotNull == \A d \in Directory : ContentOf(d) # NULL
BY ContentAssumption DEF Directory, ContentOf, Published!Content, Published!Release

\* Only the rename of the stage publishes; every other step of the writer, and its
\* death, leaves what is shown.
LEMMA NextPublished == ReleaseIInv /\ [Next]_vars => [Published!Next]_Shown
<1>1. SUFFICES ASSUME ReleaseIInv, [Next]_vars PROVE [Published!Next]_Shown
  OBVIOUS
<1>. USE <1>1 DEF ReleaseIInv
<1>2. ASSUME UNCHANGED <<output, backup>> PROVE UNCHANGED Shown
  BY <1>2 DEF Shown
<1>3. ASSUME Recover("recover", "inspect") \/ Recover("recheck", "copy") PROVE UNCHANGED Shown
  BY <1>3 DEF Recover, Shown
<1>4. CASE SetAside
  BY <1>4 DEF SetAside, Shown, NoBackupYet, Go
<1>5. CASE Publish
  <2>1. pc = "publish" /\ output' = stage /\ UNCHANGED backup
    BY <1>5 DEF Publish, Go
  <2>2. /\ stage # NULL /\ stage.release = release /\ stage.notes = kept /\ ~stage.edited
        /\ stage \in Directory
    BY <2>1 DEF StageMatches, TypeOK
  <2>3. stage.edited = FALSE
    BY <2>2 DEF Directory
  <2>4. Shown' = [release |-> release, notes |-> kept, edited |-> FALSE]
    BY <2>1, <2>2, <2>3 DEF Shown, ContentOf
  <2>5. ASSUME backup = NULL PROVE Published!Publish(release)
    <3>1. Shown = NULL /\ kept = {}
      BY <2>1, <2>5 DEF KeptMatches, Shown
    <3>. QED
      BY <2>4, <3>1 DEF Published!Publish, Published!Replaceable
  <2>6. ASSUME backup # NULL PROVE Published!Publish(release)
    <3>1. /\ output = NULL /\ backup \in Directory
          /\ backup.notes = kept /\ ~backup.edited /\ backup.release < release
      BY <2>1, <2>6 DEF KeptMatches, Numbered, TypeOK
    <3>2. Shown = ContentOf(backup)
      BY <2>6, <3>1 DEF Shown
    <3>3. Shown # NULL
      BY <3>1, <3>2, ContentIsNotNull
    <3>4. Shown.notes = kept /\ ~Shown.edited /\ Shown.release < release
      BY <3>1, <3>2 DEF ContentOf
    <3>. QED
      BY <2>4, <3>3, <3>4 DEF Published!Publish, Published!Replaceable
  <2>7. Published!Publish(release)
    BY <2>5, <2>6
  <2>8. release \in Published!Release
    BY <2>1, ReleaseAssumption DEF Published!Release, Numbered, TypeOK
  <2>. QED
    BY <2>7, <2>8 DEF Published!Next
<1>6. CASE Discard
  BY <1>6 DEF Discard, Go, DiscardsBesideOutput, Shown
<1>7. CASE Fail
  BY <1>7 DEF Fail, Restore, Shown
<1>8. ASSUME NEW n \in Note, AddNote(n) PROVE [Published!Next]_Shown
  <2>1. /\ output # NULL /\ output \in Directory
        /\ output' = [output EXCEPT !.notes = @ \cup {n}]
    BY <1>8 DEF AddNote, TypeOK
  <2>2. output' \in Directory
    BY <2>1 DEF Directory
  <2>3. Shown = ContentOf(output) /\ Shown' = ContentOf(output') /\ Shown # NULL
    BY <2>1, <2>2, NullAssumption, ContentIsNotNull DEF Shown
  <2>4. ContentOf(output') = [ContentOf(output) EXCEPT !.notes = @ \cup {n}]
    BY <2>1 DEF ContentOf, Directory
  <2>5. Published!AddNote(n)
    BY <2>3, <2>4 DEF Published!AddNote
  <2>. QED
    BY <2>5 DEF Published!Next
<1>9. CASE Edit
  <2>1. /\ output # NULL /\ output \in Directory
        /\ output' = [output EXCEPT !.edited = TRUE]
    BY <1>9 DEF Edit, TypeOK
  <2>2. output' \in Directory
    BY <2>1 DEF Directory
  <2>3. Shown = ContentOf(output) /\ Shown' = ContentOf(output') /\ Shown # NULL
    BY <2>1, <2>2, NullAssumption, ContentIsNotNull DEF Shown
  <2>4. ContentOf(output') = [ContentOf(output) EXCEPT !.edited = TRUE]
    <3>1. output'.release = output.release /\ output'.notes = output.notes
      BY <2>1 DEF Directory
    <3>2. output'.edited = TRUE
      BY <2>1 DEF Directory
    <3>3. ContentOf(output') = [release |-> output.release, notes |-> output.notes, edited |-> TRUE]
      BY <3>1, <3>2 DEF ContentOf
    <3>4. ASSUME NEW e \in BOOLEAN
          PROVE  [ContentOf(output) EXCEPT !.edited = e]
                   = [release |-> output.release, notes |-> output.notes, edited |-> e]
      BY DEF ContentOf
    <3>. QED
      BY <3>3, <3>4
  <2>5. Published!Edit
    BY <2>3, <2>4 DEF Published!Edit
  <2>. QED
    BY <2>5 DEF Published!Next
<1>10. CASE RemoveBackup
  BY <1>10 DEF RemoveBackup, Shown
<1>11. CASE Call \/ Inspect \/ Copy \/ WriteFiles \/ Crash \/ UNCHANGED vars
  BY <1>2, <1>11 DEF Call, Inspect, Copy, WriteFiles, Crash, vars
<1>12. CASE RecoverFirst \/ RecoverAgain
  BY <1>3, <1>12 DEF RecoverFirst, RecoverAgain
<1>. QED
  BY <1>4, <1>5, <1>6, <1>7, <1>8, <1>9, <1>10, <1>11, <1>12 DEF Next

\* The two directories, the stage and the renames implement a publication that
\* changes in one step, with any number of releases, notes, crashes and failures.
THEOREM ImplementsPublicationAlways == Spec => ImplementsPublication
BY ReleaseInvariance, InitPublished, NextPublished, PTL
   DEF Spec, ImplementsPublication, Published!Spec

-----------------------------------------------------------------------------
(* Snapshots. *)

(* The turning points of each plan.  After its step "got" the version is known, the stage   *)
(* holds something from "first" on and is first synced by "synced"; "written" and "safe" are *)
(* the steps after which a part of the stage is there and is durable, if ever.               *)

Marks ==
  [epa_frs |->
     [got |-> 1, stage |-> 3, first |-> 4, synced |-> 6, rename |-> 10, parent |-> 11,
      written |-> [raw |-> 5, derived |-> 4, manifest |-> 7],
      safe |-> [raw |-> 6, derived |-> 6, manifest |-> 8]],
   moenv |->
     [got |-> 2, stage |-> 4, first |-> 5, synced |-> 6, rename |-> 8, parent |-> 9,
      written |-> [raw |-> 5, derived |-> 5, manifest |-> 5],
      safe |-> [raw |-> 6, derived |-> 6, manifest |-> 6]],
   taiwan_factory |->
     [got |-> 2, stage |-> 4, first |-> 5, synced |-> 6, rename |-> 8, parent |-> 9,
      written |-> [raw |-> 5, derived |-> 5, manifest |-> 5],
      safe |-> [raw |-> 6, derived |-> 6, manifest |-> 6]],
   taiwan_mof |->
     [got |-> 2, stage |-> 8, first |-> 9, synced |-> 10, rename |-> 16, parent |-> 18,
      written |-> [raw |-> 9, derived |-> 9, manifest |-> 9],
      safe |-> [raw |-> 10, derived |-> 10, manifest |-> 10]],
   gleif |->
     [got |-> 3, stage |-> 2, first |-> 3, synced |-> 6, rename |-> 8, parent |-> 9,
      written |-> [raw |-> 3, derived |-> 4, manifest |-> 5],
      safe |-> [raw |-> 6, derived |-> 6, manifest |-> 6]],
   eea_industrial |->
     [got |-> 0, stage |-> 2, first |-> 3, synced |-> 4, rename |-> 5, parent |-> 6,
      written |-> [raw |-> 3, derived |-> 3, manifest |-> 3],
      safe |-> [raw |-> 99, derived |-> 4, manifest |-> 4]]]

Writes == Part \cup {"files", "fetch"}
Syncs == {"sync", "sync_all"}
Last == {"identity", "sync_parent", "reverify"}

\* The order of the turning points.
Ordered(f, k) ==
  /\ k.got \in Nat /\ k.stage \in Nat /\ k.first \in Nat /\ k.synced \in Nat
  /\ k.rename \in Nat /\ k.parent \in Nat
  /\ 1 < k.stage /\ k.stage < k.first /\ k.got <= k.first /\ k.first < k.synced
  /\ k.synced < k.rename /\ k.rename < k.parent
  /\ k.got = 0 <=> f = "eea_industrial"
  /\ \A x \in Part : /\ k.written[x] \in Nat /\ k.safe[x] \in Nat
                     /\ k.first <= k.written[x] /\ k.written[x] < k.safe[x]
                     /\ k.synced <= k.safe[x] /\ k.written[x] < k.rename
                     /\ f \in Synced => k.safe[x] < k.rename

\* What a step with the label s does at its place in the plan.
Turns(f, k, s, n) ==
  /\ s = "stage" <=> n = k.stage
  /\ s = "rename" <=> n = k.rename
  /\ s \in Last <=> n > k.rename
  /\ s = "sync_parent" <=> n = k.parent
  /\ n = k.got => s \in {"download", "fetch"}
  /\ s = "download" => n = k.got /\ n < k.first
  /\ n = k.first => s \in Writes
  /\ s \in Writes => k.first <= n /\ n < k.rename /\ (s # "fetch" => k.got < n)
  /\ s = "fetch" => n = k.first /\ n = k.got /\ n = 3 /\ f = "gleif"
  /\ n = k.synced => s \in Syncs
  /\ s \in Syncs => k.first < n /\ n < k.rename
  /\ \A x \in Part :
       /\ n = k.written[x] => s \in {x, "files"} \/ (x = "raw" /\ s = "fetch")
       /\ n = k.safe[x] => s = "sync_all" \/ (s = "sync" /\ x # "raw")
  /\ s \in Bound \cup {"identity"} => f = "taiwan_mof"
  /\ f = "taiwan_mof" =>
       /\ s # "reverify"
       /\ n = 3 \/ n = 5 => s = "moenv"
       /\ n = 4 \/ n = 6 => s = "taiwan_factory"
       /\ n > 6 \/ s \notin Writes \cup {"rename"}

PlanTurns(f) ==
  /\ Ordered(f, Marks[f]) /\ Len(PlanOf[f]) \in Nat /\ Len(PlanOf[f]) >= Marks[f].parent
  /\ \A n \in 1..Len(PlanOf[f]) : Turns(f, Marks[f], PlanOf[f][n], n)

-----------------------------------------------------------------------------
(* The invariant. *)

Status == {"idle", "running", "done", "raised", "dead"} \cup Rollback

Held ==
  [status : Status, step : Nat, attempt : Nat, asked : Nat,
   bound : [Bound -> {Nil} \cup SUBSET Nat], got : SUBSET Nat]

Versions(f) == IF f \in Bound THEN 0..MaxArchives ELSE Nat

AcquisitionTypeOK ==
  /\ job \in [Process -> Family]
  /\ proc \in [Process -> Held]
  /\ tree \in [Inode -> Tree \cup {Nil}]
  /\ entry \in [Family -> Inode \cup {Nil}]
  /\ disk \in [Family -> SUBSET (Inode \cup {Nil})]
  /\ published \in [Family -> Nat] /\ \A f \in Family : published[f] \in Versions(f)
  /\ removed \subseteq Inode
  /\ faults \in Nat /\ losses \in Nat

\* A directory that may be found at a name is whole, of one version, and will be found whole.
Whole(f, i) ==
  /\ tree[i] # Nil
  /\ i = f \/ (i \in Process /\ job[i] = f)
  /\ \E v \in Versions(f) : tree[i].versions = {v}
  /\ f \in Synced => tree[i].parts = Part /\ tree[i].safe = Part \cup {"subdirectory"}
  /\ i \in Process /\ f = "taiwan_mof" => tree[i].bound \in coexisted

DiskInv ==
  /\ \A f \in Family : entry[f] \in disk[f]
  /\ \A f \in Family : \A i \in disk[f] \ {Nil} : Whole(f, i)
  /\ \A i, j \in removed : i = j
  /\ \A i \in Inode : tree[i] # Nil /\ tree[i].touched => faults > 0
  /\ Sources \in coexisted
  /\ \A s \in Bound \ Acquired : /\ entry[s] \in {s, Nil}
                                 /\ entry[s] = s => tree[s].versions = {published[s]}

Nowhere(p) == \A f \in Family : p \notin disk[f]

Deleted(p) == p \in removed /\ tree[p] = Nil /\ Nowhere(p)

\* What a stage holds that has been filled by steps, and what of it is durable.
StageInv(p) ==
  LET k == Marks[job[p]]  n == proc[p].step IN
  /\ tree[p] # Nil
  /\ \A x \in Part : n > k.written[x] => x \in tree[p].parts
  /\ \A x \in Part : n > k.safe[x] => x \in tree[p].safe
  /\ n > k.synced => "subdirectory" \in tree[p].safe
  /\ n > k.first => tree[p].versions = proc[p].got
  /\ n > k.first /\ job[p] = "taiwan_mof" => tree[p].bound = proc[p].bound

\* A source snapshot that was read is still the one at its name; or it was deleted, or somebody
\* has acquired it anew.
Replaced(s, v) == s \notin Acquired /\ \E n \in Nat : v = {n} /\ n < published[s]
RemovedFrom(s) == \E i \in removed : i = s \/ (i \in Process /\ job[i] = s)
Lasts(s, v) == Sources[s] = v \/ RemovedFrom(s) \/ Replaced(s, v)

\* After its first three readings a process knows that two snapshots were there at once, unless
\* the fourth will fail.
ReadingInv(p) ==
  LET b == proc[p].bound  n == proc[p].step IN
  /\ n > 3 => b["moenv"] # Nil
  /\ n > 4 => b["taiwan_factory"] # Nil
  /\ n = 4 => Lasts("moenv", b["moenv"])
  /\ n = 5 => /\ Lasts("taiwan_factory", b["taiwan_factory"])
              /\ b \in coexisted \/ RemovedFrom("moenv") \/ Replaced("moenv", b["moenv"])
  /\ n = 6 => b \in coexisted \/ Replaced("taiwan_factory", b["taiwan_factory"])
  /\ n > 6 => b \in coexisted

RunningInv(p) ==
  LET k == Marks[job[p]]  n == proc[p].step IN
  /\ n \in 1..Len(Plan(p))
  /\ n > k.got => \E v \in Versions(job[p]) : proc[p].got = {v}
  /\ job[p] = "taiwan_mof" => ReadingInv(p)
  /\ n <= k.rename => Nowhere(p)
  /\ n > k.stage /\ n <= k.rename => StageInv(p)
  /\ n > k.rename => entry[job[p]] = p \/ Deleted(p)
  /\ n > k.parent => disk[job[p]] = {p} \/ Deleted(p)

\* A rollback has a reason, and undoes the installation only of its own directory.
RollbackInv(p) ==
  /\ job[p] = "taiwan_mof"
  /\ faults > 0 \/ tree[p] = Nil
  /\ proc[p].status = "inspect" => entry["taiwan_mof"] = p \/ tree[p] = Nil
  /\ proc[p].status = "undo" => entry["taiwan_mof"] = p
  /\ proc[p].status = "settle" => entry["taiwan_mof"] # p

RaisedInv(p) ==
  faults <= 1 /\ losses = 0 => tree[p] = Nil \/ (job[p] # "taiwan_mof" /\ entry[job[p]] = p)

ProcInv(p) ==
  /\ proc[p].status = "idle" => proc[p] = Fresh(p, "idle") /\ Nowhere(p)
  /\ proc[p].status = "running" => RunningInv(p)
  /\ proc[p].status = "done" => (entry[job[p]] = p /\ disk[job[p]] = {p}) \/ Deleted(p)
  /\ proc[p].status \in Rollback => RollbackInv(p)
  /\ proc[p].status = "raised" => RaisedInv(p)

IInv == AcquisitionTypeOK /\ DiskInv /\ \A p \in Process : ProcInv(p)

-----------------------------------------------------------------------------
(* The plans turn where the table says. *)

LEMMA FRSTurns ==
  ASSUME NEW f, f = "epa_frs"
  PROVE  PlanTurns(f)
<1>. DEFINE k == Marks[f]  plan == PlanOf[f]
<1>1. plan = FRSPlan /\ f \in Family
  BY DEF PlanOf, Family
<1>2. Len(FRSPlan) = 11
  BY DEF FRSPlan
<1>3. /\ FRSPlan[1] = "download" /\ FRSPlan[2] = "absent" /\ FRSPlan[3] = "stage"
      /\ FRSPlan[4] = "derived" /\ FRSPlan[5] = "raw" /\ FRSPlan[6] = "sync_all"
      /\ FRSPlan[7] = "manifest" /\ FRSPlan[8] = "sync" /\ FRSPlan[9] = "absent"
      /\ FRSPlan[10] = "rename" /\ FRSPlan[11] = "sync_parent"
  BY DEF FRSPlan
<1>4. /\ k.got = 1 /\ k.stage = 3 /\ k.first = 4 /\ k.synced = 6 /\ k.rename = 10
      /\ k.parent = 11 /\ k.written.raw = 5 /\ k.written.derived = 4 /\ k.written.manifest = 7
      /\ k.safe.raw = 6 /\ k.safe.derived = 6 /\ k.safe.manifest = 8
  BY DEF Marks
<1>. HIDE DEF k
<1>5. Ordered(f, k)
  BY <1>4 DEF Ordered, Part, Synced, Family
<1>6. ASSUME NEW n \in 1..11 PROVE Turns(f, k, FRSPlan[n], n)
  <2>1. n \in {1, 2, 3, 4, 5, 6, 7, 8, 9, 10, 11}
    OBVIOUS
  <2>. QED
    BY <1>3, <1>4, <2>1 DEF Turns, Part, Bound, Writes, Syncs, Last
<1>. QED
  BY <1>1, <1>2, <1>4, <1>5, <1>6 DEF PlanTurns, k

LEMMA MoenvTurns ==
  ASSUME NEW f, f = "moenv"
  PROVE  PlanTurns(f)
<1>. DEFINE k == Marks[f]  plan == PlanOf[f]
<1>1. plan = MoenvPlan /\ f \in Family
  BY DEF PlanOf, Family
<1>2. Len(MoenvPlan) = 10
  BY DEF MoenvPlan, Acquire
<1>3. /\ MoenvPlan[1] = "absent" /\ MoenvPlan[2] = "download" /\ MoenvPlan[3] = "absent"
      /\ MoenvPlan[4] = "stage" /\ MoenvPlan[5] = "files" /\ MoenvPlan[6] = "sync_all"
      /\ MoenvPlan[7] = "absent" /\ MoenvPlan[8] = "rename" /\ MoenvPlan[9] = "sync_parent"
      /\ MoenvPlan[10] = "reverify"
  BY DEF MoenvPlan, Acquire
<1>4. /\ k.got = 2 /\ k.stage = 4 /\ k.first = 5 /\ k.synced = 6 /\ k.rename = 8 /\ k.parent = 9
      /\ k.written.raw = 5 /\ k.written.derived = 5 /\ k.written.manifest = 5 /\ k.safe.raw = 6
      /\ k.safe.derived = 6 /\ k.safe.manifest = 6
  BY DEF Marks
<1>. HIDE DEF k
<1>5. Ordered(f, k)
  BY <1>4 DEF Ordered, Part, Synced, Family
<1>6. ASSUME NEW n \in 1..10 PROVE Turns(f, k, MoenvPlan[n], n)
  <2>1. n \in {1, 2, 3, 4, 5, 6, 7, 8, 9, 10}
    OBVIOUS
  <2>. QED
    BY <1>3, <1>4, <2>1 DEF Turns, Part, Bound, Writes, Syncs, Last
<1>. QED
  BY <1>1, <1>2, <1>4, <1>5, <1>6 DEF PlanTurns, k

LEMMA FactoryTurns ==
  ASSUME NEW f, f = "taiwan_factory"
  PROVE  PlanTurns(f)
<1>. DEFINE k == Marks[f]  plan == PlanOf[f]
<1>1. plan = FactoryPlan /\ f \in Family
  BY DEF PlanOf, Family
<1>2. Len(FactoryPlan) = 10
  BY DEF FactoryPlan, Acquire
<1>3. /\ FactoryPlan[1] = "absent" /\ FactoryPlan[2] = "download" /\ FactoryPlan[3] = "absent"
      /\ FactoryPlan[4] = "stage" /\ FactoryPlan[5] = "files" /\ FactoryPlan[6] = "sync_all"
      /\ FactoryPlan[7] = "absent" /\ FactoryPlan[8] = "rename"
      /\ FactoryPlan[9] = "sync_parent" /\ FactoryPlan[10] = "reverify"
  BY DEF FactoryPlan, Acquire
<1>4. /\ k.got = 2 /\ k.stage = 4 /\ k.first = 5 /\ k.synced = 6 /\ k.rename = 8 /\ k.parent = 9
      /\ k.written.raw = 5 /\ k.written.derived = 5 /\ k.written.manifest = 5 /\ k.safe.raw = 6
      /\ k.safe.derived = 6 /\ k.safe.manifest = 6
  BY DEF Marks
<1>. HIDE DEF k
<1>5. Ordered(f, k)
  BY <1>4 DEF Ordered, Part, Synced, Family
<1>6. ASSUME NEW n \in 1..10 PROVE Turns(f, k, FactoryPlan[n], n)
  <2>1. n \in {1, 2, 3, 4, 5, 6, 7, 8, 9, 10}
    OBVIOUS
  <2>. QED
    BY <1>3, <1>4, <2>1 DEF Turns, Part, Bound, Writes, Syncs, Last
<1>. QED
  BY <1>1, <1>2, <1>4, <1>5, <1>6 DEF PlanTurns, k

LEMMA MOFTurns ==
  ASSUME NEW f, f = "taiwan_mof"
  PROVE  PlanTurns(f)
<1>. DEFINE k == Marks[f]  plan == PlanOf[f]
<1>1. plan = MOFPlan /\ f \in Family
  BY DEF PlanOf, Family
<1>2. Len(MOFPlan) = 18
  BY DEF MOFPlan, Acquire, ReadTwice
<1>3. /\ MOFPlan[1] = "absent" /\ MOFPlan[2] = "download" /\ MOFPlan[3] = "moenv"
      /\ MOFPlan[4] = "taiwan_factory" /\ MOFPlan[5] = "moenv" /\ MOFPlan[6] = "taiwan_factory"
      /\ MOFPlan[7] = "absent" /\ MOFPlan[8] = "stage" /\ MOFPlan[9] = "files"
      /\ MOFPlan[10] = "sync_all" /\ MOFPlan[11] = "moenv" /\ MOFPlan[12] = "taiwan_factory"
      /\ MOFPlan[13] = "moenv" /\ MOFPlan[14] = "taiwan_factory" /\ MOFPlan[15] = "absent"
      /\ MOFPlan[16] = "rename" /\ MOFPlan[17] = "identity" /\ MOFPlan[18] = "sync_parent"
  BY DEF MOFPlan, Acquire, ReadTwice
<1>4. /\ k.got = 2 /\ k.stage = 8 /\ k.first = 9 /\ k.synced = 10 /\ k.rename = 16
      /\ k.parent = 18 /\ k.written.raw = 9 /\ k.written.derived = 9 /\ k.written.manifest = 9
      /\ k.safe.raw = 10 /\ k.safe.derived = 10 /\ k.safe.manifest = 10
  BY DEF Marks
<1>. HIDE DEF k
<1>5. Ordered(f, k)
  BY <1>4 DEF Ordered, Part, Synced, Family
<1>6. ASSUME NEW n \in 1..18 PROVE Turns(f, k, MOFPlan[n], n)
  <2>1. n \in {1, 2, 3, 4, 5, 6, 7, 8, 9, 10, 11, 12, 13, 14, 15, 16, 17, 18}
    OBVIOUS
  <2>. QED
    BY <1>3, <1>4, <2>1 DEF Turns, Part, Bound, Writes, Syncs, Last
<1>. QED
  BY <1>1, <1>2, <1>4, <1>5, <1>6 DEF PlanTurns, k

LEMMA GLEIFTurns ==
  ASSUME NEW f, f = "gleif"
  PROVE  PlanTurns(f)
<1>. DEFINE k == Marks[f]  plan == PlanOf[f]
<1>1. plan = GLEIFPlan /\ f \in Family
  BY DEF PlanOf, Family
<1>2. Len(GLEIFPlan) = 10
  BY DEF GLEIFPlan
<1>3. /\ GLEIFPlan[1] = "absent" /\ GLEIFPlan[2] = "stage" /\ GLEIFPlan[3] = "fetch"
      /\ GLEIFPlan[4] = "derived" /\ GLEIFPlan[5] = "manifest" /\ GLEIFPlan[6] = "sync_all"
      /\ GLEIFPlan[7] = "absent" /\ GLEIFPlan[8] = "rename" /\ GLEIFPlan[9] = "sync_parent"
      /\ GLEIFPlan[10] = "reverify"
  BY DEF GLEIFPlan
<1>4. /\ k.got = 3 /\ k.stage = 2 /\ k.first = 3 /\ k.synced = 6 /\ k.rename = 8 /\ k.parent = 9
      /\ k.written.raw = 3 /\ k.written.derived = 4 /\ k.written.manifest = 5 /\ k.safe.raw = 6
      /\ k.safe.derived = 6 /\ k.safe.manifest = 6
  BY DEF Marks
<1>. HIDE DEF k
<1>5. Ordered(f, k)
  BY <1>4 DEF Ordered, Part, Synced, Family
<1>6. ASSUME NEW n \in 1..10 PROVE Turns(f, k, GLEIFPlan[n], n)
  <2>1. n \in {1, 2, 3, 4, 5, 6, 7, 8, 9, 10}
    OBVIOUS
  <2>. QED
    BY <1>3, <1>4, <2>1 DEF Turns, Part, Bound, Writes, Syncs, Last
<1>. QED
  BY <1>1, <1>2, <1>4, <1>5, <1>6 DEF PlanTurns, k

LEMMA EEATurns ==
  ASSUME NEW f, f = "eea_industrial"
  PROVE  PlanTurns(f)
<1>. DEFINE k == Marks[f]  plan == PlanOf[f]
<1>1. plan = EEAPlan /\ f \in Family
  BY DEF PlanOf, Family
<1>2. Len(EEAPlan) = 7
  BY DEF EEAPlan
<1>3. /\ EEAPlan[1] = "absent" /\ EEAPlan[2] = "stage" /\ EEAPlan[3] = "files"
      /\ EEAPlan[4] = "sync" /\ EEAPlan[5] = "rename" /\ EEAPlan[6] = "sync_parent"
      /\ EEAPlan[7] = "reverify"
  BY DEF EEAPlan
<1>4. /\ k.got = 0 /\ k.stage = 2 /\ k.first = 3 /\ k.synced = 4 /\ k.rename = 5 /\ k.parent = 6
      /\ k.written.raw = 3 /\ k.written.derived = 3 /\ k.written.manifest = 3 /\ k.safe.raw = 99
      /\ k.safe.derived = 4 /\ k.safe.manifest = 4
  BY DEF Marks
<1>. HIDE DEF k
<1>5. Ordered(f, k)
  BY <1>4 DEF Ordered, Part, Synced, Family
<1>6. ASSUME NEW n \in 1..7 PROVE Turns(f, k, EEAPlan[n], n)
  <2>1. n \in {1, 2, 3, 4, 5, 6, 7}
    OBVIOUS
  <2>. QED
    BY <1>3, <1>4, <2>1 DEF Turns, Part, Bound, Writes, Syncs, Last
<1>. QED
  BY <1>1, <1>2, <1>4, <1>5, <1>6 DEF PlanTurns, k

LEMMA AllTurn == \A f \in Family : PlanTurns(f)
BY FRSTurns, MoenvTurns, FactoryTurns, MOFTurns, GLEIFTurns, EEATurns DEF Family

LEMMA PlanLengths ==
  \A f \in Family : Len(PlanOf[f]) \in Nat /\ Len(PlanOf[f]) >= Marks[f].parent
BY AllTurn DEF PlanTurns

\* Where a process is in its plan.
LEMMA Place ==
  ASSUME AcquisitionTypeOK, NEW p \in Process, ProcInv(p), NEW s, At(p, s)
  PROVE  /\ job[p] \in Family /\ proc[p] \in Held /\ proc[p].status = "running" /\ RunningInv(p)
         /\ proc[p].step \in Nat /\ proc[p].step <= Len(Plan(p))
         /\ Ordered(job[p], Marks[job[p]])
         /\ Turns(job[p], Marks[job[p]], s, proc[p].step)
<1>1. job[p] \in Family /\ proc[p] \in Held
  BY DEF AcquisitionTypeOK
<1>2. proc[p].status = "running" /\ s = PlanOf[job[p]][proc[p].step]
  BY DEF At, Plan
<1>3. RunningInv(p)
  BY <1>2 DEF ProcInv
<1>4. proc[p].step \in 1..Len(PlanOf[job[p]])
  BY <1>3 DEF RunningInv, Plan
<1>5. PlanTurns(job[p])
  BY <1>1, AllTurn
<1>. QED
  BY <1>1, <1>2, <1>3, <1>4, <1>5 DEF PlanTurns, Plan, Held

LEMMA FreshTyped ==
  ASSUME AcquisitionTypeOK, NEW p \in Process, NEW status \in Status
  PROVE  /\ Fresh(p, status) \in Held /\ Fresh(p, status).status = status
         /\ Fresh(p, status).step = 1
         /\ Fresh(p, status).got = IF job[p] = "eea_industrial" THEN {0} ELSE {}
BY DEF Fresh, Unread, Held

LEMMA Named ==
  ASSUME AcquisitionTypeOK, DiskInv, NEW p \in Process, NEW f \in Family, p \in disk[f]
  PROVE  f = job[p] /\ tree[p] # Nil /\ tree[p] \in Tree
<1>1. p # Nil /\ p \notin Family
  BY AcquisitionAssumption
<1>2. Whole(f, p)
  BY <1>1 DEF DiskInv
<1>. QED
  BY <1>1, <1>2 DEF Whole, AcquisitionTypeOK, Inode

-----------------------------------------------------------------------------
(* The steps of others. *)

\* What a step does that q has no part in.
Aside(q) ==
  /\ UNCHANGED job /\ proc'[q] = proc[q] /\ coexisted \subseteq coexisted'
  /\ faults' \in Nat /\ faults' >= faults /\ losses' \in Nat /\ losses' >= losses
  /\ removed \subseteq removed' /\ (tree[q] = Nil => tree'[q] = Nil)
  /\ Nowhere(q) => tree'[q] = tree[q] /\ Nowhere(q)'
  /\ entry[job[q]] = q => entry'[job[q]] = q
  /\ disk[job[q]] = {q} => disk'[job[q]] = {q}
  /\ entry'["taiwan_mof"] = q => entry["taiwan_mof"] = q
  /\ \A s \in Bound : \A v : v # Nil => /\ Lasts(s, v) => Lasts(s, v)'
                                        /\ Replaced(s, v) => Replaced(s, v)'
  /\ \A s \in Bound : RemovedFrom(s) => RemovedFrom(s)'

LEMMA OthersStay ==
  ASSUME IInv, NEW q \in Process, Aside(q)
  PROVE  ProcInv(q)'
<1>. DEFINE b == proc[q].bound
<1>0. /\ \A s \in Bound : \A v : v # Nil => /\ Lasts(s, v) => Lasts(s, v)'
                                            /\ Replaced(s, v) => Replaced(s, v)'
      /\ \A s \in Bound : RemovedFrom(s) => RemovedFrom(s)'
  BY DEF Aside
<1>. USE DEF Aside
<1>1. AcquisitionTypeOK /\ ProcInv(q)
  BY DEF IInv
<1>2. job[q] \in Family /\ proc[q] \in Held /\ faults \in Nat /\ losses \in Nat
  BY <1>1 DEF AcquisitionTypeOK
<1>3. Deleted(q) => Deleted(q)'
  BY DEF Deleted
<1>4. proc[q].status = "idle" => proc'[q] = Fresh(q, "idle")' /\ Nowhere(q)'
  BY <1>1 DEF ProcInv, Fresh
<1>5. ASSUME proc[q].status = "running" PROVE RunningInv(q)'
  <2>1. RunningInv(q)
    BY <1>1, <1>5 DEF ProcInv
  <2>2. Plan(q)' = Plan(q)
    BY DEF Plan
  <2>3. proc[q].step <= Marks[job[q]].rename /\ proc[q].step > Marks[job[q]].stage => StageInv(q)'
    BY <2>1 DEF RunningInv, StageInv
  <2>4. ASSUME job[q] = "taiwan_mof" PROVE ReadingInv(q)'
    <3>1. ReadingInv(q) /\ proc[q].step \in Nat
      BY <2>1, <2>4, <1>2 DEF RunningInv, Held
    <3>2. /\ proc'[q] = proc[q] /\ coexisted \subseteq coexisted'
          /\ {"moenv", "taiwan_factory"} \subseteq Bound
      BY DEF Bound
    <3>3. ASSUME NEW s \in {"moenv", "taiwan_factory"}, b[s] # Nil
          PROVE  /\ Lasts(s, b[s]) => Lasts(s, b[s])'
                 /\ Replaced(s, b[s]) => Replaced(s, b[s])'
                 /\ RemovedFrom(s) => RemovedFrom(s)'
      <4>1. PICK v : v = b[s]
        OBVIOUS
      <4>2. v # Nil /\ s \in Bound /\ b'[s] = v
        BY <3>2, <3>3, <4>1
      <4>. HIDE DEF Aside
      <4>3. /\ Lasts(s, v) => Lasts(s, v)'
            /\ Replaced(s, v) => Replaced(s, v)'
            /\ RemovedFrom(s) => RemovedFrom(s)'
        BY <1>0, <4>2
      <4>. QED
        BY <4>1, <4>2, <4>3
    <3>. HIDE DEF Aside
    <3>. QED
      BY <3>1, <3>2, <3>3 DEF ReadingInv
  <2>. QED
    BY <2>1, <2>2, <2>3, <2>4, <1>3 DEF RunningInv
<1>6. proc[q].status \in Rollback => RollbackInv(q)'
  BY <1>1, <1>2 DEF ProcInv, RollbackInv
<1>7. proc[q].status = "raised" => RaisedInv(q)'
  BY <1>1, <1>2 DEF ProcInv, RaisedInv
<1>. QED
  BY <1>1, <1>3, <1>4, <1>5, <1>6, <1>7 DEF ProcInv

\* A step of p that leaves the names alone, or settles them, and works in its own stage only.
Private(p) ==
  /\ UNCHANGED <<job, entry, published, removed, losses>> /\ faults' \in Nat /\ faults' >= faults
  /\ disk' \in [Family -> SUBSET (Inode \cup {Nil})]
  /\ \A f \in Family : disk'[f] \subseteq disk[f] /\ entry[f] \in disk'[f]
  /\ tree' \in [Inode -> Tree \cup {Nil}] /\ \A i \in Inode \ {p} : tree'[i] = tree[i]
  /\ \A f \in Family : p \in disk'[f] => tree'[p] = tree[p]
  /\ tree'[p] # Nil /\ tree'[p].touched => faults' > 0
  /\ proc' \in [Process -> Held] /\ \A q \in Process \ {p} : proc'[q] = proc[q]

LEMMA PrivateStep ==
  ASSUME IInv, NEW p \in Process, Private(p), Remembered
  PROVE  /\ AcquisitionTypeOK' /\ DiskInv' /\ Sources' = Sources /\ Sources \in coexisted'
         /\ coexisted \subseteq coexisted'
         /\ \A q \in Process \ {p} : ProcInv(q)'
<1>. USE DEF Private
<1>1. AcquisitionTypeOK /\ DiskInv
  BY DEF IInv
<1>2. AcquisitionTypeOK'
  BY <1>1 DEF AcquisitionTypeOK
<1>3. ASSUME NEW f \in Family, NEW i \in disk'[f] \ {Nil} PROVE tree'[i] = tree[i] /\ i \in Inode
  BY <1>1 DEF AcquisitionTypeOK
<1>4. Sources' = Sources
  <2>1. ASSUME NEW s \in Bound, entry[s] # Nil PROVE tree'[entry[s]] = tree[entry[s]]
    BY <2>1, <1>3 DEF Bound, Family
  <2>. QED
    BY <2>1 DEF Sources
<1>5. coexisted \subseteq coexisted' /\ Sources \in coexisted'
  BY <1>1, <1>4 DEF Remembered, DiskInv
<1>6. Acquired' = Acquired
  BY DEF Acquired
<1>7. DiskInv'
  <2>1. \A f \in Family : entry'[f] \in disk'[f]
    OBVIOUS
  <2>2. ASSUME NEW f \in Family, NEW i \in disk'[f] \ {Nil} PROVE Whole(f, i)'
    <3>1. Whole(f, i) /\ tree'[i] = tree[i]
      BY <1>1, <1>3 DEF DiskInv
    <3>. QED
      BY <3>1, <1>5 DEF Whole, Versions
  <2>3. \A i, j \in removed' : i = j
    BY <1>1 DEF DiskInv
  <2>4. \A i \in Inode : tree'[i] # Nil /\ tree'[i].touched => faults' > 0
    BY <1>1 DEF DiskInv, AcquisitionTypeOK
  <2>5. ASSUME NEW s \in Bound \ Acquired
        PROVE  entry'[s] \in {s, Nil} /\ (entry'[s] = s => tree'[s].versions = {published'[s]})
    <3>1. s \in Inode \ {p}
      BY AcquisitionAssumption DEF Bound, Inode, Family
    <3>. QED
      BY <3>1, <1>1 DEF DiskInv
  <2>. QED
    BY <2>1, <2>2, <2>3, <2>4, <2>5, <1>4, <1>5, <1>6 DEF DiskInv
<1>8. ASSUME NEW q \in Process \ {p} PROVE ProcInv(q)'
  <2>1. tree'[q] = tree[q] /\ losses' \in Nat /\ losses' >= losses
    BY <1>1 DEF Inode, AcquisitionTypeOK
  <2>2. Nowhere(q) => Nowhere(q)'
    BY DEF Nowhere
  <2>3. disk[job[q]] = {q} => disk'[job[q]] = {q}
    <3>1. job[q] \in Family
      BY <1>1 DEF AcquisitionTypeOK
    <3>. QED
      BY <3>1
  <2>4. \A s \in Bound : \A v : /\ Lasts(s, v) => Lasts(s, v)'
                                /\ Replaced(s, v) => Replaced(s, v)'
                                /\ RemovedFrom(s) => RemovedFrom(s)'
    BY <1>4, <1>6 DEF Lasts, Replaced, RemovedFrom
  <2>5. Aside(q)
    BY <2>1, <2>2, <2>3, <2>4, <1>5 DEF Aside
  <2>. QED
    BY <2>5, OthersStay
<1>. QED
  BY <1>2, <1>4, <1>5, <1>7, <1>8

-----------------------------------------------------------------------------
(* The steps of a process itself. *)

LEMMA ToTyped ==
  ASSUME AcquisitionTypeOK, NEW p \in Process, NEW status \in Status, To(p, status)
  PROVE  /\ proc' \in [Process -> Held] /\ proc'[p] = Fresh(p, status)
         /\ \A q \in Process \ {p} : proc'[q] = proc[q]
BY FreshTyped DEF To, AcquisitionTypeOK

LEMMA AdvanceTyped ==
  ASSUME AcquisitionTypeOK, NEW p \in Process, NEW held \in Held, Advance(p, held)
  PROVE  /\ proc' \in [Process -> Held]
         /\ \A q \in Process \ {p} : proc'[q] = proc[q]
         /\ proc[p].step = Len(Plan(p)) => proc'[p] = Fresh(p, "done")
         /\ proc[p].step # Len(Plan(p)) => proc'[p] = [held EXCEPT !.step = @ + 1]
<1>1. Fresh(p, "done") \in Held
  BY FreshTyped DEF Status
<1>2. [held EXCEPT !.step = @ + 1] \in Held
  BY DEF Held
<1>. QED
  BY <1>1, <1>2 DEF Advance, AcquisitionTypeOK

\* The place of the next step, next to a mark.
LEMMA OneLater == \A n, m \in Nat : (n + 1 > m => n >= m) /\ (n + 1 <= m => n < m)
OBVIOUS

\* What a process knows after it went on with its plan.
LEMMA AdvanceInv ==
  ASSUME AcquisitionTypeOK, NEW p \in Process, ProcInv(p), NEW s, At(p, s), UNCHANGED job,
         NEW held \in Held, held.status = "running", held.step = proc[p].step, Advance(p, held),
         entry'[job[p]] \in disk'[job[p]], p # Nil,
         LET k == Marks[job[p]]  n == proc[p].step IN
           /\ n >= k.got => \E v \in Versions(job[p]) : held.got = {v}
           /\ n < k.rename => Nowhere(p)'
           /\ n >= k.rename => entry'[job[p]] = p \/ Deleted(p)'
           /\ n >= k.parent => disk'[job[p]] = {p} \/ Deleted(p)',
         proc'[p] = [held EXCEPT !.step = @ + 1] =>
           /\ job[p] = "taiwan_mof" => ReadingInv(p)'
           /\ proc[p].step >= Marks[job[p]].stage /\ proc[p].step < Marks[job[p]].rename =>
                StageInv(p)'
  PROVE  ProcInv(p)'
<1>. DEFINE k == Marks[job[p]]  n == proc[p].step
<1>1. /\ job[p] \in Family /\ n \in Nat /\ n <= Len(Plan(p)) /\ Ordered(job[p], k)
      /\ Turns(job[p], k, s, n)
  BY Place
<1>2. Plan(p)' = Plan(p) /\ Len(Plan(p)) \in Nat
  <2>1. Len(Plan(p)) \in Nat
    BY <1>1, PlanLengths DEF Plan
  <2>. QED
    BY <2>1 DEF Plan
<1>3. CASE n = Len(Plan(p))
  <2>1. proc'[p] = Fresh(p, "done") /\ proc'[p].status = "done"
    BY <1>3, AdvanceTyped, FreshTyped DEF Status
  <2>2. n >= k.parent
    BY <1>1, <1>3, PlanLengths DEF Plan
  <2>3. n >= k.rename
    BY <2>2, <1>1 DEF Ordered
  <2>4. (entry'[job[p]] = p /\ disk'[job[p]] = {p}) \/ Deleted(p)'
    BY <2>2, <2>3
  <2>. QED
    BY <2>1, <2>4 DEF ProcInv, Rollback
<1>4. CASE n # Len(Plan(p))
  <2>1. proc'[p] = [held EXCEPT !.step = @ + 1]
    BY <1>4, AdvanceTyped
  <2>2. /\ proc'[p].status = "running" /\ proc'[p].step = n + 1
        /\ proc'[p].got = held.got
    BY <2>1 DEF Held
  <2>3. n + 1 \in 1..Len(Plan(p))
    BY <1>1, <1>2, <1>4
  <2>4. k.got \in Nat /\ k.rename \in Nat /\ k.stage \in Nat /\ k.parent \in Nat
    BY <1>1 DEF Ordered
  <2>5. /\ n + 1 > k.got => n >= k.got
        /\ n + 1 <= k.rename => n < k.rename
        /\ n + 1 > k.stage => n >= k.stage
        /\ n + 1 > k.rename => n >= k.rename
        /\ n + 1 > k.parent => n >= k.parent
    <3>. HIDE DEF k, n
    <3>. QED
      BY <1>1, <2>4, OneLater, Zenon
  <2>6. /\ n + 1 > k.got => \E v \in Versions(job[p]) : proc'[p].got = {v}
        /\ job[p] = "taiwan_mof" => ReadingInv(p)'
        /\ n + 1 <= k.rename => Nowhere(p)'
        /\ n + 1 > k.stage /\ n + 1 <= k.rename => StageInv(p)'
        /\ n + 1 > k.rename => entry'[job[p]] = p \/ Deleted(p)'
        /\ n + 1 > k.parent => disk'[job[p]] = {p} \/ Deleted(p)'
    BY <2>1, <2>2, <2>5
  <2>7. RunningInv(p)'
    BY <1>2, <2>2, <2>3, <2>6 DEF RunningInv, Versions
  <2>. QED
    BY <2>2, <2>7 DEF ProcInv, Rollback
<1>. QED
  BY <1>3, <1>4

\* A check that failed, or an operation: the stage is removed, unless it was installed.
LEMMA RaiseInv ==
  ASSUME IInv, NEW p \in Process, NEW s, At(p, s), Raise(p),
         job[p] = "taiwan_mof" => proc[p].step <= Marks["taiwan_mof"].rename,
         UNCHANGED <<job, names, published, removed, losses>>,
         faults' \in Nat, faults' >= faults, Remembered
  PROVE  IInv'
<1>. DEFINE k == Marks[job[p]]  n == proc[p].step
<1>1. AcquisitionTypeOK /\ DiskInv /\ ProcInv(p)
  BY DEF IInv
<1>2. RunningInv(p) /\ job[p] \in Family /\ n \in Nat /\ k.rename \in Nat
  BY <1>1, Place DEF Ordered
<1>3. p \in Inode /\ p # Nil /\ "raised" \in Status
  BY AcquisitionAssumption DEF Inode, Status
<1>4. proc' \in [Process -> Held] /\ proc'[p] = Fresh(p, "raised") /\ proc'[p].status = "raised"
      /\ \A q \in Process \ {p} : proc'[q] = proc[q]
  BY <1>1, <1>3, ToTyped, FreshTyped DEF Raise
<1>5. UNCHANGED <<entry, disk>> /\ \A f \in Family : entry[f] \in disk'[f]
  BY <1>1 DEF names, DiskInv
<1>6. entry[job[p]] # p => Nowhere(p)
  BY <1>2 DEF RunningInv, Deleted
<1>7. /\ tree' \in [Inode -> Tree \cup {Nil}] /\ \A i \in Inode \ {p} : tree'[i] = tree[i]
      /\ tree'[p] = IF entry[job[p]] = p THEN tree[p] ELSE Nil
  BY <1>1, <1>3 DEF Raise, AcquisitionTypeOK
<1>8. \A f \in Family : p \in disk'[f] => tree'[p] = tree[p]
  BY <1>5, <1>6, <1>7 DEF Nowhere
<1>9. tree'[p] # Nil /\ tree'[p].touched => faults' > 0
  BY <1>1, <1>3, <1>7 DEF DiskInv, AcquisitionTypeOK
<1>10. job[p] = "taiwan_mof" => entry[job[p]] # p
  BY <1>1, <1>2 DEF RunningInv, Nowhere, DiskInv
<1>11. RaisedInv(p)'
  BY <1>5, <1>7, <1>10 DEF RaisedInv
<1>12. ProcInv(p)'
  BY <1>4, <1>11 DEF ProcInv, Rollback
<1>13. /\ disk' \in [Family -> SUBSET (Inode \cup {Nil})]
       /\ \A f \in Family : disk'[f] \subseteq disk[f]
  BY <1>1, <1>5 DEF AcquisitionTypeOK
<1>14. AcquisitionTypeOK' /\ DiskInv' /\ \A q \in Process \ {p} : ProcInv(q)'
  <2>1. Private(p)
    BY <1>4, <1>5, <1>7, <1>8, <1>9, <1>13 DEF Private
  <2>. QED
    BY <2>1, PrivateStep
<1>. QED
  BY <1>12, <1>14 DEF IInv

\* A step that changes only what the process holds.
LEMMA QuietAdvance ==
  ASSUME IInv, NEW p \in Process, NEW s, At(p, s),
         s \notin Writes \cup Syncs \cup {"stage", "rename", "sync_parent"},
         NEW held \in Held, held.status = "running", held.step = proc[p].step, Advance(p, held),
         UNCHANGED <<tree, names, world>>, Remembered,
         LET k == Marks[job[p]]  n == proc[p].step IN
           /\ n >= k.got => \E v \in Versions(job[p]) : held.got = {v}
           /\ n > k.first => held.got = proc[p].got /\ held.bound = proc[p].bound,
         proc'[p] = [held EXCEPT !.step = @ + 1] /\ job[p] = "taiwan_mof" => ReadingInv(p)'
  PROVE  IInv'
<1>. DEFINE k == Marks[job[p]]  n == proc[p].step
<1>1. AcquisitionTypeOK /\ DiskInv /\ ProcInv(p)
  BY DEF IInv
<1>2. /\ RunningInv(p) /\ job[p] \in Family /\ n \in Nat /\ Ordered(job[p], k)
      /\ Turns(job[p], k, s, n)
  BY <1>1, Place
<1>3. p \in Inode /\ p # Nil
  BY AcquisitionAssumption DEF Inode
<1>4. UNCHANGED <<entry, disk, tree, job, published, removed, faults, losses>>
  BY DEF names, world
<1>5. /\ proc' \in [Process -> Held] /\ \A q \in Process \ {p} : proc'[q] = proc[q]
  BY <1>1, AdvanceTyped
<1>6. /\ tree' \in [Inode -> Tree \cup {Nil}]
      /\ disk' \in [Family -> SUBSET (Inode \cup {Nil})] /\ faults' \in Nat /\ faults' >= faults
      /\ \A f \in Family : entry[f] \in disk'[f]
      /\ tree'[p] # Nil /\ tree'[p].touched => faults' > 0
  BY <1>1, <1>3, <1>4 DEF AcquisitionTypeOK, DiskInv
<1>7. AcquisitionTypeOK' /\ DiskInv' /\ \A q \in Process \ {p} : ProcInv(q)'
  <2>1. Private(p)
    BY <1>4, <1>5, <1>6 DEF Private
  <2>. QED
    BY <2>1, PrivateStep
<1>8. /\ n # k.stage /\ n # k.rename /\ n # k.parent /\ n # k.first /\ n # k.synced
      /\ k.stage \in Nat /\ k.rename \in Nat /\ k.parent \in Nat /\ k.first \in Nat /\ k.synced \in Nat
  BY <1>2 DEF Ordered, Turns
<1>9. \A x \in Part : n # k.written[x] /\ n # k.safe[x] /\ k.written[x] \in Nat /\ k.safe[x] \in Nat
  BY <1>2 DEF Ordered, Turns, Writes, Syncs
<1>10. Deleted(p)' = Deleted(p) /\ Nowhere(p)' = Nowhere(p)
  BY <1>4 DEF Deleted, Nowhere
<1>11. ASSUME proc'[p] = [held EXCEPT !.step = @ + 1], n >= k.stage, n < k.rename
       PROVE  StageInv(p)'
  <2>1. /\ proc'[p].step = n + 1 /\ proc'[p].got = held.got
        /\ proc'[p].bound = held.bound
    BY <1>11 DEF Held
  <2>2. StageInv(p)
    BY <1>2, <1>8, <1>11 DEF RunningInv
  <2>. QED
    BY <1>2, <1>4, <1>8, <1>9, <2>1, <2>2 DEF StageInv
<1>12. /\ n < k.rename => Nowhere(p)'
       /\ n >= k.rename => entry'[job[p]] = p \/ Deleted(p)'
       /\ n >= k.parent => disk'[job[p]] = {p} \/ Deleted(p)'
  BY <1>2, <1>4, <1>8, <1>10 DEF RunningInv
<1>13. ProcInv(p)'
  BY <1>1, <1>2, <1>3, <1>4, <1>6, <1>11, <1>12, AdvanceInv
<1>. QED
  BY <1>7, <1>13 DEF IInv

\* A step after which the process holds what it held.
LEMMA UnchangedAdvance ==
  ASSUME IInv, NEW p \in Process, NEW s \in {"absent", "reverify", "identity"}, At(p, s),
         Advance(p, proc[p]), UNCHANGED <<tree, names, world>>, Remembered
  PROVE  IInv'
<1>. DEFINE k == Marks[job[p]]  n == proc[p].step  b == proc[p].bound
<1>1. AcquisitionTypeOK /\ DiskInv /\ ProcInv(p)
  BY DEF IInv
<1>2. /\ RunningInv(p) /\ job[p] \in Family /\ n \in Nat /\ Ordered(job[p], k)
      /\ Turns(job[p], k, s, n) /\ proc[p] \in Held /\ proc[p].status = "running"
  BY <1>1, Place
<1>3. s \notin Writes \cup Syncs \cup {"stage", "rename", "sync_parent", "download"}
  BY DEF Writes, Syncs, Part
<1>4. n >= k.got => \E v \in Versions(job[p]) : proc[p].got = {v}
  <2>1. n # k.got /\ k.got \in Nat
    BY <1>2, <1>3 DEF Turns, Ordered, Writes
  <2>. QED
    BY <1>2, <2>1 DEF RunningInv
<1>5. ASSUME proc'[p] = [proc[p] EXCEPT !.step = @ + 1], job[p] = "taiwan_mof"
      PROVE  ReadingInv(p)'
  <2>1. proc'[p].step = n + 1 /\ proc'[p].bound = b
    BY <1>2, <1>5 DEF Held
  <2>2. n \notin {3, 4, 5, 6}
    BY <1>2, <1>5 DEF Turns
  <2>3. ReadingInv(p)
    BY <1>2, <1>5 DEF RunningInv
  <2>4. b \in coexisted => b \in coexisted'
    BY DEF Remembered
  <2>. QED
    BY <1>2, <2>1, <2>2, <2>3, <2>4 DEF ReadingInv
<1>. QED
  BY <1>2, <1>3, <1>4, <1>5, QuietAdvance

LEMMA CheckAbsentInv ==
  ASSUME IInv, NEW p \in Process, CheckAbsent(p), Remembered
  PROVE  IInv'
<1>1. CASE entry[job[p]] = Nil
  BY <1>1, UnchangedAdvance DEF CheckAbsent, Check
<1>2. CASE entry[job[p]] # Nil
  <2>1. AcquisitionTypeOK /\ ProcInv(p) /\ At(p, "absent") /\ Raise(p)
    BY <1>2 DEF IInv, CheckAbsent, Check
  <2>2. proc[p].step <= Marks[job[p]].rename
    BY <2>1, Place DEF Turns, Last, Ordered
  <2>3. UNCHANGED <<job, names, published, removed, losses, faults>> /\ faults \in Nat
    BY <2>1 DEF CheckAbsent, world, AcquisitionTypeOK
  <2>. QED
    BY <2>1, <2>2, <2>3, RaiseInv
<1>. QED
  BY <1>1, <1>2

LEMMA ReverifyInv ==
  ASSUME IInv, NEW p \in Process, Reverify(p), Remembered
  PROVE  IInv'
<1>1. CASE Valid(entry[job[p]])
  BY <1>1, UnchangedAdvance DEF Reverify, Check
<1>2. CASE ~Valid(entry[job[p]])
  <2>1. AcquisitionTypeOK /\ ProcInv(p) /\ At(p, "reverify") /\ Raise(p)
    BY <1>2 DEF IInv, Reverify, Check
  <2>2. job[p] # "taiwan_mof"
    BY <2>1, Place DEF Turns
  <2>3. UNCHANGED <<job, names, published, removed, losses, faults>> /\ faults \in Nat
    BY <2>1 DEF Reverify, world, AcquisitionTypeOK
  <2>. QED
    BY <2>1, <2>2, <2>3, RaiseInv
<1>. QED
  BY <1>1, <1>2

LEMMA DownloadInv ==
  ASSUME IInv, NEW p \in Process, Download(p), Remembered
  PROVE  IInv'
<1>. DEFINE k == Marks[job[p]]  n == proc[p].step
            held == [proc[p] EXCEPT !.got = {published[job[p]]}]
<1>1. AcquisitionTypeOK /\ DiskInv /\ ProcInv(p) /\ At(p, "download")
  BY DEF IInv, Download
<1>2. /\ RunningInv(p) /\ job[p] \in Family /\ n \in Nat /\ Ordered(job[p], k)
      /\ Turns(job[p], k, "download", n) /\ proc[p] \in Held /\ proc[p].status = "running"
  BY <1>1, Place
<1>3. published[job[p]] \in Nat /\ published[job[p]] \in Versions(job[p])
  BY <1>1, <1>2 DEF AcquisitionTypeOK
<1>4. /\ held \in Held /\ held.status = "running" /\ held.step = n
      /\ held.got = {published[job[p]]} /\ held.bound = proc[p].bound
  BY <1>2, <1>3 DEF Held
<1>5. n < k.first /\ k.first \in Nat
  BY <1>2 DEF Turns, Ordered
<1>6. ASSUME proc'[p] = [held EXCEPT !.step = @ + 1], job[p] = "taiwan_mof"
      PROVE  ReadingInv(p)'
  <2>1. proc'[p].step = n + 1 /\ n = k.got
    BY <1>2, <1>4, <1>6 DEF Held, Turns
  <2>2. k.got = 2
    BY <1>6 DEF Marks
  <2>. QED
    BY <2>1, <2>2 DEF ReadingInv
<1>7. Advance(p, held) /\ UNCHANGED <<tree, names, world>>
  BY DEF Download
<1>8. "download" \notin Writes \cup Syncs \cup {"stage", "rename", "sync_parent"}
  BY DEF Writes, Syncs, Part
<1>9. ~(n > k.first) /\ \E v \in Versions(job[p]) : held.got = {v}
  BY <1>2, <1>3, <1>4, <1>5
<1>. HIDE DEF held
<1>. QED
  BY <1>1, <1>4, <1>6, <1>7, <1>8, <1>9, QuietAdvance

\* What a source snapshot in place looks like.
LEMMA SourceInPlace ==
  ASSUME AcquisitionTypeOK, DiskInv, NEW s \in Bound, entry[s] # Nil
  PROVE  /\ Sources[s] = tree[entry[s]].versions /\ Sources[s] # Nil /\ Sources[s] \in SUBSET Nat
         /\ ~Replaced(s, Sources[s])
<1>1. s \in Family /\ entry[s] \in disk[s] \ {Nil}
  BY DEF Bound, Family, DiskInv
<1>2. PICK v \in 0..MaxArchives : tree[entry[s]].versions = {v}
  BY <1>1 DEF DiskInv, Whole, Versions
<1>3. v \in Nat /\ {v} # Nil
  BY AcquisitionAssumption, NilAssumption
<1>4. Sources[s] = {v}
  BY <1>2 DEF Sources
<1>5. ~Replaced(s, Sources[s])
  <2>. SUFFICES ASSUME s \notin Acquired, NEW m \in Nat, {v} = {m}, m < published[s] PROVE FALSE
    BY <1>4 DEF Replaced
  <2>1. tree[entry[s]].versions = {published[s]}
    BY <1>1 DEF DiskInv
  <2>2. published[s] \in Nat
    BY <1>1 DEF AcquisitionTypeOK
  <2>. QED
    BY <1>2, <2>1, <2>2
<1>. QED
  BY <1>2, <1>3, <1>4, <1>5

LEMMA OneRemoved ==
  ASSUME DiskInv, job \in [Process -> Family], RemovedFrom("moenv"), RemovedFrom("taiwan_factory")
  PROVE  FALSE
BY AcquisitionAssumption DEF RemovedFrom, DiskInv, Family

\* Both source snapshots are read, in turns, until it is sure that they were in place together.
LEMMA ReadingGoesOn ==
  ASSUME AcquisitionTypeOK, DiskInv, NEW p \in Process, ReadingInv(p), NEW s \in Bound, entry[s] # Nil,
         proc[p].bound[s] \in {Nil, Sources[s]},
         NEW n \in Nat, n = proc[p].step,
         n = 3 \/ n = 5 => s = "moenv", n = 4 \/ n = 6 => s = "taiwan_factory",
         proc' \in [Process -> Held], proc'[p].step = n + 1,
         proc'[p].bound = [proc[p].bound EXCEPT ![s] = Sources[s]],
         UNCHANGED <<tree, entry, removed, published, job>>, Remembered
  PROVE  ReadingInv(p)'
<1>. DEFINE b == proc[p].bound  c == proc'[p].bound  m == "moenv"  f == "taiwan_factory"
<1>1. b \in [Bound -> {Nil} \cup SUBSET Nat] /\ c \in [Bound -> {Nil} \cup SUBSET Nat]
  BY DEF AcquisitionTypeOK, Held
<1>2. c[s] = Sources[s] /\ c[s] # Nil /\ ~Replaced(s, c[s])
  BY <1>1, SourceInPlace
<1>3. \A r \in Bound \ {s} : c[r] = b[r]
  BY <1>1
<1>4. m \in Bound /\ f \in Bound /\ m # f
  BY DEF Bound
<1>5. b[s] # Nil => c = b
  BY <1>1, <1>2
<1>6. c[m] = Sources[m] /\ c[f] = Sources[f] => c = Sources
  BY <1>1 DEF Bound, Sources
<1>7. Sources \in coexisted /\ coexisted \subseteq coexisted'
  BY DEF DiskInv, Remembered
<1>8. Sources' = Sources
  BY DEF Sources
<1>9. \A r, v : /\ Lasts(r, v)' = Lasts(r, v) /\ RemovedFrom(r)' = RemovedFrom(r)
                /\ Replaced(r, v)' = Replaced(r, v)
  BY <1>8 DEF Lasts, RemovedFrom, Replaced, Acquired
<1>10. /\ n > 3 => b[m] # Nil
       /\ n > 4 => b[f] # Nil
       /\ n = 4 => Lasts(m, b[m])
       /\ n = 5 => Lasts(f, b[f]) /\ (b \in coexisted \/ RemovedFrom(m) \/ Replaced(m, b[m]))
       /\ n = 6 => b \in coexisted \/ Replaced(f, b[f])
       /\ n > 6 => b \in coexisted
  BY DEF ReadingInv
<1>11. CASE n < 3
  BY <1>11 DEF ReadingInv
<1>12. CASE n = 3
  BY <1>2, <1>9, <1>12 DEF ReadingInv, Lasts
<1>13. CASE n = 4
  <2>1. s = f /\ c[m] = b[m]
    BY <1>3, <1>4, <1>13
  <2>2. c \in coexisted' \/ RemovedFrom(m) \/ Replaced(m, c[m])
    BY <1>2, <1>6, <1>7, <1>10, <1>13, <2>1 DEF Lasts
  <2>. QED
    BY <1>2, <1>9, <1>10, <1>13, <2>1, <2>2 DEF ReadingInv, Lasts
<1>14. CASE n = 5
  <2>1. s = m /\ c = b
    BY <1>5, <1>10, <1>14
  <2>2. b \in coexisted \/ RemovedFrom(m)
    BY <1>2, <1>10, <1>14, <2>1
  <2>3. RemovedFrom(m) => Sources[f] = b[f] \/ Replaced(f, b[f])
    BY <1>10, <1>14, OneRemoved DEF Lasts, AcquisitionTypeOK
  <2>4. c \in coexisted' \/ Replaced(f, c[f])
    BY <1>2, <1>6, <1>7, <2>1, <2>2, <2>3
  <2>. QED
    BY <1>9, <1>10, <1>14, <2>1, <2>4 DEF ReadingInv
<1>15. CASE n = 6
  <2>1. s = f /\ c = b
    BY <1>5, <1>10, <1>15
  <2>2. c \in coexisted'
    BY <1>2, <1>7, <1>10, <1>15, <2>1
  <2>. QED
    BY <1>10, <1>15, <2>1, <2>2 DEF ReadingInv
<1>16. CASE n > 6
  <2>1. c = b
    BY <1>5, <1>10, <1>16 DEF Bound
  <2>. QED
    BY <1>7, <1>10, <1>16, <2>1 DEF ReadingInv
<1>. QED
  BY <1>11, <1>12, <1>13, <1>14, <1>15, <1>16

LEMMA ReadSourceInv ==
  ASSUME IInv, NEW p \in Process, NEW s \in Bound, ReadSource(p, s), Remembered
  PROVE  IInv'
<1>. DEFINE k == Marks[job[p]]  n == proc[p].step
            held == [proc[p] EXCEPT !.bound[s] = Sources[s]]
<1>1. AcquisitionTypeOK /\ DiskInv /\ ProcInv(p) /\ At(p, s)
  BY DEF IInv, ReadSource
<1>2. /\ RunningInv(p) /\ job[p] \in Family /\ n \in Nat /\ Ordered(job[p], k)
      /\ Turns(job[p], k, s, n) /\ proc[p] \in Held /\ proc[p].status = "running"
  BY <1>1, Place
<1>3. s \notin Writes \cup Syncs \cup {"stage", "rename", "sync_parent", "download"} \cup Last
  BY DEF Writes, Syncs, Part, Last, Bound
<1>4. job[p] = "taiwan_mof" /\ ReadingInv(p)
  BY <1>2 DEF Turns, RunningInv
<1>5. UNCHANGED <<names, world>> /\ UNCHANGED <<entry, disk, job, published, removed, losses, faults>>
  BY DEF ReadSource, names, world
<1>6. CASE Valid(entry[s]) /\ proc[p].bound[s] \in {Nil, Sources[s]}
  <2>1. Advance(p, held) /\ UNCHANGED tree /\ entry[s] # Nil
    BY <1>6 DEF ReadSource, Check, Valid
  <2>2. held.bound = [proc[p].bound EXCEPT ![s] = Sources[s]] /\ held.got = proc[p].got
        /\ held.step = n /\ held.status = "running"
    BY <1>2 DEF Held
  <2>3. held \in Held
    <3>1. Sources[s] \in SUBSET Nat
      BY <1>1, <2>1, SourceInPlace
    <3>. QED
      BY <1>2, <3>1 DEF Held
  <2>4. n >= k.got => \E v \in Versions(job[p]) : held.got = {v}
    <3>1. n # k.got /\ k.got \in Nat
      BY <1>2, <1>3 DEF Turns, Ordered, Writes
    <3>. QED
      BY <1>2, <2>2, <3>1 DEF RunningInv
  <2>5. n > k.first => held.bound = proc[p].bound
    <3>1. n > k.first => n > 6
      BY <1>2, <1>4 DEF Marks
    <3>2. n > 6 => proc[p].bound[s] # Nil
      BY <1>2, <1>4 DEF ReadingInv, Bound
    <3>3. proc[p].bound \in [Bound -> {Nil} \cup SUBSET Nat]
      BY <1>2 DEF Held
    <3>. QED
      BY <1>6, <2>2, <3>1, <3>2, <3>3
  <2>6. ASSUME proc'[p] = [held EXCEPT !.step = @ + 1]
        PROVE  ReadingInv(p)'
    <3>1. proc'[p].step = n + 1 /\ proc'[p].bound = held.bound
      BY <2>2, <2>3, <2>6 DEF Held
    <3>2. proc' \in [Process -> Held]
      BY <1>1, <2>1, <2>3, AdvanceTyped
    <3>3. (n = 3 \/ n = 5 => s = "moenv") /\ (n = 4 \/ n = 6 => s = "taiwan_factory")
      BY <1>2, <1>4 DEF Turns
    <3>. HIDE DEF held
    <3>. QED
      BY <1>1, <1>2, <1>4, <1>5, <1>6, <2>1, <2>2, <3>1, <3>2, <3>3, ReadingGoesOn
  <2>. HIDE DEF held
  <2>. QED
    BY <1>1, <1>3, <1>5, <2>1, <2>2, <2>3, <2>4, <2>5, <2>6, QuietAdvance
<1>7. CASE ~(Valid(entry[s]) /\ proc[p].bound[s] \in {Nil, Sources[s]})
  <2>1. Raise(p)
    BY <1>7 DEF ReadSource, Check
  <2>2. n <= k.rename
    BY <1>2, <1>3 DEF Turns, Ordered
  <2>3. faults \in Nat
    BY <1>1 DEF AcquisitionTypeOK
  <2>. QED
    BY <1>1, <1>4, <1>5, <2>1, <2>2, <2>3, RaiseInv
<1>. QED
  BY <1>6, <1>7

-----------------------------------------------------------------------------
(* The steps that fill a stage. *)

\* Before the rename a process is alone with its stage.
LEMMA StageStep ==
  ASSUME IInv, NEW p \in Process, RunningInv(p), job[p] \in Family,
         proc[p].step <= Marks[job[p]].rename,
         NEW d \in Tree \cup {Nil}, tree' = [tree EXCEPT ![p] = d],
         d # Nil /\ d.touched => tree[p] # Nil /\ tree[p].touched,
         UNCHANGED <<names, world>>, Remembered,
         proc' \in [Process -> Held], \A q \in Process \ {p} : proc'[q] = proc[q]
  PROVE  /\ AcquisitionTypeOK' /\ DiskInv' /\ Nowhere(p)' /\ tree'[p] = d
         /\ p # Nil /\ entry'[job[p]] \in disk'[job[p]]
         /\ \A q \in Process \ {p} : ProcInv(q)'
<1>1. AcquisitionTypeOK /\ DiskInv
  BY DEF IInv
<1>2. p \in Inode /\ p # Nil
  BY AcquisitionAssumption DEF Inode
<1>3. Nowhere(p)
  BY DEF RunningInv
<1>4. UNCHANGED <<entry, disk, job, published, removed, faults, losses>>
  BY DEF names, world
<1>5. /\ tree' \in [Inode -> Tree \cup {Nil}] /\ tree'[p] = d
      /\ \A i \in Inode \ {p} : tree'[i] = tree[i]
  BY <1>1, <1>2 DEF AcquisitionTypeOK
<1>6. /\ disk' \in [Family -> SUBSET (Inode \cup {Nil})] /\ faults' \in Nat /\ faults' >= faults
      /\ \A f \in Family : disk'[f] \subseteq disk[f] /\ entry[f] \in disk'[f]
      /\ tree'[p] # Nil /\ tree'[p].touched => faults' > 0
  BY <1>1, <1>2, <1>4, <1>5 DEF AcquisitionTypeOK, DiskInv
<1>7. Nowhere(p)' /\ \A f \in Family : p \notin disk'[f]
  BY <1>3, <1>4 DEF Nowhere
<1>8. AcquisitionTypeOK' /\ DiskInv' /\ \A q \in Process \ {p} : ProcInv(q)'
  <2>1. Private(p)
    BY <1>4, <1>5, <1>6, <1>7 DEF Private
  <2>. QED
    BY <2>1, PrivateStep
<1>. QED
  BY <1>2, <1>4, <1>5, <1>6, <1>7, <1>8

\* The place of a step that makes or fills a stage.
LEMMA StagePlace ==
  ASSUME NEW f, NEW k, NEW n \in Nat, NEW s \in Writes \cup Syncs \cup {"stage"},
         Ordered(f, k), Turns(f, k, s, n)
  PROVE  /\ s = "stage" \/ k.first <= n
         /\ n >= k.stage /\ n < k.rename /\ n < k.parent
<1>1. k.stage \in Nat /\ k.first \in Nat /\ k.rename \in Nat /\ k.parent \in Nat
      /\ k.stage < k.first /\ k.first < k.rename /\ k.rename < k.parent
  BY DEF Ordered
<1>2. CASE s = "stage"
  <2>1. n = k.stage
    BY <1>2 DEF Turns
  <2>. QED
    BY <1>1, <1>2, <2>1
<1>3. CASE s # "stage"
  <2>1. k.first <= n /\ n < k.rename
    BY <1>1, <1>3 DEF Turns
  <2>. QED
    BY <1>1, <2>1
<1>. QED
  BY <1>2, <1>3

\* The step of p with the label s leaves the stage d, which holds what the next one finds in it.
Fills(p, s, held, d) ==
  LET k == Marks[job[p]]  n == proc[p].step IN
    /\ At(p, s) /\ held.status = "running" /\ held.step = proc[p].step /\ Advance(p, held)
    /\ held.bound = proc[p].bound /\ (s # "fetch" => held.got = proc[p].got)
    /\ s = "fetch" => \E v \in Versions(job[p]) : held.got = {v}
    /\ tree' = [tree EXCEPT ![p] = d] /\ d # Nil
    /\ d.touched => tree[p] # Nil /\ tree[p].touched
    /\ UNCHANGED <<names, world>>
    /\ \A x \in Part : /\ n >= k.written[x] => x \in d.parts
                       /\ n >= k.safe[x] => x \in d.safe
    /\ n >= k.synced => "subdirectory" \in d.safe
    /\ n >= k.first => d.versions = held.got
    /\ n >= k.first /\ job[p] = "taiwan_mof" => d.bound = held.bound

LEMMA StageAdvance ==
  ASSUME IInv, NEW p \in Process, NEW s \in Writes \cup Syncs \cup {"stage"}, NEW held \in Held,
         NEW d \in Tree, Fills(p, s, held, d), Remembered
  PROVE  IInv'
<1>. DEFINE k == Marks[job[p]]  n == proc[p].step
<1>. USE DEF Fills
<1>1. AcquisitionTypeOK /\ DiskInv /\ ProcInv(p)
  BY DEF IInv
<1>2. /\ RunningInv(p) /\ job[p] \in Family /\ n \in Nat /\ Ordered(job[p], k)
      /\ Turns(job[p], k, s, n) /\ n <= Len(Plan(p))
  BY <1>1, Place
<1>3. /\ s \in {"stage"} \/ (k.first <= n /\ n < k.rename)
      /\ k.stage \in Nat /\ k.rename \in Nat /\ k.parent \in Nat /\ k.first \in Nat /\ k.got \in Nat
      /\ k.synced \in Nat
  <2>1. (s = "stage" \/ k.first <= n) /\ n < k.rename
    BY <1>2, StagePlace
  <2>. QED
    BY <1>2, <2>1 DEF Ordered
<1>4. n >= k.stage /\ n < k.rename /\ n < k.parent
  BY <1>2, StagePlace
<1>5. /\ proc' \in [Process -> Held] /\ \A q \in Process \ {p} : proc'[q] = proc[q]
  BY <1>1, AdvanceTyped
<1>6. /\ AcquisitionTypeOK' /\ DiskInv' /\ Nowhere(p)' /\ tree'[p] = d
      /\ p # Nil /\ entry'[job[p]] \in disk'[job[p]]
      /\ \A q \in Process \ {p} : ProcInv(q)'
  <2>1. n <= k.rename /\ d \in Tree \cup {Nil}
    BY <1>2, <1>3, <1>4
  <2>. QED
    BY <1>2, <1>5, <2>1, StageStep
<1>7. n >= k.got => \E v \in Versions(job[p]) : held.got = {v}
  <2>1. CASE s = "fetch"
    BY <2>1
  <2>2. CASE s # "fetch"
    <3>1. n # k.got
      BY <1>2, <2>2 DEF Turns, Writes, Syncs, Part
    <3>. QED
      BY <1>2, <1>3, <2>2, <3>1 DEF RunningInv
  <2>. QED
    BY <2>1, <2>2
<1>8. ASSUME proc'[p] = [held EXCEPT !.step = @ + 1]
      PROVE  /\ job[p] = "taiwan_mof" => ReadingInv(p)'
             /\ StageInv(p)'
  <2>1. proc'[p].step = n + 1 /\ proc'[p].bound = held.bound /\ proc'[p].got = held.got
    BY <1>8 DEF Held
  <2>2. StageInv(p)'
    <3>1. job' = job
      BY DEF world
    <3>2. \A x \in Part : k.written[x] \in Nat /\ k.safe[x] \in Nat
      BY <1>2 DEF Ordered
    <3>3. tree'[p] # Nil
      BY <1>6
    <3>4. ASSUME NEW x \in Part
          PROVE  /\ n + 1 > k.written[x] => x \in tree'[p].parts
                 /\ n + 1 > k.safe[x] => x \in tree'[p].safe
      BY <1>2, <1>6, <3>2
    <3>5. n + 1 > k.synced => "subdirectory" \in tree'[p].safe
      BY <1>2, <1>3, <1>6
    <3>6. n + 1 > k.first => tree'[p].versions = proc'[p].got
      BY <1>2, <1>3, <1>6, <2>1
    <3>7. n + 1 > k.first /\ job'[p] = "taiwan_mof" => tree'[p].bound = proc'[p].bound
      BY <1>2, <1>3, <1>6, <2>1, <3>1
    <3>. HIDE DEF k, n
    <3>8. Marks[job'[p]] = k /\ proc'[p].step = n + 1
      BY <2>1, <3>1 DEF k
    <3>. QED
      BY <3>3, <3>4, <3>5, <3>6, <3>7, <3>8 DEF StageInv
  <2>3. ASSUME job[p] = "taiwan_mof" PROVE ReadingInv(p)'
    <3>1. n > 6
      BY <1>2, <1>4, <2>3 DEF Marks
    <3>2. ReadingInv(p)
      BY <1>2, <2>3 DEF RunningInv
    <3>. QED
      BY <1>2, <2>1, <3>1, <3>2 DEF ReadingInv, Remembered
  <2>. QED
    BY <2>2, <2>3
<1>9. UNCHANGED job
  BY DEF world
<1>10. ~(n >= k.rename) /\ ~(n >= k.parent)
  BY <1>2, <1>3, <1>4
<1>11. ProcInv(p)'
  BY <1>1, <1>6, <1>7, <1>8, <1>9, <1>10, AdvanceInv
<1>. QED
  BY <1>6, <1>11 DEF IInv

LEMMA TreeFields ==
  ASSUME NEW d \in Tree
  PROVE  /\ d # Nil /\ d.parts \subseteq Part /\ d.safe \subseteq Part \cup {"subdirectory"}
         /\ d.versions \in SUBSET Nat /\ d.bound \in [Bound -> {Nil} \cup SUBSET Nat]
         /\ d.touched \in BOOLEAN
BY NilAssumption DEF Tree

LEMMA MakeStageInv ==
  ASSUME IInv, NEW p \in Process, MakeStage(p), Remembered
  PROVE  IInv'
<1>. DEFINE k == Marks[job[p]]  n == proc[p].step
<1>1. AcquisitionTypeOK /\ DiskInv /\ ProcInv(p) /\ At(p, "stage")
  BY DEF IInv, MakeStage
<1>2. /\ job[p] \in Family /\ n \in Nat /\ Ordered(job[p], k) /\ Turns(job[p], k, "stage", n)
      /\ proc[p] \in Held /\ proc[p].status = "running"
  BY <1>1, Place
<1>3. Empty \in Tree /\ Empty.touched = FALSE /\ Empty # Nil
  <2>1. Empty \in Tree /\ Empty.touched = FALSE
    BY DEF Empty, Tree, Unread
  <2>. QED
    BY <2>1, TreeFields
<1>4. /\ n < k.first /\ n < k.synced /\ k.first \in Nat /\ k.synced \in Nat
      /\ \A x \in Part : n < k.written[x] /\ n < k.safe[x] /\ k.written[x] \in Nat /\ k.safe[x] \in Nat
  BY <1>2 DEF Ordered, Turns
<1>5. Advance(p, proc[p]) /\ tree' = [tree EXCEPT ![p] = Empty] /\ UNCHANGED <<names, world>>
  BY DEF MakeStage
<1>6. /\ \A x \in Part : ~(n >= k.written[x]) /\ ~(n >= k.safe[x])
      /\ ~(n >= k.synced) /\ ~(n >= k.first)
  BY <1>2, <1>4
<1>7. "stage" \in Writes \cup Syncs \cup {"stage"} /\ "stage" # "fetch"
  OBVIOUS
<1>8. ~Empty.touched
  BY <1>3
<1>9. Fills(p, "stage", proc[p], Empty)
  BY <1>1, <1>2, <1>3, <1>5, <1>6, <1>7, <1>8 DEF Fills
<1>. QED
  BY <1>2, <1>3, <1>7, <1>9, StageAdvance

LEMMA WriteInv ==
  ASSUME IInv, NEW p \in Process, NEW s \in Part \cup {"files"}, Write(p, s), Remembered
  PROVE  IInv'
<1>. DEFINE k == Marks[job[p]]  n == proc[p].step
            d == [tree[p] EXCEPT !.parts = @ \cup (IF s = "files" THEN Part ELSE {s}),
                                 !.versions = proc[p].got, !.bound = proc[p].bound]
<1>1. AcquisitionTypeOK /\ DiskInv /\ ProcInv(p) /\ At(p, s)
  BY DEF IInv, Write
<1>2. /\ job[p] \in Family /\ n \in Nat /\ Ordered(job[p], k) /\ Turns(job[p], k, s, n)
      /\ proc[p] \in Held /\ proc[p].status = "running" /\ RunningInv(p)
  BY <1>1, Place
<1>3. s \in Writes /\ s # "fetch" /\ s \notin Syncs
  BY DEF Writes, Syncs, Part
<1>4. /\ k.first <= n /\ n < k.rename /\ k.stage < n /\ n # k.synced
      /\ k.first \in Nat /\ k.synced \in Nat
      /\ \A x \in Part : /\ k.written[x] \in Nat /\ k.safe[x] \in Nat /\ n # k.safe[x]
                         /\ n = k.written[x] => s \in {x, "files"}
  BY <1>2, <1>3 DEF Ordered, Turns, Syncs
<1>5. StageInv(p)
  BY <1>2, <1>4 DEF RunningInv, Ordered
<1>6. p \in Inode
  BY DEF Inode
<1>7. tree[p] \in Tree
  BY <1>1, <1>5, <1>6 DEF AcquisitionTypeOK, StageInv
<1>8. /\ d \in Tree /\ d.parts = tree[p].parts \cup (IF s = "files" THEN Part ELSE {s})
      /\ d.safe = tree[p].safe /\ d.versions = proc[p].got /\ d.bound = proc[p].bound
      /\ d.touched = tree[p].touched
  BY <1>2, <1>7 DEF Tree, Held
<1>9. tree' = [tree EXCEPT ![p] = d]
  BY <1>1, <1>6, <1>7 DEF Write, AcquisitionTypeOK, Tree
<1>10. ASSUME NEW x \in Part
       PROVE  (n >= k.written[x] => x \in d.parts) /\ (n >= k.safe[x] => x \in d.safe)
  BY <1>2, <1>4, <1>5, <1>8 DEF StageInv
<1>11. n >= k.synced => "subdirectory" \in d.safe
  BY <1>2, <1>4, <1>5, <1>8 DEF StageInv
<1>12. Advance(p, proc[p]) /\ UNCHANGED <<names, world>>
  BY DEF Write
<1>13. d # Nil /\ (d.touched => tree[p] # Nil /\ tree[p].touched)
  BY <1>7, <1>8, TreeFields
<1>. HIDE DEF d
<1>14. Fills(p, s, proc[p], d)
  BY <1>1, <1>2, <1>3, <1>8, <1>9, <1>10, <1>11, <1>12, <1>13 DEF Fills
<1>. QED
  BY <1>2, <1>3, <1>8, <1>14, StageAdvance

LEMMA SyncInv ==
  ASSUME IInv, NEW p \in Process, NEW s \in {"sync", "sync_all"}, Sync(p, s), Remembered
  PROVE  IInv'
<1>. DEFINE k == Marks[job[p]]  n == proc[p].step
            d == [tree[p] EXCEPT !.safe =
                    @ \cup {"subdirectory"} \cup
                    (IF s = "sync_all" THEN tree[p].parts ELSE tree[p].parts \ {"raw"})]
<1>1. AcquisitionTypeOK /\ DiskInv /\ ProcInv(p) /\ At(p, s)
  BY DEF IInv, Sync
<1>2. /\ job[p] \in Family /\ n \in Nat /\ Ordered(job[p], k) /\ Turns(job[p], k, s, n)
      /\ proc[p] \in Held /\ proc[p].status = "running" /\ RunningInv(p)
  BY <1>1, Place
<1>3. s \in Syncs /\ s # "fetch" /\ s \notin Writes
  BY DEF Writes, Syncs, Part
<1>4. /\ k.first < n /\ n < k.rename /\ k.stage < n /\ k.first \in Nat /\ k.synced \in Nat
      /\ \A x \in Part : /\ k.written[x] \in Nat /\ k.safe[x] \in Nat
                         /\ k.written[x] < k.safe[x] /\ n # k.written[x]
                         /\ n = k.safe[x] => s = "sync_all" \/ x # "raw"
  BY <1>2, <1>3 DEF Ordered, Turns, Writes
<1>5. StageInv(p)
  BY <1>2, <1>4 DEF RunningInv, Ordered
<1>6. p \in Inode
  BY DEF Inode
<1>7. tree[p] \in Tree
  BY <1>1, <1>5, <1>6 DEF AcquisitionTypeOK, StageInv
<1>8. /\ d \in Tree /\ d.parts = tree[p].parts
      /\ d.safe = tree[p].safe \cup {"subdirectory"} \cup
                  (IF s = "sync_all" THEN tree[p].parts ELSE tree[p].parts \ {"raw"})
      /\ d.versions = tree[p].versions /\ d.bound = tree[p].bound
      /\ d.touched = tree[p].touched
  BY <1>7 DEF Tree
<1>9. tree' = [tree EXCEPT ![p] = d]
  BY <1>1, <1>6, <1>7 DEF Sync, AcquisitionTypeOK, Tree
<1>10. ASSUME NEW x \in Part
       PROVE  (n >= k.written[x] => x \in d.parts) /\ (n >= k.safe[x] => x \in d.safe)
  BY <1>2, <1>4, <1>5, <1>8 DEF StageInv
<1>11. "subdirectory" \in d.safe
  BY <1>8
<1>12. d.versions = proc[p].got /\ (job[p] = "taiwan_mof" => d.bound = proc[p].bound)
  BY <1>2, <1>4, <1>5, <1>8 DEF StageInv
<1>13. Advance(p, proc[p]) /\ UNCHANGED <<names, world>>
  BY DEF Sync
<1>14. d # Nil /\ (d.touched => tree[p] # Nil /\ tree[p].touched)
  BY <1>7, <1>8, TreeFields
<1>. HIDE DEF d
<1>15. Fills(p, s, proc[p], d)
  BY <1>1, <1>2, <1>3, <1>8, <1>9, <1>10, <1>11, <1>12, <1>13, <1>14 DEF Fills
<1>. QED
  BY <1>2, <1>3, <1>8, <1>15, StageAdvance

-----------------------------------------------------------------------------
(* The responses of GLEIF, and the attempts. *)

LEMMA FetchPlace ==
  ASSUME IInv, NEW p \in Process, At(p, "fetch")
  PROVE  /\ AcquisitionTypeOK /\ DiskInv /\ ProcInv(p) /\ RunningInv(p) /\ StageInv(p)
         /\ job[p] = "gleif" /\ job[p] \in Family /\ proc[p] \in Held /\ proc[p].status = "running"
         /\ proc[p].step = 3 /\ {2, 3} \subseteq 1..Len(Plan(p)) /\ tree[p] \in Tree
<1>1. AcquisitionTypeOK /\ DiskInv /\ ProcInv(p)
  BY DEF IInv
<1>2. /\ RunningInv(p) /\ job[p] \in Family /\ proc[p] \in Held /\ proc[p].status = "running"
      /\ Turns(job[p], Marks[job[p]], "fetch", proc[p].step)
  BY <1>1, Place
<1>3. job[p] = "gleif" /\ proc[p].step = 3
  BY <1>2 DEF Turns, Writes
<1>4. StageInv(p)
  BY <1>2, <1>3 DEF RunningInv, Marks
<1>5. tree[p] \in Tree
  BY <1>1, <1>4 DEF AcquisitionTypeOK, StageInv, Inode
<1>6. {2, 3} \subseteq 1..Len(Plan(p))
  BY <1>3 DEF Plan, PlanOf, GLEIFPlan
<1>. QED
  BY <1>1, <1>2, <1>3, <1>4, <1>5, <1>6

LEMMA FetchInv ==
  ASSUME IInv, NEW p \in Process, Fetch(p), Remembered
  PROVE  IInv'
<1>. DEFINE k == Marks[job[p]]
            held == [proc[p] EXCEPT !.got = @ \cup {published["gleif"]}, !.asked = @ + 1]
            d == [tree[p] EXCEPT !.parts = {"raw"}, !.versions = held.got]
<1>1. /\ AcquisitionTypeOK /\ DiskInv /\ ProcInv(p) /\ RunningInv(p) /\ StageInv(p) /\ At(p, "fetch")
      /\ job[p] = "gleif" /\ job[p] \in Family /\ proc[p] \in Held /\ proc[p].status = "running"
      /\ proc[p].step = 3 /\ {2, 3} \subseteq 1..Len(Plan(p)) /\ tree[p] \in Tree
  BY FetchPlace DEF Fetch
<1>2. published["gleif"] \in Nat /\ published["gleif"] \in Versions(job[p])
  BY <1>1 DEF AcquisitionTypeOK
<1>3. /\ held \in Held /\ held.status = "running" /\ held.step = 3 /\ held.bound = proc[p].bound
      /\ held.got = {published["gleif"]}
  <2>1. proc[p].got \subseteq {published["gleif"]}
    BY DEF Fetch, OfEarlierCopy
  <2>2. proc[p].got \cup {published["gleif"]} = {published["gleif"]}
    BY <2>1
  <2>3. {published["gleif"]} \in SUBSET Nat
    BY <1>2
  <2>4. /\ held.status = "running" /\ held.step = 3 /\ held.bound = proc[p].bound
        /\ held.got = {published["gleif"]}
    BY <1>1, <2>2 DEF Held
  <2>5. held \in Held
    <3>1. /\ proc[p].got \cup {published["gleif"]} \in SUBSET Nat /\ proc[p].asked + 1 \in Nat
      BY <1>1, <2>2, <2>3 DEF Held
    <3>. QED
      BY <1>1, <3>1 DEF Held
  <2>. QED
    BY <2>4, <2>5
<1>4. /\ d \in Tree /\ d.parts = {"raw"} /\ d.versions = held.got
      /\ d.touched = tree[p].touched
  BY <1>1, <1>2, <1>3 DEF Tree, Part
<1>5. tree' = [tree EXCEPT ![p] = d] /\ UNCHANGED <<names, world>>
  <2>1. p \in DOMAIN tree
    BY <1>1 DEF Inode, AcquisitionTypeOK
  <2>2. tree' = [tree EXCEPT ![p].parts = {"raw"}, ![p].versions = held.got]
    BY DEF Fetch, Respond
  <2>3. UNCHANGED <<names, world>>
    BY DEF Fetch, Respond
  <2>. HIDE DEF held
  <2>. QED
    BY <1>1, <2>1, <2>2, <2>3 DEF AcquisitionTypeOK, Tree
<1>6. d # Nil /\ (d.touched => tree[p] # Nil /\ tree[p].touched)
  BY <1>1, <1>4, TreeFields
<1>7. /\ k.got = 3 /\ k.stage = 2 /\ k.first = 3 /\ k.synced = 6 /\ k.rename = 8 /\ k.parent = 9
      /\ k.written.raw = 3 /\ k.written.derived = 4 /\ k.written.manifest = 5 /\ k.safe.raw = 6
      /\ k.safe.derived = 6 /\ k.safe.manifest = 6
  BY <1>1 DEF Marks
<1>. HIDE DEF k
<1>8. CASE held.asked = LEIs
  <2>1. Advance(p, held)
    BY <1>8 DEF Fetch, Respond
  <2>2. PICK s \in Writes \cup Syncs \cup {"stage"} : s = "fetch"
    BY DEF Writes
  <2>3. PICK n : n = 3
    OBVIOUS
  <2>4. /\ \A x \in Part : (n >= k.written[x] => x \in d.parts) /\ ~(n >= k.safe[x])
        /\ ~(n >= k.synced) /\ n = proc[p].step
    BY <1>1, <1>4, <1>7, <2>3 DEF Part
  <2>5. /\ \E v \in Versions(job[p]) : held.got = {v}
        /\ job[p] # "taiwan_mof" /\ held.step = proc[p].step
    BY <1>1, <1>2, <1>3
  <2>6. At(p, s) /\ s = "fetch"
    BY <1>1, <2>2
  <2>. HIDE DEF held, d
  <2>7. Fills(p, s, held, d)
    BY <1>3, <1>4, <1>5, <1>6, <2>1, <2>4, <2>5, <2>6 DEF k, Fills
  <2>. QED
    BY <1>3, <1>4, <2>2, <2>7, StageAdvance
<1>9. CASE held.asked # LEIs
  <2>1. proc' = [proc EXCEPT ![p] = held]
    BY <1>9 DEF Fetch, Respond
  <2>2. proc' \in [Process -> Held] /\ proc'[p] = held /\ \A q \in Process \ {p} : proc'[q] = proc[q]
    BY <1>1, <1>3, <2>1 DEF AcquisitionTypeOK
  <2>3. 3 <= k.rename /\ d \in Tree \cup {Nil}
    BY <1>4, <1>7
  <2>. HIDE DEF held, d
  <2>4. /\ AcquisitionTypeOK' /\ DiskInv' /\ Nowhere(p)' /\ tree'[p] = d
        /\ \A q \in Process \ {p} : ProcInv(q)'
    BY <1>1, <1>5, <1>6, <2>2, <2>3, StageStep DEF k
  <2>5. StageInv(p)' /\ Plan(p)' = Plan(p) /\ job' = job
    <3>1. job' = job
      BY <1>5 DEF world
    <3>2. \A x \in Part : ~(3 > k.written[x]) /\ ~(3 > k.safe[x])
      BY <1>7 DEF Part
    <3>3. ~(3 > k.synced) /\ ~(3 > k.first)
      BY <1>7
    <3>. QED
      BY <1>3, <1>6, <2>2, <2>4, <3>1, <3>2, <3>3 DEF StageInv, Plan, k
  <2>6. RunningInv(p)'
    <3>1. ~(3 > k.got) /\ ~(3 > k.rename) /\ ~(3 > k.parent)
      BY <1>7
    <3>2. 3 \in 1..Len(Plan(p))
      BY <1>1
    <3>. QED
      BY <1>1, <1>3, <2>2, <2>4, <2>5, <3>1, <3>2 DEF RunningInv, k
  <2>. QED
    BY <1>3, <2>2, <2>4, <2>6 DEF IInv, ProcInv, Rollback
<1>. QED
  BY <1>8, <1>9

LEMMA RotateInv ==
  ASSUME IInv, NEW p \in Process, Rotate(p), Remembered
  PROVE  IInv'
<1>. DEFINE k == Marks[job[p]]
            again == [Fresh(p, "running") EXCEPT !.step = 2, !.attempt = proc[p].attempt + 1]
<1>1. /\ AcquisitionTypeOK /\ DiskInv /\ ProcInv(p) /\ RunningInv(p) /\ At(p, "fetch")
      /\ job[p] = "gleif" /\ job[p] \in Family /\ proc[p] \in Held /\ proc[p].step = 3
      /\ {2, 3} \subseteq 1..Len(Plan(p))
  BY FetchPlace DEF Rotate
<1>2. tree' = [tree EXCEPT ![p] = Nil] /\ UNCHANGED <<names, world>> /\ UNCHANGED job
  BY DEF Rotate, world
<1>3. k.got = 3 /\ k.stage = 2 /\ k.rename = 8 /\ k.parent = 9
  BY <1>1 DEF Marks
<1>. HIDE DEF k
<1>4. again \in Held /\ again.status = "running" /\ again.step = 2
  <2>1. Fresh(p, "running") \in Held /\ proc[p].attempt + 1 \in Nat
    BY <1>1, FreshTyped DEF Status, Held
  <2>2. Fresh(p, "running").status = "running"
    BY DEF Fresh
  <2>. QED
    BY <2>1, <2>2 DEF Held
<1>. HIDE DEF again
<1>5. To(p, "raised") \/ proc' = [proc EXCEPT ![p] = again]
  BY DEF Rotate, again
<1>6. /\ proc' \in [Process -> Held] /\ \A q \in Process \ {p} : proc'[q] = proc[q]
      /\ proc'[p] = Fresh(p, "raised") \/ proc'[p] = again
  BY <1>1, <1>4, <1>5, ToTyped DEF Status, AcquisitionTypeOK
<1>7. /\ AcquisitionTypeOK' /\ DiskInv' /\ Nowhere(p)' /\ tree'[p] = Nil
      /\ \A q \in Process \ {p} : ProcInv(q)'
  <2>1. 3 <= k.rename /\ Nil \in Tree \cup {Nil}
    BY <1>3
  <2>. QED
    BY <1>1, <1>2, <1>6, <2>1, StageStep DEF k
<1>8. CASE proc'[p] = Fresh(p, "raised")
  <2>1. proc'[p].status = "raised" /\ RaisedInv(p)'
    BY <1>7, <1>8 DEF Fresh, RaisedInv
  <2>. QED
    BY <1>7, <2>1 DEF IInv, ProcInv, Rollback
<1>9. CASE proc'[p] = again
  <2>1. Plan(p)' = Plan(p)
    BY <1>2 DEF Plan
  <2>2. ~(2 > k.got) /\ ~(2 > k.rename) /\ ~(2 > k.parent) /\ ~(2 > k.stage)
    BY <1>3
  <2>4. 2 \in 1..Len(Plan(p))
    BY <1>1
  <2>3. RunningInv(p)'
    BY <1>1, <1>2, <1>4, <1>7, <1>9, <2>1, <2>2, <2>4 DEF RunningInv, k
  <2>. QED
    BY <1>4, <1>7, <1>9, <2>3 DEF IInv, ProcInv, Rollback
<1>. QED
  BY <1>6, <1>8, <1>9

-----------------------------------------------------------------------------
(* The installation. *)

\* What is renamed to the output name is whole.
LEMMA StageIsWhole ==
  ASSUME IInv, NEW p \in Process, At(p, "rename")
  PROVE  Whole(job[p], p) /\ Nowhere(p)
<1>. DEFINE k == Marks[job[p]]  n == proc[p].step
<1>1. AcquisitionTypeOK /\ DiskInv /\ ProcInv(p)
  BY DEF IInv
<1>2. /\ RunningInv(p) /\ job[p] \in Family /\ n \in Nat /\ Ordered(job[p], k)
      /\ Turns(job[p], k, "rename", n)
  BY <1>1, Place
<1>3. n = k.rename
  BY <1>2 DEF Turns
<1>4. /\ n > k.stage /\ n <= k.rename /\ n > k.first /\ n > k.got /\ n > k.synced
      /\ \A x \in Part : n > k.written[x] /\ (job[p] \in Synced => n > k.safe[x])
  BY <1>2, <1>3 DEF Ordered
<1>5. StageInv(p) /\ Nowhere(p)
  BY <1>2, <1>4 DEF RunningInv
<1>6. tree[p] \in Tree
  BY <1>1, <1>5 DEF AcquisitionTypeOK, StageInv, Inode
<1>7. tree[p].parts = Part
  BY <1>4, <1>5, <1>6, TreeFields DEF StageInv
<1>8. job[p] \in Synced => tree[p].safe = Part \cup {"subdirectory"}
  BY <1>4, <1>5, <1>6, TreeFields DEF StageInv
<1>9. \E v \in Versions(job[p]) : tree[p].versions = {v}
  BY <1>2, <1>4, <1>5 DEF RunningInv, StageInv
<1>10. ASSUME job[p] = "taiwan_mof" PROVE tree[p].bound \in coexisted
  <2>1. n > 6
    BY <1>3, <1>10 DEF Marks
  <2>2. tree[p].bound = proc[p].bound
    BY <1>4, <1>5, <1>10 DEF StageInv
  <2>. QED
    BY <1>2, <1>10, <2>1, <2>2 DEF RunningInv, ReadingInv
<1>. QED
  BY <1>5, <1>7, <1>8, <1>9, <1>10 DEF Whole, StageInv

LEMMA InstallInv ==
  ASSUME IInv, NEW p \in Process, At(p, "rename"), entry[job[p]] = Nil, Install(p), Remembered
  PROVE  IInv'
<1>. DEFINE f == job[p]  k == Marks[f]  n == proc[p].step
<1>1. AcquisitionTypeOK /\ DiskInv /\ ProcInv(p)
  BY DEF IInv
<1>2. /\ RunningInv(p) /\ f \in Family /\ n \in Nat /\ n <= Len(Plan(p)) /\ Ordered(f, k)
      /\ Turns(f, k, "rename", n) /\ proc[p] \in Held /\ proc[p].status = "running"
  BY <1>1, Place
<1>3. p \in Inode /\ p # Nil
  BY AcquisitionAssumption DEF Inode
<1>4. Whole(f, p)
  BY StageIsWhole
<1>5. Advance(p, proc[p]) /\ UNCHANGED <<tree, job, published, removed, faults, losses>>
  BY DEF Install, world
<1>6. proc' \in [Process -> Held] /\ \A q \in Process \ {p} : proc'[q] = proc[q]
  BY <1>1, <1>2, <1>5, AdvanceTyped
<1>7. /\ entry' \in [Family -> Inode \cup {Nil}] /\ disk' \in [Family -> SUBSET (Inode \cup {Nil})]
      /\ entry'[f] = p /\ disk'[f] = disk[f] \cup {p}
      /\ \A g \in Family \ {f} : entry'[g] = entry[g] /\ disk'[g] = disk[g]
  BY <1>1, <1>2, <1>3 DEF Install, AcquisitionTypeOK
<1>8. AcquisitionTypeOK'
  BY <1>1, <1>5, <1>6, <1>7 DEF AcquisitionTypeOK
<1>9. coexisted \subseteq coexisted' /\ Sources' \in coexisted' /\ Acquired' = Acquired
  BY <1>5 DEF Remembered, Acquired
<1>10. DiskInv'
  <2>1. \A g \in Family : entry'[g] \in disk'[g]
    BY <1>1, <1>7 DEF DiskInv
  <2>2. ASSUME NEW g \in Family, NEW i \in disk'[g] \ {Nil} PROVE Whole(g, i)'
    <3>1. Whole(g, i)
      BY <1>1, <1>4, <1>7 DEF DiskInv
    <3>. QED
      BY <3>1, <1>5, <1>9 DEF Whole, Versions
  <2>3. \A i, j \in removed' : i = j
    BY <1>1, <1>5 DEF DiskInv
  <2>4. \A i \in Inode : tree'[i] # Nil /\ tree'[i].touched => faults' > 0
    BY <1>1, <1>5 DEF DiskInv
  <2>5. ASSUME NEW s \in Bound \ Acquired
        PROVE  entry'[s] \in {s, Nil} /\ (entry'[s] = s => tree'[s].versions = {published'[s]})
    <3>1. s # f /\ s \in Family
      BY DEF Acquired, Bound, Family
    <3>. QED
      BY <3>1, <1>1, <1>5, <1>7 DEF DiskInv
  <2>. QED
    BY <2>1, <2>2, <2>3, <2>4, <2>5, <1>9 DEF DiskInv
<1>11. ASSUME NEW q \in Process \ {p} PROVE ProcInv(q)'
  <2>1. job[q] \in Family /\ q # Nil
    BY <1>1, AcquisitionAssumption DEF AcquisitionTypeOK
  <2>2. Nowhere(q) => Nowhere(q)'
    BY <1>7 DEF Nowhere
  <2>3. entry[job[q]] = q => entry'[job[q]] = q
    BY <1>7, <2>1
  <2>4. disk[job[q]] = {q} => disk'[job[q]] = {q}
    <3>1. entry[job[q]] \in disk[job[q]]
      BY <1>1, <2>1 DEF DiskInv
    <3>. QED
      BY <3>1, <1>7, <2>1
  <2>5. entry'["taiwan_mof"] = q => entry["taiwan_mof"] = q
    BY <1>7 DEF Family
  <2>6. ASSUME NEW s \in Bound, NEW v, v # Nil, Lasts(s, v) PROVE Lasts(s, v)'
    <3>1. Sources[s] = v => Sources'[s] = v
      BY <1>5, <1>7, <2>6 DEF Sources, Bound, Family
    <3>. QED
      BY <3>1, <1>5, <1>9, <2>6 DEF Lasts, RemovedFrom, Replaced
  <2>7. \A s \in Bound : \A v : /\ Replaced(s, v) => Replaced(s, v)'
                                /\ RemovedFrom(s) => RemovedFrom(s)'
    BY <1>5, <1>9 DEF Replaced, RemovedFrom
  <2>8. faults' \in Nat /\ faults' >= faults /\ losses' \in Nat /\ losses' >= losses
    BY <1>1, <1>5 DEF AcquisitionTypeOK
  <2>9. Aside(q)
    BY <1>5, <1>6, <1>9, <2>2, <2>3, <2>4, <2>5, <2>6, <2>7, <2>8 DEF Aside
  <2>. QED
    BY <2>9, OthersStay
<1>12. ProcInv(p)'
  <2>1. n = k.rename /\ n > k.got /\ ~(n >= k.parent) /\ ~(n < k.rename)
    BY <1>2 DEF Turns, Ordered
  <2>2. \E v \in Versions(f) : proc[p].got = {v}
    BY <1>2, <2>1 DEF RunningInv
  <2>3. ASSUME proc'[p] = [proc[p] EXCEPT !.step = @ + 1], f = "taiwan_mof"
        PROVE  ReadingInv(p)'
    <3>1. n > 6
      BY <2>1, <2>3 DEF Marks
    <3>2. ReadingInv(p) /\ proc'[p].step = n + 1 /\ proc'[p].bound = proc[p].bound
      BY <1>2, <2>3 DEF RunningInv, Held
    <3>. QED
      BY <1>2, <1>9, <3>1, <3>2 DEF ReadingInv
  <2>4. entry'[f] \in disk'[f]
    BY <1>7
  <2>5. PICK s : s = "rename" /\ At(p, s)
    OBVIOUS
  <2>. QED
    BY <1>1, <1>2, <1>3, <1>5, <1>7, <2>1, <2>2, <2>3, <2>4, <2>5, AdvanceInv
<1>. QED
  BY <1>8, <1>10, <1>11, <1>12 DEF IInv

LEMMA RenameInv ==
  ASSUME IInv, NEW p \in Process, Rename(p), Remembered
  PROVE  IInv'
<1>1. CASE entry[job[p]] = Nil
  BY <1>1, InstallInv DEF Rename
<1>2. CASE entry[job[p]] # Nil
  <2>1. AcquisitionTypeOK /\ ProcInv(p) /\ At(p, "rename") /\ Raise(p)
    BY <1>2 DEF IInv, Rename
  <2>2. proc[p].step <= Marks[job[p]].rename
    BY <2>1, Place DEF Turns, Ordered
  <2>3. UNCHANGED <<job, names, published, removed, losses, faults>> /\ faults \in Nat
    BY <1>2, <2>1 DEF Rename, world, AcquisitionTypeOK
  <2>. QED
    BY <2>1, <2>2, <2>3, RaiseInv
<1>. QED
  BY <1>1, <1>2

LEMMA SyncParentInv ==
  ASSUME IInv, NEW p \in Process, SyncParent(p), Remembered
  PROVE  IInv'
<1>. DEFINE f == job[p]  k == Marks[f]  n == proc[p].step
<1>1. AcquisitionTypeOK /\ DiskInv /\ ProcInv(p) /\ At(p, "sync_parent")
  BY DEF IInv, SyncParent
<1>2. /\ RunningInv(p) /\ f \in Family /\ n \in Nat /\ n <= Len(Plan(p)) /\ Ordered(f, k)
      /\ Turns(f, k, "sync_parent", n) /\ proc[p] \in Held /\ proc[p].status = "running"
  BY <1>1, Place
<1>3. p \in Inode /\ p # Nil
  BY AcquisitionAssumption DEF Inode
<1>4. Advance(p, proc[p]) /\ UNCHANGED <<tree, entry, job, published, removed, faults, losses>>
  BY DEF SyncParent, world
<1>5. proc' \in [Process -> Held] /\ \A q \in Process \ {p} : proc'[q] = proc[q]
  BY <1>1, <1>2, <1>4, AdvanceTyped
<1>6. /\ disk' \in [Family -> SUBSET (Inode \cup {Nil})] /\ disk'[f] = {entry[f]}
      /\ \A g \in Family : disk'[g] \subseteq disk[g] /\ entry[g] \in disk'[g]
  BY <1>1, <1>2 DEF SyncParent, AcquisitionTypeOK, DiskInv
<1>7. /\ tree' \in [Inode -> Tree \cup {Nil}] /\ faults' \in Nat /\ faults' >= faults
      /\ tree'[p] # Nil /\ tree'[p].touched => faults' > 0
  BY <1>1, <1>3, <1>4 DEF AcquisitionTypeOK, DiskInv
<1>8. /\ AcquisitionTypeOK' /\ DiskInv' /\ coexisted \subseteq coexisted'
      /\ \A q \in Process \ {p} : ProcInv(q)'
  <2>1. tree' = tree /\ UNCHANGED <<job, entry, published, removed, losses>>
    BY <1>4
  <2>2. \A i \in Inode \ {p} : tree'[i] = tree[i]
    BY <2>1
  <2>3. \A g \in Family : p \in disk'[g] => tree'[p] = tree[p]
    BY <2>1
  <2>4. /\ disk' \in [Family -> SUBSET (Inode \cup {Nil})]
        /\ \A g \in Family : disk'[g] \subseteq disk[g] /\ entry[g] \in disk'[g]
    BY <1>6
  <2>5. Private(p)
    BY <1>5, <1>7, <2>1, <2>2, <2>3, <2>4 DEF Private
  <2>. QED
    BY <2>5, PrivateStep
<1>9. n > k.rename /\ n > k.got /\ ~(n < k.rename)
  BY <1>2 DEF Turns, Ordered
<1>10. Deleted(p) => Deleted(p)'
  BY <1>4, <1>6 DEF Deleted, Nowhere
<1>11. (entry'[f] = p /\ disk'[f] = {p}) \/ Deleted(p)'
  BY <1>2, <1>4, <1>6, <1>9, <1>10 DEF RunningInv
<1>12. \E v \in Versions(f) : proc[p].got = {v}
  BY <1>2, <1>9 DEF RunningInv
<1>13. ASSUME proc'[p] = [proc[p] EXCEPT !.step = @ + 1], f = "taiwan_mof"
       PROVE  ReadingInv(p)'
  <2>1. n > 6
    BY <1>2, <1>9, <1>13 DEF Marks
  <2>2. ReadingInv(p) /\ proc'[p].step = n + 1 /\ proc'[p].bound = proc[p].bound
    BY <1>2, <1>13 DEF RunningInv, Held
  <2>. QED
    BY <1>2, <1>8, <2>1, <2>2 DEF ReadingInv
<1>14. PICK s : s = "sync_parent" /\ At(p, s)
  BY <1>1
<1>15. entry'[f] \in disk'[f]
  BY <1>4, <1>6
<1>16. ProcInv(p)'
  BY <1>1, <1>2, <1>3, <1>4, <1>9, <1>11, <1>12, <1>13, <1>14, <1>15, AdvanceInv
<1>. QED
  BY <1>8, <1>16 DEF IInv

-----------------------------------------------------------------------------
(* The rollback. *)

\* A step after which only the process itself is elsewhere.
LEMMA QuietStep ==
  ASSUME IInv, NEW p \in Process, NEW status \in Status, To(p, status), UNCHANGED <<tree, names>>,
         UNCHANGED <<job, published, removed, losses>>, faults' \in Nat, faults' >= faults,
         Remembered
  PROVE  /\ AcquisitionTypeOK' /\ DiskInv' /\ \A q \in Process \ {p} : ProcInv(q)'
         /\ UNCHANGED <<entry, disk>> /\ proc'[p].status = status
<1>1. AcquisitionTypeOK /\ DiskInv
  BY DEF IInv
<1>2. p \in Inode
  BY DEF Inode
<1>3. /\ proc' \in [Process -> Held] /\ \A q \in Process \ {p} : proc'[q] = proc[q]
      /\ proc'[p].status = status
  BY <1>1, ToTyped, FreshTyped
<1>4. UNCHANGED <<entry, disk>>
  BY DEF names
<1>5. /\ tree' \in [Inode -> Tree \cup {Nil}] /\ disk' \in [Family -> SUBSET (Inode \cup {Nil})]
      /\ \A f \in Family : entry[f] \in disk'[f]
      /\ tree'[p] # Nil /\ tree'[p].touched => faults' > 0
  BY <1>1, <1>2, <1>4 DEF AcquisitionTypeOK, DiskInv
<1>6. AcquisitionTypeOK' /\ DiskInv' /\ \A q \in Process \ {p} : ProcInv(q)'
  <2>1. Private(p)
    BY <1>3, <1>4, <1>5 DEF Private
  <2>. QED
    BY <2>1, PrivateStep
<1>. QED
  BY <1>3, <1>4, <1>6

\* After the rename a process is the one at its name, or was deleted.
LEMMA AfterRename ==
  ASSUME IInv, NEW p \in Process, NEW s \in Last, At(p, s)
  PROVE  (entry[job[p]] = p /\ tree[p] # Nil) \/ tree[p] = Nil
<1>1. AcquisitionTypeOK /\ DiskInv /\ ProcInv(p)
  BY DEF IInv
<1>2. RunningInv(p) /\ proc[p].step > Marks[job[p]].rename
  BY <1>1, Place DEF Turns
<1>. QED
  BY <1>2 DEF RunningInv, Deleted

LEMMA CheckIdentityInv ==
  ASSUME IInv, NEW p \in Process, CheckIdentity(p), Remembered
  PROVE  IInv'
<1>1. AcquisitionTypeOK /\ DiskInv /\ ProcInv(p) /\ At(p, "identity") /\ p \in Inode
  BY DEF IInv, CheckIdentity, Inode
<1>2. job[p] = "taiwan_mof"
  BY <1>1, Place DEF Turns
<1>3. CASE entry["taiwan_mof"] = p /\ ~tree[p].touched
  BY <1>1, <1>3, UnchangedAdvance DEF CheckIdentity
<1>4. CASE ~(entry["taiwan_mof"] = p /\ ~tree[p].touched)
  <2>1. To(p, "inspect") /\ UNCHANGED <<tree, names, world>>
    BY <1>4 DEF CheckIdentity
  <2>2. UNCHANGED <<job, published, removed, losses, faults>> /\ faults \in Nat
        /\ "inspect" \in Status
    BY <1>1, <2>1 DEF world, AcquisitionTypeOK, Status, Rollback
  <2>3. (entry["taiwan_mof"] = p /\ tree[p] # Nil) \/ tree[p] = Nil
    BY <1>1, <1>2, AfterRename DEF Last
  <2>4. faults > 0 \/ tree[p] = Nil
    BY <1>1, <1>4, <2>3 DEF DiskInv
  <2>5. /\ AcquisitionTypeOK' /\ DiskInv' /\ \A q \in Process \ {p} : ProcInv(q)'
        /\ UNCHANGED <<entry, disk>> /\ proc'[p].status = "inspect"
    BY <2>1, <2>2, QuietStep
  <2>6. RollbackInv(p)'
    BY <1>2, <2>1, <2>2, <2>3, <2>4, <2>5 DEF RollbackInv
  <2>. QED
    BY <2>5, <2>6 DEF IInv, ProcInv, Rollback
<1>. QED
  BY <1>3, <1>4

LEMMA InspectTargetInv ==
  ASSUME IInv, NEW p \in Process, InspectTarget(p), Remembered
  PROVE  IInv'
<1>1. AcquisitionTypeOK /\ DiskInv /\ ProcInv(p) /\ proc[p].status = "inspect" /\ p \in Inode
  BY DEF IInv, InspectTarget, Inode
<1>2. RollbackInv(p)
  BY <1>1 DEF ProcInv, Rollback
<1>3. PICK status \in {"undo", "raised"} :
        To(p, status) /\ (IF entry["taiwan_mof"] = p THEN status = "undo" ELSE status = "raised")
  BY DEF InspectTarget
<1>4. UNCHANGED <<tree, names>> /\ UNCHANGED <<job, published, removed, losses, faults>>
  BY DEF InspectTarget, world
<1>5. status \in Status /\ faults' \in Nat /\ faults' >= faults
  BY <1>1, <1>4 DEF Status, Rollback, AcquisitionTypeOK
<1>6. /\ AcquisitionTypeOK' /\ DiskInv' /\ \A q \in Process \ {p} : ProcInv(q)'
      /\ UNCHANGED <<entry, disk>> /\ proc'[p].status = status
  BY <1>3, <1>4, <1>5, QuietStep
<1>7. status = "undo" => RollbackInv(p)'
  BY <1>2, <1>3, <1>4, <1>6 DEF RollbackInv
<1>8. status = "raised" => RaisedInv(p)'
  BY <1>1, <1>2, <1>3, <1>4, <1>6 DEF RollbackInv, RaisedInv
<1>. QED
  BY <1>3, <1>6, <1>7, <1>8 DEF IInv, ProcInv, Rollback

\* The rollback gives the name back.
LEMMA UndoInv ==
  ASSUME IInv, NEW p \in Process, Undo(p), Remembered
  PROVE  IInv'
<1>. DEFINE f == "taiwan_mof"
<1>1. AcquisitionTypeOK /\ DiskInv /\ ProcInv(p) /\ proc[p].status = "undo"
  BY DEF IInv, Undo
<1>2. RollbackInv(p) /\ job[p] = f /\ entry[f] = p
  BY <1>1 DEF ProcInv, Rollback, RollbackInv
<1>3. p \in Inode /\ p # Nil /\ f \in Family /\ f \notin Bound
  BY AcquisitionAssumption DEF Inode, Family, Bound
<1>4. To(p, "settle") /\ UNCHANGED <<tree, job, published, removed, faults, losses>>
  BY DEF Undo, world
<1>5. /\ proc' \in [Process -> Held] /\ \A q \in Process \ {p} : proc'[q] = proc[q]
      /\ proc'[p].status = "settle"
  BY <1>1, <1>4, ToTyped, FreshTyped DEF Status, Rollback
<1>6. /\ entry' \in [Family -> Inode \cup {Nil}] /\ disk' \in [Family -> SUBSET (Inode \cup {Nil})]
      /\ entry'[f] = Nil /\ disk'[f] = disk[f] \cup {Nil}
      /\ \A g \in Family \ {f} : entry'[g] = entry[g] /\ disk'[g] = disk[g]
  BY <1>1, <1>3 DEF Undo, AcquisitionTypeOK
<1>7. AcquisitionTypeOK'
  BY <1>1, <1>4, <1>5, <1>6 DEF AcquisitionTypeOK
<1>8. coexisted \subseteq coexisted' /\ Sources' \in coexisted' /\ Acquired' = Acquired
  BY <1>4 DEF Remembered, Acquired
<1>9. Sources' = Sources
  BY <1>3, <1>4, <1>6 DEF Sources, Bound, Family
<1>10. DiskInv'
  <2>1. \A g \in Family : entry'[g] \in disk'[g]
    BY <1>1, <1>6 DEF DiskInv
  <2>2. ASSUME NEW g \in Family, NEW i \in disk'[g] \ {Nil} PROVE Whole(g, i)'
    <3>1. Whole(g, i)
      BY <1>1, <1>6 DEF DiskInv
    <3>. QED
      BY <3>1, <1>4, <1>8 DEF Whole, Versions
  <2>3. \A i, j \in removed' : i = j
    BY <1>1, <1>4 DEF DiskInv
  <2>4. \A i \in Inode : tree'[i] # Nil /\ tree'[i].touched => faults' > 0
    BY <1>1, <1>4 DEF DiskInv
  <2>5. ASSUME NEW s \in Bound \ Acquired
        PROVE  entry'[s] \in {s, Nil} /\ (entry'[s] = s => tree'[s].versions = {published'[s]})
    <3>1. s # f /\ s \in Family
      BY DEF Bound, Family
    <3>. QED
      BY <3>1, <1>1, <1>4, <1>6 DEF DiskInv
  <2>. QED
    BY <2>1, <2>2, <2>3, <2>4, <2>5, <1>8 DEF DiskInv
<1>11. ASSUME NEW q \in Process \ {p} PROVE ProcInv(q)'
  <2>1. job[q] \in Family /\ q # Nil
    BY <1>1, AcquisitionAssumption DEF AcquisitionTypeOK
  <2>2. Nowhere(q) => Nowhere(q)'
    BY <1>6, <2>1 DEF Nowhere
  <2>3. entry[job[q]] = q => entry'[job[q]] = q
    BY <1>2, <1>6, <2>1
  <2>4. disk[job[q]] = {q} => disk'[job[q]] = {q}
    <3>1. entry[job[q]] \in disk[job[q]]
      BY <1>1, <2>1 DEF DiskInv
    <3>. QED
      BY <3>1, <1>2, <1>6, <2>1
  <2>5. entry'[f] # q
    BY <1>6, <2>1
  <2>6. \A s \in Bound : \A v : /\ Lasts(s, v) => Lasts(s, v)'
                                /\ Replaced(s, v) => Replaced(s, v)'
                                /\ RemovedFrom(s) => RemovedFrom(s)'
    BY <1>4, <1>8, <1>9 DEF Lasts, Replaced, RemovedFrom
  <2>7. faults' \in Nat /\ faults' >= faults /\ losses' \in Nat /\ losses' >= losses
    BY <1>1, <1>4 DEF AcquisitionTypeOK
  <2>8. Aside(q)
    BY <1>4, <1>5, <1>8, <2>2, <2>3, <2>4, <2>5, <2>6, <2>7 DEF Aside
  <2>. QED
    BY <2>8, OthersStay
<1>12. RollbackInv(p)'
  BY <1>2, <1>3, <1>4, <1>5, <1>6 DEF RollbackInv
<1>. QED
  BY <1>5, <1>7, <1>10, <1>11, <1>12 DEF IInv, ProcInv, Rollback

LEMMA SettleInv ==
  ASSUME IInv, NEW p \in Process, Settle(p), Remembered
  PROVE  IInv'
<1>. DEFINE f == "taiwan_mof"
<1>1. AcquisitionTypeOK /\ DiskInv /\ ProcInv(p) /\ proc[p].status = "settle"
  BY DEF IInv, Settle
<1>2. RollbackInv(p) /\ job[p] = f /\ entry[f] # p
  BY <1>1 DEF ProcInv, Rollback, RollbackInv
<1>3. p \in Inode /\ f \in Family
  BY DEF Inode, Family
<1>4. To(p, "raised") /\ UNCHANGED <<entry, job, published, removed, faults, losses>>
  BY DEF Settle, world
<1>5. /\ proc' \in [Process -> Held] /\ \A q \in Process \ {p} : proc'[q] = proc[q]
      /\ proc'[p].status = "raised"
  BY <1>1, <1>4, ToTyped, FreshTyped DEF Status
<1>6. /\ disk' \in [Family -> SUBSET (Inode \cup {Nil})] /\ disk'[f] = {entry[f]}
      /\ \A g \in Family : disk'[g] \subseteq disk[g] /\ entry[g] \in disk'[g]
  BY <1>1, <1>3 DEF Settle, AcquisitionTypeOK, DiskInv
<1>7. /\ tree' \in [Inode -> Tree \cup {Nil}] /\ tree'[p] = Nil
      /\ \A i \in Inode \ {p} : tree'[i] = tree[i]
  BY <1>1, <1>3 DEF Settle, AcquisitionTypeOK
<1>8. \A g \in Family : p \notin disk'[g]
  BY <1>1, <1>2, <1>6, Named
<1>9. faults' \in Nat /\ faults' >= faults
  BY <1>1, <1>4 DEF AcquisitionTypeOK
<1>10. AcquisitionTypeOK' /\ DiskInv' /\ \A q \in Process \ {p} : ProcInv(q)'
  <2>1. Private(p)
    BY <1>4, <1>5, <1>6, <1>7, <1>8, <1>9 DEF Private
  <2>. QED
    BY <2>1, PrivateStep
<1>11. RaisedInv(p)'
  BY <1>7 DEF RaisedInv
<1>. QED
  BY <1>5, <1>10, <1>11 DEF IInv, ProcInv, Rollback

-----------------------------------------------------------------------------
(* Failures, and the start. *)

LEMMA FailStepInv ==
  ASSUME IInv, NEW p \in Process, FailStep(p), Remembered
  PROVE  IInv'
<1>1. AcquisitionTypeOK /\ DiskInv /\ ProcInv(p) /\ proc[p].status = "running" /\ faults \in Nat
  BY DEF IInv, FailStep, AcquisitionTypeOK
<1>2. PICK s : At(p, s)
  BY <1>1 DEF At
<1>3. UNCHANGED <<job, published, removed, losses, names>> /\ faults' = faults + 1
  BY DEF FailStep, CanFail
<1>4. faults' \in Nat /\ faults' >= faults /\ faults' > 0
  BY <1>1, <1>3
<1>5. Turns(job[p], Marks[job[p]], s, proc[p].step) /\ Ordered(job[p], Marks[job[p]])
      /\ proc[p].step \in Nat
  BY <1>1, <1>2, Place
<1>6. CASE At(p, "identity") \/ (At(p, "sync_parent") /\ job[p] = "taiwan_mof")
  <2>1. To(p, "inspect") /\ UNCHANGED tree
    BY <1>6 DEF FailStep
  <2>2. job[p] = "taiwan_mof" /\ s \in Last
    BY <1>2, <1>5, <1>6 DEF Turns, Last, At
  <2>3. entry["taiwan_mof"] = p \/ tree[p] = Nil
    BY <1>2, <2>2, AfterRename
  <2>4. "inspect" \in Status
    BY DEF Status, Rollback
  <2>5. /\ AcquisitionTypeOK' /\ DiskInv' /\ \A q \in Process \ {p} : ProcInv(q)'
        /\ UNCHANGED <<entry, disk>> /\ proc'[p].status = "inspect"
    BY <1>3, <1>4, <2>1, <2>4, QuietStep
  <2>6. RollbackInv(p)'
    BY <1>3, <1>4, <2>1, <2>2, <2>3, <2>5 DEF RollbackInv
  <2>. QED
    BY <2>5, <2>6 DEF IInv, ProcInv, Rollback
<1>7. CASE ~(At(p, "identity") \/ (At(p, "sync_parent") /\ job[p] = "taiwan_mof"))
  <2>1. Raise(p)
    BY <1>7 DEF FailStep
  <2>2. ASSUME job[p] = "taiwan_mof" PROVE proc[p].step <= Marks["taiwan_mof"].rename
    <3>1. s \notin Last
      BY <1>2, <1>5, <1>7, <2>2 DEF Turns, Last
    <3>. QED
      BY <1>5, <2>2, <3>1 DEF Turns, Ordered
  <2>. QED
    BY <1>2, <1>3, <1>4, <2>1, <2>2, RaiseInv
<1>. QED
  BY <1>6, <1>7

LEMMA FailRollbackInv ==
  ASSUME IInv, NEW p \in Process, FailRollback(p), Remembered
  PROVE  IInv'
<1>1. AcquisitionTypeOK /\ RollbackInv(p) /\ faults \in Nat
  BY DEF IInv, FailRollback, ProcInv, AcquisitionTypeOK
<1>2. /\ UNCHANGED <<job, published, removed, losses>> /\ UNCHANGED <<tree, names>>
      /\ faults' = faults + 1 /\ To(p, "raised") /\ "raised" \in Status
  BY DEF FailRollback, CanFail, Status
<1>3. faults' \in Nat /\ faults' >= faults /\ (tree'[p] = Nil \/ ~(faults' <= 1))
  BY <1>1, <1>2 DEF RollbackInv
<1>4. /\ AcquisitionTypeOK' /\ DiskInv' /\ \A q \in Process \ {p} : ProcInv(q)'
      /\ proc'[p].status = "raised"
  BY <1>2, <1>3, QuietStep
<1>5. RaisedInv(p)'
  BY <1>3 DEF RaisedInv
<1>. QED
  BY <1>4, <1>5 DEF IInv, ProcInv, Rollback

LEMMA KillInv ==
  ASSUME IInv, NEW p \in Process, Kill(p), Remembered
  PROVE  IInv'
<1>1. AcquisitionTypeOK /\ DiskInv /\ p \in Inode
  BY DEF IInv, Inode
<1>2. To(p, "dead") /\ UNCHANGED <<entry, disk, job, published, removed, faults, losses>>
  BY DEF Kill, world, names
<1>3. /\ proc' \in [Process -> Held] /\ \A q \in Process \ {p} : proc'[q] = proc[q]
      /\ proc'[p].status = "dead"
  BY <1>1, <1>2, ToTyped, FreshTyped DEF Status
<1>4. /\ tree' \in [Inode -> Tree \cup {Nil}] /\ \A i \in Inode \ {p} : tree'[i] = tree[i]
      /\ tree'[p] = IF p \in disk[job[p]] THEN tree[p] ELSE Nil
  BY <1>1 DEF Kill, AcquisitionTypeOK
<1>5. /\ disk' \in [Family -> SUBSET (Inode \cup {Nil})] /\ faults' \in Nat /\ faults' >= faults
      /\ \A f \in Family : disk'[f] \subseteq disk[f] /\ entry[f] \in disk'[f]
      /\ tree'[p] # Nil /\ tree'[p].touched => faults' > 0
  BY <1>1, <1>2, <1>4 DEF AcquisitionTypeOK, DiskInv
<1>6. \A f \in Family : p \in disk'[f] => tree'[p] = tree[p]
  BY <1>1, <1>2, <1>4, Named
<1>7. AcquisitionTypeOK' /\ DiskInv' /\ \A q \in Process \ {p} : ProcInv(q)'
  <2>1. Private(p)
    BY <1>2, <1>3, <1>4, <1>5, <1>6 DEF Private
  <2>. QED
    BY <2>1, PrivateStep
<1>. QED
  BY <1>3, <1>7 DEF IInv, ProcInv, Rollback

LEMMA BeginInv ==
  ASSUME IInv, NEW p \in Process, Begin(p), Remembered
  PROVE  IInv'
<1>. DEFINE f == job[p]  k == Marks[f]
<1>1. AcquisitionTypeOK /\ DiskInv /\ ProcInv(p) /\ proc[p].status = "idle" /\ p \in Inode
  BY DEF IInv, Begin, Inode
<1>2. f \in Family /\ proc[p] \in Held /\ proc[p] = Fresh(p, "idle") /\ Nowhere(p)
  BY <1>1 DEF AcquisitionTypeOK, ProcInv
<1>3. UNCHANGED <<tree, entry, disk, job, published, removed, faults, losses>>
  BY DEF Begin, names, world
<1>4. /\ proc' = [proc EXCEPT ![p].status = "running"]
      /\ [proc[p] EXCEPT !.status = "running"] \in Held
  BY <1>2 DEF Begin, Held, Status
<1>5. /\ proc' \in [Process -> Held] /\ \A q \in Process \ {p} : proc'[q] = proc[q]
      /\ proc'[p] = [proc[p] EXCEPT !.status = "running"]
  BY <1>1, <1>4 DEF AcquisitionTypeOK
<1>6. /\ proc'[p].status = "running" /\ proc'[p].step = 1
      /\ proc'[p].got = IF f = "eea_industrial" THEN {0} ELSE {}
  BY <1>2, <1>5 DEF Held, Fresh
<1>7. /\ disk' \in [Family -> SUBSET (Inode \cup {Nil})] /\ faults' \in Nat /\ faults' >= faults
      /\ tree' \in [Inode -> Tree \cup {Nil}] /\ \A g \in Family : entry[g] \in disk'[g]
      /\ tree'[p] # Nil /\ tree'[p].touched => faults' > 0
  BY <1>1, <1>3 DEF AcquisitionTypeOK, DiskInv
<1>8. AcquisitionTypeOK' /\ DiskInv' /\ \A q \in Process \ {p} : ProcInv(q)'
  <2>1. Private(p)
    BY <1>3, <1>5, <1>7 DEF Private
  <2>. QED
    BY <2>1, PrivateStep
<1>9. PlanTurns(f)
  BY <1>2, AllTurn
<1>10. /\ 1 \in 1..Len(Plan(p)) /\ ~(1 > k.stage) /\ ~(1 > k.rename) /\ ~(1 > k.parent)
       /\ 1 > k.got => f = "eea_industrial"
  BY <1>9 DEF PlanTurns, Ordered, Plan
<1>11. f = "eea_industrial" => \E v \in Versions(f) : proc'[p].got = {v}
  BY <1>6 DEF Versions, Bound
<1>12. ReadingInv(p)'
  BY <1>6 DEF ReadingInv
<1>13. Nowhere(p)' /\ Plan(p)' = Plan(p)
  BY <1>2, <1>3 DEF Nowhere, Plan
<1>. HIDE DEF k
<1>14. RunningInv(p)'
  BY <1>3, <1>6, <1>10, <1>11, <1>12, <1>13 DEF RunningInv, k, Versions
<1>. QED
  BY <1>6, <1>8, <1>14 DEF IInv, ProcInv, Rollback

-----------------------------------------------------------------------------
(* The world. *)

LEMMA PublishSourceInv ==
  ASSUME IInv, NEW f \in Family, PublishSource(f), Remembered
  PROVE  IInv'
<1>1. AcquisitionTypeOK /\ DiskInv /\ MaxArchives \in Nat
  BY AcquisitionAssumption DEF IInv
<1>2. /\ UNCHANGED <<job, proc, tree, entry, disk, removed, faults, losses>>
      /\ f \in Acquired /\ published' = [published EXCEPT ![f] = @ + 1]
      /\ f \in Bound => published[f] < MaxArchives
  BY DEF PublishSource, names, Bound
<1>3. /\ published' \in [Family -> Nat] /\ published'[f] = published[f] + 1
      /\ \A g \in Family \ {f} : published'[g] = published[g]
      /\ \A g \in Family : published[g] \in Nat /\ published[g] \in Versions(g)
  BY <1>1, <1>2 DEF AcquisitionTypeOK
<1>4. \A g \in Family : published'[g] \in Versions(g) /\ published'[g] >= published[g]
  BY <1>1, <1>2, <1>3 DEF Versions
<1>5. AcquisitionTypeOK'
  BY <1>1, <1>2, <1>3, <1>4 DEF AcquisitionTypeOK, Versions
<1>6. Sources' = Sources /\ Acquired' = Acquired /\ coexisted \subseteq coexisted'
  BY <1>2 DEF Sources, Acquired, Remembered
<1>7. DiskInv'
  <2>1. \A g \in Family : \A i \in disk'[g] \ {Nil} : Whole(g, i)'
    BY <1>1, <1>2, <1>6 DEF DiskInv, Whole, Versions
  <2>2. \A s \in Bound \ Acquired : s \in Family /\ published'[s] = published[s]
    BY <1>2, <1>3 DEF Bound, Family
  <2>. QED
    BY <1>1, <1>2, <1>6, <2>1, <2>2 DEF DiskInv
<1>8. ASSUME NEW q \in Process PROVE ProcInv(q)'
  <2>1. \A s \in Bound : \A v : Replaced(s, v) => Replaced(s, v)'
    <3>. SUFFICES ASSUME NEW s \in Bound, NEW v, s \notin Acquired, NEW n \in Nat, v = {n},
                         n < published[s]
                  PROVE  s \notin Acquired' /\ v = {n} /\ n < published'[s]
      BY DEF Replaced
    <3>. QED
      BY <1>3, <1>4, <1>6 DEF Bound, Family
  <2>2. \A s \in Bound : \A v : /\ Lasts(s, v) => Lasts(s, v)'
                                /\ RemovedFrom(s) => RemovedFrom(s)'
    BY <1>2, <1>6, <2>1 DEF Lasts, RemovedFrom
  <2>3. Nowhere(q) => Nowhere(q)'
    BY <1>2 DEF Nowhere
  <2>4. faults' \in Nat /\ faults' >= faults /\ losses' \in Nat /\ losses' >= losses
    BY <1>1, <1>2 DEF AcquisitionTypeOK
  <2>5. Aside(q)
    BY <1>2, <1>6, <2>1, <2>2, <2>3, <2>4 DEF Aside
  <2>. QED
    BY <2>5, OthersStay
<1>. QED
  BY <1>5, <1>7, <1>8 DEF IInv

\* The directory that a name leads to.
LEMMA Entered ==
  ASSUME AcquisitionTypeOK, DiskInv, NEW f \in Family, entry[f] # Nil
  PROVE  /\ Whole(f, entry[f]) /\ entry[f] \in Inode /\ tree[entry[f]] \in Tree
         /\ entry[f] \in disk[f]
         /\ \A g \in Family : entry[f] \in disk[g] => g = f
<1>1. Whole(f, entry[f]) /\ entry[f] \in Inode /\ entry[f] \in disk[f]
  BY DEF AcquisitionTypeOK, DiskInv
<1>2. tree[entry[f]] \in Tree
  BY <1>1 DEF AcquisitionTypeOK, Whole
<1>3. ASSUME NEW g \in Family, entry[f] \in disk[g] PROVE g = f
  <2>1. Whole(g, entry[f])
    BY <1>3 DEF DiskInv
  <2>. QED
    BY <1>1, <2>1, AcquisitionAssumption DEF Whole
<1>. QED
  BY <1>1, <1>2, <1>3

LEMMA TouchInv ==
  ASSUME IInv, NEW f \in Family, Touch(f), Remembered
  PROVE  IInv'
<1>1. AcquisitionTypeOK /\ DiskInv
  BY DEF IInv
<1>2. PICK i \in Inode :
        /\ i = entry[f] /\ i \in disk[f] /\ tree[i] \in Tree
        /\ tree' = [tree EXCEPT ![i].touched = TRUE]
  BY <1>1, Entered DEF Touch
<1>3. UNCHANGED <<job, proc, entry, disk, published, removed, losses>> /\ faults' = faults + 1
  BY DEF Touch, CanFail, names
<1>4. faults' \in Nat /\ faults' >= faults /\ faults' > 0 /\ losses' \in Nat /\ losses' >= losses
  BY <1>1, <1>3 DEF AcquisitionTypeOK
<1>5. [tree[i] EXCEPT !.touched = TRUE] \in Tree
  BY <1>2 DEF Tree
<1>6. /\ tree' \in [Inode -> Tree \cup {Nil}] /\ tree'[i] = [tree[i] EXCEPT !.touched = TRUE]
      /\ \A j \in Inode \ {i} : tree'[j] = tree[j]
  BY <1>1, <1>2, <1>5 DEF AcquisitionTypeOK
<1>7. /\ tree'[i] # Nil /\ tree[i] # Nil /\ tree'[i].parts = tree[i].parts
      /\ tree'[i].safe = tree[i].safe /\ tree'[i].versions = tree[i].versions
      /\ tree'[i].bound = tree[i].bound
  <2>1. /\ tree'[i].parts = tree[i].parts /\ tree'[i].safe = tree[i].safe
        /\ tree'[i].versions = tree[i].versions /\ tree'[i].bound = tree[i].bound
    BY <1>2, <1>6 DEF Tree
  <2>2. tree'[i] # Nil /\ tree[i] # Nil
    BY <1>2, <1>5, <1>6, TreeFields
  <2>. QED
    BY <2>1, <2>2
<1>8. AcquisitionTypeOK'
  BY <1>1, <1>3, <1>4, <1>6 DEF AcquisitionTypeOK
<1>9. Sources' = Sources /\ Acquired' = Acquired /\ coexisted \subseteq coexisted'
  <2>1. \A s \in Bound : entry[s] # Nil => tree'[entry[s]].versions = tree[entry[s]].versions
    BY <1>1, <1>6, <1>7 DEF AcquisitionTypeOK, Bound, Family
  <2>. QED
    BY <1>3, <2>1 DEF Sources, Acquired, Remembered
<1>10. DiskInv'
  <2>1. ASSUME NEW g \in Family, NEW j \in disk'[g] \ {Nil} PROVE Whole(g, j)'
    <3>1. Whole(g, j) /\ j \in Inode
      BY <1>1, <1>3 DEF DiskInv, AcquisitionTypeOK
    <3>2. /\ tree'[j] # Nil /\ tree'[j].parts = tree[j].parts /\ tree'[j].safe = tree[j].safe
          /\ tree'[j].versions = tree[j].versions /\ tree'[j].bound = tree[j].bound
      <4>1. tree[j] # Nil
        BY <3>1 DEF Whole
      <4>. QED
        BY <4>1, <3>1, <1>6, <1>7
    <3>. QED
      BY <3>1, <3>2, <1>3, <1>9 DEF Whole, Versions
  <2>2. \A s \in Bound \ Acquired : entry[s] = s => tree'[s].versions = tree[s].versions
    BY <1>6, <1>7 DEF Bound, Family, Inode
  <2>. QED
    BY <1>1, <1>3, <1>4, <1>9, <2>1, <2>2 DEF DiskInv, Remembered
<1>11. ASSUME NEW q \in Process PROVE ProcInv(q)'
  <2>1. q \in Inode /\ (Nowhere(q) => q # i)
    BY <1>2 DEF Inode, Nowhere
  <2>2. (tree[q] = Nil => tree'[q] = Nil) /\ (Nowhere(q) => tree'[q] = tree[q] /\ Nowhere(q)')
    BY <1>3, <1>6, <1>7, <2>1 DEF Nowhere
  <2>3. \A s \in Bound : \A v : /\ Lasts(s, v) => Lasts(s, v)'
                                /\ Replaced(s, v) => Replaced(s, v)'
                                /\ RemovedFrom(s) => RemovedFrom(s)'
    BY <1>3, <1>9 DEF Lasts, RemovedFrom, Replaced
  <2>4. Aside(q)
    BY <1>3, <1>4, <1>9, <2>2, <2>3 DEF Aside
  <2>. QED
    BY <2>4, OthersStay
<1>. QED
  BY <1>8, <1>10, <1>11 DEF IInv

LEMMA RemoveInv ==
  ASSUME IInv, NEW f \in Family, Remove(f), Remembered
  PROVE  IInv'
<1>1. AcquisitionTypeOK /\ DiskInv
  BY DEF IInv
<1>2. PICK i \in Inode :
        /\ i = entry[f] /\ i \in disk[f] /\ Whole(f, i) /\ i # Nil
        /\ \A g \in Family \ {f} : i \notin disk[g] /\ i # entry[g]
        /\ tree' = [tree EXCEPT ![i] = Nil] /\ removed = {} /\ removed' = {i}
  <2>1. entry[f] # Nil
    BY DEF Remove
  <2>2. /\ Whole(f, entry[f]) /\ entry[f] \in Inode /\ entry[f] \in disk[f]
        /\ \A g \in Family : entry[f] \in disk[g] => g = f
    BY <1>1, <2>1, Entered
  <2>3. \A g \in Family \ {f} : entry[f] \notin disk[g] /\ entry[f] # entry[g]
    BY <1>1, <2>2 DEF DiskInv
  <2>. QED
    BY <2>1, <2>2, <2>3 DEF Remove
<1>3. /\ UNCHANGED <<job, proc, published, faults, losses>> /\ f \in Acquired
      /\ \A p \in Process : job[p] = f => proc[p].status # "undo"
  BY DEF Remove
<1>4. /\ entry' \in [Family -> Inode \cup {Nil}] /\ disk' \in [Family -> SUBSET (Inode \cup {Nil})]
      /\ entry'[f] = Nil /\ disk'[f] = {Nil}
      /\ \A g \in Family \ {f} : entry'[g] = entry[g] /\ disk'[g] = disk[g]
  BY <1>1 DEF Remove, AcquisitionTypeOK
<1>5. /\ tree' \in [Inode -> Tree \cup {Nil}] /\ tree'[i] = Nil
      /\ \A j \in Inode \ {i} : tree'[j] = tree[j]
  BY <1>1, <1>2 DEF AcquisitionTypeOK
<1>6. AcquisitionTypeOK'
  BY <1>1, <1>2, <1>3, <1>4, <1>5 DEF AcquisitionTypeOK
<1>7. Acquired' = Acquired /\ Sources' \in coexisted' /\ coexisted \subseteq coexisted'
  BY <1>3 DEF Acquired, Remembered
<1>8. \A s \in Bound \ {f} : Sources'[s] = Sources[s]
  <2>1. ASSUME NEW s \in Bound \ {f}, entry[s] # Nil PROVE entry[s] \in Inode \ {i}
    <3>1. s \in Family \ {f}
      BY DEF Bound, Family
    <3>. QED
      BY <3>1, <2>1, <1>1, <1>2 DEF AcquisitionTypeOK
  <2>2. \A s \in Bound \ {f} : entry'[s] = entry[s]
    BY <1>4 DEF Bound, Family
  <2>. QED
    BY <1>5, <2>1, <2>2 DEF Sources
<1>9. DiskInv'
  <2>1. \A g \in Family : entry'[g] \in disk'[g]
    BY <1>1, <1>4 DEF DiskInv
  <2>2. ASSUME NEW g \in Family, NEW j \in disk'[g] \ {Nil} PROVE Whole(g, j)'
    <3>1. g # f /\ j \in disk[g]
      BY <1>4, <2>2
    <3>2. Whole(g, j) /\ j \in Inode \ {i}
      BY <1>1, <1>2, <3>1 DEF DiskInv, AcquisitionTypeOK
    <3>. QED
      BY <3>2, <1>3, <1>5, <1>7 DEF Whole, Versions
  <2>3. \A j, l \in removed' : j = l
    BY <1>2
  <2>4. \A j \in Inode : tree'[j] # Nil /\ tree'[j].touched => faults' > 0
    BY <1>1, <1>3, <1>5 DEF DiskInv
  <2>5. ASSUME NEW s \in Bound \ Acquired
        PROVE  entry'[s] \in {s, Nil} /\ (entry'[s] = s => tree'[s].versions = {published'[s]})
    <3>1. s # f /\ s \in Family \ {f} /\ s \in Inode
      BY <1>3 DEF Bound, Family, Inode
    <3>2. entry'[s] = entry[s] /\ (entry[s] = s => s # i)
      BY <1>2, <1>4, <3>1
    <3>. QED
      BY <3>1, <3>2, <1>1, <1>3, <1>5 DEF DiskInv
  <2>. QED
    BY <2>1, <2>2, <2>3, <2>4, <2>5, <1>7 DEF DiskInv
<1>10. faults' \in Nat /\ faults' >= faults /\ losses' \in Nat /\ losses' >= losses
  BY <1>1, <1>3 DEF AcquisitionTypeOK
<1>11. ASSUME NEW q \in Process, q # i PROVE ProcInv(q)'
  <2>1. job[q] \in Family /\ q # Nil /\ q \in Inode
    BY <1>1, AcquisitionAssumption DEF AcquisitionTypeOK, Inode
  <2>2. tree'[q] = tree[q] /\ (Nowhere(q) => Nowhere(q)')
    BY <1>4, <1>5, <1>11, <2>1 DEF Nowhere
  <2>3. entry[job[q]] = q => entry'[job[q]] = q
    BY <1>2, <1>4, <1>11, <2>1
  <2>4. disk[job[q]] = {q} => disk'[job[q]] = {q}
    BY <1>2, <1>4, <1>11, <2>1
  <2>5. entry'["taiwan_mof"] = q => entry["taiwan_mof"] = q
    BY <1>4, <2>1 DEF Family
  <2>6. ASSUME NEW s \in Bound, NEW v, v # Nil, Lasts(s, v) PROVE Lasts(s, v)'
    <3>1. CASE s # f
      <4>1. Sources'[s] = Sources[s]
        BY <1>8, <3>1
      <4>. QED
        BY <4>1, <1>2, <1>3, <1>7, <2>6 DEF Lasts, RemovedFrom, Replaced
    <3>2. CASE s = f
      <4>1. RemovedFrom(s)'
        BY <1>2, <1>3, <3>2 DEF RemovedFrom, Whole
      <4>. QED
        BY <4>1 DEF Lasts
    <3>. QED
      BY <3>1, <3>2
  <2>7. \A s \in Bound : \A v : /\ Replaced(s, v) => Replaced(s, v)'
                                /\ RemovedFrom(s) => RemovedFrom(s)'
    BY <1>2, <1>3, <1>7 DEF RemovedFrom, Replaced
  <2>8. removed \subseteq removed' /\ proc' = proc /\ job' = job
    BY <1>2, <1>3
  <2>9. Aside(q)
    BY <1>7, <1>10, <2>2, <2>3, <2>4, <2>5, <2>6, <2>7, <2>8 DEF Aside
  <2>. QED
    BY <2>9, OthersStay
<1>12. ASSUME i \in Process PROVE ProcInv(i)'
  <2>1. job[i] = f /\ ~Nowhere(i) /\ ProcInv(i) /\ proc[i] \in Held /\ i \notin Family
    BY <1>1, <1>2, <1>12, AcquisitionAssumption DEF Whole, Nowhere, IInv, AcquisitionTypeOK
  <2>2. Deleted(i)'
    <3>1. Nowhere(i)'
      BY <1>2, <1>4, <1>12 DEF Nowhere
    <3>. QED
      BY <1>2, <1>5, <3>1 DEF Deleted
  <2>3. proc[i].status # "idle"
    BY <2>1 DEF ProcInv
  <2>4. ASSUME proc[i].status = "running" PROVE RunningInv(i)'
    <3>1. RunningInv(i) /\ Plan(i)' = Plan(i)
      BY <1>3, <2>1, <2>4 DEF ProcInv, Plan
    <3>2. PlanTurns(f) /\ proc[i].step \in Nat
      BY <2>1, AllTurn DEF Held
    <3>3. ~(proc[i].step <= Marks[f].rename)
      BY <2>1, <3>1 DEF RunningInv
    <3>4. ASSUME f = "taiwan_mof" PROVE ReadingInv(i)'
      <4>1. proc[i].step > 6
        BY <3>2, <3>3, <3>4 DEF Marks
      <4>2. ReadingInv(i)
        BY <2>1, <3>1, <3>4 DEF RunningInv
      <4>. QED
        BY <1>3, <1>7, <3>2, <4>1, <4>2 DEF ReadingInv
    <3>. QED
      BY <1>3, <2>1, <2>2, <3>1, <3>3, <3>4 DEF RunningInv, Versions
  <2>5. ASSUME proc[i].status \in Rollback PROVE RollbackInv(i)'
    <3>1. job[i] = "taiwan_mof"
      BY <2>1, <2>5 DEF ProcInv, RollbackInv
    <3>2. proc[i].status # "undo" /\ entry'["taiwan_mof"] # i
      BY <1>2, <1>3, <1>4, <1>12, <2>1, <3>1
    <3>. QED
      BY <1>3, <1>5, <3>1, <3>2 DEF RollbackInv
  <2>6. RaisedInv(i)'
    BY <1>5 DEF RaisedInv
  <2>. QED
    BY <1>3, <2>2, <2>3, <2>4, <2>5, <2>6 DEF ProcInv
<1>. QED
  BY <1>6, <1>9, <1>11, <1>12 DEF IInv

\* What is found again at a name after a power loss is one of the directories that might be.
LEMMA LosePowerInv ==
  ASSUME IInv, LosePower, Remembered
  PROVE  IInv'
<1>1. AcquisitionTypeOK /\ DiskInv
  BY DEF IInv
<1>2. UNCHANGED <<job, published, removed, faults>> /\ losses' = losses + 1
  BY DEF LosePower
<1>3. /\ entry' \in [Family -> Inode \cup {Nil}]
      /\ \A f \in Family : entry'[f] \in disk[f]
      /\ \A f \in Family \ Acquired : entry'[f] = entry[f]
  <2>1. PICK found \in [Acquired -> Inode \cup {Nil}] :
          /\ \A f \in DOMAIN found : found[f] \in disk[f]
          /\ entry' = [f \in Family |-> IF f \in DOMAIN found THEN found[f] ELSE entry[f]]
    BY DEF LosePower
  <2>2. DOMAIN found = Acquired
    OBVIOUS
  <2>. QED
    BY <1>1, <2>1, <2>2 DEF AcquisitionTypeOK, DiskInv
<1>4. /\ disk' \in [Family -> SUBSET (Inode \cup {Nil})]
      /\ \A f \in Family : disk'[f] = {entry'[f]}
  <2>1. disk' = [f \in Family |-> {entry'[f]}]
    BY DEF LosePower
  <2>2. \A f \in Family : entry'[f] \in Inode \cup {Nil}
    BY <1>3
  <2>. QED
    BY <2>1, <2>2
<1>5. PICK left \in [Process -> SUBSET Part] :
        /\ \A p \in Process :
             IF entry'[job[p]] = p /\ tree[p] # Nil
               THEN Durable(tree[p]) \subseteq left[p] /\ left[p] \subseteq tree[p].parts
               ELSE left[p] = {}
        /\ tree' = [i \in Inode |->
                      IF i \in Family \/ tree[i] = Nil THEN tree[i]
                      ELSE IF entry'[job[i]] # i THEN Nil
                      ELSE [tree[i] EXCEPT !.parts = left[i],
                                           !.safe = left[i] \cup {"subdirectory"}]]
  BY DEF LosePower
<1>6. ASSUME NEW i \in Inode, tree[i] # Nil
      PROVE  /\ tree[i] \in Tree /\ tree'[i] \in Tree \cup {Nil}
             /\ tree'[i] # Nil => /\ tree'[i].touched = tree[i].touched
                                  /\ tree'[i].versions = tree[i].versions
                                  /\ tree'[i].bound = tree[i].bound
             /\ i \in Family => tree'[i] = tree[i]
             /\ i \in Process /\ entry'[job[i]] = i =>
                  /\ tree'[i] # Nil /\ tree'[i].parts = left[i]
                  /\ tree'[i].safe = left[i] \cup {"subdirectory"}
  <2>1. tree[i] \in Tree
    BY <1>1, <1>6 DEF AcquisitionTypeOK
  <2>2. CASE i \in Family
    <3>1. tree'[i] = tree[i] /\ i \notin Process
      BY <1>5, <2>2, AcquisitionAssumption
    <3>. QED
      BY <2>1, <2>2, <3>1
  <2>3. CASE i \notin Family /\ entry'[job[i]] # i
    <3>1. tree'[i] = Nil
      BY <1>5, <1>6, <2>3
    <3>. QED
      BY <2>1, <2>3, <3>1
  <2>4. CASE i \notin Family /\ entry'[job[i]] = i
    <3>1. i \in Process /\ left[i] \in SUBSET Part
      BY <2>4 DEF Inode
    <3>2. tree'[i] = [tree[i] EXCEPT !.parts = left[i], !.safe = left[i] \cup {"subdirectory"}]
      BY <1>5, <1>6, <2>4
    <3>3. /\ tree'[i] \in Tree /\ tree'[i].parts = left[i]
          /\ tree'[i].safe = left[i] \cup {"subdirectory"} /\ tree'[i].touched = tree[i].touched
          /\ tree'[i].versions = tree[i].versions /\ tree'[i].bound = tree[i].bound
      BY <2>1, <3>1, <3>2 DEF Tree
    <3>. QED
      BY <2>1, <2>4, <3>3, TreeFields
  <2>. QED
    BY <2>2, <2>3, <2>4
<1>7. \A i \in Inode : tree[i] = Nil => tree'[i] = Nil
  BY <1>5
<1>8. tree' \in [Inode -> Tree \cup {Nil}]
  <2>1. \A i \in Inode : tree'[i] \in Tree \cup {Nil}
    BY <1>6, <1>7
  <2>2. DOMAIN tree' = Inode /\ tree' = [i \in Inode |-> tree'[i]]
    BY <1>5
  <2>. QED
    BY <2>1, <2>2
<1>9. /\ proc' \in [Process -> Held]
      /\ \A p \in Process : proc'[p] = Fresh(p, "dead") \/ proc'[p] = proc[p]
      /\ \A p \in Process : proc'[p].status \notin {"running"} \cup Rollback
  <2>1. \A p \in Process : Fresh(p, "dead") \in Held /\ Fresh(p, "dead").status = "dead"
    BY <1>1, FreshTyped DEF Status
  <2>2. proc' = [p \in Process |->
                   IF proc[p].status \in {"running"} \cup Rollback THEN Fresh(p, "dead")
                   ELSE proc[p]]
    BY DEF LosePower
  <2>. QED
    BY <1>1, <2>1, <2>2 DEF AcquisitionTypeOK, Rollback
<1>10. losses' \in Nat /\ losses' >= losses /\ ~(losses' = 0)
  BY <1>1, <1>2 DEF AcquisitionTypeOK
<1>11. AcquisitionTypeOK'
  BY <1>1, <1>2, <1>3, <1>4, <1>8, <1>9, <1>10 DEF AcquisitionTypeOK
<1>12. Acquired' = Acquired /\ Sources' \in coexisted' /\ coexisted \subseteq coexisted'
  BY <1>2 DEF Acquired, Remembered
<1>13. DiskInv'
  <2>1. \A f \in Family : entry'[f] \in disk'[f]
    BY <1>4
  <2>2. ASSUME NEW f \in Family, NEW i \in disk'[f] \ {Nil} PROVE Whole(f, i)'
    <3>1. i = entry'[f] /\ Whole(f, i) /\ i \in Inode
      BY <1>1, <1>3, <1>4 DEF DiskInv, AcquisitionTypeOK
    <3>2. tree[i] # Nil /\ (i = f \/ (i \in Process /\ job[i] = f))
      BY <3>1 DEF Whole
    <3>3. tree'[i] # Nil /\ tree'[i].versions = tree[i].versions /\ tree'[i].bound = tree[i].bound
      <4>1. tree'[i] # Nil
        BY <1>6, <3>1, <3>2
      <4>. QED
        BY <1>6, <3>1, <3>2, <4>1
    <3>4. ASSUME f \in Synced
          PROVE  tree'[i].parts = Part /\ tree'[i].safe = Part \cup {"subdirectory"}
      <4>1. tree[i].parts = Part /\ tree[i].safe = Part \cup {"subdirectory"}
        BY <3>1, <3>4 DEF Whole
      <4>2. CASE i = f
        BY <1>6, <3>1, <3>2, <4>1, <4>2
      <4>3. CASE i \in Process /\ job[i] = f
        <5>1. Durable(tree[i]) = Part
          BY <4>1 DEF Durable
        <5>2. left[i] = Part
          BY <1>5, <3>1, <3>2, <4>1, <4>3, <5>1
        <5>. QED
          BY <1>6, <3>1, <3>2, <4>3, <5>2
      <4>. QED
        BY <3>2, <4>2, <4>3
    <3>. QED
      BY <3>1, <3>3, <3>4, <1>2, <1>12 DEF Whole, Versions
  <2>3. \A i, j \in removed' : i = j
    BY <1>1, <1>2 DEF DiskInv
  <2>4. ASSUME NEW i \in Inode, tree'[i] # Nil, tree'[i].touched PROVE faults' > 0
    <3>1. tree[i] # Nil /\ tree[i].touched
      BY <1>6, <1>7, <2>4
    <3>. QED
      BY <3>1, <1>1, <1>2 DEF DiskInv
  <2>5. ASSUME NEW s \in Bound \ Acquired
        PROVE  entry'[s] \in {s, Nil} /\ (entry'[s] = s => tree'[s].versions = {published'[s]})
    <3>1. s \in Family \ Acquired /\ s \in Inode
      BY DEF Bound, Family, Inode
    <3>2. entry'[s] = entry[s] /\ tree'[s] = tree[s]
      BY <1>3, <1>6, <1>7, <3>1
    <3>. QED
      BY <3>2, <1>1, <1>2 DEF DiskInv
  <2>. QED
    BY <2>1, <2>2, <2>3, <2>4, <2>5, <1>12 DEF DiskInv
<1>14. ASSUME NEW p \in Process PROVE ProcInv(p)'
  <2>1. ProcInv(p) /\ job[p] \in Family /\ p \in Inode
    BY <1>1 DEF IInv, AcquisitionTypeOK, Inode
  <2>2. \A f \in Family : disk'[f] \subseteq disk[f]
    BY <1>3, <1>4
  <2>3. Nowhere(p) => Nowhere(p)'
    BY <2>2 DEF Nowhere
  <2>4. Deleted(p) => Deleted(p)'
    BY <1>2, <1>7, <2>1, <2>3 DEF Deleted
  <2>5. disk[job[p]] = {p} => entry'[job[p]] = p /\ disk'[job[p]] = {p}
    BY <1>3, <1>4, <2>1
  <2>6. RaisedInv(p)'
    BY <1>10 DEF RaisedInv
  <2>7. CASE proc'[p] = Fresh(p, "dead")
    <3>1. proc'[p].status = "dead"
      BY <2>7 DEF Fresh
    <3>. QED
      BY <3>1 DEF ProcInv, Rollback
  <2>8. CASE proc'[p] = proc[p]
    <3>1. proc[p].status = "idle" => proc'[p] = Fresh(p, "idle")' /\ Nowhere(p)'
      BY <1>2, <2>1, <2>3, <2>8 DEF ProcInv, Fresh
    <3>2. proc[p].status = "done" => (entry'[job[p]] = p /\ disk'[job[p]] = {p}) \/ Deleted(p)'
      BY <2>1, <2>4, <2>5 DEF ProcInv
    <3>. QED
      BY <1>2, <1>9, <2>6, <2>8, <3>1, <3>2 DEF ProcInv
  <2>. QED
    BY <1>9, <2>7, <2>8
<1>. QED
  BY <1>11, <1>13, <1>14 DEF IInv

\* The snapshot that is acquired anew is another one.
LEMMA ReacquireInv ==
  ASSUME IInv, NEW s \in Family, Reacquire(s), Remembered
  PROVE  IInv'
<1>1. AcquisitionTypeOK /\ DiskInv /\ MaxArchives \in Nat
  BY AcquisitionAssumption DEF IInv
<1>2. /\ UNCHANGED <<job, proc, entry, disk, removed, faults, losses>>
      /\ s \in Bound \ Acquired /\ entry[s] = s /\ published[s] < MaxArchives
      /\ published' = [published EXCEPT ![s] = @ + 1]
      /\ tree' = [tree EXCEPT ![s].versions = {published'[s]}]
  BY DEF Reacquire, names
<1>3. s \in Inode /\ s # Nil /\ s \notin Process
  BY AcquisitionAssumption DEF Inode
<1>4. /\ tree[s] \in Tree /\ tree[s].versions = {published[s]}
      /\ Whole(s, s) /\ \A g \in Family : s \in disk[g] => g = s
  <2>1. /\ Whole(s, s) /\ tree[s] \in Tree
        /\ \A g \in Family : s \in disk[g] => g = s
    BY <1>1, <1>2, <1>3, Entered
  <2>. QED
    BY <2>1, <1>1, <1>2 DEF DiskInv
<1>5. /\ published' \in [Family -> Nat] /\ published'[s] = published[s] + 1
      /\ published[s] \in Nat /\ published'[s] \in 0..MaxArchives /\ published'[s] \in Nat
      /\ \A g \in Family \ {s} : published'[g] = published[g]
  BY <1>1, <1>2 DEF AcquisitionTypeOK
<1>6. /\ [tree[s] EXCEPT !.versions = {published'[s]}] \in Tree
      /\ tree' = [tree EXCEPT ![s] = [tree[s] EXCEPT !.versions = {published'[s]}]]
  BY <1>2, <1>4, <1>5 DEF Tree
<1>7. /\ tree' \in [Inode -> Tree \cup {Nil}]
      /\ tree'[s] = [tree[s] EXCEPT !.versions = {published'[s]}]
      /\ \A j \in Inode \ {s} : tree'[j] = tree[j]
  BY <1>1, <1>3, <1>6 DEF AcquisitionTypeOK
<1>8. /\ tree'[s] # Nil /\ tree'[s].parts = tree[s].parts /\ tree'[s].safe = tree[s].safe
      /\ tree'[s].touched = tree[s].touched /\ tree'[s].versions = {published'[s]}
  BY <1>4, <1>6, <1>7, TreeFields DEF Tree
<1>9. \A g \in Family : published'[g] \in Versions(g)
  BY <1>1, <1>2, <1>5 DEF Versions, AcquisitionTypeOK
<1>10. AcquisitionTypeOK'
  BY <1>1, <1>2, <1>5, <1>7, <1>9 DEF AcquisitionTypeOK, Versions
<1>11. Acquired' = Acquired /\ Sources' \in coexisted' /\ coexisted \subseteq coexisted'
  BY <1>2 DEF Acquired, Remembered
<1>12. ASSUME NEW r \in Bound \ {s} PROVE Sources'[r] = Sources[r]
  <2>1. r \in Family /\ (entry[r] # Nil => entry[r] \in Inode \ {s})
    <3>1. r \in Family
      BY DEF Bound, Family
    <3>. QED
      BY <3>1, <1>1, <1>4 DEF AcquisitionTypeOK, DiskInv
  <2>. QED
    BY <1>2, <1>7, <2>1 DEF Sources
<1>13. DiskInv'
  <2>1. ASSUME NEW g \in Family, NEW i \in disk'[g] \ {Nil} PROVE Whole(g, i)'
    <3>1. Whole(g, i) /\ i \in Inode /\ (i = s => g = s)
      BY <1>1, <1>2, <1>4 DEF DiskInv, AcquisitionTypeOK
    <3>2. CASE i = s
      <4>1. \E v \in Versions(g) : tree'[i].versions = {v}
        BY <1>8, <1>9, <3>1, <3>2
      <4>. QED
        BY <1>2, <1>3, <1>8, <3>1, <3>2, <4>1 DEF Whole, Versions
    <3>3. CASE i # s
      BY <1>2, <1>7, <1>11, <3>1, <3>3 DEF Whole, Versions
    <3>. QED
      BY <3>2, <3>3
  <2>2. ASSUME NEW i \in Inode, tree'[i] # Nil, tree'[i].touched PROVE faults' > 0
    BY <1>1, <1>2, <1>4, <1>7, <1>8, <2>2 DEF DiskInv, Whole
  <2>3. ASSUME NEW r \in Bound \ Acquired
        PROVE  entry'[r] \in {r, Nil} /\ (entry'[r] = r => tree'[r].versions = {published'[r]})
    <3>1. r \in Family /\ r \in Inode
      BY DEF Bound, Family, Inode
    <3>. QED
      BY <3>1, <1>1, <1>2, <1>5, <1>7, <1>8 DEF DiskInv
  <2>4. /\ \A g \in Family : entry'[g] \in disk'[g]
        /\ \A i, j \in removed' : i = j
    BY <1>1, <1>2 DEF DiskInv
  <2>. QED
    BY <2>1, <2>2, <2>3, <2>4, <1>11 DEF DiskInv
<1>14. ASSUME NEW q \in Process PROVE ProcInv(q)'
  <2>1. tree'[q] = tree[q] /\ (Nowhere(q) => Nowhere(q)')
    BY <1>2, <1>3, <1>7 DEF Inode, Nowhere
  <2>2. ASSUME NEW r \in Bound, NEW v, Replaced(r, v) PROVE Replaced(r, v)'
    <3>1. PICK n \in Nat : v = {n} /\ n < published[r]
      BY <2>2 DEF Replaced
    <3>2. n < published'[r] /\ r \notin Acquired
      BY <1>1, <1>5, <2>2, <3>1 DEF Replaced, AcquisitionTypeOK, Bound, Family
    <3>. QED
      BY <1>11, <3>1, <3>2 DEF Replaced
  <2>3. \A r \in Bound : RemovedFrom(r) => RemovedFrom(r)'
    BY <1>2 DEF RemovedFrom
  <2>4. ASSUME NEW r \in Bound, NEW v, Sources[r] = v PROVE Lasts(r, v)'
    <3>1. CASE r # s
      BY <1>12, <2>4, <3>1 DEF Lasts
    <3>2. CASE r = s
      <4>1. v = {published[s]} /\ published[s] < published'[s]
        BY <1>2, <1>3, <1>4, <1>5, <2>4, <3>2 DEF Sources
      <4>2. Replaced(r, v)'
        BY <1>2, <1>5, <1>11, <3>2, <4>1 DEF Replaced
      <4>. QED
        BY <4>2 DEF Lasts
    <3>. QED
      BY <3>1, <3>2
  <2>5. \A r \in Bound : \A v : Lasts(r, v) => Lasts(r, v)'
    <3>. SUFFICES ASSUME NEW r \in Bound, NEW v, Lasts(r, v) PROVE Lasts(r, v)'
      OBVIOUS
    <3>1. CASE Sources[r] = v
      BY <2>4, <3>1
    <3>2. CASE Sources[r] # v
      BY <2>2, <2>3, <3>2 DEF Lasts
    <3>. QED
      BY <3>1, <3>2
  <2>6. faults' \in Nat /\ faults' >= faults /\ losses' \in Nat /\ losses' >= losses
    BY <1>1, <1>2 DEF AcquisitionTypeOK
  <2>7. Aside(q)
    BY <1>2, <1>11, <2>1, <2>2, <2>3, <2>5, <2>6 DEF Aside
  <2>. QED
    BY <2>7, OthersStay
<1>. QED
  BY <1>10, <1>13, <1>14 DEF IInv

-----------------------------------------------------------------------------
(* The invariant, and what follows from it. *)

LEMMA InitInv == AcquisitionInit => IInv
<1>. SUFFICES ASSUME AcquisitionInit PROVE IInv
  OBVIOUS
<1>. DEFINE there == IF \E p \in Process : job[p] = "taiwan_mof" THEN Bound ELSE {}
            found == [Empty EXCEPT !.parts = Part, !.safe = Part \cup {"subdirectory"},
                                   !.versions = {0}]
<1>1. /\ job \in [Process -> Family] /\ proc = [p \in Process |-> Fresh(p, "idle")]
      /\ tree = [i \in Inode |-> IF i \in there THEN found ELSE Nil]
      /\ entry = [f \in Family |-> IF f \in there THEN f ELSE Nil]
      /\ disk = [f \in Family |-> {entry[f]}] /\ published = [f \in Family |-> 0]
      /\ removed = {} /\ faults = 0 /\ losses = 0 /\ coexisted = {Sources}
  BY AcquisitionAssumption DEF AcquisitionInit
<1>2. /\ there \subseteq Bound /\ Bound \subseteq Family /\ Family \subseteq Inode
      /\ \A f \in Family : f # Nil /\ f \notin Process
  BY AcquisitionAssumption DEF Bound, Family, Inode
<1>3. /\ found \in Tree /\ found.parts = Part /\ found.safe = Part \cup {"subdirectory"}
      /\ found.versions = {0} /\ found.touched = FALSE
  <2>1. /\ Empty \in Tree /\ Empty.touched = FALSE
    BY DEF Empty, Unread, Tree
  <2>2. ASSUME NEW d \in Tree
        PROVE  [d EXCEPT !.parts = Part, !.safe = Part \cup {"subdirectory"}, !.versions = {0}]
                 \in Tree
    <3>1. ASSUME NEW parts \in SUBSET Part, NEW safe \in SUBSET (Part \cup {"subdirectory"}),
                 NEW versions \in SUBSET Nat
          PROVE  [d EXCEPT !.parts = parts, !.safe = safe, !.versions = versions] \in Tree
      BY DEF Tree
    <3>2. /\ Part \in SUBSET Part /\ {0} \in SUBSET Nat
          /\ Part \cup {"subdirectory"} \in SUBSET (Part \cup {"subdirectory"})
      OBVIOUS
    <3>. QED
      BY <3>1, <3>2
  <2>3. ASSUME NEW d \in Tree, NEW e,
               e = [d EXCEPT !.parts = Part, !.safe = Part \cup {"subdirectory"}, !.versions = {0}]
        PROVE  /\ e.parts = Part /\ e.safe = Part \cup {"subdirectory"} /\ e.versions = {0}
               /\ e.touched = d.touched
    BY <2>3 DEF Tree
  <2>. HIDE DEF there
  <2>. QED
    BY <2>1, <2>2, <2>3
<1>. HIDE DEF there, found
<1>4. \A p \in Process : /\ proc[p] = Fresh(p, "idle") /\ Fresh(p, "idle") \in Held
                         /\ Fresh(p, "idle").status = "idle"
  BY <1>1 DEF Fresh, Unread, Held, Status
<1>5. /\ \A f \in Family : /\ entry[f] \in Inode \cup {Nil} /\ disk[f] = {entry[f]}
                           /\ published[f] = 0 /\ entry[f] \in {f, Nil}
                           /\ entry[f] = f => f \in there
      /\ \A i \in Inode : tree[i] = IF i \in there THEN found ELSE Nil
  BY <1>1, <1>2
<1>6. AcquisitionTypeOK
  <2>1. proc \in [Process -> Held]
    BY <1>1, <1>4
  <2>2. tree \in [Inode -> Tree \cup {Nil}]
    BY <1>1, <1>3
  <2>3. entry \in [Family -> Inode \cup {Nil}] /\ disk \in [Family -> SUBSET (Inode \cup {Nil})]
    BY <1>1, <1>5
  <2>4. \A f \in Family : 0 \in Versions(f)
    BY AcquisitionAssumption DEF Versions
  <2>. QED
    BY <1>1, <2>1, <2>2, <2>3, <2>4 DEF AcquisitionTypeOK
<1>7. DiskInv
  <2>1. ASSUME NEW f \in Family, NEW i \in disk[f] \ {Nil} PROVE Whole(f, i)
    <3>1. i = f /\ f \in there /\ f \in Inode
      BY <1>2, <1>5
    <3>2. tree[i] = found /\ found # Nil
      BY <1>3, <1>5, <3>1, TreeFields
    <3>3. 0 \in Versions(f)
      BY AcquisitionAssumption DEF Versions
    <3>. QED
      BY <1>2, <1>3, <3>1, <3>2, <3>3 DEF Whole
  <2>2. \A i \in Inode : tree[i] # Nil => ~tree[i].touched
    BY <1>3, <1>5
  <2>3. ASSUME NEW s \in Bound, entry[s] = s PROVE tree[s].versions = {published[s]}
    BY <1>2, <1>3, <1>5, <2>3
  <2>4. \A f \in Family : entry[f] \in disk[f]
    BY <1>5
  <2>5. \A s \in Bound \ Acquired : entry[s] \in {s, Nil}
    BY <1>2, <1>5
  <2>. QED
    BY <1>1, <2>1, <2>2, <2>3, <2>4, <2>5 DEF DiskInv
<1>8. \A p \in Process : Nowhere(p)
  BY <1>2, <1>5, AcquisitionAssumption DEF Nowhere
<1>. QED
  BY <1>4, <1>6, <1>7, <1>8 DEF IInv, ProcInv, Rollback

LEMMA StutterInv ==
  ASSUME IInv, UNCHANGED avars
  PROVE  IInv'
<1>1. UNCHANGED <<job, proc, tree, entry, disk, published, removed, faults, losses, coexisted>>
  BY DEF avars
<1>2. AcquisitionTypeOK' /\ Sources' = Sources /\ Acquired' = Acquired
  BY <1>1 DEF IInv, AcquisitionTypeOK, Sources, Acquired
<1>3. DiskInv'
  BY <1>1, <1>2 DEF IInv, DiskInv, Whole
<1>4. ASSUME NEW p \in Process PROVE ProcInv(p)'
  <2>1. \A s, v : /\ Lasts(s, v)' = Lasts(s, v) /\ Replaced(s, v)' = Replaced(s, v)
                  /\ RemovedFrom(s)' = RemovedFrom(s)
    BY <1>1, <1>2 DEF Lasts, Replaced, RemovedFrom
  <2>2. (Nowhere(p) => Nowhere(p)') /\ faults \in Nat /\ losses \in Nat
    BY <1>1 DEF Nowhere, IInv, AcquisitionTypeOK
  <2>3. Aside(p)
    BY <1>1, <2>1, <2>2 DEF Aside
  <2>. QED
    BY <2>3, OthersStay
<1>. QED
  BY <1>2, <1>3, <1>4 DEF IInv

LEMMA NextInv == IInv /\ [AcquisitionNext]_avars => IInv'
<1>. SUFFICES ASSUME IInv, [AcquisitionNext]_avars PROVE IInv'
  OBVIOUS
<1>1. CASE UNCHANGED avars
  BY <1>1, StutterInv
<1>2. ASSUME Remembered, NEW p \in Process, Step(p) PROVE IInv'
  BY <1>2, CheckAbsentInv, DownloadInv, ReadSourceInv, MakeStageInv, FetchInv, RotateInv, WriteInv,
     SyncInv, RenameInv, SyncParentInv, ReverifyInv, CheckIdentityInv, InspectTargetInv, UndoInv,
     SettleInv DEF Step
<1>3. ASSUME Remembered, NEW p \in Process, Begin(p) \/ FailStep(p) \/ FailRollback(p) \/ Kill(p)
      PROVE  IInv'
  BY <1>3, BeginInv, FailStepInv, FailRollbackInv, KillInv
<1>4. ASSUME Remembered, LosePower PROVE IInv'
  BY <1>4, LosePowerInv
<1>5. ASSUME Remembered, NEW f \in Family, PublishSource(f) \/ Touch(f) \/ Remove(f) \/ Reacquire(f)
      PROVE  IInv'
  BY <1>5, PublishSourceInv, TouchInv, RemoveInv, ReacquireInv
<1>. QED
  BY <1>1, <1>2, <1>3, <1>4, <1>5 DEF AcquisitionNext

\* Whatever the processes, the failures and the losses of power: a name leads only to whole
\* directories of its own family, and each process is where its plan says.
THEOREM Invariance == AcquisitionSpec => []IInv
BY InitInv, NextInv, PTL DEF AcquisitionSpec

\* Every state is one of the declared kind.
THEOREM AcquisitionTypeCorrect == AcquisitionSpec => []AcquisitionTypeOK
<1>1. IInv => AcquisitionTypeOK
  BY DEF IInv
<1>. QED
  BY <1>1, Invariance, PTL

\* A directory at an output name is whole, through power losses too; and a snapshot whose
\* acquisition returned stays there until an operator deletes it.
THEOREM SnapshotsLastAlways == AcquisitionSpec => []SnapshotsLast
<1>1. ASSUME IInv PROVE SnapshotsLast
  <2>1. ASSUME NEW f \in Synced, entry[f] # Nil
        PROVE  tree[entry[f]] # Nil /\ tree[entry[f]].parts = Part
    <3>1. f \in Family
      BY DEF Synced
    <3>2. Whole(f, entry[f])
      BY <1>1, <2>1, <3>1, Entered DEF IInv
    <3>. QED
      BY <2>1, <3>2 DEF Whole
  <2>2. ASSUME NEW p \in Process, proc[p].status = "done" PROVE p \in removed \/ entry[job[p]] = p
    BY <1>1, <2>2 DEF IInv, ProcInv, Deleted
  <2>. QED
    BY <2>1, <2>2 DEF SnapshotsLast
<1>. QED
  BY <1>1, Invariance, PTL

\* A snapshot is of one version, and a tax registry snapshot is bound to two snapshots that
\* were in place together: reading each twice, in turns, is enough, whatever is published or
\* acquired meanwhile, when no more than one snapshot is deleted.
THEOREM OfOneMomentAlways == AcquisitionSpec => []OfOneMoment
<1>1. ASSUME IInv PROVE OfOneMoment
  <2>. SUFFICES ASSUME NEW f \in Family, entry[f] \in Process
                PROVE  /\ Cardinality(tree[entry[f]].versions) = 1
                       /\ f = "taiwan_mof" => tree[entry[f]].bound \in coexisted
    BY DEF OfOneMoment
  <2>1. entry[f] # Nil
    BY AcquisitionAssumption
  <2>2. Whole(f, entry[f])
    BY <1>1, <2>1, Entered DEF IInv
  <2>. QED
    BY <2>2, FS_Singleton DEF Whole
<1>. QED
  BY <1>1, Invariance, PTL

\* An acquisition that raised has removed its stage, or its target, unless a second operation
\* failed meanwhile or the power went.
THEOREM FailureLeavesNothingAlways == AcquisitionSpec => []FailureLeavesNothing
<1>1. IInv => FailureLeavesNothing
  BY DEF IInv, ProcInv, RaisedInv, FailureLeavesNothing
<1>. QED
  BY <1>1, Invariance, PTL
=============================================================================

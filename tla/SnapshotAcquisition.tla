-------------------------- MODULE SnapshotAcquisition --------------------------
(***************************************************************************)
(* How a snapshot of a source is acquired and installed: the create        *)
(* functions of the EPA FRS, MOENV, Taiwan factory, Taiwan MOF, GLEIF and  *)
(* EEA families.  Each fills a fresh stage beside the output name, makes   *)
(* it durable and renames it to a name that must be free.  Each family has *)
(* its own order of steps; the orders are given as plans, which processes  *)
(* follow one step at a time.                                              *)
(*                                                                         *)
(* A tax registry snapshot is bound to the MOENV and factory snapshots     *)
(* found at their names; the GLEIF source is asked LEI by LEI while it     *)
(* publishes.  A process may be killed, an operation may fail, the power   *)
(* may go: then only what was synced is sure to be there again.            *)
(***************************************************************************)
EXTENDS Naturals, Sequences, FiniteSets

CONSTANTS
  Process, Nil,
  Jobs,                    \* what the processes may be started for
  LEIs,                    \* the number of allowlisted LEIs
  MaxAttempts,             \* max_attempts of the GLEIF acquisition
  MaxCopies, MaxArchives,  \* bounds: new golden copies of GLEIF, new archives of a source
  MaxFaults, MaxLosses     \* bounds: failed operations and touched files; power losses

Family == {"epa_frs", "moenv", "taiwan_factory", "taiwan_mof", "gleif", "eea_industrial"}
Bound == {"moenv", "taiwan_factory"}   \* the families that a tax registry snapshot reads

ASSUME AcquisitionAssumption ==
  /\ Jobs \subseteq [Process -> Family]
  /\ LEIs \in Nat \ {0} /\ MaxAttempts \in Nat \ {0} /\ MaxCopies \in Nat
  /\ MaxArchives \in Nat
  /\ MaxFaults \in Nat /\ MaxLosses \in Nat
  /\ Nil \notin Process \cup Family /\ Process \cap Family = {}

\* A directory is known by the process that made it, or by its family when it was
\* there before.
Inode == Process \cup Family
Part == {"raw", "derived", "manifest"}   \* "raw": whatever is kept in subdirectories

Tree ==
  [parts : SUBSET Part, safe : SUBSET (Part \cup {"subdirectory"}), versions : SUBSET Nat,
   bound : [Bound -> {Nil} \cup SUBSET Nat], touched : BOOLEAN]

\* No directory, and no source snapshot read.
ASSUME NilAssumption == Nil \notin Tree /\ Nil \notin {{v} : v \in 0..MaxArchives}

VARIABLES
  job,         \* the family that each process acquires
  proc,        \* where each process is, and what it holds
  tree,        \* the directories: what is in them, and what of it is durable
  entry,       \* the directory at each family's output name, or Nil
  disk,        \* the directories that may be found at that name after a power loss
  published,   \* the version that each source gives out
  removed,     \* the directories that an operator has deleted
  faults, losses,
  coexisted    \* pairs of source snapshots that were in place together

avars == <<job, proc, tree, entry, disk, published, removed, faults, losses, coexisted>>
names == <<entry, disk>>
world == <<job, published, removed, faults, losses>>

Acquired == {job[p] : p \in Process}
Unread == [s \in Bound |-> Nil]

\* got: the versions of what was downloaded; bound: the source snapshots that were read.
\* The reviewed EEA files are handed over.
Fresh(p, status) ==
  [status |-> status, step |-> 1, attempt |-> 1, asked |-> 0, bound |-> Unread,
   got |-> IF job[p] = "eea_industrial" THEN {0} ELSE {}]

Empty == [parts |-> {}, safe |-> {}, versions |-> {}, bound |-> Unread, touched |-> FALSE]

\* What the verifiers accept: the exact tree, with the bytes that the manifest names.
Valid(i) == i # Nil /\ tree[i] # Nil /\ tree[i].parts = Part /\ ~tree[i].touched

-----------------------------------------------------------------------------
\* The plans, one for each create function.  The retained archive is in a subdirectory,
\* as are the responses of GLEIF; "sync_all" syncs the subdirectories and the stage.
FRSPlan ==
  <<"download", "absent", "stage", "derived", "raw", "sync_all", "manifest", "sync",
    "absent", "rename", "sync_parent">>

\* The scripts check the name before they download; the create functions check it again.
Acquire == <<"absent", "download">>

MoenvPlanUnsynced ==
  Acquire \o <<"absent", "stage", "files", "sync", "absent", "rename", "sync_parent",
               "reverify">>

MoenvPlan ==
  Acquire \o <<"absent", "stage", "files", "sync_all", "absent", "rename", "sync_parent",
               "reverify">>

FactoryPlan ==
  Acquire \o <<"absent", "stage", "files", "sync_all", "absent", "rename", "sync_parent",
               "reverify">>

\* The allowlist is built from two snapshots, each read twice, and built again for the
\* verification of the stage.
ReadTwice == <<"moenv", "taiwan_factory", "moenv", "taiwan_factory">>

MOFPlan ==
  Acquire \o ReadTwice \o <<"absent", "stage", "files", "sync_all">> \o
  ReadTwice \o <<"absent", "rename", "identity", "sync_parent">>

GLEIFPlan ==
  <<"absent", "stage", "fetch", "derived", "manifest", "sync_all", "absent", "rename",
    "sync_parent", "reverify">>

\* The subdirectories are not synced, and the name is not checked again.
EEAPlan ==
  <<"absent", "stage", "files", "sync", "rename", "sync_parent", "reverify">>

PlanOf ==
  [epa_frs |-> FRSPlan, moenv |-> MoenvPlan, taiwan_factory |-> FactoryPlan,
   taiwan_mof |-> MOFPlan, gleif |-> GLEIFPlan, eea_industrial |-> EEAPlan]

Plan(p) == PlanOf[job[p]]
At(p, s) == proc[p].status = "running" /\ Plan(p)[proc[p].step] = s

\* The process goes on with what it holds now, or returns.
Advance(p, held) ==
  proc' = [proc EXCEPT ![p] = IF proc[p].step = Len(Plan(p)) THEN Fresh(p, "done")
                              ELSE [held EXCEPT !.step = @ + 1]]

To(p, status) == proc' = [proc EXCEPT ![p] = Fresh(p, status)]

\* An exception: the stage, if it is still one, is removed.
Raise(p) ==
  /\ To(p, "raised")
  /\ tree' = IF entry[job[p]] = p THEN tree ELSE [tree EXCEPT ![p] = Nil]

\* One step that goes on when a check holds and raises when it does not.
Check(p, holds, held) == IF holds THEN Advance(p, held) /\ UNCHANGED tree ELSE Raise(p)

-----------------------------------------------------------------------------
Sources == [s \in Bound |-> IF entry[s] = Nil THEN Nil ELSE tree[entry[s]].versions]

AcquisitionInit ==
  /\ job \in Jobs
  /\ proc = [p \in Process |-> Fresh(p, "idle")]
  /\ LET there == IF \E p \in Process : job[p] = "taiwan_mof" THEN Bound ELSE {}
     IN /\ tree = [i \in Inode |->
                     IF i \in there
                       THEN [Empty EXCEPT !.parts = Part, !.safe = Part \cup {"subdirectory"},
                                          !.versions = {0}]
                       ELSE Nil]
        /\ entry = [f \in Family |-> IF f \in there THEN f ELSE Nil]
  /\ disk = [f \in Family |-> {entry[f]}]
  /\ published = [f \in Family |-> 0]
  /\ removed = {} /\ faults = 0 /\ losses = 0
  /\ coexisted = {Sources}

Begin(p) ==
  /\ proc[p].status = "idle"
  /\ proc' = [proc EXCEPT ![p].status = "running"]
  /\ UNCHANGED <<tree, names, world>>

\* The output name must be free before the work, and again before the rename.
CheckAbsent(p) ==
  /\ At(p, "absent")
  /\ Check(p, entry[job[p]] = Nil, proc[p])
  /\ UNCHANGED <<names, world>>

Download(p) ==
  /\ At(p, "download")
  /\ Advance(p, [proc[p] EXCEPT !.got = {published[job[p]]}])
  /\ UNCHANGED <<tree, names, world>>

ReadSourceAlone(p, s) ==
  /\ At(p, s)
  /\ Check(p, Valid(entry[s]), [proc[p] EXCEPT !.bound[s] = Sources[s]])
  /\ UNCHANGED <<names, world>>

\* build_taiwan_mof_allowlist verifies a source snapshot; later readings must find the
\* same one.
ReadSource(p, s) ==
  /\ At(p, s)
  /\ Check(p, Valid(entry[s]) /\ proc[p].bound[s] \in {Nil, Sources[s]},
           [proc[p] EXCEPT !.bound[s] = Sources[s]])
  /\ UNCHANGED <<names, world>>

MakeStage(p) ==
  /\ At(p, "stage")
  /\ tree' = [tree EXCEPT ![p] = Empty]
  /\ Advance(p, proc[p])
  /\ UNCHANGED <<names, world>>

\* The next LEI is asked for: its response is added to those of this attempt.
Respond(p) ==
  LET held == [proc[p] EXCEPT !.got = @ \cup {published["gleif"]}, !.asked = @ + 1]
  IN /\ tree' = [tree EXCEPT ![p].parts = {"raw"}, ![p].versions = held.got]
     /\ IF held.asked = LEIs THEN Advance(p, held) ELSE proc' = [proc EXCEPT ![p] = held]
     /\ UNCHANGED <<names, world>>

OfEarlierCopy(p) == proc[p].got \subseteq {published["gleif"]}

\* The response must be of the golden copy that the earlier ones are of.
Fetch(p) ==
  /\ At(p, "fetch")
  /\ OfEarlierCopy(p)
  /\ Respond(p)

RotateTooFew(p) ==
  /\ At(p, "fetch")
  /\ ~OfEarlierCopy(p)
  /\ tree' = [tree EXCEPT ![p] = Nil]
  /\ IF proc[p].attempt + 1 = MaxAttempts
       THEN To(p, "raised")
       ELSE proc' = [proc EXCEPT ![p] = [Fresh(p, "running") EXCEPT !.step = 2,
                                           !.attempt = proc[p].attempt + 1]]
  /\ UNCHANGED <<names, world>>

\* The golden copy has changed between two responses: the stage is removed, and the next
\* attempt starts with a new one.
Rotate(p) ==
  /\ At(p, "fetch")
  /\ ~OfEarlierCopy(p)
  /\ tree' = [tree EXCEPT ![p] = Nil]
  /\ IF proc[p].attempt = MaxAttempts
       THEN To(p, "raised")
       ELSE proc' = [proc EXCEPT ![p] = [Fresh(p, "running") EXCEPT !.step = 2,
                                           !.attempt = proc[p].attempt + 1]]
  /\ UNCHANGED <<names, world>>

\* Files are written with their data synced; their directory entries are not yet.
Write(p, s) ==
  /\ At(p, s)
  /\ tree' = [tree EXCEPT ![p].parts = @ \cup (IF s = "files" THEN Part ELSE {s}),
                          ![p].versions = proc[p].got, ![p].bound = proc[p].bound]
  /\ Advance(p, proc[p])
  /\ UNCHANGED <<names, world>>

\* Syncing the stage makes its own entries durable, a subdirectory's name among them, and
\* syncing the subdirectories theirs.
Sync(p, s) ==
  /\ At(p, s)
  /\ tree' = [tree EXCEPT ![p].safe =
                @ \cup {"subdirectory"} \cup
                (IF s = "sync_all" THEN tree[p].parts ELSE tree[p].parts \ {"raw"})]
  /\ Advance(p, proc[p])
  /\ UNCHANGED <<names, world>>

\* What the stage is given from here on is found at the output name.
Install(p) ==
  /\ entry' = [entry EXCEPT ![job[p]] = p]
  /\ disk' = [disk EXCEPT ![job[p]] = @ \cup {p}]
  /\ Advance(p, proc[p])
  /\ UNCHANGED <<tree, world>>

\* The rename refuses a name that is taken: with RENAME_NOREPLACE, or as the plain rename
\* of the EPA FRS snapshot, which replaces no directory with files in it.
Rename(p) ==
  /\ At(p, "rename")
  /\ IF entry[job[p]] = Nil THEN Install(p) ELSE Raise(p) /\ UNCHANGED <<names, world>>

SyncParent(p) ==
  /\ At(p, "sync_parent")
  /\ disk' = [disk EXCEPT ![job[p]] = {entry[job[p]]}]
  /\ Advance(p, proc[p])
  /\ UNCHANGED <<tree, entry, world>>

\* The directory at the output name is verified, whichever it is by now.
Reverify(p) ==
  /\ At(p, "reverify")
  /\ Check(p, Valid(entry[job[p]]), proc[p])
  /\ UNCHANGED <<names, world>>

-----------------------------------------------------------------------------
(* The rollback of a tax registry snapshot that was installed a moment ago.  *)

\* What _assert_installed_tree_identity compares: the inodes and files of the stage.
CheckIdentity(p) ==
  /\ At(p, "identity")
  /\ IF entry["taiwan_mof"] = p /\ ~tree[p].touched THEN Advance(p, proc[p]) ELSE To(p, "inspect")
  /\ UNCHANGED <<tree, names, world>>

\* A target that is gone or was replaced is refused.
InspectTarget(p) ==
  /\ proc[p].status = "inspect"
  /\ To(p, IF entry["taiwan_mof"] = p THEN "undo" ELSE "raised")
  /\ UNCHANGED <<tree, names, world>>

Undo(p) ==
  /\ proc[p].status = "undo"
  /\ entry' = [entry EXCEPT !["taiwan_mof"] = Nil]
  /\ disk' = [disk EXCEPT !["taiwan_mof"] = @ \cup {Nil}]
  /\ To(p, "settle")
  /\ UNCHANGED <<tree, world>>

\* The parent directory is synced before the stage is deleted.
Settle(p) ==
  /\ proc[p].status = "settle"
  /\ disk' = [disk EXCEPT !["taiwan_mof"] = {entry["taiwan_mof"]}]
  /\ tree' = [tree EXCEPT ![p] = Nil]
  /\ To(p, "raised")
  /\ UNCHANGED <<entry, world>>

-----------------------------------------------------------------------------
Rollback == {"inspect", "undo", "settle"}
CanFail == faults < MaxFaults /\ faults' = faults + 1

FailWithoutRollback(p) ==
  /\ proc[p].status = "running"
  /\ CanFail
  /\ Raise(p)
  /\ UNCHANGED <<job, names, published, removed, losses>>

\* An operation raises: a short or refused download, a stage that does not verify, a full
\* disk, a failed sync.
FailStep(p) ==
  /\ proc[p].status = "running"
  /\ CanFail
  /\ IF At(p, "identity") \/ (At(p, "sync_parent") /\ job[p] = "taiwan_mof")
       THEN To(p, "inspect") /\ UNCHANGED tree
       ELSE Raise(p)
  /\ UNCHANGED <<job, names, published, removed, losses>>

\* The rollback itself fails; whatever is there is left alone.
FailRollback(p) ==
  /\ proc[p].status \in Rollback
  /\ CanFail
  /\ To(p, "raised")
  /\ UNCHANGED <<job, tree, names, published, removed, losses>>

\* The process is killed.  Nobody looks at the stage that it leaves.
Kill(p) ==
  /\ proc[p].status \in {"running"} \cup Rollback
  /\ To(p, "dead")
  /\ tree' = IF p \in disk[job[p]] THEN tree ELSE [tree EXCEPT ![p] = Nil]
  /\ UNCHANGED <<names, world>>

\* What of a directory is sure to be found again.
Durable(d) ==
  {part \in d.parts : part \in d.safe /\ (part = "raw" => "subdirectory" \in d.safe)}

\* Every name leads to a directory that it may have on the disk; that directory keeps what
\* was synced and any part of the rest.
LosePower ==
  /\ losses < MaxLosses /\ losses' = losses + 1
  /\ proc' = [p \in Process |->
                IF proc[p].status \in {"running"} \cup Rollback THEN Fresh(p, "dead")
                ELSE proc[p]]
  /\ \E found \in [Acquired -> Inode \cup {Nil}] :
       /\ \A f \in DOMAIN found : found[f] \in disk[f]
       /\ entry' = [f \in Family |-> IF f \in DOMAIN found THEN found[f] ELSE entry[f]]
  /\ \E kept \in [Process -> SUBSET Part] :
       /\ \A p \in Process :
            IF entry'[job[p]] = p /\ tree[p] # Nil
              THEN Durable(tree[p]) \subseteq kept[p] /\ kept[p] \subseteq tree[p].parts
              ELSE kept[p] = {}
       /\ tree' = [i \in Inode |->
                     IF i \in Family \/ tree[i] = Nil THEN tree[i]
                     ELSE IF entry'[job[i]] # i THEN Nil
                     ELSE [tree[i] EXCEPT !.parts = kept[i],
                                          !.safe = kept[i] \cup {"subdirectory"}]]
  /\ disk' = [f \in Family |-> {entry'[f]}]
  /\ UNCHANGED <<job, published, removed, faults>>

\* A source publishes: a golden copy, or an archive of a source that is bound.  The other
\* archives come in one response, so that their versions are only labels.
PublishSource(f) ==
  /\ f \in ({"gleif"} \cup Bound) \cap Acquired
  /\ published[f] < (IF f = "gleif" THEN MaxCopies ELSE MaxArchives)
  /\ published' = [published EXCEPT ![f] = @ + 1]
  /\ UNCHANGED <<job, proc, tree, names, removed, faults, losses>>

\* Somebody changes a file of an installed snapshot.  What happens to the snapshots of
\* families that nobody acquires is covered where somebody does.
Touch(f) ==
  /\ f \in Acquired /\ entry[f] # Nil /\ ~tree[entry[f]].touched
  /\ CanFail
  /\ tree' = [tree EXCEPT ![entry[f]].touched = TRUE]
  /\ UNCHANGED <<job, proc, names, published, removed, losses>>

\* An operator deletes a snapshot, to acquire it again; but not between the two steps of a
\* rollback, of which the second moves whatever it finds.
Remove(f) ==
  /\ f \in Acquired /\ entry[f] # Nil /\ removed = {}
  /\ \A p \in Process : job[p] = f => proc[p].status # "undo"
  /\ removed' = {entry[f]}
  /\ tree' = [tree EXCEPT ![entry[f]] = Nil]
  /\ entry' = [entry EXCEPT ![f] = Nil] /\ disk' = [disk EXCEPT ![f] = {Nil}]
  /\ UNCHANGED <<job, proc, published, faults, losses>>

\* While one of the bound snapshots is acquired anew by a process, so is the other by somebody
\* else: deleted and installed in one step.
Reacquire(s) ==
  /\ s \in Bound \ Acquired /\ Bound \cap Acquired # {}
  /\ entry[s] = s
  /\ published[s] < MaxArchives
  /\ published' = [published EXCEPT ![s] = @ + 1]
  /\ tree' = [tree EXCEPT ![s].versions = {published'[s]}]
  /\ UNCHANGED <<job, proc, names, removed, faults, losses>>

Step(p) ==
  \/ CheckAbsent(p) \/ Download(p) \/ (\E s \in Bound : ReadSource(p, s))
  \/ MakeStage(p) \/ Fetch(p) \/ Rotate(p) \/ (\E s \in Part \cup {"files"} : Write(p, s))
  \/ (\E s \in {"sync", "sync_all"} : Sync(p, s)) \/ Rename(p) \/ SyncParent(p) \/ Reverify(p)
  \/ CheckIdentity(p) \/ InspectTarget(p) \/ Undo(p) \/ Settle(p)

Remembered == coexisted' = coexisted \cup {Sources'}

AcquisitionNext ==
  /\ \/ \E p \in Process : Begin(p) \/ Step(p) \/ FailStep(p) \/ FailRollback(p) \/ Kill(p)
     \/ LosePower
     \/ \E f \in Family : PublishSource(f) \/ Touch(f) \/ Remove(f) \/ Reacquire(f)
  /\ Remembered

\* A process that is neither killed nor starved goes on: nothing in it waits for others.
AcquisitionFairness == \A p \in Process : WF_avars(Step(p) /\ Remembered)

AcquisitionSpec == AcquisitionInit /\ [][AcquisitionNext]_avars /\ AcquisitionFairness

-----------------------------------------------------------------------------
\* The families whose plan syncs every directory of the stage.
Synced == Family \ {"eea_industrial"}

\* Whoever finds a directory at an output name finds all of it, after a power loss in the
\* middle of its installation as well; and a snapshot whose acquisition returned stays at
\* its name through power losses, other acquisitions and their rollbacks, until an operator
\* deletes it.
SnapshotsLast ==
  /\ \A f \in Synced : entry[f] # Nil => tree[entry[f]] # Nil /\ tree[entry[f]].parts = Part
  /\ \A p \in Process : proc[p].status = "done" => p \in removed \/ entry[job[p]] = p

\* The responses of a snapshot are of one golden copy, and a tax registry snapshot is
\* bound to two snapshots that were in place together, whatever was published, deleted or
\* acquired meanwhile.
OfOneMoment ==
  \A f \in Family : entry[f] \in Process =>
    /\ Cardinality(tree[entry[f]].versions) = 1
    /\ f = "taiwan_mof" => tree[entry[f]].bound \in coexisted

\* An acquisition that raised has removed its stage, and a tax registry snapshot its target
\* too, unless a second operation failed while it did so or the power went later.
FailureLeavesNothing ==
  \A p \in Process : proc[p].status = "raised" /\ faults <= 1 /\ losses = 0 =>
    tree[p] = Nil \/ (job[p] # "taiwan_mof" /\ entry[job[p]] = p)

\* Why an acquisition may raise.
Excused(p) ==
  \/ faults > 0 \/ removed # {}
  \/ job[p] = "taiwan_mof" /\ (\E s \in Bound : published[s] > 0)
  \/ entry[job[p]] \notin {Nil, p}
  \/ job[p] = "gleif" /\ published["gleif"] >= MaxAttempts

\* An acquisition ends; and only a fault, a deleted snapshot, a name taken by another or a
\* golden copy that changed in each attempt makes it end without its snapshot.
AcquisitionEnds ==
  \A p \in Process :
    proc[p].status = "running" ~> \/ proc[p].status \in {"done", "dead"}
                                  \/ proc[p].status = "raised" /\ Excused(p)
=============================================================================

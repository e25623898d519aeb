---------------------------- MODULE ReleaseInstall ----------------------------
(***************************************************************************)
(* How write_release of src/semiconductor_atlas/release.py replaces a      *)
(* release directory: the new files are staged in a fresh sibling, the old *)
(* directory is renamed to a backup, the stage is renamed to the output,   *)
(* the backup is deleted.  The writer may die or an operation may fail     *)
(* between any two of these; the next writer looks for the backup first.   *)
(*                                                                         *)
(* One writer works at a time; people put notes into the output or edit    *)
(* its files while none does.                                              *)
(***************************************************************************)
EXTENDS Naturals

CONSTANTS
  Note, NULL,
  MaxReleases,               \* bound: calls of write_release
  MaxCrashes, MaxFailures    \* bounds: faults

ASSUME ReleaseAssumption ==
  MaxReleases \in Nat /\ MaxCrashes \in Nat /\ MaxFailures \in Nat

VARIABLES
  output, backup,   \* the directories at the two names, or NULL
  stage,            \* the directory being prepared, or NULL
  pc,               \* the next step of write_release, or "idle"
  kept,             \* the unmanaged files that the writer found
  release,          \* the number of calls, which names the release being written
  crashes, failures

vars == <<output, backup, stage, pc, kept, release, crashes, failures>>

\* whole: every file that the manifest lists is there, and the manifest is.
Directory ==
  [release : 1 .. MaxReleases, whole : BOOLEAN, notes : SUBSET Note, edited : BOOLEAN]

ASSUME NullAssumption == NULL \notin Directory

TypeOK ==
  /\ output \in Directory \cup {NULL}
  /\ backup \in Directory \cup {NULL}
  /\ stage \in Directory \cup {NULL}
  /\ pc \in {"idle", "recover", "inspect", "recheck", "copy", "write", "aside", "publish",
             "discard"}
  /\ kept \subseteq Note
  /\ release \in 0 .. MaxReleases
  /\ crashes \in 0 .. MaxCrashes /\ failures \in 0 .. MaxFailures

Init ==
  /\ output = NULL /\ backup = NULL /\ stage = NULL
  /\ pc = "idle" /\ kept = {} /\ release = 0
  /\ crashes = 0 /\ failures = 0

Go(here, next) == pc = here /\ pc' = next

-----------------------------------------------------------------------------
Call ==
  /\ release < MaxReleases
  /\ Go("idle", "recover")
  /\ release' = release + 1
  /\ UNCHANGED <<output, backup, stage, kept, crashes, failures>>

RecoverAlways(here, next) ==
  /\ Go(here, next)
  /\ IF backup # NULL THEN output' = backup /\ backup' = NULL ELSE UNCHANGED <<output, backup>>

\* _recover_interrupted_install: a backup goes back to its place, and a backup
\* beside an output ends the call.
Recover(here, next) ==
  /\ IF backup # NULL /\ output # NULL THEN Go(here, "idle") ELSE Go(here, next)
  /\ IF backup # NULL /\ output = NULL
       THEN output' = backup /\ backup' = NULL
       ELSE UNCHANGED <<output, backup>>

RecoverFirst ==
  /\ Recover("recover", "inspect")
  /\ UNCHANGED <<stage, kept, release, crashes, failures>>

\* _existing_release_files: files that differ from the manifest, or are missing, end
\* the call; files the manifest does not list are kept.
Inspect ==
  /\ IF output # NULL
       THEN IF output.whole /\ ~output.edited
              THEN Go("inspect", "recheck") /\ kept' = output.notes
              ELSE Go("inspect", "idle") /\ UNCHANGED kept
       ELSE Go("inspect", "recheck") /\ kept' = {}
  /\ UNCHANGED <<output, backup, stage, release, crashes, failures>>

RecoverAgain ==
  /\ Recover("recheck", "copy")
  /\ UNCHANGED <<stage, kept, release, crashes, failures>>

Copy ==
  /\ Go("copy", "write")
  /\ stage' = [release |-> release, whole |-> FALSE, notes |-> kept, edited |-> FALSE]
  /\ UNCHANGED <<output, backup, kept, release, crashes, failures>>

WriteFiles ==
  /\ Go("write", "aside")
  /\ stage' = [stage EXCEPT !.whole = TRUE]
  /\ UNCHANGED <<output, backup, kept, release, crashes, failures>>

AsideByDeleting ==
  /\ Go("aside", "publish")
  /\ output' = NULL
  /\ UNCHANGED <<backup, stage, kept, release, crashes, failures>>

SetAside ==
  /\ Go("aside", "publish")
  /\ IF output # NULL THEN backup' = output /\ output' = NULL ELSE UNCHANGED <<output, backup>>
  /\ UNCHANGED <<stage, kept, release, crashes, failures>>

Publish ==
  /\ Go("publish", "discard")
  /\ output' = stage /\ stage' = NULL
  /\ UNCHANGED <<backup, kept, release, crashes, failures>>

\* Deleting a directory tree takes many steps.
Discard ==
  /\ \/ backup # NULL /\ Go("discard", "discard") /\ backup.whole
        /\ backup' = [backup EXCEPT !.whole = FALSE]
     \/ (backup # NULL => ~backup.whole) /\ Go("discard", "idle") /\ backup' = NULL
  /\ UNCHANGED <<output, stage, kept, release, crashes, failures>>

-----------------------------------------------------------------------------
NoRestore == UNCHANGED <<output, backup>>

\* The rename of the stage failed: the old directory is put back.
Restore ==
  IF pc = "publish" /\ output = NULL /\ backup # NULL
    THEN output' = backup /\ backup' = NULL
    ELSE UNCHANGED <<output, backup>>

\* An operation of the installation raises; the stage is removed.
Fail ==
  /\ pc \in {"copy", "write", "aside", "publish", "discard"}
  /\ failures < MaxFailures /\ failures' = failures + 1
  /\ Restore
  /\ pc' = "idle" /\ stage' = NULL
  /\ UNCHANGED <<kept, release, crashes>>

\* The process dies.  Its stage has a fresh name that nobody looks at again.
Crash ==
  /\ pc # "idle"
  /\ crashes < MaxCrashes /\ crashes' = crashes + 1
  /\ pc' = "idle" /\ stage' = NULL
  /\ UNCHANGED <<output, backup, kept, release, failures>>

\* People: notes and edits in the output; a backup that ended a call is inspected
\* and removed.
AddNote(n) ==
  /\ pc = "idle" /\ output # NULL
  /\ output' = [output EXCEPT !.notes = @ \cup {n}]
  /\ UNCHANGED <<backup, stage, pc, kept, release, crashes, failures>>

Edit ==
  /\ pc = "idle" /\ output # NULL
  /\ output' = [output EXCEPT !.edited = TRUE]
  /\ UNCHANGED <<backup, stage, pc, kept, release, crashes, failures>>

RemoveBackup ==
  /\ pc = "idle" /\ output # NULL /\ backup # NULL
  /\ backup' = NULL
  /\ UNCHANGED <<output, stage, pc, kept, release, crashes, failures>>

Next ==
  \/ Call \/ RecoverFirst \/ Inspect \/ RecoverAgain
  \/ Copy \/ WriteFiles \/ SetAside \/ Publish \/ Discard
  \/ Fail \/ Crash
  \/ (\E n \in Note : AddNote(n)) \/ Edit \/ RemoveBackup

Spec == Init /\ [][Next]_vars

-----------------------------------------------------------------------------
\* A reader of the output never sees a part of a release, not even after the
\* recovery of a writer that died while it was deleting a backup.
OutputIsWhole == output # NULL => output.whole

\* A write that fails leaves the release where it was; only a writer that dies
\* leaves it under the backup's name.
OnlyCrashesHide == pc = "idle" /\ output = NULL /\ backup # NULL => crashes > 0

\* The release that is there or that the next writer restores.
ContentOf(d) == [release |-> d.release, notes |-> d.notes, edited |-> d.edited]

Shown ==
  LET directory == IF output # NULL THEN output ELSE backup
  IN IF directory = NULL THEN NULL ELSE ContentOf(directory)

Published == INSTANCE Publication WITH shown <- Shown

ASSUME ContentAssumption == NULL \notin Published!Content

\* The directories implement a publication: through crashes, failed operations and
\* recoveries the release changes in one step, to a newer one, with all its notes;
\* an edited release stays.
ImplementsPublication == Published!Spec
=============================================================================

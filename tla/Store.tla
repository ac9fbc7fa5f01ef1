------------------------------- MODULE Store -------------------------------
(***************************************************************************)
(* The two stores every workflow works on: the git branch that holds the   *)
(* job file of one repository, and the R2 prefix that holds its objects.   *)
(*                                                                         *)
(* A workflow run works on the commit its event was triggered at, however  *)
(* long it waits for the state-write concurrency group.  It publishes with *)
(* git commit, git pull --rebase, git push; every save rewrites            *)
(* updated_utc, so the rebase conflicts and nothing is published once      *)
(* another run has published the same job file.                            *)
(***************************************************************************)
EXTENDS JobState

CONSTANTS Run,        \* slots for grab runs in flight (bounds their number)
          Sweeper,    \* the running sweep, as the holder of a checkout
          Queued,     \* the sweep waiting for the concurrency group
          MaxRev,     \* bound: revisions the model repository publishes
          SameSize,   \* paths whose size is the same in every revision
          NoObject    \* an R2 key that holds nothing

INSTANCE Objects

Holder == Run \cup {Sweeper, Queued}

ASSUME StoreAssumption ==
    /\ MaxRev \in Nat \ {0}
    /\ SameSize \subseteq Path
    /\ NoObject \notin Object
    /\ Sweeper # Queued
    /\ {Sweeper, Queued} \cap Run = {}

VARIABLES head,    \* the job file at the head of the branch, or NoJob
          rev,     \* the revision head was planned for (0: no job yet)
          fresh,   \* the holders whose checkout still has head's job file
          r2       \* the objects below the safe_name prefix

storeVars == <<head, rev, fresh, r2>>

\* A job of the archive: planned for every path, status and trust agreeing.
ArchiveJob == {j \in [status: Statuses, trusted: Statuses, files: [Path -> FileState]] :
                  j.trusted = j.status}

PlannedJob == SetFiles(NewJob, Path)

StoreInit ==
    /\ head = NoJob
    /\ rev = 0
    /\ fresh = {}
    /\ r2 = [p \in Path |-> NoObject]

-----------------------------------------------------------------------------
(* The branch                                                              *)

\* git commit, pull --rebase and push of the job file, by a holder whose
\* checkout is fresh; only the holders in left go on from the new commit.
Publish(job, left) ==
    /\ head' = job
    /\ fresh' = left
=============================================================================

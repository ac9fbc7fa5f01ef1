---------------------------- MODULE JobLifecycle ----------------------------
(***************************************************************************)
(* One job at one revision, driven through the API of lib/state.py by one  *)
(* process at a time: the job object the process holds in memory and the   *)
(* state file on disk.  An operation whose Can... condition fails raises   *)
(* and ends the process, which is what Crash stands for; so does a process *)
(* that simply dies between two calls.                                     *)
(***************************************************************************)
EXTENDS JobState

VARIABLES mem,   \* the job object of the running process, or NoJob
          disk   \* state/jobs/<safe_name>.json, or NoJob

vars == <<mem, disk>>

Init == mem = NoJob /\ disk = NoJob

-----------------------------------------------------------------------------
(* The process and the state file                                          *)

Create ==
    /\ mem = NoJob
    /\ disk = NoJob
    /\ mem' = NewJob
    /\ UNCHANGED disk

Load ==
    /\ mem = NoJob
    /\ disk # NoJob
    /\ mem' = Saved(disk)
    /\ UNCHANGED disk

\* os.replace makes the write atomic: a crash leaves the old file or the new.
Save ==
    /\ mem # NoJob
    /\ CanSave(mem)
    /\ mem' = Saved(mem)
    /\ disk' = Saved(mem)

Crash ==
    /\ mem # NoJob
    /\ mem' = NoJob
    /\ UNCHANGED disk

-----------------------------------------------------------------------------
(* The operations on the job in memory                                     *)

Update(job) ==
    /\ mem' = job
    /\ UNCHANGED disk

PlanFiles(paths) ==
    /\ mem # NoJob
    /\ CanSetFiles(mem)
    /\ Update(SetFiles(mem, paths))

FileUploaded(p, obs) ==
    /\ mem # NoJob
    /\ CanMarkUploaded(mem, p, obs)
    /\ Update(MarkUploaded(mem, p, obs))

FileVerified(p) ==
    /\ mem # NoJob
    /\ CanMarkVerified(mem, p)
    /\ Update(MarkVerified(mem, p))

FileFailed(p) ==
    /\ mem # NoJob
    /\ CanRecordFailure(mem, p)
    /\ Update(RecordFailure(mem, p))

FileReset(p) ==
    /\ mem # NoJob
    /\ CanResetFile(mem, p)
    /\ Update(ResetFile(mem, p))

StatusRecomputed ==
    /\ mem # NoJob
    /\ CanRecompute(mem)
    /\ Update(Recompute(mem))

ResultsMerged(results) ==
    /\ mem # NoJob
    /\ CanMerge(mem, results)
    /\ \E job \in MergeOutcomes(mem, results) : Update(job)

\* The two statuses callers assign themselves: the watcher blocks a planned
\* job, verify_local.sh confirms a verified one.
AssignFailed ==
    /\ mem # NoJob
    /\ mem.status \in {"discovered", "planned"}
    /\ Update([mem EXCEPT !.status = "failed"])

AssignPulled ==
    /\ mem # NoJob
    /\ mem.status = "verified"
    /\ Update([mem EXCEPT !.status = "pulled"])

Results == UNION {[P -> ShardResult] : P \in SUBSET Path}

Next ==
    \/ Create \/ Load \/ Save \/ Crash
    \/ \E paths \in SUBSET Path : PlanFiles(paths)
    \/ \E p \in Path :
          \/ \E obs \in Observed : FileUploaded(p, obs)
          \/ FileVerified(p)
          \/ FileFailed(p)
          \/ FileReset(p)
    \/ StatusRecomputed
    \/ \E results \in Results : ResultsMerged(results)
    \/ AssignFailed
    \/ AssignPulled

Spec == Init /\ [][Next]_vars

-----------------------------------------------------------------------------
(* Properties                                                              *)

\* The job in memory and the state file have the shape of a job, no counter
\* runs past the poison pill, and the file holds no status its writer did not
\* trust.
TypeOK ==
    /\ mem \in Job \cup {NoJob}
    /\ disk \in Job \cup {NoJob}
    /\ disk # NoJob => disk.trusted = disk.status

\* No sequence of calls that the API accepts wedges a job: whatever a process
\* holds in memory, save() would accept it (its transition check and
\* _validate_job).  The status is derived, assigned, retried and failed by
\* different functions, so nothing but their agreement makes this true.
EveryJobSaves == mem # NoJob => CanSave(mem)

\* The poison pill: at most one file of a job runs out of attempts, and from
\* that call on the job is failed.
PoisonPill ==
    /\ mem # NoJob => PoisonPillOf(mem)
    /\ disk # NoJob => PoisonPillOf(disk)

\* No retry, reset, merge or restart of the process gives a file its attempts
\* back, and the file plan never changes once it is written.
RetryBudgetNeverRefunded ==
    [][disk # NoJob => disk' # NoJob /\ NoRefund(disk, disk')]_vars

\* The state file never re-enters planning, and failed and pulled are final,
\* although save() compares only with the status the job object trusts and
\* every derivation and retry moves that one too.
StatusNeverReverts ==
    [][disk # NoJob => disk' # NoJob /\ NoRevert(disk, disk')]_vars
=============================================================================

------------------------- MODULE JobLifecycleProofs -------------------------
(***************************************************************************)
(* JobLifecycle for every set of paths and every number of attempts: a     *)
(* process and its state file never hold a job the API cannot go on with,  *)
(* and what is in memory always follows what is on disk.                   *)
(***************************************************************************)
EXTENDS JobLifecycle, JobStateProofs

\* Both jobs are good, and the one in memory came out of the one on disk.
IInv ==
    /\ mem # NoJob => Good(mem)
    /\ disk # NoJob => Good(disk) /\ disk.trusted = disk.status
    /\ mem # NoJob /\ disk # NoJob => Follows(disk, mem)

-----------------------------------------------------------------------------
(* The process and the state file                                          *)

\* A step that replaces the job in memory by a good one that follows it.
LEMMA UpdateInvariant ==
    ASSUME IInv, mem # NoJob, NEW job, Good(job), Follows(mem, job), Update(job)
    PROVE  IInv'
<1>1. job # NoJob
  BY JobStateAssumption DEF Good, Sound
<1>2. mem' = job /\ disk' = disk
  BY DEF Update
<1>3. disk # NoJob => Follows(disk, job)
  BY FollowsTransitive DEF IInv, Good
<1> QED  BY <1>1, <1>2, <1>3 DEF IInv

\* The initial state satisfies the invariant.
LEMMA InitInvariant == Init => IInv
BY DEF Init, IInv

\* Every step of a process keeps the invariant.
LEMMA NextInvariant == IInv /\ Next => IInv'
<1> SUFFICES ASSUME IInv, Next
             PROVE  IInv'
  OBVIOUS
<1>0. mem # NoJob => Sound(mem)
  BY DEF IInv, Good
<1>1. CASE Create
  <2>1. mem' = NewJob /\ disk' = NoJob
    BY <1>1 DEF Create
  <2>2. DOMAIN NewJob.files = {} /\ NewJob.status = "discovered" /\ NewJob.trusted = "discovered"
    BY DEF NewJob
  <2>3. NewJob.files \in [{} -> FileState]
    BY DEF NewJob
  <2>4. NewJob \in Job
    BY <2>3 DEF NewJob, Job, Statuses
  <2>5. Good(NewJob)
    BY <2>2, <2>4 DEF Good, Sound, ValidJob, ValidFiles, PoisonPillOf, Gap
  <2> QED  BY <2>1, <2>5 DEF IInv
<1>2. CASE Load
  <2>1. disk # NoJob /\ mem' = Saved(disk) /\ disk' = disk
    BY <1>2 DEF Load
  <2>2. Good(disk) /\ disk.trusted = disk.status
    BY <2>1 DEF IInv
  <2>3. /\ Good(Saved(disk))
        /\ Saved(disk).status = disk.status
        /\ Saved(disk).files = disk.files
    BY <2>2, SavedGood
  <2>4. Follows(disk, Saved(disk))
    BY <2>2, <2>3, FollowsItself DEF Good, Follows, NoRefund, NoRevert
  <2> QED  BY <2>1, <2>2, <2>3, <2>4 DEF IInv
<1>3. CASE Save
  <2>1. mem # NoJob /\ mem' = Saved(mem) /\ disk' = Saved(mem)
    BY <1>3 DEF Save
  <2>2. /\ Good(Saved(mem))
        /\ Saved(mem).trusted = Saved(mem).status
    BY <2>1, SavedGood DEF IInv
  <2>3. Follows(Saved(mem), Saved(mem))
    BY <2>2, FollowsItself DEF Good
  <2> QED  BY <2>1, <2>2, <2>3 DEF IInv
<1>4. CASE Crash
  BY <1>4 DEF Crash, IInv
<1>5. ASSUME NEW paths \in SUBSET Path, PlanFiles(paths)
      PROVE  IInv'
  BY <1>0, <1>5, SetFilesGood, UpdateInvariant DEF PlanFiles
<1>6. ASSUME NEW p \in Path, NEW obs \in Observed, FileUploaded(p, obs)
      PROVE  IInv'
  BY <1>0, <1>6, MarkUploadedGood, UpdateInvariant DEF FileUploaded
<1>7. ASSUME NEW p \in Path, FileVerified(p)
      PROVE  IInv'
  BY <1>0, <1>7, MarkVerifiedGood, UpdateInvariant DEF FileVerified
<1>8. ASSUME NEW p \in Path, FileFailed(p)
      PROVE  IInv'
  <2>1. mem # NoJob /\ Update(RecordFailure(mem, p))
    BY <1>8 DEF FileFailed
  <2>2. /\ mem.status = "failed" \/ p \in DOMAIN mem.files
        /\ mem.status # "pulled"
    BY <1>8 DEF FileFailed, CanRecordFailure
  <2>3. Good(RecordFailure(mem, p)) /\ Follows(mem, RecordFailure(mem, p))
    BY <1>0, <2>1, <2>2, RecordFailureSound DEF IInv
  <2> QED  BY <2>1, <2>3, UpdateInvariant
<1>9. ASSUME NEW p \in Path, FileReset(p)
      PROVE  IInv'
  BY <1>0, <1>9, ResetFileGood, UpdateInvariant DEF FileReset
<1>10. CASE StatusRecomputed
  BY <1>0, <1>10, RecomputeGood, UpdateInvariant DEF StatusRecomputed
<1>11. ASSUME NEW results \in Results, ResultsMerged(results)
       PROVE  IInv'
  <2>1. PICK job \in MergeOutcomes(mem, results) : Update(job)
    BY <1>11 DEF ResultsMerged
  <2>2. mem # NoJob /\ CanMerge(mem, results)
    BY <1>11 DEF ResultsMerged
  <2>3. Good(job) /\ Follows(mem, job)
    BY <1>0, <2>2, MergeGood
  <2> QED  BY <2>1, <2>2, <2>3, UpdateInvariant
<1>12. ASSUME NEW s, s = "failed" \/ s = "pulled", mem # NoJob,
              s = "failed" => mem.status \in {"discovered", "planned"},
              s = "pulled" => mem.status = "verified",
              Update([mem EXCEPT !.status = s])
       PROVE  IInv'
  <2> DEFINE job == [mem EXCEPT !.status = s]
  <2>1. Good(mem) /\ mem \in Job
    BY <1>12 DEF IInv, Good, Sound
  <2>2. /\ job \in Job
        /\ job.status = s
        /\ job.trusted = mem.trusted
        /\ job.files = mem.files
    BY <1>12, <2>1 DEF Job, Statuses
  <2>3. mem.trusted = mem.status
    BY <1>12, <2>1 DEF Good, Sound, Gap
  <2>4. ValidJob(job) /\ PoisonPillOf(job)
    BY <1>12, <2>1, <2>2 DEF Good, Sound, ValidJob, PoisonPillOf
  <2>5. Good(job)
    BY <1>12, <2>1, <2>2, <2>3, <2>4 DEF Good, Sound, Gap, ValidJob
  <2>6. Follows(mem, job)
    BY <1>12, <2>1, <2>2, FollowsItself DEF Good, Follows, NoRefund, NoRevert
  <2> QED  BY <1>12, <2>5, <2>6, UpdateInvariant
<1>13. CASE AssignFailed
  BY <1>12, <1>13 DEF AssignFailed
<1>14. CASE AssignPulled
  BY <1>12, <1>14 DEF AssignPulled
<1> QED
  BY <1>1, <1>2, <1>3, <1>4, <1>5, <1>6, <1>7, <1>8, <1>9, <1>10, <1>11, <1>13, <1>14
     DEF Next

-----------------------------------------------------------------------------
(* The theorems                                                            *)

\* The inductive invariant holds in every reachable state.
THEOREM Invariance == Spec => []IInv
<1>1. IInv /\ UNCHANGED vars => IInv'
  BY DEF IInv, vars
<1> QED  BY <1>1, InitInvariant, NextInvariant, PTL DEF Spec

\* Jobs keep their shape, and no counter runs past the poison pill, whatever
\* the paths and the number of attempts.
THEOREM TypeCorrect == Spec => []TypeOK
<1>1. IInv => TypeOK
  BY DEF IInv, TypeOK, Good, Sound
<1> QED  BY <1>1, Invariance, PTL

\* Whatever calls the API accepted, save() accepts the job they left.
THEOREM JobsAlwaysSave == Spec => []EveryJobSaves
<1>1. IInv => EveryJobSaves
  BY GapSynchronizes DEF IInv, EveryJobSaves, CanSave, Good, Sound
<1> QED  BY <1>1, Invariance, PTL

\* The poison pill is in force in memory and on disk.
THEOREM PillInForce == Spec => []PoisonPill
<1>1. IInv => PoisonPill
  BY DEF IInv, PoisonPill, Good, Sound
<1> QED  BY <1>1, Invariance, PTL

\* What a step writes to the state file follows what was there.
LEMMA DiskFollows ==
    ASSUME IInv, [Next]_vars, disk # NoJob
    PROVE  disk' # NoJob /\ Follows(disk, disk')
<1>1. CASE Save
  <2>1. mem # NoJob /\ disk' = Saved(mem) /\ Good(mem)
    BY <1>1 DEF Save, IInv
  <2>2. /\ Saved(mem).status = mem.status
        /\ Saved(mem).files = mem.files
        /\ Saved(mem) # NoJob
    BY <2>1, SavedGood
  <2>3. Follows(disk, mem)
    BY <2>1 DEF IInv
  <2> QED  BY <2>1, <2>2, <2>3 DEF Follows, NoRefund, NoRevert
<1>2. CASE ~Save
  <2>1. disk' = disk
    BY <1>2 DEF Next, vars, Create, Load, Crash, PlanFiles, FileUploaded, FileVerified,
                FileFailed, FileReset, StatusRecomputed, ResultsMerged, AssignFailed,
                AssignPulled, Update
  <2>2. Follows(disk, disk)
    BY FollowsItself DEF IInv, Good
  <2> QED  BY <2>1, <2>2
<1> QED  BY <1>1, <1>2

\* No step of any process refunds an attempt or changes the file plan on disk.
THEOREM BudgetKept == Spec => RetryBudgetNeverRefunded
<1>1. IInv /\ [Next]_vars => [disk # NoJob => disk' # NoJob /\ NoRefund(disk, disk')]_vars
  BY DiskFollows DEF Follows
<1> QED  BY <1>1, Invariance, PTL DEF Spec, RetryBudgetNeverRefunded

\* The state file never re-enters planning and never leaves failed or pulled.
THEOREM StatusKept == Spec => StatusNeverReverts
<1>1. IInv /\ [Next]_vars => [disk # NoJob => disk' # NoJob /\ NoRevert(disk, disk')]_vars
  BY DiskFollows DEF Follows
<1> QED  BY <1>1, Invariance, PTL DEF Spec, StatusNeverReverts
=============================================================================

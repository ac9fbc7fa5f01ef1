---------------------------- MODULE ArchiveProofs ----------------------------
(***************************************************************************)
(* The archival of one repository for any files, revisions, attempts and   *)
(* number of grab runs.                                                    *)
(*                                                                         *)
(* Every job a process holds is one it may save, and a holder whose        *)
(* checkout is fresh works on a job that is the head or has come from it   *)
(* by charging attempts and nothing else but read-backs and withdrawals.   *)
(* A stale holder publishes nothing, so its job matters to nobody else.    *)
(***************************************************************************)
EXTENDS Archive, JobStateProofs

\* A job some process holds: planned for every path, trusted, and what its
\* status says of its files.
Steady(job) ==
    /\ job \in ArchiveJob
    /\ ValidJob(job)
    /\ PoisonPillOf(job)
    /\ job.status \notin {"discovered", "pulled"}
    /\ job.status = "uploading" => ~AllUploaded(job.files)

\* No file got an attempt back, and none was charged more than one.
ChargesOnce(old, new) ==
    \A p \in Path :
       new.files[p].attempts \in {old.files[p].attempts, old.files[p].attempts + 1}

\* No file was charged.
ChargesNothing(old, new) ==
    \A p \in Path : new.files[p].attempts = old.files[p].attempts

\* Every verified file of a job planned for revision v was read back.
Backed(job, v, readbacks) ==
    \A p \in Path : job.files[p].verified => <<p, v>> \in readbacks

\* The sweep may still verify or punish p: the job goes on and holds it.
Unsettled(job, p) == job.status # "failed" /\ job.files[p].uploaded

\* What a sweep knows of its own job at each stage.
Careful(s) ==
    /\ Steady(s.job)
    /\ s.pc \in {"list", "purge"} => s.job.status \notin TerminalStates
    /\ s.dirty => s.job.status # "planned"
    /\ s.job.status = "failed" => \E p \in Path : Exhausted(s.job.files[p])
    /\ s.pc = "persist" => PendingUploads(s.job) # {}
    /\ s.pc \in {"verify", "punish", "record"} =>
          \A p \in s.todo : Unsettled(s.job, p)
    /\ s.pc \in {"punish", "record"} =>
          s.todo \cap s.bad = {} /\ \A p \in s.bad : Unsettled(s.job, p)

\* The files a sweep may still charge, if their objects prove bad.
Unread(s) ==
    {p \in Path :
        \/ s.pc \in {"list", "purge"}
        \/ s.pc \in {"verify", "punish", "record"} /\ p \in s.todo
        \/ s.pc \in {"punish", "record"} /\ p \in s.bad}

\* A sweep has charged each file of the job it works on at most once, and none
\* of those it has not read back.
ChargesInTurn(job, s) ==
    /\ ChargesOnce(job, s.job)
    /\ \A p \in Unread(s) : s.job.files[p].attempts = job.files[p].attempts

HeadHolds ==
    head # NoJob => Steady(head) /\ rev # 0 /\ Backed(head, rev, evidence)

QueuedHolds ==
    queued # NoSweep =>
       /\ head # NoJob
       /\ Steady(queued.job)
       /\ Backed(queued.job, queued.rev, evidence)
       /\ Queued \in fresh => queued.job = head /\ queued.rev = rev

SweepHolds ==
    sweep # NoSweep =>
       /\ head # NoJob
       /\ Careful(sweep)
       /\ Backed(sweep.job, sweep.rev, evidence)
       /\ Sweeper \in fresh => /\ head.status \notin TerminalStates
                               /\ sweep.rev = rev
                               /\ ChargesInTurn(head, sweep)

\* A run whose checkout is fresh was started on an unfinished head.
RunsHold ==
    \A r \in Run : runs[r] # NoRun /\ r \in fresh =>
       head # NoJob /\ head.status \notin TerminalStates

IInv == TypeOK /\ HeadHolds /\ QueuedHolds /\ SweepHolds /\ RunsHold

\* What a step may do to the published job: leave it, plan the next revision,
\* or let an unfinished job progress.
Advances(old, new) ==
    /\ Steady(new)
    /\ new.status \in {"uploading", "verifying", "verified", "failed"}
    /\ new.status = "failed" => \E p \in Path : Exhausted(new.files[p])
    /\ ChargesOnce(old, new)

HeadStep ==
    \/ UNCHANGED <<head, rev>>
    \/ /\ rev' = rev + 1
       /\ head' \in {PlannedJob, WithStatus(PlannedJob, "failed")}
    \/ /\ rev' = rev
       /\ head # NoJob
       /\ head.status \notin TerminalStates
       /\ Advances(head, head')

-----------------------------------------------------------------------------
(* What the operations make of a steady job                                *)

\* A steady job, field by field; every call on it goes through.
LEMMA SteadyFields ==
    ASSUME NEW job, Steady(job)
    PROVE  /\ job \in Job
           /\ job # NoJob
           /\ job.status \in Statuses
           /\ job.trusted = job.status
           /\ job.files \in [Path -> FileState]
           /\ DOMAIN job.files = Path
           /\ \A p \in Path : /\ job.files[p].attempts \in Nat
                              /\ job.files[p].uploaded \in BOOLEAN
                              /\ job.files[p].verified \in BOOLEAN
           /\ ValidFiles(job.files)
           /\ CanSave(job)
           /\ CanRecompute(job)
           /\ Good(job)
<1>1. /\ job.status \in Statuses
      /\ job.trusted = job.status
      /\ job.files \in [Path -> FileState]
      /\ job = [status |-> job.status, trusted |-> job.trusted, files |-> job.files]
    BY DEF Steady, ArchiveJob
<1>2. DOMAIN job.files = Path
    BY <1>1
<1>3. job \in Job
    BY <1>1, <1>2, JobFields
<1>4. \A p \in Path : /\ job.files[p].attempts \in Nat
                      /\ job.files[p].uploaded \in BOOLEAN
                      /\ job.files[p].verified \in BOOLEAN
    BY <1>1, JobStateAssumption DEF FileState
<1>5. ValidFiles(job.files)
    BY DEF Steady, ValidJob
<1>6. Synchronizes(job)
    BY <1>1 DEF Synchronizes, Allowed
<1>7. Sound(job)
    BY <1>1, <1>3, <1>5 DEF Sound, Steady, Gap
<1> QED
    BY <1>1, <1>2, <1>3, <1>4, <1>5, <1>6, <1>7, JobStateAssumption
       DEF CanSave, CanRecompute, Good, Steady

\* A status and the progress of every path make a job of the archive.
LEMMA ArchiveJobMade ==
    ASSUME NEW job, Steady(job), NEW s \in Statuses,
           NEW files \in [Path -> FileState]
    PROVE  LET made == WithStatus([job EXCEPT !.files = files], s)
           IN  /\ made \in ArchiveJob
               /\ made.status = s
               /\ made.files = files
<1>1. WithStatus([job EXCEPT !.files = files], s)
        = [status |-> s, trusted |-> s, files |-> files]
  <2>1. job \in Job
      BY SteadyFields
  <2> QED
      BY <2>1, WithStatusRecord
<1> QED
    BY <1>1 DEF ArchiveJob

\* New progress of the files, the status derived from it.
LEMMA RecomputedSteady ==
    ASSUME NEW job, Steady(job), job.status # "failed",
           NEW files \in [Path -> FileState], ValidFiles(files),
           \A p \in Path : ~Exhausted(files[p])
    PROVE  LET new == Recompute([job EXCEPT !.files = files])
           IN  /\ Steady(new)
               /\ new.files = files
               /\ new.status = DerivedStatus(files)
               /\ new.status \in {"uploading", "verifying", "verified"}
<1> DEFINE mid == [job EXCEPT !.files = files]
           s == DerivedStatus(files)
           new == Recompute(mid)
<1>1. job \in Job /\ DOMAIN job.files = Path
    BY SteadyFields
<1>2. mid.status = job.status /\ mid.files = files
    BY <1>1, FilesFields
<1>3. mid.status \notin {"failed", "pulled", "discovered"}
    BY <1>2 DEF Steady
<1>4. new = WithStatus(mid, s)
    BY <1>2, <1>3 DEF Recompute
<1>5. s \in {"uploading", "verifying", "verified"} /\ s \in Statuses
    BY DEF DerivedStatus, Statuses
<1>6. new \in ArchiveJob /\ new.status = s /\ new.files = files
    BY <1>4, <1>5, ArchiveJobMade
<1> HIDE DEF new
<1>7. ValidJob(new) /\ (new.status = "uploading" => ~AllUploaded(new.files))
    BY <1>5, <1>6 DEF ValidJob, DerivedStatus
<1>8. PoisonPillOf(new)
    BY <1>6 DEF PoisonPillOf
<1> QED
    BY <1>5, <1>6, <1>7, <1>8 DEF Steady, new

\* New progress of the files, one of them out of attempts.
LEMMA FailedSteady ==
    ASSUME NEW job, Steady(job),
           NEW files \in [Path -> FileState], ValidFiles(files),
           \A p, q \in Path : Exhausted(files[p]) /\ Exhausted(files[q]) => p = q
    PROVE  LET new == WithStatus([job EXCEPT !.files = files], "failed")
           IN  /\ Steady(new)
               /\ new.files = files
               /\ new.status = "failed"
<1> DEFINE new == WithStatus([job EXCEPT !.files = files], "failed")
<1>1. new \in ArchiveJob /\ new.status = "failed" /\ new.files = files
    BY ArchiveJobMade DEF Statuses
<1> HIDE DEF new
<1>2. ValidJob(new) /\ PoisonPillOf(new)
    BY <1>1 DEF ValidJob, PoisonPillOf
<1> QED
    BY <1>1, <1>2 DEF Steady, new

\* A job that has not failed has attempts left for every file.
LEMMA AttemptsLeft ==
    ASSUME NEW job, Steady(job), job.status # "failed"
    PROVE  \A p \in Path : ~Exhausted(job.files[p])
BY SteadyFields DEF Steady, PoisonPillOf

\* What the watcher publishes: no file has any progress.
LEMMA PlannedSteady ==
    LET blocked == WithStatus(PlannedJob, "failed")
    IN  /\ Steady(PlannedJob) /\ PlannedJob.status = "planned"
        /\ Steady(blocked) /\ blocked.status = "failed"
        /\ \A p \in Path : PlannedJob.files[p] = NewFile /\ blocked.files[p] = NewFile
<1> DEFINE files == [p \in Path |-> NewFile]
           blocked == WithStatus(PlannedJob, "failed")
<1>1. NewFile \in FileState /\ ~Exhausted(NewFile) /\ ~NewFile.uploaded /\ ~NewFile.verified
    BY JobStateAssumption DEF NewFile, FileWith, FileState, Exhausted
<1>2. /\ PlannedJob = [status |-> "planned", trusted |-> "planned", files |-> files]
      /\ blocked = [status |-> "failed", trusted |-> "failed", files |-> files]
    BY DEF PlannedJob, SetFiles, NewJob, WithStatus
<1>3. files \in [Path -> FileState] /\ \A p \in Path : files[p] = NewFile
    BY <1>1
<1>4. PlannedJob \in ArchiveJob /\ blocked \in ArchiveJob
    BY <1>2, <1>3 DEF ArchiveJob, Statuses
<1>5. /\ PlannedJob.status = "planned" /\ PlannedJob.files = files
      /\ blocked.status = "failed" /\ blocked.files = files
    BY <1>2
<1> HIDE DEF files, blocked
<1>6. ValidJob(PlannedJob) /\ ValidJob(blocked)
    BY <1>1, <1>3, <1>5 DEF ValidJob, ValidFiles
<1>7. PoisonPillOf(PlannedJob) /\ PoisonPillOf(blocked)
    BY <1>1, <1>3, <1>5 DEF PoisonPillOf
<1> QED
    BY <1>3, <1>4, <1>5, <1>6, <1>7 DEF Steady, blocked

\* Reconciling with a listing withdraws and recovers uploads, no more.
LEMMA ReconciledSteady ==
    ASSUME NEW job, Steady(job), job.status \notin TerminalStates, NEW listing
    PROVE  LET new == Reconciled(job, listing)
           IN  /\ Steady(new)
               /\ new.status \in {"uploading", "verifying", "verified"}
               /\ ChargesNothing(job, new)
               /\ \A p \in Path : new.files[p].verified => job.files[p].verified
<1> DEFINE files == [p \in Path |->
                        IF listing[p] = "present"
                        THEN [job.files[p] EXCEPT !.uploaded = TRUE]
                        ELSE [job.files[p] EXCEPT !.uploaded = FALSE, !.verified = FALSE]]
<1>1. job.status # "failed" /\ DOMAIN job.files = Path /\ job.files \in [Path -> FileState]
    BY SteadyFields DEF TerminalStates
<1>2. Reconciled(job, listing) = Recompute([job EXCEPT !.files = files])
  <2>1. [job EXCEPT !.files =
            [p \in DOMAIN @ |->
                IF listing[p] = "present" THEN [@[p] EXCEPT !.uploaded = TRUE]
                ELSE [@[p] EXCEPT !.uploaded = FALSE, !.verified = FALSE]]]
          = [job EXCEPT !.files = files]
      BY <1>1
  <2> QED
      BY <2>1 DEF Reconciled
<1>3. \A p \in Path : /\ files[p] \in FileState
                      /\ files[p].attempts = job.files[p].attempts
                      /\ files[p].verified => files[p].uploaded /\ job.files[p].verified
    BY <1>1 DEF FileState
<1>4. files \in [Path -> FileState] /\ DOMAIN files = Path
    BY <1>3
<1> HIDE DEF files
<1>5. ValidFiles(files)
    BY <1>3, <1>4 DEF ValidFiles
<1>6. \A p \in Path : ~Exhausted(files[p])
    BY <1>1, <1>3, AttemptsLeft DEF Exhausted
<1> QED
    BY <1>1, <1>2, <1>3, <1>4, <1>5, <1>6, RecomputedSteady DEF ChargesNothing

\* A successful read-back verifies p and leaves the other files alone.
LEMMA MarkVerifiedSteady ==
    ASSUME NEW job, Steady(job), job.status # "failed",
           NEW p \in Path, job.files[p].uploaded
    PROVE  LET new == MarkVerified(job, p)
           IN  /\ Steady(new)
               /\ new.status \in {"uploading", "verifying", "verified"}
               /\ ChargesNothing(job, new)
               /\ \A q \in Path : /\ new.files[q].uploaded = job.files[q].uploaded
                                  /\ q # p => new.files[q].verified = job.files[q].verified
<1> DEFINE f == FileWith(job.files[p].uploaded, TRUE, job.files[p].attempts)
           files == [job.files EXCEPT ![p] = f]
           mid == WithFlags(job, p, job.files[p].uploaded, TRUE)
<1>1. job.files \in [Path -> FileState] /\ DOMAIN job.files = Path /\ job \in Job
    BY SteadyFields
<1>2. mid = [job EXCEPT !.files = files]
    BY <1>1 DEF WithFlags
<1>3. /\ f \in FileState
      /\ f.uploaded = job.files[p].uploaded
      /\ f.attempts = job.files[p].attempts
    BY <1>1 DEF FileWith, FileState
<1> HIDE DEF f
<1>4. /\ files \in [Path -> FileState]
      /\ files[p] = f
      /\ \A q \in Path : q # p => files[q] = job.files[q]
    BY <1>1, <1>3
<1>5. DOMAIN files = Path
    BY <1>4
<1>6. \A q \in Path : /\ files[q].uploaded = job.files[q].uploaded
                      /\ files[q].attempts = job.files[q].attempts
    BY <1>3, <1>4
<1>7. MarkVerified(job, p) = Recompute([job EXCEPT !.files = files])
    BY <1>2 DEF MarkVerified
<1> HIDE DEF files
<1>8. ValidFiles(files)
    BY <1>1, <1>4, <1>5, <1>6, SteadyFields DEF ValidFiles
<1>9. \A q \in Path : ~Exhausted(files[q])
    BY <1>6, AttemptsLeft DEF Exhausted
<1> QED
    BY <1>4, <1>6, <1>7, <1>8, <1>9, RecomputedSteady DEF ChargesNothing

\* A failed read-back reopens p and charges it an attempt.
LEMMA BadRecordedSteady ==
    ASSUME NEW job, Steady(job), job.status # "failed", NEW p \in Path
    PROVE  LET new == RecordFailure(ResetFile(job, p), p)
           IN  /\ CanResetFile(job, p)
               /\ Steady(new)
               /\ new.status \in {"uploading", "failed"}
               /\ new.status = "failed" => Exhausted(new.files[p])
               /\ new.files[p].attempts = job.files[p].attempts + 1
               /\ ~new.files[p].verified
               /\ \A q \in Path \ {p} : new.files[q] = job.files[q]
<1> DEFINE f == FileWith(FALSE, FALSE, job.files[p].attempts)
           g == FileWith(FALSE, FALSE, job.files[p].attempts + 1)
           open == ResetFile(job, p)
           files == [job.files EXCEPT ![p] = g]
           charged == [open EXCEPT !.files = files]
           new == RecordFailure(open, p)
<1>1. /\ job.files \in [Path -> FileState] /\ DOMAIN job.files = Path /\ job \in Job
      /\ job = [status |-> job.status, trusted |-> job.trusted, files |-> job.files]
    BY SteadyFields, JobFields
<1>2. /\ job.files[p].attempts \in 0 .. MaxAttempts + 1
      /\ ~(job.files[p].attempts > MaxAttempts)
      /\ job.files[p].attempts \in Nat
    BY <1>1, AttemptsLeft DEF FileState, Exhausted
<1>3. CanResetFile(job, p)
    BY <1>1, SteadyFields DEF CanResetFile, CanRecompute, Steady, AllowedOnRetry, Allowed,
       ForwardTransitions, Statuses
<1>4. open = [status |-> "uploading", trusted |-> "uploading",
              files |-> [job.files EXCEPT ![p] = f]]
  <2>1. WithFlags(job, p, FALSE, FALSE).files = [job.files EXCEPT ![p] = f]
      BY <1>1 DEF WithFlags
  <2> QED
      BY <2>1 DEF ResetFile, WithStatus
<1>5. /\ g \in FileState /\ ~g.uploaded /\ ~g.verified
      /\ g.attempts = job.files[p].attempts + 1
    BY <1>2, JobStateAssumption DEF FileState, FileWith
<1>6. Charged(open.files, p) = files
  <2>1. open.files = [job.files EXCEPT ![p] = f]
      BY <1>4
  <2>2. /\ f.uploaded = FALSE
        /\ f.verified = FALSE
        /\ f.attempts = job.files[p].attempts
      BY DEF FileWith
  <2> HIDE DEF f, open
  <2>3. open.files[p] = f
      BY <1>1, <2>1
  <2>4. Charged(open.files, p) = [open.files EXCEPT ![p] = g]
      BY <2>2, <2>3 DEF Charged
  <2> HIDE DEF g
  <2> QED
      BY <1>1, <2>1, <2>4
<1>7. /\ charged = [status |-> "uploading", trusted |-> "uploading", files |-> files]
      /\ new = IF Exhausted(g) THEN WithStatus(charged, "failed") ELSE charged
  <2> HIDE DEF open, files
  <2>1. open.status = "uploading"
      BY <1>4
  <2>2. charged = [status |-> "uploading", trusted |-> "uploading", files |-> files]
      BY <1>4
  <2> HIDE DEF f, g
  <2>3. files[p] = g
      BY <1>1 DEF files
  <2>4. charged.files[p] = g
    <3> HIDE DEF charged
    <3> QED
        BY <2>2, <2>3
  <2>5. new = IF Exhausted(charged.files[p]) THEN WithStatus(charged, "failed") ELSE charged
      BY <1>6, <2>1 DEF RecordFailure
  <2> QED
      BY <2>2, <2>4, <2>5
<1>8. new = IF Exhausted(g)
            THEN [status |-> "failed", trusted |-> "failed", files |-> files]
            ELSE [status |-> "uploading", trusted |-> "uploading", files |-> files]
    BY <1>7 DEF WithStatus
<1> HIDE DEF new, g
<1>9. /\ files \in [Path -> FileState]
      /\ files[p] = g
      /\ \A q \in Path \ {p} : files[q] = job.files[q]
    BY <1>1, <1>5
<1>10. DOMAIN files = Path
    BY <1>9
<1> HIDE DEF files
<1>11. ValidFiles(files) /\ ~AllUploaded(files)
    BY <1>1, <1>5, <1>9, <1>10, SteadyFields DEF ValidFiles, AllUploaded
<1>12. \A q \in Path \ {p} : ~Exhausted(files[q])
    BY <1>9, AttemptsLeft
<1>13. /\ new.files = files
       /\ new.status = IF Exhausted(g) THEN "failed" ELSE "uploading"
       /\ new.trusted = new.status
       /\ new \in ArchiveJob
    BY <1>8, <1>9 DEF ArchiveJob, Statuses
<1>14. ValidJob(new) /\ PoisonPillOf(new)
    BY <1>9, <1>10, <1>11, <1>12, <1>13 DEF ValidJob, PoisonPillOf
<1>15. Steady(new)
    BY <1>11, <1>13, <1>14 DEF Steady
<1> QED
    BY <1>3, <1>5, <1>9, <1>13, <1>15 DEF new

\* No result of a shard verifies a file, and none charges two attempts.
LEMMA MergeVerifiesNothing ==
    ASSUME NEW job, Steady(job), NEW results, NEW done \in SUBSET Path
    PROVE  \A q \in Path :
              LET new == MergedFiles(job, results, done)[q]
                  old == job.files[q]
              IN  /\ new.verified => old.verified
                  /\ new.attempts \in {old.attempts, old.attempts + 1}
<1> TAKE q \in Path
<1>1. MergedFiles(job, results, done)[q]
        = IF q \in done THEN MergedFile(job.files[q], q, results[q]) ELSE job.files[q]
    BY SteadyFields DEF MergedFiles
<1>2. LET new == MergedFile(job.files[q], q, results[q])
      IN  /\ new.verified => job.files[q].verified
          /\ new.attempts \in {job.files[q].attempts, job.files[q].attempts + 1}
    BY DEF MergedFile, FileWith
<1> QED
    BY <1>1, <1>2

\* What a collector publishes for a job that goes on.
LEMMA MergedSteady ==
    ASSUME NEW job, Steady(job), job.status \notin TerminalStates,
           NEW results, DOMAIN results \subseteq Path,
           NEW new \in MergeOutcomes(job, results)
    PROVE  /\ Steady(new)
           /\ new.status \in {"uploading", "verifying", "verified", "failed"}
           /\ new.status = "failed" => \E p \in Path : Exhausted(new.files[p])
           /\ ChargesOnce(job, new)
           /\ \A q \in Path : new.files[q].verified => job.files[q].verified
<1> DEFINE fatal == Fatal(job, results)
           safe == DOMAIN results \ fatal
<1>1. /\ job.status # "failed" /\ DOMAIN job.files = Path /\ Sound(job)
      /\ \A p \in Path : job.files[p].attempts \in Nat
    BY SteadyFields DEF TerminalStates, Good
<1>2. ASSUME NEW done \in SUBSET DOMAIN results
      PROVE  LET files == MergedFiles(job, results, done)
             IN  /\ files \in [Path -> FileState]
                 /\ ValidFiles(files)
                 /\ \A q \in Path :
                       /\ files[q].attempts
                             \in {job.files[q].attempts, job.files[q].attempts + 1}
                       /\ Exhausted(files[q]) => q \in done /\ q \in fatal
                       /\ files[q].verified => job.files[q].verified
    BY <1>1, MergedFilesSound, MergeVerifiesNothing
<1>3. CASE fatal = {}
  <2> DEFINE files == MergedFiles(job, results, safe)
  <2>1. new = Recompute([job EXCEPT !.files = files])
      BY <1>1, <1>3 DEF MergeOutcomes
  <2>2. safe \in SUBSET DOMAIN results
      OBVIOUS
  <2>3. /\ files \in [Path -> FileState]
        /\ ValidFiles(files)
        /\ \A q \in Path : /\ files[q].attempts
                                 \in {job.files[q].attempts, job.files[q].attempts + 1}
                           /\ ~Exhausted(files[q])
                           /\ files[q].verified => job.files[q].verified
      BY <1>2, <1>3, <2>2
  <2> HIDE DEF files
  <2> QED
      BY <1>1, <2>1, <2>3, RecomputedSteady DEF ChargesOnce
<1>4. CASE fatal # {}
  <2>1. PICK done \in SUBSET safe, p \in fatal : new = CutShort(job, results, done, p)
    <3>1. new \in {CutShort(job, results, d, q) : d \in SUBSET safe, q \in fatal}
        BY <1>1, <1>4 DEF MergeOutcomes
    <3> QED
        BY <3>1
  <2> DEFINE files == MergedFiles(job, results, done \cup {p})
  <2>2. done \cup {p} \in SUBSET DOMAIN results /\ p \in Path
      BY DEF Fatal
  <2>3. /\ files \in [Path -> FileState]
        /\ ValidFiles(files)
        /\ \A q \in Path : /\ files[q].attempts
                                 \in {job.files[q].attempts, job.files[q].attempts + 1}
                           /\ Exhausted(files[q]) => q = p
                           /\ files[q].verified => job.files[q].verified
      BY <1>2, <2>2
  <2>4. Exhausted(files[p])
    <3>1. files[p] = MergedFile(job.files[p], p, results[p])
        BY <1>1, <2>2 DEF MergedFiles
    <3>2. ~Accepts(p, results[p]) /\ job.files[p].attempts >= MaxAttempts
        BY DEF Fatal
    <3>3. files[p].attempts = job.files[p].attempts + 1
        BY <3>1, <3>2 DEF MergedFile, FileWith
    <3> QED
        BY <1>1, <2>2, <3>2, <3>3, JobStateAssumption DEF Exhausted
  <2>5. new = WithStatus([job EXCEPT !.files = files], "failed")
      BY <2>1 DEF CutShort
  <2> HIDE DEF files
  <2>6. Steady(new) /\ new.files = files /\ new.status = "failed"
      BY <2>3, <2>5, FailedSteady
  <2> QED
      BY <2>2, <2>3, <2>4, <2>6 DEF ChargesOnce
<1> QED
    BY <1>3, <1>4

-----------------------------------------------------------------------------
(* The first state, and the steps of the watcher, the operator and the     *)
(* grab runs                                                               *)

\* Nothing is published and nothing runs.
LEMMA InitEstablishes == Init => IInv
<1> SUFFICES ASSUME Init PROVE IInv
    OBVIOUS
<1> USE DEF Init, StoreInit, GrabInit, SweepInit
<1>1. TypeOK
    BY StoreAssumption DEF TypeOK
<1> QED
    BY <1>1 DEF IInv, HeadHolds, QueuedHolds, SweepHolds, RunsHold

\* The facts about the names of the holders.
LEMMA HoldersDiffer ==
    /\ Sweeper # Queued
    /\ \A r \in Run : r # Sweeper /\ r # Queued
BY StoreAssumption

\* A job with something to upload is unfinished.
LEMMA PendingIsUnfinished ==
    ASSUME NEW job, Steady(job), PendingUploads(job) # {}
    PROVE  job.status \notin TerminalStates
BY SteadyFields DEF PendingUploads, TerminalStates, Steady, ValidJob, AllUploaded

\* A started run is a run of the model, and the others stay as they are.
LEMMA RunStarts ==
    ASSUME TypeOK, NEW r \in Run, NEW v \in Revisions, NEW v0, NEW job, Steady(job),
           StartRun(r, v, v0, job)
    PROVE  /\ runs' \in [Run -> GrabRun \cup {NoRun}]
           /\ \A q \in Run \ {r} : runs'[q] = runs[q]
           /\ job.status \notin TerminalStates
<1> DEFINE planned == PlannedRun(v, v0, job)
           charged == IF v = v0 THEN {} ELSE PendingUploads(job)
<1>1. PendingUploads(job) \subseteq Path
    BY SteadyFields DEF PendingUploads
<1>2. [p \in charged |-> "error"] \in [charged -> ShardResult] /\ charged \in SUBSET Path
    BY <1>1 DEF ShardResult
<1>3. planned = [rev |-> v, todo |-> IF v = v0 THEN PendingUploads(job) ELSE {},
                 results |-> [p \in charged |-> "error"]]
    BY DEF PlannedRun
<1> HIDE DEF planned, charged
<1>4. [p \in charged |-> "error"] \in UNION {[P -> ShardResult] : P \in SUBSET Path}
    BY <1>2
<1>5. planned \in GrabRun
    BY <1>1, <1>3, <1>4 DEF GrabRun
<1>6. runs' = [runs EXCEPT ![r] = planned] /\ PendingUploads(job) # {}
    BY DEF StartRun, planned
<1> QED
    BY <1>5, <1>6, PendingIsUnfinished DEF TypeOK

\* A new revision: every checkout but the dispatched run's becomes stale.
LEMMA WatchKeeps ==
    ASSUME IInv, NEW job \in {PlannedJob, WithStatus(PlannedJob, "failed")},
           WatchPublishes(job)
    PROVE  IInv' /\ HeadStep
<1> USE DEF IInv
<1>1. /\ sweep = NoSweep
      /\ rev < MaxRev
      /\ rev' = rev + 1
      /\ head' = job
      /\ UNCHANGED <<r2, queued, sweep, evidence>>
    BY DEF WatchPublishes, GroupIsFree, Publish
<1>2. /\ Steady(job)
      /\ job \in ArchiveJob
      /\ job # NoJob
      /\ \A p \in Path : ~job.files[p].verified
    BY PlannedSteady, SteadyFields DEF NewFile, FileWith, Steady
<1>3. rev + 1 \in Revisions /\ rev + 1 \in 0 .. MaxRev /\ rev + 1 # 0
    BY <1>1, StoreAssumption DEF TypeOK, Revisions
<1>4. /\ runs' \in [Run -> GrabRun \cup {NoRun}]
      /\ fresh' \subseteq Run
      /\ \A q \in Run : q \in fresh' => job.status \notin TerminalStates
  <2>1. CASE fresh' = {} /\ UNCHANGED runs
      BY <2>1 DEF TypeOK
  <2>2. ASSUME NEW r \in Run, fresh' = {r}, StartRun(r, rev + 1, rev + 1, job)
        PROVE  /\ runs' \in [Run -> GrabRun \cup {NoRun}]
               /\ job.status \notin TerminalStates
      BY <1>2, <1>3, <2>2, RunStarts
  <2> QED
      BY <2>1, <2>2 DEF WatchPublishes, Publish
<1>5. TypeOK'
    BY <1>1, <1>2, <1>3, <1>4 DEF TypeOK, Holder
<1>6. HeadHolds'
    BY <1>1, <1>2, <1>3 DEF HeadHolds, Backed
<1>7. QueuedHolds' /\ SweepHolds'
    BY <1>1, <1>2, <1>4, HoldersDiffer DEF QueuedHolds, SweepHolds
<1>8. RunsHold'
    BY <1>1, <1>2, <1>4, SteadyFields DEF RunsHold
<1> QED
    BY <1>1, <1>5, <1>6, <1>7, <1>8 DEF HeadStep

\* A run dispatched on the head, by the sweep or by hand.
LEMMA DispatchKeeps ==
    ASSUME IInv, NEW r \in Run, NEW v \in Revisions, head # NoJob,
           StartRun(r, v, rev, head), fresh' = fresh \cup {r},
           UNCHANGED <<head, rev, r2, queued, evidence>>,
           sweep' = sweep \/
              /\ sweep # NoSweep /\ sweep' \in SweepRun /\ Careful(sweep')
              /\ sweep'.rev = sweep.rev /\ sweep'.job = sweep.job
              /\ Unread(sweep') = {}
    PROVE  IInv' /\ HeadStep
<1> USE DEF IInv
<1>1. /\ runs' \in [Run -> GrabRun \cup {NoRun}]
      /\ \A q \in Run \ {r} : runs'[q] = runs[q]
      /\ head.status \notin TerminalStates
    BY RunStarts DEF HeadHolds
<1>2. TypeOK'
    BY <1>1 DEF TypeOK, Holder
<1>3. HeadHolds'
    BY DEF HeadHolds
<1>4. QueuedHolds'
    BY HoldersDiffer DEF QueuedHolds
<1>5. ASSUME sweep # NoSweep, Sweeper \in fresh
      PROVE  ChargesInTurn(head, sweep)'
  <2>1. ChargesInTurn(head, sweep)
      BY <1>5 DEF SweepHolds
  <2>2. CASE sweep' = sweep
      BY <2>1, <2>2 DEF ChargesInTurn, ChargesOnce, Unread
  <2>3. CASE sweep'.job = sweep.job /\ Unread(sweep') = {}
    <3>1. Unread(sweep)' = {}
        BY <2>3 DEF Unread
    <3> QED
        BY <2>1, <2>3, <3>1 DEF ChargesInTurn, ChargesOnce
  <2> QED
      BY <2>2, <2>3
<1>6. SweepHolds'
    BY <1>5, HoldersDiffer DEF SweepHolds
<1>7. RunsHold'
    BY <1>1 DEF RunsHold
<1> QED
    BY <1>2, <1>3, <1>4, <1>6, <1>7 DEF HeadStep

\* A transfer touches the bucket and its own run.
LEMMA TransferKeeps ==
    ASSUME IInv, NEW r \in Run, NEW p \in Path, Transfer(r, p),
           UNCHANGED <<sweepVars, evidence>>
    PROVE  IInv' /\ HeadStep
<1> USE DEF IInv
<1>1. /\ runs[r] # NoRun
      /\ runs[r] \in GrabRun
      /\ UNCHANGED <<head, rev, fresh, queued, sweep, evidence>>
    BY DEF Transfer, TypeOK, sweepVars
<1>2. PICK landed \in {"nothing", "whole", "short", "corrupt"},
           result \in {"declared", "other", "error"} :
         /\ r2' = IF landed = "nothing" THEN r2
                  ELSE [r2 EXCEPT ![p] = [rev |-> runs[r].rev, kind |-> landed]]
         /\ runs' = [runs EXCEPT ![r].todo = @ \ {p},
                                 ![r].results =
                                     [q \in DOMAIN @ \cup {p} |->
                                         IF q = p THEN result ELSE @[q]]]
    BY DEF Transfer
<1>3. r2' \in [Path -> Object \cup {NoObject}]
  <2>1. landed # "nothing" => [rev |-> runs[r].rev, kind |-> landed] \in Object
      BY <1>1 DEF GrabRun, Object
  <2> QED
      BY <1>2, <2>1 DEF TypeOK
<1> DEFINE results == [q \in DOMAIN runs[r].results \cup {p} |->
                          IF q = p THEN result ELSE runs[r].results[q]]
           run == [runs[r] EXCEPT !.todo = @ \ {p}, !.results = results]
<1>4. run \in GrabRun
  <2>1. PICK P \in SUBSET Path : runs[r].results \in [P -> ShardResult]
      BY <1>1 DEF GrabRun
  <2>2. P \cup {p} \in SUBSET Path /\ results \in [P \cup {p} -> ShardResult]
      BY <2>1 DEF ShardResult, Observed
  <2> HIDE DEF results
  <2>3. results \in UNION {[Q -> ShardResult] : Q \in SUBSET Path}
      BY <2>2
  <2> QED
      BY <1>1, <2>3 DEF GrabRun
<1>5. runs' = [runs EXCEPT ![r] = run]
    BY <1>2 DEF TypeOK
<1> HIDE DEF run
<1>6. runs' \in [Run -> GrabRun \cup {NoRun}]
    BY <1>4, <1>5 DEF TypeOK
<1>7. \A q \in Run : runs'[q] # NoRun => runs[q] # NoRun
    BY <1>1, <1>5 DEF TypeOK
<1>8. TypeOK'
    BY <1>1, <1>3, <1>6 DEF TypeOK
<1>9. HeadHolds' /\ QueuedHolds' /\ SweepHolds' /\ RunsHold'
    BY <1>1, <1>7 DEF HeadHolds, QueuedHolds, SweepHolds, RunsHold
<1> QED
    BY <1>1, <1>8, <1>9 DEF HeadStep

\* The results a collector merges name paths only.
LEMMA CollectedPaths ==
    ASSUME TypeOK, NEW r \in Run, runs[r] # NoRun
    PROVE  DOMAIN CollectedResults(runs[r]) \subseteq Path
<1>1. runs[r] \in GrabRun
    BY DEF TypeOK
<1>2. PICK P \in SUBSET Path : runs[r].results \in [P -> ShardResult]
    BY <1>1 DEF GrabRun
<1> QED
    BY <1>1, <1>2 DEF CollectedResults, GrabRun

\* A collector publishes on a fresh checkout, so its merge is into the head.
LEMMA CollectKeeps ==
    ASSUME IInv, NEW r \in Run, Collect(r), GroupIsFree,
           UNCHANGED <<sweepVars, evidence>>
    PROVE  IInv' /\ HeadStep
<1> USE DEF IInv
<1>1. /\ runs[r] # NoRun /\ r \in fresh
      /\ runs' = [runs EXCEPT ![r] = NoRun]
      /\ fresh' = {}
      /\ head' \in MergeOutcomes(head, CollectedResults(runs[r]))
      /\ UNCHANGED <<rev, r2, queued, sweep, evidence>>
      /\ sweep = NoSweep
    BY DEF Collect, Publish, GroupIsFree, sweepVars
<1>2. head # NoJob /\ head.status \notin TerminalStates /\ Steady(head)
      /\ rev # 0 /\ Backed(head, rev, evidence)
    BY <1>1 DEF RunsHold, HeadHolds
<1>3. /\ Advances(head, head')
      /\ head' # NoJob
      /\ \A q \in Path : head'.files[q].verified => head.files[q].verified
    BY <1>1, <1>2, CollectedPaths, MergedSteady, SteadyFields DEF Advances
<1>4. TypeOK'
    BY <1>1, <1>3 DEF TypeOK, Advances, Steady
<1>5. HeadHolds'
    BY <1>1, <1>2, <1>3 DEF HeadHolds, Backed, Advances
<1>6. QueuedHolds' /\ SweepHolds' /\ RunsHold'
    BY <1>1, <1>3 DEF QueuedHolds, SweepHolds, RunsHold
<1> QED
    BY <1>1, <1>2, <1>3, <1>4, <1>5, <1>6 DEF HeadStep

LEMMA CollectLostKeeps ==
    ASSUME IInv, NEW r \in Run, CollectLost(r), UNCHANGED <<sweepVars, evidence>>
    PROVE  IInv' /\ HeadStep
<1> USE DEF IInv
<1>1. /\ runs' = [runs EXCEPT ![r] = NoRun]
      /\ fresh' = fresh \ {r}
      /\ UNCHANGED <<head, rev, r2, queued, sweep, evidence>>
    BY DEF CollectLost, sweepVars
<1>2. TypeOK'
    BY <1>1 DEF TypeOK
<1>3. HeadHolds' /\ QueuedHolds' /\ SweepHolds'
    BY <1>1 DEF HeadHolds, QueuedHolds, SweepHolds
<1>4. RunsHold'
    BY <1>1 DEF RunsHold, TypeOK
<1> QED
    BY <1>1, <1>2, <1>3, <1>4 DEF HeadStep

-----------------------------------------------------------------------------
(* The steps of the sweep                                                  *)

LEMMA TriggerKeeps ==
    ASSUME IInv, TriggerSweep, UNCHANGED evidence
    PROVE  IInv' /\ HeadStep
<1> USE DEF IInv
<1>1. /\ head # NoJob
      /\ queued' = [rev |-> rev, job |-> head]
      /\ fresh' = fresh \cup {Queued}
      /\ UNCHANGED <<head, rev, r2, runs, sweep, evidence>>
    BY DEF TriggerSweep
<1>2. Steady(head) /\ head \in ArchiveJob /\ rev \in Revisions /\ Backed(head, rev, evidence)
    BY <1>1, StoreAssumption DEF HeadHolds, Steady, TypeOK, Revisions
<1>3. TypeOK'
    BY <1>1, <1>2 DEF TypeOK, Checkouts, Holder
<1>4. QueuedHolds'
    BY <1>1, <1>2 DEF QueuedHolds
<1>5. HeadHolds' /\ SweepHolds' /\ RunsHold'
    BY <1>1, HoldersDiffer DEF HeadHolds, SweepHolds, RunsHold
<1> QED
    BY <1>1, <1>3, <1>4, <1>5 DEF HeadStep

LEMMA DropKeeps ==
    ASSUME IInv, DropSweep, UNCHANGED evidence
    PROVE  IInv' /\ HeadStep
<1> USE DEF IInv
<1>1. /\ queued' = NoSweep
      /\ fresh' = fresh \ {Queued}
      /\ UNCHANGED <<head, rev, r2, runs, sweep, evidence>>
    BY DEF DropSweep
<1>2. TypeOK'
    BY <1>1 DEF TypeOK
<1>3. HeadHolds' /\ QueuedHolds' /\ SweepHolds' /\ RunsHold'
    BY <1>1 DEF HeadHolds, QueuedHolds, SweepHolds, RunsHold
<1> QED
    BY <1>1, <1>2, <1>3 DEF HeadStep

\* The sweep starts on the checkout that waited, fresh or stale.
LEMMA BeginKeeps ==
    ASSUME IInv, BeginSweep, UNCHANGED evidence
    PROVE  IInv' /\ HeadStep
<1> USE DEF IInv
<1>1. /\ queued # NoSweep
      /\ queued.job.status \notin TerminalStates
      /\ sweep' = [pc |-> "list", rev |-> queued.rev, job |-> queued.job,
                   listing |-> NothingYet, todo |-> {}, bad |-> {}, dirty |-> FALSE]
      /\ queued' = NoSweep
      /\ fresh' = Admit(fresh)
      /\ UNCHANGED <<head, rev, r2, runs, evidence>>
    BY DEF BeginSweep
<1>2. /\ queued \in Checkouts
      /\ Steady(queued.job)
      /\ queued.job # NoJob
      /\ Backed(queued.job, queued.rev, evidence)
    BY <1>1, SteadyFields DEF TypeOK, QueuedHolds
<1>3. /\ fresh' \subseteq Holder
      /\ Sweeper \in fresh' => Queued \in fresh
      /\ \A r \in Run : r \in fresh' => r \in fresh
    BY <1>1, HoldersDiffer DEF Admit, Holder, TypeOK
<1>4. NothingYet \in Listing
    BY DEF NothingYet, Listing
<1>5. sweep' \in SweepRun
    BY <1>1, <1>2, <1>4 DEF SweepRun, Checkouts
<1>6. TypeOK'
    BY <1>1, <1>3, <1>5 DEF TypeOK
<1>7. Careful(sweep')
    BY <1>1, <1>2 DEF Careful, TerminalStates
<1>8. /\ sweep'.job = queued.job
      /\ sweep'.rev = queued.rev
    BY <1>1
<1>9. ChargesInTurn(queued.job, sweep')
    BY <1>8 DEF ChargesInTurn, ChargesOnce
<1>10. SweepHolds'
    BY <1>1, <1>2, <1>3, <1>7, <1>8, <1>9 DEF SweepHolds, QueuedHolds
<1>11. HeadHolds' /\ QueuedHolds' /\ RunsHold'
    BY <1>1, <1>3 DEF HeadHolds, QueuedHolds, RunsHold
<1> QED
    BY <1>1, <1>6, <1>10, <1>11 DEF HeadStep

\* A step that charges nothing and reads no new file.
LEMMA StillInTurn ==
    ASSUME NEW job, NEW s, NEW t, ChargesInTurn(job, s),
           ChargesNothing(s.job, t.job), Unread(t) \subseteq Unread(s)
    PROVE  ChargesInTurn(job, t)
<1>1. Unread(s) \subseteq Path
    BY DEF Unread
<1> QED
    BY <1>1 DEF ChargesInTurn, ChargesOnce, ChargesNothing

\* A step inside the sweep: the bucket and its own job move.
LEMMA SweepMoves ==
    ASSUME IInv,
           sweep # NoSweep,
           UNCHANGED <<head, rev, fresh, runs, queued>>,
           r2' \in [Path -> Object \cup {NoObject}],
           evidence \subseteq evidence',
           evidence' \subseteq Path \X Revisions,
           sweep' \in SweepRun,
           sweep'.rev = sweep.rev,
           Careful(sweep'),
           ChargesInTurn(head, sweep) => ChargesInTurn(head, sweep'),
           Backed(sweep'.job, sweep'.rev, evidence')
    PROVE  IInv' /\ HeadStep
<1> USE DEF IInv
<1>1. TypeOK'
    BY DEF TypeOK
<1>2. HeadHolds'
    BY DEF HeadHolds, Backed
<1>3. QueuedHolds'
    BY DEF QueuedHolds, Backed
<1>4. RunsHold'
    BY DEF RunsHold
<1>5. ASSUME Sweeper \in fresh
      PROVE  ChargesInTurn(head, sweep')
    BY <1>5 DEF SweepHolds
<1>6. ChargesInTurn(head, sweep)' <=> ChargesInTurn(head, sweep')
    BY DEF ChargesInTurn, ChargesOnce, Unread
<1>7. SweepHolds'
    BY <1>5, <1>6 DEF SweepHolds
<1> QED
    BY <1>1, <1>2, <1>3, <1>4, <1>7 DEF HeadStep

\* What is known of a running sweep.
LEMMA SweepFields ==
    ASSUME IInv, sweep # NoSweep
    PROVE  /\ sweep \in SweepRun
           /\ Careful(sweep)
           /\ Steady(sweep.job)
           /\ Backed(sweep.job, sweep.rev, evidence)
<1>1. sweep \in SweepRun /\ Careful(sweep) /\ Backed(sweep.job, sweep.rev, evidence)
    BY DEF IInv, TypeOK, SweepHolds
<1> QED
    BY <1>1 DEF Careful

\* The steps that leave the sweep's job alone.
LEMMA SweepPauses ==
    ASSUME IInv,
           sweep # NoSweep,
           UNCHANGED <<head, rev, fresh, runs, queued, evidence>>,
           r2' \in [Path -> Object \cup {NoObject}],
           sweep' \in SweepRun,
           sweep'.rev = sweep.rev,
           sweep'.job = sweep.job,
           Unread(sweep') \subseteq Unread(sweep),
           Careful(sweep')
    PROVE  IInv' /\ HeadStep
<1>1. evidence \subseteq evidence' /\ evidence' \subseteq Path \X Revisions
    BY DEF IInv, TypeOK
<1>2. ChargesNothing(sweep.job, sweep'.job)
    BY DEF ChargesNothing
<1>3. ChargesInTurn(head, sweep) => ChargesInTurn(head, sweep')
    BY <1>2, StillInTurn
<1>4. Backed(sweep'.job, sweep'.rev, evidence')
    BY SweepFields
<1> QED
    BY <1>1, <1>3, <1>4, SweepMoves

\* Listing, deleting what is wrong, giving up and going on.
LEMMA ListKeeps ==
    ASSUME IInv, ListRemote, UNCHANGED evidence
    PROVE  IInv' /\ HeadStep
<1> DEFINE listing == [p \in Path |-> Listed(p)]
           todo == {p \in Path : Listed(p) = "mismatch"}
<1>1. sweep # NoSweep /\ sweep.pc = "list"
    BY DEF ListRemote, At
<1>2. sweep' = [sweep EXCEPT !.pc = "purge", !.listing = listing, !.todo = todo]
    BY DEF ListRemote
<1>3. listing \in Listing /\ todo \subseteq Path
    BY DEF Listing, Listed
<1> HIDE DEF listing, todo
<1>4. /\ sweep' \in SweepRun
      /\ sweep'.rev = sweep.rev
      /\ sweep'.job = sweep.job
      /\ sweep'.dirty = sweep.dirty
      /\ sweep'.pc = "purge"
    BY <1>1, <1>2, <1>3, SweepFields DEF SweepRun
<1>5. Careful(sweep')
    BY <1>1, <1>4, SweepFields DEF Careful
<1>6. r2' \in [Path -> Object \cup {NoObject}]
    BY DEF ListRemote, storeVars, IInv, TypeOK
<1>7. Unread(sweep') \subseteq Unread(sweep)
    BY <1>1 DEF Unread
<1> QED
    BY <1>1, <1>4, <1>5, <1>6, <1>7, SweepPauses DEF ListRemote, storeVars, grabVars

LEMMA PurgeKeeps ==
    ASSUME IInv, NEW p \in Path, DeleteMismatched(p), UNCHANGED evidence
    PROVE  IInv' /\ HeadStep
<1>1. sweep # NoSweep /\ sweep.pc = "purge"
    BY DEF DeleteMismatched, At
<1>2. sweep' = [sweep EXCEPT !.todo = @ \ {p}]
    BY DEF DeleteMismatched
<1>3. /\ sweep' \in SweepRun
      /\ sweep'.rev = sweep.rev
      /\ sweep'.job = sweep.job
      /\ sweep'.dirty = sweep.dirty
      /\ sweep'.pc = "purge"
    BY <1>1, <1>2, SweepFields DEF SweepRun
<1>4. Careful(sweep')
    BY <1>1, <1>3, SweepFields DEF Careful
<1>5. r2' \in [Path -> Object \cup {NoObject}]
    BY DEF DeleteMismatched, IInv, TypeOK
<1>6. Unread(sweep') \subseteq Unread(sweep)
    BY <1>1 DEF Unread
<1> QED
    BY <1>1, <1>3, <1>4, <1>5, <1>6, SweepPauses DEF DeleteMismatched, grabVars

\* Where the sweep goes from here it needs to know nothing more of its job.
LEMMA LeaveKeeps ==
    ASSUME IInv, sweep # NoSweep, NEW pc \in {"dispatch", "commit"},
           sweep' = [sweep EXCEPT !.pc = pc],
           UNCHANGED <<storeVars, grabVars, queued, evidence>>
    PROVE  IInv' /\ HeadStep
<1>1. /\ sweep' \in SweepRun
      /\ sweep'.rev = sweep.rev
      /\ sweep'.job = sweep.job
      /\ sweep'.dirty = sweep.dirty
      /\ sweep'.pc = pc
    BY SweepFields DEF SweepRun
<1>2. Careful(sweep')
    BY <1>1, SweepFields DEF Careful
<1>3. r2' \in [Path -> Object \cup {NoObject}]
    BY DEF storeVars, IInv, TypeOK
<1>4. Unread(sweep') \subseteq Unread(sweep)
    BY <1>1 DEF Unread
<1> QED
    BY <1>1, <1>2, <1>3, <1>4, SweepPauses DEF storeVars, grabVars

\* Reconciling: files are withdrawn or recovered, and none is verified.
LEMMA ReconcileKeeps ==
    ASSUME IInv, Reconcile, UNCHANGED evidence
    PROVE  IInv' /\ HeadStep
<1> DEFINE job == Reconciled(sweep.job, sweep.listing)
           pc == IF PendingUploads(job) # {} THEN "persist" ELSE "verify"
           todo == IF PendingUploads(job) # {} THEN {} ELSE PendingVerifications(job)
           dirty == (job # sweep.job)
<1>1. sweep # NoSweep /\ sweep.pc = "purge"
    BY DEF Reconcile, At
<1>2. sweep' = [sweep EXCEPT !.job = job, !.dirty = dirty, !.listing = NothingYet,
                             !.pc = pc, !.todo = todo]
    BY DEF Reconcile
<1>3. /\ Steady(job)
      /\ job.status \in {"uploading", "verifying", "verified"}
      /\ ChargesNothing(sweep.job, job)
      /\ \A p \in Path : job.files[p].verified => sweep.job.files[p].verified
    BY <1>1, SweepFields, ReconciledSteady DEF Careful
<1> HIDE DEF job
<1>4. /\ todo \subseteq Path
      /\ \A p \in todo : Unsettled(job, p)
      /\ pc \in {"persist", "verify"}
      /\ pc = "persist" => PendingUploads(job) # {}
      /\ dirty \in BOOLEAN
    BY <1>3, SteadyFields DEF PendingVerifications, Unsettled
<1>5. NothingYet \in Listing /\ job \in ArchiveJob
    BY <1>3 DEF NothingYet, Listing, Steady
<1> HIDE DEF pc, todo, dirty
<1>6. /\ sweep' \in SweepRun
      /\ sweep'.rev = sweep.rev
      /\ sweep'.job = job
      /\ sweep'.pc = pc
      /\ sweep'.todo = todo
    BY <1>1, <1>2, <1>4, <1>5, SweepFields DEF SweepRun
<1>7. Careful(sweep')
    BY <1>3, <1>4, <1>6 DEF Careful
<1>8. Backed(sweep'.job, sweep'.rev, evidence')
    BY <1>1, <1>3, <1>6, SweepFields DEF Backed
<1>9. /\ UNCHANGED <<head, rev, fresh, r2, runs, queued>>
      /\ r2' \in [Path -> Object \cup {NoObject}]
      /\ evidence' \subseteq Path \X Revisions
    BY DEF Reconcile, storeVars, grabVars, IInv, TypeOK
<1>10. ChargesInTurn(head, sweep) => ChargesInTurn(head, sweep')
  <2>1. Unread(sweep') \subseteq Unread(sweep)
      BY <1>1 DEF Unread
  <2> QED
      BY <1>3, <1>6, <2>1, StillInTurn
<1> QED
    BY <1>1, <1>3, <1>6, <1>7, <1>8, <1>9, <1>10, SweepMoves

\* A file that is verified has just been read back.
LEMMA ReadBackKeeps ==
    ASSUME IInv, NEW p \in Path, ReadBack(p)
    PROVE  IInv' /\ HeadStep
<1> DEFINE job == MarkVerified(sweep.job, p)
<1>1. /\ sweep # NoSweep /\ sweep.pc = "verify" /\ p \in sweep.todo
      /\ HashMatches(r2[p], p, sweep.rev)
      /\ sweep' = [sweep EXCEPT !.job = job, !.todo = @ \ {p}, !.dirty = TRUE]
      /\ UNCHANGED <<storeVars, grabVars, queued>>
    BY DEF ReadBack, VerifyMatch, At
<1>2. sweep.job.status # "failed" /\ sweep.job.files[p].uploaded
    BY <1>1, SweepFields DEF Careful, Unsettled
<1>3. /\ Steady(job)
      /\ job.status \in {"uploading", "verifying", "verified"}
      /\ ChargesNothing(sweep.job, job)
      /\ \A q \in Path :
            /\ job.files[q].uploaded = sweep.job.files[q].uploaded
            /\ q # p => job.files[q].verified = sweep.job.files[q].verified
    BY <1>1, <1>2, SweepFields, MarkVerifiedSteady
<1> HIDE DEF job
<1>4. /\ sweep' \in SweepRun
      /\ sweep'.rev = sweep.rev
      /\ sweep'.job = job
      /\ sweep'.pc = "verify"
      /\ sweep'.todo = sweep.todo \ {p}
      /\ sweep.todo \subseteq Path
  <2>1. job \in ArchiveJob
      BY <1>3 DEF Steady
  <2> QED
      BY <1>1, <2>1, SweepFields DEF SweepRun
<1>5. \A q \in sweep'.todo : Unsettled(job, q)
    BY <1>1, <1>3, <1>4, SweepFields DEF Careful, Unsettled
<1>6. Careful(sweep')
    BY <1>3, <1>4, <1>5 DEF Careful
<1>7. evidence' = evidence \cup {<<p, sweep.rev>>}
    BY <1>1 DEF ReadBack
<1>8. Backed(sweep'.job, sweep'.rev, evidence')
    BY <1>1, <1>3, <1>4, <1>7, SweepFields DEF Backed
<1>9. /\ UNCHANGED <<head, rev, fresh, r2, runs, queued>>
      /\ r2' \in [Path -> Object \cup {NoObject}]
    BY <1>1 DEF storeVars, grabVars, IInv, TypeOK
<1>10. evidence \subseteq evidence' /\ evidence' \subseteq Path \X Revisions
    BY <1>1, <1>7, SweepFields DEF IInv, TypeOK, SweepRun
<1>11. ChargesInTurn(head, sweep) => ChargesInTurn(head, sweep')
  <2>1. Unread(sweep') \subseteq Unread(sweep)
      BY <1>1, <1>4 DEF Unread
  <2> QED
      BY <1>3, <1>4, <2>1, StillInTurn
<1> QED
    BY <1>1, <1>3, <1>4, <1>6, <1>8, <1>9, <1>10, <1>11, SweepMoves

LEMMA MismatchKeeps ==
    ASSUME IInv, NEW p \in Path, VerifyMismatch(p), UNCHANGED evidence
    PROVE  IInv' /\ HeadStep
<1>1. /\ sweep # NoSweep /\ sweep.pc = "verify" /\ p \in sweep.todo
      /\ sweep' = [sweep EXCEPT !.pc = "punish", !.bad = {p}, !.todo = @ \ {p}]
      /\ UNCHANGED <<storeVars, grabVars, queued>>
    BY DEF VerifyMismatch, At
<1>2. /\ sweep' \in SweepRun
      /\ sweep'.rev = sweep.rev
      /\ sweep'.job = sweep.job
      /\ sweep'.dirty = sweep.dirty
      /\ sweep'.pc = "punish"
      /\ sweep'.bad = {p}
      /\ sweep'.todo = sweep.todo \ {p}
    BY <1>1, SweepFields DEF SweepRun
<1>3. Careful(sweep')
    BY <1>1, <1>2, SweepFields DEF Careful
<1>4. r2' \in [Path -> Object \cup {NoObject}]
    BY <1>1 DEF storeVars, IInv, TypeOK
<1>5. Unread(sweep') \subseteq Unread(sweep)
    BY <1>1, <1>2 DEF Unread
<1> QED
    BY <1>1, <1>2, <1>3, <1>4, <1>5, SweepPauses DEF storeVars, grabVars

LEMMA DeleteBadKeeps ==
    ASSUME IInv, NEW p \in Path, DeleteBad(p), UNCHANGED evidence
    PROVE  IInv' /\ HeadStep
<1>1. /\ sweep # NoSweep /\ sweep.pc = "punish"
      /\ sweep' = [sweep EXCEPT !.pc = "record"]
      /\ r2' = [r2 EXCEPT ![p] = NoObject]
      /\ UNCHANGED <<head, rev, fresh, grabVars, queued>>
    BY DEF DeleteBad, At
<1>2. /\ sweep' \in SweepRun
      /\ sweep'.rev = sweep.rev
      /\ sweep'.job = sweep.job
      /\ sweep'.dirty = sweep.dirty
      /\ sweep'.pc = "record"
      /\ sweep'.bad = sweep.bad
      /\ sweep'.todo = sweep.todo
    BY <1>1, SweepFields DEF SweepRun
<1>3. Careful(sweep')
    BY <1>1, <1>2, SweepFields DEF Careful
<1>4. r2' \in [Path -> Object \cup {NoObject}]
    BY <1>1 DEF IInv, TypeOK
<1>5. Unread(sweep') \subseteq Unread(sweep)
    BY <1>1, <1>2 DEF Unread
<1> QED
    BY <1>1, <1>2, <1>3, <1>4, <1>5, SweepPauses DEF grabVars

\* A file that failed its read-back loses its flags, not its attempts; the
\* files still to verify are others.
LEMMA RecordBadKeeps ==
    ASSUME IInv, NEW p \in Path, RecordBad(p), UNCHANGED evidence
    PROVE  IInv' /\ HeadStep
<1> DEFINE job == RecordFailure(ResetFile(sweep.job, p), p)
           todo == IF job.status = "failed" THEN {} ELSE sweep.todo
<1>1. /\ sweep # NoSweep /\ sweep.pc = "record" /\ p \in sweep.bad
      /\ sweep' = [sweep EXCEPT !.job = job, !.dirty = TRUE, !.pc = "verify",
                                !.bad = {}, !.todo = todo]
      /\ UNCHANGED <<storeVars, grabVars, queued>>
    BY DEF RecordBad, At
<1>2. /\ sweep.job.status # "failed"
      /\ p \notin sweep.todo
      /\ \A q \in sweep.todo : Unsettled(sweep.job, q)
    BY <1>1, SweepFields DEF Careful, Unsettled
<1>3. /\ Steady(job)
      /\ job.status \in {"uploading", "failed"}
      /\ job.status = "failed" => Exhausted(job.files[p])
      /\ job.files[p].attempts = sweep.job.files[p].attempts + 1
      /\ ~job.files[p].verified
      /\ \A q \in Path \ {p} : job.files[q] = sweep.job.files[q]
    BY <1>1, <1>2, SweepFields, BadRecordedSteady
<1> HIDE DEF job
<1>4. todo \subseteq sweep.todo /\ (job.status = "failed" => todo = {})
    OBVIOUS
<1> HIDE DEF todo
<1>5. /\ sweep' \in SweepRun
      /\ sweep'.rev = sweep.rev
      /\ sweep'.job = job
      /\ sweep'.pc = "verify"
      /\ sweep'.todo = todo
      /\ sweep.todo \subseteq Path
  <2>1. job \in ArchiveJob
      BY <1>3 DEF Steady
  <2> QED
      BY <1>1, <1>4, <2>1, SweepFields DEF SweepRun
<1>6. \A q \in todo : Unsettled(job, q)
    BY <1>2, <1>3, <1>4, <1>5 DEF Unsettled
<1>7. Careful(sweep')
    BY <1>3, <1>5, <1>6 DEF Careful
<1>8. Backed(sweep'.job, sweep'.rev, evidence')
    BY <1>1, <1>3, <1>5, SweepFields DEF Backed
<1>9. /\ UNCHANGED <<head, rev, fresh, r2, runs, queued>>
      /\ r2' \in [Path -> Object \cup {NoObject}]
      /\ evidence' \subseteq Path \X Revisions
    BY <1>1 DEF storeVars, grabVars, IInv, TypeOK
<1>10. ASSUME ChargesInTurn(head, sweep)
       PROVE  ChargesInTurn(head, sweep')
  <2>1. p \in Unread(sweep) /\ Unread(sweep') \subseteq Unread(sweep) \ {p}
      BY <1>1, <1>2, <1>4, <1>5 DEF Unread
  <2>2. sweep'.job.files[p].attempts = head.files[p].attempts + 1
      BY <1>3, <1>5, <1>10, <2>1 DEF ChargesInTurn
  <2>3. \A q \in Path \ {p} :
           sweep'.job.files[q].attempts = sweep.job.files[q].attempts
      BY <1>3, <1>5
  <2>4. Unread(sweep') \subseteq Path \ {p}
      BY <2>1 DEF Unread
  <2> QED
      BY <1>10, <2>1, <2>2, <2>3, <2>4 DEF ChargesInTurn, ChargesOnce
<1> QED
    BY <1>1, <1>3, <1>5, <1>7, <1>8, <1>9, <1>10, SweepMoves

-----------------------------------------------------------------------------
(* The pushes of the sweep                                                 *)

\* What a fresh sweep has saved is a progress of the head.
LEMMA SweepAdvancesHead ==
    ASSUME IInv, sweep # NoSweep, sweep.dirty, Sweeper \in fresh
    PROVE  /\ head # NoJob
           /\ head.status \notin TerminalStates
           /\ Advances(head, sweep.job)
           /\ sweep.job \in ArchiveJob
           /\ rev # 0
           /\ Backed(sweep.job, rev, evidence)
<1>1. /\ head # NoJob /\ rev # 0
      /\ head.status \notin TerminalStates
      /\ sweep.rev = rev
      /\ ChargesOnce(head, sweep.job)
      /\ Careful(sweep)
      /\ Backed(sweep.job, sweep.rev, evidence)
    BY DEF IInv, SweepHolds, HeadHolds, ChargesInTurn
<1>2. Steady(sweep.job) /\ sweep.job.status # "planned"
    BY <1>1 DEF Careful
<1>3. sweep.job.status \in {"uploading", "verifying", "verified", "failed"}
    BY <1>2, SteadyFields DEF Steady, Statuses
<1>4. Advances(head, sweep.job)
    BY <1>1, <1>2, <1>3 DEF Advances, Careful
<1> QED
    BY <1>1, <1>2, <1>4 DEF Steady

\* persist_before_dispatch: the sweep goes on from its own push.
LEMMA PersistKeeps ==
    ASSUME IInv, Persist, UNCHANGED evidence
    PROVE  IInv' /\ HeadStep
<1> USE DEF IInv
<1>1. /\ sweep # NoSweep /\ sweep.pc = "persist"
      /\ sweep' = [sweep EXCEPT !.pc = "dispatch", !.dirty = FALSE]
      /\ UNCHANGED <<rev, r2, runs, queued, evidence>>
    BY DEF Persist, At, grabVars
<1>2. /\ sweep' \in SweepRun
      /\ sweep'.rev = sweep.rev
      /\ sweep'.job = sweep.job
      /\ ~sweep'.dirty
      /\ sweep'.pc = "dispatch"
    BY <1>1, SweepFields DEF SweepRun
<1>3. Careful(sweep')
    BY <1>2, SweepFields, <1>1 DEF Careful
<1>4. CASE ~sweep.dirty
  <2>1. UNCHANGED <<head, fresh>>
      BY <1>4 DEF Persist
  <2>2. r2' \in [Path -> Object \cup {NoObject}]
      BY <1>1 DEF TypeOK
  <2>3. Unread(sweep') \subseteq Unread(sweep)
      BY <1>2 DEF Unread
  <2> QED
      BY <1>1, <1>2, <1>3, <2>1, <2>2, <2>3, SweepPauses
<1>5. CASE sweep.dirty
  <2>1. Sweeper \in fresh /\ head' = sweep.job /\ fresh' = {Sweeper}
      BY <1>5 DEF Persist, Publish
  <2>2. /\ head # NoJob
        /\ head.status \notin TerminalStates
        /\ Advances(head, sweep.job)
        /\ sweep.job \in ArchiveJob
        /\ rev # 0
        /\ Backed(sweep.job, rev, evidence)
      BY <1>1, <1>5, <2>1, SweepAdvancesHead
  <2>3. sweep.job.status \notin TerminalStates /\ Steady(sweep.job) /\ sweep.job # NoJob
      BY <1>1, SweepFields, SteadyFields, PendingIsUnfinished DEF Careful
  <2>4. TypeOK'
      BY <1>1, <1>2, <2>1, <2>2 DEF TypeOK, Holder
  <2>5. HeadHolds'
      BY <1>1, <2>1, <2>2, <2>3 DEF HeadHolds
  <2>6. QueuedHolds' /\ RunsHold'
      BY <1>1, <2>1, <2>3, HoldersDiffer DEF QueuedHolds, RunsHold
  <2>7. sweep.rev = rev /\ Backed(sweep.job, sweep.rev, evidence)
      BY <1>1, <2>1 DEF SweepHolds
  <2>8. ChargesInTurn(head, sweep)'
      BY <1>2, <2>1 DEF ChargesInTurn, ChargesOnce, Unread
  <2>9. SweepHolds'
      BY <1>1, <1>2, <1>3, <2>1, <2>3, <2>7, <2>8 DEF SweepHolds
  <2> QED
      BY <1>1, <2>1, <2>2, <2>4, <2>5, <2>6, <2>9 DEF HeadStep
<1> QED
    BY <1>4, <1>5

\* The run ends without a push.
LEMMA SweepLeaves ==
    ASSUME IInv, sweep' = NoSweep, fresh' = fresh \ {Sweeper},
           UNCHANGED <<head, rev, r2, runs, queued, evidence>>
    PROVE  IInv' /\ HeadStep
<1> USE DEF IInv
<1>1. TypeOK'
    BY DEF TypeOK
<1>2. HeadHolds' /\ QueuedHolds' /\ SweepHolds' /\ RunsHold'
    BY DEF HeadHolds, QueuedHolds, SweepHolds, RunsHold
<1> QED
    BY <1>1, <1>2 DEF HeadStep

\* The final push of a sweep whose checkout is fresh.
LEMMA CommitKeeps ==
    ASSUME IInv, Commit, UNCHANGED evidence
    PROVE  IInv' /\ HeadStep
<1> USE DEF IInv
<1>1. /\ sweep # NoSweep
      /\ sweep' = NoSweep
      /\ UNCHANGED <<rev, r2, runs, queued, evidence>>
    BY DEF Commit, At, grabVars
<1>2. CASE ~(sweep.dirty /\ Sweeper \in fresh)
    BY <1>1, <1>2, SweepLeaves DEF Commit
<1>3. CASE sweep.dirty /\ Sweeper \in fresh
  <2>1. head' = sweep.job /\ fresh' = {}
      BY <1>3 DEF Commit, Publish
  <2>2. /\ head # NoJob
        /\ head.status \notin TerminalStates
        /\ Advances(head, sweep.job)
        /\ sweep.job \in ArchiveJob
        /\ rev # 0
        /\ Backed(sweep.job, rev, evidence)
        /\ sweep.job # NoJob
      BY <1>1, <1>3, SweepAdvancesHead, SteadyFields DEF Advances
  <2>3. TypeOK'
      BY <1>1, <2>1, <2>2 DEF TypeOK
  <2>4. HeadHolds'
      BY <1>1, <2>1, <2>2 DEF HeadHolds, Advances
  <2>5. QueuedHolds' /\ SweepHolds' /\ RunsHold'
      BY <1>1, <2>1, <2>2 DEF QueuedHolds, SweepHolds, RunsHold
  <2> QED
      BY <1>1, <2>1, <2>2, <2>3, <2>4, <2>5 DEF HeadStep
<1> QED
    BY <1>2, <1>3

-----------------------------------------------------------------------------
(* Every step                                                              *)

\* The steps of the sweep other than a successful read-back.
LEMMA OtherSweepStepKeeps ==
    ASSUME IInv, OtherSweepStep, UNCHANGED evidence
    PROVE  IInv' /\ HeadStep
<1>1. CASE TriggerSweep
    BY <1>1, TriggerKeeps
<1>2. CASE BeginSweep
    BY <1>2, BeginKeeps
<1>3. CASE DropSweep
    BY <1>3, DropKeeps
<1>4. CASE ListRemote
    BY <1>4, ListKeeps
<1>5. CASE Reconcile
    BY <1>5, ReconcileKeeps
<1>6. CASE Persist
    BY <1>6, PersistKeeps
<1>7. CASE DispatchNothing \/ EndVerify \/ Abort
    BY <1>7, LeaveKeeps DEF DispatchNothing, EndVerify, Abort, At
<1>8. ASSUME NEW r \in Run, Dispatch(r)
      PROVE  IInv' /\ HeadStep
  <2>1. /\ sweep # NoSweep /\ sweep.pc = "dispatch"
        /\ StartRun(r, sweep.rev, rev, head)
        /\ fresh' = fresh \cup {r}
        /\ sweep' = [sweep EXCEPT !.pc = "commit"]
        /\ UNCHANGED <<head, rev, r2, queued, evidence>>
      BY <1>8 DEF Dispatch, At
  <2>2. /\ sweep' \in SweepRun
        /\ sweep'.rev = sweep.rev
        /\ sweep'.job = sweep.job
        /\ sweep'.dirty = sweep.dirty
        /\ sweep'.pc = "commit"
        /\ sweep.rev \in Revisions
      BY <2>1, SweepFields DEF SweepRun
  <2>3. Careful(sweep')
      BY <2>1, <2>2, SweepFields DEF Careful
  <2>4. head # NoJob
      BY <2>1 DEF IInv, SweepHolds
  <2>5. Unread(sweep') = {}
      BY <2>2 DEF Unread
  <2> QED
      BY <2>1, <2>2, <2>3, <2>4, <2>5, DispatchKeeps
<1>9. ASSUME NEW p \in Path,
             DeleteMismatched(p) \/ VerifyMismatch(p) \/ DeleteBad(p) \/ RecordBad(p)
      PROVE  IInv' /\ HeadStep
    BY <1>9, PurgeKeeps, MismatchKeeps, DeleteBadKeeps, RecordBadKeeps
<1>10. CASE Commit
    BY <1>10, CommitKeeps
<1>11. CASE SweepDies
    BY <1>11, SweepLeaves DEF SweepDies, grabVars
<1> QED
    BY <1>1, <1>2, <1>3, <1>4, <1>5, <1>6, <1>7, <1>8, <1>9, <1>10, <1>11
       DEF OtherSweepStep

LEMMA StepKeeps ==
    ASSUME IInv, [Next]_vars
    PROVE  IInv' /\ HeadStep
<1>1. CASE WatchPlans \/ WatchBlocks
    BY <1>1, WatchKeeps DEF WatchPlans, WatchBlocks
<1>2. CASE GrabStep
    BY <1>2, TransferKeeps, CollectKeeps, CollectLostKeeps DEF GrabStep
<1>3. CASE SweepStep
    BY <1>3, OtherSweepStepKeeps, ReadBackKeeps DEF SweepStep
<1>4. ASSUME NEW r \in Run, NEW v \in Revisions, OperatorDispatches(r, v)
      PROVE  IInv' /\ HeadStep
    BY <1>4, DispatchKeeps DEF OperatorDispatches
<1>5. CASE UNCHANGED vars
  <2>1. UNCHANGED <<head, rev, fresh, r2, runs, queued, sweep, evidence>>
      BY <1>5 DEF vars, storeVars, grabVars, sweepVars
  <2> QED
      BY <2>1 DEF IInv, TypeOK, HeadHolds, QueuedHolds, SweepHolds, RunsHold, HeadStep
<1> QED
    BY <1>1, <1>2, <1>3, <1>4, <1>5 DEF Next, Unattended

-----------------------------------------------------------------------------
(* The theorems                                                            *)

\* The inductive invariant of the archive: whoever holds a fresh checkout
\* works on a progress of the head, and everybody holds a job that saves.
THEOREM ArchiveInvariance == Spec => []IInv
<1>1. IInv /\ [Next]_vars => IInv'
    BY StepKeeps
<1> QED
    BY <1>1, InitEstablishes, PTL DEF Spec

\* Type correctness of the stores, checkouts, runs and sweeps.
THEOREM ArchiveTypeCorrect == Spec => []TypeOK
<1>1. IInv => TypeOK
    BY DEF IInv
<1> QED
    BY <1>1, ArchiveInvariance, PTL

\* The published job, and a sweep's, always loads, and the poison pill holds
\* in both.
THEOREM HeadStaysSound == Spec => []HeadIsSound
<1>1. IInv => HeadIsSound
  <2> SUFFICES ASSUME IInv PROVE HeadIsSound
      OBVIOUS
  <2>1. head # NoJob => ValidJob(head) /\ PoisonPillOf(head)
      BY DEF IInv, HeadHolds, Steady
  <2>2. sweep # NoSweep => ValidJob(sweep.job) /\ PoisonPillOf(sweep.job)
      BY DEF IInv, SweepHolds, Careful, Steady
  <2> QED
      BY <2>1, <2>2 DEF HeadIsSound
<1> QED
    BY <1>1, ArchiveInvariance, PTL

\* Whatever races, a published verified flag is backed by a read-back for the
\* revision of the job.
THEOREM VerifiedIsBacked == Spec => []VerifiedHasEvidence
<1>1. IInv => VerifiedHasEvidence
    BY DEF IInv, HeadHolds, Backed, VerifiedHasEvidence
<1> QED
    BY <1>1, ArchiveInvariance, PTL

\* No interleaving hands the collector or the sweeper a job it raises on.
THEOREM WritersGoOn == Spec => []WritersNeverRaise
<1>1. ASSUME IInv, NEW r \in Run, runs[r] # NoRun, r \in fresh
      PROVE  /\ CanMerge(head, CollectedResults(runs[r]))
             /\ \A job \in MergeOutcomes(head, CollectedResults(runs[r])) : CanSave(job)
  <2>1. head # NoJob /\ head.status \notin TerminalStates /\ Steady(head) /\ TypeOK
      BY <1>1 DEF IInv, RunsHold, HeadHolds
  <2>2. DOMAIN CollectedResults(runs[r]) \subseteq Path
      BY <1>1, <2>1, CollectedPaths
  <2>3. CanMerge(head, CollectedResults(runs[r]))
      BY <2>1, <2>2, SteadyFields DEF CanMerge, TerminalStates
  <2> QED
      BY <2>1, <2>2, <2>3, MergedSteady, SteadyFields
<1>2. ASSUME IInv, At("purge")
      PROVE  CanSave(Reconciled(sweep.job, sweep.listing))
    BY <1>2, SweepFields, ReconciledSteady, SteadyFields DEF At, Careful
<1>3. ASSUME IInv, At("verify"), NEW p \in sweep.todo
      PROVE  CanMarkVerified(sweep.job, p) /\ CanSave(MarkVerified(sweep.job, p))
  <2>1. /\ p \in Path /\ Steady(sweep.job)
        /\ sweep.job.status # "failed" /\ sweep.job.files[p].uploaded
      BY <1>3, SweepFields DEF At, Careful, Unsettled, SweepRun
  <2> QED
      BY <2>1, MarkVerifiedSteady, SteadyFields DEF CanMarkVerified
<1>4. ASSUME IInv, At("record"), NEW p \in sweep.bad
      PROVE  /\ CanResetFile(sweep.job, p)
             /\ CanSave(RecordFailure(ResetFile(sweep.job, p), p))
  <2>1. p \in Path /\ Steady(sweep.job) /\ sweep.job.status # "failed"
      BY <1>4, SweepFields DEF At, Careful, Unsettled, SweepRun
  <2> QED
      BY <2>1, BadRecordedSteady, SteadyFields
<1>5. IInv => WritersNeverRaise
    BY <1>1, <1>2, <1>3, <1>4 DEF WritersNeverRaise
<1> QED
    BY <1>5, ArchiveInvariance, PTL

-----------------------------------------------------------------------------
(* The refinement                                                          *)

\* A job every file of which is verified is verified or failed.
LEMMA ConfirmedIsFinal ==
    ASSUME NEW job, Steady(job)
    PROVE  /\ job.status = "verified" => \A p \in Path : job.files[p].verified
           /\ job.status \in {"uploading", "verifying"} =>
                 \E p \in Path : ~job.files[p].verified
BY SteadyFields DEF Steady, ValidJob, ValidFiles, AllUploaded, AllVerified

\* A planned revision starts over.
LEMMA PlanningPlans ==
    ASSUME rev' = rev + 1, head' \in {PlannedJob, WithStatus(PlannedJob, "failed")}
    PROVE  Promise!Plan
<1>1. /\ Steady(head') /\ head' # NoJob
      /\ head'.status \in {"planned", "failed"}
      /\ \A p \in Path : head'.files[p].attempts = 0 /\ ~head'.files[p].verified
    BY PlannedSteady, SteadyFields DEF NewFile, FileWith
<1> QED
    BY <1>1 DEF Promise!Plan

\* A progress of an unfinished job is one the promise allows.
LEMMA AdvancingProgresses ==
    ASSUME Steady(head), head # NoJob, rev' = rev,
           head.status \notin TerminalStates, Advances(head, head')
    PROVE  Promise!Progress
<1> DEFINE spent == [p \in Path |-> IF head = NoJob THEN 0 ELSE head.files[p].attempts]
           newSpent == [p \in Path |-> IF head' = NoJob THEN 0 ELSE head'.files[p].attempts]
           confirmed == {p \in Path : head' # NoJob /\ head'.files[p].verified}
<1>1. /\ Steady(head') /\ head' # NoJob
      /\ head'.status \in {"uploading", "verifying", "verified", "failed"}
      /\ ChargesOnce(head, head')
    BY SteadyFields DEF Advances
<1>2. head.status \notin {"verified", "failed", "none"}
    BY SteadyFields DEF TerminalStates, Statuses
<1>3. newSpent \in [Path -> 0 .. MaxAttempts + 1]
    BY <1>1, SteadyFields DEF FileState
<1>4. \A p \in Path : newSpent[p] \in {spent[p], spent[p] + 1}
    BY <1>1 DEF ChargesOnce
<1>5. head'.status = "failed" <=> \E p \in Path : newSpent[p] > MaxAttempts
    BY <1>1, SteadyFields DEF Advances, Exhausted, Steady, PoisonPillOf
<1>6. /\ confirmed \in SUBSET Path
      /\ head'.status = "verified" => confirmed = Path
      /\ confirmed = Path => head'.status \in {"verified", "failed"}
    BY <1>1, ConfirmedIsFinal
<1> QED
    BY <1>1, <1>2, <1>3, <1>4, <1>5, <1>6 DEF Promise!Progress, Promise!Final

\* The archive implements the promise to the readers of its job file.
THEOREM PromiseKept == Spec => KeepsPromise
<1>1. Init => Promise!Init
    BY DEF Init, StoreInit, Promise!Init
<1>2. IInv /\ [Next]_vars => [Promise!Next]_Promise!vars
  <2> SUFFICES ASSUME IInv, [Next]_vars
               PROVE  [Promise!Next]_Promise!vars
      OBVIOUS
  <2>1. CASE UNCHANGED <<head, rev>>
      BY <2>1 DEF Promise!vars
  <2>2. CASE /\ rev' = rev + 1
             /\ head' \in {PlannedJob, WithStatus(PlannedJob, "failed")}
      BY <2>2, PlanningPlans DEF Promise!Next
  <2>3. CASE /\ rev' = rev
             /\ head # NoJob
             /\ head.status \notin TerminalStates
             /\ Advances(head, head')
    <3>1. Steady(head)
        BY <2>3 DEF IInv, HeadHolds
    <3> QED
        BY <2>3, <3>1, AdvancingProgresses DEF Promise!Next
  <2> QED
      BY <2>1, <2>2, <2>3, StepKeeps DEF HeadStep
<1> QED
    BY <1>1, <1>2, ArchiveInvariance, PTL DEF Spec, KeepsPromise, Promise!Spec
=============================================================================

--------------------------- MODULE JobStateProofs ---------------------------
(***************************************************************************)
(* The operations of lib/state.py as JobState defines them, for every set  *)
(* of paths and every number of attempts: each takes a sound job to a good *)
(* one that follows it.  The proofs about processes rest on these lemmas.  *)
(***************************************************************************)
EXTENDS JobState, TLAPS

\* The caller assigned a status the class has not seen yet.
Gap(job) ==
    \/ job.trusted = job.status
    \/ job.trusted \in {"discovered", "planned"} /\ job.status = "failed"
    \/ job.trusted = "verified" /\ job.status = "pulled"

\* What holds of a job even between withdrawing a file and deriving the status.
Sound(job) ==
    /\ job \in Job
    /\ ValidFiles(job.files)
    /\ PoisonPillOf(job)
    /\ Gap(job)
    /\ job.status = "discovered" => DOMAIN job.files = {}
    /\ job.status = "pulled" => AllUploaded(job.files) /\ AllVerified(job.files)

Good(job) == Sound(job) /\ ValidJob(job)

\* A job that came out of an operation on an earlier one.
Follows(old, new) == NoRefund(old, new) /\ NoRevert(old, new)

-----------------------------------------------------------------------------
(* Lemmas about jobs                                                       *)

\* What a record in Job is, field by field.
LEMMA JobFields ==
    ASSUME NEW job
    PROVE  job \in Job <=>
             /\ job = [status |-> job.status, trusted |-> job.trusted,
                       files |-> job.files]
             /\ job.status \in Statuses
             /\ job.trusted \in Statuses
             /\ DOMAIN job.files \subseteq Path
             /\ job.files \in [DOMAIN job.files -> FileState]
BY DEF Job

\* A job with new files and status is a job.
LEMMA JobMade ==
    ASSUME NEW job \in Job, NEW s \in Statuses, NEW P \in SUBSET Path,
           NEW files \in [P -> FileState]
    PROVE  LET made == WithStatus([job EXCEPT !.files = files], s)
           IN  /\ made \in Job
               /\ made.status = s
               /\ made.trusted = s
               /\ made.files = files
BY DEF Job, WithStatus

\* The gap between assigned and trusted status is one save() accepts.
LEMMA GapSynchronizes ==
    ASSUME NEW job \in Job, Gap(job)
    PROVE  Synchronizes(job)
BY DEF Job, Gap, Synchronizes, Allowed, ForwardTransitions, Statuses

\* Operations compose.
LEMMA FollowsTransitive ==
    ASSUME NEW a, NEW b, NEW c, Sound(a), Sound(b), Sound(c),
           Follows(a, b), Follows(b, c)
    PROVE  Follows(a, c)
<1>1. NoRevert(a, c)
  BY DEF Follows, NoRevert
<1>2. a.status # "discovered" => DOMAIN b.files = DOMAIN a.files /\ DOMAIN c.files = DOMAIN b.files
  BY DEF Follows, NoRevert, NoRefund
<1>3. ASSUME NEW p \in DOMAIN a.files
      PROVE  c.files[p].attempts >= a.files[p].attempts
  <2>1. a.status # "discovered"
    BY <1>3 DEF Sound
  <2>2. p \in DOMAIN b.files /\ p \in DOMAIN c.files
    BY <1>2, <1>3, <2>1
  <2>3. /\ a.files[p].attempts \in Nat
        /\ b.files[p].attempts \in Nat
        /\ c.files[p].attempts \in Nat
    BY <1>3, <2>2, JobFields, JobStateAssumption DEF Sound, FileState
  <2>4. b.files[p].attempts >= a.files[p].attempts /\ c.files[p].attempts >= b.files[p].attempts
    BY <1>3, <2>2 DEF Follows, NoRefund
  <2> QED  BY <2>3, <2>4
<1> QED  BY <1>1, <1>2, <1>3 DEF Follows, NoRefund

\* A job that has not failed has attempts left for every file.
LEMMA PillClear ==
    ASSUME NEW job \in Job, PoisonPillOf(job), job.status # "failed"
    PROVE  \A p \in DOMAIN job.files : job.files[p].attempts \in 0 .. MaxAttempts
<1> SUFFICES ASSUME NEW p \in DOMAIN job.files
             PROVE  job.files[p].attempts \in 0 .. MaxAttempts
  OBVIOUS
<1>1. job.files[p].attempts \in 0 .. MaxAttempts + 1
  BY JobFields DEF FileState
<1>2. ~(job.files[p].attempts > MaxAttempts)
  BY DEF PoisonPillOf, Exhausted
<1> QED  BY <1>1, <1>2, JobStateAssumption

\* Assigning a status, assigned and trusted.
LEMMA WithStatusFields ==
    ASSUME NEW job \in Job, NEW s \in Statuses
    PROVE  /\ WithStatus(job, s) \in Job
           /\ WithStatus(job, s).status = s
           /\ WithStatus(job, s).trusted = s
           /\ WithStatus(job, s).files = job.files
BY DEF Job, WithStatus

\* Replacing the progress of the files, status aside.
LEMMA FilesFields ==
    ASSUME NEW job \in Job, NEW files \in [DOMAIN job.files -> FileState]
    PROVE  LET new == [job EXCEPT !.files = files]
           IN  /\ new \in Job
               /\ new.status = job.status
               /\ new.trusted = job.trusted
               /\ new.files = files
               /\ DOMAIN new.files = DOMAIN job.files
<1>1. DOMAIN job.files \in SUBSET Path
  BY JobFields
<1> QED  BY <1>1 DEF Job

-----------------------------------------------------------------------------
(* Each operation keeps a job good                                         *)

\* recompute_status makes any sound job good.
LEMMA RecomputeGood ==
    ASSUME NEW job, Sound(job)
    PROVE  /\ Good(Recompute(job))
           /\ Follows(job, Recompute(job))
<1> DEFINE new == Recompute(job)
<1>1. job \in Job
  BY DEF Sound
<1>2. CASE \/ job.status \in {"failed", "pulled"}
           \/ job.status = "discovered" /\ DOMAIN job.files = {}
  <2>1. new = WithStatus(job, job.status)
    BY <1>2 DEF Recompute
  <2>2. /\ new \in Job
        /\ new.status = job.status
        /\ new.trusted = job.status
        /\ new.files = job.files
    BY <1>1, <2>1, WithStatusFields, JobFields
  <2>3. Good(new)
    BY <1>2, <2>2 DEF Sound, Good, ValidJob, Gap, PoisonPillOf
  <2>4. Follows(job, new)
    <3>1. \A p \in DOMAIN job.files : job.files[p].attempts \in Nat
      BY <1>1, JobFields, JobStateAssumption DEF FileState
    <3> QED  BY <2>2, <3>1 DEF Follows, NoRefund, NoRevert
  <2> QED  BY <2>3, <2>4
<1>3. CASE ~(\/ job.status \in {"failed", "pulled"}
             \/ job.status = "discovered" /\ DOMAIN job.files = {})
  <2> DEFINE s == DerivedStatus(job.files)
  <2>1. new = WithStatus(job, s)
    BY <1>3 DEF Recompute
  <2>2. s \in {"uploading", "verifying", "verified"}
    BY DEF DerivedStatus
  <2>3. /\ new \in Job
        /\ new.status = s
        /\ new.trusted = s
        /\ new.files = job.files
    BY <1>1, <2>1, <2>2, WithStatusFields DEF Statuses
  <2>4. job.status # "discovered"
    BY <1>3 DEF Sound
  <2>5. ValidJob(new)
    BY <2>2, <2>3 DEF Sound, ValidJob, DerivedStatus
  <2>6. PoisonPillOf(new)
    BY <1>3, <2>3 DEF Sound, PoisonPillOf
  <2>7. Sound(new)
    BY <2>2, <2>3, <2>6 DEF Sound, Gap
  <2>8. Follows(job, new)
    <3>1. \A p \in DOMAIN job.files : job.files[p].attempts \in Nat
      BY <1>1, JobFields, JobStateAssumption DEF FileState
    <3>2. NoRefund(job, new)
      BY <2>3, <3>1 DEF NoRefund
    <3>3. NoRevert(job, new)
      BY <1>3, <2>2, <2>3 DEF NoRevert
    <3> QED  BY <3>2, <3>3 DEF Follows
  <2> QED  BY <2>5, <2>7, <2>8 DEF Good
<1> QED  BY <1>2, <1>3

\* One attempt more on one file of a job that has not failed.
LEMMA ChargedFiles ==
    ASSUME NEW job \in Job, PoisonPillOf(job), job.status # "failed",
           NEW p \in DOMAIN job.files
    PROVE  /\ Charged(job.files, p) \in [DOMAIN job.files -> FileState]
           /\ \A q \in DOMAIN job.files :
                 LET f == Charged(job.files, p)[q]
                 IN  /\ f.uploaded = job.files[q].uploaded
                     /\ f.verified = job.files[q].verified
                     /\ f.attempts = IF q = p THEN job.files[q].attempts + 1
                                     ELSE job.files[q].attempts
<1>1. job.files \in [DOMAIN job.files -> FileState]
  BY JobFields
<1>2. \A q \in DOMAIN job.files : job.files[q].attempts \in 0 .. MaxAttempts
  BY PillClear
<1>3. job.files[p].attempts + 1 \in 0 .. MaxAttempts + 1
  BY <1>2, JobStateAssumption
<1> DEFINE f == FileWith(job.files[p].uploaded, job.files[p].verified,
                        job.files[p].attempts + 1)
<1>4. f \in FileState /\ f.uploaded = job.files[p].uploaded
      /\ f.verified = job.files[p].verified /\ f.attempts = job.files[p].attempts + 1
  BY <1>1, <1>3 DEF FileState, FileWith
<1>5. Charged(job.files, p) = [job.files EXCEPT ![p] = f]
  BY DEF Charged
<1> HIDE DEF f
<1> QED  BY <1>1, <1>4, <1>5

\* record_failure keeps a sound job sound and a good job good.
LEMMA RecordFailureSound ==
    ASSUME NEW job, Sound(job), NEW p,
           job.status = "failed" \/ p \in DOMAIN job.files,
           job.status # "pulled"
    PROVE  LET new == RecordFailure(job, p)
           IN  /\ Sound(new)
               /\ Follows(job, new)
               /\ Good(job) => Good(new)
<1> DEFINE new == RecordFailure(job, p)
           files == Charged(job.files, p)
           charged == [job EXCEPT !.files = files]
<1>1. job \in Job
  BY DEF Sound
<1>2. \A q \in DOMAIN job.files : job.files[q].attempts \in Nat
  BY <1>1, JobFields, JobStateAssumption DEF FileState
<1>3. CASE job.status = "failed"
  <2>1. new = job
    BY <1>3 DEF RecordFailure
  <2> QED  BY <1>2, <2>1 DEF Follows, NoRefund, NoRevert
<1>4. CASE job.status # "failed"
  <2>1. /\ files \in [DOMAIN job.files -> FileState]
        /\ \A q \in DOMAIN job.files :
              /\ files[q].uploaded = job.files[q].uploaded
              /\ files[q].verified = job.files[q].verified
              /\ files[q].attempts = IF q = p THEN job.files[q].attempts + 1
                                     ELSE job.files[q].attempts
    BY <1>1, <1>4, ChargedFiles DEF Sound
  <2>2. /\ charged \in Job
        /\ charged.status = job.status
        /\ charged.trusted = job.trusted
        /\ charged.files = files
        /\ DOMAIN files = DOMAIN job.files
    BY <1>1, <2>1, FilesFields
  <2>3. \A q \in DOMAIN job.files : ~Exhausted(job.files[q])
    BY <1>4 DEF Sound, PoisonPillOf
  <2>4. \A q \in DOMAIN files : Exhausted(files[q]) => q = p
    BY <2>1, <2>2, <2>3 DEF Exhausted
  <2>5. NoRefund(job, charged)
    BY <1>2, <2>1, <2>2 DEF NoRefund
  <2>6. CASE Exhausted(files[p])
    <3>1. new = WithStatus(charged, "failed")
      BY <1>4, <2>2, <2>6 DEF RecordFailure
    <3>2. /\ new \in Job
          /\ new.status = "failed"
          /\ new.trusted = "failed"
          /\ new.files = files
      <4> HIDE DEF charged, files
      <4>1. "failed" \in Statuses
        BY DEF Statuses
      <4> QED  BY <2>2, <3>1, <4>1, WithStatusFields
    <3>3. ValidFiles(files)
      BY <2>1, <2>2 DEF Sound, ValidFiles
    <3>4. PoisonPillOf(new)
      BY <2>4, <3>2 DEF PoisonPillOf
    <3>5. Good(new)
      BY <3>2, <3>3, <3>4 DEF Good, Sound, Gap, ValidJob
    <3>6. Follows(job, new)
      BY <1>4, <2>2, <2>5, <3>2 DEF Follows, NoRefund, NoRevert
    <3> QED  BY <3>5, <3>6 DEF Good
  <2>7. CASE ~Exhausted(files[p])
    <3>1. new = charged
      BY <1>4, <2>2, <2>7 DEF RecordFailure
    <3>2. PoisonPillOf(new)
      BY <2>2, <2>4, <2>7, <3>1 DEF PoisonPillOf
    <3>3. ValidFiles(files) /\ (AllUploaded(files) <=> AllUploaded(job.files))
                           /\ (AllVerified(files) <=> AllVerified(job.files))
      BY <2>1, <2>2 DEF Sound, ValidFiles, AllUploaded, AllVerified
    <3>4. Sound(new)
      BY <2>2, <3>1, <3>2, <3>3 DEF Sound, Gap
    <3>5. Follows(job, new)
      BY <2>2, <2>5, <3>1 DEF Follows, NoRevert
    <3>6. ASSUME Good(job)
          PROVE  ValidJob(new)
      BY <2>1, <2>2, <3>1, <3>3, <3>6 DEF Good, ValidJob
    <3> QED  BY <3>4, <3>5, <3>6 DEF Good
  <2> QED  BY <2>6, <2>7
<1> QED  BY <1>3, <1>4

\* record_failure and recompute_status together.
LEMMA FailAndRecomputeGood ==
    ASSUME NEW job, Sound(job), NEW p,
           job.status = "failed" \/ p \in DOMAIN job.files,
           job.status # "pulled"
    PROVE  /\ Good(FailAndRecompute(job, p))
           /\ Follows(job, FailAndRecompute(job, p))
<1> DEFINE after == RecordFailure(job, p)
<1>1. Sound(after) /\ Follows(job, after)
  BY RecordFailureSound
<1>2. CASE after.status = "failed"
  BY <1>1, <1>2 DEF FailAndRecompute, Good, Sound, ValidJob
<1>3. CASE after.status # "failed"
  <2>1. FailAndRecompute(job, p) = Recompute(after)
    BY <1>3 DEF FailAndRecompute
  <2>2. Good(Recompute(after)) /\ Follows(after, Recompute(after))
    BY <1>1, RecomputeGood
  <2> QED  BY <1>1, <2>1, <2>2, FollowsTransitive DEF Good
<1> QED  BY <1>2, <1>3

\* Setting the two flags of one file.
LEMMA FlagsSound ==
    ASSUME NEW job, Sound(job), NEW p \in DOMAIN job.files,
           NEW u \in BOOLEAN, NEW v \in BOOLEAN, v => u,
           job.status = "pulled" => u /\ v
    PROVE  LET new == WithFlags(job, p, u, v)
           IN  /\ Sound(new)
               /\ Follows(job, new)
               /\ new.status = job.status
               /\ new.trusted = job.trusted
               /\ DOMAIN new.files = DOMAIN job.files
               /\ ~u => ~AllUploaded(new.files)
<1> DEFINE new == WithFlags(job, p, u, v)
           f == [uploaded |-> u, verified |-> v, attempts |-> job.files[p].attempts]
           files == [job.files EXCEPT ![p] = f]
<1>1. job \in Job /\ job.files \in [DOMAIN job.files -> FileState]
  BY JobFields DEF Sound
<1>2. f \in FileState
  BY <1>1 DEF FileState
<1>3. files \in [DOMAIN job.files -> FileState]
  BY <1>1, <1>2
<1>4. new = [job EXCEPT !.files = files]
  BY <1>1 DEF WithFlags, FileWith
<1>5. /\ new \in Job
      /\ new.status = job.status
      /\ new.trusted = job.trusted
      /\ new.files = files
      /\ DOMAIN new.files = DOMAIN job.files
  BY <1>1, <1>3, <1>4, FilesFields
<1>6. /\ files[p] = f
      /\ \A q \in DOMAIN job.files : q # p => files[q] = job.files[q]
  BY <1>1
<1>7. ValidFiles(files)
  BY <1>5, <1>6 DEF Sound, ValidFiles
<1>8. \A q \in DOMAIN job.files : files[q].attempts = job.files[q].attempts
  BY <1>6
<1>9. PoisonPillOf(new)
  BY <1>5, <1>8 DEF Sound, PoisonPillOf, Exhausted
<1>10. job.status = "pulled" => AllUploaded(files) /\ AllVerified(files)
  BY <1>5, <1>6 DEF Sound, AllUploaded, AllVerified
<1>11. Sound(new)
  BY <1>5, <1>7, <1>9, <1>10 DEF Sound, Gap
<1>12. Follows(job, new)
  <2>1. \A q \in DOMAIN job.files : job.files[q].attempts \in Nat
    BY <1>1, JobStateAssumption DEF FileState
  <2> QED  BY <1>5, <1>8, <2>1 DEF Follows, NoRefund, NoRevert
<1>13. ~u => ~AllUploaded(files)
  BY <1>5, <1>6 DEF AllUploaded
<1> QED  BY <1>5, <1>11, <1>12, <1>13

\* A step through a sound job to a good one.
LEMMA RecomputeAfter ==
    ASSUME NEW job, NEW mid, Sound(job), Sound(mid), Follows(job, mid)
    PROVE  /\ Good(Recompute(mid))
           /\ Follows(job, Recompute(mid))
<1>1. Good(Recompute(mid)) /\ Follows(mid, Recompute(mid))
  BY RecomputeGood
<1> QED  BY <1>1, FollowsTransitive DEF Good

\* The flags of a file are Booleans.
LEMMA FlagsAreBoolean ==
    ASSUME NEW job \in Job, NEW p \in DOMAIN job.files
    PROVE  job.files[p].uploaded \in BOOLEAN /\ job.files[p].verified \in BOOLEAN
BY JobFields DEF FileState

\* mark_uploaded, whether it accepts the hash or not.
LEMMA MarkUploadedGood ==
    ASSUME NEW job, Sound(job), NEW p, NEW obs \in Observed,
           CanMarkUploaded(job, p, obs)
    PROVE  /\ Good(MarkUploaded(job, p, obs))
           /\ Follows(job, MarkUploaded(job, p, obs))
<1>1. p \in DOMAIN job.files /\ job \in Job
  BY DEF CanMarkUploaded, Sound
<1>2. CASE Accepts(p, obs)
  <2> DEFINE mid == WithFlags(job, p, TRUE, job.files[p].verified)
  <2>1. job.status = "pulled" => job.files[p].verified
    BY <1>1 DEF Sound, AllVerified
  <2>2. Sound(mid) /\ Follows(job, mid)
    BY <1>1, <2>1, FlagsAreBoolean, FlagsSound
  <2>3. MarkUploaded(job, p, obs) = Recompute(mid)
    BY <1>2 DEF MarkUploaded
  <2> QED  BY <2>2, <2>3, RecomputeAfter
<1>3. CASE ~Accepts(p, obs)
  <2> DEFINE mid == Rejected(job, p, obs)
  <2>1. job.status # "pulled"
    BY <1>3 DEF CanMarkUploaded, CanRecordFailure
  <2>2. /\ Sound(mid)
        /\ Follows(job, mid)
        /\ mid.status = job.status
        /\ DOMAIN mid.files = DOMAIN job.files
    <3>1. CASE obs = "other"
      BY <1>1, <2>1, <3>1, FlagsSound DEF Rejected
    <3>2. CASE obs # "other"
      <4>1. mid = job
        BY <3>2 DEF Rejected
      <4>2. Follows(job, job)
        BY RecomputeGood, <1>1, JobFields, JobStateAssumption
           DEF Follows, NoRefund, NoRevert, FileState
      <4> QED  BY <4>1, <4>2
    <3> QED  BY <3>1, <3>2
  <2>3. Good(FailAndRecompute(mid, p)) /\ Follows(mid, FailAndRecompute(mid, p))
    BY <1>1, <2>1, <2>2, FailAndRecomputeGood
  <2>4. MarkUploaded(job, p, obs) = FailAndRecompute(mid, p)
    BY <1>3 DEF MarkUploaded
  <2> QED  BY <2>2, <2>3, <2>4, FollowsTransitive DEF Good
<1> QED  BY <1>2, <1>3

\* mark_verified.
LEMMA MarkVerifiedGood ==
    ASSUME NEW job, Sound(job), NEW p, CanMarkVerified(job, p)
    PROVE  /\ Good(MarkVerified(job, p))
           /\ Follows(job, MarkVerified(job, p))
<1> DEFINE mid == WithFlags(job, p, job.files[p].uploaded, TRUE)
<1>1. p \in DOMAIN job.files /\ job \in Job
  BY DEF CanMarkVerified, Sound
<1>2. job.files[p].uploaded
  BY DEF CanMarkVerified
<1>3. Sound(mid) /\ Follows(job, mid)
  BY <1>1, <1>2, FlagsAreBoolean, FlagsSound
<1>4. MarkVerified(job, p) = Recompute(mid)
  BY DEF MarkVerified
<1> QED  BY <1>3, <1>4, RecomputeAfter

\* reset_file.
LEMMA ResetFileGood ==
    ASSUME NEW job, Sound(job), NEW p, CanResetFile(job, p)
    PROVE  /\ Good(ResetFile(job, p))
           /\ Follows(job, ResetFile(job, p))
<1> DEFINE mid == WithFlags(job, p, FALSE, FALSE)
           new == ResetFile(job, p)
<1>1. p \in DOMAIN job.files /\ job \in Job /\ job.status \notin {"failed", "pulled"}
  BY DEF CanResetFile, Sound
<1>2. /\ Sound(mid)
      /\ Follows(job, mid)
      /\ mid.status = job.status
      /\ ~AllUploaded(mid.files)
  BY <1>1, FlagsSound
<1>3. /\ new \in Job
      /\ new.status = "uploading"
      /\ new.trusted = "uploading"
      /\ new.files = mid.files
  <2> HIDE DEF mid
  <2>1. mid \in Job /\ "uploading" \in Statuses
    BY <1>2 DEF Sound, Statuses
  <2>2. new = WithStatus(mid, "uploading")
    BY DEF ResetFile, mid
  <2> QED  BY <2>1, <2>2, WithStatusFields
<1>4. PoisonPillOf(new)
  BY <1>1, <1>2, <1>3 DEF Sound, PoisonPillOf
<1>5. Good(new)
  BY <1>2, <1>3, <1>4 DEF Good, Sound, Gap, ValidJob
<1>6. Follows(job, new)
  BY <1>1, <1>2, <1>3 DEF Follows, NoRefund, NoRevert
<1> QED  BY <1>5, <1>6

\* set_files.
LEMMA SetFilesGood ==
    ASSUME NEW job, Sound(job), NEW paths \in SUBSET Path, CanSetFiles(job)
    PROVE  /\ Good(SetFiles(job, paths))
           /\ Follows(job, SetFiles(job, paths))
<1> DEFINE files == [p \in paths |-> NewFile]
           new == SetFiles(job, paths)
<1>1. NewFile \in FileState
  BY JobStateAssumption DEF NewFile, FileWith, FileState
<1>2. /\ new \in Job
      /\ new.status = "planned"
      /\ new.trusted = "planned"
      /\ new.files = files
  <2>1. files \in [paths -> FileState] /\ "planned" \in Statuses /\ job \in Job
    BY <1>1 DEF Statuses, Sound
  <2>2. new = WithStatus([job EXCEPT !.files = files], "planned")
    BY DEF SetFiles
  <2> HIDE DEF files
  <2> QED  BY <2>1, <2>2, JobMade
<1>3. \A p \in paths : files[p] = NewFile
  OBVIOUS
<1>4. ~Exhausted(NewFile)
  BY JobStateAssumption DEF NewFile, FileWith, Exhausted
<1>5. DOMAIN job.files = {} /\ job.status = "discovered"
  BY DEF Sound, CanSetFiles
<1>6. ValidJob(new)
  BY <1>2, <1>3 DEF ValidJob, ValidFiles, NewFile, FileWith
<1>7. PoisonPillOf(new)
  BY <1>2, <1>3, <1>4 DEF PoisonPillOf
<1>8. Sound(new)
  BY <1>2, <1>6, <1>7 DEF Sound, Gap, ValidJob
<1>9. Follows(job, new)
  BY <1>2, <1>5 DEF Follows, NoRefund, NoRevert
<1> QED  BY <1>6, <1>8, <1>9 DEF Good

\* What merging a result makes of its file, when no file is out of attempts.
LEMMA MergedFileFields ==
    ASSUME NEW f \in FileState, f.attempts \in 0 .. MaxAttempts,
           f.verified => f.uploaded, NEW p, NEW result
    PROVE  LET g == MergedFile(f, p, result)
           IN  /\ g \in FileState
               /\ g.verified => g.uploaded
               /\ g.attempts >= f.attempts
               /\ Accepts(p, result) => /\ g.uploaded
                                       /\ g.verified = f.verified
                                       /\ g.attempts = f.attempts
               /\ ~Accepts(p, result) => g.attempts = f.attempts + 1
<1> DEFINE g == MergedFile(f, p, result)
<1>1. f.attempts + 1 \in 0 .. MaxAttempts + 1 /\ f.attempts \in Nat
  BY JobStateAssumption
<1>2. CASE Accepts(p, result)
  <2>1. g = FileWith(TRUE, f.verified, f.attempts)
    BY <1>2 DEF MergedFile
  <2> QED  BY <1>1, <1>2, <2>1 DEF FileState, FileWith
<1>3. CASE ~Accepts(p, result) /\ result = "other"
  <2>1. g = FileWith(FALSE, FALSE, f.attempts + 1)
    BY <1>3 DEF MergedFile
  <2>2. g \in FileState /\ g.attempts = f.attempts + 1
    BY <1>1, <2>1 DEF FileState, FileWith
  <2>3. g.verified = FALSE
    BY <2>1 DEF FileWith
  <2> QED  BY <1>1, <1>3, <2>2, <2>3
<1>4. CASE ~Accepts(p, result) /\ result # "other"
  <2>1. g = FileWith(f.uploaded, f.verified, f.attempts + 1)
    BY <1>4 DEF MergedFile
  <2> QED  BY <1>1, <1>4, <2>1 DEF FileState, FileWith
<1> QED  BY <1>2, <1>3, <1>4

\* The files after part of the results: well formed, no attempt given back, and
\* exhausted exactly where a fatal result was merged.
LEMMA MergedFilesSound ==
    ASSUME NEW job, Sound(job), job.status # "failed",
           NEW results, NEW done \in SUBSET DOMAIN results,
           DOMAIN results \subseteq DOMAIN job.files
    PROVE  LET files == MergedFiles(job, results, done)
           IN  /\ files \in [DOMAIN job.files -> FileState]
               /\ ValidFiles(files)
               /\ \A q \in DOMAIN job.files :
                     /\ files[q].attempts >= job.files[q].attempts
                     /\ Exhausted(files[q]) => q \in done /\ q \in Fatal(job, results)
               /\ (job.status = "pulled" /\ \A q \in DOMAIN results : Accepts(q, results[q]))
                     => AllUploaded(files) /\ AllVerified(files)
<1> DEFINE files == MergedFiles(job, results, done)
<1>1. job \in Job /\ job.files \in [DOMAIN job.files -> FileState]
  BY JobFields DEF Sound
<1>2. \A q \in DOMAIN job.files :
         /\ job.files[q] \in FileState
         /\ job.files[q].attempts \in 0 .. MaxAttempts
         /\ job.files[q].verified => job.files[q].uploaded
  BY <1>1, PillClear DEF Sound, ValidFiles
<1>3. \A q \in done : files[q] = MergedFile(job.files[q], q, results[q])
  BY DEF MergedFiles
<1>4. \A q \in DOMAIN job.files : q \notin done => files[q] = job.files[q]
  BY DEF MergedFiles
<1>5. DOMAIN files = DOMAIN job.files /\ files = [q \in DOMAIN job.files |-> files[q]]
  BY DEF MergedFiles
<1> HIDE DEF files
<1>6. \A q \in DOMAIN job.files :
         /\ files[q] \in FileState
         /\ files[q].verified => files[q].uploaded
         /\ files[q].attempts >= job.files[q].attempts
         /\ Exhausted(files[q]) => q \in done /\ q \in Fatal(job, results)
         /\ q \in done /\ Accepts(q, results[q]) =>
               files[q].uploaded /\ files[q].verified = job.files[q].verified
  <2> SUFFICES ASSUME NEW q \in DOMAIN job.files
               PROVE  /\ files[q] \in FileState
                      /\ files[q].verified => files[q].uploaded
                      /\ files[q].attempts >= job.files[q].attempts
                      /\ Exhausted(files[q]) => q \in done /\ q \in Fatal(job, results)
                      /\ q \in done /\ Accepts(q, results[q]) =>
                            files[q].uploaded /\ files[q].verified = job.files[q].verified
    OBVIOUS
  <2>1. CASE q \notin done
    BY <1>2, <1>4, <2>1, JobStateAssumption DEF Exhausted
  <2>2. CASE q \in done
    <3> DEFINE g == MergedFile(job.files[q], q, results[q])
    <3>1. files[q] = g
      BY <1>3, <2>2
    <3>2. /\ g \in FileState
          /\ g.verified => g.uploaded
          /\ g.attempts >= job.files[q].attempts
          /\ Accepts(q, results[q]) => /\ g.uploaded
                                       /\ g.verified = job.files[q].verified
                                       /\ g.attempts = job.files[q].attempts
          /\ ~Accepts(q, results[q]) => g.attempts = job.files[q].attempts + 1
      BY <1>2, MergedFileFields
    <3> HIDE DEF g
    <3>3. Exhausted(g) => q \in Fatal(job, results)
      BY <1>2, <2>2, <3>2, JobStateAssumption DEF Exhausted, Fatal
    <3> QED  BY <2>2, <3>1, <3>2, <3>3
  <2> QED  BY <2>1, <2>2
<1>7. files \in [DOMAIN job.files -> FileState]
  BY <1>5, <1>6
<1>8. ValidFiles(files)
  BY <1>5, <1>6 DEF ValidFiles
<1>9. ASSUME job.status = "pulled", \A q \in DOMAIN results : Accepts(q, results[q])
      PROVE  AllUploaded(files) /\ AllVerified(files)
  <2>1. \A q \in DOMAIN job.files : job.files[q].uploaded /\ job.files[q].verified
    BY <1>9 DEF Sound, AllUploaded, AllVerified
  <2>2. \A q \in DOMAIN files : files[q].uploaded /\ files[q].verified
    <3> SUFFICES ASSUME NEW q \in DOMAIN files
                 PROVE  files[q].uploaded /\ files[q].verified
      OBVIOUS
    <3>1. CASE q \in done
      BY <1>5, <1>6, <1>9, <2>1, <3>1
    <3>2. CASE q \notin done
      BY <1>4, <1>5, <2>1, <3>2
    <3> QED  BY <3>1, <3>2
  <2> QED  BY <2>2 DEF AllUploaded, AllVerified
<1> QED  BY <1>6, <1>7, <1>8, <1>9 DEF files

\* merge_shard_results, in whatever order the results come.
LEMMA MergeGood ==
    ASSUME NEW job, Sound(job), NEW results, CanMerge(job, results),
           NEW new \in MergeOutcomes(job, results)
    PROVE  Good(new) /\ Follows(job, new)
<1> DEFINE fatal == Fatal(job, results)
           safe == DOMAIN results \ fatal
<1>1. job \in Job /\ \A p \in DOMAIN job.files : job.files[p].attempts \in Nat
  BY JobFields, JobStateAssumption DEF Sound, FileState
<1>2. CASE job.status = "failed"
  <2>1. new = job
    BY <1>2 DEF MergeOutcomes
  <2>2. Good(job)
    BY <1>2 DEF Good, Sound, ValidJob
  <2> QED  BY <1>1, <2>1, <2>2 DEF Follows, NoRefund, NoRevert
<1>3. CASE job.status # "failed" /\ fatal = {}
  <2> DEFINE files == MergedFiles(job, results, safe)
             mid == [job EXCEPT !.files = files]
  <2>1. /\ DOMAIN results \subseteq DOMAIN job.files
        /\ job.status = "pulled" => \A p \in DOMAIN results : Accepts(p, results[p])
    BY <1>3 DEF CanMerge
  <2>2. /\ files \in [DOMAIN job.files -> FileState]
        /\ ValidFiles(files)
        /\ \A q \in DOMAIN job.files :
              /\ files[q].attempts >= job.files[q].attempts
              /\ ~Exhausted(files[q])
        /\ job.status = "pulled" => AllUploaded(files) /\ AllVerified(files)
    BY <1>3, <2>1, MergedFilesSound
  <2>3. new = Recompute(mid)
    BY <1>3 DEF MergeOutcomes
  <2> HIDE DEF files
  <2>4. /\ mid \in Job
        /\ mid.status = job.status
        /\ mid.trusted = job.trusted
        /\ mid.files = files
        /\ DOMAIN mid.files = DOMAIN job.files
    BY <1>1, <2>2, FilesFields
  <2>5. PoisonPillOf(mid)
    BY <2>2, <2>4 DEF PoisonPillOf
  <2>6. Sound(mid)
    BY <2>2, <2>4, <2>5 DEF Sound, Gap
  <2>7. Follows(job, mid)
    BY <2>2, <2>4 DEF Follows, NoRefund, NoRevert
  <2> QED  BY <2>3, <2>6, <2>7, RecomputeAfter
<1>4. CASE job.status # "failed" /\ fatal # {}
  <2>1. /\ DOMAIN results \subseteq DOMAIN job.files
        /\ job.status # "pulled"
    BY <1>4 DEF CanMerge, Fatal
  <2>2. PICK done \in SUBSET safe, p \in fatal : new = CutShort(job, results, done, p)
    <3>1. new \in {CutShort(job, results, d, q) : d \in SUBSET safe, q \in fatal}
      BY <1>4 DEF MergeOutcomes
    <3> QED  BY <3>1
  <2> DEFINE files == MergedFiles(job, results, done \cup {p})
             mid == [job EXCEPT !.files = files]
  <2>3. done \cup {p} \in SUBSET DOMAIN results
    BY DEF Fatal
  <2>4. /\ files \in [DOMAIN job.files -> FileState]
        /\ ValidFiles(files)
        /\ \A q \in DOMAIN job.files :
              /\ files[q].attempts >= job.files[q].attempts
              /\ Exhausted(files[q]) => q = p
    BY <1>4, <2>1, <2>3, MergedFilesSound
  <2>5. new = WithStatus(mid, "failed")
    BY <2>2 DEF CutShort
  <2> HIDE DEF files
  <2>6. /\ mid \in Job
        /\ mid.files = files
        /\ DOMAIN mid.files = DOMAIN job.files
    BY <1>1, <2>4, FilesFields
  <2>7. /\ new \in Job
        /\ new.status = "failed"
        /\ new.trusted = "failed"
        /\ new.files = files
    <3> HIDE DEF mid
    <3>1. "failed" \in Statuses
      BY DEF Statuses
    <3> QED  BY <2>5, <2>6, <3>1, WithStatusFields
  <2>8. PoisonPillOf(new)
    BY <2>4, <2>6, <2>7 DEF PoisonPillOf
  <2>9. Good(new)
    BY <2>4, <2>7, <2>8 DEF Good, Sound, Gap, ValidJob
  <2>10. Follows(job, new)
    BY <1>4, <2>1, <2>4, <2>6, <2>7 DEF Follows, NoRefund, NoRevert
  <2> QED  BY <2>9, <2>10
<1> QED  BY <1>2, <1>3, <1>4

\* A job that saves is one that follows itself.
LEMMA FollowsItself ==
    ASSUME NEW job, Sound(job)
    PROVE  Follows(job, job)
<1>1. \A p \in DOMAIN job.files : job.files[p].attempts \in Nat
  BY JobFields, JobStateAssumption DEF Sound, FileState
<1> QED  BY <1>1 DEF Follows, NoRefund, NoRevert

\* save() and load() leave the job as it is but for the trust.
LEMMA SavedGood ==
    ASSUME NEW job, Good(job)
    PROVE  /\ Good(Saved(job))
           /\ Saved(job).trusted = Saved(job).status
           /\ Saved(job).status = job.status
           /\ Saved(job).files = job.files
           /\ Saved(job) # NoJob
<1> DEFINE new == Saved(job)
<1>1. /\ new \in Job
      /\ new.status = job.status
      /\ new.trusted = job.status
      /\ new.files = job.files
  BY DEF Saved, Good, Sound, Job
<1>2. ValidJob(new) /\ PoisonPillOf(new)
  BY <1>1 DEF Good, Sound, ValidJob, PoisonPillOf
<1>3. Sound(new)
  BY <1>1, <1>2 DEF Good, Sound, Gap
<1> QED  BY <1>1, <1>2, <1>3, JobStateAssumption DEF Good

\* A status and files make the whole job.
LEMMA WithStatusRecord ==
    ASSUME NEW job \in Job, NEW files, NEW s
    PROVE  WithStatus([job EXCEPT !.files = files], s)
             = [status |-> s, trusted |-> s, files |-> files]
BY DEF WithStatus, Job

\* What charging a file of a running job does.
LEMMA ChargeCases ==
    ASSUME NEW job, Sound(job), job.status \notin {"failed", "pulled"},
           NEW p \in DOMAIN job.files
    PROVE  LET files == Charged(job.files, p)
               charged == [job EXCEPT !.files = files]
           IN  /\ job.files[p].attempts >= MaxAttempts =>
                     /\ RecordFailure(job, p) = WithStatus(charged, "failed")
                     /\ FailAndRecompute(job, p) = WithStatus(charged, "failed")
               /\ ~(job.files[p].attempts >= MaxAttempts) =>
                     /\ RecordFailure(job, p) = charged
                     /\ FailAndRecompute(job, p) = Recompute(charged)
               /\ charged.files = files
               /\ charged.status = job.status
               /\ charged.trusted = job.trusted
<1> DEFINE files == Charged(job.files, p)
           charged == [job EXCEPT !.files = files]
<1>1. /\ files \in [DOMAIN job.files -> FileState]
      /\ files[p].attempts = job.files[p].attempts + 1
  BY ChargedFiles DEF Sound
<1>2. job.files[p].attempts \in Nat
  BY JobFields, JobStateAssumption DEF Sound, FileState
<1>3. Exhausted(files[p]) <=> job.files[p].attempts >= MaxAttempts
  BY <1>1, <1>2, JobStateAssumption DEF Exhausted
<1> HIDE DEF files
<1>4. /\ charged \in Job
      /\ charged.files = files
      /\ charged.status = job.status
      /\ charged.trusted = job.trusted
  BY <1>1, FilesFields DEF Sound
<1> HIDE DEF charged
<1>5. RecordFailure(job, p) = IF Exhausted(files[p]) THEN WithStatus(charged, "failed")
                              ELSE charged
  BY <1>4 DEF RecordFailure, files, charged
<1>6. WithStatus(charged, "failed").status = "failed"
  BY <1>4, WithStatusFields DEF Statuses
<1>7. FailAndRecompute(job, p) = IF Exhausted(files[p]) THEN WithStatus(charged, "failed")
                                 ELSE Recompute(charged)
  BY <1>4, <1>5, <1>6 DEF FailAndRecompute
<1> QED  BY <1>3, <1>4, <1>5, <1>7 DEF files, charged
=============================================================================

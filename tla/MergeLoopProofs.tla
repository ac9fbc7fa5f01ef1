--------------------------- MODULE MergeLoopProofs ---------------------------
(***************************************************************************)
(* The loop of merge_shard_results computes the outcomes of its closed     *)
(* form and never raises, for every job, every results and every order.    *)
(***************************************************************************)
EXTENDS MergeLoop, JobStateProofs

\* What the merged results have made of the files so far.
SoFar == MergedFiles(start, results, merged)

\* No fatal result has had its turn: the status is that of the start or derived.
Running ==
    /\ Sound(job)
    /\ job.trusted = job.status
    /\ job.status \notin {"failed", "pulled"}
    /\ job.files = SoFar
    /\ job.status = "discovered" => job = start
    /\ start.status \notin {"failed", "pulled"}
    /\ start.status = "discovered" => job = start
    /\ merged \cap Fatal(start, results) = {}

\* A fatal result was the last to have its turn.
Ended ==
    /\ job.status = "failed"
    /\ start.status # "failed"
    /\ \E p \in Fatal(start, results) :
          /\ merged \cap Fatal(start, results) = {p}
          /\ job = CutShort(start, results, merged \ {p}, p)

\* The job had failed before.
Refused == start.status = "failed" /\ job = start /\ merged = {}

LInv ==
    /\ Good(start)
    /\ start.trusted = start.status
    /\ start.status # "pulled"
    /\ results \in [DOMAIN results -> ShardResult]
    /\ DOMAIN results \subseteq DOMAIN start.files
    /\ merged \subseteq DOMAIN results
    /\ pc = "loop" => Running \/ Ended \/ Refused
    /\ pc = "end" => job \in MergeOutcomes(start, results)

-----------------------------------------------------------------------------

\* The merged files after one more result: only its file changes.
LEMMA OneMore ==
    ASSUME Good(start), NEW p \in DOMAIN results \ merged,
           DOMAIN results \subseteq DOMAIN start.files
    PROVE  LET next == MergedFiles(start, results, merged \cup {p})
           IN  /\ next = [SoFar EXCEPT ![p] = MergedFile(start.files[p], p, results[p])]
               /\ SoFar[p] = start.files[p]
               /\ DOMAIN SoFar = DOMAIN start.files
               /\ p \in DOMAIN SoFar
BY DEF MergedFiles, SoFar

\* A job whose files are those so far counts a result fatal as the start does.
LEMMA StartCount ==
    ASSUME Good(start), start.status # "failed", NEW p \in DOMAIN start.files
    PROVE  /\ start.files[p] \in FileState
           /\ start.files[p].attempts \in 0 .. MaxAttempts
           /\ start.files[p].verified => start.files[p].uploaded
BY JobFields, PillClear DEF Good, Sound, ValidFiles

\* The turn of p in a running loop: a fatal result cuts the loop short, any
\* other leaves the files merged up to it.
LEMMA RunningTurn ==
    ASSUME LInv, Running, NEW p \in DOMAIN results \ merged
    PROVE  LET new  == MergeOne(job, p, results[p])
               next == MergedFiles(start, results, merged \cup {p})
           IN  /\ p \in Fatal(start, results) =>
                     new = [status |-> "failed", trusted |-> "failed", files |-> next]
               /\ p \notin Fatal(start, results) =>
                     /\ Sound(new)
                     /\ new.trusted = new.status
                     /\ new.status \notin {"failed", "pulled", "discovered"}
                     /\ new.files = next
<1> DEFINE f == start.files[p]
           next == MergedFiles(start, results, merged \cup {p})
           new == MergeOne(job, p, results[p])
<1>1. /\ next = [SoFar EXCEPT ![p] = MergedFile(f, p, results[p])]
      /\ job.files = SoFar
      /\ job.files[p] = f
      /\ p \in DOMAIN job.files
      /\ p \in DOMAIN start.files
  BY OneMore DEF LInv, Running
<1>2. /\ f \in FileState
      /\ f.attempts \in 0 .. MaxAttempts
      /\ f.verified => f.uploaded
      /\ f.uploaded \in BOOLEAN
      /\ f.verified \in BOOLEAN
  BY <1>1, StartCount DEF LInv, Running, FileState
<1>3. p \in Fatal(start, results) <=> ~Accepts(p, results[p]) /\ f.attempts >= MaxAttempts
  BY DEF Fatal
<1>4. Sound(job) /\ job \in Job /\ job.status \notin {"failed", "pulled", "discovered"}
  BY <1>1 DEF Running, Sound
<1>5. job.trusted = job.status
  BY DEF Running
<1>6. results[p] \in ShardResult
  BY DEF LInv
<1>7. CASE Accepts(p, results[p])
  <2> DEFINE mid == WithFlags(job, p, TRUE, f.verified)
  <2>1. Sound(mid) /\ mid.status = job.status
    <3>1. \A v \in BOOLEAN : Sound(WithFlags(job, p, TRUE, v))
                             /\ WithFlags(job, p, TRUE, v).status = job.status
      BY <1>1, <1>4, FlagsSound
    <3> QED  BY <1>2, <3>1
  <2>2. mid.files = next
    <3>1. mid.files = [job.files EXCEPT ![p] = FileWith(TRUE, f.verified, f.attempts)]
      BY <1>1, <1>4 DEF WithFlags, Job
    <3>2. MergedFile(f, p, results[p]) = FileWith(TRUE, f.verified, f.attempts)
      BY <1>7 DEF MergedFile
    <3> QED  BY <1>1, <3>1, <3>2
  <2>3. new = Recompute(mid)
    BY <1>1, <1>4, <1>7 DEF MergeOne, MarkUploaded, Accepts
  <2> HIDE DEF mid, next
  <2>4. Good(Recompute(mid))
    BY <2>1, RecomputeGood
  <2>5. Recompute(mid) = WithStatus(mid, DerivedStatus(mid.files))
    BY <1>4, <2>1 DEF Recompute
  <2>6. DerivedStatus(mid.files) \in {"uploading", "verifying", "verified"}
    BY DEF DerivedStatus
  <2> QED  BY <1>3, <1>7, <2>2, <2>3, <2>4, <2>5, <2>6 DEF WithStatus, Good, next
<1>8. CASE ~Accepts(p, results[p])
  <2> DEFINE mid == IF results[p] = "other" THEN WithFlags(job, p, FALSE, FALSE) ELSE job
             charged == [mid EXCEPT !.files = Charged(mid.files, p)]
  <2>1. /\ Sound(mid)
        /\ mid.status = job.status
        /\ mid.trusted = job.trusted
        /\ DOMAIN mid.files = DOMAIN job.files
    BY <1>1, <1>4, FlagsSound
  <2>2. mid.files[p].attempts = f.attempts /\ Charged(mid.files, p) = next
    <3>1. CASE results[p] = "other"
      <4>1. mid.files = [job.files EXCEPT ![p] = FileWith(FALSE, FALSE, f.attempts)]
        BY <1>1, <1>4, <3>1 DEF WithFlags, Job
      <4>2. mid.files[p] = FileWith(FALSE, FALSE, f.attempts)
        BY <1>1, <4>1
      <4>3. FileWith(FALSE, FALSE, f.attempts).attempts = f.attempts
            /\ FileWith(FALSE, FALSE, f.attempts).uploaded = FALSE
            /\ FileWith(FALSE, FALSE, f.attempts).verified = FALSE
        BY DEF FileWith
      <4>4. Charged(mid.files, p) = [mid.files EXCEPT ![p] =
                FileWith(mid.files[p].uploaded, mid.files[p].verified, mid.files[p].attempts + 1)]
        BY DEF Charged
      <4>5. Charged(mid.files, p) = [mid.files EXCEPT ![p] = FileWith(FALSE, FALSE, f.attempts + 1)]
        BY <4>2, <4>3, <4>4
      <4>6. Charged(mid.files, p) = [job.files EXCEPT ![p] = FileWith(FALSE, FALSE, f.attempts + 1)]
        BY <1>1, <4>1, <4>5
      <4>7. MergedFile(f, p, results[p]) = FileWith(FALSE, FALSE, f.attempts + 1)
        BY <1>8, <3>1 DEF MergedFile
      <4> QED  BY <1>1, <4>2, <4>3, <4>6, <4>7
    <3>2. CASE results[p] # "other"
      <4>1. MergedFile(f, p, results[p]) = FileWith(f.uploaded, f.verified, f.attempts + 1)
        BY <1>8, <3>2 DEF MergedFile
      <4>2. Charged(job.files, p) = [job.files EXCEPT ![p] = FileWith(f.uploaded, f.verified, f.attempts + 1)]
        BY <1>1 DEF Charged
      <4> QED  BY <1>1, <3>2, <4>1, <4>2
    <3> QED  BY <3>1, <3>2
  <2>3. new = RecordFailure(mid, p) \/ new = FailAndRecompute(mid, p)
    BY <1>4, <1>8 DEF MergeOne, MarkUploaded, Rejected
  <2> HIDE DEF mid, next
  <2>4. CASE f.attempts >= MaxAttempts
    <3>a. /\ Sound(mid)
          /\ mid.status \notin {"failed", "pulled"}
          /\ p \in DOMAIN mid.files
          /\ mid.files[p].attempts >= MaxAttempts
      BY <1>1, <1>4, <2>1, <2>2, <2>4
    <3>b. /\ RecordFailure(mid, p) = WithStatus(charged, "failed")
          /\ FailAndRecompute(mid, p) = WithStatus(charged, "failed")
      BY <3>a, ChargeCases
    <3>1. new = WithStatus(charged, "failed")
      BY <2>3, <3>b
    <3>2. new = [status |-> "failed", trusted |-> "failed", files |-> next]
      BY <2>1, <2>2, <3>1, WithStatusRecord DEF Sound
    <3> QED  BY <1>3, <1>8, <2>4, <3>2 DEF next
  <2>5. CASE ~(f.attempts >= MaxAttempts)
    <3>1. /\ new = charged \/ new = Recompute(charged)
          /\ RecordFailure(mid, p) = charged
          /\ charged.files = next
          /\ charged.status = job.status
          /\ charged.trusted = job.trusted
      BY <1>1, <1>4, <2>1, <2>2, <2>3, <2>5, ChargeCases
    <3>2. Sound(charged)
      BY <1>1, <1>4, <2>1, <3>1, RecordFailureSound
    <3> HIDE DEF charged
    <3>3. /\ Sound(Recompute(charged))
          /\ Recompute(charged) = WithStatus(charged, DerivedStatus(charged.files))
          /\ DerivedStatus(charged.files) \in {"uploading", "verifying", "verified"}
      BY <1>4, <3>1, <3>2, RecomputeGood DEF Good, Recompute, DerivedStatus
    <3>4. CASE new = charged
      BY <1>3, <1>4, <1>5, <2>5, <3>1, <3>2, <3>4 DEF next
    <3>5. CASE new = Recompute(charged)
      BY <1>3, <2>5, <3>1, <3>3, <3>5 DEF next, WithStatus
    <3> QED  BY <3>1, <3>4, <3>5
  <2> QED  BY <2>4, <2>5
<1> QED  BY <1>7, <1>8

\* No result makes a running loop raise.
LEMMA RunningAccepts ==
    ASSUME LInv, Running, NEW p \in DOMAIN results \ merged
    PROVE  CanMergeOne(p)
<1>1. /\ p \in DOMAIN job.files
      /\ Sound(job)
      /\ job \in Job
      /\ job.trusted = job.status
      /\ job.status \notin {"failed", "pulled", "discovered"}
  BY OneMore DEF LInv, Running, Sound
<1>2. \A j : j.trusted = j.status => Synchronizes(j)
  BY DEF Synchronizes, Allowed
<1>3. CanSetStatus(job, "failed")
  BY <1>1, <1>2, JobFields DEF CanSetStatus, Allowed, ForwardTransitions, Statuses
<1>4. CanRecordFailure(job, p)
  BY <1>1, <1>3 DEF CanRecordFailure
<1>5. CanRecompute(job)
  BY <1>1, <1>2 DEF CanRecompute, Sound
<1>6. CanRecompute(RecordFailure(Rejected(job, p, results[p]), p))
  <2> DEFINE mid == Rejected(job, p, results[p])
  <2>1. /\ Sound(mid)
        /\ mid.status = job.status
        /\ mid.trusted = job.trusted
        /\ DOMAIN mid.files = DOMAIN job.files
    <3>1. CASE results[p] = "other"
      BY <1>1, <3>1, FlagsSound DEF Rejected
    <3>2. CASE results[p] # "other"
      BY <1>1, <3>2 DEF Rejected
    <3> QED  BY <3>1, <3>2
  <2> HIDE DEF mid
  <2>2. Sound(RecordFailure(mid, p))
    BY <1>1, <2>1, RecordFailureSound
  <2>3. Synchronizes(RecordFailure(mid, p))
    BY <2>2, GapSynchronizes DEF Sound
  <2> QED  BY <2>2, <2>3 DEF CanRecompute, Sound, mid
<1> QED  BY <1>1, <1>4, <1>5, <1>6 DEF CanMergeOne, CanMarkUploaded

\* A loop that ran to its end computes the single outcome without a fatal
\* result.
LEMMA RunningFinishes ==
    ASSUME LInv, Running, merged = DOMAIN results
    PROVE  Recompute(job) \in MergeOutcomes(start, results)
<1> DEFINE whole == [start EXCEPT !.files = SoFar]
<1>1. Fatal(start, results) = {}
  BY DEF Running, Fatal
<1>2. MergeOutcomes(start, results) = {Recompute(whole)}
  BY <1>1 DEF MergeOutcomes, Running, SoFar
<1>3. start \in Job /\ job \in Job
  BY DEF LInv, Good, Sound, Running
<1>4. CASE job = start
  <2>1. [start EXCEPT !.files = start.files] = start
    BY <1>3 DEF Job
  <2> QED  BY <1>2, <1>4, <2>1 DEF Running
<1>5. CASE job # start
  <2>1. job.status # "discovered" /\ start.status # "discovered"
    BY <1>5 DEF Running
  <2>2. whole.status = start.status /\ whole.files = SoFar
    BY <1>3 DEF Job
  <2> HIDE DEF whole
  <2>3. Recompute(job) = WithStatus(job, DerivedStatus(SoFar))
    BY <2>1 DEF Recompute, Running
  <2>4. Recompute(whole) = WithStatus(whole, DerivedStatus(SoFar))
    BY <2>1, <2>2 DEF Recompute, Running
  <2>5. Recompute(job) = Recompute(whole)
    BY <2>2, <2>3, <2>4 DEF WithStatus, Running
  <2> QED  BY <1>2, <2>5
<1> QED  BY <1>4, <1>5

\* A loop cut short ends in one of the failed outcomes.
LEMMA EndedOutcome ==
    ASSUME LInv, Ended
    PROVE  job \in MergeOutcomes(start, results)
<1>1. PICK p \in Fatal(start, results) :
         /\ merged \cap Fatal(start, results) = {p}
         /\ job = CutShort(start, results, merged \ {p}, p)
  BY DEF Ended
<1>2. merged \ {p} \in SUBSET (DOMAIN results \ Fatal(start, results))
  BY <1>1 DEF LInv
<1> QED  BY <1>1, <1>2 DEF MergeOutcomes, Ended

\* The loop invariant holds of the job the collector loaded.
LEMMA LoopInit == Init => LInv
<1> SUFFICES ASSUME Init
             PROVE  LInv
  OBVIOUS
<1>1. start \in StartJobs /\ job = start /\ merged = {} /\ pc = "loop"
  BY DEF Init
<1>2. start \in Job /\ start.trusted = start.status /\ start.status # "pulled"
  BY <1>1 DEF StartJobs
<1>3. Good(start)
  BY <1>1, <1>2 DEF StartJobs, Good, Sound, Gap, ValidJob
<1>4. results \in [DOMAIN results -> ShardResult] /\ DOMAIN results \subseteq DOMAIN start.files
  BY DEF Init
<1>5. CASE start.status = "failed"
  BY <1>1, <1>2, <1>3, <1>4, <1>5 DEF LInv, Refused
<1>6. CASE start.status # "failed"
  <2>1. SoFar = start.files
    <3>1. SoFar = [q \in DOMAIN start.files |-> start.files[q]]
      BY <1>1 DEF SoFar, MergedFiles
    <3>2. start.files \in [DOMAIN start.files -> FileState]
      BY <1>2, JobFields
    <3> QED  BY <3>1, <3>2
  <2>2. Running
    BY <1>1, <1>2, <1>3, <1>6, <2>1 DEF Running, Good
  <2> QED  BY <1>1, <1>2, <1>3, <1>4, <2>2 DEF LInv
<1> QED  BY <1>5, <1>6

\* Every turn, the break and the end of the loop keep the loop invariant.
LEMMA LoopNext == LInv /\ [Next]_vars => LInv'
<1> SUFFICES ASSUME LInv, [Next]_vars
             PROVE  LInv'
  OBVIOUS
<1>1. ASSUME NEW p \in DOMAIN results \ merged, Turn(p)
      PROVE  LInv'
  <2>1. /\ pc = "loop"
        /\ pc' = "loop"
        /\ start' = start
        /\ results' = results
        /\ merged' = merged \cup {p}
        /\ job' = MergeOne(job, p, results[p])
        /\ job.status # "failed"
    BY <1>1 DEF Turn
  <2>2. Running
    BY <2>1 DEF LInv, Ended, Refused
  <2>3. SoFar' = MergedFiles(start, results, merged \cup {p})
    BY <2>1 DEF SoFar
  <2>4. start \in Job /\ start.status # "failed" /\ start.status # "discovered"
    BY <2>2 DEF LInv, Good, Sound, Running
  <2>5. CASE p \in Fatal(start, results)
    <3>1. job' = [status |-> "failed", trusted |-> "failed",
                  files |-> MergedFiles(start, results, merged \cup {p})]
      BY <2>1, <2>2, <2>5, RunningTurn
    <3>2. (merged' \ {p}) \cup {p} = merged \cup {p}
      BY <2>1
    <3>3. job' = CutShort(start, results, merged' \ {p}, p)
      BY <2>4, <3>1, <3>2, WithStatusRecord DEF CutShort
    <3>4. merged' \cap Fatal(start, results) = {p}
      BY <2>1, <2>2, <2>5 DEF Running
    <3>5. Ended'
      BY <2>1, <2>4, <2>5, <3>1, <3>3, <3>4 DEF Ended
    <3> QED  BY <2>1, <3>5 DEF LInv
  <2>6. CASE p \notin Fatal(start, results)
    <3>1. /\ Sound(job')
          /\ job'.trusted = job'.status
          /\ job'.status \notin {"failed", "pulled", "discovered"}
          /\ job'.files = SoFar'
      BY <2>1, <2>2, <2>3, <2>6, RunningTurn
    <3>2. merged' \cap Fatal(start, results) = {}
      BY <2>1, <2>2, <2>6 DEF Running
    <3>3. Running'
      BY <2>1, <2>2, <2>4, <3>1, <3>2 DEF Running
    <3> QED  BY <2>1, <3>3 DEF LInv
  <2> QED  BY <2>5, <2>6
<1>2. CASE Break
  <2>1. job.status = "failed" /\ pc = "loop" /\ UNCHANGED <<start, results, job, merged>>
        /\ pc' = "end"
    BY <1>2 DEF Break
  <2>2. job \in MergeOutcomes(start, results)
    BY <2>1, EndedOutcome DEF LInv, Running, Refused, MergeOutcomes
  <2> QED  BY <2>1, <2>2 DEF LInv
<1>3. CASE Finish
  <2>1. /\ pc = "loop"
        /\ pc' = "end"
        /\ merged = DOMAIN results
        /\ job' = IF job.status = "failed" THEN job ELSE Recompute(job)
        /\ UNCHANGED <<start, results, merged>>
    BY <1>3 DEF Finish
  <2>2. job' \in MergeOutcomes(start, results)
    <3>1. CASE Running
      BY <2>1, <3>1, RunningFinishes DEF Running
    <3>2. CASE Ended
      BY <2>1, <3>2, EndedOutcome DEF Ended
    <3>3. CASE Refused
      BY <2>1, <3>3 DEF Refused, MergeOutcomes
    <3> QED  BY <2>1, <3>1, <3>2, <3>3 DEF LInv
  <2> QED  BY <2>1, <2>2 DEF LInv
<1>4. CASE UNCHANGED vars
  BY <1>4 DEF vars, LInv, Running, Ended, Refused, SoFar
<1> QED  BY <1>1, <1>2, <1>3, <1>4 DEF Next

-----------------------------------------------------------------------------
(* The theorems                                                            *)

\* The loop invariant holds at every turn.
THEOREM LoopInvariance == Spec => []LInv
BY LoopInit, LoopNext, PTL DEF Spec

\* Whatever the job, the results and their order, the loop ends in an outcome
\* of the closed form MergeOutcomes, the only one when no result is fatal.
THEOREM LoopIsItsClosedForm == Spec => []LoopComputesOutcome
<1>1. LInv => LoopComputesOutcome
  BY DEF LInv, LoopComputesOutcome
<1> QED  BY <1>1, LoopInvariance, PTL

\* No combination of results makes the merge of a collectable job raise, nor the
\* derivation of its status after the last of them.
THEOREM LoopNeverRaises == Spec => []MergeNeverRaises
<1>1. ASSUME LInv, pc = "loop", NEW p \in DOMAIN results \ merged
      PROVE  CanMergeOne(p)
  <2>1. CASE Running
    BY <1>1, <2>1, RunningAccepts
  <2>2. CASE Ended \/ Refused
    BY <2>2 DEF Ended, Refused, CanMergeOne
  <2> QED  BY <1>1, <2>1, <2>2 DEF LInv
<1>2. ASSUME LInv, pc = "loop", job.status # "failed"
      PROVE  CanRecompute(job)
  <2>1. Running
    BY <1>2 DEF LInv, Ended, Refused
  <2>2. Synchronizes(job)
    BY <2>1 DEF Running, Synchronizes, Allowed
  <2>3. ValidFiles(job.files)
    BY <2>1 DEF Running, Sound
  <2> QED  BY <2>2, <2>3 DEF CanRecompute
<1>3. LInv => MergeNeverRaises
  BY <1>1, <1>2 DEF MergeNeverRaises
<1> QED  BY <1>3, LoopInvariance, PTL
=============================================================================

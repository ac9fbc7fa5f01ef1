------------------------------ MODULE JobState ------------------------------
(***************************************************************************)
(* The job record of lib/state.py and the operations on it, as pure        *)
(* operators: what each call returns for a job, and (the Can... operators) *)
(* when it returns at all instead of raising.                              *)
(*                                                                         *)
(* A job carries `trusted', the non-serialized status its class remembers  *)
(* (Job._trusted_status), beside the `status' a caller may assign.  The    *)
(* descriptive fields (names, sizes, timestamps, last_error) and their     *)
(* format checks are left out; `files' maps the paths of the immutable     *)
(* file plan to their progress.                                            *)
(***************************************************************************)
EXTENDS Naturals, FiniteSets

CONSTANTS Path,         \* every file path a plan may name
          Lfs,          \* the paths with a declared SHA256 (LFS files)
          MaxAttempts,  \* MAX_ATTEMPTS
          NoJob         \* load() found no state file: Python's None

Statuses == {"discovered", "planned", "uploading", "verifying",
             "verified", "pulled", "failed"}

\* The poison pill stops a file's counter one past MAX_ATTEMPTS.
FileState == [uploaded: BOOLEAN, verified: BOOLEAN,
              attempts: 0 .. MaxAttempts + 1]

FileWith(uploaded, verified, attempts) ==
    [uploaded |-> uploaded, verified |-> verified, attempts |-> attempts]

Job == [status: Statuses, trusted: Statuses,
        files: UNION {[P -> FileState] : P \in SUBSET Path}]

ASSUME JobStateAssumption ==
    /\ Lfs \subseteq Path
    /\ MaxAttempts \in Nat
    /\ NoJob \notin Job

\* What a caller reports for a streamed upload: the declared hash, another
\* well-formed hash, or no valid hash at all.
Observed == {"declared", "other", "invalid"}

\* A shard's result for one file: a hash it claims to have uploaded, or an
\* error (an `error' text, uploaded false, or a result that is no object).
ShardResult == Observed \cup {"error"}

-----------------------------------------------------------------------------
(* Status transitions                                                      *)

ForwardTransitions ==
    [discovered |-> {"planned", "failed"},
     planned    |-> {"uploading", "verifying", "verified", "failed"},
     uploading  |-> {"verifying", "verified", "failed"},
     verifying  |-> {"verified", "failed"},
     verified   |-> {"pulled", "failed"},
     pulled     |-> {},
     failed     |-> {}]

Allowed(old, new) == old = new \/ new \in ForwardTransitions[old]

AllowedOnRetry(old, new) ==
    Allowed(old, new) \/ (new = "uploading" /\ old \in {"verifying", "verified"})

\* _synchronize_caller_status accepts whatever the caller assigned.
Synchronizes(job) == Allowed(job.trusted, job.status)

\* Mutant: the counter may run one past the poison pill.
ExhaustedLate(f) == f.attempts > MaxAttempts + 1

Exhausted(f) == f.attempts > MaxAttempts

\* The poison pill: at most one file of a job has used up its attempts, and the
\* job has failed.
PoisonPillOf(job) ==
    /\ \A p \in DOMAIN job.files :
          Exhausted(job.files[p]) => job.status = "failed"
    /\ \A p, q \in DOMAIN job.files :
          Exhausted(job.files[p]) /\ Exhausted(job.files[q]) => p = q

\* The file plan is written once, and nothing gives a file its attempts back.
NoRefund(old, new) ==
    /\ old.status # "discovered" => DOMAIN new.files = DOMAIN old.files
    /\ \A p \in DOMAIN old.files : new.files[p].attempts >= old.files[p].attempts

NoRevert(old, new) ==
    /\ old.status \in {"failed", "pulled"} => new.status = old.status
    /\ new.status = "discovered" => old.status = "discovered"
    /\ new.status = "planned" => old.status \in {"discovered", "planned"}

WithStatus(job, s) == [status |-> s, trusted |-> s, files |-> job.files]

CanSetStatus(job, s) == Synchronizes(job) /\ Allowed(job.status, s)

-----------------------------------------------------------------------------
(* Validation                                                              *)

AllUploaded(files) == \A p \in DOMAIN files : files[p].uploaded
AllVerified(files) == \A p \in DOMAIN files : files[p].verified

ValidFiles(files) ==
    \A p \in DOMAIN files : files[p].verified => files[p].uploaded

ValidJob(job) ==
    /\ ValidFiles(job.files)
    /\ job.status = "discovered" => DOMAIN job.files = {}
    /\ job.status = "planned" =>
          \A p \in DOMAIN job.files :
             ~job.files[p].uploaded /\ ~job.files[p].verified
    /\ job.status = "uploading" =>
          DOMAIN job.files = {} \/ ~AllUploaded(job.files)
    /\ job.status = "verifying" =>
          AllUploaded(job.files) /\ ~AllVerified(job.files)
    /\ job.status \in {"verified", "pulled"} =>
          AllUploaded(job.files) /\ AllVerified(job.files)

\* save() raises unless the caller's status follows from the trusted one and
\* the whole job validates.
CanSave(job) == Synchronizes(job) /\ ValidJob(job)

Saved(job) == [job EXCEPT !.trusted = job.status]

-----------------------------------------------------------------------------
(* Derived status and the retry counter                                    *)

DerivedStatus(files) ==
    IF ~AllUploaded(files) THEN "uploading"
    ELSE IF ~AllVerified(files) THEN "verifying"
    ELSE "verified"

CanRecompute(job) ==
    /\ Synchronizes(job)
    /\ job.status \notin {"failed", "pulled"} => ValidFiles(job.files)

\* Mutant: a failed or pulled job is derived like any other.
RecomputeFinal(job) ==
    IF job.status = "discovered" /\ DOMAIN job.files = {} THEN job
    ELSE WithStatus(job, DerivedStatus(job.files))

Recompute(job) ==
    IF \/ job.status \in {"failed", "pulled"}
       \/ job.status = "discovered" /\ DOMAIN job.files = {}
    THEN WithStatus(job, job.status)
    ELSE WithStatus(job, DerivedStatus(job.files))

\* One more failed attempt of p.
Charged(files, p) ==
    [files EXCEPT ![p] = FileWith(@.uploaded, @.verified, @.attempts + 1)]

CanRecordFailure(job, p) ==
    \/ job.status = "failed"
    \/ /\ p \in DOMAIN job.files
       /\ job.status # "pulled"
       /\ Exhausted(Charged(job.files, p)[p]) => CanSetStatus(job, "failed")

\* Mutant: the pill never trips.
RecordFailureWithoutPill(job, p) ==
    IF job.status = "failed" THEN job ELSE [job EXCEPT !.files = Charged(@, p)]

RecordFailure(job, p) ==
    LET charged == [job EXCEPT !.files = Charged(job.files, p)]
    IN  IF job.status = "failed" THEN job
        ELSE IF Exhausted(charged.files[p]) THEN WithStatus(charged, "failed")
        ELSE charged

\* record_failure followed by recompute_status unless the job failed.
FailAndRecompute(job, p) ==
    LET after == RecordFailure(job, p)
    IN  IF after.status = "failed" THEN after ELSE Recompute(after)

-----------------------------------------------------------------------------
(* The operations of the module                                            *)

NewFile == FileWith(FALSE, FALSE, 0)

NewJob == [status |-> "discovered", trusted |-> "discovered", files |-> [p \in {} |-> NewFile]]

CanSetFiles(job) == job.status = "discovered" /\ CanSetStatus(job, "planned")

SetFiles(job, paths) ==
    WithStatus([job EXCEPT !.files = [p \in paths |-> NewFile]], "planned")

\* The hash check of mark_uploaded: a file without a declared hash takes any
\* well-formed one.
Accepts(p, obs) == obs = "declared" \/ (obs = "other" /\ p \notin Lfs)

WithFlags(job, p, uploaded, verified) ==
    [job EXCEPT !.files[p] = FileWith(uploaded, verified, @.attempts)]

\* Mutant: the withdrawn upload stays verified.
RejectedHalf(job, p, obs) ==
    IF obs = "other" THEN WithFlags(job, p, FALSE, job.files[p].verified) ELSE job

\* Mutant: the earlier upload still counts.
RejectedKept(job, p, obs) == job

\* A hash that contradicts the declared one withdraws the file's progress; a
\* malformed one only costs an attempt.
Rejected(job, p, obs) ==
    IF obs = "other" THEN WithFlags(job, p, FALSE, FALSE) ELSE job

CanMarkUploaded(job, p, obs) ==
    /\ p \in DOMAIN job.files
    /\ IF Accepts(p, obs)
       THEN CanRecompute(job)
       ELSE /\ CanRecordFailure(job, p)
            /\ job.status # "failed" =>
                  CanRecompute(RecordFailure(Rejected(job, p, obs), p))

MarkUploaded(job, p, obs) ==
    IF Accepts(p, obs)
    THEN Recompute(WithFlags(job, p, TRUE, job.files[p].verified))
    ELSE FailAndRecompute(Rejected(job, p, obs), p)

CanMarkVerified(job, p) ==
    /\ p \in DOMAIN job.files
    /\ job.files[p].uploaded
    /\ CanRecompute(job)

MarkVerified(job, p) ==
    Recompute(WithFlags(job, p, job.files[p].uploaded, TRUE))

\* Mutant: only forward transitions, as if reopening a file were none.
CanResetFileForward(job, p) ==
    /\ p \in DOMAIN job.files
    /\ job.status \notin {"failed", "pulled"}
    /\ Synchronizes(job)
    /\ Allowed(job.status, "uploading")

CanResetFile(job, p) ==
    /\ p \in DOMAIN job.files
    /\ job.status \notin {"failed", "pulled"}
    /\ Synchronizes(job)
    /\ AllowedOnRetry(job.status, "uploading")

\* Mutant: the file stays verified.
ResetFileHalf(job, p) ==
    WithStatus(WithFlags(job, p, FALSE, job.files[p].verified), "uploading")

\* Mutant: the file starts over with a new budget.
ResetFileRefund(job, p) == WithStatus([job EXCEPT !.files[p] = NewFile], "uploading")

ResetFile(job, p) == WithStatus(WithFlags(job, p, FALSE, FALSE), "uploading")

PendingUploads(job) ==
    IF job.status = "failed" THEN {}
    ELSE {p \in DOMAIN job.files : ~job.files[p].uploaded}

PendingVerifications(job) ==
    IF job.status = "failed" THEN {}
    ELSE {p \in DOMAIN job.files :
            job.files[p].uploaded /\ ~job.files[p].verified}

-----------------------------------------------------------------------------
(* Merging the results of a grab                                           *)

\* One turn of the loop of merge_shard_results: a failed job takes no more.
MergeOne(job, p, result) ==
    IF job.status = "failed" THEN job
    ELSE IF result = "error" THEN RecordFailure(job, p)
    ELSE MarkUploaded(job, p, result)

\* The file's progress after its result was merged.
MergedFile(f, p, result) ==
    IF Accepts(p, result) THEN FileWith(TRUE, f.verified, f.attempts)
    ELSE IF result = "other" THEN FileWith(FALSE, FALSE, f.attempts + 1)
    ELSE FileWith(f.uploaded, f.verified, f.attempts + 1)

\* The paths whose result uses up the last attempt.
Fatal(job, results) ==
    {p \in DOMAIN results :
        ~Accepts(p, results[p]) /\ job.files[p].attempts >= MaxAttempts}

MergedFiles(job, results, done) ==
    [p \in DOMAIN job.files |->
        IF p \in done THEN MergedFile(job.files[p], p, results[p])
        ELSE job.files[p]]

\* The results in done came first, then the fatal one of p.
CutShort(job, results, done, p) ==
    WithStatus([job EXCEPT !.files = MergedFiles(job, results, done \cup {p})],
               "failed")

\* Mutant: the loop goes on after a fatal result.
MergeOutcomesWithoutBreak(job, results) ==
    LET files == MergedFiles(job, results, DOMAIN results)
    IN  IF job.status = "failed" THEN {job}
        ELSE IF Fatal(job, results) = {} THEN {Recompute([job EXCEPT !.files = files])}
        ELSE {WithStatus([job EXCEPT !.files = files], "failed")}

\* The order of the results is the order of JSON objects and of a Python set,
\* which nothing fixes.  It matters only when a fatal result ends the loop:
\* what comes after the first one is never merged.
MergeOutcomes(job, results) ==
    LET fatal == Fatal(job, results)
        safe  == DOMAIN results \ fatal
    IN  IF job.status = "failed" THEN {job}
        ELSE IF fatal = {}
        THEN {Recompute([job EXCEPT !.files =
                            MergedFiles(job, results, safe)])}
        ELSE {CutShort(job, results, done, p) : done \in SUBSET safe, p \in fatal}

CanMerge(job, results) ==
    \/ job.status = "failed"
    \/ /\ DOMAIN results \subseteq DOMAIN job.files
       /\ CanRecompute(job)
       /\ job.status = "pulled" => \A p \in DOMAIN results : Accepts(p, results[p])
=============================================================================

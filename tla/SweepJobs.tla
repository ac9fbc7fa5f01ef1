----------------------------- MODULE SweepJobs -----------------------------
(***************************************************************************)
(* One sweep over several repositories (sweep_jobs in sweeper.py, and      *)
(* sweep.yml around it).  The sweep loads every job file of its checkout,  *)
(* reconciles the repositories one after the other, pushes what changed    *)
(* before it dispatches, then reads back the repositories with nothing     *)
(* left to upload; what that changes goes into one last commit.  An error  *)
(* in one repository ends the round for all, and every push carries the    *)
(* job files of several repositories, which conflict together.             *)
(*                                                                         *)
(* One LFS file stands for the files of a repository; what a sweep does to *)
(* the single files, and the budget of attempts, is the matter of Sweep    *)
(* and Archive.                                                            *)
(***************************************************************************)
EXTENDS Naturals

CONSTANTS Repo,      \* the repositories, one job file each
          MaxRev,    \* bound: revisions of a repository
          Revised,   \* bound: the repositories with more than one revision
          SameSize,  \* the repositories whose revisions have the same size
          NoObject, NoJob, NoRun, NoSweep

INSTANCE Objects WITH Path <- Repo, Lfs <- Repo

ASSUME SweepJobsAssumption ==
    /\ MaxRev \in Nat \ {0}
    /\ SameSize \subseteq Repo
    /\ NoObject \notin Object

\* pending: a file is to be uploaded; complete: all are, some are not verified.
Job == [rev: Revisions, status: {"pending", "complete", "verified", "failed"}]

ASSUME SweepJobsNamesAssumption == NoJob \notin Job

VARIABLES head,     \* the job files at the head of the branch
          latest,   \* the latest revision planned of each repository
          r2,       \* the object of each repository
          grabs,    \* the grab run of each repository
          queued,   \* the checkout of the waiting sweep, or NoSweep
          sweep,    \* the running sweep, or NoSweep
          calm      \* the faults have stopped

outside == <<latest, calm>>
vars == <<head, r2, grabs, queued, sweep, outside>>

JobFiles == [Repo -> Job \cup {NoJob}]

\* A grab run uploads, on the job file of the head or on one that was published
\* over meanwhile; or its result waits to be collected.
GrabRun == [rev: Revisions, state: {"running", "overtaken", "uploaded", "error"}]

\* The job files of a checkout, and those that are still the head's.
Checkout == [jobs: JobFiles, fresh: SUBSET Repo]

SweepRun == [pc: {"examine", "dispatch", "verify"},
             jobs: JobFiles,        \* in memory
             fresh: SUBSET Repo,    \* the base of the workspace is the head's
             merged: SUBSET Repo,   \* taken in by the rebase, not into memory
             dirty: SUBSET Repo,    \* saved in the workspace, not committed
             todo: SUBSET Repo]     \* what is left of this step

Init ==
    /\ head = [r \in Repo |-> NoJob]
    /\ latest = [r \in Repo |-> 0]
    /\ r2 = [r \in Repo |-> NoObject]
    /\ grabs = [r \in Repo |-> NoRun]
    /\ queued = NoSweep
    /\ sweep = NoSweep
    /\ calm = FALSE

\* A push: the other checkouts of these job files are overtaken.
Publish(jobs) ==
    /\ head' = [r \in Repo |-> IF r \in DOMAIN jobs THEN jobs[r] ELSE head[r]]
    /\ queued' = IF queued = NoSweep THEN NoSweep
                 ELSE [queued EXCEPT !.fresh = @ \ DOMAIN jobs]

\* The collector of an overtaken run conflicts: a result that waits comes to
\* nothing.
Overtaken(runs, S) ==
    [r \in Repo |->
        IF r \notin S \/ runs[r] = NoRun THEN runs[r]
        ELSE IF runs[r].state \in {"running", "overtaken"}
             THEN [runs[r] EXCEPT !.state = "overtaken"] ELSE NoRun]

-----------------------------------------------------------------------------
(* The other writers, as one sweep sees them                               *)

\* The watcher plans the next revision, and dispatches it unless the dispatch
\* fails, or a run is in flight (the bound on runs).  Of a job the gates block
\* nothing happens here.
WatchPlans(r) ==
    /\ sweep = NoSweep
    /\ ~calm
    /\ latest[r] < IF r \in Revised THEN MaxRev ELSE 1
    /\ latest' = [latest EXCEPT ![r] = @ + 1]
    /\ Publish([q \in {r} |-> [rev |-> latest[r] + 1, status |-> "pending"]])
    /\ \/ grabs' = Overtaken(grabs, {r})
       \/ /\ grabs[r] = NoRun
          /\ grabs' = [grabs EXCEPT ![r] = [rev |-> latest[r] + 1, state |-> "running"]]
    /\ UNCHANGED <<r2, sweep, calm>>

\* Once calm the whole file arrives.
Transfer(r) ==
    /\ grabs[r] # NoRun
    /\ grabs[r].state \in {"running", "overtaken"}
    /\ \E landed \in {"nothing", "whole", "short", "corrupt"}, result \in {"uploaded", "error"} :
          /\ result = "uploaded" => landed = "whole"
          /\ calm => result = "uploaded"
          /\ r2' = IF landed = "nothing" THEN r2
                   ELSE [r2 EXCEPT ![r] = [rev |-> grabs[r].rev, kind |-> landed]]
          /\ grabs' = IF grabs[r].state = "overtaken" THEN [grabs EXCEPT ![r] = NoRun]
                      ELSE [grabs EXCEPT ![r].state = result]
    /\ UNCHANGED <<head, queued, sweep, outside>>

\* The collector publishes the result; an error may be one too many.
Collect(r) ==
    /\ sweep = NoSweep
    /\ grabs[r] # NoRun
    /\ grabs[r].state \in {"uploaded", "error"}
    /\ \E status \in IF grabs[r].state = "uploaded" THEN {"complete"}
                     ELSE {"pending", "failed"} :
          Publish([q \in {r} |-> [head[r] EXCEPT !.status = status]])
    /\ grabs' = [grabs EXCEPT ![r] = NoRun]
    /\ UNCHANGED <<r2, sweep, outside>>

\* The run or its collector is cancelled or fails.
RunLost(r) ==
    /\ ~calm
    /\ grabs[r] # NoRun
    /\ grabs' = [grabs EXCEPT ![r] = NoRun]
    /\ UNCHANGED <<head, r2, queued, sweep, outside>>

-----------------------------------------------------------------------------
(* The round                                                               *)

TriggerSweep ==
    /\ queued' = [jobs |-> head, fresh |-> Repo]
    /\ UNCHANGED <<head, r2, grabs, sweep, outside>>

\* Mutant: finished jobs are swept again.
ActiveAll(jobs) == {r \in Repo : jobs[r] # NoJob}

\* The repositories whose job is not in a terminal state.
Active(jobs) == {r \in Repo : jobs[r] # NoJob /\ jobs[r].status \in {"pending", "complete"}}

BeginSweep ==
    /\ sweep = NoSweep
    /\ queued # NoSweep
    /\ sweep' = IF Active(queued.jobs) = {} THEN NoSweep
                ELSE [pc |-> "examine", jobs |-> queued.jobs, fresh |-> queued.fresh,
                      merged |-> {}, dirty |-> {}, todo |-> Active(queued.jobs)]
    /\ queued' = NoSweep
    /\ UNCHANGED <<head, r2, grabs, outside>>

At(pc) == sweep # NoSweep /\ sweep.pc = pc

\* The repositories have their turn in a fixed order, that of their job files.
Turn == CHOOSE r \in sweep.todo : TRUE

Uploads(jobs) == {r \in Repo : jobs[r] # NoJob /\ jobs[r].status = "pending"}

Checks(jobs) == {r \in Repo : jobs[r] # NoJob /\ jobs[r].status = "complete"}

\* Mutant: an object that is gone still counts as uploaded.
ReconciledKept(r) ==
    IF SizeMatches(r2[r], r, sweep.jobs[r].rev) THEN "complete" ELSE sweep.jobs[r].status

\* What R2 lists decides which files are uploaded.
Reconciled(r) ==
    IF SizeMatches(r2[r], r, sweep.jobs[r].rev) THEN "complete" ELSE "pending"

\* Listing, deletion of an object of a wrong size, recovery, reopening and save
\* of the next repository.  A job that stays pending is saved if some of its
\* files changed, which the model leaves open until calm (then only finitely
\* many can).
Examine ==
    /\ At("examine")
    /\ sweep.todo # {}
    /\ LET r == Turn
       IN  /\ r2' = IF Reconciled(r) = "complete" THEN r2 ELSE [r2 EXCEPT ![r] = NoObject]
           /\ \E saved \in {{}, {r}} :
                 /\ Reconciled(r) # sweep.jobs[r].status => saved = {r}
                 /\ Reconciled(r) = sweep.jobs[r].status =>
                       saved = {} \/ (Reconciled(r) = "pending" /\ ~calm)
                 /\ sweep' = [sweep EXCEPT !.jobs[r].status = Reconciled(r),
                                           !.dirty = @ \cup saved,
                                           !.todo = @ \ {r}]
    /\ UNCHANGED <<head, grabs, queued, outside>>

Examined == At("examine") /\ sweep.todo = {}

Saved == [r \in sweep.dirty |-> sweep.jobs[r]]

\* Something is to be dispatched, and something changed.
ToPersist == Examined /\ Uploads(sweep.jobs) # {} /\ sweep.dirty # {}

\* persist_before_dispatch pushes every changed job file in one commit.  The
\* rebase brings the workspace up to the head, not the jobs in memory.
Persist ==
    /\ ToPersist
    /\ sweep.dirty \subseteq sweep.fresh
    /\ Publish(Saved)
    /\ grabs' = Overtaken(grabs, sweep.dirty)
    /\ sweep' = [sweep EXCEPT !.pc = "dispatch", !.dirty = {},
                              !.fresh = Repo, !.merged = Repo \ sweep.fresh]
    /\ UNCHANGED <<r2, outside>>

\* One of them conflicts: nothing at all is pushed.
PersistConflicts ==
    /\ ToPersist
    /\ ~(sweep.dirty \subseteq sweep.fresh)
    /\ sweep' = NoSweep
    /\ UNCHANGED <<head, r2, grabs, queued, outside>>

\* The run of a dispatch for revision v checks out the head; for another
\* revision its shards upload nothing.
NewRun(r, v) == [rev |-> v, state |-> IF head[r].rev = v THEN "running" ELSE "error"]

\* The dispatches, in one step; then what has nothing to upload is verified.  A
\* dispatch that fails leaves out the rest of the round.
Dispatch ==
    /\ At("dispatch") \/ (Examined /\ ~ToPersist)
    /\ \E sent \in SUBSET Uploads(sweep.jobs) :
          /\ calm => sent = Uploads(sweep.jobs)
          /\ grabs' = [r \in Repo |->
                IF r \in sent /\ grabs[r] = NoRun /\ head[r].status = "pending"
                THEN NewRun(r, sweep.jobs[r].rev) ELSE grabs[r]]
          /\ sweep' = [sweep EXCEPT
                !.pc = "verify",
                !.todo = IF sent = Uploads(sweep.jobs) THEN Checks(sweep.jobs) ELSE {}]
    /\ UNCHANGED <<head, r2, queued, outside>>

\* verify_job of the next repository, saved: verified; or the bad object is
\* deleted and the job reopened, or failed if that was one attempt too many.
Verify ==
    /\ At("verify")
    /\ sweep.todo # {}
    /\ LET r == Turn
           ok == HashMatches(r2[r], r, sweep.jobs[r].rev)
       IN  /\ r2[r] # NoObject
           /\ r2' = IF ok THEN r2 ELSE [r2 EXCEPT ![r] = NoObject]
           /\ \E status \in IF ok THEN {"verified"} ELSE {"pending", "failed"} :
                 sweep' = [sweep EXCEPT !.jobs[r].status = status,
                                        !.dirty = @ \cup {r}, !.todo = @ \ {r}]
    /\ UNCHANGED <<head, grabs, queued, outside>>

\* An error of one repository ends the round of all; so does the time limit.
\* The final commit still runs.
Abort ==
    /\ sweep # NoSweep
    /\ sweep.todo # {}
    /\ calm => At("verify") /\ r2[Turn] = NoObject
    /\ sweep' = [sweep EXCEPT !.pc = "verify", !.todo = {}]
    /\ UNCHANGED <<head, r2, grabs, queued, outside>>

\* Mutant: the final push overwrites whatever was published meanwhile.
CommitForced ==
    /\ At("verify")
    /\ sweep.todo = {}
    /\ Publish(Saved)
    /\ grabs' = Overtaken(grabs, sweep.dirty)
    /\ sweep' = NoSweep
    /\ UNCHANGED <<r2, outside>>

\* "Commit final verification state": the job files conflict together.
Commit ==
    /\ At("verify")
    /\ sweep.todo = {}
    /\ IF sweep.dirty \subseteq sweep.fresh
       THEN Publish(Saved) /\ grabs' = Overtaken(grabs, sweep.dirty)
       ELSE UNCHANGED <<head, queued, grabs>>
    /\ sweep' = NoSweep
    /\ UNCHANGED <<r2, outside>>

\* The runner dies, or a push is refused.
SweepDies ==
    /\ ~calm
    /\ sweep # NoSweep
    /\ sweep' = NoSweep
    /\ UNCHANGED <<head, r2, grabs, queued, outside>>

CalmDown ==
    /\ ~calm
    /\ sweep = NoSweep
    /\ calm' = TRUE
    /\ UNCHANGED <<head, latest, r2, grabs, queued, sweep>>

SweepStep ==
    \/ Examine \/ Persist \/ PersistConflicts \/ Dispatch
    \/ Verify \/ Commit

Next ==
    \/ \E r \in Repo : WatchPlans(r) \/ Transfer(r) \/ Collect(r) \/ RunLost(r)
    \/ TriggerSweep \/ BeginSweep \/ SweepStep \/ Abort \/ SweepDies
    \/ CalmDown

Spec == Init /\ [][Next]_vars

\* Once calm the schedule keeps firing, what waits is started and runs on; a
\* collector gets the group between two sweeps sooner or later.
FairSpec ==
    /\ Spec
    /\ WF_vars(calm /\ TriggerSweep)
    /\ WF_vars(calm /\ BeginSweep)
    /\ WF_vars(calm /\ (SweepStep \/ Abort))
    /\ \A r \in Repo :
          /\ WF_vars(calm /\ Transfer(r))
          /\ SF_vars(calm /\ Collect(r))

-----------------------------------------------------------------------------
(* Properties                                                              *)

\* The branch, the checkouts and the round keep their shape; a finished job is
\* never worked on.
TypeOK ==
    /\ head \in JobFiles
    /\ latest \in [Repo -> 0 .. MaxRev]
    /\ r2 \in [Repo -> Object \cup {NoObject}]
    /\ grabs \in [Repo -> GrabRun \cup {NoRun}]
    /\ queued \in Checkout \cup {NoSweep}
    /\ sweep \in SweepRun \cup {NoSweep}
    /\ sweep # NoSweep => \A r \in sweep.todo :
          sweep.jobs[r] # NoJob /\ sweep.jobs[r].status \in {"pending", "complete"}
    /\ calm \in BOOLEAN

\* A later job of the same repository: of a newer revision, or of the same and
\* not leaving a terminal state.
Follows(new, old) ==
    \/ old = NoJob
    \/ new.rev > old.rev
    \/ new.rev = old.rev /\ (old.status \in {"verified", "failed"} => new.status = old.status)

\* However long a sweep waited, and whichever repositories changed meanwhile,
\* no push of a round takes a job file back to an older revision or out of a
\* terminal state.  The one exception: a job file the rebase of the push before
\* the dispatches took in, while the sweep still holds the job of its checkout;
\* a later save overwrites it without a conflict.
RoundsOnlyProgress ==
    [][\A r \in Repo :
          head'[r] # head[r] /\ ~(sweep # NoSweep /\ r \in sweep.merged) =>
             Follows(head'[r], head[r])]_vars

\* tasks/PLAN.md:80 calls the status of a job "strict enum, forward-only except
\* on retry": whatever is published follows what it replaces, also when a sweep
\* publishes it that has merged newer job files.
ForwardOnly == [][\A r \in Repo : head'[r] # head[r] => Follows(head'[r], head[r])]_vars

\* Once the faults stop, every repository is brought to verified or failed,
\* though they share their rounds, pushes and conflicts.
RoundsConverge ==
    calm ~> \A r \in Repo : head[r] # NoJob => head[r].status \in {"verified", "failed"}
=============================================================================

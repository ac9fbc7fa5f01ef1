------------------------------ MODULE Archive ------------------------------
(***************************************************************************)
(* The archival of one repository: the watcher plans each new revision and *)
(* dispatches it, grab runs fill the R2 prefix, sweeps reconcile, verify   *)
(* and re-dispatch, an operator may dispatch a grab by hand.  Watcher,     *)
(* collectors and sweeps take turns in the state-write group; transfers    *)
(* run beside all of them.                                                 *)
(***************************************************************************)
EXTENDS Sweep

VARIABLE evidence   \* history: the files a sweep read back and found right,
                    \* for the revision it was sweeping

vars == <<storeVars, grabVars, sweepVars, evidence>>

Init == StoreInit /\ GrabInit /\ SweepInit /\ evidence = {}

-----------------------------------------------------------------------------
(* The watcher and the operator                                            *)

\* watcher.py finds a revision it has not seen, plans its files, and pushes
\* the job before it dispatches.  A job the size gate blocks is pushed as
\* failed and not dispatched; a failed dispatch leaves a planned job behind.
WatchPublishes(job) ==
    /\ GroupIsFree
    /\ rev < MaxRev
    /\ rev' = rev + 1
    /\ UNCHANGED <<r2, queued, sweep, evidence>>
    /\ \/ /\ Publish(job, {})
          /\ UNCHANGED runs
       \/ \E r \in Run :
             /\ Publish(job, {r})
             /\ StartRun(r, rev + 1, rev + 1, job)

WatchPlans == WatchPublishes(PlannedJob)

WatchBlocks == WatchPublishes(WithStatus(PlannedJob, "failed"))

\* workflow_dispatch of grab-model by hand, for any revision.
OperatorDispatches(r, v) ==
    /\ head # NoJob
    /\ StartRun(r, v, rev, head)
    /\ fresh' = fresh \cup {r}
    /\ UNCHANGED <<head, rev, r2, queued, sweep, evidence>>

-----------------------------------------------------------------------------

GrabStep ==
    \E r \in Run :
       \/ \E p \in Path : Transfer(r, p) /\ UNCHANGED <<sweepVars, evidence>>
       \/ Collect(r) /\ GroupIsFree /\ UNCHANGED <<sweepVars, evidence>>
       \/ CollectLost(r) /\ UNCHANGED <<sweepVars, evidence>>

\* The bytes of p agree with the plan when the sweep reads them back.
ReadBack(p) ==
    /\ VerifyMatch(p)
    /\ evidence' = evidence \cup
                     {e \in {<<p, sweep.rev>>} : HashMatches(r2[p], p, sweep.rev)}

SweepStep ==
    \/ OtherSweepStep /\ UNCHANGED evidence
    \/ \E p \in Path : ReadBack(p)

Unattended == WatchPlans \/ WatchBlocks \/ GrabStep \/ SweepStep

Next ==
    \/ Unattended
    \/ \E r \in Run, v \in Revisions : v <= rev /\ OperatorDispatches(r, v)

Spec == Init /\ [][Next]_vars

\* The same without dispatches by hand.
UnattendedSpec == Init /\ [][Unattended]_vars

-----------------------------------------------------------------------------
(* Properties                                                              *)

\* Every store, checkout, run and sweep keeps its shape: no counter of the
\* published job or of a sweep's copy runs past the poison pill, and every
\* published status is one its writer trusted.
TypeOK ==
    /\ head \in ArchiveJob \cup {NoJob}
    /\ rev \in 0 .. MaxRev
    /\ fresh \subseteq Holder
    /\ r2 \in [Path -> Object \cup {NoObject}]
    /\ runs \in [Run -> GrabRun \cup {NoRun}]
    /\ queued \in Checkouts \cup {NoSweep}
    /\ sweep \in SweepRun \cup {NoSweep}
    /\ evidence \subseteq Path \X Revisions

\* A file is published as verified only if some sweep read its object back and
\* found the bytes right for the very revision the job is planned for: no
\* collector, recovery, stale checkout or new revision makes one up.
VerifiedHasEvidence ==
    head # NoJob =>
        \A p \in Path : head.files[p].verified => <<p, rev>> \in evidence

\* No interleaving hands a writer a job it raises on: whatever the results,
\* the listing or the object, every state.py call of the collector and of the
\* sweeper succeeds, the final save included.  An exception there would lose
\* the run's work or end the sweep for all the repositories.
WritersNeverRaise ==
    /\ \A r \in Run : runs[r] # NoRun /\ r \in fresh =>
          /\ CanMerge(head, CollectedResults(runs[r]))
          /\ \A job \in MergeOutcomes(head, CollectedResults(runs[r])) : CanSave(job)
    /\ At("purge") => CanSave(Reconciled(sweep.job, sweep.listing))
    /\ At("verify") => \A p \in sweep.todo :
          CanMarkVerified(sweep.job, p) /\ CanSave(MarkVerified(sweep.job, p))
    /\ At("record") => \A p \in sweep.bad :
          /\ CanResetFile(sweep.job, p)
          /\ CanSave(RecordFailure(ResetFile(sweep.job, p), p))

\* What is on the branch, and what a sweep works on, always loads: it
\* validates, at most one of its files is out of attempts, and a job with such
\* a file has failed, whichever writers published in between.
HeadIsSound ==
    /\ head # NoJob => ValidJob(head) /\ PoisonPillOf(head)
    /\ sweep # NoSweep => ValidJob(sweep.job) /\ PoisonPillOf(sweep.job)

\* The archive implements what it promises to the readers of the job file:
\* whichever writers race, what reaches the branch is a progress of what was
\* there.  Verified and failed are final within a revision, and no push, retry
\* or stale sweep gives an attempt back.
Promise == INSTANCE PublishedJob WITH
        File      <- Path,
        Budget    <- MaxAttempts,
        revision  <- rev,
        status    <- IF head = NoJob THEN "none" ELSE head.status,
        spent     <- [p \in Path |-> IF head = NoJob THEN 0 ELSE head.files[p].attempts],
        confirmed <- {p \in Path : head # NoJob /\ head.files[p].verified}

KeepsPromise == Promise!Spec

\* PLAN.md:88 calls a verified job "safe to pull": the LFS objects below the
\* prefix are those of its revision.
VerifiedMeansIntact ==
    head # NoJob /\ head.status = "verified" => \A p \in Lfs : Intact(r2[p], rev)

\* PLAN.md:99 says a file's counter is incremented on every failed upload or
\* failed verification of that file: so what a collector charges, a run for
\* the job's own revision tried to upload.
ChargedForOwnRevision ==
    [][\A r \in Run, p \in Path :
          /\ head # NoJob
          /\ runs[r] # NoRun
          /\ runs'[r] = NoRun
          /\ head'.files[p].attempts > head.files[p].attempts
          => runs[r].rev = rev]_vars
=============================================================================

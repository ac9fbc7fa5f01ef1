---------------------------- MODULE Convergence ----------------------------
(***************************************************************************)
(* The promise of the sweeper, "the real safety net" of tasks/PLAN.md: it  *)
(* converges a half-finished job with no memory of what the failed run was *)
(* doing.  Everything of Archive may go wrong for as long as it likes;     *)
(* then the faults stop, and the archive is left to its own schedule.      *)
(***************************************************************************)
EXTENDS Archive

VARIABLE calm   \* the faults have stopped

convergenceVars == <<vars, calm>>

ConvergenceInit == Init /\ calm = FALSE

FaultsStop == ~calm /\ calm' = TRUE /\ UNCHANGED vars

-----------------------------------------------------------------------------
(* The steps without a fault                                               *)

GoodTransfer(r) ==
    /\ \E p \in Path : Transfer(r, p) /\ runs'[r].results[p] = "declared"
    /\ UNCHANGED <<sweepVars, evidence>>

\* A collector that another writer overtook still conflicts.
GoodCollect(r) ==
    /\ GroupIsFree
    /\ Collect(r) \/ (r \notin fresh /\ CollectLost(r))
    /\ UNCHANGED <<sweepVars, evidence>>

ScheduledSweep == TriggerSweep /\ UNCHANGED evidence

StartedSweep == BeginSweep /\ UNCHANGED evidence

\* The push before a dispatch is overtaken; or every slot for a run is taken,
\* which the bound on runs treats as a dispatch that came to nothing.
SweepGivesUp ==
    \/ At("persist") /\ sweep.dirty /\ Sweeper \notin fresh /\ SweepDies
    \/ At("dispatch") /\ (\A r \in Run : runs[r] # NoRun) /\ Abort

GoodSweepStep ==
    \/ \E p \in Path : ReadBack(p)
    \/ /\ \/ ListRemote \/ Reconcile \/ Persist \/ DispatchNothing \/ EndVerify
          \/ \E r \in Run : Dispatch(r)
          \/ \E p \in Path :
                \/ DeleteMismatched(p) \/ VerifyMismatch(p)
                \/ DeleteBad(p) \/ RecordBad(p)
          \/ Commit \/ SweepGivesUp
       /\ UNCHANGED evidence

Good ==
    \/ \E r \in Run : GoodTransfer(r) \/ GoodCollect(r)
    \/ ScheduledSweep \/ StartedSweep \/ GoodSweepStep

ConvergenceNext ==
    \/ FaultsStop
    \/ UNCHANGED calm /\ IF calm THEN Good ELSE Next

\* The schedule of sweep.yml keeps firing, GitHub starts what is pending and
\* runs the steps of a job.  A collector that waits for the concurrency group
\* gets it between two sweeps sooner or later (they are two hours apart), not
\* necessarily the first time it is free.  Nothing is assumed before the
\* faults stop.
Fairness ==
    /\ WF_convergenceVars(calm /\ ScheduledSweep /\ UNCHANGED calm)
    /\ WF_convergenceVars(calm /\ StartedSweep /\ UNCHANGED calm)
    /\ WF_convergenceVars(calm /\ GoodSweepStep /\ UNCHANGED calm)
    /\ \A r \in Run :
          /\ WF_convergenceVars(calm /\ GoodTransfer(r) /\ UNCHANGED calm)
          /\ SF_convergenceVars(calm /\ GoodCollect(r) /\ UNCHANGED calm)

ConvergenceSpec ==
    ConvergenceInit /\ [][ConvergenceNext]_convergenceVars /\ Fairness

\* Whatever crashed, was lost, overtaken or left half-written before, once the
\* faults stop the scheduled sweeps bring the job to verified or failed,
\* without any help from an operator.
Converges == calm ~> (head # NoJob => head.status \in {"verified", "failed"})
=============================================================================

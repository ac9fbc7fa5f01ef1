------------------------------- MODULE Sweep -------------------------------
(***************************************************************************)
(* The sweeper (sweeper.py, verify_remote.py and sweep.yml): it compares   *)
(* the job of its checkout with what R2 lists, deletes objects of a wrong  *)
(* size, reopens or recovers files, dispatches what is missing, and once   *)
(* nothing is missing reads every unverified object back.  One sweep runs  *)
(* at a time, inside the state-write group; a newer trigger replaces the   *)
(* sweep that waits.                                                       *)
(***************************************************************************)
EXTENDS Grab

CONSTANT NoSweep

VARIABLES queued,   \* the waiting sweep's checkout, or NoSweep
          sweep     \* the running sweep, or NoSweep

sweepVars == <<queued, sweep>>

Checkouts == [rev: Revisions, job: ArchiveJob]

Listing == [Path -> {"missing", "mismatch", "present"}]

SweepRun == [pc: {"list", "purge", "persist", "dispatch", "verify",
                  "punish", "record", "commit"},
             rev: Revisions,
             job: ArchiveJob,       \* in memory and in the workspace
             listing: Listing,      \* what lsjson returned
             todo: SUBSET Path,     \* objects left to delete or to verify
             bad: SUBSET Path,      \* the object that failed verification
             dirty: BOOLEAN]        \* the workspace differs from the checkout

SweepInit == queued = NoSweep /\ sweep = NoSweep

TerminalStates == {"verified", "pulled", "failed"}

\* The state-write group is free for another writer.
GroupIsFree == sweep = NoSweep

At(pc) == sweep # NoSweep /\ sweep.pc = pc

-----------------------------------------------------------------------------
(* Waiting for the group                                                   *)

\* The schedule (or an operator) triggers sweep.yml on the current head.
TriggerSweep ==
    /\ head # NoJob
    /\ queued' = [rev |-> rev, job |-> head]
    /\ fresh' = fresh \cup {Queued}
    /\ UNCHANGED <<head, rev, r2, runs, sweep>>

\* The checkout moves with the sweep from the queue into the group.
Admit(holders) ==
    IF Queued \in holders THEN (holders \ {Queued}) \cup {Sweeper}
    ELSE holders \ {Sweeper}

NothingYet == [p \in Path |-> "missing"]

BeginSweep ==
    /\ GroupIsFree
    /\ queued # NoSweep
    /\ queued.job.status \notin TerminalStates
    /\ sweep' = [pc |-> "list", rev |-> queued.rev, job |-> queued.job,
                 listing |-> NothingYet, todo |-> {},
                 bad |-> {}, dirty |-> FALSE]
    /\ queued' = NoSweep
    /\ fresh' = Admit(fresh)
    /\ UNCHANGED <<head, rev, r2, runs>>

\* "nothing to do": every job of the checkout is terminal; or the waiting run
\* is cancelled.
DropSweep ==
    /\ queued # NoSweep
    /\ queued' = NoSweep
    /\ fresh' = fresh \ {Queued}
    /\ UNCHANGED <<head, rev, r2, runs, sweep>>

-----------------------------------------------------------------------------
(* Reconciling                                                             *)

Listed(p) ==
    IF r2[p] = NoObject THEN "missing"
    ELSE IF SizeMatches(r2[p], p, sweep.rev) THEN "present" ELSE "mismatch"

\* rclone lsjson and _diff: one reading of the prefix, used until the end.
ListRemote ==
    /\ At("list")
    /\ sweep' = [sweep EXCEPT !.pc = "purge",
                              !.listing = [p \in Path |-> Listed(p)],
                              !.todo = {p \in Path : Listed(p) = "mismatch"}]
    /\ UNCHANGED <<storeVars, grabVars, queued>>

\* rclone deletefile of an object that was listed with a wrong size.
DeleteMismatched(p) ==
    /\ At("purge")
    /\ p \in sweep.todo
    /\ r2' = [r2 EXCEPT ![p] = NoObject]
    /\ sweep' = [sweep EXCEPT !.todo = @ \ {p}]
    /\ UNCHANGED <<head, rev, fresh, grabVars, queued>>

\* Mutant: an object that is gone leaves the file verified.
ReconciledHalf(job, listing) ==
    Recompute([job EXCEPT !.files =
        [p \in DOMAIN @ |-> [@[p] EXCEPT !.uploaded = (listing[p] = "present")]]])

\* Mutant: an object that is gone gives its file a new budget.
ReconciledRefund(job, listing) ==
    Recompute([job EXCEPT !.files =
        [p \in DOMAIN @ |->
            IF listing[p] = "present" THEN [@[p] EXCEPT !.uploaded = TRUE]
            ELSE NewFile]])

\* Mutant: an object that is gone still counts as uploaded.
ReconciledWithoutReset(job, listing) ==
    Recompute([job EXCEPT !.files =
        [p \in DOMAIN @ |->
            IF listing[p] = "present" THEN [@[p] EXCEPT !.uploaded = TRUE]
            ELSE @[p]]])

\* reset_file of uploaded files that are gone, mark_uploaded of files R2 holds
\* at the right size, recompute_status.
Reconciled(job, listing) ==
    Recompute([job EXCEPT !.files =
        [p \in DOMAIN @ |->
            IF listing[p] = "present" THEN [@[p] EXCEPT !.uploaded = TRUE]
            ELSE [@[p] EXCEPT !.uploaded = FALSE, !.verified = FALSE]]])

Reconcile ==
    /\ At("purge")
    /\ sweep.todo = {}
    /\ LET job == Reconciled(sweep.job, sweep.listing)
       IN  /\ CanSave(job)
           /\ sweep' = [sweep EXCEPT
                 !.job = job,
                 !.dirty = (job # sweep.job),
                 !.listing = NothingYet,
                 !.pc = IF PendingUploads(job) # {} THEN "persist" ELSE "verify",
                 !.todo = IF PendingUploads(job) # {} THEN {}
                          ELSE PendingVerifications(job)]
    /\ UNCHANGED <<storeVars, grabVars, queued>>

-----------------------------------------------------------------------------
(* Dispatching what is missing                                             *)

\* persist_before_dispatch: a job that did not change is not pushed.
Persist ==
    /\ At("persist")
    /\ IF sweep.dirty
       THEN /\ Sweeper \in fresh
            /\ Publish(sweep.job, {Sweeper})
       ELSE UNCHANGED <<head, fresh>>
    /\ sweep' = [sweep EXCEPT !.pc = "dispatch", !.dirty = FALSE]
    /\ UNCHANGED <<rev, r2, grabVars, queued>>

\* POST /dispatches: the run checks out the head of that moment, whatever the
\* sweep's own checkout was.
Dispatch(r) ==
    /\ At("dispatch")
    /\ StartRun(r, sweep.rev, rev, head)
    /\ fresh' = fresh \cup {r}
    /\ sweep' = [sweep EXCEPT !.pc = "commit"]
    /\ UNCHANGED <<head, rev, r2, queued>>

\* The head has nothing to upload, and the dispatched run skips its shards.
DispatchNothing ==
    /\ At("dispatch")
    /\ PendingUploads(head) = {}
    /\ sweep' = [sweep EXCEPT !.pc = "commit"]
    /\ UNCHANGED <<storeVars, grabVars, queued>>

-----------------------------------------------------------------------------
(* Reading the objects back                                                *)

\* Mutant: the object is there, and that is enough.
VerifyUnread(p) ==
    /\ At("verify")
    /\ p \in sweep.todo
    /\ r2[p] # NoObject
    /\ sweep' = [sweep EXCEPT !.job = MarkVerified(@, p), !.todo = @ \ {p},
                              !.dirty = TRUE]
    /\ UNCHANGED <<storeVars, grabVars, queued>>

\* cat_and_hash agrees with the plan: mark_verified, save.
VerifyMatch(p) ==
    /\ At("verify")
    /\ p \in sweep.todo
    /\ HashMatches(r2[p], p, sweep.rev)
    /\ CanMarkVerified(sweep.job, p)
    /\ sweep' = [sweep EXCEPT !.job = MarkVerified(@, p), !.todo = @ \ {p},
                              !.dirty = TRUE]
    /\ UNCHANGED <<storeVars, grabVars, queued>>

\* It does not: the object is deleted, then the file is reopened and charged
\* an attempt, then the job is saved.
VerifyMismatch(p) ==
    /\ At("verify")
    /\ p \in sweep.todo
    /\ r2[p] # NoObject
    /\ ~HashMatches(r2[p], p, sweep.rev)
    /\ sweep' = [sweep EXCEPT !.pc = "punish", !.bad = {p}, !.todo = @ \ {p}]
    /\ UNCHANGED <<storeVars, grabVars, queued>>

DeleteBad(p) ==
    /\ At("punish")
    /\ p \in sweep.bad
    /\ r2' = [r2 EXCEPT ![p] = NoObject]
    /\ sweep' = [sweep EXCEPT !.pc = "record"]
    /\ UNCHANGED <<head, rev, fresh, grabVars, queued>>

RecordBad(p) ==
    /\ At("record")
    /\ p \in sweep.bad
    /\ CanResetFile(sweep.job, p)
    /\ LET job == RecordFailure(ResetFile(sweep.job, p), p)
       IN  /\ CanSave(job)
           /\ sweep' = [sweep EXCEPT
                 !.job = job,
                 !.dirty = TRUE,
                 !.pc = "verify",
                 !.bad = {},
                 !.todo = IF job.status = "failed" THEN {} ELSE @]
    /\ UNCHANGED <<storeVars, grabVars, queued>>

EndVerify ==
    /\ At("verify")
    /\ sweep.todo = {}
    /\ sweep' = [sweep EXCEPT !.pc = "commit"]
    /\ UNCHANGED <<storeVars, grabVars, queued>>

-----------------------------------------------------------------------------
(* The end of the workflow run                                             *)

\* Mutant: the final push overwrites whatever was published meanwhile.
CommitForced ==
    /\ At("commit")
    /\ IF sweep.dirty
       THEN Publish(sweep.job, {})
       ELSE /\ fresh' = fresh \ {Sweeper}
            /\ UNCHANGED head
    /\ sweep' = NoSweep
    /\ UNCHANGED <<rev, r2, grabVars, queued>>

\* "Commit final verification state", if: always().
Commit ==
    /\ At("commit")
    /\ IF sweep.dirty /\ Sweeper \in fresh
       THEN Publish(sweep.job, {})
       ELSE /\ fresh' = fresh \ {Sweeper}
            /\ UNCHANGED head
    /\ sweep' = NoSweep
    /\ UNCHANGED <<rev, r2, grabVars, queued>>

\* An error in a call to Hugging Face, rclone or GitHub ends the script; the
\* final step still commits what was saved.
Abort ==
    /\ sweep # NoSweep
    /\ sweep.pc \notin {"persist", "commit"}
    /\ sweep' = [sweep EXCEPT !.pc = "commit"]
    /\ UNCHANGED <<storeVars, grabVars, queued>>

\* The runner dies, or the push before dispatch fails: nothing is published.
SweepDies ==
    /\ sweep # NoSweep
    /\ sweep' = NoSweep
    /\ fresh' = fresh \ {Sweeper}
    /\ UNCHANGED <<head, rev, r2, grabVars, queued>>

\* Every step but a successful read-back.
OtherSweepStep ==
    \/ TriggerSweep \/ BeginSweep \/ DropSweep
    \/ ListRemote \/ Reconcile \/ Persist \/ DispatchNothing \/ EndVerify
    \/ \E r \in Run : Dispatch(r)
    \/ \E p \in Path :
          \/ DeleteMismatched(p)
          \/ VerifyMismatch(p)
          \/ DeleteBad(p) \/ RecordBad(p)
    \/ Commit \/ Abort \/ SweepDies
=============================================================================

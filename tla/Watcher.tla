------------------------------- MODULE Watcher -------------------------------
(***************************************************************************)
(* The polls of the watcher (watcher.py, watch.yml) over several           *)
(* repositories: each examines what Hugging Face lists against the         *)
(* seen.json of its checkout, publishes the new plans and seen.json in one *)
(* push, and only then dispatches.  One poll runs at a time, in the        *)
(* state-write group; another may wait with the checkout of its trigger,   *)
(* while sweeps and collectors publish progress of the jobs, and a sweep   *)
(* may take one back to an older revision.                                 *)
(*                                                                         *)
(* How a job progresses is the matter of Archive; here it is planned, at   *)
(* work (uploading or verifying) or settled.                               *)
(***************************************************************************)
EXTENDS Naturals

CONSTANTS Repo,     \* the repositories some target matches
          MaxRev,   \* bound: revisions of a repository
          NoJob,    \* no state file
          NoPoll

\* What the first target that matches a repository makes of its current
\* revision: the quality gates refuse it, its files cannot be enumerated or
\* filtered (an error that ends the poll), the size or weight gate blocks it,
\* or it is eligible.
Verdict == {"gated", "broken", "blocked", "eligible"}

Revisions == 1 .. MaxRev

ASSUME WatcherAssumption == MaxRev \in Nat \ {0}

JobSummary == [rev: Revisions, status: {"planned", "blocked", "working", "settled"}]

ASSUME WatcherNamesAssumption == NoJob \notin JobSummary

VARIABLES hub,         \* the current revision of each repository
          verdict,     \* what the watchlist makes of it
          seen,        \* seen.json at the head of the branch (0: no entry)
          jobs,        \* the job files at the head of the branch
          queued,      \* the checkout of the waiting poll, or NoPoll
          poll,        \* the running poll, or NoPoll
          late,        \* the revision of a repository's job in a sweep whose
                       \* checkout the last push overtook (0: none)
          takenBack,   \* history: the repositories whose job file such a
                       \* sweep took back to the older revision
          calm         \* nothing fails or changes outside any more

outside  == <<hub, verdict, calm>>
sweeps   == <<late, takenBack>>
branch   == <<seen, jobs, sweeps>>
vars     == <<outside, branch, queued, poll>>

SeenMap == [Repo -> {0} \cup Revisions]

\* Of a checkout matter its seen.json and the job files that are still the
\* head's.
Checkout == [seen: SeenMap, fresh: SUBSET Repo]

PollRun == [pc: {"examine", "dispatch"},
            seen: SeenMap,
            fresh: SUBSET Repo,
            todo: SUBSET Repo,     \* to examine, then to dispatch
            prepared: [Repo -> JobSummary \cup {NoJob}]]

Init ==
    /\ hub = [r \in Repo |-> 1]
    /\ verdict \in [Repo -> Verdict]
    /\ seen = [r \in Repo |-> 0]
    /\ jobs = [r \in Repo |-> NoJob]
    /\ queued = NoPoll
    /\ poll = NoPoll
    /\ late = [r \in Repo |-> 0]
    /\ takenBack = {}
    /\ calm = FALSE

-----------------------------------------------------------------------------
(* Hugging Face, the watchlist, and the other writers                      *)

HubPublishes(r) ==
    /\ ~calm
    /\ hub[r] < MaxRev
    /\ hub' = [hub EXCEPT ![r] = @ + 1]
    /\ \E v \in Verdict : verdict' = [verdict EXCEPT ![r] = v]
    /\ UNCHANGED <<calm, branch, queued, poll>>

\* Downloads grow, an outage comes or goes, the watchlist is edited.
VerdictChanges(r) ==
    /\ ~calm
    /\ \E v \in Verdict : verdict' = [verdict EXCEPT ![r] = v]
    /\ UNCHANGED <<hub, calm, branch, queued, poll>>

CalmDown ==
    /\ ~calm
    /\ calm' = TRUE
    /\ UNCHANGED <<hub, verdict, branch, queued, poll>>

\* A sweep or a collector publishes the job file of r: it now differs from the
\* one of every earlier checkout.
WriterPublishes(r) ==
    /\ poll = NoPoll
    /\ jobs[r] # NoJob
    /\ jobs[r].status \in {"planned", "working"}
    /\ \E s \in {"working", "settled"} :
          /\ calm => s # jobs[r].status
          /\ jobs' = [jobs EXCEPT ![r].status = s]
    /\ queued' = IF queued = NoPoll THEN NoPoll
                 ELSE [queued EXCEPT !.fresh = @ \ {r}]
    /\ UNCHANGED <<outside, seen, sweeps, poll>>

\* A sweep that waited while a poll published a newer plan of r saves the job
\* of its own checkout, which it has read back: verified, or reopened, or
\* failed.  The rebase of its push before the dispatches, of another
\* repository, has taken the newer job file in, so that the last push does not
\* conflict.  seen.json stays.
SweepTakesBack(r) ==
    /\ poll = NoPoll
    /\ late[r] # 0
    /\ \E q \in Repo \ {r} : jobs[q] # NoJob /\ jobs[q].status = "working"
    /\ \E s \in {"working", "settled"} :
          jobs' = [jobs EXCEPT ![r] = [rev |-> late[r], status |-> s]]
    /\ late' = [late EXCEPT ![r] = 0]
    /\ takenBack' = takenBack \cup {r}
    /\ queued' = IF queued = NoPoll THEN NoPoll
                 ELSE [queued EXCEPT !.fresh = @ \ {r}]
    /\ UNCHANGED <<outside, seen, poll>>

-----------------------------------------------------------------------------
(* The poll                                                                *)

\* The schedule or an operator triggers watch.yml on the current head; a newer
\* trigger replaces the poll that waits.
TriggerPoll ==
    /\ queued' = [seen |-> seen, fresh |-> Repo]
    /\ UNCHANGED <<outside, branch, poll>>

\* The group runs one workflow at a time and keeps one waiting: the sweep that
\* waited during the last poll has ended.
BeginPoll ==
    /\ poll = NoPoll
    /\ queued # NoPoll
    /\ poll' = [pc |-> "examine", seen |-> queued.seen, fresh |-> queued.fresh,
                todo |-> Repo, prepared |-> [r \in Repo |-> NoJob]]
    /\ queued' = NoPoll
    /\ late' = [r \in Repo |-> 0]
    /\ UNCHANGED <<outside, seen, jobs, takenBack>>

Examining(r) == poll # NoPoll /\ poll.pc = "examine" /\ r \in poll.todo

\* Mutant: seen.json is consulted for the repository, not for its revision.
UnseenRepo(r) == poll.seen[r] = 0

Unseen(r) == poll.seen[r] # hub[r]

\* The listed revision was seen, or the quality gates refuse the repository.
Skip(r) ==
    /\ Examining(r)
    /\ ~Unseen(r) \/ verdict[r] = "gated"
    /\ poll' = [poll EXCEPT !.todo = @ \ {r}]
    /\ UNCHANGED <<outside, branch, queued>>

\* Mutant: the plan is not pinned to the resolved revision.
PrepareUnresolved(r) ==
    /\ Examining(r)
    /\ Unseen(r)
    /\ verdict[r] \in {"blocked", "eligible"}
    /\ poll' = [poll EXCEPT
          !.todo = @ \ {r},
          !.prepared[r] = [rev |-> poll.seen[r], status |-> "planned"]]
    /\ UNCHANGED <<outside, branch, queued>>

\* create, set_files, and the failed status of a blocked job.
Prepare(r) ==
    /\ Examining(r)
    /\ Unseen(r)
    /\ verdict[r] \in {"blocked", "eligible"}
    /\ poll' = [poll EXCEPT
          !.todo = @ \ {r},
          !.prepared[r] = [rev    |-> hub[r],
                           status |-> IF verdict[r] = "blocked" THEN "blocked"
                                      ELSE "planned"]]
    /\ UNCHANGED <<outside, branch, queued>>

\* resolve_revision, list_repo_files or filter_repo_files raises, and with it
\* the whole poll: nothing has been written.
PrepareRaises(r) ==
    /\ Examining(r)
    /\ Unseen(r)
    /\ verdict[r] = "broken"
    /\ poll' = NoPoll
    /\ UNCHANGED <<outside, branch, queued>>

Prepared == {r \in Repo : poll.prepared[r] # NoJob}

Dispatchable == {r \in Prepared : poll.prepared[r].status = "planned"}

Examined == poll # NoPoll /\ poll.pc = "examine" /\ poll.todo = {}

\* Mutant: only what is dispatched enters seen.json.
SeenAfterDispatchable ==
    [r \in Repo |-> IF r \in Dispatchable THEN poll.prepared[r].rev ELSE seen[r]]

\* The entries of next_seen that differ from the checkout's; git merges them
\* into whatever the head holds for the others.
SeenAfter ==
    [r \in Repo |-> IF r \in Prepared THEN poll.prepared[r].rev ELSE seen[r]]

\* The jobs a waiting sweep may come to save over their new plans: all files were
\* uploaded, and a repository whose job file it can push before goes unplanned.
Overtakable ==
    {r \in Prepared :
        /\ jobs[r] # NoJob
        /\ jobs[r].status = "working"
        /\ \E q \in Repo \ Prepared :
              jobs[q] # NoJob /\ jobs[q].status \in {"planned", "working"}}

PublishPlans ==
    /\ seen' = SeenAfter
    /\ jobs' = [r \in Repo |-> IF r \in Prepared THEN poll.prepared[r] ELSE jobs[r]]
    /\ queued' = IF queued = NoPoll THEN NoPoll
                 ELSE [queued EXCEPT !.fresh = @ \ Prepared]
    /\ poll' = [poll EXCEPT !.pc = "dispatch", !.todo = Dispatchable]
    /\ \E held \in SUBSET Overtakable :
          late' = [r \in Repo |-> IF r \in held THEN jobs[r].rev ELSE 0]
    /\ takenBack' = takenBack \ Prepared

\* Mutant: the push overwrites what others published.
PushForced ==
    /\ Examined
    /\ Prepared # {}
    /\ PublishPlans
    /\ UNCHANGED outside

\* save, _write_seen, commit, pull --rebase and push: job files that others
\* published since the trigger conflict.
Push ==
    /\ Examined
    /\ Prepared # {}
    /\ Prepared \subseteq poll.fresh
    /\ PublishPlans
    /\ UNCHANGED outside

\* Mutant: the failed push is taken for one that had nothing to do.
PushIgnored ==
    /\ Examined
    /\ \/ ~(Prepared \subseteq poll.fresh)
       \/ Prepared # {} /\ seen # poll.seen
    /\ poll' = [poll EXCEPT !.pc = "dispatch", !.todo = Dispatchable]
    /\ UNCHANGED <<outside, branch, queued>>

\* The rebase conflicts, in a job file or in neighbouring lines of a seen.json
\* that changed; the poll ends before any dispatch.
PushConflicts ==
    /\ Examined
    /\ \/ ~(Prepared \subseteq poll.fresh)
       \/ Prepared # {} /\ seen # poll.seen
    /\ poll' = NoPoll
    /\ UNCHANGED <<outside, branch, queued>>

\* "no new matches"
NothingNew ==
    /\ Examined
    /\ Prepared = {}
    /\ poll' = NoPoll
    /\ UNCHANGED <<outside, branch, queued>>

Dispatch(r) ==
    /\ poll # NoPoll
    /\ poll.pc = "dispatch"
    /\ r \in poll.todo
    /\ poll' = [poll EXCEPT !.todo = @ \ {r}]
    /\ UNCHANGED <<outside, branch, queued>>

EndPoll ==
    /\ poll # NoPoll
    /\ poll.pc = "dispatch"
    /\ poll.todo = {}
    /\ poll' = NoPoll
    /\ UNCHANGED <<outside, branch, queued>>

\* A listing or a dispatch fails, the push is refused, the runner dies: what
\* was not pushed is lost, what was not dispatched is left to the sweeper.
PollFails ==
    /\ ~calm
    /\ poll # NoPoll
    /\ poll' = NoPoll
    /\ UNCHANGED <<outside, branch, queued>>

\* A newer run of the state-write group takes the waiting poll's place.
PollCancelled ==
    /\ ~calm
    /\ queued # NoPoll
    /\ queued' = NoPoll
    /\ UNCHANGED <<outside, branch, poll>>

PollStep ==
    \/ \E r \in Repo : Skip(r) \/ Prepare(r) \/ PrepareRaises(r) \/ Dispatch(r)
    \/ Push \/ PushConflicts \/ NothingNew \/ EndPoll

Next ==
    \/ \E r \in Repo : HubPublishes(r) \/ VerdictChanges(r)
    \/ \E r \in Repo : WriterPublishes(r) \/ SweepTakesBack(r)
    \/ TriggerPoll
    \/ BeginPoll
    \/ PollStep
    \/ PollFails
    \/ PollCancelled
    \/ CalmDown

Spec == Init /\ [][Next]_vars

\* From some point on nothing fails or changes outside.  The schedule of
\* watch.yml keeps firing, a waiting poll gets its turn, and a running one goes
\* on; nothing is assumed of the other writers.
FairSpec ==
    /\ Spec
    /\ WF_vars(calm /\ TriggerPoll)
    /\ WF_vars(calm /\ BeginPoll)
    /\ WF_vars(calm /\ PollStep)

-----------------------------------------------------------------------------
(* Properties                                                              *)

\* The branch, the checkouts and the poll keep their shape.
TypeOK ==
    /\ hub \in [Repo -> Revisions]
    /\ verdict \in [Repo -> Verdict]
    /\ seen \in SeenMap
    /\ jobs \in [Repo -> JobSummary \cup {NoJob}]
    /\ queued \in Checkout \cup {NoPoll}
    /\ poll \in PollRun \cup {NoPoll}
    /\ late \in SeenMap
    /\ takenBack \subseteq Repo
    /\ calm \in BOOLEAN

\* seen.json and the job files part in one way only: a revision is seen exactly
\* when the job file is planned for it, except that a sweep which a push overtook
\* may have put the job of the older revision back.  A poll that fails halfway, or
\* merges its entries into those of another, would else lose a revision for good
\* (seen but never planned) or plan it again and again.
SeenIsPlanned ==
    \A r \in Repo :
       IF r \in takenBack THEN jobs[r] # NoJob /\ jobs[r].rev < seen[r]
       ELSE seen[r] = IF jobs[r] = NoJob THEN 0 ELSE jobs[r].rev

\* A poll that waited with an old checkout never plans a published revision
\* afresh, nor an older one: that would discard the job's progress and give
\* its files their attempts back.  (Of the polls only: what a sweep may do is in
\* SweepTakesBack.)
ProgressSurvivesPolls ==
    [][\A r \in Repo :
          /\ poll # NoPoll
          /\ jobs[r] # NoJob
          /\ jobs'[r] # jobs[r]
          => jobs'[r].rev > jobs[r].rev]_vars

\* "A successful HTTP dispatch is not allowed until the recoverable job plan
\* exists in repository history": what a poll is about to dispatch is the plan
\* at the head of the branch, whatever the push met there.
DispatchFollowsPush ==
    poll # NoPoll /\ poll.pc = "dispatch" =>
       \A r \in poll.todo : jobs[r] = poll.prepared[r]

\* Every query succeeds for good.
Working == calm /\ \A q \in Repo : verdict[q] # "broken"

\* Once nothing fails, the polls miss no revision: whatever polls died,
\* conflicted or waited too long, every repository the gates let through is
\* planned or blocked at its current revision, or was: a sweep may have taken its
\* job back since, and as the revision is seen no poll plans it again.
CatchesUp ==
    Working ~> \A r \in Repo :
                  verdict[r] # "gated" =>
                     /\ jobs[r] # NoJob
                     /\ \/ jobs[r].rev = hub[r]
                        \/ r \in takenBack /\ seen[r] = hub[r]

\* README.md:264 says of a job the size gate blocked that seen.json is not
\* advanced, "so a corrected config retries cleanly": once the gate lets the
\* revision through, it is planned.
CorrectedConfigRetries ==
    \A r \in Repo :
       Working /\ verdict[r] = "eligible"
          ~> jobs[r] # NoJob /\ jobs[r].rev = hub[r] /\ jobs[r].status # "blocked"
=============================================================================

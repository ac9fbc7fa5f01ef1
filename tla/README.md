# Verification of the open-weight model archival pipeline

The pipeline watches Hugging Face for new model revisions, streams their files to an
R2 bucket from GitHub Actions runners, verifies what is in the bucket, and lets an
operator pull it to a drive. Its only memory is the state file of each repository,
`state/jobs/<safe_name>.json`, on a git branch that every workflow rewrites. This
directory holds a TLA+ model of that system, the TLC runs that check it on small
instances, and TLAPS proofs about its core for every instance.

Contents: [the system](#the-system), [the modules](#the-modules),
[how the model corresponds to the code](#how-the-model-corresponds-to-the-code),
[the runs](#the-runs), [fairness](#fairness), [findings](#findings),
[the proofs](#the-proofs), [what is not modelled](#what-is-not-modelled),
[the plan](#the-plan), [running it](#running-it).

## The system

| Component | State it keeps | Operations | Hard part | What makes it correct |
|---|---|---|---|---|
| `lib/state.py` | a `Job`: status, the status its class trusts, per file `uploaded`, `verified`, `attempts` | create, set_files, record_failure, mark_uploaded, mark_verified, reset_file, recompute_status, merge_shard_results, load, save | seven functions and three callers assign the status; save() rejects a job they disagree on | every accepted call sequence saves; attempts never come back; failed and pulled are final; one file at most runs out |
| `watcher.py`, `watch.yml` | `state/seen.json`, new jobs | poll, filter, gate, plan, push, dispatch | push must precede dispatch; partial failure of a poll | a dispatched revision has a published plan |
| `plan_shards.py`, `grab_shard.sh`, `grab.yml` | a snapshot of the job, shard manifests, result artifacts | plan pending files, stream each file, report | any number of runs at once; timeouts; lost artifacts; truncated uploads | a file reported uploaded was streamed whole; results reach the job at most once |
| `collect_shards.py`, `grab.yml` collect | the job file | merge results, commit, rebase, push | works on a checkout hours old, waits in a concurrency group that may cancel it | merging never raises; a stale collect changes nothing |
| `sweeper.py`, `sweep.yml` | the job file, R2 | list, delete wrong sizes, reopen, recover, push, dispatch, verify, commit | list/delete races, crashes between delete and push, stale checkout | converges every job; never forges a verification; one repository's trouble does not undo another's progress |
| `verify_remote.py` | the job, R2 | read back, delete and charge on mismatch | save after each file; an object replaced under it | verified means read back and found right |
| `scripts/pull.sh`, `verify_local.sh`, `reclaim.sh` | the drive, the operator's clone | copy, verify, mark pulled, delete from R2 | a stale clone; a pull that mixes revisions; scripts that run at once, unlocked | nothing is deleted without a verified copy; `pulled` is true; a pull can always be completed |
| `lib/hfmeta.py`, `lib/notify.py`, keepalive, smoke and diagnosis workflows | none | queries, webhooks, harnesses | - | - |

How they interact: watcher, sweeper and collectors are *writers*. Each works on the
commit its event was triggered at, and publishes with `git commit`, `git pull
--rebase`, `git push`. All writers are in the concurrency group `state-write`, which
runs one at a time and keeps one waiting; the transfers of a grab run are in no group
and run beside everything. Watcher and sweeper start grab runs by
`repository_dispatch`; an operator may do so by `workflow_dispatch`. R2 is shared by
all revisions of a repository: the prefix is its `safe_name`.

`PROJECT.json` lists the hazards of this code, each at its line, with the properties
that cover it.

## The modules

| Module | Models |
|---|---|
| `JobState` | the job record and the operations of `lib/state.py`, as pure operators: `Op(job, ...)` is the job a call leaves, `CanOp(job, ...)` says that it returns instead of raising |
| `JobLifecycle` | one job driven through that API by processes that load, call, save and die |
| `MergeLoop` | the loop of `merge_shard_results`, one result a turn, in every order; `MergeOutcomes` of `JobState` is its closed form |
| `Objects` | the objects of a repository, as a size check and a hash check see them |
| `Store` | the git branch and the R2 prefix as every workflow uses them |
| `Grab` | grab runs: plan, transfers, lost results, collection |
| `Sweep` | the sweeper from trigger to final commit |
| `Archive` | the composition for one repository, with watcher and operator |
| `PublishedJob` | abstract: what readers of the published job are promised |
| `Convergence` | `Archive`, after the faults stop, with fairness |
| `Watcher` | the polls over several repositories, `seen.json`, and the other writers' pushes |
| `PackShards` | the packing loop of `plan_shards.py`, one file a turn |
| `SweepJobs` | one sweep over several repositories: shared pushes, shared conflicts, errors that end the round |
| `LocalArchive` | the operator's clone and drive, `pull.sh`, `verify_local.sh` and `reclaim.sh`, beside the workflows |
| `JobStateProofs`, `JobLifecycleProofs`, `MergeLoopProofs`, `ArchiveProofs`, `WatcherProofs`, `PackShardsProofs`, `SweepJobsProofs`, `LocalArchiveProofs` | the TLAPS proofs |

`Sweep` extends `Grab`, which extends `Store`, which extends `JobState` and instantiates
`Objects`; `Archive` extends `Sweep` and instantiates `PublishedJob`. `LocalArchive`
extends `Objects`; `SweepJobs` instantiates it with one LFS file per repository, which is
named like the repository. `Watcher` and `PackShards` stand alone:
of a job `Watcher` keeps only its revision and whether it is planned, blocked, at work
or settled, and of a file `PackShards` keeps only its size. `Archive` has the watcher
too, as the two steps by which a poll reaches one repository's job.

## How the model corresponds to the code

`map` in `PROJECT.json` gives the lines of every definition. The choices a reader
should know:

*Jobs.* `files` maps a path to `[uploaded, verified, attempts]`. `trusted` is
`Job._trusted_status`, the status transitions are checked against; callers assign
`status`. Names, sizes, hashes, errors and timestamps are left out; a hash an upload
reports is `declared`, `other` (well-formed but different) or `invalid`, and the
files with a declared hash are the constant `Lfs`.

*Processes.* An operation whose `Can...` condition fails raises. A process that
raises or dies loses its memory and keeps the file (`Crash`); `os.replace` makes
`Save` atomic.

*Checkouts.* `fresh` is the set of workflow runs whose checkout still has the head's
job file. A run captures the commit its event was triggered at, even if it then waits
for its group, so freshness is decided at the trigger. Every save rewrites
`updated_utc`; hence two different saves of one job file always conflict and
`git pull --rebase` fails. So `Publish` needs a fresh checkout, and empties `fresh` of
all others. A failed push ends the run and publishes nothing.

*The sweeper's data.* A sweep keeps its own `job`, `rev` and `listing` from the
reading to the end; listing, each deletion, reconciliation, push, dispatch, each
read-back, the deletion and the charge of a bad object, and the final commit are
separate actions. `Abort` is an error of any external call: the script ends, and the
final `if: always()` step still commits what had been saved. `SweepDies` is a runner
that vanishes.

*Objects.* An object is `whole`, `short`, or `corrupt` (other bytes of the same
length) for the revision it was streamed from. `SameSize` are the paths whose size
does not change between revisions. A size check sees `SizeMatches`; a read-back sees
`HashMatches`, which for a file without a declared hash is the size again, as in
`verify_remote.py`.

*Transfers.* `Transfer` covers the outcomes `grab_shard.sh` distinguishes: success
implies the declared hash for LFS files; an error may leave the old object, a short
or altered one, or the whole file.

*Grab runs.* A plan with no pending file skips its shards and collects nothing, so no
run is started. A run for a revision other than the checkout's is planned all the
same; its shards exit without a result, and all its files are charged.

*Polls* (`Watcher`). A poll examines one repository a step against the `seen.json` of
its checkout, publishes all it prepared in one push and then dispatches one job a step.
What the targets, gates, filters and the size gate make of a repository's current
revision is its `verdict`, which may change at any time; `broken` stands for every
error of a query and for a filter that would split a set, both of which end the poll.
`seen.json` merges line by line: a push changes only the entries the poll prepared, and
may conflict when entries nearby changed since its trigger; a job file that changed
since always conflicts (`fresh`, as above). What sweeps and collectors do, by all
`Watcher` sees of it, is `WriterPublishes`, which keeps the revision of a job, and
`SweepTakesBack`, which does not (finding 4): a sweep that waited while a poll pushed may
save the job of its own checkout over the newer plan and push that, `seen.json` staying as
it is. `late` is the revision of the job such a sweep holds for each repository
(`Overtakable` says which it can come to save), `takenBack` the repositories whose newer
plan was lost that way, until a poll plans the next revision. The group keeps one waiting
run, so that the sweep that waited during one poll has ended, or was replaced, before the
next poll begins: `BeginPoll` clears `late`.

*Packing* (`PackShards`). A shard is a set: the order within a manifest plays no part.
Paths are numbers, since only their order matters.

*Rounds* (`SweepJobs`). A job is `pending` (a file is to be uploaded), `complete` (all
are uploaded, some not verified), `verified` or `failed`; what happens to the single
files is the matter of `Sweep`, and whether a failed attempt was one too many is left
open. The repositories have their turn in a fixed order. `fresh` are the job files whose
base in the workspace is the head's; the rebase of `Persist` makes that all of them, and
`merged` remembers which of them are not the ones in memory. While the sweep runs no
other writer publishes, since all are in the group `state-write`; transfers go on.
`Abort` is an error of a listing, a deletion, a dispatch or a read-back: it ends the
round for every repository, but what was saved is still committed. A push with one
overtaken job file conflicts as a whole.

*The operator's side* (`LocalArchive`). The job file of the clone is the manifest of both
scripts; `current` says that none was published since the clone got its own, so that a
push does not conflict. `scan` is the running `verify_local.sh`, or `reclaim.sh` in its
verification, which read the drive file by file against the manifest they loaded at the
start; `plan` is the list of paths `rclone delete` works through. `pull.sh` is the step
`PullFile`: rclone copies what differs in size (`--size-only`) file by file, and a pull
that pauses or fails resumes with what it then finds. `PullAgain` is the command
`verify_local.sh` prints, which copies whatever the size. `EndVerify` saves the job the
script loaded over whatever the clone then holds, as `state.save` does. Of the workflows
there is what the scripts can see (`PlanRevision`, `Change`, `Confirm`, `Reopen`,
`Fail`); how they come to it is the matter of `Archive`. `overtaken` and `regressed` are
history variables for the two exceptions under [findings](#findings).

*Not an action:* `_trip_stale_poison_pill` of the sweeper. It fails a job that has a
file out of attempts and has not failed; `HeadIsSound` shows that no such job is ever
loaded.

## The runs

| Run | Instance | States | Shows |
|---|---|---|---|
| `job_lifecycle` | 2 files (1 LFS), `MaxAttempts` 2 | 9,810 | `EveryJobSaves`, `PoisonPill`, `RetryBudgetNeverRefunded`, `StatusNeverReverts`, `TypeOK` |
| `merge_loop` | 2 files, `MaxAttempts` 1, every collectable job and result | 8,534 | `LoopComputesOutcome`, `MergeNeverRaises` |
| `archive_revisions` | 1 file, 2 revisions, 2 grab runs | 1.4 M | `VerifiedHasEvidence`, `WritersNeverRaise`, `HeadIsSound`, `KeepsPromise`, `TypeOK` |
| `archive_files` | 2 files (1 LFS), 1 revision, 1 grab run, no operator (`UnattendedSpec`) | 1.3 M | the same but `TypeOK` |
| `convergence` | 1 file, 1 revision, 2 grab runs | 0.26 M | `Converges` |
| `watcher` | 2 repositories, 2 revisions each | 1.35 M | `SeenIsPlanned`, `DispatchFollowsPush`, `ProgressSurvivesPolls`, `CatchesUp`, `TypeOK` |
| `pack_shards` | at most 5 files of size up to 4, target 6, at most 3 shards | 350,000 | `EachFileOnce`, `Balanced`, `NearTarget`, `NearOptimal`, `TypeOK` |
| `local_archive` | 1 LFS file of unchanged size and 1 plain file, 2 revisions | 1.4 M | `NothingLost`, `PulledIsHeld`, `ReclaimKeepsACopy`, `PullsComplete`, `TypeOK` |
| `sweep_jobs` | 2 repositories, one with 2 revisions, one of unchanged size | 1.4 M | `RoundsOnlyProgress`, `RoundsConverge`, `TypeOK` |
| `late_transfer` | 1 file, 2 revisions, 1 grab run, no operator | violation | `VerifiedMeansIntact` |
| `stale_dispatch` | the same | violation | `ChargedForOwnRevision` |
| `blocked_retry` | 1 repository, 2 revisions | violation | `CorrectedConfigRetries` |

What the properties say:

- `EveryJobSaves`: nothing a process can do through the API leaves a job `save()`
  rejects.
- `PoisonPill`, `HeadIsSound`: at most one file of a job is out of attempts, and then
  the job has failed.
- `RetryBudgetNeverRefunded`, `StatusNeverReverts`: what each save may not do to the
  file it replaces, across restarts.
- `LoopComputesOutcome`, `MergeNeverRaises`: the merge is independent of the order of
  the results unless one of them is fatal, and neither a result nor the derivation of
  the status after the last one makes it raise.
- `VerifiedHasEvidence`: a published `verified` flag is backed by a read-back of that
  file for the revision the job is planned for. `evidence` is a history variable.
- `WritersNeverRaise`: no interleaving hands the collector or the sweeper a job on
  which a call or the save raises. (The reconciliation of a sweep is one step, `Reconciled`,
  the closed form of its calls for one file after another; what is checked there is that
  its outcome saves.)
- `KeepsPromise`: `Archive` implements `PublishedJob` under the mapping `Promise`:
  within a revision verified and failed are final, no attempt is given back, one
  publication charges a file one attempt at most, whoever overlaps, and verified means
  every file confirmed.
- `SeenIsPlanned`: a revision is in `seen.json` exactly when the job file is planned for
  it, so none is lost and none planned again at every poll; with one exception, a job that
  a sweep took back (`takenBack`), which is then of an older revision than the one seen.
- `DispatchFollowsPush`: what a poll is about to dispatch is what the head of the branch
  plans.
- `ProgressSurvivesPolls`: no poll, however long it waited, replaces a published plan by
  one for the same or an older revision. (What a sweep may do is finding 4.)
- `EachFileOnce`, `Balanced`: the manifests split the pending files, and no shard is
  worth taking a file from.
- `NearTarget`, `NearOptimal`: unless the count is capped, a shard exceeds the target by
  less than any one of its files; the heaviest is within Graham's bound of the best of
  all packings. A shard may well exceed the target: README.md:136 speaks of "≤300 GB
  shards", which is what the packing aims at and not a bound it keeps (three files of
  200 GB make shards of 400 and 200).
- `NothingLost`: every LFS file of a verified job is in the bucket or on the drive, byte
  for byte, whatever mixture of pulls, reclaims and revisions went before; two exceptions
  are named (see findings).
- `PulledIsHeld`: a job published as `pulled` is one of which the drive holds every LFS
  file, although the script ran on an old clone while files were being replaced.
- `ReclaimKeepsACopy`: what a reclaim deletes of the revision it verified is still on the
  drive when it is deleted, though pulls may have run since the file was hashed.
- `RoundsOnlyProgress`: no push of a round takes a job file back to an older revision, or
  out of a terminal state, however old the checkout and whatever other repositories share
  the push; one exception is named (see findings).
- `Converges`, `CatchesUp`, `RoundsConverge`, `PullsComplete`: see fairness. `CatchesUp`
  makes the exception of `SeenIsPlanned`: the polls planned the revision, and do not see
  that a sweep took it back.
- The violated ones state what a document says, and are the [findings](#findings). The two
  that `RoundsOnlyProgress` and `NothingLost` name as exceptions can be reproduced with
  `ForwardOnly.cfg` and `StaleReclaim.cfg`.

*Bounds.* `Path`, `Run` and `MaxRev` bound files, overlapping grab runs and revisions;
`MaxAttempts` replaces 5 by 1 or 2. A second file makes partial results, a fatal
result beside a success and one file reopened while another is verified possible; no
rule of the code relates three files. Two overlapping runs beside a running and a
waiting sweep give every pair of writers and a stale one of each; a slot is reused
when its run ends, so runs are bounded only in number at a time. Two revisions suffice
for a checkout to be stale: the code compares revisions for equality only. One failed
attempt that does not trip the pill and one that does are the two cases of the
counter. Files and revisions are raised separately because both at once is beyond
exhaustive search. `Run` slots full at a dispatch are treated as a dispatch that came
to nothing.

Two repositories suffice for a poll that prepares one and not the other and for entries
of `seen.json` that merge or conflict; two revisions for a checkout that is behind. Among
five files of size up to 4, with a target of 6 and at most three shards, capped and
uncapped counts, empty shards, empty files and packings that are not the best (3, 3, 2,
2, 2 in two shards) all occur.

For `LocalArchive` two revisions suffice, since a manifest, an object and a local file are
compared for being of the same revision only; one LFS file whose size does not change is
the case `--size-only` cannot see, and the plain file makes partial verifications and
partial reclaims. For `SweepJobs` two repositories are enough for one to be overtaken, or
to fail, while the other is not; `Revised` gives a second revision to one of them, so that
a stale round meets a newer plan, and one grab run per repository is in flight at a time
(overlapping runs are in `Archive`).

Deadlock is checked in `job_lifecycle` and `watcher`. `merge_loop` and `pack_shards` end;
`Archive`, `LocalArchive` and `SweepJobs` may stop in their bounded instances when all
revisions are published and every run has ended, so `CHECK_DEADLOCK FALSE` there.

Every property of a passing run has a mutant: an operator in the modules marked
"Mutant:" that changes a definition as a plausible bug would, for which TLC finds the
property violated.

## Fairness

`Convergence`, `Watcher!FairSpec` and `SweepJobs!FairSpec` assume fairness, and only once `calm` is true, i.e.
the faults have stopped. For `Convergence`: no crash, abort, lost artifact, cancelled run, bad upload, new revision
or manual dispatch. Before that anything may happen for any length of time, and no
step is guaranteed. Afterwards:

- the schedule of `sweep.yml` keeps triggering, a waiting sweep starts once the group
  is free, the running sweep takes its steps, transfers finish: weak fairness, since
  nothing disables these for good;
- `GoodCollect(r)` is strongly fair: a collector waits for the `state-write` group
  while sweeps come and go. Sweeps are two hours apart and mostly short, so the group
  is free again and again, but need not be free whenever one looks. Without strong
  fairness a sweep could always be first, which GitHub's queue does not allow.

`CatchesUp` is about the polls alone: once calm, the schedule of `watch.yml` keeps
triggering, a waiting poll starts when no other runs, a running one takes its steps (weak
fairness each); nothing is assumed of the other writers, who may publish between any two
polls. It further supposes that every query succeeds in the end (`Working`): while the
files of one repository cannot be listed or filtered, each poll raises before it has
written anything, and the other repositories wait with it.

`RoundsConverge` makes the assumptions of `Converges` for several repositories: once calm
the schedule triggers sweeps, a waiting sweep starts, a running one takes its steps and
transfers finish (weak fairness), and each repository's collector gets the group between
two sweeps (strong fairness, as above). Conflicts of a shared push, and rounds that end
because an object vanished before its read-back, still happen when calm. It further
supposes that metadata and listings succeed from then on: a repository whose query fails
for good, for instance because its source is gone, ends every round before anything is
dispatched or verified, for all repositories, as the code has it. `calm` begins while no
sweep runs, which loses nothing, since what a sweep under faults does ends in a state that
may precede it anyway.

`PullsComplete` assumes a diligent operator (`DiligentSpec`) and nothing of the workflows:
the clone is updated, `pull.sh` rerun while there is something to copy, the command that
`verify_local.sh` prints is run, a script that hashes reads on (weak fairness);
`verify_local.sh` is started again and again, though reclaims hash in between (strong
fairness); and from some time on the operator lets it end. It then states that if the job
stays verified and no object of it was overtaken by a stale reclaim, the clone ends with
`pulled` for the published revision, and keeps it (`<>[]`): a `pulled` of an earlier
revision does not count.

A collector whose checkout was overtaken still conflicts when calm; that is the
system working, not a fault.

## Findings

1. *A verified job may lose its object* (`late_transfer`). `tasks/PLAN.md:88` calls a
   verified job "safe to pull". A transfer of an earlier run can land after the sweep
   has read the object back: transfers are in no concurrency group, all revisions
   share one prefix, and the sweeper does not look at terminal jobs. `verify_local.sh`
   would notice after the pull.
2. *Files are charged for runs that never tried them* (`stale_dispatch`).
   `tasks/PLAN.md:99` says `attempts` counts failed uploads and failed verifications
   "of that file". A sweep that waited with an old checkout dispatches the old
   revision; the plan job does not compare it with the head's, the shards refuse, and
   the collector charges every file of the new revision.

3. *A blocked revision is never looked at again* (`blocked_retry`). README.md:264 says
   `seen.json` is not advanced for a job above `max_total_bytes`, "so a corrected config
   retries cleanly". `watcher.py:423` does advance it, and later polls skip the revision
   before they look at its size. The comment at `watcher.py:407` agrees with the code.

4. *A round can take another repository's job back* (`sweep_jobs`; a bug).
   `PLAN.md:80` calls the status "forward-only except on retry", and README.md:339 has
   the writers in one group "so they can never both push". The push before the dispatches
   ends in `git pull --rebase`: the workspace takes in the job files published since the
   sweep's checkout, the jobs in memory stay the old ones. When the sweep then verifies
   such a repository it saves the old job over the new file, and the final commit, whose
   base now includes the new file, pushes that without a conflict. The new revision is in
   `seen.json` and in no job file, so it is never archived. `ForwardOnly`
   (`ForwardOnly.cfg`) states it without exception, and TLC finds it violated in 14 states:
   repository 1 has a file to dispatch, repository 2 is complete at revision 1; a sweep is
   triggered, the watcher plans revision 2 of repository 2, the sweep persists 1, verifies
   the old job of 2 and commits it. `RoundsOnlyProgress` exempts exactly these job files
   (`merged`). `Watcher` has the step as `SweepTakesBack`, and its properties say what
   becomes of `seen.json` then; `Archive`, with its one repository, cannot have it.
5. *A stale reclaim deletes what nobody holds* (`local_archive`). README.md:344 says that
   every deletion path refuses when it cannot prove the deletion is safe. `reclaim.sh`
   proves it against the manifest in the operator's clone, and deletes by path from the
   prefix all revisions share. If a newer revision was published, and perhaps verified,
   since the clone was updated or while the script hashed, its objects are deleted, the
   drive holds the old ones, and no sweep looks at a verified job again. `NothingLost`
   exempts exactly these objects (`overtaken`); `DeletionsAreSafe` (`StaleReclaim.cfg`) does
   not, and TLC finds the loss in 18 states.

`NothingLost` and `PulledIsHeld` name a second exception, `regressed`: `verify_local.sh`
loads the job, hashes for hours and saves it as `pulled` over whatever the clone holds by
then (verify_local.sh:209-211). If the operator ran `git pull` meanwhile, an older job
replaces a newer one in the clone and its push does not conflict. It takes a `git pull`
during a verification, and the next poll cannot notice; the documents do not speak of it.

Neither of the first two breaks `VerifiedHasEvidence` or `KeepsPromise`: the job file stays consistent
with what was read, it is the bucket and the meaning of the counter that drift.

## The proofs

`tlapm` proves the following for every value of the constants that satisfies the named
assumptions, which say no more than what the constants are: any set of paths, any subset of
LFS files and any `MaxAttempts` (`JobStateAssumption`); for the archive also any number of
revisions and of overlapping grab runs (`StoreAssumption`, which otherwise keeps names
apart from each other and from objects); any repositories and number of revisions for the polls
(`WatcherAssumption`, `WatcherNamesAssumption`); any finite number of files, any sizes,
target and maximum for the packing (`PackAssumption`); any files, sizes and revisions on
the operator's side (`ObjectsAssumption`); any repositories of a round
(`SweepJobsAssumption`, `SweepJobsNamesAssumption`).

| Theorem | States |
|---|---|
| `JobLifecycleProofs!Invariance` | `Spec => []IInv` |
| `TypeCorrect`, `JobsAlwaysSave`, `PillInForce` | `TypeOK`, `EveryJobSaves`, `PoisonPill` are invariants |
| `BudgetKept`, `StatusKept` | the action properties `RetryBudgetNeverRefunded`, `StatusNeverReverts` |
| `JobStateProofs!MergeGood` | a merge takes a sound job to a good one that follows it |
| `MergeLoopProofs!LoopInvariance` | `Spec => []LInv` |
| `LoopIsItsClosedForm`, `LoopNeverRaises` | `LoopComputesOutcome`, `MergeNeverRaises` are invariants |
| `ArchiveProofs!ArchiveInvariance` | `Spec => []IInv` |
| `ArchiveTypeCorrect`, `HeadStaysSound`, `VerifiedIsBacked`, `WritersGoOn` | `TypeOK`, `HeadIsSound`, `VerifiedHasEvidence`, `WritersNeverRaise` are invariants |
| `PromiseKept` | `Spec => KeepsPromise`: the archive implements `PublishedJob` |
| `WatcherProofs!PollInvariance` | `Spec => []IInv` |
| `PollTypeCorrect`, `SeenStaysPlanned`, `DispatchAfterPush` | `TypeOK`, `SeenIsPlanned`, `DispatchFollowsPush` are invariants |
| `ProgressKept` | the action property `ProgressSurvivesPolls` |
| `PackShardsProofs!PackInvariance` | `Spec => []IInv` |
| `FilesPackedOnce`, `ShardsBalanced`, `PackTypeCorrect` | `EachFileOnce`, `Balanced`, `TypeOK` are invariants |
| `ShardsNearTarget`, `ShardsNearOptimal` | `NearTarget` and `NearOptimal` are invariants: the bounds by the target and by the best packing |
| `LocalArchiveProofs!LocalInvariance` | `Spec => []IInv` |
| `LocalTypeCorrect`, `NothingIsLost`, `PulledStaysHeld` | `TypeOK`, `NothingLost`, `PulledIsHeld` are invariants |
| `ReclaimKeeps` | the action property `ReclaimKeepsACopy` |
| `SweepJobsProofs!RoundInvariance` | `Spec => []IInv` |
| `RoundTypeCorrect` | `TypeOK` is an invariant |
| `RoundsKeepProgress` | the action property `RoundsOnlyProgress` |

*The argument.* `EveryJobSaves` is not inductive: a job with a wrong pair of assigned
and trusted status may be saved once and break a later call. `Sound(job)` says what
holds even inside a call, between withdrawing a file's flags and deriving the status
(in particular `Gap`: the assigned status is the trusted one or one of the two
assignments callers make); `Good(job)` adds `ValidJob`. `Follows(old, new)` collects
what never happens to a saved job and is transitive. `JobStateProofs` shows for each
operation that it takes a sound job to a good one that follows it. The inductive
invariant

    IInv == /\ mem # NoJob => Good(mem)
            /\ disk # NoJob => Good(disk) /\ disk.trusted = disk.status
            /\ mem # NoJob /\ disk # NoJob => Follows(disk, mem)

then needs one step per action, and its third conjunct is what turns `Save` into the
two action properties: whatever a process did since it loaded, the file it replaces is
followed by the one it writes.

For the merge loop, `LInv` says that until a fatal result the job is the start with
the results merged so far (`MergedFiles`), its status that of the start or derived,
and that a fatal result leaves `CutShort` with exactly the results that came before.

For the archive, none of the four invariants is inductive: all speak of the head, which is
replaced by jobs that collectors and sweeps have held for hours. `Steady(job)` says what is
true of every job anybody holds: it is planned for every path, trusted, what its status
says of its files, and saves. `JobStateProofs` and the lemmas of `ArchiveProofs` show that
merging, reconciling, a good and a bad read-back keep a job steady, give no attempt back
and charge a file once at most (`ChargesOnce`). The inductive invariant

    IInv == TypeOK /\ HeadHolds /\ QueuedHolds /\ SweepHolds /\ RunsHold

says that the head is steady and backed by the read-backs in `evidence`, that what a
waiting or a running sweep holds is steady and backed for the revision *it* read, stale or
not, and what a fresh checkout is worth: a waiting sweep then holds the head itself, a
running one a job of the head's revision that has come from the head and may replace it, and
a run was started on an unfinished head. A stale holder need not be related to the head at
all, since `Publish` is disabled for it. `Careful` adds what a sweep knows at each stage, for
instance that every file it is about to read back is uploaded and its job has not failed:
that is why `mark_verified` and `reset_file` cannot raise. `ChargesInTurn` says that a sweep
has not yet charged the files it has still to read back (`Unread`), which is why its push
charges none twice. `Unattended`, the next-state relation of the run `archive_files`, is a
disjunct of `Next`, so that what is proved of `Spec` holds of `UnattendedSpec`.

TLC found a first version of `IInv` invariant, and the prover found that it was not
inductive: nothing in it said that a sweep exists only once a job has been published, which
its dispatch of a run rests on. `QueuedHolds` and `SweepHolds` now say so.

For the refinement every step is classified by what it does to the head (`HeadStep`): it
leaves it alone, plans the next revision, or lets an unfinished head progress (`Advances`).
The first is a stutter of `PublishedJob`, the second its `Plan` (`PlanningPlans`), the third
its `Progress` (`AdvancingProgresses`). The hard part is that a collector and a sweep
`Advance` the head they read, hours ago, and publish over the one there is now: that these
are the same job, or the push fails, is `RunsHold` and `SweepHolds`.

For the polls, `QueuedKnows` and `PollKnows` say what a checkout is worth: of the
repositories whose job files are still the head's it knows what the head has seen. What
is prepared is newer than what the checkout has seen (`PreparedIsNews`), and a push needs
fresh job files; so `PushAdvances`: every revision it publishes is newer than the one it
replaces. `LateIsOld` says that a job a sweep may put back is older than what is seen; it
makes `SeenIsPlanned` inductive with its exception (`TakesBackKeeps`).

For the packing, what is placed is at least as large as what is still to place
(`LargestFirst`), which makes `Balanced` inductive; how many shards there are does not
matter. Each other shard weighs at least what a given one does without one of its files, so
n times that is at most all that is pending (`FairShare`). An uncapped number of shards is
large enough for n targets to hold it (`EnoughShards`), which gives `NearTarget`.

For `NearOptimal`, let m be the weight of the heaviest shard of any packing. Its n shards
hold all that is pending too, so that a shard is within (n-1)/n of any one of its files of m
(`WithinAFile`): Graham's bound, if one of them is at most m/3. Otherwise all its files are
larger than m/3, and then the loop keeps within m itself. This is `LargeFit`, which is part
of the inductive invariant, since it follows turn by turn (`LargeFilesFit`): suppose
that the next file does not fit into the least loaded shard. Then every shard of the loop
has one or two files, and each shard of the packing at most two. Give a file that is alone
in its shard the weight 2 and any other the weight 1. The next file is the smallest and
does not fit beside one that is alone, so neither does any other, and the packing puts at
most a weight of 2 into a shard, 2n in all. But the shards of the loop weigh 2n already,
without the next file. The invariant quantifies over all m; TLC was asked
about those up to the total weight.

These need sums over sets, that is, induction over the data. The sum of the community
modules is a recursive function on the subsets of a set. That it is well defined, adds up
and is monotonic is proved by looking at a smallest set that fails (`MinimalSet`, from the
well-foundedness of strict inclusion), since the prover cannot instantiate the induction
theorems of its library, which take an operator as parameter.

For the operator's side, `NothingLost` says nothing of a running script, so its deletions
could not be justified by it. `KeptCopies` says what a script may rely on: of every file
that passed its scan, or that it still has to delete, the drive holds an intact copy
unless the bucket does not hold one either. A pull keeps this because it copies what is
in the bucket; a transfer keeps it because the scripts only work for revisions that were
verified (`VerifiedRevisions`), and a verified revision is never transferred again
(`HeadShape`). `ConfirmedObjects` and `HeldCopies` carry the evidence from the read-back
to the publication of `verified`, and from the scan to that of `pulled`.

For the rounds, `QueuedKnows` and `RoundKnows` say that a checkout agrees with the head on
the job files that are fresh: a held job is of the head's revision, and if the head's has
ended it is that very job. A push needs all its job files fresh; hence it goes on from
what it replaces. The proof shows where the argument ends: after the rebase a file is
fresh without the job in memory agreeing with it, which is `merged`, and the finding.

*Model-checked only.* `Converges`, `CatchesUp`, `RoundsConverge` and `PullsComplete`, since
liveness under fairness is beyond the prover. Every other property of a passing run is a
theorem.

## What is not modelled

- The shell plumbing of `grab_shard.sh`
  (`PIPESTATUS`, FIFOs), which is reduced to a file's outcome.
- How the watcher's targets, gates and filters come to their verdict: functions of the
  configuration and of one listing, without state.
- On the operator's side: transfer budgets and time windows of `pull.sh` (a pull may pause
  after any file), path checks, two scripts hashing at the same time, damage to the drive
  after a verification. Plain files have no declared hash, so `verify_local.sh` and
  `reclaim.sh` check their size only; the properties speak of LFS files. A transfer that
  outlives the read-back of its file is in `Archive` (finding 1) and not in
  `LocalArchive`, whose claims suppose that it does not happen.
- In `SweepJobs`: the files of a repository one by one, overlapping runs of one repository,
  the counting of attempts (all in `Archive`); the dispatches of a round are one step.
- `lib/hfmeta.py` (stateless queries), `lib/notify.py` (a webhook whose failures are
  swallowed), keepalive, smoke tests and diagnosis workflows (harnesses).
- `--dry-run`, `--limit` and `--max-bytes`; orphan reports; time. How long a transfer
  takes is not modelled, that it may end without a result is.

## The plan

Done: `JobState`, `JobLifecycle`, `MergeLoop`, `Watcher`, `PackShards`, `LocalArchive`,
`SweepJobs` and `Archive` (with `Objects`, `Store`, `Grab`, `Sweep` and `PublishedJob`), with
the proofs of their safety properties; `Convergence`.

Next, in this order:

1. The filters of the watcher (`filter_repo_files`): split sets kept whole or refused,
   against a reference over bounded inputs.
2. `Archive` with `pulled` published from the operator's clone.
3. Proofs: a refinement that relates `SweepJobs` or `Watcher` to `PublishedJob`, repository
   by repository.

## Running it

    tlc -workers 2 -config JobLifecycle.cfg JobLifecycle
    tlc -workers 2 -config ArchiveRevisions.cfg Archive
    tlc -workers 2 -config Watcher.cfg Watcher
    tlapm JobStateProofs.tla && tlapm JobLifecycleProofs.tla && tlapm MergeLoopProofs.tla
    tlc -workers 2 -config LocalArchive.cfg LocalArchive
    tlc -workers 2 -config SweepJobs.cfg SweepJobs
    tlc -workers 2 -config ForwardOnly.cfg SweepJobs        # violated: finding 4
    tlc -workers 2 -config StaleReclaim.cfg LocalArchive    # violated: finding 5
    tlapm WatcherProofs.tla && tlapm PackShardsProofs.tla
    tlapm LocalArchiveProofs.tla && tlapm SweepJobsProofs.tla
    tlapm ArchiveProofs.tla

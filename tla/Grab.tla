-------------------------------- MODULE Grab --------------------------------
(***************************************************************************)
(* Grab runs (.github/workflows/grab.yml): plan_shards.py computes the     *)
(* pending files of the checkout, one grab_shard.sh per shard streams them *)
(* from Hugging Face to R2, and collect_shards.py merges the results into  *)
(* the job file, serialized with the other writers by the state-write      *)
(* group.  Nothing keeps two grab runs from streaming the same files.      *)
(*                                                                         *)
(* How files are packed into shards does not matter here: the files of a   *)
(* run are transferred in any order and each result may be lost.           *)
(***************************************************************************)
EXTENDS Store

CONSTANT NoRun

VARIABLE runs

grabVars == <<runs>>

GrabRun == [rev: Revisions, todo: SUBSET Path,
            results: UNION {[P -> ShardResult] : P \in SUBSET Path}]

GrabInit == runs = [r \in Run |-> NoRun]

\* The run a dispatch for revision v starts on a checkout that holds job at
\* revision v0.  The plan job does not compare the two; the shards do, and exit
\* without a result, which the collector charges to every planned file.
PlannedRun(v, v0, job) ==
    [rev     |-> v,
     todo    |-> IF v = v0 THEN PendingUploads(job) ELSE {},
     results |-> [p \in IF v = v0 THEN {} ELSE PendingUploads(job) |-> "error"]]

\* repository_dispatch or workflow_dispatch of grab-model.  A plan with no
\* pending file skips the shards and collects nothing, so no run is started.
StartRun(r, v, v0, job) ==
    /\ runs[r] = NoRun
    /\ PendingUploads(job) # {}
    /\ runs' = [runs EXCEPT ![r] = PlannedRun(v, v0, job)]

\* process_file: the object that lands in R2 and the result that is reported.
\* An error may leave the old object, a truncated or altered one, or even the
\* whole file behind; a success of a file without a declared hash may hide
\* altered bytes of the right length.
Transfer(r, p) ==
    /\ runs[r] # NoRun
    /\ p \in runs[r].todo
    /\ \E landed \in {"nothing", "whole", "short", "corrupt"}, result \in {"declared", "other", "error"} :
          /\ result = "declared" => landed = "whole"
          /\ result = "other" => landed = "corrupt" /\ p \notin Lfs
          /\ r2' = IF landed = "nothing" THEN r2
                   ELSE [r2 EXCEPT ![p] = [rev |-> runs[r].rev, kind |-> landed]]
          /\ runs' = [runs EXCEPT ![r].todo = @ \ {p},
                                  ![r].results =
                                      [q \in DOMAIN @ \cup {p} |->
                                          IF q = p THEN result ELSE @[q]]]
    /\ UNCHANGED <<head, rev, fresh>>

\* What the collector merges: the reported results, and an error for each
\* planned file without one (a shard that timed out or lost its artifact).
CollectedResults(run) ==
    [p \in DOMAIN run.results \cup run.todo |->
        IF p \in run.todo THEN "error" ELSE run.results[p]]

\* Mutant: the collector overwrites whatever was published meanwhile with the
\* merge into the job it planned from.
CollectForced(r) ==
    /\ runs[r] # NoRun
    /\ \E job \in MergeOutcomes(PlannedJob, CollectedResults(runs[r])) :
          Publish(job, {})
    /\ runs' = [runs EXCEPT ![r] = NoRun]
    /\ UNCHANGED <<rev, r2>>

\* collect_shards.py and the commit step, inside the state-write group.
Collect(r) ==
    /\ runs[r] # NoRun
    /\ r \in fresh
    /\ CanMerge(head, CollectedResults(runs[r]))
    /\ \E job \in MergeOutcomes(head, CollectedResults(runs[r])) :
          /\ CanSave(job)
          /\ Publish(job, {})
    /\ runs' = [runs EXCEPT ![r] = NoRun]
    /\ UNCHANGED <<rev, r2>>

\* The results are never published: the rebase conflicts because the job file
\* changed since the run was triggered, the pending collect job is cancelled
\* by a newer one in its concurrency group, or its runner fails.
CollectLost(r) ==
    /\ runs[r] # NoRun
    /\ runs' = [runs EXCEPT ![r] = NoRun]
    /\ fresh' = fresh \ {r}
    /\ UNCHANGED <<head, rev, r2>>
=============================================================================

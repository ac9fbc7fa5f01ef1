------------------------------ MODULE MergeLoop ------------------------------
(***************************************************************************)
(* The loop of merge_shard_results (lib/state.py), one shard result a      *)
(* turn, over a valid job and in every order of the results; MergeOutcomes *)
(* of JobState is its closed form, which the other modules use.            *)
(***************************************************************************)
EXTENDS JobState

VARIABLES start,     \* the job the collector loaded
          results,   \* the results of the shards, by path
          job,       \* the job being merged into
          merged,    \* the paths whose turn is over
          pc         \* "loop" or "end"

vars == <<start, results, job, merged, pc>>

\* What the collector can load: a saved job that is not pulled, with the
\* poison pill in force.
StartJobs ==
    {j \in Job :
        /\ ValidJob(j)
        /\ j.trusted = j.status
        /\ j.status # "pulled"
        /\ PoisonPillOf(j)}

Init ==
    /\ start \in StartJobs
    /\ results \in UNION {[P -> ShardResult] : P \in SUBSET DOMAIN start.files}
    /\ job = start
    /\ merged = {}
    /\ pc = "loop"

CanMergeOne(p) ==
    \/ job.status = "failed"
    \/ IF results[p] = "error"
       THEN CanRecordFailure(job, p)
       ELSE CanMarkUploaded(job, p, results[p])

\* The body of the loop, for a path whose turn has not come.
Turn(p) ==
    /\ pc = "loop"
    /\ job.status # "failed"
    /\ CanMergeOne(p)
    /\ job' = MergeOne(job, p, results[p])
    /\ merged' = merged \cup {p}
    /\ UNCHANGED <<start, results, pc>>

\* The next result finds the job failed and breaks out.
Break ==
    /\ pc = "loop"
    /\ job.status = "failed"
    /\ merged # DOMAIN results
    /\ pc' = "end"
    /\ UNCHANGED <<start, results, job, merged>>

\* After the last result the status is derived unless the job failed.
Finish ==
    /\ pc = "loop"
    /\ merged = DOMAIN results
    /\ job.status # "failed" => CanRecompute(job)
    /\ job' = IF job.status = "failed" THEN job ELSE Recompute(job)
    /\ pc' = "end"
    /\ UNCHANGED <<start, results, merged>>

Next ==
    \/ \E p \in DOMAIN results \ merged : Turn(p)
    \/ Break
    \/ Finish

Spec == Init /\ [][Next]_vars

-----------------------------------------------------------------------------

\* The loop stays among jobs, turns and program points of its shape: no merge
\* runs a counter past the poison pill.
TypeOK ==
    /\ start \in StartJobs
    /\ results \in UNION {[P -> ShardResult] : P \in SUBSET DOMAIN start.files}
    /\ job \in Job
    /\ merged \subseteq DOMAIN results
    /\ pc \in {"loop", "end"}

\* Whatever the order of the results, the loop ends in one of the outcomes of
\* the closed form: a single one when no result is fatal, so that the order
\* cannot matter, and a failed job otherwise.
LoopComputesOutcome ==
    pc = "end" => job \in MergeOutcomes(start, results)

\* No combination of results makes the merge of a collectable job raise, in any
\* turn or in the derivation after the last one, so one bad shard never costs the
\* others their progress.
MergeNeverRaises ==
    pc = "loop" =>
       /\ \A p \in DOMAIN results \ merged : CanMergeOne(p)
       /\ merged = DOMAIN results /\ job.status # "failed" => CanRecompute(job)
=============================================================================

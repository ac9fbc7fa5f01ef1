-------------------------- MODULE SweepJobsProofs --------------------------
(***************************************************************************)
(* The rounds for any repositories, revisions and sizes.                   *)
(*                                                                         *)
(* A checkout agrees with the head on the job files that are still fresh,  *)
(* and a push needs fresh job files; so what a round publishes is of the   *)
(* revision it replaces, which has not ended meanwhile.  Only the job      *)
(* files a rebase took in escape this.                                     *)
(***************************************************************************)
EXTENDS SweepJobs, TLAPS

Final == {"verified", "failed"}

\* What is published, or waits to be, was planned by the watcher.
Planned(jobs) == \A r \in Repo : jobs[r] # NoJob => jobs[r].rev <= latest[r]

\* A job file once published stays.
StillThere(jobs) == \A r \in Repo : jobs[r] # NoJob => head[r] # NoJob

\* A run that was not overtaken works for the pending job of the head.
RunsPending ==
    \A r \in Repo : grabs[r] # NoRun /\ grabs[r].state # "overtaken" =>
        head[r] # NoJob /\ head[r].status = "pending"

\* The waiting sweep's checkout, as far as its job files are the head's.
QueuedKnows ==
    queued # NoSweep =>
        /\ Planned(queued.jobs)
        /\ StillThere(queued.jobs)
        /\ \A r \in queued.fresh : queued.jobs[r] = head[r]

\* What the round holds of a job file that is still its checkout's.
Agrees(job, published) ==
    job # NoJob =>
        /\ job.rev = published.rev
        /\ published.status \in Final => job = published

RoundKnows ==
    sweep # NoSweep =>
        /\ Planned(sweep.jobs)
        /\ StillThere(sweep.jobs)
        /\ sweep.pc = "examine" => sweep.merged = {}
        /\ \A r \in sweep.dirty : sweep.jobs[r] # NoJob
        /\ \A r \in sweep.fresh \ sweep.merged : Agrees(sweep.jobs[r], head[r])

IInv ==
    /\ TypeOK
    /\ Planned(head)
    /\ RunsPending
    /\ QueuedKnows
    /\ RoundKnows

\* What RoundsOnlyProgress says of a step.
Progress ==
    \A r \in Repo : head'[r] # head[r] /\ ~(sweep # NoSweep /\ r \in sweep.merged) =>
        Follows(head'[r], head[r])

-----------------------------------------------------------------------------

\* Nothing is planned and nothing runs.
LEMMA InitEstablishes == Init => IInv
<1> SUFFICES ASSUME Init PROVE IInv
    OBVIOUS
<1>1. 0 \in 0 .. MaxRev
    BY SweepJobsAssumption
<1>2. TypeOK
    BY <1>1 DEF Init, TypeOK, JobFiles
<1> QED
    BY <1>2 DEF Init, IInv, Planned, RunsPending, QueuedKnows, RoundKnows

\* What a push does to the branch and to the waiting sweep.
LEMMA PublishEffect ==
    ASSUME TypeOK, NEW jobs, Publish(jobs), DOMAIN jobs \subseteq Repo,
           \A r \in DOMAIN jobs : jobs[r] \in Job
    PROVE  /\ head' \in JobFiles
           /\ \A r \in Repo : head'[r] = IF r \in DOMAIN jobs THEN jobs[r] ELSE head[r]
           /\ queued' \in Checkout \cup {NoSweep}
           /\ queued' # NoSweep =>
                 /\ queued # NoSweep
                 /\ queued'.jobs = queued.jobs
                 /\ queued'.fresh = queued.fresh \ DOMAIN jobs
<1>1. /\ head' \in JobFiles
      /\ \A r \in Repo : head'[r] = IF r \in DOMAIN jobs THEN jobs[r] ELSE head[r]
    BY DEF Publish, TypeOK, JobFiles
<1>2. CASE queued = NoSweep
    BY <1>1, <1>2 DEF Publish
<1>3. CASE queued # NoSweep
  <2>1. queued \in Checkout /\ queued' = [queued EXCEPT !.fresh = @ \ DOMAIN jobs]
      BY <1>3 DEF Publish, TypeOK
  <2>2. /\ queued' \in Checkout
        /\ queued'.jobs = queued.jobs
        /\ queued'.fresh = queued.fresh \ DOMAIN jobs
      BY <2>1 DEF Checkout
  <2> QED
      BY <1>1, <1>3, <2>2
<1> QED
    BY <1>2, <1>3

\* The waiting sweep stays right about what was not pushed.
LEMMA PublishKeepsQueued ==
    ASSUME IInv, NEW jobs, Publish(jobs), DOMAIN jobs \subseteq Repo,
           \A r \in DOMAIN jobs : jobs[r] \in Job,
           \A r \in Repo : latest[r] <= latest'[r],
           latest' \in [Repo -> 0 .. MaxRev]
    PROVE  QueuedKnows'
<1> SUFFICES ASSUME queued' # NoSweep
             PROVE  /\ Planned(queued.jobs)'
                    /\ StillThere(queued.jobs)'
                    /\ \A r \in queued'.fresh : queued'.jobs[r] = head'[r]
    BY DEF QueuedKnows
<1>1. /\ queued # NoSweep
      /\ queued'.jobs = queued.jobs
      /\ queued'.fresh = queued.fresh \ DOMAIN jobs
      /\ \A r \in Repo : head'[r] = IF r \in DOMAIN jobs THEN jobs[r] ELSE head[r]
    BY PublishEffect DEF IInv
<1>2. queued \in Checkout
    BY <1>1 DEF IInv, TypeOK
<1>3. Planned(queued.jobs) /\ StillThere(queued.jobs)
    BY <1>1 DEF IInv, QueuedKnows
<1>4. \A r \in Repo : queued.jobs[r] # NoJob => queued.jobs[r].rev \in Nat
    BY <1>2, SweepJobsAssumption DEF Checkout, JobFiles, Job, Revisions
<1>5. Planned(queued.jobs)'
    BY <1>1, <1>3, <1>4, SweepJobsAssumption DEF Planned, IInv, TypeOK
<1>6. StillThere(queued.jobs)'
    BY <1>1, <1>3, SweepJobsNamesAssumption DEF StillThere
<1>7. \A r \in queued'.fresh : queued'.jobs[r] = head'[r]
    BY <1>1, <1>2 DEF IInv, QueuedKnows, Checkout
<1> QED
    BY <1>5, <1>6, <1>7

\* The runs of what was pushed are overtaken or gone, the others unchanged.
LEMMA OvertakenEffect ==
    ASSUME TypeOK, NEW S \in SUBSET Repo
    PROVE  /\ Overtaken(grabs, S) \in [Repo -> GrabRun \cup {NoRun}]
           /\ \A r \in Repo : Overtaken(grabs, S)[r] # NoRun =>
                 \/ Overtaken(grabs, S)[r].state = "overtaken"
                 \/ r \notin S /\ Overtaken(grabs, S)[r] = grabs[r]
<1> DEFINE run(r) == IF r \notin S \/ grabs[r] = NoRun THEN grabs[r]
                     ELSE IF grabs[r].state \in {"running", "overtaken"}
                          THEN [grabs[r] EXCEPT !.state = "overtaken"] ELSE NoRun
<1>1. Overtaken(grabs, S) = [r \in Repo |-> run(r)]
    BY DEF Overtaken
<1>2. ASSUME NEW r \in Repo
      PROVE  /\ run(r) \in GrabRun \cup {NoRun}
             /\ run(r) # NoRun => \/ run(r).state = "overtaken"
                                  \/ r \notin S /\ run(r) = grabs[r]
  <2>1. CASE r \notin S \/ grabs[r] = NoRun
      BY <2>1 DEF TypeOK
  <2>2. CASE r \in S /\ grabs[r] # NoRun
    <3>1. grabs[r] \in GrabRun
        BY <2>2 DEF TypeOK
    <3>2. /\ [grabs[r] EXCEPT !.state = "overtaken"] \in GrabRun
          /\ [grabs[r] EXCEPT !.state = "overtaken"].state = "overtaken"
        BY <3>1 DEF GrabRun
    <3> QED
        BY <2>2, <3>2
  <2> QED
      BY <2>1, <2>2
<1> HIDE DEF run
<1> QED
    BY <1>1, <1>2

-----------------------------------------------------------------------------
(* The other writers, between two rounds                                   *)

\* The new plan is of a newer revision than any before.
LEMMA WatchPlansKeeps ==
    ASSUME IInv, NEW r \in Repo, WatchPlans(r)
    PROVE  IInv' /\ Progress
<1> DEFINE job == [rev |-> latest[r] + 1, status |-> "pending"]
           jobs == [q \in {r} |-> job]
<1>0. TypeOK /\ sweep = NoSweep /\ UNCHANGED <<r2, sweep, calm>> /\ Publish(jobs)
    BY DEF WatchPlans, IInv
<1>1. /\ latest[r] \in 0 .. MaxRev
      /\ latest[r] + 1 \in Revisions
      /\ latest' = [latest EXCEPT ![r] = @ + 1]
    BY <1>0, SweepJobsAssumption DEF WatchPlans, TypeOK, Revisions
<1>2. /\ latest' \in [Repo -> 0 .. MaxRev]
      /\ \A q \in Repo : latest[q] <= latest'[q]
      /\ latest'[r] = latest[r] + 1
    BY <1>0, <1>1, SweepJobsAssumption DEF TypeOK, Revisions
<1>3. job \in Job /\ jobs[r] = job /\ DOMAIN jobs = {r} /\ job.status = "pending"
      /\ job.rev = latest[r] + 1
    BY <1>1 DEF Job
<1> HIDE DEF job, jobs
<1>4. /\ head' \in JobFiles
      /\ head'[r] = job
      /\ \A q \in Repo \ {r} : head'[q] = head[q]
      /\ queued' \in Checkout \cup {NoSweep}
  <2>1. DOMAIN jobs \subseteq Repo /\ \A q \in DOMAIN jobs : jobs[q] \in Job
      BY <1>3
  <2> QED
      BY <1>0, <1>3, <2>1, PublishEffect
<1>5. QueuedKnows'
  <2>1. DOMAIN jobs \subseteq Repo /\ \A q \in DOMAIN jobs : jobs[q] \in Job
      BY <1>3
  <2> QED
      BY <1>0, <1>2, <2>1, PublishKeepsQueued
<1>6. /\ grabs' \in [Repo -> GrabRun \cup {NoRun}]
      /\ \A q \in Repo \ {r} : grabs'[q] # NoRun =>
            grabs'[q].state = "overtaken" \/ grabs'[q] = grabs[q]
  <2>1. CASE grabs' = Overtaken(grabs, {r})
      BY <1>0, <2>1, OvertakenEffect
  <2>2. CASE grabs' = [grabs EXCEPT ![r] = [rev |-> latest[r] + 1, state |-> "running"]]
      BY <1>0, <1>1, <2>2 DEF TypeOK, GrabRun
  <2> QED
      BY <2>1, <2>2 DEF WatchPlans
<1>7. RunsPending'
    BY <1>3, <1>4, <1>6, SweepJobsNamesAssumption DEF RunsPending, IInv
<1>8. Planned(head)'
  <2>1. \A q \in Repo : head[q] # NoJob => head[q].rev \in Nat /\ head[q].rev <= latest[q]
      BY <1>0, SweepJobsAssumption DEF IInv, Planned, TypeOK, JobFiles, Job, Revisions
  <2>2. \A q \in Repo : latest[q] \in Nat /\ latest'[q] \in Nat
      BY <1>0, <1>2, SweepJobsAssumption DEF TypeOK
  <2> QED
      BY <1>2, <1>3, <1>4, <2>1, <2>2 DEF Planned
<1>9. TypeOK'
    BY <1>0, <1>2, <1>4, <1>6 DEF TypeOK
<1>10. RoundKnows'
    BY <1>0 DEF RoundKnows
<1>11. Progress
  <2>1. head[r] # NoJob => head[r].rev \in Nat /\ head[r].rev <= latest[r]
      BY <1>0, SweepJobsAssumption DEF IInv, Planned, TypeOK, JobFiles, Job, Revisions
  <2>2. Follows(head'[r], head[r])
      BY <1>1, <1>3, <1>4, <2>1, SweepJobsAssumption DEF Follows
  <2> QED
      BY <1>4, <2>2 DEF Progress
<1> QED
    BY <1>5, <1>7, <1>8, <1>9, <1>10, <1>11 DEF IInv

\* A collected result belongs to a pending job, whose revision it keeps.
LEMMA CollectKeeps ==
    ASSUME IInv, NEW r \in Repo, Collect(r)
    PROVE  IInv' /\ Progress
<1>0. /\ TypeOK /\ sweep = NoSweep /\ UNCHANGED <<r2, sweep, latest, calm>>
      /\ grabs' = [grabs EXCEPT ![r] = NoRun]
    BY DEF Collect, IInv, outside
<1>1. PICK status \in {"complete", "pending", "failed"} :
         Publish([q \in {r} |-> [head[r] EXCEPT !.status = status]])
    BY DEF Collect
<1> DEFINE job == [head[r] EXCEPT !.status = status]
           jobs == [q \in {r} |-> job]
<1>2. head[r] # NoJob /\ head[r].status = "pending" /\ head[r] \in Job
    BY <1>0 DEF Collect, IInv, RunsPending, TypeOK, JobFiles
<1>3. /\ job \in Job /\ job.rev = head[r].rev /\ job.status = status
      /\ DOMAIN jobs = {r} /\ jobs[r] = job
    BY <1>2 DEF Job
<1>4. Publish(jobs)
    BY <1>1
<1> HIDE DEF job, jobs
<1>5. DOMAIN jobs \subseteq Repo /\ \A q \in DOMAIN jobs : jobs[q] \in Job
    BY <1>3
<1>6. /\ head' \in JobFiles
      /\ head'[r] = job
      /\ \A q \in Repo \ {r} : head'[q] = head[q]
      /\ queued' \in Checkout \cup {NoSweep}
    BY <1>0, <1>3, <1>4, <1>5, PublishEffect
<1>7. QueuedKnows'
  <2>1. latest' \in [Repo -> 0 .. MaxRev] /\ \A q \in Repo : latest[q] <= latest'[q]
      BY <1>0, SweepJobsAssumption DEF TypeOK
  <2> QED
      BY <1>4, <1>5, <2>1, PublishKeepsQueued
<1>8. grabs' \in [Repo -> GrabRun \cup {NoRun}] /\ RunsPending'
    BY <1>0, <1>6 DEF TypeOK, RunsPending, IInv
<1>9. Planned(head)'
    BY <1>0, <1>2, <1>3, <1>6 DEF Planned, IInv
<1>10. TypeOK'
    BY <1>0, <1>6, <1>8 DEF TypeOK
<1>11. RoundKnows'
    BY <1>0 DEF RoundKnows
<1>12. Progress
    BY <1>2, <1>3, <1>6 DEF Progress, Follows
<1> QED
    BY <1>7, <1>8, <1>9, <1>10, <1>11, <1>12 DEF IInv

\* A transfer that ends, or a run that is lost, publishes nothing.
LEMMA RunKeeps ==
    ASSUME IInv, NEW r \in Repo, Transfer(r) \/ RunLost(r)
    PROVE  IInv' /\ Progress
<1>0. TypeOK /\ UNCHANGED <<head, queued, sweep, latest, calm>> /\ grabs[r] # NoRun
    BY DEF Transfer, RunLost, IInv, outside
<1>1. grabs[r] \in GrabRun
    BY <1>0 DEF TypeOK
<1>2. /\ grabs' \in [Repo -> GrabRun \cup {NoRun}]
      /\ \A q \in Repo \ {r} : grabs'[q] = grabs[q]
      /\ \/ grabs'[r] = NoRun
         \/ grabs'[r] # NoRun /\ grabs[r].state = "running"
      /\ r2' \in [Repo -> Object \cup {NoObject}]
  <2>1. CASE Transfer(r)
    <3>1. PICK landed \in {"nothing", "whole", "short", "corrupt"},
               result \in {"uploaded", "error"} :
              /\ r2' = IF landed = "nothing" THEN r2
                       ELSE [r2 EXCEPT ![r] = [rev |-> grabs[r].rev, kind |-> landed]]
              /\ grabs' = IF grabs[r].state = "overtaken" THEN [grabs EXCEPT ![r] = NoRun]
                          ELSE [grabs EXCEPT ![r].state = result]
        BY <2>1 DEF Transfer
    <3>2. landed # "nothing" => [rev |-> grabs[r].rev, kind |-> landed] \in Object
        BY <1>1 DEF GrabRun, Object
    <3>3. r2' \in [Repo -> Object \cup {NoObject}]
        BY <1>0, <3>1, <3>2 DEF TypeOK
    <3>4. [grabs[r] EXCEPT !.state = result] \in GrabRun
        BY <1>1 DEF GrabRun
    <3>5. grabs[r].state \in {"running", "overtaken"}
        BY <2>1 DEF Transfer
    <3>6. CASE grabs[r].state = "overtaken"
        BY <1>0, <3>1, <3>3, <3>6 DEF TypeOK
    <3>7. CASE grabs[r].state = "running"
        BY <1>0, <3>1, <3>3, <3>4, <3>7 DEF TypeOK
    <3> QED
        BY <3>5, <3>6, <3>7
  <2>2. CASE RunLost(r)
      BY <1>0, <2>2 DEF RunLost, TypeOK
  <2> QED
      BY <2>1, <2>2
<1>3. RunsPending'
    BY <1>0, <1>2 DEF RunsPending, IInv
<1>4. TypeOK'
    BY <1>0, <1>2 DEF TypeOK
<1>5. Planned(head)' /\ QueuedKnows' /\ RoundKnows'
    BY <1>0 DEF Planned, StillThere, QueuedKnows, RoundKnows, IInv
<1>6. Progress
    BY <1>0 DEF Progress
<1> QED
    BY <1>3, <1>4, <1>5, <1>6 DEF IInv

-----------------------------------------------------------------------------
(* The round                                                               *)

\* A sweep is triggered with the head's job files, which it then knows.
LEMMA TriggerKeeps ==
    ASSUME IInv, TriggerSweep
    PROVE  IInv' /\ Progress
<1>0. /\ TypeOK /\ UNCHANGED <<head, r2, grabs, sweep, latest, calm>>
      /\ queued' = [jobs |-> head, fresh |-> Repo]
    BY DEF TriggerSweep, IInv, outside
<1>1. queued' \in Checkout /\ TypeOK'
    BY <1>0 DEF TypeOK, Checkout
<1>2. QueuedKnows'
    BY <1>0 DEF QueuedKnows, Planned, StillThere, IInv
<1>3. RunsPending' /\ Planned(head)' /\ RoundKnows'
    BY <1>0 DEF RunsPending, RoundKnows, Planned, StillThere, IInv
<1> QED
    BY <1>0, <1>1, <1>2, <1>3 DEF IInv, Progress

\* The round starts with the checkout and what that knows.
LEMMA BeginKeeps ==
    ASSUME IInv, BeginSweep
    PROVE  IInv' /\ Progress
<1>0. /\ TypeOK /\ UNCHANGED <<head, r2, grabs, latest, calm>>
      /\ queued' = NoSweep /\ queued \in Checkout
      /\ QueuedKnows /\ queued # NoSweep
    BY DEF BeginSweep, IInv, outside, TypeOK
<1> DEFINE round == [pc |-> "examine", jobs |-> queued.jobs, fresh |-> queued.fresh,
                     merged |-> {}, dirty |-> {}, todo |-> Active(queued.jobs)]
<1>1. /\ round \in SweepRun
      /\ \A r \in round.todo :
            round.jobs[r] # NoJob /\ round.jobs[r].status \in {"pending", "complete"}
    BY <1>0 DEF Checkout, SweepRun, Active
<1>2. sweep' \in {NoSweep, round}
    BY DEF BeginSweep
<1>3. TypeOK'
    BY <1>0, <1>1, <1>2 DEF TypeOK
<1>4. RoundKnows'
  <2>1. \A r \in queued.fresh : Agrees(queued.jobs[r], head[r])
      BY <1>0 DEF QueuedKnows, Agrees
  <2> QED
      BY <1>0, <1>2, <2>1 DEF RoundKnows, QueuedKnows, Planned, StillThere
<1>5. RunsPending' /\ Planned(head)' /\ QueuedKnows'
    BY <1>0 DEF RunsPending, QueuedKnows, Planned, IInv
<1> QED
    BY <1>0, <1>3, <1>4, <1>5 DEF IInv, Progress

\* Changing the job whose turn it is, in memory and on disk, stays within what
\* the round knows: that job had not ended at the head, if it is the head's.
LEMMA RoundChanges ==
    ASSUME IInv, sweep # NoSweep, sweep.todo # {}, UNCHANGED <<head, latest>>,
           NEW status \in {"pending", "complete", "verified", "failed"},
           NEW dirty \in SUBSET {Turn},
           sweep' = [sweep EXCEPT !.jobs[Turn].status = status,
                                  !.dirty = @ \cup dirty, !.todo = @ \ {Turn}]
    PROVE  /\ sweep' \in SweepRun
           /\ \A r \in sweep'.todo :
                 sweep'.jobs[r] # NoJob /\ sweep'.jobs[r].status \in {"pending", "complete"}
           /\ RoundKnows'
<1> DEFINE r == Turn
           job == [sweep.jobs[r] EXCEPT !.status = status]
<1>1. r \in sweep.todo
    BY DEF Turn
<1>2. sweep \in SweepRun /\ RoundKnows
    BY DEF IInv, TypeOK
<1>3. /\ r \in Repo
      /\ sweep.jobs[r] \in Job
      /\ sweep.jobs[r].status \in {"pending", "complete"}
    BY <1>1, <1>2 DEF IInv, TypeOK, SweepRun, JobFiles
<1>4. job \in Job /\ job.rev = sweep.jobs[r].rev /\ job # NoJob
    BY <1>3, SweepJobsNamesAssumption DEF Job
<1> HIDE DEF r, job
<1>5. sweep' = [sweep EXCEPT !.jobs = [sweep.jobs EXCEPT ![r] = job],
                             !.dirty = @ \cup dirty, !.todo = @ \ {r}]
    BY <1>2, <1>3 DEF r, job, SweepRun, JobFiles
<1>6. /\ sweep'.jobs = [sweep.jobs EXCEPT ![r] = job]
      /\ sweep'.pc = sweep.pc
      /\ sweep'.fresh = sweep.fresh
      /\ sweep'.merged = sweep.merged
      /\ sweep'.dirty = sweep.dirty \cup dirty
      /\ sweep'.todo = sweep.todo \ {r}
      /\ sweep' \in SweepRun
  <2>1. dirty \subseteq Repo
      BY <1>3 DEF r
  <2>2. [sweep.jobs EXCEPT ![r] = job] \in JobFiles
      BY <1>2, <1>4 DEF SweepRun, JobFiles
  <2> QED
      BY <1>2, <1>5, <2>1, <2>2 DEF SweepRun
<1>7. /\ sweep'.jobs[r] = job
      /\ \A q \in Repo \ {r} : sweep'.jobs[q] = sweep.jobs[q]
    BY <1>2, <1>3, <1>6 DEF SweepRun, JobFiles
<1>8. \A q \in sweep'.todo :
         sweep'.jobs[q] # NoJob /\ sweep'.jobs[q].status \in {"pending", "complete"}
    BY <1>2, <1>6, <1>7 DEF IInv, TypeOK, SweepRun
<1>9. Planned(sweep.jobs)' /\ StillThere(sweep.jobs)'
    BY <1>2, <1>3, <1>4, <1>7, SweepJobsNamesAssumption DEF RoundKnows, Planned, StillThere
<1>10. \A q \in sweep'.dirty : sweep'.jobs[q] # NoJob
    BY <1>2, <1>4, <1>6, <1>7 DEF RoundKnows, SweepRun, r
<1>11. ASSUME NEW q \in sweep'.fresh \ sweep'.merged
       PROVE  Agrees(sweep'.jobs[q], head'[q])
  <2>1. q \in Repo /\ Agrees(sweep.jobs[q], head[q])
      BY <1>2, <1>6 DEF RoundKnows, SweepRun
  <2>2. CASE q = r
    <3>1. head[q].status \notin Final
        BY <1>3, <2>1, <2>2, SweepJobsNamesAssumption DEF Agrees, Final
    <3> QED
        BY <1>3, <1>4, <1>7, <2>1, <2>2, <3>1, SweepJobsNamesAssumption DEF Agrees
  <2>3. CASE q # r
      BY <1>7, <2>1, <2>3
  <2> QED
      BY <2>2, <2>3
<1>12. RoundKnows'
    BY <1>2, <1>6, <1>9, <1>10, <1>11 DEF RoundKnows
<1> QED
    BY <1>6, <1>8, <1>12

\* Reconciling and verifying touch the bucket and the job of one repository.
LEMMA RepositoryKeeps ==
    ASSUME IInv, Examine \/ Verify
    PROVE  IInv' /\ Progress
<1>0. TypeOK /\ sweep # NoSweep /\ sweep.todo # {}
      /\ UNCHANGED <<head, grabs, queued, latest, calm>>
    BY DEF Examine, Verify, At, IInv, outside
<1>1. Turn \in Repo
    BY <1>0 DEF Turn, TypeOK, SweepRun
<1>2. r2' \in [Repo -> Object \cup {NoObject}]
    BY <1>0, <1>1 DEF Examine, Verify, TypeOK
<1>3. \E status \in {"pending", "complete", "verified", "failed"}, dirty \in SUBSET {Turn} :
         sweep' = [sweep EXCEPT !.jobs[Turn].status = status,
                                !.dirty = @ \cup dirty, !.todo = @ \ {Turn}]
  <2>1. CASE Examine
      BY <2>1 DEF Examine, Reconciled
  <2>2. CASE Verify
    <3>1. PICK status \in {"verified", "pending", "failed"} :
             sweep' = [sweep EXCEPT !.jobs[Turn].status = status,
                                    !.dirty = @ \cup {Turn}, !.todo = @ \ {Turn}]
        BY <2>2 DEF Verify
    <3> QED
        BY <3>1
  <2> QED
      BY <2>1, <2>2
<1>4. /\ sweep' \in SweepRun
      /\ \A r \in sweep'.todo :
            sweep'.jobs[r] # NoJob /\ sweep'.jobs[r].status \in {"pending", "complete"}
      /\ RoundKnows'
    BY <1>0, <1>3, RoundChanges
<1>5. TypeOK'
    BY <1>0, <1>2, <1>4 DEF TypeOK
<1>6. RunsPending' /\ Planned(head)' /\ QueuedKnows'
    BY <1>0 DEF RunsPending, QueuedKnows, Planned, StillThere, IInv
<1> QED
    BY <1>0, <1>4, <1>5, <1>6 DEF IInv, Progress

\* A push of the round: what it changes is of the revision it replaces, which
\* has not ended otherwise.
LEMMA RoundPublishes ==
    ASSUME IInv, sweep # NoSweep, sweep.dirty \subseteq sweep.fresh, Publish(Saved),
           grabs' = Overtaken(grabs, sweep.dirty), UNCHANGED latest
    PROVE  /\ head' \in JobFiles
           /\ \A r \in Repo : head'[r] = IF r \in sweep.dirty THEN sweep.jobs[r] ELSE head[r]
           /\ queued' \in Checkout \cup {NoSweep}
           /\ grabs' \in [Repo -> GrabRun \cup {NoRun}]
           /\ Planned(head)' /\ RunsPending' /\ QueuedKnows' /\ Progress
<1>1. TypeOK /\ sweep \in SweepRun /\ RoundKnows
    BY DEF IInv, TypeOK
<1>2. /\ DOMAIN Saved = sweep.dirty
      /\ sweep.dirty \subseteq Repo
      /\ \A r \in sweep.dirty : Saved[r] = sweep.jobs[r] /\ Saved[r] \in Job
    BY <1>1 DEF Saved, RoundKnows, SweepRun, JobFiles
<1>3. DOMAIN Saved \subseteq Repo /\ \A r \in DOMAIN Saved : Saved[r] \in Job
    BY <1>2
<1>4. /\ head' \in JobFiles
      /\ \A r \in Repo : head'[r] = IF r \in sweep.dirty THEN sweep.jobs[r] ELSE head[r]
      /\ queued' \in Checkout \cup {NoSweep}
    BY <1>1, <1>2, <1>3, PublishEffect
<1>5. QueuedKnows'
  <2>1. latest' \in [Repo -> 0 .. MaxRev] /\ \A r \in Repo : latest[r] <= latest'[r]
      BY <1>1, SweepJobsAssumption DEF TypeOK
  <2> QED
      BY <1>3, <2>1, PublishKeepsQueued
<1>6. /\ grabs' \in [Repo -> GrabRun \cup {NoRun}]
      /\ \A r \in Repo : grabs'[r] # NoRun =>
            \/ grabs'[r].state = "overtaken"
            \/ r \notin sweep.dirty /\ grabs'[r] = grabs[r]
    BY <1>1, <1>2, OvertakenEffect
<1>7. RunsPending'
    BY <1>4, <1>6 DEF RunsPending, IInv
<1>8. Planned(head)'
    BY <1>1, <1>4 DEF Planned, RoundKnows, IInv
<1>9. Progress
  <2> SUFFICES ASSUME NEW r \in Repo, head'[r] # head[r], r \notin sweep.merged
               PROVE  Follows(head'[r], head[r])
      BY DEF Progress
  <2>1. r \in sweep.dirty /\ head'[r] = sweep.jobs[r]
      BY <1>4
  <2>2. Agrees(sweep.jobs[r], head[r]) /\ sweep.jobs[r] # NoJob
      BY <1>1, <2>1 DEF RoundKnows
  <2> QED
      BY <2>1, <2>2 DEF Agrees, Final, Follows
<1> QED
    BY <1>4, <1>5, <1>6, <1>7, <1>8, <1>9

\* The push before the dispatches.  What was pushed is now the head's; of the
\* rest the round knows what it knew, but for what the rebase took in.
LEMMA PersistKeeps ==
    ASSUME IInv, Persist
    PROVE  IInv' /\ Progress
<1>0. /\ TypeOK /\ sweep \in SweepRun /\ sweep # NoSweep /\ RoundKnows
      /\ sweep.pc = "examine" /\ sweep.todo = {}
      /\ UNCHANGED <<r2, latest, calm>>
    BY DEF Persist, ToPersist, Examined, At, outside, IInv, TypeOK
<1>1. /\ head' \in JobFiles
      /\ \A r \in Repo : head'[r] = IF r \in sweep.dirty THEN sweep.jobs[r] ELSE head[r]
      /\ queued' \in Checkout \cup {NoSweep}
      /\ grabs' \in [Repo -> GrabRun \cup {NoRun}]
      /\ Planned(head)' /\ RunsPending' /\ QueuedKnows' /\ Progress
    BY <1>0, RoundPublishes DEF Persist
<1>2. /\ sweep' \in SweepRun
      /\ sweep'.jobs = sweep.jobs
      /\ sweep'.pc = "dispatch"
      /\ sweep'.dirty = {}
      /\ sweep'.todo = {}
      /\ sweep'.fresh = Repo
      /\ sweep'.merged = Repo \ sweep.fresh
    BY <1>0 DEF Persist, SweepRun
<1>3. TypeOK'
    BY <1>0, <1>1, <1>2 DEF TypeOK
<1>4. Planned(sweep.jobs)' /\ StillThere(sweep.jobs)'
    BY <1>0, <1>1, <1>2 DEF RoundKnows, Planned, StillThere
<1>5. ASSUME NEW r \in sweep'.fresh \ sweep'.merged
      PROVE  Agrees(sweep'.jobs[r], head'[r])
  <2>1. r \in Repo /\ Agrees(sweep.jobs[r], head[r])
      BY <1>0, <1>2, <1>5 DEF RoundKnows
  <2> QED
      BY <1>1, <1>2, <2>1 DEF Agrees
<1>6. RoundKnows'
    BY <1>2, <1>4, <1>5 DEF RoundKnows
<1> QED
    BY <1>1, <1>3, <1>6 DEF IInv

\* The dispatches start runs for pending jobs only.
LEMMA DispatchKeeps ==
    ASSUME IInv, Dispatch
    PROVE  IInv' /\ Progress
<1>0. /\ TypeOK /\ sweep \in SweepRun /\ sweep # NoSweep /\ RoundKnows
      /\ UNCHANGED <<head, r2, queued, latest, calm>>
    BY DEF Dispatch, Examined, At, outside, IInv, TypeOK
<1>1. PICK sent \in SUBSET Uploads(sweep.jobs) :
          /\ grabs' = [r \in Repo |->
                IF r \in sent /\ grabs[r] = NoRun /\ head[r].status = "pending"
                THEN NewRun(r, sweep.jobs[r].rev) ELSE grabs[r]]
          /\ sweep' = [sweep EXCEPT
                !.pc = "verify",
                !.todo = IF sent = Uploads(sweep.jobs) THEN Checks(sweep.jobs) ELSE {}]
    BY DEF Dispatch
<1>2. ASSUME NEW r \in sent
      PROVE  r \in Repo /\ NewRun(r, sweep.jobs[r].rev) \in GrabRun /\ head[r] # NoJob
  <2>1. r \in Repo /\ sweep.jobs[r] # NoJob
      BY <1>2 DEF Uploads
  <2>2. sweep.jobs[r].rev \in Revisions
      BY <1>0, <2>1 DEF SweepRun, JobFiles, Job
  <2>3. head[r] # NoJob
      BY <1>0, <2>1 DEF RoundKnows, StillThere
  <2> QED
      BY <2>1, <2>2, <2>3 DEF NewRun, GrabRun
<1>3. grabs' \in [Repo -> GrabRun \cup {NoRun}]
    BY <1>0, <1>1, <1>2 DEF TypeOK
<1>4. RunsPending'
    BY <1>0, <1>1, <1>2 DEF RunsPending, IInv
<1>5. /\ Checks(sweep.jobs) \subseteq Repo
      /\ \A r \in Checks(sweep.jobs) :
            sweep.jobs[r] # NoJob /\ sweep.jobs[r].status \in {"pending", "complete"}
    BY DEF Checks
<1>6. /\ sweep' \in SweepRun
      /\ sweep'.pc = "verify"
      /\ sweep'.jobs = sweep.jobs
      /\ sweep'.fresh = sweep.fresh
      /\ sweep'.merged = sweep.merged
      /\ sweep'.dirty = sweep.dirty
      /\ sweep'.todo \subseteq Checks(sweep.jobs)
    BY <1>0, <1>1, <1>5 DEF SweepRun
<1>7. TypeOK'
    BY <1>0, <1>3, <1>5, <1>6 DEF TypeOK
<1>8. Planned(head)' /\ QueuedKnows' /\ RoundKnows'
    BY <1>0, <1>6 DEF Planned, StillThere, QueuedKnows, RoundKnows, IInv
<1> QED
    BY <1>0, <1>4, <1>7, <1>8 DEF IInv, Progress

\* An error leaves out the rest of the round.
LEMMA AbortKeeps ==
    ASSUME IInv, Abort
    PROVE  IInv' /\ Progress
<1>0. /\ TypeOK /\ sweep \in SweepRun /\ RoundKnows /\ sweep # NoSweep
      /\ UNCHANGED <<head, r2, grabs, queued, latest, calm>>
      /\ sweep' = [sweep EXCEPT !.pc = "verify", !.todo = {}]
    BY DEF Abort, outside, IInv, TypeOK
<1>1. /\ sweep' \in SweepRun
      /\ sweep'.pc = "verify"
      /\ sweep'.jobs = sweep.jobs
      /\ sweep'.fresh = sweep.fresh
      /\ sweep'.merged = sweep.merged
      /\ sweep'.dirty = sweep.dirty
      /\ sweep'.todo = {}
    BY <1>0 DEF SweepRun
<1>2. TypeOK'
    BY <1>0, <1>1 DEF TypeOK
<1>3. RunsPending' /\ Planned(head)' /\ QueuedKnows' /\ RoundKnows'
    BY <1>0, <1>1 DEF RunsPending, Planned, StillThere, QueuedKnows, RoundKnows, IInv
<1> QED
    BY <1>0, <1>2, <1>3 DEF IInv, Progress

\* The final commit ends the round.
LEMMA CommitKeeps ==
    ASSUME IInv, Commit
    PROVE  IInv' /\ Progress
<1>0. TypeOK /\ sweep # NoSweep /\ sweep' = NoSweep /\ UNCHANGED <<r2, latest, calm>>
    BY DEF Commit, At, outside, IInv
<1>1. CASE sweep.dirty \subseteq sweep.fresh
  <2>1. /\ head' \in JobFiles
        /\ queued' \in Checkout \cup {NoSweep}
        /\ grabs' \in [Repo -> GrabRun \cup {NoRun}]
        /\ Planned(head)' /\ RunsPending' /\ QueuedKnows' /\ Progress
      BY <1>0, <1>1, RoundPublishes DEF Commit
  <2> QED
      BY <1>0, <2>1 DEF TypeOK, RoundKnows, IInv
<1>2. CASE ~(sweep.dirty \subseteq sweep.fresh)
  <2>1. UNCHANGED <<head, queued, grabs>>
      BY <1>2 DEF Commit
  <2> QED
      BY <1>0, <2>1 DEF TypeOK, RunsPending, Planned, StillThere, QueuedKnows, RoundKnows,
         IInv, Progress
<1> QED
    BY <1>1, <1>2

\* A round that ends without a push, and the end of the faults.
LEMMA EndKeeps ==
    ASSUME IInv, PersistConflicts \/ SweepDies \/ CalmDown
    PROVE  IInv' /\ Progress
<1>1. /\ UNCHANGED <<head, r2, grabs, queued, latest>>
      /\ sweep' \in {NoSweep, sweep}
      /\ calm' \in BOOLEAN
    BY DEF PersistConflicts, SweepDies, CalmDown, outside, IInv, TypeOK
<1> QED
    BY <1>1 DEF TypeOK, RunsPending, Planned, StillThere, QueuedKnows, RoundKnows, IInv,
       Progress

-----------------------------------------------------------------------------
(* The theorems                                                            *)

\* Every step keeps the invariant and undoes no progress.
LEMMA NextKeeps ==
    ASSUME IInv, [Next]_vars
    PROVE  IInv' /\ Progress
<1>1. ASSUME NEW r \in Repo, WatchPlans(r) \/ Transfer(r) \/ Collect(r) \/ RunLost(r)
      PROVE  IInv' /\ Progress
    BY <1>1, WatchPlansKeeps, CollectKeeps, RunKeeps
<1>2. CASE TriggerSweep \/ BeginSweep \/ SweepStep
    BY <1>2, TriggerKeeps, BeginKeeps, RepositoryKeeps, PersistKeeps, DispatchKeeps,
       CommitKeeps, EndKeeps DEF SweepStep
<1>3. CASE Abort \/ SweepDies \/ CalmDown
    BY <1>3, AbortKeeps, EndKeeps
<1>4. CASE UNCHANGED vars
    BY <1>4 DEF vars, outside, TypeOK, RunsPending, Planned, StillThere, QueuedKnows,
       RoundKnows, IInv, Progress
<1> QED
    BY <1>1, <1>2, <1>3, <1>4 DEF Next

\* The inductive invariant: a checkout agrees with the head on the job files
\* that are fresh, and what is published or held was planned (the compare by
\* commit and rebase that protects the writers of state/jobs).
THEOREM RoundInvariance == Spec => []IInv
<1>1. Init => IInv
    BY InitEstablishes
<1>2. IInv /\ [Next]_vars => IInv'
    BY NextKeeps
<1> QED
    BY <1>1, <1>2, PTL DEF Spec

\* sweep_jobs never works on a finished job, and the branch, the checkouts and
\* the round keep their shape, for any repositories and revisions.
THEOREM RoundTypeCorrect == Spec => []TypeOK
<1>1. IInv => TypeOK
    BY DEF IInv
<1> QED
    BY <1>1, RoundInvariance, PTL

\* No push of a round takes a job file back to an older revision or out of a
\* terminal state, but for the job files its own rebase took in.
THEOREM RoundsKeepProgress == Spec => RoundsOnlyProgress
<1>1. IInv /\ [Next]_vars =>
         [\A r \in Repo :
             head'[r] # head[r] /\ ~(sweep # NoSweep /\ r \in sweep.merged) =>
                Follows(head'[r], head[r])]_vars
    BY NextKeeps DEF Progress
<1> QED
    BY <1>1, RoundInvariance, PTL DEF Spec, RoundsOnlyProgress
=============================================================================

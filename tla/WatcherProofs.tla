---------------------------- MODULE WatcherProofs ----------------------------
(***************************************************************************)
(* The polls for any repositories and any number of revisions.             *)
(*                                                                         *)
(* A checkout knows its repositories' seen revisions as long as their job  *)
(* files are still the head's; a poll therefore plans only revisions that  *)
(* are newer than the published ones, or its push conflicts.               *)
(***************************************************************************)
EXTENDS Watcher, TLAPS

\* What a sweep may still save over a plan is older than what is seen.
LateIsOld == \A r \in Repo : late[r] # 0 => jobs[r] # NoJob /\ late[r] < seen[r]

\* What is seen was listed once.
SeenWasListed == \A r \in Repo : seen[r] <= hub[r]

\* The waiting poll's checkout, as far as its job files are the head's.
QueuedKnows ==
    queued # NoPoll =>
       \A r \in Repo : /\ queued.seen[r] <= hub[r]
                       /\ r \in queued.fresh => queued.seen[r] = seen[r]

\* The same of the running poll, and what it has prepared is news to it.
PollKnows ==
    poll # NoPoll /\ poll.pc = "examine" =>
       \A r \in Repo : /\ poll.seen[r] <= hub[r]
                       /\ r \in poll.fresh => poll.seen[r] = seen[r]

PreparedIsNews ==
    poll # NoPoll /\ poll.pc = "examine" =>
       \A r \in Prepared : /\ poll.seen[r] < poll.prepared[r].rev
                           /\ poll.prepared[r].rev <= hub[r]

IInv ==
    /\ TypeOK
    /\ SeenIsPlanned
    /\ LateIsOld
    /\ SeenWasListed
    /\ QueuedKnows
    /\ PollKnows
    /\ PreparedIsNews
    /\ DispatchFollowsPush

-----------------------------------------------------------------------------

\* Nothing is planned and nothing runs.
LEMMA InitEstablishes == Init => IInv
<1> SUFFICES ASSUME Init PROVE IInv
    OBVIOUS
<1> USE WatcherAssumption DEF Init
<1>1. 1 \in Revisions
    BY DEF Revisions
<1>2. TypeOK
    BY <1>1 DEF TypeOK, SeenMap
<1> QED
    BY <1>2 DEF IInv, SeenIsPlanned, LateIsOld, SeenWasListed, QueuedKnows, PollKnows,
       PreparedIsNews, DispatchFollowsPush

\* Hugging Face and the watchlist: the listed revision only grows.
LEMMA OutsideKeeps ==
    ASSUME IInv, NEW r \in Repo,
           HubPublishes(r) \/ VerdictChanges(r)
    PROVE  IInv'
<1> USE DEF IInv
<1>1. UNCHANGED <<branch, queued, poll>>
    BY DEF HubPublishes, VerdictChanges
<1>2. /\ hub' \in [Repo -> Revisions]
      /\ \A q \in Repo : hub[q] <= hub'[q]
  <2>1. CASE HubPublishes(r)
      BY <2>1, WatcherAssumption DEF HubPublishes, TypeOK, Revisions
  <2>2. CASE hub' = hub
      BY <2>2, WatcherAssumption DEF TypeOK, Revisions
  <2> QED
      BY <2>1, <2>2 DEF VerdictChanges
<1>3. verdict' \in [Repo -> Verdict] /\ calm' \in BOOLEAN
    BY DEF HubPublishes, VerdictChanges, TypeOK
<1>4. TypeOK'
    BY <1>1, <1>2, <1>3 DEF TypeOK, branch, sweeps
<1>5. SeenIsPlanned' /\ LateIsOld' /\ DispatchFollowsPush'
    BY <1>1 DEF SeenIsPlanned, LateIsOld, DispatchFollowsPush, branch, sweeps
<1>6. \A n \in {0} \cup Revisions, q \in Repo : n <= hub[q] => n <= hub'[q]
    BY <1>2, WatcherAssumption DEF TypeOK, Revisions
<1>7. SeenWasListed'
    BY <1>1, <1>6 DEF SeenWasListed, TypeOK, SeenMap, branch, sweeps
<1>8. QueuedKnows'
    BY <1>1, <1>6 DEF QueuedKnows, TypeOK, Checkout, SeenMap, branch, sweeps
<1>9. PollKnows'
    BY <1>1, <1>6 DEF PollKnows, TypeOK, PollRun, SeenMap, branch, sweeps
<1>10. PreparedIsNews'
    BY <1>1, <1>6 DEF PreparedIsNews, Prepared, TypeOK, PollRun, JobSummary, branch, sweeps
<1> QED
    BY <1>4, <1>5, <1>7, <1>8, <1>9, <1>10

\* Progress changes a job's status, not its revision.
LEMMA WriterKeeps ==
    ASSUME IInv, NEW r \in Repo, WriterPublishes(r)
    PROVE  IInv'
<1> USE DEF IInv
<1>1. UNCHANGED <<outside, seen, sweeps, poll>> /\ poll = NoPoll /\ jobs[r] # NoJob
    BY DEF WriterPublishes
<1>2. PICK s \in {"working", "settled"} : jobs' = [jobs EXCEPT ![r].status = s]
    BY DEF WriterPublishes
<1>3. /\ jobs[r] \in JobSummary
      /\ jobs'[r] \in JobSummary
      /\ jobs'[r].rev = jobs[r].rev
      /\ \A q \in Repo \ {r} : jobs'[q] = jobs[q]
      /\ jobs' \in [Repo -> JobSummary \cup {NoJob}]
    BY <1>1, <1>2 DEF TypeOK, JobSummary
<1>4. /\ queued' \in Checkout \cup {NoPoll}
      /\ queued' # NoPoll =>
            /\ queued # NoPoll
            /\ queued'.seen = queued.seen
            /\ queued'.fresh \subseteq queued.fresh
  <2>1. CASE queued = NoPoll
      BY <2>1 DEF WriterPublishes
  <2>2. CASE queued # NoPoll
    <3>1. queued \in Checkout /\ queued' = [queued EXCEPT !.fresh = @ \ {r}]
        BY <2>2 DEF WriterPublishes, TypeOK
    <3> QED
        BY <2>2, <3>1 DEF Checkout
  <2> QED
      BY <2>1, <2>2
<1>5. TypeOK'
    BY <1>1, <1>3, <1>4 DEF TypeOK, outside, sweeps
<1>6. SeenIsPlanned' /\ LateIsOld'
    BY <1>1, <1>3, WatcherNamesAssumption DEF SeenIsPlanned, LateIsOld, sweeps
<1>7. QueuedKnows'
    BY <1>1, <1>4 DEF QueuedKnows, outside
<1>8. SeenWasListed'
    BY <1>1 DEF SeenWasListed, outside
<1>9. PollKnows' /\ PreparedIsNews' /\ DispatchFollowsPush'
    BY <1>1 DEF PollKnows, PreparedIsNews, DispatchFollowsPush
<1> QED
    BY <1>5, <1>6, <1>7, <1>8, <1>9

\* A job taken back is older than what is seen, which no checkout's notion of
\* seen.json depends on.
LEMMA TakesBackKeeps ==
    ASSUME IInv, NEW r \in Repo, SweepTakesBack(r)
    PROVE  IInv'
<1> USE DEF IInv
<1>1. /\ UNCHANGED <<outside, seen, poll>>
      /\ poll = NoPoll
      /\ late[r] # 0
      /\ late' = [late EXCEPT ![r] = 0]
      /\ takenBack' = takenBack \cup {r}
    BY DEF SweepTakesBack
<1>2. PICK s \in {"working", "settled"} :
         jobs' = [jobs EXCEPT ![r] = [rev |-> late[r], status |-> s]]
    BY DEF SweepTakesBack
<1>3. late[r] \in Revisions /\ late[r] < seen[r]
    BY <1>1 DEF TypeOK, SeenMap, LateIsOld
<1>4. /\ [rev |-> late[r], status |-> s] \in JobSummary
      /\ jobs'[r] = [rev |-> late[r], status |-> s]
      /\ \A q \in Repo \ {r} : jobs'[q] = jobs[q]
      /\ jobs' \in [Repo -> JobSummary \cup {NoJob}]
    BY <1>2, <1>3 DEF TypeOK, JobSummary
<1>5. /\ late' \in SeenMap
      /\ late'[r] = 0
      /\ \A q \in Repo \ {r} : late'[q] = late[q]
    BY <1>1 DEF TypeOK, SeenMap
<1>6. /\ queued' \in Checkout \cup {NoPoll}
      /\ queued' # NoPoll =>
            /\ queued # NoPoll
            /\ queued'.seen = queued.seen
            /\ queued'.fresh \subseteq queued.fresh
  <2>1. CASE queued = NoPoll
      BY <2>1 DEF SweepTakesBack
  <2>2. CASE queued # NoPoll
    <3>1. queued \in Checkout /\ queued' = [queued EXCEPT !.fresh = @ \ {r}]
        BY <2>2 DEF SweepTakesBack, TypeOK
    <3> QED
        BY <2>2, <3>1 DEF Checkout
  <2> QED
      BY <2>1, <2>2
<1>7. TypeOK'
    BY <1>1, <1>4, <1>5, <1>6 DEF TypeOK, outside
<1>8. SeenIsPlanned'
    BY <1>1, <1>3, <1>4, WatcherNamesAssumption DEF SeenIsPlanned
<1>9. LateIsOld'
    BY <1>1, <1>4, <1>5 DEF LateIsOld
<1>10. QueuedKnows' /\ SeenWasListed'
    BY <1>1, <1>6 DEF QueuedKnows, SeenWasListed, outside
<1>11. PollKnows' /\ PreparedIsNews' /\ DispatchFollowsPush'
    BY <1>1 DEF PollKnows, PreparedIsNews, DispatchFollowsPush
<1> QED
    BY <1>7, <1>8, <1>9, <1>10, <1>11

\* A trigger takes the head; a poll starts with the checkout that waited.
LEMMA TriggerKeeps ==
    ASSUME IInv, TriggerPoll
    PROVE  IInv'
<1> USE DEF IInv
<1>1. UNCHANGED <<outside, branch, poll>> /\ queued' = [seen |-> seen, fresh |-> Repo]
    BY DEF TriggerPoll
<1>2. TypeOK'
    BY <1>1 DEF TypeOK, Checkout, outside, branch, sweeps
<1>3. QueuedKnows'
    BY <1>1 DEF QueuedKnows, SeenWasListed, outside, branch, sweeps
<1> QED
    BY <1>1, <1>2, <1>3 DEF SeenIsPlanned, LateIsOld, SeenWasListed, PollKnows, PreparedIsNews,
       DispatchFollowsPush, Prepared, outside, branch, sweeps

LEMMA BeginKeeps ==
    ASSUME IInv, BeginPoll
    PROVE  IInv'
<1> USE DEF IInv
<1>1. /\ UNCHANGED <<outside, seen, jobs, takenBack>>
      /\ late' = [r \in Repo |-> 0]
      /\ queued' = NoPoll
      /\ queued # NoPoll
      /\ poll' = [pc |-> "examine", seen |-> queued.seen, fresh |-> queued.fresh,
                  todo |-> Repo, prepared |-> [r \in Repo |-> NoJob]]
    BY DEF BeginPoll
<1>2. queued.seen \in SeenMap /\ queued.fresh \subseteq Repo
    BY <1>1 DEF TypeOK, Checkout
<1>3. TypeOK'
    BY <1>1, <1>2 DEF TypeOK, PollRun, SeenMap, outside
<1>4. PollKnows'
    BY <1>1 DEF PollKnows, QueuedKnows, outside
<1>5. PreparedIsNews' /\ DispatchFollowsPush' /\ QueuedKnows'
    BY <1>1 DEF PreparedIsNews, Prepared, DispatchFollowsPush, QueuedKnows
<1>6. LateIsOld'
    BY <1>1 DEF LateIsOld
<1> QED
    BY <1>1, <1>3, <1>4, <1>5, <1>6 DEF SeenIsPlanned, SeenWasListed, outside

\* Examining a repository: what is prepared is the listed revision, which the
\* checkout has not seen.
LEMMA SkipKeeps ==
    ASSUME IInv, NEW r \in Repo, Skip(r)
    PROVE  IInv'
<1> USE DEF IInv
<1>1. UNCHANGED <<outside, branch, queued>> /\ poll # NoPoll /\ poll.pc = "examine"
    BY DEF Skip, Examining
<1>2. poll \in PollRun /\ poll' = [poll EXCEPT !.todo = @ \ {r}]
    BY <1>1 DEF TypeOK, Skip
<1>3. /\ poll' \in PollRun
      /\ poll'.pc = poll.pc /\ poll'.seen = poll.seen /\ poll'.fresh = poll.fresh
      /\ poll'.prepared = poll.prepared
    BY <1>2 DEF PollRun
<1>4. TypeOK'
    BY <1>1, <1>3 DEF TypeOK, outside, branch, sweeps
<1>5. PollKnows' /\ PreparedIsNews' /\ DispatchFollowsPush'
    BY <1>1, <1>3 DEF PollKnows, PreparedIsNews, Prepared, DispatchFollowsPush,
       outside, branch, sweeps
<1> QED
    BY <1>1, <1>4, <1>5 DEF SeenIsPlanned, LateIsOld, SeenWasListed, QueuedKnows, outside, branch, sweeps

LEMMA PrepareKeeps ==
    ASSUME IInv, NEW r \in Repo, Prepare(r)
    PROVE  IInv'
<1> USE DEF IInv
<1>1. /\ UNCHANGED <<outside, branch, queued>>
      /\ poll # NoPoll
      /\ poll.pc = "examine"
      /\ poll.seen[r] # hub[r]
    BY DEF Prepare, Examining, Unseen
<1> DEFINE plan == [rev    |-> hub[r],
                    status |-> IF verdict[r] = "blocked" THEN "blocked" ELSE "planned"]
<1>2. plan \in JobSummary /\ plan.rev = hub[r]
    BY DEF JobSummary, TypeOK
<1>3. poll \in PollRun /\ poll' = [poll EXCEPT !.todo = @ \ {r}, !.prepared[r] = plan]
    BY <1>1 DEF TypeOK, Prepare
<1> HIDE DEF plan
<1>4. /\ poll' \in PollRun
      /\ poll'.pc = poll.pc /\ poll'.seen = poll.seen /\ poll'.fresh = poll.fresh
      /\ poll'.prepared = [poll.prepared EXCEPT ![r] = plan]
    BY <1>2, <1>3 DEF PollRun
<1>5. TypeOK'
    BY <1>1, <1>4 DEF TypeOK, outside, branch, sweeps
<1>6. PollKnows' /\ DispatchFollowsPush'
    BY <1>1, <1>4 DEF PollKnows, DispatchFollowsPush, outside, branch, sweeps
<1>7. PreparedIsNews'
  <2> SUFFICES ASSUME NEW q \in Repo, poll'.prepared[q] # NoJob
               PROVE  /\ poll'.seen[q] < poll'.prepared[q].rev
                      /\ poll'.prepared[q].rev <= hub'[q]
      BY DEF PreparedIsNews, Prepared
  <2>1. CASE q = r
    <3>1. poll'.prepared[q] = plan
        BY <1>3, <1>4, <2>1 DEF PollRun
    <3>2. poll.seen[r] <= hub[r] /\ poll.seen[r] \in Nat /\ hub[r] \in Nat
        BY <1>1, <1>3, WatcherAssumption
           DEF PollKnows, PollRun, SeenMap, TypeOK, Revisions
    <3> QED
        BY <1>1, <1>2, <1>4, <2>1, <3>1, <3>2 DEF outside
  <2>2. CASE q # r
    <3>1. poll'.prepared[q] = poll.prepared[q]
        BY <1>3, <1>4, <2>2 DEF PollRun
    <3> QED
        BY <1>1, <1>4, <3>1 DEF PreparedIsNews, Prepared, outside
  <2> QED
      BY <2>1, <2>2
<1> QED
    BY <1>1, <1>5, <1>6, <1>7 DEF SeenIsPlanned, LateIsOld, SeenWasListed, QueuedKnows, outside, branch, sweeps

\* A poll that ends, for whatever reason, leaves the branch alone; so does a
\* waiting poll whose place is taken.
LEMMA EndKeeps ==
    ASSUME IInv,
           UNCHANGED <<outside, branch>>,
           \/ poll' = NoPoll /\ queued' = queued
           \/ poll' = poll /\ queued' = NoPoll
    PROVE  IInv'
<1> USE DEF IInv
<1>1. TypeOK'
    BY DEF TypeOK, outside, branch, sweeps
<1> QED
    BY <1>1 DEF SeenIsPlanned, LateIsOld, SeenWasListed, QueuedKnows, PollKnows, PreparedIsNews,
       Prepared, DispatchFollowsPush, outside, branch, sweeps

LEMMA DispatchKeeps ==
    ASSUME IInv, NEW r \in Repo, Dispatch(r)
    PROVE  IInv'
<1> USE DEF IInv
<1>1. /\ UNCHANGED <<outside, branch, queued>>
      /\ poll # NoPoll
      /\ poll.pc = "dispatch"
      /\ poll' = [poll EXCEPT !.todo = @ \ {r}]
    BY DEF Dispatch
<1>2. poll \in PollRun
    BY <1>1 DEF TypeOK
<1>3. /\ poll' \in PollRun
      /\ poll'.pc = "dispatch"
      /\ poll'.todo \subseteq poll.todo
      /\ poll'.prepared = poll.prepared
    BY <1>1, <1>2 DEF PollRun
<1>4. TypeOK'
    BY <1>1, <1>3 DEF TypeOK, outside, branch, sweeps
<1>5. PollKnows' /\ PreparedIsNews' /\ DispatchFollowsPush'
    BY <1>1, <1>3 DEF PollKnows, PreparedIsNews, DispatchFollowsPush, outside, branch, sweeps
<1> QED
    BY <1>1, <1>4, <1>5 DEF SeenIsPlanned, LateIsOld, SeenWasListed, QueuedKnows, outside, branch, sweeps

\* What a push may do: only newer revisions replace what is published.
LEMMA PushAdvances ==
    ASSUME IInv, Push
    PROVE  /\ \A r \in Prepared : /\ poll.prepared[r] \in JobSummary
                                  /\ poll.prepared[r].rev \in Revisions
                                  /\ seen[r] < poll.prepared[r].rev
                                  /\ poll.prepared[r].rev <= hub[r]
           /\ Prepared \subseteq Repo
<1> USE DEF IInv
<1>1. poll # NoPoll /\ poll.pc = "examine" /\ Prepared \subseteq poll.fresh
    BY DEF Push, Examined
<1>2. poll \in PollRun
    BY <1>1 DEF TypeOK
<1>3. \A r \in Prepared : poll.prepared[r] \in JobSummary
    BY <1>2 DEF PollRun, Prepared
<1>4. \A r \in Prepared : poll.seen[r] = seen[r]
    BY <1>1 DEF PollKnows, Prepared
<1> QED
    BY <1>1, <1>3, <1>4 DEF PreparedIsNews, Prepared, JobSummary

LEMMA PushKeeps ==
    ASSUME IInv, Push
    PROVE  IInv'
<1> USE DEF IInv
<1>1. /\ UNCHANGED outside
      /\ poll # NoPoll
      /\ PublishPlans
    BY DEF Push, Examined
<1>2. poll \in PollRun
    BY <1>1 DEF TypeOK
<1>3. /\ Prepared \subseteq Repo
      /\ \A r \in Prepared : /\ poll.prepared[r] \in JobSummary
                            /\ poll.prepared[r].rev \in Revisions
                            /\ poll.prepared[r].rev <= hub[r]
    BY PushAdvances
<1>4. /\ seen' \in SeenMap
      /\ \A r \in Prepared : seen'[r] = poll.prepared[r].rev
      /\ \A r \in Repo \ Prepared : seen'[r] = seen[r]
    BY <1>1, <1>3 DEF PublishPlans, SeenAfter, SeenMap, TypeOK
<1>5. /\ jobs' \in [Repo -> JobSummary \cup {NoJob}]
      /\ \A r \in Prepared : jobs'[r] = poll.prepared[r]
      /\ \A r \in Repo \ Prepared : jobs'[r] = jobs[r]
    BY <1>1, <1>3 DEF PublishPlans, TypeOK
<1>6. /\ poll' \in PollRun
      /\ poll'.pc = "dispatch"
      /\ poll'.todo = Dispatchable
      /\ poll'.prepared = poll.prepared
    BY <1>1, <1>2, <1>3 DEF PublishPlans, PollRun, Dispatchable
<1>7. /\ queued' \in Checkout \cup {NoPoll}
      /\ queued' # NoPoll =>
            /\ queued # NoPoll
            /\ queued'.seen = queued.seen
            /\ queued'.fresh = queued.fresh \ Prepared
  <2>1. CASE queued = NoPoll
      BY <1>1, <2>1 DEF PublishPlans
  <2>2. CASE queued # NoPoll
    <3>1. queued \in Checkout /\ queued' = [queued EXCEPT !.fresh = @ \ Prepared]
        BY <1>1, <2>2 DEF PublishPlans, TypeOK
    <3> QED
        BY <2>2, <3>1 DEF Checkout
  <2> QED
      BY <2>1, <2>2
<1>8. PICK held \in SUBSET Overtakable :
          late' = [r \in Repo |-> IF r \in held THEN jobs[r].rev ELSE 0]
    BY <1>1 DEF PublishPlans
<1>9. \A r \in held : /\ r \in Prepared
                       /\ jobs[r] \in JobSummary
                       /\ jobs[r] # NoJob
                       /\ jobs[r].rev \in Revisions
                       /\ jobs[r].rev <= seen[r]
  <2> TAKE r \in held
  <2>1. r \in Prepared /\ jobs[r] # NoJob /\ jobs[r] \in JobSummary
      BY <1>3, <1>8 DEF Overtakable, TypeOK
  <2>2. jobs[r].rev \in Revisions
      BY <2>1 DEF JobSummary
  <2> QED
      BY <1>3, <2>1, <2>2, WatcherAssumption DEF SeenIsPlanned, Revisions, TypeOK, SeenMap
<1>10. late' \in SeenMap
    BY <1>8, <1>9 DEF SeenMap
<1>11. takenBack' = takenBack \ Prepared
    BY <1>1 DEF PublishPlans
<1>12. TypeOK'
    BY <1>1, <1>4, <1>5, <1>6, <1>7, <1>10, <1>11 DEF TypeOK, outside
<1>13. SeenIsPlanned'
    BY <1>3, <1>4, <1>5, <1>11, WatcherNamesAssumption DEF SeenIsPlanned
<1>14. LateIsOld'
  <2> SUFFICES ASSUME NEW r \in Repo, late'[r] # 0
               PROVE  jobs'[r] # NoJob /\ late'[r] < seen'[r]
      BY DEF LateIsOld
  <2>1. r \in held /\ late'[r] = jobs[r].rev
      BY <1>8
  <2>2. seen[r] < poll.prepared[r].rev
      BY <1>9, <2>1, PushAdvances
  <2> QED
      BY <1>3, <1>4, <1>5, <1>9, <2>1, <2>2, WatcherAssumption, WatcherNamesAssumption
         DEF Revisions, TypeOK, SeenMap
<1>15. SeenWasListed'
    BY <1>1, <1>3, <1>4 DEF SeenWasListed, outside
<1>16. QueuedKnows'
    BY <1>1, <1>4, <1>7 DEF QueuedKnows, outside
<1>17. PollKnows' /\ PreparedIsNews'
    BY <1>6 DEF PollKnows, PreparedIsNews
<1>18. DispatchFollowsPush'
    BY <1>5, <1>6 DEF DispatchFollowsPush, Dispatchable
<1> QED
    BY <1>12, <1>13, <1>15, <1>16, <1>17, <1>18, <1>14

-----------------------------------------------------------------------------

\* The inductive invariant of the polls.
THEOREM PollInvariance == Spec => []IInv
<1>1. IInv /\ [Next]_vars => IInv'
  <2> SUFFICES ASSUME IInv, [Next]_vars PROVE IInv'
      OBVIOUS
  <2>1. CASE \E r \in Repo : HubPublishes(r) \/ VerdictChanges(r)
      BY <2>1, OutsideKeeps
  <2>2. CASE CalmDown
    <3>1. UNCHANGED <<hub, verdict, branch, queued, poll>> /\ calm' \in BOOLEAN
        BY <2>2 DEF CalmDown
    <3> QED
        BY <3>1 DEF IInv, TypeOK, SeenIsPlanned, LateIsOld, SeenWasListed, QueuedKnows, PollKnows,
           PreparedIsNews, Prepared, DispatchFollowsPush, branch, sweeps
  <2>3. CASE \E r \in Repo : WriterPublishes(r) \/ SweepTakesBack(r)
      BY <2>3, WriterKeeps, TakesBackKeeps
  <2>4. CASE TriggerPoll \/ BeginPoll
      BY <2>4, TriggerKeeps, BeginKeeps
  <2>5. CASE \E r \in Repo : Skip(r) \/ Prepare(r) \/ Dispatch(r)
      BY <2>5, SkipKeeps, PrepareKeeps, DispatchKeeps
  <2>6. CASE (\E r \in Repo : PrepareRaises(r)) \/ PushConflicts \/ NothingNew
             \/ EndPoll \/ PollFails \/ PollCancelled
      BY <2>6, EndKeeps
         DEF PrepareRaises, PushConflicts, NothingNew, EndPoll, PollFails, PollCancelled
  <2>7. CASE Push
      BY <2>7, PushKeeps
  <2>8. CASE UNCHANGED vars
      BY <2>8 DEF vars, outside, branch, sweeps, IInv, TypeOK, SeenIsPlanned, LateIsOld,
         SeenWasListed,
         QueuedKnows, PollKnows, PreparedIsNews, Prepared, DispatchFollowsPush
  <2> QED
      BY <2>1, <2>2, <2>3, <2>4, <2>5, <2>6, <2>7, <2>8 DEF Next, PollStep
<1> QED
    BY <1>1, InitEstablishes, PTL DEF Spec

\* Type correctness of the polls.
THEOREM PollTypeCorrect == Spec => []TypeOK
<1>1. IInv => TypeOK
    BY DEF IInv
<1> QED
    BY <1>1, PollInvariance, PTL

\* A revision is seen exactly when the job file is planned for it, whatever
\* polls fail or conflict, unless a sweep has put an older job back.
THEOREM SeenStaysPlanned == Spec => []SeenIsPlanned
<1>1. IInv => SeenIsPlanned
    BY DEF IInv
<1> QED
    BY <1>1, PollInvariance, PTL

\* Only what the head of the branch plans is dispatched.
THEOREM DispatchAfterPush == Spec => []DispatchFollowsPush
<1>1. IInv => DispatchFollowsPush
    BY DEF IInv
<1> QED
    BY <1>1, PollInvariance, PTL

\* No poll replaces a published plan by one that is not newer: only the push of
\* a running poll changes a job file while it runs.
THEOREM ProgressKept == Spec => ProgressSurvivesPolls
<1> DEFINE Kept(r) ==
       /\ poll # NoPoll
       /\ jobs[r] # NoJob
       /\ jobs'[r] # jobs[r]
       => jobs'[r].rev > jobs[r].rev
<1>1. IInv /\ [Next]_vars => [\A r \in Repo : Kept(r)]_vars
  <2> SUFFICES ASSUME IInv, Next, NEW r \in Repo,
                      poll # NoPoll, jobs[r] # NoJob, jobs'[r] # jobs[r]
               PROVE  jobs'[r].rev > jobs[r].rev
      OBVIOUS
  <2>1. CASE Push
    <3>1. r \in Prepared /\ jobs'[r] = poll.prepared[r]
        BY <2>1 DEF Push, PublishPlans
    <3>2. seen[r] < jobs'[r].rev /\ jobs'[r].rev \in Revisions
        BY <2>1, <3>1, PushAdvances
    <3>3. jobs[r].rev \in Revisions
        BY DEF IInv, TypeOK, JobSummary
    <3>4. jobs[r].rev <= seen[r]
        BY <3>3, WatcherAssumption DEF IInv, SeenIsPlanned, TypeOK, SeenMap, Revisions
    <3> QED
        BY <3>2, <3>3, <3>4, WatcherAssumption DEF Revisions, IInv, TypeOK, SeenMap
  <2>2. CASE jobs' = jobs
      BY <2>2
  <2> QED
      BY <2>1, <2>2
         DEF Next, PollStep, HubPublishes, VerdictChanges, WriterPublishes, SweepTakesBack,
             TriggerPoll, BeginPoll, Skip, Prepare, PrepareRaises, PushConflicts, NothingNew,
             Dispatch, EndPoll, PollFails, PollCancelled, CalmDown, branch
<1> QED
    BY <1>1, PollInvariance, PTL DEF Spec, ProgressSurvivesPolls
=============================================================================

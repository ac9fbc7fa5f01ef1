---------------------------- MODULE LocalArchive ----------------------------
(***************************************************************************)
(* The operator's side of one repository: pull.sh copies the R2 prefix to  *)
(* a drive, verify_local.sh compares the drive with the job file of the    *)
(* operator's clone, reclaim.sh deletes from R2 what the drive holds.  A   *)
(* slow pull, a reclaim --verified-only and the workflows run at once;     *)
(* nothing locks the drive, the clone or the prefix.                       *)
(*                                                                         *)
(* Of the workflows there is what the scripts can see: a new revision is   *)
(* planned, its objects come and go, files are confirmed one by one, and   *)
(* the job becomes verified or fails.  A transfer that outlives the        *)
(* read-back of its file is left to Archive.                               *)
(***************************************************************************)
EXTENDS Objects, FiniteSets

CONSTANTS NoScan,  \* no script is hashing the drive
          NoPlan   \* no reclaim.sh is deleting

VARIABLES
    head,       \* published: revision, status, files read back so far
    latest,     \* the latest revision the watcher published a plan of
    r2,         \* the objects below the safe_name prefix
    clone,      \* the job file in the operator's clone
    current,    \* no other job file was published since the clone's
    drive,      \* the files below $ARCHIVE/safe_name
    scan,       \* the running verify_local.sh, or reclaim.sh as it verifies
    bad,        \* the files named by the last failed verify_local.sh
    plan,       \* what the running reclaim.sh still has to delete, or NoPlan
    overtaken,  \* history: the confirmed objects of head's revision that
                \* a reclaim with the manifest of another revision deleted
    regressed   \* history: head is the job of an older revision, which
                \* verify_local.sh saved over the job of a newer one

workflowVars == <<head, latest, r2>>
cloneVars == <<clone, current>>
driveVars == <<drive, bad>>
historyVars == <<overtaken, regressed>>
vars == <<workflowVars, cloneVars, driveVars, scan, plan, historyVars>>

Verified == {"verified", "pulled"}

PublishedJob == [rev: 0 .. MaxRev, status: {"none", "planned", "failed"} \cup Verified,
                 confirmed: SUBSET Path]

ClonedJob == [rev: 0 .. MaxRev, status: {"none", "planned", "failed"} \cup Verified]

Scan == [tool: {"verify_local", "reclaim"}, rev: Revisions, status: Verified,
         todo: SUBSET Path, passed: SUBSET Path]

Reclaim == [rev: Revisions, files: (SUBSET Path) \ {{}}]

Nothing == [p \in Path |-> NoObject]

Init ==
    /\ head = [rev |-> 0, status |-> "none", confirmed |-> {}]
    /\ latest = 0
    /\ r2 = Nothing
    /\ clone = [rev |-> 0, status |-> "none"]
    /\ current = TRUE
    /\ drive = Nothing
    /\ bad = {}
    /\ scan = NoScan
    /\ plan = NoPlan
    /\ overtaken = {}
    /\ regressed = FALSE

-----------------------------------------------------------------------------
(* The workflows, as the scripts see them                                  *)

\* A workflow publishes the job file: the clone is behind.
Publish(job) ==
    /\ head' = job
    /\ current' = FALSE
    /\ UNCHANGED <<r2, clone, driveVars, scan, plan>>

\* The watcher publishes the plan of the next revision; the size gate may
\* fail it at once.  The objects of the previous revision stay.
PlanRevision ==
    /\ latest < MaxRev
    /\ latest' = latest + 1
    /\ \E status \in {"planned", "failed"} :
          Publish([rev |-> latest + 1, status |-> status, confirmed |-> {}])
    /\ overtaken' = {}
    /\ regressed' = FALSE

\* A transfer ends, or a sweep deletes an object that is not what it should be.
Change(p) ==
    /\ head.status = "planned"
    /\ p \notin head.confirmed
    /\ \E obj \in [rev: {head.rev}, kind: {"whole", "short", "corrupt"}] \cup {NoObject} :
          r2' = [r2 EXCEPT ![p] = obj]
    /\ UNCHANGED <<head, latest, cloneVars, driveVars, scan, plan, historyVars>>

\* A sweep reads the object back; once no file is left the job is verified.
Confirm(p) ==
    /\ head.status = "planned"
    /\ HashMatches(r2[p], p, head.rev)
    /\ LET confirmed == head.confirmed \cup {p}
       IN  Publish([head EXCEPT !.confirmed = confirmed,
                                !.status = IF confirmed = Path THEN "verified" ELSE @])
    /\ UNCHANGED <<latest, historyVars>>

\* A sweep lists the prefix and misses a confirmed object: the file is
\* reopened.
Reopen(p) ==
    /\ head.status = "planned"
    /\ p \in head.confirmed
    /\ ~SizeMatches(r2[p], p, head.rev)
    /\ Publish([head EXCEPT !.confirmed = @ \ {p}])
    /\ overtaken' = overtaken \ {p}
    /\ UNCHANGED <<latest, regressed>>

\* A file runs out of attempts.
Fail ==
    /\ head.status = "planned"
    /\ Publish([head EXCEPT !.status = "failed"])
    /\ UNCHANGED <<latest, historyVars>>

Workflows ==
    \/ PlanRevision
    \/ \E p \in Path : Change(p) \/ Confirm(p) \/ Reopen(p)
    \/ Fail

-----------------------------------------------------------------------------
(* The clone                                                               *)

\* git pull in the clone.  A `pulled' that conflicts with a newer job file, or
\* was saved over one, is given up.
Refresh ==
    /\ ~current \/ clone.rev # head.rev
    /\ clone' = [rev |-> head.rev, status |-> head.status]
    /\ current' = TRUE
    /\ UNCHANGED <<workflowVars, driveVars, scan, plan, historyVars>>

\* The operator commits and pushes what verify_local.sh saved.
PublishClone ==
    /\ clone.status = "pulled"
    /\ head.status # "pulled" \/ head.rev # clone.rev
    /\ head' = [rev |-> clone.rev, status |-> "pulled", confirmed |-> Path]
    /\ regressed' = (current /\ clone.rev # head.rev)
    /\ overtaken' = IF clone.rev # head.rev THEN {} ELSE overtaken
    /\ UNCHANGED <<latest, r2, clone, driveVars, scan, plan>>

\* Mutant: the push overwrites whatever was published since.
PushForced == PublishClone /\ current' = TRUE

\* A job file published since makes the push conflict.
PushPulled ==
    /\ current
    /\ PublishClone
    /\ UNCHANGED current

-----------------------------------------------------------------------------
(* Pulling                                                                 *)

\* Two files of the same path have the same size, as rclone --size-only asks.
SameLength(a, b, p) ==
    \/ a = b
    \/ /\ NoObject \notin {a, b}
       /\ "short" \notin {a.kind, b.kind}
       /\ a.rev = b.rev \/ p \in SameSize

\* pull.sh copies a file whose size differs; it may pause or fail after any
\* file and resumes with the sizes it then finds.
PullFile(p) ==
    /\ r2[p] # NoObject
    /\ ~SameLength(drive[p], r2[p], p)
    /\ drive' = [drive EXCEPT ![p] = r2[p]]
    /\ UNCHANGED <<workflowVars, cloneVars, bad, scan, plan, historyVars>>

\* Mutant: the printed command goes by size, like pull.sh.
PullAgainBySize(p) ==
    /\ p \in bad
    /\ r2[p] # NoObject
    /\ drive' = IF SameLength(drive[p], r2[p], p) THEN drive
                ELSE [drive EXCEPT ![p] = r2[p]]
    /\ bad' = bad \ {p}
    /\ UNCHANGED <<workflowVars, cloneVars, scan, plan, historyVars>>

\* The rclone command verify_local.sh prints for the files that failed.
PullAgain(p) ==
    /\ p \in bad
    /\ r2[p] # NoObject
    /\ drive' = [drive EXCEPT ![p] = r2[p]]
    /\ bad' = bad \ {p}
    /\ UNCHANGED <<workflowVars, cloneVars, scan, plan, historyVars>>

-----------------------------------------------------------------------------
(* Hashing the drive                                                       *)

\* Either script loads the job file of the clone and refuses unless its job
\* is verified or pulled.  One script hashes at a time.
BeginScan(tool) ==
    /\ scan = NoScan
    /\ tool = "reclaim" => plan = NoPlan
    /\ clone.status \in Verified
    /\ scan' = [tool |-> tool, rev |-> clone.rev, status |-> clone.status,
                todo |-> Path, passed |-> {}]
    /\ UNCHANGED <<workflowVars, cloneVars, driveVars, plan, historyVars>>

\* Mutant: the size of a local file is enough.
PassesBySize(p) == SizeMatches(drive[p], p, scan.rev)

\* A local file has the size, and the hash if one is declared, of the manifest
\* the script loaded.
Passes(p) == HashMatches(drive[p], p, scan.rev)

\* The files are read one by one, in the order of their paths.
ScanFile ==
    /\ scan # NoScan
    /\ scan.todo # {}
    /\ LET p == CHOOSE q \in scan.todo : TRUE
       IN  scan' = [scan EXCEPT !.todo = @ \ {p},
                                !.passed = IF Passes(p) THEN @ \cup {p} ELSE @]
    /\ UNCHANGED <<workflowVars, cloneVars, driveVars, plan, historyVars>>

Scanned(tool) == scan # NoScan /\ scan.tool = tool /\ scan.todo = {}

\* verify_local.sh names the files that failed, or saves the job it loaded,
\* now pulled, whatever the clone holds by now.
EndVerify ==
    /\ Scanned("verify_local")
    /\ bad' = Path \ scan.passed
    /\ clone' = IF bad' = {} /\ scan.status = "verified"
                THEN [rev |-> scan.rev, status |-> "pulled"] ELSE clone
    /\ scan' = NoScan
    /\ UNCHANGED <<workflowVars, current, drive, plan, historyVars>>

\* Mutant: with nothing verified reclaim.sh goes on all the same.
EndReclaimScanEmpty ==
    /\ Scanned("reclaim")
    /\ plan' = [rev |-> scan.rev, files |-> scan.passed]
    /\ scan' = NoScan
    /\ UNCHANGED <<workflowVars, cloneVars, driveVars, historyVars>>

\* Mutant: files that fail do not stop a reclaim of all files.
EndReclaimScanRegardless ==
    /\ Scanned("reclaim")
    /\ scan.passed # {}
    /\ plan' = [rev |-> scan.rev, files |-> Path]
    /\ scan' = NoScan
    /\ UNCHANGED <<workflowVars, cloneVars, driveVars, historyVars>>

\* reclaim.sh --yes goes on to delete the files that passed; it refuses if
\* there are none, and without --verified-only if they are not all.
EndReclaimScan ==
    /\ Scanned("reclaim")
    /\ \/ UNCHANGED plan
       \/ scan.passed # {} /\ plan' = [rev |-> scan.rev, files |-> scan.passed]
    /\ scan' = NoScan
    /\ UNCHANGED <<workflowVars, cloneVars, driveVars, historyVars>>

\* The script is interrupted.
StopScan ==
    /\ scan # NoScan
    /\ scan' = NoScan
    /\ UNCHANGED <<workflowVars, cloneVars, driveVars, plan, historyVars>>

-----------------------------------------------------------------------------
(* Reclaiming                                                              *)

\* rclone delete --files-from-raw, file by file, by path alone.
DeleteFile(p) ==
    /\ plan # NoPlan
    /\ p \in plan.files
    /\ r2' = [r2 EXCEPT ![p] = NoObject]
    /\ plan' = IF plan.files = {p} THEN NoPlan ELSE [plan EXCEPT !.files = @ \ {p}]
    /\ overtaken' = IF p \in head.confirmed /\ plan.rev # head.rev
                    THEN overtaken \cup {p} ELSE overtaken
    /\ UNCHANGED <<head, latest, cloneVars, driveVars, scan, regressed>>

\* rclone fails or is interrupted.
StopReclaim ==
    /\ plan # NoPlan
    /\ plan' = NoPlan
    /\ UNCHANGED <<workflowVars, cloneVars, driveVars, scan, historyVars>>

Hashing ==
    \/ \E tool \in {"verify_local", "reclaim"} : BeginScan(tool)
    \/ ScanFile \/ EndVerify \/ EndReclaimScan \/ StopScan

Operator ==
    \/ Refresh \/ PushPulled \/ StopReclaim
    \/ \E p \in Path : PullFile(p) \/ PullAgain(p) \/ DeleteFile(p)
    \/ Hashing

Next == Workflows \/ Operator

Spec == Init /\ [][Next]_vars

\* An operator who keeps the clone up to date, reruns pull.sh until nothing is
\* left to copy, reruns verify_local.sh and the command it prints, and from
\* some time on lets it end.
DiligentSpec ==
    /\ Spec
    /\ WF_vars(Refresh)
    /\ SF_vars(BeginScan("verify_local"))
    /\ WF_vars(EndVerify) /\ WF_vars(EndReclaimScan) /\ WF_vars(ScanFile)
    /\ \A p \in Path : WF_vars(PullFile(p)) /\ WF_vars(PullAgain(p))
    /\ <>[][~StopScan]_vars

-----------------------------------------------------------------------------
(* Properties                                                              *)

\* Every store keeps its shape, a reclaim never runs with nothing to delete,
\* and what it overtook are confirmed objects.
TypeOK ==
    /\ head \in PublishedJob
    /\ latest \in 0 .. MaxRev
    /\ r2 \in [Path -> Object \cup {NoObject}]
    /\ clone \in ClonedJob
    /\ current \in BOOLEAN
    /\ drive \in [Path -> Object \cup {NoObject}]
    /\ bad \subseteq Path
    /\ scan \in Scan \cup {NoScan}
    /\ plan \in Reclaim \cup {NoPlan}
    /\ overtaken \subseteq head.confirmed
    /\ regressed \in BOOLEAN

\* An LFS file of a verified job is in the bucket or on the drive, byte for
\* byte, through pulls of mixed revisions, interrupted and partial reclaims and
\* racing workflows.  Two ways to lose one remain: a reclaim with the manifest
\* of another revision, and a `pulled' saved over the job of a newer revision.
NothingLost ==
    head.status \in Verified /\ ~regressed =>
        \A p \in Lfs \ overtaken : Intact(r2[p], head.rev) \/ Intact(drive[p], head.rev)

\* README.md:344-346 says that every deletion path, reclaim.sh among them,
\* "refuses when it cannot prove the deletion is safe": but for a `pulled' saved
\* over a newer job, an LFS file of a verified job is in the bucket or on the
\* drive, with no exception for what a reclaim deleted.
DeletionsAreSafe ==
    head.status \in Verified /\ ~regressed =>
        \A p \in Lfs : Intact(r2[p], head.rev) \/ Intact(drive[p], head.rev)

\* PLAN.md:89: a published `pulled' means that the operator holds a verified
\* copy of the published revision.  It still does however pulls, pushes and a
\* new revision raced, but for the `pulled' saved over a newer job.
PulledIsHeld ==
    head.status = "pulled" /\ ~regressed => \A p \in Lfs : Intact(drive[p], head.rev)

\* What a reclaim deletes of the revision it verified against stays on the
\* drive, whatever was copied there since the verification.
ReclaimKeepsACopy ==
    [][\A p \in Lfs :
          /\ plan # NoPlan
          /\ plan' # plan
          /\ Intact(r2[p], plan.rev)
          /\ r2'[p] = NoObject
          => Intact(drive'[p], plan.rev)]_vars

\* A pull that mixed revisions, stopped and resumed at will, comes to an end:
\* once a job stays verified and none of its files was overtaken, the diligent
\* operator ends with a verified copy of that very revision and keeps it, even of
\* a file whose size did not change between revisions and which pull.sh therefore
\* never copies again.
PullsComplete ==
    <>[](head.status \in Verified /\ overtaken = {} /\ ~regressed)
        => <>[](clone.status = "pulled" /\ clone.rev = head.rev)
=============================================================================

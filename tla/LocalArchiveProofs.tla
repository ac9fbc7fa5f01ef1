------------------------- MODULE LocalArchiveProofs -------------------------
(***************************************************************************)
(* What the operator's scripts keep, for any files and any number of       *)
(* revisions: no verified file is lost but in the two ways NothingLost     *)
(* names, and a published `pulled' is backed by the drive.                 *)
(***************************************************************************)
EXTENDS LocalArchive, TLAPS

\* A job with a status has a revision; verified jobs have every file confirmed,
\* and only the latest revision is being worked on.
HeadShape ==
    /\ head.rev <= latest
    /\ head.status # "none" => head.rev \in Revisions
    /\ head.status = "planned" => head.rev = latest
    /\ head.status \in Verified => head.confirmed = Path
    /\ regressed => head.status = "pulled"

\* Revision v was verified once: it is not planned any more, nor ever again.
WasVerified(v) ==
    /\ v \in Revisions
    /\ v <= latest
    /\ head.rev = v => head.status \in Verified

\* The scripts only ever work for revisions that were verified.
VerifiedRevisions ==
    /\ clone.status \in Verified => WasVerified(clone.rev)
    /\ scan # NoScan => WasVerified(scan.rev)
    /\ plan # NoPlan => WasVerified(plan.rev)

\* The copy of p is not needed, or it is there.
Kept(p, v) == Intact(r2[p], v) => Intact(drive[p], v)

KeptCopies ==
    /\ scan # NoScan => \A p \in Lfs \cap scan.passed : Kept(p, scan.rev)
    /\ plan # NoPlan => \A p \in Lfs \cap plan.files : Kept(p, plan.rev)

\* A confirmed object is the one that was read back, unless it was deleted.
ConfirmedObjects ==
    /\ \A p \in overtaken : r2[p] = NoObject
    /\ ~regressed =>
          \A p \in Lfs \cap head.confirmed : r2[p] = NoObject \/ Intact(r2[p], head.rev)
    /\ head.status = "planned" =>
          \A p \in (Lfs \cap head.confirmed) \ overtaken : Intact(r2[p], head.rev)

\* What passed a scan for the published revision, or made the clone's job
\* pulled, is still on the drive.
HeldCopies ==
    ~regressed =>
        /\ scan # NoScan /\ scan.rev = head.rev =>
              \A p \in Lfs \cap scan.passed : Intact(drive[p], head.rev)
        /\ clone.status = "pulled" /\ clone.rev = head.rev =>
              \A p \in Lfs : Intact(drive[p], head.rev)

IInv ==
    /\ TypeOK
    /\ HeadShape
    /\ VerifiedRevisions
    /\ KeptCopies
    /\ ConfirmedObjects
    /\ HeldCopies
    /\ NothingLost
    /\ PulledIsHeld

-----------------------------------------------------------------------------
(* Types                                                                   *)

LEMMA InitIInv == Init => IInv
<1> SUFFICES ASSUME Init
             PROVE  IInv
  OBVIOUS
<1>1. TypeOK
  <2>1. 0 \in 0 .. MaxRev
    BY ObjectsAssumption
  <2>2. head \in PublishedJob /\ clone \in ClonedJob
    BY <2>1 DEF Init, PublishedJob, ClonedJob
  <2> QED
    BY <2>1, <2>2 DEF Init, TypeOK, Nothing
<1>2. HeadShape /\ VerifiedRevisions /\ NothingLost /\ PulledIsHeld
  BY DEF Init, HeadShape, VerifiedRevisions, NothingLost, PulledIsHeld, Verified
<1>3. KeptCopies /\ ConfirmedObjects /\ HeldCopies
  BY DEF Init, KeptCopies, ConfirmedObjects, HeldCopies
<1> QED
  BY <1>1, <1>2, <1>3 DEF IInv

LEMMA StepTypeOK == IInv /\ [Next]_vars => TypeOK'
<1> SUFFICES ASSUME IInv, [Next]_vars
             PROVE  TypeOK'
  OBVIOUS
<1> USE ObjectsAssumption DEF IInv, TypeOK
<1>1. CASE PlanRevision
  <2>1. latest + 1 \in 0 .. MaxRev
    BY <1>1 DEF PlanRevision
  <2>2. PICK status \in {"planned", "failed"} :
           Publish([rev |-> latest + 1, status |-> status, confirmed |-> {}])
    BY <1>1 DEF PlanRevision
  <2>3. head' \in PublishedJob
    BY <2>1, <2>2 DEF Publish, PublishedJob
  <2> QED
    BY <1>1, <2>1, <2>2, <2>3 DEF PlanRevision, Publish, driveVars
<1>2. ASSUME NEW p \in Path, Change(p)
      PROVE  TypeOK'
  <2>1. head.rev \in Revisions
    BY <1>2 DEF Change, HeadShape
  <2> QED
    BY <1>2, <2>1 DEF Change, Object, cloneVars, driveVars, historyVars
<1>3. ASSUME NEW p \in Path, Confirm(p)
      PROVE  TypeOK'
  BY <1>3 DEF Confirm, Publish, PublishedJob, Verified, driveVars, historyVars
<1>4. ASSUME NEW p \in Path, Reopen(p)
      PROVE  TypeOK'
  BY <1>4 DEF Reopen, Publish, PublishedJob, driveVars
<1>5. CASE Fail
  BY <1>5 DEF Fail, Publish, PublishedJob, driveVars, historyVars
<1>6. CASE Refresh
  BY <1>6 DEF Refresh, PublishedJob, ClonedJob, workflowVars, driveVars, historyVars
<1>7. CASE PushPulled
  BY <1>7 DEF PushPulled, PublishClone, PublishedJob, ClonedJob, Verified, driveVars
<1>8. ASSUME NEW p \in Path, PullFile(p)
      PROVE  TypeOK'
  BY <1>8 DEF PullFile, workflowVars, cloneVars, historyVars
<1>9. ASSUME NEW p \in Path, PullAgain(p)
      PROVE  TypeOK'
  BY <1>9 DEF PullAgain, workflowVars, cloneVars, historyVars
<1>10. ASSUME NEW tool \in {"verify_local", "reclaim"}, BeginScan(tool)
       PROVE  TypeOK'
  BY <1>10 DEF BeginScan, Scan, VerifiedRevisions, WasVerified, workflowVars, cloneVars,
               driveVars, historyVars
<1>11. CASE ScanFile
  <2>1. PICK p \in scan.todo :
           scan' = [scan EXCEPT !.todo = @ \ {p},
                                !.passed = IF Passes(p) THEN @ \cup {p} ELSE @]
    BY <1>11 DEF ScanFile
  <2>2. scan \in Scan
    BY <1>11 DEF ScanFile
  <2>3. scan' \in Scan
    BY <2>1, <2>2 DEF Scan
  <2> QED
    BY <1>11, <2>3 DEF ScanFile, workflowVars, cloneVars, driveVars, historyVars
<1>12. CASE EndVerify
  BY <1>12 DEF EndVerify, Scanned, Scan, ClonedJob, Verified, Revisions, workflowVars,
               historyVars
<1>13. CASE EndReclaimScan
  BY <1>13 DEF EndReclaimScan, Scanned, Scan, Reclaim, workflowVars, cloneVars, driveVars,
               historyVars
<1>14. CASE StopScan
  BY <1>14 DEF StopScan, workflowVars, cloneVars, driveVars, historyVars
<1>15. ASSUME NEW p \in Path, DeleteFile(p)
       PROVE  TypeOK'
  BY <1>15 DEF DeleteFile, Reclaim, PublishedJob, cloneVars, driveVars
<1>16. CASE StopReclaim
  BY <1>16 DEF StopReclaim, workflowVars, cloneVars, driveVars, historyVars
<1>17. CASE UNCHANGED vars
  BY <1>17 DEF vars, workflowVars, cloneVars, driveVars, historyVars
<1> QED
  BY <1>1, <1>2, <1>3, <1>4, <1>5, <1>6, <1>7, <1>8, <1>9, <1>10, <1>11, <1>12, <1>13,
     <1>14, <1>15, <1>16, <1>17 DEF Next, Workflows, Operator, Hashing

-----------------------------------------------------------------------------
(* Revisions                                                               *)

LEMMA StepHeadShape == IInv /\ [Next]_vars => HeadShape'
<1> SUFFICES ASSUME IInv, [Next]_vars
             PROVE  HeadShape'
  OBVIOUS
<1> USE ObjectsAssumption DEF IInv, TypeOK, HeadShape, PublishedJob, Revisions, Verified
<1>1. CASE PlanRevision
  BY <1>1 DEF PlanRevision, Publish, driveVars
<1>2. ASSUME NEW p \in Path, Change(p)
      PROVE  HeadShape'
  BY <1>2 DEF Change, cloneVars, driveVars, historyVars
<1>3. ASSUME NEW p \in Path, Confirm(p)
      PROVE  HeadShape'
  BY <1>3 DEF Confirm, Publish, driveVars, historyVars
<1>4. ASSUME NEW p \in Path, Reopen(p)
      PROVE  HeadShape'
  BY <1>4 DEF Reopen, Publish, driveVars
<1>5. CASE Fail
  BY <1>5 DEF Fail, Publish, driveVars, historyVars
<1>6. CASE Refresh
  BY <1>6 DEF Refresh, workflowVars, driveVars, historyVars
<1>7. CASE PushPulled
  <2>1. WasVerified(clone.rev)
    BY <1>7 DEF PushPulled, PublishClone, VerifiedRevisions
  <2> QED
    BY <1>7, <2>1 DEF PushPulled, PublishClone, WasVerified, driveVars
<1>8. ASSUME NEW p \in Path, PullFile(p)
      PROVE  HeadShape'
  BY <1>8 DEF PullFile, workflowVars, cloneVars, historyVars
<1>9. ASSUME NEW p \in Path, PullAgain(p)
      PROVE  HeadShape'
  BY <1>9 DEF PullAgain, workflowVars, cloneVars, historyVars
<1>10. ASSUME NEW tool \in {"verify_local", "reclaim"}, BeginScan(tool)
      PROVE  HeadShape'
  BY <1>10 DEF BeginScan, workflowVars, cloneVars, driveVars, historyVars
<1>11. CASE ScanFile
  BY <1>11 DEF ScanFile, workflowVars, cloneVars, driveVars, historyVars
<1>12. CASE EndVerify
  BY <1>12 DEF EndVerify, Scanned, workflowVars, historyVars
<1>13. CASE EndReclaimScan
  BY <1>13 DEF EndReclaimScan, Scanned, workflowVars, cloneVars, driveVars, historyVars
<1>14. CASE StopScan
  BY <1>14 DEF StopScan, workflowVars, cloneVars, driveVars, historyVars
<1>15. ASSUME NEW p \in Path, DeleteFile(p)
      PROVE  HeadShape'
  BY <1>15 DEF DeleteFile, cloneVars, driveVars
<1>16. CASE StopReclaim
  BY <1>16 DEF StopReclaim, workflowVars, cloneVars, driveVars, historyVars
<1>17. CASE UNCHANGED vars
  BY <1>17 DEF vars, workflowVars, cloneVars, driveVars, historyVars
<1> QED
  BY <1>1, <1>2, <1>3, <1>4, <1>5, <1>6, <1>7, <1>8, <1>9,
     <1>10, <1>11, <1>12, <1>13, <1>14, <1>15, <1>16, <1>17 DEF Next, Workflows, Operator, Hashing

\* A verified revision is never worked on again.
LEMMA StepWasVerified ==
    ASSUME IInv, [Next]_vars, NEW v \in Revisions, WasVerified(v)
    PROVE  WasVerified(v)'
<1> USE ObjectsAssumption DEF IInv, TypeOK, HeadShape, WasVerified, PublishedJob, Revisions,
        Verified
<1>1. CASE PlanRevision
  BY <1>1 DEF PlanRevision, Publish, driveVars
<1>2. ASSUME NEW p \in Path, Change(p)
      PROVE  WasVerified(v)'
  BY <1>2 DEF Change, cloneVars, driveVars, historyVars
<1>3. ASSUME NEW p \in Path, Confirm(p)
      PROVE  WasVerified(v)'
  BY <1>3 DEF Confirm, Publish, driveVars, historyVars
<1>4. ASSUME NEW p \in Path, Reopen(p)
      PROVE  WasVerified(v)'
  BY <1>4 DEF Reopen, Publish, driveVars
<1>5. CASE Fail
  BY <1>5 DEF Fail, Publish, driveVars, historyVars
<1>6. CASE Refresh
  BY <1>6 DEF Refresh, workflowVars, driveVars, historyVars
<1>7. CASE PushPulled
  BY <1>7 DEF PushPulled, PublishClone, driveVars
<1>8. ASSUME NEW p \in Path, PullFile(p)
      PROVE  WasVerified(v)'
  BY <1>8 DEF PullFile, workflowVars, cloneVars, historyVars
<1>9. ASSUME NEW p \in Path, PullAgain(p)
      PROVE  WasVerified(v)'
  BY <1>9 DEF PullAgain, workflowVars, cloneVars, historyVars
<1>10. ASSUME NEW tool \in {"verify_local", "reclaim"}, BeginScan(tool)
      PROVE  WasVerified(v)'
  BY <1>10 DEF BeginScan, workflowVars, cloneVars, driveVars, historyVars
<1>11. CASE ScanFile
  BY <1>11 DEF ScanFile, workflowVars, cloneVars, driveVars, historyVars
<1>12. CASE EndVerify
  BY <1>12 DEF EndVerify, Scanned, workflowVars, historyVars
<1>13. CASE EndReclaimScan
  BY <1>13 DEF EndReclaimScan, Scanned, workflowVars, cloneVars, driveVars, historyVars
<1>14. CASE StopScan
  BY <1>14 DEF StopScan, workflowVars, cloneVars, driveVars, historyVars
<1>15. ASSUME NEW p \in Path, DeleteFile(p)
      PROVE  WasVerified(v)'
  BY <1>15 DEF DeleteFile, cloneVars, driveVars
<1>16. CASE StopReclaim
  BY <1>16 DEF StopReclaim, workflowVars, cloneVars, driveVars, historyVars
<1>17. CASE UNCHANGED vars
  BY <1>17 DEF vars, workflowVars, cloneVars, driveVars, historyVars
<1> QED
  BY <1>1, <1>2, <1>3, <1>4, <1>5, <1>6, <1>7, <1>8, <1>9,
     <1>10, <1>11, <1>12, <1>13, <1>14, <1>15, <1>16, <1>17 DEF Next, Workflows, Operator, Hashing

LEMMA StepVerifiedRevisions == IInv /\ [Next]_vars => VerifiedRevisions'
<1> SUFFICES ASSUME IInv, [Next]_vars
             PROVE  VerifiedRevisions'
  OBVIOUS
<1> DEFINE Still(v) == /\ v \in Revisions
                       /\ v <= latest'
                       /\ head'.rev = v => head'.status \in Verified
<1>a. IInv /\ TypeOK /\ VerifiedRevisions /\ HeadShape
  BY DEF IInv
<1>b. \A v \in Revisions : WasVerified(v) => Still(v)
  BY StepWasVerified DEF WasVerified
<1>c. clone.status \in Verified => Still(clone.rev)
  BY <1>a, <1>b DEF VerifiedRevisions, WasVerified
<1>d. scan # NoScan => Still(scan.rev)
  BY <1>a, <1>b DEF VerifiedRevisions, WasVerified
<1>e. plan # NoPlan => Still(plan.rev)
  BY <1>a, <1>b DEF VerifiedRevisions, WasVerified
<1>f. head.status \in Verified => Still(head.rev)
  <2>1. head.status \in Verified => WasVerified(head.rev)
    BY <1>a DEF HeadShape, WasVerified, Verified
  <2> QED
    BY <1>b, <2>1 DEF WasVerified
<1> USE <1>a, <1>c, <1>d, <1>e DEF VerifiedRevisions, WasVerified
<1>1. CASE PlanRevision
  BY <1>1 DEF PlanRevision, Publish, driveVars
<1>2. ASSUME NEW p \in Path, Change(p)
      PROVE  VerifiedRevisions'
  BY <1>2 DEF Change, cloneVars, driveVars, historyVars
<1>3. ASSUME NEW p \in Path, Confirm(p)
      PROVE  VerifiedRevisions'
  BY <1>3 DEF Confirm, Publish, driveVars, historyVars
<1>4. ASSUME NEW p \in Path, Reopen(p)
      PROVE  VerifiedRevisions'
  BY <1>4 DEF Reopen, Publish, driveVars
<1>5. CASE Fail
  BY <1>5 DEF Fail, Publish, driveVars, historyVars
<1>6. CASE Refresh
  BY <1>6, <1>f DEF Refresh, WasVerified, workflowVars, driveVars, historyVars
<1>7. CASE PushPulled
  BY <1>7 DEF PushPulled, PublishClone, driveVars
<1>8. ASSUME NEW p \in Path, PullFile(p)
      PROVE  VerifiedRevisions'
  BY <1>8 DEF PullFile, workflowVars, cloneVars, historyVars
<1>9. ASSUME NEW p \in Path, PullAgain(p)
      PROVE  VerifiedRevisions'
  BY <1>9 DEF PullAgain, workflowVars, cloneVars, historyVars
<1>10. ASSUME NEW tool \in {"verify_local", "reclaim"}, BeginScan(tool)
      PROVE  VerifiedRevisions'
  BY <1>10 DEF BeginScan, workflowVars, cloneVars, driveVars, historyVars
<1>11. CASE ScanFile
  <2>1. scan' # NoScan => scan'.rev = scan.rev
    BY <1>11 DEF ScanFile, TypeOK, Scan
  <2> QED
    BY <1>11, <2>1 DEF ScanFile, WasVerified, workflowVars, cloneVars, driveVars, historyVars
<1>12. CASE EndVerify
  BY <1>12 DEF EndVerify, Scanned, workflowVars, historyVars
<1>13. CASE EndReclaimScan
  BY <1>13 DEF EndReclaimScan, Scanned, workflowVars, cloneVars, driveVars, historyVars
<1>14. CASE StopScan
  BY <1>14 DEF StopScan, workflowVars, cloneVars, driveVars, historyVars
<1>15. ASSUME NEW p \in Path, DeleteFile(p)
      PROVE  VerifiedRevisions'
  <2>1. plan' # NoPlan => plan'.rev = plan.rev
    BY <1>15 DEF DeleteFile, TypeOK, Reclaim
  <2> QED
    BY <1>15, <2>1 DEF DeleteFile, WasVerified, cloneVars, driveVars
<1>16. CASE StopReclaim
  BY <1>16 DEF StopReclaim, workflowVars, cloneVars, driveVars, historyVars
<1>17. CASE UNCHANGED vars
  BY <1>17 DEF vars, workflowVars, cloneVars, driveVars, historyVars
<1> QED
  BY <1>1, <1>2, <1>3, <1>4, <1>5, <1>6, <1>7, <1>8, <1>9,
     <1>10, <1>11, <1>12, <1>13, <1>14, <1>15, <1>16, <1>17 DEF Next, Workflows, Operator, Hashing

-----------------------------------------------------------------------------
(* Copies                                                                  *)

\* A copy that is kept stays kept: nobody streams the revision any more, and a
\* pull copies what is in the bucket.
LEMMA StepKept ==
    ASSUME IInv, [Next]_vars, NEW v \in Revisions, WasVerified(v), NEW q \in Path, Kept(q, v)
    PROVE  Kept(q, v)'
<1> USE DEF IInv, TypeOK, HeadShape, WasVerified, Kept, Intact, Verified
<1>1. CASE PlanRevision
  BY <1>1 DEF PlanRevision, Publish, driveVars
<1>2. ASSUME NEW p \in Path, Change(p)
      PROVE  Kept(q, v)'
  BY <1>2 DEF Change, cloneVars, driveVars, historyVars
<1>3. ASSUME NEW p \in Path, Confirm(p)
      PROVE  Kept(q, v)'
  BY <1>3 DEF Confirm, Publish, driveVars, historyVars
<1>4. ASSUME NEW p \in Path, Reopen(p)
      PROVE  Kept(q, v)'
  BY <1>4 DEF Reopen, Publish, driveVars
<1>5. CASE Fail
  BY <1>5 DEF Fail, Publish, driveVars, historyVars
<1>6. CASE Refresh
  BY <1>6 DEF Refresh, workflowVars, driveVars, historyVars
<1>7. CASE PushPulled
  BY <1>7 DEF PushPulled, PublishClone, driveVars
<1>8. ASSUME NEW p \in Path, PullFile(p)
      PROVE  Kept(q, v)'
  BY <1>8 DEF PullFile, workflowVars, cloneVars, historyVars
<1>9. ASSUME NEW p \in Path, PullAgain(p)
      PROVE  Kept(q, v)'
  BY <1>9 DEF PullAgain, workflowVars, cloneVars, historyVars
<1>10. ASSUME NEW tool \in {"verify_local", "reclaim"}, BeginScan(tool)
      PROVE  Kept(q, v)'
  BY <1>10 DEF BeginScan, workflowVars, cloneVars, driveVars, historyVars
<1>11. CASE ScanFile
  BY <1>11 DEF ScanFile, workflowVars, cloneVars, driveVars, historyVars
<1>12. CASE EndVerify
  BY <1>12 DEF EndVerify, Scanned, workflowVars, historyVars
<1>13. CASE EndReclaimScan
  BY <1>13 DEF EndReclaimScan, Scanned, workflowVars, cloneVars, driveVars, historyVars
<1>14. CASE StopScan
  BY <1>14 DEF StopScan, workflowVars, cloneVars, driveVars, historyVars
<1>15. ASSUME NEW p \in Path, DeleteFile(p)
      PROVE  Kept(q, v)'
  BY <1>15 DEF DeleteFile, cloneVars, driveVars
<1>16. CASE StopReclaim
  BY <1>16 DEF StopReclaim, workflowVars, cloneVars, driveVars, historyVars
<1>17. CASE UNCHANGED vars
  BY <1>17 DEF vars, workflowVars, cloneVars, driveVars, historyVars
<1> QED
  BY <1>1, <1>2, <1>3, <1>4, <1>5, <1>6, <1>7, <1>8, <1>9,
     <1>10, <1>11, <1>12, <1>13, <1>14, <1>15, <1>16, <1>17 DEF Next, Workflows, Operator, Hashing

\* A scan adds only a file whose hash matches.
LEMMA ScanFileStep ==
    ASSUME TypeOK, ScanFile
    PROVE  /\ scan'.rev = scan.rev
           /\ \A q \in scan'.passed :
                 q \in scan.passed \/ (q \in Lfs => Intact(drive[q], scan.rev))
<1>1. PICK p \in scan.todo :
         scan' = [scan EXCEPT !.todo = @ \ {p},
                              !.passed = IF Passes(p) THEN @ \cup {p} ELSE @]
  BY DEF ScanFile
<1>2. scan \in Scan
  BY DEF ScanFile, TypeOK
<1>3. /\ scan'.rev = scan.rev
      /\ \A q \in scan'.passed : q \in scan.passed \/ (q = p /\ Passes(p))
  BY <1>1, <1>2 DEF Scan
<1> QED
  BY <1>3 DEF Passes, HashMatches

LEMMA StepKeptCopies == IInv /\ [Next]_vars => KeptCopies'
<1> SUFFICES ASSUME IInv, [Next]_vars
             PROVE  KeptCopies'
  OBVIOUS
<1> DEFINE Copied(q, v) == Intact(r2'[q], v) => Intact(drive'[q], v)
<1>a. TypeOK /\ VerifiedRevisions /\ KeptCopies
  BY DEF IInv
<1>b. \A v \in Revisions, q \in Path : WasVerified(v) /\ Kept(q, v) => Copied(q, v)
  BY StepKept DEF Kept
<1>c. scan # NoScan => \A q \in Lfs \cap scan.passed : Copied(q, scan.rev)
  BY <1>a, <1>b, ObjectsAssumption DEF VerifiedRevisions, WasVerified, KeptCopies
<1>d. plan # NoPlan => \A q \in Lfs \cap plan.files : Copied(q, plan.rev)
  BY <1>a, <1>b, ObjectsAssumption DEF VerifiedRevisions, WasVerified, KeptCopies
<1> USE <1>c, <1>d DEF KeptCopies, Kept
<1>1. CASE PlanRevision
  BY <1>1 DEF PlanRevision, Publish, driveVars
<1>2. ASSUME NEW p \in Path, Change(p)
      PROVE  KeptCopies'
  BY <1>2 DEF Change, cloneVars, driveVars, historyVars
<1>3. ASSUME NEW p \in Path, Confirm(p)
      PROVE  KeptCopies'
  BY <1>3 DEF Confirm, Publish, driveVars, historyVars
<1>4. ASSUME NEW p \in Path, Reopen(p)
      PROVE  KeptCopies'
  BY <1>4 DEF Reopen, Publish, driveVars
<1>5. CASE Fail
  BY <1>5 DEF Fail, Publish, driveVars, historyVars
<1>6. CASE Refresh
  BY <1>6 DEF Refresh, workflowVars, driveVars, historyVars
<1>7. CASE PushPulled
  BY <1>7 DEF PushPulled, PublishClone, driveVars
<1>8. ASSUME NEW p \in Path, PullFile(p)
      PROVE  KeptCopies'
  BY <1>8 DEF PullFile, workflowVars, cloneVars, historyVars
<1>9. ASSUME NEW p \in Path, PullAgain(p)
      PROVE  KeptCopies'
  BY <1>9 DEF PullAgain, workflowVars, cloneVars, historyVars
<1>10. ASSUME NEW tool \in {"verify_local", "reclaim"}, BeginScan(tool)
      PROVE  KeptCopies'
  BY <1>10 DEF BeginScan, workflowVars, cloneVars, driveVars, historyVars
<1>11. CASE ScanFile
  BY <1>11, ScanFileStep, <1>a DEF ScanFile, workflowVars, cloneVars, driveVars, historyVars
<1>12. CASE EndVerify
  BY <1>12 DEF EndVerify, Scanned, workflowVars, historyVars
<1>13. CASE EndReclaimScan
  BY <1>13 DEF EndReclaimScan, Scanned, workflowVars, cloneVars, driveVars, historyVars
<1>14. CASE StopScan
  BY <1>14 DEF StopScan, workflowVars, cloneVars, driveVars, historyVars
<1>15. ASSUME NEW p \in Path, DeleteFile(p)
      PROVE  KeptCopies'
  <2>1. plan \in Reclaim
    BY <1>15, <1>a DEF DeleteFile, TypeOK
  <2>2. plan' # NoPlan => plan'.rev = plan.rev /\ plan'.files \subseteq plan.files
    BY <1>15, <2>1 DEF DeleteFile, Reclaim
  <2> QED
    BY <1>15, <2>2 DEF DeleteFile, cloneVars, driveVars
<1>16. CASE StopReclaim
  BY <1>16 DEF StopReclaim, workflowVars, cloneVars, driveVars, historyVars
<1>17. CASE UNCHANGED vars
  BY <1>17 DEF vars, workflowVars, cloneVars, driveVars, historyVars
<1> QED
  BY <1>1, <1>2, <1>3, <1>4, <1>5, <1>6, <1>7, <1>8, <1>9,
     <1>10, <1>11, <1>12, <1>13, <1>14, <1>15, <1>16, <1>17 DEF Next, Workflows, Operator, Hashing

-----------------------------------------------------------------------------
(* The published revision                                                  *)

\* A clone that still names another revision than the published one makes the
\* push regress; otherwise the push changes no revision.
LEMMA PushSameRevision ==
    ASSUME IInv, PushPulled, ~regressed'
    PROVE  /\ ~regressed
           /\ clone.rev = head.rev
           /\ head.status \in Verified
           /\ head' = [rev |-> head.rev, status |-> "pulled", confirmed |-> head.confirmed]
           /\ overtaken' = overtaken
BY DEF IInv, TypeOK, HeadShape, VerifiedRevisions, WasVerified, Verified, PushPulled,
       PublishClone

\* While the published revision is verified a pull copies nothing else of an LFS
\* file.
LEMMA PullsTheRevision ==
    ASSUME IInv, head.status \in Verified, ~regressed, NEW p \in Lfs, r2[p] # NoObject
    PROVE  Intact(r2[p], head.rev)
BY ObjectsAssumption DEF IInv, HeadShape, ConfirmedObjects

LEMMA StepConfirmedObjects == IInv /\ [Next]_vars => ConfirmedObjects'
<1> SUFFICES ASSUME IInv, [Next]_vars
             PROVE  ConfirmedObjects'
  OBVIOUS
<1> USE ObjectsAssumption DEF IInv, TypeOK, HeadShape, ConfirmedObjects, PublishedJob
<1>1. CASE PlanRevision
  BY <1>1 DEF PlanRevision, Publish, driveVars
<1>2. ASSUME NEW p \in Path, Change(p)
      PROVE  ConfirmedObjects'
  BY <1>2 DEF Change, cloneVars, driveVars, historyVars
<1>3. ASSUME NEW p \in Path, Confirm(p)
      PROVE  ConfirmedObjects'
  <2>1. r2[p] # NoObject /\ (p \in Lfs => Intact(r2[p], head.rev))
    BY <1>3 DEF Confirm, HashMatches, SizeMatches
  <2>2. head'.rev = head.rev /\ head'.confirmed = head.confirmed \cup {p}
    BY <1>3 DEF Confirm, Publish
  <2>3. ~regressed
    BY <1>3 DEF Confirm
  <2>4. p \notin overtaken
    BY <2>1
  <2> QED
    BY <1>3, <2>1, <2>2, <2>3, <2>4 DEF Confirm, Publish, driveVars, historyVars
<1>4. ASSUME NEW p \in Path, Reopen(p)
      PROVE  ConfirmedObjects'
  BY <1>4 DEF Reopen, Publish, driveVars
<1>5. CASE Fail
  BY <1>5 DEF Fail, Publish, driveVars, historyVars
<1>6. CASE Refresh
  BY <1>6 DEF Refresh, workflowVars, driveVars, historyVars
<1>7. CASE PushPulled
  <2>1. CASE regressed'
    BY <1>7, <2>1 DEF PushPulled, PublishClone, driveVars
  <2>2. CASE ~regressed'
    BY <1>7, <2>2, PushSameRevision DEF PushPulled, PublishClone, driveVars
  <2> QED
    BY <2>1, <2>2
<1>8. ASSUME NEW p \in Path, PullFile(p)
      PROVE  ConfirmedObjects'
  BY <1>8 DEF PullFile, workflowVars, cloneVars, historyVars
<1>9. ASSUME NEW p \in Path, PullAgain(p)
      PROVE  ConfirmedObjects'
  BY <1>9 DEF PullAgain, workflowVars, cloneVars, historyVars
<1>10. ASSUME NEW tool \in {"verify_local", "reclaim"}, BeginScan(tool)
      PROVE  ConfirmedObjects'
  BY <1>10 DEF BeginScan, workflowVars, cloneVars, driveVars, historyVars
<1>11. CASE ScanFile
  BY <1>11 DEF ScanFile, workflowVars, cloneVars, driveVars, historyVars
<1>12. CASE EndVerify
  BY <1>12 DEF EndVerify, Scanned, workflowVars, historyVars
<1>13. CASE EndReclaimScan
  BY <1>13 DEF EndReclaimScan, Scanned, workflowVars, cloneVars, driveVars, historyVars
<1>14. CASE StopScan
  BY <1>14 DEF StopScan, workflowVars, cloneVars, driveVars, historyVars
<1>15. ASSUME NEW p \in Path, DeleteFile(p)
      PROVE  ConfirmedObjects'
  <2>1. head.status = "planned" => plan.rev # head.rev
    BY <1>15 DEF DeleteFile, VerifiedRevisions, WasVerified, Verified
  <2> QED
    BY <1>15, <2>1 DEF DeleteFile, cloneVars, driveVars
<1>16. CASE StopReclaim
  BY <1>16 DEF StopReclaim, workflowVars, cloneVars, driveVars, historyVars
<1>17. CASE UNCHANGED vars
  BY <1>17 DEF vars, workflowVars, cloneVars, driveVars, historyVars
<1> QED
  BY <1>1, <1>2, <1>3, <1>4, <1>5, <1>6, <1>7, <1>8, <1>9,
     <1>10, <1>11, <1>12, <1>13, <1>14, <1>15, <1>16, <1>17 DEF Next, Workflows, Operator, Hashing

LEMMA StepHeldCopies == IInv /\ [Next]_vars => HeldCopies'
<1> SUFFICES ASSUME IInv, [Next]_vars
             PROVE  HeldCopies'
  OBVIOUS
<1>a. TypeOK /\ HeadShape /\ VerifiedRevisions /\ HeldCopies /\ PulledIsHeld
  BY DEF IInv
<1>b. (scan # NoScan /\ scan.rev = head.rev) => head.status \in Verified
  BY <1>a DEF VerifiedRevisions, WasVerified
<1>c. (clone.status = "pulled" /\ clone.rev = head.rev) => head.status \in Verified
  BY <1>a DEF VerifiedRevisions, WasVerified, Verified
<1> USE ObjectsAssumption, <1>a DEF HeldCopies
<1>1. CASE PlanRevision
  <2>1. scan # NoScan => scan.rev <= latest
    BY DEF VerifiedRevisions, WasVerified
  <2>2. clone.status = "pulled" => clone.rev <= latest
    BY DEF VerifiedRevisions, WasVerified, Verified
  <2> QED
    BY <1>1, <2>1, <2>2 DEF PlanRevision, Publish, driveVars, TypeOK, Scan, ClonedJob, Revisions
<1>2. ASSUME NEW p \in Path, Change(p)
      PROVE  HeldCopies'
  BY <1>2 DEF Change, cloneVars, driveVars, historyVars
<1>3. ASSUME NEW p \in Path, Confirm(p)
      PROVE  HeldCopies'
  BY <1>3 DEF Confirm, Publish, driveVars, historyVars
<1>4. ASSUME NEW p \in Path, Reopen(p)
      PROVE  HeldCopies'
  BY <1>4 DEF Reopen, Publish, driveVars
<1>5. CASE Fail
  BY <1>5 DEF Fail, Publish, driveVars, historyVars
<1>6. CASE Refresh
  BY <1>6 DEF Refresh, PulledIsHeld, workflowVars, driveVars, historyVars
<1>7. CASE PushPulled
  <2>1. CASE ~regressed'
    BY <1>7, <2>1, PushSameRevision DEF PushPulled, PublishClone, driveVars
  <2> QED
    BY <2>1
<1>8. ASSUME NEW p \in Path, PullFile(p)
      PROVE  HeldCopies'
  <2>1. ASSUME head.status \in Verified, ~regressed, NEW q \in Lfs, Intact(drive[q], head.rev)
        PROVE  Intact(drive'[q], head.rev)
    BY <1>8, <2>1, PullsTheRevision DEF PullFile, TypeOK
  <2> QED
    BY <1>8, <1>b, <1>c, <2>1 DEF PullFile, workflowVars, cloneVars, historyVars
<1>9. ASSUME NEW p \in Path, PullAgain(p)
      PROVE  HeldCopies'
  <2>1. ASSUME head.status \in Verified, ~regressed, NEW q \in Lfs, Intact(drive[q], head.rev)
        PROVE  Intact(drive'[q], head.rev)
    BY <1>9, <2>1, PullsTheRevision DEF PullAgain, TypeOK
  <2> QED
    BY <1>9, <1>b, <1>c, <2>1 DEF PullAgain, workflowVars, cloneVars, historyVars
<1>10. ASSUME NEW tool \in {"verify_local", "reclaim"}, BeginScan(tool)
      PROVE  HeldCopies'
  BY <1>10 DEF BeginScan, workflowVars, cloneVars, driveVars, historyVars
<1>11. CASE ScanFile
  BY <1>11, ScanFileStep DEF ScanFile, workflowVars, cloneVars, driveVars, historyVars
<1>12. CASE EndVerify
  <2>1. Path \ scan.passed = {} => Lfs \subseteq scan.passed
    OBVIOUS
  <2> QED
    BY <1>12, <2>1 DEF EndVerify, Scanned, workflowVars, historyVars
<1>13. CASE EndReclaimScan
  BY <1>13 DEF EndReclaimScan, Scanned, workflowVars, cloneVars, driveVars, historyVars
<1>14. CASE StopScan
  BY <1>14 DEF StopScan, workflowVars, cloneVars, driveVars, historyVars
<1>15. ASSUME NEW p \in Path, DeleteFile(p)
      PROVE  HeldCopies'
  BY <1>15 DEF DeleteFile, cloneVars, driveVars
<1>16. CASE StopReclaim
  BY <1>16 DEF StopReclaim, workflowVars, cloneVars, driveVars, historyVars
<1>17. CASE UNCHANGED vars
  BY <1>17 DEF vars, workflowVars, cloneVars, driveVars, historyVars
<1> QED
  BY <1>1, <1>2, <1>3, <1>4, <1>5, <1>6, <1>7, <1>8, <1>9,
     <1>10, <1>11, <1>12, <1>13, <1>14, <1>15, <1>16, <1>17 DEF Next, Workflows, Operator, Hashing

LEMMA StepNothingLost == IInv /\ [Next]_vars => NothingLost'
<1> SUFFICES ASSUME IInv, [Next]_vars
             PROVE  NothingLost'
  OBVIOUS
<1>a. TypeOK /\ HeadShape /\ NothingLost
  BY DEF IInv
<1> USE ObjectsAssumption, <1>a DEF NothingLost, Verified
<1>1. CASE PlanRevision
  BY <1>1 DEF PlanRevision, Publish, driveVars
<1>2. ASSUME NEW p \in Path, Change(p)
      PROVE  NothingLost'
  BY <1>2 DEF Change, cloneVars, driveVars, historyVars
<1>3. ASSUME NEW p \in Path, Confirm(p)
      PROVE  NothingLost'
  <2>1. p \in Lfs => Intact(r2[p], head.rev)
    BY <1>3 DEF Confirm, HashMatches
  <2>2. head'.status \in Verified => head.confirmed \cup {p} = Path
    BY <1>3 DEF Confirm, Publish, TypeOK, PublishedJob
  <2>3. \A q \in (Lfs \cap head.confirmed) \ overtaken : Intact(r2[q], head.rev)
    BY <1>3 DEF Confirm, IInv, ConfirmedObjects
  <2>4. head'.rev = head.rev /\ r2' = r2 /\ overtaken' = overtaken
    BY <1>3 DEF Confirm, Publish, historyVars, TypeOK, PublishedJob
  <2> QED
    BY <2>1, <2>2, <2>3, <2>4
<1>4. ASSUME NEW p \in Path, Reopen(p)
      PROVE  NothingLost'
  BY <1>4 DEF Reopen, Publish, driveVars
<1>5. CASE Fail
  BY <1>5 DEF Fail, Publish, driveVars, historyVars
<1>6. CASE Refresh
  BY <1>6 DEF Refresh, workflowVars, driveVars, historyVars
<1>7. CASE PushPulled
  <2>1. CASE ~regressed'
    <3>1. \A p \in Lfs : Intact(drive[p], head.rev)
      BY <1>7, <2>1, PushSameRevision DEF IInv, HeldCopies, PushPulled, PublishClone
    <3> QED
      BY <1>7, <2>1, <3>1, PushSameRevision DEF PushPulled, PublishClone, driveVars
  <2> QED
    BY <2>1
<1>8. ASSUME NEW p \in Path, PullFile(p)
      PROVE  NothingLost'
  <2>1. ASSUME head.status \in Verified, ~regressed, NEW q \in Lfs, Intact(drive[q], head.rev)
        PROVE  Intact(drive'[q], head.rev)
    BY <1>8, <2>1, PullsTheRevision DEF PullFile, TypeOK
  <2> QED
    BY <1>8, <2>1 DEF PullFile, workflowVars, cloneVars, historyVars
<1>9. ASSUME NEW p \in Path, PullAgain(p)
      PROVE  NothingLost'
  <2>1. ASSUME head.status \in Verified, ~regressed, NEW q \in Lfs, Intact(drive[q], head.rev)
        PROVE  Intact(drive'[q], head.rev)
    BY <1>9, <2>1, PullsTheRevision DEF PullAgain, TypeOK
  <2> QED
    BY <1>9, <2>1 DEF PullAgain, workflowVars, cloneVars, historyVars
<1>10. ASSUME NEW tool \in {"verify_local", "reclaim"}, BeginScan(tool)
      PROVE  NothingLost'
  BY <1>10 DEF BeginScan, workflowVars, cloneVars, driveVars, historyVars
<1>11. CASE ScanFile
  BY <1>11 DEF ScanFile, workflowVars, cloneVars, driveVars, historyVars
<1>12. CASE EndVerify
  BY <1>12 DEF EndVerify, Scanned, workflowVars, historyVars
<1>13. CASE EndReclaimScan
  BY <1>13 DEF EndReclaimScan, Scanned, workflowVars, cloneVars, driveVars, historyVars
<1>14. CASE StopScan
  BY <1>14 DEF StopScan, workflowVars, cloneVars, driveVars, historyVars
<1>15. ASSUME NEW p \in Path, DeleteFile(p)
      PROVE  NothingLost'
  <2>1. p \in Lfs /\ plan.rev = head.rev /\ Intact(r2[p], head.rev) => Intact(drive[p], head.rev)
    BY <1>15 DEF DeleteFile, IInv, KeptCopies, Kept
  <2>2. head.status \in Verified /\ plan.rev # head.rev => p \in overtaken'
    BY <1>15 DEF DeleteFile, HeadShape
  <2>3. overtaken \subseteq overtaken'
    BY <1>15 DEF DeleteFile
  <2>4. \A q \in Path : q # p => r2'[q] = r2[q]
    BY <1>15 DEF DeleteFile, TypeOK
  <2> QED
    BY <1>15, <2>1, <2>2, <2>3, <2>4 DEF DeleteFile, cloneVars, driveVars
<1>16. CASE StopReclaim
  BY <1>16 DEF StopReclaim, workflowVars, cloneVars, driveVars, historyVars
<1>17. CASE UNCHANGED vars
  BY <1>17 DEF vars, workflowVars, cloneVars, driveVars, historyVars
<1> QED
  BY <1>1, <1>2, <1>3, <1>4, <1>5, <1>6, <1>7, <1>8, <1>9,
     <1>10, <1>11, <1>12, <1>13, <1>14, <1>15, <1>16, <1>17 DEF Next, Workflows, Operator, Hashing

LEMMA StepPulledIsHeld == IInv /\ [Next]_vars => PulledIsHeld'
<1> SUFFICES ASSUME IInv, [Next]_vars
             PROVE  PulledIsHeld'
  OBVIOUS
<1>a. TypeOK /\ HeadShape /\ PulledIsHeld
  BY DEF IInv
<1> USE ObjectsAssumption, <1>a DEF PulledIsHeld, Verified
<1>1. CASE PlanRevision
  BY <1>1 DEF PlanRevision, Publish, driveVars
<1>2. ASSUME NEW p \in Path, Change(p)
      PROVE  PulledIsHeld'
  BY <1>2 DEF Change, cloneVars, driveVars, historyVars
<1>3. ASSUME NEW p \in Path, Confirm(p)
      PROVE  PulledIsHeld'
  BY <1>3 DEF Confirm, Publish, driveVars, historyVars
<1>4. ASSUME NEW p \in Path, Reopen(p)
      PROVE  PulledIsHeld'
  BY <1>4 DEF Reopen, Publish, driveVars
<1>5. CASE Fail
  BY <1>5 DEF Fail, Publish, driveVars, historyVars
<1>6. CASE Refresh
  BY <1>6 DEF Refresh, workflowVars, driveVars, historyVars
<1>7. CASE PushPulled
  <2>1. CASE ~regressed'
    <3>1. \A p \in Lfs : Intact(drive[p], head.rev)
      BY <1>7, <2>1, PushSameRevision DEF IInv, HeldCopies, PushPulled, PublishClone
    <3> QED
      BY <1>7, <2>1, <3>1, PushSameRevision DEF PushPulled, PublishClone, driveVars
  <2> QED
    BY <2>1
<1>8. ASSUME NEW p \in Path, PullFile(p)
      PROVE  PulledIsHeld'
  <2>1. ASSUME head.status \in Verified, ~regressed, NEW q \in Lfs, Intact(drive[q], head.rev)
        PROVE  Intact(drive'[q], head.rev)
    BY <1>8, <2>1, PullsTheRevision DEF PullFile, TypeOK
  <2> QED
    BY <1>8, <2>1 DEF PullFile, workflowVars, cloneVars, historyVars
<1>9. ASSUME NEW p \in Path, PullAgain(p)
      PROVE  PulledIsHeld'
  <2>1. ASSUME head.status \in Verified, ~regressed, NEW q \in Lfs, Intact(drive[q], head.rev)
        PROVE  Intact(drive'[q], head.rev)
    BY <1>9, <2>1, PullsTheRevision DEF PullAgain, TypeOK
  <2> QED
    BY <1>9, <2>1 DEF PullAgain, workflowVars, cloneVars, historyVars
<1>10. ASSUME NEW tool \in {"verify_local", "reclaim"}, BeginScan(tool)
      PROVE  PulledIsHeld'
  BY <1>10 DEF BeginScan, workflowVars, cloneVars, driveVars, historyVars
<1>11. CASE ScanFile
  BY <1>11 DEF ScanFile, workflowVars, cloneVars, driveVars, historyVars
<1>12. CASE EndVerify
  BY <1>12 DEF EndVerify, Scanned, workflowVars, historyVars
<1>13. CASE EndReclaimScan
  BY <1>13 DEF EndReclaimScan, Scanned, workflowVars, cloneVars, driveVars, historyVars
<1>14. CASE StopScan
  BY <1>14 DEF StopScan, workflowVars, cloneVars, driveVars, historyVars
<1>15. ASSUME NEW p \in Path, DeleteFile(p)
      PROVE  PulledIsHeld'
  BY <1>15 DEF DeleteFile, cloneVars, driveVars
<1>16. CASE StopReclaim
  BY <1>16 DEF StopReclaim, workflowVars, cloneVars, driveVars, historyVars
<1>17. CASE UNCHANGED vars
  BY <1>17 DEF vars, workflowVars, cloneVars, driveVars, historyVars
<1> QED
  BY <1>1, <1>2, <1>3, <1>4, <1>5, <1>6, <1>7, <1>8, <1>9,
     <1>10, <1>11, <1>12, <1>13, <1>14, <1>15, <1>16, <1>17 DEF Next, Workflows, Operator, Hashing

LEMMA StepIInv == IInv /\ [Next]_vars => IInv'
BY StepTypeOK, StepHeadShape, StepVerifiedRevisions, StepKeptCopies, StepConfirmedObjects,
   StepHeldCopies, StepNothingLost, StepPulledIsHeld DEF IInv

-----------------------------------------------------------------------------
(* Theorems                                                                *)

\* Whatever the operator and the workflows do in whatever order, the published
\* job, the bucket, the clone, the drive and the running scripts are in step.
THEOREM LocalInvariance == Spec => []IInv
<1>1. Init => IInv
  BY InitIInv
<1>2. IInv /\ [Next]_vars => IInv'
  BY StepIInv
<1> QED
  BY <1>1, <1>2, PTL DEF Spec

\* Every store keeps its shape, a reclaim never runs with nothing to delete, and
\* what it overtook are confirmed objects.
THEOREM LocalTypeCorrect == Spec => []TypeOK
<1>1. IInv => TypeOK
  BY DEF IInv
<1> QED
  BY <1>1, LocalInvariance, PTL

\* An LFS file of a verified job is in the bucket or on the drive, but for the
\* two ways to lose it that NothingLost names.
THEOREM NothingIsLost == Spec => []NothingLost
<1>1. IInv => NothingLost
  BY DEF IInv
<1> QED
  BY <1>1, LocalInvariance, PTL

\* A published `pulled' is backed by verified copies on the drive, but for the
\* one saved over the job of a newer revision.
THEOREM PulledStaysHeld == Spec => []PulledIsHeld
<1>1. IInv => PulledIsHeld
  BY DEF IInv
<1> QED
  BY <1>1, LocalInvariance, PTL

\* Only reclaim.sh moves its own plan on, so only a plan that is being carried
\* out deletes under ReclaimKeepsACopy.
LEMMA DeletedWasKept ==
    ASSUME IInv, [Next]_vars
    PROVE  \A p \in Lfs :
              /\ plan # NoPlan
              /\ plan' # plan
              /\ Intact(r2[p], plan.rev)
              /\ r2'[p] = NoObject
              => Intact(drive'[p], plan.rev)
<1> SUFFICES ASSUME NEW q \in Lfs, plan # NoPlan, plan' # plan, Intact(r2[q], plan.rev),
                    r2'[q] = NoObject
             PROVE  Intact(drive'[q], plan.rev)
  OBVIOUS
<1> USE ObjectsAssumption
<1>1. r2[q] # NoObject
  BY DEF Intact
<1>2. ASSUME NEW p \in Path, DeleteFile(p)
      PROVE  Intact(drive'[q], plan.rev)
  <2>1. p = q
    BY <1>1, <1>2 DEF DeleteFile, IInv, TypeOK
  <2> QED
    BY <1>2, <2>1 DEF DeleteFile, IInv, KeptCopies, Kept, driveVars
<1>3. ASSUME ~\E p \in Path : DeleteFile(p)
      PROVE  FALSE
  BY <1>1, <1>3 DEF Next, Workflows, Operator, Hashing, PlanRevision, Publish, Change, Confirm,
     Reopen, Fail, Refresh, PushPulled, PublishClone, StopReclaim, PullFile, PullAgain,
     BeginScan, ScanFile, EndVerify, EndReclaimScan, Scanned, StopScan, vars, workflowVars,
     cloneVars, driveVars, historyVars
<1> QED
  BY <1>2, <1>3

\* What a reclaim deletes of the revision it verified against is still on the
\* drive at that moment.
THEOREM ReclaimKeeps == Spec => ReclaimKeepsACopy
<1>1. IInv /\ [Next]_vars => [\A p \in Lfs :
          /\ plan # NoPlan
          /\ plan' # plan
          /\ Intact(r2[p], plan.rev)
          /\ r2'[p] = NoObject
          => Intact(drive'[p], plan.rev)]_vars
  BY DeletedWasKept
<1> QED
  BY <1>1, LocalInvariance, PTL DEF Spec, ReclaimKeepsACopy
=============================================================================

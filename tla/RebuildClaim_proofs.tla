------------------------- MODULE RebuildClaim_proofs -------------------------
(***************************************************************************)
(* Proofs about RebuildClaim, for every set of jobs and every bound.       *)
(***************************************************************************)
EXTENDS RebuildClaim, TLAPS

-----------------------------------------------------------------------------
(* Type correctness.                                                       *)

\* The parts of the prepare transaction build well-typed values.
LEMMA PrepareTypes ==
    ASSUME TypeOK, NEW j \in Job
    PROVE  /\ JobsAfterReclaim \in [Job -> Status]
           /\ Holder \in Job \cup {None}
           /\ Target(j) \in Generation
           /\ Snapshot(j) \in Plan
           /\ Free \in Claim
           /\ NoBuild \in Build
           /\ NoPlan \in Plan
<1>1. JobsAfterReclaim \in [Job -> Status]
  BY DEF JobsAfterReclaim, OwnerGone, TypeOK, Status
<1>2. Holder \in Job \cup {None}
  BY DEF Holder, TypeOK, Claim
<1>3. Target(j) \in Generation
  BY DEF Target, TypeOK, Claim
<1>4. Snapshot(j) \in Plan
  BY <1>3 DEF Snapshot, Plan, TypeOK
<1>5. Free \in Claim /\ NoBuild \in Build /\ NoPlan \in Plan
  BY BoundAssumption DEF Free, Claim, NoBuild, Build, NoPlan, Plan, Generation
<1> QED  BY <1>1, <1>2, <1>3, <1>4, <1>5

LEMMA SkipTypes ==
    ASSUME TypeOK, NEW j \in Job, SkipTxn(j)
    PROVE  /\ claim' \in Claim /\ expired' \in BOOLEAN
           /\ jobs' \in [Job -> Status] /\ recorded' \subseteq Job
BY PrepareTypes DEF SkipTxn, TypeOK, Status

LEMMA ClaimTypes ==
    ASSUME TypeOK, NEW j \in Job, ClaimTxn(j)
    PROVE  /\ claim' \in Claim /\ expired' \in BOOLEAN
           /\ jobs' \in [Job -> Status] /\ recorded' \subseteq Job
BY PrepareTypes DEF ClaimTxn, TypeOK, Status, Claim

LEMMA FinishTypes ==
    ASSUME TypeOK, NEW j \in Job, NEW outcome \in Ended, Finish(j, outcome)
    PROVE  pc' \in [Job -> PC] /\ plan' \in [Job -> Plan] /\ draft' \in [Job -> Plan]
BY PrepareTypes DEF Finish, TypeOK, PC

LEMMA CommitTypes ==
    ASSUME TypeOK, NEW j \in Job, NEW p \in Plan, CommitTxn(j, p)
    PROVE  /\ active' \in Generation /\ settled' \in BOOLEAN /\ activeBuild' \in Build
           /\ jobs' \in [Job -> Status] /\ claim' \in Claim /\ expired' \in BOOLEAN
BY PrepareTypes DEF CommitTxn, TypeOK, Plan, Build, Status

LEMMA FailTypes ==
    ASSUME TypeOK, NEW j \in Job, NEW status \in Status, FailTxn(j, status)
    PROVE  jobs' \in [Job -> Status] /\ claim' \in Claim /\ expired' \in BOOLEAN
BY PrepareTypes DEF FailTxn, TypeOK

\* Publishing and building write one entry of one job.
LEMMA PublishTypes ==
    ASSUME TypeOK, NEW j \in Job, NEW p \in Plan, PublishTxn(j, p)
    PROVE  planned' \in [Job -> [Generation -> Content]]
BY DEF PublishTxn, TypeOK, Plan, Content

LEMMA BuildTypes ==
    ASSUME TypeOK, NEW j \in Job, NEW p \in Plan, BuildTxn(j, p)
    PROVE  built' \in [Job -> [Generation -> Content]]
BY DEF BuildTxn, TypeOK, Plan

LEMMA AttemptTypes ==
    ASSUME TypeOK, NEW j \in Job, Running(j)
    PROVE  CurrentAttempt(j) \in Attempt
BY PrepareTypes DEF CurrentAttempt, Running, TypeOK, Attempt, Activity, PC

LEMMA StrayTypes ==
    ASSUME TypeOK, NEW a \in stray
    PROVE  a \in Attempt /\ a.job \in Job /\ a.at \in Activity /\ a.plan \in Plan
BY DEF TypeOK, Attempt

\* TypeOK is inductive.
LEMMA TypeStep ==
    ASSUME TypeOK, [Next]_vars
    PROVE  TypeOK'
<1> USE DEF row, artifacts, api, run
<1>1. ASSUME Environment PROVE TypeOK'
  <2>1. CASE MarkDirty
    <3>1. desired' \in Generation
      BY <2>1, BoundAssumption DEF MarkDirty, TypeOK, Generation
    <3>2. settled' \in BOOLEAN /\ barren' \in BOOLEAN
      BY <2>1 DEF MarkDirty
    <3> QED  BY <2>1, <3>1, <3>2 DEF MarkDirty, TypeOK
  <2>2. CASE Settle
    BY <2>2 DEF Settle, TypeOK
  <2>3. CASE ExpireOrphanClaim
    BY <2>3 DEF ExpireOrphanClaim, ClaimTimeout, TypeOK
  <2>4. CASE ExpireLiveClaim
    BY <2>4, BoundAssumption DEF ExpireLiveClaim, ClaimTimeout, TypeOK
  <2> QED  BY <1>1, <2>1, <2>2, <2>3, <2>4 DEF Environment
<1>2. ASSUME NEW j \in Job, Trigger(j) PROVE TypeOK'
  BY <1>2
  DEF Trigger, CreateRebuild, StartWorkflow, RecordWorkflowId, ScheduleTick, TypeOK, PC, Activity,
      Status
<1>3. ASSUME NEW j \in Job, Workflow(j) PROVE TypeOK'
  <2>1. CASE PrepareBusy(j)
    <3>1. CASE Finish(j, "busy")
      BY <2>1, <3>1, FinishTypes DEF PrepareBusy, TypeOK, Ended
    <3>2. CASE pc' = [pc EXCEPT ![j] = "build"] /\ UNCHANGED <<plan, draft>>
      BY <2>1, <3>2 DEF PrepareBusy, TypeOK, PC, Activity
    <3> QED  BY <2>1, <3>1, <3>2 DEF PrepareBusy
  <2>2. CASE PrepareSkip(j)
    <3>1. PICK outcome \in Ended : Finish(j, outcome)
      BY <2>2 DEF PrepareSkip, Ended
    <3> QED  BY <2>2, <3>1, FinishTypes, SkipTypes DEF PrepareSkip, TypeOK
  <2>3. CASE PrepareBuild(j)
    BY <2>3, ClaimTypes, PrepareTypes DEF PrepareBuild, TypeOK, PC, Activity
  <2>4. CASE Publish(j)
    BY <2>4, PublishTypes, PrepareTypes DEF Publish, TypeOK, PC, Activity
  <2>5. CASE Seal(j)
    BY <2>5 DEF Seal, TypeOK, PC, Activity
  <2>6. CASE BuildIndex(j)
    BY <2>6, BuildTypes DEF BuildIndex, TypeOK, PC, Activity
  <2>7. CASE Activate(j)
    <3>1. plan[j] \in Plan
      BY DEF TypeOK
    <3>2. Finish(j, "done") /\ "done" \in Ended
      BY <2>7 DEF Activate, Ended
    <3>3. CASE CommitTxn(j, plan[j])
      BY <2>7, <3>1, <3>2, <3>3, FinishTypes, CommitTypes DEF Activate, TypeOK
    <3>4. CASE UNCHANGED <<active, settled, activeBuild, jobs, claim, expired>>
      BY <2>7, <3>2, <3>4, FinishTypes DEF Activate, TypeOK
    <3> QED  BY <2>7, <3>3, <3>4 DEF Activate
  <2> QED  BY <1>3, <2>1, <2>2, <2>3, <2>4, <2>5, <2>6, <2>7 DEF Workflow
<1>4. ASSUME NEW j \in Job, Failure(j) PROVE TypeOK'
  <2>0. "failed" \in Ended /\ "FAILED" \in Status
    BY DEF Ended, Status
  <2>1. CASE GiveUp(j)
    BY <2>0, <2>1, FinishTypes, FailTypes, BoundAssumption DEF GiveUp, TypeOK
  <2>2. CASE LoseLastAttempt(j)
    BY <2>0, <2>2, FinishTypes, BoundAssumption DEF LoseLastAttempt, TypeOK
  <2>3. CASE Abandon(j)
    BY <2>3, AttemptTypes, PrepareTypes, BoundAssumption
    DEF Abandon, TypeOK, Restart, PC, Activity, Running
  <2> QED  BY <1>4, <2>1, <2>2, <2>3 DEF Failure
<1>5. ASSUME NEW a \in stray, Stray(a) PROVE TypeOK'
  <2>0. a \in Attempt /\ a.job \in Job /\ a.plan \in Plan /\ (stray \ {a}) \subseteq Attempt
    BY StrayTypes DEF TypeOK
  <2>1. CASE StrayPrepare(a)
    <3>1. CASE SkipTxn(a.job) /\ stray' = stray \ {a}
      BY <2>0, <2>1, <3>1, SkipTypes DEF StrayPrepare, TypeOK
    <3>2. CASE ClaimTxn(a.job)
               /\ stray' = (stray \ {a}) \cup {[a EXCEPT !.at = "publish", !.plan = Snapshot(a.job)]}
      <4>1. [a EXCEPT !.at = "publish", !.plan = Snapshot(a.job)] \in Attempt
        BY <2>0, PrepareTypes DEF Attempt, Activity
      <4> QED  BY <2>0, <2>1, <3>2, <4>1, ClaimTypes DEF StrayPrepare, TypeOK
    <3>3. CASE stray' = stray \ {a} /\ UNCHANGED <<claim, expired, jobs, recorded>>
      BY <2>0, <2>1, <3>3 DEF StrayPrepare, TypeOK
    <3> QED  BY <2>1, <3>1, <3>2, <3>3 DEF StrayPrepare
  <2>2. CASE StrayPublish(a)
    BY <2>0, <2>2, PublishTypes DEF StrayPublish, TypeOK
  <2>3. CASE StrayBuild(a)
    BY <2>0, <2>3, BuildTypes DEF StrayBuild, TypeOK
  <2>4. CASE StrayActivate(a)
    BY <2>0, <2>4, CommitTypes DEF StrayActivate, TypeOK
  <2>5. CASE StrayCancelled(a)
    <3>1. "CANCELLED" \in Status
      BY DEF Status
    <3> QED  BY <2>0, <2>5, <3>1, FailTypes DEF StrayCancelled, TypeOK
  <2> QED  BY <1>5, <2>1, <2>2, <2>3, <2>4, <2>5 DEF Stray
<1>6. ASSUME NEW j \in Job, Cancel(j) PROVE TypeOK'
  <2>1. CASE RequestCancellation(j)
    BY <2>1, BoundAssumption DEF RequestCancellation, TypeOK, Cancelling
  <2>2. CASE CancelWorkflow(j)
    <3>1. "cancelled" \in Ended
      BY DEF Ended
    <3>2. CASE Running(j)
      BY <2>2, <3>1, <3>2, FinishTypes, AttemptTypes DEF CancelWorkflow, TypeOK, Cancelling
    <3>3. CASE ~Running(j)
      BY <2>2, <3>3 DEF CancelWorkflow, TypeOK, Cancelling
    <3> QED  BY <3>2, <3>3
  <2>3. CASE MarkCancelled(j)
    BY <2>3 DEF MarkCancelled, TypeOK, Cancelling, Status
  <2>4. CASE ReleaseClaim(j)
    BY <2>4, PrepareTypes DEF ReleaseClaim, TypeOK, Cancelling
  <2> QED  BY <1>6, <2>1, <2>2, <2>3, <2>4 DEF Cancel
<1>7. ASSUME UNCHANGED vars PROVE TypeOK'
  BY <1>7 DEF vars, TypeOK
<1> QED  BY <1>1, <1>2, <1>3, <1>4, <1>5, <1>6, <1>7 DEF Next

LEMMA TypeInit ==
    ASSUME Init
    PROVE  TypeOK
<1>1. 0 \in Generation /\ 1 \in Generation /\ 0 \in 0..MaxFaults
  BY BoundAssumption DEF Generation
<1>2. Free \in Claim /\ NoBuild \in Build /\ NoPlan \in Plan
  BY <1>1 DEF Free, Claim, NoBuild, Build, NoPlan, Plan
<1>3. planned \in [Job -> [Generation -> Content]] /\ built \in [Job -> [Generation -> Content]]
  BY DEF Init, Content
<1>4. jobs \in [Job -> Status] /\ pc \in [Job -> PC] /\ cancelling \in [Job -> Cancelling]
  BY DEF Init, Status, PC, Cancelling
<1>5. plan \in [Job -> Plan] /\ draft \in [Job -> Plan]
  BY <1>2 DEF Init
<1> QED  BY <1>1, <1>2, <1>3, <1>4, <1>5 DEF Init, TypeOK

\* Every variable keeps its type: the statuses, claims, plans and attempts are
\* ones the tables and the workflow inputs can hold.
THEOREM TypeCorrect == Spec => []TypeOK
<1>1. Init => TypeOK
  BY TypeInit
<1>2. TypeOK /\ [Next]_vars => TypeOK'
  BY TypeStep
<1> QED  BY <1>1, <1>2, PTL DEF Spec

-----------------------------------------------------------------------------
(* What a step does to the row, and where plans come from.                 *)

\* The statements of the row that a step may execute.
RowKept == UNCHANGED <<active, claim, activeBuild>>
RowFreed == claim' = Free /\ UNCHANGED <<active, activeBuild>>
RowClaimed(j) == ~Busy(j) /\ ClaimTxn(j) /\ UNCHANGED <<active, activeBuild>>

\* An attempt at activation: the current one of a run, or an abandoned one.
Activating(j, p) ==
    \/ pc[j] = "activate" /\ p = plan[j]
    \/ \E a \in stray : a.at = "activate" /\ a.job = j /\ a.plan = p

RowEffect ==
    \/ RowKept
    \/ RowFreed
    \/ \E j \in Job : RowClaimed(j)
    \/ \E j \in Job, p \in Plan : Activating(j, p) /\ CommitTxn(j, p)

\* Every step but a change of the corpus leaves the corpus alone and executes
\* one of these statements.
LEMMA RowSteps ==
    ASSUME TypeOK, [Next]_vars
    PROVE  \/ MarkDirty
           \/ UNCHANGED <<desired, barren>> /\ RowEffect
<1> USE DEF row, artifacts, api, run
<1>a. ASSUME NEW j \in Job, SkipTxn(j), UNCHANGED <<active, activeBuild>> PROVE RowEffect
  BY <1>a DEF SkipTxn, RowEffect, RowKept, RowFreed
<1>b. ASSUME NEW j \in Job, NEW status, FailTxn(j, status), UNCHANGED <<active, activeBuild>>
      PROVE RowEffect
  BY <1>b DEF FailTxn, RowEffect, RowKept, RowFreed
<1>1. CASE Environment
  BY <1>1
  DEF Environment, Settle, ExpireOrphanClaim, ExpireLiveClaim, ClaimTimeout, RowEffect, RowKept
<1>2. ASSUME NEW j \in Job, Trigger(j) PROVE UNCHANGED <<desired, barren>> /\ RowEffect
  BY <1>2
  DEF Trigger, CreateRebuild, StartWorkflow, RecordWorkflowId, ScheduleTick, RowEffect, RowKept
<1>3. ASSUME NEW j \in Job, Workflow(j) PROVE UNCHANGED <<desired, barren>> /\ RowEffect
  <2>1. CASE PrepareBusy(j)
    BY <2>1 DEF PrepareBusy, RowEffect, RowKept
  <2>2. CASE PrepareSkip(j)
    BY <1>a, <2>2 DEF PrepareSkip
  <2>3. CASE PrepareBuild(j)
    BY <2>3 DEF PrepareBuild, Buildable, RowEffect, RowClaimed
  <2>4. CASE Publish(j)
    BY <2>4 DEF Publish, RowEffect, RowKept
  <2>5. CASE Seal(j)
    BY <2>5 DEF Seal, RowEffect, RowKept
  <2>6. CASE BuildIndex(j)
    BY <2>6 DEF BuildIndex, RowEffect, RowKept
  <2>7. CASE Activate(j)
    <3>1. plan[j] \in Plan
      BY DEF TypeOK
    <3>2. CASE CommitTxn(j, plan[j])
      BY <2>7, <3>1, <3>2 DEF Activate, RowEffect, Activating
    <3>3. CASE UNCHANGED <<active, settled, activeBuild, jobs, claim, expired>>
      BY <2>7, <3>3 DEF Activate, RowEffect, RowKept
    <3> QED  BY <2>7, <3>2, <3>3 DEF Activate
  <2> QED  BY <1>3, <2>1, <2>2, <2>3, <2>4, <2>5, <2>6, <2>7 DEF Workflow
<1>4. ASSUME NEW j \in Job, Failure(j) PROVE UNCHANGED <<desired, barren>> /\ RowEffect
  BY <1>4, <1>b DEF Failure, GiveUp, LoseLastAttempt, Abandon, RowEffect, RowKept
<1>5. ASSUME NEW a \in stray, Stray(a) PROVE UNCHANGED <<desired, barren>> /\ RowEffect
  <2>0. a.job \in Job /\ a.plan \in Plan
    BY StrayTypes
  <2>1. CASE StrayPrepare(a)
    <3>1. CASE SkipTxn(a.job)
      BY <1>a, <2>0, <2>1, <3>1 DEF StrayPrepare
    <3>2. CASE Buildable(a.job, a.at) /\ ClaimTxn(a.job)
      BY <2>0, <2>1, <3>2 DEF StrayPrepare, Buildable, RowEffect, RowClaimed
    <3>3. CASE UNCHANGED <<claim, expired, jobs, recorded>>
      BY <2>1, <3>3 DEF StrayPrepare, RowEffect, RowKept
    <3> QED  BY <2>1, <3>1, <3>2, <3>3 DEF StrayPrepare
  <2>2. CASE StrayPublish(a)
    BY <2>2 DEF StrayPublish, RowEffect, RowKept
  <2>3. CASE StrayBuild(a)
    BY <2>3 DEF StrayBuild, RowEffect, RowKept
  <2>4. CASE StrayActivate(a)
    BY <2>0, <2>4 DEF StrayActivate, RowEffect, Activating
  <2>5. CASE StrayCancelled(a)
    BY <1>b, <2>0, <2>5 DEF StrayCancelled
  <2> QED  BY <1>5, <2>1, <2>2, <2>3, <2>4, <2>5 DEF Stray
<1>6. ASSUME NEW j \in Job, Cancel(j) PROVE UNCHANGED <<desired, barren>> /\ RowEffect
  BY <1>6
  DEF Cancel, RequestCancellation, CancelWorkflow, MarkCancelled, ReleaseClaim, RowEffect, RowKept,
      RowFreed
<1>7. CASE UNCHANGED vars
  BY <1>7 DEF vars, RowEffect, RowKept
<1> QED  BY <1>1, <1>2, <1>3, <1>4, <1>5, <1>6, <1>7 DEF Next, Environment

\* The row never names a target outside active..desired.
LEMMA RowStep ==
    ASSUME TypeOK, RowInv, [Next]_vars
    PROVE  RowInv'
<1> USE DEF TypeOK, Claim, Generation
<1>1. CASE MarkDirty
  BY <1>1 DEF MarkDirty, RowInv, Free
<1>2. CASE UNCHANGED desired /\ RowKept
  BY <1>2 DEF RowKept, RowInv, Free
<1>3. CASE UNCHANGED desired /\ RowFreed
  BY <1>3 DEF RowFreed, RowInv, Free
<1>4. ASSUME NEW j \in Job, UNCHANGED desired, RowClaimed(j) PROVE RowInv'
  <2>1. claim'.job = j /\ j # None /\ claim'.target = Target(j) /\ UNCHANGED active
    BY <1>4, JobAssumption DEF RowClaimed, ClaimTxn
  <2>2. CASE Holder = j
    BY <1>4, <2>1, <2>2 DEF Holder, Target, RowInv
  <2>3. CASE Holder # j
    BY <1>4, <2>1, <2>3 DEF Target, RowInv
  <2> QED  BY <2>2, <2>3
<1>5. ASSUME NEW j \in Job, NEW p \in Plan, UNCHANGED desired, CommitTxn(j, p) PROVE RowInv'
  <2>1. claim = [job |-> j, target |-> p.gen] /\ j # None
    BY <1>5, JobAssumption DEF CommitTxn, Owns
  <2> QED  BY <1>5, <2>1 DEF CommitTxn, RowInv, Free
<1> QED  BY RowSteps, <1>1, <1>2, <1>3, <1>4, <1>5 DEF RowEffect

-----------------------------------------------------------------------------
(* The job rows.                                                           *)

\* No step deletes a row, and only its creation inserts that of a manual job.
RowsKept == \A k \in Job : jobs[k] # "ABSENT" => jobs'[k] # "ABSENT"
ManualKept == \A k \in Manual : jobs[k] = "ABSENT" => jobs'[k] = "ABSENT" \/ CreateRebuild(k)

LEMMA JobRows ==
    ASSUME TypeOK, JobInv, [Next]_vars
    PROVE  RowsKept /\ ManualKept
<1> USE JobAssumption DEF row, artifacts, api, run, RowsKept, ManualKept, TypeOK
<1>a. ASSUME NEW j \in Job, j \in Manual => jobs[j] # "ABSENT", SkipTxn(j) \/ ClaimTxn(j)
      PROVE RowsKept /\ ManualKept
  <2>1. PICK kept \in [Job -> Status] :
          kept = JobsAfterReclaim /\ \A k \in Job : jobs[k] # "ABSENT" <=> kept[k] # "ABSENT"
    <3>1. OwnerGone => claim.job \in Job /\ jobs[claim.job] # "ABSENT"
      BY DEF OwnerGone, JobInv, Claim
    <3>2. JobsAfterReclaim \in [Job -> Status]
      BY <3>1 DEF JobsAfterReclaim, Status
    <3>3. \A k \in Job : jobs[k] # "ABSENT" <=> JobsAfterReclaim[k] # "ABSENT"
      BY <3>1 DEF JobsAfterReclaim
    <3> QED BY <3>2, <3>3
  <2>2. jobs' = kept \/ \E s \in {"COMPLETED", "RUNNING"} : jobs' = [kept EXCEPT ![j] = s]
    BY <1>a, <2>1 DEF SkipTxn, ClaimTxn
  <2> QED BY <1>a, <2>1, <2>2
<1>b. ASSUME NEW j \in Job, NEW status, status # "ABSENT", FailTxn(j, status)
      PROVE RowsKept /\ ManualKept
  BY <1>b DEF FailTxn, JobInv
<1>c. ASSUME NEW j \in Job, NEW p, CommitTxn(j, p) PROVE RowsKept /\ ManualKept
  BY <1>c DEF CommitTxn, Owns, JobInv
<1>d. ASSUME UNCHANGED jobs PROVE RowsKept /\ ManualKept
  BY <1>d
<1>e. ASSUME NEW j \in Job, Running(j), j \in Manual PROVE jobs[j] # "ABSENT"
  BY <1>e DEF Running, Activity, JobInv
<1>1. CASE Environment
  BY <1>1, <1>d
  DEF Environment, MarkDirty, Settle, ExpireOrphanClaim, ExpireLiveClaim, ClaimTimeout
<1>2. ASSUME NEW j \in Job, Trigger(j) PROVE RowsKept /\ ManualKept
  <2>1. CASE CreateRebuild(j)
    BY <2>1 DEF CreateRebuild
  <2>2. CASE StartWorkflow(j) \/ RecordWorkflowId(j) \/ ScheduleTick(j)
    BY <2>2, <1>d DEF StartWorkflow, RecordWorkflowId, ScheduleTick
  <2> QED  BY <1>2, <2>1, <2>2 DEF Trigger
<1>3. ASSUME NEW j \in Job, Workflow(j) PROVE RowsKept /\ ManualKept
  <2>1. CASE PrepareSkip(j) \/ PrepareBuild(j)
    BY <2>1, <1>a, <1>e DEF PrepareSkip, PrepareBuild, Running, Preparing, Activity
  <2>2. CASE Activate(j)
    BY <2>2, <1>c, <1>d DEF Activate
  <2>3. CASE PrepareBusy(j) \/ Publish(j) \/ Seal(j) \/ BuildIndex(j)
    BY <2>3, <1>d DEF PrepareBusy, Publish, Seal, BuildIndex
  <2> QED  BY <1>3, <2>1, <2>2, <2>3 DEF Workflow
<1>4. ASSUME NEW j \in Job, Failure(j) PROVE RowsKept /\ ManualKept
  BY <1>4, <1>b, <1>d DEF Failure, GiveUp, LoseLastAttempt, Abandon
<1>5. ASSUME NEW a \in stray, Stray(a) PROVE RowsKept /\ ManualKept
  <2>0. a.job \in Job /\ (a.job \in Manual => jobs[a.job] # "ABSENT")
    BY StrayTypes DEF JobInv
  <2>1. CASE StrayPrepare(a)
    BY <2>0, <2>1, <1>a, <1>d DEF StrayPrepare
  <2>2. CASE StrayPublish(a) \/ StrayBuild(a)
    BY <2>2, <1>d DEF StrayPublish, StrayBuild
  <2>3. CASE StrayActivate(a)
    BY <2>0, <2>3, <1>c DEF StrayActivate
  <2>4. CASE StrayCancelled(a)
    BY <2>0, <2>4, <1>b DEF StrayCancelled
  <2> QED  BY <1>5, <2>1, <2>2, <2>3, <2>4 DEF Stray
<1>6. ASSUME NEW j \in Job, Cancel(j) PROVE RowsKept /\ ManualKept
  <2>1. CASE MarkCancelled(j)
    BY <2>1 DEF MarkCancelled, JobInv
  <2>2. CASE RequestCancellation(j) \/ CancelWorkflow(j) \/ ReleaseClaim(j)
    BY <2>2, <1>d DEF RequestCancellation, CancelWorkflow, ReleaseClaim
  <2> QED  BY <1>6, <2>1, <2>2 DEF Cancel
<1>7. CASE UNCHANGED vars
  BY <1>7, <1>d DEF vars
<1> QED  BY <1>1, <1>2, <1>3, <1>4, <1>5, <1>6, <1>7 DEF Next

\* A manual run starts with the insertion of its job and never returns there.
LEMMA ManualRuns ==
    ASSUME TypeOK, JobInv, [Next]_vars, NEW k \in Manual
    PROVE  pc'[k] = "none" <=> pc[k] = "none" /\ ~CreateRebuild(k)
<1> USE JobAssumption DEF row, artifacts, api, run
<1> DEFINE Goal == pc'[k] = "none" <=> pc[k] = "none" /\ ~CreateRebuild(k)
<1>0. pc \in [Job -> PC] /\ k \in Job
  BY DEF TypeOK
<1>1. CASE CreateRebuild(k)
  BY <1>0, <1>1 DEF CreateRebuild
<1>2. SUFFICES ASSUME ~CreateRebuild(k) PROVE pc'[k] = "none" <=> pc[k] = "none"
  BY <1>1
<1>a. ASSUME NEW j \in Job, Running(j), NEW outcome \in Ended, Finish(j, outcome)
      PROVE pc'[k] = "none" <=> pc[k] = "none"
  <2>1. CASE j = k
    <3>1. pc[k] # "none" /\ jobs[k] # "ABSENT"
      BY <1>a, <2>1 DEF Running, Activity, JobInv
    <3> QED  BY <1>0, <1>a, <2>1, <3>1 DEF Finish, Traceless, Ended
  <2> QED  BY <1>0, <1>a, <2>1 DEF Finish
<1>3. CASE Environment
  BY <1>3 DEF Environment, MarkDirty, Settle, ExpireOrphanClaim, ExpireLiveClaim, ClaimTimeout
<1>4. ASSUME NEW j \in Job, Trigger(j) PROVE pc'[k] = "none" <=> pc[k] = "none"
  BY <1>0, <1>2, <1>4
  DEF Trigger, CreateRebuild, StartWorkflow, RecordWorkflowId, ScheduleTick, Scheduled
<1>5. ASSUME NEW j \in Job, Workflow(j) PROVE pc'[k] = "none" <=> pc[k] = "none"
  <2>0. Running(j)
    BY <1>5
    DEF Workflow, PrepareBusy, PrepareSkip, PrepareBuild, Publish, Seal, BuildIndex, Activate,
        Running, Activity, Preparing, Publishing
  <2>1. CASE PrepareBusy(j) \/ PrepareSkip(j)
    BY <1>0, <1>a, <2>0, <2>1 DEF PrepareBusy, PrepareSkip, Ended
  <2>2. CASE Activate(j)
    BY <1>a, <2>0, <2>2 DEF Activate, Ended
  <2>3. CASE PrepareBuild(j) \/ Publish(j) \/ Seal(j) \/ BuildIndex(j)
    BY <1>0, <2>0, <2>3 DEF PrepareBuild, Publish, Seal, BuildIndex, Running, Activity
  <2> QED  BY <1>5, <2>1, <2>2, <2>3 DEF Workflow
<1>6. ASSUME NEW j \in Job, Failure(j) PROVE pc'[k] = "none" <=> pc[k] = "none"
  <2>1. CASE GiveUp(j) \/ LoseLastAttempt(j)
    BY <1>a, <2>1 DEF GiveUp, LoseLastAttempt, Ended
  <2>2. CASE Abandon(j)
    BY <1>0, <2>2 DEF Abandon, Restart, Running, Activity
  <2> QED  BY <1>6, <2>1, <2>2 DEF Failure
<1>7. ASSUME NEW a \in stray, Stray(a) PROVE UNCHANGED pc
  BY <1>7 DEF Stray, StrayPrepare, StrayPublish, StrayBuild, StrayActivate, StrayCancelled
<1>8. ASSUME NEW j \in Job, Cancel(j) PROVE pc'[k] = "none" <=> pc[k] = "none"
  BY <1>8, <1>a
  DEF Cancel, RequestCancellation, CancelWorkflow, MarkCancelled, ReleaseClaim, Ended
<1>9. CASE UNCHANGED vars
  BY <1>9 DEF vars
<1> QED  BY <1>3, <1>4, <1>5, <1>6, <1>7, <1>8, <1>9 DEF Next

\* An abandoned attempt was one before, has just been left by a run, or goes on
\* from the prepare transaction to its publication.
ClaimedBy(j) == ClaimTxn(j) /\ UNCHANGED <<desired, barren, activeBuild>>
StrayFrom(b) ==
    \/ b \in stray
    \/ \E j \in Job : Running(j) /\ b = CurrentAttempt(j)
    \/ /\ \E a \in stray : a.job = b.job
       /\ b.at = "publish" /\ b.plan = Snapshot(b.job)
       /\ ClaimedBy(b.job)

LEMMA StrayOrigin ==
    ASSUME TypeOK, [Next]_vars, NEW b \in stray'
    PROVE  StrayFrom(b)
<1> USE DEF row, artifacts, api, run, StrayFrom
<1>a. CASE UNCHANGED stray
  BY <1>a
<1>1. CASE Environment
  BY <1>1, <1>a
  DEF Environment, MarkDirty, Settle, ExpireOrphanClaim, ExpireLiveClaim, ClaimTimeout
<1>2. ASSUME NEW j \in Job, Trigger(j) \/ Workflow(j) PROVE UNCHANGED stray
  BY <1>2
  DEF Trigger, CreateRebuild, StartWorkflow, RecordWorkflowId, ScheduleTick, Workflow, PrepareBusy,
      PrepareSkip, PrepareBuild, Publish, Seal, BuildIndex, Activate
<1>3. ASSUME NEW j \in Job, Failure(j) \/ Cancel(j)
      PROVE UNCHANGED stray \/ (Running(j) /\ stray' = stray \cup {CurrentAttempt(j)})
  BY <1>3
  DEF Failure, GiveUp, LoseLastAttempt, Abandon, Cancel, RequestCancellation, CancelWorkflow,
      MarkCancelled, ReleaseClaim
<1>4. ASSUME NEW a \in stray, Stray(a) PROVE StrayFrom(b)
  <2>1. CASE StrayPrepare(a)
    <3>1. CASE stray' = stray \ {a}
      BY <3>1
    <3>2. CASE /\ ClaimTxn(a.job)
               /\ stray' = (stray \ {a}) \cup {[a EXCEPT !.at = "publish", !.plan = Snapshot(a.job)]}
      <4>1. CASE b \in stray
        BY <4>1
      <4>2. CASE b = [a EXCEPT !.at = "publish", !.plan = Snapshot(a.job)]
        <5>1. b.job = a.job /\ b.at = "publish" /\ b.plan = Snapshot(a.job)
          BY <4>2, StrayTypes DEF Attempt
        <5> QED  BY <2>1, <3>2, <5>1 DEF StrayPrepare, ClaimedBy
      <4> QED  BY <3>2, <4>1, <4>2
    <3> QED  BY <2>1, <3>1, <3>2 DEF StrayPrepare
  <2>2. CASE StrayPublish(a) \/ StrayBuild(a) \/ StrayActivate(a) \/ StrayCancelled(a)
    BY <2>2 DEF StrayPublish, StrayBuild, StrayActivate, StrayCancelled
  <2> QED  BY <1>4, <2>1, <2>2 DEF Stray
<1>5. CASE UNCHANGED vars
  BY <1>5, <1>a DEF vars
<1> QED  BY <1>a, <1>1, <1>2, <1>3, <1>4, <1>5 DEF Next

LEMMA OnlyCancel ==
    ASSUME [Next]_vars
    PROVE  UNCHANGED cancelling \/ \E j \in Job : Cancel(j)
<1> USE DEF row, artifacts, api, run
<1>1. CASE Environment \/ UNCHANGED vars
  BY <1>1
  DEF Environment, MarkDirty, Settle, ExpireOrphanClaim, ExpireLiveClaim, ClaimTimeout, vars
<1>2. ASSUME NEW j \in Job, Trigger(j) \/ Workflow(j) PROVE UNCHANGED cancelling
  BY <1>2
  DEF Trigger, CreateRebuild, StartWorkflow, RecordWorkflowId, ScheduleTick, Workflow, PrepareBusy,
      PrepareSkip, PrepareBuild, Publish, Seal, BuildIndex, Activate
<1>3. ASSUME NEW j \in Job, Failure(j) PROVE UNCHANGED cancelling
  BY <1>3 DEF Failure, GiveUp, LoseLastAttempt, Abandon
<1>4. ASSUME NEW a \in stray, Stray(a) PROVE UNCHANGED cancelling
  BY <1>4 DEF Stray, StrayPrepare, StrayPublish, StrayBuild, StrayActivate, StrayCancelled
<1> QED  BY <1>1, <1>2, <1>3, <1>4 DEF Next

\* The job rows invariant is inductive.
LEMMA JobStep ==
    ASSUME TypeOK, JobInv, [Next]_vars
    PROVE  JobInv'
<1>0. TypeOK' /\ RowsKept /\ ManualKept
  BY TypeStep, JobRows
<1>1. claim'.job # None => jobs'[claim'.job] # "ABSENT"
  <2> USE DEF TypeOK, Claim
  <2>1. CASE claim' = claim
    BY <1>0, <2>1 DEF RowsKept, JobInv
  <2>2. CASE claim' = Free
    BY <2>2 DEF Free
  <2>3. ASSUME NEW j \in Job, ClaimTxn(j) PROVE jobs'[claim'.job] # "ABSENT"
    <3>1. JobsAfterReclaim \in [Job -> Status]
      BY PrepareTypes
    <3> QED  BY <2>3, <3>1 DEF ClaimTxn
  <2>4. CASE MarkDirty
    BY <2>1, <2>4 DEF MarkDirty
  <2> QED  BY RowSteps, <2>1, <2>2, <2>3, <2>4
           DEF RowEffect, RowKept, RowFreed, RowClaimed, CommitTxn
<1>2. ASSUME NEW j \in Job, cancelling'[j] # "idle" PROVE jobs'[j] # "ABSENT"
  <2>1. CASE cancelling[j] # "idle"
    BY <1>0, <2>1 DEF RowsKept, JobInv
  <2>2. CASE cancelling[j] = "idle"
    <3>1. RequestCancellation(j)
      <4> USE DEF TypeOK
      <4>1. ASSUME NEW k \in Job, Cancel(k) PROVE RequestCancellation(j)
        BY <1>2, <2>2, <4>1
        DEF Cancel, RequestCancellation, CancelWorkflow, MarkCancelled, ReleaseClaim
      <4>2. \E k \in Job : Cancel(k)
        BY <1>2, <2>2, OnlyCancel
      <4> QED  BY <4>1, <4>2
    <3> QED  BY <3>1 DEF RequestCancellation, row, TypeOK
  <2> QED  BY <2>1, <2>2
<1>3. ASSUME NEW k \in Manual PROVE jobs'[k] = "ABSENT" <=> pc'[k] = "none"
  <2>1. k \in Job /\ (jobs[k] = "ABSENT" <=> pc[k] = "none")
    BY JobAssumption DEF JobInv
  <2>2. CASE CreateRebuild(k)
    BY <2>1, <2>2 DEF CreateRebuild, TypeOK
  <2>3. CASE ~CreateRebuild(k)
    BY <1>0, <2>1, <2>3, ManualRuns DEF RowsKept, ManualKept
  <2> QED  BY <2>2, <2>3
<1>4. ASSUME NEW b \in stray', b.job \in Manual PROVE jobs'[b.job] # "ABSENT"
  <2>1. jobs[b.job] # "ABSENT"
    <3>1. ASSUME NEW j \in Job, Running(j), b = CurrentAttempt(j) PROVE jobs[b.job] # "ABSENT"
      BY <1>4, <3>1 DEF CurrentAttempt, Running, Activity, JobInv
    <3> QED  BY <1>4, <3>1, StrayOrigin DEF StrayFrom, JobInv
  <2> QED  BY <1>0, <1>4, <2>1, JobAssumption DEF RowsKept
<1> QED  BY <1>1, <1>2, <1>3, <1>4 DEF JobInv

-----------------------------------------------------------------------------
(* Plans and published artifacts.                                          *)

\* A run's plan comes from its draft, a draft from a snapshot.
PlanFrom(j) ==
    /\ \/ plan'[j] \in {plan[j], NoPlan}
       \/ Publish(j) /\ plan'[j] = draft[j]
    /\ \/ draft'[j] \in {draft[j], NoPlan}
       \/ ClaimedBy(j) /\ draft'[j] = Snapshot(j)
    /\ pc'[j] = "activate" =>
         \/ pc[j] = "activate" /\ plan'[j] = plan[j]
         \/ BuildIndex(j) /\ plan'[j] = plan[j]

LEMMA PlanOrigin ==
    ASSUME TypeOK, [Next]_vars, NEW j \in Job
    PROVE  PlanFrom(j)
<1> USE DEF row, artifacts, api, run
<1>0. pc \in [Job -> PC] /\ plan \in [Job -> Plan] /\ draft \in [Job -> Plan]
  BY DEF TypeOK
<1>a. CASE UNCHANGED run
  BY <1>a DEF PlanFrom
<1>b. ASSUME NEW k \in Job, NEW outcome \in Ended, Finish(k, outcome) PROVE PlanFrom(j)
  BY <1>0, <1>b DEF Finish, PlanFrom, Ended
<1>c. ASSUME NEW k \in Job, NEW at \in PC \ {"activate"}, pc' = [pc EXCEPT ![k] = at],
             UNCHANGED <<plan, draft>>
      PROVE PlanFrom(j)
  BY <1>0, <1>c DEF PlanFrom
<1>1. CASE Environment
  BY <1>1, <1>a
  DEF Environment, MarkDirty, Settle, ExpireOrphanClaim, ExpireLiveClaim, ClaimTimeout
<1>2. ASSUME NEW k \in Job, Trigger(k) PROVE PlanFrom(j)
  BY <1>2, <1>a, <1>c
  DEF Trigger, CreateRebuild, StartWorkflow, RecordWorkflowId, ScheduleTick, PC, Activity
<1>3. ASSUME NEW k \in Job, Workflow(k) PROVE PlanFrom(j)
  <2>1. CASE PrepareBusy(k)
    BY <2>1, <1>b, <1>c DEF PrepareBusy, PC, Activity, Ended
  <2>2. CASE PrepareSkip(k)
    BY <2>2, <1>b DEF PrepareSkip, Ended
  <2>3. CASE PrepareBuild(k)
    BY <1>0, <2>3 DEF PrepareBuild, PlanFrom, ClaimedBy
  <2>4. CASE Publish(k)
    BY <1>0, <2>4 DEF Publish, PlanFrom
  <2>5. CASE Seal(k)
    BY <2>5, <1>c DEF Seal, PC, Activity
  <2>6. CASE BuildIndex(k)
    BY <1>0, <2>6 DEF BuildIndex, PlanFrom
  <2>7. CASE Activate(k)
    BY <2>7, <1>b DEF Activate, Ended
  <2> QED  BY <1>3, <2>1, <2>2, <2>3, <2>4, <2>5, <2>6, <2>7 DEF Workflow
<1>4. ASSUME NEW k \in Job, Failure(k) PROVE PlanFrom(j)
  <2>1. CASE GiveUp(k) \/ LoseLastAttempt(k)
    BY <2>1, <1>b DEF GiveUp, LoseLastAttempt, Ended
  <2>2. CASE Abandon(k)
    BY <1>0, <2>2 DEF Abandon, Restart, PlanFrom
  <2> QED  BY <1>4, <2>1, <2>2 DEF Failure
<1>5. ASSUME NEW a \in stray, Stray(a) PROVE PlanFrom(j)
  BY <1>5, <1>a DEF Stray, StrayPrepare, StrayPublish, StrayBuild, StrayActivate, StrayCancelled
<1>6. ASSUME NEW k \in Job, Cancel(k) PROVE PlanFrom(j)
  BY <1>6, <1>a, <1>b
  DEF Cancel, RequestCancellation, CancelWorkflow, MarkCancelled, ReleaseClaim, Ended
<1>7. CASE UNCHANGED vars
  BY <1>7, <1>a DEF vars
<1> QED  BY <1>1, <1>2, <1>3, <1>4, <1>5, <1>6, <1>7 DEF Next

\* Job j carries plan p: in its run or in an abandoned attempt.
Carries(j, p) ==
    \/ p = plan[j]
    \/ p = draft[j]
    \/ \E a \in stray : a.job = j /\ a.plan = p

\* Artifacts change only by a publication or a build of a plan that is carried.
Building(j, p) ==
    \/ p = plan[j]
    \/ \E a \in stray : a.at = "build" /\ a.job = j /\ a.plan = p
WrittenBy(j, p) ==
    /\ Carries(j, p)
    /\ \/ PublishTxn(j, p) /\ UNCHANGED built
       \/ Building(j, p) /\ BuildTxn(j, p) /\ UNCHANGED planned
    /\ UNCHANGED desired

LEMMA ArtifactSteps ==
    ASSUME TypeOK, [Next]_vars
    PROVE  \/ UNCHANGED artifacts
           \/ \E j \in Job, p \in Plan : WrittenBy(j, p)
<1> USE DEF row, artifacts, api, run
<1>0. \A j \in Job : plan[j] \in Plan /\ draft[j] \in Plan
  BY DEF TypeOK
<1>1. CASE Environment \/ UNCHANGED vars
  BY <1>1
  DEF Environment, MarkDirty, Settle, ExpireOrphanClaim, ExpireLiveClaim, ClaimTimeout, vars
<1>2. ASSUME NEW j \in Job, Trigger(j) PROVE UNCHANGED artifacts
  BY <1>2 DEF Trigger, CreateRebuild, StartWorkflow, RecordWorkflowId, ScheduleTick
<1>3. ASSUME NEW j \in Job, Workflow(j)
      PROVE UNCHANGED artifacts \/ \E p \in Plan : WrittenBy(j, p)
  <2>1. CASE Publish(j)
    BY <1>0, <2>1 DEF Publish, WrittenBy, Carries
  <2>2. CASE BuildIndex(j)
    BY <1>0, <2>2 DEF BuildIndex, WrittenBy, Carries, Building
  <2>3. CASE PrepareBusy(j) \/ PrepareSkip(j) \/ PrepareBuild(j) \/ Seal(j) \/ Activate(j)
    BY <2>3 DEF PrepareBusy, PrepareSkip, PrepareBuild, Seal, Activate
  <2> QED  BY <1>3, <2>1, <2>2, <2>3 DEF Workflow
<1>4. ASSUME NEW j \in Job, Failure(j) \/ Cancel(j) PROVE UNCHANGED artifacts
  BY <1>4
  DEF Failure, GiveUp, LoseLastAttempt, Abandon, Cancel, RequestCancellation, CancelWorkflow,
      MarkCancelled, ReleaseClaim
<1>5. ASSUME NEW a \in stray, Stray(a)
      PROVE UNCHANGED artifacts \/ WrittenBy(a.job, a.plan)
  <2>1. CASE StrayPublish(a) \/ StrayBuild(a)
    BY <2>1 DEF StrayPublish, StrayBuild, WrittenBy, Carries, Building
  <2>2. CASE StrayPrepare(a) \/ StrayActivate(a) \/ StrayCancelled(a)
    BY <2>2 DEF StrayPrepare, StrayActivate, StrayCancelled
  <2> QED  BY <1>5, <2>1, <2>2 DEF Stray
<1>6. \A a \in stray : a.job \in Job /\ a.plan \in Plan
  BY StrayTypes
<1> QED  BY <1>1, <1>2, <1>3, <1>4, <1>5, <1>6 DEF Next

\* PlanInv speaks of every plan that is carried.
LEMMA CarriedSound ==
    ASSUME TypeOK, PlanInv, NEW j \in Job, NEW p, Carries(j, p)
    PROVE  p \in Plan /\ PlanSound(j, p)
BY StrayTypes DEF Carries, PlanInv, TypeOK

\* An artifact holds a corpus between the generation that names it and now.
LEMMA ArtifactStep ==
    ASSUME TypeOK, RowInv, ArtifactInv, PlanInv, [Next]_vars
    PROVE  ArtifactInv'
<1>0. desired \in Nat /\ desired' \in Nat /\ desired <= desired'
  <2>1. desired' = desired + 1 \/ desired' = desired
    BY RowSteps DEF MarkDirty
  <2> QED  BY <2>1 DEF TypeOK, Generation
<1>a. ASSUME NEW j \in Job, NEW g \in Generation
      PROVE /\ planned[j][g] # -1 => planned[j][g] \in Nat
            /\ built[j][g] # -1 => built[j][g] \in Nat
  <2>1. planned[j][g] \in Content /\ built[j][g] \in Content
    BY DEF TypeOK
  <2>2. \A x \in Content : x # -1 => x \in Nat
    BY BoundAssumption DEF Content, Generation
  <2> QED  BY <2>1, <2>2
<1>1. CASE UNCHANGED artifacts
  BY <1>0, <1>1, <1>a DEF artifacts, ArtifactInv
<1>2. ASSUME NEW j \in Job, NEW p \in Plan, WrittenBy(j, p) PROVE ArtifactInv'
  <2>1. /\ p.gen \in Generation /\ p.snap \in Generation
        /\ p.gen <= p.snap /\ p.snap <= desired /\ desired' = desired
    BY <1>2, CarriedSound DEF WrittenBy, PlanSound, Plan
  <2>2. CASE PublishTxn(j, p) /\ UNCHANGED built
    BY <2>1, <2>2 DEF PublishTxn, ArtifactInv, TypeOK
  <2>3. CASE BuildTxn(j, p) /\ UNCHANGED planned
    BY <2>1, <2>3 DEF BuildTxn, ArtifactInv, TypeOK
  <2> QED  BY <1>2, <2>2, <2>3 DEF WrittenBy
<1> QED  BY ArtifactSteps, <1>1, <1>2

\* A commit keeps what is known of the other plans: a bare one is dead by then.
LEMMA CommitKept ==
    ASSUME TypeOK, PlanInv, NEW j \in Job, NEW p \in Plan, PlanSound(j, p),
           NEW k \in Job, NEW q \in Plan, UNCHANGED <<desired, barren>>,
           Activating(k, q), CommitTxn(k, q)
    PROVE  PlanSound(j, p)'
<1>1. /\ p.gen \in Int /\ p.snap \in Int /\ q.gen \in Int /\ q.snap \in Int /\ desired \in Int
      /\ p.bare \in BOOLEAN /\ q.bare \in BOOLEAN
  BY DEF TypeOK, Plan, Generation
<1>2. PlanSound(k, q)
  BY CarriedSound DEF Activating, Carries
<1>3. claim.job = k /\ claim.target = q.gen /\ claim'.job = None /\ j # None /\ k # None
  BY JobAssumption DEF CommitTxn, Owns, Free, TypeOK
<1>4. /\ activeBuild' = NoBuild => activeBuild = NoBuild
      /\ activeBuild' # NoBuild => activeBuild # NoBuild \/ ~q.bare
  BY <1>3 DEF CommitTxn, NoBuild
<1>5. desired' = desired /\ (barren' <=> barren)
  OBVIOUS
<1>6. /\ p.gen <= p.snap /\ p.snap <= desired /\ p.gen <= q.gen
      /\ p.snap = desired /\ p.bare => barren
      /\ p.snap = desired /\ ~p.bare /\ activeBuild = NoBuild => ~barren
      /\ p.bare /\ activeBuild # NoBuild => p.gen < desired
  BY <1>3 DEF PlanSound
<1>7. /\ q.gen <= q.snap /\ q.snap <= desired
      /\ q.snap = desired /\ ~q.bare /\ activeBuild = NoBuild => ~barren
  BY <1>2 DEF PlanSound
<1>8. p.bare /\ activeBuild' # NoBuild => p.gen < desired
  <2> SUFFICES ASSUME p.bare, activeBuild' # NoBuild, ~(p.gen < desired) PROVE FALSE
    OBVIOUS
  <2>1. activeBuild = NoBuild /\ ~q.bare
    BY <1>4, <1>6
  <2>2. p.snap = desired /\ q.snap = desired
    BY <1>1, <1>6, <1>7
  <2> QED BY <1>6, <1>7, <2>1, <2>2
<1>9. ~Owns(j, p)'
  BY <1>3 DEF Owns
<1> QED BY <1>3, <1>4, <1>5, <1>6, <1>8, <1>9 DEF PlanSound

\* Each kind of step keeps what is known of a plan that was carried before it.
LEMMA PlanKept ==
    ASSUME TypeOK, RowInv, PlanInv, [Next]_vars, NEW j \in Job, NEW p \in Plan, PlanSound(j, p)
    PROVE  PlanSound(j, p)'
<1> USE DEF TypeOK, Generation, Plan, Claim, PlanSound, Owns
<1>0. j # None
  BY JobAssumption
<1>1. CASE MarkDirty
  BY <1>1 DEF MarkDirty
<1>2. CASE UNCHANGED <<desired, barren>> /\ RowKept
  BY <1>2 DEF RowKept
<1>3. CASE UNCHANGED <<desired, barren>> /\ RowFreed
  BY <1>0, <1>3 DEF RowFreed, Free
<1>4. ASSUME NEW k \in Job, UNCHANGED <<desired, barren>>, RowClaimed(k) PROVE PlanSound(j, p)'
  <2>1. claim' = [job |-> k, target |-> Target(k)] /\ UNCHANGED activeBuild
    BY <1>4 DEF RowClaimed, ClaimTxn
  <2>2. CASE Holder = k
    <3>1. claim' = claim
      BY <2>1, <2>2, JobAssumption DEF Holder, Target
    <3> QED  BY <1>4, <2>1, <3>1
  <2>3. CASE Holder # k
    <3>1. claim' = [job |-> k, target |-> desired]
      BY <2>1, <2>3 DEF Target
    <3> QED  BY <1>4, <2>1, <3>1
  <2> QED  BY <2>2, <2>3
<1>5. ASSUME NEW k \in Job, NEW q \in Plan, UNCHANGED <<desired, barren>>,
             Activating(k, q), CommitTxn(k, q)
      PROVE PlanSound(j, p)'
  BY <1>5, CommitKept
<1> QED  BY RowSteps, <1>1, <1>2, <1>3, <1>4, <1>5 DEF RowEffect

LEMMA EmptyPlanSound ==
    ASSUME TypeOK', RowInv', NEW j \in Job
    PROVE  PlanSound(j, NoPlan)'
BY JobAssumption DEF TypeOK, Generation, Claim, RowInv, PlanSound, Owns, NoPlan, Free

\* A snapshot agrees with the corpus and with the claim it was taken under.
LEMMA SnapshotSound ==
    ASSUME TypeOK, RowInv', NEW j \in Job, ClaimedBy(j), NEW p, p = Snapshot(j)
    PROVE  PlanSound(j, p)'
<1>1. p.gen = Target(j) /\ p.snap = desired /\ (p.bare <=> barren /\ activeBuild = NoBuild)
  BY DEF Snapshot
<1>2. claim'.job # None /\ claim'.target = Target(j)
  BY JobAssumption DEF ClaimedBy, ClaimTxn
<1>3. Target(j) \in Generation /\ desired \in Generation
  BY PrepareTypes DEF TypeOK
<1>4. desired' = desired /\ (barren' <=> barren) /\ activeBuild' = activeBuild
  BY DEF ClaimedBy
<1>5. claim'.target <= desired'
  BY <1>2 DEF RowInv
<1> QED  BY <1>1, <1>2, <1>3, <1>4, <1>5 DEF Generation, PlanSound

LEMMA PlanStep ==
    ASSUME TypeOK, RowInv, PlanInv, [Next]_vars
    PROVE  PlanInv'
<1>0. TypeOK' /\ RowInv'
  BY TypeStep, RowStep
<1>a. ASSUME NEW j \in Job PROVE PlanSound(j, NoPlan)'
  BY <1>0, EmptyPlanSound
<1>b. ASSUME NEW j \in Job, NEW p, Carries(j, p) PROVE PlanSound(j, p)'
  BY <1>b, CarriedSound, PlanKept
<1>c. ASSUME NEW j \in Job, ClaimedBy(j), NEW p, p = Snapshot(j) PROVE PlanSound(j, p)'
  BY <1>0, <1>c, SnapshotSound
<1>1. ASSUME NEW j \in Job PROVE PlanSound(j, plan[j])' /\ PlanSound(j, draft[j])'
  <2>1. ASSUME NEW p, p = plan'[j] PROVE PlanSound(j, p)'
    BY <2>1, <1>a, <1>b, PlanOrigin DEF PlanFrom, Carries
  <2>2. ASSUME NEW p, p = draft'[j] PROVE PlanSound(j, p)'
    BY <2>2, <1>a, <1>b, <1>c, PlanOrigin DEF PlanFrom, Carries
  <2> QED  BY <2>1, <2>2 DEF PlanSound
<1>2. ASSUME NEW b \in stray' PROVE PlanSound(b.job, b.plan)'
  <2>0. b.job \in Job
    BY <1>0, <1>2 DEF TypeOK, Attempt
  <2>1. CASE b \in stray
    BY <1>b, <2>0, <2>1 DEF Carries
  <2>2. ASSUME NEW j \in Job, b = CurrentAttempt(j) PROVE PlanSound(b.job, b.plan)'
    <3>1. b.job = j /\ b.plan \in {draft[j], plan[j], NoPlan}
      BY <2>2 DEF CurrentAttempt
    <3> QED  BY <1>a, <1>b, <3>1 DEF Carries
  <2>3. CASE b.plan = Snapshot(b.job) /\ ClaimedBy(b.job)
    BY <1>c, <2>0, <2>3
  <2> QED  BY <2>1, <2>2, <2>3, StrayOrigin DEF StrayFrom
<1> QED  BY <1>1, <1>2 DEF PlanInv

\* Nothing that was written is ever deleted.
LEMMA ArtifactsStay ==
    ASSUME TypeOK, ReadInv, [Next]_vars
    PROVE  \A j \in Job, g \in Generation :
             /\ planned[j][g] # -1 => planned'[j][g] # -1
             /\ built[j][g] # -1 => built'[j][g] # -1
<1> DEFINE Stay == \A j \in Job, g \in Generation :
             /\ planned[j][g] # -1 => planned'[j][g] # -1
             /\ built[j][g] # -1 => built'[j][g] # -1
<1>1. CASE UNCHANGED artifacts
  BY <1>1 DEF artifacts
<1>2. ASSUME NEW j \in Job, NEW p \in Plan, WrittenBy(j, p) PROVE Stay
  <2>1. p.gen \in Generation /\ p.snap # -1
    <3>1. p.gen \in Generation /\ p.snap \in 0..MaxGeneration
      BY DEF Plan, Generation
    <3> QED  BY <3>1, BoundAssumption
  <2>2. CASE PublishTxn(j, p) /\ UNCHANGED built
    BY <2>1, <2>2 DEF PublishTxn, TypeOK
  <2>3. CASE Building(j, p) /\ BuildTxn(j, p) /\ UNCHANGED planned
    <3>1. Published(j, p)
      BY <2>3 DEF Building, ReadInv
    <3> QED  BY <2>1, <2>3, <3>1 DEF BuildTxn, Published, TypeOK
  <2> QED  BY <1>2, <2>2, <2>3 DEF WrittenBy
<1> QED  BY ArtifactSteps, <1>1, <1>2

\* An attempt finds the artifacts it reads.
LEMMA ReadStep ==
    ASSUME TypeOK, ReadInv, [Next]_vars
    PROVE  ReadInv'
<1>a. ASSUME NEW j \in Job, NEW p \in Plan
      PROVE (Published(j, p) => Published(j, p)') /\ (Complete(j, p) => Complete(j, p)')
  BY ArtifactsStay DEF Published, Complete, Plan
<1>b. ASSUME NEW j \in Job PROVE plan[j] \in Plan /\ draft[j] \in Plan
  BY DEF TypeOK
<1>1. ASSUME NEW j \in Job PROVE Published(j, plan[j])'
  <2>1. CASE plan'[j] = plan[j]
    BY <1>a, <1>b, <2>1 DEF ReadInv, Published
  <2>2. CASE plan'[j] = NoPlan
    BY <2>2 DEF NoPlan, Published
  <2>3. CASE Publish(j) /\ plan'[j] = draft[j]
    <3>1. draft[j].gen \in Generation /\ draft[j].snap \in 0..MaxGeneration
      BY <1>b DEF Plan, Generation
    <3>2. planned'[j][draft[j].gen] = draft[j].snap
      BY <2>3, <3>1 DEF Publish, PublishTxn, TypeOK
    <3> QED  BY <2>3, <3>1, <3>2, BoundAssumption DEF Published
  <2> QED  BY <2>1, <2>2, <2>3, PlanOrigin DEF PlanFrom
<1>2. ASSUME NEW j \in Job, pc'[j] = "activate" PROVE Complete(j, plan[j])'
  <2>1. CASE pc[j] = "activate" /\ plan'[j] = plan[j]
    BY <1>a, <1>b, <2>1 DEF ReadInv, Complete
  <2>2. CASE BuildIndex(j) /\ plan'[j] = plan[j]
    <3>1. Published(j, plan[j]) /\ plan[j].gen \in Generation
      BY <1>b DEF ReadInv, Plan
    <3> QED  BY <2>2, <3>1 DEF BuildIndex, BuildTxn, Published, Complete, TypeOK
  <2> QED  BY <1>2, <2>1, <2>2, PlanOrigin DEF PlanFrom
<1>3. ASSUME NEW b \in stray'
      PROVE /\ b.at \in {"build", "activate"} => Published(b.job, b.plan)'
            /\ b.at = "activate" => Complete(b.job, b.plan)'
  <2>1. CASE b \in stray
    BY <1>a, <2>1, StrayTypes DEF ReadInv
  <2>2. ASSUME NEW j \in Job, b = CurrentAttempt(j), b.at \in {"build", "activate"}
        PROVE Published(b.job, b.plan)' /\ (b.at = "activate" => Complete(b.job, b.plan)')
    <3>1. b.job = j /\ b.at = pc[j] /\ b.plan = plan[j]
      BY <2>2 DEF CurrentAttempt, Publishing
    <3>2. Published(j, plan[j]) /\ (b.at = "activate" => Complete(j, plan[j]))
      BY <3>1 DEF ReadInv
    <3> QED  BY <1>a, <1>b, <3>1, <3>2
  <2> QED  BY <2>1, <2>2, StrayOrigin DEF StrayFrom
<1> QED  BY <1>1, <1>2, <1>3 DEF ReadInv

\* The active build is the version the row names, and it has its files.
LEMMA BuildStep ==
    ASSUME TypeOK, RowInv, PlanInv, ReadInv, BuildInv, [Next]_vars
    PROVE  BuildInv'
<1>0. /\ active \in Nat /\ desired \in Nat /\ active \in Generation
      /\ activeBuild.job \in Job \cup {None}
  BY DEF TypeOK, Build, Generation
<1>a. ASSUME UNCHANGED <<active, activeBuild>>, UNCHANGED <<desired, barren>> \/ MarkDirty
      PROVE BuildInv'
  <2>1. CASE activeBuild = NoBuild
    <3>1. CASE MarkDirty
      <4>1. desired' = desired + 1 /\ active <= desired
        BY <3>1 DEF MarkDirty, RowInv
      <4>2. active' # desired'
        BY <1>0, <1>a, <4>1
      <4> QED  BY <1>a, <2>1, <4>2 DEF BuildInv
    <3>2. CASE UNCHANGED <<desired, barren>>
      BY <1>a, <2>1, <3>2 DEF BuildInv
    <3> QED  BY <1>a, <3>1, <3>2
  <2>2. CASE activeBuild # NoBuild
    <3>1. activeBuild.job \in Job
      BY <1>0, <2>2 DEF BuildInv
    <3> QED  BY <1>0, <1>a, <2>2, <3>1, ArtifactsStay DEF BuildInv
  <2> QED  BY <2>1, <2>2
<1>1. ASSUME NEW j \in Job, NEW p \in Plan, UNCHANGED <<desired, barren>>,
             Activating(j, p), CommitTxn(j, p)
      PROVE BuildInv'
  <2>0. p.gen \in Generation /\ p.gen \in Nat /\ p.snap \in Nat
    BY DEF Plan, Generation
  <2>1. PlanSound(j, p)
    BY <1>1, CarriedSound DEF Activating, Carries
  <2>2. Complete(j, p)
    BY <1>1 DEF Activating, ReadInv
  <2>3. CASE p.bare
    <3>1. activeBuild = NoBuild /\ activeBuild' = NoBuild /\ active' = p.gen
      BY <1>1, <2>1, <2>3 DEF PlanSound, CommitTxn
    <3>2. ASSUME active' = desired' PROVE barren'
      <4>1. p.snap = desired
        BY <1>0, <1>1, <2>0, <2>1, <3>1, <3>2 DEF PlanSound
      <4> QED  BY <1>1, <2>1, <2>3, <4>1 DEF PlanSound
    <3> QED  BY <3>1, <3>2 DEF BuildInv
  <2>4. CASE ~p.bare
    <3>1. activeBuild' = [job |-> j, gen |-> p.gen] /\ active' = p.gen /\ j # None
      BY <1>1, <2>4, JobAssumption DEF CommitTxn
    <3>2. built'[j][p.gen] # -1
      BY <2>0, <2>2, <2>4, ArtifactsStay DEF Complete
    <3> QED  BY <3>1, <3>2 DEF BuildInv, NoBuild
  <2> QED  BY <2>3, <2>4
<1> QED  BY RowSteps, <1>a, <1>1 DEF RowEffect, RowKept, RowFreed, RowClaimed, MarkDirty

-----------------------------------------------------------------------------
(* The theorems.                                                           *)

LEMMA InvInit ==
    ASSUME Init
    PROVE  Inv
<1>0. TypeOK
  BY TypeInit
<1>1. RowInv
  BY DEF Init, RowInv, Free
<1>2. ArtifactInv
  BY DEF Init, ArtifactInv
<1>3. PlanInv
  <2>1. ASSUME NEW j \in Job PROVE PlanSound(j, NoPlan)
    BY JobAssumption DEF Init, PlanSound, NoPlan, Free, Owns, NoBuild
  <2> QED  BY <2>1 DEF Init, PlanInv
<1>4. ReadInv
  BY DEF Init, ReadInv, NoPlan, Published, Complete
<1>5. BuildInv
  BY DEF Init, BuildInv
<1>6. JobInv
  BY JobAssumption DEF Init, JobInv, Free
<1> QED  BY <1>1, <1>2, <1>3, <1>4, <1>5, <1>6 DEF Inv

\* Inv, with the types, is inductive: what the row, the plans in flight, the
\* published artifacts and the job rows say of each other holds in every state.
THEOREM InvCorrect == Spec => [](TypeOK /\ Inv)
<1>1. Init => TypeOK /\ Inv
  BY TypeInit, InvInit
<1>2. TypeOK /\ Inv /\ [Next]_vars => TypeOK' /\ Inv'
  BY TypeStep, RowStep, ArtifactStep, PlanStep, ReadStep, BuildStep, JobStep DEF Inv
<1> QED  BY <1>1, <1>2, PTL DEF Spec

\* The files of the active version hold every change up to the active
\* generation, however attempts of activities overlap.
THEOREM ActiveBuildIsSound == Spec => []ActiveBuildSound
<1>1. TypeOK /\ Inv => ActiveBuildSound
  <2> SUFFICES ASSUME TypeOK, Inv, activeBuild # NoBuild PROVE ActiveBuildSound
    BY DEF ActiveBuildSound
  <2>1. activeBuild.job \in Job /\ activeBuild.gen = active /\ active \in Generation
    BY DEF TypeOK, Build, Inv, BuildInv
  <2> QED  BY <2>1 DEF Inv, BuildInv, ArtifactInv, ActiveBuildSound
<1> QED  BY <1>1, InvCorrect, PTL

\* An index that reports nothing to rebuild holds the present corpus: no change
\* made while a rebuild was under way is lost.
THEOREM FreshIsCurrent == Spec => []FreshMeansCurrent
<1>1. TypeOK /\ Inv => FreshMeansCurrent
  <2> SUFFICES ASSUME TypeOK, Inv, ~Stale PROVE FreshMeansCurrent
    BY DEF FreshMeansCurrent
  <2>1. active = desired /\ active \in Generation
    BY DEF TypeOK, Generation, Stale, Inv, RowInv
  <2>2. CASE activeBuild = NoBuild
    BY <2>1, <2>2 DEF Inv, BuildInv, FreshMeansCurrent
  <2>3. CASE activeBuild # NoBuild
    <3>1. activeBuild.job \in Job /\ activeBuild.gen = active
      BY <2>3 DEF TypeOK, Build, Inv, BuildInv
    <3>2. built[activeBuild.job][active] \in Content /\ built[activeBuild.job][active] # -1
      BY <2>1, <2>3, <3>1 DEF TypeOK, Inv, BuildInv
    <3>3. active <= built[activeBuild.job][active] /\ built[activeBuild.job][active] <= desired
      BY <2>1, <3>1, <3>2 DEF Inv, ArtifactInv
    <3> QED  BY <2>1, <2>3, <3>1, <3>2, <3>3, BoundAssumption
             DEF FreshMeansCurrent, Content, Generation
  <2> QED  BY <2>2, <2>3
<1> QED  BY <1>1, InvCorrect, PTL

\* No step, not even a late activation of a superseded run, moves the active
\* generation backwards.
THEOREM ActiveIsMonotonic == Spec => ActiveNeverRegresses
<1>1. TypeOK /\ Inv /\ [Next]_vars => [active' >= active]_active
  <2> SUFFICES ASSUME TypeOK, Inv, [Next]_vars PROVE UNCHANGED active \/ active' >= active
    OBVIOUS
  <2>1. ASSUME NEW j \in Job, NEW p \in Plan, CommitTxn(j, p) PROVE active' >= active
    <3>1. claim.job # None /\ claim.target = p.gen /\ active' = p.gen
      BY <2>1, JobAssumption DEF CommitTxn, Owns
    <3>2. active <= claim.target
      BY <3>1 DEF Inv, RowInv
    <3> QED  BY <3>1, <3>2 DEF TypeOK, Claim, Generation
  <2> QED  BY <2>1, RowSteps DEF RowEffect, RowKept, RowFreed, RowClaimed, MarkDirty
<1> QED  BY <1>1, InvCorrect, PTL DEF Spec, ActiveNeverRegresses

-----------------------------------------------------------------------------
(* The claim: who may take it away, and the refinement of GenerationFence. *)

\* What a step does to the claim and to the standing of its owner.
ClaimKept == UNCHANGED <<active, claim>> /\ (OwnerGone => OwnerGone')
ClaimEnded ==
    /\ claim' = Free
    /\ UNCHANGED active
    /\ claim.job = None \/ OwnerGone \/ jobs'[claim.job] \in Terminal
         \/ cancelling[claim.job] = "release"
ClaimEffect ==
    \/ ClaimKept
    \/ ClaimEnded
    \/ \E j \in Job : RowClaimed(j)
    \/ \E j \in Job, p \in Plan : CommitTxn(j, p)

LEMMA ClaimSteps ==
    ASSUME TypeOK, JobInv, [Next]_vars
    PROVE  \/ MarkDirty
           \/ UNCHANGED desired /\ ClaimEffect
<1> USE DEF row, artifacts, api, run
<1>a. ASSUME UNCHANGED <<active, claim, expired, jobs>> PROVE ClaimEffect
  BY <1>a DEF ClaimEffect, ClaimKept, OwnerGone
<1>b. ASSUME NEW j \in Job, SkipTxn(j), UNCHANGED active PROVE ClaimEffect
  <2>1. CASE OwnerGone
    BY <1>b, <2>1 DEF SkipTxn, ClaimEffect, ClaimEnded
  <2>2. CASE ~OwnerGone
    BY <1>b, <2>2 DEF SkipTxn, ClaimEffect, ClaimKept
  <2> QED  BY <2>1, <2>2
<1>c. ASSUME NEW j \in Job, NEW status \in Terminal, FailTxn(j, status), UNCHANGED active
      PROVE ClaimEffect
  <2>1. CASE claim.job = j
    BY <1>c, <2>1 DEF FailTxn, ClaimEffect, ClaimEnded, TypeOK
  <2>2. CASE claim.job # j
    BY <1>c, <2>2, <1>a DEF FailTxn
  <2> QED  BY <2>1, <2>2
<1>1. CASE Environment
  <2>1. CASE Settle
    BY <1>a, <2>1 DEF Settle
  <2>2. CASE ExpireOrphanClaim \/ ExpireLiveClaim
    BY <2>2
    DEF ExpireOrphanClaim, ExpireLiveClaim, ClaimTimeout, ClaimEffect, ClaimKept, OwnerGone
  <2> QED  BY <1>1, <1>a, <2>1, <2>2 DEF Environment, Settle, ExpireOrphanClaim, ExpireLiveClaim,
      ClaimTimeout
<1>2. ASSUME NEW j \in Job, Trigger(j) PROVE UNCHANGED desired /\ ClaimEffect
  <2>1. CASE CreateRebuild(j)
    <3>1. jobs[j] = "ABSENT"
      BY <2>1 DEF CreateRebuild, JobInv
    <3>2. claim.job # None => claim.job # j
      BY <3>1 DEF JobInv
    <3> QED  BY <2>1, <3>2 DEF CreateRebuild, ClaimEffect, ClaimKept, OwnerGone, TypeOK
  <2>2. CASE StartWorkflow(j) \/ RecordWorkflowId(j) \/ ScheduleTick(j)
    BY <1>a, <2>2 DEF StartWorkflow, RecordWorkflowId, ScheduleTick
  <2> QED  BY <1>2, <2>1, <2>2 DEF Trigger
<1>3. ASSUME NEW j \in Job, Workflow(j) PROVE UNCHANGED desired /\ ClaimEffect
  <2>1. CASE PrepareSkip(j)
    BY <1>b, <2>1 DEF PrepareSkip
  <2>2. CASE PrepareBuild(j)
    BY <2>2 DEF PrepareBuild, Buildable, ClaimEffect, RowClaimed
  <2>3. CASE Activate(j)
    <3>1. plan[j] \in Plan
      BY DEF TypeOK
    <3> QED  BY <1>a, <2>3, <3>1 DEF Activate, ClaimEffect
  <2>4. CASE PrepareBusy(j) \/ Publish(j) \/ Seal(j) \/ BuildIndex(j)
    BY <1>a, <2>4 DEF PrepareBusy, Publish, Seal, BuildIndex
  <2> QED  BY <1>3, <2>1, <2>2, <2>3, <2>4 DEF Workflow
<1>4. ASSUME NEW j \in Job, Failure(j) PROVE UNCHANGED desired /\ ClaimEffect
  <2>1. "FAILED" \in Terminal
    BY DEF Terminal
  <2> QED  BY <1>4, <1>a, <1>c, <2>1 DEF Failure, GiveUp, LoseLastAttempt, Abandon
<1>5. ASSUME NEW a \in stray, Stray(a) PROVE UNCHANGED desired /\ ClaimEffect
  <2>0. a.job \in Job /\ a.plan \in Plan /\ "CANCELLED" \in Terminal
    BY StrayTypes DEF Terminal
  <2>1. CASE StrayPrepare(a)
    <3>1. CASE SkipTxn(a.job)
      BY <1>b, <2>0, <2>1, <3>1 DEF StrayPrepare
    <3>2. CASE Buildable(a.job, a.at) /\ ClaimTxn(a.job)
      BY <2>0, <2>1, <3>2 DEF StrayPrepare, Buildable, ClaimEffect, RowClaimed
    <3>3. CASE UNCHANGED <<claim, expired, jobs, recorded>>
      BY <1>a, <2>1, <3>3 DEF StrayPrepare
    <3> QED  BY <2>1, <3>1, <3>2, <3>3 DEF StrayPrepare
  <2>2. CASE StrayPublish(a) \/ StrayBuild(a)
    BY <1>a, <2>2 DEF StrayPublish, StrayBuild
  <2>3. CASE StrayActivate(a)
    BY <2>0, <2>3 DEF StrayActivate, ClaimEffect
  <2>4. CASE StrayCancelled(a)
    BY <1>c, <2>0, <2>4 DEF StrayCancelled
  <2> QED  BY <1>5, <2>1, <2>2, <2>3, <2>4 DEF Stray
<1>6. ASSUME NEW j \in Job, Cancel(j) PROVE UNCHANGED desired /\ ClaimEffect
  <2>1. CASE RequestCancellation(j) \/ CancelWorkflow(j)
    BY <1>a, <2>1 DEF RequestCancellation, CancelWorkflow
  <2>2. CASE MarkCancelled(j)
    BY <2>2 DEF MarkCancelled, ClaimEffect, ClaimKept, OwnerGone, Terminal, TypeOK
  <2>3. CASE ReleaseClaim(j)
    <3>1. CASE claim.job = j
      BY <2>3, <3>1 DEF ReleaseClaim, ClaimEffect, ClaimEnded
    <3>2. CASE claim.job # j
      BY <2>3, <3>2 DEF ReleaseClaim, ClaimEffect, ClaimKept, OwnerGone
    <3> QED  BY <3>1, <3>2
  <2> QED  BY <1>6, <2>1, <2>2, <2>3 DEF Cancel
<1>7. CASE UNCHANGED vars
  BY <1>7, <1>a DEF vars
<1> QED  BY <1>1, <1>2, <1>3, <1>4, <1>5, <1>6, <1>7 DEF Next, Environment

\* A run may claim when nobody holds a claim that counts; its own is not renewed.
LEMMA ClaimGranted ==
    ASSUME TypeOK, NEW j \in Job, RowClaimed(j)
    PROVE  /\ \/ claim' = claim /\ ~OwnerGone
              \/ claim' = [job |-> j, target |-> desired] /\ (claim.job = None \/ OwnerGone)
           /\ ~OwnerGone'
<1>1. Holder \in {None, j} /\ claim' = [job |-> j, target |-> Target(j)] /\ j # None
  BY JobAssumption DEF RowClaimed, Busy, ClaimTxn
<1>2. ~OwnerGone'
  <2>1. jobs'[j] = "RUNNING" /\ ~expired'
    BY PrepareTypes DEF RowClaimed, ClaimTxn
  <2> QED  BY <1>1, <2>1 DEF OwnerGone, Terminal
<1>3. CASE Holder = j
  <2>1. claim.job = j /\ ~OwnerGone /\ Target(j) = claim.target
    BY <1>1, <1>3 DEF Holder, Target
  <2>2. claim = [job |-> claim.job, target |-> claim.target]
    BY DEF TypeOK, Claim
  <2>3. claim' = claim
    BY <1>1, <2>1, <2>2
  <2> QED  BY <1>2, <2>1, <2>3
<1>4. CASE Holder # j
  <2>1. (claim.job = None \/ OwnerGone) /\ Target(j) = desired
    BY <1>1, <1>4 DEF Holder, Target
  <2> QED  BY <1>1, <1>2, <2>1
<1> QED  BY <1>3, <1>4

\* A live claim is not stolen: not by another prepare, not by the bookkeeping of
\* a failed or abandoned attempt of another job.
THEOREM LiveClaimIsKept == Spec => LiveClaimKept
<1> DEFINE Keeps == claim.job # None /\ ~OwnerGone /\ claim' # claim =>
                      /\ claim' = Free
                      /\ jobs'[claim.job] \in Terminal \/ cancelling[claim.job] = "release"
<1>1. TypeOK /\ Inv /\ [Next]_vars => [Keeps]_vars
  <2> SUFFICES ASSUME TypeOK, JobInv, [Next]_vars PROVE Keeps
    BY DEF Inv
  <2>1. ASSUME NEW j \in Job, NEW p \in Plan, CommitTxn(j, p) PROVE Keeps
    <3>1. claim.job = j /\ claim' = Free /\ jobs'[j] = "COMPLETED"
      BY <2>1 DEF CommitTxn, Owns, TypeOK
    <3> QED  BY <3>1 DEF Terminal
  <2>2. ASSUME NEW j \in Job, RowClaimed(j) PROVE Keeps
    BY <2>2, ClaimGranted
  <2> QED  BY <2>1, <2>2, ClaimSteps DEF ClaimEffect, ClaimKept, ClaimEnded, MarkDirty
<1> QED  BY <1>1, InvCorrect, PTL DEF Spec, LiveClaimKept

\* The whole machinery of runs, retries and abandoned attempts implements the
\* fence: a claim is granted for the present corpus when no other one counts,
\* and only its holder activates, only the generation it claimed.
THEOREM FenceRefinement == Spec => FenceSpec
<1>1. Init => Fence!Init
  BY DEF Init, Fence!Init, Free, Fence!Free, OwnerGone
<1>2. TypeOK /\ Inv /\ [Next]_vars => [Fence!Next]_Fence!vars
  <2> SUFFICES ASSUME TypeOK, Inv, [Next]_vars PROVE Fence!Next \/ UNCHANGED Fence!vars
    OBVIOUS
  <2> USE DEF Fence!Next, Fence!vars, Fence!Free, Free
  <2>0. JobInv /\ RowInv /\ Fence!Free = Free /\ OwnerGone \in BOOLEAN /\ OwnerGone' \in BOOLEAN
    BY DEF Inv, OwnerGone
  <2>1. CASE MarkDirty
    BY <2>1 DEF MarkDirty, Fence!Change, OwnerGone, row, artifacts, api, run
  <2>2. CASE UNCHANGED desired /\ ClaimKept
    <3>1. CASE OwnerGone' = OwnerGone
      BY <2>2, <3>1 DEF ClaimKept
    <3>2. CASE OwnerGone' /\ ~OwnerGone
      <4>1. claim.job # None
        BY <2>2, <3>2 DEF ClaimKept, OwnerGone
      <4> QED  BY <2>0, <2>2, <3>2, <4>1 DEF ClaimKept, Fence!Lapse
    <3> QED  BY <2>0, <2>2, <3>1, <3>2 DEF ClaimKept
  <2>3. CASE UNCHANGED desired /\ ClaimEnded
    <3>1. claim'.job = None
      BY <2>3 DEF ClaimEnded
    <3>2. ~OwnerGone'
      BY <3>1 DEF OwnerGone
    <3> QED  BY <2>0, <2>3, <3>2 DEF ClaimEnded, Fence!Release
  <2>4. ASSUME NEW j \in Job, UNCHANGED desired, RowClaimed(j)
        PROVE Fence!Next \/ UNCHANGED Fence!vars
    <3>1. active' = active
      BY <2>4 DEF RowClaimed
    <3> QED  BY <2>0, <2>4, <3>1, ClaimGranted DEF Fence!Acquire
  <2>5. ASSUME NEW j \in Job, NEW p \in Plan, UNCHANGED desired, CommitTxn(j, p)
        PROVE Fence!Next
    <3>1. claim.job # None /\ claim.target = p.gen /\ active' = p.gen /\ claim' = Free
      BY <2>5, JobAssumption DEF CommitTxn, Owns
    <3>2. ~OwnerGone'
      BY <3>1 DEF OwnerGone
    <3> QED  BY <2>0, <2>5, <3>1, <3>2 DEF Fence!Activate
  <2> QED  BY <2>0, <2>1, <2>2, <2>3, <2>4, <2>5, ClaimSteps DEF ClaimEffect
<1> QED  BY <1>1, <1>2, InvCorrect, PTL DEF Spec, FenceSpec, Fence!Spec
=============================================================================

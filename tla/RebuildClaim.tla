---------------------------- MODULE RebuildClaim ----------------------------
(***************************************************************************)
(* Search-index rebuilds: the search_index_state row, the job rows, the    *)
(* index_builds row and the RebuildWorkflow runs that compete for them.    *)
(*                                                                         *)
(* Every change to the searchable corpus increments desired_generation in  *)
(* the transaction that makes it, so the corpus content is identified by   *)
(* the value of "desired" at which it was read.  A rebuild claims the row, *)
(* snapshots the corpus, builds an index version named by its target       *)
(* generation and its job, and activates it.                               *)
(*                                                                         *)
(* Temporal runs each activity at least once: an attempt that times out is *)
(* retried while the first attempt may still be running.  Such abandoned   *)
(* attempts are kept in "stray" and may act at any later moment.           *)
(***************************************************************************)
EXTENDS Integers, FiniteSets

CONSTANTS
    Job,            \* identifiers of rebuild jobs
    Manual,         \* jobs created by POST /jobs/rebuild-index
    Forced,         \* the manual ones that were requested with force=True
    None,           \* SQL NULL
    MaxGeneration,  \* bound: the corpus stops changing at this generation
    MaxFaults       \* bound: timeouts, failed activities, slow builds, cancels

ASSUME JobAssumption ==
    /\ Forced \subseteq Manual
    /\ Manual \subseteq Job
    /\ None \notin Job
ASSUME BoundAssumption ==
    /\ MaxGeneration \in Nat \ {0}
    /\ MaxFaults \in Nat

Scheduled == Job \ Manual

VARIABLES
    desired,      \* search_index_state.desired_generation
    active,       \* search_index_state.active_generation
    claim,        \* rebuild_job_id and rebuild_target_generation
    expired,      \* the claim is older than rebuild_claim_timeout_minutes
    settled,      \* what rule.settled answers at this moment
    barren,       \* the corpus holds no embedded image
    jobs,         \* status of each jobs row, ABSENT before it is inserted
    activeBuild,  \* the index_builds row with is_active
    planned,      \* indexes/<version>/plan.json: the corpus it was taken from
    built,        \* the published index files: the corpus they were built from
    pc,           \* where each RebuildWorkflow run is
    plan,         \* the BuildPlan a run carries
    draft,        \* the BuildPlan its prepare attempt has not returned yet
    stray,        \* abandoned activity attempts that are still running
    recorded,     \* jobs whose workflow_id is stored
    cancelling,   \* progress of DELETE /jobs/{job_id}
    faults        \* faults so far, at most MaxFaults

row == <<desired, active, claim, expired, settled>>
artifacts == <<planned, built>>
api == <<recorded, cancelling>>
run == <<pc, plan, draft>>
vars == <<row, barren, jobs, activeBuild, artifacts, run, stray, api, faults>>

Generation == 0..MaxGeneration
Content == Generation \cup {-1}           \* -1: the object does not exist
Status == {"ABSENT", "PENDING", "RUNNING", "COMPLETED", "FAILED", "CANCELLED"}
Terminal == {"COMPLETED", "FAILED", "CANCELLED"}
Claim == [job : Job \cup {None}, target : Generation]
Build == [job : Job \cup {None}, gen : Generation]
\* bare: the snapshot has no embedding and takes no dimension from an active build
Plan == [gen : Generation, snap : Generation, bare : BOOLEAN]
Activity == {"prepare", "publish", "seal", "reprepare", "republish", "build", "activate"}
Ended == {"busy", "clean", "deferred", "done", "failed", "cancelled"}
PC == {"none", "created"} \cup Activity \cup Ended
Attempt == [job : Job, at : Activity, plan : Plan]
Cancelling == {"idle", "signal", "mark", "release"}

Free == [job |-> None, target |-> 0]
NoBuild == [job |-> None, gen |-> 0]
NoPlan == [gen |-> 0, snap |-> 0, bare |-> TRUE]

Stale == desired > active
Running(j) == pc[j] \in Activity

TypeOK ==
    /\ desired \in Generation
    /\ active \in Generation
    /\ claim \in Claim
    /\ expired \in BOOLEAN
    /\ settled \in BOOLEAN
    /\ barren \in BOOLEAN
    /\ jobs \in [Job -> Status]
    /\ activeBuild \in Build
    /\ planned \in [Job -> [Generation -> Content]]
    /\ built \in [Job -> [Generation -> Content]]
    /\ pc \in [Job -> PC]
    /\ plan \in [Job -> Plan]
    /\ draft \in [Job -> Plan]
    /\ stray \subseteq Attempt
    /\ recorded \subseteq Job
    /\ cancelling \in [Job -> Cancelling]
    /\ faults \in 0..MaxFaults

Init ==
    /\ desired = 1
    /\ active = 0
    /\ claim = Free
    /\ expired = FALSE
    /\ settled = TRUE
    /\ barren \in BOOLEAN
    /\ jobs = [j \in Job |-> "ABSENT"]
    /\ activeBuild = NoBuild
    /\ planned = [j \in Job |-> [g \in Generation |-> -1]]
    /\ built = [j \in Job |-> [g \in Generation |-> -1]]
    /\ pc = [j \in Job |-> "none"]
    /\ plan = [j \in Job |-> NoPlan]
    /\ draft = [j \in Job |-> NoPlan]
    /\ stray = {}
    /\ recorded = {}
    /\ cancelling = [j \in Job |-> "idle"]
    /\ faults = 0

-----------------------------------------------------------------------------
(* The corpus and the clock.                                               *)

\* A transaction changes the searchable corpus and calls mark_dirty.  The new
\* last_dirty_at unsettles the stream unless the index was never reconciled or
\* the maximum staleness has passed.
MarkDirty ==
    /\ desired < MaxGeneration
    /\ desired' = desired + 1
    /\ barren' \in BOOLEAN
    /\ settled' \in IF active = 0 THEN {TRUE} ELSE BOOLEAN
    /\ UNCHANGED <<active, claim, expired, jobs, activeBuild, artifacts, run, stray, api, faults>>

\* The settle window or the maximum staleness elapses.
Settle ==
    /\ ~settled
    /\ settled' = TRUE
    /\ UNCHANGED <<desired, active, claim, expired, barren, jobs, activeBuild, artifacts, run, stray, api, faults>>

\* rebuild_claim_timeout_minutes elapse under a claim whose run has ended ...
ClaimTimeout ==
    /\ claim.job # None
    /\ ~expired
    /\ expired' = TRUE
    /\ UNCHANGED <<desired, active, claim, settled, barren, jobs, activeBuild, artifacts, run, stray, api>>

ExpireOrphanClaim ==
    /\ claim.job # None /\ ~Running(claim.job)
    /\ ClaimTimeout
    /\ UNCHANGED faults

\* ... or under one whose run is still at work, in a slow build.
ExpireLiveClaim ==
    /\ claim.job # None /\ Running(claim.job)
    /\ ClaimTimeout
    /\ faults < MaxFaults
    /\ faults' = faults + 1

-----------------------------------------------------------------------------
(* POST /jobs/rebuild-index: three separate steps, none of which is        *)
(* certain to follow the one before it.                                    *)

CreateRebuild(j) ==
    /\ j \in Manual
    /\ pc[j] = "none"
    /\ jobs' = [jobs EXCEPT ![j] = "PENDING"]
    /\ pc' = [pc EXCEPT ![j] = "created"]
    /\ UNCHANGED <<row, barren, activeBuild, artifacts, plan, draft, stray, api, faults>>

StartWorkflow(j) ==
    /\ pc[j] = "created"
    /\ pc' = [pc EXCEPT ![j] = "prepare"]
    /\ UNCHANGED <<row, barren, jobs, activeBuild, artifacts, plan, draft, stray, api, faults>>

RecordWorkflowId(j) ==
    /\ j \in Manual \ recorded
    /\ pc[j] \notin {"none", "created"}
    /\ recorded' = recorded \cup {j}
    /\ UNCHANGED <<row, barren, jobs, activeBuild, artifacts, run, stray, cancelling, faults>>

\* The schedule starts a run under a fresh job id.  Overlap policy SKIP: no
\* other scheduled run is open.
ScheduleTick(j) ==
    /\ j \in Scheduled
    /\ pc[j] = "none"
    /\ \A k \in Scheduled : ~Running(k)
    /\ pc' = [pc EXCEPT ![j] = "prepare"]
    /\ UNCHANGED <<row, barren, jobs, activeBuild, artifacts, plan, draft, stray, api, faults>>

-----------------------------------------------------------------------------
(* The prepare activity: one transaction under the row lock ...            *)

\* MUTANT of OwnerGone: the expiry of a claim is never looked at.
OwnerGoneNoExpiry == claim.job # None /\ jobs[claim.job] \in Terminal

\* The owner recorded in the row is terminal or its claim has expired: the
\* transaction releases the claim, failing the owner first if it is live.
OwnerGone == claim.job # None /\ (jobs[claim.job] \in Terminal \/ expired)
Holder == IF OwnerGone THEN None ELSE claim.job
JobsAfterReclaim ==
    IF OwnerGone /\ jobs[claim.job] \notin Terminal
      THEN [jobs EXCEPT ![claim.job] = "FAILED"]
      ELSE jobs

\* The second prepare of a run is always forced.
IsForced(j, at) == j \in Forced \/ at = "reprepare"
Busy(j) == Holder \notin {None, j}
Clean(j, at) == ~Busy(j) /\ ~Stale /\ ~IsForced(j, at)
Deferred(j, at) == ~Busy(j) /\ Stale /\ ~IsForced(j, at) /\ ~settled
Buildable(j, at) == ~Busy(j) /\ (IsForced(j, at) \/ (Stale /\ settled))

\* Clean and deferred: a manual job is completed as skipped.
SkipTxn(j) ==
    /\ claim' = IF OwnerGone THEN Free ELSE claim
    /\ expired' = (expired /\ ~OwnerGone)
    /\ jobs' = IF j \in Manual
                 THEN [JobsAfterReclaim EXCEPT ![j] = "COMPLETED"]
                 ELSE JobsAfterReclaim
    /\ UNCHANGED recorded

\* MUTANTS of Target: a claim for the generation after the corpus; a second
\* prepare that renews the target of an own claim.
TargetAhead(j) == IF Holder = j THEN claim.target ELSE desired + 1
TargetRenewed(j) == desired

\* Build: keep an own claim and its target, or claim the desired generation.
Target(j) == IF Holder = j THEN claim.target ELSE desired
ClaimTxn(j) ==
    /\ claim' = [job |-> j, target |-> Target(j)]
    /\ expired' = FALSE
    /\ jobs' = [JobsAfterReclaim EXCEPT ![j] = "RUNNING"]
    /\ recorded' = IF j \in Scheduled THEN recorded \cup {j} ELSE recorded
\* MUTANT of Snapshot: the dimension of an active build is not consulted.
SnapshotNoDimension(j) == [gen |-> Target(j), snap |-> desired, bare |-> barren]
Snapshot(j) ==
    [gen |-> Target(j), snap |-> desired, bare |-> barren /\ activeBuild = NoBuild]

Preparing == {"prepare", "reprepare"}
Publishing == {"publish", "republish"}

\* A scheduled run that never inserted its job leaves nothing behind, so its id
\* stands for the fresh id of a later run.
Traceless(j) == jobs[j] = "ABSENT" /\ \A a \in stray : a.job # j

Finish(j, outcome) ==
    /\ pc' = [pc EXCEPT ![j] = IF Traceless(j) THEN "none" ELSE outcome]
    /\ plan' = [plan EXCEPT ![j] = NoPlan]
    /\ draft' = [draft EXCEPT ![j] = NoPlan]

\* A scheduled run gives up; a second prepare that is refused goes on with the
\* plan of the first.  A manual run sleeps and asks again, which changes nothing.
PrepareBusy(j) ==
    /\ pc[j] \in Preparing
    /\ Busy(j)
    /\ \/ /\ pc[j] = "prepare"
          /\ j \in Scheduled
          /\ Finish(j, "busy")
       \/ /\ pc[j] = "reprepare"
          /\ pc' = [pc EXCEPT ![j] = "build"]
          /\ UNCHANGED <<plan, draft>>
    /\ UNCHANGED <<row, barren, jobs, activeBuild, artifacts, stray, api, faults>>

PrepareSkip(j) ==
    /\ pc[j] \in Preparing
    /\ \/ Clean(j, pc[j]) /\ Finish(j, "clean")
       \/ Deferred(j, pc[j]) /\ Finish(j, "deferred")
    /\ SkipTxn(j)
    /\ UNCHANGED <<desired, active, settled, barren, activeBuild, artifacts, stray, cancelling, faults>>

PrepareBuild(j) ==
    /\ pc[j] \in Preparing
    /\ Buildable(j, pc[j])
    /\ ClaimTxn(j)
    /\ draft' = [draft EXCEPT ![j] = Snapshot(j)]
    /\ pc' = [pc EXCEPT ![j] = IF @ = "prepare" THEN "publish" ELSE "republish"]
    /\ UNCHANGED <<desired, active, settled, barren, activeBuild, artifacts, plan, stray, cancelling, faults>>

(* ... then the snapshot is published under the version, outside it.       *)
PublishTxn(j, p) == planned' = [planned EXCEPT ![j][p.gen] = p.snap]

Publish(j) ==
    /\ pc[j] \in Publishing
    /\ PublishTxn(j, draft[j])
    /\ plan' = [plan EXCEPT ![j] = draft[j]]
    /\ draft' = [draft EXCEPT ![j] = NoPlan]
    /\ pc' = [pc EXCEPT ![j] = IF @ = "publish" THEN "seal" ELSE "build"]
    /\ UNCHANGED <<row, barren, jobs, activeBuild, built, stray, api, faults>>

-----------------------------------------------------------------------------
(* The seal, encode-bge, build and activate activities.                    *)

\* Packing embeddings into shards does not touch the rows of this module.
Seal(j) ==
    /\ pc[j] = "seal"
    /\ pc' = [pc EXCEPT ![j] = "reprepare"]
    /\ UNCHANGED <<row, barren, jobs, activeBuild, artifacts, plan, draft, stray, api, faults>>

\* The build reads the published plan, not the corpus, and publishes the files
\* of the version.  A bare plan has the outcome "empty" and publishes nothing.
BuildTxn(j, p) ==
    built' = IF p.bare THEN built ELSE [built EXCEPT ![j][p.gen] = planned[j][p.gen]]

BuildIndex(j) ==
    /\ pc[j] = "build"
    /\ BuildTxn(j, plan[j])
    /\ pc' = [pc EXCEPT ![j] = "activate"]
    /\ UNCHANGED <<row, barren, jobs, activeBuild, planned, plan, draft, stray, api, faults>>

\* The activation transaction: Store.activate, or Store.reconcile_empty for an
\* empty outcome, which leaves index_builds alone and is not protected against
\* a retry.
\* MUTANT of Owns: a claim that is free is nobody else's.
OwnsUnlessOther(j, p) == claim.job \in {j, None}
Owns(j, p) == claim = [job |-> j, target |-> p.gen]
\* MUTANTS of CommitTxn: the active generation becomes the desired one; an empty
\* outcome leaves it as it was.
CommitDesired(j, p) ==
    /\ Owns(j, p)
    /\ active' = desired
    /\ settled' \in {FALSE, settled}
    /\ activeBuild' = IF p.bare THEN activeBuild ELSE [job |-> j, gen |-> p.gen]
    /\ jobs' = [jobs EXCEPT ![j] = "COMPLETED"]
    /\ claim' = Free
    /\ expired' = FALSE
CommitNotEmpty(j, p) ==
    /\ Owns(j, p)
    /\ active' = IF p.bare THEN active ELSE p.gen
    /\ settled' \in {FALSE, settled}
    /\ activeBuild' = IF p.bare THEN activeBuild ELSE [job |-> j, gen |-> p.gen]
    /\ jobs' = [jobs EXCEPT ![j] = "COMPLETED"]
    /\ claim' = Free
    /\ expired' = FALSE
CommitTxn(j, p) ==
    /\ Owns(j, p)
    /\ active' = p.gen
    /\ settled' \in {FALSE, settled}
    /\ activeBuild' = IF p.bare THEN activeBuild ELSE [job |-> j, gen |-> p.gen]
    /\ jobs' = [jobs EXCEPT ![j] = "COMPLETED"]
    /\ claim' = Free
    /\ expired' = FALSE

\* An attempt finds that an earlier one committed.  It looks long before it
\* commits, so either outcome is possible when both are enabled.
Committed(j, p) == ~p.bare /\ activeBuild = [job |-> j, gen |-> p.gen] /\ active = p.gen

Activate(j) ==
    /\ pc[j] = "activate"
    /\ \/ CommitTxn(j, plan[j])
       \/ Committed(j, plan[j]) /\ UNCHANGED <<active, settled, activeBuild, jobs, claim, expired>>
    /\ Finish(j, "done")
    /\ UNCHANGED <<desired, barren, artifacts, stray, api, faults>>

-----------------------------------------------------------------------------
(* Failures.                                                               *)

\* MUTANT of FailTxn: the owner of the claim is not compared.
FailAnyOwner(j, status) ==
    /\ jobs' = [jobs EXCEPT ![j] = status]
    /\ claim' = Free
    /\ expired' = FALSE

\* Store.fail: only the owner of the claim is marked and loses it.
FailTxn(j, status) ==
    IF claim.job = j
      THEN /\ jobs' = [jobs EXCEPT ![j] = status]
           /\ claim' = Free
           /\ expired' = FALSE
      ELSE UNCHANGED <<jobs, claim, expired>>

\* Activation of a superseded run is refused on every attempt.
Superseded(j) == pc[j] = "activate" /\ ~Owns(j, plan[j]) /\ ~Committed(j, plan[j])

\* The last attempt of an activity fails and the run with it.
GiveUp(j) ==
    /\ Running(j)
    /\ \/ Superseded(j) /\ UNCHANGED faults
       \/ ~Superseded(j) /\ faults < MaxFaults /\ faults' = faults + 1
    /\ FailTxn(j, "FAILED")
    /\ Finish(j, "failed")
    /\ UNCHANGED <<desired, active, settled, barren, activeBuild, artifacts, stray, api>>

\* The worker of the last attempt dies: nothing is recorded.
LoseLastAttempt(j) ==
    /\ Running(j)
    /\ faults < MaxFaults
    /\ faults' = faults + 1
    /\ Finish(j, "failed")
    /\ UNCHANGED <<row, barren, jobs, activeBuild, artifacts, stray, api>>

\* The attempt a run is waiting for; a stray publish needs no distinction.
CurrentAttempt(j) ==
    [job  |-> j,
     at   |-> IF pc[j] = "republish" THEN "publish" ELSE pc[j],
     plan |-> IF pc[j] \in Publishing THEN draft[j]
              ELSE IF pc[j] \in {"build", "activate"} THEN plan[j] ELSE NoPlan]

Restart(at) ==
    IF at = "publish" THEN "prepare" ELSE IF at = "republish" THEN "reprepare" ELSE at

\* An attempt times out or loses its worker's heartbeat: it is retried while
\* it may still be running.  One that died, or whose answer was lost, is a
\* stray that does not act, or acts at once.
Abandon(j) ==
    /\ Running(j)
    /\ faults < MaxFaults
    /\ faults' = faults + 1
    /\ stray' = stray \cup {CurrentAttempt(j)}
    /\ pc' = [pc EXCEPT ![j] = Restart(@)]
    /\ draft' = [draft EXCEPT ![j] = NoPlan]
    /\ UNCHANGED <<row, barren, jobs, activeBuild, artifacts, plan, api>>

StrayPrepare(a) ==
    /\ a.at \in Preparing
    /\ \/ /\ Busy(a.job)
          /\ stray' = stray \ {a}
          /\ UNCHANGED <<claim, expired, jobs, recorded>>
       \/ /\ Clean(a.job, a.at) \/ Deferred(a.job, a.at)
          /\ stray' = stray \ {a}
          /\ SkipTxn(a.job)
       \/ /\ Buildable(a.job, a.at)
          /\ stray' = (stray \ {a}) \cup {[a EXCEPT !.at = "publish", !.plan = Snapshot(a.job)]}
          /\ ClaimTxn(a.job)
    /\ UNCHANGED <<desired, active, settled, barren, activeBuild, artifacts, run, cancelling, faults>>

StrayPublish(a) ==
    /\ a.at = "publish"
    /\ stray' = stray \ {a}
    /\ PublishTxn(a.job, a.plan)
    /\ UNCHANGED <<row, barren, jobs, activeBuild, built, run, api, faults>>

StrayBuild(a) ==
    /\ a.at = "build"
    /\ stray' = stray \ {a}
    /\ BuildTxn(a.job, a.plan)
    /\ UNCHANGED <<row, barren, jobs, activeBuild, planned, run, api, faults>>

StrayActivate(a) ==
    /\ a.at = "activate"
    /\ stray' = stray \ {a}
    /\ CommitTxn(a.job, a.plan)
    /\ UNCHANGED <<desired, barren, artifacts, run, api, faults>>

\* A heartbeat of the abandoned attempt is answered with a cancellation, and
\* its handler records one although a newer attempt may be running.
StrayCancelled(a) ==
    /\ a.at \in {"seal", "build", "activate"}
    /\ stray' = stray \ {a}
    /\ FailTxn(a.job, "CANCELLED")
    /\ UNCHANGED <<desired, active, settled, barren, activeBuild, artifacts, run, api, faults>>

-----------------------------------------------------------------------------
(* DELETE /jobs/{job_id}: the status check, the signal to the workflow, the *)
(* status write and the release are four separate steps.                   *)

RequestCancellation(j) ==
    /\ cancelling[j] = "idle"
    /\ jobs[j] \in {"PENDING", "RUNNING", "CANCELLED"}
    /\ faults < MaxFaults
    /\ faults' = faults + 1
    /\ cancelling' = [cancelling EXCEPT ![j] = IF j \in recorded THEN "signal" ELSE "mark"]
    /\ UNCHANGED <<row, barren, jobs, activeBuild, artifacts, run, stray, recorded>>

\* The run stops waiting for its activity; a closed run makes the call fail.
CancelWorkflow(j) ==
    /\ cancelling[j] = "signal"
    /\ \/ /\ Running(j)
          /\ stray' = stray \cup {CurrentAttempt(j)}
          /\ Finish(j, "cancelled")
          /\ cancelling' = [cancelling EXCEPT ![j] = "mark"]
       \/ /\ ~Running(j)
          /\ cancelling' = [cancelling EXCEPT ![j] = "idle"]
          /\ UNCHANGED <<run, stray>>
    /\ UNCHANGED <<row, barren, jobs, activeBuild, artifacts, recorded, faults>>

MarkCancelled(j) ==
    /\ cancelling[j] = "mark"
    /\ jobs' = [jobs EXCEPT ![j] = "CANCELLED"]
    /\ cancelling' = [cancelling EXCEPT ![j] = "release"]
    /\ UNCHANGED <<row, barren, activeBuild, artifacts, run, stray, recorded, faults>>

ReleaseClaim(j) ==
    /\ cancelling[j] = "release"
    /\ claim' = IF claim.job = j THEN Free ELSE claim
    /\ expired' = (expired /\ claim.job # j)
    /\ cancelling' = [cancelling EXCEPT ![j] = "idle"]
    /\ UNCHANGED <<desired, active, settled, barren, jobs, activeBuild, artifacts, run, stray, recorded, faults>>

-----------------------------------------------------------------------------
Environment == MarkDirty \/ Settle \/ ExpireOrphanClaim \/ ExpireLiveClaim

Trigger(j) == CreateRebuild(j) \/ StartWorkflow(j) \/ RecordWorkflowId(j) \/ ScheduleTick(j)

Workflow(j) ==
    \/ PrepareBusy(j) \/ PrepareSkip(j) \/ PrepareBuild(j) \/ Publish(j)
    \/ Seal(j) \/ BuildIndex(j) \/ Activate(j)

Failure(j) == GiveUp(j) \/ LoseLastAttempt(j) \/ Abandon(j)

Stray(a) ==
    StrayPrepare(a) \/ StrayPublish(a) \/ StrayBuild(a) \/ StrayActivate(a) \/ StrayCancelled(a)

Cancel(j) == RequestCancellation(j) \/ CancelWorkflow(j) \/ MarkCancelled(j) \/ ReleaseClaim(j)

Next ==
    \/ Environment
    \/ \E j \in Job : Trigger(j) \/ Workflow(j) \/ Failure(j) \/ Cancel(j)
    \/ \E a \in stray : Stray(a)

Spec == Init /\ [][Next]_vars

-----------------------------------------------------------------------------
(* Safety.                                                                 *)

\* The active index_builds row and the generation row agree, and the published
\* files of the active version were built from a corpus that holds every change
\* up to the active generation, whichever attempt wrote them last.
ActiveBuildSound ==
    activeBuild # NoBuild =>
        /\ activeBuild.gen = active
        /\ built[activeBuild.job][active] >= active

\* No change to the corpus is ever lost: when the row says that nothing is left
\* to rebuild, the active version was built from the present corpus, or there
\* is no version and nothing to put in one.
FreshMeansCurrent ==
    ~Stale => IF activeBuild = NoBuild
                THEN barren
                ELSE built[activeBuild.job][activeBuild.gen] = desired

\* Why the two above hold: the parts of an inductive invariant.
RowInv ==
    /\ desired >= 1
    /\ active <= desired
    /\ IF claim.job = None
         THEN claim = Free
         ELSE active <= claim.target /\ 1 <= claim.target /\ claim.target <= desired

ArtifactInv ==
    \A j \in Job, g \in Generation :
        /\ planned[j][g] # -1 => g <= planned[j][g] /\ planned[j][g] <= desired
        /\ built[j][g] # -1 => g <= built[j][g] /\ built[j][g] <= desired

\* A plan is never ahead of a claim granted after it; one taken from the present
\* corpus is bare only if the corpus is barren; and a bare one is dead as soon as
\* there is an active build.
PlanSound(j, p) ==
    /\ p.gen <= p.snap /\ p.snap <= desired
    /\ claim.job # None => p.gen <= claim.target
    /\ p.snap = desired /\ p.bare => barren
    /\ p.snap = desired /\ ~p.bare /\ activeBuild = NoBuild => ~barren
    /\ p.bare /\ activeBuild # NoBuild => p.gen < desired /\ ~Owns(j, p)

PlanInv ==
    /\ \A j \in Job : PlanSound(j, plan[j]) /\ PlanSound(j, draft[j])
    /\ \A a \in stray : PlanSound(a.job, a.plan)

\* What an attempt is about to read has been written.
Published(j, p) == ~p.bare => planned[j][p.gen] # -1
Complete(j, p) == ~p.bare => built[j][p.gen] # -1
ReadInv ==
    /\ \A j \in Job :
        /\ Published(j, plan[j])
        /\ pc[j] = "activate" => Complete(j, plan[j])
    /\ \A a \in stray :
        /\ a.at \in {"build", "activate"} => Published(a.job, a.plan)
        /\ a.at = "activate" => Complete(a.job, a.plan)

BuildInv ==
    IF activeBuild = NoBuild
      THEN active = desired => barren
      ELSE /\ activeBuild.job # None
           /\ activeBuild.gen = active
           /\ built[activeBuild.job][active] # -1

\* A row exists for every job that holds the claim, works or is being cancelled.
JobInv ==
    /\ claim.job # None => jobs[claim.job] # "ABSENT"
    /\ \A j \in Job : cancelling[j] # "idle" => jobs[j] # "ABSENT"
    /\ \A j \in Manual : jobs[j] = "ABSENT" <=> pc[j] = "none"
    /\ \A a \in stray : a.job \in Manual => jobs[a.job] # "ABSENT"

Inv == RowInv /\ ArtifactInv /\ PlanInv /\ ReadInv /\ BuildInv /\ JobInv

\* The active generation never moves backwards, although superseded runs and
\* abandoned attempts reach the activation transaction late.
ActiveNeverRegresses == [][active' >= active]_active

\* A claim that neither expired nor belongs to a finished job is not taken by
\* another run's prepare, failure or late attempt: it ends with its own job, or
\* by the release that follows the cancellation of that job.
LiveClaimKept ==
    [][claim.job # None /\ ~OwnerGone /\ claim' # claim =>
           /\ claim' = Free
           /\ jobs'[claim.job] \in Terminal \/ cancelling[claim.job] = "release"]_vars

\* The row, with everything around it, keeps the promise of GenerationFence.
Fence == INSTANCE GenerationFence WITH lapsed <- OwnerGone
FenceSpec == Fence!Spec

-----------------------------------------------------------------------------
(* Liveness.  A run goes on while a worker serves its queue, the schedule  *)
(* keeps ticking, and time passes; nobody has to press a button.           *)

Fairness ==
    /\ \A j \in Job :
        /\ WF_vars(Workflow(j))
        /\ WF_vars(Superseded(j) /\ GiveUp(j))
        /\ WF_vars(ScheduleTick(j))
    /\ WF_vars(Settle)
    /\ WF_vars(ExpireOrphanClaim)

FairSpec == Spec /\ Fairness

\* Whatever attempts and runs leave claims behind, the row does not stay claimed:
\* after the last fault the last such claim is released.
ClaimFreed == []<>(claim.job = None)

\* Once the corpus stops changing the index catches up with it.
EventuallyCurrent == <>[](~Stale)

\* A manual run that waits for other runs gets its turn and ends.
ManualRunEnds == \A j \in Manual : Running(j) ~> ~Running(j)
=============================================================================

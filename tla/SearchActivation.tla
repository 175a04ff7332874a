-------------------------- MODULE SearchActivation --------------------------
(***************************************************************************)
(* Which index version search serves, and which one the database calls     *)
(* active.  The attempts of the activate activity and the reconcile probe  *)
(* of the API send requests to the gateway of the compute service, which   *)
(* passes them one at a time to the search child process.  The child keeps *)
(* a serving, a candidate and a retained version; the gateway remembers    *)
(* what was serving and restores it when the child has died.               *)
(*                                                                         *)
(* A request whose answer is lost goes on in the gateway without a caller. *)
(***************************************************************************)
EXTENDS Integers

CONSTANTS
    MaxVersion,   \* bound: claims granted, each of which builds one version
    MaxAttempts,  \* ACTIVATE_MAX_ATTEMPTS
    MaxFaults,    \* bound: deaths, lost answers, timeouts, failed commits, ...
    Reconciling,  \* the API reconciles; FALSE leaves the activations to themselves
    Probe,        \* the reconcile probe
    Nobody        \* the caller of a request nobody waits for

ASSUME ActivationAssumption ==
    /\ MaxVersion \in Nat /\ MaxAttempts \in Nat /\ MaxFaults \in Nat
    /\ Reconciling \in BOOLEAN

Version == 1..MaxVersion
VersionOrNone == 0..MaxVersion
Attempt == Version \X (1..MaxAttempts)
ASSUME CallerAssumption == Probe \notin Attempt /\ Nobody \notin Attempt \cup {Probe}
Caller == Attempt \cup {Probe}

VARIABLES
    active,      \* version of the index_builds row with is_active
    owner,       \* version the holder of the rebuild claim is building
    granted,     \* claims granted so far: the v-th one builds version v
    lost,        \* versions whose complete.json is missing
    over,        \* versions whose run has ended
    child,       \* Resident: the search child process
    remembered,  \* Gateway._serving_version and _retained_version
    known,       \* Gateway._generations
    requests,    \* requests in the gateway
    pc,          \* where each caller is
    seen,        \* the version the probe read from the database
    faults,      \* faults so far, at most MaxFaults
    served       \* history: versions search has served

database == <<active, owner, granted, lost>>
compute == <<child, remembered, known>>
system == <<database, over, compute, requests, pc, seen, faults>>
vars == <<system, served>>

Child == [up : BOOLEAN, serving : VersionOrNone, candidate : VersionOrNone,
          retained : VersionOrNone]
Pair == [serving : VersionOrNone, retained : VersionOrNone]
Nothing == [serving |-> 0, retained |-> 0]
Fresh == [up |-> TRUE, serving |-> 0, candidate |-> 0, retained |-> 0]

Calling == {"load", "switch", "rollback", "confirm", "inspect", "reload", "reswitch", "ready",
            "vacant", "clear"}
Ended == {"done", "failed"}
PC == Calling \cup Ended \cup {"queued", "commit", "matched", "idle", "read", "deactivate"}
Restoring == {"restart", "remember", "retained", "retainedSwitch", "serving", "servingSwitch"}
Holding == Restoring \cup {"forget"}      \* the recovery lock is held
Request == [by : Caller \cup {Nobody}, op : {"load", "switch", "rollback", "status", "clear"},
            version : VersionOrNone, stage : {"call", "recover", "lost"} \cup Holding, want : Pair]

TypeOK ==
    /\ active \in VersionOrNone /\ owner \in VersionOrNone /\ granted \in VersionOrNone
    /\ lost \subseteq Version /\ over \subseteq Version
    /\ child \in Child
    /\ remembered \in Pair
    /\ known \subseteq Version
    /\ requests \subseteq Request
    /\ pc \in [Caller -> PC]
    /\ seen \in VersionOrNone
    /\ faults \in 0..MaxFaults
    /\ served \subseteq Version

Init ==
    /\ active = 0 /\ owner = 0 /\ granted = 0 /\ lost = {} /\ over = {}
    /\ child = Fresh
    /\ remembered = Nothing
    /\ known = {}
    /\ requests = {}
    /\ pc = [p \in Caller |-> IF p = Probe THEN "idle" ELSE "queued"]
    /\ seen = 0
    /\ faults = 0
    /\ served = {}

Fault == faults < MaxFaults /\ faults' = faults + 1

Goal(p) == IF p = Probe THEN seen ELSE p[1]

\* The request a caller sends when it comes to a place.
Op(at) ==
    CASE at \in {"load", "reload"}     -> "load"
      [] at \in {"switch", "reswitch"} -> "switch"
      [] at \in {"rollback", "clear"}  -> at
      [] OTHER                         -> "status"
Call(p, op, v) == [by |-> p, op |-> op, version |-> v, stage |-> "call", want |-> Nothing]
Ask(p, at, v) == IF at \in Calling THEN {Call(p, Op(at), v)} ELSE {}

\* A caller goes on by itself, without an answer.
Move(p, at, v) ==
    /\ pc' = [pc EXCEPT ![p] = at]
    /\ requests' = requests \cup Ask(p, at, v)

-----------------------------------------------------------------------------
(* Resident: what each request does to the child.                          *)

\* MUTANT of Accepts: a rollback does not compare the version.
AcceptsAnyRollback(op, v) ==
    /\ op = "switch" => child.candidate = v
    /\ op = "rollback" => child.retained # 0
Accepts(op, v) ==
    /\ op = "switch" => child.candidate = v
    /\ op = "rollback" => child.serving = v /\ child.retained # 0

Effect(op, v) ==
    IF ~Accepts(op, v) THEN child ELSE
      CASE op = "load"     -> [child EXCEPT !.candidate = v]
        [] op = "switch"   -> [child EXCEPT !.serving = v, !.candidate = 0, !.retained = child.serving]
        [] op = "rollback" -> [child EXCEPT !.serving = child.retained, !.candidate = v, !.retained = 0]
        [] OTHER           -> child

View(c) == [serving |-> c.serving, retained |-> c.retained]

-----------------------------------------------------------------------------
(* What a caller does with an answer.                                      *)

Stop(p) == IF p = Probe THEN "idle" ELSE "failed"

\* MUTANTS of Onward: the commit precedes the switch; the probe takes a child
\* that answers for one that is ready.
OnwardCommitFirst(p) ==
    LET at == pc[p] reconciled == IF p = Probe THEN "idle" ELSE "matched" IN
    CASE at = "load"     -> "commit"
      [] at = "rollback" -> "failed"
      [] at = "inspect"  -> IF child.serving = Goal(p) THEN reconciled ELSE "reload"
      [] at = "reload"   -> "reswitch"
      [] at = "reswitch" -> reconciled
      [] at = "confirm"  -> IF child.serving = Goal(p) THEN "done" ELSE "failed"
      [] at = "ready"    -> IF child.serving # 0 THEN "idle" ELSE "read"
      [] at = "vacant"   -> IF child = Fresh THEN "idle" ELSE "clear"
      [] OTHER           -> "idle"
OnwardAnswersIsReady(p) ==
    LET at == pc[p] reconciled == IF p = Probe THEN "idle" ELSE "matched" IN
    CASE at = "load"     -> "switch"
      [] at = "switch"   -> "commit"
      [] at = "rollback" -> "failed"
      [] at = "inspect"  -> IF child.serving = Goal(p) THEN reconciled ELSE "reload"
      [] at = "reload"   -> "reswitch"
      [] at = "reswitch" -> reconciled
      [] at = "confirm"  -> IF child.serving = Goal(p) THEN "done" ELSE "failed"
      [] at = "ready"    -> "idle"
      [] at = "vacant"   -> IF child = Fresh THEN "idle" ELSE "clear"
      [] OTHER           -> "idle"

\* search.activate, search.reconcile, index.ops._confirm_activation, _clear_remote
\* and search_reconcile_probe, as the place each goes to when a call succeeds.
Onward(p) ==
    LET at == pc[p] reconciled == IF p = Probe THEN "idle" ELSE "matched" IN
    CASE at = "load"     -> "switch"
      [] at = "switch"   -> "commit"
      [] at = "rollback" -> "failed"
      [] at = "inspect"  -> IF child.serving = Goal(p) THEN reconciled ELSE "reload"
      [] at = "reload"   -> "reswitch"
      [] at = "reswitch" -> reconciled
      [] at = "confirm"  -> IF child.serving = Goal(p) THEN "done" ELSE "failed"
      [] at = "ready"    -> IF child.serving # 0 THEN "idle" ELSE "read"
      [] at = "vacant"   -> IF child = Fresh THEN "idle" ELSE "clear"
      [] OTHER           -> "idle"

\* reconcile repeats a call while it is answered "unavailable", up to five times.
Retried == {"inspect", "reload", "reswitch"}
Continue(p, answer) ==
    CASE answer = "ok" -> {Onward(p)}
      [] answer = "unavailable" /\ pc[p] \in Retried -> {pc[p], Stop(p)}
      [] OTHER -> {Stop(p)}

\* The caller of q, if it still waits, goes on; "rest" is the fate of q itself.
Answer(q, answer, rest) ==
    IF q.by = Nobody
      THEN requests' = (requests \ {q}) \cup rest /\ UNCHANGED <<pc, over>>
      ELSE \E at \in Continue(q.by, answer) :
             /\ pc' = [pc EXCEPT ![q.by] = at]
             /\ requests' = (requests \ {q}) \cup rest \cup Ask(q.by, at, Goal(q.by))
             /\ over' = IF at = "done" THEN over \cup {Goal(q.by)} ELSE over
Reply(q, answer) == Answer(q, answer, {})
Advance(q, stage) ==
    /\ requests' = (requests \ {q}) \cup {[q EXCEPT !.stage = stage]}
    /\ UNCHANGED <<pc, over>>

-----------------------------------------------------------------------------
(* The gateway: Gateway._call, one request at a time through the child.    *)

\* MUTANT of Execute: every version the child answers for is remembered as loaded.
ExecuteKnowsAll(q) ==
    /\ q.stage = "call" /\ q.op # "clear"
    /\ child.up
    /\ child' = Effect(q.op, q.version)
    /\ IF Accepts(q.op, q.version)
         THEN /\ remembered' = IF q.op = "load" THEN remembered ELSE View(child')
              /\ known' = known \cup {q.version}
              /\ Reply(q, "ok")
         ELSE UNCHANGED <<remembered, known>> /\ Reply(q, "refused")
    /\ UNCHANGED <<database, seen, faults>>
Execute(q) ==
    /\ q.stage = "call" /\ q.op # "clear"
    /\ child.up
    /\ child' = Effect(q.op, q.version)
    /\ IF Accepts(q.op, q.version)
         THEN /\ remembered' = IF q.op = "load" THEN remembered ELSE View(child')
              /\ known' = IF q.op = "load" THEN known \cup {q.version} ELSE known
              /\ Reply(q, "ok")
         ELSE UNCHANGED <<remembered, known>> /\ Reply(q, "refused")
    /\ UNCHANGED <<database, seen, faults>>

\* The child is gone, or does not answer in time, whether or not it did the work.
ChildDead(q) ==
    /\ q.stage = "call" /\ q.op # "clear"
    /\ \/ ~child.up /\ UNCHANGED <<child, faults>>
       \/ child.up /\ Fault /\ child' \in {child, Effect(q.op, q.version)}
    /\ Advance(q, "recover")
    /\ UNCHANGED <<database, remembered, known, seen>>

\* The answer of the gateway does not reach the caller; the request was lost, or
\* is still in the gateway.
LoseAnswer(q) ==
    /\ q.by # Nobody
    /\ Fault
    /\ \E rest \in {{}, {[q EXCEPT !.by = Nobody]}} :
         /\ q.stage \in Holding => rest # {}
         /\ Answer(q, "unavailable", rest)
    /\ UNCHANGED <<database, compute, seen>>

-----------------------------------------------------------------------------
(* Gateway._recover and Gateway.clear, under the recovery lock.            *)

LockFree == \A q \in requests : q.stage \notin Holding

\* Another request may have recovered the child already.
Recover(q) ==
    /\ q.stage = "recover"
    /\ LockFree
    /\ IF child.up /\ remembered.serving # 0 /\ remembered = View(child)
         THEN Reply(q, "unavailable")
         ELSE Advance(q, "restart")
    /\ UNCHANGED <<database, compute, seen, faults>>

RestartChild(q) ==
    /\ q.stage = "restart"
    /\ child' = Fresh
    /\ Advance(q, "remember")
    /\ UNCHANGED <<database, remembered, known, seen, faults>>

Remember(q) ==
    /\ q.stage = "remember"
    /\ IF remembered.serving \in known /\ remembered.retained \in known \cup {0}
         THEN /\ requests' = (requests \ {q}) \cup
                   {[q EXCEPT !.want = remembered,
                       !.stage = IF remembered.retained # 0 THEN "retained" ELSE "serving"]}
              /\ UNCHANGED <<pc, over>>
         ELSE Reply(q, "unavailable")
    /\ UNCHANGED <<database, compute, seen, faults>>

RestoreLoad(q) ==
    /\ q.stage \in {"retained", "serving"}
    /\ IF child.up
         THEN /\ child' = Effect("load", IF q.stage = "retained" THEN q.want.retained ELSE q.want.serving)
              /\ Advance(q, IF q.stage = "retained" THEN "retainedSwitch" ELSE "servingSwitch")
         ELSE UNCHANGED child /\ Reply(q, "unavailable")
    /\ UNCHANGED <<database, remembered, known, seen, faults>>

RestoreSwitch(q) ==
    LET v == IF q.stage = "retainedSwitch" THEN q.want.retained ELSE q.want.serving IN
    /\ q.stage \in {"retainedSwitch", "servingSwitch"}
    /\ IF child.up /\ Accepts("switch", v)
         THEN /\ child' = Effect("switch", v)
              /\ IF q.stage = "retainedSwitch"
                   THEN UNCHANGED remembered /\ Advance(q, "serving")
                   ELSE remembered' = View(child') /\ Reply(q, "unavailable")
         ELSE /\ UNCHANGED <<child, remembered>>
              /\ Reply(q, IF child.up THEN "refused" ELSE "unavailable")
    /\ UNCHANGED <<database, known, seen, faults>>

\* clear takes the lock, restarts the child whatever it answered, and forgets.
ClearChild(q) ==
    /\ q.op = "clear" /\ q.stage = "call"
    /\ LockFree
    /\ child' = Fresh
    /\ Advance(q, "forget")
    /\ UNCHANGED <<database, remembered, known, seen, faults>>

Forget(q) ==
    /\ q.stage = "forget"
    /\ known' = {}
    /\ remembered' = IF child.up THEN View(child) ELSE Nothing
    /\ Reply(q, IF child.up THEN "ok" ELSE "unavailable")
    /\ UNCHANGED <<database, child, seen, faults>>

\* The connection broke when the compute service went down.
Disconnected(q) ==
    /\ q.stage = "lost"
    /\ Reply(q, "unavailable")
    /\ UNCHANGED <<database, compute, seen, faults>>

Handle(q) ==
    \/ Execute(q) \/ Disconnected(q)
    \/ (~child.up /\ ChildDead(q))
    \/ Recover(q) \/ RestartChild(q) \/ Remember(q) \/ RestoreLoad(q) \/ RestoreSwitch(q)
    \/ ClearChild(q) \/ Forget(q)

-----------------------------------------------------------------------------
(* The activate activity: index.ops.activate.                              *)

InFlight(a) == pc[a] \notin Ended \cup {"queued"}

\* The manifest validates and the attempt looks whether an earlier one committed.
\* A later attempt follows one that failed, or, a fault, one that timed out.
Begin(a) ==
    /\ pc[a] = "queued"
    /\ a[1] <= granted /\ a[1] \notin lost \cup over
    /\ \/ a[2] = 1 /\ UNCHANGED faults
       \/ a[2] > 1 /\ pc[<<a[1], a[2] - 1>>] = "failed" /\ UNCHANGED faults
       \/ a[2] > 1 /\ InFlight(<<a[1], a[2] - 1>>) /\ Fault
    /\ Move(a, IF active = a[1] THEN "inspect" ELSE "load", a[1])
    /\ UNCHANGED <<database, over, compute, seen>>

\* The transaction commits if the claim is still held; a failure of it, before
\* or after the commit took effect, is rolled back in search.
Commit(a) ==
    /\ pc[a] = "commit"
    /\ \/ /\ owner = a[1]
          /\ active' = a[1] /\ owner' = 0
          /\ \/ Move(a, "matched", a[1]) /\ UNCHANGED faults
             \/ Move(a, "rollback", a[1]) /\ Fault
       \/ /\ Move(a, "rollback", a[1])
          /\ IF owner = a[1] THEN Fault ELSE UNCHANGED faults
          /\ UNCHANGED <<active, owner>>
    /\ UNCHANGED <<granted, lost, over, compute, seen>>

\* _confirm_activation looks at the database first, then at search.
Matched(a) ==
    /\ pc[a] = "matched"
    /\ Move(a, IF active = a[1] THEN "confirm" ELSE "failed", a[1])
    /\ UNCHANGED <<database, over, compute, seen, faults>>

\* The last attempt failed, or the manifest is gone: bookkeeping ends the run.
GiveUp(v) ==
    /\ v \notin over
    /\ \/ pc[<<v, MaxAttempts>>] = "failed"
       \/ v \in lost /\ v <= granted /\ \A n \in 1..MaxAttempts : ~InFlight(<<v, n>>)
    /\ over' = over \cup {v}
    /\ owner' = IF owner = v THEN 0 ELSE owner
    /\ UNCHANGED <<active, granted, lost, compute, requests, pc, seen, faults>>

-----------------------------------------------------------------------------
(* The probe of the API: search_reconcile_probe and index.ops.reconcile.   *)

Tick ==
    /\ Reconciling
    /\ pc[Probe] = "idle"
    /\ Move(Probe, "ready", 0)
    /\ UNCHANGED <<database, over, compute, seen, faults>>

Read ==
    /\ pc[Probe] = "read"
    /\ seen' = active
    /\ Move(Probe, IF active = 0 THEN "vacant" ELSE IF active \in lost THEN "deactivate" ELSE "inspect",
            active)
    /\ UNCHANGED <<database, over, compute, faults>>

Deactivate ==
    /\ pc[Probe] = "deactivate"
    /\ active' = IF active = seen THEN 0 ELSE active
    /\ Move(Probe, "vacant", seen)
    /\ UNCHANGED <<owner, granted, lost, over, compute, seen, faults>>

\* The API process restarts and reconciles whether or not search is ready.
Startup ==
    /\ Reconciling
    /\ Fault
    /\ pc' = [pc EXCEPT ![Probe] = "read"]
    /\ requests' = {IF q.by = Probe THEN [q EXCEPT !.by = Nobody] ELSE q : q \in requests}
    /\ UNCHANGED <<database, over, compute, seen>>

-----------------------------------------------------------------------------
(* The surroundings.                                                       *)

\* A rebuild claims the row, superseding the holder if there is one (RebuildClaim).
Grant ==
    /\ granted < MaxVersion
    /\ granted' = granted + 1
    /\ owner' = granted + 1
    /\ UNCHANGED <<active, lost, over, compute, requests, pc, seen, faults>>

Release ==
    /\ owner # 0
    /\ owner' = 0
    /\ UNCHANGED <<active, granted, lost, over, compute, requests, pc, seen, faults>>

ChildDies ==
    /\ child.up
    /\ Fault
    /\ child' = [Fresh EXCEPT !.up = FALSE]
    /\ UNCHANGED <<database, over, remembered, known, requests, pc, seen>>

\* The compute service restarts: the gateway forgets everything, too.
ComputeRestarts ==
    /\ Fault
    /\ child' = Fresh
    /\ remembered' = Nothing
    /\ known' = {}
    /\ requests' = {[q EXCEPT !.stage = "lost"] : q \in {r \in requests : r.by # Nobody}}
    /\ UNCHANGED <<database, over, pc, seen>>

LoseManifest(v) ==
    /\ v <= granted /\ v \notin lost
    /\ Fault
    /\ lost' = lost \cup {v}
    /\ UNCHANGED <<active, owner, granted, over, compute, requests, pc, seen>>

\* GET /ready of the compute service, and search queries, call the child as well.
Poll ==
    /\ \A q \in requests : q.by = Nobody => q.op # "status"
    /\ requests' = requests \cup {Call(Nobody, "status", 0)}
    /\ UNCHANGED <<database, over, compute, pc, seen, faults>>

Step ==
    \/ \E q \in requests : Handle(q) \/ (child.up /\ ChildDead(q)) \/ LoseAnswer(q)
    \/ \E a \in Attempt : Begin(a) \/ Commit(a) \/ Matched(a)
    \/ \E v \in Version : GiveUp(v) \/ LoseManifest(v)
    \/ Tick \/ Read \/ Deactivate \/ Startup
    \/ Grant \/ Release \/ ChildDies \/ ComputeRestarts \/ Poll

Next == Step /\ served' = served \cup ({child'.serving} \ {0})

Spec == Init /\ [][Next]_vars

-----------------------------------------------------------------------------
(* Safety.                                                                 *)

\* Search switches before the database commits: the database never names a
\* version that search has not served.
CommittedWasServed == active \in served \cup {0}

\* A rollback of one run does not take down what another one committed.
RollbackSparesOthers ==
    [][\A q \in requests :
         /\ q.op = "rollback" /\ q.stage = "call"
         /\ q \notin requests' /\ child'.serving \notin {0, child.serving}
         => active # child.serving \/ q.version = active]_vars

-----------------------------------------------------------------------------
(* Liveness.  The gateway handles the requests it has, an activity that    *)
(* began goes on and is retried, and the API probes.                       *)

Fairness ==
    /\ \A p \in Caller : WF_system(\E q \in requests : q.by = p /\ Handle(q))
    /\ WF_system(\E q \in requests : q.by = Nobody /\ q.stage # "call" /\ Handle(q))
    /\ \A a \in Attempt : WF_system(Commit(a) \/ Matched(a)) /\ WF_system(a[2] > 1 /\ Begin(a))
    /\ WF_system(Tick \/ Read \/ Deactivate)
FairSpec == Spec /\ Fairness

\* Search does not stay without an index while the database names one.
AvailabilityRestored == []<>(active = 0 \/ child.serving # 0)
=============================================================================

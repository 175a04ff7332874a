--------------------------- MODULE SearchEvalRuns ---------------------------
(***************************************************************************)
(* The evaluation pages: the benchmark (queries, their pooled candidates   *)
(* and which of them are judged), the runs made from frozen copies of it,  *)
(* the workflow of each run, and the tabs that look at all this through an *)
(* overview they poll only while it shows an active run.                   *)
(*                                                                         *)
(* A snapshot is known by its content, as the content hash of the code has *)
(* it: which images are judged for each of its queries.  Which of them get *)
(* a grade that counts as relevant is the same whoever judges and when.    *)
(***************************************************************************)
EXTENDS Naturals

CONSTANTS
    Tab,
    Query,        \* the queries that may be added, known by their numbers
    Image,
    Fitting,      \* the images that are judged relevant
    Retrieved,    \* what one search for each query may return
    FirstQueries, \* the queries at the start
    FirstPool,    \* their candidates, all judged
    MaxRuns,      \* bound: runs ever made
    MaxChanges,   \* bound: changes of the benchmark
    MaxFaults     \* bound: activities, workflow starts and calls for all queries that fail

ASSUME EvalAssumption ==
    /\ Query \subseteq Nat
    /\ Retrieved \in [Query -> SUBSET ((SUBSET Image) \ {{}})]
    /\ Fitting \subseteq Image
    /\ FirstQueries \subseteq Query /\ FirstPool \subseteq Image
    /\ MaxRuns \in Nat
    /\ MaxChanges \in Nat
    /\ MaxFaults \in Nat

Run == 1..MaxRuns

VARIABLES
    status,    \* of each query: absent, active or disabled
    pool,      \* the candidates of each query
    judged,    \* those that have a grade
    runs,      \* the rows of the runs
    baseline,  \* the baseline run, 0 for none
    flow,      \* the workflow of each run
    shown,     \* per tab: the statuses of the overview as last loaded
    due,       \* per tab: the overview has been invalidated
    call,      \* per tab: the dialog of a new evaluation and its call
    changes,   \* changes of the benchmark so far
    faults     \* faults so far

benchmark == <<status, pool, judged>>
server == <<runs, baseline, flow>>
page == <<shown, due, call>>
vars == <<benchmark, server, page, changes, faults>>

----------------------------------------------------------------------------
Snapshot == UNION {[S -> SUBSET Image] : S \in SUBSET Query}
NoSnapshot == << >>

Active == {q \in Query : status[q] = "active"}
\* (mutant) The judgments are frozen for the queries that are active by now.
SnapshotOfActive(S) == [q \in Active |-> judged[q]]

\* The judgments of the queries S, frozen.
SnapshotOf(S) == [q \in S |-> judged[q]]

\* What _snapshot asks of the benchmark before a run, and of a run's queries
\* when it is scored.
Complete == \A q \in Active : pool[q] # {} /\ judged[q] = pool[q]
Relevant(S) == S # {} /\ \A q \in S : judged[q] \cap Fitting # {}

NoRun == [status |-> "none", snapshot |-> NoSnapshot, results |-> << >>,
          scores |-> {}, scored |-> NoSnapshot]
Working == {"queued", "running"}
Existing == {r \in Run : runs[r].status # "none"}
Idle == [step |-> "none", on |-> NoSnapshot]
NoCall == [step |-> "closed", todo |-> {}]

Overview == [r \in Run |-> runs[r].status]
ShowsActive(t) == \E r \in Run : shown[t][r] \in Working

Init ==
    /\ status = [q \in Query |-> IF q \in FirstQueries THEN "active" ELSE "absent"]
    /\ pool = [q \in Query |-> IF q \in FirstQueries THEN FirstPool ELSE {}]
    /\ judged = pool
    /\ runs = [r \in Run |-> NoRun]
    /\ baseline = 0
    /\ flow = [r \in Run |-> Idle]
    /\ shown = [t \in Tab |-> Overview]
    /\ due = [t \in Tab |-> FALSE]
    /\ call = [t \in Tab |-> NoCall]
    /\ changes = 0
    /\ faults = 0

First(S) == CHOOSE n \in S : \A m \in S : n <= m

Change == changes < MaxChanges /\ changes' = changes + 1
Fault == faults < MaxFaults /\ faults' = faults + 1
Invalidate(t) == due' = [due EXCEPT ![t] = TRUE]

----------------------------------------------------------------------------
\* The benchmark.  The buttons of the query list and the judgment page.
CreateQuery(t) ==
    /\ Change
    /\ \E q \in Query : status[q] = "absent" /\ status' = [status EXCEPT ![q] = "active"]
    /\ Invalidate(t)
    /\ UNCHANGED <<pool, judged, server, shown, call, faults>>

DisableQuery(t) ==
    /\ Change
    /\ \E q \in Active : status' = [status EXCEPT ![q] = "disabled"]
    /\ Invalidate(t)
    /\ UNCHANGED <<pool, judged, server, shown, call, faults>>

\* Candidates of one query or of all are refreshed.  The calls for all go out
\* together; if one fails the others have added theirs, and the page is not told.
\* Searches that find nothing new are left out.
PoolQueries(t) ==
    /\ Change
    /\ \E asked \in {{q} : q \in Active} \cup ({Active} \ {{}}) : \E done \in SUBSET asked :
          /\ \E found \in [done -> SUBSET Image] :
                /\ \A q \in done : found[q] \in Retrieved[q]
                /\ pool' = [q \in Query |-> IF q \in done THEN pool[q] \cup found[q] ELSE pool[q]]
          /\ IF done = asked THEN Invalidate(t) /\ UNCHANGED faults
                             ELSE Fault /\ UNCHANGED due
    /\ pool' # pool
    /\ UNCHANGED <<status, judged, server, shown, call>>

\* (mutant) It is not looked whether the image is a candidate of the query.
JudgeAny ==
    /\ \E q \in Active : \E i \in Image \ judged[q] :
          judged' = [judged EXCEPT ![q] = @ \cup {i}]
    /\ Change
    /\ UNCHANGED <<status, pool, server, page, faults>>

\* A candidate gets a grade or loses it; the page judges active queries only.
Judge ==
    /\ \E q \in Active : \E i \in pool[q] \ judged[q] :
          judged' = [judged EXCEPT ![q] = @ \cup {i}]
    /\ Change
    /\ UNCHANGED <<status, pool, server, page, faults>>

ClearJudgment ==
    /\ \E q \in Active : \E i \in judged[q] : judged' = [judged EXCEPT ![q] = @ \ {i}]
    /\ Change
    /\ UNCHANGED <<status, pool, server, page, faults>>

----------------------------------------------------------------------------
\* The overview is loaded.  It is polled while it shows an active run and loaded
\* again when a call of this tab has invalidated it or the window gets the focus.
Show(t) ==
    /\ shown' = [shown EXCEPT ![t] = Overview]
    /\ due' = [due EXCEPT ![t] = FALSE]
    /\ UNCHANGED <<benchmark, server, call, changes, faults>>

Poll(t) == (due[t] \/ ShowsActive(t)) /\ Show(t)
Focus(t) == ~due[t] /\ ~ShowsActive(t) /\ Show(t)

\* The button is off while the overview shows an active run; a dialog that is open
\* stays, and closing it changes nothing else.
OpenDialog(t) ==
    /\ ~ShowsActive(t)
    /\ call[t].step = "closed"
    /\ call' = [call EXCEPT ![t].step = "open"]
    /\ UNCHANGED <<benchmark, server, shown, due, changes, faults>>

\* Run: is another one active?  Then, as after every error below, the dialog is left
\* open and nothing is loaded again; until it learns of that nobody can press in it.
StartEvaluation(t) ==
    /\ call[t].step = "open"
    /\ call' = [call EXCEPT ![t].step =
                  IF \E r \in Run : runs[r].status \in Working THEN "open" ELSE "checked"]
    /\ UNCHANGED <<benchmark, server, shown, due, changes, faults>>

\* The benchmark is frozen and a run inserted for every recipe.
InsertRuns(t) ==
    /\ call[t].step = "checked"
    /\ IF Complete /\ Relevant(Active)
       THEN \E n \in Run \ Existing :
               LET new == {r \in Run \ Existing : r <= n} IN
               /\ runs' = [r \in Run |-> IF r \in new
                             THEN [NoRun EXCEPT !.status = "queued", !.snapshot = SnapshotOf(Active)]
                             ELSE runs[r]]
               /\ call' = [call EXCEPT ![t] = [step |-> "starting", todo |-> new]]
       ELSE /\ call' = [call EXCEPT ![t].step = "open"]
            /\ UNCHANGED runs
    /\ UNCHANGED <<benchmark, baseline, flow, shown, due, changes, faults>>

\* The workflows are started one after the other.
StartWorkflow(t) ==
    /\ call[t].step = "starting"
    /\ LET r == First(call[t].todo) IN
       /\ flow' = [flow EXCEPT ![r].step = "prepare"]
       /\ call' = [call EXCEPT ![t].todo = @ \ {r},
                               ![t].step = IF call[t].todo = {r} THEN "started" ELSE @]
    /\ UNCHANGED <<benchmark, runs, baseline, shown, due, changes, faults>>

\* (mutant) A start that fails is not recorded.
StartFailsUnrecorded(t) ==
    /\ call[t].step = "starting"
    /\ Fault
    /\ flow' = [r \in Run |-> IF r \in call[t].todo THEN [flow[r] EXCEPT !.step = "done"]
                              ELSE flow[r]]
    /\ call' = [call EXCEPT ![t] = [step |-> "open", todo |-> {}]]
    /\ UNCHANGED <<benchmark, runs, baseline, shown, due, changes>>

\* A start fails.  That run is failed, unless this fails too or the API has died; the
\* others are never started.  A run is lost when nothing will ever change it again.
StartFails(t) ==
    /\ call[t].step = "starting"
    /\ Fault
    /\ LET r == First(call[t].todo) IN
       \E isFailed \in BOOLEAN :
          /\ flow' = [x \in Run |->
                        IF x \notin call[t].todo THEN flow[x]
                        ELSE [flow[x] EXCEPT !.step =
                                IF x = r /\ isFailed THEN "done" ELSE "lost"]]
          /\ runs' = IF isFailed THEN [runs EXCEPT ![r].status = "failed"] ELSE runs
    /\ call' = [call EXCEPT ![t] = [step |-> "open", todo |-> {}]]
    /\ UNCHANGED <<benchmark, baseline, shown, due, changes>>

\* The page takes the answer, closes the dialog and invalidates the overview.
TakeAnswer(t) ==
    /\ call[t].step = "started"
    /\ call' = [call EXCEPT ![t].step = "closed"]
    /\ Invalidate(t)
    /\ UNCHANGED <<benchmark, server, shown, changes, faults>>

\* The runs a tab offers as a baseline and for a comparison.
Offered(t) == {r \in Run : shown[t][r] = "complete"}

\* One of them is made the baseline, if it still is complete.
SetBaseline(t) ==
    /\ \E r \in Offered(t) \ {baseline} :
          /\ runs[r].status = "complete"
          /\ baseline' = r
    /\ Invalidate(t)
    /\ UNCHANGED <<benchmark, runs, flow, shown, call, changes, faults>>

----------------------------------------------------------------------------
\* Two runs are compared: both complete, and scored last on the same judgments.
Compares(b, c) ==
    /\ runs[b].status = "complete" /\ runs[c].status = "complete"
    /\ runs[b].scored # NoSnapshot /\ runs[b].scored = runs[c].scored

\* The workflow of run r.
At(r, step) == flow[r].step = step
To(r, step) == flow' = [flow EXCEPT ![r].step = step]

Prepare(r) ==
    /\ At(r, "prepare")
    /\ runs' = [runs EXCEPT ![r].status = "running"]
    /\ To(r, "retrieve")
    /\ UNCHANGED <<benchmark, baseline, page, changes, faults>>

\* One query is searched and recorded; what it found joins the pool.
Retrieve(r) ==
    /\ At(r, "retrieve")
    /\ LET q == First(DOMAIN runs[r].snapshot \ DOMAIN runs[r].results)
           have == DOMAIN runs[r].results \cup {q}
       IN \E found \in Retrieved[q] :
          /\ runs' = [runs EXCEPT ![r].results =
                        [p \in have |-> IF p = q THEN found ELSE runs[r].results[p]]]
          /\ pool' = [pool EXCEPT ![q] = @ \cup found]
          /\ IF have = DOMAIN runs[r].snapshot THEN To(r, "score") ELSE UNCHANGED flow
    /\ UNCHANGED <<status, judged, baseline, page, changes, faults>>

Missing(r) == \E q \in DOMAIN runs[r].results : ~(runs[r].results[q] \subseteq judged[q])

\* Scoring begins, from whatever status the run has by then, and waits for judgments
\* if some are missing; the orchestrator has yet to hear of that.
BeginScore(r) ==
    /\ At(r, "score")
    /\ IF Missing(r)
       THEN runs' = [runs EXCEPT ![r].status = "needs_judgments"] /\ To(r, "paused")
       ELSE runs' = [runs EXCEPT ![r].status = "running"] /\ To(r, "own")
    /\ UNCHANGED <<benchmark, baseline, page, changes, faults>>

\* (mutant) A score replaces what is named, and is not kept.
ScoredUnkept(row, s) == [row EXCEPT !.scored = s]

\* A score on the judgments s joins a row.
Scored(row, s) == [row EXCEPT !.scores = @ \cup {s}, !.scored = s]

\* The judgments are frozen again, for the queries of the run, and it is scored.
ScoreOwn(r) ==
    /\ At(r, "own")
    /\ LET s == SnapshotOf(DOMAIN runs[r].snapshot) IN
       IF Relevant(DOMAIN s)
       THEN /\ runs' = [runs EXCEPT ![r] = Scored(@, s)]
            /\ flow' = [flow EXCEPT ![r] = [step |-> "baseline", on |-> s]]
       ELSE /\ To(r, "fail")
            /\ UNCHANGED runs
    /\ UNCHANGED <<benchmark, baseline, page, changes, faults>>

\* The baseline was made from the queries of snapshot s.
SameQueries(b, s) == b # 0 /\ DOMAIN runs[b].snapshot = DOMAIN s

\* The baseline is scored on the same judgments, so that the two compare.
ScoreBaseline(r) ==
    /\ At(r, "baseline")
    /\ runs' = IF baseline # r /\ SameQueries(baseline, flow[r].on)
               THEN [runs EXCEPT ![baseline] = Scored(@, flow[r].on)]
               ELSE runs
    /\ To(r, "finish")
    /\ UNCHANGED <<benchmark, baseline, page, changes, faults>>

\* The run is complete; the orchestrator has yet to hear of it.
Finish(r) ==
    /\ At(r, "finish")
    /\ runs' = [runs EXCEPT ![r].status = "complete"]
    /\ To(r, "finished")
    /\ UNCHANGED <<benchmark, baseline, page, changes, faults>>

\* The worker of an attempt dies, also after its last commit: the activity starts
\* over.
Restart(r) ==
    /\ flow[r].step \in {"own", "baseline", "finish", "finished", "paused"}
    /\ Fault
    /\ To(r, "score")
    /\ UNCHANGED <<benchmark, runs, baseline, page, changes>>

\* An activity gives up: the index changed, search is not ready, three attempts.
GiveUp(r) ==
    /\ flow[r].step \in {"prepare", "retrieve", "score", "own", "baseline", "finish", "finished",
                        "paused"}
    /\ Fault
    /\ To(r, "fail")
    /\ UNCHANGED <<benchmark, runs, baseline, page, changes>>

\* (mutant) The failure of a run is only logged.
FailRunSilently(r) ==
    /\ At(r, "fail")
    /\ To(r, "done")
    /\ UNCHANGED <<benchmark, runs, baseline, page, changes, faults>>

\* The last activity: it leaves a run alone that has a result.
FailRun(r) ==
    /\ At(r, "fail")
    /\ runs' = IF runs[r].status \in {"complete", "needs_judgments"} THEN runs
               ELSE [runs EXCEPT ![r].status = "failed"]
    /\ To(r, "done")
    /\ UNCHANGED <<benchmark, baseline, page, changes, faults>>

\* It gives up as well: the run is left as it is.
FailRunFails(r) ==
    /\ At(r, "fail")
    /\ Fault
    /\ To(r, "lost")
    /\ UNCHANGED <<benchmark, runs, baseline, page, changes>>

Workflow(r) ==
    \/ Prepare(r)
    \/ Retrieve(r)
    \/ BeginScore(r)
    \/ ScoreOwn(r)
    \/ ScoreBaseline(r)
    \/ Finish(r)
    \/ FailRun(r)

----------------------------------------------------------------------------
\* A run that waits for judgments is queued again, for scoring only, once none is
\* missing; no page asks for it yet.  One call at a time, when the workflow that
\* found judgments missing has ended.
Rescore(r) ==
    /\ runs[r].status = "needs_judgments" /\ ~Missing(r)
    /\ flow[r].step \in {"paused", "done"}
    /\ runs' = [runs EXCEPT ![r].status = "queued"]
    /\ To(r, "rescore")
    /\ UNCHANGED <<benchmark, baseline, page, changes, faults>>

StartRescore(r) ==
    /\ At(r, "rescore")
    /\ To(r, "score")
    /\ UNCHANGED <<benchmark, runs, baseline, page, changes, faults>>

\* Its start fails, as that of a new run may.
RescoreFails(r) ==
    /\ At(r, "rescore")
    /\ Fault
    /\ \/ runs' = [runs EXCEPT ![r].status = "failed"] /\ To(r, "done")
       \/ UNCHANGED runs /\ To(r, "lost")
    /\ UNCHANGED <<benchmark, baseline, page, changes>>

Next ==
    \/ \E t \in Tab :
        \/ CreateQuery(t)
        \/ DisableQuery(t)
        \/ PoolQueries(t)
        \/ Poll(t)
        \/ Focus(t)
        \/ OpenDialog(t)
        \/ StartEvaluation(t)
        \/ InsertRuns(t)
        \/ StartWorkflow(t)
        \/ StartFails(t)
        \/ TakeAnswer(t)
        \/ SetBaseline(t)
    \/ Judge
    \/ ClearJudgment
    \/ \E r \in Run :
        \/ Workflow(r)
        \/ Restart(r)
        \/ GiveUp(r)
        \/ FailRunFails(r)
        \/ Rescore(r)
        \/ StartRescore(r)
        \/ RescoreFails(r)

Spec == Init /\ [][Next]_vars

\* The orchestrator runs what it was given, the API goes on with what it has queued,
\* the page polls while it shows an active run (refetchInterval) or has been invalidated.
Fairness ==
    /\ \A r \in Run : WF_vars(Workflow(r) \/ StartRescore(r) \/ RescoreFails(r))
    /\ \A t \in Tab : WF_vars(StartWorkflow(t) \/ StartFails(t)) /\ WF_vars(Poll(t))

FairSpec == Spec /\ Fairness

----------------------------------------------------------------------------
RunStatus == {"none", "queued", "running", "needs_judgments", "complete", "failed"}
RunRow == [status : RunStatus, snapshot : Snapshot, results : Snapshot,
           scores : SUBSET Snapshot, scored : Snapshot]

\* The places of a workflow that goes on, those where it has ended, and that of a run
\* that nothing will change again.
GoingOn == {"prepare", "retrieve", "score", "own", "baseline", "finish", "fail", "rescore"}
Ended == {"finished", "paused", "done"}
Step == {"none", "lost"} \cup GoingOn \cup Ended

\* Every variable keeps its type, and only candidates are judged.
TypeOK ==
    /\ status \in [Query -> {"absent", "active", "disabled"}]
    /\ pool \in [Query -> SUBSET Image]
    /\ judged \in [Query -> SUBSET Image]
    /\ \A q \in Query : judged[q] \subseteq pool[q]
    /\ \A r \in Run : /\ runs[r].status \in RunStatus
                      /\ {runs[r].snapshot, runs[r].results, runs[r].scored} \subseteq Snapshot
                      /\ runs[r].scores \subseteq Snapshot
                      /\ flow[r].step \in Step /\ flow[r].on \in Snapshot
    /\ baseline \in 0..MaxRuns
    /\ \A t \in Tab : /\ shown[t] \in [Run -> RunStatus]
                      /\ call[t] \in [step : {"closed", "open", "checked", "starting", "started"},
                                      todo : SUBSET Run]
    /\ due \in [Tab -> BOOLEAN]
    /\ changes \in 0..MaxChanges
    /\ faults \in 0..MaxFaults

\* A run that is complete, or that was when a tab last looked and is still offered
\* there, and the baseline whatever has become of it since, has a score on the
\* judgments it names last: compare_runs asserts it ("baseline_score is not None")
\* and the overview prints the metrics of the baseline.  A run may be scored,
\* restarted, failed and rescored on behalf of another in any order.
CompleteIsScored ==
    \A r \in Run :
        runs[r].status = "complete" \/ r = baseline \/ (\E t \in Tab : r \in Offered(t))
            => runs[r].scored # NoSnapshot /\ runs[r].scored \in runs[r].scores

\* A run is scored on judgments of the very queries it was made from, also when it
\* is rescored as the baseline of a run made after the queries have changed: else
\* its metrics miss a query (baseline_per_query in compare_runs).  So two runs that
\* are compared have results for the same queries.
ScoredOnItsQueries ==
    /\ \A r \in Run : \A s \in runs[r].scores : DOMAIN s = DOMAIN runs[r].snapshot
    /\ \A b, c \in Run : Compares(b, c) => DOMAIN runs[b].results = DOMAIN runs[c].results

\* A run that is queued or running, which keeps every other evaluation from starting,
\* has somebody who will end it: a workflow that goes on or a dialog about to start
\* it, in every order of starts, failures, repeated attempts and rescoring.  Lost are
\* only runs of which the last call that could have ended them failed itself (_fail and
\* submit_experiment), or was never made behind one whose start failed.
NoRunIsStranded ==
    \A r \in Run : runs[r].status \in Working =>
        \/ flow[r].step \in GoingOn
        \/ \E t \in Tab : call[t].step = "starting" /\ r \in call[t].todo
        \/ At(r, "lost")

\* A run that a tab shows as active comes to an end, and the tab shows that end, unless
\* the run is lost: polling does not stop too early and no other fault leaves the
\* progress of a run on the page for ever.
PageSeesTheEnd ==
    \A t \in Tab, r \in Run :
        shown[t][r] \in Working ~> shown[t][r] \notin Working \/ At(r, "lost")

=============================================================================

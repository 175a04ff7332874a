-------------------------- MODULE SearchEvalRuns_proofs --------------------------
(***************************************************************************)
(* Proofs about SearchEvalRuns for every set of tabs, queries and images   *)
(* and every bound: its types, that what is compared and printed has a     *)
(* score on its own queries, that evidence is kept, that no run is left    *)
(* active behind a workflow that has ended and that an end is final.       *)
(***************************************************************************)
EXTENDS SearchEvalRuns, WellFoundedInduction, TLAPS

Flow == [step : Step, on : Snapshot]
Call == [step : {"closed", "open", "checked", "starting", "started"}, todo : SUBSET Run]

\* The benchmark, the baseline and the counters have their types.
BenchmarkOK ==
    /\ status \in [Query -> {"absent", "active", "disabled"}]
    /\ pool \in [Query -> SUBSET Image]
    /\ judged \in [Query -> SUBSET Image]
    /\ \A q \in Query : judged[q] \subseteq pool[q]
    /\ baseline \in 0..MaxRuns
    /\ due \in [Tab -> BOOLEAN]
    /\ changes \in 0..MaxChanges
    /\ faults \in 0..MaxFaults

\* Every row, workflow, overview and dialog has its type.
Shapes ==
    /\ runs \in [Run -> RunRow]
    /\ flow \in [Run -> Flow]
    /\ shown \in [Tab -> [Run -> RunStatus]]
    /\ call \in [Tab -> Call]

HasScore(row) == row.scored # NoSnapshot

Searched == {"score", "own", "baseline", "finish", "finished", "paused", "rescore"}

\* What the place f of its workflow says of the row of a run.  A run is not complete
\* before its workflow has searched all queries and scored it; what it is scored on are
\* its own queries.
RowSound(row, f) ==
    /\ row.status = "none" => row = NoRun
    /\ row.status # "none" => DOMAIN row.snapshot # {}
    /\ f.step = "none" => row.status \in {"none", "queued"}
    /\ f.step \in Ended => row.status \notin Working
    /\ row.status = "failed" => f.step = "done"
    /\ f.step # "none" => row.status # "none"
    /\ f.step \in {"prepare", "retrieve"} => row.status \in {"queued", "running"}
    /\ f.step \in {"own", "baseline", "finish"} => row.status = "running"
    /\ f.step = "rescore" => row.status = "queued"
    /\ f.step \in {"none", "prepare"} => DOMAIN row.results = {}
    /\ f.step = "retrieve" => DOMAIN row.results \subseteq DOMAIN row.snapshot
                              /\ DOMAIN row.results # DOMAIN row.snapshot
    /\ f.step \in Searched \/ row.status \in {"complete", "needs_judgments"} =>
          DOMAIN row.results = DOMAIN row.snapshot
    /\ f.step \in {"baseline", "finish", "finished"} \/ row.status = "complete" => HasScore(row)
    /\ f.step = "baseline" => f.on # NoSnapshot
    /\ HasScore(row) => row.scored \in row.scores
    /\ \A s \in row.scores : DOMAIN s = DOMAIN row.snapshot

RunsSound == \A r \in Run : RowSound(runs[r], flow[r])

\* The runs a dialog has yet to start wait for it, and for no other dialog.
TodoSound ==
    \A t \in Tab :
        /\ call[t].step = "starting" => call[t].todo # {}
        /\ \A r \in call[t].todo : runs[r].status = "queued" /\ flow[r].step = "none"
        /\ \A u \in Tab \ {t} : call[t].todo \cap call[u].todo = {}

\* The baseline and what the tabs offer have scores.
NamedSound ==
    /\ baseline # 0 => HasScore(runs[baseline])
    /\ \A t \in Tab : \A r \in Offered(t) : HasScore(runs[r])

IInv == BenchmarkOK /\ Shapes /\ RunsSound /\ TodoSound /\ NamedSound

----------------------------------------------------------------------------
LEMMA NaturalMinimum ==
    ASSUME NEW S \in SUBSET Nat, S # {}
    PROVE  First(S) \in S /\ \A m \in S : First(S) <= m
<1>1. PICK n \in S : \A m \in S : ~(<<m, n>> \in OpToRel(<, Nat))
  BY NatLessThanWellFounded, WFMin, Zenon
<1>2. \A m \in S : <<m, n>> \in OpToRel(<, Nat) <=> m < n
  BY DEF OpToRel
<1>3. \A m \in S : ~(m < n)
  BY <1>1, <1>2, Zenon
<1>4. \E k \in S : \A m \in S : k <= m
  BY <1>3
<1> QED BY <1>4 DEF First

LEMMA SnapshotType ==
    /\ NoSnapshot \in Snapshot /\ DOMAIN NoSnapshot = {}
    /\ \A s \in Snapshot : DOMAIN s \subseteq Query /\ (s = NoSnapshot <=> DOMAIN s = {})
<1>1. NoSnapshot = [q \in {} |-> {}]
  BY DEF NoSnapshot
<1>2. NoSnapshot \in [{} -> SUBSET Image] /\ DOMAIN NoSnapshot = {}
  BY <1>1
<1>3. ASSUME NEW s \in Snapshot
      PROVE  DOMAIN s \subseteq Query /\ (s = NoSnapshot <=> DOMAIN s = {})
  <2>1. PICK S \in SUBSET Query : s \in [S -> SUBSET Image]
    BY DEF Snapshot
  <2> QED BY <1>1, <2>1
<1> QED BY <1>2, <1>3 DEF Snapshot

LEMMA SnapshotOfType ==
    ASSUME BenchmarkOK, NEW S \in SUBSET Query
    PROVE  SnapshotOf(S) \in Snapshot /\ DOMAIN SnapshotOf(S) = S
<1>1. SnapshotOf(S) \in [S -> SUBSET Image]
  BY DEF SnapshotOf, BenchmarkOK
<1> QED BY <1>1 DEF Snapshot

LEMMA InitIInv == Init => IInv
<1> SUFFICES ASSUME Init PROVE IInv
  OBVIOUS
<1> USE EvalAssumption
<1>1. NoRun \in RunRow
  BY SnapshotType DEF NoRun, RunRow, RunStatus, NoSnapshot
<1>2. Idle \in Flow
  BY SnapshotType DEF Idle, Flow, Step, GoingOn, Ended
<1>3. NoCall \in Call
  BY DEF NoCall, Call
<1>4. Overview \in [Run -> RunStatus] /\ \A r \in Run : Overview[r] = "none"
  BY <1>1 DEF Overview, Init, RunRow, NoRun
<1>5. Shapes
  BY <1>1, <1>2, <1>3, <1>4 DEF Shapes, Init
<1>6. BenchmarkOK
  BY DEF BenchmarkOK, Init
<1>7. RunsSound
  BY SnapshotType
     DEF RunsSound, RowSound, Init, NoRun, Idle, HasScore, Searched, Ended, Working, NoSnapshot
<1>8. TodoSound /\ NamedSound
  BY <1>4 DEF TodoSound, NamedSound, Init, NoCall, Offered
<1> QED BY <1>5, <1>6, <1>7, <1>8 DEF IInv

LEMMA IInvTypes == IInv => TypeOK
BY DEF IInv, BenchmarkOK, Shapes, TypeOK, RunRow, Flow, Call

----------------------------------------------------------------------------
\* A row with another status, other results or one score more, field by field.
LEMMA RowType ==
    ASSUME NEW row \in RunRow, NEW st \in RunStatus, NEW s \in Snapshot
    PROVE  /\ [row EXCEPT !.status = st] \in RunRow
           /\ [row EXCEPT !.status = st] =
                [status |-> st, snapshot |-> row.snapshot, results |-> row.results,
                 scores |-> row.scores, scored |-> row.scored]
           /\ [row EXCEPT !.results = s] \in RunRow
           /\ [row EXCEPT !.results = s] =
                [status |-> row.status, snapshot |-> row.snapshot, results |-> s,
                 scores |-> row.scores, scored |-> row.scored]
           /\ Scored(row, s) \in RunRow
           /\ Scored(row, s) =
                [status |-> row.status, snapshot |-> row.snapshot, results |-> row.results,
                 scores |-> row.scores \cup {s}, scored |-> s]
<1>1. /\ [row EXCEPT !.status = st] =
           [status |-> st, snapshot |-> row.snapshot, results |-> row.results,
            scores |-> row.scores, scored |-> row.scored]
      /\ [row EXCEPT !.status = st] \in RunRow
  BY DEF RunRow
<1>2. /\ [row EXCEPT !.results = s] =
           [status |-> row.status, snapshot |-> row.snapshot, results |-> s,
            scores |-> row.scores, scored |-> row.scored]
      /\ [row EXCEPT !.results = s] \in RunRow
  BY DEF RunRow
<1>3. \A ss : ss \in SUBSET Snapshot =>
        /\ [row EXCEPT !.scores = ss] =
             [status |-> row.status, snapshot |-> row.snapshot, results |-> row.results,
              scores |-> ss, scored |-> row.scored]
        /\ [row EXCEPT !.scores = ss] \in RunRow
  BY DEF RunRow
<1>4. Scored(row, s) =
        [status |-> row.status, snapshot |-> row.snapshot, results |-> row.results,
         scores |-> row.scores \cup {s}, scored |-> s]
  <2>1. row.scores \cup {s} \in SUBSET Snapshot
    BY DEF RunRow
  <2>2. PICK mid \in RunRow : mid = [row EXCEPT !.scores = row.scores \cup {s}]
    BY <1>3, <2>1
  <2>3. Scored(row, s) = [mid EXCEPT !.scored = s]
    BY <2>2, Zenon DEF Scored
  <2>4. /\ mid.status = row.status /\ mid.snapshot = row.snapshot /\ mid.results = row.results
        /\ mid.scores = row.scores \cup {s}
    BY <1>3, <2>1, <2>2
  <2>5. [mid EXCEPT !.scored = s] =
          [status |-> mid.status, snapshot |-> mid.snapshot, results |-> mid.results,
           scores |-> mid.scores, scored |-> s]
    BY DEF RunRow
  <2> QED BY <2>3, <2>4, <2>5, Zenon
<1>5. Scored(row, s) \in RunRow
  <2>1. row.scores \cup {s} \in SUBSET Snapshot
    BY DEF RunRow
  <2> QED BY <1>4, <2>1 DEF RunRow
<1> QED BY <1>1, <1>2, <1>4, <1>5

LEMMA FlowType ==
    ASSUME NEW f \in Flow, NEW step \in Step
    PROVE  /\ [f EXCEPT !.step = step] \in Flow
           /\ [f EXCEPT !.step = step] = [step |-> step, on |-> f.on]
BY DEF Flow

\* What every step does to the runs: none loses its score.
RunsFollow ==
    /\ runs' \in [Run -> RunRow] /\ flow' \in [Run -> Flow] /\ call' \in [Tab -> Call]
    /\ RunsSound' /\ TodoSound'
    /\ \A x \in Run : HasScore(runs[x]) => HasScore(runs'[x])

\* Run r is in the hands of its workflow, which has changed a row, its own or that of
\* the baseline, and its place: no other run and no run that waits is affected.
LEMMA RowsStep ==
    ASSUME IInv,
           NEW r \in Run, NEW b \in Run, NEW row \in RunRow, NEW f \in Flow,
           runs' = [runs EXCEPT ![b] = row], flow' = [flow EXCEPT ![r] = f],
           call' = call,
           flow[r].step # "none", f.step # "none",
           b # r => row.status = runs[b].status,
           HasScore(runs[b]) => HasScore(row),
           RowSound(runs'[b], flow'[b]), RowSound(runs'[r], flow'[r])
    PROVE  RunsFollow
<1>1. runs' \in [Run -> RunRow] /\ flow' \in [Run -> Flow] /\ call' \in [Tab -> Call]
  BY DEF IInv, Shapes
<1>2. \A x \in Run : /\ runs'[x] = IF x = b THEN row ELSE runs[x]
                     /\ flow'[x] = IF x = r THEN f ELSE flow[x]
  BY DEF IInv, Shapes
<1>3. RunsSound'
  BY <1>2 DEF IInv, RunsSound
<1>4. TodoSound'
  BY <1>2 DEF IInv, TodoSound, Shapes, Call
<1>5. \A x \in Run : HasScore(runs[x]) => HasScore(runs'[x])
  BY <1>2
<1> QED BY <1>1, <1>3, <1>4, <1>5 DEF RunsFollow

\* The row alone, the place alone.
LEMMA PlaceStep ==
    ASSUME IInv,
           NEW r \in Run, NEW row \in RunRow, NEW f \in Flow,
           runs' = [runs EXCEPT ![r] = row], flow' = [flow EXCEPT ![r] = f],
           call' = call,
           flow[r].step # "none", f.step # "none",
           HasScore(runs[r]) => HasScore(row),
           RowSound(row, f)
    PROVE  RunsFollow
<1>1. runs'[r] = row /\ flow'[r] = f
  BY DEF IInv, Shapes
<1> QED BY <1>1, RowsStep, Zenon

LEMMA PrepareStep == ASSUME IInv, NEW r \in Run, Prepare(r) PROVE RunsFollow
<1> DEFINE row == [runs[r] EXCEPT !.status = "running"]
           f == [flow[r] EXCEPT !.step = "retrieve"]
<1>1. runs[r] \in RunRow /\ flow[r] \in Flow /\ RowSound(runs[r], flow[r])
  BY DEF IInv, Shapes, RunsSound
<1>2. /\ row \in RunRow
      /\ row = [status |-> "running", snapshot |-> runs[r].snapshot, results |-> runs[r].results,
                scores |-> runs[r].scores, scored |-> runs[r].scored]
  BY <1>1, RowType, SnapshotType DEF RunStatus
<1>3. f \in Flow /\ f = [step |-> "retrieve", on |-> flow[r].on]
  BY <1>1, FlowType DEF Step, GoingOn, Ended
<1>4. /\ runs' = [runs EXCEPT ![r] = row] /\ flow' = [flow EXCEPT ![r] = f] /\ call' = call
      /\ flow[r].step = "prepare"
  BY DEF Prepare, At, To, page
<1> HIDE DEF row, f
<1>5. RowSound(row, f) /\ (HasScore(runs[r]) => HasScore(row))
  BY <1>1, <1>2, <1>3, <1>4 DEF RowSound, HasScore, Searched, Ended, Working
<1> QED BY <1>2, <1>3, <1>4, <1>5, PlaceStep

\* A search is recorded: the queries it leaves are still those of the snapshot.
LEMMA RetrieveStep == ASSUME IInv, NEW r \in Run, Retrieve(r) PROVE RunsFollow /\ BenchmarkOK'
<1> DEFINE q == First(DOMAIN runs[r].snapshot \ DOMAIN runs[r].results)
           have == DOMAIN runs[r].results \cup {q}
<1>1. /\ runs[r] \in RunRow /\ flow[r] \in Flow /\ RowSound(runs[r], flow[r])
      /\ flow[r].step = "retrieve"
  BY DEF IInv, Shapes, RunsSound, Retrieve, At
<1>2. DOMAIN runs[r].snapshot \subseteq Query /\ runs[r].snapshot \in Snapshot
      /\ runs[r].results \in Snapshot
  BY <1>1, SnapshotType DEF RunRow
<1>3. /\ DOMAIN runs[r].results \subseteq DOMAIN runs[r].snapshot
      /\ DOMAIN runs[r].snapshot \ DOMAIN runs[r].results # {}
  BY <1>1 DEF RowSound
<1>4. q \in DOMAIN runs[r].snapshot \ DOMAIN runs[r].results
  BY <1>2, <1>3, EvalAssumption, NaturalMinimum
<1>5. PICK found \in Retrieved[q] :
        /\ runs' = [runs EXCEPT ![r].results =
                     [p \in have |-> IF p = q THEN found ELSE runs[r].results[p]]]
        /\ pool' = [pool EXCEPT ![q] = @ \cup found]
        /\ IF have = DOMAIN runs[r].snapshot THEN To(r, "score") ELSE UNCHANGED flow
  BY DEF Retrieve
<1> HIDE DEF q
<1>6. q \in Query /\ found \in SUBSET Image
  BY <1>2, <1>4, <1>5, EvalAssumption
<1>7. PICK res : res = [p \in have |-> IF p = q THEN found ELSE runs[r].results[p]]
  OBVIOUS
<1>8. res \in Snapshot /\ DOMAIN res = have
  <2>1. PICK S \in SUBSET Query : runs[r].results \in [S -> SUBSET Image]
    BY <1>2 DEF Snapshot
  <2>2. have \in SUBSET Query /\ res \in [have -> SUBSET Image]
    BY <1>6, <1>7, <2>1
  <2> QED BY <2>2 DEF Snapshot
<1>9. /\ [runs[r] EXCEPT !.results = res] \in RunRow
      /\ [runs[r] EXCEPT !.results = res] =
           [status |-> runs[r].status, snapshot |-> runs[r].snapshot, results |-> res,
            scores |-> runs[r].scores, scored |-> runs[r].scored]
  BY <1>1, <1>8, RowType DEF RunStatus
<1>10. PICK row \in RunRow :
         row = [status |-> runs[r].status, snapshot |-> runs[r].snapshot, results |-> res,
                scores |-> runs[r].scores, scored |-> runs[r].scored]
  BY <1>9
<1>11. runs' = [runs EXCEPT ![r] = row]
  BY <1>5, <1>7, <1>9, <1>10
<1>12. PICK f \in Flow :
         /\ f.on = flow[r].on
         /\ f.step = IF have = DOMAIN runs[r].snapshot THEN "score" ELSE "retrieve"
         /\ flow' = [flow EXCEPT ![r] = f]
  <2>1. CASE have = DOMAIN runs[r].snapshot
    <3>1. /\ [flow[r] EXCEPT !.step = "score"] \in Flow
          /\ [flow[r] EXCEPT !.step = "score"] = [step |-> "score", on |-> flow[r].on]
      BY <1>1, FlowType DEF Step, GoingOn, Ended
    <3>2. PICK f \in Flow : f = [flow[r] EXCEPT !.step = "score"]
      BY <3>1
    <3>3. flow' = [flow EXCEPT ![r] = f] /\ f.step = "score" /\ f.on = flow[r].on
      BY <1>5, <2>1, <3>1, <3>2 DEF To
    <3> QED BY <2>1, <3>3
  <2>2. CASE have # DOMAIN runs[r].snapshot
    <3>1. flow' = [flow EXCEPT ![r] = flow[r]]
      BY <1>5, <2>2 DEF IInv, Shapes
    <3> QED BY <1>1, <2>2, <3>1
  <2> QED BY <2>1, <2>2
<1>13. HasScore(runs[r]) => HasScore(row)
  BY <1>10 DEF HasScore
<1>14. RowSound(row, f)
  BY <1>1, <1>3, <1>4, <1>8, <1>10, <1>12, SnapshotType
     DEF RowSound, HasScore, Searched, Ended, Working
<1>15. RunsFollow
  BY <1>1, <1>11, <1>12, <1>13, <1>14, PlaceStep DEF Retrieve, page
<1>16. BenchmarkOK'
  BY <1>5, <1>6 DEF IInv, BenchmarkOK, Retrieve, page
<1> QED BY <1>15, <1>16

LEMMA BeginScoreStep == ASSUME IInv, NEW r \in Run, BeginScore(r) PROVE RunsFollow
<1>1. runs[r] \in RunRow /\ flow[r] \in Flow /\ RowSound(runs[r], flow[r])
      /\ flow[r].step = "score"
  BY DEF IInv, Shapes, RunsSound, BeginScore, At
<1>2. PICK st \in {"needs_judgments", "running"}, step \in {"paused", "own"} :
        /\ runs' = [runs EXCEPT ![r].status = st]
        /\ flow' = [flow EXCEPT ![r].step = step]
        /\ step = "paused" => st = "needs_judgments"
        /\ step = "own" => st = "running"
  BY DEF BeginScore, To
<1>3. PICK row \in RunRow :
        /\ row = [status |-> st, snapshot |-> runs[r].snapshot, results |-> runs[r].results,
                  scores |-> runs[r].scores, scored |-> runs[r].scored]
        /\ runs' = [runs EXCEPT ![r] = row]
  BY <1>1, <1>2, RowType, SnapshotType DEF RunStatus
<1>4. PICK f \in Flow :
        f = [step |-> step, on |-> flow[r].on] /\ flow' = [flow EXCEPT ![r] = f]
  BY <1>1, <1>2, FlowType DEF Step, GoingOn, Ended
<1>5. RowSound(row, f) /\ (HasScore(runs[r]) => HasScore(row))
  BY <1>1, <1>2, <1>3, <1>4 DEF RowSound, HasScore, Searched, Ended, Working
<1> QED BY <1>1, <1>3, <1>4, <1>5, PlaceStep DEF BeginScore, page

\* Only the place changes.
LEMMA ToStep ==
    ASSUME IInv, NEW r \in Run, NEW step \in Step \ {"none"},
           UNCHANGED <<runs, call>>, To(r, step), flow[r].step # "none",
           \A f \in Flow : f.step = step /\ f.on = flow[r].on => RowSound(runs[r], f)
    PROVE  RunsFollow
<1>1. runs[r] \in RunRow /\ flow[r] \in Flow
  BY DEF IInv, Shapes
<1>2. PICK f \in Flow :
        f.step = step /\ f.on = flow[r].on /\ flow' = [flow EXCEPT ![r] = f]
  <2>1. PICK f \in Flow :
          f = [step |-> step, on |-> flow[r].on] /\ flow' = [flow EXCEPT ![r] = f]
    BY <1>1, FlowType, ZenonT(30) DEF To
  <2> QED BY <2>1
<1>3. runs' = [runs EXCEPT ![r] = runs[r]]
  BY DEF IInv, Shapes
<1> QED BY <1>1, <1>2, <1>3, PlaceStep

LEMMA FinishStep == ASSUME IInv, NEW r \in Run, Finish(r) PROVE RunsFollow
<1>1. runs[r] \in RunRow /\ flow[r] \in Flow /\ RowSound(runs[r], flow[r])
      /\ flow[r].step = "finish"
  BY DEF IInv, Shapes, RunsSound, Finish, At
<1>2. PICK row \in RunRow :
        /\ row = [status |-> "complete", snapshot |-> runs[r].snapshot,
                  results |-> runs[r].results, scores |-> runs[r].scores,
                  scored |-> runs[r].scored]
        /\ runs' = [runs EXCEPT ![r] = row]
  BY <1>1, RowType, SnapshotType DEF RunStatus, Finish
<1>3. PICK f \in Flow :
        f = [step |-> "finished", on |-> flow[r].on] /\ flow' = [flow EXCEPT ![r] = f]
  BY <1>1, FlowType DEF Step, GoingOn, Ended, Finish, To
<1>4. RowSound(row, f) /\ (HasScore(runs[r]) => HasScore(row))
  BY <1>1, <1>2, <1>3 DEF RowSound, HasScore, Searched, Ended, Working
<1>5. call' = call /\ flow[r].step # "none" /\ f.step # "none"
  BY <1>1, <1>3 DEF Finish, page
<1> QED BY <1>2, <1>3, <1>4, <1>5, PlaceStep, ZenonT(30)

LEMMA RestartStep == ASSUME IInv, NEW r \in Run, Restart(r) PROVE RunsFollow
<1>1. RowSound(runs[r], flow[r])
  BY DEF IInv, RunsSound
<1>2. \A f \in Flow : f.step = "score" /\ f.on = flow[r].on => RowSound(runs[r], f)
  BY <1>1 DEF RowSound, HasScore, Searched, Ended, Working, Restart
<1> QED BY <1>2, ToStep DEF Restart, page, Step, GoingOn, Ended

LEMMA GiveUpStep == ASSUME IInv, NEW r \in Run, GiveUp(r) PROVE RunsFollow
<1>1. RowSound(runs[r], flow[r])
  BY DEF IInv, RunsSound
<1>2. \A f \in Flow : f.step = "fail" /\ f.on = flow[r].on => RowSound(runs[r], f)
  BY <1>1 DEF RowSound, HasScore, Searched, Ended, Working, GiveUp
<1> QED BY <1>2, ToStep DEF GiveUp, page, Step, GoingOn, Ended

LEMMA FailRunStep == ASSUME IInv, NEW r \in Run, FailRun(r) PROVE RunsFollow
<1>1. runs[r] \in RunRow /\ flow[r] \in Flow /\ RowSound(runs[r], flow[r])
      /\ flow[r].step = "fail"
  BY DEF IInv, Shapes, RunsSound, FailRun, At
<1>2. CASE runs[r].status \in {"complete", "needs_judgments"}
  <2>1. \A f \in Flow : f.step = "done" /\ f.on = flow[r].on => RowSound(runs[r], f)
    BY <1>1, <1>2 DEF RowSound, HasScore, Searched, Ended, Working
  <2> QED BY <1>1, <1>2, <2>1, ToStep DEF FailRun, page, Step, GoingOn, Ended
<1>3. CASE runs[r].status \notin {"complete", "needs_judgments"}
  <2>1. PICK row \in RunRow :
          /\ row = [status |-> "failed", snapshot |-> runs[r].snapshot,
                    results |-> runs[r].results, scores |-> runs[r].scores,
                    scored |-> runs[r].scored]
          /\ runs' = [runs EXCEPT ![r] = row]
    BY <1>1, <1>3, RowType, SnapshotType DEF RunStatus, FailRun
  <2>2. PICK f \in Flow :
          f = [step |-> "done", on |-> flow[r].on] /\ flow' = [flow EXCEPT ![r] = f]
    BY <1>1, FlowType DEF Step, GoingOn, Ended, FailRun, To
  <2>3. RowSound(row, f) /\ (HasScore(runs[r]) => HasScore(row))
    BY <1>1, <2>1, <2>2 DEF RowSound, HasScore, Searched, Ended, Working
  <2> QED BY <1>1, <2>1, <2>2, <2>3, PlaceStep, ZenonT(30) DEF FailRun, page
<1> QED BY <1>2, <1>3

LEMMA FailRunFailsStep == ASSUME IInv, NEW r \in Run, FailRunFails(r) PROVE RunsFollow
<1>1. RowSound(runs[r], flow[r]) /\ flow[r].step = "fail"
  BY DEF IInv, RunsSound, FailRunFails, At
<1>2. \A f \in Flow : f.step = "lost" /\ f.on = flow[r].on => RowSound(runs[r], f)
  BY <1>1 DEF RowSound, HasScore, Searched, Ended, Working
<1> QED BY <1>1, <1>2, ToStep DEF FailRunFails, page, Step, GoingOn, Ended

WithStatus(row, st) ==
    [status |-> st, snapshot |-> row.snapshot, results |-> row.results,
     scores |-> row.scores, scored |-> row.scored]

\* A run gets a status and a place.
LEMMA StatusStep ==
    ASSUME IInv, NEW r \in Run, NEW st \in RunStatus, NEW step \in Step \ {"none"},
           runs' = [runs EXCEPT ![r].status = st], To(r, step), call' = call,
           flow[r].step # "none",
           \A f \in Flow : f.step = step /\ f.on = flow[r].on => RowSound(WithStatus(runs[r], st), f)
    PROVE  RunsFollow
<1>1. runs[r] \in RunRow /\ flow[r] \in Flow
  BY DEF IInv, Shapes
<1>2. PICK row \in RunRow :
        row = WithStatus(runs[r], st) /\ runs' = [runs EXCEPT ![r] = row]
  <2>1. /\ [runs[r] EXCEPT !.status = st] \in RunRow
        /\ [runs[r] EXCEPT !.status = st] = WithStatus(runs[r], st)
    BY <1>1 DEF RunRow, WithStatus
  <2>2. PICK row : row = [runs[r] EXCEPT !.status = st]
    OBVIOUS
  <2>3. runs' = [runs EXCEPT ![r] = row]
    BY <2>2, Zenon
  <2> QED BY <2>1, <2>2, <2>3
<1>3. PICK f \in Flow :
        f = [step |-> step, on |-> flow[r].on] /\ flow' = [flow EXCEPT ![r] = f]
  BY <1>1, FlowType, ZenonT(30) DEF To
<1>4. RowSound(row, f) /\ f.step # "none"
  BY <1>2, <1>3
<1>5. HasScore(runs[r]) => HasScore(row)
  BY <1>2 DEF HasScore, WithStatus
<1> QED BY <1>2, <1>3, <1>4, <1>5, PlaceStep, ZenonT(30)

LEMMA RescoreStep == ASSUME IInv, NEW r \in Run, Rescore(r) PROVE RunsFollow
<1>1. /\ RowSound(runs[r], flow[r]) /\ runs[r].status = "needs_judgments"
      /\ flow[r].step \in {"paused", "done"}
  BY DEF IInv, RunsSound, Rescore
<1>2. \A f \in Flow : f.step = "rescore" /\ f.on = flow[r].on =>
         RowSound(WithStatus(runs[r], "queued"), f)
  BY <1>1 DEF WithStatus, RowSound, HasScore, Searched, Ended, Working
<1>3. /\ runs' = [runs EXCEPT ![r].status = "queued"] /\ To(r, "rescore") /\ call' = call
      /\ flow[r].step # "none"
  BY <1>1 DEF Rescore, page
<1>4. "queued" \in RunStatus /\ "rescore" \in Step \ {"none"}
  BY DEF RunStatus, Step, GoingOn
<1> QED BY <1>2, <1>3, <1>4, StatusStep

LEMMA StartRescoreStep == ASSUME IInv, NEW r \in Run, StartRescore(r) PROVE RunsFollow
<1>1. RowSound(runs[r], flow[r]) /\ flow[r].step = "rescore"
  BY DEF IInv, RunsSound, StartRescore, At
<1>2. \A f \in Flow : f.step = "score" /\ f.on = flow[r].on => RowSound(runs[r], f)
  BY <1>1 DEF RowSound, HasScore, Searched, Ended, Working
<1> QED BY <1>1, <1>2, ToStep DEF StartRescore, page, Step, GoingOn, Ended

LEMMA RescoreFailsStep == ASSUME IInv, NEW r \in Run, RescoreFails(r) PROVE RunsFollow
<1>1. RowSound(runs[r], flow[r]) /\ flow[r].step = "rescore" /\ call' = call
  BY DEF IInv, RunsSound, RescoreFails, At, page
<1>2. CASE runs' = [runs EXCEPT ![r].status = "failed"] /\ To(r, "done")
  <2>1. \A f \in Flow : f.step = "done" /\ f.on = flow[r].on =>
           RowSound(WithStatus(runs[r], "failed"), f)
    BY <1>1 DEF WithStatus, RowSound, HasScore, Searched, Ended, Working
  <2>2. "failed" \in RunStatus /\ "done" \in Step \ {"none"} /\ flow[r].step # "none"
    BY <1>1 DEF RunStatus, Step, Ended
  <2> QED BY <1>1, <1>2, <2>1, <2>2, StatusStep
<1>3. CASE UNCHANGED runs /\ To(r, "lost")
  <2>1. \A f \in Flow : f.step = "lost" /\ f.on = flow[r].on => RowSound(runs[r], f)
    BY <1>1 DEF RowSound, HasScore, Searched, Ended, Working
  <2> QED BY <1>1, <1>3, <2>1, ToStep DEF Step, GoingOn, Ended
<1> QED BY <1>2, <1>3 DEF RescoreFails

\* A run with a query can be scored on its own queries.
LEMMA ScoredSound ==
    ASSUME IInv, NEW b \in Run, NEW s \in Snapshot, DOMAIN s = DOMAIN runs[b].snapshot,
           s # NoSnapshot, runs[b].status # "none"
    PROVE  /\ Scored(runs[b], s) \in RunRow /\ HasScore(Scored(runs[b], s))
           /\ Scored(runs[b], s).status = runs[b].status
           /\ RowSound(Scored(runs[b], s), flow[b])
           /\ \A f \in Flow : f.step = "baseline" /\ f.on = s /\ flow[b].step = "own" =>
                 RowSound(Scored(runs[b], s), f)
<1>1. runs[b] \in RunRow /\ RowSound(runs[b], flow[b])
  BY DEF IInv, Shapes, RunsSound
<1>2. PICK row \in RunRow :
        /\ row = [status |-> runs[b].status, snapshot |-> runs[b].snapshot,
                  results |-> runs[b].results, scores |-> runs[b].scores \cup {s}, scored |-> s]
        /\ row = Scored(runs[b], s)
  BY <1>1, RowType, ZenonT(30) DEF RunStatus
<1>3. RowSound(row, flow[b]) /\ HasScore(row)
  BY <1>1, <1>2 DEF RowSound, HasScore, Searched, Ended, Working
<1>4. \A f \in Flow : f.step = "baseline" /\ f.on = s /\ flow[b].step = "own" => RowSound(row, f)
  BY <1>1, <1>2 DEF RowSound, HasScore, Searched, Ended, Working
<1>5. row.status = runs[b].status
  BY <1>2
<1> QED BY <1>2, <1>3, <1>4, <1>5, Zenon

LEMMA ScoreOwnStep == ASSUME IInv, NEW r \in Run, ScoreOwn(r) PROVE RunsFollow
<1>1. runs[r] \in RunRow /\ flow[r] \in Flow /\ RowSound(runs[r], flow[r])
      /\ flow[r].step = "own" /\ DOMAIN runs[r].snapshot \in SUBSET Query
  BY SnapshotType DEF IInv, Shapes, RunsSound, ScoreOwn, At, RunRow
<1>2. PICK s \in Snapshot :
        s = SnapshotOf(DOMAIN runs[r].snapshot) /\ DOMAIN s = DOMAIN runs[r].snapshot
  BY <1>1, SnapshotOfType DEF IInv
<1>3. CASE Relevant(DOMAIN s)
  <2>1. s # NoSnapshot /\ runs[r].status # "none"
    BY <1>1, <1>2, <1>3, SnapshotType DEF Relevant, RowSound
  <2>2. PICK row \in RunRow :
          /\ row = Scored(runs[r], s) /\ HasScore(row)
          /\ \A f \in Flow : f.step = "baseline" /\ f.on = s => RowSound(row, f)
    BY <1>1, <1>2, <2>1, ScoredSound
  <2>3. PICK f \in Flow : f = [step |-> "baseline", on |-> s]
    BY DEF Flow, Step, GoingOn, Ended
  <2>4. runs' = [runs EXCEPT ![r] = row] /\ flow' = [flow EXCEPT ![r] = f] /\ call' = call
    BY <1>2, <1>3, <2>2, <2>3 DEF ScoreOwn, page
  <2>5. f.step = "baseline" /\ f.on = s
    BY <2>3
  <2> QED BY <1>1, <2>2, <2>4, <2>5, PlaceStep
<1>4. CASE ~Relevant(DOMAIN s)
  <2>1. \A f \in Flow : f.step = "fail" /\ f.on = flow[r].on => RowSound(runs[r], f)
    BY <1>1 DEF RowSound, HasScore, Searched, Ended, Working
  <2>2. To(r, "fail") /\ UNCHANGED <<runs, call>>
    BY <1>2, <1>4 DEF ScoreOwn, page
  <2> QED BY <1>1, <2>1, <2>2, ToStep DEF Step, GoingOn, Ended
<1> QED BY <1>3, <1>4

\* The other row of the step: the baseline is scored, in whatever place it is.
LEMMA ScoreBaselineStep == ASSUME IInv, NEW r \in Run, ScoreBaseline(r) PROVE RunsFollow
<1>1. runs[r] \in RunRow /\ flow[r] \in Flow /\ RowSound(runs[r], flow[r])
      /\ flow[r].step = "baseline" /\ flow[r].on \in Snapshot /\ flow[r].on # NoSnapshot
  BY DEF IInv, Shapes, RunsSound, ScoreBaseline, At, Flow, RowSound
<1>2. \A f \in Flow : f.step = "finish" /\ f.on = flow[r].on => RowSound(runs[r], f)
  BY <1>1 DEF RowSound, HasScore, Searched, Ended, Working
<1>3. To(r, "finish") /\ call' = call
  BY DEF ScoreBaseline, page
<1>4. CASE baseline # r /\ SameQueries(baseline, flow[r].on)
  <2>1. baseline \in Run /\ HasScore(runs[baseline]) /\ RowSound(runs[baseline], flow[baseline])
    BY <1>4, EvalAssumption DEF SameQueries, IInv, NamedSound, BenchmarkOK, RunsSound, Run
  <2>2. runs[baseline].status # "none"
    BY <2>1 DEF RowSound, HasScore, NoRun
  <2>3. PICK row \in RunRow :
          /\ row = Scored(runs[baseline], flow[r].on) /\ HasScore(row)
          /\ row.status = runs[baseline].status
          /\ RowSound(row, flow[baseline])
    BY <1>1, <1>4, <2>1, <2>2, ScoredSound DEF SameQueries
  <2>4. runs' = [runs EXCEPT ![baseline] = row]
    BY <1>4, <2>3 DEF ScoreBaseline
  <2>5. PICK f \in Flow :
          f.step = "finish" /\ f.on = flow[r].on /\ flow' = [flow EXCEPT ![r] = f]
    <3>1. PICK f \in Flow :
            f = [step |-> "finish", on |-> flow[r].on] /\ flow' = [flow EXCEPT ![r] = f]
      BY <1>1, <1>3, FlowType DEF To, Step, GoingOn, Ended
    <3> QED BY <3>1
  <2>6. /\ runs'[baseline] = row /\ flow'[baseline] = flow[baseline]
        /\ runs'[r] = runs[r] /\ flow'[r] = f
    BY <1>4, <2>1, <2>4, <2>5 DEF IInv, Shapes
  <2>7. RowSound(runs'[baseline], flow'[baseline]) /\ RowSound(runs'[r], flow'[r])
    BY <1>2, <2>3, <2>5, <2>6
  <2> QED BY <1>1, <1>3, <2>1, <2>3, <2>4, <2>5, <2>7, RowsStep
<1>5. CASE ~(baseline # r /\ SameQueries(baseline, flow[r].on))
  BY <1>1, <1>2, <1>3, <1>5, ToStep DEF ScoreBaseline, Step, GoingOn, Ended
<1> QED BY <1>4, <1>5

----------------------------------------------------------------------------
\* The dialogs.
LEMMA CallType ==
    ASSUME NEW c \in Call,
           NEW st \in {"closed", "open", "checked", "starting", "started"}
    PROVE  /\ [c EXCEPT !.step = st] \in Call
           /\ [c EXCEPT !.step = st] = [step |-> st, todo |-> c.todo]
BY DEF Call

LEMMA TodoType ==
    ASSUME NEW c \in Call, NEW todo \in SUBSET Run
    PROVE  /\ [c EXCEPT !.todo = todo] \in Call
           /\ [c EXCEPT !.todo = todo] = [step |-> c.step, todo |-> todo]
BY DEF Call

\* A dialog goes a step that starts nothing.
LEMMA DialogStep ==
    ASSUME IInv, NEW t \in Tab, NEW st \in {"closed", "open", "checked", "started"},
           UNCHANGED <<runs, flow>>, call' = [call EXCEPT ![t].step = st]
    PROVE  RunsFollow
<1>1. call[t] \in Call
  BY DEF IInv, Shapes
<1>2. PICK c \in Call :
        c = [step |-> st, todo |-> call[t].todo] /\ call' = [call EXCEPT ![t] = c]
  <2>1. PICK c \in Call :
          c = [step |-> st, todo |-> call[t].todo] /\ c = [call[t] EXCEPT !.step = st]
    <3>1. PICK d \in Call : d = call[t]
      BY <1>1
    <3>2. PICK c : c = [d EXCEPT !.step = st]
      OBVIOUS
    <3>3. c \in Call /\ c = [step |-> st, todo |-> d.todo]
      BY <3>2, CallType, Zenon
    <3> QED BY <3>1, <3>2, <3>3
  <2> QED BY <2>1
<1>3. call' \in [Tab -> Call] /\ \A u \in Tab : call'[u] = IF u = t THEN c ELSE call[u]
  BY <1>2 DEF IInv, Shapes
<1>4. c.step # "starting" /\ c.todo = call[t].todo
  BY <1>2
<1>5. TodoSound'
  BY <1>3, <1>4 DEF IInv, TodoSound
<1> QED BY <1>3, <1>5 DEF IInv, Shapes, RunsFollow, RunsSound

LEMMA OpenDialogStep == ASSUME IInv, NEW t \in Tab, OpenDialog(t) PROVE RunsFollow
BY DialogStep DEF OpenDialog, server

LEMMA StartEvaluationStep == ASSUME IInv, NEW t \in Tab, StartEvaluation(t) PROVE RunsFollow
BY DialogStep DEF StartEvaluation, server

LEMMA TakeAnswerStep == ASSUME IInv, NEW t \in Tab, TakeAnswer(t) PROVE RunsFollow
BY DialogStep DEF TakeAnswer, server

\* New runs take rows nobody has, so they are in nobody else's hands.
LEMMA InsertRunsStep == ASSUME IInv, NEW t \in Tab, InsertRuns(t) PROVE RunsFollow
<1>1. CASE ~(Complete /\ Relevant(Active))
  BY <1>1, DialogStep DEF InsertRuns
<1>2. CASE Complete /\ Relevant(Active)
  <2>1. PICK n \in Run \ Existing :
          /\ runs' = [r \in Run |-> IF r \in {x \in Run \ Existing : x <= n}
                        THEN [NoRun EXCEPT !.status = "queued", !.snapshot = SnapshotOf(Active)]
                        ELSE runs[r]]
          /\ call' = [call EXCEPT ![t] = [step |-> "starting",
                                         todo |-> {x \in Run \ Existing : x <= n}]]
          /\ flow' = flow
    BY <1>2 DEF InsertRuns
  <2>2. PICK new \in SUBSET (Run \ Existing) : new = {x \in Run \ Existing : x <= n} /\ n \in new
    <3>1. n \in Run \ Existing /\ n <= n
      BY <2>1, EvalAssumption DEF Run
    <3> QED BY <3>1
  <2>3. PICK row \in RunRow :
          /\ row = [status |-> "queued", snapshot |-> SnapshotOf(Active), results |-> << >>,
                    scores |-> {}, scored |-> NoSnapshot]
          /\ row = [NoRun EXCEPT !.status = "queued", !.snapshot = SnapshotOf(Active)]
    <3>1. Active \in SUBSET Query /\ SnapshotOf(Active) \in Snapshot
      BY SnapshotOfType DEF IInv, Active
    <3>2. [NoRun EXCEPT !.status = "queued", !.snapshot = SnapshotOf(Active)]
            = [status |-> "queued", snapshot |-> SnapshotOf(Active), results |-> << >>,
               scores |-> {}, scored |-> NoSnapshot]
      <4>1. NoRun \in RunRow /\ "queued" \in RunStatus
        BY SnapshotType DEF NoRun, RunRow, RunStatus, NoSnapshot
      <4>2. PICK mid \in RunRow :
              /\ mid = [NoRun EXCEPT !.status = "queued"]
              /\ mid = [status |-> "queued", snapshot |-> NoRun.snapshot,
                        results |-> NoRun.results, scores |-> NoRun.scores,
                        scored |-> NoRun.scored]
        <5>1. \A row \in RunRow, st \in RunStatus :
                /\ [row EXCEPT !.status = st] \in RunRow
                /\ [row EXCEPT !.status = st] =
                     [status |-> st, snapshot |-> row.snapshot, results |-> row.results,
                      scores |-> row.scores, scored |-> row.scored]
          BY RowType, SnapshotType
        <5> QED BY <4>1, <5>1, Zenon
      <4>3. [mid EXCEPT !.snapshot = SnapshotOf(Active)]
              = [status |-> mid.status, snapshot |-> SnapshotOf(Active),
                 results |-> mid.results, scores |-> mid.scores, scored |-> mid.scored]
        BY <3>1 DEF RunRow
      <4>4. /\ mid.status = "queued" /\ mid.results = << >> /\ mid.scores = {}
            /\ mid.scored = NoSnapshot
        BY <4>2 DEF NoRun
      <4>5. [NoRun EXCEPT !.status = "queued", !.snapshot = SnapshotOf(Active)]
              = [mid EXCEPT !.snapshot = SnapshotOf(Active)]
        BY <4>2, Zenon
      <4> QED BY <4>3, <4>4, <4>5, Zenon
    <3> QED BY <3>1, <3>2, SnapshotType DEF RunRow, RunStatus, NoSnapshot
  <2>4. PICK c \in Call : c = [step |-> "starting", todo |-> new]
    BY DEF Call
  <2>5. /\ runs' \in [Run -> RunRow] /\ call' \in [Tab -> Call]
        /\ \A x \in Run : runs'[x] = IF x \in new THEN row ELSE runs[x]
        /\ \A u \in Tab : call'[u] = IF u = t THEN c ELSE call[u]
    BY <2>1, <2>2, <2>3, <2>4 DEF IInv, Shapes
  <2>6. \A x \in new : runs[x].status = "none" /\ flow[x].step = "none" /\ ~HasScore(runs[x])
    <3> TAKE x \in new
    <3>1. x \in Run /\ runs[x].status = "none" /\ RowSound(runs[x], flow[x])
      BY <2>2 DEF Existing, IInv, RunsSound
    <3>2. runs[x] = NoRun /\ flow[x].step = "none"
      BY <3>1 DEF RowSound
    <3> QED BY <3>1, <3>2 DEF HasScore, NoRun
  <2>7. DOMAIN row.snapshot = Active /\ Active # {}
    BY <1>2, <2>3, SnapshotOfType DEF Relevant, IInv, Active
  <2>8. \A x \in new : RowSound(row, flow[x])
    BY <2>3, <2>6, <2>7, SnapshotType DEF RowSound, HasScore, Searched, Ended, Working, NoSnapshot
  <2>9. RunsSound'
    BY <2>1, <2>5, <2>8 DEF IInv, RunsSound
  <2>10. row.status = "queued" /\ c.todo = new /\ c.step = "starting"
    BY <2>3, <2>4
  <2>11. \A u \in Tab : call[u].todo \cap new = {}
    BY <2>2, <2>6 DEF IInv, TodoSound
  <2>12. TodoSound'
    BY <2>1, <2>2, <2>5, <2>6, <2>10, <2>11 DEF IInv, TodoSound, Shapes, Call
  <2> QED BY <2>1, <2>5, <2>6, <2>9, <2>12 DEF IInv, Shapes, RunsFollow
<1> QED BY <1>1, <1>2

LEMMA StartWorkflowStep == ASSUME IInv, NEW t \in Tab, StartWorkflow(t) PROVE RunsFollow
<1>1. /\ call[t] \in Call /\ call[t].todo # {} /\ call[t].todo \subseteq Run
      /\ call[t].step = "starting"
  BY DEF IInv, Shapes, TodoSound, StartWorkflow, Call
<1>2. PICK r \in call[t].todo : r = First(call[t].todo)
  BY <1>1, NaturalMinimum DEF Run
<1>3. /\ flow' = [flow EXCEPT ![r].step = "prepare"]
      /\ call' = [call EXCEPT ![t].todo = @ \ {r},
                             ![t].step = IF call[t].todo = {r} THEN "started" ELSE @]
      /\ runs' = runs
  BY <1>2 DEF StartWorkflow
<1>4. /\ r \in Run /\ runs[r].status = "queued" /\ flow[r].step = "none" /\ flow[r] \in Flow
      /\ RowSound(runs[r], flow[r])
  BY <1>1 DEF IInv, TodoSound, Shapes, RunsSound
<1>5. PICK f \in Flow :
        f = [step |-> "prepare", on |-> flow[r].on] /\ flow' = [flow EXCEPT ![r] = f]
  BY <1>3, <1>4, FlowType DEF Step, GoingOn, Ended
<1>6. RowSound(runs[r], f)
  BY <1>4, <1>5 DEF RowSound, HasScore, Searched, Ended, Working
<1>7. PICK c \in Call :
        /\ c.todo = call[t].todo \ {r}
        /\ c.step = IF call[t].todo = {r} THEN "started" ELSE "starting"
        /\ call' = [call EXCEPT ![t] = c]
  <2>1. PICK mid \in Call :
          mid = [call[t] EXCEPT !.todo = @ \ {r}]
          /\ mid.step = "starting" /\ mid.todo = call[t].todo \ {r}
    <3>1. PICK rest \in SUBSET Run : rest = call[t].todo \ {r}
      BY <1>1
    <3>2. PICK mid \in Call :
            /\ mid = [step |-> "starting", todo |-> rest]
            /\ mid = [call[t] EXCEPT !.todo = rest]
      BY <1>1, TodoType
    <3>3. mid.step = "starting" /\ mid.todo = rest
      BY <3>2
    <3> QED BY <3>1, <3>2, <3>3
  <2>2. PICK st \in {"started", "starting"} :
          st = IF call[t].todo = {r} THEN "started" ELSE "starting"
    OBVIOUS
  <2>3. PICK c \in Call : c = [mid EXCEPT !.step = st] /\ c.step = st /\ c.todo = mid.todo
    <3>1. PICK c \in Call :
            c = [mid EXCEPT !.step = st] /\ c = [step |-> st, todo |-> mid.todo]
      <4>1. st \in {"closed", "open", "checked", "starting", "started"}
        BY <2>2
      <4>2. /\ [mid EXCEPT !.step = st] \in Call
            /\ [mid EXCEPT !.step = st] = [step |-> st, todo |-> mid.todo]
        BY <4>1, CallType
      <4> QED BY <4>2
    <3> QED BY <3>1
  <2>4. call' = [call EXCEPT ![t] = c]
    BY <1>1, <1>3, <2>1, <2>2, <2>3
  <2> QED BY <2>1, <2>2, <2>3, <2>4
<1>8. /\ flow' \in [Run -> Flow] /\ call' \in [Tab -> Call]
      /\ \A x \in Run : flow'[x] = IF x = r THEN f ELSE flow[x]
      /\ \A u \in Tab : call'[u] = IF u = t THEN c ELSE call[u]
  BY <1>5, <1>7 DEF IInv, Shapes
<1>9. RunsSound'
  BY <1>3, <1>6, <1>8 DEF IInv, RunsSound
<1>10. \A u \in Tab \ {t} : r \notin call[u].todo
  BY <1>2 DEF IInv, TodoSound
<1>11. TodoSound'
  <2>1. \A u \in Tab : call'[u].todo \subseteq call[u].todo /\ r \notin call'[u].todo
    BY <1>7, <1>8, <1>10
  <2>2. \A u \in Tab : call'[u].step = "starting" => call'[u].todo # {}
    BY <1>1, <1>7, <1>8 DEF IInv, TodoSound
  <2>3. \A u \in Tab : call[u].todo \subseteq Run
    BY DEF IInv, Shapes, Call
  <2>4. TodoSound
    BY DEF IInv
  <2>5. \A x \in Run : x # r => flow'[x] = flow[x]
    BY <1>8
  <2>6. ASSUME NEW u \in Tab, NEW x \in call'[u].todo
        PROVE  runs'[x].status = "queued" /\ flow'[x].step = "none"
    <3>1. x \in call[u].todo /\ x \in Run /\ x # r
      BY <2>1, <2>3
    <3>2. runs[x].status = "queued" /\ flow[x].step = "none"
      BY <2>4, <3>1 DEF TodoSound
    <3>3. runs' = runs /\ flow'[x] = flow[x]
      BY <1>3, <2>5, <3>1
    <3> QED BY <3>2, <3>3
  <2>7. ASSUME NEW u \in Tab, NEW w \in Tab \ {u}
        PROVE  call'[u].todo \cap call'[w].todo = {}
    <3>1. call[u].todo \cap call[w].todo = {}
      BY <2>4 DEF TodoSound
    <3> QED BY <2>1, <3>1
  <2> QED BY <2>2, <2>6, <2>7 DEF TodoSound
<1> QED BY <1>3, <1>8, <1>9, <1>11 DEF IInv, Shapes, RunsFollow

\* The runs of the dialog end up failed or lost, and in nobody's hands.
LEMMA StartFailsRows ==
    ASSUME IInv, NEW t \in Tab, StartFails(t)
    PROVE  /\ call[t].todo \subseteq Run
           /\ \A u \in Tab : call'[u] = IF u = t THEN [step |-> "open", todo |-> {}] ELSE call[u]
           /\ \A x \in Run \ call[t].todo : runs'[x] = runs[x] /\ flow'[x] = flow[x]
           /\ runs' = runs
              \/ \E r \in call[t].todo : runs' = [runs EXCEPT ![r].status = "failed"]
           /\ \A x \in call[t].todo :
                 /\ flow'[x] \in Flow
                 /\ \/ runs'[x] = runs[x] /\ flow'[x].step = "lost"
                    \/ /\ runs'[x] \in RunRow /\ flow'[x].step = "done"
                       /\ runs'[x] = [status |-> "failed", snapshot |-> runs[x].snapshot,
                                      results |-> runs[x].results, scores |-> runs[x].scores,
                                      scored |-> runs[x].scored]
<1>1. /\ call[t] \in Call /\ call[t].todo # {} /\ call[t].todo \subseteq Run
      /\ runs \in [Run -> RunRow] /\ flow \in [Run -> Flow] /\ call \in [Tab -> Call]
  BY DEF IInv, Shapes, TodoSound, StartFails, Call
<1>2. PICK r \in call[t].todo : r = First(call[t].todo)
  BY <1>1, NaturalMinimum DEF Run
<1>3. PICK isFailed \in BOOLEAN :
        /\ flow' = [x \in Run |->
                      IF x \notin call[t].todo THEN flow[x]
                      ELSE [flow[x] EXCEPT !.step =
                              IF x = r /\ isFailed THEN "done" ELSE "lost"]]
        /\ runs' = IF isFailed THEN [runs EXCEPT ![r].status = "failed"] ELSE runs
  BY <1>2 DEF StartFails
<1>4. \A x \in Run \ call[t].todo : flow'[x] = flow[x]
  BY <1>3
<1>5. ASSUME NEW x \in call[t].todo
      PROVE  /\ flow'[x] \in Flow
             /\ flow'[x].step = IF x = r /\ isFailed THEN "done" ELSE "lost"
  <2>1. PICK step \in Step : step = IF x = r /\ isFailed THEN "done" ELSE "lost"
    BY DEF Step, GoingOn, Ended
  <2>2. x \in Run /\ flow[x] \in Flow
    BY <1>1
  <2>3. flow'[x] = [flow[x] EXCEPT !.step = step]
    BY <1>3, <2>1, <2>2
  <2> QED BY <2>1, <2>2, <2>3 DEF Flow
<1>6. \A u \in Tab : call'[u] = IF u = t THEN [step |-> "open", todo |-> {}] ELSE call[u]
  BY <1>1 DEF StartFails
<1>7. CASE isFailed
  <2>1. r \in Run /\ runs[r] \in RunRow
    BY <1>1
  <2>2. PICK row \in RunRow :
          /\ row = [status |-> "failed", snapshot |-> runs[r].snapshot,
                    results |-> runs[r].results, scores |-> runs[r].scores,
                    scored |-> runs[r].scored]
          /\ runs' = [runs EXCEPT ![r] = row]
    BY <1>3, <1>7, <2>1, RowType, SnapshotType DEF RunStatus
  <2>3. \A x \in Run : runs'[x] = IF x = r THEN row ELSE runs[x]
    BY <1>1, <2>2
  <2>4. runs' = [runs EXCEPT ![r].status = "failed"]
    BY <1>3, <1>7
  <2>5. ASSUME NEW x \in call[t].todo
        PROVE  \/ runs'[x] = runs[x] /\ flow'[x].step = "lost"
               \/ /\ runs'[x] \in RunRow /\ flow'[x].step = "done"
                  /\ runs'[x] = [status |-> "failed", snapshot |-> runs[x].snapshot,
                                 results |-> runs[x].results, scores |-> runs[x].scores,
                                 scored |-> runs[x].scored]
    BY <1>1, <1>5, <1>7, <2>2, <2>3
  <2>6. \A x \in Run \ call[t].todo : runs'[x] = runs[x]
    BY <1>2, <2>3
  <2> QED BY <1>1, <1>2, <1>4, <1>5, <1>6, <2>4, <2>5, <2>6
<1>8. CASE ~isFailed
  BY <1>1, <1>3, <1>4, <1>5, <1>6, <1>8
<1> QED BY <1>7, <1>8

LEMMA StartFailsStep == ASSUME IInv, NEW t \in Tab, StartFails(t) PROVE RunsFollow
<1>1. /\ call[t].todo \subseteq Run /\ TodoSound
      /\ runs \in [Run -> RunRow] /\ flow \in [Run -> Flow] /\ call \in [Tab -> Call]
      /\ \A x \in Run : RowSound(runs[x], flow[x])
  BY StartFailsRows DEF IInv, Shapes, RunsSound
<1>2. /\ \A u \in Tab : call'[u] = IF u = t THEN [step |-> "open", todo |-> {}] ELSE call[u]
      /\ \A x \in Run \ call[t].todo : runs'[x] = runs[x] /\ flow'[x] = flow[x]
  BY StartFailsRows
<1>3. ASSUME NEW x \in call[t].todo
      PROVE  /\ RowSound(runs'[x], flow'[x]) /\ runs'[x] \in RunRow /\ flow'[x] \in Flow
             /\ HasScore(runs[x]) => HasScore(runs'[x])
  <2>1. /\ x \in Run /\ runs[x].status = "queued" /\ flow[x].step = "none"
        /\ RowSound(runs[x], flow[x]) /\ runs[x] \in RunRow
    BY <1>1 DEF TodoSound
  <2>2. /\ flow'[x] \in Flow
        /\ \/ runs'[x] = runs[x] /\ flow'[x].step = "lost"
           \/ /\ runs'[x] \in RunRow /\ flow'[x].step = "done"
              /\ runs'[x] = [status |-> "failed", snapshot |-> runs[x].snapshot,
                             results |-> runs[x].results, scores |-> runs[x].scores,
                             scored |-> runs[x].scored]
    BY StartFailsRows
  <2>3. CASE runs'[x] = runs[x] /\ flow'[x].step = "lost"
    BY <2>1, <2>2, <2>3 DEF RowSound, HasScore, Searched, Ended, Working
  <2>4. CASE /\ runs'[x] \in RunRow /\ flow'[x].step = "done"
             /\ runs'[x] = [status |-> "failed", snapshot |-> runs[x].snapshot,
                            results |-> runs[x].results, scores |-> runs[x].scores,
                            scored |-> runs[x].scored]
    BY <2>1, <2>2, <2>4 DEF RowSound, HasScore, Searched, Ended, Working
  <2> QED BY <2>2, <2>3, <2>4
<1>4. /\ \A x \in Run : RowSound(runs'[x], flow'[x]) /\ (HasScore(runs[x]) => HasScore(runs'[x]))
      /\ \A x \in Run : runs'[x] \in RunRow /\ flow'[x] \in Flow
  BY <1>1, <1>2, <1>3
<1>5. runs' \in [Run -> RunRow] /\ flow' \in [Run -> Flow]
  <2>1. /\ runs' = [runs EXCEPT ![First(call[t].todo)].status = "failed"] \/ runs' = runs
        /\ \E step : flow' = [x \in Run |-> step[x]]
    <3>1. \E isFailed \in BOOLEAN :
            flow' = [x \in Run |->
                       IF x \notin call[t].todo THEN flow[x]
                       ELSE [flow[x] EXCEPT !.step =
                               IF x = First(call[t].todo) /\ isFailed THEN "done" ELSE "lost"]]
      BY DEF StartFails
    <3>2. flow' = [x \in Run |-> flow'[x]]
      BY <3>1
    <3>3. \E step : flow' = [x \in Run |-> step[x]]
      BY <3>2
    <3> QED BY <3>3 DEF StartFails
  <2>2. runs' = [x \in Run |-> runs'[x]] /\ flow' = [x \in Run |-> flow'[x]]
    BY <1>1, <2>1
  <2> QED BY <1>4, <2>2
<1>6. call' \in [Tab -> Call]
  <2>1. [step |-> "open", todo |-> {}] \in Call
    BY DEF Call
  <2> QED BY <1>1, <2>1 DEF StartFails
<1>7. \A u \in Tab : call'[u].todo \subseteq call[u].todo /\ (u = t => call'[u].todo = {})
  BY <1>2
<1>8. TodoSound'
  <2>1. \A u \in Tab : call'[u].step = "starting" => call'[u].todo # {}
    BY <1>1, <1>2 DEF TodoSound
  <2>2. ASSUME NEW u \in Tab, NEW x \in call'[u].todo
        PROVE  runs'[x].status = "queued" /\ flow'[x].step = "none"
    <3>1. u # t /\ x \in call[u].todo
      BY <1>7
    <3>2. x \in Run /\ x \notin call[t].todo
      BY <1>1, <3>1 DEF TodoSound, Call
    <3>3. runs[x].status = "queued" /\ flow[x].step = "none"
      BY <1>1, <3>1 DEF TodoSound
    <3> QED BY <1>2, <3>2, <3>3
  <2>3. ASSUME NEW u \in Tab, NEW w \in Tab \ {u}
        PROVE  call'[u].todo \cap call'[w].todo = {}
    <3>1. call[u].todo \cap call[w].todo = {}
      BY <1>1 DEF TodoSound
    <3> QED BY <1>7, <3>1
  <2> QED BY <2>1, <2>2, <2>3 DEF TodoSound
<1> QED BY <1>4, <1>5, <1>6, <1>8 DEF RunsFollow, RunsSound

----------------------------------------------------------------------------
\* What is left alone stays as it is.
LEMMA QuietStep == ASSUME IInv, UNCHANGED <<runs, flow, call>> PROVE RunsFollow
BY DEF IInv, Shapes, RunsSound, TodoSound, RunsFollow

LEMMA RunsStep == ASSUME IInv, [Next]_vars PROVE RunsFollow
<1>1. CASE UNCHANGED vars
  BY <1>1, QuietStep DEF vars, server, page
<1>2. ASSUME NEW t \in Tab,
             \/ CreateQuery(t) \/ DisableQuery(t) \/ PoolQueries(t) \/ Poll(t) \/ Focus(t)
             \/ SetBaseline(t)
      PROVE  RunsFollow
  BY <1>2, QuietStep
     DEF CreateQuery, DisableQuery, PoolQueries, Poll, Focus, Show, SetBaseline, server
<1>3. CASE Judge \/ ClearJudgment
  BY <1>3, QuietStep DEF Judge, ClearJudgment, server, page
<1>4. ASSUME NEW t \in Tab,
             \/ OpenDialog(t) \/ StartEvaluation(t) \/ InsertRuns(t) \/ StartWorkflow(t)
             \/ StartFails(t) \/ TakeAnswer(t)
      PROVE  RunsFollow
  BY <1>4, OpenDialogStep, StartEvaluationStep, InsertRunsStep, StartWorkflowStep,
     StartFailsStep, TakeAnswerStep
<1>5. ASSUME NEW r \in Run,
             \/ Workflow(r) \/ Restart(r) \/ GiveUp(r) \/ FailRunFails(r)
             \/ Rescore(r) \/ StartRescore(r) \/ RescoreFails(r)
      PROVE  RunsFollow
  BY <1>5, PrepareStep, RetrieveStep, BeginScoreStep, ScoreOwnStep, ScoreBaselineStep,
     FinishStep, FailRunStep, RestartStep, GiveUpStep, FailRunFailsStep, RescoreStep,
     StartRescoreStep, RescoreFailsStep DEF Workflow
<1> QED BY <1>1, <1>2, <1>3, <1>4, <1>5 DEF Next

LEMMA InvalidateType ==
    ASSUME BenchmarkOK, NEW t \in Tab, Invalidate(t) PROVE due' \in [Tab -> BOOLEAN]
BY DEF BenchmarkOK, Invalidate

LEMMA BenchmarkStep == ASSUME IInv, [Next]_vars PROVE BenchmarkOK'
<1> USE EvalAssumption
<1>1. CASE UNCHANGED vars
  BY <1>1 DEF vars, benchmark, server, page, IInv, BenchmarkOK
<1>2. ASSUME NEW t \in Tab, PoolQueries(t) PROVE BenchmarkOK'
  <2>1. PICK asked \in {{q} : q \in Active} \cup ({Active} \ {{}}) : \E done \in SUBSET asked :
          /\ \E found \in [done -> SUBSET Image] :
                /\ \A q \in done : found[q] \in Retrieved[q]
                /\ pool' = [q \in Query |-> IF q \in done THEN pool[q] \cup found[q] ELSE pool[q]]
          /\ IF done = asked THEN Invalidate(t) /\ UNCHANGED faults
                             ELSE Fault /\ UNCHANGED due
    BY <1>2, Zenon DEF PoolQueries
  <2>2. PICK done \in SUBSET asked :
          /\ \E found \in [done -> SUBSET Image] :
                /\ \A q \in done : found[q] \in Retrieved[q]
                /\ pool' = [q \in Query |-> IF q \in done THEN pool[q] \cup found[q] ELSE pool[q]]
          /\ IF done = asked THEN Invalidate(t) /\ UNCHANGED faults
                             ELSE Fault /\ UNCHANGED due
    BY <2>1
  <2>3. pool' \in [Query -> SUBSET Image] /\ \A q \in Query : pool[q] \subseteq pool'[q]
    BY <2>2 DEF IInv, BenchmarkOK
  <2>4. due' \in [Tab -> BOOLEAN]
    BY <2>2, InvalidateType DEF IInv, BenchmarkOK
  <2>5. faults' \in 0..MaxFaults
    BY <2>2 DEF Fault, IInv, BenchmarkOK
  <2>6. UNCHANGED <<status, judged, baseline>> /\ changes' \in 0..MaxChanges
    BY <1>2 DEF PoolQueries, server, Change, IInv, BenchmarkOK
  <2> QED BY <2>3, <2>4, <2>5, <2>6 DEF IInv, BenchmarkOK
<1>3. ASSUME NEW t \in Tab, CreateQuery(t) \/ DisableQuery(t) PROVE BenchmarkOK'
  <2>1. status' \in [Query -> {"absent", "active", "disabled"}]
    BY <1>3 DEF CreateQuery, DisableQuery, IInv, BenchmarkOK
  <2>2. due' \in [Tab -> BOOLEAN]
    BY <1>3, InvalidateType DEF CreateQuery, DisableQuery, IInv
  <2>3. UNCHANGED <<pool, judged, baseline, faults>> /\ changes' \in 0..MaxChanges
    BY <1>3 DEF CreateQuery, DisableQuery, server, Change, IInv, BenchmarkOK
  <2> QED BY <2>1, <2>2, <2>3 DEF IInv, BenchmarkOK
<1>4. ASSUME NEW t \in Tab,
             Poll(t) \/ Focus(t) \/ OpenDialog(t) \/ StartEvaluation(t) \/ TakeAnswer(t)
      PROVE  BenchmarkOK'
  BY <1>4 DEF Poll, Focus, Show, OpenDialog, StartEvaluation, TakeAnswer, Invalidate,
     benchmark, server, IInv, BenchmarkOK
<1>5. ASSUME NEW t \in Tab, InsertRuns(t) \/ StartWorkflow(t) \/ StartFails(t)
      PROVE  BenchmarkOK'
  BY <1>5 DEF InsertRuns, StartWorkflow, StartFails, Fault, benchmark, IInv, BenchmarkOK
<1>6. ASSUME NEW t \in Tab, SetBaseline(t) PROVE BenchmarkOK'
  <2>1. baseline' \in 0..MaxRuns
    BY <1>6 DEF SetBaseline, Offered, Run
  <2>2. due' \in [Tab -> BOOLEAN]
    BY <1>6, InvalidateType DEF SetBaseline, IInv
  <2>3. UNCHANGED <<status, pool, judged, changes, faults>>
    BY <1>6 DEF SetBaseline, benchmark
  <2> QED BY <2>1, <2>2, <2>3 DEF IInv, BenchmarkOK
<1>7. CASE Judge \/ ClearJudgment
  BY <1>7 DEF Judge, ClearJudgment, Change, Active, server, page, IInv, BenchmarkOK
<1>8. ASSUME NEW r \in Run, Retrieve(r) PROVE BenchmarkOK'
  BY <1>8, RetrieveStep
<1>9. ASSUME NEW r \in Run,
             \/ Prepare(r) \/ BeginScore(r) \/ ScoreOwn(r) \/ ScoreBaseline(r) \/ Finish(r)
             \/ FailRun(r) \/ Restart(r) \/ GiveUp(r) \/ FailRunFails(r)
             \/ Rescore(r) \/ StartRescore(r) \/ RescoreFails(r)
      PROVE  BenchmarkOK'
  BY <1>9 DEF Prepare, BeginScore, ScoreOwn, ScoreBaseline, Finish, FailRun, Restart, GiveUp,
     FailRunFails, Rescore, StartRescore, RescoreFails, Fault, benchmark, page, IInv, BenchmarkOK
<1> QED BY <1>1, <1>2, <1>3, <1>4, <1>5, <1>6, <1>7, <1>8, <1>9 DEF Next, Workflow

\* A tab that looks sees the runs as they are, and a run that is made the baseline is
\* complete by then: both have scores, and no run loses its own.
LEMMA NamedStep ==
    ASSUME IInv, [Next]_vars, RunsFollow
    PROVE  NamedSound' /\ shown' \in [Tab -> [Run -> RunStatus]]
<1>1. \/ UNCHANGED shown
      \/ UNCHANGED runs /\ \E t \in Tab : shown' = [shown EXCEPT ![t] = Overview]
  <2>1. ASSUME NEW t \in Tab, Poll(t) \/ Focus(t)
        PROVE  UNCHANGED runs /\ \E u \in Tab : shown' = [shown EXCEPT ![u] = Overview]
    BY <2>1 DEF Poll, Focus, Show, server
  <2>2. ASSUME NEW t \in Tab,
               \/ CreateQuery(t) \/ DisableQuery(t) \/ PoolQueries(t) \/ OpenDialog(t)
               \/ StartEvaluation(t) \/ InsertRuns(t) \/ StartWorkflow(t) \/ StartFails(t)
               \/ TakeAnswer(t) \/ SetBaseline(t)
        PROVE  UNCHANGED shown
    BY <2>2 DEF CreateQuery, DisableQuery, PoolQueries, OpenDialog, StartEvaluation, InsertRuns,
       StartWorkflow, StartFails, TakeAnswer, SetBaseline
  <2>3. ASSUME NEW r \in Run,
               \/ Workflow(r) \/ Restart(r) \/ GiveUp(r) \/ FailRunFails(r)
               \/ Rescore(r) \/ StartRescore(r) \/ RescoreFails(r)
        PROVE  UNCHANGED shown
    BY <2>3 DEF Workflow, Prepare, Retrieve, BeginScore, ScoreOwn, ScoreBaseline, Finish, FailRun,
       Restart, GiveUp, FailRunFails, Rescore, StartRescore, RescoreFails, page
  <2>4. ASSUME Judge \/ ClearJudgment \/ UNCHANGED vars PROVE UNCHANGED shown
    BY <2>4 DEF Judge, ClearJudgment, page, vars
  <2> QED BY <2>1, <2>2, <2>3, <2>4 DEF Next
<1>2. \/ UNCHANGED baseline
      \/ UNCHANGED runs /\ baseline' \in Run /\ runs[baseline'].status = "complete"
  <2>1. ASSUME NEW t \in Tab, SetBaseline(t)
        PROVE  UNCHANGED runs /\ baseline' \in Run /\ runs[baseline'].status = "complete"
    BY <2>1 DEF SetBaseline, Offered
  <2>2. ASSUME NEW t \in Tab,
               \/ CreateQuery(t) \/ DisableQuery(t) \/ PoolQueries(t) \/ OpenDialog(t)
               \/ StartEvaluation(t) \/ InsertRuns(t) \/ StartWorkflow(t) \/ StartFails(t)
               \/ TakeAnswer(t) \/ Poll(t) \/ Focus(t)
        PROVE  UNCHANGED baseline
    BY <2>2 DEF CreateQuery, DisableQuery, PoolQueries, OpenDialog, StartEvaluation, InsertRuns,
       StartWorkflow, StartFails, TakeAnswer, Poll, Focus, Show, server
  <2>3. ASSUME NEW r \in Run,
               \/ Workflow(r) \/ Restart(r) \/ GiveUp(r) \/ FailRunFails(r)
               \/ Rescore(r) \/ StartRescore(r) \/ RescoreFails(r)
        PROVE  UNCHANGED baseline
    BY <2>3 DEF Workflow, Prepare, Retrieve, BeginScore, ScoreOwn, ScoreBaseline, Finish, FailRun,
       Restart, GiveUp, FailRunFails, Rescore, StartRescore, RescoreFails
  <2>4. ASSUME Judge \/ ClearJudgment \/ UNCHANGED vars PROVE UNCHANGED baseline
    BY <2>4 DEF Judge, ClearJudgment, server, vars
  <2> QED BY <2>1, <2>2, <2>3, <2>4 DEF Next
<1>3. \A r \in Run : runs[r].status = "complete" => HasScore(runs[r])
  BY DEF IInv, RunsSound, RowSound
<1>4. Overview \in [Run -> RunStatus] /\ \A r \in Run : Overview[r] = runs[r].status
  BY DEF Overview, IInv, Shapes, RunRow
<1>5. shown' \in [Tab -> [Run -> RunStatus]]
  BY <1>1, <1>4 DEF IInv, Shapes
<1>6. \A x \in Run : HasScore(runs[x]) => HasScore(runs'[x])
  BY DEF RunsFollow
<1>7. baseline' # 0 => HasScore(runs'[baseline'])
  BY <1>2, <1>3, <1>6, EvalAssumption DEF IInv, NamedSound, BenchmarkOK, Run
<1>8. ASSUME NEW t \in Tab, NEW r \in Run, shown'[t][r] = "complete"
      PROVE  HasScore(runs'[r])
  <2>1. CASE UNCHANGED shown
    <3>1. r \in Offered(t)
      BY <1>8, <2>1 DEF Offered
    <3>2. HasScore(runs[r])
      BY <3>1 DEF IInv, NamedSound
    <3> QED BY <1>6, <3>2
  <2>2. ASSUME NEW u \in Tab, shown' = [shown EXCEPT ![u] = Overview], UNCHANGED runs
        PROVE  HasScore(runs'[r])
    <3>1. CASE t = u
      BY <1>3, <1>4, <1>8, <2>2, <3>1 DEF IInv, Shapes
    <3>2. CASE t # u
      <4>1. r \in Offered(t)
        BY <1>8, <2>2, <3>2 DEF Offered, IInv, Shapes
      <4>2. HasScore(runs[r])
        BY <4>1 DEF IInv, NamedSound
      <4> QED BY <1>6, <4>2
    <3> QED BY <3>1, <3>2
  <2> QED BY <1>1, <2>1, <2>2
<1>9. NamedSound'
  BY <1>7, <1>8 DEF NamedSound, Offered
<1> QED BY <1>5, <1>9

----------------------------------------------------------------------------
\* The inductive invariant: every row agrees with the place of its workflow, what waits
\* to be started is in one dialog, and what is named by the baseline or shown as
\* complete by any tab, however old its overview, has a score.
THEOREM InvCorrect == Spec => []IInv
<1>1. Init => IInv
  BY InitIInv
<1>2. IInv /\ [Next]_vars => IInv'
  BY RunsStep, BenchmarkStep, NamedStep DEF IInv, Shapes, RunsFollow
<1> QED BY <1>1, <1>2, PTL DEF Spec

\* Every variable keeps its type, and only candidates are judged (_record_results
\* and the judgment page write them), for any number of tabs, queries and images.
THEOREM TypeCorrect == Spec => []TypeOK
BY InvCorrect, IInvTypes, PTL

\* What compare_runs asserts of the baseline and what the overview prints has a
\* score, through every order of scoring, restarting, failing and rescoring.
THEOREM CompleteIsScoredCorrect == Spec => []CompleteIsScored
<1>1. IInv => CompleteIsScored
  <2> SUFFICES ASSUME IInv, NEW r \in Run,
                      \/ runs[r].status = "complete"
                      \/ r = baseline
                      \/ \E t \in Tab : r \in Offered(t)
               PROVE  runs[r].scored # NoSnapshot /\ runs[r].scored \in runs[r].scores
    BY DEF CompleteIsScored
  <2>1. RowSound(runs[r], flow[r]) /\ NamedSound /\ r # 0
    BY EvalAssumption DEF IInv, RunsSound, Run
  <2>2. HasScore(runs[r])
    BY <2>1 DEF RowSound, NamedSound
  <2> QED BY <2>1, <2>2 DEF RowSound, HasScore
<1> QED BY <1>1, InvCorrect, PTL

\* A run is scored on the queries it was made from, also as the baseline of a later
\* run (ensure_scored), and what compare_runs compares has results for the same ones.
THEOREM ScoredOnItsQueriesCorrect == Spec => []ScoredOnItsQueries
<1>1. IInv => ScoredOnItsQueries
  <2> SUFFICES ASSUME IInv PROVE ScoredOnItsQueries
    OBVIOUS
  <2>1. \A r \in Run : RowSound(runs[r], flow[r])
    BY DEF IInv, RunsSound
  <2>2. \A r \in Run : \A s \in runs[r].scores : DOMAIN s = DOMAIN runs[r].snapshot
    BY <2>1 DEF RowSound
  <2>3. ASSUME NEW b \in Run, NEW c \in Run, Compares(b, c)
        PROVE  DOMAIN runs[b].results = DOMAIN runs[c].results
    <3>1. \A r \in {b, c} : /\ DOMAIN runs[r].results = DOMAIN runs[r].snapshot
                            /\ runs[r].scored \in runs[r].scores
      BY <2>1, <2>3 DEF RowSound, Compares, HasScore
    <3> QED BY <2>2, <2>3, <3>1 DEF Compares
  <2> QED BY <2>2, <2>3 DEF ScoredOnItsQueries
<1> QED BY <1>1, InvCorrect, PTL

----------------------------------------------------------------------------
\* What a run is evidence of stays: the judgments it was made from, what was found
\* for each query, and every score it got.
RowKept(old, new) ==
    /\ new.snapshot = old.snapshot
    /\ old.scores \subseteq new.scores
    /\ DOMAIN old.results \subseteq DOMAIN new.results
    /\ \A q \in DOMAIN old.results : new.results[q] = old.results[q]

EvidenceIsKept == [][\A r \in Existing : RowKept(runs[r], runs'[r])]_vars

\* A failure is final, and so is a completion once the workflow has ended; a run that
\* waits for judgments stays so until none is missing.
Final(r) == runs[r].status = "failed" \/ (runs[r].status = "complete" /\ At(r, "done"))

EndKept(r) ==
    /\ Final(r) => runs'[r].status = runs[r].status
    /\ runs[r].status = "needs_judgments" /\ runs'[r].status # "needs_judgments" => ~Missing(r)

EndsAreFinal == [][\A r \in Run : EndKept(r)]_vars

\* What a step may do to run x, its place and its evidence.
Moves(x) ==
    /\ x \in Existing => RowKept(runs[x], runs'[x])
    /\ EndKept(x)
    /\ runs'[x].status \in Working /\ flow'[x].step = "none" =>
          \/ runs[x].status \in Working /\ flow[x].step = "none"
          \/ \E t \in Tab : call'[t].step = "starting" /\ x \in call'[t].todo
    /\ \A t \in Tab : call[t].step = "starting" /\ x \in call[t].todo =>
          \/ call'[t].step = "starting" /\ x \in call'[t].todo
          \/ flow'[x].step # "none"

LEMMA SameKept ==
    /\ \A row : RowKept(row, row)
    /\ \A x : runs'[x].status = runs[x].status => EndKept(x)
BY DEF RowKept, EndKept

\* A row that gets another status, or a score, is kept.
LEMMA StatusKept ==
    ASSUME IInv, NEW r \in Run, NEW st \in RunStatus, runs' = [runs EXCEPT ![r].status = st]
    PROVE  /\ \A x \in Run : RowKept(runs[x], runs'[x])
           /\ \A x \in Run \ {r} : runs'[x] = runs[x]
           /\ runs'[r].status = st
<1>1. runs[r] \in RunRow
  BY DEF IInv, Shapes
<1>2. PICK row \in RunRow :
        /\ row = [status |-> st, snapshot |-> runs[r].snapshot, results |-> runs[r].results,
                  scores |-> runs[r].scores, scored |-> runs[r].scored]
        /\ runs' = [runs EXCEPT ![r] = row]
  <2>1. /\ [runs[r] EXCEPT !.status = st] \in RunRow
        /\ [runs[r] EXCEPT !.status = st] =
             [status |-> st, snapshot |-> runs[r].snapshot, results |-> runs[r].results,
              scores |-> runs[r].scores, scored |-> runs[r].scored]
    BY <1>1 DEF RunRow
  <2>2. PICK row : row = [runs[r] EXCEPT !.status = st]
    OBVIOUS
  <2>3. runs' = [runs EXCEPT ![r] = row]
    BY <2>2, Zenon
  <2> QED BY <2>1, <2>2, <2>3
<1>3. \A x \in Run : runs'[x] = IF x = r THEN row ELSE runs[x]
  BY <1>2 DEF IInv, Shapes
<1>4. RowKept(runs[r], row) /\ row.status = st
  BY <1>2 DEF RowKept
<1> QED BY <1>3, <1>4, SameKept

LEMMA ScoreKept ==
    ASSUME IInv, NEW b \in Run, NEW s \in Snapshot, runs' = [runs EXCEPT ![b] = Scored(@, s)]
    PROVE  \A x \in Run : RowKept(runs[x], runs'[x]) /\ runs'[x].status = runs[x].status
<1>1. runs[b] \in RunRow
  BY DEF IInv, Shapes
<1>2. PICK row \in RunRow :
        /\ row = [status |-> runs[b].status, snapshot |-> runs[b].snapshot,
                  results |-> runs[b].results, scores |-> runs[b].scores \cup {s}, scored |-> s]
        /\ row = Scored(runs[b], s)
  BY <1>1, RowType, ZenonT(30) DEF RunStatus
<1>3. \A x \in Run : runs'[x] = IF x = b THEN row ELSE runs[x]
  BY <1>2 DEF IInv, Shapes
<1>4. RowKept(runs[b], row) /\ row.status = runs[b].status
  BY <1>2 DEF RowKept
<1> QED BY <1>3, <1>4, SameKept

LEMMA RetrieveKept ==
    ASSUME IInv, NEW r \in Run, Retrieve(r)
    PROVE  \A x \in Run : RowKept(runs[x], runs'[x]) /\ runs'[x].status = runs[x].status
<1> DEFINE q == First(DOMAIN runs[r].snapshot \ DOMAIN runs[r].results)
           have == DOMAIN runs[r].results \cup {q}
<1>1. runs[r] \in RunRow /\ RowSound(runs[r], flow[r]) /\ flow[r].step = "retrieve"
  BY DEF IInv, Shapes, RunsSound, Retrieve, At
<1>2. DOMAIN runs[r].snapshot \ DOMAIN runs[r].results \in SUBSET Nat
  BY <1>1, SnapshotType, EvalAssumption DEF RunRow
<1>3. DOMAIN runs[r].snapshot \ DOMAIN runs[r].results # {}
  BY <1>1 DEF RowSound
<1>4. q \notin DOMAIN runs[r].results
  BY <1>2, <1>3, NaturalMinimum
<1>5. PICK found \in Retrieved[q] :
        runs' = [runs EXCEPT ![r].results =
                   [p \in have |-> IF p = q THEN found ELSE runs[r].results[p]]]
  BY DEF Retrieve
<1> HIDE DEF q
<1>6. PICK res : res = [p \in have |-> IF p = q THEN found ELSE runs[r].results[p]]
  OBVIOUS
<1>7. DOMAIN res = have /\ \A p \in DOMAIN runs[r].results : res[p] = runs[r].results[p]
  BY <1>4, <1>6
<1>8. PICK row : row = [runs[r] EXCEPT !.results = res] /\ runs' = [runs EXCEPT ![r] = row]
  BY <1>5, <1>6
<1>9. /\ row.snapshot = runs[r].snapshot /\ row.scores = runs[r].scores
      /\ row.results = res /\ row.status = runs[r].status
  BY <1>1, <1>8 DEF RunRow
<1>10. RowKept(runs[r], row)
  BY <1>7, <1>9 DEF RowKept
<1>11. \A x \in Run : runs'[x] = IF x = r THEN row ELSE runs[x]
  BY <1>8 DEF IInv, Shapes
<1> QED BY <1>9, <1>10, <1>11, SameKept

LEMMA PlaceMoves ==
    ASSUME IInv, NEW r \in Run, NEW step, To(r, step)
    PROVE  flow'[r].step = step /\ \A x \in Run \ {r} : flow'[x] = flow[x]
<1>1. flow[r] \in Flow
  BY DEF IInv, Shapes
<1> QED BY <1>1 DEF To, IInv, Shapes, Flow

\* A step of the workflow of run r that keeps every row and the status of every other.
LEMMA WorkflowMoves ==
    ASSUME IInv, NEW r \in Run, UNCHANGED call,
           flow[r].step # "none", flow'[r].step # "none", EndKept(r),
           \A x \in Run \ {r} : flow'[x] = flow[x] /\ runs'[x].status = runs[x].status,
           \A x \in Existing : RowKept(runs[x], runs'[x])
    PROVE  \A x \in Run : Moves(x)
<1> TAKE x \in Run
<1>1. CASE x = r
  BY <1>1 DEF Moves
<1>2. CASE x # r
  BY <1>2, SameKept DEF Moves
<1> QED BY <1>1, <1>2

LEMMA WorkflowStepMoves ==
    ASSUME IInv, NEW r \in Run,
           \/ Workflow(r) \/ Restart(r) \/ GiveUp(r) \/ FailRunFails(r)
           \/ Rescore(r) \/ StartRescore(r) \/ RescoreFails(r)
    PROVE  \A x \in Run : Moves(x)
<1>0. RowSound(runs[r], flow[r])
  BY DEF IInv, RunsSound
<1>1. ASSUME NEW st \in RunStatus, NEW step, runs' = [runs EXCEPT ![r].status = st],
             To(r, step), step # "none", UNCHANGED call, flow[r].step # "none",
             Final(r) => runs[r].status = st,
             runs[r].status = "needs_judgments" => st = "needs_judgments" \/ ~Missing(r)
      PROVE  \A x \in Run : Moves(x)
  <2>1. /\ \A x \in Run : RowKept(runs[x], runs'[x])
        /\ \A x \in Run \ {r} : runs'[x] = runs[x]
        /\ runs'[r].status = st
    BY <1>1, StatusKept
  <2>2. flow'[r].step = step /\ \A x \in Run \ {r} : flow'[x] = flow[x]
    BY <1>1, PlaceMoves
  <2>3. EndKept(r)
    BY <1>1, <2>1 DEF EndKept
  <2> QED BY <1>1, <2>1, <2>2, <2>3, WorkflowMoves DEF Existing
<1>2. ASSUME NEW step, UNCHANGED runs, To(r, step), step # "none", UNCHANGED call,
             flow[r].step # "none"
      PROVE  \A x \in Run : Moves(x)
  <2>1. flow'[r].step = step /\ \A x \in Run \ {r} : flow'[x] = flow[x]
    BY <1>2, PlaceMoves
  <2> QED BY <1>2, <2>1, SameKept, WorkflowMoves DEF Existing
<1>3. CASE Prepare(r)
  BY <1>0, <1>1, <1>3 DEF Prepare, At, page, RunStatus, RowSound, Final
<1>4. CASE Retrieve(r)
  <2>1. \A x \in Run : RowKept(runs[x], runs'[x]) /\ runs'[x].status = runs[x].status
    BY <1>4, RetrieveKept
  <2>2. flow[r].step = "retrieve" /\ UNCHANGED call
    BY <1>4 DEF Retrieve, At, page
  <2>3. To(r, "score") \/ UNCHANGED flow
    BY <1>4 DEF Retrieve
  <2>4. flow'[r].step \in {"score", "retrieve"} /\ \A x \in Run \ {r} : flow'[x] = flow[x]
    BY <2>2, <2>3, PlaceMoves
  <2> QED BY <2>1, <2>2, <2>4, SameKept, WorkflowMoves DEF Existing
<1>5. CASE BeginScore(r)
  BY <1>0, <1>1, <1>5 DEF BeginScore, At, page, RunStatus, RowSound, Final
<1>6. CASE ScoreOwn(r)
  <2>1. flow[r].step = "own" /\ UNCHANGED call
    BY <1>6 DEF ScoreOwn, At, page
  <2>2. PICK s \in Snapshot : s = SnapshotOf(DOMAIN runs[r].snapshot)
    BY SnapshotOfType, SnapshotType DEF IInv, Shapes, RunRow
  <2>3. CASE Relevant(DOMAIN s)
    <3>1. /\ runs' = [runs EXCEPT ![r] = Scored(@, s)]
          /\ flow' = [flow EXCEPT ![r] = [step |-> "baseline", on |-> s]]
      BY <1>6, <2>2, <2>3 DEF ScoreOwn
    <3>2. \A x \in Run : RowKept(runs[x], runs'[x]) /\ runs'[x].status = runs[x].status
      BY <3>1, ScoreKept
    <3>3. flow'[r].step = "baseline" /\ \A x \in Run \ {r} : flow'[x] = flow[x]
      BY <3>1 DEF IInv, Shapes
    <3> QED BY <2>1, <3>2, <3>3, SameKept, WorkflowMoves DEF Existing
  <2>4. CASE ~Relevant(DOMAIN s)
    BY <1>2, <1>6, <2>1, <2>2, <2>4 DEF ScoreOwn
  <2> QED BY <2>3, <2>4
<1>7. CASE ScoreBaseline(r)
  <2>1. flow[r].step = "baseline" /\ To(r, "finish") /\ UNCHANGED call
    BY <1>7 DEF ScoreBaseline, At, page
  <2>2. CASE baseline # r /\ SameQueries(baseline, flow[r].on)
    <3>1. baseline \in Run /\ flow[r].on \in Snapshot
      BY <2>2, EvalAssumption DEF SameQueries, IInv, BenchmarkOK, Shapes, Flow, Run
    <3>2. runs' = [runs EXCEPT ![baseline] = Scored(@, flow[r].on)]
      BY <1>7, <2>2 DEF ScoreBaseline
    <3>3. \A x \in Run : RowKept(runs[x], runs'[x]) /\ runs'[x].status = runs[x].status
      BY <3>1, <3>2, ScoreKept
    <3>4. flow'[r].step = "finish" /\ \A x \in Run \ {r} : flow'[x] = flow[x]
      BY <2>1, PlaceMoves
    <3> QED BY <2>1, <3>3, <3>4, SameKept, WorkflowMoves DEF Existing
  <2>3. CASE ~(baseline # r /\ SameQueries(baseline, flow[r].on))
    BY <1>2, <1>7, <2>1, <2>3 DEF ScoreBaseline
  <2> QED BY <2>2, <2>3
<1>8. CASE Finish(r)
  BY <1>0, <1>1, <1>8 DEF Finish, At, page, RunStatus, RowSound, Final
<1>9. CASE FailRun(r)
  <2>1. CASE runs[r].status \in {"complete", "needs_judgments"}
    BY <1>2, <1>9, <2>1 DEF FailRun, At, page
  <2>2. CASE runs[r].status \notin {"complete", "needs_judgments"}
    BY <1>1, <1>9, <2>2 DEF FailRun, At, page, RunStatus, Final
  <2> QED BY <2>1, <2>2
<1>10. CASE Restart(r) \/ GiveUp(r) \/ FailRunFails(r) \/ StartRescore(r)
  BY <1>2, <1>10 DEF Restart, GiveUp, FailRunFails, StartRescore, At, page
<1>11. CASE Rescore(r)
  BY <1>1, <1>11 DEF Rescore, page, RunStatus, Final
<1>12. CASE RescoreFails(r)
  <2>1. CASE runs' = [runs EXCEPT ![r].status = "failed"] /\ To(r, "done")
    BY <1>0, <1>1, <1>12, <2>1 DEF RescoreFails, At, page, RunStatus, RowSound, Final
  <2>2. CASE UNCHANGED runs /\ To(r, "lost")
    BY <1>2, <1>12, <2>2 DEF RescoreFails, At, page
  <2> QED BY <1>12, <2>1, <2>2 DEF RescoreFails
<1> QED BY <1>3, <1>4, <1>5, <1>6, <1>7, <1>8, <1>9, <1>10, <1>11, <1>12 DEF Workflow

\* A dialog goes a step that starts nothing.
LEMMA DialogMoves ==
    ASSUME IInv, NEW t \in Tab, NEW st, UNCHANGED <<runs, flow>>,
           call' = [call EXCEPT ![t].step = st], call[t].step # "starting"
    PROVE  \A x \in Run : Moves(x)
<1>1. \A u \in Tab \ {t} : call'[u] = call[u]
  BY DEF IInv, Shapes
<1> QED BY <1>1, SameKept DEF Moves

LEMMA InsertRunsMoves ==
    ASSUME IInv, NEW t \in Tab, InsertRuns(t) PROVE \A x \in Run : Moves(x)
<1>1. CASE ~(Complete /\ Relevant(Active))
  BY <1>1, DialogMoves DEF InsertRuns
<1>2. CASE Complete /\ Relevant(Active)
  <2>1. PICK n \in Run \ Existing :
          /\ runs' = [r \in Run |-> IF r \in {x \in Run \ Existing : x <= n}
                        THEN [NoRun EXCEPT !.status = "queued", !.snapshot = SnapshotOf(Active)]
                        ELSE runs[r]]
          /\ call' = [call EXCEPT ![t] = [step |-> "starting",
                                         todo |-> {x \in Run \ Existing : x <= n}]]
          /\ flow' = flow
    BY <1>2 DEF InsertRuns
  <2>2. PICK new \in SUBSET (Run \ Existing) : new = {x \in Run \ Existing : x <= n}
    OBVIOUS
  <2>3. PICK row : row = [NoRun EXCEPT !.status = "queued", !.snapshot = SnapshotOf(Active)]
    OBVIOUS
  <2>4. \A x \in Run : runs'[x] = IF x \in new THEN row ELSE runs[x]
    BY <2>1, <2>2, <2>3
  <2>5. \A u \in Tab : call'[u] = IF u = t THEN [step |-> "starting", todo |-> new] ELSE call[u]
    BY <2>1, <2>2 DEF IInv, Shapes
  <2>6. call[t].step = "checked"
    BY DEF InsertRuns
  <2>7. \A x \in new : flow[x].step = "none"
    <3> TAKE x \in new
    <3>1. x \in Run /\ runs[x].status = "none" /\ RowSound(runs[x], flow[x])
      BY <2>2 DEF Existing, IInv, RunsSound
    <3> QED BY <3>1 DEF RowSound
  <2>8. ASSUME NEW x \in new PROVE Moves(x)
    <3>1. x \in Run /\ x \notin Existing /\ flow'[x].step = "none" /\ flow[x].step = "none"
      BY <2>1, <2>2, <2>7, <2>8
    <3>2. call'[t].step = "starting" /\ x \in call'[t].todo
      BY <2>5, <2>8
    <3>3. \A u \in Tab : call[u].step = "starting" /\ x \in call[u].todo =>
            call'[u].step = "starting" /\ x \in call'[u].todo
      BY <2>5, <2>6
    <3>4. EndKept(x)
      BY <3>1 DEF EndKept, Final, Existing
    <3> QED BY <3>1, <3>2, <3>3, <3>4 DEF Moves
  <2>9. ASSUME NEW x \in Run \ new PROVE Moves(x)
    <3>1. runs'[x] = runs[x] /\ flow'[x] = flow[x]
      BY <2>1, <2>4, <2>9
    <3>2. \A u \in Tab : call[u].step = "starting" /\ x \in call[u].todo =>
            call'[u].step = "starting" /\ x \in call'[u].todo
      BY <2>5, <2>6
    <3> QED BY <3>1, <3>2, SameKept DEF Moves
  <2> QED BY <2>8, <2>9
<1> QED BY <1>1, <1>2

LEMMA StartWorkflowMoves ==
    ASSUME IInv, NEW t \in Tab, StartWorkflow(t) PROVE \A x \in Run : Moves(x)
<1>1. /\ call[t] \in Call /\ call[t].todo # {} /\ call[t].todo \subseteq Run
      /\ call[t].step = "starting" /\ TodoSound
  BY DEF IInv, Shapes, TodoSound, StartWorkflow, Call
<1>2. PICK r \in call[t].todo : r = First(call[t].todo)
  BY <1>1, NaturalMinimum DEF Run
<1>3. /\ flow' = [flow EXCEPT ![r].step = "prepare"]
      /\ call' = [call EXCEPT ![t].todo = @ \ {r},
                             ![t].step = IF call[t].todo = {r} THEN "started" ELSE @]
      /\ runs' = runs
  BY <1>2 DEF StartWorkflow
<1>4. r \in Run /\ flow[r].step = "none"
  BY <1>1 DEF TodoSound
<1>5. flow'[r].step = "prepare" /\ \A x \in Run \ {r} : flow'[x] = flow[x]
  BY <1>3, <1>4, PlaceMoves DEF To
<1>6. PICK c \in Call :
              /\ call' = [call EXCEPT ![t] = c]
              /\ call[t].todo # {r} => c.step = "starting" /\ c.todo = call[t].todo \ {r}
  <2>1. PICK mid : mid = [call[t] EXCEPT !.todo = @ \ {r}]
    OBVIOUS
  <2>2. mid \in Call /\ mid.step = "starting" /\ mid.todo = call[t].todo \ {r}
    BY <1>1, <2>1 DEF Call
  <2>3. PICK c : c = [mid EXCEPT !.step = IF call[t].todo = {r} THEN "started" ELSE @]
    OBVIOUS
  <2>4. c \in Call /\ (call[t].todo # {r} => c.step = "starting" /\ c.todo = mid.todo)
    BY <2>2, <2>3 DEF Call
  <2>5. call' = [call EXCEPT ![t] = c]
    BY <1>3, <2>1, <2>3
  <2> QED BY <2>2, <2>4, <2>5
<1>7. \A u \in Tab : call'[u] = IF u = t THEN c ELSE call[u]
  BY <1>6 DEF IInv, Shapes
<1>8. \A x \in Run \ {r}, u \in Tab : call[u].step = "starting" /\ x \in call[u].todo =>
        call'[u].step = "starting" /\ x \in call'[u].todo
  BY <1>1, <1>6, <1>7
<1>9. Moves(r)
  <2>1. RowKept(runs[r], runs'[r]) /\ EndKept(r)
    BY <1>3, SameKept
  <2> QED BY <1>5, <2>1 DEF Moves
<1>10. ASSUME NEW x \in Run \ {r} PROVE Moves(x)
  <2>1. RowKept(runs[x], runs'[x]) /\ EndKept(x) /\ runs'[x] = runs[x] /\ flow'[x] = flow[x]
    BY <1>3, <1>5, SameKept
  <2> QED BY <1>8, <2>1 DEF Moves
<1> QED BY <1>9, <1>10

LEMMA StartFailsMoves ==
    ASSUME IInv, NEW t \in Tab, StartFails(t) PROVE \A x \in Run : Moves(x)
<1>1. /\ call[t].todo \subseteq Run /\ TodoSound
      /\ \A u \in Tab : call'[u] = IF u = t THEN [step |-> "open", todo |-> {}] ELSE call[u]
      /\ \A x \in Run \ call[t].todo : runs'[x] = runs[x] /\ flow'[x] = flow[x]
  BY StartFailsRows DEF IInv
<1>2. ASSUME NEW x \in Run \ call[t].todo PROVE Moves(x)
  BY <1>1, <1>2, SameKept DEF Moves
<1>3. ASSUME NEW x \in call[t].todo PROVE Moves(x)
  <2>1. runs[x].status = "queued"
    BY <1>1 DEF TodoSound
  <2>2. flow'[x].step \in {"lost", "done"}
    BY StartFailsRows
  <2>3. RowKept(runs[x], runs'[x])
    <3>1. \/ runs'[x] = runs[x]
          \/ runs'[x] = [status |-> "failed", snapshot |-> runs[x].snapshot,
                         results |-> runs[x].results, scores |-> runs[x].scores,
                         scored |-> runs[x].scored]
      BY StartFailsRows
    <3> QED BY <3>1 DEF RowKept
  <2> QED BY <2>1, <2>2, <2>3 DEF Moves, EndKept, Final
<1> QED BY <1>2, <1>3

LEMMA RunMoves ==
    ASSUME IInv, [Next]_vars
    PROVE  \A x \in Run : Moves(x)
<1>1. CASE UNCHANGED <<runs, flow, call>>
  BY <1>1, SameKept DEF Moves
<1>2. ASSUME NEW t \in Tab,
             \/ CreateQuery(t) \/ DisableQuery(t) \/ PoolQueries(t) \/ Poll(t) \/ Focus(t)
             \/ SetBaseline(t)
      PROVE  UNCHANGED <<runs, flow, call>>
  BY <1>2 DEF CreateQuery, DisableQuery, PoolQueries, Poll, Focus, Show, SetBaseline, server
<1>3. CASE Judge \/ ClearJudgment \/ UNCHANGED vars
  BY <1>1, <1>3 DEF Judge, ClearJudgment, vars, server, page
<1>4. ASSUME NEW t \in Tab, OpenDialog(t) \/ StartEvaluation(t) \/ TakeAnswer(t)
      PROVE  \A x \in Run : Moves(x)
  BY <1>4, DialogMoves DEF OpenDialog, StartEvaluation, TakeAnswer, server
<1>5. ASSUME NEW t \in Tab, InsertRuns(t) \/ StartWorkflow(t) \/ StartFails(t)
      PROVE  \A x \in Run : Moves(x)
  BY <1>5, InsertRunsMoves, StartWorkflowMoves, StartFailsMoves
<1>6. ASSUME NEW r \in Run,
             \/ Workflow(r) \/ Restart(r) \/ GiveUp(r) \/ FailRunFails(r)
             \/ Rescore(r) \/ StartRescore(r) \/ RescoreFails(r)
      PROVE  \A x \in Run : Moves(x)
  BY <1>6, WorkflowStepMoves
<1> QED BY <1>1, <1>2, <1>3, <1>4, <1>5, <1>6 DEF Next

LEMMA StrandedStep ==
    ASSUME IInv, NoRunIsStranded, [Next]_vars PROVE NoRunIsStranded'
<1> SUFFICES ASSUME NEW x \in Run, runs'[x].status \in Working
             PROVE  \/ flow'[x].step \in GoingOn
                    \/ \E t \in Tab : call'[t].step = "starting" /\ x \in call'[t].todo
                    \/ flow'[x].step = "lost"
  BY DEF NoRunIsStranded, At
<1>1. Moves(x)
  BY RunMoves
<1>2. flow'[x].step \in Step /\ flow'[x].step \notin Ended
  BY RunsStep DEF RunsFollow, RunsSound, RowSound, Flow
<1>3. CASE flow'[x].step = "none"
  <2>1. CASE runs[x].status \in Working /\ flow[x].step = "none"
    <3>1. PICK t \in Tab : call[t].step = "starting" /\ x \in call[t].todo
      BY <2>1 DEF NoRunIsStranded, GoingOn, At
    <3> QED BY <1>1, <1>3, <3>1 DEF Moves
  <2>2. CASE ~(runs[x].status \in Working /\ flow[x].step = "none")
    BY <1>1, <1>3, <2>2 DEF Moves
  <2> QED BY <2>1, <2>2
<1> QED BY <1>2, <1>3 DEF Step

\* A run that the pages show as active and that keeps every other from starting has
\* someone who will end it: no order of restarts, failures, repeated attempts and
\* rescoring leaves one queued or running behind a workflow that has ended.  Lost are
\* only those whose last call failed as well (_fail, submit_experiment).
THEOREM NoRunIsStrandedCorrect == Spec => []NoRunIsStranded
<1>1. Init => NoRunIsStranded
  BY DEF Init, NoRunIsStranded, NoRun, Working
<1>2. IInv /\ NoRunIsStranded /\ [Next]_vars => NoRunIsStranded'
  BY StrandedStep
<1> QED BY <1>1, <1>2, InvCorrect, PTL DEF Spec

\* Results and scores are inserted, never updated or deleted (_record_results,
\* ensure_scored), and the snapshot of a run is the one it was made with.
THEOREM EvidenceIsKeptCorrect == Spec => EvidenceIsKept
<1>1. IInv /\ [Next]_vars => [\A r \in Existing : RowKept(runs[r], runs'[r])]_vars
  BY RunMoves DEF Moves, Existing
<1> QED BY <1>1, InvCorrect, PTL DEF Spec, EvidenceIsKept

\* A run that failed stays failed and one that is complete with its workflow at an end
\* stays complete, also when it is scored again as the baseline of another; one that
\* waits for judgments is brought back only once it has them (queue_rescore, score_run).
THEOREM EndsAreFinalCorrect == Spec => EndsAreFinal
<1>1. IInv /\ [Next]_vars => [\A r \in Run : EndKept(r)]_vars
  BY RunMoves DEF Moves
<1> QED BY <1>1, InvCorrect, PTL DEF Spec, EndsAreFinal
=============================================================================

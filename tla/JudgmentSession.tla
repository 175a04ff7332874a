-------------------------- MODULE JudgmentSession --------------------------
(***************************************************************************)
(* Grading the pooled candidates of evaluation queries: tabs that show one *)
(* query and one of its candidates, the judgments of the database, and the *)
(* calls that save and clear a judgment.  A call carries the revision the  *)
(* tab has in its cache; the server reads the row and writes it in one     *)
(* transaction without a lock, so that two transactions may interleave.    *)
(*                                                                         *)
(* Images are numbers; every query lists its candidates in one fixed order *)
(* (stableOrder), which is here the order of the numbers.                  *)
(***************************************************************************)
EXTENDS Integers, FiniteSets

CONSTANTS
    Tab,
    QueryCount,   \* number of active queries, which are 1..QueryCount
    ImageCount,   \* number of images
    FirstPool,    \* the pool each query starts with
    Taste,        \* bound: the grades each tab gives
    MaxRevision,  \* bound: times one judgment is graded
    MaxUpsets     \* bound: clears, skips, lost calls, additions and moves by hand, together

Query == 1..QueryCount
Image == 1..ImageCount

ASSUME JudgmentAssumption ==
    /\ QueryCount \in Nat \ {0}
    /\ ImageCount \in Nat \ {0}
    /\ FirstPool \in [Query -> SUBSET Image]
    /\ Taste \in [Tab -> SUBSET (0..3)]
    /\ MaxRevision \in Nat
    /\ MaxUpsets \in Nat

VARIABLES
    judgment,  \* the rows: grade and revision of a query and image
    pool,      \* the candidates of each query
    cache,     \* per tab and query: what was last loaded, with later answers merged in
    fetch,     \* per tab: the answer of a load of the shown query on its way
    view,      \* per tab: the query shown and the place in its candidates
    call,      \* per tab: the call that saves or clears a judgment
    upsets     \* clears, skips, lost calls, additions and moves by hand so far

vars == <<judgment, pool, cache, fetch, view, call, upsets>>

----------------------------------------------------------------------------
Grade == 0..3
NoGrade == -1
Unjudged == [grade |-> NoGrade, revision |-> 0]
Judgment == [grade : Grade \cup {NoGrade}, revision : 0..MaxRevision]

\* A loaded workspace: a judgment for every candidate.  NotLoaded has none and is
\* told from an empty pool by its flag.
NotLoaded == [loaded |-> FALSE]
Workspace(of) == [loaded |-> TRUE, of |-> of]
Fresh(q) == Workspace([i \in pool[q] |-> judgment[<<q, i>>]])

NoFetch == [loaded |-> FALSE]
NoCall == [answer |-> "idle"]

\* The place of a candidate in the list, and the length of the list.
Place(w, i) == Cardinality({j \in DOMAIN w.of : j <= i})
Length(w) == Cardinality(DOMAIN w.of)

\* The place of the first candidate without a grade, after the graded ones that come
\* before it; the first place if there is none.
FirstUnjudged(w) ==
    LET open == {i \in DOMAIN w.of : w.of[i].grade = NoGrade}
    IN  IF open = {} THEN 1 ELSE Cardinality({j \in DOMAIN w.of : \A i \in open : j < i}) + 1

Shown(t) == cache[t][view[t].query]

\* The candidate that is shown, or none: an empty pool, or a place beyond it.
Active(t) ==
    IF Shown(t).loaded THEN {i \in DOMAIN Shown(t).of : Place(Shown(t), i) = view[t].index}
    ELSE {}

\* (mutant) The end of the pool is not looked at.
MovedPast(index, step, length) == index + step

\* One step forward or backward, around the end of "length" candidates.
Moved(index, step, length) == IF length = 0 THEN 1 ELSE ((index - 1 + step) % length) + 1

\* The place after the render of workspace w in the place of workspace u: the
\* effect goes to the first unjudged candidate whenever that has changed.
Settled(u, w, index) ==
    IF u.loaded /\ w.loaded /\ FirstUnjudged(u) = FirstUnjudged(w) THEN index
    ELSE IF w.loaded THEN FirstUnjudged(w) ELSE 1

Init ==
    /\ judgment = [k \in Query \X Image |-> Unjudged]
    /\ pool = FirstPool
    /\ cache = [t \in Tab |-> [q \in Query |-> IF q = 1 THEN Fresh(q) ELSE NotLoaded]]
    /\ fetch = [t \in Tab |-> NoFetch]
    /\ view = [t \in Tab |-> [query |-> 1, index |-> 1]]
    /\ call = [t \in Tab |-> NoCall]
    /\ upsets = 0

----------------------------------------------------------------------------
\* Moving between candidates by hand: previous, next, or a click in the film
\* strip, which stays enabled during a call.
Move(t) ==
    /\ Active(t) # {}
    /\ upsets < MaxUpsets
    /\ upsets' = upsets + 1
    /\ \E i \in DOMAIN Shown(t).of : view' = [view EXCEPT ![t].index = Place(Shown(t), i)]
    /\ UNCHANGED <<judgment, pool, cache, fetch, call>>

\* The previous and the next query, or the browser's way back.  What the cache has
\* of it is shown at once and loaded again; a query never loaded takes the session
\* of the tab down.
OpenQuery(t) ==
    /\ upsets < MaxUpsets
    /\ upsets' = upsets + 1
    /\ \E q \in Query \cap {view[t].query - 1, view[t].query + 1} :
          /\ view' = [view EXCEPT ![t] =
                [query |-> q, index |-> IF cache[t][q].loaded THEN FirstUnjudged(cache[t][q]) ELSE 1]]
          /\ fetch' = [fetch EXCEPT ![t] = Fresh(q)]
          /\ call' = IF call[t] # NoCall /\ ~cache[t][q].loaded
                     THEN [call EXCEPT ![t].mounted = FALSE] ELSE call
    /\ UNCHANGED <<judgment, pool, cache>>

\* (mutant) The window gets the focus and nothing is loaded.
StartNoLoad(t) ==
    /\ fetch[t] = NoFetch
    /\ UNCHANGED vars

\* The shown query is loaded again, for instance when the window gets the focus.
StartLoad(t) ==
    /\ fetch[t] = NoFetch
    /\ fetch' = [fetch EXCEPT ![t] = Fresh(view[t].query)]
    /\ UNCHANGED <<judgment, pool, cache, view, call, upsets>>

EndLoad(t) ==
    /\ fetch[t] # NoFetch
    /\ cache' = [cache EXCEPT ![t][view[t].query] = fetch[t]]
    /\ view' = [view EXCEPT ![t].index = Settled(Shown(t), fetch[t], @)]
    /\ fetch' = [fetch EXCEPT ![t] = NoFetch]
    /\ UNCHANGED <<judgment, pool, call, upsets>>

\* An image that retrieval missed joins the pool of the query, which is loaded
\* again.
AddCandidate(t) ==
    /\ Shown(t).loaded
    /\ upsets < MaxUpsets
    /\ upsets' = upsets + 1
    /\ \E i \in Image \ pool[view[t].query] :
          pool' = [pool EXCEPT ![view[t].query] = @ \cup {i}]
    /\ fetch' = [fetch EXCEPT ![t] =
                    Workspace([i \in pool'[view[t].query] |-> judgment[<<view[t].query, i>>]])]
    /\ UNCHANGED <<judgment, cache, view, call>>

----------------------------------------------------------------------------
\* The keys and the grades are enabled: a candidate is shown and no call is on
\* its way.
Enabled(t) == Active(t) # {} /\ call[t] = NoCall

Send(t, i, kind, grade) ==
    call' = [call EXCEPT ![t] =
                [answer |-> "pending", kind |-> kind, query |-> view[t].query, image |-> i,
                 grade |-> grade, revision |-> Shown(t).of[i].revision,
                 seen |-> Shown(t).of[i].grade, read |-> 0,
                 length |-> Length(Shown(t)), mounted |-> TRUE]]

\* A grade for the candidate that is shown.
GradeActive(t) ==
    /\ Enabled(t)
    /\ \E i \in Active(t), g \in Taste[t] :
          /\ Shown(t).of[i].revision < MaxRevision
          /\ Send(t, i, "grade", g)
    /\ UNCHANGED <<judgment, pool, cache, fetch, view, upsets>>

\* Unjudge and skip: a candidate without a grade is only skipped.
ClearGrade(t) ==
    /\ Enabled(t)
    /\ upsets < MaxUpsets
    /\ upsets' = upsets + 1
    /\ \E i \in Active(t) :
          /\ Shown(t).of[i].grade # NoGrade
          /\ Send(t, i, "clear", NoGrade)
    /\ UNCHANGED <<judgment, pool, cache, fetch, view>>

SkipUnjudged(t) ==
    /\ Enabled(t)
    /\ upsets < MaxUpsets
    /\ upsets' = upsets + 1
    /\ \E i \in Active(t) : Shown(t).of[i].grade = NoGrade
    /\ view' = [view EXCEPT ![t].index = Moved(@, 1, Length(Shown(t)))]
    /\ UNCHANGED <<judgment, pool, cache, fetch, call>>

\* The next key on a candidate that has a grade.
MoveOn(t) ==
    /\ Enabled(t)
    /\ \E i \in Active(t) : Shown(t).of[i].grade # NoGrade
    /\ view' = [view EXCEPT ![t].index = Moved(@, 1, Length(Shown(t)))]
    /\ UNCHANGED <<judgment, pool, cache, fetch, call, upsets>>

----------------------------------------------------------------------------
Row(t) == judgment[<<call[t].query, call[t].image>>]
Exists(r) == r.revision # 0

Answer(t, a) == call' = [call EXCEPT ![t].answer = a]

\* What the transaction makes of the row it read.
Agrees(t) ==
    IF call[t].kind = "clear" /\ ~Exists(Row(t)) THEN TRUE
    ELSE Row(t).revision = call[t].revision

\* The transaction reads the row and compares revisions; a candidate outside the
\* pool is not judged.  "Judgment changed in another tab"
ReadRow(t) ==
    /\ call[t].answer = "pending"
    /\ IF Agrees(t) /\ (call[t].kind = "grade" => call[t].image \in pool[call[t].query])
       THEN call' = [call EXCEPT ![t].answer = "read", ![t].read = Row(t).revision]
       ELSE Answer(t, "refused")
    /\ UNCHANGED <<judgment, pool, cache, fetch, view, upsets>>

\* (mutant) The insert replaces a row that is there already.
FitsUpsert(t) ==
    IF call[t].kind = "clear" THEN TRUE ELSE call[t].read # 0 => Exists(Row(t))

\* What is written must fit the row as it is by then: an insert meets no row, an
\* update and the revision it was read at meet one, a delete need not.
Fits(t) ==
    IF call[t].kind = "clear" THEN TRUE ELSE call[t].read # 0 <=> Exists(Row(t))

Written(t) ==
    IF call[t].kind = "clear"
    THEN IF call[t].read = 0 THEN Row(t) ELSE Unjudged
    ELSE [grade |-> call[t].grade, revision |-> call[t].read + 1]

WriteRow(t) ==
    /\ call[t].answer = "read"
    /\ IF Fits(t)
       THEN /\ judgment' = [judgment EXCEPT ![<<call[t].query, call[t].image>>] = Written(t)]
            /\ Answer(t, "saved")
       ELSE /\ Answer(t, "refused")
            /\ UNCHANGED judgment
    /\ UNCHANGED <<pool, cache, fetch, view, upsets>>

LoseCall(t) ==
    /\ upsets < MaxUpsets
    /\ upsets' = upsets + 1
    /\ call[t].answer \in {"pending", "saved"}
    /\ Answer(t, "lost")
    /\ UNCHANGED <<judgment, pool, cache, fetch, view>>

\* The answer of call c as the caches take it: every workspace that lists the
\* image, whatever its query.
Merge(w, c) ==
    IF w.loaded /\ c.image \in DOMAIN w.of
    THEN Workspace([w.of EXCEPT ![c.image] =
            IF c.kind = "clear" THEN Unjudged
            ELSE [grade |-> c.grade, revision |-> c.read + 1]])
    ELSE w

\* The call is answered: the caches are brought up to date and the next candidate
\* is shown, the length being that of the pool the call was made from.
TakeAnswer(t) ==
    /\ call[t].answer = "saved"
    /\ LET merged == [q \in Query |-> Merge(cache[t][q], call[t])]
           q == view[t].query
           moved == IF call[t].mounted THEN Moved(view[t].index, 1, call[t].length)
                                       ELSE view[t].index
       IN  /\ cache' = [cache EXCEPT ![t] = merged]
           /\ view' = [view EXCEPT ![t].index = Settled(Shown(t), merged[q], moved)]
    /\ call' = [call EXCEPT ![t] = NoCall]
    /\ UNCHANGED <<judgment, pool, fetch, upsets>>

\* A failed call only shows an alert.
TakeFailure(t) ==
    /\ call[t].answer \in {"refused", "lost"}
    /\ call' = [call EXCEPT ![t] = NoCall]
    /\ UNCHANGED <<judgment, pool, cache, fetch, view, upsets>>

Next ==
    \E t \in Tab :
        \/ Move(t)
        \/ OpenQuery(t)
        \/ StartLoad(t)
        \/ EndLoad(t)
        \/ AddCandidate(t)
        \/ GradeActive(t)
        \/ ClearGrade(t)
        \/ SkipUnjudged(t)
        \/ MoveOn(t)
        \/ ReadRow(t)
        \/ WriteRow(t)
        \/ LoseCall(t)
        \/ TakeAnswer(t)
        \/ TakeFailure(t)

Spec == Init /\ [][Next]_vars

\* The one who grades goes on: a grade for what has none, the next key otherwise.
KeepGrading(t) ==
    \/ MoveOn(t)
    \/ GradeActive(t) /\ \E i \in Active(t) : Shown(t).of[i].grade = NoGrade

\* Calls are answered or fail, loads end, the window gets the focus again and
\* again, and the one who grades does not stop.
Fairness ==
    \A t \in Tab :
        /\ WF_vars(KeepGrading(t))
        /\ WF_vars(ReadRow(t) \/ WriteRow(t) \/ LoseCall(t))
        /\ WF_vars(TakeAnswer(t) \/ TakeFailure(t))
        /\ WF_vars(StartLoad(t))
        /\ WF_vars(EndLoad(t))

FairSpec == Spec /\ Fairness

----------------------------------------------------------------------------
Loaded == [loaded : {TRUE}, of : UNION {[S -> Judgment] : S \in SUBSET Image}]
Call == [answer : {"pending", "read", "saved", "refused", "lost"}, kind : {"grade", "clear"},
         query : Query, image : Image, grade : Grade \cup {NoGrade},
         revision : 0..MaxRevision, seen : Grade \cup {NoGrade}, read : 0..MaxRevision,
         length : 1..ImageCount, mounted : BOOLEAN]

\* Every variable keeps its type; a tab shows a place of the pool.
TypeOK ==
    /\ judgment \in [Query \X Image -> Judgment]
    /\ pool \in [Query -> SUBSET Image]
    /\ cache \in [Tab -> [Query -> Loaded \cup {NotLoaded}]]
    /\ fetch \in [Tab -> Loaded \cup {NoFetch}]
    /\ view \in [Tab -> [query : Query, index : 1..ImageCount]]
    /\ call \in [Tab -> Call \cup {NoCall}]
    /\ upsets \in 0..MaxUpsets

\* The write of tab t on key k happens in this step.
Writes(t, k) ==
    /\ call[t].answer = "read"
    /\ call'[t].answer = "saved"
    /\ k = <<call[t].query, call[t].image>>

\* A tab that showed a candidate as unjudged never replaces a grade, however two
\* transactions interleave (save_judgment): the second of two first grades is
\* refused.
FirstGradeKept ==
    [][\A k \in Query \X Image :
         judgment[k].grade # NoGrade /\ judgment'[k] # judgment[k]
             => \E t \in Tab : Writes(t, k) /\ call[t].seen # NoGrade]_vars

\* Somebody who goes on grading finishes the pool on the page: lost calls, false
\* conflicts, stale loads and the jumps of the effect that looks for the first
\* unjudged candidate do not make the page pass one by for ever.  A page that shows
\* no candidate at all, as it does for an empty pool, is left out.
PoolFinished ==
    \A t \in Tab :
        \/ <>[](\A i \in pool[view[t].query] : judgment[<<view[t].query, i>>].grade # NoGrade)
        \/ []<>(Active(t) = {})

============================================================================

----------------------------- MODULE SourceForm -----------------------------
(***************************************************************************)
(* The settings of sources (external origins that are polled for images)   *)
(* and the pages that change them: a sheet with all settings of a source,  *)
(* a button that enables or disables it and one that deletes it.  The page *)
(* of a source is read again at an interval, and every answer that differs *)
(* from the cached record seeds an open sheet again.                       *)
(***************************************************************************)
EXTENDS Integers, FiniteSets

CONSTANTS
    Tab,
    Id,         \* sources that can be created
    FirstId,    \* the one that exists at first
    FirstScore, \* its minimum score
    Score,      \* minimum scores an admin enters
    Default,    \* the minimum score of a source without one
    Plan,       \* its subreddits, with the score the settings of the adapter; schedule,
                \* data set and size are columns like "enabled", and left out
    None,
    MaxCalls,   \* bound: saves, toggles and deletions
    MaxRuns,    \* bound: runs recorded for a source
    MaxFaults   \* bound: lost calls and reads

VARIABLES
    source,  \* the records of the database
    page,    \* per tab: the source shown, or None for the list
    cache,   \* per tab: the records read so far
    read,    \* per tab: the answer of a read of the shown page on its way
    sheet,   \* per tab: the sheet with its values
    call,    \* per tab: the calls that change a source
    calls,   \* calls made so far
    faults   \* calls and reads lost so far

vars == <<source, page, cache, read, sheet, call, calls, faults>>

----------------------------------------------------------------------------
Settings == [score : Score \cup {None}, plan : Plan, enabled : BOOLEAN]
Record == [set : Settings, live : BOOLEAN, version : 0..MaxCalls, runs : 0..MaxRuns]

ASSUME SourceAssumption ==
    /\ FirstId \in Id
    /\ {FirstScore, Default} \subseteq Score
    /\ None \notin Score \cup Plan \cup Id \cup Record
    /\ Plan # {}
    /\ {MaxCalls, MaxRuns, MaxFaults} \subseteq Nat

\* What the adapter takes for the minimum score.
Effective(score) == IF score = None THEN Default ELSE score

\* The values of the sheet.  A source to be created has no subreddits at first.
FormOf(r) == [r.set EXCEPT !.score = Effective(@)]
EmptyForm == [score |-> Default, plan |-> None, enabled |-> TRUE]
Form == [score : Score, plan : Plan \cup {None}, enabled : BOOLEAN]

\* (mutant) A form without subreddits can be sent.
AnyValid(values) == TRUE

Valid(values) == values.plan # None

Closed == [open |-> FALSE]
Open(values, touched) == [open |-> TRUE, values |-> values, touched |-> touched]

NoRead == [running |-> FALSE]
Reading(answer) == [running |-> TRUE, answer |-> answer]

Kind == {"save", "toggle", "remove"}
Idle == [state |-> "idle"]
Sent(id, set) == [state |-> "sent", id |-> id, set |-> set, mounted |-> TRUE]
Found(c, was) ==
    [state |-> "found", id |-> c.id, set |-> c.set, was |-> was, mounted |-> c.mounted]

Exists(id) == id \in Id /\ source[id] # None
Live(id) == Exists(id) /\ source[id].live

\* A read of a source that is not there or deleted is answered with 404.
Answer(p, now) == IF p \in Id /\ now[p] # None /\ now[p].live THEN now[p] ELSE None

Init ==
    /\ \E p \in Plan :
          source = [id \in Id |->
              IF id = FirstId
              THEN [set |-> [score |-> FirstScore, plan |-> p, enabled |-> TRUE],
                    live |-> TRUE, version |-> 0, runs |-> 0]
              ELSE None]
    /\ page = [t \in Tab |-> None]
    /\ cache = [t \in Tab |-> [id \in Id |-> None]]
    /\ read = [t \in Tab |-> NoRead]
    /\ sheet = [t \in Tab |-> Closed]
    /\ call = [t \in Tab |-> [k \in Kind |-> Idle]]
    /\ calls = 0
    /\ faults = 0

----------------------------------------------------------------------------
\* A page that is left does not wait for its calls; their answers still invalidate.
Unmounted(calls_) ==
    [k \in Kind |->
        CASE calls_[k].state = "settling" -> Idle
          [] calls_[k].state \in {"sent", "found", "done"} -> [calls_[k] EXCEPT !.mounted = FALSE]
          [] OTHER -> calls_[k]]

\* From the list to a source, which is read before it is shown.
OpenPage(t) ==
    /\ page[t] = None
    /\ ~sheet[t].open
    /\ \E id \in Id :
          /\ Exists(id)
          /\ page' = [page EXCEPT ![t] = id]
          /\ read' = [read EXCEPT ![t] = Reading(Answer(id, source))]
    /\ call' = [call EXCEPT ![t] = Unmounted(@)]
    /\ UNCHANGED <<source, cache, sheet, calls, faults>>

BackToList(t) ==
    /\ page[t] # None
    /\ ~sheet[t].open
    /\ page' = [page EXCEPT ![t] = None]
    /\ read' = [read EXCEPT ![t] = NoRead]
    /\ call' = [call EXCEPT ![t] = Unmounted(@)]
    /\ UNCHANGED <<source, cache, sheet, calls, faults>>

\* The page shows a record: its buttons are there.
Shows(t) == page[t] \in Id /\ cache[t][page[t]] # None
Shown(t) == cache[t][page[t]]

Seed(t) == IF page[t] = None THEN EmptyForm ELSE FormOf(Shown(t))

OpenSheet(t) ==
    /\ ~sheet[t].open
    /\ page[t] = None \/ Shows(t)
    /\ sheet' = [sheet EXCEPT ![t] = Open(Seed(t), FALSE)]
    /\ UNCHANGED <<source, page, cache, read, call, calls, faults>>

Edit(t) ==
    /\ sheet[t].open
    /\ \E values \in {[sheet[t].values EXCEPT !.score = s] : s \in Score}
                     \cup {[sheet[t].values EXCEPT !.plan = p] : p \in Plan}
                     \cup {[sheet[t].values EXCEPT !.enabled = ~@]} :
          /\ values # sheet[t].values
          /\ sheet' = [sheet EXCEPT ![t] = Open(values, TRUE)]
    /\ UNCHANGED <<source, page, cache, read, call, calls, faults>>

\* Cancel, which is enabled during a save too.
CloseSheet(t) ==
    /\ sheet[t].open
    /\ sheet' = [sheet EXCEPT ![t] = Closed]
    /\ UNCHANGED <<source, page, cache, read, call, calls, faults>>

----------------------------------------------------------------------------
\* A press of a button that is enabled, which it is unless its call is on the way.
Send(t, k, set) ==
    /\ call[t][k] = Idle
    /\ calls < MaxCalls
    /\ calls' = calls + 1
    /\ call' = [call EXCEPT ![t][k] = Sent(page[t], set)]
    /\ UNCHANGED <<source, page, cache, read, sheet, faults>>

Submit(t) ==
    /\ sheet[t].open
    /\ Valid(sheet[t].values)
    /\ Send(t, "save", sheet[t].values)

\* The button sends the settings it knows with "enabled" flipped; of the adapter's
\* settings it sends the subreddits only.
Toggle(t) ==
    /\ Shows(t)
    /\ ~sheet[t].open
    /\ Send(t, "toggle", [Shown(t).set EXCEPT !.score = None, !.enabled = ~@])

Remove(t) ==
    /\ Shows(t)
    /\ ~sheet[t].open
    /\ Send(t, "remove", None)

Done(t, k, id, version) ==
    call' = [call EXCEPT ![t][k] =
                [state |-> "done", id |-> id, version |-> version, mounted |-> @.mounted]]
Refused(t, k) == call' = [call EXCEPT ![t][k] = [state |-> "failed"]]

\* A new source: its name is free unless the one before it is live.
ServeCreate(t) ==
    LET c == call[t].save
    IN  /\ c.state = "sent"
        /\ c.id = None
        /\ \/ \E id \in Id :
                 /\ ~Exists(id)
                 /\ \A other \in Id : ~Live(other)
                 /\ source' = [source EXCEPT ![id] =
                       [set |-> c.set, live |-> TRUE, version |-> 0, runs |-> 0]]
                 /\ Done(t, "save", id, 0)
           \/ /\ \E other \in Id : Live(other)
              /\ Refused(t, "save")
              /\ UNCHANGED source
        /\ UNCHANGED <<page, cache, read, sheet, calls, faults>>

\* A patch or deletion reads its source, which must be live.  The row is not locked:
\* it is written in a later statement of the same transaction.
Find(t, k) ==
    LET c == call[t][k]
    IN  /\ c.state = "sent"
        /\ c.id # None
        /\ IF Live(c.id) THEN call' = [call EXCEPT ![t][k] = Found(c, source[c.id].set)]
                         ELSE Refused(t, k)
        /\ UNCHANGED <<source, page, cache, read, sheet, calls, faults>>

\* The settings now, when a patch that has found "was" sets them: only the columns that
\* it changes are written, of which the settings of the adapter are one.
Merged(now, was, set) ==
    LET adapter == IF set.score # was.score \/ set.plan # was.plan THEN set ELSE now
    IN  [score |-> adapter.score, plan |-> adapter.plan,
         enabled |-> IF set.enabled # was.enabled THEN set.enabled ELSE now.enabled]

\* (mutant) The whole row is written as it was found.
WrittenWhole(r, was, set) == [r EXCEPT !.set = set, !.live = TRUE, !.version = @ + 1]

\* The row after a patch.
Written(r, was, set) ==
    [r EXCEPT !.set = Merged(@, was, set), !.version = IF set = was THEN @ ELSE @ + 1]

ServePatch(t, k) ==
    LET c == call[t][k]
    IN  /\ c.state = "found"
        /\ k \in {"save", "toggle"}
        /\ source' = [source EXCEPT ![c.id] = Written(@, c.was, c.set)]
        /\ Done(t, k, c.id, source'[c.id].version)
        /\ UNCHANGED <<page, cache, read, sheet, calls, faults>>

\* The deletion is answered without content, which callAdmin takes for an error if the
\* client library gives no data for it: the tab may learn of a failure.
ServeRemove(t) ==
    LET c == call[t].remove
    IN  /\ c.state = "found"
        /\ source' = [source EXCEPT ![c.id].live = FALSE]
        /\ Done(t, "remove", c.id, 0) \/ Refused(t, "remove")
        /\ UNCHANGED <<page, cache, read, sheet, calls, faults>>

\* A call fails on its way, before it is served.  (A lost answer of a served call is
\* told from this one by the record only.)
Lose(t, k) ==
    /\ call[t][k].state \in {"sent", "found", "done"}
    /\ faults < MaxFaults
    /\ faults' = faults + 1
    /\ Refused(t, k)
    /\ UNCHANGED <<source, page, cache, read, sheet, calls>>

\* A run of the source is recorded, started by its schedule or by "run now": its page
\* shows the run and the counts.
RecordRun(id) ==
    /\ Exists(id)
    /\ source[id].runs < MaxRuns
    /\ source' = [source EXCEPT ![id].runs = @ + 1]
    /\ UNCHANGED <<page, cache, read, sheet, call, calls, faults>>

----------------------------------------------------------------------------
TakeFailure(t, k) ==
    /\ call[t][k].state = "failed"
    /\ call' = [call EXCEPT ![t][k] = Idle]
    /\ UNCHANGED <<source, page, cache, read, sheet, calls, faults>>

\* (mutant) A read that is running already is waited for.
Joined(t) == IF read[t].running THEN read[t] ELSE Reading(Answer(page[t], source))

\* Something is mounted that reads again: not on the error page that is shown when the
\* first read of a source has failed or found none.
Rereads(t) == page[t] = None \/ Shows(t)

\* What a tab has read is invalid: a running read is given up for a new one.
Invalidated(t) == IF Rereads(t) THEN Reading(Answer(page[t], source)) ELSE read[t]

\* After a save the sheet stays open until the read ends that follows it.
TakeAnswer(t, k) ==
    /\ k \in {"save", "toggle"}
    /\ call[t][k].state = "done"
    /\ read' = [read EXCEPT ![t] = Invalidated(t)]
    /\ call' = [call EXCEPT ![t][k] =
                   IF k = "save" /\ @.mounted /\ Rereads(t)
                   THEN [@ EXCEPT !.state = "settling"] ELSE Idle]
    /\ UNCHANGED <<source, page, cache, sheet, calls, faults>>

\* After a deletion the tab goes to the list, from wherever it is.
TakeRemoval(t) ==
    /\ call[t].remove.state = "done"
    /\ page' = [page EXCEPT ![t] = None]
    /\ read' = [read EXCEPT ![t] = IF page[t] = None THEN @ ELSE NoRead]
    /\ sheet' = [sheet EXCEPT ![t] = IF page[t] = None THEN @ ELSE Closed]
    /\ call' = [call EXCEPT ![t] =
                   [IF page[t] = None THEN @ ELSE Unmounted(@) EXCEPT !.remove = Idle]]
    /\ UNCHANGED <<source, cache, calls, faults>>

\* (mutant) The page of a source is read once.
StartNoRead(t) ==
    /\ Shows(t)
    /\ ~read[t].running
    /\ UNCHANGED vars

\* The interval of the page ends, or the window gets the focus.  A source that could not
\* be read at first is read again only when it is opened again.
StartRead(t) ==
    /\ Shows(t)
    /\ ~read[t].running
    /\ read' = [read EXCEPT ![t] = Reading(Answer(page[t], source))]
    /\ UNCHANGED <<source, page, cache, sheet, call, calls, faults>>

\* The end of a read, which gives a record or not, ends the wait of a save.
Settle(t, seeded) ==
    IF call[t].save.state = "settling"
    THEN /\ call' = [call EXCEPT ![t].save = Idle]
         /\ sheet' = [sheet EXCEPT ![t] = Closed]
    ELSE /\ sheet' = [sheet EXCEPT ![t] = seeded]
         /\ UNCHANGED call

\* (mutant) The sheet is seeded when it opens only.
SeededOnce(t, record) == sheet[t]

\* A record that differs from the cached one seeds an open sheet again.
Seeded(t, record) ==
    IF sheet[t].open /\ record # cache[t][page[t]] THEN Open(FormOf(record), FALSE) ELSE sheet[t]

EndRead(t) ==
    LET answer == read[t].answer
    IN  /\ read[t].running
        /\ read' = [read EXCEPT ![t] = NoRead]
        /\ IF answer = None
           THEN UNCHANGED cache /\ Settle(t, sheet[t])
           ELSE /\ cache' = [cache EXCEPT ![t][page[t]] = answer]
                /\ Settle(t, Seeded(t, answer))
        /\ UNCHANGED <<source, page, calls, faults>>

FailRead(t) ==
    /\ read[t].running
    /\ faults < MaxFaults
    /\ faults' = faults + 1
    /\ read' = [read EXCEPT ![t] = NoRead]
    /\ Settle(t, sheet[t])
    /\ UNCHANGED <<source, page, cache, calls>>

----------------------------------------------------------------------------
Next ==
    \/ \E t \in Tab :
          \/ OpenPage(t)
          \/ BackToList(t)
          \/ OpenSheet(t)
          \/ Edit(t)
          \/ CloseSheet(t)
          \/ Submit(t)
          \/ Toggle(t)
          \/ Remove(t)
          \/ ServeCreate(t)
          \/ ServeRemove(t)
          \/ TakeRemoval(t)
          \/ StartRead(t)
          \/ EndRead(t)
          \/ FailRead(t)
          \/ \E k \in Kind :
                \/ Find(t, k)
                \/ ServePatch(t, k)
                \/ Lose(t, k)
                \/ TakeFailure(t, k)
                \/ TakeAnswer(t, k)
    \/ \E id \in Id : RecordRun(id)

Spec == Init /\ [][Next]_vars

\* Calls are served or lost, their answers taken; a page reads at its interval and its
\* reads end.  Admins need not do anything.
Fairness ==
    \A t \in Tab :
        /\ WF_vars(StartRead(t))
        /\ WF_vars(EndRead(t))
        /\ WF_vars(TakeRemoval(t))
        /\ WF_vars(ServeCreate(t))
        /\ WF_vars(ServeRemove(t))
        /\ \A k \in Kind :
              /\ WF_vars(Find(t, k))
              /\ WF_vars(ServePatch(t, k))
              /\ WF_vars(TakeFailure(t, k))
              /\ WF_vars(TakeAnswer(t, k))

FairSpec == Spec /\ Fairness

----------------------------------------------------------------------------
\* Every variable keeps its type.
TypeOK ==
    /\ source \in [Id -> Record \cup {None}]
    /\ page \in [Tab -> Id \cup {None}]
    /\ cache \in [Tab -> [Id -> Record \cup {None}]]
    /\ \A t \in Tab : read[t].running => read[t].answer \in Record \cup {None}
    /\ \A t \in Tab : sheet[t].open => sheet[t].values \in Form
    /\ \A t \in Tab, k \in Kind :
          call[t][k].state \in {"idle", "sent", "found", "done", "failed", "settling"}
    /\ calls \in 0..MaxCalls
    /\ faults \in 0..MaxFaults

\* Until the admin changes something, the open sheet of a source has the settings of
\* the record that the page shows, however often that changes in the meantime.
UntouchedSheetIsLatest ==
    \A t \in Tab :
        sheet[t].open /\ ~sheet[t].touched /\ page[t] # None =>
            Shows(t) /\ sheet[t].values = FormOf(Shown(t))

\* The sheet closes on a save whose source could be read again only when the page shows
\* a record that has the save: no read that was on its way before is shown as the
\* result.
SaveIsShown ==
    [][\A t \in Tab :
          /\ call[t].save.state = "settling"
          /\ call'[t].save = Idle
          /\ page[t] = call[t].save.id
          /\ cache'[t] # cache[t]
          => cache'[t][page[t]].version >= call[t].save.version]_vars

\* A patch or deletion has found the source live and has yet to write it.
Awaited(id) == \E t \in Tab, k \in Kind : call[t][k].state = "found" /\ call[t][k].id = id

\* A deletion is final ("This cannot be undone from the UI"): a deleted source never
\* becomes live again, and once the calls that had found it live have ended it keeps its
\* settings for good, whatever a tab that still shows it sends.  The row is read and
\* written unlocked, so a call that found it live may write after the deletion.
DeletedStaysDeleted ==
    [][\A id \in Id :
          Exists(id) /\ ~source[id].live =>
              /\ Exists(id)' /\ ~source'[id].live
              /\ ~Awaited(id) => ~Awaited(id)' /\ source'[id].set = source[id].set]_vars

\* A page that stays open and could read its source at first comes to show its live
\* record, and keeps on doing so, whatever read fails later.
PageCatchesUp ==
    \A t \in Tab, id \in Id :
        <>[](page[t] = id /\ Live(id) /\ Shows(t))
            => <>[](page[t] = id /\ cache[t][id] = source[id])

\* "disabled sources keep their config and dedup memory but stop acquiring."
\* (source-form-sheet.tsx): the button that disables a source leaves the minimum score
\* it had.
DisablingKeepsScore ==
    [][\A t \in Tab :
          ServePatch(t, "toggle") =>
              \A id \in Id : Exists(id) =>
                  Effective(source'[id].set.score) = Effective(source[id].set.score)]_vars
=============================================================================

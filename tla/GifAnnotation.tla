--------------------------- MODULE GifAnnotation ---------------------------
(***************************************************************************)
(* The GIF annotation page: several tabs of one browser edit the documents *)
(* of a list of GIFs.  A document is saved by a call that carries the      *)
(* revision the tab believes the row has; what is typed is also kept in    *)
(* local storage, which the tabs share; the answer of a save is applied to *)
(* whatever the tab shows when it comes.                                   *)
(*                                                                         *)
(* A document is known by the edit that produced it, 0 for what the page   *)
(* offers before anything is typed (nothing, or the suggestion of a        *)
(* model).  GIFs are their positions in the list.                          *)
(***************************************************************************)
EXTENDS Naturals, FiniteSets

CONSTANTS
    Tab,
    GifCount,    \* length of the dataset
    Path,        \* bound: the GIFs each tab is taken to by hand
    Verdict,     \* bound: how each tab submits, as complete, as skipped or both
    MaxEdits,    \* bound: times something is typed
    MaxSaves,    \* bound: the revision each row may reach
    MaxUpsets    \* bound: requests or answers lost, reloads and refetches, together

Gif == 1..GifCount

ASSUME GifAssumption ==
    /\ GifCount \in Nat \ {0}
    /\ MaxEdits \in Nat
    /\ MaxSaves \in [Gif -> Nat]
    /\ Path \in [Tab -> SUBSET Gif]
    /\ Verdict \in [Tab -> SUBSET {"complete", "skipped"}]
    /\ MaxUpsets \in Nat

VARIABLES
    rows,      \* the database: document, status, revision of each GIF
    fallback,  \* local storage: document and status kept for each GIF
    cache,     \* per tab: the rows as the query cache has them
    fetch,     \* per tab: the answer of a refetch on its way
    view,      \* per tab: what the page shows
    save,      \* per tab: the save in flight
    edits,     \* edits made so far
    upsets,    \* requests or answers lost, reloads and refetches so far
    keeper,    \* history: the tab that last wrote or removed each local copy
    typed      \* history, per tab: what was last typed on the page since it was loaded
               \* and is not stored, and whether an older save was answered since

vars == <<rows, fallback, cache, fetch, view, save, edits, upsets, keeper, typed>>

----------------------------------------------------------------------------
Status == {"draft", "complete", "skipped"}
Document == 0..MaxEdits
Untouched == 0
Row == [doc : Document, status : Status, revision : Nat]
Absent == [doc |-> Untouched, status |-> "draft", revision |-> 0]

Nobody == "nobody"
None == [kept |-> FALSE]
Kept(d, s) == [kept |-> TRUE, doc |-> d, status |-> s]
NoFetch == << >>

NoSave == [answer |-> "idle"]
NothingTyped == [doc |-> Untouched, overtaken |-> FALSE]
InFlight(t) == save[t] # NoSave

\* The page after GIF g is loaded into it from the row r and the local copy k:
\* the copy wins over the document of the row, never over its revision.
Loaded(g, r, k) ==
    [gif |-> g,
     form |-> IF k.kept THEN k.doc ELSE r.doc,
     isDirty |-> FALSE,
     status |-> IF k.kept THEN k.status ELSE r.status,
     revision |-> r.revision,
     saveState |-> IF k.kept THEN "dirty" ELSE "idle"]

FirstDraft(c) ==
    IF \E g \in Gif : c[g].status = "draft"
    THEN CHOOSE g \in Gif : /\ c[g].status = "draft"
                            /\ \A h \in 1..(g - 1) : c[h].status # "draft"
    ELSE 1

\* The effect that copies a page v into local storage under the key of the GIF
\* that is now shown.  It uses the form and the status of the render, which on
\* a navigation are still those of the GIF that was left.
Mirror(t, g, v) ==
    IF v.isDirty
    THEN /\ fallback' = [fallback EXCEPT ![g] = Kept(v.form, v.status)]
         /\ keeper' = [keeper EXCEPT ![g] = t]
    ELSE UNCHANGED <<fallback, keeper>>

\* (mutant) A change of the page does not mark the save in flight.
TouchNothing(t) == save

\* A change of the page since the save in flight was sent.
Touch(t) ==
    IF InFlight(t) THEN [save EXCEPT ![t].touched = TRUE] ELSE save

Init ==
    /\ rows = [g \in Gif |-> Absent]
    /\ fallback = [g \in Gif |-> None]
    /\ cache = [t \in Tab |-> rows]
    /\ fetch = [t \in Tab |-> NoFetch]
    /\ view \in {[t \in Tab |-> Loaded(at[t], Absent, None)] :
                   at \in {f \in [Tab -> Gif] : \A t \in Tab : f[t] \in Path[t]}}
    /\ save = [t \in Tab |-> NoSave]
    /\ edits = 0
    /\ upsets = 0
    /\ keeper = [g \in Gif |-> Nobody]
    /\ typed = [t \in Tab |-> NothingTyped]

----------------------------------------------------------------------------
\* The page v after edit number n.
Edited(v, n) == [v EXCEPT !.form = n, !.isDirty = TRUE, !.saveState = "dirty"]

\* Something is typed into a field, or an entry of a list is added or removed.
\* Every field stays enabled during a save.
Type(t) ==
    /\ edits < MaxEdits
    /\ edits' = edits + 1
    /\ view' = [view EXCEPT ![t] = Edited(@, edits + 1)]
    /\ Mirror(t, view[t].gif, Edited(view[t], edits + 1))
    /\ save' = Touch(t)
    /\ typed' = [typed EXCEPT ![t] = [doc |-> edits + 1, overtaken |-> FALSE]]
    /\ UNCHANGED <<rows, cache, fetch, upsets>>

\* The next draft after GIF g or, if there is none, the first one before it.
NextPending(g, c) ==
    LET drafts == {h \in Gif : c[h].status = "draft"}
        after == {h \in drafts : h > g}
        candidates == IF after # {} THEN after ELSE {h \in drafts : h < g}
    IN  {h \in candidates : \A k \in candidates : h <= k}

\* The buttons: previous and next in the list, and next pending.
Reachable(t) ==
    ({view[t].gif - 1, view[t].gif + 1} \cap Gif) \cup NextPending(view[t].gif, cache[t])

Navigate(t) ==
    /\ \E g \in Reachable(t) \cap Path[t] :
          /\ view' = [view EXCEPT ![t] = Loaded(g, cache[t][g], fallback[g])]
          /\ Mirror(t, g, view[t])
    /\ save' = Touch(t)
    /\ typed' = [typed EXCEPT ![t] = NothingTyped]
    /\ UNCHANGED <<rows, cache, fetch, edits, upsets>>

\* The page is loaded again: the rows are read, the local copies are not lost,
\* a save whose request has not arrived is given up.  The address names the
\* GIF; without one the first draft is shown.
Reload(t) ==
    /\ upsets < MaxUpsets
    /\ upsets' = upsets + 1
    /\ cache' = [cache EXCEPT ![t] = rows]
    /\ \E g \in {view[t].gif} \cup ({FirstDraft(rows)} \cap Path[t]) :
          view' = [view EXCEPT ![t] = Loaded(g, rows[g], fallback[g])]
    /\ save' = [save EXCEPT ![t] = NoSave]
    /\ fetch' = [fetch EXCEPT ![t] = NoFetch]
    /\ typed' = [typed EXCEPT ![t] = NothingTyped]
    /\ UNCHANGED <<rows, fallback, edits, keeper>>

\* The list is fetched again, for instance when the window gets the focus; the
\* answer replaces the cache and leaves the page alone.
StartRefetch(t) ==
    /\ fetch[t] = NoFetch
    /\ upsets < MaxUpsets
    /\ fetch' = [fetch EXCEPT ![t] = rows]
    /\ upsets' = upsets + 1
    /\ UNCHANGED <<rows, fallback, cache, view, save, edits, keeper, typed>>

EndRefetch(t) ==
    /\ fetch[t] # NoFetch
    /\ cache' = [cache EXCEPT ![t] = fetch[t]]
    /\ fetch' = [fetch EXCEPT ![t] = NoFetch]
    /\ UNCHANGED <<rows, fallback, view, save, edits, upsets, keeper, typed>>

----------------------------------------------------------------------------
\* The request of a save: the document and revision of the page under the key
\* of the GIF shown.  "next" is where the page goes when it is answered.
Request(v, s, next) ==
    [answer |-> "pending", gif |-> v.gif, doc |-> v.form, status |-> s,
     revision |-> v.revision, touched |-> FALSE, next |-> next]

\* (mutant) The end of the list is not looked at.
AfterUnchecked(v, s) == IF s = "complete" THEN v.gif + 1 ELSE 0

\* Where the page goes after a submission is answered, 0 for nowhere.
After(v, s) == IF s = "complete" /\ v.gif + 1 \in Gif THEN v.gif + 1 ELSE 0

\* The submit and skip buttons are enabled.
CanSubmit(t) == view[t].saveState # "saving"

\* Submit or skip.  While a save is in flight the call is not made again: the
\* submission shares the outcome of the one in flight.
Submit(t) ==
    /\ CanSubmit(t)
    /\ view[t].revision < MaxSaves[view[t].gif]
    /\ \E s \in Verdict[t] :
          LET v == view[t] IN
          /\ \/ /\ ~InFlight(t)
                /\ save' = [save EXCEPT ![t] = Request(v, s, After(v, s))]
                /\ view' = [view EXCEPT ![t].status = s, ![t].saveState = "saving"]
             \/ /\ InFlight(t)
                /\ save' = [save EXCEPT ![t].touched = TRUE,
                                        ![t].next = IF After(v, s) # 0 THEN After(v, s) ELSE @]
                /\ view' = [view EXCEPT ![t].status = s, ![t].saveState = "dirty"]
          /\ Mirror(t, v.gif, [v EXCEPT !.status = s])
    /\ UNCHANGED <<rows, cache, fetch, edits, upsets, typed>>

\* The indicator offers to retry.
CanRetry(t) == view[t].saveState = "error"

\* (mutant) The local copy is removed when the save is sent.
RetryForgets(t) ==
    /\ CanRetry(t)
    /\ view[t].revision < MaxSaves[view[t].gif]
    /\ save' = [save EXCEPT ![t] = Request(view[t], view[t].status, 0)]
    /\ view' = [view EXCEPT ![t].saveState = "saving"]
    /\ fallback' = [fallback EXCEPT ![view[t].gif] = None]
    /\ keeper' = [keeper EXCEPT ![view[t].gif] = t]
    /\ UNCHANGED <<rows, cache, fetch, edits, upsets, typed>>

\* The page is saved again as it is now, under the GIF it shows now.
RetrySave(t) ==
    /\ CanRetry(t)
    /\ view[t].revision < MaxSaves[view[t].gif]
    /\ save' = [save EXCEPT ![t] = Request(view[t], view[t].status, 0)]
    /\ view' = [view EXCEPT ![t].saveState = "saving"]
    /\ UNCHANGED <<rows, fallback, cache, fetch, edits, upsets, keeper, typed>>

----------------------------------------------------------------------------
\* (mutant) The insert replaces a row that is there already.
MatchesUpsert(r) == r.revision = 0 \/ rows[r.gif].revision = r.revision

\* The statement that saves: an insert for revision 0, an update of exactly
\* the revision the request carries otherwise.
Matches(r) == rows[r.gif].revision = r.revision

Store(t) ==
    /\ save[t].answer = "pending"
    /\ Matches(save[t])
    /\ rows' = [rows EXCEPT ![save[t].gif] =
                    [doc |-> save[t].doc, status |-> save[t].status,
                     revision |-> @.revision + 1]]
    /\ save' = [save EXCEPT ![t].answer = "saved"]
    /\ UNCHANGED <<fallback, cache, fetch, view, edits, upsets, keeper, typed>>

\* (mutant) A save that matches no row gets no answer.
ConflictUnanswered(t) ==
    /\ save[t].answer = "pending"
    /\ ~Matches(save[t])
    /\ UNCHANGED vars

\* "Annotation changed in another tab; reload before saving again"
Conflict(t) ==
    /\ save[t].answer = "pending"
    /\ ~Matches(save[t])
    /\ save' = [save EXCEPT ![t].answer = "conflict"]
    /\ UNCHANGED <<rows, fallback, cache, fetch, view, edits, upsets, keeper, typed>>

\* The request or its answer is lost.
Lose(t) ==
    /\ upsets < MaxUpsets
    /\ save[t].answer \in {"pending", "saved"}
    /\ save' = [save EXCEPT ![t].answer = "lost"]
    /\ upsets' = upsets + 1
    /\ UNCHANGED <<rows, fallback, cache, fetch, view, edits, keeper, typed>>

\* (mutant) The answer is merged into the GIF the page goes to.
MergeNext(c, r) ==
    [c EXCEPT ![IF r.next # 0 THEN r.next ELSE r.gif] =
        [doc |-> r.doc, status |-> r.status, revision |-> r.revision + 1]]

\* The rows as the answer of save r leaves them in a cache c.
Merge(c, r) ==
    [c EXCEPT ![r.gif] = [doc |-> r.doc, status |-> r.status, revision |-> r.revision + 1]]

\* The page after the answer of save r: its document and revision, whatever
\* GIF is shown by now.
Settled(v, r) ==
    [v EXCEPT !.form = r.doc, !.isDirty = FALSE, !.revision = r.revision + 1,
              !.saveState = IF r.touched THEN "dirty" ELSE "saved"]

\* The save is answered.  The copy in local storage is removed, with what was typed
\* since the save was sent, and the page moves on when the submission says so.
AnswerSaved(t) ==
    /\ save[t].answer = "saved"
    /\ LET r == save[t]
           removed == [fallback EXCEPT ![r.gif] = None]
           moves == r.next # 0 /\ r.next # view[t].gif
       IN  /\ cache' = [cache EXCEPT ![t] = Merge(@, r)]
           /\ fallback' = removed
           /\ keeper' = [keeper EXCEPT ![r.gif] = t]
           /\ view' = [view EXCEPT ![t] =
                          IF moves
                          THEN Loaded(r.next, Merge(cache[t], r)[r.next], removed[r.next])
                          ELSE Settled(@, r)]
           /\ typed' = [typed EXCEPT ![t] = IF moves \/ @.doc \in {Untouched, r.doc}
                                           THEN NothingTyped
                                           ELSE [@ EXCEPT !.overtaken = TRUE]]
    /\ save' = [save EXCEPT ![t] = NoSave]
    /\ UNCHANGED <<rows, fetch, edits, upsets>>

\* The save failed: the page offers to try again.
AnswerFailed(t) ==
    /\ save[t].answer \in {"conflict", "lost"}
    /\ view' = [view EXCEPT ![t].saveState = "error"]
    /\ save' = [save EXCEPT ![t] = NoSave]
    /\ UNCHANGED <<rows, fallback, cache, fetch, edits, upsets, keeper, typed>>

Next ==
    \E t \in Tab :
        \/ Type(t)
        \/ Navigate(t)
        \/ Reload(t)
        \/ StartRefetch(t)
        \/ EndRefetch(t)
        \/ Submit(t)
        \/ RetrySave(t)
        \/ Store(t)
        \/ Conflict(t)
        \/ Lose(t)
        \/ AnswerSaved(t)
        \/ AnswerFailed(t)

Spec == Init /\ [][Next]_vars

\* The server answers or the connection fails, and the browser runs what waits
\* for the answer.
Fairness ==
    \A t \in Tab :
        /\ WF_vars(Store(t) \/ Conflict(t) \/ Lose(t))
        /\ WF_vars(AnswerSaved(t))
        /\ WF_vars(AnswerFailed(t))

FairSpec == Spec /\ Fairness

----------------------------------------------------------------------------
View == [gif : Gif, form : Document, isDirty : BOOLEAN, status : Status,
         revision : Nat,
         saveState : {"idle", "dirty", "saving", "saved", "error"}]
Save == [answer : {"pending", "saved", "conflict", "lost"}, gif : Gif, doc : Document,
         status : Status, revision : Nat, touched : BOOLEAN, next : 0..GifCount]
Copy == {None} \cup [kept : {TRUE}, doc : Document, status : Status]

\* Every variable keeps its shape, and the spinner of the submit button
\* (gif-annotation-workspace.tsx, saveState) is only shown during a save.
TypeOK ==
    /\ rows \in [Gif -> Row]
    /\ fallback \in [Gif -> Copy]
    /\ cache \in [Tab -> [Gif -> Row]]
    /\ fetch \in [Tab -> {NoFetch} \cup [Gif -> Row]]
    /\ view \in [Tab -> View]
    /\ save \in [Tab -> {NoSave} \cup Save]
    /\ edits \in 0..MaxEdits
    /\ upsets \in 0..MaxUpsets
    /\ keeper \in [Gif -> Tab \cup {Nobody}]
    /\ typed \in [Tab -> [doc : Document, overtaken : BOOLEAN]]

\* "saved" on the page means what it says: as long as nobody has written the row
\* again, the row holds the document the form shows, also when the answer came
\* after edits and navigations (changeVersion in persist).
SavedMeansStored ==
    \A t \in Tab :
        LET v == view[t] IN
        v.saveState = "saved" /\ rows[v.gif].revision = v.revision
            => rows[v.gif].doc = v.form /\ rows[v.gif].status = v.status

\* What was typed last on a page, and is not stored, is in the form and in local
\* storage under the GIF of the page, so that closing the tab loses nothing, while
\* saves are sent, refused, lost and tried again.  Two things take it away: another
\* tab, which has replaced or removed the copy, and the answer of a save that was sent
\* before it was typed, which puts back what was sent (form.reset in persist).
TypedTextIsKept ==
    \A t \in Tab :
        LET g == view[t].gif IN
        typed[t].doc # Untouched /\ ~typed[t].overtaken =>
            /\ view[t].form = typed[t].doc
            /\ fallback[g] = Kept(view[t].form, view[t].status) \/ keeper[g] # t

\* What buildEvalExport takes from the cache of a tab.
Exported(t) == {g \in Gif : cache[t][g].status = "complete" /\ cache[t][g].doc # Untouched}

\* An exported annotation is the stored one, unless the row has moved on: merging
\* the answers of saves into the cache and refetching the list, in any order,
\* never shows a document under a revision that is not its own.
ExportIsStored ==
    \A t \in Tab : \A g \in Exported(t) :
        cache[t][g].revision = rows[g].revision => cache[t][g] = rows[g]

\* The rows and the saves of the tabs are a revisioned register: one of two tabs
\* that save on the same revision is refused, and no save is applied twice.
Value == [doc : Document, status : Status]
Abstract(r) == [value |-> [doc |-> r.doc, status |-> r.status], revision |-> r.revision]
AbstractAnswer == [pending |-> "pending", saved |-> "granted", conflict |-> "refused", lost |-> "lost"]
AbstractCall(r) ==
    IF r = NoSave THEN r
    ELSE [key |-> r.gif, value |-> [doc |-> r.doc, status |-> r.status],
          expected |-> r.revision, answer |-> AbstractAnswer[r.answer]]

Register == INSTANCE RevisionedRegister WITH
    Client <- Tab, Key <- Gif, Blank <- [doc |-> Untouched, status |-> "draft"],
    row <- [g \in Gif |-> Abstract(rows[g])],
    call <- [t \in Tab |-> AbstractCall(save[t])]
RegisterSpec == Register!Spec

\* Every save is answered in the end, whatever is typed or shown meanwhile, and
\* the submit button comes back.
SpinnerStops == \A t \in Tab : view[t].saveState = "saving" ~> view[t].saveState # "saving"

============================================================================

-------------------------- MODULE GifAnnotation_proofs --------------------------
(***************************************************************************)
(* Proofs about GifAnnotation for every set of tabs, list of GIFs and bound:*)
(* its types, what "saved" and the export mean, that typed text is kept,   *)
(* and that rows and saves implement RevisionedRegister.                   *)
(***************************************************************************)
EXTENDS GifAnnotation, TLAPS

\* x is what a row, which now is r, is or was: at most as many revisions and, under
\* the same revision, the same content.
Past(x, r) == x.revision <= r.revision /\ (x.revision = r.revision => x = r)

\* The row a save makes, and the row a page shows.
Made(s) == [doc |-> s.doc, status |-> s.status, revision |-> s.revision + 1]
AsRow(v) == [doc |-> v.form, status |-> v.status, revision |-> v.revision]

\* What tabs have loaded or are loading has been in the database.
CacheSound == \A t \in Tab, g \in Gif : Past(cache[t][g], rows[g])
FetchSound ==
    \A t \in Tab : fetch[t] # NoFetch => \A g \in Gif : Past(fetch[t][g], rows[g])

\* A save that was granted has made its row; a page that has not changed since its
\* save was sent shows the GIF and the status of the save; nothing is in flight where
\* the page offers to retry.
SaveSound ==
    \A t \in Tab :
        /\ save[t].answer = "saved" => Past(Made(save[t]), rows[save[t].gif])
        /\ InFlight(t) /\ ~save[t].touched =>
              view[t].gif = save[t].gif /\ view[t].status = save[t].status
        /\ CanRetry(t) => ~InFlight(t)

\* What a page calls saved has been in the database.
ViewSound ==
    \A t \in Tab : view[t].saveState = "saved" => Past(AsRow(view[t]), rows[view[t].gif])

\* What was typed on page t last is neither stored nor overtaken by an answer; then the
\* page is dirty, so that every change of it is copied.
Owed(t) == typed[t].doc # Untouched /\ ~typed[t].overtaken
OwedIsDirty == \A t \in Tab : Owed(t) => view[t].isDirty

IInv ==
    /\ TypeOK /\ CacheSound /\ FetchSound /\ SaveSound /\ ViewSound
    /\ OwedIsDirty /\ TypedTextIsKept

----------------------------------------------------------------------------
LEMMA LoadedType ==
    ASSUME NEW g \in Gif, NEW r \in Row, NEW k \in Copy
    PROVE  Loaded(g, r, k) \in View
<1>1. CASE k = None
  BY <1>1 DEF Loaded, View, Row, None
<1>2. CASE k \in [kept : {TRUE}, doc : Document, status : Status]
  BY <1>2 DEF Loaded, View, Row
<1> QED BY <1>1, <1>2 DEF Copy

LEMMA InitIInv == Init => IInv
<1> SUFFICES ASSUME Init PROVE IInv
  OBVIOUS
<1> USE GifAssumption
<1>1. Absent \in Row /\ None \in Copy
  BY DEF Absent, Row, None, Copy, Document, Untouched, Status
<1>2. PICK at \in [Tab -> Gif] : view = [t \in Tab |-> Loaded(at[t], Absent, None)]
  BY DEF Init
<1>3. view \in [Tab -> View]
  BY <1>1, <1>2, LoadedType
<1>4. \A t \in Tab : view[t].saveState = "idle" /\ ~view[t].isDirty
  BY <1>2 DEF Loaded, None
<1>5. TypeOK
  BY <1>1, <1>3 DEF Init, TypeOK, NothingTyped, Document, Untouched
<1>6. CacheSound /\ FetchSound
  BY <1>1 DEF Init, CacheSound, FetchSound, Past, Row
<1>7. SaveSound
  BY <1>4 DEF Init, SaveSound, InFlight, NoSave, CanRetry
<1>8. ViewSound /\ OwedIsDirty /\ TypedTextIsKept
  BY <1>4 DEF Init, ViewSound, OwedIsDirty, Owed, TypedTextIsKept, NothingTyped
<1> QED BY <1>5, <1>6, <1>7, <1>8 DEF IInv

----------------------------------------------------------------------------
\* Types.
LEMMA InFlightType ==
    ASSUME TypeOK, NEW t \in Tab
    PROVE  /\ InFlight(t) => save[t] \in Save
           /\ ~InFlight(t) => save[t].answer = "idle"
BY DEF TypeOK, InFlight, NoSave

LEMMA AfterType ==
    ASSUME NEW v \in View, NEW s \in Status
    PROVE  After(v, s) \in 0..GifCount
BY GifAssumption DEF After, View, Gif

LEMMA RequestType ==
    ASSUME NEW v \in View, NEW s \in Status, NEW n \in 0..GifCount
    PROVE  Request(v, s, n) \in Save
BY DEF Request, View, Save

LEMMA TouchType ==
    ASSUME TypeOK, NEW t \in Tab
    PROVE  Touch(t) \in [Tab -> {NoSave} \cup Save]
<1>1. CASE InFlight(t)
  <2>1. save[t] \in Save
    BY <1>1, InFlightType
  <2>2. [save[t] EXCEPT !.touched = TRUE] \in Save
    BY <2>1 DEF Save
  <2> QED BY <1>1, <2>2 DEF Touch, TypeOK
<1>2. CASE ~InFlight(t)
  BY <1>2 DEF Touch, TypeOK
<1> QED BY <1>1, <1>2

LEMMA MirrorType ==
    ASSUME TypeOK, NEW t \in Tab, NEW g \in Gif, NEW v \in View, Mirror(t, g, v)
    PROVE  fallback' \in [Gif -> Copy] /\ keeper' \in [Gif -> Tab \cup {Nobody}]
<1>1. Kept(v.form, v.status) \in Copy
  BY DEF Kept, Copy, View
<1> QED BY <1>1 DEF Mirror, TypeOK

LEMMA MergeType ==
    ASSUME NEW c \in [Gif -> Row], NEW r \in Save
    PROVE  Merge(c, r) \in [Gif -> Row]
<1>1. [doc |-> r.doc, status |-> r.status, revision |-> r.revision + 1] \in Row
  BY DEF Save, Row
<1> QED BY <1>1 DEF Merge

LEMMA SettledType ==
    ASSUME NEW v \in View, NEW r \in Save
    PROVE  Settled(v, r) \in View
<1>1. ASSUME NEW d \in Document, NEW n \in Nat, NEW w \in {"dirty", "saved"}
      PROVE  [v EXCEPT !.form = d, !.isDirty = FALSE, !.revision = n, !.saveState = w] \in View
  BY DEF View
<1>2. r.doc \in Document /\ r.revision + 1 \in Nat
  BY DEF Save
<1> QED BY <1>1, <1>2 DEF Settled

\* What a step does to what was typed on its page.
LEMMA TypedOfStep ==
    ASSUME TypeOK, NEW t \in Tab,
           \/ Type(t) \/ Navigate(t) \/ Reload(t) \/ StartRefetch(t) \/ EndRefetch(t) \/ Submit(t)
           \/ RetrySave(t) \/ Store(t) \/ Conflict(t) \/ Lose(t) \/ AnswerSaved(t) \/ AnswerFailed(t)
    PROVE  /\ typed' \in [Tab -> [doc : Document, overtaken : BOOLEAN]]
           /\ \A u \in Tab \ {t} : typed'[u] = typed[u]
           /\ \/ Type(t) /\ typed'[t].doc = edits + 1
              \/ (Navigate(t) \/ Reload(t) \/ AnswerSaved(t)) /\ ~Owed(t)'
              \/ /\ typed' = typed
                 /\ \/ StartRefetch(t) \/ EndRefetch(t) \/ Submit(t) \/ RetrySave(t) \/ Store(t)
                    \/ Conflict(t) \/ Lose(t) \/ AnswerFailed(t)
<1> USE GifAssumption
<1>1. typed \in [Tab -> [doc : Document, overtaken : BOOLEAN]] /\ edits \in 0..MaxEdits
  BY DEF TypeOK
<1>2. NothingTyped \in [doc : Document, overtaken : BOOLEAN] /\ NothingTyped.doc = Untouched
  BY DEF NothingTyped, Document, Untouched
<1>3. CASE Type(t)
  <2>1. PICK w : w = [doc |-> edits + 1, overtaken |-> FALSE]
    OBVIOUS
  <2>2. w \in [doc : Document, overtaken : BOOLEAN] /\ w.doc = edits + 1
    BY <1>1, <1>3, <2>1 DEF Type, Document
  <2>3. typed' = [typed EXCEPT ![t] = w]
    BY <1>3, <2>1 DEF Type
  <2> QED BY <1>1, <1>3, <2>2, <2>3
<1>4. CASE Navigate(t) \/ Reload(t) \/ AnswerSaved(t)
  <2>1. PICK w : /\ typed' = [typed EXCEPT ![t] = w]
                 /\ w = NothingTyped \/ w = [typed[t] EXCEPT !.overtaken = TRUE]
    BY <1>1, <1>4 DEF Navigate, Reload, AnswerSaved
  <2>2. /\ [typed[t] EXCEPT !.overtaken = TRUE] \in [doc : Document, overtaken : BOOLEAN]
        /\ [typed[t] EXCEPT !.overtaken = TRUE].overtaken
    BY <1>1
  <2>3. w \in [doc : Document, overtaken : BOOLEAN] /\ (w.doc = Untouched \/ w.overtaken)
    BY <1>2, <2>1, <2>2
  <2>4. typed'[t] = w
    BY <1>1, <2>1
  <2> QED BY <1>1, <1>4, <2>1, <2>3, <2>4 DEF Owed
<1>5. CASE \/ StartRefetch(t) \/ EndRefetch(t) \/ Submit(t) \/ RetrySave(t) \/ Store(t)
           \/ Conflict(t) \/ Lose(t) \/ AnswerFailed(t)
  <2>1. typed' = typed
    BY <1>5 DEF StartRefetch, EndRefetch, Submit, RetrySave, Store, Conflict, Lose, AnswerFailed
  <2> QED BY <1>1, <1>5, <2>1
<1> QED BY <1>3, <1>4, <1>5

LEMMA TypeStep ==
    ASSUME TypeOK, Next
    PROVE  TypeOK'
<1> USE GifAssumption
<1>1. PICK t \in Tab :
        \/ Type(t) \/ Navigate(t) \/ Reload(t) \/ StartRefetch(t) \/ EndRefetch(t) \/ Submit(t)
        \/ RetrySave(t) \/ Store(t) \/ Conflict(t) \/ Lose(t) \/ AnswerSaved(t) \/ AnswerFailed(t)
  BY DEF Next
<1>0. typed' \in [Tab -> [doc : Document, overtaken : BOOLEAN]]
  BY <1>1, TypedOfStep
<1>2. view[t] \in View /\ view[t].gif \in Gif /\ view[t].status \in Status
  BY DEF TypeOK, View
<1>3. cache[t] \in [Gif -> Row] /\ rows \in [Gif -> Row] /\ fallback \in [Gif -> Copy]
  BY DEF TypeOK
<1>4. save[t].answer # "idle" => save[t] \in Save
  BY InFlightType
<1>5. CASE Type(t)
  <2>1. Edited(view[t], edits + 1) \in View
    <3>1. edits + 1 \in Document
      BY <1>5 DEF Type, TypeOK, Document
    <3> QED BY <1>2, <3>1 DEF Edited, View
  <2>2. fallback' \in [Gif -> Copy] /\ keeper' \in [Gif -> Tab \cup {Nobody}]
    BY <1>2, <1>5, <2>1, MirrorType DEF Type
  <2>3. view' \in [Tab -> View] /\ edits' \in 0..MaxEdits
    BY <1>5, <2>1 DEF Type, TypeOK
  <2> QED BY <1>0, <1>5, <2>2, <2>3, TouchType DEF Type, TypeOK
<1>6. CASE Navigate(t)
  <2>1. PICK g \in Gif : /\ view' = [view EXCEPT ![t] = Loaded(g, cache[t][g], fallback[g])]
                         /\ Mirror(t, g, view[t])
    BY <1>6 DEF Navigate, Reachable, NextPending
  <2>2. Loaded(g, cache[t][g], fallback[g]) \in View
    BY <1>3, LoadedType
  <2>3. fallback' \in [Gif -> Copy] /\ keeper' \in [Gif -> Tab \cup {Nobody}]
    BY <1>2, <2>1, MirrorType
  <2> QED BY <1>0, <1>6, <2>1, <2>2, <2>3, TouchType DEF Navigate, TypeOK
<1>7. CASE Reload(t)
  <2>1. PICK g \in {view[t].gif} \cup ({FirstDraft(rows)} \cap Path[t]) :
           view' = [view EXCEPT ![t] = Loaded(g, rows[g], fallback[g])]
    BY <1>7 DEF Reload
  <2>2. g \in Gif
    BY <1>2
  <2>3. Loaded(g, rows[g], fallback[g]) \in View
    BY <1>3, <2>2, LoadedType
  <2>4. upsets' \in 0..MaxUpsets
    BY <1>7 DEF Reload, TypeOK
  <2> QED BY <1>0, <1>7, <2>1, <2>3, <2>4 DEF Reload, TypeOK
<1>8. CASE StartRefetch(t)
  BY <1>0, <1>8 DEF StartRefetch, TypeOK
<1>9. CASE EndRefetch(t)
  BY <1>0, <1>9 DEF EndRefetch, TypeOK
<1>10. CASE Submit(t)
  <2>1. PICK s \in Verdict[t] :
          /\ \/ /\ ~InFlight(t)
                /\ save' = [save EXCEPT ![t] = Request(view[t], s, After(view[t], s))]
                /\ view' = [view EXCEPT ![t].status = s, ![t].saveState = "saving"]
             \/ /\ InFlight(t)
                /\ save' = [save EXCEPT ![t].touched = TRUE,
                             ![t].next = IF After(view[t], s) # 0 THEN After(view[t], s) ELSE @]
                /\ view' = [view EXCEPT ![t].status = s, ![t].saveState = "dirty"]
          /\ Mirror(t, view[t].gif, [view[t] EXCEPT !.status = s])
    BY <1>10 DEF Submit
  <2>2. s \in Status /\ After(view[t], s) \in 0..GifCount
    BY <1>2, AfterType DEF Status
  <2>3. [view[t] EXCEPT !.status = s] \in View
    BY <1>2, <2>2 DEF View
  <2>4. fallback' \in [Gif -> Copy] /\ keeper' \in [Gif -> Tab \cup {Nobody}]
    BY <1>2, <2>1, <2>3, MirrorType
  <2>5. view' \in [Tab -> View]
    <3>1. \A w \in {"saving", "dirty"} :
             [view[t] EXCEPT !.status = s, !.saveState = w] \in View
      BY <1>2, <2>2 DEF View
    <3>2. \E w \in {"saving", "dirty"} :
             view' = [view EXCEPT ![t] = [view[t] EXCEPT !.status = s, !.saveState = w]]
      BY <2>1 DEF TypeOK
    <3> QED BY <3>1, <3>2, ZenonT(30) DEF TypeOK
  <2>6. save' \in [Tab -> {NoSave} \cup Save]
    <3>1. CASE ~InFlight(t)
      <4>1. Request(view[t], s, After(view[t], s)) \in Save
        BY <1>2, <2>2, RequestType
      <4>2. save' = [save EXCEPT ![t] = Request(view[t], s, After(view[t], s))]
        BY <2>1, <3>1
      <4> QED BY <4>1, <4>2 DEF TypeOK
    <3>2. CASE InFlight(t)
      <4>1. save[t] \in Save
        BY <3>2, InFlightType
      <4>2. \E n \in 0..GifCount :
               save' = [save EXCEPT ![t] = [save[t] EXCEPT !.touched = TRUE, !.next = n]]
        <5>1. save[t].next \in 0..GifCount
          BY <4>1 DEF Save
        <5>2. save' = [save EXCEPT ![t] =
                [save[t] EXCEPT !.touched = TRUE,
                                !.next = IF After(view[t], s) # 0 THEN After(view[t], s)
                                         ELSE save[t].next]]
          BY <2>1, <3>2 DEF TypeOK
        <5> QED BY <2>2, <5>1, <5>2
      <4>3. \A n \in 0..GifCount : [save[t] EXCEPT !.touched = TRUE, !.next = n] \in Save
        BY <4>1 DEF Save
      <4>4. PICK n \in 0..GifCount :
               save' = [save EXCEPT ![t] = [save[t] EXCEPT !.touched = TRUE, !.next = n]]
        BY <4>2
      <4>5. [save[t] EXCEPT !.touched = TRUE, !.next = n] \in Save
        BY <4>3
      <4> QED BY <4>4, <4>5 DEF TypeOK
    <3> QED BY <3>1, <3>2
  <2> QED BY <1>0, <1>10, <2>4, <2>5, <2>6 DEF Submit, TypeOK
<1>11. CASE RetrySave(t)
  <2>1. Request(view[t], view[t].status, 0) \in Save
    BY <1>2, RequestType
  <2>2. view' \in [Tab -> View]
    BY <1>2, <1>11 DEF RetrySave, TypeOK, View
  <2> QED BY <1>0, <1>11, <2>1, <2>2 DEF RetrySave, TypeOK
<1>12. CASE Store(t)
  <2>1. save[t] \in Save
    BY <1>4, <1>12 DEF Store
  <2>2. rows' \in [Gif -> Row]
    BY <1>12, <2>1 DEF Store, TypeOK, Save, Row
  <2>3. [save[t] EXCEPT !.answer = "saved"] \in Save
    BY <2>1 DEF Save
  <2> QED BY <1>0, <1>12, <2>2, <2>3 DEF Store, TypeOK
<1>13. CASE Conflict(t)
  <2>1. [save[t] EXCEPT !.answer = "conflict"] \in Save
    BY <1>4, <1>13 DEF Conflict, Save
  <2> QED BY <1>0, <1>13, <2>1 DEF Conflict, TypeOK
<1>14. CASE Lose(t)
  <2>1. [save[t] EXCEPT !.answer = "lost"] \in Save
    BY <1>4, <1>14 DEF Lose, Save
  <2> QED BY <1>0, <1>14, <2>1 DEF Lose, TypeOK
<1>15. CASE AnswerSaved(t)
  <2> DEFINE r == save[t]
             removed == [fallback EXCEPT ![r.gif] = None]
  <2>1. r \in Save
    BY <1>4, <1>15 DEF AnswerSaved
  <2>2. Merge(cache[t], r) \in [Gif -> Row]
    BY <1>3, <2>1, MergeType
  <2>3. removed \in [Gif -> Copy] /\ keeper' \in [Gif -> Tab \cup {Nobody}]
    BY <1>3, <1>15, <2>1 DEF AnswerSaved, Copy, TypeOK
  <2>4. r.next # 0 => Loaded(r.next, Merge(cache[t], r)[r.next], removed[r.next]) \in View
    <3>1. r.next # 0 => r.next \in Gif
      BY <2>1 DEF Save, Gif
    <3> QED BY <2>2, <2>3, <3>1, LoadedType
  <2>5. Settled(view[t], r) \in View
    BY <1>2, <2>1, SettledType
  <2>6. view' \in [Tab -> View]
    BY <1>15, <2>4, <2>5 DEF AnswerSaved, TypeOK
  <2>7. cache' \in [Tab -> [Gif -> Row]]
    BY <1>15, <2>2 DEF AnswerSaved, TypeOK
  <2>8. fallback' \in [Gif -> Copy]
    BY <1>15, <2>3 DEF AnswerSaved
  <2> QED BY <1>0, <1>15, <2>3, <2>6, <2>7, <2>8 DEF AnswerSaved, TypeOK
<1>16. CASE AnswerFailed(t)
  <2>1. view' \in [Tab -> View]
    BY <1>2, <1>16 DEF AnswerFailed, TypeOK, View
  <2> QED BY <1>0, <1>16, <2>1 DEF AnswerFailed, TypeOK
<1> QED BY <1>1, <1>5, <1>6, <1>7, <1>8, <1>9, <1>10, <1>11, <1>12, <1>13, <1>14, <1>15, <1>16

----------------------------------------------------------------------------
\* Rows only grow, and a row that has not grown has not changed.
LEMMA RowsGrow ==
    ASSUME TypeOK, Next
    PROVE  \A g \in Gif : rows[g].revision \in Nat /\ Past(rows[g], rows'[g])
<1>1. \A g \in Gif : rows[g] \in Row
  BY DEF TypeOK
<1>2. CASE UNCHANGED rows
  BY <1>1, <1>2 DEF Past, Row
<1>3. ASSUME NEW t \in Tab, Store(t)
      PROVE  \A g \in Gif : rows[g].revision \in Nat /\ Past(rows[g], rows'[g])
  BY <1>1, <1>3 DEF Store, TypeOK, Past, Row
<1>4. (\E t \in Tab : Store(t)) \/ UNCHANGED rows
  BY DEF Next, Type, Navigate, Reload, StartRefetch, EndRefetch, Submit, RetrySave, Conflict,
         Lose, AnswerSaved, AnswerFailed
<1> QED BY <1>2, <1>3, <1>4

LEMMA PastStays ==
    ASSUME TypeOK, Next, NEW g \in Gif, NEW x, x.revision \in Nat, Past(x, rows[g])
    PROVE  Past(x, rows'[g])
<1>1. rows[g].revision \in Nat /\ Past(rows[g], rows'[g])
  BY RowsGrow
<1>2. rows'[g].revision \in Nat
  BY TypeStep DEF TypeOK, Row
<1> QED BY <1>1, <1>2 DEF Past

\* Which steps change what a tab has loaded.
LEMMA CacheStep ==
    ASSUME IInv, Next
    PROVE  CacheSound'
<1>1. TypeOK /\ CacheSound
  BY DEF IInv
<1>2. \A t \in Tab, g \in Gif : Past(cache[t][g], rows'[g])
  BY <1>1, PastStays DEF CacheSound, TypeOK, Row
<1>3. CASE UNCHANGED cache
  BY <1>2, <1>3 DEF CacheSound
<1>4. ASSUME NEW t \in Tab, Reload(t) \/ EndRefetch(t) \/ AnswerSaved(t)
      PROVE  CacheSound'
  <2>1. PICK c : /\ cache' = [cache EXCEPT ![t] = c]
                 /\ \A g \in Gif : Past(c[g], rows'[g])
    <3>1. CASE Reload(t)
      BY <1>1, <3>1, RowsGrow DEF Reload
    <3>2. CASE EndRefetch(t)
      <4>1. \A g \in Gif : fetch[t][g].revision \in Nat /\ Past(fetch[t][g], rows[g])
        BY <3>2 DEF EndRefetch, IInv, FetchSound, TypeOK, Row
      <4>2. \A g \in Gif : Past(fetch[t][g], rows'[g])
        BY <1>1, <4>1, PastStays
      <4> QED BY <3>2, <4>2 DEF EndRefetch
    <3>3. CASE AnswerSaved(t)
      <4>1. save[t] \in Save /\ Past(Made(save[t]), rows[save[t].gif])
        BY <1>1, <3>3, InFlightType DEF AnswerSaved, IInv, SaveSound
      <4>2. rows' = rows /\ cache' = [cache EXCEPT ![t] = Merge(cache[t], save[t])]
        BY <3>3 DEF AnswerSaved
      <4>3. \A g \in Gif : Merge(cache[t], save[t])[g] =
                              IF g = save[t].gif THEN Made(save[t]) ELSE cache[t][g]
        BY <1>1, <4>1 DEF Merge, Made, TypeOK, Save
      <4>4. \A g \in Gif : Past(Merge(cache[t], save[t])[g], rows'[g])
        BY <1>2, <4>1, <4>2, <4>3
      <4> QED BY <4>2, <4>4
    <3> QED BY <1>4, <3>1, <3>2, <3>3
  <2> QED BY <1>1, <1>2, <2>1 DEF CacheSound, TypeOK
<1>5. UNCHANGED cache \/ \E t \in Tab : Reload(t) \/ EndRefetch(t) \/ AnswerSaved(t)
  BY DEF Next, Type, Navigate, StartRefetch, Submit, RetrySave, Store, Conflict, Lose, AnswerFailed
<1> QED BY <1>3, <1>4, <1>5

LEMMA FetchStep ==
    ASSUME IInv, Next
    PROVE  FetchSound'
<1>1. TypeOK /\ FetchSound
  BY DEF IInv
<1>2. \A t \in Tab : fetch[t] # NoFetch => \A g \in Gif : Past(fetch[t][g], rows'[g])
  BY <1>1, PastStays DEF FetchSound, TypeOK, Row
<1>3. PICK t \in Tab, f \in {NoFetch, rows} : fetch' = fetch \/ fetch' = [fetch EXCEPT ![t] = f]
  BY DEF Next, Type, Navigate, Reload, StartRefetch, EndRefetch, Submit, RetrySave, Store,
         Conflict, Lose, AnswerSaved, AnswerFailed
<1>4. \A g \in Gif : Past(rows[g], rows'[g])
  BY <1>1, RowsGrow
<1> QED BY <1>1, <1>2, <1>3, <1>4 DEF FetchSound, TypeOK

\* A page changes only in steps of its own tab, and so does its save.
LEMMA OthersStay ==
    ASSUME NEW t \in Tab, NEW u \in Tab \ {t}, TypeOK,
           \/ Type(t) \/ Navigate(t) \/ Reload(t) \/ StartRefetch(t) \/ EndRefetch(t) \/ Submit(t)
           \/ RetrySave(t) \/ Store(t) \/ Conflict(t) \/ Lose(t) \/ AnswerSaved(t) \/ AnswerFailed(t)
    PROVE  view'[u] = view[u] /\ save'[u] = save[u]
BY DEF Type, Navigate, Reload, StartRefetch, EndRefetch, Submit, RetrySave, Store, Conflict, Lose,
       AnswerSaved, AnswerFailed, Touch, TypeOK

\* What the steps of a tab do to its page and its save, as far as saves go.
PageStep(t) ==
    \/ view'[t] = view[t] /\ save'[t] = save[t]
    \* the page changes, and the save in flight is marked
    \/ /\ view'[t].saveState \in {"idle", "dirty"}
       /\ IF InFlight(t) THEN save'[t].touched ELSE save'[t] = NoSave
       /\ InFlight(t) => save'[t].answer = save[t].answer /\ Made(save'[t]) = Made(save[t])
                          /\ save'[t].gif = save[t].gif
    \* the page is loaded, or offers to retry
    \/ view'[t].saveState \in {"idle", "dirty", "error"} /\ save'[t] = NoSave
    \* a save is sent
    \/ /\ view'[t].saveState = "saving" /\ save'[t].answer = "pending"
       /\ save'[t].gif = view'[t].gif /\ save'[t].status = view'[t].status
       /\ ~save'[t].touched
    \* a save is served
    \/ /\ view'[t] = view[t]
       /\ save[t].answer \in {"pending", "saved"} /\ save'[t].answer \in {"conflict", "lost"}
       /\ save'[t].gif = save[t].gif /\ save'[t].status = save[t].status
       /\ save'[t].touched = save[t].touched
    \/ /\ view'[t] = view[t]
       /\ save[t].answer = "pending" /\ save'[t] = [save[t] EXCEPT !.answer = "saved"]
       /\ rows'[save[t].gif] = Made(save[t])
    \* a save is answered and the page stays
    \/ /\ save[t].answer = "saved" /\ save'[t] = NoSave
       /\ view'[t] = Settled(view[t], save[t])

LEMMA StepsOfPage ==
    ASSUME TypeOK, NEW t \in Tab,
           \/ Type(t) \/ Navigate(t) \/ Reload(t) \/ StartRefetch(t) \/ EndRefetch(t) \/ Submit(t)
           \/ RetrySave(t) \/ Store(t) \/ Conflict(t) \/ Lose(t) \/ AnswerSaved(t) \/ AnswerFailed(t)
    PROVE  PageStep(t)
<1>1. view[t] \in View
  BY DEF TypeOK
<1>2. InFlight(t) => save[t] \in Save
  BY InFlightType
<1>3. \A g, r, k : Loaded(g, r, k).saveState \in {"idle", "dirty"}
  BY DEF Loaded
<1>4. CASE (\E w : view' = [view EXCEPT ![t] = w] /\ w.saveState \in {"idle", "dirty"}) /\ save' = Touch(t)
  <2>1. view'[t].saveState \in {"idle", "dirty"}
    BY <1>4 DEF TypeOK
  <2>2. CASE InFlight(t)
    <3>1. save'[t] = [save[t] EXCEPT !.touched = TRUE]
      BY <1>4, <2>2 DEF Touch, TypeOK
    <3>2. /\ save'[t].touched /\ save'[t].answer = save[t].answer /\ save'[t].gif = save[t].gif
          /\ Made(save'[t]) = Made(save[t])
      BY <1>2, <2>2, <3>1 DEF Save, Made
    <3> QED BY <2>1, <2>2, <3>2 DEF PageStep
  <2>3. CASE ~InFlight(t)
    BY <1>4, <2>1, <2>3 DEF PageStep, Touch, InFlight
  <2> QED BY <2>2, <2>3
<1>5. CASE Type(t)
  <2>1. Edited(view[t], edits + 1).saveState = "dirty"
    BY <1>1 DEF Edited, View
  <2> QED BY <1>4, <1>5, <2>1 DEF Type
<1>6. CASE Navigate(t)
  <2>1. PICK g \in Reachable(t) \cap Path[t] :
          view' = [view EXCEPT ![t] = Loaded(g, cache[t][g], fallback[g])] /\ save' = Touch(t)
    BY <1>6, Zenon DEF Navigate
  <2>2. PICK w : w = Loaded(g, cache[t][g], fallback[g])
    OBVIOUS
  <2>3. w.saveState \in {"idle", "dirty"}
    BY <1>3, <2>2
  <2>4. view' = [view EXCEPT ![t] = w]
    BY <2>1, <2>2
  <2> QED BY <1>4, <2>1, <2>3, <2>4
<1>7. CASE Reload(t)
  BY <1>3, <1>7 DEF Reload, PageStep, TypeOK
<1>8. CASE StartRefetch(t) \/ EndRefetch(t)
  BY <1>8 DEF StartRefetch, EndRefetch, PageStep
<1>9. CASE Submit(t)
  <2>1. PICK s \in Verdict[t] :
          \/ /\ ~InFlight(t)
             /\ save' = [save EXCEPT ![t] = Request(view[t], s, After(view[t], s))]
             /\ view' = [view EXCEPT ![t].status = s, ![t].saveState = "saving"]
          \/ /\ InFlight(t)
             /\ save' = [save EXCEPT ![t].touched = TRUE,
                             ![t].next = IF After(view[t], s) # 0 THEN After(view[t], s) ELSE @]
             /\ view' = [view EXCEPT ![t].status = s, ![t].saveState = "dirty"]
    BY <1>9 DEF Submit
  <2>2. CASE ~InFlight(t)
    <3>1. /\ view'[t].saveState = "saving" /\ view'[t].status = s /\ view'[t].gif = view[t].gif
      BY <1>1, <2>1, <2>2 DEF TypeOK, View
    <3>2. save'[t] = Request(view[t], s, After(view[t], s))
      BY <2>1, <2>2 DEF TypeOK
    <3> QED BY <3>1, <3>2 DEF Request, PageStep
  <2>3. CASE InFlight(t)
    <3>1. view'[t].saveState = "dirty"
      BY <1>1, <2>1, <2>3 DEF TypeOK, View
    <3>2. /\ save'[t].touched /\ save'[t].answer = save[t].answer /\ save'[t].gif = save[t].gif
          /\ save'[t].doc = save[t].doc /\ save'[t].status = save[t].status
          /\ save'[t].revision = save[t].revision
      BY <1>2, <2>1, <2>3 DEF TypeOK, Save
    <3> QED BY <2>3, <3>1, <3>2 DEF PageStep, Made
  <2> QED BY <2>2, <2>3
<1>10. CASE RetrySave(t)
  <2>1. save'[t] = Request(view[t], view[t].status, 0)
    BY <1>10 DEF RetrySave, TypeOK
  <2>2. /\ view'[t].saveState = "saving" /\ view'[t].status = view[t].status
        /\ view'[t].gif = view[t].gif
    BY <1>1, <1>10 DEF RetrySave, TypeOK, View
  <2> QED BY <2>1, <2>2 DEF Request, PageStep
<1>11. CASE Store(t)
  <2>1. save[t] \in Save
    BY <1>2, <1>11 DEF Store, InFlight, NoSave
  <2>2. /\ save'[t] = [save[t] EXCEPT !.answer = "saved"] /\ view'[t] = view[t]
        /\ save[t].answer = "pending"
    BY <1>11 DEF Store, TypeOK
  <2>3. rows'[save[t].gif] = Made(save[t])
    BY <1>11, <2>1 DEF Store, Matches, Made, TypeOK, Save
  <2> QED BY <2>2, <2>3 DEF PageStep
<1>12. CASE Conflict(t) \/ Lose(t)
  <2>1. save[t] \in Save /\ save[t].answer \in {"pending", "saved"}
    BY <1>2, <1>12 DEF Conflict, Lose, InFlight, NoSave
  <2>2. PICK a \in {"conflict", "lost"} : save'[t] = [save[t] EXCEPT !.answer = a]
    BY <1>12 DEF Conflict, Lose, TypeOK
  <2>3. view'[t] = view[t]
    BY <1>12 DEF Conflict, Lose
  <2> QED BY <2>1, <2>2, <2>3 DEF PageStep, Save
<1>13. CASE AnswerSaved(t)
  <2>1. save'[t] = NoSave /\ save[t].answer = "saved"
    BY <1>13 DEF AnswerSaved, TypeOK
  <2>2. \/ view'[t].saveState \in {"idle", "dirty"}
        \/ view'[t] = Settled(view[t], save[t])
    BY <1>3, <1>13 DEF AnswerSaved, TypeOK
  <2> QED BY <2>1, <2>2 DEF PageStep
<1>14. CASE AnswerFailed(t)
  <2>1. view'[t].saveState = "error" /\ save'[t] = NoSave
    BY <1>1, <1>14 DEF AnswerFailed, TypeOK, View
  <2> QED BY <2>1 DEF PageStep
<1> QED BY <1>5, <1>6, <1>7, <1>8, <1>9, <1>10, <1>11, <1>12, <1>13, <1>14

LEMMA SaveStep ==
    ASSUME IInv, Next
    PROVE  SaveSound'
<1>1. TypeOK /\ SaveSound
  BY DEF IInv
<1>2. PICK t \in Tab :
        \/ Type(t) \/ Navigate(t) \/ Reload(t) \/ StartRefetch(t) \/ EndRefetch(t) \/ Submit(t)
        \/ RetrySave(t) \/ Store(t) \/ Conflict(t) \/ Lose(t) \/ AnswerSaved(t) \/ AnswerFailed(t)
  BY DEF Next
<1> DEFINE Sound(u) ==
        /\ save[u].answer = "saved" => Past(Made(save[u]), rows[save[u].gif])
        /\ InFlight(u) /\ ~save[u].touched =>
              view[u].gif = save[u].gif /\ view[u].status = save[u].status
        /\ CanRetry(u) => ~InFlight(u)
<1>3. \A u \in Tab : save[u].answer = "saved" => Past(Made(save[u]), rows'[save[u].gif])
  <2> SUFFICES ASSUME NEW u \in Tab, save[u].answer = "saved"
               PROVE  Past(Made(save[u]), rows'[save[u].gif])
    OBVIOUS
  <2>1. save[u] \in Save
    BY <1>1, InFlightType
  <2>2. Made(save[u]).revision \in Nat /\ save[u].gif \in Gif
    BY <2>1 DEF Save, Made
  <2>3. Past(Made(save[u]), rows[save[u].gif])
    BY <1>1 DEF SaveSound
  <2> QED BY <1>1, <2>2, <2>3, PastStays
<1>4. ASSUME NEW u \in Tab, view'[u] = view[u], save'[u] = save[u]
      PROVE  Sound(u)'
  BY <1>1, <1>3, <1>4 DEF SaveSound, InFlight, CanRetry
<1>5. Sound(t)'
  <2>1. PageStep(t)
    BY <1>1, <1>2, StepsOfPage
  <2>2. CASE view'[t] = view[t] /\ save'[t] = save[t]
    BY <1>4, <2>2
  <2>3. CASE /\ view'[t].saveState \in {"idle", "dirty"}
             /\ IF InFlight(t) THEN save'[t].touched ELSE save'[t] = NoSave
             /\ InFlight(t) => save'[t].answer = save[t].answer /\ Made(save'[t]) = Made(save[t])
                                /\ save'[t].gif = save[t].gif
    BY <1>3, <2>3 DEF InFlight, CanRetry, NoSave
  <2>4. CASE view'[t].saveState \in {"idle", "dirty", "error"} /\ save'[t] = NoSave
    BY <2>4 DEF InFlight, NoSave
  <2>5. CASE /\ view'[t].saveState = "saving" /\ save'[t].answer = "pending"
             /\ save'[t].gif = view'[t].gif /\ save'[t].status = view'[t].status
             /\ ~save'[t].touched
    BY <2>5 DEF CanRetry
  <2>6. CASE /\ view'[t] = view[t]
             /\ save[t].answer \in {"pending", "saved"} /\ save'[t].answer \in {"conflict", "lost"}
             /\ save'[t].gif = save[t].gif /\ save'[t].status = save[t].status
             /\ save'[t].touched = save[t].touched
    BY <1>1, <2>6 DEF SaveSound, InFlight, CanRetry, NoSave
  <2>7. CASE /\ view'[t] = view[t]
             /\ save[t].answer = "pending" /\ save'[t] = [save[t] EXCEPT !.answer = "saved"]
             /\ rows'[save[t].gif] = Made(save[t])
    <3>1. save[t] \in Save /\ InFlight(t)
      BY <1>1, <2>7, InFlightType
    <3>2. /\ save'[t].gif = save[t].gif /\ save'[t].status = save[t].status
          /\ save'[t].touched = save[t].touched /\ Made(save'[t]) = Made(save[t])
      BY <2>7, <3>1 DEF Save, Made
    <3>3. Made(save[t]).revision \in Nat
      BY <3>1 DEF Save, Made
    <3> QED BY <1>1, <2>7, <3>1, <3>2, <3>3 DEF SaveSound, InFlight, CanRetry, Past
  <2>8. CASE /\ save[t].answer = "saved" /\ save'[t] = NoSave
             /\ view'[t] = Settled(view[t], save[t])
    <3>1. view'[t].saveState \in {"dirty", "saved"}
      BY <1>1, <2>8 DEF Settled, TypeOK, View
    <3> QED BY <2>8, <3>1 DEF InFlight, CanRetry, NoSave
  <2> QED BY <2>1, <2>2, <2>3, <2>4, <2>5, <2>6, <2>7, <2>8 DEF PageStep
<1>6. \A u \in Tab \ {t} : view'[u] = view[u] /\ save'[u] = save[u]
  BY <1>1, <1>2, OthersStay
<1>7. \A u \in Tab : Sound(u)'
  BY <1>4, <1>5, <1>6
<1> QED BY <1>7 DEF SaveSound

LEMMA ViewStep ==
    ASSUME IInv, Next
    PROVE  ViewSound'
<1>1. TypeOK /\ SaveSound /\ ViewSound
  BY DEF IInv
<1>2. PICK t \in Tab :
        \/ Type(t) \/ Navigate(t) \/ Reload(t) \/ StartRefetch(t) \/ EndRefetch(t) \/ Submit(t)
        \/ RetrySave(t) \/ Store(t) \/ Conflict(t) \/ Lose(t) \/ AnswerSaved(t) \/ AnswerFailed(t)
  BY DEF Next
<1> DEFINE Sound(u) == view[u].saveState = "saved" => Past(AsRow(view[u]), rows[view[u].gif])
<1>3. ASSUME NEW u \in Tab, view'[u] = view[u]
      PROVE  Sound(u)'
  <2>1. AsRow(view[u]).revision \in Nat /\ view[u].gif \in Gif
    BY <1>1 DEF TypeOK, View, AsRow
  <2>2. view[u].saveState = "saved" => Past(AsRow(view[u]), rows'[view[u].gif])
    BY <1>1, <2>1, PastStays DEF ViewSound
  <2> QED BY <1>3, <2>2
<1>4. Sound(t)'
  <2>1. PageStep(t)
    BY <1>1, <1>2, StepsOfPage
  <2>2. CASE view'[t].saveState = "saved" /\ view'[t] # view[t]
    <3>1. save[t].answer = "saved" /\ view'[t] = Settled(view[t], save[t])
      BY <2>1, <2>2 DEF PageStep
    <3>2. save[t] \in Save /\ InFlight(t)
      BY <1>1, <3>1, InFlightType
    <3>3. ~save[t].touched /\ view'[t].gif = view[t].gif
          /\ AsRow(view'[t]) = [doc |-> save[t].doc, status |-> view[t].status,
                                revision |-> save[t].revision + 1]
      BY <1>1, <2>2, <3>1, <3>2 DEF Settled, TypeOK, View, Save, AsRow
    <3>4. AsRow(view'[t]) = Made(save[t]) /\ view'[t].gif = save[t].gif
      BY <1>1, <3>2, <3>3 DEF SaveSound, Made
    <3>5. Made(save[t]).revision \in Nat /\ save[t].gif \in Gif
      BY <3>2 DEF Save, Made
    <3>6. Past(Made(save[t]), rows'[save[t].gif])
      BY <1>1, <3>1, <3>5, PastStays DEF SaveSound
    <3> QED BY <3>4, <3>6
  <2> QED BY <1>3, <2>2
<1>5. \A u \in Tab \ {t} : view'[u] = view[u]
  BY <1>1, <1>2, OthersStay
<1>6. \A u \in Tab : Sound(u)'
  BY <1>3, <1>4, <1>5
<1> QED BY <1>6 DEF ViewSound

\* A tab that writes or removes a local copy is its keeper from then on.
LEMMA MirrorKeeps ==
    ASSUME TypeOK, NEW t \in Tab, NEW g \in Gif, NEW v, Mirror(t, g, v)
    PROVE  /\ \A h \in Gif : keeper'[h] = t \/ (keeper'[h] = keeper[h] /\ fallback'[h] = fallback[h])
           /\ v.isDirty => fallback'[g] = Kept(v.form, v.status)
<1>1. CASE v.isDirty
  <2>1. /\ fallback' = [fallback EXCEPT ![g] = Kept(v.form, v.status)]
        /\ keeper' = [keeper EXCEPT ![g] = t]
    BY <1>1 DEF Mirror
  <2> QED BY <2>1 DEF TypeOK
<1>2. CASE ~v.isDirty
  BY <1>2 DEF Mirror
<1> QED BY <1>1, <1>2

LEMMA TypedStep ==
    ASSUME IInv, Next
    PROVE  OwedIsDirty' /\ TypedTextIsKept'
<1>1. TypeOK /\ OwedIsDirty /\ TypedTextIsKept
  BY DEF IInv
<1>2. PICK t \in Tab :
        \/ Type(t) \/ Navigate(t) \/ Reload(t) \/ StartRefetch(t) \/ EndRefetch(t) \/ Submit(t)
        \/ RetrySave(t) \/ Store(t) \/ Conflict(t) \/ Lose(t) \/ AnswerSaved(t) \/ AnswerFailed(t)
  BY DEF Next
<1> DEFINE IsKept(u) ==
        Owed(u) => /\ view[u].isDirty
                   /\ view[u].form = typed[u].doc
                   /\ \/ fallback[view[u].gif] = Kept(view[u].form, view[u].status)
                      \/ keeper[view[u].gif] # u
<1>3. \A u \in Tab : view[u] \in View /\ view[u].gif \in Gif /\ IsKept(u)
  BY <1>1 DEF TypeOK, View, OwedIsDirty, TypedTextIsKept, Owed
<1>4. /\ \A u \in Tab \ {t} : typed'[u] = typed[u]
      /\ \/ Type(t) /\ typed'[t].doc = edits + 1
         \/ (Navigate(t) \/ Reload(t) \/ AnswerSaved(t)) /\ ~Owed(t)'
         \/ /\ typed' = typed
            /\ \/ StartRefetch(t) \/ EndRefetch(t) \/ Submit(t) \/ RetrySave(t) \/ Store(t)
               \/ Conflict(t) \/ Lose(t) \/ AnswerFailed(t)
  BY <1>1, <1>2, TypedOfStep
<1>5. \A h \in Gif : keeper'[h] = t \/ (keeper'[h] = keeper[h] /\ fallback'[h] = fallback[h])
  <2>1. CASE Type(t) \/ Navigate(t) \/ Submit(t)
    <3>1. \E g \in Gif : \E v : Mirror(t, g, v)
      BY <1>3, <2>1 DEF Type, Navigate, Submit, Reachable, NextPending
    <3> QED BY <1>1, <3>1, MirrorKeeps
  <2>2. CASE AnswerSaved(t)
    <3>1. PICK g : /\ fallback' = [fallback EXCEPT ![g] = None]
                   /\ keeper' = [keeper EXCEPT ![g] = t]
      BY <2>2 DEF AnswerSaved
    <3> QED BY <1>1, <3>1 DEF TypeOK
  <2>3. CASE \/ Reload(t) \/ StartRefetch(t) \/ EndRefetch(t) \/ RetrySave(t) \/ Store(t)
             \/ Conflict(t) \/ Lose(t) \/ AnswerFailed(t)
    BY <2>3 DEF Reload, StartRefetch, EndRefetch, RetrySave, Store, Conflict, Lose, AnswerFailed
  <2> QED BY <1>2, <2>1, <2>2, <2>3
<1>6. \A u \in Tab \ {t} : IsKept(u)'
  <2>1. \A u \in Tab \ {t} : view'[u] = view[u]
    BY <1>1, <1>2, OthersStay
  <2> QED BY <1>3, <1>4, <1>5, <2>1 DEF Owed
<1>7. IsKept(t)'
  <2>1. CASE Type(t) /\ typed'[t].doc = edits + 1
    <3> DEFINE v == Edited(view[t], edits + 1)
    <3>1. view'[t] = v /\ Mirror(t, view[t].gif, v)
      BY <1>1, <2>1 DEF Type, TypeOK
    <3>2. v.gif = view[t].gif /\ v.form = edits + 1 /\ v.isDirty
      BY <1>3 DEF Edited, View
    <3>3. fallback'[view[t].gif] = Kept(v.form, v.status)
      BY <1>1, <1>3, <3>1, <3>2, MirrorKeeps
    <3> QED BY <2>1, <3>1, <3>2, <3>3
  <2>2. CASE Submit(t) /\ typed' = typed
    <3>1. PICK s \in Verdict[t] :
            /\ \E w : view' = [view EXCEPT ![t].status = s, ![t].saveState = w]
            /\ Mirror(t, view[t].gif, [view[t] EXCEPT !.status = s])
      BY <2>2 DEF Submit
    <3>2. PICK v : v = [view[t] EXCEPT !.status = s]
      OBVIOUS
    <3>3. /\ view'[t].gif = view[t].gif /\ view'[t].form = v.form /\ view'[t].status = v.status
          /\ view'[t].isDirty = v.isDirty /\ v.form = view[t].form /\ v.isDirty = view[t].isDirty
      BY <1>1, <1>3, <3>1, <3>2 DEF TypeOK, View
    <3>4. Mirror(t, view[t].gif, v)
      BY <3>1, <3>2
    <3>5. v.isDirty => fallback'[view[t].gif] = Kept(v.form, v.status)
      BY <1>1, <1>3, <3>4, MirrorKeeps
    <3> QED BY <1>3, <2>2, <3>3, <3>5 DEF Owed
  <2>3. CASE (RetrySave(t) \/ AnswerFailed(t)) /\ typed' = typed
    <3>1. PICK w : view' = [view EXCEPT ![t].saveState = w]
      BY <2>3 DEF RetrySave, AnswerFailed
    <3>2. /\ view'[t].gif = view[t].gif /\ view'[t].form = view[t].form
          /\ view'[t].status = view[t].status /\ view'[t].isDirty = view[t].isDirty
      BY <1>1, <1>3, <3>1 DEF TypeOK, View
    <3>3. UNCHANGED <<fallback, keeper>>
      BY <2>3 DEF RetrySave, AnswerFailed
    <3> QED BY <1>3, <2>3, <3>2, <3>3 DEF Owed
  <2>4. CASE /\ StartRefetch(t) \/ EndRefetch(t) \/ Store(t) \/ Conflict(t) \/ Lose(t)
             /\ typed' = typed
    <3>1. UNCHANGED <<view, fallback, keeper>>
      BY <2>4 DEF StartRefetch, EndRefetch, Store, Conflict, Lose
    <3> QED BY <1>3, <2>4, <3>1 DEF Owed
  <2>5. CASE ~Owed(t)'
    BY <2>5
  <2> QED BY <1>4, <2>1, <2>2, <2>3, <2>4, <2>5
<1>8. \A u \in Tab : IsKept(u)'
  BY <1>6, <1>7
<1> QED BY <1>8 DEF OwedIsDirty, TypedTextIsKept, Owed

----------------------------------------------------------------------------
\* The inductive invariant holds in every state.
THEOREM InvCorrect == Spec => []IInv
<1>1. IInv /\ UNCHANGED vars => IInv'
  BY DEF vars, IInv, TypeOK, CacheSound, FetchSound, SaveSound, ViewSound, OwedIsDirty, Owed,
         TypedTextIsKept, InFlight, CanRetry
<1>2. IInv /\ Next => IInv'
  BY TypeStep, CacheStep, FetchStep, SaveStep, ViewStep, TypedStep DEF IInv
<1> QED BY InitIInv, <1>1, <1>2, PTL DEF Spec

\* Types: of rows, local copies, caches, pages and saves.
THEOREM TypeCorrect == Spec => []TypeOK
<1>1. IInv => TypeOK
  BY DEF IInv
<1> QED BY InvCorrect, <1>1, PTL

\* What the page calls saved is stored (persist): the answer is applied to the page
\* whatever it shows by then, but the page says "saved" only when it has not changed
\* since the request, and then shows the GIF, the status and the document of it.
THEOREM SavedMeansStoredCorrect == Spec => []SavedMeansStored
<1>1. IInv => SavedMeansStored
  <2> SUFFICES ASSUME IInv, NEW t \in Tab, view[t].saveState = "saved",
                      rows[view[t].gif].revision = view[t].revision
               PROVE  rows[view[t].gif].doc = view[t].form
                      /\ rows[view[t].gif].status = view[t].status
    BY DEF SavedMeansStored
  <2>1. AsRow(view[t]) = rows[view[t].gif]
    BY DEF IInv, ViewSound, Past, AsRow
  <2> QED BY <2>1 DEF AsRow
<1> QED BY InvCorrect, <1>1, PTL

\* A page shows the spinner during a save that nothing it did since has changed, and
\* offers to retry or says "saved" only when no save of its own is in flight.
SpinnerIsHonest ==
    \A t \in Tab :
        /\ view[t].saveState = "saving" => InFlight(t) /\ ~save[t].touched
        /\ InFlight(t) => view[t].saveState \in {"idle", "dirty", "saving"}

\* The spinner never turns for nothing, whatever is typed, submitted or reloaded while
\* saves are on their way: what is in the way of the submit button is a call that the
\* server or the connection ends (saveState and persist; the safety half of SpinnerStops).
THEOREM SpinnerIsHonestCorrect == Spec => []SpinnerIsHonest
<1>1. Init => SpinnerIsHonest
  <2> SUFFICES ASSUME Init, NEW t \in Tab
               PROVE  save[t] = NoSave /\ view[t].saveState = "idle"
    BY DEF SpinnerIsHonest, InFlight
  <2>1. PICK at \in [Tab -> Gif] : view = [u \in Tab |-> Loaded(at[u], Absent, None)]
    BY DEF Init
  <2> QED BY <2>1 DEF Init, Loaded, None
<1>2. ASSUME IInv, SpinnerIsHonest, Next PROVE SpinnerIsHonest'
  <2>1. TypeOK
    BY <1>2 DEF IInv
  <2>2. PICK t \in Tab :
          \/ Type(t) \/ Navigate(t) \/ Reload(t) \/ StartRefetch(t) \/ EndRefetch(t) \/ Submit(t)
          \/ RetrySave(t) \/ Store(t) \/ Conflict(t) \/ Lose(t) \/ AnswerSaved(t) \/ AnswerFailed(t)
    BY <1>2 DEF Next
  <2> DEFINE Honest(u) ==
          /\ view[u].saveState = "saving" => InFlight(u) /\ ~save[u].touched
          /\ InFlight(u) => view[u].saveState \in {"idle", "dirty", "saving"}
  <2>3. Honest(t)'
    <3>1. PageStep(t)
      BY <2>1, <2>2, StepsOfPage
    <3>2. CASE view'[t] = view[t] /\ save'[t] = save[t]
      BY <1>2, <3>2 DEF SpinnerIsHonest, InFlight
    <3>3. CASE /\ view'[t] = view[t]
               /\ save[t].answer = "pending" /\ save'[t] = [save[t] EXCEPT !.answer = "saved"]
      <4>1. save[t] \in Save /\ InFlight(t)
        BY <2>1, <3>3, InFlightType
      <4>2. save'[t].touched = save[t].touched /\ save'[t].answer = "saved"
        BY <3>3, <4>1 DEF Save
      <4> QED BY <1>2, <3>3, <4>1, <4>2 DEF SpinnerIsHonest, InFlight, NoSave
    <3>4. CASE /\ view'[t] = view[t] /\ save[t].answer \in {"pending", "saved"}
               /\ save'[t].answer \in {"conflict", "lost"}
               /\ save'[t].touched = save[t].touched
      BY <1>2, <3>4 DEF SpinnerIsHonest, InFlight, NoSave
    <3>5. CASE save'[t] = NoSave /\ view'[t] = Settled(view[t], save[t])
      <4>1. view'[t].saveState \in {"dirty", "saved"}
        BY <2>1, <3>5 DEF Settled, TypeOK, View
      <4> QED BY <3>5, <4>1 DEF InFlight
    <3>6. CASE /\ view'[t].saveState \in {"idle", "dirty"}
      BY <3>6
    <3>7. CASE view'[t].saveState \in {"idle", "dirty", "error"} /\ save'[t] = NoSave
      BY <3>7 DEF InFlight
    <3>8. CASE view'[t].saveState = "saving" /\ save'[t].answer = "pending" /\ ~save'[t].touched
      BY <3>8 DEF InFlight, NoSave
    <3> QED BY <3>1, <3>2, <3>3, <3>4, <3>5, <3>6, <3>7, <3>8 DEF PageStep
  <2>4. \A u \in Tab \ {t} : view'[u] = view[u] /\ save'[u] = save[u]
    BY <2>1, <2>2, OthersStay
  <2>5. \A u \in Tab : Honest(u)'
    BY <1>2, <2>3, <2>4 DEF SpinnerIsHonest, InFlight
  <2> QED BY <2>5 DEF SpinnerIsHonest
<1>3. SpinnerIsHonest /\ UNCHANGED vars => SpinnerIsHonest'
  BY DEF SpinnerIsHonest, InFlight, vars
<1> QED BY InvCorrect, <1>1, <1>2, <1>3, PTL DEF Spec

\* What was typed last and is not stored is in the form and in local storage, unless
\* another tab has replaced or removed the copy or the answer of a save sent before has
\* put back what was sent (the fallback effect; persist).
THEOREM TypedTextIsKeptCorrect == Spec => []TypedTextIsKept
<1>1. IInv => TypedTextIsKept
  BY DEF IInv
<1> QED BY InvCorrect, <1>1, PTL

\* The export of a tab shows a row under its own revision only (buildEvalExport).
THEOREM ExportIsStoredCorrect == Spec => []ExportIsStored
<1>1. IInv => ExportIsStored
  BY DEF IInv, CacheSound, Past, ExportIsStored, Exported
<1> QED BY InvCorrect, <1>1, PTL

----------------------------------------------------------------------------
\* The rows and calls of the register.
RegisterRows == [g \in Gif |-> Abstract(rows[g])]
RegisterCalls == [t \in Tab |-> AbstractCall(save[t])]

LEMMA AnswersMap ==
    /\ AbstractAnswer["pending"] = "pending" /\ AbstractAnswer["saved"] = "granted"
    /\ AbstractAnswer["conflict"] = "refused" /\ AbstractAnswer["lost"] = "lost"
BY DEF AbstractAnswer

LEMMA CallOfSave ==
    ASSUME NEW s \in Save
    PROVE  /\ AbstractCall(s) = [key |-> s.gif, value |-> [doc |-> s.doc, status |-> s.status],
                                 expected |-> s.revision, answer |-> AbstractAnswer[s.answer]]
           /\ AbstractCall(s) # NoSave
<1>1. s # NoSave
  BY DEF Save, NoSave
<1>2. AbstractCall(s) = [key |-> s.gif, value |-> [doc |-> s.doc, status |-> s.status],
                         expected |-> s.revision, answer |-> AbstractAnswer[s.answer]]
  BY <1>1 DEF AbstractCall
<1>3. AbstractCall(s).answer \in {"pending", "granted", "refused", "lost"}
  BY <1>2, AnswersMap DEF Save
<1> QED BY <1>2, <1>3 DEF NoSave

\* Of a call only the answer changes with the answer of its save.
LEMMA AnswerOfCall ==
    ASSUME NEW s \in Save, NEW a \in {"pending", "saved", "conflict", "lost"}
    PROVE  AbstractCall([s EXCEPT !.answer = a])
             = [AbstractCall(s) EXCEPT !.answer = AbstractAnswer[a]]
<1>1. [s EXCEPT !.answer = a] \in Save
  BY DEF Save
<1>2. /\ [s EXCEPT !.answer = a].gif = s.gif /\ [s EXCEPT !.answer = a].doc = s.doc
      /\ [s EXCEPT !.answer = a].status = s.status
      /\ [s EXCEPT !.answer = a].revision = s.revision /\ [s EXCEPT !.answer = a].answer = a
  BY DEF Save
<1>3. AbstractCall([s EXCEPT !.answer = a])
        = [key |-> s.gif, value |-> [doc |-> s.doc, status |-> s.status],
           expected |-> s.revision, answer |-> AbstractAnswer[a]]
  BY <1>1, <1>2, CallOfSave
<1> QED BY <1>3, CallOfSave

LEMMA CallsStep ==
    ASSUME NEW t \in Tab, NEW x, TypeOK, save' = [save EXCEPT ![t] = x]
    PROVE  RegisterCalls' = [RegisterCalls EXCEPT ![t] = AbstractCall(x)]
BY DEF RegisterCalls, TypeOK

LEMMA SentIsInvoked ==
    ASSUME NEW t \in Tab, NEW x \in Save, TypeOK, ~InFlight(t), x.answer = "pending",
           save' = [save EXCEPT ![t] = x], UNCHANGED rows
    PROVE  Register!Invoke(t)
<1>1. RegisterCalls' = [RegisterCalls EXCEPT ![t] = AbstractCall(x)] /\ RegisterCalls[t] = NoSave
  BY CallsStep DEF InFlight, RegisterCalls, AbstractCall
<1>2. RegisterCalls'[t] = AbstractCall(x)
  BY <1>1 DEF RegisterCalls
<1>3. AbstractCall(x) \in [key : Gif, value : Value, expected : Nat, answer : {"pending"}]
  BY CallOfSave, AnswersMap DEF Save, Value
<1>4. RegisterRows' = RegisterRows
  BY DEF RegisterRows
<1> QED BY <1>1, <1>2, <1>3, <1>4
        DEF Register!Invoke, Register!Pending, Register!NoCall, NoSave, RegisterRows, RegisterCalls

LEMMA StoredIsGranted ==
    ASSUME NEW t \in Tab, TypeOK, Store(t)
    PROVE  Register!Grant(t)
<1>1. save[t] \in Save /\ save[t].answer = "pending"
  BY InFlightType DEF Store
<1>2. RegisterCalls[t] = AbstractCall(save[t])
  BY DEF RegisterCalls
<1>3. /\ RegisterCalls[t].answer = "pending" /\ RegisterCalls[t].key = save[t].gif
      /\ RegisterCalls[t].expected = save[t].revision
      /\ RegisterCalls[t].value = [doc |-> save[t].doc, status |-> save[t].status]
  BY <1>1, <1>2, CallOfSave, AnswersMap
<1>4. RegisterCalls' = [RegisterCalls EXCEPT ![t].answer = "granted"]
  <2>1. save' = [save EXCEPT ![t] = [save[t] EXCEPT !.answer = "saved"]]
    BY DEF Store
  <2>2. RegisterCalls' = [RegisterCalls EXCEPT ![t] =
                             AbstractCall([save[t] EXCEPT !.answer = "saved"])]
    BY <2>1, CallsStep
  <2> QED BY <1>1, <1>2, <2>2, AnswerOfCall, AnswersMap
<1>5. save[t].gif \in Gif /\ RegisterRows[save[t].gif].revision = save[t].revision
  BY <1>1 DEF Store, Matches, RegisterRows, Abstract, Save
<1>6. RegisterRows' = [RegisterRows EXCEPT ![save[t].gif] =
          [value |-> [doc |-> save[t].doc, status |-> save[t].status],
           revision |-> save[t].revision + 1]]
  <2>1. rows' = [rows EXCEPT ![save[t].gif] = Made(save[t])]
    BY <1>5 DEF Store, Matches, Made
  <2>2. Abstract(Made(save[t])) = [value |-> [doc |-> save[t].doc, status |-> save[t].status],
                                  revision |-> save[t].revision + 1]
    BY DEF Abstract, Made
  <2> QED BY <1>5, <2>1, <2>2 DEF RegisterRows, TypeOK
<1> QED BY <1>3, <1>4, <1>5, <1>6 DEF Register!Grant, RegisterRows, RegisterCalls

LEMMA ConflictIsRefused ==
    ASSUME NEW t \in Tab, TypeOK, Conflict(t)
    PROVE  Register!Refuse(t)
<1>1. save[t] \in Save /\ save[t].answer = "pending"
  BY InFlightType DEF Conflict
<1>2. RegisterCalls[t] = AbstractCall(save[t])
  BY DEF RegisterCalls
<1>3. /\ RegisterCalls[t].answer = "pending" /\ RegisterCalls[t].key = save[t].gif
      /\ RegisterCalls[t].expected = save[t].revision
  BY <1>1, <1>2, CallOfSave, AnswersMap
<1>4. RegisterCalls' = [RegisterCalls EXCEPT ![t].answer = "refused"]
  <2>1. save' = [save EXCEPT ![t] = [save[t] EXCEPT !.answer = "conflict"]]
    BY DEF Conflict
  <2>2. RegisterCalls' = [RegisterCalls EXCEPT ![t] =
                             AbstractCall([save[t] EXCEPT !.answer = "conflict"])]
    BY <2>1, CallsStep
  <2> QED BY <1>1, <1>2, <2>2, AnswerOfCall, AnswersMap
<1>5. save[t].gif \in Gif /\ RegisterRows[save[t].gif].revision # save[t].revision
  BY <1>1 DEF Conflict, Matches, RegisterRows, Abstract, Save
<1>6. RegisterRows' = RegisterRows
  BY DEF Conflict, RegisterRows
<1> QED BY <1>3, <1>4, <1>5, <1>6 DEF Register!Refuse, RegisterRows, RegisterCalls

LEMMA LostIsLost ==
    ASSUME NEW t \in Tab, TypeOK, Lose(t)
    PROVE  Register!Lose(t)
<1>1. save[t] \in Save /\ save[t].answer \in {"pending", "saved"}
  BY InFlightType DEF Lose
<1>2. RegisterCalls[t] = AbstractCall(save[t])
  BY DEF RegisterCalls
<1>3. RegisterCalls[t].answer \in {"pending", "granted"}
  BY <1>1, <1>2, CallOfSave, AnswersMap
<1>4. RegisterCalls' = [RegisterCalls EXCEPT ![t].answer = "lost"]
  <2>1. save' = [save EXCEPT ![t] = [save[t] EXCEPT !.answer = "lost"]]
    BY DEF Lose
  <2>2. RegisterCalls' = [RegisterCalls EXCEPT ![t] =
                             AbstractCall([save[t] EXCEPT !.answer = "lost"])]
    BY <2>1, CallsStep
  <2> QED BY <1>1, <1>2, <2>2, AnswerOfCall, AnswersMap
<1>5. RegisterRows' = RegisterRows
  BY DEF Lose, RegisterRows
<1> QED BY <1>3, <1>4, <1>5 DEF Register!Lose, RegisterRows, RegisterCalls

\* A save that is answered, or given up with its page, is a call that returns.
LEMMA EndedIsReturned ==
    ASSUME NEW t \in Tab, TypeOK, save' = [save EXCEPT ![t] = NoSave], UNCHANGED rows
    PROVE  Register!Return(t) \/ UNCHANGED <<RegisterRows, RegisterCalls>>
<1>1. RegisterRows' = RegisterRows
  BY DEF RegisterRows
<1>2. RegisterCalls' = [RegisterCalls EXCEPT ![t] = NoSave]
  BY CallsStep DEF AbstractCall
<1>3. CASE RegisterCalls[t] = NoSave
  BY <1>1, <1>2, <1>3 DEF RegisterCalls
<1>4. CASE RegisterCalls[t] # NoSave
  BY <1>1, <1>2, <1>4 DEF Register!Return, Register!NoCall, NoSave, RegisterRows, RegisterCalls
<1> QED BY <1>3, <1>4

\* What changes only the marks of a save in flight does not show.
LEMMA MarkedIsTheSame ==
    ASSUME NEW t \in Tab, TypeOK, UNCHANGED rows,
           \/ UNCHANGED save
           \/ /\ InFlight(t)
              /\ \E n : save' = [save EXCEPT ![t] = [save[t] EXCEPT !.touched = TRUE, !.next = n]]
    PROVE  UNCHANGED <<RegisterRows, RegisterCalls>>
<1>1. RegisterRows' = RegisterRows
  BY DEF RegisterRows
<1>2. CASE UNCHANGED save
  BY <1>1, <1>2 DEF RegisterCalls
<1>3. CASE InFlight(t) /\ ~UNCHANGED save
  <2>1. save[t] \in Save /\ save[t] # NoSave
    BY <1>3, InFlightType DEF InFlight
  <2>2. PICK n : save' = [save EXCEPT ![t] = [save[t] EXCEPT !.touched = TRUE, !.next = n]]
    BY <1>3
  <2> DEFINE x == [save[t] EXCEPT !.touched = TRUE, !.next = n]
  <2>3. /\ x.gif = save[t].gif /\ x.doc = save[t].doc /\ x.status = save[t].status
        /\ x.revision = save[t].revision /\ x.answer = save[t].answer /\ x # NoSave
    BY <2>1 DEF Save, NoSave
  <2> HIDE DEF x
  <2>4. AbstractCall(x) = AbstractCall(save[t])
    BY <2>1, <2>3 DEF AbstractCall
  <2>5. RegisterCalls' = [RegisterCalls EXCEPT ![t] = AbstractCall(x)]
    BY <2>2, CallsStep DEF x
  <2> QED BY <1>1, <2>4, <2>5 DEF RegisterCalls
<1> QED BY <1>2, <1>3

\* Every step of the pages and the database is a step of the register or none.
LEMMA RegisterStep ==
    ASSUME IInv, Next
    PROVE  Register!Next \/ UNCHANGED <<RegisterRows, RegisterCalls>>
<1>1. TypeOK /\ SaveSound
  BY DEF IInv
<1>2. PICK t \in Tab :
        \/ Type(t) \/ Navigate(t) \/ Reload(t) \/ StartRefetch(t) \/ EndRefetch(t) \/ Submit(t)
        \/ RetrySave(t) \/ Store(t) \/ Conflict(t) \/ Lose(t) \/ AnswerSaved(t) \/ AnswerFailed(t)
  BY DEF Next
<1>3. CASE Type(t) \/ Navigate(t)
  <2>1. rows' = rows /\ save' = Touch(t)
    BY <1>3 DEF Type, Navigate
  <2>2. InFlight(t) => \E n : save' = [save EXCEPT ![t] = [save[t] EXCEPT !.touched = TRUE, !.next = n]]
    <3> SUFFICES ASSUME InFlight(t)
                 PROVE  save' = [save EXCEPT ![t] =
                                   [save[t] EXCEPT !.touched = TRUE, !.next = save[t].next]]
      OBVIOUS
    <3>1. save[t] \in Save
      BY <1>1, InFlightType
    <3>2. [save[t] EXCEPT !.touched = TRUE]
            = [save[t] EXCEPT !.touched = TRUE, !.next = save[t].next]
      BY <3>1 DEF Save
    <3> QED BY <2>1, <3>2 DEF Touch
  <2> QED BY <1>1, <2>1, <2>2, MarkedIsTheSame DEF Touch
<1>4. CASE StartRefetch(t) \/ EndRefetch(t)
  BY <1>1, <1>4, MarkedIsTheSame DEF StartRefetch, EndRefetch
<1>5. CASE Reload(t) \/ AnswerSaved(t) \/ AnswerFailed(t)
  <2>1. save' = [save EXCEPT ![t] = NoSave] /\ rows' = rows
    BY <1>5 DEF Reload, AnswerSaved, AnswerFailed
  <2> QED BY <1>1, <2>1, EndedIsReturned DEF Register!Next
<1>6. CASE Submit(t)
  <2>1. PICK s \in Verdict[t] :
          \/ /\ ~InFlight(t)
             /\ save' = [save EXCEPT ![t] = Request(view[t], s, After(view[t], s))]
          \/ /\ InFlight(t)
             /\ save' = [save EXCEPT ![t].touched = TRUE,
                             ![t].next = IF After(view[t], s) # 0 THEN After(view[t], s) ELSE @]
    BY <1>6 DEF Submit
  <2>2. s \in Status /\ view[t] \in View /\ rows' = rows
    BY <1>1, <1>6, GifAssumption DEF Status, TypeOK, Submit
  <2>3. CASE ~InFlight(t)
    <3> DEFINE x == Request(view[t], s, After(view[t], s))
    <3>1. x \in Save /\ x.answer = "pending"
      BY <2>2, AfterType, RequestType DEF Request
    <3>2. save' = [save EXCEPT ![t] = x]
      BY <2>1, <2>3
    <3> HIDE DEF x
    <3> QED BY <1>1, <2>2, <2>3, <3>1, <3>2, SentIsInvoked DEF Register!Next
  <2>4. CASE InFlight(t)
    <3>1. save[t] \in Save
      BY <1>1, <2>4, InFlightType
    <3>2. \E n : save' = [save EXCEPT ![t] = [save[t] EXCEPT !.touched = TRUE, !.next = n]]
      <4>1. save' = [save EXCEPT ![t] =
                [save[t] EXCEPT !.touched = TRUE,
                                !.next = IF After(view[t], s) # 0 THEN After(view[t], s)
                                         ELSE save[t].next]]
        BY <1>1, <2>1, <2>4, <3>1 DEF TypeOK, Save
      <4> QED BY <4>1
    <3> QED BY <1>1, <2>2, <2>4, <3>2, MarkedIsTheSame
  <2> QED BY <2>3, <2>4
<1>7. CASE RetrySave(t)
  <2> DEFINE x == Request(view[t], view[t].status, 0)
  <2>1. x \in Save /\ x.answer = "pending"
    <3>1. view[t] \in View /\ view[t].status \in Status /\ 0 \in 0..GifCount
      BY <1>1, GifAssumption DEF TypeOK, View
    <3> QED BY <3>1, RequestType DEF Request
  <2>2. save' = [save EXCEPT ![t] = x] /\ rows' = rows /\ ~InFlight(t)
    BY <1>1, <1>7 DEF RetrySave, SaveSound
  <2> HIDE DEF x
  <2> QED BY <1>1, <2>1, <2>2, SentIsInvoked DEF Register!Next
<1>8. CASE Store(t)
  BY <1>1, <1>8, StoredIsGranted DEF Register!Next
<1>9. CASE Conflict(t)
  BY <1>1, <1>9, ConflictIsRefused DEF Register!Next
<1>10. CASE Lose(t)
  BY <1>1, <1>10, LostIsLost DEF Register!Next
<1> QED BY <1>2, <1>3, <1>4, <1>5, <1>6, <1>7, <1>8, <1>9, <1>10

\* Saving an annotation is a write to a revisioned register (saveGifAnnotation): with
\* any number of tabs that type, submit, retry, reload and lose answers, a save is
\* granted once and only on the revision it was made from, and nothing else writes.
THEOREM RegisterRefinement == Spec => RegisterSpec
<1>1. Init => Register!Init
  BY DEF Init, Register!Init, Register!Unwritten, Register!NoCall, Abstract, AbstractCall, Absent,
         NoSave
<1>2. IInv /\ [Next]_vars => [Register!Next]_(Register!vars)
  <2>1. ASSUME IInv, Next PROVE Register!Next \/ UNCHANGED Register!vars
    BY <2>1, RegisterStep DEF RegisterRows, RegisterCalls, Register!vars
  <2>2. UNCHANGED vars => UNCHANGED Register!vars
    BY DEF vars, Register!vars
  <2> QED BY <2>1, <2>2
<1> QED BY <1>1, <1>2, InvCorrect, PTL DEF Spec, RegisterSpec, Register!Spec
============================================================================

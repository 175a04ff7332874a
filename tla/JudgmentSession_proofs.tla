------------------------ MODULE JudgmentSession_proofs ------------------------
(***************************************************************************)
(* Proofs about JudgmentSession for every number of tabs, queries, images  *)
(* and revisions: its types, and that no first grade is replaced by a tab  *)
(* that has not seen it.                                                   *)
(***************************************************************************)
EXTENDS JudgmentSession, FiniteSetTheorems, TLAPS

\* The rows there can be, in the database and wherever they were copied to: a grade and
\* a revision come together.
Judged ==
    {j \in [grade : Grade \cup {NoGrade}, revision : 0..MaxRevision] :
        j.grade = NoGrade <=> j.revision = 0}
Sheet == [loaded : {TRUE}, of : UNION {[S -> Judged] : S \in SUBSET Image}]

\* A call knows the row the tab saw; a transaction has read the row that it saw.
CallSound(c) ==
    /\ c.revision = 0 <=> c.seen = NoGrade
    /\ c.kind = "clear" => c.seen # NoGrade
    /\ c.kind = "grade" => c.grade # NoGrade /\ c.revision < MaxRevision
    /\ c.kind = "grade" /\ c.answer \in {"read", "saved"} => c.read = c.revision

RowsOK ==
    /\ judgment \in [Query \X Image -> Judged]
    /\ pool \in [Query -> SUBSET Image]
PagesOK ==
    /\ cache \in [Tab -> [Query -> Sheet \cup {NotLoaded}]]
    /\ fetch \in [Tab -> Sheet \cup {NoFetch}]
ViewOK == view \in [Tab -> [query : Query, index : 1..ImageCount]]
CallsOK ==
    /\ call \in [Tab -> Call \cup {NoCall}]
    /\ \A t \in Tab : call[t] # NoCall => CallSound(call[t])

IInv == RowsOK /\ PagesOK /\ ViewOK /\ CallsOK /\ upsets \in 0..MaxUpsets

----------------------------------------------------------------------------
LEMMA IInvTypes == IInv => TypeOK
<1>1. Judged \subseteq Judgment
  BY JudgmentAssumption DEF Judged, Judgment
<1>2. Sheet \subseteq Loaded
  <2>1. ASSUME NEW S \in SUBSET Image, NEW of \in [S -> Judged]
        PROVE  of \in [S -> Judgment]
    BY <1>1
  <2>2. ASSUME NEW w \in Sheet PROVE w \in Loaded
    <3>1. PICK S \in SUBSET Image : w.of \in [S -> Judged]
      BY DEF Sheet
    <3>2. w.of \in [S -> Judgment]
      BY <2>1, <3>1
    <3> QED BY <3>2 DEF Sheet, Loaded
  <2> QED BY <2>2
<1> QED BY <1>1, <1>2 DEF IInv, RowsOK, PagesOK, ViewOK, CallsOK, TypeOK

\* A set of images is finite, its size a place of the pool unless it is empty.
LEMMA ImagesCounted ==
    ASSUME NEW S \in SUBSET Image
    PROVE  /\ IsFiniteSet(S) /\ Cardinality(S) \in 0..ImageCount
           /\ S # {} => Cardinality(S) \in 1..ImageCount
<1>1. IsFiniteSet(Image) /\ Cardinality(Image) = ImageCount
  BY JudgmentAssumption, FS_Interval DEF Image
<1>2. IsFiniteSet(S) /\ Cardinality(S) <= ImageCount /\ Cardinality(S) \in Nat
  BY <1>1, FS_Subset, FS_CardinalityType
<1>3. S # {} => Cardinality(S) # 0
  BY <1>2, FS_EmptySet
<1> QED BY <1>2, <1>3, JudgmentAssumption

LEMMA SheetType ==
    ASSUME NEW w \in Sheet
    PROVE  /\ w.loaded = TRUE /\ DOMAIN w.of \in SUBSET Image
           /\ \A i \in DOMAIN w.of : w.of[i] \in Judged
<1>1. PICK S \in SUBSET Image : w.of \in [S -> Judged]
  BY DEF Sheet
<1> QED BY <1>1 DEF Sheet

LEMMA SheetMade ==
    ASSUME NEW S \in SUBSET Image, NEW of \in [S -> Judged]
    PROVE  Workspace(of) \in Sheet
BY DEF Workspace, Sheet

LEMMA PlaceType ==
    ASSUME NEW w \in Sheet
    PROVE  /\ \A i \in DOMAIN w.of : Place(w, i) \in 1..ImageCount
           /\ DOMAIN w.of # {} => Length(w) \in 1..ImageCount
           /\ FirstUnjudged(w) \in 1..ImageCount
<1>1. DOMAIN w.of \in SUBSET Image
  BY SheetType
<1>2. ASSUME NEW i \in DOMAIN w.of
      PROVE  Place(w, i) \in 1..ImageCount
  <2>1. {j \in DOMAIN w.of : j <= i} \in SUBSET Image /\ i \in {j \in DOMAIN w.of : j <= i}
    BY <1>1, JudgmentAssumption DEF Image
  <2> QED BY <2>1, ImagesCounted DEF Place
<1>3. DOMAIN w.of # {} => Length(w) \in 1..ImageCount
  BY <1>1, ImagesCounted DEF Length
<1>4. FirstUnjudged(w) \in 1..ImageCount
  <2> DEFINE open == {i \in DOMAIN w.of : w.of[i].grade = NoGrade}
             before == {j \in DOMAIN w.of : \A i \in open : j < i}
  <2>1. CASE open = {}
    BY <2>1, JudgmentAssumption DEF FirstUnjudged
  <2>2. CASE open # {}
    <3>1. PICK i \in open : TRUE
      BY <2>2
    <3>2. i \in DOMAIN w.of /\ i \notin before /\ before \in SUBSET DOMAIN w.of
      BY <1>1, <3>1, JudgmentAssumption DEF Image
    <3>3. /\ IsFiniteSet(DOMAIN w.of) /\ Cardinality(DOMAIN w.of) \in 1..ImageCount
          /\ Cardinality(before) \in 0..ImageCount
      BY <1>1, <3>2, ImagesCounted
    <3>4. Cardinality(before) < Cardinality(DOMAIN w.of)
      <4>1. Cardinality(before) <= Cardinality(DOMAIN w.of)
            /\ (Cardinality(DOMAIN w.of) = Cardinality(before) => DOMAIN w.of = before)
        BY <3>2, <3>3, FS_Subset
      <4> QED BY <3>2, <3>3, <4>1
    <3>5. FirstUnjudged(w) = Cardinality(before) + 1
      BY <2>2 DEF FirstUnjudged
    <3> QED BY <3>3, <3>4, <3>5, JudgmentAssumption
  <2> QED BY <2>1, <2>2
<1> QED BY <1>2, <1>3, <1>4

LEMMA MovedType ==
    ASSUME NEW index \in 1..ImageCount, NEW length \in 1..ImageCount
    PROVE  Moved(index, 1, length) \in 1..ImageCount
<1>1. index - 1 + 1 \in Int /\ length \in Nat \ {0} /\ length <= ImageCount
  BY JudgmentAssumption
<1>2. \A x \in Int, n \in Nat \ {0} : x % n \in 0..(n - 1)
  OBVIOUS
<1> QED BY <1>1, <1>2, JudgmentAssumption DEF Moved

LEMMA SettledType ==
    ASSUME NEW u \in Sheet \cup {NotLoaded}, NEW w \in Sheet \cup {NotLoaded},
           NEW index \in 1..ImageCount
    PROVE  Settled(u, w, index) \in 1..ImageCount
<1>1. w.loaded => w \in Sheet
  BY DEF NotLoaded
<1> QED BY <1>1, PlaceType, JudgmentAssumption DEF Settled

LEMMA FreshType ==
    ASSUME RowsOK, NEW q \in Query
    PROVE  Fresh(q) \in Sheet
<1>1. pool[q] \in SUBSET Image
  BY DEF RowsOK
<1>2. [i \in pool[q] |-> judgment[<<q, i>>]] \in [pool[q] -> Judged]
  BY <1>1 DEF RowsOK
<1> QED BY <1>1, <1>2, SheetMade DEF Fresh

\* The candidate that is shown is one of a loaded query, and has a row there.
LEMMA ActiveType ==
    ASSUME PagesOK, ViewOK, NEW t \in Tab, NEW i \in Active(t)
    PROVE  /\ Shown(t) \in Sheet /\ i \in Image /\ i \in DOMAIN Shown(t).of
           /\ Shown(t).of[i] \in Judged
           /\ Length(Shown(t)) \in 1..ImageCount
<1>1. view[t].query \in Query
  BY DEF ViewOK
<1>2. Shown(t) \in Sheet \cup {NotLoaded}
  BY <1>1 DEF PagesOK, Shown
<1>3. Shown(t).loaded /\ i \in DOMAIN Shown(t).of
  BY DEF Active
<1>4. Shown(t) \in Sheet
  BY <1>2, <1>3 DEF NotLoaded
<1> QED BY <1>3, <1>4, SheetType, PlaceType

LEMMA InitIInv == Init => IInv
<1> SUFFICES ASSUME Init PROVE IInv
  OBVIOUS
<1>1. RowsOK
  BY JudgmentAssumption DEF Init, RowsOK, Unjudged, Judged
<1>2. 1 \in Query /\ 1 \in 1..ImageCount
  BY JudgmentAssumption DEF Query
<1>3. PagesOK
  BY <1>1, <1>2, FreshType DEF Init, PagesOK
<1>4. ViewOK /\ CallsOK
  BY <1>2 DEF Init, ViewOK, CallsOK
<1> QED BY <1>1, <1>3, <1>4, JudgmentAssumption DEF IInv, Init

----------------------------------------------------------------------------
\* What the steps do to one part of the state.
LEMMA PlaceMoves ==
    ASSUME ViewOK, NEW t \in Tab, NEW index \in 1..ImageCount,
           view' = [view EXCEPT ![t].index = index]
    PROVE  ViewOK'
BY DEF ViewOK

LEMMA FetchMoves ==
    ASSUME PagesOK, UNCHANGED cache, NEW t \in Tab, NEW f \in Sheet \cup {NoFetch},
           fetch' = [fetch EXCEPT ![t] = f]
    PROVE  PagesOK'
BY DEF PagesOK

LEMMA CallMoves ==
    ASSUME CallsOK, NEW t \in Tab, NEW c \in Call \cup {NoCall}, c # NoCall => CallSound(c),
           call' = [call EXCEPT ![t] = c]
    PROVE  CallsOK'
BY DEF CallsOK

LEMMA UpsetMoves ==
    ASSUME upsets \in 0..MaxUpsets, upsets < MaxUpsets, upsets' = upsets + 1
    PROVE  upsets' \in 0..MaxUpsets
BY JudgmentAssumption

\* Another answer changes nothing else of a call.
LEMMA AnswerType ==
    ASSUME NEW c \in Call, NEW a \in {"pending", "read", "saved", "refused", "lost"}
    PROVE  /\ [c EXCEPT !.answer = a] \in Call
           /\ [c EXCEPT !.answer = a].answer = a
           /\ [c EXCEPT !.answer = a].kind = c.kind
           /\ [c EXCEPT !.answer = a].grade = c.grade
           /\ [c EXCEPT !.answer = a].revision = c.revision
           /\ [c EXCEPT !.answer = a].seen = c.seen
           /\ [c EXCEPT !.answer = a].read = c.read
BY DEF Call

LEMMA UnmountedType ==
    ASSUME NEW c \in Call
    PROVE  /\ [c EXCEPT !.mounted = FALSE] \in Call
           /\ [c EXCEPT !.mounted = FALSE].answer = c.answer
           /\ [c EXCEPT !.mounted = FALSE].kind = c.kind
           /\ [c EXCEPT !.mounted = FALSE].grade = c.grade
           /\ [c EXCEPT !.mounted = FALSE].revision = c.revision
           /\ [c EXCEPT !.mounted = FALSE].seen = c.seen
           /\ [c EXCEPT !.mounted = FALSE].read = c.read
BY DEF Call

LEMMA AnswerMoves ==
    ASSUME CallsOK, NEW t \in Tab, call[t] \in Call,
           NEW a \in {"pending", "read", "saved", "refused", "lost"},
           a = "saved" => call[t].answer = "read", a # "read", Answer(t, a)
    PROVE  CallsOK'
<1>1. PICK c \in Call :
        /\ c = [call[t] EXCEPT !.answer = a]
        /\ c.answer = a /\ c.kind = call[t].kind /\ c.grade = call[t].grade
        /\ c.revision = call[t].revision /\ c.seen = call[t].seen /\ c.read = call[t].read
  <2>1. PICK c : c = [call[t] EXCEPT !.answer = a]
    OBVIOUS
  <2>2. /\ c \in Call /\ c.answer = a /\ c.kind = call[t].kind /\ c.grade = call[t].grade
        /\ c.revision = call[t].revision /\ c.seen = call[t].seen /\ c.read = call[t].read
    BY <2>1, AnswerType, ZenonT(30)
  <2> QED BY <2>1, <2>2
<1>2. call[t] # NoCall
  BY DEF Call, NoCall
<1>3. CallSound(c)
  BY <1>1, <1>2 DEF CallsOK, CallSound
<1>4. call' = [call EXCEPT ![t] = c]
  BY <1>1 DEF Answer
<1> QED BY <1>3, <1>4, CallMoves

LEMMA InCall ==
    ASSUME CallsOK, NEW t \in Tab, call[t].answer # "idle"
    PROVE  call[t] \in Call /\ CallSound(call[t])
BY DEF CallsOK, NoCall

----------------------------------------------------------------------------
LEMMA MoveStep == ASSUME IInv, NEW t \in Tab, Move(t) PROVE IInv'
<1>1. PICK i \in DOMAIN Shown(t).of : view' = [view EXCEPT ![t].index = Place(Shown(t), i)]
  BY DEF Move
<1>2. Shown(t) \in Sheet
  BY ActiveType DEF Move, IInv
<1>3. Place(Shown(t), i) \in 1..ImageCount
  BY <1>2, PlaceType
<1>4. ViewOK'
  BY <1>1, <1>3, PlaceMoves DEF IInv
<1> QED BY <1>4, UpsetMoves DEF IInv, Move, RowsOK, PagesOK, CallsOK

LEMMA OpenQueryStep == ASSUME IInv, NEW t \in Tab, OpenQuery(t) PROVE IInv'
<1>1. PICK q \in Query :
        /\ view' = [view EXCEPT ![t] =
              [query |-> q, index |-> IF cache[t][q].loaded THEN FirstUnjudged(cache[t][q]) ELSE 1]]
        /\ fetch' = [fetch EXCEPT ![t] = Fresh(q)]
        /\ call' = IF call[t] # NoCall /\ ~cache[t][q].loaded
                   THEN [call EXCEPT ![t].mounted = FALSE] ELSE call
  BY DEF OpenQuery
<1>2. PICK index \in 1..ImageCount :
        index = IF cache[t][q].loaded THEN FirstUnjudged(cache[t][q]) ELSE 1
  <2>1. cache[t][q].loaded => cache[t][q] \in Sheet
    BY DEF IInv, PagesOK, NotLoaded
  <2> QED BY <2>1, PlaceType, JudgmentAssumption
<1>3. ViewOK'
  BY <1>1, <1>2 DEF IInv, ViewOK
<1>4. PagesOK'
  BY <1>1, FreshType, FetchMoves DEF IInv, OpenQuery
<1>5. CallsOK'
  <2>1. CASE call[t] # NoCall /\ ~cache[t][q].loaded
    <3>1. call[t] \in Call /\ CallSound(call[t])
      BY <2>1 DEF IInv, CallsOK
    <3>2. PICK c \in Call :
            /\ c = [call[t] EXCEPT !.mounted = FALSE]
            /\ c.answer = call[t].answer /\ c.kind = call[t].kind /\ c.grade = call[t].grade
            /\ c.revision = call[t].revision /\ c.seen = call[t].seen /\ c.read = call[t].read
      <4>1. PICK c : c = [call[t] EXCEPT !.mounted = FALSE]
        OBVIOUS
      <4>2. /\ c \in Call /\ c.answer = call[t].answer /\ c.kind = call[t].kind
            /\ c.grade = call[t].grade /\ c.revision = call[t].revision
            /\ c.seen = call[t].seen /\ c.read = call[t].read
        BY <3>1, <4>1, UnmountedType, Zenon
      <4> QED BY <4>1, <4>2
    <3>3. CallSound(c)
      BY <3>1, <3>2 DEF CallSound
    <3> QED BY <1>1, <2>1, <3>2, <3>3, CallMoves DEF IInv
  <2>2. CASE ~(call[t] # NoCall /\ ~cache[t][q].loaded)
    BY <1>1, <2>2 DEF IInv, CallsOK
  <2> QED BY <2>1, <2>2
<1> QED BY <1>3, <1>4, <1>5, UpsetMoves DEF IInv, OpenQuery, RowsOK

LEMMA StartLoadStep == ASSUME IInv, NEW t \in Tab, StartLoad(t) PROVE IInv'
<1>1. view[t].query \in Query
  BY DEF IInv, ViewOK
<1>2. PagesOK'
  BY <1>1, FreshType, FetchMoves DEF IInv, StartLoad
<1> QED BY <1>2 DEF IInv, StartLoad, RowsOK, ViewOK, CallsOK

LEMMA EndLoadStep == ASSUME IInv, NEW t \in Tab, EndLoad(t) PROVE IInv'
<1>1. view[t].query \in Query /\ view[t].index \in 1..ImageCount
  BY DEF IInv, ViewOK
<1>2. fetch[t] \in Sheet /\ Shown(t) \in Sheet \cup {NotLoaded}
  BY <1>1 DEF IInv, PagesOK, EndLoad, Shown
<1>3. Settled(Shown(t), fetch[t], view[t].index) \in 1..ImageCount
  BY <1>1, <1>2, SettledType
<1>4. ViewOK'
  BY <1>3, PlaceMoves DEF IInv, EndLoad
<1>5. PagesOK'
  BY <1>1, <1>2 DEF IInv, EndLoad, PagesOK
<1> QED BY <1>4, <1>5 DEF IInv, EndLoad, RowsOK, CallsOK

LEMMA AddCandidateStep == ASSUME IInv, NEW t \in Tab, AddCandidate(t) PROVE IInv'
<1>1. view[t].query \in Query
  BY DEF IInv, ViewOK
<1>2. RowsOK'
  BY <1>1 DEF IInv, AddCandidate, RowsOK
<1>3. PICK f : f = [i \in pool'[view[t].query] |-> judgment[<<view[t].query, i>>]]
  OBVIOUS
<1>4. pool'[view[t].query] \in SUBSET Image /\ f \in [pool'[view[t].query] -> Judged]
  BY <1>1, <1>2, <1>3 DEF IInv, RowsOK
<1>5. Workspace(f) \in Sheet
  BY <1>4, SheetMade
<1>6. PagesOK'
  BY <1>3, <1>5, FetchMoves DEF IInv, AddCandidate
<1> QED BY <1>2, <1>6, UpsetMoves DEF IInv, AddCandidate, ViewOK, CallsOK

\* The grade of a call is one the tab gives, its revision that of the row on the page.
LEMMA SendType ==
    ASSUME PagesOK, ViewOK, CallsOK, NEW t \in Tab, NEW i \in Active(t),
           NEW kind \in {"grade", "clear"}, NEW grade \in Grade \cup {NoGrade},
           kind = "clear" => Shown(t).of[i].grade # NoGrade,
           kind = "grade" => grade # NoGrade /\ Shown(t).of[i].revision < MaxRevision,
           Send(t, i, kind, grade)
    PROVE  CallsOK'
<1>1. PICK row \in Judged : row = Shown(t).of[i]
  BY ActiveType
<1>2. PICK length \in 1..ImageCount : length = Length(Shown(t))
  BY ActiveType
<1>3. PICK q \in Query : q = view[t].query
  BY DEF ViewOK
<1>4. PICK c : c = [answer |-> "pending", kind |-> kind, query |-> q, image |-> i,
                    grade |-> grade, revision |-> row.revision, seen |-> row.grade, read |-> 0,
                    length |-> length, mounted |-> TRUE]
  OBVIOUS
<1>5. c \in Call
  <2>1. i \in Image /\ row.revision \in 0..MaxRevision /\ row.grade \in Grade \cup {NoGrade}
        /\ 0 \in 0..MaxRevision
    BY ActiveType, JudgmentAssumption DEF Judged
  <2> QED BY <1>4, <2>1 DEF Call
<1>6. CallSound(c)
  BY <1>1, <1>4 DEF CallSound, Judged
<1>7. call' = [call EXCEPT ![t] = c]
  BY <1>1, <1>2, <1>3, <1>4, Zenon DEF Send
<1> QED BY <1>5, <1>6, <1>7, CallMoves

LEMMA GradeActiveStep == ASSUME IInv, NEW t \in Tab, GradeActive(t) PROVE IInv'
<1>1. PICK i \in Active(t), g \in Taste[t] :
        Shown(t).of[i].revision < MaxRevision /\ Send(t, i, "grade", g)
  BY DEF GradeActive
<1>2. g \in Grade \cup {NoGrade} /\ g # NoGrade
  BY JudgmentAssumption DEF Grade, NoGrade
<1>3. CallsOK'
  BY <1>1, <1>2, SendType DEF IInv
<1> QED BY <1>3 DEF IInv, GradeActive, RowsOK, PagesOK, ViewOK

LEMMA ClearGradeStep == ASSUME IInv, NEW t \in Tab, ClearGrade(t) PROVE IInv'
<1>1. PICK i \in Active(t) : Shown(t).of[i].grade # NoGrade /\ Send(t, i, "clear", NoGrade)
  BY DEF ClearGrade
<1>2. CallsOK'
  BY <1>1, SendType DEF IInv
<1> QED BY <1>2, UpsetMoves DEF IInv, ClearGrade, RowsOK, PagesOK, ViewOK

LEMMA NextKeyStep ==
    ASSUME IInv, NEW t \in Tab, SkipUnjudged(t) \/ MoveOn(t)
    PROVE  IInv'
<1>1. Length(Shown(t)) \in 1..ImageCount
  BY ActiveType DEF IInv, SkipUnjudged, MoveOn
<1>2. view[t].index \in 1..ImageCount
  BY DEF IInv, ViewOK
<1>3. view' = [view EXCEPT ![t].index = Moved(view[t].index, 1, Length(Shown(t)))]
  BY DEF SkipUnjudged, MoveOn
<1>4. ViewOK'
  BY <1>1, <1>2, <1>3, MovedType, PlaceMoves DEF IInv
<1>5. UNCHANGED <<judgment, pool, cache, fetch, call>>
      /\ (UNCHANGED upsets \/ (upsets < MaxUpsets /\ upsets' = upsets + 1))
  BY DEF SkipUnjudged, MoveOn
<1> QED BY <1>4, <1>5, UpsetMoves DEF IInv, RowsOK, PagesOK, CallsOK

----------------------------------------------------------------------------
\* The row a call is about.
LEMMA RowType ==
    ASSUME RowsOK, NEW t \in Tab, call[t] \in Call
    PROVE  <<call[t].query, call[t].image>> \in Query \X Image /\ Row(t) \in Judged
<1>1. call[t].query \in Query /\ call[t].image \in Image
  BY DEF Call
<1> QED BY <1>1 DEF RowsOK, Row

LEMMA ReadRowStep == ASSUME IInv, NEW t \in Tab, ReadRow(t) PROVE IInv'
<1>1. call[t] \in Call /\ CallSound(call[t]) /\ call[t].answer = "pending"
  BY InCall DEF IInv, ReadRow
<1>2. Row(t) \in Judged
  BY <1>1, RowType DEF IInv
<1>3. CASE Answer(t, "refused")
  BY <1>1, <1>3, AnswerMoves DEF IInv, ReadRow, RowsOK, PagesOK, ViewOK
<1>4. CASE /\ Agrees(t)
           /\ call' = [call EXCEPT ![t].answer = "read", ![t].read = Row(t).revision]
  <2>1. PICK m : m = [call[t] EXCEPT !.answer = "read"]
    OBVIOUS
  <2>2. /\ m \in Call /\ m.answer = "read" /\ m.kind = call[t].kind /\ m.grade = call[t].grade
        /\ m.revision = call[t].revision /\ m.seen = call[t].seen
    <3>1. "read" \in {"pending", "read", "saved", "refused", "lost"}
      OBVIOUS
    <3> QED BY <1>1, <2>1, <3>1, AnswerType, Zenon
  <2>3. PICK v \in 0..MaxRevision : v = Row(t).revision
    BY <1>2 DEF Judged
  <2>4. PICK c \in Call :
          /\ c = [m EXCEPT !.read = v]
          /\ c.answer = "read" /\ c.kind = call[t].kind /\ c.grade = call[t].grade
          /\ c.revision = call[t].revision /\ c.seen = call[t].seen /\ c.read = v
    <3>1. /\ [m EXCEPT !.read = v] \in Call
          /\ [m EXCEPT !.read = v].answer = m.answer
          /\ [m EXCEPT !.read = v].kind = m.kind
          /\ [m EXCEPT !.read = v].grade = m.grade
          /\ [m EXCEPT !.read = v].revision = m.revision
          /\ [m EXCEPT !.read = v].seen = m.seen
          /\ [m EXCEPT !.read = v].read = v
      BY <2>2 DEF Call
    <3>2. PICK c : c = [m EXCEPT !.read = v]
      OBVIOUS
    <3>3. /\ c \in Call /\ c.answer = "read" /\ c.kind = call[t].kind
          /\ c.grade = call[t].grade /\ c.revision = call[t].revision
          /\ c.seen = call[t].seen /\ c.read = v
      BY <2>2, <3>1, <3>2, Zenon
    <3> QED BY <3>2, <3>3
  <2>5. call' = [call EXCEPT ![t] = c]
    BY <1>4, <2>1, <2>3, <2>4, Zenon
  <2>6. CallSound(c)
    BY <1>1, <1>4, <2>3, <2>4 DEF CallSound, Agrees
  <2>7. CallsOK'
    BY <2>5, <2>6, CallMoves DEF IInv
  <2> QED BY <2>7 DEF IInv, ReadRow, RowsOK, PagesOK, ViewOK
<1> QED BY <1>3, <1>4 DEF ReadRow

LEMMA UnjudgedType == Unjudged \in Judged
BY JudgmentAssumption DEF Judged, Unjudged

\* What a call writes and what the pages make of it is a row.
LEMMA WrittenType ==
    ASSUME RowsOK, NEW t \in Tab, call[t] \in Call, CallSound(call[t]),
           call[t].answer \in {"read", "saved"}
    PROVE  /\ Written(t) \in Judged
           /\ call[t].kind = "grade" =>
                [grade |-> call[t].grade, revision |-> call[t].read + 1] \in Judged
<1>1. Row(t) \in Judged /\ Unjudged \in Judged
  BY RowType, UnjudgedType
<1>2. call[t].kind = "grade" =>
        [grade |-> call[t].grade, revision |-> call[t].read + 1] \in Judged
  <2> SUFFICES ASSUME call[t].kind = "grade"
               PROVE  [grade |-> call[t].grade, revision |-> call[t].read + 1] \in Judged
    OBVIOUS
  <2>1. PICK g \in Grade \cup {NoGrade}, n \in 0..MaxRevision :
          g = call[t].grade /\ n = call[t].read /\ g # NoGrade /\ n < MaxRevision
    BY DEF Call, CallSound
  <2>2. [grade |-> g, revision |-> n + 1] \in Judged
    BY <2>1, JudgmentAssumption DEF Judged
  <2> QED BY <2>1, <2>2
<1>3. call[t].kind \in {"grade", "clear"}
  BY DEF Call
<1> QED BY <1>1, <1>2, <1>3 DEF Written

LEMMA WriteRowStep == ASSUME IInv, NEW t \in Tab, WriteRow(t) PROVE IInv'
<1>1. call[t] \in Call /\ CallSound(call[t]) /\ call[t].answer = "read"
  BY InCall DEF IInv, WriteRow
<1>2. CASE ~Fits(t)
  BY <1>1, <1>2, AnswerMoves DEF IInv, WriteRow, RowsOK, PagesOK, ViewOK
<1>3. CASE Fits(t)
  <2>1. judgment' = [judgment EXCEPT ![<<call[t].query, call[t].image>>] = Written(t)]
        /\ Answer(t, "saved")
    BY <1>3 DEF WriteRow
  <2>2. Written(t) \in Judged
    BY <1>1, WrittenType DEF IInv
  <2>3. RowsOK'
    BY <2>1, <2>2 DEF IInv, RowsOK, WriteRow
  <2>4. CallsOK'
    BY <1>1, <2>1, AnswerMoves DEF IInv
  <2> QED BY <2>3, <2>4 DEF IInv, WriteRow, PagesOK, ViewOK
<1> QED BY <1>2, <1>3

LEMMA LoseCallStep == ASSUME IInv, NEW t \in Tab, LoseCall(t) PROVE IInv'
<1>1. call[t] \in Call
  BY InCall DEF IInv, LoseCall
<1>2. CallsOK'
  BY <1>1, AnswerMoves DEF IInv, LoseCall
<1> QED BY <1>2, UpsetMoves DEF IInv, LoseCall, RowsOK, PagesOK, ViewOK

LEMMA MergeType ==
    ASSUME RowsOK, NEW t \in Tab, call[t] \in Call, CallSound(call[t]),
           call[t].answer = "saved", NEW w \in Sheet \cup {NotLoaded}
    PROVE  Merge(w, call[t]) \in Sheet \cup {NotLoaded}
<1>1. PICK row \in Judged :
        row = IF call[t].kind = "clear" THEN Unjudged
              ELSE [grade |-> call[t].grade, revision |-> call[t].read + 1]
  <2>1. call[t].kind \in {"grade", "clear"}
    BY DEF Call
  <2>2. CASE call[t].kind = "clear"
    BY <2>2, UnjudgedType
  <2>3. CASE call[t].kind = "grade"
    <3>1. [grade |-> call[t].grade, revision |-> call[t].read + 1] \in Judged
      BY <2>3, WrittenType
    <3> QED BY <2>3, <3>1
  <2> QED BY <2>1, <2>2, <2>3
<1>2. CASE w.loaded /\ call[t].image \in DOMAIN w.of
  <2>1. w \in Sheet
    BY <1>2 DEF NotLoaded
  <2>2. PICK S \in SUBSET Image : w.of \in [S -> Judged]
    BY <2>1 DEF Sheet
  <2>3. [w.of EXCEPT ![call[t].image] = row] \in [S -> Judged]
    BY <2>2
  <2>4. Merge(w, call[t]) = Workspace([w.of EXCEPT ![call[t].image] = row])
    BY <1>1, <1>2 DEF Merge
  <2> QED BY <2>3, <2>4, SheetMade
<1>3. CASE ~(w.loaded /\ call[t].image \in DOMAIN w.of)
  BY <1>3 DEF Merge
<1> QED BY <1>2, <1>3

LEMMA TakeAnswerStep == ASSUME IInv, NEW t \in Tab, TakeAnswer(t) PROVE IInv'
<1> DEFINE merged == [q \in Query |-> Merge(cache[t][q], call[t])]
           moved == IF call[t].mounted THEN Moved(view[t].index, 1, call[t].length)
                                       ELSE view[t].index
<1>1. call[t] \in Call /\ CallSound(call[t]) /\ call[t].answer = "saved"
  BY InCall DEF IInv, TakeAnswer
<1>2. view[t].query \in Query /\ view[t].index \in 1..ImageCount
      /\ call[t].length \in 1..ImageCount
  BY <1>1 DEF IInv, ViewOK, Call
<1>3. merged \in [Query -> Sheet \cup {NotLoaded}]
  BY <1>1, MergeType DEF IInv, PagesOK
<1>4. moved \in 1..ImageCount
  BY <1>2, MovedType
<1>5. /\ cache' = [cache EXCEPT ![t] = merged]
      /\ view' = [view EXCEPT ![t].index = Settled(Shown(t), merged[view[t].query], moved)]
      /\ call' = [call EXCEPT ![t] = NoCall]
      /\ UNCHANGED <<judgment, pool, fetch, upsets>>
  BY DEF TakeAnswer
<1> HIDE DEF merged, moved
<1>6. Shown(t) \in Sheet \cup {NotLoaded} /\ merged[view[t].query] \in Sheet \cup {NotLoaded}
  BY <1>2, <1>3 DEF IInv, PagesOK, Shown
<1>7. Settled(Shown(t), merged[view[t].query], moved) \in 1..ImageCount
  BY <1>4, <1>6, SettledType
<1>8. ViewOK'
  BY <1>5, <1>7, PlaceMoves DEF IInv
<1>9. PagesOK'
  BY <1>3, <1>5 DEF IInv, PagesOK
<1>10. CallsOK'
  BY <1>5, CallMoves DEF IInv
<1> QED BY <1>5, <1>8, <1>9, <1>10 DEF IInv, RowsOK

LEMMA TakeFailureStep == ASSUME IInv, NEW t \in Tab, TakeFailure(t) PROVE IInv'
<1>1. CallsOK'
  BY CallMoves DEF IInv, TakeFailure
<1> QED BY <1>1 DEF IInv, TakeFailure, RowsOK, PagesOK, ViewOK

----------------------------------------------------------------------------
\* The inductive invariant: a row, wherever it was copied to, has a grade exactly when it
\* has a revision, so the revision a call carries says whether its tab saw a grade, and
\* what a transaction reads to grade is what the tab saw.
THEOREM InvCorrect == Spec => []IInv
<1>1. Init => IInv
  BY InitIInv
<1>2. IInv /\ [Next]_vars => IInv'
  <2>1. IInv /\ UNCHANGED vars => IInv'
    BY DEF IInv, vars, RowsOK, PagesOK, ViewOK, CallsOK
  <2>2. IInv /\ Next => IInv'
    BY MoveStep, OpenQueryStep, StartLoadStep, EndLoadStep, AddCandidateStep, GradeActiveStep,
       ClearGradeStep, NextKeyStep, ReadRowStep, WriteRowStep, LoseCallStep, TakeAnswerStep,
       TakeFailureStep DEF Next
  <2> QED BY <2>1, <2>2
<1> QED BY <1>1, <1>2, PTL DEF Spec

\* Every variable keeps its type; a tab shows a place of a pool, however the pools of
\* its queries grow and wherever the session moves on to.
THEOREM TypeCorrect == Spec => []TypeOK
BY InvCorrect, IInvTypes, PTL

\* Only the write of a row changes it.
LEMMA OnlyWritten ==
    ASSUME [Next]_vars, judgment' # judgment
    PROVE  \E t \in Tab : WriteRow(t)
BY DEF Next, vars, Move, OpenQuery, StartLoad, EndLoad, AddCandidate, GradeActive, ClearGrade,
   SkipUnjudged, MoveOn, ReadRow, LoseCall, TakeAnswer, TakeFailure

\* A grade is replaced or removed by a tab only that has seen one, however many
\* transactions of save_judgment and of the removal interleave: the second of two first
\* grades finds the row of the first.
THEOREM FirstGradeKeptCorrect == Spec => FirstGradeKept
<1>1. ASSUME IInv, [Next]_vars, NEW k \in Query \X Image,
             judgment[k].grade # NoGrade, judgment'[k] # judgment[k]
      PROVE  \E t \in Tab : Writes(t, k) /\ call[t].seen # NoGrade
  <2>1. PICK t \in Tab : WriteRow(t)
    BY <1>1, OnlyWritten
  <2>2. call[t] \in Call /\ CallSound(call[t]) /\ call[t].answer = "read" /\ Row(t) \in Judged
    BY <1>1, <2>1, InCall, RowType DEF IInv, WriteRow
  <2>3. /\ Fits(t) /\ Answer(t, "saved")
        /\ judgment' = [judgment EXCEPT ![<<call[t].query, call[t].image>>] = Written(t)]
    BY <1>1, <2>1 DEF WriteRow
  <2>4. k = <<call[t].query, call[t].image>> /\ Row(t) = judgment[k]
    BY <1>1, <2>3 DEF IInv, RowsOK, Row
  <2>5. call'[t].answer = "saved"
    BY <1>1, <2>2, <2>3, AnswerType DEF Answer, IInv, CallsOK
  <2>6. call[t].seen # NoGrade
    <3>1. Row(t).revision # 0
      BY <1>1, <2>2, <2>4 DEF Judged
    <3>2. CASE call[t].kind = "clear"
      BY <2>2, <3>2 DEF CallSound
    <3>3. CASE call[t].kind = "grade"
      <4>1. call[t].read # 0
        BY <2>3, <3>1, <3>3 DEF Fits, Exists
      <4> QED BY <2>2, <3>3, <4>1 DEF CallSound
    <3> QED BY <2>2, <3>2, <3>3 DEF Call
  <2> QED BY <2>2, <2>4, <2>5, <2>6 DEF Writes
<1>2. IInv /\ [Next]_vars =>
        \A k \in Query \X Image :
          judgment[k].grade # NoGrade /\ judgment'[k] # judgment[k]
              => \E t \in Tab : Writes(t, k) /\ call[t].seen # NoGrade
  BY <1>1
<1> QED BY <1>2, InvCorrect, PTL DEF Spec, FirstGradeKept
----------------------------------------------------------------------------
(* What is graded and what is listed is in the pool.                       *)

\* The candidates a page lists are in the pool S.
Listed(w, S) == w.loaded => DOMAIN w.of \subseteq S

\* A grade is given to candidates only; a page lists candidates of the query it shows or
\* has shown, as does the answer of a load that is on its way.
GradedArePooled ==
    \A q \in Query, i \in Image : judgment[<<q, i>>].grade # NoGrade => i \in pool[q]
ListedArePooled ==
    \A t \in Tab :
        /\ \A q \in Query : Listed(cache[t][q], pool[q])
        /\ Listed(fetch[t], pool[view[t].query])
ReadArePooled ==
    \A t \in Tab :
        call[t].answer = "read" /\ call[t].kind = "grade" => call[t].image \in pool[call[t].query]
CandidatesOnly == GradedArePooled /\ ListedArePooled

\* No candidate leaves a pool.
LEMMA PoolsGrow ==
    ASSUME IInv, [Next]_vars, NEW q \in Query
    PROVE  pool[q] \subseteq pool'[q]
<1>1. CASE UNCHANGED pool
  BY <1>1
<1>2. ASSUME NEW t \in Tab, AddCandidate(t) PROVE pool[q] \subseteq pool'[q]
  BY <1>2 DEF AddCandidate, IInv, RowsOK
<1> QED BY <1>1, <1>2 DEF Next, vars, Move, OpenQuery, StartLoad, EndLoad, GradeActive,
   ClearGrade, SkipUnjudged, MoveOn, ReadRow, WriteRow, LoseCall, TakeAnswer, TakeFailure

LEMMA ListedStays ==
    ASSUME IInv, [Next]_vars, NEW q \in Query, NEW w, Listed(w, pool[q])
    PROVE  Listed(w, pool'[q])
BY PoolsGrow DEF Listed

\* What is loaded of a query lists its pool.
LEMMA FreshLists ==
    ASSUME NEW q
    PROVE  Listed(Fresh(q), pool[q])
<1>1. PICK of : of = [i \in pool[q] |-> judgment[<<q, i>>]]
  OBVIOUS
<1>2. DOMAIN of = pool[q]
  BY <1>1
<1>3. Fresh(q) = Workspace(of) /\ Workspace(of).of = of
  BY <1>1 DEF Fresh, Workspace
<1> QED BY <1>2, <1>3 DEF Listed

\* The answer of a save adds no candidate to a page.
LEMMA MergeLists ==
    ASSUME NEW w, NEW c, NEW S, Listed(w, S)
    PROVE  Listed(Merge(w, c), S)
<1>1. CASE w.loaded /\ c.image \in DOMAIN w.of
  <2>1. PICK row : row = IF c.kind = "clear" THEN Unjudged
                         ELSE [grade |-> c.grade, revision |-> c.read + 1]
    OBVIOUS
  <2>2. PICK of : of = [w.of EXCEPT ![c.image] = row]
    OBVIOUS
  <2>3. DOMAIN of = DOMAIN w.of
    BY <2>2
  <2>4. Merge(w, c) = Workspace(of) /\ Workspace(of).of = of
    BY <1>1, <2>1, <2>2 DEF Merge, Workspace
  <2> QED BY <1>1, <2>3, <2>4 DEF Listed
<1>2. CASE ~(w.loaded /\ c.image \in DOMAIN w.of)
  BY <1>2 DEF Merge
<1> QED BY <1>1, <1>2

LEMMA GradedStep ==
    ASSUME IInv, GradedArePooled, ReadArePooled, [Next]_vars
    PROVE  GradedArePooled'
<1> SUFFICES ASSUME NEW q \in Query, NEW i \in Image, judgment'[<<q, i>>].grade # NoGrade
             PROVE  i \in pool'[q]
  BY DEF GradedArePooled
<1>1. CASE judgment'[<<q, i>>] = judgment[<<q, i>>]
  BY <1>1, PoolsGrow DEF GradedArePooled
<1>2. CASE judgment'[<<q, i>>] # judgment[<<q, i>>]
  <2>1. PICK t \in Tab : WriteRow(t)
    BY <1>2, OnlyWritten
  <2>2. call[t] \in Call /\ call[t].answer = "read"
    BY <2>1, InCall DEF IInv, WriteRow
  <2>3. judgment' = [judgment EXCEPT ![<<call[t].query, call[t].image>>] = Written(t)]
    BY <1>2, <2>1 DEF WriteRow
  <2>4. <<q, i>> = <<call[t].query, call[t].image>> /\ judgment'[<<q, i>>] = Written(t)
        /\ Row(t) = judgment[<<q, i>>]
    BY <1>2, <2>3 DEF IInv, RowsOK, Row
  <2>5. q = call[t].query /\ i = call[t].image
    BY <2>4
  <2>6. CASE call[t].kind = "clear"
    BY <1>2, <2>4, <2>6 DEF Written, Unjudged
  <2>7. CASE call[t].kind = "grade"
    <3>1. i \in pool[q]
      BY <2>2, <2>5, <2>7 DEF ReadArePooled
    <3> QED BY <3>1, PoolsGrow
  <2> QED BY <2>2, <2>6, <2>7 DEF Call
<1> QED BY <1>1, <1>2

\* A transaction that goes on to write a grade has looked the candidate up in the pool.
LEMMA ReadStep ==
    ASSUME IInv, ReadArePooled, [Next]_vars
    PROVE  ReadArePooled'
<1> SUFFICES ASSUME NEW t \in Tab, call'[t].answer = "read", call'[t].kind = "grade"
             PROVE  call'[t].image \in pool'[call'[t].query]
  BY DEF ReadArePooled
<1>1. call \in [Tab -> Call \cup {NoCall}]
  BY DEF IInv, CallsOK
<1>2. CASE call'[t] = call[t]
  <2>1. call[t] \in Call
    BY <1>2, InCall DEF IInv
  <2>2. call[t].query \in Query /\ call[t].image \in pool[call[t].query]
    BY <1>2, <2>1 DEF Call, ReadArePooled
  <2> QED BY <1>2, <2>2, PoolsGrow
<1>3. ASSUME NEW u \in Tab, Answer(u, "refused") \/ Answer(u, "saved") \/ Answer(u, "lost"),
             call[u] \in Call, call'[t] # call[t]
      PROVE  FALSE
  <2>1. PICK a : a \in {"refused", "saved", "lost"} /\ Answer(u, a)
    BY <1>3
  <2>2. u = t
    BY <1>1, <1>3, <2>1 DEF Answer
  <2>3. call'[t] = [call[t] EXCEPT !.answer = a]
    BY <1>1, <2>1, <2>2 DEF Answer
  <2>4. call'[t].answer = a
    BY <1>3, <2>2, <2>3 DEF Call
  <2> QED BY <2>1, <2>4
<1>4. ASSUME NEW u \in Tab, ReadRow(u), call'[t] # call[t]
      PROVE  call'[t].image \in pool'[call'[t].query]
  <2>1. call[u] \in Call
    BY <1>4, InCall DEF IInv, ReadRow
  <2>2. /\ call[u].kind = "grade" => call[u].image \in pool[call[u].query]
        /\ call' = [call EXCEPT ![u].answer = "read", ![u].read = Row(u).revision]
    BY <1>3, <1>4, <2>1 DEF ReadRow
  <2>3. u = t
    BY <1>1, <1>4, <2>2
  <2>4. PICK v, m : v = Row(t).revision /\ m = [call[t] EXCEPT !.answer = "read"]
    OBVIOUS
  <2>5. call'[t] = [m EXCEPT !.read = v]
    BY <1>1, <2>2, <2>3, <2>4
  <2>6. m.kind = call[t].kind /\ m.image = call[t].image /\ m.query = call[t].query
        /\ DOMAIN m = DOMAIN call[t]
    BY <2>1, <2>3, <2>4 DEF Call
  <2>7. /\ call'[t].kind = call[t].kind /\ call'[t].image = call[t].image
        /\ call'[t].query = call[t].query
    BY <2>1, <2>3, <2>5, <2>6 DEF Call
  <2>8. call[t].query \in Query /\ call[t].image \in pool[call[t].query]
    BY <2>1, <2>2, <2>3, <2>7 DEF Call
  <2> QED BY <2>7, <2>8, PoolsGrow
<1>5. ASSUME NEW u \in Tab, WriteRow(u) \/ LoseCall(u), call'[t] # call[t] PROVE FALSE
  BY <1>3, <1>5, InCall DEF IInv, WriteRow, LoseCall
<1>6. ASSUME NEW u \in Tab, GradeActive(u) \/ ClearGrade(u), call'[t] # call[t] PROVE FALSE
  <2>1. PICK i, kind, grade : Send(u, i, kind, grade)
    BY <1>6 DEF GradeActive, ClearGrade
  <2>2. PICK c : c = [answer |-> "pending", kind |-> kind, query |-> view[u].query, image |-> i,
                      grade |-> grade, revision |-> Shown(u).of[i].revision,
                      seen |-> Shown(u).of[i].grade, read |-> 0,
                      length |-> Length(Shown(u)), mounted |-> TRUE]
    OBVIOUS
  <2>3. call' = [call EXCEPT ![u] = c] /\ c.answer = "pending"
    BY <2>1, <2>2 DEF Send
  <2> QED BY <1>1, <1>6, <2>3
<1>7. ASSUME NEW u \in Tab, TakeAnswer(u) \/ TakeFailure(u), call'[t] # call[t] PROVE FALSE
  <2>1. call' = [call EXCEPT ![u] = NoCall] /\ NoCall.answer # "read"
    BY <1>7 DEF TakeAnswer, TakeFailure, NoCall
  <2> QED BY <1>1, <1>7, <2>1
<1>8. ASSUME NEW u \in Tab, OpenQuery(u), call'[t] # call[t]
      PROVE  call'[t].image \in pool'[call'[t].query]
  <2>1. call' = [call EXCEPT ![u].mounted = FALSE] /\ call[u] # NoCall
    BY <1>8 DEF OpenQuery
  <2>2. u = t /\ call[t] \in Call
    BY <1>1, <1>8, <2>1
  <2>3. call'[t] = [call[t] EXCEPT !.mounted = FALSE]
    BY <1>1, <2>1, <2>2
  <2>4. /\ call'[t].kind = call[t].kind /\ call'[t].image = call[t].image
        /\ call'[t].query = call[t].query /\ call'[t].answer = call[t].answer
    BY <2>2, <2>3 DEF Call
  <2>5. call[t].query \in Query /\ call[t].image \in pool[call[t].query]
    BY <2>2, <2>4 DEF Call, ReadArePooled
  <2> QED BY <2>4, <2>5, PoolsGrow
<1> QED BY <1>2, <1>4, <1>5, <1>6, <1>7, <1>8
        DEF Next, vars, Move, StartLoad, EndLoad, AddCandidate, SkipUnjudged, MoveOn

\* A load that ends is put where it was asked for: a page that turns to another query
\* gives up the load of the one it leaves.
LEMMA ListedStep ==
    ASSUME IInv, ListedArePooled, [Next]_vars
    PROVE  ListedArePooled'
<1>1. /\ cache \in [Tab -> [Query -> Sheet \cup {NotLoaded}]]
      /\ fetch \in [Tab -> Sheet \cup {NoFetch}]
      /\ view \in [Tab -> [query : Query, index : 1..ImageCount]]
      /\ pool \in [Query -> SUBSET Image]
  BY DEF IInv, PagesOK, ViewOK, RowsOK
<1>2. ASSUME NEW t \in Tab, NEW q \in Query PROVE Listed(cache'[t][q], pool'[q])
  <2>1. Listed(cache[t][q], pool'[q])
    BY ListedStays DEF ListedArePooled
  <2>2. CASE UNCHANGED cache
    BY <2>1, <2>2
  <2>3. ASSUME NEW u \in Tab, EndLoad(u) PROVE Listed(cache'[t][q], pool'[q])
    <3>1. cache' = [cache EXCEPT ![u][view[u].query] = fetch[u]]
      BY <2>3 DEF EndLoad
    <3>2. cache'[t][q] = IF t = u /\ q = view[u].query THEN fetch[u] ELSE cache[t][q]
      BY <1>1, <3>1
    <3>3. t = u /\ q = view[u].query => Listed(fetch[u], pool'[q])
      BY ListedStays DEF ListedArePooled
    <3> QED BY <2>1, <3>2, <3>3
  <2>4. ASSUME NEW u \in Tab, TakeAnswer(u) PROVE Listed(cache'[t][q], pool'[q])
    <3>1. PICK merged : merged = [r \in Query |-> Merge(cache[u][r], call[u])]
      OBVIOUS
    <3>2. cache' = [cache EXCEPT ![u] = merged] /\ merged[q] = Merge(cache[u][q], call[u])
      BY <2>4, <3>1 DEF TakeAnswer
    <3>3. cache'[t][q] = IF t = u THEN Merge(cache[t][q], call[u]) ELSE cache[t][q]
      BY <1>1, <3>2
    <3> QED BY <2>1, <3>3, MergeLists
  <2> QED BY <2>2, <2>3, <2>4 DEF Next, vars, Move, OpenQuery, StartLoad, AddCandidate,
             GradeActive, ClearGrade, SkipUnjudged, MoveOn, ReadRow, WriteRow, LoseCall, TakeFailure
<1>3. ASSUME NEW t \in Tab PROVE Listed(fetch'[t], pool'[view'[t].query])
  <2>1. view[t].query \in Query /\ Listed(fetch[t], pool[view[t].query])
    BY <1>1 DEF ListedArePooled
  <2>2. ASSUME fetch'[t] = fetch[t], view'[t].query = view[t].query
        PROVE  Listed(fetch'[t], pool'[view'[t].query])
    BY <2>1, <2>2, ListedStays
  <2>3. ASSUME NEW u \in Tab, NEW index, UNCHANGED fetch,
               view' = [view EXCEPT ![u].index = index]
        PROVE  Listed(fetch'[t], pool'[view'[t].query])
    <3>1. view'[t].query = view[t].query
      BY <1>1, <2>3
    <3> QED BY <2>2, <2>3, <3>1
  <2>4. CASE UNCHANGED <<fetch, view>>
    BY <2>2, <2>4
  <2>5. ASSUME NEW u \in Tab, Move(u) \/ SkipUnjudged(u) \/ MoveOn(u) \/ TakeAnswer(u)
        PROVE  Listed(fetch'[t], pool'[view'[t].query])
    BY <2>3, <2>5 DEF Move, SkipUnjudged, MoveOn, TakeAnswer
  <2>6. ASSUME NEW u \in Tab, NEW q \in Query, NEW f, Listed(f, pool'[q]),
               fetch' = [fetch EXCEPT ![u] = f], view'[u].query = q,
               \A o \in Tab \ {u} : view'[o].query = view[o].query
        PROVE  Listed(fetch'[t], pool'[view'[t].query])
    <3>1. CASE t = u
      BY <1>1, <2>6, <3>1
    <3>2. CASE t # u
      BY <1>1, <2>2, <2>6, <3>2
    <3> QED BY <3>1, <3>2
  <2>7. ASSUME NEW u \in Tab, OpenQuery(u) PROVE Listed(fetch'[t], pool'[view'[t].query])
    <3>1. PICK q, v : /\ q \in Query
                    /\ view' = [view EXCEPT ![u] = [query |-> q, index |-> v]]
                    /\ fetch' = [fetch EXCEPT ![u] = Fresh(q)]
      BY <2>7 DEF OpenQuery
    <3>2. PICK f : f = Fresh(q) /\ Listed(f, pool[q])
      BY FreshLists
    <3>3. view'[u].query = q /\ \A o \in Tab \ {u} : view'[o].query = view[o].query
      BY <1>1, <3>1
    <3>4. Listed(f, pool'[q])
      BY <3>1, <3>2, ListedStays
    <3> QED BY <2>6, <3>1, <3>2, <3>3, <3>4
  <2>8. ASSUME NEW u \in Tab, StartLoad(u) PROVE Listed(fetch'[t], pool'[view'[t].query])
    <3>1. PICK q, f : q = view[u].query /\ q \in Query /\ f = Fresh(q) /\ Listed(f, pool[q])
      BY <1>1, FreshLists
    <3>2. fetch' = [fetch EXCEPT ![u] = f] /\ UNCHANGED view
      BY <2>8, <3>1 DEF StartLoad
    <3>3. Listed(f, pool'[q])
      BY <3>1, ListedStays
    <3> QED BY <2>6, <3>1, <3>2, <3>3
  <2>9. ASSUME NEW u \in Tab, EndLoad(u) PROVE Listed(fetch'[t], pool'[view'[t].query])
    <3>1. PICK q, f : q = view[u].query /\ q \in Query /\ f = NoFetch
      BY <1>1
    <3>2. PICK v : view' = [view EXCEPT ![u].index = v]
      BY <2>9 DEF EndLoad
    <3>3. fetch' = [fetch EXCEPT ![u] = f] /\ Listed(f, pool'[q])
      BY <2>9, <3>1 DEF EndLoad, NoFetch, Listed
    <3>4. \A o \in Tab : view'[o].query = view[o].query
      BY <1>1, <3>2
    <3> QED BY <2>6, <3>1, <3>3, <3>4
  <2>10. ASSUME NEW u \in Tab, AddCandidate(u) PROVE Listed(fetch'[t], pool'[view'[t].query])
    <3>1. PICK q \in Query : q = view[u].query
      BY <1>1
    <3>2. PICK of : of = [i \in pool'[q] |-> judgment[<<q, i>>]]
      OBVIOUS
    <3>3. PICK f : f = Workspace(of) /\ f.of = of
      <4>1. PICK f : f = Workspace(of)
        OBVIOUS
      <4> QED BY <4>1 DEF Workspace
    <3>4. Listed(f, pool'[q])
      BY <3>2, <3>3 DEF Listed
    <3>5. fetch' = [fetch EXCEPT ![u] = f] /\ UNCHANGED view
      BY <2>10, <3>1, <3>2, <3>3 DEF AddCandidate
    <3> QED BY <2>6, <3>1, <3>4, <3>5
  <2> QED BY <2>4, <2>5, <2>7, <2>8, <2>9, <2>10 DEF Next, vars, GradeActive, ClearGrade,
             ReadRow, WriteRow, LoseCall, TakeFailure
<1> QED BY <1>2, <1>3 DEF ListedArePooled

\* Grades are given to candidates only and pages list candidates only, whatever is added
\* to the pools, wherever the session moves and however late loads end (save_judgment and
\* the caches by query): the grade of an image that is in no pool of its query could not
\* be shown or cleared again.
THEOREM CandidatesOnlyCorrect == Spec => []CandidatesOnly
<1> DEFINE Inv == GradedArePooled /\ ListedArePooled /\ ReadArePooled
<1>1. Init => Inv
  <2> SUFFICES ASSUME Init PROVE Inv
    OBVIOUS
  <2>1. GradedArePooled
    BY DEF Init, GradedArePooled, Unjudged
  <2>2. ASSUME NEW t \in Tab, NEW q \in Query PROVE Listed(cache[t][q], pool[q])
    <3>1. cache[t][q] = IF q = 1 THEN Fresh(q) ELSE NotLoaded
      BY DEF Init
    <3> QED BY <3>1, FreshLists DEF Listed, NotLoaded
  <2>3. ASSUME NEW t \in Tab PROVE Listed(fetch[t], pool[view[t].query])
    BY DEF Init, Listed, NoFetch
  <2>4. ReadArePooled
    BY DEF Init, ReadArePooled, NoCall
  <2> QED BY <2>1, <2>2, <2>3, <2>4 DEF ListedArePooled
<1>2. IInv /\ Inv /\ [Next]_vars => Inv'
  BY GradedStep, ListedStep, ReadStep
<1>3. Inv => CandidatesOnly
  BY DEF CandidatesOnly
<1> QED BY InvCorrect, <1>1, <1>2, <1>3, PTL DEF Spec
=============================================================================

--------------------------- MODULE SourceForm_proofs ---------------------------
(***************************************************************************)
(* Proofs about SourceForm for every set of tabs, sources and settings:    *)
(* its types, that an untouched sheet has the record of its page, that a   *)
(* sheet that closes on a save shows it, and that a deletion is final.     *)
(***************************************************************************)
EXTENDS SourceForm, FiniteSetTheorems, TLAPS

Entry == Record \cup {None}
Read == [running : {TRUE}, answer : Entry] \cup {NoRead}
Sheet == [open : {TRUE}, values : Form, touched : BOOLEAN] \cup {Closed}
SentCall(k) ==
    [state : {"sent"}, id : Id \cup {None}, set : IF k = "remove" THEN {None} ELSE Settings,
     mounted : BOOLEAN]
FoundCall(k) ==
    [state : {"found"}, id : Id, set : IF k = "remove" THEN {None} ELSE Settings,
     was : Settings, mounted : BOOLEAN]
DoneCall == [state : {"done", "settling"}, id : Id, version : 0..MaxCalls, mounted : BOOLEAN]
Failed == [state |-> "failed"]
Call(k) == SentCall(k) \cup FoundCall(k) \cup DoneCall \cup {Idle, Failed}
AnyCall == UNION {Call(k) : k \in Kind}

Shapes ==
    /\ source \in [Id -> Entry]
    /\ page \in [Tab -> Id \cup {None}]
    /\ cache \in [Tab -> [Id -> Entry]]
    /\ read \in [Tab -> Read]
    /\ sheet \in [Tab -> Sheet]
    /\ call \in [Tab -> [Kind -> AnyCall]]
    /\ \A t \in Tab, k \in Kind : call[t][k] \in Call(k)
    /\ calls \in 0..MaxCalls
    /\ faults \in 0..MaxFaults

\* A record has been patched at most as often as calls were made and have ended.
Underway == {"sent", "found"}
InFlight == {w \in Tab \X Kind : call[w[1]][w[2]].state \in Underway}
VersionsSound ==
    /\ IsFiniteSet(InFlight) /\ Cardinality(InFlight) <= calls
    /\ \A id \in Id : Exists(id) => source[id].version + Cardinality(InFlight) <= calls

\* The list waits for no record.
ReadSound == \A t \in Tab : page[t] = None /\ read[t].running => read[t].answer = None

\* A call that is done has left its version in the record, and what is read since then of
\* the page it settles on has it.
DoneSound ==
    \A t \in Tab, k \in Kind :
        call[t][k].state \in {"done", "settling"} =>
            Exists(call[t][k].id) /\ call[t][k].version <= source[call[t][k].id].version
FoundSound == \A t \in Tab, k \in Kind : call[t][k].state = "found" => Exists(call[t][k].id)
SettleSound ==
    \A t \in Tab :
        /\ call[t].save.state = "settling" /\ page[t] = call[t].save.id
        /\ read[t].running /\ read[t].answer # None
        => call[t].save.version <= read[t].answer.version

IInv ==
    /\ Shapes
    /\ VersionsSound
    /\ ReadSound
    /\ DoneSound
    /\ FoundSound
    /\ SettleSound
    /\ UntouchedSheetIsLatest

----------------------------------------------------------------------------
\* What a read and a sheet have.
LEMMA ReadFields ==
    ASSUME NEW r \in Read
    PROVE  (r.running => r.answer \in Entry) /\ (~r.running => r = NoRead)
<1>1. CASE r = NoRead
  BY <1>1 DEF NoRead
<1>2. CASE r \in [running : {TRUE}, answer : Entry]
  BY <1>2
<1> QED BY <1>1, <1>2 DEF Read

LEMMA SheetFields ==
    ASSUME NEW s \in Sheet
    PROVE  (s.open => s.values \in Form) /\ (~s.open => s = Closed)
<1>1. CASE s = Closed
  BY <1>1 DEF Closed
<1>2. CASE s \in [open : {TRUE}, values : Form, touched : BOOLEAN]
  BY <1>2
<1> QED BY <1>1, <1>2 DEF Sheet

LEMMA IInvTypes == IInv => TypeOK
<1> SUFFICES ASSUME IInv PROVE TypeOK
  OBVIOUS
<1>1. \A t \in Tab : read[t].running => read[t].answer \in Record \cup {None}
  BY ReadFields DEF IInv, Shapes, Entry
<1>2. \A t \in Tab : sheet[t].open => sheet[t].values \in Form
  BY SheetFields DEF IInv, Shapes
<1>3. \A t \in Tab, k \in Kind :
        call[t][k].state \in {"idle", "sent", "found", "done", "failed", "settling"}
  <2> TAKE t \in Tab, k \in Kind
  <2>1. call[t][k] \in Call(k)
    BY DEF IInv, Shapes
  <2> QED BY <2>1 DEF Call, SentCall, FoundCall, DoneCall, Idle, Failed
<1> QED BY <1>1, <1>2, <1>3 DEF IInv, Shapes, TypeOK, Entry

\* Records and the values of sheets.
LEMMA FormOfType ==
    ASSUME NEW r \in Record
    PROVE  FormOf(r) \in Form /\ r.set \in Settings
<1>1. r.set \in Settings
  BY DEF Record
<1>2. PICK v \in Score : v = Effective(r.set.score)
  BY <1>1, SourceAssumption DEF Effective, Settings
<1>3. [r.set EXCEPT !.score = v] \in Form
  BY <1>1, SourceAssumption DEF Settings, Form
<1> QED BY <1>1, <1>2, <1>3 DEF FormOf

LEMMA ValidType ==
    ASSUME NEW v \in Form, Valid(v)
    PROVE  v \in Settings
BY DEF Form, Valid, Settings

LEMMA AnswerType ==
    ASSUME source \in [Id -> Entry], NEW p \in Id \cup {None}
    PROVE  /\ Answer(p, source) \in Entry /\ Reading(Answer(p, source)) \in Read
           /\ Reading(Answer(p, source)).running
           /\ Reading(Answer(p, source)).answer = Answer(p, source)
           /\ p = None => Answer(p, source) = None
           /\ Answer(p, source) # None => p \in Id /\ Answer(p, source) = source[p]
<1>1. Answer(p, source) \in Entry
  BY DEF Answer, Entry
<1>2. p = None => Answer(p, source) = None
  BY SourceAssumption DEF Answer
<1>3. Answer(p, source) # None => p \in Id /\ Answer(p, source) = source[p]
  BY DEF Answer
<1>4. PICK a \in Entry : a = Answer(p, source)
  BY <1>1
<1>5. Reading(a) \in Read /\ Reading(a).running /\ Reading(a).answer = a
  BY DEF Reading, Read
<1> QED BY <1>1, <1>2, <1>3, <1>4, <1>5

\* The fields of a call by its state.
LEMMA CallFields ==
    ASSUME NEW k \in Kind, NEW c \in Call(k)
    PROVE  /\ c.state = "sent" => c \in SentCall(k)
           /\ c.state = "found" => c \in FoundCall(k)
           /\ c.state \in {"done", "settling"} => c \in DoneCall
           /\ c.state = "idle" => c = Idle
           /\ c.state \in {"idle", "sent", "found", "done", "failed", "settling"}
BY DEF Call, SentCall, FoundCall, DoneCall, Idle, Failed

\* A page that is left.
LEMMA UnmountedType ==
    ASSUME NEW cs, \A k \in Kind : cs[k] \in Call(k), NEW k \in Kind
    PROVE  /\ Unmounted(cs)[k] \in Call(k)
           /\ Unmounted(cs)[k].state \in Underway =>
                /\ cs[k].state = Unmounted(cs)[k].state /\ Unmounted(cs)[k].id = cs[k].id
           /\ Unmounted(cs)[k].state # "settling"
           /\ Unmounted(cs)[k].state = "done" =>
                /\ cs[k].state = "done" /\ Unmounted(cs)[k].id = cs[k].id
                /\ Unmounted(cs)[k].version = cs[k].version
<1>1. cs[k] \in Call(k)
  OBVIOUS
<1>2. CASE cs[k].state = "settling"
  <2>1. Unmounted(cs)[k] = Idle
    BY <1>2 DEF Unmounted
  <2> QED BY <2>1 DEF Call, Idle, Underway
<1>3. CASE cs[k].state = "sent"
  <2>1. cs[k] \in SentCall(k)
    BY <1>1, <1>3, CallFields
  <2>2. Unmounted(cs)[k] = [cs[k] EXCEPT !.mounted = FALSE]
    BY <1>3 DEF Unmounted
  <2>3. /\ [cs[k] EXCEPT !.mounted = FALSE] \in SentCall(k)
        /\ [cs[k] EXCEPT !.mounted = FALSE].state = "sent"
        /\ [cs[k] EXCEPT !.mounted = FALSE].id = cs[k].id
    BY <2>1 DEF SentCall
  <2> QED BY <1>3, <2>2, <2>3 DEF Call
<1>6. CASE cs[k].state = "found"
  <2>1. cs[k] \in FoundCall(k)
    BY <1>1, <1>6, CallFields
  <2>2. Unmounted(cs)[k] = [cs[k] EXCEPT !.mounted = FALSE]
    BY <1>6 DEF Unmounted
  <2>3. /\ [cs[k] EXCEPT !.mounted = FALSE] \in FoundCall(k)
        /\ [cs[k] EXCEPT !.mounted = FALSE].state = "found"
        /\ [cs[k] EXCEPT !.mounted = FALSE].id = cs[k].id
    BY <2>1 DEF FoundCall
  <2> QED BY <1>6, <2>2, <2>3 DEF Call
<1>4. CASE cs[k].state = "done"
  <2>1. cs[k] \in DoneCall
    BY <1>1, <1>4, CallFields
  <2>2. Unmounted(cs)[k] = [cs[k] EXCEPT !.mounted = FALSE]
    BY <1>4 DEF Unmounted
  <2>3. /\ [cs[k] EXCEPT !.mounted = FALSE] \in DoneCall
        /\ [cs[k] EXCEPT !.mounted = FALSE].state = "done"
        /\ [cs[k] EXCEPT !.mounted = FALSE].id = cs[k].id
        /\ [cs[k] EXCEPT !.mounted = FALSE].version = cs[k].version
    BY <1>4, <2>1 DEF DoneCall
  <2> QED BY <1>4, <2>2, <2>3 DEF Call, Underway
<1>5. CASE cs[k].state \notin {"sent", "found", "done", "settling"}
  <2>1. Unmounted(cs)[k] = cs[k]
    BY <1>5 DEF Unmounted
  <2> QED BY <1>1, <1>5, <2>1 DEF Underway
<1> QED BY <1>2, <1>3, <1>4, <1>5, <1>6

----------------------------------------------------------------------------
\* What a step does to the calls that is neither a press nor a service: none starts and
\* none is done that was not.
CallsKeep ==
    /\ call' \in [Tab -> [Kind -> AnyCall]]
    /\ \A t \in Tab, k \in Kind :
          /\ call'[t][k] \in Call(k)
          /\ call'[t][k].state \in Underway => call[t][k].state \in Underway
          /\ call'[t][k].state = "found" => Exists(call'[t][k].id)
          /\ call'[t][k].state \in {"done", "settling"} =>
                /\ call[t][k].state \in {"done", "settling"}
                /\ call'[t][k].id = call[t][k].id /\ call'[t][k].version = call[t][k].version

LEMMA FlightShrinks ==
    ASSUME VersionsSound, InFlight' \subseteq InFlight
    PROVE  /\ IsFiniteSet(InFlight') /\ Cardinality(InFlight') <= Cardinality(InFlight)
           /\ Cardinality(InFlight') \in Nat /\ Cardinality(InFlight) \in Nat
           /\ InFlight' # InFlight => Cardinality(InFlight') < Cardinality(InFlight)
<1>1. IsFiniteSet(InFlight)
  BY DEF VersionsSound
<1>2. PICK S : S = InFlight /\ IsFiniteSet(S)
  BY <1>1
<1>3. PICK T \in SUBSET S : T = InFlight'
  BY <1>2
<1>4. /\ IsFiniteSet(T) /\ Cardinality(T) <= Cardinality(S)
      /\ Cardinality(S) = Cardinality(T) => S = T
  BY <1>2, FS_Subset
<1>5. Cardinality(S) \in Nat /\ Cardinality(T) \in Nat
  BY <1>2, <1>4, FS_CardinalityType
<1>6. T # S => Cardinality(T) < Cardinality(S)
  BY <1>4, <1>5
<1> QED BY <1>2, <1>3, <1>4, <1>5, <1>6

LEMMA KeepStep ==
    ASSUME IInv, CallsKeep, UNCHANGED <<source, calls>>
    PROVE  VersionsSound' /\ DoneSound' /\ FoundSound'
<1>1. InFlight' \subseteq InFlight
  BY DEF CallsKeep, InFlight
<1>2. VersionsSound'
  <2>1. \A id \in Id : Exists(id) => source[id].version \in Nat
    BY SourceAssumption DEF IInv, Shapes, Entry, Exists, Record
  <2>2. calls \in Nat /\ calls' = calls
    BY SourceAssumption DEF IInv, Shapes
  <2>3. VersionsSound
    BY DEF IInv
  <2>4. \A id \in Id : Exists(id)' <=> Exists(id)
    BY DEF Exists
  <2> QED BY <1>1, <2>1, <2>2, <2>3, <2>4, FlightShrinks DEF VersionsSound
<1>3. DoneSound'
  BY DEF IInv, CallsKeep, DoneSound, Exists
<1>4. FoundSound'
  BY DEF CallsKeep, FoundSound, Exists
<1> QED BY <1>2, <1>3, <1>4

\* One call changes, and does not start or become done.
LEMMA OneCallKeeps ==
    ASSUME IInv, NEW t \in Tab, NEW k \in Kind, NEW c \in Call(k),
           c.state \in Underway => call[t][k].state \in Underway,
           c.state = "found" => Exists(c.id),
           c.state \in {"done", "settling"} =>
              /\ call[t][k].state \in {"done", "settling"}
              /\ c.id = call[t][k].id /\ c.version = call[t][k].version,
           call' = [call EXCEPT ![t][k] = c]
    PROVE  CallsKeep /\ \A u \in Tab, j \in Kind :
              call'[u][j] = IF u = t /\ j = k THEN c ELSE call[u][j]
<1>1. call \in [Tab -> [Kind -> AnyCall]] /\ \A u \in Tab, j \in Kind : call[u][j] \in Call(j)
  BY DEF IInv, Shapes
<1>2. c \in AnyCall
  BY DEF AnyCall
<1>3. \A u \in Tab, j \in Kind : call'[u][j] = IF u = t /\ j = k THEN c ELSE call[u][j]
  BY <1>1
<1>4. call' \in [Tab -> [Kind -> AnyCall]]
  BY <1>1, <1>2
<1>5. FoundSound
  BY DEF IInv
<1> QED BY <1>1, <1>3, <1>4, <1>5 DEF CallsKeep, FoundSound

LEMMA SameCallsKeep == ASSUME IInv, UNCHANGED call PROVE CallsKeep
BY DEF IInv, Shapes, CallsKeep, FoundSound

LEMMA UnmountedKeeps ==
    ASSUME IInv, NEW t \in Tab, call' = [call EXCEPT ![t] = Unmounted(call[t])]
    PROVE  CallsKeep /\ call'[t].save.state # "settling" /\ \A u \in Tab \ {t} : call'[u] = call[u]
<1>1. \A k \in Kind : call[t][k] \in Call(k)
  BY DEF IInv, Shapes
<1>2. PICK cs : cs = Unmounted(call[t])
  OBVIOUS
<1>3. \A k \in Kind :
        /\ cs[k] \in Call(k) /\ cs[k].state # "settling"
        /\ cs[k].state \in Underway => call[t][k].state = cs[k].state /\ cs[k].id = call[t][k].id
        /\ cs[k].state = "done" =>
             /\ call[t][k].state = "done" /\ cs[k].id = call[t][k].id
             /\ cs[k].version = call[t][k].version
  BY <1>1, <1>2, UnmountedType
<1>4. cs = [k \in Kind |-> cs[k]]
  BY <1>2 DEF Unmounted
<1>5. cs \in [Kind -> AnyCall]
  BY <1>3, <1>4 DEF AnyCall
<1>6. CallsKeep /\ \A u \in Tab : call'[u] = IF u = t THEN cs ELSE call[u]
  <2>1. call' = [call EXCEPT ![t] = cs]
    BY <1>2
  <2>2. \A k \in Kind :
          /\ cs[k] \in Call(k)
          /\ cs[k].state \in Underway => call[t][k].state \in Underway
          /\ cs[k].state = "found" => Exists(cs[k].id)
          /\ cs[k].state \in {"done", "settling"} =>
                /\ call[t][k].state \in {"done", "settling"}
                /\ cs[k].id = call[t][k].id /\ cs[k].version = call[t][k].version
    BY <1>3 DEF IInv, FoundSound, Underway
  <2>3. \A u \in Tab : call'[u] = IF u = t THEN cs ELSE call[u]
    BY <1>5, <2>1 DEF IInv, Shapes
  <2>4. call' \in [Tab -> [Kind -> AnyCall]]
    BY <1>5, <2>1 DEF IInv, Shapes
  <2>5. \A u \in Tab, k \in Kind : call[u][k] \in Call(k)
    BY DEF IInv, Shapes
  <2>6. CallsKeep
    BY <2>2, <2>3, <2>4, <2>5 DEF CallsKeep, IInv, FoundSound
  <2> QED BY <2>3, <2>6
<1>7. cs.save.state # "settling"
  BY <1>3 DEF Kind
<1> QED BY <1>6, <1>7

----------------------------------------------------------------------------
LEMMA OpenPageStep == ASSUME IInv, NEW t \in Tab, OpenPage(t) PROVE IInv'
<1>1. PICK id \in Id :
        page' = [page EXCEPT ![t] = id] /\ read' = [read EXCEPT ![t] = Reading(Answer(id, source))]
  BY DEF OpenPage
<1>2. CallsKeep /\ call'[t].save.state # "settling" /\ \A u \in Tab \ {t} : call'[u] = call[u]
  BY UnmountedKeeps DEF OpenPage
<1>3. Reading(Answer(id, source)) \in Read /\ id # None
  BY AnswerType, SourceAssumption DEF IInv, Shapes
<1>4. VersionsSound' /\ DoneSound' /\ FoundSound'
  BY <1>2, KeepStep DEF OpenPage
<1>5. Shapes'
  BY <1>1, <1>2, <1>3 DEF IInv, Shapes, OpenPage, CallsKeep
<1>6. \A u \in Tab : /\ page'[u] = IF u = t THEN id ELSE page[u]
                     /\ u # t => read'[u] = read[u]
  BY <1>1 DEF IInv, Shapes
<1>7. ReadSound'
  BY <1>3, <1>6 DEF IInv, ReadSound
<1>8. SettleSound'
  BY <1>2, <1>6 DEF IInv, SettleSound
<1>9. UntouchedSheetIsLatest'
  BY <1>6 DEF IInv, UntouchedSheetIsLatest, OpenPage, Shows, Shown
<1> QED BY <1>4, <1>5, <1>7, <1>8, <1>9 DEF IInv

LEMMA BackToListStep == ASSUME IInv, NEW t \in Tab, BackToList(t) PROVE IInv'
<1>1. CallsKeep /\ call'[t].save.state # "settling" /\ \A u \in Tab \ {t} : call'[u] = call[u]
  BY UnmountedKeeps DEF BackToList
<1>2. VersionsSound' /\ DoneSound' /\ FoundSound'
  BY <1>1, KeepStep DEF BackToList
<1>3. Shapes'
  BY <1>1 DEF IInv, Shapes, BackToList, CallsKeep, Read
<1>4. \A u \in Tab : /\ page'[u] = IF u = t THEN None ELSE page[u]
                     /\ read'[u] = IF u = t THEN NoRead ELSE read[u]
  BY DEF IInv, Shapes, BackToList
<1>5. ReadSound'
  BY <1>4 DEF IInv, ReadSound, NoRead
<1>6. SettleSound'
  BY <1>1, <1>4 DEF IInv, SettleSound
<1>7. UntouchedSheetIsLatest'
  BY <1>4 DEF IInv, UntouchedSheetIsLatest, BackToList, Shows, Shown
<1> QED BY <1>2, <1>3, <1>5, <1>6, <1>7 DEF IInv

LEMMA OpenType ==
    ASSUME NEW v \in Form, NEW touched \in BOOLEAN
    PROVE  /\ Open(v, touched) \in Sheet /\ Open(v, touched).open
           /\ Open(v, touched).values = v /\ Open(v, touched).touched = touched
BY DEF Open, Sheet

\* A step of the sheet alone.
LEMMA SheetMoves ==
    ASSUME IInv, NEW t \in Tab, NEW s \in Sheet, sheet' = [sheet EXCEPT ![t] = s],
           UNCHANGED <<source, page, cache, read, call, calls, faults>>,
           s.open /\ ~s.touched /\ page[t] # None => Shows(t) /\ s.values = FormOf(Shown(t))
    PROVE  IInv'
<1>1. VersionsSound' /\ DoneSound' /\ FoundSound'
  BY SameCallsKeep, KeepStep
<1>2. Shapes'
  BY DEF IInv, Shapes
<1>3. ReadSound' /\ SettleSound'
  BY DEF IInv, ReadSound, SettleSound
<1>4. UntouchedSheetIsLatest'
  BY DEF IInv, Shapes, UntouchedSheetIsLatest, Shows, Shown
<1> QED BY <1>1, <1>2, <1>3, <1>4 DEF IInv

LEMMA OpenSheetStep == ASSUME IInv, NEW t \in Tab, OpenSheet(t) PROVE IInv'
<1>1. Seed(t) \in Form /\ (page[t] # None => Shows(t) /\ Seed(t) = FormOf(Shown(t)))
  <2>1. CASE page[t] = None
    BY <2>1, SourceAssumption DEF Seed, EmptyForm, Form
  <2>2. CASE page[t] # None
    <3>1. Shows(t) /\ Shown(t) \in Record
      BY <2>2 DEF OpenSheet, Shows, Shown, IInv, Shapes, Entry
    <3> QED BY <2>2, <3>1, FormOfType DEF Seed
  <2> QED BY <2>1, <2>2
<1>2. PICK v \in Form : v = Seed(t)
  BY <1>1
<1>3. PICK s \in Sheet : s = Open(v, FALSE) /\ s.values = v
  BY OpenType
<1>4. sheet' = [sheet EXCEPT ![t] = s] /\ UNCHANGED <<source, page, cache, read, call, calls, faults>>
  BY <1>2, <1>3 DEF OpenSheet
<1> QED BY <1>1, <1>2, <1>3, <1>4, SheetMoves

LEMMA EditStep == ASSUME IInv, NEW t \in Tab, Edit(t) PROVE IInv'
<1>1. sheet[t].values \in Form
  BY SheetFields DEF IInv, Shapes, Edit
<1>2. PICK v \in {[sheet[t].values EXCEPT !.score = s] : s \in Score}
                  \cup {[sheet[t].values EXCEPT !.plan = p] : p \in Plan}
                  \cup {[sheet[t].values EXCEPT !.enabled = ~@]} :
        sheet' = [sheet EXCEPT ![t] = Open(v, TRUE)]
  BY DEF Edit
<1>3. v \in Form
  <2>1. CASE v \in {[sheet[t].values EXCEPT !.score = s] : s \in Score}
    BY <1>1, <2>1 DEF Form
  <2>2. CASE v \in {[sheet[t].values EXCEPT !.plan = p] : p \in Plan}
    BY <1>1, <2>2 DEF Form
  <2>3. CASE v = [sheet[t].values EXCEPT !.enabled = ~@]
    BY <1>1, <2>3 DEF Form
  <2> QED BY <1>2, <2>1, <2>2, <2>3
<1>4. PICK s \in Sheet : s = Open(v, TRUE) /\ s.touched
  BY <1>3, OpenType
<1> QED BY <1>2, <1>4, SheetMoves DEF Edit

LEMMA CloseSheetStep == ASSUME IInv, NEW t \in Tab, CloseSheet(t) PROVE IInv'
<1>1. Closed \in Sheet /\ ~Closed.open
  BY DEF Sheet, Closed
<1> QED BY <1>1, SheetMoves DEF CloseSheet

----------------------------------------------------------------------------
\* A press: one call more is made and on its way.
LEMMA SendStep ==
    ASSUME IInv, NEW t \in Tab, NEW k \in Kind,
           NEW set \in (IF k = "remove" THEN {None} ELSE Settings), Send(t, k, set)
    PROVE  IInv'
<1>1. PICK c : c = Sent(page[t], set)
  OBVIOUS
<1>2. page[t] \in Id \cup {None}
  BY DEF IInv, Shapes
<1>3. c \in SentCall(k) /\ c.state = "sent"
  BY <1>1, <1>2 DEF Sent, SentCall
<1>4. c \in Call(k) /\ c \in AnyCall
  BY <1>3 DEF Call, AnyCall
<1>5. call' = [call EXCEPT ![t][k] = c] /\ UNCHANGED <<source, page, cache, read, sheet, faults>>
      /\ calls < MaxCalls /\ calls' = calls + 1
  BY <1>1 DEF Send
<1>6. \A u \in Tab, j \in Kind : call'[u][j] = IF u = t /\ j = k THEN c ELSE call[u][j]
  BY <1>5 DEF IInv, Shapes
<1>7. call' \in [Tab -> [Kind -> AnyCall]] /\ \A u \in Tab, j \in Kind : call'[u][j] \in Call(j)
  BY <1>4, <1>5, <1>6 DEF IInv, Shapes
<1>8. calls \in 0..MaxCalls /\ calls' \in 0..MaxCalls
  BY <1>5, SourceAssumption DEF IInv, Shapes
<1>9. Shapes'
  BY <1>5, <1>7, <1>8 DEF IInv, Shapes
<1>10. VersionsSound'
  <2>1. IsFiniteSet(InFlight) /\ Cardinality(InFlight) \in Nat /\ Cardinality(InFlight) <= calls
    BY FS_CardinalityType DEF IInv, VersionsSound
  <2>2. PICK S : S = InFlight \cup {<<t, k>>} /\ IsFiniteSet(S)
                /\ Cardinality(S) <= Cardinality(InFlight) + 1
    <3>1. PICK F, w : F = InFlight /\ w = <<t, k>>
      OBVIOUS
    <3>2. /\ IsFiniteSet(F \cup {w})
          /\ Cardinality(F \cup {w}) = IF w \in F THEN Cardinality(F) ELSE Cardinality(F) + 1
      BY <2>1, <3>1, FS_AddElement
    <3> QED BY <2>1, <3>1, <3>2
  <2>3. InFlight' \in SUBSET S
    BY <1>6, <2>2 DEF InFlight
  <2>4. IsFiniteSet(InFlight') /\ Cardinality(InFlight') <= Cardinality(S)
        /\ Cardinality(InFlight') \in Nat /\ Cardinality(S) \in Nat
    BY <2>2, <2>3, FS_Subset, FS_CardinalityType
  <2>5. Cardinality(InFlight') <= Cardinality(InFlight) + 1
    BY <2>1, <2>2, <2>4
  <2>6. \A id \in Id : Exists(id) =>
           source[id].version \in Nat /\ source[id].version + Cardinality(InFlight) <= calls
    BY SourceAssumption DEF IInv, Shapes, VersionsSound, Entry, Exists, Record
  <2>7. \A id \in Id : Exists(id)' <=> Exists(id)
    BY <1>5 DEF Exists
  <2> QED BY <1>5, <1>8, <2>1, <2>4, <2>5, <2>6, <2>7 DEF VersionsSound
<1>11. DoneSound'
  BY <1>3, <1>5, <1>6 DEF IInv, DoneSound, Exists
<1>14. FoundSound'
  BY <1>3, <1>5, <1>6 DEF IInv, FoundSound, Exists
<1>12. ReadSound' /\ UntouchedSheetIsLatest'
  BY <1>5 DEF IInv, ReadSound, UntouchedSheetIsLatest, Shows, Shown
<1>13. SettleSound'
  <2>1. \A u \in Tab : call'[u].save.state = "settling" => call'[u].save = call[u].save
    BY <1>3, <1>6 DEF Kind
  <2> QED BY <1>5, <2>1 DEF IInv, SettleSound
<1> QED BY <1>9, <1>10, <1>11, <1>12, <1>13, <1>14 DEF IInv

LEMMA SubmitStep == ASSUME IInv, NEW t \in Tab, Submit(t) PROVE IInv'
<1>1. sheet[t].values \in Settings
  BY SheetFields, ValidType DEF IInv, Shapes, Submit
<1> QED BY <1>1, SendStep DEF Submit, Kind

LEMMA ToggleStep == ASSUME IInv, NEW t \in Tab, Toggle(t) PROVE IInv'
<1>1. Shown(t) \in Record
  BY DEF Toggle, Shows, Shown, IInv, Shapes, Entry
<1>2. PICK set \in Settings : set = Shown(t).set
  BY <1>1, FormOfType
<1>3. PICK mid \in Settings : mid = [set EXCEPT !.score = None]
  BY DEF Settings
<1>4. PICK new \in Settings : new = [mid EXCEPT !.enabled = ~@]
  BY DEF Settings
<1>5. Send(t, "toggle", new)
  BY <1>2, <1>3, <1>4, Zenon DEF Toggle
<1> QED BY <1>5, SendStep DEF Kind

LEMMA RemoveStep == ASSUME IInv, NEW t \in Tab, Remove(t) PROVE IInv'
BY SendStep DEF Remove, Kind

----------------------------------------------------------------------------
LEMMA TakeFailureStep == ASSUME IInv, NEW t \in Tab, NEW k \in Kind, TakeFailure(t, k) PROVE IInv'
<1>1. Idle \in Call(k) /\ Idle.state = "idle"
  BY DEF Call, Idle
<1>2. CallsKeep /\ \A u \in Tab, j \in Kind :
         call'[u][j] = IF u = t /\ j = k THEN Idle ELSE call[u][j]
  BY <1>1, OneCallKeeps DEF TakeFailure, Underway
<1>3. VersionsSound' /\ DoneSound' /\ FoundSound'
  BY <1>2, KeepStep DEF TakeFailure
<1>4. Shapes' /\ ReadSound' /\ UntouchedSheetIsLatest'
  BY <1>2 DEF IInv, Shapes, CallsKeep, ReadSound, UntouchedSheetIsLatest, Shows, Shown, TakeFailure
<1>5. \A u \in Tab : call'[u].save.state = "settling" => call'[u].save = call[u].save
  BY <1>1, <1>2 DEF Kind
<1>6. SettleSound'
  BY <1>5 DEF IInv, SettleSound, TakeFailure
<1> QED BY <1>3, <1>4, <1>6 DEF IInv

LEMMA LoseStep == ASSUME IInv, NEW t \in Tab, NEW k \in Kind, Lose(t, k) PROVE IInv'
<1>1. PICK c \in Call(k) : c = Failed /\ c.state = "failed"
  <2>1. Failed \in Call(k)
    BY DEF Call
  <2>2. Failed.state = "failed"
    BY DEF Failed
  <2> QED BY <2>1, <2>2
<1>2. CallsKeep /\ \A u \in Tab, j \in Kind :
         call'[u][j] = IF u = t /\ j = k THEN c ELSE call[u][j]
  <2>1. c.state \notin Underway /\ call' = [call EXCEPT ![t][k] = c]
    BY <1>1 DEF Lose, Refused, Failed, Underway
  <2>2. c.state = "found" => Exists(c.id)
    BY <1>1
  <2>3. c.state \in {"done", "settling"} =>
          /\ call[t][k].state \in {"done", "settling"}
          /\ c.id = call[t][k].id /\ c.version = call[t][k].version
    BY <1>1
  <2>4. c.state \in Underway => call[t][k].state \in Underway
    BY <2>1
  <2>5. call' = [call EXCEPT ![t][k] = c]
    BY <2>1
  <2> QED BY <2>2, <2>3, <2>4, <2>5, OneCallKeeps, Zenon
<1>3. VersionsSound' /\ DoneSound' /\ FoundSound'
  BY <1>2, KeepStep DEF Lose
<1>4. faults' \in 0..MaxFaults
  BY SourceAssumption DEF Lose, IInv, Shapes
<1>5. Shapes' /\ ReadSound' /\ UntouchedSheetIsLatest'
  BY <1>2, <1>4 DEF IInv, Shapes, CallsKeep, ReadSound, UntouchedSheetIsLatest, Shows, Shown, Lose
<1>6. \A u \in Tab : call'[u].save.state = "settling" => call'[u].save = call[u].save
  BY <1>1, <1>2 DEF Kind
<1>7. SettleSound'
  BY <1>6 DEF IInv, SettleSound, Lose
<1> QED BY <1>3, <1>5, <1>7 DEF IInv

----------------------------------------------------------------------------
\* A read begins, which sees the record as it is: the version of what is done included.
LEMMA RefreshStep ==
    ASSUME IInv, NEW t \in Tab, CallsKeep, \A u \in Tab \ {t} : call'[u] = call[u],
           read' = [read EXCEPT ![t] = Reading(Answer(page[t], source))],
           UNCHANGED <<source, page, cache, sheet, calls, faults>>
    PROVE  IInv'
<1>1. VersionsSound' /\ DoneSound' /\ FoundSound'
  BY KeepStep
<1>2. PICK r \in Read :
        /\ r = Reading(Answer(page[t], source))
        /\ page[t] = None => r.answer = None
        /\ r.answer # None => page[t] \in Id /\ r.answer = source[page[t]]
  <2>1. source \in [Id -> Entry] /\ page[t] \in Id \cup {None}
    BY DEF IInv, Shapes
  <2>2. PICK r : r = Reading(Answer(page[t], source))
    OBVIOUS
  <2> QED BY <2>1, <2>2, AnswerType
<1>3. read' \in [Tab -> Read] /\ \A u \in Tab : read'[u] = IF u = t THEN r ELSE read[u]
  BY <1>2 DEF IInv, Shapes
<1>4. Shapes'
  BY <1>3 DEF IInv, Shapes, CallsKeep
<1>5. ReadSound'
  BY <1>2, <1>3 DEF IInv, ReadSound
<1>6. UntouchedSheetIsLatest'
  BY DEF IInv, UntouchedSheetIsLatest, Shows, Shown
<1>7. SettleSound'
  <2> SUFFICES ASSUME NEW u \in Tab,
                      call'[u].save.state = "settling", page[u] = call'[u].save.id,
                      read'[u].running, read'[u].answer # None
               PROVE  call'[u].save.version <= read'[u].answer.version
    BY DEF SettleSound
  <2>1. CASE u = t
    BY <1>1, <1>2, <1>3, <2>1 DEF DoneSound, Kind
  <2>2. CASE u # t
    BY <1>3, <2>2 DEF IInv, SettleSound
  <2> QED BY <2>1, <2>2
<1> QED BY <1>1, <1>4, <1>5, <1>6, <1>7 DEF IInv

LEMMA StartReadStep == ASSUME IInv, NEW t \in Tab, StartRead(t) PROVE IInv'
BY SameCallsKeep, RefreshStep DEF StartRead

LEMMA TakeAnswerStep == ASSUME IInv, NEW t \in Tab, NEW k \in Kind, TakeAnswer(t, k) PROVE IInv'
<1>1. call[t][k] \in DoneCall /\ call[t][k].state = "done"
  BY CallFields DEF IInv, Shapes, TakeAnswer
<1>2. PICK c \in Call(k) :
        /\ c = IF k = "save" /\ call[t][k].mounted /\ Rereads(t)
               THEN [call[t][k] EXCEPT !.state = "settling"] ELSE Idle
        /\ c.state \notin Underway
        /\ ~Rereads(t) => c.state = "idle"
        /\ c.state \in {"done", "settling"} =>
             c.id = call[t][k].id /\ c.version = call[t][k].version
  <2>1. /\ [call[t][k] EXCEPT !.state = "settling"] \in DoneCall
        /\ [call[t][k] EXCEPT !.state = "settling"].state = "settling"
        /\ [call[t][k] EXCEPT !.state = "settling"].id = call[t][k].id
        /\ [call[t][k] EXCEPT !.state = "settling"].version = call[t][k].version
    BY <1>1 DEF DoneCall
  <2>2. PICK d : d = [call[t][k] EXCEPT !.state = "settling"]
    OBVIOUS
  <2>3. d \in Call(k) /\ d.state = "settling" /\ d.id = call[t][k].id
        /\ d.version = call[t][k].version
    BY <2>1, <2>2 DEF Call
  <2>4. Idle \in Call(k) /\ Idle.state = "idle"
    BY DEF Call, Idle
  <2>5. PICK c : c = IF k = "save" /\ call[t][k].mounted /\ Rereads(t) THEN d ELSE Idle
    OBVIOUS
  <2>6. c.state \in {"settling", "idle"} /\ c \in Call(k) /\ (~Rereads(t) => c.state = "idle")
    BY <2>3, <2>4, <2>5
  <2> QED BY <2>2, <2>3, <2>4, <2>5, <2>6 DEF Underway
<1>3. call' = [call EXCEPT ![t][k] = c]
  BY <1>2 DEF TakeAnswer
<1>4. CallsKeep
  <2>1. c.state # "found"
    BY <1>2 DEF Underway
  <2> QED BY <1>1, <1>2, <1>3, <2>1, OneCallKeeps
<1>5. \A u \in Tab \ {t} : call'[u] = call[u]
  BY <1>3 DEF IInv, Shapes
<1>6. CASE Rereads(t)
  BY <1>4, <1>5, <1>6, RefreshStep DEF TakeAnswer, Invalidated
<1>7. CASE ~Rereads(t)
  <2>1. UNCHANGED <<source, page, cache, read, sheet, calls, faults>>
    BY <1>7 DEF TakeAnswer, Invalidated, IInv, Shapes
  <2>2. VersionsSound' /\ DoneSound' /\ FoundSound'
    BY <1>4, <2>1, KeepStep
  <2>3. Shapes' /\ ReadSound' /\ UntouchedSheetIsLatest'
    BY <1>4, <2>1 DEF IInv, Shapes, CallsKeep, ReadSound, UntouchedSheetIsLatest, Shows, Shown
  <2>4. \A u \in Tab : call'[u].save.state = "settling" => call'[u].save = call[u].save
    BY <1>2, <1>3, <1>7 DEF IInv, Shapes, Kind
  <2>5. SettleSound'
    BY <2>1, <2>4 DEF IInv, SettleSound
  <2> QED BY <2>2, <2>3, <2>5 DEF IInv
<1> QED BY <1>6, <1>7

\* The tab goes to the list unless it is there.
LEMMA TakeRemovalStep == ASSUME IInv, NEW t \in Tab, TakeRemoval(t) PROVE IInv'
<1>1. \A k \in Kind : call[t][k] \in Call(k)
  BY DEF IInv, Shapes
<1>2. PICK base : base = IF page[t] = None THEN call[t] ELSE Unmounted(call[t])
  OBVIOUS
<1>3. base \in [Kind -> AnyCall] /\ \A k \in Kind :
        /\ base[k] \in Call(k)
        /\ base[k].state \in Underway => call[t][k].state \in Underway
        /\ base[k].state = "found" => Exists(base[k].id)
        /\ base[k].state \in {"done", "settling"} =>
              /\ call[t][k].state \in {"done", "settling"}
              /\ base[k].id = call[t][k].id /\ base[k].version = call[t][k].version
  <2>1. CASE page[t] = None
    BY <1>1, <1>2, <2>1 DEF IInv, Shapes, FoundSound
  <2>2. CASE page[t] # None
    <3>1. base = Unmounted(call[t])
      BY <1>2, <2>2
    <3>2. \A k \in Kind :
            /\ base[k] \in Call(k)
            /\ base[k].state \in Underway =>
                  call[t][k].state = base[k].state /\ base[k].id = call[t][k].id
            /\ base[k].state # "settling"
            /\ base[k].state = "done" =>
                 /\ call[t][k].state = "done" /\ base[k].id = call[t][k].id
                 /\ base[k].version = call[t][k].version
      BY <1>1, <3>1, UnmountedType
    <3>3. base = [k \in Kind |-> base[k]]
      BY <3>1 DEF Unmounted
    <3>4. base \in [Kind -> AnyCall]
      BY <3>2, <3>3 DEF AnyCall
    <3>5. \A k \in Kind : base[k].state = "found" => Exists(base[k].id)
      BY <3>2 DEF IInv, FoundSound, Underway
    <3> QED BY <3>2, <3>4, <3>5
  <2> QED BY <2>1, <2>2
<1>4. PICK cs : cs = [base EXCEPT !.remove = Idle]
  OBVIOUS
<1>5. call' = [call EXCEPT ![t] = cs]
  BY <1>2, <1>4 DEF TakeRemoval
<1>6. Idle \in AnyCall /\ Idle.state = "idle" /\ Idle \in Call("remove")
  BY DEF AnyCall, Call, Idle, Kind
<1>7. cs \in [Kind -> AnyCall] /\ \A k \in Kind : cs[k] = IF k = "remove" THEN Idle ELSE base[k]
  BY <1>3, <1>4, <1>6 DEF Kind
<1>8. call' \in [Tab -> [Kind -> AnyCall]] /\ \A u \in Tab : call'[u] = IF u = t THEN cs ELSE call[u]
  BY <1>5, <1>7 DEF IInv, Shapes
<1>9. \A u \in Tab, k \in Kind : call[u][k] \in Call(k)
  BY DEF IInv, Shapes
<1>10. CallsKeep
  <2>1. Idle.state \notin Underway
    BY <1>6 DEF Underway
  <2> QED BY <1>3, <1>6, <1>7, <1>8, <1>9, <2>1 DEF CallsKeep, IInv, FoundSound
<1>11. VersionsSound' /\ DoneSound' /\ FoundSound'
  BY <1>10, KeepStep DEF TakeRemoval
<1>12. /\ page' = [page EXCEPT ![t] = None]
       /\ read' = [read EXCEPT ![t] = IF page[t] = None THEN @ ELSE NoRead]
       /\ sheet' = [sheet EXCEPT ![t] = IF page[t] = None THEN @ ELSE Closed]
       /\ UNCHANGED <<source, cache, calls, faults>>
  BY DEF TakeRemoval
<1>13. /\ page' \in [Tab -> Id \cup {None}] /\ read' \in [Tab -> Read] /\ sheet' \in [Tab -> Sheet]
       /\ \A u \in Tab :
             /\ page'[u] = IF u = t THEN None ELSE page[u]
             /\ u # t => read'[u] = read[u] /\ sheet'[u] = sheet[u]
       /\ read'[t] = IF page[t] = None THEN read[t] ELSE NoRead
  BY <1>12 DEF IInv, Shapes, Read, Sheet
<1>14. Shapes'
  BY <1>10, <1>12, <1>13 DEF IInv, Shapes, CallsKeep
<1>15. ReadSound'
  BY <1>13 DEF IInv, ReadSound, NoRead
<1>16. UntouchedSheetIsLatest'
  BY <1>12, <1>13 DEF IInv, UntouchedSheetIsLatest, Shows, Shown
<1>17. SettleSound'
  <2>1. \A u \in Tab : read'[u].running /\ read'[u].answer # None => u # t
    BY <1>13 DEF IInv, ReadSound, NoRead
  <2> QED BY <1>8, <1>13, <2>1 DEF IInv, SettleSound
<1> QED BY <1>11, <1>14, <1>15, <1>16, <1>17 DEF IInv

----------------------------------------------------------------------------
\* A save that waits for the end of a read closes the sheet.
LEMMA SettleStep ==
    ASSUME IInv, NEW t \in Tab, NEW seeded \in Sheet, Settle(t, seeded)
    PROVE  /\ CallsKeep /\ \A u \in Tab \ {t} : call'[u] = call[u]
           /\ \E s \in Sheet : sheet' = [sheet EXCEPT ![t] = s] /\ (s.open => s = seeded)
<1>1. CASE call[t].save.state = "settling"
  <2>1. PICK k \in Kind : k = "save"
    BY DEF Kind
  <2>2. PICK c \in Call(k) : c = Idle /\ c.state = "idle"
    <3>1. Idle \in Call(k)
      BY DEF Call
    <3>2. Idle.state = "idle"
      BY DEF Idle
    <3> QED BY <3>1, <3>2
  <2>3. call' = [call EXCEPT ![t][k] = c]
    BY <1>1, <2>1, <2>2 DEF Settle
  <2>4. CallsKeep
    BY <2>2, <2>3, OneCallKeeps DEF Underway
  <2>5. \A u \in Tab \ {t} : call'[u] = call[u]
    BY <2>3 DEF IInv, Shapes
  <2>6. Closed \in Sheet /\ ~Closed.open
    BY DEF Sheet, Closed
  <2> QED BY <1>1, <2>4, <2>5, <2>6 DEF Settle
<1>2. CASE call[t].save.state # "settling"
  BY <1>2, SameCallsKeep DEF Settle
<1> QED BY <1>1, <1>2

LEMMA NoReadType == NoRead \in Read /\ ~NoRead.running
BY DEF Read, NoRead

\* The read ends without a record, or fails.
LEMMA EndWithout ==
    ASSUME IInv, NEW t \in Tab, Settle(t, sheet[t]), read' = [read EXCEPT ![t] = NoRead],
           UNCHANGED <<source, page, cache, calls>>, faults' \in 0..MaxFaults
    PROVE  IInv'
<1>1. sheet[t] \in Sheet
  BY DEF IInv, Shapes
<1>2. CallsKeep /\ \A u \in Tab \ {t} : call'[u] = call[u]
  BY <1>1, SettleStep
<1>3. PICK s \in Sheet : sheet' = [sheet EXCEPT ![t] = s] /\ (s.open => s = sheet[t])
  BY <1>1, SettleStep
<1>4. VersionsSound' /\ DoneSound' /\ FoundSound'
  BY <1>2, KeepStep
<1>5. /\ read' \in [Tab -> Read] /\ sheet' \in [Tab -> Sheet]
      /\ \A u \in Tab : /\ read'[u] = IF u = t THEN NoRead ELSE read[u]
                        /\ sheet'[u] = IF u = t THEN s ELSE sheet[u]
  BY <1>3, NoReadType DEF IInv, Shapes
<1>6. Shapes'
  BY <1>2, <1>5 DEF IInv, Shapes, CallsKeep
<1>7. ReadSound' /\ SettleSound'
  BY <1>2, <1>5, NoReadType DEF IInv, ReadSound, SettleSound
<1>8. UntouchedSheetIsLatest'
  BY <1>3, <1>5 DEF IInv, UntouchedSheetIsLatest, Shows, Shown
<1> QED BY <1>4, <1>6, <1>7, <1>8 DEF IInv

LEMMA FailReadStep == ASSUME IInv, NEW t \in Tab, FailRead(t) PROVE IInv'
<1>1. faults' \in 0..MaxFaults
  BY SourceAssumption DEF FailRead, IInv, Shapes
<1> QED BY <1>1, EndWithout DEF FailRead

LEMMA EndReadStep == ASSUME IInv, NEW t \in Tab, EndRead(t) PROVE IInv'
<1>1. read[t].running /\ read' = [read EXCEPT ![t] = NoRead]
      /\ UNCHANGED <<source, page, calls, faults>> /\ read[t] \in Read
  BY DEF EndRead, IInv, Shapes
<1>2. CASE read[t].answer = None
  BY <1>1, <1>2, EndWithout DEF EndRead, IInv, Shapes
<1>3. CASE read[t].answer # None
  <2>1. PICK record \in Record : record = read[t].answer
    BY <1>1, <1>3, ReadFields DEF Entry
  <2>2. PICK p \in Id : p = page[t]
    BY <1>1, <1>3 DEF IInv, ReadSound, Shapes
  <2>3. cache' = [cache EXCEPT ![t][p] = record] /\ Settle(t, Seeded(t, record))
    BY <1>3, <2>1, <2>2 DEF EndRead
  <2>4. PICK f \in Form : f = FormOf(record)
    BY FormOfType
  <2>5. /\ Open(f, FALSE) \in Sheet /\ Open(f, FALSE).open /\ Open(f, FALSE).values = f
    BY OpenType
  <2>6. PICK seeded \in Sheet :
          /\ seeded = Seeded(t, record)
          /\ \/ seeded.values = FormOf(record)
             \/ seeded = sheet[t] /\ (sheet[t].open => record = cache[t][p])
    BY <2>2, <2>4, <2>5 DEF Seeded, IInv, Shapes
  <2>7. CallsKeep /\ \A u \in Tab \ {t} : call'[u] = call[u]
    BY <2>3, <2>6, SettleStep
  <2>8. PICK s \in Sheet : sheet' = [sheet EXCEPT ![t] = s] /\ (s.open => s = seeded)
    BY <2>3, <2>6, SettleStep
  <2>9. /\ read' \in [Tab -> Read] /\ sheet' \in [Tab -> Sheet] /\ cache' \in [Tab -> [Id -> Entry]]
        /\ \A u \in Tab : /\ read'[u] = IF u = t THEN NoRead ELSE read[u]
                          /\ sheet'[u] = IF u = t THEN s ELSE sheet[u]
                          /\ u # t => cache'[u] = cache[u]
        /\ cache'[t][p] = record
    BY <1>1, <2>3, <2>8, NoReadType DEF IInv, Shapes, Entry
  <2>10. VersionsSound' /\ DoneSound' /\ FoundSound'
    BY <1>1, <2>7, KeepStep
  <2>11. Shapes'
    BY <1>1, <2>7, <2>9 DEF IInv, Shapes, CallsKeep
  <2>12. ReadSound' /\ SettleSound'
    BY <1>1, <2>7, <2>9, NoReadType DEF IInv, ReadSound, SettleSound
  <2>13. UntouchedSheetIsLatest'
    <3> SUFFICES ASSUME NEW u \in Tab, sheet'[u].open, ~sheet'[u].touched, page'[u] # None
                 PROVE  Shows(u)' /\ sheet'[u].values = FormOf(cache'[u][page'[u]])
      BY DEF UntouchedSheetIsLatest, Shown
    <3>1. CASE u # t
      BY <1>1, <2>9, <3>1 DEF IInv, UntouchedSheetIsLatest, Shows, Shown
    <3>2. CASE u = t
      <4>1. s.open /\ ~s.touched /\ s = seeded /\ sheet'[u] = s
        BY <2>8, <2>9, <3>2
      <4>2. page'[u] = p /\ cache'[u][p] = record /\ record # None
        BY <1>1, <2>2, <2>9, <3>2, SourceAssumption
      <4>3. Shows(u)'
        BY <4>2 DEF Shows
      <4>4. s.values = FormOf(record)
        <5>1. CASE seeded.values = FormOf(record)
          BY <4>1, <5>1
        <5>2. CASE seeded = sheet[t] /\ record = cache[t][p]
          BY <2>2, <4>1, <5>2, SourceAssumption DEF IInv, UntouchedSheetIsLatest, Shown
        <5> QED BY <2>6, <4>1, <5>1, <5>2
      <4> QED BY <4>1, <4>2, <4>3, <4>4
    <3> QED BY <3>1, <3>2
  <2> QED BY <2>10, <2>11, <2>12, <2>13 DEF IInv
<1> QED BY <1>2, <1>3

----------------------------------------------------------------------------
\* The end of a call at the database: it is on its way no more, and a record that it has
\* patched counts one patch more.
LEMMA ServedStep ==
    ASSUME IInv, NEW t \in Tab, NEW k \in Kind, call[t][k].state \in Underway,
           NEW c \in Call(k), c.state \in {"done", "failed"},
           call' = [call EXCEPT ![t][k] = c],
           source' \in [Id -> Entry],
           \A id \in Id : Exists(id) =>
              /\ source'[id] # None
              /\ source'[id].version \in {source[id].version, source[id].version + 1},
           \A id \in Id : ~Exists(id) /\ source'[id] # None => source'[id].version = 0,
           c.state = "done" => source'[c.id] # None /\ c.version <= source'[c.id].version,
           UNCHANGED <<page, cache, read, sheet, calls, faults>>
    PROVE  IInv'
<1>1. call \in [Tab -> [Kind -> AnyCall]] /\ c \in AnyCall
      /\ \A u \in Tab, j \in Kind : call[u][j] \in Call(j)
  BY DEF IInv, Shapes, AnyCall
<1>2. \A u \in Tab, j \in Kind : call'[u][j] = IF u = t /\ j = k THEN c ELSE call[u][j]
  BY <1>1
<1>3. call' \in [Tab -> [Kind -> AnyCall]]
  BY <1>1
<1>4. Shapes'
  BY <1>1, <1>2, <1>3 DEF IInv, Shapes
<1>5. InFlight' \subseteq InFlight /\ InFlight' # InFlight
  <2>1. InFlight' \subseteq InFlight
    BY <1>2 DEF InFlight, Underway
  <2>2. <<t, k>> \in InFlight /\ <<t, k>> \notin InFlight'
    BY <1>2 DEF InFlight, Underway
  <2> QED BY <2>1, <2>2
<1>6. VersionsSound
  BY DEF IInv
<1>7. /\ IsFiniteSet(InFlight') /\ Cardinality(InFlight') < Cardinality(InFlight)
      /\ Cardinality(InFlight') \in Nat /\ Cardinality(InFlight) \in Nat
  BY <1>5, <1>6, FlightShrinks
<1>8. VersionsSound'
  <2>1. calls \in Nat /\ calls' = calls /\ Cardinality(InFlight) <= calls
    BY <1>6, SourceAssumption DEF IInv, Shapes, VersionsSound
  <2>2. \A id \in Id : Exists(id)' => source'[id].version + Cardinality(InFlight') <= calls
    <3> TAKE id \in Id
    <3> HAVE Exists(id)'
    <3>1. CASE Exists(id)
      <4>1. source[id].version \in Nat /\ source[id].version + Cardinality(InFlight) <= calls
        BY <1>6, <3>1, SourceAssumption DEF IInv, Shapes, VersionsSound, Entry, Exists, Record
      <4> QED BY <1>7, <2>1, <3>1, <4>1
    <3>2. CASE ~Exists(id)
      <4>1. source'[id].version = 0
        BY <3>2 DEF Exists
      <4> QED BY <1>7, <2>1, <4>1
    <3> QED BY <3>1, <3>2
  <2> QED BY <1>7, <2>1, <2>2 DEF VersionsSound
<1>9. DoneSound'
  <2> SUFFICES ASSUME NEW u \in Tab, NEW j \in Kind, call'[u][j].state \in {"done", "settling"}
               PROVE  /\ call'[u][j].id \in Id /\ source'[call'[u][j].id] # None
                      /\ call'[u][j].version <= source'[call'[u][j].id].version
    BY DEF DoneSound, Exists
  <2>1. CASE u = t /\ j = k
    <3>1. call'[u][j] = c /\ c.state = "done"
      BY <1>2, <2>1
    <3>2. c.id \in Id
      BY <3>1, CallFields DEF DoneCall
    <3> QED BY <3>1, <3>2 DEF Exists
  <2>2. CASE ~(u = t /\ j = k)
    <3>1. PICK d \in Call(j) : d = call[u][j] /\ call'[u][j] = d
      BY <1>1, <1>2, <2>2
    <3>2. d \in DoneCall /\ Exists(d.id) /\ d.version <= source[d.id].version
      BY <3>1, CallFields DEF IInv, DoneSound
    <3>3. d.id \in Id /\ d.version \in Int /\ source[d.id].version \in Int
      BY <3>2, SourceAssumption DEF DoneCall, Exists, IInv, Shapes, Entry, Record
    <3>4. source'[d.id] # None /\ d.version <= source'[d.id].version
      BY <3>2, <3>3
    <3> QED BY <3>1, <3>3, <3>4 DEF Exists
  <2> QED BY <2>1, <2>2
<1>10. ReadSound' /\ UntouchedSheetIsLatest'
  BY DEF IInv, ReadSound, UntouchedSheetIsLatest, Shows, Shown
<1>11. SettleSound'
  <2>1. \A u \in Tab : call'[u].save.state = "settling" => call'[u].save = call[u].save
    BY <1>2 DEF Kind
  <2> QED BY <2>1 DEF IInv, SettleSound
<1>12. FoundSound'
  BY <1>2 DEF IInv, FoundSound, Exists
<1> QED BY <1>4, <1>8, <1>9, <1>10, <1>11, <1>12 DEF IInv

\* A call that is refused has changed no record.
LEMMA RefusedStep ==
    ASSUME IInv, NEW t \in Tab, NEW k \in Kind, call[t][k].state \in Underway, Refused(t, k),
           UNCHANGED <<source, page, cache, read, sheet, calls, faults>>
    PROVE  IInv'
<1>1. PICK c \in Call(k) : c = Failed /\ c.state = "failed"
  <2>1. Failed \in Call(k)
    BY DEF Call
  <2>2. Failed.state = "failed"
    BY DEF Failed
  <2> QED BY <2>1, <2>2
<1>2. call' = [call EXCEPT ![t][k] = c]
  BY <1>1 DEF Refused, Failed
<1>3. source' \in [Id -> Entry]
  BY DEF IInv, Shapes
<1> QED BY <1>1, <1>2, <1>3, ServedStep DEF Exists

\* What Done leaves of a call.
LEMMA DoneType ==
    ASSUME NEW k \in Kind, NEW c \in SentCall(k) \cup FoundCall(k), NEW id \in Id, NEW v \in 0..MaxCalls
    PROVE  \E d \in Call(k) :
              /\ d = [state |-> "done", id |-> id, version |-> v, mounted |-> c.mounted]
              /\ d.state = "done" /\ d.id = id /\ d.version = v
<1>1. PICK d : d = [state |-> "done", id |-> id, version |-> v, mounted |-> c.mounted]
  OBVIOUS
<1>2. d \in DoneCall /\ d.state = "done" /\ d.id = id /\ d.version = v
  BY <1>1 DEF DoneCall, SentCall, FoundCall
<1> QED BY <1>1, <1>2 DEF Call

LEMMA ServeCreateStep == ASSUME IInv, NEW t \in Tab, ServeCreate(t) PROVE IInv'
<1>1. PICK c \in SentCall("save") : c = call[t]["save"] /\ c.state = "sent" /\ "save" \in Kind
  <2>1. "save" \in Kind
    BY DEF Kind
  <2>2. call[t]["save"] \in Call("save") /\ call[t]["save"].state = "sent"
    BY <2>1 DEF IInv, Shapes, ServeCreate
  <2> QED BY <2>1, <2>2, CallFields
<1>2. CASE Refused(t, "save") /\ UNCHANGED source
  BY <1>1, <1>2, RefusedStep DEF ServeCreate, Underway
<1>3. ASSUME NEW id \in Id, ~Exists(id), Done(t, "save", id, 0),
             source' = [source EXCEPT ![id] =
                 [set |-> c.set, live |-> TRUE, version |-> 0, runs |-> 0]]
      PROVE  IInv'
  <2>1. PICK r \in Record : r = [set |-> c.set, live |-> TRUE, version |-> 0, runs |-> 0]
    <3>1. c.set \in Settings
      BY DEF SentCall
    <3>2. 0 \in 0..MaxCalls /\ 0 \in 0..MaxRuns
      BY SourceAssumption
    <3>3. PICK r : r = [set |-> c.set, live |-> TRUE, version |-> 0, runs |-> 0]
      OBVIOUS
    <3>4. r \in Record
      BY <3>1, <3>2, <3>3 DEF Record
    <3> QED BY <3>3, <3>4
  <2>2. r.version = 0 /\ r # None
    BY <2>1, SourceAssumption
  <2>3. PICK d \in Call("save") :
          /\ d = [state |-> "done", id |-> id, version |-> 0, mounted |-> c.mounted]
          /\ d.state = "done" /\ d.id = id /\ d.version = 0
    BY <1>1, DoneType, SourceAssumption
  <2>4. call' = [call EXCEPT ![t]["save"] = d]
    BY <1>1, <1>3, <2>3 DEF Done
  <2>5. source' \in [Id -> Entry] /\ \A i \in Id : source'[i] = IF i = id THEN r ELSE source[i]
    BY <1>3, <2>1 DEF IInv, Shapes, Entry
  <2>6. \A i \in Id : Exists(i) =>
           source'[i] # None /\ source'[i].version \in {source[i].version, source[i].version + 1}
    BY <1>3, <2>5 DEF Exists
  <2>7. \A i \in Id : ~Exists(i) /\ source'[i] # None => source'[i].version = 0
    BY <2>2, <2>5 DEF Exists
  <2>8. source'[d.id] # None /\ d.version <= source'[d.id].version
    BY <2>2, <2>3, <2>5
  <2>9. UNCHANGED <<page, cache, read, sheet, calls, faults>>
    BY DEF ServeCreate
  <2> QED BY <1>1, <2>3, <2>4, <2>5, <2>6, <2>7, <2>8, <2>9, ServedStep DEF Underway
<1> QED BY <1>1, <1>2, <1>3 DEF ServeCreate

\* A call finds its source, or is refused.
LEMMA FindStep == ASSUME IInv, NEW t \in Tab, NEW k \in Kind, Find(t, k) PROVE IInv'
<1>1. PICK c \in SentCall(k) : c = call[t][k] /\ c.state = "sent" /\ c.id # None
  BY CallFields DEF IInv, Shapes, Find
<1>2. CASE ~Live(c.id)
  BY <1>1, <1>2, RefusedStep DEF Find, Underway
<1>3. CASE Live(c.id)
  <2>1. c.id \in Id /\ Exists(c.id) /\ source[c.id] \in Record
    BY <1>3 DEF Live, Exists, IInv, Shapes, Entry
  <2>2. source[c.id].set \in Settings
    BY <2>1, FormOfType
  <2>3. PICK d : d = Found(c, source[c.id].set)
    OBVIOUS
  <2>4. d \in FoundCall(k) /\ d.state = "found" /\ d.id = c.id
    BY <2>1, <2>2, <2>3 DEF Found, FoundCall, SentCall
  <2>5. d \in Call(k)
    BY <2>4 DEF Call
  <2>6. call' = [call EXCEPT ![t][k] = d] /\ UNCHANGED <<source, page, cache, read, sheet, calls, faults>>
    BY <1>1, <1>3, <2>3 DEF Find
  <2>7. CallsKeep /\ \A u \in Tab, j \in Kind :
           call'[u][j] = IF u = t /\ j = k THEN d ELSE call[u][j]
    BY <1>1, <2>1, <2>4, <2>5, <2>6, OneCallKeeps DEF Underway
  <2>8. VersionsSound' /\ DoneSound' /\ FoundSound'
    BY <2>6, <2>7, KeepStep
  <2>9. Shapes' /\ ReadSound' /\ UntouchedSheetIsLatest'
    BY <2>6, <2>7 DEF IInv, Shapes, CallsKeep, ReadSound, UntouchedSheetIsLatest, Shows, Shown
  <2>10. \A u \in Tab : call'[u].save.state = "settling" => call'[u].save = call[u].save
    BY <2>4, <2>7 DEF Kind
  <2>11. SettleSound'
    BY <2>6, <2>10 DEF IInv, SettleSound
  <2> QED BY <2>8, <2>9, <2>11 DEF IInv
<1> QED BY <1>2, <1>3

LEMMA MergedType ==
    ASSUME NEW now \in Settings, NEW was \in Settings, NEW set \in Settings
    PROVE  Merged(now, was, set) \in Settings /\ (set = was => Merged(now, was, set) = now)
BY DEF Merged, Settings

\* The row that a patch leaves, field by field.
LEMMA WrittenType ==
    ASSUME NEW r \in Record, NEW was \in Settings, NEW set \in Settings
    PROVE  /\ Written(r, was, set) =
                [set |-> Merged(r.set, was, set), live |-> r.live,
                 version |-> IF set = was THEN r.version ELSE r.version + 1, runs |-> r.runs]
           /\ r.version + 1 \in 0..MaxCalls => Written(r, was, set) \in Record
<1>1. r.set \in Settings
  BY FormOfType
<1>2. PICK new \in Settings : new = Merged(r.set, was, set)
  BY <1>1, MergedType
<1>3. PICK mid : mid = [r EXCEPT !.set = new]
  OBVIOUS
<1>4. mid \in Record /\ mid = [set |-> new, live |-> r.live, version |-> r.version, runs |-> r.runs]
  BY <1>3 DEF Record
<1>5. Written(r, was, set) =
        [mid EXCEPT !.version = IF set = was THEN mid.version ELSE mid.version + 1]
  BY <1>2, <1>3, Zenon DEF Written
<1>6. PICK v : v = IF set = was THEN mid.version ELSE mid.version + 1
  OBVIOUS
<1>7. [mid EXCEPT !.version = v] = [set |-> mid.set, live |-> mid.live, version |-> v, runs |-> mid.runs]
  BY <1>4 DEF Record
<1>8. Written(r, was, set) = [set |-> new, live |-> r.live, version |-> v, runs |-> r.runs]
  BY <1>4, <1>5, <1>6, <1>7
<1>9. v = IF set = was THEN r.version ELSE r.version + 1
  BY <1>4, <1>6
<1> QED BY <1>1, <1>2, <1>8, <1>9 DEF Record

LEMMA ServePatchStep == ASSUME IInv, NEW t \in Tab, NEW k \in Kind, ServePatch(t, k) PROVE IInv'
<1>1. PICK c \in FoundCall(k) : c = call[t][k] /\ c.state = "found" /\ k # "remove"
  BY CallFields DEF IInv, Shapes, ServePatch
<1>2. c.set \in Settings /\ c.was \in Settings
  BY <1>1 DEF FoundCall
<1>3. /\ source' = [source EXCEPT ![c.id] = Written(@, c.was, c.set)]
      /\ Done(t, k, c.id, source'[c.id].version)
  BY <1>1 DEF ServePatch
<1> QED
  <2>1. PICK id \in Id : id = c.id /\ Exists(id)
    BY <1>1 DEF FoundCall, IInv, FoundSound
  <2>2. PICK r \in Record : r = source[id]
    BY <2>1 DEF IInv, Shapes, Entry, Exists
  <2>3. r.version \in 0..MaxCalls /\ r.version + 1 \in 0..MaxCalls
    <3>1. r.version \in 0..MaxCalls /\ calls \in 0..MaxCalls
      BY DEF Record, IInv, Shapes
    <3>2. IsFiniteSet(InFlight) /\ Cardinality(InFlight) \in Nat
          /\ r.version + Cardinality(InFlight) <= calls
      BY <2>1, <2>2, FS_CardinalityType DEF IInv, VersionsSound
    <3>3. Cardinality(InFlight) # 0
      <4>1. PICK F : F = InFlight
        OBVIOUS
      <4>2. <<t, k>> \in F
        BY <1>1, <4>1 DEF InFlight, Underway
      <4> QED BY <3>2, <4>1, <4>2, FS_EmptySet
    <3> QED BY <3>1, <3>2, <3>3, SourceAssumption
  <2>4. PICK n \in Record :
          /\ n = Written(r, c.was, c.set)
          /\ n.version \in {r.version, r.version + 1}
    <3>1. PICK n : n = Written(r, c.was, c.set)
      OBVIOUS
    <3>2. n \in Record /\ n.version = IF c.set = c.was THEN r.version ELSE r.version + 1
      BY <1>2, <2>3, <3>1, WrittenType
    <3> QED BY <3>1, <3>2
  <2>5. n.version \in 0..MaxCalls /\ n # None
    BY <2>4, SourceAssumption DEF Record
  <2>6. source' \in [Id -> Entry] /\ \A i \in Id : source'[i] = IF i = id THEN n ELSE source[i]
    <3>1. source' = [source EXCEPT ![id] = n]
      BY <1>3, <2>1, <2>2, <2>4
    <3> QED BY <3>1 DEF IInv, Shapes, Entry
  <2>7. PICK d \in Call(k) :
          /\ d = [state |-> "done", id |-> id, version |-> n.version, mounted |-> c.mounted]
          /\ d.state = "done" /\ d.id = id /\ d.version = n.version
    BY <1>1, <2>5, DoneType
  <2>8. call' = [call EXCEPT ![t][k] = d]
    BY <1>1, <1>3, <2>1, <2>6, <2>7 DEF Done
  <2>9. \A i \in Id : Exists(i) =>
           source'[i] # None /\ source'[i].version \in {source[i].version, source[i].version + 1}
    BY <2>2, <2>4, <2>5, <2>6 DEF Exists
  <2>10. \A i \in Id : ~Exists(i) /\ source'[i] # None => source'[i].version = 0
    BY <2>1, <2>6 DEF Exists
  <2>11. source'[d.id] # None /\ d.version <= source'[d.id].version
    BY <2>5, <2>6, <2>7
  <2>12. UNCHANGED <<page, cache, read, sheet, calls, faults>>
    BY DEF ServePatch
  <2> QED BY <1>1, <2>6, <2>7, <2>8, <2>9, <2>10, <2>11, <2>12, ServedStep
     DEF Underway

LEMMA ServeRemoveStep == ASSUME IInv, NEW t \in Tab, ServeRemove(t) PROVE IInv'
<1>1. PICK c \in FoundCall("remove") :
        c = call[t]["remove"] /\ c.state = "found" /\ "remove" \in Kind
  <2>1. "remove" \in Kind
    BY DEF Kind
  <2>2. call[t]["remove"] \in Call("remove") /\ call[t]["remove"].state = "found"
    BY <2>1 DEF IInv, Shapes, ServeRemove
  <2> QED BY <2>1, <2>2, CallFields
<1> QED
  <2>1. PICK id \in Id : id = c.id /\ Exists(id)
    BY <1>1 DEF FoundCall, IInv, FoundSound
  <2>2. PICK n : n = [source[id] EXCEPT !.live = FALSE]
    OBVIOUS
  <2>3. n \in Record /\ n.version = source[id].version /\ n # None /\ n.version \in 0..MaxCalls
    <3>1. source[id] \in Record
      BY <2>1 DEF IInv, Shapes, Entry, Exists
    <3>2. n \in Record /\ n.version = source[id].version
      BY <2>2, <3>1 DEF Record
    <3>3. n.version \in 0..MaxCalls
      BY <3>2 DEF Record
    <3> QED BY <3>2, <3>3, SourceAssumption
  <2>4. source' = [source EXCEPT ![id] = n] /\ UNCHANGED <<page, cache, read, sheet, calls, faults>>
    BY <1>1, <2>1, <2>2 DEF ServeRemove
  <2>5. source' \in [Id -> Entry] /\ \A i \in Id : source'[i] = IF i = id THEN n ELSE source[i]
    BY <2>3, <2>4 DEF IInv, Shapes, Entry
  <2>6. \A i \in Id : Exists(i) =>
           source'[i] # None /\ source'[i].version \in {source[i].version, source[i].version + 1}
    BY <2>3, <2>5 DEF Exists
  <2>7. \A i \in Id : ~Exists(i) /\ source'[i] # None => source'[i].version = 0
    BY <2>1, <2>5 DEF Exists
  <2>8. PICK d \in Call("remove") :
          /\ call' = [call EXCEPT ![t]["remove"] = d]
          /\ d.state \in {"done", "failed"}
          /\ d.state = "done" => d.id = id /\ d.version = 0
    <3>1. CASE Done(t, "remove", id, 0)
      <4>1. PICK d \in Call("remove") :
              /\ d = [state |-> "done", id |-> id, version |-> 0, mounted |-> c.mounted]
              /\ d.state = "done" /\ d.id = id /\ d.version = 0
        BY <1>1, DoneType, SourceAssumption
      <4>2. call' = [call EXCEPT ![t]["remove"] = d]
        BY <1>1, <3>1, <4>1 DEF Done
      <4> QED BY <4>1, <4>2
    <3>2. CASE Refused(t, "remove")
      <4>1. PICK d : d = Failed
        OBVIOUS
      <4>2. d \in Call("remove") /\ d.state = "failed"
        BY <4>1 DEF Call, Failed
      <4>3. call' = [call EXCEPT ![t]["remove"] = d]
        BY <3>2, <4>1 DEF Refused, Failed
      <4> QED BY <4>2, <4>3
    <3> QED BY <1>1, <2>1, <3>1, <3>2 DEF ServeRemove
  <2>9. d.state = "done" => source'[d.id] # None /\ d.version <= source'[d.id].version
    BY <2>3, <2>5, <2>8
  <2> QED BY <1>1, <2>4, <2>5, <2>6, <2>7, <2>8, <2>9, ServedStep DEF Underway

LEMMA RecordRunStep == ASSUME IInv, NEW id \in Id, RecordRun(id) PROVE IInv'
<1>1. PICK n : n = [source[id] EXCEPT !.runs = @ + 1]
  OBVIOUS
<1>2. n \in Record /\ n.version = source[id].version /\ n # None
  <2>1. source[id] \in Record /\ source[id].runs < MaxRuns
    BY DEF RecordRun, IInv, Shapes, Entry, Exists
  <2>2. source[id].runs + 1 \in 0..MaxRuns
    BY <2>1, SourceAssumption DEF Record
  <2> QED BY <1>1, <2>1, <2>2, SourceAssumption DEF Record
<1>3. source' = [source EXCEPT ![id] = n] /\ Exists(id)
      /\ UNCHANGED <<page, cache, read, sheet, call, calls, faults>>
  BY <1>1 DEF RecordRun
<1>4. source' \in [Id -> Entry] /\ \A i \in Id : source'[i] = IF i = id THEN n ELSE source[i]
  BY <1>2, <1>3 DEF IInv, Shapes, Entry
<1>5. \A i \in Id : (Exists(i)' <=> Exists(i)) /\ (Exists(i) => source'[i].version = source[i].version)
  BY <1>2, <1>3, <1>4 DEF Exists
<1>6. Shapes' /\ ReadSound' /\ SettleSound' /\ UntouchedSheetIsLatest'
  BY <1>3, <1>4 DEF IInv, Shapes, ReadSound, SettleSound, UntouchedSheetIsLatest, Shows, Shown
<1>7. VersionsSound'
  BY <1>3, <1>5 DEF IInv, VersionsSound, InFlight
<1>8. DoneSound' /\ FoundSound'
  BY <1>3, <1>5 DEF IInv, DoneSound, FoundSound, Exists
<1> QED BY <1>6, <1>7, <1>8 DEF IInv

----------------------------------------------------------------------------
LEMMA InitIInv == Init => IInv
<1> SUFFICES ASSUME Init PROVE IInv
  OBVIOUS
<1>1. PICK p \in Plan : source = [id \in Id |->
        IF id = FirstId
        THEN [set |-> [score |-> FirstScore, plan |-> p, enabled |-> TRUE],
              live |-> TRUE, version |-> 0, runs |-> 0]
        ELSE None]
  BY DEF Init
<1>2. PICK r : r = [set |-> [score |-> FirstScore, plan |-> p, enabled |-> TRUE],
                    live |-> TRUE, version |-> 0, runs |-> 0]
  OBVIOUS
<1>3. r \in Record /\ r.version = 0
  BY <1>2, SourceAssumption DEF Record, Settings
<1>4. source \in [Id -> Entry] /\ \A id \in Id : Exists(id) => source[id].version = 0
  BY <1>1, <1>2, <1>3 DEF Entry, Exists
<1>5. Idle.state = "idle" /\ \A k \in Kind : Idle \in Call(k) /\ Idle \in AnyCall
  BY DEF Idle, Call, AnyCall
<1>6. \A t \in Tab, k \in Kind : call[t][k] = Idle
  BY DEF Init
<1>7. Shapes
  <2>1. NoRead \in Read /\ Closed \in Sheet /\ calls \in 0..MaxCalls /\ faults \in 0..MaxFaults
    BY SourceAssumption DEF Read, Sheet, Init
  <2>2. call \in [Tab -> [Kind -> AnyCall]]
    BY <1>5 DEF Init
  <2>3. page \in [Tab -> Id \cup {None}] /\ cache \in [Tab -> [Id -> Entry]]
    BY DEF Init, Entry
  <2> QED BY <1>4, <1>5, <1>6, <2>1, <2>2, <2>3 DEF Init, Shapes
<1>8. VersionsSound
  <2>1. InFlight = {}
    BY <1>5, <1>6 DEF InFlight, Underway
  <2>2. IsFiniteSet(InFlight) /\ Cardinality(InFlight) = 0
    BY <2>1, FS_EmptySet
  <2> QED BY <1>4, <2>2 DEF VersionsSound, Init
<1>9. DoneSound /\ FoundSound /\ SettleSound
  BY <1>5, <1>6 DEF DoneSound, FoundSound, SettleSound, Kind
<1>10. ReadSound /\ UntouchedSheetIsLatest
  BY DEF Init, ReadSound, UntouchedSheetIsLatest, NoRead, Closed
<1> QED BY <1>7, <1>8, <1>9, <1>10 DEF IInv

\* A step that changes nothing.
LEMMA StutterStep == ASSUME IInv, UNCHANGED vars PROVE IInv'
<1>1. VersionsSound' /\ DoneSound' /\ FoundSound'
  BY SameCallsKeep, KeepStep DEF vars
<1> QED BY <1>1 DEF vars, IInv, Shapes, ReadSound, SettleSound, UntouchedSheetIsLatest, Shows, Shown

LEMMA NextStep == ASSUME IInv, [Next]_vars PROVE IInv'
<1>1. ASSUME NEW t \in Tab,
             \/ OpenPage(t) \/ BackToList(t) \/ OpenSheet(t) \/ Edit(t) \/ CloseSheet(t)
             \/ Submit(t) \/ Toggle(t) \/ Remove(t)
      PROVE  IInv'
  BY <1>1, OpenPageStep, BackToListStep, OpenSheetStep, EditStep, CloseSheetStep, SubmitStep,
     ToggleStep, RemoveStep
<1>2. ASSUME NEW t \in Tab,
             \/ ServeCreate(t) \/ ServeRemove(t) \/ TakeRemoval(t) \/ StartRead(t) \/ EndRead(t)
             \/ FailRead(t)
      PROVE  IInv'
  BY <1>2, ServeCreateStep, ServeRemoveStep, TakeRemovalStep, StartReadStep, EndReadStep, FailReadStep
<1>3. ASSUME NEW t \in Tab, NEW k \in Kind,
             Find(t, k) \/ ServePatch(t, k) \/ Lose(t, k) \/ TakeFailure(t, k) \/ TakeAnswer(t, k)
      PROVE  IInv'
  BY <1>3, FindStep, ServePatchStep, LoseStep, TakeFailureStep, TakeAnswerStep
<1> QED BY <1>1, <1>2, <1>3, RecordRunStep, StutterStep DEF Next

\* The strengthening holds in every state that is reached.
THEOREM InvCorrect == Spec => []IInv
<1>1. IInv /\ [Next]_vars => IInv'
  BY NextStep
<1> QED BY <1>1, InitIInv, PTL DEF Spec

\* Every variable keeps its type.
THEOREM TypeCorrect == Spec => []TypeOK
BY InvCorrect, IInvTypes, PTL

\* Until the admin changes something, the open sheet of a source has the settings of the
\* record that the page shows.
THEOREM UntouchedSheetCorrect == Spec => []UntouchedSheetIsLatest
<1>1. IInv => UntouchedSheetIsLatest
  BY DEF IInv
<1> QED BY <1>1, InvCorrect, PTL

----------------------------------------------------------------------------
\* A step that gives a tab a record and ends the wait of its save is the end of a read.
LEMMA CacheMoves ==
    ASSUME IInv, [Next]_vars, NEW t \in Tab, cache'[t] # cache[t]
    PROVE  /\ read[t].running /\ read[t].answer # None
           /\ cache' = [cache EXCEPT ![t][page[t]] = read[t].answer]
<1>1. \E u \in Tab : EndRead(u) /\ cache' # cache
  <2>1. ASSUME NEW u \in Tab,
               \/ OpenPage(u) \/ BackToList(u) \/ OpenSheet(u) \/ Edit(u) \/ CloseSheet(u)
               \/ Submit(u) \/ Toggle(u) \/ Remove(u)
        PROVE  FALSE
    BY <2>1 DEF OpenPage, BackToList, OpenSheet, Edit, CloseSheet, Submit, Toggle, Remove, Send
  <2>2. ASSUME NEW u \in Tab,
               \/ ServeCreate(u) \/ ServeRemove(u) \/ TakeRemoval(u) \/ StartRead(u) \/ FailRead(u)
        PROVE  FALSE
    BY <2>2 DEF ServeCreate, ServeRemove, TakeRemoval, StartRead, FailRead
  <2>3. ASSUME NEW u \in Tab, NEW k \in Kind,
               Find(u, k) \/ ServePatch(u, k) \/ Lose(u, k) \/ TakeFailure(u, k) \/ TakeAnswer(u, k)
        PROVE  FALSE
    BY <2>3 DEF Find, ServePatch, Lose, TakeFailure, TakeAnswer
  <2>4. ASSUME NEW id \in Id, RecordRun(id) PROVE FALSE
    BY <2>4 DEF RecordRun
  <2>5. ~UNCHANGED vars /\ cache' # cache
    BY DEF vars
  <2> QED BY <2>1, <2>2, <2>3, <2>4, <2>5 DEF Next
<1>2. PICK u \in Tab : EndRead(u) /\ cache' # cache
  BY <1>1
<1>3. /\ read[u].running /\ read[u].answer # None
      /\ cache' = [cache EXCEPT ![u][page[u]] = read[u].answer]
  BY <1>2 DEF EndRead
<1>4. u = t
  BY <1>3 DEF IInv, Shapes
<1> QED BY <1>3, <1>4

\* The sheet closes on a save whose source could be read again only when the page shows a
\* record that has the save.
THEOREM SaveIsShownCorrect == Spec => SaveIsShown
<1>1. ASSUME IInv, [Next]_vars, NEW t \in Tab,
             call[t].save.state = "settling", page[t] = call[t].save.id, cache'[t] # cache[t]
      PROVE  cache'[t][page[t]].version >= call[t].save.version
  <2>1. /\ read[t].running /\ read[t].answer # None
        /\ cache' = [cache EXCEPT ![t][page[t]] = read[t].answer]
    BY <1>1, CacheMoves
  <2>2. PICK record \in Record : record = read[t].answer
    BY <1>1, <2>1, ReadFields DEF IInv, Shapes, Entry
  <2>3. PICK p \in Id : p = page[t]
    BY <1>1, <2>1 DEF IInv, ReadSound, Shapes
  <2>4. cache'[t][p] = record
    BY <1>1, <2>1, <2>2, <2>3 DEF IInv, Shapes
  <2>5. call[t].save.version <= record.version
    BY <1>1, <2>1, <2>2 DEF IInv, SettleSound
  <2>6. record.version \in Int
    BY DEF Record
  <2>7. call[t].save.version \in Int
    <3>1. call[t]["save"] \in DoneCall
      BY <1>1, CallFields DEF IInv, Shapes, Kind
    <3> QED BY <3>1 DEF DoneCall
  <2> QED BY <2>3, <2>4, <2>5, <2>6, <2>7
<1>2. IInv /\ [Next]_vars =>
        [\A t \in Tab :
            /\ call[t].save.state = "settling"
            /\ call'[t].save = Idle
            /\ page[t] = call[t].save.id
            /\ cache'[t] # cache[t]
            => cache'[t][page[t]].version >= call[t].save.version]_vars
  BY <1>1
<1> QED BY <1>2, InvCorrect, PTL DEF Spec, SaveIsShown

\* What a patch does to a record: nothing, unless its call has found it.
LEMMA PatchedRow ==
    ASSUME IInv, NEW t \in Tab, NEW k \in Kind, ServePatch(t, k), NEW id \in Id, Exists(id),
           source'[id] # source[id]
    PROVE  /\ Awaited(id) /\ source'[id] # None /\ source'[id].live = source[id].live
           /\ source[id].version <= source'[id].version
           /\ source[id].version = source'[id].version => source'[id].set = source[id].set
<1>1. PICK c \in FoundCall(k) : c = call[t][k] /\ c.state = "found" /\ k # "remove"
  BY CallFields DEF IInv, Shapes, ServePatch
<1>2. c.set \in Settings /\ c.was \in Settings
  BY <1>1 DEF FoundCall
<1>3. PICK r \in Record : r = source[id]
  BY DEF IInv, Shapes, Entry, Exists
<1>4. source \in [Id -> Entry] /\ source' = [source EXCEPT ![c.id] = Written(@, c.was, c.set)]
  BY <1>1 DEF ServePatch, IInv, Shapes
<1>5. c.id = id
  BY <1>4
<1>6. PICK n : n = Written(r, c.was, c.set)
  OBVIOUS
<1>7. source'[id] = n
  BY <1>3, <1>4, <1>5, <1>6
<1>8. PICK m : m = Merged(r.set, c.was, c.set)
  OBVIOUS
<1>9. PICK v : v = IF c.set = c.was THEN r.version ELSE r.version + 1
  OBVIOUS
<1>10. n = [set |-> m, live |-> r.live, version |-> v, runs |-> r.runs]
  BY <1>2, <1>6, <1>8, <1>9, WrittenType
<1>11. r.version \in Int /\ r.set \in Settings
  BY FormOfType DEF Record
<1>12. r.version <= v /\ (r.version = v => m = r.set)
  BY <1>2, <1>8, <1>9, <1>11, MergedType
<1>13. Exists(id)'
  <2>1. PICK d : d = [state |-> "done", id |-> id, version |-> n.version, mounted |-> c.mounted]
    OBVIOUS
  <2>2. call' = [call EXCEPT ![t][k] = d]
    BY <1>1, <1>5, <1>7, <2>1 DEF ServePatch, Done
  <2>3. call'[t][k] = d /\ d.state = "done" /\ d.id = id
    BY <2>1, <2>2 DEF IInv, Shapes
  <2>4. DoneSound'
    BY ServePatchStep DEF IInv
  <2> QED BY <2>3, <2>4 DEF DoneSound
<1>14. Awaited(id)
  BY <1>1, <1>5 DEF Awaited
<1> QED BY <1>3, <1>7, <1>10, <1>12, <1>13, <1>14 DEF Exists

\* A call that has found its source has found it before, or finds it live now.
FoundMoves(t, k) ==
    call'[t][k].state = "found" =>
        \/ call[t][k].state = "found" /\ call'[t][k].id = call[t][k].id
        \/ Live(call'[t][k].id)

LEMMA CallsAreFound ==
    ASSUME IInv, [Next]_vars, NEW t \in Tab, NEW k \in Kind
    PROVE  FoundMoves(t, k)
<1>1. /\ call \in [Tab -> [Kind -> AnyCall]] /\ \A j \in Kind : call[t][j] \in Call(j)
      /\ "save" \in Kind /\ "remove" \in Kind
  BY DEF IInv, Shapes, Kind
<1>2. CASE UNCHANGED call
  BY <1>2 DEF FoundMoves
<1>3. ASSUME NEW cs, cs = Unmounted(call[t])
      PROVE  cs[k].state = "found" => call[t][k].state = "found" /\ cs[k].id = call[t][k].id
  <2>1. \A j \in Kind : call[t][j] \in Call(j)
    BY <1>1
  <2> QED BY <1>3, <2>1, UnmountedType DEF Underway
<1>4. ASSUME NEW u \in Tab, OpenPage(u) \/ BackToList(u) PROVE FoundMoves(t, k)
  <2>1. PICK cs : cs = Unmounted(call[u])
    OBVIOUS
  <2>2. call' = [call EXCEPT ![u] = cs]
    BY <1>4, <2>1 DEF OpenPage, BackToList
  <2>3. CASE u = t
    BY <1>1, <1>3, <2>1, <2>2, <2>3 DEF FoundMoves
  <2>4. CASE u # t
    BY <1>1, <2>2, <2>4 DEF FoundMoves
  <2> QED BY <2>3, <2>4
<1>5. ASSUME NEW u \in Tab, NEW j \in Kind, NEW c, c.state # "found" \/ Live(c.id),
             call' = [call EXCEPT ![u][j] = c]
      PROVE  FoundMoves(t, k)
  <2>1. call'[t][k] = IF u = t /\ j = k THEN c ELSE call[t][k]
    BY <1>1, <1>5
  <2> QED BY <1>5, <2>1 DEF FoundMoves
<1>6. ASSUME NEW u \in Tab, NEW j \in Kind, NEW set, Send(u, j, set) PROVE FoundMoves(t, k)
  <2>1. PICK c : c = Sent(page[u], set)
    OBVIOUS
  <2>2. c.state # "found" /\ call' = [call EXCEPT ![u][j] = c]
    BY <1>6, <2>1 DEF Send, Sent
  <2> QED BY <1>5, <2>2
<1>7. ASSUME NEW u \in Tab, NEW j \in Kind, Refused(u, j) PROVE FoundMoves(t, k)
  <2>1. PICK c : c = Failed
    OBVIOUS
  <2>2. c.state # "found" /\ call' = [call EXCEPT ![u][j] = c]
    BY <1>7, <2>1 DEF Refused, Failed
  <2> QED BY <1>5, <2>2
<1>8. ASSUME NEW u \in Tab, NEW j \in Kind, NEW id, NEW v, Done(u, j, id, v)
      PROVE  FoundMoves(t, k)
  <2>1. PICK c : c = [state |-> "done", id |-> id, version |-> v, mounted |-> call[u][j].mounted]
    OBVIOUS
  <2>2. c.state # "found"
    BY <2>1
  <2>3. call' = [call EXCEPT ![u][j] = c]
    BY <1>1, <1>8, <2>1 DEF Done
  <2> QED BY <1>5, <2>2, <2>3
<1>9. ASSUME NEW u \in Tab, Submit(u) \/ Toggle(u) \/ Remove(u) PROVE FoundMoves(t, k)
  BY <1>6, <1>9 DEF Submit, Toggle, Remove, Kind
<1>10. ASSUME NEW u \in Tab, NEW j \in Kind, ServePatch(u, j) \/ Lose(u, j) PROVE FoundMoves(t, k)
  BY <1>7, <1>8, <1>10 DEF ServePatch, Lose
<1>11. ASSUME NEW u \in Tab, ServeCreate(u) \/ ServeRemove(u) PROVE FoundMoves(t, k)
  BY <1>1, <1>7, <1>8, <1>11 DEF ServeCreate, ServeRemove
<1>12. ASSUME NEW u \in Tab, NEW j \in Kind, Find(u, j) PROVE FoundMoves(t, k)
  <2>1. PICK c : c = Found(call[u][j], source[call[u][j].id].set)
    OBVIOUS
  <2>2. c.id = call[u][j].id
    BY <2>1 DEF Found
  <2>3. CASE Live(call[u][j].id)
    <3>1. call' = [call EXCEPT ![u][j] = c]
      BY <1>12, <2>1, <2>3 DEF Find
    <3> QED BY <1>5, <2>2, <2>3, <3>1
  <2>4. CASE Refused(u, j)
    BY <1>7, <2>4
  <2> QED BY <1>12, <2>3, <2>4 DEF Find
<1>13. ASSUME NEW u \in Tab, NEW j \in Kind, TakeFailure(u, j) \/ TakeAnswer(u, j)
       PROVE  FoundMoves(t, k)
  <2>1. PICK c : c = IF TakeAnswer(u, j) /\ j = "save" /\ call[u][j].mounted /\ Rereads(u)
                     THEN [call[u][j] EXCEPT !.state = "settling"] ELSE Idle
    OBVIOUS
  <2>2. call[u][j] \in Call(j)
    BY DEF IInv, Shapes
  <2>3. c.state # "found"
    <3>1. CASE TakeAnswer(u, j)
      <4>1. call[u][j] \in DoneCall
        BY <2>2, <3>1, CallFields DEF TakeAnswer
      <4>2. [call[u][j] EXCEPT !.state = "settling"].state = "settling"
        BY <4>1 DEF DoneCall
      <4> QED BY <2>1, <4>2 DEF Idle
    <3>2. CASE ~TakeAnswer(u, j)
      BY <2>1, <3>2 DEF Idle
    <3> QED BY <3>1, <3>2
  <2>4. CASE TakeAnswer(u, j)
    <3>1. call' = [call EXCEPT ![u][j] = c]
      BY <1>1, <2>1, <2>4 DEF TakeAnswer
    <3> QED BY <1>5, <2>3, <3>1
  <2>5. CASE ~TakeAnswer(u, j)
    <3>1. call' = [call EXCEPT ![u][j] = c]
      BY <1>13, <2>1, <2>5 DEF TakeFailure
    <3> QED BY <1>5, <2>3, <3>1
  <2> QED BY <2>4, <2>5
<1>14. ASSUME NEW u \in Tab, TakeRemoval(u) PROVE FoundMoves(t, k)
  <2>1. PICK cs : cs = IF page[u] = None THEN call[u] ELSE Unmounted(call[u])
    OBVIOUS
  <2>2. PICK ds : ds = [cs EXCEPT !.remove = Idle]
    OBVIOUS
  <2>3. call' = [call EXCEPT ![u] = ds]
    BY <1>1, <1>14, <2>1, <2>2 DEF TakeRemoval
  <2>4. CASE u # t
    BY <1>1, <2>3, <2>4 DEF FoundMoves
  <2>5. CASE u = t
    <3>1. call'[t] = ds
      BY <1>1, <2>3, <2>5
    <3>2. cs[k].state = "found" => call[t][k].state = "found" /\ cs[k].id = call[t][k].id
      BY <1>3, <2>1, <2>5
    <3>3. DOMAIN cs = Kind
      BY <1>1, <2>1, <2>5 DEF Unmounted
    <3>4. ds[k] = IF k = "remove" THEN Idle ELSE cs[k]
      BY <2>2, <3>3
    <3>5. Idle.state # "found"
      BY DEF Idle
    <3> QED BY <3>1, <3>2, <3>4, <3>5 DEF FoundMoves
  <2> QED BY <2>4, <2>5
<1>15. ASSUME NEW u \in Tab, EndRead(u) \/ FailRead(u) PROVE FoundMoves(t, k)
  <2>1. UNCHANGED call \/ call' = [call EXCEPT ![u].save = Idle]
    BY <1>15 DEF EndRead, FailRead, Settle
  <2>2. Idle.state # "found"
    BY DEF Idle
  <2> QED BY <1>1, <1>2, <1>5, <2>1, <2>2
<1> QED BY <1>2, <1>4, <1>9, <1>10, <1>11, <1>12, <1>13, <1>14, <1>15
        DEF Next, vars, OpenSheet, Edit, CloseSheet, RecordRun, StartRead

\* A deleted source never becomes live again, and keeps its settings for good once no call
\* is under way that had found it live: no save or toggle of a tab that still shows it
\* reaches it then (live_source_or_raise and patch_source in source/store.py, which do not
\* lock the row).
THEOREM DeletedStaysDeletedCorrect == Spec => DeletedStaysDeleted
<1>1. ASSUME IInv, [Next]_vars, NEW id \in Id, Exists(id), ~source[id].live
      PROVE  /\ source'[id] # None /\ ~source'[id].live
             /\ ~Awaited(id) => source'[id].set = source[id].set
  <2>1. source \in [Id -> Entry] /\ source[id] \in Record
    BY <1>1 DEF IInv, Shapes, Entry, Exists
  <2>2. CASE source'[id] = source[id]
    BY <1>1, <2>2 DEF Exists
  <2>3. ASSUME NEW t \in Tab, ServeCreate(t) PROVE source'[id] = source[id]
    BY <1>1, <2>1, <2>3 DEF ServeCreate
  <2>4. ASSUME NEW t \in Tab, NEW k \in Kind, ServePatch(t, k), source'[id] # source[id]
        PROVE  Awaited(id) /\ source'[id] # None /\ source'[id].live = source[id].live
    BY <1>1, <2>4, PatchedRow
  <2>5. ASSUME NEW t \in Tab, ServeRemove(t) PROVE source'[id] = source[id]
    <3>1. PICK n : n = [source[id] EXCEPT !.live = FALSE]
      OBVIOUS
    <3>2. n = source[id]
      BY <1>1, <2>1, <3>1 DEF Record
    <3>3. source'[id] = source[id] \/ source'[id] = n
      BY <2>1, <2>5, <3>1 DEF ServeRemove
    <3> QED BY <3>2, <3>3
  <2>6. ASSUME NEW i \in Id, RecordRun(i)
        PROVE  source'[id] # None /\ ~source'[id].live /\ source'[id].set = source[id].set
    <3>1. PICK n : n = [source[i] EXCEPT !.runs = @ + 1]
      OBVIOUS
    <3>2. source' = [source EXCEPT ![i] = n]
      BY <2>6, <3>1 DEF RecordRun
    <3>3. CASE i = id
      <4>1. n.live = source[id].live /\ n.set = source[id].set /\ n.version = source[id].version
        BY <2>1, <3>1, <3>3 DEF Record
      <4>2. n # None
        <5>1. RecordRun(i) /\ source[id].runs + 1 \in 0..MaxRuns
          BY <2>1, <2>6, <3>3, SourceAssumption DEF RecordRun, Record
        <5>2. n \in Record
          BY <2>1, <3>1, <3>3, <5>1 DEF Record
        <5> QED BY <5>2, SourceAssumption
      <4> QED BY <1>1, <2>1, <3>2, <3>3, <4>1, <4>2
    <3>4. CASE i # id
      BY <1>1, <2>1, <3>2, <3>4 DEF Exists
    <3> QED BY <3>3, <3>4
  <2>7. UNCHANGED source \/ (\E t \in Tab : ServeCreate(t) \/ ServeRemove(t))
        \/ (\E t \in Tab, k \in Kind : ServePatch(t, k)) \/ (\E i \in Id : RecordRun(i))
    BY <1>1, ZenonT(30) DEF Next, vars, OpenPage, BackToList, OpenSheet, Edit, CloseSheet, Submit,
       Toggle, Remove, Send, Find, Lose, TakeFailure, TakeAnswer, TakeRemoval, StartRead, EndRead,
       FailRead
  <2> QED BY <1>1, <2>2, <2>3, <2>4, <2>5, <2>6, <2>7
<1>2. ASSUME IInv, [Next]_vars, NEW id \in Id, ~Live(id), ~Awaited(id) PROVE ~Awaited(id)'
  <2>1. \A t \in Tab, k \in Kind : FoundMoves(t, k)
    BY <1>2, CallsAreFound
  <2> QED BY <1>2, <2>1 DEF FoundMoves, Awaited
<1>3. IInv /\ [Next]_vars =>
        [\A id \in Id :
            Exists(id) /\ ~source[id].live =>
                /\ Exists(id)' /\ ~source'[id].live
                /\ ~Awaited(id) => ~Awaited(id)' /\ source'[id].set = source[id].set]_vars
  BY <1>1, <1>2 DEF Exists, Live
<1> QED BY <1>3, InvCorrect, PTL DEF Spec, DeletedStaysDeleted
----------------------------------------------------------------------------
(* What a page shows is what its source was, and no save waits for nothing. *)

\* The record s is r or what became of it.
Later(r, s) ==
    s # None /\ r.version <= s.version /\ (r.version = s.version => r.set = s.set)

\* What a page shows or has read of a source, that source had: settings are never shown
\* under a version that had others.
VersionsAreKnown ==
    \A t \in Tab :
        /\ \A id \in Id : cache[t][id] # None => Later(cache[t][id], source[id])
        /\ read[t].running /\ read[t].answer # None => Later(read[t].answer, source[page[t]])

\* A save that keeps its sheet open until the source is read again is followed by a read.
NoSaveWaits == \A t \in Tab : call[t].save.state = "settling" => read[t].running

\* A record is only replaced by a later one.
LEMMA RecordsGrow ==
    ASSUME IInv, [Next]_vars, NEW id \in Id, Exists(id)
    PROVE  Later(source[id], source'[id])
<1>1. source \in [Id -> Entry] /\ source[id] \in Record /\ source[id].version \in Nat
  BY SourceAssumption DEF IInv, Shapes, Entry, Exists, Record
<1>2. source' \in [Id -> Entry]
  BY NextStep DEF IInv, Shapes
<1>3. CASE source'[id] = source[id]
  BY <1>1, <1>3 DEF Later, Exists
<1>4. ASSUME NEW t \in Tab, ServeCreate(t) PROVE source'[id] = source[id]
  BY <1>1, <1>4 DEF ServeCreate
<1>5. ASSUME NEW n, NEW v \in Nat, source' = [source EXCEPT ![id] = n], n # None,
             n.version = v, v > source[id].version \/ (v = source[id].version /\ n.set = source[id].set)
      PROVE  Later(source[id], source'[id])
  <2>1. source'[id] = n
    BY <1>1, <1>5
  <2> QED BY <1>1, <1>5, <2>1 DEF Later
<1>6. ASSUME NEW t \in Tab, NEW k \in Kind, ServePatch(t, k), source'[id] # source[id]
      PROVE  Later(source[id], source'[id])
  BY <1>6, PatchedRow DEF Later
<1>7. ASSUME NEW t \in Tab, ServeRemove(t), source'[id] # source[id]
      PROVE  Later(source[id], source'[id])
  <2>1. PICK n, v : n = [source[id] EXCEPT !.live = FALSE] /\ v = source[id].version
    OBVIOUS
  <2>2. source' = [source EXCEPT ![id] = n]
    BY <1>1, <1>7, <2>1 DEF ServeRemove
  <2>3. n \in Record /\ n.version = v /\ n.set = source[id].set
    BY <1>1, <2>1 DEF Record
  <2>4. n # None /\ v \in Nat
    BY <1>1, <2>1, <2>3, SourceAssumption
  <2> QED BY <1>5, <2>1, <2>2, <2>3, <2>4
<1>8. ASSUME NEW i \in Id, RecordRun(i), source'[id] # source[id]
      PROVE  Later(source[id], source'[id])
  <2>1. PICK n, v : n = [source[id] EXCEPT !.runs = @ + 1] /\ v = source[id].version
    OBVIOUS
  <2>2. source' = [source EXCEPT ![id] = n] /\ source[id].runs < MaxRuns
    BY <1>1, <1>8, <2>1 DEF RecordRun
  <2>3. source[id].runs + 1 \in 0..MaxRuns
    BY <1>1, <2>2, SourceAssumption DEF Record
  <2>4. n \in Record /\ n.version = v /\ n.set = source[id].set
    BY <1>1, <2>1, <2>3 DEF Record
  <2>5. n # None /\ v \in Nat
    BY <1>1, <2>1, <2>4, SourceAssumption
  <2> QED BY <1>5, <2>1, <2>2, <2>4, <2>5
<1>9. UNCHANGED source \/ (\E t \in Tab : ServeCreate(t) \/ ServeRemove(t))
      \/ (\E t \in Tab, k \in Kind : ServePatch(t, k)) \/ (\E i \in Id : RecordRun(i))
  BY ZenonT(30) DEF Next, vars, OpenPage, BackToList, OpenSheet, Edit, CloseSheet, Submit,
     Toggle, Remove, Send, Find, Lose, TakeFailure, TakeAnswer, TakeRemoval, StartRead, EndRead,
     FailRead
<1> QED BY <1>3, <1>4, <1>6, <1>7, <1>8, <1>9

\* One call changes, and waits for no read.
LEMMA OneCallSettles ==
    ASSUME IInv, NEW t \in Tab, NEW k \in Kind, NEW c, c.state # "settling",
           call' = [call EXCEPT ![t][k] = c]
    PROVE  \A u \in Tab : call'[u].save.state = "settling" => call[u].save.state = "settling"
<1>1. call \in [Tab -> [Kind -> AnyCall]] /\ "save" \in Kind
  BY DEF IInv, Shapes, Kind
<1>2. \A u \in Tab : call'[u]["save"] = IF u = t /\ k = "save" THEN c ELSE call[u]["save"]
  BY <1>1
<1> QED BY <1>2

\* What a step does to the read of a tab and to the save that waits for it.
ReadMoves(t) ==
    \/ /\ read'[t] = read[t] /\ page'[t] = page[t]
       /\ call'[t].save.state = "settling" => call[t].save.state = "settling"
    \/ read'[t] = Reading(Answer(page'[t], source)) /\ UNCHANGED source
    \/ read'[t] = NoRead /\ call'[t].save.state # "settling"

LEMMA ReadsMove ==
    ASSUME IInv, [Next]_vars, NEW t \in Tab
    PROVE  ReadMoves(t)
<1>1. /\ page \in [Tab -> Id \cup {None}] /\ read \in [Tab -> Read]
      /\ call \in [Tab -> [Kind -> AnyCall]] /\ "save" \in Kind /\ "remove" \in Kind
  BY DEF IInv, Shapes, Kind
<1>2. CASE UNCHANGED <<page, read, call>>
  BY <1>2 DEF ReadMoves
<1>3. ASSUME NEW u \in Tab, OpenPage(u) \/ BackToList(u) PROVE ReadMoves(t)
  <2>1. call'[u].save.state # "settling" /\ \A o \in Tab \ {u} : call'[o] = call[o]
    BY <1>3, UnmountedKeeps DEF OpenPage, BackToList
  <2>2. CASE u # t
    BY <1>1, <1>3, <2>1, <2>2 DEF ReadMoves, OpenPage, BackToList
  <2>3. CASE u = t
    BY <1>1, <1>3, <2>1, <2>3 DEF ReadMoves, OpenPage, BackToList
  <2> QED BY <2>2, <2>3
<1>4. ASSUME NEW u \in Tab, NEW k \in Kind, NEW c, c.state # "settling",
             call' = [call EXCEPT ![u][k] = c], UNCHANGED <<page, read>>
      PROVE  ReadMoves(t)
  <2>1. call'[t].save.state = "settling" => call[t].save.state = "settling"
    BY <1>4, OneCallSettles
  <2> QED BY <1>4, <2>1 DEF ReadMoves
<1>5. ASSUME NEW u \in Tab, NEW k, k \in Kind, NEW set, Send(u, k, set) PROVE ReadMoves(t)
  <2>1. PICK c : c = Sent(page[u], set) /\ c.state # "settling"
    <3>1. PICK c : c = Sent(page[u], set)
      OBVIOUS
    <3> QED BY <3>1 DEF Sent
  <2>2. call' = [call EXCEPT ![u][k] = c] /\ UNCHANGED <<page, read>>
    BY <1>5, <2>1 DEF Send
  <2> QED BY <1>4, <1>5, <2>1, <2>2
<1>6. ASSUME NEW u \in Tab, NEW k, k \in Kind, Refused(u, k) \/ (\E id, v : Done(u, k, id, v)),
             UNCHANGED <<page, read>>
      PROVE  ReadMoves(t)
  <2>1. CASE Refused(u, k)
    <3>1. PICK c : c = Failed /\ c.state # "settling"
      <4>1. PICK c : c = Failed
        OBVIOUS
      <4> QED BY <4>1 DEF Failed
    <3>2. call' = [call EXCEPT ![u][k] = c]
      BY <2>1, <3>1 DEF Refused, Failed
    <3> QED BY <1>4, <1>6, <3>1, <3>2
  <2>2. ASSUME NEW id, NEW v, Done(u, k, id, v) PROVE ReadMoves(t)
    <3>1. PICK c : /\ c = [state |-> "done", id |-> id, version |-> v,
                            mounted |-> call[u][k].mounted]
                   /\ c.state # "settling"
      <4>1. PICK c : c = [state |-> "done", id |-> id, version |-> v,
                          mounted |-> call[u][k].mounted]
        OBVIOUS
      <4> QED BY <4>1
    <3>2. call' = [call EXCEPT ![u][k] = c]
      BY <1>1, <1>6, <2>2, <3>1 DEF Done
    <3> QED BY <1>4, <1>6, <3>1, <3>2
  <2> QED BY <1>6, <2>1, <2>2
<1>7. ASSUME NEW u \in Tab, Submit(u) \/ Toggle(u) \/ Remove(u) PROVE ReadMoves(t)
  BY <1>5, <1>7 DEF Submit, Toggle, Remove, Kind
<1>8. ASSUME NEW u \in Tab, NEW k \in Kind, ServePatch(u, k) \/ Lose(u, k) PROVE ReadMoves(t)
  BY <1>6, <1>8 DEF ServePatch, Lose
<1>9. ASSUME NEW u \in Tab, ServeCreate(u) \/ ServeRemove(u) PROVE ReadMoves(t)
  BY <1>1, <1>6, <1>9 DEF ServeCreate, ServeRemove
<1>10. ASSUME NEW u \in Tab, NEW k \in Kind, TakeFailure(u, k) PROVE ReadMoves(t)
  <2>1. PICK c : c = Idle /\ c.state # "settling"
    <3>1. PICK c : c = Idle
      OBVIOUS
    <3> QED BY <3>1 DEF Idle
  <2>2. call' = [call EXCEPT ![u][k] = c] /\ UNCHANGED <<page, read>>
    BY <1>10, <2>1 DEF TakeFailure
  <2> QED BY <1>4, <2>1, <2>2
<1>11. ASSUME NEW u \in Tab, NEW k \in Kind, TakeAnswer(u, k) PROVE ReadMoves(t)
  <2>1. CASE Rereads(u)
    BY <1>1, <1>11, <2>1 DEF TakeAnswer, Invalidated, ReadMoves
  <2>2. CASE ~Rereads(u)
    <3>1. PICK c : c = Idle /\ c.state # "settling"
      <4>1. PICK c : c = Idle
        OBVIOUS
      <4> QED BY <4>1 DEF Idle
    <3>2. call' = [call EXCEPT ![u][k] = c] /\ UNCHANGED page
      BY <1>11, <2>2, <3>1 DEF TakeAnswer
    <3>3. UNCHANGED read
      BY <1>1, <1>11, <2>2 DEF TakeAnswer, Invalidated
    <3> QED BY <1>4, <3>1, <3>2, <3>3
  <2> QED BY <2>1, <2>2
<1>12. ASSUME NEW u \in Tab, TakeRemoval(u) PROVE ReadMoves(t)
  <2>1. CASE u # t
    BY <1>1, <1>12, <2>1 DEF TakeRemoval, ReadMoves
  <2>2. CASE u = t
    <3>1. PICK cs : cs = IF page[t] = None THEN call[t] ELSE Unmounted(call[t])
      OBVIOUS
    <3>2. call'[t] = [cs EXCEPT !.remove = Idle]
      BY <1>1, <1>12, <2>2, <3>1 DEF TakeRemoval
    <3>3. cs.save.state = "settling" => page[t] = None /\ call[t].save.state = "settling"
      <4>1. \A k \in Kind : call[t][k] \in Call(k)
        BY DEF IInv, Shapes
      <4>2. Unmounted(call[t])["save"].state # "settling"
        BY <1>1, <4>1, UnmountedType
      <4> QED BY <3>1, <4>2
    <3>4. call'[t]["save"] = cs["save"]
      BY <3>2
    <3>5. /\ page'[t] = None
          /\ read'[t] = IF page[t] = None THEN read[t] ELSE NoRead
      BY <1>1, <1>12, <2>2 DEF TakeRemoval
    <3> QED BY <3>3, <3>4, <3>5 DEF ReadMoves
  <2> QED BY <2>1, <2>2
<1>13. ASSUME NEW u \in Tab, StartRead(u) PROVE ReadMoves(t)
  BY <1>1, <1>13 DEF StartRead, ReadMoves
<1>14. ASSUME NEW u \in Tab, EndRead(u) \/ FailRead(u) PROVE ReadMoves(t)
  <2>1. /\ read' = [read EXCEPT ![u] = NoRead] /\ UNCHANGED page
        /\ IF call[u].save.state = "settling" THEN call' = [call EXCEPT ![u].save = Idle]
           ELSE UNCHANGED call
    BY <1>14 DEF EndRead, FailRead, Settle
  <2>2. Idle.state # "settling"
    BY DEF Idle
  <2> QED BY <1>1, <2>1, <2>2 DEF ReadMoves
<1>15. ASSUME NEW u \in Tab, NEW k \in Kind, Find(u, k) PROVE ReadMoves(t)
  <2>1. PICK c : c = Found(call[u][k], source[call[u][k].id].set) /\ c.state # "settling"
    <3>1. PICK c : c = Found(call[u][k], source[call[u][k].id].set)
      OBVIOUS
    <3> QED BY <3>1 DEF Found
  <2>2. CASE Refused(u, k)
    BY <1>6, <1>15, <2>2 DEF Find
  <2>3. CASE call' = [call EXCEPT ![u][k] = c]
    BY <1>4, <1>15, <2>1, <2>3 DEF Find
  <2> QED BY <1>15, <2>1, <2>2, <2>3 DEF Find
<1> QED BY <1>2, <1>3, <1>7, <1>8, <1>9, <1>10, <1>11, <1>12, <1>13, <1>14, <1>15
        DEF Next, vars, OpenSheet, Edit, CloseSheet, RecordRun

\* A save never waits for a read that does not run: an answer, a failure and leaving the
\* page end the wait together with the read (source-form-sheet.tsx, invalidateQueries
\* after the save).
THEOREM NoSaveWaitsCorrect == Spec => []NoSaveWaits
<1>1. Init => NoSaveWaits
  <2> SUFFICES ASSUME Init, NEW t \in Tab PROVE call[t].save.state # "settling"
    BY DEF NoSaveWaits
  <2>1. call[t]["save"] = Idle /\ Idle.state # "settling"
    BY DEF Init, Kind, Idle
  <2> QED BY <2>1
<1>2. ASSUME IInv, NoSaveWaits, [Next]_vars PROVE NoSaveWaits'
  <2> SUFFICES ASSUME NEW t \in Tab, call'[t].save.state = "settling" PROVE read'[t].running
    BY DEF NoSaveWaits
  <2>1. \A a : Reading(a).running
    BY DEF Reading
  <2> QED BY <1>2, <2>1, ReadsMove DEF ReadMoves, NoSaveWaits
<1> QED BY InvCorrect, <1>1, <1>2, PTL DEF Spec

\* A page never shows settings under a version of the record that had others, however
\* late a read ends, whoever saves meanwhile and to whatever source the page has turned
\* (cache by source, EndRead): what it shows under the present version is stored.
THEOREM VersionsAreKnownCorrect == Spec => []VersionsAreKnown
<1>1. Init => VersionsAreKnown
  BY DEF Init, VersionsAreKnown, NoRead
<1>2. ASSUME IInv, VersionsAreKnown, [Next]_vars PROVE VersionsAreKnown'
  <2>1. /\ source \in [Id -> Entry] /\ source' \in [Id -> Entry]
        /\ page \in [Tab -> Id \cup {None}] /\ page' \in [Tab -> Id \cup {None}]
        /\ cache \in [Tab -> [Id -> Entry]]
    BY <1>2, NextStep DEF IInv, Shapes
  <2>2. ASSUME NEW id \in Id, NEW r \in Record, Later(r, source[id])
        PROVE  Later(r, source'[id])
    <3>1. Later(source[id], source'[id])
      BY <1>2, <2>2, RecordsGrow DEF Later, Exists
    <3>2. r.version \in Nat /\ source[id].version \in Nat /\ source'[id].version \in Nat
      BY <2>1, <2>2, <3>1, SourceAssumption DEF Later, Entry, Record
    <3> QED BY <2>2, <3>1, <3>2 DEF Later
  <2>3. ASSUME NEW t \in Tab, read[t].running, read[t].answer # None
        PROVE  /\ read[t].answer \in Record /\ page[t] \in Id
               /\ Later(read[t].answer, source'[page[t]])
    <3>1. read[t].answer \in Record
      BY <1>2, <2>3, ReadFields DEF IInv, Shapes, Entry
    <3>2. page[t] \in Id
      BY <1>2, <2>1, <2>3 DEF IInv, ReadSound
    <3> QED BY <1>2, <2>2, <2>3, <3>1, <3>2 DEF VersionsAreKnown
  <2>4. ASSUME NEW t \in Tab, NEW id \in Id, cache'[t][id] # None
        PROVE  Later(cache'[t][id], source'[id])
    <3>1. CASE cache'[t][id] = cache[t][id]
      <4>1. cache[t][id] \in Record /\ Later(cache[t][id], source[id])
        BY <1>2, <2>1, <2>4, <3>1 DEF Entry, VersionsAreKnown
      <4> QED BY <2>2, <3>1, <4>1
    <3>2. CASE cache'[t][id] # cache[t][id]
      <4>1. /\ read[t].running /\ read[t].answer # None
            /\ cache' = [cache EXCEPT ![t][page[t]] = read[t].answer]
        BY <1>2, <3>2, CacheMoves
      <4>2. id = page[t] /\ cache'[t][id] = read[t].answer
        BY <2>1, <3>2, <4>1
      <4> QED BY <2>3, <4>1, <4>2
    <3> QED BY <3>1, <3>2
  <2>5. ASSUME NEW t \in Tab, read'[t].running, read'[t].answer # None
        PROVE  Later(read'[t].answer, source'[page'[t]])
    <3>1. ReadMoves(t)
      BY <1>2, ReadsMove
    <3>2. CASE read'[t] = read[t] /\ page'[t] = page[t]
      BY <2>3, <2>5, <3>2
    <3>3. CASE read'[t] = Reading(Answer(page'[t], source)) /\ UNCHANGED source
      <4>1. PICK p \in Id \cup {None} : p = page'[t]
        BY <2>1
      <4>2. read'[t].answer = source[p] /\ p \in Id
        BY <2>1, <2>5, <3>3, <4>1, AnswerType
      <4>3. source[p] # None /\ source[p].version \in Nat
        BY <2>1, <2>5, <4>2, SourceAssumption DEF Entry, Record
      <4> QED BY <3>3, <4>1, <4>2, <4>3 DEF Later
    <3>4. CASE read'[t] = NoRead
      BY <2>5, <3>4 DEF NoRead
    <3> QED BY <3>1, <3>2, <3>3, <3>4 DEF ReadMoves
  <2> QED BY <2>4, <2>5 DEF VersionsAreKnown
<1> QED BY InvCorrect, <1>1, <1>2, PTL DEF Spec
=============================================================================

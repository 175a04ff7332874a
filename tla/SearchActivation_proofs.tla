----------------------- MODULE SearchActivation_proofs -----------------------
(***************************************************************************)
(* Proofs about SearchActivation: the types, that the database names only  *)
(* versions search has served, and what a rollback leaves alone.           *)
(***************************************************************************)
EXTENDS SearchActivation, TLAPS

ProbePlaces == {"idle", "ready", "read", "inspect", "reload", "reswitch", "vacant", "clear", "deactivate"}

\* A caller waits for one request, the one its place calls for.
ReqInv ==
    /\ \A q \in requests : q.by # Nobody => pc[q.by] \in Calling /\ q.op = Op(pc[q.by])
    /\ \A q \in requests : q.by \in Attempt => q.version = q.by[1]
    /\ \A q \in requests : q.op = "load" => q.version # 0
    /\ \A q \in requests : q.stage = "forget" => q.op = "clear"
    /\ \A q, r \in requests : q.by = r.by /\ q.by # Nobody => q = r

\* The probe never commits, and has a version in mind when it restores one.
ProbeInv ==
    /\ pc[Probe] \in ProbePlaces
    /\ pc[Probe] \in Retried => seen # 0

\* What is committed, and what is about to be, was served.
ServedInv ==
    /\ active \in served \cup {0}
    /\ \A a \in Attempt : pc[a] = "commit" => a[1] \in served

IInv == TypeOK /\ ReqInv /\ ProbeInv /\ ServedInv

-----------------------------------------------------------------------------
(* Callers and their requests.                                             *)

\* What a place asks for.
LEMMA AskFacts ==
    ASSUME NEW p \in Caller, NEW at \in PC, NEW v \in VersionOrNone
    PROVE  /\ Ask(p, at, v) \subseteq Request
           /\ \A r \in Ask(p, at, v) : /\ r.by = p /\ r.op = Op(at) /\ r.version = v
                                       /\ r.stage = "call" /\ at \in Calling
           /\ \A r, s \in Ask(p, at, v) : r = s
<1>1. 0 \in VersionOrNone
  BY ActivationAssumption DEF VersionOrNone
<1>2. Op(at) \in {"load", "switch", "rollback", "status", "clear"}
  BY DEF Op
<1>3. Nothing \in Pair
  BY <1>1 DEF Nothing, Pair
<1>4. Call(p, Op(at), v) \in Request
  BY <1>2, <1>3 DEF Call, Request
<1> QED
  BY <1>4 DEF Ask, Call

LEMMA GoalType ==
    ASSUME TypeOK, NEW p \in Caller
    PROVE  /\ Goal(p) \in VersionOrNone
           /\ p \in Attempt => Goal(p) = p[1] /\ Goal(p) \in Version /\ Goal(p) # 0
           /\ p = Probe => Goal(p) = seen
<1>1. CASE p = Probe
  BY <1>1, CallerAssumption DEF Goal, TypeOK
<1>2. CASE p \in Attempt
  <2>1. p[1] \in Version
    BY <1>2 DEF Attempt
  <2>2. p[1] \in VersionOrNone /\ p[1] # 0
    BY <2>1, ActivationAssumption DEF Version, VersionOrNone
  <2> QED
    BY <1>2, <2>1, <2>2, CallerAssumption DEF Goal
<1> QED
  BY <1>1, <1>2 DEF Caller

\* Where an answer sends its caller.
LEMMA ContinueFacts ==
    ASSUME TypeOK, ProbeInv, NEW p \in Caller, NEW answer, NEW at \in Continue(p, answer)
    PROVE  /\ at \in PC
           /\ p = Probe => at \in ProbePlaces /\ (at \in Retried => seen # 0)
           /\ p = Probe => at # "done"
           /\ at = "commit" => answer = "ok" /\ pc[p] = "switch"
           /\ at \in {"load", "reload"} => at = "reload" /\ pc[p] \in {"inspect", "reload"}
<1>1. pc[p] \in PC
  BY DEF TypeOK
<1>2. CASE at = Stop(p)
  BY <1>2 DEF Stop, PC, Calling, Ended, ProbePlaces, Retried
<1>3. CASE at = pc[p] /\ pc[p] \in Retried
  BY <1>1, <1>3 DEF ProbeInv, Retried, ProbePlaces
<1>4. CASE answer = "ok" /\ at = Onward(p)
  <2>1. /\ at \in PC
        /\ at = "commit" => pc[p] = "switch"
        /\ at \in {"load", "reload"} => at = "reload" /\ pc[p] \in {"inspect", "reload"}
    BY <1>1, <1>4 DEF Onward, PC, Calling, Ended
  <2>2. ASSUME p = Probe
        PROVE  at \in ProbePlaces /\ at # "done" /\ (at \in Retried => seen # 0)
    <3>1. pc[p] \in ProbePlaces /\ (pc[p] \in Retried => seen # 0)
      BY <2>2 DEF ProbeInv
    <3> QED
      BY <1>4, <2>2, <3>1 DEF Onward, ProbePlaces, Retried
  <2> QED
    BY <1>4, <2>1, <2>2
<1> QED
  BY <1>2, <1>3, <1>4 DEF Continue

\* The invariant of callers and requests, and the places that precede a commit.
Bookkeeping ==
    /\ requests \subseteq Request /\ pc \in [Caller -> PC] /\ over \subseteq Version
    /\ ReqInv /\ ProbeInv

\* No attempt comes to the commit.
NoneCommits == \A a \in Attempt : pc'[a] = "commit" => pc[a] = "commit"

\* A request is moved on within the gateway.
LEMMA AdvanceKeeps ==
    ASSUME TypeOK, ReqInv, ProbeInv, NEW q \in requests, NEW r \in Request,
           r.by = q.by, r.op = q.op, r.version = q.version,
           r.stage = "forget" => r.op = "clear",
           requests' = (requests \ {q}) \cup {r}, pc' = pc, over' = over, seen' = seen
    PROVE  Bookkeeping' /\ NoneCommits
<1>1. requests' \subseteq Request /\ pc' \in [Caller -> PC] /\ over' \subseteq Version
  BY DEF TypeOK
<1>2. ProbeInv'
  BY DEF ProbeInv
<1>3. ReqInv'
  BY DEF ReqInv
<1> QED
  BY <1>1, <1>2, <1>3 DEF Bookkeeping, NoneCommits

\* A caller is sent to a place, and asks what the place calls for.
LEMMA SendKeeps ==
    ASSUME TypeOK, ReqInv, ProbeInv, NEW p \in Caller, NEW at \in PC, NEW v \in VersionOrNone,
           NEW others, others \subseteq requests,
           \A q \in others : q.by # p,
           NEW rest, rest \subseteq Request,
           \A q \in rest : /\ q.by = Nobody
                           /\ q.op = "load" => q.version # 0
                           /\ q.stage = "forget" => q.op = "clear",
           p \in Attempt => v = p[1],
           at \in {"load", "reload"} => v # 0,
           p = Probe => at \in ProbePlaces /\ (at \in Retried => seen' # 0),
           p # Probe => seen' = seen,
           pc' = [pc EXCEPT ![p] = at],
           requests' = others \cup rest \cup Ask(p, at, v),
           over' \subseteq Version
    PROVE  /\ Bookkeeping'
           /\ \A a \in Attempt : pc'[a] = "commit" => pc[a] = "commit" \/ (a = p /\ at = "commit")
<1> DEFINE asked == Ask(p, at, v)
<1>1. /\ asked \subseteq Request
      /\ \A r \in asked : r.by = p /\ r.op = Op(at) /\ r.version = v /\ r.stage = "call" /\ at \in Calling
      /\ \A r, s \in asked : r = s
  BY AskFacts
<1>2. pc \in [Caller -> PC] /\ requests \subseteq Request
  BY DEF TypeOK
<1>3. /\ pc' \in [Caller -> PC]
      /\ pc'[p] = at
      /\ \A o \in Caller : o # p => pc'[o] = pc[o]
  BY <1>2
<1>4. requests' \subseteq Request
  BY <1>1, <1>2
<1>5. \A q \in requests : q.by \in Caller \cup {Nobody}
  BY <1>2 DEF Request
<1>6. Nobody \notin Attempt /\ p # Nobody /\ Probe \in Caller /\ Attempt \subseteq Caller
  BY CallerAssumption DEF Caller
<1> HIDE DEF asked
<1>7. requests' = others \cup rest \cup asked
  BY DEF asked
<1>8. ReqInv'
  <2>1. ASSUME NEW q \in requests', q.by # Nobody
        PROVE  pc'[q.by] \in Calling /\ q.op = Op(pc'[q.by])
    <3>1. CASE q \in others
      <4>1. pc'[q.by] = pc[q.by]
        BY <3>1, <2>1, <1>3, <1>5
      <4> QED
        BY <3>1, <2>1, <4>1 DEF ReqInv
    <3>2. CASE q \in asked
      BY <3>2, <1>1, <1>3
    <3> QED
      BY <2>1, <3>1, <3>2, <1>7
  <2>2. ASSUME NEW q \in requests', q.by \in Attempt
        PROVE  q.version = q.by[1]
    <3>1. CASE q \in others
      BY <3>1, <2>2 DEF ReqInv
    <3>2. CASE q \in asked
      BY <3>2, <2>2, <1>1
    <3> QED
      BY <2>2, <3>1, <3>2, <1>6, <1>7
  <2>3. ASSUME NEW q \in requests', q.op = "load"
        PROVE  q.version # 0
    <3>1. CASE q \in others
      BY <3>1, <2>3 DEF ReqInv
    <3>2. CASE q \in asked
      <4>1. Op(at) = "load" /\ at \in Calling
        BY <3>2, <2>3, <1>1
      <4>2. at \in {"load", "reload"}
        BY <4>1 DEF Op, Calling
      <4> QED
        BY <3>2, <4>2, <1>1
    <3> QED
      BY <2>3, <3>1, <3>2, <1>7
  <2>4. ASSUME NEW q \in requests', q.stage = "forget"
        PROVE  q.op = "clear"
    <3>1. CASE q \in others
      BY <3>1, <2>4 DEF ReqInv
    <3>2. CASE q \in asked
      BY <3>2, <2>4, <1>1
    <3> QED
      BY <2>4, <3>1, <3>2, <1>7
  <2>5. ASSUME NEW q \in requests', NEW r \in requests', q.by = r.by, q.by # Nobody
        PROVE  q = r
    <3>1. CASE q \in others
      <4>1. r \in others
        BY <3>1, <2>5, <1>1, <1>7
      <4> QED
        BY <3>1, <4>1, <2>5 DEF ReqInv
    <3>2. CASE q \in asked
      <4>1. r \in asked
        BY <3>2, <2>5, <1>1, <1>7
      <4> QED
        BY <3>2, <4>1, <1>1
    <3> QED
      BY <2>5, <3>1, <3>2, <1>7
  <2> QED
    BY <2>1, <2>2, <2>3, <2>4, <2>5 DEF ReqInv
<1>9. ProbeInv'
  <2>1. CASE p = Probe
    BY <2>1, <1>3 DEF ProbeInv
  <2>2. CASE p # Probe
    <3>1. pc'[Probe] = pc[Probe] /\ seen' = seen
      BY <2>2, <1>3, <1>6
    <3> QED
      BY <3>1 DEF ProbeInv
  <2> QED
    BY <2>1, <2>2
<1>10. \A a \in Attempt : pc'[a] = "commit" => pc[a] = "commit" \/ (a = p /\ at = "commit")
  BY <1>3, <1>6
<1> QED
  BY <1>3, <1>4, <1>8, <1>9, <1>10 DEF Bookkeeping

\* An answered caller goes on.
LEMMA AnswerKeeps ==
    ASSUME TypeOK, ReqInv, ProbeInv, NEW q \in requests, NEW answer, NEW rest,
           rest \subseteq {[q EXCEPT !.by = Nobody]}, seen' = seen,
           Answer(q, answer, rest), q.by = Nobody => rest = {}
    PROVE  /\ Bookkeeping'
           /\ \A a \in Attempt : pc'[a] = "commit" =>
                pc[a] = "commit" \/ (a = q.by /\ answer = "ok" /\ pc[a] = "switch")
<1>1. q \in Request /\ q.by \in Caller \cup {Nobody}
  BY DEF TypeOK, Request
<1>2. CASE q.by = Nobody
  <2>1. requests' = requests \ {q} /\ pc' = pc /\ over' = over
    BY <1>2 DEF Answer
  <2>2. ReqInv'
    BY <2>1 DEF ReqInv
  <2>3. ProbeInv'
    BY <2>1 DEF ProbeInv
  <2> QED
    BY <2>1, <2>2, <2>3 DEF Bookkeeping, TypeOK
<1>3. CASE q.by # Nobody
  <2> DEFINE p == q.by
  <2>1. p \in Caller
    BY <1>1, <1>3
  <2>2. PICK at \in Continue(p, answer) :
          /\ pc' = [pc EXCEPT ![p] = at]
          /\ requests' = (requests \ {q}) \cup rest \cup Ask(p, at, Goal(p))
          /\ over' = IF at = "done" THEN over \cup {Goal(p)} ELSE over
    BY <1>3 DEF Answer
  <2>3. /\ at \in PC
        /\ p = Probe => at \in ProbePlaces /\ (at \in Retried => seen # 0)
        /\ p = Probe => at # "done"
        /\ at = "commit" => answer = "ok" /\ pc[p] = "switch"
        /\ at \in {"load", "reload"} => at = "reload" /\ pc[p] \in {"inspect", "reload"}
    BY <2>1, ContinueFacts
  <2>4. /\ Goal(p) \in VersionOrNone
        /\ p \in Attempt => Goal(p) = p[1] /\ Goal(p) \in Version /\ Goal(p) # 0
        /\ p = Probe => Goal(p) = seen
    BY <2>1, GoalType
  <2>5. p = Probe \/ p \in Attempt
    BY <2>1 DEF Caller
  <2>6. at \in {"load", "reload"} => Goal(p) # 0
    BY <2>3, <2>4, <2>5 DEF ProbeInv, Retried
  <2>7. over' \subseteq Version
    BY <2>2, <2>3, <2>4, <2>5 DEF TypeOK
  <2>8. \A r \in requests \ {q} : r.by # p
    BY <1>3 DEF ReqInv
  <2>9. [q EXCEPT !.by = Nobody] \in Request
    BY <1>1 DEF Request
  <2>10. \A r \in rest : /\ r \in Request /\ r.by = Nobody
                         /\ r.op = "load" => r.version # 0
                         /\ r.stage = "forget" => r.op = "clear"
    <3>1. /\ q.op = "load" => q.version # 0
          /\ q.stage = "forget" => q.op = "clear"
      BY DEF ReqInv
    <3>2. /\ [q EXCEPT !.by = Nobody].by = Nobody
          /\ [q EXCEPT !.by = Nobody].op = q.op
          /\ [q EXCEPT !.by = Nobody].version = q.version
          /\ [q EXCEPT !.by = Nobody].stage = q.stage
      BY <1>1 DEF Request
    <3> QED
      BY <2>9, <3>1, <3>2
  <2> HIDE DEF p
  <2>11. /\ Bookkeeping'
         /\ \A a \in Attempt : pc'[a] = "commit" => pc[a] = "commit" \/ (a = p /\ at = "commit")
    <3>1. PICK v, others : v = Goal(p) /\ others = requests \ {q}
      OBVIOUS
    <3>2. /\ v \in VersionOrNone /\ others \subseteq requests /\ rest \subseteq Request
          /\ \A r \in others : r.by # p
          /\ p \in Attempt => v = p[1]
          /\ at \in {"load", "reload"} => v # 0
          /\ p = Probe => at \in ProbePlaces /\ (at \in Retried => seen' # 0)
      BY <2>2, <2>3, <2>4, <2>6, <2>8, <2>10, <3>1
    <3>3. requests' = others \cup rest \cup Ask(p, at, v) /\ pc' = [pc EXCEPT ![p] = at]
      BY <2>2, <3>1
    <3> QED
      <4>1. \A r \in rest : /\ r.by = Nobody
                            /\ r.op = "load" => r.version # 0
                            /\ r.stage = "forget" => r.op = "clear"
        BY <2>10
      <4>2. at \in PC /\ over' \subseteq Version /\ (p # Probe => seen' = seen)
        BY <2>3, <2>7
      <4> QED
        BY <2>1, <3>2, <3>3, <4>1, <4>2, SendKeeps, ZenonT(60)
  <2> QED
    BY <2>3, <2>11 DEF p
<1> QED
  BY <1>2, <1>3

\* A caller goes on by itself.
LEMMA MoveKeeps ==
    ASSUME TypeOK, ReqInv, ProbeInv, NEW p \in Caller, NEW at \in PC, NEW v \in VersionOrNone,
           pc[p] \notin Calling,
           Move(p, at, v),
           p \in Attempt => v = p[1],
           at \in {"load", "reload"} => v # 0,
           p = Probe => at \in ProbePlaces /\ (at \in Retried => seen' # 0),
           p # Probe => seen' = seen,
           over' \subseteq Version
    PROVE  /\ Bookkeeping'
           /\ \A a \in Attempt : pc'[a] = "commit" => pc[a] = "commit" \/ (a = p /\ at = "commit")
<1>1. p # Nobody
  BY CallerAssumption DEF Caller
<1>2. \A q \in requests : q.by # p
  BY <1>1 DEF ReqInv
<1>3. PICK others, rest : others = requests /\ rest = {}
  OBVIOUS
<1>4. requests' = others \cup rest \cup Ask(p, at, v) /\ pc' = [pc EXCEPT ![p] = at]
  BY <1>3 DEF Move
<1>5. /\ others \subseteq requests /\ rest \subseteq Request
      /\ \A q \in others : q.by # p
      /\ \A q \in rest : /\ q.by = Nobody
                         /\ q.op = "load" => q.version # 0
                         /\ q.stage = "forget" => q.op = "clear"
  BY <1>2, <1>3
<1> QED
  BY <1>4, <1>5, SendKeeps, ZenonT(60)

-----------------------------------------------------------------------------
(* What every step does.                                                   *)

\* The types that TypeOK adds to those of Bookkeeping.
OtherTypes ==
    /\ active \in VersionOrNone /\ owner \in VersionOrNone /\ granted \in VersionOrNone
    /\ lost \subseteq Version
    /\ child \in Child /\ remembered \in Pair /\ known \subseteq Version
    /\ seen \in VersionOrNone /\ faults \in 0..MaxFaults

\* Who comes to the commit has seen search switch to its version.
CommitsServed == \A a \in Attempt : pc'[a] = "commit" => pc[a] = "commit" \/ child'.serving = a[1]

\* What the database names was named before or is committed.
ActiveFrom == active' \in {active, 0} \/ \E a \in Attempt : pc[a] = "commit" /\ active' = a[1]

Good == OtherTypes' /\ Bookkeeping' /\ CommitsServed /\ ActiveFrom

LEMMA ChildTypes ==
    ASSUME TypeOK
    PROVE  /\ Fresh \in Child /\ [Fresh EXCEPT !.up = FALSE] \in Child
           /\ Nothing \in Pair /\ View(child) \in Pair
           /\ \A c \in Child : View(c) \in Pair
           /\ \A v \in VersionOrNone : \A op : Effect(op, v) \in Child
<1>1. 0 \in VersionOrNone
  BY ActivationAssumption DEF VersionOrNone
<1>2. child \in Child
  BY DEF TypeOK
<1>3. \A c \in Child : View(c) \in Pair
  BY DEF View, Child, Pair
<1>4. ASSUME NEW v \in VersionOrNone, NEW op
      PROVE  Effect(op, v) \in Child
  BY <1>1, <1>2 DEF Effect, Child
<1> QED
  BY <1>1, <1>2, <1>3, <1>4 DEF Fresh, Nothing, Child, Pair

\* Requests and their versions have their types.
LEMMA RequestTypes ==
    ASSUME TypeOK, ReqInv, NEW q \in requests
    PROVE  /\ q \in Request /\ q.by \in Caller \cup {Nobody} /\ q.version \in VersionOrNone
           /\ q.want \in Pair /\ q.want.serving \in VersionOrNone /\ q.want.retained \in VersionOrNone
           /\ q.op = "load" => q.version \in Version
           /\ \A stage \in {"call", "recover", "lost"} \cup Holding :
                /\ [q EXCEPT !.stage = stage] \in Request
                /\ [q EXCEPT !.stage = stage].by = q.by
                /\ [q EXCEPT !.stage = stage].op = q.op
                /\ [q EXCEPT !.stage = stage].version = q.version
                /\ [q EXCEPT !.stage = stage].stage = stage
<1>1. q \in Request
  BY DEF TypeOK
<1>2. q.want \in Pair /\ q.version \in VersionOrNone
  BY <1>1 DEF Request
<1>3. q.op = "load" => q.version \in Version
  BY <1>2, ActivationAssumption DEF ReqInv, VersionOrNone, Version
<1> QED
  BY <1>1, <1>2, <1>3 DEF Request, Pair

\* A request moves on within the gateway.
LEMMA AdvanceGood ==
    ASSUME TypeOK, ReqInv, ProbeInv, NEW q \in requests,
           NEW stage \in {"call", "recover", "lost"} \cup Holding,
           stage = "forget" => q.op = "clear",
           Advance(q, stage), UNCHANGED database, seen' = seen
    PROVE  Bookkeeping' /\ CommitsServed /\ ActiveFrom
<1>1. PICK r \in Request : /\ r = [q EXCEPT !.stage = stage]
                           /\ r.by = q.by /\ r.op = q.op /\ r.version = q.version /\ r.stage = stage
  BY RequestTypes
<1>2. requests' = (requests \ {q}) \cup {r} /\ pc' = pc /\ over' = over
  BY <1>1 DEF Advance
<1>3. Bookkeeping' /\ NoneCommits
  BY <1>1, <1>2, AdvanceKeeps
<1> QED
  BY <1>3 DEF NoneCommits, CommitsServed, ActiveFrom, database

\* A caller gets an answer that does not send it to the commit.
LEMMA ReplyGood ==
    ASSUME TypeOK, ReqInv, ProbeInv, NEW q \in requests, NEW answer,
           Reply(q, answer), UNCHANGED database, seen' = seen,
           answer = "ok" /\ q.op = "switch" /\ q.by # Nobody => child'.serving = q.version
    PROVE  Bookkeeping' /\ CommitsServed /\ ActiveFrom
<1>1. PICK rest : rest = {}
  OBVIOUS
<1>2. Answer(q, answer, rest)
  BY <1>1 DEF Reply
<1>3. /\ Bookkeeping'
      /\ \A a \in Attempt : pc'[a] = "commit" =>
           pc[a] = "commit" \/ (a = q.by /\ answer = "ok" /\ pc[a] = "switch")
  BY <1>1, <1>2, AnswerKeeps
<1>4. ASSUME NEW a \in Attempt, a = q.by, answer = "ok", pc[a] = "switch"
      PROVE  child'.serving = a[1]
  <2>1. q.by # Nobody
    BY <1>4, CallerAssumption
  <2>2. q.op = "switch" /\ q.version = a[1]
    BY <1>4, <2>1 DEF ReqInv, Op
  <2> QED
    BY <1>4, <2>1, <2>2
<1> QED
  BY <1>3, <1>4 DEF CommitsServed, ActiveFrom, database

LEMMA FaultType ==
    ASSUME TypeOK, faults' = faults \/ Fault
    PROVE  faults' \in 0..MaxFaults
BY ActivationAssumption DEF TypeOK, Fault

LEMMA ExecuteGood ==
    ASSUME TypeOK, ReqInv, ProbeInv, NEW q \in requests, Execute(q)
    PROVE  Good
<1>1. /\ q.version \in VersionOrNone
      /\ q.op = "load" => q.version \in Version
  BY RequestTypes
<1>2. child' \in Child /\ child' = Effect(q.op, q.version)
  BY <1>1, ChildTypes DEF Execute
<1>3. View(child') \in Pair
  BY <1>2, ChildTypes
<1>4. OtherTypes'
  BY <1>1, <1>2, <1>3 DEF Execute, TypeOK, OtherTypes, database
<1>5. CASE Accepts(q.op, q.version)
  <2>1. q.op = "switch" => child'.serving = q.version
    BY <1>2, <1>5 DEF Effect, TypeOK, Child
  <2>2. Reply(q, "ok")
    BY <1>5 DEF Execute
  <2> QED
    BY <1>4, <2>1, <2>2, ReplyGood DEF Execute, Good
<1>6. CASE ~Accepts(q.op, q.version)
  <2>1. Reply(q, "refused")
    BY <1>6 DEF Execute
  <2> QED
    BY <1>4, <2>1, ReplyGood DEF Execute, Good
<1> QED
  BY <1>5, <1>6

LEMMA ChildDeadGood ==
    ASSUME TypeOK, ReqInv, ProbeInv, NEW q \in requests, ChildDead(q)
    PROVE  Good
<1>1. q.version \in VersionOrNone
  BY RequestTypes
<1>2. child' \in Child
  BY <1>1, ChildTypes DEF ChildDead, TypeOK
<1>3. faults' \in 0..MaxFaults
  BY FaultType DEF ChildDead
<1>4. OtherTypes'
  BY <1>2, <1>3 DEF ChildDead, TypeOK, OtherTypes, database
<1> QED
  BY <1>4, AdvanceGood DEF ChildDead, Good

LEMMA LoseAnswerGood ==
    ASSUME TypeOK, ReqInv, ProbeInv, NEW q \in requests, LoseAnswer(q)
    PROVE  Good
<1>1. PICK rest \in {{}, {[q EXCEPT !.by = Nobody]}} : Answer(q, "unavailable", rest)
  BY DEF LoseAnswer
<1>2. rest \subseteq {[q EXCEPT !.by = Nobody]}
  BY <1>1
<1>3. q.by # Nobody /\ seen' = seen
  BY DEF LoseAnswer
<1>4. /\ Bookkeeping'
      /\ \A a \in Attempt : pc'[a] = "commit" =>
           pc[a] = "commit" \/ (a = q.by /\ "unavailable" = "ok" /\ pc[a] = "switch")
  BY <1>1, <1>2, <1>3, AnswerKeeps
<1>5. faults' \in 0..MaxFaults
  BY FaultType DEF LoseAnswer
<1>6. OtherTypes'
  BY <1>5 DEF LoseAnswer, TypeOK, OtherTypes, database, compute
<1> QED
  BY <1>4, <1>6 DEF LoseAnswer, Good, CommitsServed, ActiveFrom, database

LEMMA RecoverGood ==
    ASSUME TypeOK, ReqInv, ProbeInv, NEW q \in requests, Recover(q)
    PROVE  Good
<1>1. OtherTypes'
  BY DEF Recover, TypeOK, OtherTypes, database, compute
<1>2. Reply(q, "unavailable") \/ Advance(q, "restart")
  BY DEF Recover
<1> QED
  BY <1>1, <1>2, ReplyGood, AdvanceGood DEF Recover, Good, Holding, Restoring

LEMMA RestartGood ==
    ASSUME TypeOK, ReqInv, ProbeInv, NEW q \in requests, RestartChild(q) \/ ClearChild(q)
    PROVE  Good
<1>1. OtherTypes'
  BY ChildTypes DEF RestartChild, ClearChild, TypeOK, OtherTypes, database
<1>2. Advance(q, "remember") \/ (Advance(q, "forget") /\ q.op = "clear")
  BY DEF RestartChild, ClearChild
<1> QED
  BY <1>1, <1>2, AdvanceGood DEF RestartChild, ClearChild, Good, Holding, Restoring

LEMMA RememberGood ==
    ASSUME TypeOK, ReqInv, ProbeInv, NEW q \in requests, Remember(q)
    PROVE  Good
<1>1. OtherTypes'
  BY DEF Remember, TypeOK, OtherTypes, database, compute
<1>2. CASE Reply(q, "unavailable")
  BY <1>1, <1>2, ReplyGood DEF Remember, Good
<1>3. CASE ~Reply(q, "unavailable")
  <2>1. PICK r : /\ r = [q EXCEPT !.want = remembered,
                                  !.stage = IF remembered.retained # 0 THEN "retained" ELSE "serving"]
                 /\ requests' = (requests \ {q}) \cup {r} /\ pc' = pc /\ over' = over
    BY <1>3 DEF Remember
  <2>2. remembered \in Pair /\ q \in Request
    BY DEF TypeOK
  <2>3. /\ r \in Request /\ r.by = q.by /\ r.op = q.op /\ r.version = q.version
        /\ r.stage # "forget"
    BY <2>1, <2>2 DEF Request, Holding, Restoring
  <2>4. Bookkeeping' /\ NoneCommits
    BY <2>1, <2>3, AdvanceKeeps DEF Remember
  <2> QED
    BY <1>1, <2>4 DEF Remember, NoneCommits, CommitsServed, ActiveFrom, database, Good
<1> QED
  BY <1>2, <1>3

LEMMA RestoreGood ==
    ASSUME TypeOK, ReqInv, ProbeInv, NEW q \in requests, RestoreLoad(q) \/ RestoreSwitch(q)
    PROVE  Good
<1>1. q.want.serving \in VersionOrNone /\ q.want.retained \in VersionOrNone
  BY RequestTypes
<1>2. child' \in Child
  BY <1>1, ChildTypes DEF RestoreLoad, RestoreSwitch, TypeOK
<1>3. remembered' \in Pair
  BY <1>2, ChildTypes DEF RestoreLoad, RestoreSwitch, TypeOK
<1>4. OtherTypes'
  BY <1>2, <1>3 DEF RestoreLoad, RestoreSwitch, TypeOK, OtherTypes, database
<1>5. \/ \E stage \in {"retainedSwitch", "servingSwitch", "serving"} : Advance(q, stage)
      \/ Reply(q, "unavailable") \/ Reply(q, "refused")
  BY DEF RestoreLoad, RestoreSwitch
<1>6. UNCHANGED database /\ seen' = seen
  BY DEF RestoreLoad, RestoreSwitch
<1>7. CASE \E stage \in {"retainedSwitch", "servingSwitch", "serving"} : Advance(q, stage)
  BY <1>4, <1>6, <1>7, AdvanceGood DEF Good, Holding, Restoring
<1>8. CASE Reply(q, "unavailable") \/ Reply(q, "refused")
  BY <1>4, <1>6, <1>8, ReplyGood DEF Good
<1> QED
  BY <1>5, <1>7, <1>8

LEMMA ForgetGood ==
    ASSUME TypeOK, ReqInv, ProbeInv, NEW q \in requests, Forget(q)
    PROVE  Good
<1>1. q.op = "clear"
  BY DEF Forget, ReqInv
<1>2. OtherTypes'
  BY ChildTypes DEF Forget, TypeOK, OtherTypes, database
<1>3. Reply(q, "ok") \/ Reply(q, "unavailable")
  BY DEF Forget
<1> QED
  BY <1>1, <1>2, <1>3, ReplyGood DEF Forget, Good

LEMMA DisconnectedGood ==
    ASSUME TypeOK, ReqInv, ProbeInv, NEW q \in requests, Disconnected(q)
    PROVE  Good
<1>1. OtherTypes'
  BY DEF Disconnected, TypeOK, OtherTypes, database, compute
<1> QED
  BY <1>1, ReplyGood DEF Disconnected, Good

\* Every step the gateway makes with a request.
LEMMA GatewayGood ==
    ASSUME TypeOK, ReqInv, ProbeInv, NEW q \in requests,
           Handle(q) \/ (child.up /\ ChildDead(q)) \/ LoseAnswer(q)
    PROVE  Good
BY ExecuteGood, ChildDeadGood, LoseAnswerGood, RecoverGood, RestartGood, RememberGood, RestoreGood,
   ForgetGood, DisconnectedGood DEF Handle

LEMMA BeginGood ==
    ASSUME TypeOK, ReqInv, ProbeInv, NEW a \in Attempt, Begin(a)
    PROVE  Good
<1>1. /\ a \in Caller /\ a # Probe /\ a[1] \in VersionOrNone /\ a[1] # 0
  <2>1. a[1] \in Version
    BY DEF Attempt
  <2> QED
    BY <2>1, CallerAssumption, ActivationAssumption DEF Caller, Version, VersionOrNone
<1>2. PICK at \in {"inspect", "load"} : Move(a, at, a[1])
  BY DEF Begin
<1>3. at \in PC /\ at # "commit" /\ pc[a] \notin Calling
  BY <1>2 DEF Begin, PC, Calling
<1>4. over' \subseteq Version /\ seen' = seen
  BY DEF Begin, TypeOK
<1>5. /\ Bookkeeping'
      /\ \A b \in Attempt : pc'[b] = "commit" => pc[b] = "commit" \/ (b = a /\ at = "commit")
  BY <1>1, <1>2, <1>3, <1>4, MoveKeeps
<1>6. faults' \in 0..MaxFaults
  BY FaultType DEF Begin
<1>7. OtherTypes'
  BY <1>6 DEF Begin, TypeOK, OtherTypes, database, compute
<1> QED
  BY <1>3, <1>5, <1>7 DEF Begin, database, Good, CommitsServed, ActiveFrom

LEMMA CommitGood ==
    ASSUME TypeOK, ReqInv, ProbeInv, NEW a \in Attempt, Commit(a)
    PROVE  Good
<1>1. /\ a \in Caller /\ a # Probe /\ a[1] \in VersionOrNone /\ 0 \in VersionOrNone
  <2>1. a[1] \in Version
    BY DEF Attempt
  <2> QED
    BY <2>1, CallerAssumption, ActivationAssumption DEF Caller, Version, VersionOrNone
<1>2. PICK at \in {"matched", "rollback"} : Move(a, at, a[1])
  BY DEF Commit
<1>3. at \in PC /\ at # "commit" /\ pc[a] \notin Calling
  BY <1>2 DEF Commit, PC, Calling
<1>4. over' \subseteq Version /\ seen' = seen
  BY DEF Commit, TypeOK
<1>5. /\ Bookkeeping'
      /\ \A b \in Attempt : pc'[b] = "commit" => pc[b] = "commit" \/ (b = a /\ at = "commit")
  BY <1>1, <1>2, <1>3, <1>4, MoveKeeps
<1>6. faults' \in 0..MaxFaults
  BY FaultType DEF Commit
<1>7. active' \in {active, a[1]} /\ owner' \in {owner, 0}
  BY DEF Commit
<1>8. OtherTypes'
  BY <1>1, <1>6, <1>7 DEF Commit, TypeOK, OtherTypes, compute
<1>9. ActiveFrom
  BY <1>7 DEF Commit, ActiveFrom
<1> QED
  BY <1>3, <1>5, <1>8, <1>9 DEF Good, CommitsServed

LEMMA MatchedGood ==
    ASSUME TypeOK, ReqInv, ProbeInv, NEW a \in Attempt, Matched(a)
    PROVE  Good
<1>1. /\ a \in Caller /\ a # Probe /\ a[1] \in VersionOrNone
  <2>1. a[1] \in Version
    BY DEF Attempt
  <2> QED
    BY <2>1, CallerAssumption, ActivationAssumption DEF Caller, Version, VersionOrNone
<1>2. PICK at \in {"confirm", "failed"} : Move(a, at, a[1])
  BY DEF Matched
<1>3. at \in PC /\ at # "commit" /\ pc[a] \notin Calling
  BY <1>2 DEF Matched, PC, Calling, Ended
<1>4. over' \subseteq Version /\ seen' = seen
  BY DEF Matched, TypeOK
<1>5. /\ Bookkeeping'
      /\ \A b \in Attempt : pc'[b] = "commit" => pc[b] = "commit" \/ (b = a /\ at = "commit")
  BY <1>1, <1>2, <1>3, <1>4, MoveKeeps
<1>6. OtherTypes'
  BY DEF Matched, TypeOK, OtherTypes, database, compute
<1> QED
  BY <1>3, <1>5, <1>6 DEF Matched, database, Good, CommitsServed, ActiveFrom

LEMMA ProbeGood ==
    ASSUME TypeOK, ReqInv, ProbeInv, Tick \/ Read \/ Deactivate
    PROVE  Good
<1>1. Probe \in Caller /\ Probe \notin Attempt /\ 0 \in VersionOrNone
  BY CallerAssumption, ActivationAssumption DEF Caller, VersionOrNone
<1>2. active \in VersionOrNone /\ seen \in VersionOrNone
  BY DEF TypeOK
<1>3. PICK at \in {"ready", "vacant", "deactivate", "inspect"}, v \in VersionOrNone :
        Move(Probe, at, v) /\ (at = "inspect" => seen' # 0)
  BY <1>1, <1>2 DEF Tick, Read, Deactivate
<1>4. /\ at \in PC /\ at # "commit" /\ at \in ProbePlaces /\ (at \in Retried => seen' # 0)
      /\ at \notin {"load", "reload"}
  BY <1>3 DEF PC, Calling, ProbePlaces, Retried
<1>5. pc[Probe] \notin Calling
  BY DEF Tick, Read, Deactivate, Calling
<1>6. over' \subseteq Version
  BY DEF Tick, Read, Deactivate, TypeOK
<1>7. /\ Bookkeeping'
      /\ \A b \in Attempt : pc'[b] = "commit" => pc[b] = "commit" \/ (b = Probe /\ at = "commit")
  BY <1>1, <1>3, <1>4, <1>5, <1>6, MoveKeeps
<1>8. OtherTypes'
  BY <1>1 DEF Tick, Read, Deactivate, TypeOK, OtherTypes, database, compute
<1>9. active' \in {active, 0}
  BY DEF Tick, Read, Deactivate, database
<1> QED
  BY <1>4, <1>7, <1>8, <1>9 DEF Good, CommitsServed, ActiveFrom

LEMMA StartupGood ==
    ASSUME TypeOK, ReqInv, ProbeInv, Startup
    PROVE  Good
<1>1. Probe \in Caller /\ Probe \notin Attempt /\ 0 \in VersionOrNone /\ Probe # Nobody
  BY CallerAssumption, ActivationAssumption DEF Caller, VersionOrNone
<1>2. PICK others, rest : /\ others = {q \in requests : q.by # Probe}
                          /\ rest = {[q EXCEPT !.by = Nobody] : q \in requests \ others}
  OBVIOUS
<1>3. requests' = others \cup rest
  BY <1>2 DEF Startup
<1>4. \A r \in rest : /\ r \in Request
                      /\ r.by = Nobody
                      /\ r.op = "load" => r.version # 0
                      /\ r.stage = "forget" => r.op = "clear"
  <2>1. ASSUME NEW q \in requests
        PROVE  /\ [q EXCEPT !.by = Nobody] \in Request
               /\ [q EXCEPT !.by = Nobody].by = Nobody
               /\ [q EXCEPT !.by = Nobody].op = "load" => [q EXCEPT !.by = Nobody].version # 0
               /\ [q EXCEPT !.by = Nobody].stage = "forget" => [q EXCEPT !.by = Nobody].op = "clear"
    <3>1. q \in Request
      BY DEF TypeOK
    <3>2. (q.op = "load" => q.version # 0) /\ (q.stage = "forget" => q.op = "clear")
      BY DEF ReqInv
    <3> QED
      BY <3>1, <3>2 DEF Request
  <2> QED
    BY <1>2, <2>1
<1>5. "read" \in PC /\ "read" \notin Calling /\ "read" \in ProbePlaces /\ "read" \notin Retried
  BY DEF PC, Calling, ProbePlaces, Retried
<1>6. Ask(Probe, "read", 0) = {}
  BY <1>5 DEF Ask
<1>7. requests' = others \cup rest \cup Ask(Probe, "read", 0) /\ pc' = [pc EXCEPT ![Probe] = "read"]
  BY <1>3, <1>6 DEF Startup
<1>8. others \subseteq requests /\ rest \subseteq Request /\ (\A q \in others : q.by # Probe)
  BY <1>2, <1>4
<1>9. over' \subseteq Version
  BY DEF Startup, TypeOK
<1>10. PICK at : at = "read"
  OBVIOUS
<1>11. /\ Bookkeeping'
       /\ \A b \in Attempt : pc'[b] = "commit" => pc[b] = "commit" \/ (b = Probe /\ at = "commit")
  BY <1>1, <1>4, <1>5, <1>7, <1>8, <1>9, <1>10, SendKeeps, ZenonT(60)
<1>12. faults' \in 0..MaxFaults
  BY FaultType DEF Startup
<1>13. OtherTypes'
  BY <1>12 DEF Startup, TypeOK, OtherTypes, database, compute
<1> QED
  BY <1>10, <1>11, <1>13 DEF Startup, database, Good, CommitsServed, ActiveFrom

\* The steps that touch no caller and no request.
LEMMA SurroundingsGood ==
    ASSUME TypeOK, ReqInv, ProbeInv,
           \/ \E v \in Version : GiveUp(v) \/ LoseManifest(v)
           \/ Grant \/ Release \/ ChildDies
    PROVE  Good
<1>1. requests' = requests /\ pc' = pc /\ seen' = seen
  BY DEF GiveUp, LoseManifest, Grant, Release, ChildDies, database, compute
<1>2. over' \subseteq Version
  BY DEF GiveUp, LoseManifest, Grant, Release, ChildDies, compute, TypeOK
<1>3. ReqInv' /\ ProbeInv'
  BY <1>1 DEF ReqInv, ProbeInv
<1>4. Bookkeeping' /\ CommitsServed
  BY <1>1, <1>2, <1>3 DEF Bookkeeping, CommitsServed, TypeOK
<1>5. 0 \in VersionOrNone /\ (granted < MaxVersion => granted + 1 \in VersionOrNone)
  BY ActivationAssumption DEF TypeOK, VersionOrNone
<1>6. faults' \in 0..MaxFaults
  BY FaultType DEF GiveUp, LoseManifest, Grant, Release, ChildDies
<1>7. child' \in Child
  BY ChildTypes DEF GiveUp, LoseManifest, Grant, Release, ChildDies, compute, TypeOK
<1>8. OtherTypes'
  BY <1>1, <1>5, <1>6, <1>7
  DEF GiveUp, LoseManifest, Grant, Release, ChildDies, TypeOK, OtherTypes, database, compute
<1>9. ActiveFrom
  BY DEF GiveUp, LoseManifest, Grant, Release, ChildDies, ActiveFrom, database
<1> QED
  BY <1>4, <1>8, <1>9 DEF Good

LEMMA ComputeRestartsGood ==
    ASSUME TypeOK, ReqInv, ProbeInv, ComputeRestarts
    PROVE  Good
<1>1. \A q \in requests : LET r == [q EXCEPT !.stage = "lost"] IN
        /\ r \in Request /\ r.by = q.by /\ r.op = q.op /\ r.version = q.version /\ r.stage = "lost"
  BY RequestTypes
<1>2. requests' = {[q EXCEPT !.stage = "lost"] : q \in {r \in requests : r.by # Nobody}}
  BY DEF ComputeRestarts
<1>3. \A r \in requests' : \E q \in requests :
        /\ r = [q EXCEPT !.stage = "lost"]
        /\ r \in Request /\ r.by = q.by /\ r.op = q.op /\ r.version = q.version /\ r.stage = "lost"
  BY <1>1, <1>2
<1>4. pc' = pc /\ seen' = seen /\ over' = over
  BY DEF ComputeRestarts
<1>5. ReqInv'
  <2>1. ASSUME NEW r \in requests'
        PROVE  /\ r.by # Nobody => pc'[r.by] \in Calling /\ r.op = Op(pc'[r.by])
               /\ r.by \in Attempt => r.version = r.by[1]
               /\ r.op = "load" => r.version # 0
               /\ r.stage = "forget" => r.op = "clear"
    BY <1>3, <1>4 DEF ReqInv
  <2>2. ASSUME NEW r \in requests', NEW s \in requests', r.by = s.by, r.by # Nobody
        PROVE  r = s
    <3>1. PICK q \in requests : r = [q EXCEPT !.stage = "lost"] /\ r.by = q.by
      BY <1>3
    <3>2. PICK t \in requests : s = [t EXCEPT !.stage = "lost"] /\ s.by = t.by
      BY <1>3
    <3>3. q = t
      BY <2>2, <3>1, <3>2 DEF ReqInv
    <3> QED
      BY <3>1, <3>2, <3>3
  <2> QED
    BY <2>1, <2>2 DEF ReqInv
<1>6. Bookkeeping' /\ CommitsServed
  BY <1>3, <1>4, <1>5 DEF Bookkeeping, CommitsServed, TypeOK, ProbeInv
<1>7. faults' \in 0..MaxFaults
  BY FaultType DEF ComputeRestarts
<1>8. OtherTypes'
  BY <1>7, ChildTypes DEF ComputeRestarts, TypeOK, OtherTypes, database
<1> QED
  BY <1>6, <1>8 DEF ComputeRestarts, ActiveFrom, database, Good

LEMMA PollGood ==
    ASSUME TypeOK, ReqInv, ProbeInv, Poll
    PROVE  Good
<1>1. PICK r : r = Call(Nobody, "status", 0)
  OBVIOUS
<1>2. 0 \in VersionOrNone
  BY ActivationAssumption DEF VersionOrNone
<1>3. r \in Request /\ r.by = Nobody /\ r.op = "status" /\ r.stage = "call"
  BY <1>1, <1>2 DEF Call, Request, Nothing, Pair
<1>4. requests' = requests \cup {r} /\ pc' = pc /\ seen' = seen /\ over' = over
  BY <1>1 DEF Poll
<1>5. Nobody \notin Attempt
  BY CallerAssumption
<1>6. ReqInv'
  BY <1>3, <1>4, <1>5 DEF ReqInv
<1>7. Bookkeeping' /\ CommitsServed
  BY <1>3, <1>4, <1>6 DEF Bookkeeping, CommitsServed, TypeOK, ProbeInv
<1>8. OtherTypes'
  BY DEF Poll, TypeOK, OtherTypes, database, compute
<1> QED
  BY <1>7, <1>8 DEF Poll, ActiveFrom, database, Good

LEMMA StepGood ==
    ASSUME TypeOK, ReqInv, ProbeInv, Step
    PROVE  Good
<1>1. CASE \E q \in requests : Handle(q) \/ (child.up /\ ChildDead(q)) \/ LoseAnswer(q)
  BY <1>1, GatewayGood
<1>2. CASE \E a \in Attempt : Begin(a) \/ Commit(a) \/ Matched(a)
  BY <1>2, BeginGood, CommitGood, MatchedGood
<1>3. CASE Tick \/ Read \/ Deactivate \/ Startup
  BY <1>3, ProbeGood, StartupGood
<1>4. CASE (\E v \in Version : GiveUp(v) \/ LoseManifest(v)) \/ Grant \/ Release \/ ChildDies
  BY <1>4, SurroundingsGood
<1>5. CASE ComputeRestarts \/ Poll
  BY <1>5, ComputeRestartsGood, PollGood
<1> QED
  BY <1>1, <1>2, <1>3, <1>4, <1>5 DEF Step

-----------------------------------------------------------------------------
(* Invariants.                                                             *)

LEMMA InitIInv == Init => IInv
<1> SUFFICES ASSUME Init PROVE IInv
  OBVIOUS
<1>1. 0 \in VersionOrNone /\ 0 \in 0..MaxFaults
  BY ActivationAssumption DEF VersionOrNone
<1>2. "idle" \in PC /\ "queued" \in PC /\ "idle" \in ProbePlaces /\ "idle" \notin Retried
  BY DEF PC, ProbePlaces, Retried
<1>3. TypeOK
  BY <1>1, <1>2 DEF Init, TypeOK, Fresh, Child, Nothing, Pair
<1>4. pc[Probe] = "idle" /\ \A a \in Attempt : pc[a] # "commit"
  BY CallerAssumption DEF Init, Caller
<1>5. ReqInv /\ ProbeInv /\ ServedInv
  BY <1>2, <1>4 DEF Init, ReqInv, ProbeInv, ServedInv
<1> QED
  BY <1>3, <1>5 DEF IInv

LEMMA NextIInv == IInv /\ [Next]_vars => IInv'
<1> SUFFICES ASSUME IInv, [Next]_vars PROVE IInv'
  OBVIOUS
<1>1. CASE Next
  <2>1. Good /\ served' = served \cup ({child'.serving} \ {0})
    BY <1>1, StepGood DEF Next, IInv
  <2>2. child'.serving \in VersionOrNone
    BY <2>1 DEF Good, OtherTypes, Child
  <2>3. served' \subseteq Version
    <3>1. \A v \in VersionOrNone : v = 0 \/ v \in Version
      BY ActivationAssumption DEF VersionOrNone, Version
    <3>2. served \subseteq Version
      BY DEF IInv, TypeOK
    <3> QED
      BY <2>1, <2>2, <3>1, <3>2
  <2>4. TypeOK'
    BY <2>1, <2>3 DEF Good, OtherTypes, Bookkeeping, TypeOK
  <2>5. ServedInv'
    <3>1. active' \in served' \cup {0}
      BY <2>1 DEF IInv, ServedInv, Good, ActiveFrom
    <3>2. ASSUME NEW a \in Attempt, pc'[a] = "commit"
          PROVE  a[1] \in served'
      <4>1. a[1] # 0
        BY ActivationAssumption DEF Attempt, Version
      <4>2. pc[a] = "commit" \/ child'.serving = a[1]
        BY <2>1, <3>2 DEF Good, CommitsServed
      <4> QED
        BY <2>1, <4>1, <4>2 DEF IInv, ServedInv
    <3> QED
      BY <3>1, <3>2 DEF ServedInv
  <2> QED
    BY <2>1, <2>4, <2>5 DEF Good, Bookkeeping, IInv
<1>2. CASE UNCHANGED vars
  <2> USE <1>2 DEF vars, system, database, compute, IInv
  <2>1. TypeOK'
    BY DEF TypeOK
  <2>2. ReqInv'
    BY DEF ReqInv
  <2>3. ProbeInv' /\ ServedInv'
    BY DEF ProbeInv, ServedInv
  <2> QED
    BY <2>1, <2>2, <2>3
<1> QED
  BY <1>1, <1>2

\* Every variable keeps its type: in particular the probe never ends a run, and
\* no request to load goes without a version.
THEOREM TypeCorrect == Spec => []TypeOK
<1>1. IInv => TypeOK
  BY DEF IInv
<1> QED
  BY <1>1, InitIInv, NextIInv, PTL DEF Spec

\* The database never names a version that search has not served.
THEOREM CommittedWasServedCorrect == Spec => []CommittedWasServed
<1>1. IInv => CommittedWasServed
  BY DEF IInv, ServedInv, CommittedWasServed
<1> QED
  BY <1>1, InitIInv, NextIInv, PTL DEF Spec

-----------------------------------------------------------------------------
(* Rollbacks.                                                              *)

\* A request of the gateway that is handled or lost leaves the others there.
LEMMA OthersStay ==
    ASSUME NEW q \in requests, NEW r \in requests, r # q, q \notin requests',
           Handle(r) \/ ChildDead(r) \/ LoseAnswer(r)
    PROVE  FALSE
<1>1. ASSUME NEW answer, NEW rest, Answer(r, answer, rest)
      PROVE  requests \ {r} \subseteq requests'
  BY <1>1 DEF Answer
<1>2. ASSUME NEW stage, Advance(r, stage)
      PROVE  requests \ {r} \subseteq requests'
  BY <1>2 DEF Advance
<1>3. CASE LoseAnswer(r)
  BY <1>1, <1>3 DEF LoseAnswer
<1>4. CASE Execute(r) \/ Disconnected(r) \/ Forget(r)
  BY <1>1, <1>4 DEF Execute, Disconnected, Forget, Reply
<1>5. CASE ChildDead(r) \/ RestartChild(r) \/ ClearChild(r)
  BY <1>2, <1>5 DEF ChildDead, RestartChild, ClearChild
<1>6. CASE Recover(r) \/ RestoreLoad(r) \/ RestoreSwitch(r)
  BY <1>1, <1>2, <1>6 DEF Recover, RestoreLoad, RestoreSwitch, Reply
<1>7. CASE Remember(r)
  BY <1>1, <1>7 DEF Remember, Reply
<1> QED
  BY <1>3, <1>4, <1>5, <1>6, <1>7 DEF Handle

\* A rollback of one run does not take down what another one committed: the child
\* refuses to roll back a version that is not the one it serves, also when the
\* request comes late or its answer is lost.
THEOREM RollbackSparesOthersCorrect == Spec => RollbackSparesOthers
<1> DEFINE Spared(q) ==
      /\ q.op = "rollback" /\ q.stage = "call"
      /\ q \notin requests' /\ child'.serving \notin {0, child.serving}
      => active # child.serving \/ q.version = active
<1>1. ASSUME Step,
             NEW q \in requests, q.op = "rollback", q.stage = "call", q \notin requests',
             child'.serving \notin {0, child.serving}
      PROVE  active # child.serving \/ q.version = active
  <2>1. child' # child
    BY <1>1
  <2>2. \/ \E r \in requests : Handle(r) \/ ChildDead(r)
        \/ child'.serving = 0
    <3>1. CASE \E r \in requests : Handle(r) \/ ChildDead(r) \/ LoseAnswer(r)
      BY <2>1, <3>1 DEF LoseAnswer, compute
    <3>2. CASE ChildDies \/ ComputeRestarts
      BY <3>2 DEF ChildDies, ComputeRestarts, Fresh
    <3>3. CASE \E a \in Attempt : Begin(a) \/ Commit(a) \/ Matched(a)
      BY <2>1, <3>3 DEF Begin, Commit, Matched, compute
    <3>4. CASE \E v \in Version : GiveUp(v) \/ LoseManifest(v)
      BY <2>1, <3>4 DEF GiveUp, LoseManifest, compute
    <3>5. CASE Tick \/ Read \/ Deactivate \/ Startup \/ Grant \/ Release \/ Poll
      BY <2>1, <3>5 DEF Tick, Read, Deactivate, Startup, Grant, Release, Poll, compute
    <3> QED
      BY <1>1, <3>1, <3>2, <3>3, <3>4, <3>5 DEF Step
  <2>3. Handle(q) \/ ChildDead(q)
    BY <1>1, <2>2, OthersStay
  <2>4. Execute(q) \/ ChildDead(q)
    BY <1>1, <2>3 DEF Handle, Disconnected, Recover, RestartChild, Remember, RestoreLoad,
         RestoreSwitch, ClearChild, Forget
  <2>5. child' = Effect("rollback", q.version)
    BY <1>1, <2>1, <2>4 DEF Execute, ChildDead
  <2>6. child.serving = q.version
    <3>1. CASE Accepts("rollback", q.version)
      BY <3>1 DEF Accepts
    <3>2. CASE ~Accepts("rollback", q.version)
      BY <2>1, <2>5, <3>2 DEF Effect
    <3> QED
      BY <3>1, <3>2
  <2> QED
    BY <2>6
<1>2. [Next]_vars => [\A q \in requests : Spared(q)]_vars
  BY <1>1 DEF Next
<1> QED
  BY <1>2, PTL DEF Spec, RollbackSparesOthers

-----------------------------------------------------------------------------
(* The recovery lock, and who waits for an answer.                         *)

\* Whoever waits for an answer has a request that will be answered: in the gateway, or
\* with its connection broken.
NobodyWaitsInVain == \A p \in Caller : pc[p] \in Calling => \E q \in requests : q.by = p

\* Two requests never hold the recovery lock at a time: no other one restarts the child
\* while it is being restored.
LockExclusive ==
    \A q, r \in requests : q.stage \in Holding /\ r.stage \in Holding => q = r

Order == NobodyWaitsInVain /\ LockExclusive

\* Whoever is sent on to a call asks with a request that is new to the gateway.
LEMMA AskIsACall ==
    ASSUME NEW p, NEW at, NEW v, NEW asked, asked = Ask(p, at, v)
    PROVE  /\ \A r \in asked : r.stage = "call"
           /\ at \in Calling => \E r \in asked : r.by = p
<1>1. PICK op : op = Op(at)
  OBVIOUS
<1>2. PICK c : c = Call(p, op, v)
  OBVIOUS
<1>3. c.stage = "call" /\ c.by = p
  BY <1>2 DEF Call
<1>4. at \in Calling => asked = {c}
  BY <1>1, <1>2 DEF Ask
<1>5. at \notin Calling => asked = {}
  BY DEF Ask
<1> QED
  BY <1>3, <1>4, <1>5

\* A request is answered; the lock is held afterwards by nobody who did not hold it, and
\* whoever is sent on to another call has a request for it.
LEMMA AnswerOrder ==
    ASSUME TypeOK, Order, NEW q \in requests, NEW answer, NEW rest, Answer(q, answer, rest),
           rest \subseteq {[q EXCEPT !.by = Nobody]}
    PROVE  Order'
<1>1. q \in Request /\ q.by \in Caller \cup {Nobody} /\ Nobody \notin Caller
  BY CallerAssumption DEF TypeOK, Request, Caller
<1>2. \A r \in rest : r.stage = q.stage
  BY <1>1 DEF Request
<1>3. ASSUME NEW asked, \A r \in asked : r.stage = "call",
             requests' \subseteq (requests \ {q}) \cup rest \cup asked
      PROVE  LockExclusive'
  <2>1. \A r \in asked : r.stage \notin Holding
    BY <1>3 DEF Holding, Restoring
  <2>2. \A r, s \in rest : r = s
    OBVIOUS
  <2> QED
    BY <1>2, <1>3, <2>1, <2>2 DEF Order, LockExclusive
<1>4. CASE q.by = Nobody
  <2>1. /\ requests \ {q} \subseteq requests' /\ pc' = pc
        /\ requests' \subseteq (requests \ {q}) \cup rest \cup {}
    BY <1>4 DEF Answer
  <2>2. NobodyWaitsInVain'
    BY <1>1, <1>4, <2>1 DEF Order, NobodyWaitsInVain
  <2>3. LockExclusive'
    <3>1. PICK asked : asked = {}
      OBVIOUS
    <3>2. (\A r \in asked : r.stage = "call")
          /\ requests' \subseteq (requests \ {q}) \cup rest \cup asked
      BY <2>1, <3>1
    <3> QED
      BY <1>3, <3>2
  <2> QED
    BY <2>2, <2>3 DEF Order
<1>5. CASE q.by # Nobody
  <2>1. PICK at \in Continue(q.by, answer) :
          /\ pc' = [pc EXCEPT ![q.by] = at]
          /\ requests' = (requests \ {q}) \cup rest \cup Ask(q.by, at, Goal(q.by))
    BY <1>5 DEF Answer
  <2>2. PICK asked : asked = Ask(q.by, at, Goal(q.by))
    OBVIOUS
  <2>3. /\ \A r \in asked : r.stage = "call"
        /\ at \in Calling => \E r \in asked : r.by = q.by
    BY <2>2, AskIsACall
  <2>4. \A p \in Caller : pc'[p] = IF p = q.by THEN at ELSE pc[p]
    BY <2>1 DEF TypeOK
  <2>5. requests' = (requests \ {q}) \cup rest \cup asked
    BY <2>1, <2>2
  <2>6. ASSUME NEW p \in Caller, pc'[p] \in Calling
        PROVE  \E r \in requests' : r.by = p
    <3>1. CASE p = q.by
      BY <2>3, <2>4, <2>5, <2>6, <3>1
    <3>2. CASE p # q.by
      <4>1. PICK r \in requests : r.by = p
        BY <2>4, <2>6, <3>2 DEF Order, NobodyWaitsInVain
      <4> QED
        BY <2>5, <3>2, <4>1
    <3> QED
      BY <3>1, <3>2
  <2>7. LockExclusive'
    BY <1>3, <2>3, <2>5
  <2> QED
    BY <2>6, <2>7 DEF Order, NobodyWaitsInVain
<1> QED
  BY <1>4, <1>5

\* A request is moved on within the gateway: it comes to hold the lock when it held it
\* before or when nobody did.
LEMMA AdvanceOrder ==
    ASSUME TypeOK, Order, NEW q \in requests, NEW r, r.by = q.by,
           r.stage \in Holding => q.stage \in Holding \/ LockFree,
           requests' = (requests \ {q}) \cup {r}, pc' = pc
    PROVE  Order'
<1>1. NobodyWaitsInVain'
  BY DEF Order, NobodyWaitsInVain
<1>2. LockExclusive'
  BY DEF Order, LockExclusive, LockFree
<1> QED
  BY <1>1, <1>2 DEF Order

LEMMA StageOrder ==
    ASSUME TypeOK, Order, NEW q \in requests, NEW stage, Advance(q, stage),
           stage \in Holding => q.stage \in Holding \/ LockFree
    PROVE  Order'
<1>1. q \in Request
  BY DEF TypeOK
<1>2. PICK r : r = [q EXCEPT !.stage = stage]
  OBVIOUS
<1>3. r.by = q.by /\ r.stage = stage
  BY <1>1, <1>2 DEF Request
<1> QED
  BY <1>2, <1>3, AdvanceOrder DEF Advance

\* A caller goes on by itself.
LEMMA MoveOrder ==
    ASSUME TypeOK, Order, NEW p \in Caller, NEW at, NEW v, Move(p, at, v)
    PROVE  Order'
<1>1. PICK asked : asked = Ask(p, at, v)
  OBVIOUS
<1>2. /\ \A r \in asked : r.stage \notin Holding
      /\ at \in Calling => \E r \in asked : r.by = p
  BY <1>1, AskIsACall DEF Holding, Restoring
<1>3. requests' = requests \cup asked
  BY <1>1 DEF Move
<1>4. \A o \in Caller : pc'[o] = IF o = p THEN at ELSE pc[o]
  BY DEF Move, TypeOK
<1>5. NobodyWaitsInVain'
  BY <1>2, <1>3, <1>4 DEF Order, NobodyWaitsInVain
<1>6. LockExclusive'
  BY <1>2, <1>3 DEF Order, LockExclusive
<1> QED
  BY <1>5, <1>6 DEF Order

LEMMA HandleOrder ==
    ASSUME TypeOK, Order, NEW q \in requests, Handle(q) \/ ChildDead(q) \/ LoseAnswer(q)
    PROVE  Order'
<1>1. ASSUME NEW answer, Reply(q, answer) PROVE Order'
  BY <1>1, AnswerOrder DEF Reply
<1>2. CASE Execute(q) \/ Disconnected(q) \/ Forget(q)
  BY <1>1, <1>2 DEF Execute, Disconnected, Forget
<1>3. CASE ChildDead(q)
  <2>1. "recover" \notin Holding
    BY DEF Holding, Restoring
  <2> QED
    BY <1>3, <2>1, StageOrder DEF ChildDead
<1>4. CASE Recover(q)
  BY <1>1, <1>4, StageOrder DEF Recover
<1>5. CASE RestartChild(q)
  BY <1>5, StageOrder DEF RestartChild, Holding, Restoring
<1>6. CASE Remember(q)
  <2>1. q.stage \in Holding /\ q \in Request
    BY <1>6 DEF Remember, Holding, Restoring, TypeOK
  <2>2. CASE \E answer : Reply(q, answer)
    BY <1>1, <2>2
  <2>3. CASE ~\E answer : Reply(q, answer)
    <3>1. PICK r : /\ r = [q EXCEPT !.want = remembered,
                             !.stage = IF remembered.retained # 0 THEN "retained" ELSE "serving"]
                   /\ requests' = (requests \ {q}) \cup {r} /\ pc' = pc
      BY <1>6, <2>3 DEF Remember
    <3>2. r.by = q.by
      BY <2>1, <3>1 DEF Request
    <3> QED
      BY <2>1, <3>1, <3>2, AdvanceOrder
  <2> QED
    BY <2>2, <2>3
<1>7. CASE RestoreLoad(q)
  <2>1. q.stage \in Holding
    BY <1>7 DEF RestoreLoad, Holding, Restoring
  <2> QED
    BY <1>1, <1>7, <2>1, StageOrder DEF RestoreLoad
<1>8. CASE RestoreSwitch(q)
  <2>1. q.stage \in Holding
    BY <1>8 DEF RestoreSwitch, Holding, Restoring
  <2>2. (\E answer : Reply(q, answer)) \/ Advance(q, "serving")
    BY <1>8 DEF RestoreSwitch
  <2> QED
    BY <1>1, <2>1, <2>2, StageOrder
<1>9. CASE ClearChild(q)
  BY <1>9, StageOrder DEF ClearChild
<1>10. CASE LoseAnswer(q)
  <2>1. PICK rest \in {{}, {[q EXCEPT !.by = Nobody]}} : Answer(q, "unavailable", rest)
    BY <1>10 DEF LoseAnswer
  <2> QED
    BY <2>1, AnswerOrder
<1> QED
  BY <1>2, <1>3, <1>4, <1>5, <1>6, <1>7, <1>8, <1>9, <1>10 DEF Handle

\* The API and the compute service restart.
LEMMA StartupOrder == ASSUME TypeOK, Order, Startup PROVE Order'
<1>1. \A p \in Caller : pc'[p] = IF p = Probe THEN "read" ELSE pc[p]
  BY DEF Startup, TypeOK
<1>2. requests' = {IF q.by = Probe THEN [q EXCEPT !.by = Nobody] ELSE q : q \in requests}
  BY DEF Startup
<1>3. \A q \in requests : [q EXCEPT !.by = Nobody].stage = q.stage
  BY DEF TypeOK, Request
<1>4. ASSUME NEW p \in Caller, pc'[p] \in Calling
      PROVE  \E r \in requests' : r.by = p
  <2>1. p # Probe /\ pc[p] \in Calling
    BY <1>1, <1>4 DEF Calling
  <2>2. PICK q \in requests : q.by = p
    BY <2>1 DEF Order, NobodyWaitsInVain
  <2>3. q \in requests'
    BY <1>2, <2>1, <2>2
  <2> QED
    BY <2>2, <2>3
<1>5. ASSUME NEW q \in requests', NEW r \in requests', q.stage \in Holding, r.stage \in Holding
      PROVE  q = r
  <2>1. PICK x \in requests : q = IF x.by = Probe THEN [x EXCEPT !.by = Nobody] ELSE x
    BY <1>2
  <2>2. PICK y \in requests : r = IF y.by = Probe THEN [y EXCEPT !.by = Nobody] ELSE y
    BY <1>2
  <2>3. x.stage = q.stage /\ y.stage = r.stage
    BY <1>3, <2>1, <2>2
  <2>4. x = y
    BY <1>5, <2>3 DEF Order, LockExclusive
  <2> QED
    BY <2>1, <2>2, <2>4
<1> QED
  BY <1>4, <1>5 DEF Order, NobodyWaitsInVain, LockExclusive

LEMMA RestartOrder == ASSUME TypeOK, Order, ComputeRestarts PROVE Order'
<1>1. pc' = pc /\ requests' = {[q EXCEPT !.stage = "lost"] : q \in {r \in requests : r.by # Nobody}}
  BY DEF ComputeRestarts
<1>2. \A q \in requests : [q EXCEPT !.stage = "lost"].stage = "lost"
                          /\ [q EXCEPT !.stage = "lost"].by = q.by
  BY DEF TypeOK, Request
<1>3. \A q \in requests' : q.stage \notin Holding
  BY <1>1, <1>2 DEF Holding, Restoring
<1>4. ASSUME NEW p \in Caller, pc'[p] \in Calling
      PROVE  \E r \in requests' : r.by = p
  <2>1. PICK q \in requests : q.by = p
    BY <1>1, <1>4 DEF Order, NobodyWaitsInVain
  <2>2. [q EXCEPT !.stage = "lost"] \in requests'
    BY <1>1, <2>1, CallerAssumption DEF Caller
  <2> QED
    BY <1>2, <2>1, <2>2
<1> QED
  BY <1>3, <1>4 DEF Order, NobodyWaitsInVain, LockExclusive

LEMMA OrderStep == ASSUME TypeOK, Order, [Next]_vars PROVE Order'
<1>1. CASE UNCHANGED <<requests, pc>>
  BY <1>1 DEF Order, NobodyWaitsInVain, LockExclusive
<1>2. ASSUME NEW q \in requests, Handle(q) \/ ChildDead(q) \/ LoseAnswer(q) PROVE Order'
  BY <1>2, HandleOrder
<1>3. ASSUME NEW a \in Attempt, Begin(a) \/ Commit(a) \/ Matched(a) PROVE Order'
  <2>1. a \in Caller
    BY DEF Caller
  <2> QED
    BY <1>3, <2>1, MoveOrder DEF Begin, Commit, Matched
<1>4. ASSUME Tick \/ Read \/ Deactivate PROVE Order'
  <2>1. Probe \in Caller
    BY DEF Caller
  <2> QED
    BY <1>4, <2>1, MoveOrder DEF Tick, Read, Deactivate
<1>5. CASE Poll
  <2>1. PICK r : r = Call(Nobody, "status", 0)
    OBVIOUS
  <2>2. requests' = requests \cup {r} /\ pc' = pc /\ r.stage \notin Holding
    BY <1>5, <2>1 DEF Poll, Call, Holding, Restoring
  <2> QED
    BY <2>2 DEF Order, NobodyWaitsInVain, LockExclusive
<1>6. ASSUME NEW v \in Version, GiveUp(v) \/ LoseManifest(v) PROVE UNCHANGED <<requests, pc>>
  BY <1>6 DEF GiveUp, LoseManifest
<1>7. CASE Grant \/ Release \/ ChildDies \/ UNCHANGED vars
  BY <1>1, <1>7 DEF Grant, Release, ChildDies, vars, system
<1> QED
  BY <1>1, <1>2, <1>3, <1>4, <1>5, <1>6, <1>7, StartupOrder, RestartOrder DEF Next, Step

\* The recovery lock is a lock, and it has no owner that waits for somebody else: a
\* caller that waits has a request somewhere in the gateway, however many answers are
\* lost, and however often the child, the API or the compute service restarts
\* (Gateway._recover, Gateway.clear).
THEOREM GatewayIsOrderly == Spec => [](NobodyWaitsInVain /\ LockExclusive)
<1>1. Init => Order
  BY DEF Init, Order, NobodyWaitsInVain, LockExclusive, Calling
<1>2. IInv /\ Order /\ [Next]_vars => Order'
  BY OrderStep DEF IInv
<1>3. Order <=> NobodyWaitsInVain /\ LockExclusive
  BY DEF Order
<1> QED
  BY <1>1, <1>2, <1>3, InitIInv, NextIInv, PTL DEF Spec
=============================================================================

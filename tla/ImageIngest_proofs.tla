-------------------------- MODULE ImageIngest_proofs --------------------------
(***************************************************************************)
(* Proofs about the two ingest modules.  About ImageIngest, for every set  *)
(* of addresses and files and every bound: its types, and that a           *)
(* submission forgets nothing of the form.  About IngestViews, for every   *)
(* number of tabs, attempts, rows on a page and moves: its types, that     *)
(* each page shows what belongs to it and does not wait for nothing, and   *)
(* that a retry leaves no attempt without a workflow.                      *)
(***************************************************************************)
EXTENDS ImageIngest, Integers, Sequences, FiniteSetTheorems, WellFoundedInduction, TLAPS

Sending == {"asked", "created", "started", "answered"}

\* What the submission under way knows.  Its call has a batch; once the API has made
\* the job, that has the items of the batch, and before the answer its workflow has
\* been started.  The jobs that were queued before are there, with their workflows.
CallSound ==
    /\ call.step \in Sending => call.batch # {}
    /\ call.step \in {"created", "started", "answered"} =>
          call.job \in Made /\ jobs[call.job].items = call.batch
    /\ call.step \in {"started", "answered"} => flow[call.job] # "none"
    /\ call.queued \subseteq Made
    /\ \A j \in call.queued : flow[j] # "none"

\* An open detail is that of a job the dialog lists.
ChipSound == chip.job # 0 => chip.job \in results

\* Until all calls have been answered, what the submission found in the form and has
\* not been taken out since is being sent, is still to be sent or is queued.
AllAccounted ==
    call.step \in Sending =>
        \A i \in offered :
            \/ i \in call.batch \cup call.todo
            \/ \E j \in call.queued : i \in jobs[j].items

IInv == TypeOK /\ CallSound /\ ChipSound /\ AllAccounted /\ KeptUntilQueued

----------------------------------------------------------------------------
LEMMA InitIInv == Init => IInv
BY ImageIngestAssumption
   DEF Init, IInv, TypeOK, CallSound, ChipSound, AllAccounted, KeptUntilQueued, Idle, NoJob, Made,
       JobStatus, Item, Job, Sending

\* What is made stays made, with its items; a workflow that was started stays so.
LEMMA ServerGrows ==
    ASSUME TypeOK, Next
    PROVE  /\ Made \subseteq Made'
           /\ \A j \in Made : jobs'[j].items = jobs[j].items
           /\ \A j \in Job : flow[j] # "none" => flow'[j] # "none"
<1> USE DEF TypeOK, Made
<1>1. CASE CreateJob
  BY <1>1 DEF CreateJob, form, detail
<1>2. CASE StartWorkflow
  BY <1>2 DEF StartWorkflow, form, detail
<1>3. CASE MarkRunning
  BY <1>3 DEF MarkRunning, form, detail
<1>4. ASSUME NEW j \in Job, Finish(j)
      PROVE  /\ Made \subseteq Made'
             /\ \A k \in Made : jobs'[k].items = jobs[k].items
             /\ \A k \in Job : flow[k] # "none" => flow'[k] # "none"
  BY <1>4 DEF Finish, form, detail
<1>5. ASSUME NEW j \in Job, GiveUp(j)
      PROVE  /\ Made \subseteq Made'
             /\ \A k \in Made : jobs'[k].items = jobs[k].items
             /\ \A k \in Job : flow[k] # "none" => flow'[k] # "none"
  BY <1>5 DEF GiveUp, form, detail
<1>6. CASE UNCHANGED server
  BY <1>6 DEF server
<1>7. CASE TypeUrls \/ AddFile \/ RemoveFile \/ Submit \/ FailCall
  <2>1. UNCHANGED server
    BY <1>7 DEF TypeUrls, AddFile, RemoveFile, Submit, FailCall
  <2> QED BY <1>6, <2>1
<1>8. CASE TakeAnswer \/ Settle \/ TakeFailure \/ OpenChip \/ CloseChip \/ Focus \/ Read
             \/ FailRead
  <2>1. UNCHANGED server
    BY <1>8 DEF TakeAnswer, Settle, TakeFailure, OpenChip, CloseChip, Focus, Read, FailRead
  <2> QED BY <1>6, <2>1
<1> QED BY <1>1, <1>2, <1>3, <1>4, <1>5, <1>7, <1>8 DEF Next

----------------------------------------------------------------------------
Calls == [step : {"idle", "asked", "created", "started", "answered", "queued", "failed"},
          batch : SUBSET Item, todo : SUBSET File, queued : SUBSET Job, job : 0..MaxJobs]

\* The next call of a submission: it takes what is sent out of what is still to be
\* sent, and the addresses first.
LEMMA SendCall ==
    ASSUME NEW c \in Calls, urls \subseteq Url, Send(c)
    PROVE  /\ call' \in Calls
           /\ call'.step = "asked" /\ call'.batch # {} /\ call'.queued = c.queued
           /\ c.todo \subseteq call'.batch \cup call'.todo
           /\ c.batch = {} => urls \subseteq call'.batch
<1>1. c.todo \subseteq File /\ c.queued \subseteq Job /\ c.job \in 0..MaxJobs
  BY DEF Calls
<1>2. CASE c.batch = {} /\ urls # {}
  <2>1. call' = [c EXCEPT !.step = "asked", !.batch = urls]
    BY <1>2 DEF Send
  <2>2. call' = [step |-> "asked", batch |-> urls, todo |-> c.todo,
                 queued |-> c.queued, job |-> c.job]
    BY <2>1 DEF Calls
  <2>3. urls \in SUBSET Item
    BY DEF Item
  <2>4. call' \in Calls
    BY <1>1, <2>2, <2>3 DEF Calls
  <2> QED BY <1>2, <2>2, <2>4
<1>3. CASE ~(c.batch = {} /\ urls # {})
  <2>1. PICK f \in c.todo :
           call' = [c EXCEPT !.step = "asked", !.batch = {f}, !.todo = @ \ {f}]
    BY <1>3 DEF Send
  <2>2. call' = [step |-> "asked", batch |-> {f}, todo |-> c.todo \ {f},
                 queued |-> c.queued, job |-> c.job]
    BY <2>1 DEF Calls
  <2>3. {f} \in SUBSET Item /\ c.todo \ {f} \in SUBSET File
    BY <1>1 DEF Item
  <2>4. call' \in Calls
    BY <1>1, <2>2, <2>3 DEF Calls
  <2> QED BY <1>3, <2>2, <2>4
<1> QED BY <1>2, <1>3

\* Types.
LEMMA TypeStep ==
    ASSUME TypeOK, CallSound, ChipSound, Next
    PROVE  TypeOK'
<1> USE ImageIngestAssumption
<1> DEFINE Rows == [status : JobStatus \cup {"none"}, items : SUBSET Item]
<1>1. Made \subseteq Made'
  BY ServerGrows
<1>2. Job \subseteq 0..MaxJobs /\ Made \subseteq Job
  BY DEF Job, Made
<1>3. /\ urls \subseteq Url /\ files \subseteq File /\ offered \subseteq Item
      /\ call \in Calls /\ results \subseteq Made /\ jobs \in [Job -> Rows]
      /\ flow \in [Job -> {"none", "running", "ended"}]
      /\ chip \in [job : 0..MaxJobs, due : BOOLEAN]
      /\ seen \in [Job -> JobStatus \cup {"unread", "error"}]
      /\ edits \in 0..MaxEdits /\ faults \in 0..MaxFaults
  BY DEF TypeOK, Calls
<1>4. SUFFICES /\ urls' \subseteq Url /\ files' \subseteq File /\ offered' \subseteq Item
               /\ call' \in Calls /\ results' \subseteq Made' /\ jobs' \in [Job -> Rows]
               /\ flow' \in [Job -> {"none", "running", "ended"}]
               /\ chip' \in [job : 0..MaxJobs, due : BOOLEAN]
               /\ seen' \in [Job -> JobStatus \cup {"unread", "error"}]
               /\ edits' \in 0..MaxEdits /\ faults' \in 0..MaxFaults
  BY DEF TypeOK, Made, Calls
<1>5. Edit => edits' \in 0..MaxEdits
  BY <1>3 DEF Edit
<1>6. Fault => faults' \in 0..MaxFaults
  BY <1>3 DEF Fault
<1>7. ASSUME NEW c \in Calls, Send(c) PROVE call' \in Calls
  BY <1>3, <1>7, SendCall
<1> HIDE DEF Rows
<1>8. CASE TypeUrls
  BY <1>3, <1>1, <1>5, <1>8 DEF TypeUrls, dialog, server, detail
<1>9. CASE AddFile
  BY <1>3, <1>1, <1>5, <1>9 DEF AddFile, dialog, server, detail
<1>10. CASE RemoveFile
  BY <1>3, <1>1, <1>5, <1>10 DEF RemoveFile, dialog, server, detail
<1>11. CASE Submit
  <2>1. [Idle EXCEPT !.todo = files] \in Calls
    BY <1>3 DEF Idle, Calls
  <2>2. Send([Idle EXCEPT !.todo = files])
    BY <1>11 DEF Submit
  <2>3. call' \in Calls
    BY <1>7, <2>1, <2>2
  <2> QED BY <1>3, <1>1, <1>11, <2>3 DEF Submit, server, detail, Item
<1>12. CASE CreateJob
  <2>1. PICK j \in Job \ Made :
          /\ jobs' = [jobs EXCEPT ![j] = [status |-> "PENDING", items |-> call.batch]]
          /\ call' = [call EXCEPT !.step = "created", !.job = j]
    BY <1>12 DEF CreateJob
  <2>2. call' \in Calls
    BY <1>2, <1>3, <2>1 DEF Calls
  <2>3. jobs' \in [Job -> Rows]
    <3>1. [status |-> "PENDING", items |-> call.batch] \in Rows
      BY <1>3 DEF Calls, Rows, JobStatus
    <3> QED BY <1>3, <2>1, <3>1
  <2> QED BY <1>3, <1>1, <1>12, <2>2, <2>3 DEF CreateJob, form, detail
<1>13. CASE StartWorkflow
  <2>1. call' \in Calls
    BY <1>3, <1>13 DEF StartWorkflow, Calls
  <2> QED BY <1>3, <1>1, <1>13, <2>1 DEF StartWorkflow, form, detail
<1>14. CASE MarkRunning
  <2>1. call' \in Calls
    BY <1>3, <1>14 DEF MarkRunning, Calls
  <2>2. jobs' \in [Job -> Rows]
    <3>1. call.job \in Job
      BY <1>2, <1>14 DEF MarkRunning, CallSound
    <3>2. [jobs[call.job] EXCEPT !.status = "RUNNING"] \in Rows
      BY <1>3, <3>1 DEF Rows, JobStatus
    <3> QED BY <1>3, <1>14, <3>1, <3>2 DEF MarkRunning
  <2> QED BY <1>3, <1>1, <1>14, <2>1, <2>2 DEF MarkRunning, form, detail
<1>15. CASE FailCall
  <2>1. call' \in Calls
    BY <1>3, <1>15 DEF FailCall, Calls
  <2> QED BY <1>3, <1>1, <1>6, <1>15, <2>1 DEF FailCall, form, server, detail
<1>16. CASE \E j \in Job : Finish(j)
  <2>1. PICK j \in Job : Finish(j)
    BY <1>16
  <2>2. jobs' \in [Job -> Rows]
    BY <1>3, <2>1 DEF Finish, Rows, JobStatus
  <2>3. flow' \in [Job -> {"none", "running", "ended"}]
    BY <1>3, <2>1 DEF Finish
  <2> QED BY <1>3, <1>1, <2>1, <2>2, <2>3 DEF Finish, form, dialog, detail
<1>17. CASE \E j \in Job : GiveUp(j)
  <2>1. PICK j \in Job : GiveUp(j)
    BY <1>17
  <2>2. flow' \in [Job -> {"none", "running", "ended"}]
    BY <1>3, <2>1 DEF GiveUp
  <2> QED BY <1>3, <1>1, <1>6, <2>1, <2>2 DEF GiveUp, form, dialog, detail
<1>18. CASE TakeAnswer
  <2> DEFINE done == [call EXCEPT !.queued = @ \cup {call.job}]
  <2>1. call.queued \cup {call.job} \subseteq Made
    BY <1>18 DEF TakeAnswer, CallSound
  <2>2. done \in Calls
    BY <1>2, <1>3, <2>1 DEF Calls
  <2>3. /\ offered' = offered /\ edits' = edits /\ faults' = faults
        /\ UNCHANGED <<jobs, flow, chip, seen>>
    BY <1>18 DEF TakeAnswer, server, detail
  <2>4. CASE call.todo # {}
    <3>1. Send(done) /\ UNCHANGED <<results, urls, files>>
      BY <1>18, <2>4 DEF TakeAnswer
    <3>2. call' \in Calls
      BY <1>7, <2>2, <3>1
    <3> QED BY <1>1, <1>3, <2>3, <3>1, <3>2
  <2>5. CASE call.todo = {}
    <3>1. /\ call' = [done EXCEPT !.step = "queued"] /\ results' = results \cup done.queued
          /\ urls' = {} /\ files' = {}
      BY <1>18, <2>5 DEF TakeAnswer
    <3>2. call' \in Calls
      BY <2>2, <3>1 DEF Calls
    <3>3. done.queued = call.queued \cup {call.job}
      BY <1>3 DEF Calls
    <3> HIDE DEF done
    <3> QED BY <1>1, <1>3, <2>1, <2>3, <3>1, <3>2, <3>3
  <2> QED BY <2>4, <2>5
<1>19. CASE Settle \/ TakeFailure
  <2>1. call' \in Calls
    BY <1>19 DEF Settle, TakeFailure, Idle, Calls
  <2> QED BY <1>3, <1>1, <1>19, <2>1 DEF Settle, TakeFailure, form, server, detail
<1>20. CASE OpenChip \/ CloseChip \/ Focus
  <2>1. chip' \in [job : 0..MaxJobs, due : BOOLEAN]
    <3>1. CASE OpenChip
      <4>1. PICK j \in results : chip' = [job |-> j, due |-> TRUE]
        BY <3>1 DEF OpenChip
      <4>2. j \in 0..MaxJobs
        BY <1>2, <1>3
      <4> QED BY <4>1, <4>2
    <3>2. CASE CloseChip
      BY <3>2 DEF CloseChip
    <3>3. CASE Focus
      BY <1>3, <3>3 DEF Focus
    <3> QED BY <1>20, <3>1, <3>2, <3>3
  <2> QED BY <1>3, <1>1, <1>20, <2>1 DEF OpenChip, CloseChip, Focus, form, dialog, server
<1>21. CASE Read \/ FailRead
  <2>1. chip' \in [job : 0..MaxJobs, due : BOOLEAN]
    BY <1>3, <1>21 DEF Read, FailRead
  <2>2. seen' \in [Job -> JobStatus \cup {"unread", "error"}]
    <3>1. jobs[chip.job].status \in JobStatus /\ chip.job \in Job
      BY <1>2, <1>3, <1>21 DEF Read, FailRead, Asks, ChipSound, Made, Rows
    <3> QED BY <1>3, <1>21, <3>1 DEF Read, FailRead
  <2>3. faults' \in 0..MaxFaults
    BY <1>3, <1>6, <1>21 DEF Read, FailRead
  <2> QED BY <1>3, <1>1, <1>21, <2>1, <2>2, <2>3 DEF Read, FailRead, form, dialog, server
<1> QED BY <1>8, <1>9, <1>10, <1>11, <1>12, <1>13, <1>14, <1>15, <1>16, <1>17, <1>18, <1>19,
           <1>20, <1>21 DEF Next

----------------------------------------------------------------------------
\* The rest of the invariant.
LEMMA CallStep ==
    ASSUME TypeOK, CallSound, Next
    PROVE  CallSound'
<1>1. /\ Made \subseteq Made'
      /\ \A j \in Made : jobs'[j].items = jobs[j].items
      /\ \A j \in Job : flow[j] # "none" => flow'[j] # "none"
  BY ServerGrows
<1>2. /\ call \in Calls /\ urls \subseteq Url /\ files \subseteq File
      /\ Made \subseteq Job /\ Made' \subseteq Job
  BY DEF TypeOK, Made, Calls
<1>3. CASE UNCHANGED call
  BY <1>1, <1>2, <1>3 DEF CallSound
<1>4. CASE Submit
  <2>1. [Idle EXCEPT !.todo = files] \in Calls
    BY <1>2, ImageIngestAssumption DEF Idle, Calls
  <2>2. Send([Idle EXCEPT !.todo = files]) /\ [Idle EXCEPT !.todo = files].queued = {}
    BY <1>4 DEF Submit, Idle
  <2>3. call'.step = "asked" /\ call'.batch # {} /\ call'.queued = {}
    BY <1>2, <2>1, <2>2, SendCall
  <2> QED BY <2>3 DEF CallSound, Sending
<1>5. CASE CreateJob
  <2>1. PICK j \in Job \ Made :
          /\ jobs' = [jobs EXCEPT ![j] = [status |-> "PENDING", items |-> call.batch]]
          /\ call' = [call EXCEPT !.step = "created", !.job = j]
    BY <1>5 DEF CreateJob
  <2>2. jobs'[j] = [status |-> "PENDING", items |-> call.batch]
    BY <2>1 DEF TypeOK
  <2>3. j \in Made' /\ jobs'[j].items = call.batch
    BY <2>1, <2>2 DEF Made
  <2>4. /\ call'.step = "created" /\ call'.job = j /\ call'.batch = call.batch
        /\ call'.queued = call.queued
    BY <1>2, <2>1 DEF Calls
  <2>5. call.step = "asked"
    BY <1>5 DEF CreateJob
  <2> QED BY <1>1, <1>2, <2>3, <2>4, <2>5 DEF CallSound, Sending
<1>6. CASE StartWorkflow
  <2>1. /\ call'.step = "started" /\ call'.job = call.job /\ call'.batch = call.batch
        /\ call'.queued = call.queued /\ call.step = "created"
    BY <1>2, <1>6 DEF StartWorkflow, Calls
  <2>2. flow'[call.job] # "none"
    BY <1>2, <1>6 DEF StartWorkflow, CallSound, TypeOK
  <2> QED BY <1>1, <1>2, <2>1, <2>2 DEF CallSound, Sending
<1>7. CASE MarkRunning
  <2>1. /\ call'.step = "answered" /\ call'.job = call.job /\ call'.batch = call.batch
        /\ call'.queued = call.queued /\ call.step = "started"
    BY <1>2, <1>7 DEF MarkRunning, Calls
  <2> QED BY <1>1, <1>2, <2>1 DEF CallSound, Sending
<1>8. CASE FailCall
  <2>1. call'.step = "failed" /\ call'.queued = call.queued
    BY <1>2, <1>8 DEF FailCall, Calls
  <2> QED BY <1>1, <1>2, <2>1 DEF CallSound, Sending
<1>9. CASE TakeAnswer
  <2> DEFINE done == [call EXCEPT !.queued = @ \cup {call.job}]
  <2>1. /\ call.queued \cup {call.job} \subseteq Made
        /\ \A j \in call.queued \cup {call.job} : flow[j] # "none"
    BY <1>9 DEF TakeAnswer, CallSound
  <2>2. done \in Calls /\ done.queued = call.queued \cup {call.job}
    BY <1>2, <2>1 DEF Calls
  <2>3. CASE call.todo # {}
    <3>1. Send(done)
      BY <1>9, <2>3 DEF TakeAnswer
    <3> HIDE DEF done
    <3>2. call'.step = "asked" /\ call'.batch # {} /\ call'.queued = call.queued \cup {call.job}
      BY <1>2, <2>2, <3>1, SendCall
    <3> QED BY <1>1, <1>2, <2>1, <3>2 DEF CallSound, Sending
  <2>4. CASE call.todo = {}
    <3>1. call' = [done EXCEPT !.step = "queued"]
      BY <1>9, <2>4 DEF TakeAnswer
    <3> HIDE DEF done
    <3>2. call'.step = "queued" /\ call'.queued = call.queued \cup {call.job}
      BY <2>2, <3>1 DEF Calls
    <3> QED BY <1>1, <1>2, <2>1, <3>2 DEF CallSound, Sending
  <2> QED BY <2>3, <2>4
<1>10. CASE Settle \/ TakeFailure
  <2>1. call' = Idle
    BY <1>10 DEF Settle, TakeFailure
  <2> QED BY <2>1 DEF CallSound, Sending, Idle
<1>11. CASE TypeUrls \/ AddFile \/ RemoveFile \/ OpenChip \/ CloseChip \/ Focus \/ Read \/ FailRead
  <2>1. UNCHANGED call
    BY <1>11 DEF TypeUrls, AddFile, RemoveFile, OpenChip, CloseChip, Focus, Read, FailRead, dialog
  <2> QED BY <1>3, <2>1
<1>12. CASE \E j \in Job : Finish(j) \/ GiveUp(j)
  <2>1. UNCHANGED call
    BY <1>12 DEF Finish, GiveUp, dialog
  <2> QED BY <1>3, <2>1
<1> QED BY <1>4, <1>5, <1>6, <1>7, <1>8, <1>9, <1>10, <1>11, <1>12 DEF Next

\* The list of jobs only grows.
LEMMA ListGrows ==
    ASSUME TypeOK, Next
    PROVE  results \subseteq results'
<1>1. CASE TakeAnswer
  BY <1>1 DEF TakeAnswer
<1>2. CASE TypeUrls \/ AddFile \/ RemoveFile \/ Submit \/ CreateJob \/ StartWorkflow \/ MarkRunning
  BY <1>2 DEF TypeUrls, AddFile, RemoveFile, Submit, CreateJob, StartWorkflow, MarkRunning, dialog
<1>3. CASE \E j \in Job : Finish(j) \/ GiveUp(j)
  BY <1>3 DEF Finish, GiveUp, dialog
<1>4. CASE FailCall \/ Settle \/ TakeFailure \/ OpenChip \/ CloseChip \/ Focus \/ Read \/ FailRead
  BY <1>4 DEF FailCall, Settle, TakeFailure, OpenChip, CloseChip, Focus, Read, FailRead, dialog
<1> QED BY <1>1, <1>2, <1>3, <1>4 DEF Next

LEMMA ChipStep ==
    ASSUME TypeOK, ChipSound, Next
    PROVE  ChipSound'
<1>1. results \subseteq results'
  BY ListGrows
<1>2. CASE OpenChip
  BY <1>1, <1>2 DEF OpenChip, ChipSound
<1>3. CASE CloseChip
  BY <1>3 DEF CloseChip, ChipSound
<1>4. CASE chip'.job = chip.job
  BY <1>1, <1>4 DEF ChipSound
<1>5. CASE Focus \/ Read \/ FailRead
  <2>1. chip'.job = chip.job
    BY <1>5 DEF Focus, Read, FailRead, TypeOK
  <2> QED BY <1>4, <2>1
<1>6. CASE TypeUrls \/ AddFile \/ RemoveFile \/ Submit \/ CreateJob \/ StartWorkflow \/ MarkRunning
  <2>1. chip' = chip
    BY <1>6 DEF TypeUrls, AddFile, RemoveFile, Submit, CreateJob, StartWorkflow, MarkRunning, detail
  <2> QED BY <1>4, <2>1
<1>7. CASE \E j \in Job : Finish(j) \/ GiveUp(j)
  <2>1. chip' = chip
    BY <1>7 DEF Finish, GiveUp, detail
  <2> QED BY <1>4, <2>1
<1>8. CASE FailCall \/ TakeAnswer \/ Settle \/ TakeFailure
  <2>1. chip' = chip
    BY <1>8 DEF FailCall, TakeAnswer, Settle, TakeFailure, detail
  <2> QED BY <1>4, <2>1
<1> QED BY <1>2, <1>3, <1>5, <1>6, <1>7, <1>8 DEF Next

LEMMA AccountedStep ==
    ASSUME TypeOK, CallSound, AllAccounted, Next
    PROVE  AllAccounted'
<1>1. \A j \in Made : jobs'[j].items = jobs[j].items
  BY ServerGrows
<1>2. /\ call \in Calls /\ urls \subseteq Url /\ files \subseteq File
      /\ Made \subseteq Job /\ call.queued \subseteq Made
  BY DEF TypeOK, Made, Calls, CallSound
<1>3. CASE /\ offered' \subseteq offered
           /\ call'.batch = call.batch /\ call'.todo = call.todo /\ call'.queued = call.queued
           /\ call'.step \in Sending => call.step \in Sending
  BY <1>1, <1>2, <1>3 DEF AllAccounted
<1>4. CASE Submit
  <2> DEFINE c == [Idle EXCEPT !.todo = files]
  <2>1. c \in Calls /\ c.todo = files /\ c.batch = {}
    BY <1>2, ImageIngestAssumption DEF Idle, Calls
  <2>2. Send(c) /\ offered' = urls \cup files
    BY <1>4 DEF Submit
  <2> HIDE DEF c
  <2>3. files \subseteq call'.batch \cup call'.todo /\ urls \subseteq call'.batch
    BY <1>2, <2>1, <2>2, SendCall
  <2> QED BY <2>2, <2>3 DEF AllAccounted
<1>5. CASE TakeAnswer
  <2> DEFINE done == [call EXCEPT !.queued = @ \cup {call.job}]
  <2>1. /\ call.step \in Sending /\ offered' = offered /\ UNCHANGED jobs
        /\ call.batch # {} /\ call.job \in Made /\ jobs[call.job].items = call.batch
    BY <1>5 DEF TakeAnswer, CallSound, Sending, server
  <2>2. /\ done \in Calls /\ done.queued = call.queued \cup {call.job}
        /\ done.todo = call.todo
    BY <1>2, <2>1 DEF Calls
  <2>3. CASE call.todo # {}
    <3>1. Send(done)
      BY <1>5, <2>3 DEF TakeAnswer
    <3> HIDE DEF done
    <3>2. /\ call'.queued = call.queued \cup {call.job}
          /\ call.todo \subseteq call'.batch \cup call'.todo
      BY <1>2, <2>2, <3>1, SendCall
    <3>3. \A i \in offered : \/ i \in call.batch \cup call.todo
                             \/ \E j \in call.queued : i \in jobs[j].items
      BY <2>1 DEF AllAccounted
    <3>4. \A i \in offered : \/ i \in call'.batch \cup call'.todo
                             \/ \E j \in call'.queued : i \in jobs[j].items
      BY <2>1, <3>2, <3>3
    <3> QED BY <2>1, <3>4 DEF AllAccounted
  <2>4. CASE call.todo = {}
    <3>1. call' = [done EXCEPT !.step = "queued"]
      BY <1>5, <2>4 DEF TakeAnswer
    <3> HIDE DEF done
    <3>2. call'.step = "queued"
      BY <2>2, <3>1 DEF Calls
    <3> QED BY <3>2 DEF AllAccounted, Sending
  <2> QED BY <2>3, <2>4
<1>6. CASE CreateJob \/ StartWorkflow \/ MarkRunning
  <2>1. /\ offered' = offered /\ call.step \in Sending
        /\ call'.batch = call.batch /\ call'.todo = call.todo /\ call'.queued = call.queued
    BY <1>2, <1>6 DEF CreateJob, StartWorkflow, MarkRunning, form, Sending, Calls
  <2> QED BY <1>3, <2>1
<1>7. CASE FailCall \/ Settle \/ TakeFailure
  <2>1. call'.step \notin Sending
    BY <1>2, <1>7 DEF FailCall, Settle, TakeFailure, Idle, Sending, Calls
  <2> QED BY <2>1 DEF AllAccounted
<1>8. CASE TypeUrls \/ AddFile \/ RemoveFile \/ OpenChip \/ CloseChip \/ Focus \/ Read \/ FailRead
  <2>1. offered' \subseteq offered /\ UNCHANGED call
    BY <1>8 DEF TypeUrls, AddFile, RemoveFile, OpenChip, CloseChip, Focus, Read, FailRead, dialog,
       form
  <2> QED BY <1>3, <2>1
<1>9. CASE \E j \in Job : Finish(j) \/ GiveUp(j)
  <2>1. offered' = offered /\ UNCHANGED call
    BY <1>9 DEF Finish, GiveUp, dialog, form
  <2> QED BY <1>3, <2>1
<1> QED BY <1>4, <1>5, <1>6, <1>7, <1>8, <1>9 DEF Next

\* Only the answer to the last call clears the form, and by then everything the
\* submission found is queued.
LEMMA KeptStep ==
    ASSUME IInv, Next
    PROVE  KeptUntilQueued'
<1> USE DEF IInv
<1>1. /\ \A j \in Made : jobs'[j].items = jobs[j].items
      /\ \A j \in Job : flow[j] # "none" => flow'[j] # "none"
  BY ServerGrows
<1>2. results \subseteq Made /\ Made \subseteq Job /\ results \subseteq results'
  BY ListGrows DEF TypeOK, Made
<1>3. CASE \A i \in offered' : i \in offered /\ (i \in urls \cup files => i \in urls' \cup files')
  BY <1>1, <1>2, <1>3 DEF KeptUntilQueued
<1>4. CASE Submit
  BY <1>4 DEF Submit, KeptUntilQueued
<1>5. CASE TakeAnswer
  <2>1. offered' = offered
    BY <1>5 DEF TakeAnswer
  <2>2. CASE call.todo # {}
    <3>1. UNCHANGED <<urls, files>>
      BY <1>5, <2>2 DEF TakeAnswer
    <3> QED BY <1>3, <2>1, <3>1
  <2>3. CASE call.todo = {}
    <3>1. results' = results \cup call.queued \cup {call.job} /\ UNCHANGED <<jobs, flow>>
      <4>1. [call EXCEPT !.queued = @ \cup {call.job}].queued = call.queued \cup {call.job}
        BY DEF TypeOK
      <4> QED BY <1>5, <2>3, <4>1 DEF TakeAnswer, server
    <3>2. /\ \A j \in call.queued \cup {call.job} : flow[j] # "none"
          /\ jobs[call.job].items = call.batch
      BY <1>5 DEF TakeAnswer, CallSound
    <3>3. \A i \in offered : \E j \in call.queued \cup {call.job} : i \in jobs[j].items
      BY <1>5, <2>3, <3>2 DEF TakeAnswer, AllAccounted, Sending
    <3> QED BY <2>1, <3>1, <3>2, <3>3 DEF KeptUntilQueued
  <2> QED BY <2>2, <2>3
<1>6. CASE TypeUrls \/ AddFile \/ RemoveFile
  <2>1. \A i \in offered' : i \in offered /\ (i \in urls \cup files => i \in urls' \cup files')
    <3>1. CASE TypeUrls
      BY <3>1 DEF TypeUrls
    <3>2. CASE AddFile
      BY <3>2 DEF AddFile
    <3>3. CASE RemoveFile
      BY <3>3, ImageIngestAssumption DEF RemoveFile, TypeOK
    <3> QED BY <1>6, <3>1, <3>2, <3>3
  <2> QED BY <1>3, <2>1
<1>7. CASE UNCHANGED form
  <2>1. UNCHANGED <<urls, files, offered>>
    BY <1>7 DEF form
  <2> QED BY <1>3, <2>1
<1>8. CASE CreateJob \/ StartWorkflow \/ MarkRunning \/ FailCall \/ Settle \/ TakeFailure
  BY <1>7, <1>8 DEF CreateJob, StartWorkflow, MarkRunning, FailCall, Settle, TakeFailure
<1>9. CASE OpenChip \/ CloseChip \/ Focus \/ Read \/ FailRead
  BY <1>7, <1>9 DEF OpenChip, CloseChip, Focus, Read, FailRead
<1>10. CASE \E j \in Job : Finish(j) \/ GiveUp(j)
  BY <1>7, <1>10 DEF Finish, GiveUp
<1> QED BY <1>4, <1>5, <1>6, <1>8, <1>9, <1>10 DEF Next

\* No step leaves the invariant.
LEMMA NextIInv ==
    ASSUME IInv, [Next]_vars
    PROVE  IInv'
<1>1. CASE Next
  BY <1>1, TypeStep, CallStep, ChipStep, AccountedStep, KeptStep DEF IInv
<1>2. CASE UNCHANGED vars
  BY <1>2 DEF vars, form, dialog, server, detail, IInv, TypeOK, CallSound, ChipSound,
              AllAccounted, KeptUntilQueued, Made
<1> QED BY <1>1, <1>2

----------------------------------------------------------------------------
\* Every variable keeps its type; in particular only jobs that exist are listed and
\* have a detail.
THEOREM TypeCorrect == Spec => []TypeOK
<1>1. IInv => TypeOK
  BY DEF IInv
<1> QED BY InitIInv, NextIInv, <1>1, PTL DEF Spec

\* Whatever a submission found in the form and the user has not taken out is still in
\* the form or belongs to a listed job with a workflow, wherever a call fails (submit
\* of the dialog).
THEOREM KeptUntilQueuedCorrect == Spec => []KeptUntilQueued
<1>1. IInv => KeptUntilQueued
  BY DEF IInv
<1> QED BY InitIInv, NextIInv, <1>1, PTL DEF Spec

----------------------------------------------------------------------------
(***************************************************************************)
(* The pages that list the attempts of these jobs and retry them.          *)
(***************************************************************************)
CONSTANTS Tab, Attempts, First, RunAttempts, Opened, ITEMS_PAGE_SIZE, INGESTION_PAGE_SIZE,
          MaxRetries, MaxMoves

VARIABLES status, recent, workflows, key, data, reads, broken, open, retryCall, retries,
          moves, viewFaults

Views == INSTANCE IngestViews WITH call <- retryCall, faults <- viewFaults

\* What can be asked for, what an answer is and what a retry knows.
Keys ==
    {Views!ListKey(list, offset) : list \in Views!Lists, offset \in 0..Attempts}
      \cup {Views!AttemptKey(a) : a \in Views!Attempt}

Limit(k) == IF k.list = "attempt" THEN 1 ELSE Views!PageSize(k.list)

Rows == [id : Views!Attempt, status : Views!Status]

Answers ==
    {r \in [key : Keys, total : 0..Attempts, rows : Seq(Rows)] :
        /\ Len(r.rows) <= Limit(r.key)
        /\ Len(r.rows) <= Attempts
        /\ r.key.list = "attempt" => Len(r.rows) = 1 /\ r.rows[1].id = r.key.offset}

RetryCalls ==
    {Views!Idle, [state |-> "refused"]}
      \cup [state : {"sent", "read", "reset"}, ids : SUBSET Views!Attempt,
            lists : SUBSET Views!Lists]
      \cup [state : {"queued"}, lists : SUBSET Views!Lists]

ServerOK ==
    /\ status \in [Views!Attempt -> Views!Status]
    /\ recent \in SUBSET Views!Attempt
    /\ workflows \in [Views!Attempt -> Nat]

PagesOK ==
    /\ key \in [Tab -> Keys]
    /\ data \in [Tab -> Answers \cup {Views!NoData}]
    /\ reads \in [Tab -> SUBSET Answers]
    /\ broken \in [Tab -> SUBSET Keys]
    /\ open \in [Tab -> 0..ITEMS_PAGE_SIZE]

CallsOK ==
    /\ retryCall \in [Tab -> RetryCalls]
    /\ retries \in 0..MaxRetries
    /\ moves \in 0..MaxMoves
    /\ viewFaults \in 0..MaxFaults

\* A page shows nothing that belongs to another: only the rows of another page of its
\* list, or of the other stage of the items, stay until it has been read.
ShowsItsOwn(t) ==
    \/ data[t] = Views!NoData
    \/ data[t].key = key[t]
    \/ {data[t].key.list, key[t].list} \subseteq Views!Galleries
    \/ data[t].key.list = key[t].list /\ key[t].list \in Views!Lists

PagesShowTheirOwn == \A t \in Tab : ShowsItsOwn(t)

\* In particular the page of an attempt shows no other attempt.
AttemptIsItsOwn ==
    \A t \in Tab : key[t].list = "attempt" =>
        \A n \in DOMAIN data[t].rows : data[t].rows[n].id = key[t].offset

\* A page that does not show what it asks for is being read, or it has been told that it
\* could not be read.
Told(t) == Views!Fetching(t) \/ key[t] \in broken[t]
NoPageWaits == \A t \in Tab : data[t].key # key[t] => Told(t)

\* As long as no call or read has failed, an attempt under way has a workflow, or a call
\* that has put it back is about to start one.
NoAttemptIsStranded ==
    viewFaults = 0 =>
        \A a \in Views!Attempt : status[a] = "in_flight" =>
            \/ workflows[a] > 0
            \/ \E t \in Tab : retryCall[t].state = "reset" /\ a \in retryCall[t].ids

\* The calls that may still start a workflow for an attempt; each was pressed for.
Trying(a) ==
    {t \in Tab : retryCall[t].state \in {"sent", "read", "reset"} /\ a \in retryCall[t].ids}

WorkflowsPressed ==
    \A a \in Views!Attempt :
        /\ IsFiniteSet(Trying(a))
        /\ workflows[a] + Cardinality(Trying(a)) <= retries + 1

ViewsIInv ==
    /\ ServerOK /\ PagesOK /\ CallsOK
    /\ PagesShowTheirOwn /\ NoPageWaits /\ NoAttemptIsStranded /\ WorkflowsPressed

----------------------------------------------------------------------------
\* How a list is put in order.
LEMMA ViewsCardinality == \A S : Views!Cardinality(S) = Cardinality(S)
BY DEF Views!Cardinality, Cardinality

LEMMA SomeListed ==
    ASSUME Views!IngestAssumption,
           NEW S \in SUBSET Views!Attempt
    PROVE  /\ IsFiniteSet(S) /\ Cardinality(S) \in 0..Attempts
           /\ \A a \in 0..Attempts :
                 LET upTo == {b \in S : b <= a}
                 IN  IsFiniteSet(upTo) /\ Cardinality(upTo) \in Nat
<1>0. Attempts \in Nat /\ 1 \in Int /\ Attempts \in Int
  BY DEF Views!IngestAssumption
<1>1. IsFiniteSet(1..Attempts) /\ Cardinality(1..Attempts) = Attempts
  <2>1. /\ IsFiniteSet(1..Attempts)
        /\ Cardinality(1..Attempts) = IF 1 > Attempts THEN 0 ELSE Attempts - 1 + 1
    BY <1>0, FS_Interval
  <2> QED BY <1>0, <2>1
<1>2. S \in SUBSET (1..Attempts)
  BY DEF Views!Attempt
<1>3. IsFiniteSet(S) /\ Cardinality(S) <= Attempts
  BY <1>1, <1>2, FS_Subset
<1>4. Cardinality(S) \in Nat
  BY <1>3, FS_CardinalityType
<1>5. ASSUME NEW a \in 0..Attempts
      PROVE  IsFiniteSet({b \in S : b <= a}) /\ Cardinality({b \in S : b <= a}) \in Nat
  <2>1. {b \in S : b <= a} \in SUBSET S
    OBVIOUS
  <2>2. IsFiniteSet({b \in S : b <= a})
    BY <2>1, <1>3, FS_Subset
  <2> QED BY <2>2, FS_CardinalityType
<1> QED BY <1>0, <1>3, <1>4, <1>5

LEMMA LeastNumber ==
    ASSUME NEW S \in SUBSET Nat, S # {}
    PROVE  \E n \in S : \A m \in S : n <= m
<1>1. PICK n \in S : \A m \in S : ~(<<m, n>> \in OpToRel(<, Nat))
  BY NatLessThanWellFounded, WFMin, Zenon
<1>2. \A m \in S : <<m, n>> \in OpToRel(<, Nat) <=> m < n
  BY DEF OpToRel
<1>3. \A m \in S : ~(m < n)
  BY <1>1, <1>2, Zenon
<1> QED BY <1>3

\* The first number up to which a set has n members is a member.
LEMMA Ranked ==
    ASSUME Views!IngestAssumption,
           NEW S \in SUBSET Views!Attempt, NEW n \in 1..Cardinality(S)
    PROVE  \E a \in S : Cardinality({b \in S : b <= a}) = n
<1> DEFINE UpTo(a) == {b \in S : b <= a}
           rank == [a \in 0..Attempts |-> Cardinality(UpTo(a))]
           enough == {a \in 0..Attempts : n <= rank[a]}
<1>1. Attempts \in Nat /\ S \subseteq 1..Attempts
  BY DEF Views!IngestAssumption, Views!Attempt
<1>2. IsFiniteSet(S) /\ Cardinality(S) \in Nat /\ n \in Nat /\ n >= 1 /\ n <= Cardinality(S)
  BY SomeListed, <1>1
<1>3. \A a \in 0..Attempts : IsFiniteSet(UpTo(a)) /\ rank[a] = Cardinality(UpTo(a))
                             /\ rank[a] \in Nat
  BY SomeListed
<1>4. UpTo(Attempts) = S /\ UpTo(0) = {}
  <2>1. \A b \in S : b <= Attempts /\ ~(b <= 0)
    BY <1>1
  <2> QED BY <2>1, Zenon
<1>5. \A a \in 1..Attempts :
         UpTo(a) = IF a \in S THEN UpTo(a - 1) \cup {a} ELSE UpTo(a - 1)
  <2>1. SUFFICES ASSUME NEW a \in 1..Attempts
                 PROVE  UpTo(a) = IF a \in S THEN UpTo(a - 1) \cup {a} ELSE UpTo(a - 1)
    OBVIOUS
  <2>2. \A b \in S : b <= a <=> b <= a - 1 \/ b = a
    BY <1>1
  <2> QED BY <2>2, Zenon
<1>6. \A a \in 1..Attempts : ~(a \in UpTo(a - 1))
  BY <1>1
<1> HIDE DEF UpTo, rank
<1>7. Attempts \in enough
  BY <1>1, <1>2, <1>3, <1>4
<1>8. enough \in SUBSET Nat
  BY <1>1
<1> HIDE DEF enough
<1>9. PICK a \in enough : \A m \in enough : a <= m
  BY <1>7, <1>8, LeastNumber
<1>10. a \in 0..Attempts /\ n <= rank[a]
  BY <1>9 DEF enough
<1>11. a # 0
  <2>1. rank[0] = 0
    BY <1>1, <1>3, <1>4, FS_EmptySet
  <2> QED BY <1>2, <1>10, <2>1
<1>12. a \in 1..Attempts /\ a - 1 \in 0..Attempts
  BY <1>1, <1>10, <1>11
<1>13. rank[a - 1] < n
  <2>1. ~(a - 1 \in enough)
    BY <1>8, <1>9, <1>12
  <2>2. ~(n <= rank[a - 1])
    BY <2>1, <1>12 DEF enough
  <2> QED BY <1>2, <1>3, <1>12, <2>2
<1>14. a \in S
  <2>1. SUFFICES ASSUME ~(a \in S) PROVE FALSE
    OBVIOUS
  <2>2. UpTo(a) = UpTo(a - 1)
    BY <1>5, <1>12, <2>1
  <2>3. rank[a] = rank[a - 1]
    BY <1>3, <1>10, <1>12, <2>2
  <2> QED BY <1>2, <1>3, <1>10, <1>12, <1>13, <2>3
<1>15. Cardinality(UpTo(a)) = n
  <2>1. UpTo(a) = UpTo(a - 1) \cup {a} /\ ~(a \in UpTo(a - 1)) /\ IsFiniteSet(UpTo(a - 1))
    BY <1>3, <1>5, <1>6, <1>12, <1>14
  <2>2. Cardinality(UpTo(a)) = Cardinality(UpTo(a - 1)) + 1
    BY <2>1, FS_AddElement
  <2>3. rank[a] = rank[a - 1] + 1 /\ rank[a - 1] \in Nat
    BY <1>3, <1>10, <1>12, <2>2
  <2>4. rank[a] = n
    BY <1>2, <1>10, <1>13, <2>3
  <2> QED BY <1>3, <1>10, <2>4
<1> QED BY <1>14, <1>15 DEF UpTo

LEMMA OrderedType ==
    ASSUME Views!IngestAssumption,
           NEW S \in SUBSET Views!Attempt
    PROVE  /\ Cardinality(S) \in 0..Attempts
           /\ DOMAIN Views!Ordered(S) = 1..Cardinality(S) /\ Len(Views!Ordered(S)) = Cardinality(S)
           /\ \A n \in 1..Cardinality(S) : Views!Ordered(S)[n] \in S
<1>1. Cardinality(S) \in 0..Attempts
  BY SomeListed
<1>2. Cardinality(S) \in Nat
  BY <1>1 DEF Views!IngestAssumption
<1> DEFINE Rank(a) == Views!Cardinality({b \in S : b <= a})
<1>3. Views!Cardinality(S) = Cardinality(S) /\ \A a : Rank(a) = Cardinality({b \in S : b <= a})
  BY ViewsCardinality
<1>4. Views!Ordered(S) = [n \in 1..Views!Cardinality(S) |-> CHOOSE a \in S : Rank(a) = n]
  BY DEF Views!Ordered
<1> HIDE DEF Rank
<1>5. \A n \in 1..Cardinality(S) : Views!Ordered(S)[n] \in S
  <2>1. SUFFICES ASSUME NEW n \in 1..Cardinality(S)
                 PROVE  Views!Ordered(S)[n] \in S
    OBVIOUS
  <2>2. PICK c \in S : Cardinality({b \in S : b <= c}) = n
    BY <2>1, Ranked
  <2>3. Rank(c) = n
    BY <1>3, <2>2
  <2>4. Views!Ordered(S)[n] = CHOOSE a \in S : Rank(a) = n
    BY <1>3, <1>4
  <2> QED BY <2>3, <2>4
<1>6. DOMAIN Views!Ordered(S) = 1..Cardinality(S)
  BY <1>3, <1>4
<1>7. Len(Views!Ordered(S)) = Cardinality(S)
  BY <1>2, <1>3, <1>4
<1> QED BY <1>1, <1>5, <1>6, <1>7

----------------------------------------------------------------------------
\* What is asked for and answered.
LEMMA KeyType ==
    ASSUME NEW k \in Keys
    PROVE  \/ /\ k.list \in Views!Lists /\ k.offset \in 0..Attempts
              /\ k = Views!ListKey(k.list, k.offset)
           \/ k.list = "attempt" /\ k.offset \in Views!Attempt /\ k = Views!AttemptKey(k.offset)
<1>1. CASE k \in {Views!ListKey(list, offset) : list \in Views!Lists, offset \in 0..Attempts}
  <2>1. PICK list \in Views!Lists, offset \in 0..Attempts : k = Views!ListKey(list, offset)
    BY <1>1
  <2>2. k.list = list /\ k.offset = offset
    BY <2>1 DEF Views!ListKey
  <2> QED BY <2>1, <2>2
<1>2. CASE k \in {Views!AttemptKey(a) : a \in Views!Attempt}
  <2>1. PICK a \in Views!Attempt : k = Views!AttemptKey(a)
    BY <1>2
  <2>2. k.list = "attempt" /\ k.offset = a
    BY <2>1 DEF Views!AttemptKey
  <2> QED BY <2>1, <2>2
<1> QED BY <1>1, <1>2 DEF Keys

LEMMA ListedType ==
    ASSUME Views!IngestAssumption,
           ServerOK, NEW list \in Views!Lists
    PROVE  Views!Listed(list) \in SUBSET Views!Attempt
<1>1. list \in {"items", "failed_items", "run_items", "live"}
  BY DEF Views!Lists, Views!Galleries
<1> QED BY <1>1 DEF Views!IngestAssumption, Views!Listed, ServerOK

LEMMA AnswerType ==
    ASSUME Views!IngestAssumption,
           ServerOK, NEW k \in Keys
    PROVE  Views!Answer(k) \in Answers /\ Views!Answer(k).key = k
<1> USE DEF Views!IngestAssumption
<1>1. \A a \in Views!Attempt : Views!Row(a) \in Rows /\ Views!Row(a).id = a
  BY DEF Views!Row, Rows, ServerOK
<1>2. CASE k.list = "attempt"
  <2>1. k.offset \in Views!Attempt
    BY <1>2, KeyType DEF Views!Lists, Views!Galleries
  <2>2. Views!Answer(k) = [key |-> k, total |-> 1, rows |-> <<Views!Row(k.offset)>>]
    BY <1>2 DEF Views!Answer
  <2>3. 1 \in 0..Attempts /\ 1 <= Attempts
    OBVIOUS
  <2>4. PICK one : one = <<Views!Row(k.offset)>>
    OBVIOUS
  <2>5. one \in Seq(Rows) /\ Len(one) = 1 /\ one[1].id = k.offset
    BY <1>1, <2>1, <2>4
  <2>6. Views!Answer(k) = [key |-> k, total |-> 1, rows |-> one]
    BY <2>2, <2>4
  <2>7. Limit(k) = 1
    BY <1>2 DEF Limit
  <2>8. PICK r : r = Views!Answer(k)
    OBVIOUS
  <2>9. r.key = k /\ r.total = 1 /\ r.rows = one
    BY <2>6, <2>8
  <2>10. r \in [key : Keys, total : 0..Attempts, rows : Seq(Rows)]
    BY <2>3, <2>5, <2>6, <2>8
  <2>11. /\ Len(r.rows) <= Limit(r.key) /\ Len(r.rows) <= Attempts
         /\ Len(r.rows) = 1 /\ r.rows[1].id = r.key.offset
    <3>1. Len(r.rows) = 1 /\ Limit(r.key) = 1
      BY <2>5, <2>7, <2>9
    <3>2. r.rows[1].id = r.key.offset
      BY <2>5, <2>9
    <3> QED BY <2>3, <3>1, <3>2
  <2>12. r \in Answers
    BY <2>10, <2>11, Zenon DEF Answers
  <2> QED BY <2>8, <2>9, <2>12
<1>3. CASE k.list # "attempt"
  <2> DEFINE all == Views!Ordered(Views!Listed(k.list))
             end == k.offset + Views!PageSize(k.list)
             last == IF end < Len(all) THEN end ELSE Len(all)
             rows == [n \in 1..(last - k.offset) |-> Views!Row(all[k.offset + n])]
  <2>1. k.list \in Views!Lists /\ k.offset \in 0..Attempts
    BY <1>3, KeyType
  <2>2. Views!Listed(k.list) \in SUBSET Views!Attempt
    BY <2>1, ListedType
  <2>3. /\ Len(all) \in 0..Attempts
        /\ \A n \in 1..Len(all) : all[n] \in Views!Attempt
    BY <2>2, OrderedType
  <2>4. Views!PageSize(k.list) \in Nat \ {0}
    BY DEF Views!PageSize
  <2>5. Views!Answer(k) = [key |-> k, total |-> Len(all), rows |-> rows]
    BY <1>3 DEF Views!Answer, Views!Page
  <2> HIDE DEF all
  <2>6. /\ last \in Nat /\ last <= Len(all) /\ last - k.offset <= Views!PageSize(k.list)
        /\ last - k.offset <= Attempts /\ last - k.offset \in Int
        /\ k.offset \in Nat
    BY <2>1, <2>3, <2>4, SMTT(30)
  <2> HIDE DEF last, end
  <2>7. \A n \in 1..(last - k.offset) : k.offset + n \in 1..Len(all)
    BY <2>3, <2>6, SMTT(30)
  <2>8. \A n \in 1..(last - k.offset) : rows[n] \in Rows
    BY <1>1, <2>3, <2>7
  <2>9. rows \in Seq(Rows) /\ Len(rows) <= Views!PageSize(k.list) /\ Len(rows) <= Attempts
    <3>1. PICK m \in Nat : /\ 1..(last - k.offset) = 1..m
                           /\ m <= Views!PageSize(k.list) /\ m <= Attempts
      <4>1. CASE last - k.offset \in Nat
        BY <2>6, <4>1
      <4>2. CASE ~(last - k.offset \in Nat)
        <5>1. 1..(last - k.offset) = 1..0
          BY <2>6, <4>2
        <5>2. 0 \in Nat /\ 0 <= Views!PageSize(k.list) /\ 0 <= Attempts
          BY <2>4
        <5> QED BY <5>1, <5>2, Zenon
      <4> QED BY <4>1, <4>2
    <3>2. rows \in [1..m -> Rows]
      BY <2>8, <3>1
    <3> HIDE DEF rows
    <3>3. rows \in Seq(Rows) /\ Len(rows) = m
      BY <3>2
    <3> QED BY <3>1, <3>3
  <2> HIDE DEF rows
  <2> QED BY <1>3, <2>3, <2>5, <2>9 DEF Answers, Limit
<1> QED BY <1>2, <1>3

\* The answers on their way to a page, after it has asked for one.
LEMMA AskedType ==
    ASSUME Views!IngestAssumption,
           ServerOK, PagesOK, NEW t \in Tab, NEW k \in Keys, NEW S, S \subseteq reads[t],
           reads' = [reads EXCEPT ![t] = S \cup {Views!Answer(k)}]
    PROVE  /\ reads' \in [Tab -> SUBSET Answers]
           /\ \E r \in reads'[t] : r.key = k
           /\ \A u \in Tab \ {t} : reads'[u] = reads[u]
<1>1. reads \in [Tab -> SUBSET Answers]
  BY DEF PagesOK
<1>2. Views!Answer(k) \in Answers /\ Views!Answer(k).key = k
  BY AnswerType
<1>3. S \cup {Views!Answer(k)} \in SUBSET Answers
  BY <1>1, <1>2
<1>4. reads' \in [Tab -> SUBSET Answers]
  BY <1>1, <1>3
<1>5. reads'[t] = S \cup {Views!Answer(k)}
  BY <1>1
<1>6. \A u \in Tab \ {t} : reads'[u] = reads[u]
  BY <1>1
<1> QED BY <1>2, <1>4, <1>5, <1>6

LEMMA ReadAgainStep ==
    ASSUME Views!IngestAssumption,
           ServerOK, PagesOK, NEW t \in Tab, NEW k \in Keys, Views!ReadAgain(t, k)
    PROVE  /\ reads' \in [Tab -> SUBSET Answers] /\ broken' \in [Tab -> SUBSET Keys]
           /\ \E r \in reads'[t] : r.key = k
           /\ \A u \in Tab \ {t} : reads'[u] = reads[u] /\ broken'[u] = broken[u]
<1>1. reads \in [Tab -> SUBSET Answers] /\ broken \in [Tab -> SUBSET Keys]
  BY DEF PagesOK
<1>2. PICK S : S = {r \in reads[t] : r.key # k}
  OBVIOUS
<1>3. S \subseteq reads[t] /\ reads' = [reads EXCEPT ![t] = S \cup {Views!Answer(k)}]
  BY <1>1, <1>2 DEF Views!ReadAgain
<1>4. /\ reads' \in [Tab -> SUBSET Answers]
      /\ \E r \in reads'[t] : r.key = k
      /\ \A u \in Tab \ {t} : reads'[u] = reads[u]
  BY <1>3, AskedType, ZenonT(30)
<1>5. /\ broken' \in [Tab -> SUBSET Keys]
      /\ \A u \in Tab \ {t} : broken'[u] = broken[u]
  BY <1>1 DEF Views!ReadAgain
<1> QED BY <1>4, <1>5

LEMMA EnterStep ==
    ASSUME Views!IngestAssumption,
           ServerOK, PagesOK, NEW t \in Tab, NEW k \in Keys, Views!Enter(t, k)
    PROVE  /\ key' \in [Tab -> Keys] /\ reads' \in [Tab -> SUBSET Answers]
           /\ broken' \in [Tab -> SUBSET Keys]
           /\ key'[t] = k /\ Told(t)'
           /\ \A u \in Tab \ {t} : /\ key'[u] = key[u] /\ reads'[u] = reads[u]
                                   /\ broken'[u] = broken[u]
<1>1. /\ key \in [Tab -> Keys] /\ reads \in [Tab -> SUBSET Answers]
      /\ broken \in [Tab -> SUBSET Keys]
  BY DEF PagesOK
<1>2. key' = [key EXCEPT ![t] = k]
  BY DEF Views!Enter, Views!Ask
<1>3. /\ key' \in [Tab -> Keys] /\ key'[t] = k
      /\ \A u \in Tab \ {t} : key'[u] = key[u]
  BY <1>1, <1>2
<1>4. CASE Views!ReadAgain(t, k)
  BY <1>3, <1>4, ReadAgainStep DEF Told, Views!Fetching
<1>5. CASE k \in broken[t] /\ UNCHANGED <<reads, broken>>
  BY <1>1, <1>3, <1>5 DEF Told
<1> QED BY <1>4, <1>5 DEF Views!Enter, Views!Ask

----------------------------------------------------------------------------
\* The pages.
LEMMA TabStep ==
    ASSUME PagesOK, PagesShowTheirOwn, NoPageWaits, PagesOK', NEW t \in Tab,
           ShowsItsOwn(t)', data'[t].key # key'[t] => Told(t)',
           \A u \in Tab \ {t} : /\ key'[u] = key[u] /\ data'[u] = data[u]
                                /\ reads'[u] = reads[u] /\ broken'[u] = broken[u]
    PROVE  PagesOK' /\ PagesShowTheirOwn' /\ NoPageWaits'
<1>1. PagesShowTheirOwn'
  BY DEF PagesShowTheirOwn, ShowsItsOwn
<1>2. NoPageWaits'
  BY DEF NoPageWaits, Told, Views!Fetching
<1> QED BY <1>1, <1>2

\* What is shown has rows of attempts, no more than a page of the list has.
LEMMA ShownType ==
    ASSUME Views!IngestAssumption,
           PagesOK, NEW t \in Tab, ShowsItsOwn(t)
    PROVE  /\ data[t].total \in 0..Attempts /\ data[t].rows \in Seq(Rows)
           /\ Len(data[t].rows) <= Attempts
           /\ \A n \in DOMAIN data[t].rows : data[t].rows[n].id \in Views!Attempt
           /\ Views!InGallery(t) => Len(data[t].rows) <= ITEMS_PAGE_SIZE
           /\ data[t].key.list \in Views!Lists => data[t].key \in Keys
<1> USE DEF Views!IngestAssumption
<1>1. data[t] \in Answers \cup {Views!NoData}
  BY DEF PagesOK
<1>2. CASE data[t] = Views!NoData
  <2>1. data[t].total = 0 /\ data[t].rows = <<>> /\ data[t].key.list = "none"
    BY <1>2 DEF Views!NoData, Views!ListKey
  <2>2. <<>> \in Seq(Rows) /\ Len(<<>>) = 0
    OBVIOUS
  <2> QED BY <2>1, <2>2 DEF Views!Lists, Views!Galleries
<1>3. CASE data[t] \in Answers
  <2>1. PICK d : d = data[t]
    OBVIOUS
  <2>2. /\ d.key \in Keys /\ d.total \in 0..Attempts /\ d.rows \in Seq(Rows)
        /\ Len(d.rows) <= Limit(d.key) /\ Len(d.rows) <= Attempts
    BY <1>3, <2>1 DEF Answers
  <2>3. \A n \in DOMAIN d.rows : d.rows[n].id \in Views!Attempt
    <3>1. \A n \in DOMAIN d.rows : d.rows[n] \in Rows
      BY <2>2
    <3> QED BY <3>1 DEF Rows
  <2>4. ASSUME Views!InGallery(t) PROVE Len(d.rows) <= ITEMS_PAGE_SIZE
    <3>1. d.key.list \in Views!Galleries \/ data[t] = Views!NoData
      BY <2>1, <2>4 DEF ShowsItsOwn, Views!InGallery
    <3>2. d.key.list # "none"
      BY <2>2, KeyType DEF Views!Lists, Views!Galleries
    <3>3. d.key.list \in Views!Galleries
      BY <2>1, <3>1, <3>2 DEF Views!NoData, Views!ListKey
    <3>4. Limit(d.key) = ITEMS_PAGE_SIZE
      BY <3>3 DEF Limit, Views!PageSize, Views!Galleries
    <3> QED BY <2>2, <3>4
  <2> QED BY <2>1, <2>2, <2>3, <2>4
<1> QED BY <1>1, <1>2, <1>3

LEMMA SelectListStep ==
    ASSUME Views!IngestAssumption,
           ServerOK, PagesOK, PagesShowTheirOwn, NoPageWaits, NEW t \in Tab, Views!SelectList(t)
    PROVE  PagesOK' /\ PagesShowTheirOwn' /\ NoPageWaits'
<1> USE DEF Views!IngestAssumption
<1>1. PICK list \in Views!Lists \ {key[t].list} :
         /\ Views!Enter(t, Views!ListKey(list, 0))
         /\ IF {list, key[t].list} \subseteq Views!Galleries THEN UNCHANGED <<data, open>>
            ELSE /\ data' = [data EXCEPT ![t] = Views!NoData]
                 /\ open' = [open EXCEPT ![t] = 0]
  BY DEF Views!SelectList
<1>2. PICK k : k = Views!ListKey(list, 0)
  OBVIOUS
<1>3. k \in Keys /\ k.list = list
  BY <1>2 DEF Keys, Views!ListKey
<1>4. /\ key' \in [Tab -> Keys] /\ reads' \in [Tab -> SUBSET Answers]
      /\ broken' \in [Tab -> SUBSET Keys]
      /\ key'[t] = k /\ Told(t)'
      /\ \A u \in Tab \ {t} : /\ key'[u] = key[u] /\ reads'[u] = reads[u]
                              /\ broken'[u] = broken[u]
  BY <1>1, <1>2, <1>3, EnterStep
<1>5. /\ data \in [Tab -> Answers \cup {Views!NoData}] /\ open \in [Tab -> 0..ITEMS_PAGE_SIZE]
      /\ ShowsItsOwn(t) /\ key[t] \in Keys
  BY DEF PagesOK, PagesShowTheirOwn
<1>6. /\ data' \in [Tab -> Answers \cup {Views!NoData}]
      /\ \A u \in Tab \ {t} : data'[u] = data[u]
      /\ IF {list, key[t].list} \subseteq Views!Galleries THEN data'[t] = data[t]
         ELSE data'[t] = Views!NoData
  BY <1>1, <1>5
<1>7. open' \in [Tab -> 0..ITEMS_PAGE_SIZE]
  BY <1>1, <1>5
<1>8. PagesOK'
  BY <1>4, <1>6, <1>7 DEF PagesOK
<1>9. ShowsItsOwn(t)'
  BY <1>3, <1>4, <1>5, <1>6 DEF ShowsItsOwn
<1> QED BY <1>4, <1>6, <1>8, <1>9, TabStep

LEMMA TurnStep ==
    ASSUME Views!IngestAssumption,
           ServerOK, PagesOK, PagesShowTheirOwn, NoPageWaits, NEW t \in Tab, Views!Turn(t)
    PROVE  PagesOK' /\ PagesShowTheirOwn' /\ NoPageWaits'
<1> USE DEF Views!IngestAssumption
<1>1. key[t] \in Keys /\ ShowsItsOwn(t) /\ key[t].list \in Views!Lists
  BY DEF PagesOK, PagesShowTheirOwn, Views!Turn
<1>2. key[t] = Views!ListKey(key[t].list, key[t].offset) /\ key[t].offset \in 0..Attempts
  BY <1>1, KeyType DEF Views!Lists, Views!Galleries
<1>3. data[t].total \in 0..Attempts
  BY <1>1, ShownType
<1>4. Views!PageSize(key[t].list) \in Nat \ {0}
  BY DEF Views!PageSize
<1>5. PICK k \in Keys : Views!Ask(t, k) /\ k.list = key[t].list
  <2> DEFINE size == Views!PageSize(key[t].list)
             offset == key[t].offset
  <2>1. \A n \in 0..Attempts : Views!ListKey(key[t].list, n) \in Keys
    BY <1>1 DEF Keys
  <2>2. CASE /\ Views!HasPrev(t)
             /\ Views!Ask(t, [key[t] EXCEPT !.offset = IF @ < size THEN 0 ELSE @ - size])
    <3>1. PICK n : n = IF offset < size THEN 0 ELSE offset - size
      OBVIOUS
    <3>2. n \in 0..Attempts
      BY <1>2, <1>4, <3>1
    <3>3. [key[t] EXCEPT !.offset = IF @ < size THEN 0 ELSE @ - size]
            = Views!ListKey(key[t].list, n)
      BY <1>2, <3>1 DEF Views!ListKey
    <3> QED BY <2>1, <2>2, <3>2, <3>3 DEF Views!ListKey
  <2>3. CASE Views!HasNext(t) /\ Views!Ask(t, [key[t] EXCEPT !.offset = @ + size])
    <3>1. PICK n : n = offset + size
      OBVIOUS
    <3>2. n \in 0..Attempts
      BY <1>2, <1>3, <1>4, <2>3, <3>1 DEF Views!HasNext
    <3>3. [key[t] EXCEPT !.offset = @ + size] = Views!ListKey(key[t].list, n)
      BY <1>2, <3>1 DEF Views!ListKey
    <3> QED BY <2>1, <2>3, <3>2, <3>3 DEF Views!ListKey
  <2> QED BY <2>2, <2>3 DEF Views!Turn
<1>6. /\ key' \in [Tab -> Keys] /\ reads' \in [Tab -> SUBSET Answers]
      /\ broken' \in [Tab -> SUBSET Keys]
      /\ key'[t] = k /\ Told(t)'
      /\ \A u \in Tab \ {t} : /\ key'[u] = key[u] /\ reads'[u] = reads[u]
                              /\ broken'[u] = broken[u]
  BY <1>5, EnterStep DEF Views!Enter
<1>7. UNCHANGED <<data, open>>
  BY DEF Views!Turn
<1>8. PagesOK'
  BY <1>6, <1>7 DEF PagesOK
<1>9. ShowsItsOwn(t)'
  BY <1>1, <1>5, <1>6, <1>7 DEF ShowsItsOwn
<1> QED BY <1>6, <1>7, <1>8, <1>9, TabStep

LEMMA OpenAttemptStep ==
    ASSUME Views!IngestAssumption,
           ServerOK, PagesOK, PagesShowTheirOwn, NoPageWaits, NEW t \in Tab, Views!OpenAttempt(t)
    PROVE  PagesOK' /\ PagesShowTheirOwn' /\ NoPageWaits'
<1>1. ShowsItsOwn(t) /\ data \in [Tab -> Answers \cup {Views!NoData}]
  BY DEF PagesOK, PagesShowTheirOwn
<1>2. PICK n \in DOMAIN data[t].rows : Views!Enter(t, Views!AttemptKey(data[t].rows[n].id))
  BY DEF Views!OpenAttempt
<1>3. Views!AttemptKey(data[t].rows[n].id) \in Keys
  BY <1>1, ShownType DEF Keys
<1>4. /\ key' \in [Tab -> Keys] /\ reads' \in [Tab -> SUBSET Answers]
      /\ broken' \in [Tab -> SUBSET Keys] /\ Told(t)'
      /\ \A u \in Tab \ {t} : /\ key'[u] = key[u] /\ reads'[u] = reads[u]
                              /\ broken'[u] = broken[u]
  BY <1>2, <1>3, EnterStep
<1>5. /\ data' \in [Tab -> Answers \cup {Views!NoData}] /\ data'[t] = Views!NoData
      /\ \A u \in Tab \ {t} : data'[u] = data[u]
  BY <1>1 DEF Views!OpenAttempt
<1>6. PagesOK'
  BY <1>4, <1>5 DEF PagesOK, Views!OpenAttempt
<1>7. ShowsItsOwn(t)'
  BY <1>5 DEF ShowsItsOwn
<1> QED BY <1>4, <1>5, <1>6, <1>7, TabStep

LEMMA BrowseStep ==
    ASSUME Views!IngestAssumption,
           PagesOK, PagesShowTheirOwn, NoPageWaits, NEW t \in Tab, Views!Browse(t)
    PROVE  PagesOK' /\ PagesShowTheirOwn' /\ NoPageWaits'
<1> USE DEF Views!IngestAssumption
<1>1. /\ ShowsItsOwn(t) /\ open \in [Tab -> 0..ITEMS_PAGE_SIZE] /\ Views!InGallery(t)
      /\ UNCHANGED <<key, data, reads, broken>>
  BY DEF PagesOK, PagesShowTheirOwn, Views!Browse
<1>2. data[t].rows \in Seq(Rows) /\ Len(data[t].rows) <= ITEMS_PAGE_SIZE
  BY <1>1, ShownType
<1>3. PICK m : m = Len(data[t].rows)
  OBVIOUS
<1>4. m \in Nat /\ m <= ITEMS_PAGE_SIZE /\ DOMAIN data[t].rows = 1..m
  BY <1>2, <1>3
<1>5. open[t] \in 0..ITEMS_PAGE_SIZE
  BY <1>1
<1>6. ITEMS_PAGE_SIZE \in Nat /\ 0 \in 0..ITEMS_PAGE_SIZE
  OBVIOUS
<1>7. open' \in [Tab -> 0..ITEMS_PAGE_SIZE]
  <2>1. ASSUME NEW n \in 1..m, open' = [open EXCEPT ![t] = n]
        PROVE  open' \in [Tab -> 0..ITEMS_PAGE_SIZE]
    <3>1. n \in 0..ITEMS_PAGE_SIZE
      BY <1>4, <1>6
    <3> QED BY <1>1, <2>1, <3>1
  <2>2. CASE open[t] > 1 /\ open' = [open EXCEPT ![t] = open[t] - 1]
    <3>1. open[t] - 1 \in 0..ITEMS_PAGE_SIZE
      BY <1>5, <1>6, <2>2
    <3> QED BY <1>1, <2>2, <3>1
  <2>3. CASE Views!HasItemAfter(t) /\ open' = [open EXCEPT ![t] = open[t] + 1]
    <3>1. open[t] + 1 \in 0..ITEMS_PAGE_SIZE
      BY <1>3, <1>4, <1>5, <1>6, <2>3, SMTT(30) DEF Views!HasItemAfter
    <3> QED BY <1>1, <2>3, <3>1
  <2>4. CASE open[t] > 0 /\ open' = [open EXCEPT ![t] = 0]
    BY <1>1, <1>6, <2>4
  <2> QED BY <1>4, <2>1, <2>2, <2>3, <2>4 DEF Views!Browse
<1> QED BY <1>1, <1>7 DEF PagesOK, PagesShowTheirOwn, ShowsItsOwn, NoPageWaits, Told, Views!Fetching

LEMMA RereadStep ==
    ASSUME Views!IngestAssumption,
           ServerOK, PagesOK, PagesShowTheirOwn, NoPageWaits, NEW t \in Tab,
           Views!ReadAgain(t, key[t]), UNCHANGED <<key, data, open>>
    PROVE  PagesOK' /\ PagesShowTheirOwn' /\ NoPageWaits'
<1>1. key[t] \in Keys
  BY DEF PagesOK
<1>2. /\ reads' \in [Tab -> SUBSET Answers] /\ broken' \in [Tab -> SUBSET Keys]
      /\ \E r \in reads'[t] : r.key = key[t]
      /\ \A u \in Tab \ {t} : reads'[u] = reads[u] /\ broken'[u] = broken[u]
  BY <1>1, ReadAgainStep
<1>3. PagesOK'
  BY <1>2 DEF PagesOK
<1>4. ShowsItsOwn(t)' /\ Told(t)'
  BY <1>2 DEF PagesShowTheirOwn, ShowsItsOwn, Told, Views!Fetching
<1> QED BY <1>2, <1>3, <1>4, TabStep

LEMMA TakeAnswerStep ==
    ASSUME Views!IngestAssumption,
           ServerOK, PagesOK, PagesShowTheirOwn, NoPageWaits, NEW t \in Tab, Views!TakeAnswer(t)
    PROVE  PagesOK' /\ PagesShowTheirOwn' /\ NoPageWaits'
<1>1. UNCHANGED <<key, data, open>>
  BY DEF Views!TakeAnswer
<1>2. CASE UNCHANGED <<reads, broken>>
  BY <1>1, <1>2 DEF PagesOK, PagesShowTheirOwn, ShowsItsOwn, NoPageWaits, Told, Views!Fetching
<1>3. CASE Views!ReadAgain(t, key[t])
  BY <1>1, <1>3, RereadStep
<1> QED BY <1>2, <1>3 DEF Views!TakeAnswer, Views!Invalidated

LEMMA ReadStep ==
    ASSUME Views!IngestAssumption,
           ServerOK, PagesOK, PagesShowTheirOwn, NoPageWaits, NEW t \in Tab,
           Views!Poll(t) \/ Views!Focus(t)
    PROVE  PagesOK' /\ PagesShowTheirOwn' /\ NoPageWaits'
BY RereadStep DEF Views!Poll, Views!Read, Views!Focus

LEMMA EndReadStep ==
    ASSUME PagesOK, PagesShowTheirOwn, NoPageWaits, NEW t \in Tab, Views!EndRead(t)
    PROVE  PagesOK' /\ PagesShowTheirOwn' /\ NoPageWaits'
<1>1. PICK answer \in reads[t] :
         /\ reads' = [reads EXCEPT ![t] = @ \ {answer}]
         /\ data' = [data EXCEPT ![t] = IF Views!IsAsked(t, answer) THEN answer ELSE @]
  BY DEF Views!EndRead
<1>2. /\ reads \in [Tab -> SUBSET Answers] /\ data \in [Tab -> Answers \cup {Views!NoData}]
      /\ UNCHANGED <<key, broken, open>>
  BY DEF PagesOK, Views!EndRead
<1>3. /\ reads' \in [Tab -> SUBSET Answers] /\ reads'[t] = reads[t] \ {answer}
      /\ \A u \in Tab \ {t} : reads'[u] = reads[u]
  BY <1>1, <1>2
<1>4. /\ data' \in [Tab -> Answers \cup {Views!NoData}]
      /\ data'[t] = IF Views!IsAsked(t, answer) THEN answer ELSE data[t]
      /\ \A u \in Tab \ {t} : data'[u] = data[u]
  BY <1>1, <1>2
<1>5. PagesOK'
  BY <1>2, <1>3, <1>4 DEF PagesOK
<1>6. ShowsItsOwn(t)' /\ (data'[t].key # key'[t] => Told(t)')
  <2>1. CASE Views!IsAsked(t, answer)
    BY <1>2, <1>4, <2>1 DEF Views!IsAsked, ShowsItsOwn
  <2>2. CASE ~Views!IsAsked(t, answer)
    BY <1>2, <1>3, <1>4, <2>2 DEF Views!IsAsked, PagesShowTheirOwn, ShowsItsOwn, NoPageWaits,
       Told, Views!Fetching
  <2> QED BY <2>1, <2>2
<1> QED BY <1>2, <1>3, <1>4, <1>5, <1>6, TabStep

LEMMA RepeatReadStep ==
    ASSUME Views!IngestAssumption,
           ServerOK, PagesOK, PagesShowTheirOwn, NoPageWaits, NEW t \in Tab, Views!RepeatRead(t)
    PROVE  PagesOK' /\ PagesShowTheirOwn' /\ NoPageWaits'
<1>1. PICK answer \in reads[t] :
         reads' = [reads EXCEPT ![t] = (@ \ {answer}) \cup {Views!Answer(answer.key)}]
  BY DEF Views!RepeatRead
<1>2. UNCHANGED <<key, data, broken, open>>
  BY DEF Views!RepeatRead
<1>3. PICK k : k = answer.key
  OBVIOUS
<1>4. k \in Keys
  BY <1>1, <1>3 DEF PagesOK, Answers
<1>5. PICK S : S = reads[t] \ {answer}
  OBVIOUS
<1>6. S \subseteq reads[t] /\ reads' = [reads EXCEPT ![t] = S \cup {Views!Answer(k)}]
  BY <1>1, <1>3, <1>5
<1>7. /\ reads' \in [Tab -> SUBSET Answers]
      /\ \E r \in reads'[t] : r.key = k
      /\ \A u \in Tab \ {t} : reads'[u] = reads[u]
  BY <1>4, <1>6, AskedType, ZenonT(30)
<1>8. PagesOK'
  BY <1>2, <1>7 DEF PagesOK
<1>9. ShowsItsOwn(t)'
  BY <1>2 DEF PagesShowTheirOwn, ShowsItsOwn
<1>10. data'[t].key # key'[t] => Told(t)'
  <2>1. SUFFICES ASSUME data[t].key # key[t], key[t] \notin broken[t]
                 PROVE  Views!Fetching(t)'
    BY <1>2 DEF Told
  <2>2. PICK r \in reads[t] : r.key = key[t]
    BY <2>1 DEF NoPageWaits, Told, Views!Fetching
  <2>3. CASE r = answer
    BY <1>2, <1>3, <1>7, <2>2, <2>3 DEF Views!Fetching
  <2>4. CASE r # answer
    <3>1. reads'[t] = S \cup {Views!Answer(k)}
      BY <1>6 DEF PagesOK
    <3> QED BY <1>2, <1>5, <2>2, <2>4, <3>1 DEF Views!Fetching
  <2> QED BY <2>3, <2>4
<1> QED BY <1>2, <1>7, <1>8, <1>9, <1>10, TabStep

LEMMA FailReadStep ==
    ASSUME PagesOK, PagesShowTheirOwn, NoPageWaits, NEW t \in Tab, Views!FailRead(t)
    PROVE  PagesOK' /\ PagesShowTheirOwn' /\ NoPageWaits'
<1>1. PICK answer \in reads[t] :
         /\ reads' = [reads EXCEPT ![t] = @ \ {answer}]
         /\ broken' = [broken EXCEPT ![t] = @ \cup {answer.key}]
         /\ data' = [data EXCEPT ![t] =
               IF Views!IsAsked(t, answer) /\ @.key # key[t] THEN Views!NoData ELSE @]
  BY DEF Views!FailRead
<1>2. /\ reads \in [Tab -> SUBSET Answers] /\ data \in [Tab -> Answers \cup {Views!NoData}]
      /\ broken \in [Tab -> SUBSET Keys] /\ UNCHANGED <<key, open>>
  BY DEF PagesOK, Views!FailRead
<1>3. /\ reads' \in [Tab -> SUBSET Answers] /\ reads'[t] = reads[t] \ {answer}
      /\ \A u \in Tab \ {t} : reads'[u] = reads[u]
  BY <1>1, <1>2
<1>4. answer.key \in Keys
  BY <1>1, <1>2 DEF Answers
<1>5. /\ broken' \in [Tab -> SUBSET Keys] /\ broken'[t] = broken[t] \cup {answer.key}
      /\ \A u \in Tab \ {t} : broken'[u] = broken[u]
  BY <1>1, <1>2, <1>4
<1>6. /\ data' \in [Tab -> Answers \cup {Views!NoData}]
      /\ data'[t] = data[t] \/ data'[t] = Views!NoData
      /\ \A u \in Tab \ {t} : data'[u] = data[u]
  BY <1>1, <1>2
<1>7. PagesOK'
  BY <1>2, <1>3, <1>5, <1>6 DEF PagesOK
<1>8. ShowsItsOwn(t)'
  BY <1>2, <1>6 DEF PagesShowTheirOwn, ShowsItsOwn
<1>9. data'[t].key # key'[t] => Told(t)'
  <2>1. CASE Views!IsAsked(t, answer)
    BY <1>2, <1>5, <2>1 DEF Views!IsAsked, Told
  <2>2. CASE ~Views!IsAsked(t, answer)
    <3>1. data'[t] = data[t]
      BY <1>1, <1>2, <2>2
    <3> QED BY <1>2, <1>3, <1>5, <2>2, <3>1 DEF Views!IsAsked, NoPageWaits, Told, Views!Fetching
  <2> QED BY <2>1, <2>2
<1> QED BY <1>2, <1>3, <1>5, <1>6, <1>7, <1>8, <1>9, TabStep

LEMMA TryAgainStep ==
    ASSUME Views!IngestAssumption,
           ServerOK, PagesOK, PagesShowTheirOwn, NoPageWaits, NEW t \in Tab, Views!TryAgain(t)
    PROVE  PagesOK' /\ PagesShowTheirOwn' /\ NoPageWaits'
<1>1. PICK k : k = IF Views!InRun(t) THEN Views!ListKey("run_items", 0) ELSE key[t]
  OBVIOUS
<1>2. /\ Views!Ask(t, k) /\ UNCHANGED open
      /\ data' = [data EXCEPT ![t] = IF @.key = k THEN @ ELSE Views!NoData]
  BY <1>1 DEF Views!TryAgain
<1>3. /\ key \in [Tab -> Keys] /\ data \in [Tab -> Answers \cup {Views!NoData}]
      /\ open \in [Tab -> 0..ITEMS_PAGE_SIZE]
  BY DEF PagesOK
<1>4. k \in Keys
  <2>1. 0 \in 0..Attempts
    BY DEF Views!IngestAssumption
  <2>2. Views!ListKey("run_items", 0) \in Keys
    BY <2>1 DEF Keys, Views!Lists
  <2> QED BY <1>1, <1>3, <2>2
<1>5. /\ key' \in [Tab -> Keys] /\ reads' \in [Tab -> SUBSET Answers]
      /\ broken' \in [Tab -> SUBSET Keys]
      /\ key'[t] = k /\ Told(t)'
      /\ \A u \in Tab \ {t} : /\ key'[u] = key[u] /\ reads'[u] = reads[u]
                              /\ broken'[u] = broken[u]
  BY <1>2, <1>4, EnterStep DEF Views!Enter
<1>6. /\ data' \in [Tab -> Answers \cup {Views!NoData}]
      /\ data'[t] = Views!NoData \/ data'[t].key = k
      /\ \A u \in Tab \ {t} : data'[u] = data[u]
  BY <1>2, <1>3
<1>7. PagesOK'
  BY <1>2, <1>3, <1>5, <1>6 DEF PagesOK
<1>8. ShowsItsOwn(t)'
  BY <1>5, <1>6 DEF ShowsItsOwn
<1> QED BY <1>5, <1>6, <1>7, <1>8, TabStep

LEMMA PagesStep ==
    ASSUME Views!IngestAssumption,
           ServerOK, PagesOK, PagesShowTheirOwn, NoPageWaits, Views!Next
    PROVE  PagesOK' /\ PagesShowTheirOwn' /\ NoPageWaits'
<1>1. CASE UNCHANGED Views!view
  BY <1>1 DEF Views!view, PagesOK, PagesShowTheirOwn, ShowsItsOwn, NoPageWaits, Told, Views!Fetching
<1>2. ASSUME NEW t \in Tab,
             Views!SelectList(t) \/ Views!Turn(t) \/ Views!OpenAttempt(t) \/ Views!Browse(t)
      PROVE  PagesOK' /\ PagesShowTheirOwn' /\ NoPageWaits'
  BY <1>2, SelectListStep, TurnStep, OpenAttemptStep, BrowseStep
<1>3. ASSUME NEW t \in Tab,
             \/ Views!TakeAnswer(t) \/ Views!Poll(t) \/ Views!Focus(t) \/ Views!EndRead(t)
             \/ Views!RepeatRead(t) \/ Views!FailRead(t) \/ Views!TryAgain(t)
      PROVE  PagesOK' /\ PagesShowTheirOwn' /\ NoPageWaits'
  BY <1>3, TakeAnswerStep, ReadStep, EndReadStep, RepeatReadStep, FailReadStep, TryAgainStep
<1>4. ASSUME NEW t \in Tab,
             \/ Views!Retry(t) \/ Views!RetryOfRun(t) \/ Views!ReadFailed(t) \/ Views!ResetFailed(t)
             \/ Views!StartWorkflow(t)
      PROVE  UNCHANGED Views!view
  BY <1>4 DEF Views!Retry, Views!RetryOfRun, Views!ReadFailed, Views!ResetFailed,
     Views!StartWorkflow
<1>5. ASSUME NEW a \in Views!Attempt, Views!Finish(a) \/ Views!Age(a)
      PROVE  UNCHANGED Views!view
  BY <1>5 DEF Views!Finish, Views!Age
<1> QED BY <1>1, <1>2, <1>3, <1>4, <1>5 DEF Views!Next

----------------------------------------------------------------------------
\* Attempts, workflows and retries.
LEMMA CallType ==
    ASSUME NEW c \in RetryCalls
    PROVE  /\ c.state \in {"idle", "refused", "sent", "read", "reset", "queued"}
           /\ c.state \in {"sent", "read", "reset"} =>
                 /\ c.ids \in SUBSET Views!Attempt /\ c.lists \in SUBSET Views!Lists
                 /\ c = [state |-> c.state, ids |-> c.ids, lists |-> c.lists]
BY DEF RetryCalls, Views!Idle

LEMMA ServerStep ==
    ASSUME ServerOK, PagesOK, CallsOK, Views!Next
    PROVE  ServerOK'
<1>1. CASE UNCHANGED <<status, recent, workflows>>
  BY <1>1 DEF ServerOK
<1>2. ASSUME NEW t \in Tab,
             Views!ResetFailed(t)
      PROVE  ServerOK'
  BY <1>2 DEF Views!ResetFailed, ServerOK, Views!Status
<1>3. ASSUME NEW t \in Tab,
             Views!StartWorkflow(t)
      PROVE  ServerOK'
  <2>1. UNCHANGED <<status, recent>>
    BY <1>3 DEF Views!StartWorkflow
  <2>2. workflows' \in [Views!Attempt -> Nat]
    <3>1. CASE UNCHANGED workflows
      BY <3>1 DEF ServerOK
    <3>2. CASE workflows' = [a \in Views!Attempt |->
                                workflows[a] + (IF a \in retryCall[t].ids THEN 1 ELSE 0)]
      BY <3>2 DEF ServerOK
    <3> QED BY <1>3, <3>1, <3>2 DEF Views!StartWorkflow
  <2> QED BY <2>1, <2>2 DEF ServerOK
<1>4. ASSUME NEW a \in Views!Attempt, Views!Finish(a)
      PROVE  ServerOK'
  <2>1. workflows[a] - 1 \in Nat
    BY <1>4 DEF Views!Finish, ServerOK
  <2>2. workflows' \in [Views!Attempt -> Nat]
    BY <1>4, <2>1 DEF Views!Finish, ServerOK
  <2>3. status' \in [Views!Attempt -> Views!Status]
    <3>1. PICK s \in {"done", "failed"} : status' = [status EXCEPT ![a] = s]
      BY <1>4 DEF Views!Finish
    <3> QED BY <3>1 DEF ServerOK, Views!Status
  <2>4. recent' \in SUBSET Views!Attempt
    BY <1>4 DEF Views!Finish, ServerOK
  <2> QED BY <2>2, <2>3, <2>4 DEF ServerOK
<1>5. ASSUME NEW a \in Views!Attempt, Views!Age(a)
      PROVE  ServerOK'
  BY <1>5 DEF Views!Age, ServerOK
<1>6. ASSUME NEW t \in Tab,
             \/ Views!SelectList(t) \/ Views!Turn(t) \/ Views!OpenAttempt(t) \/ Views!Browse(t)
             \/ Views!Retry(t) \/ Views!RetryOfRun(t)
      PROVE  UNCHANGED <<status, recent, workflows>>
  BY <1>6 DEF Views!SelectList, Views!Turn, Views!OpenAttempt, Views!Browse, Views!Retry,
     Views!RetryOfRun
<1>7. ASSUME NEW t \in Tab,
             \/ Views!ReadFailed(t) \/ Views!TakeAnswer(t) \/ Views!Poll(t) \/ Views!Focus(t)
             \/ Views!EndRead(t) \/ Views!RepeatRead(t) \/ Views!FailRead(t) \/ Views!TryAgain(t)
      PROVE  UNCHANGED <<status, recent, workflows>>
  BY <1>7 DEF Views!ReadFailed, Views!TakeAnswer, Views!Poll, Views!Read, Views!Focus,
     Views!EndRead, Views!RepeatRead, Views!FailRead, Views!TryAgain
<1> QED BY <1>1, <1>2, <1>3, <1>4, <1>5, <1>6, <1>7 DEF Views!Next

\* What a press of a retry button sends.
LEMMA RetrySends ==
    ASSUME Views!IngestAssumption,
           PagesOK, PagesShowTheirOwn, NEW t \in Tab, Views!Retry(t) \/ Views!RetryOfRun(t)
    PROVE  \E ids \in SUBSET Views!Attempt, lists \in SUBSET Views!Lists : Views!Send(t, ids, lists)
<1>1. /\ Views!Galleries \in SUBSET Views!Lists
      /\ Views!Galleries \cup {"run_items"} \in SUBSET Views!Lists
      /\ {"run_items"} \in SUBSET Views!Lists
  BY DEF Views!Galleries, Views!Lists
<1>2. Views!Attempt \in SUBSET Views!Attempt /\ RunAttempts \in SUBSET Views!Attempt
  BY DEF Views!IngestAssumption
<1>3. \A n \in DOMAIN data[t].rows : {data[t].rows[n].id} \in SUBSET Views!Attempt
  <2>1. ShowsItsOwn(t)
    BY DEF PagesShowTheirOwn
  <2> QED BY <2>1, ShownType
<1>4. CASE Views!Retry(t)
  BY <1>1, <1>2, <1>3, <1>4 DEF Views!Retry
<1>5. CASE Views!RetryOfRun(t)
  BY <1>1, <1>2, <1>3, <1>5 DEF Views!RetryOfRun
<1> QED BY <1>4, <1>5

LEMMA CallsStep ==
    ASSUME Views!IngestAssumption,
           PagesOK, PagesShowTheirOwn, CallsOK, Views!Next
    PROVE  CallsOK'
<1> USE DEF Views!IngestAssumption
<1>1. retryCall \in [Tab -> RetryCalls] /\ retries \in 0..MaxRetries /\ moves \in 0..MaxMoves
      /\ viewFaults \in 0..MaxFaults
  BY DEF CallsOK
<1>2. ASSUME NEW t \in Tab,
             Views!Retry(t) \/ Views!RetryOfRun(t)
      PROVE  CallsOK'
  <2>1. PICK ids \in SUBSET Views!Attempt, lists \in SUBSET Views!Lists : Views!Send(t, ids, lists)
    BY <1>2, RetrySends
  <2>2. [state |-> "sent", ids |-> ids, lists |-> lists] \in RetryCalls
    BY DEF RetryCalls
  <2>3. retryCall' \in [Tab -> RetryCalls]
    BY <1>1, <2>1, <2>2 DEF Views!Send
  <2>4. retries' \in 0..MaxRetries /\ UNCHANGED <<moves, viewFaults>>
    BY <1>1, <1>2 DEF Views!Retry, Views!RetryOfRun, Views!CanRetry
  <2> QED BY <1>1, <2>3, <2>4 DEF CallsOK
<1>3. ASSUME NEW t \in Tab,
             Views!ReadFailed(t)
      PROVE  CallsOK'
  <2>1. PICK failed : failed = {a \in retryCall[t].ids : status[a] = "failed"}
    OBVIOUS
  <2>2. retryCall' = [retryCall EXCEPT ![t] = IF failed = {} THEN [state |-> "refused"]
                                    ELSE [retryCall[t] EXCEPT !.state = "read", !.ids = failed]]
        /\ retryCall[t].state = "sent" /\ UNCHANGED Views!bounds
    BY <1>3, <2>1 DEF Views!ReadFailed
  <2>3. /\ retryCall[t].ids \in SUBSET Views!Attempt /\ retryCall[t].lists \in SUBSET Views!Lists
        /\ retryCall[t] = [state |-> "sent", ids |-> retryCall[t].ids, lists |-> retryCall[t].lists]
    BY <1>1, <2>2, CallType
  <2>4. [retryCall[t] EXCEPT !.state = "read", !.ids = failed]
          = [state |-> "read", ids |-> failed, lists |-> retryCall[t].lists]
    <3>1. PICK mid : mid = [retryCall[t] EXCEPT !.state = "read"]
      OBVIOUS
    <3>2. mid = [state |-> "read", ids |-> retryCall[t].ids, lists |-> retryCall[t].lists]
      BY <2>3, <3>1
    <3>3. [mid EXCEPT !.ids = failed]
            = [state |-> "read", ids |-> failed, lists |-> retryCall[t].lists]
      BY <3>2
    <3> QED BY <3>1, <3>3
  <2>5. [state |-> "read", ids |-> failed, lists |-> retryCall[t].lists] \in RetryCalls
        /\ [state |-> "refused"] \in RetryCalls
    BY <2>1, <2>3 DEF RetryCalls
  <2>6. retryCall' \in [Tab -> RetryCalls]
    BY <1>1, <2>2, <2>4, <2>5
  <2> QED BY <1>1, <2>2, <2>6 DEF CallsOK, Views!bounds
<1>4. ASSUME NEW t \in Tab,
             Views!ResetFailed(t)
      PROVE  CallsOK'
  <2>1. /\ retryCall' = [retryCall EXCEPT ![t].state = "reset"]
        /\ retryCall[t].state = "read" /\ UNCHANGED Views!bounds
    BY <1>4 DEF Views!ResetFailed
  <2>2. /\ retryCall[t].ids \in SUBSET Views!Attempt /\ retryCall[t].lists \in SUBSET Views!Lists
        /\ retryCall[t] = [state |-> "read", ids |-> retryCall[t].ids, lists |-> retryCall[t].lists]
    BY <1>1, <2>1, CallType
  <2>3. [retryCall[t] EXCEPT !.state = "reset"]
          = [state |-> "reset", ids |-> retryCall[t].ids, lists |-> retryCall[t].lists]
    BY <2>2
  <2>4. [state |-> "reset", ids |-> retryCall[t].ids, lists |-> retryCall[t].lists] \in RetryCalls
    BY <2>2 DEF RetryCalls
  <2>5. retryCall' \in [Tab -> RetryCalls]
    BY <1>1, <2>1, <2>3, <2>4
  <2> QED BY <1>1, <2>1, <2>5 DEF CallsOK, Views!bounds
<1>5. ASSUME NEW t \in Tab,
             Views!StartWorkflow(t)
      PROVE  CallsOK'
  <2>1. retryCall[t].lists \in SUBSET Views!Lists
    BY <1>1, <1>5, CallType DEF Views!StartWorkflow
  <2>2. [state |-> "queued", lists |-> retryCall[t].lists] \in RetryCalls
        /\ [state |-> "refused"] \in RetryCalls
    BY <2>1 DEF RetryCalls
  <2>3. retryCall' \in [Tab -> RetryCalls]
    BY <1>1, <1>5, <2>2 DEF Views!StartWorkflow
  <2>4. viewFaults' \in 0..MaxFaults /\ UNCHANGED <<retries, moves>>
    BY <1>1, <1>5 DEF Views!StartWorkflow
  <2> QED BY <1>1, <2>3, <2>4 DEF CallsOK
<1>6. ASSUME NEW t \in Tab,
             Views!TakeAnswer(t)
      PROVE  CallsOK'
  <2>1. retryCall' \in [Tab -> RetryCalls]
    BY <1>1, <1>6 DEF Views!TakeAnswer, RetryCalls
  <2> QED BY <1>1, <1>6, <2>1 DEF Views!TakeAnswer, CallsOK, Views!bounds
<1>7. ASSUME NEW t \in Tab,
             Views!SelectList(t) \/ Views!Turn(t) \/ Views!OpenAttempt(t) \/ Views!Focus(t)
      PROVE  CallsOK'
  <2>1. moves' \in 0..MaxMoves /\ UNCHANGED <<retryCall, retries, viewFaults>>
    BY <1>1, <1>7 DEF Views!SelectList, Views!Turn, Views!OpenAttempt, Views!Focus, Views!Read
  <2> QED BY <1>1, <2>1 DEF CallsOK
<1>8. ASSUME NEW t \in Tab,
             Views!RepeatRead(t) \/ Views!FailRead(t)
      PROVE  CallsOK'
  <2>1. viewFaults' \in 0..MaxFaults /\ UNCHANGED <<retryCall, retries, moves>>
    BY <1>1, <1>8 DEF Views!RepeatRead, Views!FailRead
  <2> QED BY <1>1, <2>1 DEF CallsOK
<1>9. ASSUME NEW t \in Tab,
             Views!Browse(t) \/ Views!Poll(t) \/ Views!EndRead(t) \/ Views!TryAgain(t)
      PROVE  UNCHANGED <<retryCall, Views!bounds>>
  BY <1>9 DEF Views!Browse, Views!Poll, Views!Read, Views!EndRead, Views!TryAgain, Views!bounds
<1>10. ASSUME NEW a \in Views!Attempt, Views!Finish(a) \/ Views!Age(a)
       PROVE  UNCHANGED <<retryCall, Views!bounds>>
  BY <1>10 DEF Views!Finish, Views!Age
<1>11. CASE UNCHANGED <<retryCall, Views!bounds>>
  BY <1>1, <1>11 DEF CallsOK, Views!bounds
<1> QED BY <1>2, <1>3, <1>4, <1>5, <1>6, <1>7, <1>8, <1>9, <1>10, <1>11 DEF Views!Next

LEMMA StrandedStep ==
    ASSUME Views!IngestAssumption,
           ServerOK, PagesOK, CallsOK, NoAttemptIsStranded, Views!Next
    PROVE  NoAttemptIsStranded'
<1>1. retryCall \in [Tab -> RetryCalls] /\ viewFaults \in Nat
  BY DEF Views!IngestAssumption, CallsOK
<1>2. ASSUME NEW t \in Tab,
             Views!Retry(t) \/ Views!RetryOfRun(t) \/ Views!ReadFailed(t) \/ Views!TakeAnswer(t)
      PROVE  NoAttemptIsStranded'
  <2>1. /\ UNCHANGED <<status, workflows, viewFaults>> /\ retryCall[t].state # "reset"
        /\ \A u \in Tab \ {t} : retryCall'[u] = retryCall[u]
    BY <1>1, <1>2 DEF Views!Retry, Views!RetryOfRun, Views!CanRetry, Views!ReadFailed,
       Views!TakeAnswer, Views!Send, Views!Idle, Views!bounds
  <2> QED BY <2>1 DEF NoAttemptIsStranded
<1>3. ASSUME NEW t \in Tab,
             Views!ResetFailed(t)
      PROVE  NoAttemptIsStranded'
  <2>1. /\ status' = [a \in Views!Attempt |->
                        IF a \in retryCall[t].ids THEN "in_flight" ELSE status[a]]
        /\ UNCHANGED <<workflows, viewFaults>>
        /\ retryCall[t].state = "read"
        /\ retryCall' = [retryCall EXCEPT ![t].state = "reset"]
    BY <1>3 DEF Views!ResetFailed, Views!bounds
  <2>2. retryCall[t] = [state |-> "read", ids |-> retryCall[t].ids, lists |-> retryCall[t].lists]
    BY <1>1, <2>1, CallType
  <2>3. retryCall'[t].state = "reset" /\ retryCall'[t].ids = retryCall[t].ids
    BY <1>1, <2>1, <2>2
  <2>4. \A u \in Tab \ {t} : retryCall'[u] = retryCall[u]
    BY <1>1, <2>1
  <2> QED BY <2>1, <2>3, <2>4 DEF NoAttemptIsStranded
<1>4. ASSUME NEW t \in Tab,
             Views!StartWorkflow(t)
      PROVE  NoAttemptIsStranded'
  <2>1. CASE viewFaults' = viewFaults + 1
    BY <1>1, <2>1 DEF NoAttemptIsStranded
  <2>2. CASE workflows' = [a \in Views!Attempt |->
                                workflows[a] + (IF a \in retryCall[t].ids THEN 1 ELSE 0)]
             /\ UNCHANGED viewFaults
    <3>1. /\ \A a \in Views!Attempt : workflows'[a] >= workflows[a]
          /\ \A a \in retryCall[t].ids \cap Views!Attempt : workflows'[a] > 0
      BY <2>2 DEF ServerOK
    <3>2. UNCHANGED status /\ \A u \in Tab \ {t} : retryCall'[u] = retryCall[u]
      BY <1>1, <1>4 DEF Views!StartWorkflow
    <3>3. \A a \in Views!Attempt : workflows[a] \in Nat /\ workflows'[a] \in Nat
      BY <2>2 DEF ServerOK
    <3> QED BY <2>2, <3>1, <3>2, <3>3 DEF NoAttemptIsStranded
  <2> QED BY <1>4, <2>1, <2>2 DEF Views!StartWorkflow
<1>5. ASSUME NEW a \in Views!Attempt, Views!Finish(a)
      PROVE  NoAttemptIsStranded'
  <2>1. /\ workflows' = [workflows EXCEPT ![a] = @ - 1]
        /\ status'[a] # "in_flight"
        /\ \A b \in Views!Attempt \ {a} : status'[b] = status[b]
        /\ UNCHANGED <<retryCall, viewFaults>>
    BY <1>5 DEF Views!Finish, ServerOK, Views!bounds
  <2>2. \A b \in Views!Attempt \ {a} : workflows'[b] = workflows[b]
    BY <2>1 DEF ServerOK
  <2> QED BY <2>1, <2>2 DEF NoAttemptIsStranded
<1>6. ASSUME NEW a \in Views!Attempt, Views!Age(a)
      PROVE  UNCHANGED <<status, workflows, retryCall, viewFaults>>
  BY <1>6 DEF Views!Age, Views!bounds
<1>7. ASSUME NEW t \in Tab,
             Views!SelectList(t) \/ Views!Turn(t) \/ Views!OpenAttempt(t) \/ Views!Focus(t)
      PROVE  UNCHANGED <<status, workflows, retryCall, viewFaults>>
  BY <1>7 DEF Views!SelectList, Views!Turn, Views!OpenAttempt, Views!Focus, Views!Read
<1>8. ASSUME NEW t \in Tab,
             Views!Browse(t) \/ Views!Poll(t) \/ Views!EndRead(t) \/ Views!TryAgain(t)
      PROVE  UNCHANGED <<status, workflows, retryCall, viewFaults>>
  BY <1>8 DEF Views!Browse, Views!Poll, Views!Read, Views!EndRead, Views!TryAgain, Views!bounds
<1>9. ASSUME NEW t \in Tab,
             Views!RepeatRead(t) \/ Views!FailRead(t)
      PROVE  NoAttemptIsStranded'
  <2>1. viewFaults' > 0
    BY <1>1, <1>9 DEF Views!RepeatRead, Views!FailRead
  <2> QED BY <2>1 DEF NoAttemptIsStranded
<1>10. CASE UNCHANGED <<status, workflows, retryCall, viewFaults>>
  BY <1>10 DEF NoAttemptIsStranded
<1> QED BY <1>2, <1>3, <1>4, <1>5, <1>6, <1>7, <1>8, <1>9, <1>10 DEF Views!Next

\* Fewer calls that try an attempt keep what has been pressed for.
LEMMA FewerTry ==
    ASSUME Views!IngestAssumption,
           ServerOK, ServerOK', CallsOK, CallsOK', WorkflowsPressed, NEW a \in Views!Attempt,
           Trying(a)' \subseteq Trying(a), workflows'[a] <= workflows[a], retries <= retries'
    PROVE  IsFiniteSet(Trying(a)') /\ workflows'[a] + Cardinality(Trying(a)') <= retries' + 1
<1>1. PICK S, T : S = Trying(a) /\ T = Trying(a)'
  OBVIOUS
<1>2. IsFiniteSet(S) /\ workflows[a] + Cardinality(S) <= retries + 1
  BY <1>1 DEF WorkflowsPressed
<1>3. IsFiniteSet(T) /\ Cardinality(T) <= Cardinality(S)
  BY <1>1, <1>2, FS_Subset
<1>4. Cardinality(S) \in Nat /\ Cardinality(T) \in Nat
  BY <1>2, <1>3, FS_CardinalityType
<1>5. workflows[a] \in Nat /\ workflows'[a] \in Nat /\ retries \in Nat /\ retries' \in Nat
  BY DEF Views!IngestAssumption, ServerOK, CallsOK
<1> QED BY <1>1, <1>2, <1>3, <1>4, <1>5

LEMMA PressedStep ==
    ASSUME Views!IngestAssumption,
           ServerOK, ServerOK', PagesOK, PagesShowTheirOwn, CallsOK, CallsOK', WorkflowsPressed,
           Views!Next
    PROVE  WorkflowsPressed'
<1>1. retryCall \in [Tab -> RetryCalls] /\ retries \in Nat /\ retries' \in Nat
      /\ \A a \in Views!Attempt : workflows[a] \in Nat
  BY DEF Views!IngestAssumption, CallsOK, ServerOK
<1>2. ASSUME NEW a \in Views!Attempt
      PROVE  IsFiniteSet(Trying(a)') /\ workflows'[a] + Cardinality(Trying(a)') <= retries' + 1
  <2> DEFINE P == IsFiniteSet(Trying(a)')
                  /\ workflows'[a] + Cardinality(Trying(a)') <= retries' + 1
  <2>1. IsFiniteSet(Trying(a)) /\ workflows[a] + Cardinality(Trying(a)) <= retries + 1
        /\ Cardinality(Trying(a)) \in Nat
    BY FS_CardinalityType DEF WorkflowsPressed
  <2>2. CASE Trying(a)' \subseteq Trying(a) /\ workflows'[a] <= workflows[a] /\ retries <= retries'
    BY <2>2, FewerTry
  <2> HIDE DEF P
  <2>3. ASSUME NEW t \in Tab,
               Views!Retry(t) \/ Views!RetryOfRun(t)
        PROVE  P
    <3>1. /\ UNCHANGED workflows /\ retries' = retries + 1
          /\ \A u \in Tab \ {t} : retryCall'[u] = retryCall[u]
      BY <1>1, <2>3 DEF Views!Retry, Views!RetryOfRun, Views!CanRetry, Views!Send
    <3>2. CASE Trying(a)' \subseteq Trying(a)
      <4>1. workflows'[a] <= workflows[a] /\ retries <= retries'
        BY <1>1, <3>1
      <4> QED BY <2>2, <3>2, <4>1 DEF P
    <3>3. CASE Trying(a)' = Trying(a) \cup {t}
      <4>1. PICK S : S = Trying(a)
        OBVIOUS
      <4>2. /\ IsFiniteSet(S \cup {t}) /\ Cardinality(S) \in Nat
            /\ Cardinality(S \cup {t}) <= Cardinality(S) + 1
            /\ Cardinality(S \cup {t}) \in Nat
        <5>1. IsFiniteSet(S) /\ Cardinality(S) \in Nat
          BY <2>1, <4>1
        <5>2. /\ IsFiniteSet(S \cup {t})
              /\ \/ Cardinality(S \cup {t}) = Cardinality(S)
                 \/ Cardinality(S \cup {t}) = Cardinality(S) + 1
          BY <5>1, FS_AddElement, Zenon
        <5> QED BY <5>1, <5>2
      <4> QED BY <1>1, <2>1, <3>1, <3>3, <4>1, <4>2, SMTT(30) DEF P
    <3>4. Trying(a)' \subseteq Trying(a) \/ Trying(a)' = Trying(a) \cup {t}
      BY <3>1 DEF Trying
    <3> QED BY <3>2, <3>3, <3>4
  <2>4. ASSUME NEW t \in Tab,
               Views!StartWorkflow(t)
        PROVE  P
    <3>1. /\ retryCall[t].state = "reset" /\ UNCHANGED retries
          /\ retryCall'[t].state \in {"queued", "refused"}
          /\ \A u \in Tab \ {t} : retryCall'[u] = retryCall[u]
      BY <1>1, <2>4 DEF Views!StartWorkflow
    <3>2. Trying(a)' = Trying(a) \ {t}
      BY <3>1 DEF Trying
    <3>3. CASE workflows'[a] <= workflows[a]
      BY <1>1, <2>2, <3>1, <3>2, <3>3 DEF P
    <3>4. CASE workflows'[a] = workflows[a] + 1 /\ a \in retryCall[t].ids
      <4>1. PICK S : S = Trying(a)
        OBVIOUS
      <4>2. t \in S
        BY <3>1, <3>4, <4>1 DEF Trying
      <4>3. IsFiniteSet(S \ {t}) /\ Cardinality(S \ {t}) = Cardinality(S) - 1
        BY <2>1, <4>1, <4>2, FS_RemoveElement
      <4> QED BY <1>1, <2>1, <3>1, <3>2, <3>4, <4>1, <4>3 DEF P
    <3>5. \/ workflows'[a] = workflows[a]
          \/ workflows'[a] = workflows[a] + 1 /\ a \in retryCall[t].ids
      <4>1. CASE UNCHANGED workflows
        BY <4>1
      <4>2. CASE workflows' = [b \in Views!Attempt |->
                                  workflows[b] + (IF b \in retryCall[t].ids THEN 1 ELSE 0)]
        BY <1>1, <4>2
      <4> QED BY <2>4, <4>1, <4>2 DEF Views!StartWorkflow
    <3>6. workflows'[a] = workflows[a] => workflows'[a] <= workflows[a]
      BY <1>1
    <3> QED BY <3>3, <3>4, <3>5, <3>6
  <2>5. ASSUME NEW t \in Tab,
               Views!ReadFailed(t) \/ Views!ResetFailed(t) \/ Views!TakeAnswer(t)
        PROVE  Trying(a)' \subseteq Trying(a) /\ UNCHANGED <<workflows, retries>>
    <3>1. /\ UNCHANGED <<workflows, retries>>
          /\ \A u \in Tab \ {t} : retryCall'[u] = retryCall[u]
      BY <1>1, <2>5 DEF Views!ReadFailed, Views!ResetFailed, Views!TakeAnswer, Views!bounds
    <3>2. t \in Trying(a)' => t \in Trying(a)
      <4>1. CASE Views!ReadFailed(t)
        <5>1. retryCall[t].state = "sent"
          BY <4>1 DEF Views!ReadFailed
        <5>2. retryCall[t]
                = [state |-> "sent", ids |-> retryCall[t].ids, lists |-> retryCall[t].lists]
          BY <1>1, <5>1, CallType
        <5>3. PICK failed : failed = {b \in retryCall[t].ids : status[b] = "failed"}
          OBVIOUS
        <5>4. retryCall'[t] = IF failed = {} THEN [state |-> "refused"]
                         ELSE [retryCall[t] EXCEPT !.state = "read", !.ids = failed]
          BY <1>1, <4>1, <5>3 DEF Views!ReadFailed
        <5>5. retryCall'[t].state = "refused" \/ retryCall'[t].ids = failed
          BY <5>2, <5>4
        <5> QED BY <5>1, <5>3, <5>5 DEF Trying
      <4>2. CASE Views!ResetFailed(t)
        <5>1. retryCall[t].state = "read"
          BY <4>2 DEF Views!ResetFailed
        <5>2. retryCall[t]
                = [state |-> "read", ids |-> retryCall[t].ids, lists |-> retryCall[t].lists]
          BY <1>1, <5>1, CallType
        <5>3. retryCall'[t].ids = retryCall[t].ids
          BY <1>1, <4>2, <5>2 DEF Views!ResetFailed
        <5> QED BY <5>1, <5>3 DEF Trying
      <4>3. CASE Views!TakeAnswer(t)
        <5>1. retryCall'[t].state = "idle"
          BY <1>1, <4>3 DEF Views!TakeAnswer, Views!Idle
        <5> QED BY <5>1 DEF Trying
      <4> QED BY <2>5, <4>1, <4>2, <4>3
    <3> QED BY <3>1, <3>2 DEF Trying
  <2>6. ASSUME NEW b \in Views!Attempt, Views!Finish(b)
        PROVE  UNCHANGED <<retryCall, retries>> /\ workflows'[a] <= workflows[a]
    <3>1. workflows' = [workflows EXCEPT ![b] = @ - 1] /\ UNCHANGED <<retryCall, retries>>
      BY <2>6 DEF Views!Finish, Views!bounds
    <3> QED BY <1>1, <3>1 DEF ServerOK
  <2>7. ASSUME NEW b \in Views!Attempt, Views!Age(b)
        PROVE  UNCHANGED <<retryCall, retries, workflows>>
    BY <2>7 DEF Views!Age, Views!bounds
  <2>8. ASSUME NEW t \in Tab,
               Views!SelectList(t) \/ Views!Turn(t) \/ Views!OpenAttempt(t) \/ Views!Focus(t)
        PROVE  UNCHANGED <<retryCall, retries, workflows>>
    BY <2>8 DEF Views!SelectList, Views!Turn, Views!OpenAttempt, Views!Focus, Views!Read
  <2>9. ASSUME NEW t \in Tab,
               \/ Views!Browse(t) \/ Views!Poll(t) \/ Views!EndRead(t) \/ Views!RepeatRead(t)
               \/ Views!FailRead(t) \/ Views!TryAgain(t)
        PROVE  UNCHANGED <<retryCall, retries, workflows>>
    BY <2>9 DEF Views!Browse, Views!Poll, Views!Read, Views!EndRead, Views!RepeatRead,
       Views!FailRead, Views!TryAgain, Views!bounds
  <2>10. UNCHANGED retryCall => Trying(a)' = Trying(a)
    BY DEF Trying
  <2>11. UNCHANGED retries => retries <= retries'
    BY <1>1
  <2>12. UNCHANGED workflows => workflows'[a] <= workflows[a]
    BY <1>1
  <2>13. P
    BY <2>2, <2>3, <2>4, <2>5, <2>6, <2>7, <2>8, <2>9, <2>10, <2>11, <2>12 DEF Views!Next, P
  <2> QED BY <2>13 DEF P
<1> QED BY <1>2 DEF WorkflowsPressed

----------------------------------------------------------------------------
LEMMA InitViews == Views!IngestAssumption => (Views!Init => ViewsIInv)
<1> SUFFICES ASSUME Views!IngestAssumption, Views!Init
             PROVE  ViewsIInv
  OBVIOUS
<1> USE DEF Views!IngestAssumption
<1>1. ServerOK
  BY DEF Views!Init, ServerOK, Views!Status
<1>2. \A t \in Tab : key[t] \in Keys
  <2>1. Opened \subseteq Keys
    BY DEF Keys
  <2> QED BY <2>1 DEF Views!Init
<1>3. \A t \in Tab : data[t] = Views!Answer(key[t])
  BY DEF Views!Init
<1>4. \A t \in Tab : data[t] \in Answers /\ data[t].key = key[t]
  BY <1>1, <1>2, <1>3, AnswerType
<1>5. PagesOK
  <2>1. key \in [Tab -> Keys] /\ reads \in [Tab -> SUBSET Answers]
        /\ broken \in [Tab -> SUBSET Keys] /\ open \in [Tab -> 0..ITEMS_PAGE_SIZE]
    BY <1>2 DEF Views!Init
  <2>2. data \in [Tab -> Answers \cup {Views!NoData}]
    BY <1>4 DEF Views!Init
  <2> QED BY <2>1, <2>2 DEF PagesOK
<1>6. PagesShowTheirOwn /\ NoPageWaits
  BY <1>4 DEF PagesShowTheirOwn, ShowsItsOwn, NoPageWaits
<1>7. CallsOK
  BY DEF Views!Init, CallsOK, RetryCalls
<1>8. NoAttemptIsStranded
  BY DEF Views!Init, NoAttemptIsStranded
<1>9. WorkflowsPressed
  <2>1. SUFFICES ASSUME NEW a \in Views!Attempt
                 PROVE  /\ IsFiniteSet(Trying(a))
                        /\ workflows[a] + Cardinality(Trying(a)) <= retries + 1
    BY DEF WorkflowsPressed
  <2>2. Trying(a) = {}
    BY DEF Views!Init, Trying, Views!Idle
  <2>3. workflows[a] \in {0, 1} /\ retries = 0
    BY DEF Views!Init
  <2> QED BY <2>2, <2>3, FS_EmptySet
<1> QED BY <1>1, <1>5, <1>6, <1>7, <1>8, <1>9 DEF ViewsIInv

LEMMA NextViews ==
    ASSUME Views!IngestAssumption,
           ViewsIInv, [Views!Next]_(Views!vars)
    PROVE  ViewsIInv'
<1>1. CASE Views!Next
  <2>1. ServerOK' /\ CallsOK'
    BY <1>1, ServerStep, CallsStep DEF ViewsIInv
  <2> QED BY <1>1, <2>1, PagesStep, StrandedStep, PressedStep DEF ViewsIInv
<1>2. CASE UNCHANGED Views!vars
  <2> USE <1>2 DEF Views!vars, Views!view, Views!bounds
  <2>1. ServerOK' /\ PagesOK' /\ CallsOK'
    BY DEF ViewsIInv, ServerOK, PagesOK, CallsOK
  <2>2. PagesShowTheirOwn' /\ NoPageWaits'
    BY DEF ViewsIInv, PagesShowTheirOwn, ShowsItsOwn, NoPageWaits, Told, Views!Fetching
  <2>3. NoAttemptIsStranded' /\ WorkflowsPressed'
    BY DEF ViewsIInv, NoAttemptIsStranded, WorkflowsPressed, Trying
  <2> QED BY <2>1, <2>2, <2>3 DEF ViewsIInv
<1> QED BY <1>1, <1>2

LEMMA ViewsTypes == Views!IngestAssumption => (ViewsIInv => Views!TypeOK)
<1> SUFFICES ASSUME Views!IngestAssumption, ViewsIInv
             PROVE  Views!TypeOK
  OBVIOUS
<1> USE DEF Views!IngestAssumption
<1>1. ServerOK /\ PagesOK /\ CallsOK /\ WorkflowsPressed /\ PagesShowTheirOwn
  BY DEF ViewsIInv
<1>2. workflows \in [Views!Attempt -> 0..(MaxRetries + 1)]
  <2>1. ASSUME NEW a \in Views!Attempt
        PROVE  workflows[a] \in 0..(MaxRetries + 1)
    <3>1. /\ Cardinality(Trying(a)) \in Nat /\ workflows[a] \in Nat
          /\ workflows[a] + Cardinality(Trying(a)) <= retries + 1 /\ retries \in 0..MaxRetries
      BY <1>1, FS_CardinalityType DEF WorkflowsPressed, ServerOK, CallsOK
    <3> QED BY <3>1
  <2> QED BY <1>1, <2>1 DEF ServerOK
<1>3. ASSUME NEW t \in Tab
      PROVE  key[t].list \in Views!Lists \cup {"attempt"} /\ key[t].offset \in 0..Attempts
  <2>1. key[t] \in Keys
    BY <1>1 DEF PagesOK
  <2>2. Views!Attempt \subseteq 0..Attempts
    BY DEF Views!Attempt
  <2> QED BY <2>1, <2>2, KeyType
<1>4. ASSUME NEW t \in Tab
      PROVE  Len(data[t].rows) <= Attempts /\ open[t] \in 0..ITEMS_PAGE_SIZE
  BY <1>1, ShownType DEF PagesOK, PagesShowTheirOwn
<1>5. ASSUME NEW t \in Tab
      PROVE  retryCall[t].state \in {"idle", "sent", "read", "reset", "queued", "refused"}
  BY <1>1, CallType DEF CallsOK
<1>6. ASSUME NEW t \in Tab, NEW k \in broken[t]
      PROVE  k.list \in Views!Lists \cup {"attempt"}
  <2>1. k \in Keys
    BY <1>1 DEF PagesOK
  <2> QED BY <2>1, KeyType
<1> QED BY <1>1, <1>2, <1>3, <1>4, <1>5, <1>6 DEF Views!TypeOK, ServerOK, CallsOK

\* Every variable of the pages keeps its type; in particular no attempt has more
\* workflows than retries were pressed for it.
THEOREM ViewsTypeCorrect ==
    ASSUME Views!IngestAssumption
    PROVE  Views!Spec => []Views!TypeOK
BY InitViews, NextViews, ViewsTypes, PTL DEF Views!Spec

\* However late an answer comes, a page shows it only where it belongs: the page of an
\* attempt never shows another attempt and no list the rows of a different one (the query
\* keys of the pages and the placeholder rows of their lists).
THEOREM PagesShowTheirOwnCorrect ==
    ASSUME Views!IngestAssumption
    PROVE  Views!Spec => [](PagesShowTheirOwn /\ AttemptIsItsOwn)
<1>1. ViewsIInv => PagesShowTheirOwn /\ AttemptIsItsOwn
  <2>1. SUFFICES ASSUME ViewsIInv, NEW t \in Tab, key[t].list = "attempt",
                        NEW n \in DOMAIN data[t].rows
                 PROVE  data[t].rows[n].id = key[t].offset
    BY DEF ViewsIInv, AttemptIsItsOwn
  <2>2. data[t] = Views!NoData \/ data[t].key = key[t]
    BY <2>1 DEF ViewsIInv, PagesShowTheirOwn, ShowsItsOwn, Views!Lists, Views!Galleries
  <2>3. data[t] # Views!NoData
    <3>1. DOMAIN Views!NoData.rows = {}
      BY DEF Views!NoData
    <3> QED BY <2>1, <3>1
  <2>4. data[t] \in Answers
    <3>1. data[t] \in Answers \cup {Views!NoData}
      BY <2>1 DEF ViewsIInv, PagesOK
    <3> QED BY <2>3, <3>1
  <2>5. /\ data[t].rows \in Seq(Rows) /\ Len(data[t].rows) = 1
        /\ data[t].rows[1].id = data[t].key.offset
    BY <2>1, <2>2, <2>3, <2>4 DEF Answers
  <2>6. n = 1
    BY <2>1, <2>5
  <2> QED BY <2>2, <2>3, <2>5, <2>6
<1> QED BY InitViews, NextViews, <1>1, PTL DEF Views!Spec

\* No page shows its spinner or rows of the page before while nothing is read for it,
\* whatever is moved to, retried, lost or overtaken meanwhile: unless its read failed in
\* the end, which the error page or the empty list of items tells, a read is under way
\* (the queries of the four pages and their throwOnError).
THEOREM NoPageWaitsCorrect ==
    ASSUME Views!IngestAssumption
    PROVE  Views!Spec => []NoPageWaits
<1>1. ViewsIInv => NoPageWaits
  BY DEF ViewsIInv
<1> QED BY InitViews, NextViews, <1>1, PTL DEF Views!Spec

\* A retry puts an attempt back under way before its workflow starts: as long as nothing
\* fails (a start that does leaves it so), no interleaving of retries and workflows
\* leaves an attempt under way that nothing will end (retry of the ingest API).
THEOREM NoAttemptIsStrandedCorrect ==
    ASSUME Views!IngestAssumption
    PROVE  Views!Spec => []NoAttemptIsStranded
<1>1. ViewsIInv => NoAttemptIsStranded
  BY DEF ViewsIInv
<1> QED BY InitViews, NextViews, <1>1, PTL DEF Views!Spec
=============================================================================

----------------------------- MODULE ImageIngest -----------------------------
(***************************************************************************)
(* The dialog that queues images for ingest and the detail of a queued     *)
(* job.  One submission sends the addresses in one call and then every     *)
(* chosen file in a call of its own; the form is cleared and the jobs are  *)
(* listed only when all have been answered.  Each call makes a job row,    *)
(* starts its workflow, records the workflow and marks the job as running, *)
(* in four steps of the API that may fail between any two.                 *)
(*                                                                         *)
(* Two different things are never the same address or file; the dataset    *)
(* and the tags go with every call and are left out, as is leaving the     *)
(* page, which forgets the dialog.                                         *)
(***************************************************************************)
EXTENDS Naturals, FiniteSets

CONSTANTS
    Url,
    File,
    MaxJobs,   \* bound: jobs ever made
    MaxEdits,  \* bound: changes of the form
    MaxFaults  \* bound: calls, reads and workflows that fail

ASSUME ImageIngestAssumption ==
    /\ Url \cap File = {}
    /\ MaxJobs \in Nat
    /\ MaxEdits \in Nat
    /\ MaxFaults \in Nat

Item == Url \cup File
Job == 1..MaxJobs

VARIABLES
    urls,     \* the addresses in the form
    files,    \* the files in the form
    call,     \* the submission
    results,  \* the jobs the dialog lists as queued
    jobs,     \* the rows of the jobs
    flow,     \* the workflow of each job
    chip,     \* the job whose detail is open, and whether it is to be read
    seen,     \* of each job: the status its detail has last been given
    offered,  \* history: what the last submission found in the form and the
              \* user has not taken out since
    edits,    \* changes of the form so far
    faults    \* faults so far

form == <<urls, files, offered, edits>>
dialog == <<call, results>>
server == <<jobs, flow>>
detail == <<chip, seen>>
vars == <<form, dialog, server, detail, faults>>

----------------------------------------------------------------------------
\* (mutant) A job that runs is not polled.
PENDINGOnly == {"PENDING"}

\* The statuses for which the detail goes on polling.
ACTIVE == {"PENDING", "RUNNING"}

NoJob == [status |-> "none", items |-> {}]
Idle == [step |-> "idle", batch |-> {}, todo |-> {}, queued |-> {}, job |-> 0]
Made == {j \in Job : jobs[j].status # "none"}

Init ==
    /\ urls = {}
    /\ files = {}
    /\ call = Idle
    /\ results = {}
    /\ jobs = [j \in Job |-> NoJob]
    /\ flow = [j \in Job |-> "none"]
    /\ chip = [job |-> 0, due |-> FALSE]
    /\ seen = [j \in Job |-> "unread"]
    /\ offered = {}
    /\ edits = 0
    /\ faults = 0

Edit == edits < MaxEdits /\ edits' = edits + 1
Fault == faults < MaxFaults /\ faults' = faults + 1

----------------------------------------------------------------------------
\* The form; nothing of it is locked while a submission is under way.
TypeUrls ==
    /\ Edit
    /\ \E u \in Url : urls' = IF u \in urls THEN urls \ {u} ELSE urls \cup {u}
    /\ offered' = offered \ (urls \ urls')
    /\ UNCHANGED <<files, dialog, server, detail, faults>>

AddFile ==
    /\ Edit
    /\ \E f \in File \ files : files' = files \cup {f}
    /\ UNCHANGED <<urls, offered, dialog, server, detail, faults>>

RemoveFile ==
    /\ Edit
    /\ \E f \in files : files' = files \ {f} /\ offered' = offered \ {f}
    /\ UNCHANGED <<urls, dialog, server, detail, faults>>

\* The next call of a submission that has sent nothing yet or has been answered.
Send(c) ==
    IF c.batch = {} /\ urls # {}
    THEN call' = [c EXCEPT !.step = "asked", !.batch = urls]
    ELSE \E f \in c.todo : call' = [c EXCEPT !.step = "asked", !.batch = {f}, !.todo = @ \ {f}]

Submit ==
    /\ call.step = "idle"
    /\ urls \cup files # {}
    /\ Send([Idle EXCEPT !.todo = files])
    /\ offered' = urls \cup files
    /\ UNCHANGED <<urls, files, edits, results, server, detail, faults>>

----------------------------------------------------------------------------
\* The API.
CreateJob ==
    /\ call.step = "asked"
    /\ \E j \in Job \ Made :
          /\ \A i \in Job \ Made : j <= i
          /\ jobs' = [jobs EXCEPT ![j] = [status |-> "PENDING", items |-> call.batch]]
          /\ call' = [call EXCEPT !.step = "created", !.job = j]
    /\ UNCHANGED <<form, results, flow, detail, faults>>

StartWorkflow ==
    /\ call.step = "created"
    /\ flow' = [flow EXCEPT ![call.job] = "running"]
    /\ call' = [call EXCEPT !.step = "started"]
    /\ UNCHANGED <<form, results, jobs, detail, faults>>

\* The id of the workflow is recorded, which only a cancellation reads; then the
\* job is marked as running, whatever its status has become.
MarkRunning ==
    /\ call.step = "started"
    /\ jobs' = [jobs EXCEPT ![call.job].status = "RUNNING"]
    /\ call' = [call EXCEPT !.step = "answered"]
    /\ UNCHANGED <<form, results, flow, detail, faults>>

\* The call fails before any of its steps, or its answer is lost.
FailCall ==
    /\ call.step \in {"asked", "created", "started", "answered"}
    /\ Fault
    /\ call' = [call EXCEPT !.step = "failed"]
    /\ UNCHANGED <<form, results, server, detail>>

\* The workflow has been through the images and ends the job, as completed or as
\* failed, which are one here.
Finish(j) ==
    /\ flow[j] = "running"
    /\ jobs' = [jobs EXCEPT ![j].status = "COMPLETED"]
    /\ flow' = [flow EXCEPT ![j] = "ended"]
    /\ UNCHANGED <<form, dialog, detail, faults>>

\* Its last activity gives up after five attempts.
GiveUp(j) ==
    /\ flow[j] = "running"
    /\ Fault
    /\ flow' = [flow EXCEPT ![j] = "ended"]
    /\ UNCHANGED <<form, dialog, jobs, detail>>

----------------------------------------------------------------------------
\* (mutant) The form is cleared as soon as a call is answered.
ClearsEarly ==
    /\ call.step = "answered"
    /\ LET done == [call EXCEPT !.queued = @ \cup {call.job}] IN
       IF call.todo # {}
       THEN Send(done) /\ urls' = {} /\ files' = {} /\ UNCHANGED results
       ELSE /\ call' = [done EXCEPT !.step = "queued"]
            /\ results' = results \cup done.queued
            /\ urls' = {}
            /\ files' = {}
    /\ UNCHANGED <<offered, edits, server, detail, faults>>

\* One call is answered: the next file, or all are queued, and the form is cleared
\* of whatever is in it by now.
TakeAnswer ==
    /\ call.step = "answered"
    /\ LET done == [call EXCEPT !.queued = @ \cup {call.job}] IN
       IF call.todo # {}
       THEN Send(done) /\ UNCHANGED <<results, urls, files>>
       ELSE /\ call' = [done EXCEPT !.step = "queued"]
            /\ results' = results \cup done.queued
            /\ urls' = {}
            /\ files' = {}
    /\ UNCHANGED <<offered, edits, server, detail, faults>>

\* The list of images has been loaded again.
Settle ==
    /\ call.step = "queued"
    /\ call' = Idle
    /\ UNCHANGED <<form, results, server, detail, faults>>

\* The rest is not sent; what has been queued is not listed, the form stays.
TakeFailure ==
    /\ call.step = "failed"
    /\ call' = Idle
    /\ UNCHANGED <<form, results, server, detail, faults>>

----------------------------------------------------------------------------
\* (mutant) The detail is offered for a job that may not exist yet.
OpenChipAny ==
    /\ chip.job = 0
    /\ \E j \in Job : chip' = [job |-> j, due |-> TRUE]
    /\ UNCHANGED <<form, dialog, server, seen, faults>>

\* The detail of a job, read when it is opened and then while the job it shows is
\* active.  A read that fails after its repetitions leaves what it had, or an error
\* that only the focus of the window clears.
OpenChip ==
    /\ chip.job = 0
    /\ \E j \in results : chip' = [job |-> j, due |-> TRUE]
    /\ UNCHANGED <<form, dialog, server, seen, faults>>

CloseChip ==
    /\ chip.job # 0
    /\ chip' = [job |-> 0, due |-> FALSE]
    /\ UNCHANGED <<form, dialog, server, seen, faults>>

Focus ==
    /\ chip.job # 0 /\ ~chip.due
    /\ chip' = [chip EXCEPT !.due = TRUE]
    /\ UNCHANGED <<form, dialog, server, seen, faults>>

Asks == chip.job # 0 /\ (chip.due \/ seen[chip.job] \in ACTIVE)

Read ==
    /\ Asks
    /\ seen' = [seen EXCEPT ![chip.job] = jobs[chip.job].status]
    /\ chip' = [chip EXCEPT !.due = FALSE]
    /\ UNCHANGED <<form, dialog, server, faults>>

FailRead ==
    /\ Asks
    /\ Fault
    /\ seen' = [seen EXCEPT ![chip.job] = IF @ = "unread" THEN "error" ELSE @]
    /\ chip' = [chip EXCEPT !.due = FALSE]
    /\ UNCHANGED <<form, dialog, server>>

----------------------------------------------------------------------------
Answer == TakeAnswer \/ Settle \/ TakeFailure
Serve == CreateJob \/ StartWorkflow \/ MarkRunning

Next ==
    \/ TypeUrls
    \/ AddFile
    \/ RemoveFile
    \/ Submit
    \/ CreateJob
    \/ StartWorkflow
    \/ MarkRunning
    \/ FailCall
    \/ \E j \in Job : Finish(j) \/ GiveUp(j)
    \/ TakeAnswer
    \/ Settle
    \/ TakeFailure
    \/ OpenChip
    \/ CloseChip
    \/ Focus
    \/ Read
    \/ FailRead

Spec == Init /\ [][Next]_vars

\* An open detail goes on reading (refetchInterval).
FairSpec == Spec /\ WF_vars(Read)

----------------------------------------------------------------------------
JobStatus == {"PENDING", "RUNNING", "COMPLETED"}

\* Every variable keeps its type.
TypeOK ==
    /\ urls \subseteq Url
    /\ files \subseteq File
    /\ call \in [step : {"idle", "asked", "created", "started", "answered", "queued", "failed"},
                 batch : SUBSET Item, todo : SUBSET File, queued : SUBSET Job,
                 job : 0..MaxJobs]
    /\ results \subseteq Made
    /\ jobs \in [Job -> [status : JobStatus \cup {"none"}, items : SUBSET Item]]
    /\ flow \in [Job -> {"none", "running", "ended"}]
    /\ chip \in [job : 0..MaxJobs, due : BOOLEAN]
    /\ seen \in [Job -> JobStatus \cup {"unread", "error"}]
    /\ offered \subseteq Item
    /\ edits \in 0..MaxEdits
    /\ faults \in 0..MaxFaults

\* Whatever a submission found in the form and the user has not taken out is still
\* in the form, so that a retry sends it, or belongs to a job that the dialog lists
\* and whose workflow was started: a call that fails in the middle of a submission,
\* at any step of the API, forgets nothing (submit of the dialog).
KeptUntilQueued ==
    \A i \in offered :
        \/ i \in urls \cup files
        \/ \E j \in results : i \in jobs[j].items /\ flow[j] # "none"

\* An open detail that shows a job as active shows its end once the job has ended
\* and unless the job is marked as running again, whatever read fails meanwhile
\* (refetchInterval of JobDetailBody).
ChipSettles ==
    \A j \in Job :
        chip.job = j /\ seen[j] \in {"PENDING", "RUNNING"} /\ jobs[j].status = "COMPLETED"
            ~> chip.job # j \/ seen[j] = "COMPLETED" \/ jobs[j].status # "COMPLETED"

=============================================================================

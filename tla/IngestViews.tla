----------------------------- MODULE IngestViews -----------------------------
(***************************************************************************)
(* Ingest attempts and the admin pages that show and retry them: the items *)
(* of a source (all or the failed ones), those of one of its runs, the     *)
(* live list of attempts and the page of one attempt.  Lists are shown     *)
(* page by page; the rows of the page before stay until the new ones are   *)
(* there.  The live list and the page of an attempt under way are read     *)
(* again at an interval, the items of a source or a run are not.           *)
(*                                                                         *)
(* Attempts are numbers and listed in their order.                         *)
(***************************************************************************)
EXTENDS Integers, FiniteSets, Sequences

CONSTANTS
    Tab,
    Attempts,    \* number of attempts, one for each item of the source
    First,       \* what they are at first
    RunAttempts, \* those of the run whose items are shown
    Opened,      \* what the pages are opened on
    ITEMS_PAGE_SIZE,
    INGESTION_PAGE_SIZE,
    MaxRetries,  \* bound: presses of a retry button
    MaxMoves,    \* bound: pages, filters and attempts opened
    MaxFaults    \* bound: lost calls and reads

VARIABLES
    status,     \* of every attempt
    recent,     \* attempts that ended a short while ago
    workflows,  \* how many workflows have taken an attempt and not ended
    key,        \* per tab: the list and its offset, or the attempt, that is asked for
    data,       \* per tab: the answer that is shown, perhaps one to the key before
    reads,      \* per tab: answers on their way
    broken,     \* per tab: what could not be read when it was last asked for
    open,       \* per tab: the place of the item in the light box, 0 if it is closed
    call,       \* per tab: the retry under way
    retries,    \* retry buttons pressed so far
    moves,      \* pages, filters and attempts opened so far
    faults      \* calls and reads lost so far

view == <<key, data, reads, broken, open>>
bounds == <<retries, moves, faults>>
vars == <<status, recent, workflows, view, call, bounds>>

----------------------------------------------------------------------------
Attempt == 1..Attempts
Status == {"in_flight", "done", "failed"}
Galleries == {"items", "failed_items"}
Lists == Galleries \cup {"run_items", "live"}
PageSize(list) == IF list = "live" THEN INGESTION_PAGE_SIZE ELSE ITEMS_PAGE_SIZE
ListKey(list, offset) == [list |-> list, offset |-> offset]
AttemptKey(a) == [list |-> "attempt", offset |-> a]

ASSUME IngestAssumption ==
    /\ {Attempts, ITEMS_PAGE_SIZE, INGESTION_PAGE_SIZE} \subseteq Nat \ {0}
    /\ RunAttempts \subseteq Attempt
    /\ First \in [Attempt -> Status]
    /\ \A k \in Opened : \/ \E list \in Lists, offset \in 0..Attempts : k = ListKey(list, offset)
                         \/ \E a \in Attempt : k = AttemptKey(a)
    /\ {MaxRetries, MaxMoves, MaxFaults} \subseteq Nat

\* The items of a source, those in the failed stage, those of a run, whatever has been
\* retried since, and the live view: attempts under way and those that ended a short
\* while ago.
Listed(list) ==
    CASE list = "items" -> Attempt
      [] list = "failed_items" -> {a \in Attempt : status[a] = "failed"}
      [] list = "run_items" -> RunAttempts
      [] list = "live" -> {a \in Attempt : status[a] = "in_flight"} \cup recent

Row(a) == [id |-> a, status |-> status[a]]

\* In their order: the n-th is the one that n of them do not come after.
Ordered(all) ==
    [n \in 1..Cardinality(all) |-> CHOOSE a \in all : Cardinality({b \in all : b <= a}) = n]

\* The answer to a key: the rows of one page and the number of all.
Page(k) ==
    LET all == Ordered(Listed(k.list))
        end == k.offset + PageSize(k.list)
        last == IF end < Len(all) THEN end ELSE Len(all)
    IN  [key |-> k, total |-> Len(all),
         rows |-> [n \in 1..(last - k.offset) |-> Row(all[k.offset + n])]]

Answer(k) ==
    IF k.list = "attempt"
    THEN [key |-> k, total |-> 1, rows |-> <<Row(k.offset)>>]
    ELSE Page(k)

Idle == [state |-> "idle"]
NoData == [key |-> ListKey("none", 0), total |-> 0, rows |-> <<>>]

Init ==
    /\ status = First
    /\ recent = {}
    /\ workflows = [a \in Attempt |-> IF status[a] = "in_flight" THEN 1 ELSE 0]
    /\ key \in [Tab -> Opened]
    /\ data = [t \in Tab |-> Answer(key[t])]
    /\ reads = [t \in Tab |-> {}]
    /\ broken = [t \in Tab |-> {}]
    /\ open = [t \in Tab |-> 0]
    /\ call = [t \in Tab |-> Idle]
    /\ retries = 0
    /\ moves = 0
    /\ faults = 0

----------------------------------------------------------------------------
Fetching(t) == \E r \in reads[t] : r.key = key[t]
InGallery(t) == key[t].list \in Galleries
InRun(t) == key[t].list = "run_items"

\* The error page of the live list, an attempt or a run, which nothing reads; the items
\* of a source show what they have.
ErrorPage(t) == key[t] \in broken[t] /\ ~InGallery(t)

\* The light box is there only beside rows.
LightBox(t) == open[t] > 0 /\ data[t].rows # <<>>

ReadAgain(t, k) ==
    /\ reads' = [reads EXCEPT ![t] = {r \in @ : r.key # k} \cup {Answer(k)}]
    /\ broken' = [broken EXCEPT ![t] = @ \ {k}]

\* The key changes and is read; answers to the key before stay on their way.
Ask(t, k) ==
    /\ key' = [key EXCEPT ![t] = k]
    /\ ReadAgain(t, k)

\* Another page.  One that could not be read shows its error again, until that has been
\* forgotten or if it had shown something before.
Enter(t, k) ==
    \/ Ask(t, k)
    \/ /\ k \in broken[t]
       /\ k.list \notin Galleries
       /\ key' = [key EXCEPT ![t] = k]
       /\ UNCHANGED <<reads, broken>>

\* Another stage filter of the items, or another page with a list: from the first of
\* its rows.
SelectList(t) ==
    /\ moves < MaxMoves
    /\ moves' = moves + 1
    /\ ~LightBox(t)
    /\ \E list \in Lists \ {key[t].list} :
          /\ Enter(t, ListKey(list, 0))
          /\ IF {list, key[t].list} \subseteq Galleries THEN UNCHANGED <<data, open>>
             ELSE /\ data' = [data EXCEPT ![t] = NoData]
                  /\ open' = [open EXCEPT ![t] = 0]
    /\ UNCHANGED <<status, recent, workflows, call, retries, faults>>

HasPrev(t) == key[t].offset > 0
HasNext(t) == key[t].offset + PageSize(key[t].list) < data[t].total

\* The bar under a list.  That of items is there only beside rows.
Turn(t) ==
    /\ key[t].list \in Lists
    /\ moves < MaxMoves
    /\ moves' = moves + 1
    /\ ~LightBox(t)
    /\ ~Fetching(t)
    /\ ~ErrorPage(t)
    /\ key[t].list # "live" => data[t].rows # <<>>
    /\ \/ /\ HasPrev(t)
          /\ Ask(t, [key[t] EXCEPT !.offset = IF @ < PageSize(key[t].list) THEN 0
                                               ELSE @ - PageSize(key[t].list)])
       \/ HasNext(t) /\ Ask(t, [key[t] EXCEPT !.offset = @ + PageSize(key[t].list)])
    /\ UNCHANGED <<status, recent, workflows, data, open, call, retries, faults>>

\* A row of the live list opens the page of its attempt, which shows nothing before it
\* is read.
OpenAttempt(t) ==
    /\ key[t].list = "live"
    /\ ~ErrorPage(t)
    /\ moves < MaxMoves
    /\ moves' = moves + 1
    /\ \E n \in DOMAIN data[t].rows : Enter(t, AttemptKey(data[t].rows[n].id))
    /\ data' = [data EXCEPT ![t] = NoData]
    /\ UNCHANGED <<status, recent, workflows, open, call, retries, faults>>

\* (mutant) The last item has one after it.
HasItemAfterAny(t) == open[t] > 0

HasItemAfter(t) == open[t] \in 1..(Len(data[t].rows) - 1)

\* A card opens the light box; its buttons and keys go to the item before or after, or
\* close it.
Browse(t) ==
    /\ InGallery(t)
    /\ data[t].rows # <<>>
    /\ \/ open[t] = 0 /\ \E n \in DOMAIN data[t].rows : open' = [open EXCEPT ![t] = n]
       \/ open[t] > 1 /\ open' = [open EXCEPT ![t] = @ - 1]
       \/ HasItemAfter(t) /\ open' = [open EXCEPT ![t] = @ + 1]
       \/ open[t] > 0 /\ open' = [open EXCEPT ![t] = 0]
    /\ UNCHANGED <<status, recent, workflows, key, data, reads, broken, call, bounds>>

----------------------------------------------------------------------------
Failed(t, n) == data[t].rows[n].status = "failed"

\* Once it has been answered, the given lists are read again.
Send(t, ids, lists) ==
    call' = [call EXCEPT ![t] = [state |-> "sent", ids |-> ids, lists |-> lists]]

CanRetry(t) ==
    /\ call[t] = Idle
    /\ retries < MaxRetries
    /\ retries' = retries + 1

\* The failed item in the light box, or with it closed all failed items of the source,
\* is tried again.  The button for all may be there from an older read of the source.
Retry(t) ==
    /\ InGallery(t)
    /\ CanRetry(t)
    /\ \/ /\ open[t] \in DOMAIN data[t].rows
          /\ Failed(t, open[t])
          /\ Send(t, {data[t].rows[open[t]].id}, Galleries)
       \/ /\ ~LightBox(t)
          /\ Send(t, Attempt, Galleries)
    /\ UNCHANGED <<status, recent, workflows, view, moves, faults>>

\* A failed row of a run, or with any on the page shown all failed items of the run.
RetryOfRun(t) ==
    /\ InRun(t)
    /\ ~ErrorPage(t)
    /\ CanRetry(t)
    /\ \E n \in DOMAIN data[t].rows :
          /\ Failed(t, n)
          /\ \/ Send(t, {data[t].rows[n].id}, Galleries \cup {"run_items"})
             \/ Send(t, RunAttempts, {"run_items"})
    /\ UNCHANGED <<status, recent, workflows, view, moves, faults>>

\* The request reads which of them have failed.
ReadFailed(t) ==
    /\ call[t].state = "sent"
    /\ LET failed == {a \in call[t].ids : status[a] = "failed"}
       IN  call' = [call EXCEPT ![t] =
               IF failed = {} THEN [state |-> "refused"]
               ELSE [call[t] EXCEPT !.state = "read", !.ids = failed]]
    /\ UNCHANGED <<status, recent, workflows, view, bounds>>

\* They are put back onto a new job.
ResetFailed(t) ==
    /\ call[t].state = "read"
    /\ status' = [a \in Attempt |-> IF a \in call[t].ids THEN "in_flight" ELSE status[a]]
    /\ call' = [call EXCEPT ![t].state = "reset"]
    /\ UNCHANGED <<recent, workflows, view, bounds>>

\* The workflow of the job starts after the commit, or the call fails.
StartWorkflow(t) ==
    /\ call[t].state = "reset"
    /\ \/ /\ workflows' = [a \in Attempt |-> workflows[a] + (IF a \in call[t].ids THEN 1 ELSE 0)]
          /\ call' = [call EXCEPT ![t] = [state |-> "queued", lists |-> @.lists]]
          /\ UNCHANGED faults
       \/ /\ faults < MaxFaults
          /\ faults' = faults + 1
          /\ call' = [call EXCEPT ![t] = [state |-> "refused"]]
          /\ UNCHANGED workflows
    /\ UNCHANGED <<status, recent, view, retries, moves>>

\* A list that has been invalidated and is shown is read again at once.
Invalidated(t, lists) ==
    IF key[t].list \in lists /\ ~ErrorPage(t)
    THEN ReadAgain(t, key[t])
    ELSE UNCHANGED <<reads, broken>>

TakeAnswer(t) ==
    /\ call[t].state \in {"queued", "refused"}
    /\ call' = [call EXCEPT ![t] = Idle]
    /\ IF call[t].state = "queued" THEN Invalidated(t, call[t].lists)
       ELSE UNCHANGED <<reads, broken>>
    /\ UNCHANGED <<status, recent, workflows, key, data, open, bounds>>

\* A workflow ends the attempt it has taken.
Finish(a) ==
    /\ workflows[a] > 0
    /\ workflows' = [workflows EXCEPT ![a] = @ - 1]
    /\ \E s \in {"done", "failed"} : status' = [status EXCEPT ![a] = s]
    /\ recent' = recent \cup {a}
    /\ UNCHANGED <<view, call, bounds>>

Age(a) ==
    /\ a \in recent
    /\ recent' = recent \ {a}
    /\ UNCHANGED <<status, workflows, view, call, bounds>>

----------------------------------------------------------------------------
\* (mutant) The page of an attempt is read once.
PollsLists(t) == key[t].list = "live"

\* The live list is read again at an interval, and the page of an attempt that was last
\* seen under way.
Polls(t) ==
    \/ key[t].list = "live"
    \/ key[t].list = "attempt" /\ \E n \in DOMAIN data[t].rows : data[t].rows[n].status = "in_flight"

Read(t) ==
    /\ ~Fetching(t)
    /\ ~ErrorPage(t)
    /\ ReadAgain(t, key[t])
    /\ UNCHANGED <<status, recent, workflows, key, data, open, call, retries, faults>>

Poll(t) ==
    /\ Polls(t)
    /\ Read(t)
    /\ UNCHANGED moves

\* Any page is read again when the window gets the focus.
Focus(t) ==
    /\ ~Polls(t)
    /\ moves < MaxMoves
    /\ moves' = moves + 1
    /\ Read(t)

\* An answer is kept under its key: what is shown changes only if that is asked for.
IsAsked(t, answer) == answer.key = key[t]

EndRead(t) ==
    /\ \E answer \in reads[t] :
          /\ reads' = [reads EXCEPT ![t] = @ \ {answer}]
          /\ data' = [data EXCEPT ![t] = IF IsAsked(t, answer) THEN answer ELSE @]
    /\ UNCHANGED <<status, recent, workflows, key, broken, open, call, bounds>>

\* A read that fails is tried again.
RepeatRead(t) ==
    /\ faults < MaxFaults
    /\ faults' = faults + 1
    /\ \E answer \in reads[t] :
          reads' = [reads EXCEPT ![t] = (@ \ {answer}) \cup {Answer(answer.key)}]
    /\ UNCHANGED <<status, recent, workflows, key, data, broken, open, call, retries, moves>>

\* The last repetition fails too: rows that stood in for those asked for go, and a page
\* that throws its errors is replaced by the error page.
FailRead(t) ==
    /\ faults < MaxFaults
    /\ faults' = faults + 1
    /\ \E answer \in reads[t] :
          /\ reads' = [reads EXCEPT ![t] = @ \ {answer}]
          /\ broken' = [broken EXCEPT ![t] = @ \cup {answer.key}]
          /\ data' = [data EXCEPT ![t] =
                IF IsAsked(t, answer) /\ @.key # key[t] THEN NoData ELSE @]
    /\ UNCHANGED <<status, recent, workflows, key, open, call, retries, moves>>

\* "try again" on the error page, whose components are mounted afresh (a run from its
\* first items).  Where nothing had been read before, it leads to the same error until
\* that has been forgotten.
TryAgain(t) ==
    /\ ErrorPage(t)
    /\ LET k == IF InRun(t) THEN ListKey("run_items", 0) ELSE key[t]
       IN  /\ Ask(t, k)
           /\ data' = [data EXCEPT ![t] = IF @.key = k THEN @ ELSE NoData]
    /\ UNCHANGED <<status, recent, workflows, open, call, bounds>>

Next ==
    \/ \E t \in Tab :
          \/ SelectList(t)
          \/ Turn(t)
          \/ OpenAttempt(t)
          \/ Browse(t)
          \/ Retry(t)
          \/ RetryOfRun(t)
          \/ ReadFailed(t)
          \/ ResetFailed(t)
          \/ StartWorkflow(t)
          \/ TakeAnswer(t)
          \/ Poll(t)
          \/ Focus(t)
          \/ EndRead(t)
          \/ RepeatRead(t)
          \/ FailRead(t)
          \/ TryAgain(t)
    \/ \E a \in Attempt : Finish(a) \/ Age(a)

Spec == Init /\ [][Next]_vars

\* Requests are served and answered, workflows end, time passes, intervals end.  Admins
\* need not do anything.
Fairness ==
    /\ \A t \in Tab :
          /\ WF_vars(ReadFailed(t))
          /\ WF_vars(ResetFailed(t))
          /\ WF_vars(StartWorkflow(t))
          /\ WF_vars(TakeAnswer(t))
          /\ WF_vars(Poll(t))
          /\ WF_vars(EndRead(t))
    /\ \A a \in Attempt : WF_vars(Finish(a)) /\ WF_vars(Age(a))

FairSpec == Spec /\ Fairness

----------------------------------------------------------------------------
\* Every variable keeps its type.
TypeOK ==
    /\ status \in [Attempt -> Status]
    /\ recent \subseteq Attempt
    /\ workflows \in [Attempt -> 0..(MaxRetries + 1)]
    /\ \A t \in Tab : key[t].list \in Lists \cup {"attempt"} /\ key[t].offset \in 0..Attempts
    /\ \A t \in Tab : \A k \in broken[t] : k.list \in Lists \cup {"attempt"}
    /\ \A t \in Tab : Len(data[t].rows) <= Attempts /\ open[t] \in 0..ITEMS_PAGE_SIZE
    /\ \A t \in Tab : call[t].state \in {"idle", "sent", "read", "reset", "queued", "refused"}
    /\ retries \in 0..MaxRetries /\ moves \in 0..MaxMoves /\ faults \in 0..MaxFaults

\* What is shown of attempts under way follows them to their end, whatever answer is
\* overtaken and whatever read succeeds only when it is tried again: a live list that
\* stays open comes to show what is under way and goes on doing so, and the page of an
\* attempt does not show it under way for ever once it has ended (refetchInterval of both
\* pages).  A read that fails for good ends that with the error page (throwOnError): the
\* property is about pages that do not stay on it.
ViewsSettle ==
    \A t \in Tab :
        /\ <>[](key[t].list = "live" /\ ~ErrorPage(t)) => <>[](data[t] = Answer(key[t]))
        /\ \A a \in Attempt :
              <>[](key[t] = AttemptKey(a) /\ status[a] # "in_flight" /\ ~ErrorPage(t))
                => <>[](data[t].key = AttemptKey(a) /\ data[t].rows[1].status # "in_flight")
=============================================================================

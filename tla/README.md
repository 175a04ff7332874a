# mimeme: models and proofs

This directory holds TLA+ models of mimeme, the TLC configurations that check them and TLAPS proofs
about them. Paths are relative to `src/backend-api/src/mimeme` or `src/webui/src`, whichever has the
file, unless they start with `src/`.

## The system

mimeme ingests pictures, annotates and embeds them, and serves a search index over them. A FastAPI
process, a Temporal worker and a compute service with supervised child processes share a Postgres
database and an object store. A web client searches, and its admin pages manage sources, follow
ingest attempts, annotate GIFs and evaluate the search.

| Part | State it keeps | Operations | What makes it hard | Module |
|---|---|---|---|---|
| Rebuild claim and generations (`index/ops.py`, `index/store.py`, `index/workflow.py`, `index/activity.py`, `job/store.py`, `api/routers/jobs.py`) | `search_index_state`, `jobs`, `index_builds`, `indexes/<version>/` | mark dirty, prepare, seal, build, activate, fail, release, trigger, cancel | activities run at least once and overlap; claims expire; the corpus changes during a build | `RebuildClaim`, `GenerationFence` |
| Search activation (`search/activation.py`, `search/gateway.py`, `compute/search.py`, `api/lifespan.py`) | versions of the search child, what the gateway remembers | load, switch, rollback, clear, reconcile | the switch precedes the commit; child and worker crash; the probe competes | `SearchActivation` |
| GIF annotation (`gif-annotation-workspace.tsx`, `lib/admin/gif-annotation.ts`) | rows with revisions, the form, a copy in local storage, the query cache | type, submit, skip, retry, navigate, refetch, reload, export | a save is answered after edits and navigations; several tabs | `GifAnnotation`, `RevisionedRegister` |
| Relevance judgments (`search-eval-judgment.tsx`, `search_eval/service.py`) | judgments with revisions, pools, a cursor | grade, clear, move on, add a candidate | read and write are not locked; the cursor is derived from a list that changes | `JudgmentSession` |
| Search evaluation (`search-eval-overview.tsx`, `search-eval-comparison.tsx`, `search_eval/`) | queries, pools, runs, scores, baseline | freeze, run, score, rescore, compare | runs add to the pools they are judged by; activities are retried; polling stops | `SearchEvalRuns` |
| Sources (`source-form-sheet.tsx`, `source-actions.tsx`, `source/store.py`) | source rows, the sheet | create, edit, toggle, delete | an open form is seeded again by a poll; calls cross reads | `SourceForm` |
| Ingest views and retries (`ingestion-browse.tsx`, `ingestion-detail.tsx`, `source-items-gallery.tsx`, `run-items-gallery.tsx`) | attempts, pages of lists | page, filter, open, retry | polling under several conditions; lost and late answers | `IngestViews` |
| Image ingest (`image-ingest-dialog.tsx`, `job-detail.tsx`, `ingest/submit.py`) | a form, jobs and their workflows | submit, follow a job | one submission is many calls of four steps | `ImageIngest` |
| Search results (`routes/results.tsx`, `lib/api.ts`, `search/run.py`) | pages of results | type, scroll, load more, retry | offsets into a ranking that is computed anew for each page | `SearchResults` |
| Embedding shards, source discovery, deduplication, schedules, compute jobs, inference | see "Not modelled" | | | |
| Ranking, object storage, API plumbing, admin access, images pages, landing page, UI kit | none shared, or read-only | | | |

The parts meet in few places. Ingest, annotation and embedding call `mark_dirty` in the transaction
that changes a searchable fact; the rebuild reads the corpus under the row lock; the activation drives
the search child and commits the row; search and evaluation ask the child for a ranking. The web
client only talks to the API; its tabs share a browser's local storage and the database, and each
has a query cache of its own that is filled by reads, polls and the answers of writes.

### What should hold

* claim and generations: no change of the corpus is lost; the active generation never moves back; a
  live claim is not stolen and none is held for ever; once the corpus is quiet the index catches up.
* activation: the database only names what search has served; a rollback spares other versions;
  search does not stay without an index.
* forms (GIFs, judgments, sources, images): what is typed is not lost, what is called saved is
  stored, two tabs do not overwrite each other unnoticed, every button comes back.
* views (runs, attempts, jobs, sources): what is shown as under way is followed to its end.
* evaluation: what is complete has a score, on the queries it was run for; no run is left waiting for
  somebody who is gone.
* search: scrolling skips and repeats nothing and reaches the end.

## Modules

`RebuildClaim` and `SearchActivation` model the worker and the API; the others each model one page
with the part of the API behind it. Each is parameterised by its actors (`Tab`, `Job`, ...), by small
sets of data and by bounds, all named `Max...` and declared as bounds. `MC*` modules give the values.
Definitions marked `(mutant)` or MUTANT are no part of a model: each is a plausible mistake in the
definition that follows, kept to show that a property notices it.

### RebuildClaim

The corpus is not modelled picture by picture. Every transaction that changes a searchable fact calls
`Store.mark_dirty` (`job/store.py:446`), so the corpus a transaction reads is identified by the value
of `desired_generation` at that moment; a prepare reads it under the row lock that `mark_dirty` also
needs. A snapshot, a published plan and a built index are therefore each described by that number,
and `-1` says that the object does not exist. `barren` says that the corpus holds no embedded image; the
first state has either, because the migration that adds the row may find pictures in the database.

| Model | Code |
|---|---|
| `desired`, `active`, `claim` | columns of `search_index_state`; `expired` and `settled` stand for the comparisons of its timestamps with the clock |
| `jobs`, `recorded` | `jobs.status`, whether `jobs.workflow_id` is set |
| `activeBuild` | the `index_builds` row with `is_active` |
| `planned`, `built` | `indexes/<version>/plan.json` and the files beside it; a version is named by target generation and job (`index/ops.py:417`) |
| `pc`, `plan` | the position of a `RebuildWorkflow` run and the `BuildPlan` it carries |
| `draft` | the plan between the prepare transaction and its publication, which follows outside of it |
| `stray` | attempts Temporal no longer waits for and that may still act |
| `cancelling` | how far `cancel_job` has come |

One database transaction is one step (`db/engine.py:105`, with `FOR UPDATE` on the singleton row),
one Temporal activity one or two. Temporal runs an activity at least once: `Abandon` is a timeout, after
which the run retries and the first attempt goes into `stray`, from where it may do its work at any later
moment, be told of its cancellation, or do nothing. A lost answer is an abandoned attempt that acts at
once. `GiveUp` is a last failure with the bookkeeping of `index/activity.py:333`, `LoseLastAttempt` one
without it. Retry counts are not modelled: `MaxFaults` bounds faults of all kinds together. A build of
a version whose files are rewritten may be refused by `index.state.validate`; the model lets it
proceed, the more dangerous outcome.

`GenerationFence` is the row alone: a generation of the corpus, one of the index, a claim that is
granted when no other one counts. `FenceSpec` says that `RebuildClaim` implements it, with `lapsed`
standing for "the owner is terminal or the claim has expired".

### SearchActivation

A version is a number: the `v`-th claim that is granted builds version `v`. A caller is an attempt
`<<v, n>>` of the activate activity, the probe of the API, or `Nobody`, for requests nobody waits for.

| Model | Code |
|---|---|
| `active`, `owner` | the `index_builds` row with `is_active`; the holder of the rebuild claim, which `Store.activate` demands |
| `child` | `Resident`: serving, candidate and retained version; whether the process is alive |
| `remembered`, `known` | `Gateway._serving_version` and `_retained_version`; `Gateway._generations` |
| `requests` | the coroutines of the gateway: which call each makes and how far it is in `_call`, `_recover` or `clear` |
| `pc` | where each caller is in `search.activate`, `search.reconcile`, `_confirm_activation`, `_clear_remote` |
| `lost` | versions whose `complete.json` the object store no longer has |
| `served` | history, for the properties only |

`Execute` is one call of the child under its lock; `ChildDead` is a dead child or a call that timed
out, done or not, after which the request goes to `_recover`. `ClearChild` and `Forget` are the two
halves of `Gateway.clear`. `Continue` and `Onward` are the callers, with the tries of
`_with_retry` as the choice to try again or to stop. `Begin`, `Commit`, `Matched` and `GiveUp` are the
activity; the commit may fail before or after it took effect. `Tick`, `Read`, `Deactivate` and
`Startup` are the API, `Poll` the readiness endpoint and the queries. Left out: downloads and the
validation of manifests, eviction of memory, the encoders, rebuilds of an empty index.

### GifAnnotation

A document is the number of the edit that produced it. `view` is what a tab shows (form, dirty flag,
status, revision, `saveState`), `fallback` local storage, `cache` the query cache, `save` the call in
flight with what `changeVersion` says of it (`touched`). `Type`, `Navigate`, `Submit`, `RetrySave`,
`Store`, `Conflict`, `Lose`, `AnswerSaved`, `AnswerFailed`, `StartRefetch`, `EndRefetch` and `Reload` are
the handlers; `typed` is history, for `TypedTextIsKept` only: the text typed last on a page that nothing
has stored, and whether the answer of a save that was sent before it has come (`overtaken`). The answer
of a save resets the form to what was sent and removes the local copy, also under newer text
(`gif-annotation-workspace.tsx:291`): the model does the same, and the property excepts that case by name.
A reload gives up a request that has not arrived; one that arrives after the reload has read the
rows would be a write by another tab. `Mirror` is the effect that copies the form to local storage,
under the key of the render it runs in. `RevisionedRegister` is what the rows and the calls promise:
a write is granted once, on the revision it names. `RegisterSpec` is the refinement.

### JudgmentSession

`judgment` and `pool` are the database, `cache` what each tab has loaded with later answers merged in,
`view` the query and the place in its list, `call` one save or clear. `ReadRow` and `WriteRow` are the two
halves of `save_judgment`, which does not lock the row. One call of a session is under way at a
time; the code would let a session that was left and opened again send a second one. `Settled` is
the effect that looks for the first unjudged candidate. Candidates are listed in the order of their
numbers, so the place of one is how many of the pool come before it.

### SearchEvalRuns

A snapshot is its content: the judged images of each of its queries; which of them count as relevant
is fixed by `Fitting`. `InsertRuns`, `StartWorkflow`, `StartFails` are the three parts of starting
an evaluation, which may make several runs; `Prepare`, `Retrieve`, `BeginScore`, `ScoreOwn`,
`ScoreBaseline`, `Finish`, `FailRun` the workflow; `Restart` and `GiveUp` what Temporal does with an
activity that dies before or after its last commit, and `FailRunFails` the same for the activity
that records a failure, which has as few attempts (`search_eval/workflow.py:18`). `Rescore`,
`StartRescore` and `RescoreFails` are `submit_rescore`: a run that waits for judgments is queued
again once it has them. No page calls it (`search-eval-api.ts:181`); the model has one rescoring of
a run at a time, after its old workflow has ended. A run is at `lost` when nobody will change it
again: `fail_run` has failed too, or the API has died between a commit and the start of a workflow.
A start that fails is taken for one the orchestrator did not accept. An error leaves the dialog
open, and since nobody can press in it before it learns of that, there is no state between the two.
`Show` is a read of the overview, by `Poll` while an active run is shown and by `Focus`. `Complete`
and `Relevant` are what the API demands of the benchmark when a run is made. The setup card of the
page computes advice from the counts of a cached overview and is left out: it guards nothing.
Metrics are not computed.

### SourceForm

A record has a minimum score and subreddits (the settings of its adapter, one column), the switch
`enabled`, and a count of runs that makes a polled answer differ; schedule, data set and size are columns
like `enabled` and left out. Three calls per tab (`save`, `toggle`, `remove`) may be under way at once; a
save waits for the read that follows it before it closes the sheet (`settling`). The API reads the live
row without a lock (`Find`) and writes it later (`ServePatch`, `ServeRemove`), where only the columns that
differ from what was found are set (`Merged`). A page whose first read failed shows its error and is not
read again (`Rereads`, `Shows`). A mutation of a page that was left and opened again is a fresh one in the
code; the model lets the old unanswered call block the button (`Send`).

### IngestViews

Attempts are numbers; a list is a set of them, which `Ordered` puts in order and `Page` cuts into
pages. `key` is what a tab asks for,
`data` what it shows, `reads` the answers on their way, each computed when it was asked for. A
retry reads the failed items, puts them onto a new job and starts a workflow in three steps;
`useRetrySource`, `useRetryRun` and `useRetryItem` invalidate different lists. `Read`, `Poll` and `Focus`
ask again. A read that fails is repeated (`RepeatRead`) or fails for good (`FailRead`): the live list, a
run and an attempt then throw their error (`throwOnError`) and are replaced by the error page
(`ErrorPage`, from `broken`), which nothing reads until somebody presses "try again" (`TryAgain`) or the
page is left; the items of a source show what they have. One retry of a tab is under way at a time.

### ImageIngest

`call` is the submission: the batch being sent, the files still to be sent, the jobs queued so far, and
how far the API is with the present call (`CreateJob`, `StartWorkflow`, `MarkRunning`). `FailCall` may
strike between any two. The form is not locked meanwhile. `chip` and `seen` are the job detail.

### SearchResults

`Kept` are the places of candidates with a row, `Found` how many there are up to a place. `Taken` is how
many candidates the server takes, batch by batch (`Batch`), until enough have a row; `Cut` the page
it makes of them. The results of a page are a set: their order is that of the ranking. A page begins
where the one before ended, so the end of the last is how many results are loaded (`Loaded`).
`window` is the number of results that are loaded without asking. A first page that fails shows the
error page of the route (`FirstFailed`), whose button only clears the error boundary
(`routes/results.tsx:251`): `Retry` is the button under results that are loaded, and a reader
without any leaves the page. `Activate` replaces the index, `DropRow` removes the row of an image.

## Runs

`expect` is "pass" unless noted; the number is that of distinct states.

| Run | Instance | What it shows |
|---|---|---|
| `claim_safety` | one forced manual and two scheduled jobs, generations to 2, one fault; 390 287 | `TypeOK`, `ActiveBuildSound`, `FreshMeansCurrent`, `ActiveNeverRegresses`, `LiveClaimKept`, `FenceSpec`, `ManualRunEnds` |
| `claim_liveness` | four scheduled ids, generations to 2, one fault; 312 992 | `ClaimFreed`, `EventuallyCurrent` |
| `activation` | two versions, one attempt each, the probe, one fault; 890 209 | `TypeOK`, `CommittedWasServed`, `RollbackSparesOthers`, `AvailabilityRestored` |
| `gif_pages` | two tabs that meet on the second of two GIFs, one edit, one save per row, one loss, reload or refetch; 153 606 | `TypeOK`, `SavedMeansStored`, `TypedTextIsKept`, `ExportIsStored`, `RegisterSpec`, `SpinnerStops` |
| `judgment_pool` | two tabs that grade differently, two queries, two images, one upset; 37 575 | `TypeOK`, `FirstGradeKept`, `PoolFinished` |
| `eval_runs` | one tab, three queries of which one is new, two images, two runs, one change of the benchmark, one fault; 353 863 | `TypeOK`, `CompleteIsScored`, `ScoredOnItsQueries`, `NoRunIsStranded`, `PageSeesTheEnd` |
| `source_forms` | one tab, two sources, two scores, two calls, one run, one fault; 286 436 | `TypeOK`, `UntouchedSheetIsLatest`, `SaveIsShown`, `DeletedStaysDeleted`, `PageCatchesUp` |
| `ingest_pages` | one tab, three items on two pages, two of one run, one attempt under way at first, opened on the items, the live list or an attempt, one retry, two moves, one fault; 122 884 | `TypeOK`, `ViewsSettle` |
| `image_jobs` | an address and two files, two jobs, four edits, one fault; 631 844 | `TypeOK`, `KeptUntilQueued`, `ChipSettles` |
| `search_pages` | two queries, four images, two generations, one result per page, one failed request; 122 660 | `TypeOK`, `NothingSkipped`, `EndIsReached` |
| `source_toggle` | one tab, one source, one call; violation | `DisablingKeepsScore` fails, see below |
| `search_end` | one query, one generation, a batch larger than the page; violation | `EndMeansAll` fails, see below |

Why these bounds are enough for the cases to happen: two rebuilds are needed for one to supersede
another and two generations for a change during a build; ids of scheduled runs are a bound, and four let
a fault and a superseded run happen and still leave one that catches up. Two versions give a rollback
somewhere to go. Two tabs on one GIF are a conflict, and one save per row already makes the loser's
revision stale. Two tabs with different tastes make the two first grades of one candidate. Two runs
are needed for one to be the baseline the other rescores; one change of the benchmark makes their
queries differ, and one fault is a failure whose recording works or a record of a failure that does not.
Two calls of different kinds can be under way on one source, so that a deletion comes between the read
and the write of a patch. Items on two pages, with one attempt per page of the live list, let an answer
come after the page was turned; the one fault is a read that is repeated or one that ends in the error
page. A second file is a call
after one that succeeded. One result per page, four images and a removed row make the server replace a
candidate on a page that is not the last. A single fault may strike at every step.

Deadlock is not checked: with all bounds used up a system may stop.

### Fairness

* `RebuildClaim`: a run's next step is taken if it stays possible (Temporal delivers tasks and retries),
  the schedule ticks whenever its overlap policy allows, a refused attempt exhausts its retries, and time
  passes. Nobody has to press a button, an abandoned attempt need not act, and a cancellation need not go
  on after its first step.
* `SearchActivation`: the gateway goes on with requests somebody waits for and with a recovery that has
  begun; a failed attempt is retried; the probe keeps running.
* The pages: a call that was sent is served or fails, its answer is taken, and a query that polls asks
  again (`refetchInterval`, or the focus of the window). People are not fair, with two exceptions that
  the properties are about: `PoolFinished` is about somebody who goes on grading, `EndIsReached` about
  a reader who goes on scrolling and presses the buttons that load more or retry, of a query whose first
  page was loaded.
* Nobody presses "try again" on an error page: `ViewsSettle` is about pages that do not stay on it,
  `PageCatchesUp` about pages whose first read succeeded.
* `PageSeesTheEnd` needs the orchestrator to run the workflows it was given, the API to start those it has
  queued, and the page to poll; runs that are `lost` are outside of it (see the deviations).

## Findings

* `source_toggle`: the button that disables a source sends `adapter_config: { subreddits }`
  (`source-actions.tsx:62`) and the API replaces the configuration, so the minimum score is lost. The
  form says: "disabled sources keep their config and dedup memory but stop acquiring."
  (`source-form-sheet.tsx:333`).
* `search_end`: a search is exhausted when a batch reaches the end of the candidates
  (`compute/search.py:327`, `search/run.py:86`), also when more rows were found than the page holds;
  `has_more` is then false and the page says "You've reached the end." (`routes/results.tsx:231`).

### Known deviations

Behaviours the models contain, that differ from what one would like, and that no property demands
otherwise:

* A prepare claims for a run and its answer is lost; the corpus changes; the retry is `deferred`
  (`index/ops.py:119`) and the run ends while its claim is kept, until another prepare finds the owner
  gone or, for a scheduled run, the claim expires.
* `Gateway.clear` restarts the child before it forgets generations (`search/gateway.py:134`): a load in
  between is forgotten and not restored after the next death of the child.
* Two overlapping attempts of one activation both switch: the version to roll back to is then the
  candidate itself (`search/activation.py:34`), and a failed commit leaves search on it.
* The probe reads the active version before it switches (`index/ops.py:286`): an activation that
  commits in between is undone in search, and nobody repairs it while search is ready.
* Runs of an evaluation can be lost: the activity that fails a run gives up after its own attempts
  (`search_eval/workflow.py:18`), `fail_run` raises or the API dies (`search_eval/submit.py:69`), and the runs
  after one whose start failed are never started. They stay queued or running, block every later
  evaluation (`search_eval/service.py:594`) and keep the overview polling, for ever.
* A patch that had found its source live changes the row after a deletion that committed in between
  (`source/store.py:120`): the row stays deleted with other settings.
* What was typed into the sheet of a source is lost when a poll brings another record
  (`source-form-sheet.tsx:123`).
* The error page of a source whose first read failed (`routes/admin/sources/$id/index.tsx:83`) and of a
  search whose first page failed (`routes/results.tsx:251`) have a button to retry that only clears the
  error boundary: the loader is not run again.
* A polled page of attempts whose read fails for good (`ingestion-browse.tsx:66`, `ingestion-detail.tsx:31`)
  stops polling until somebody presses "try again"; if it had nothing to show before, that leads to the
  same error until the query has been forgotten.
* Text typed into a GIF's form during a save is wiped from the form and from local storage by its answer
  (`gif-annotation-workspace.tsx:291`); a page that is left with unsaved text writes it under the key of the
  GIF it goes to (`gif-annotation-workspace.tsx:217`); an answer that comes after the page was left settles the
  form of another GIF.
* `ingest/submit.py:51` marks a job as running after its workflow was started, also when that has ended
  by then: the job runs for ever.
* Items added to the image form during a submission that succeeds are cleared unsent.
* A save of a GIF whose answer was lost is refused as a conflict when it is retried
  (`gif-annotation.ts:250`), although the row holds what the page shows.

## Proofs

All theorems hold for every value of the constants that satisfies the assumptions named in the modules.

`RebuildClaim_proofs`, from `JobAssumption` and `BoundAssumption`:

* `TypeCorrect`: types.
* `InvCorrect`: `Inv` in every state. Neither `ActiveBuildSound` nor `FreshMeansCurrent` is inductive:
  the activation of a plan is only right because of what was true when the plan was made and
  published. `Inv` says it of every plan in a run, in a draft or in an abandoned attempt: it is not
  ahead of the claim (`PlanSound`), its artifact exists when it is read (`ReadInv`), artifacts lie
  between their generation and now (`ArtifactInv`), and an empty plan has lost its claim once there
  is an active build. The proof sorts the steps by what they do to the row (`RowSteps`), to
  artifacts (`ArtifactSteps`), and by where plans come from (`PlanOrigin`, `StrayOrigin`), then
  takes one part of `Inv` at a time.
* `ActiveBuildIsSound`, `FreshIsCurrent`, `ActiveIsMonotonic`: consequences of `Inv`.
* `LiveClaimIsKept` and `FenceRefinement`: by sorting the steps by their effect on the claim
  (`ClaimSteps`); every step is a step of `GenerationFence` or leaves its variables alone.

`SearchActivation_proofs`, with and without the probe, from `ActivationAssumption` and
`CallerAssumption`:

* `TypeCorrect` and `CommittedWasServedCorrect` from `IInv`. The property alone says nothing of the
  attempt that is about to commit: it came there because its switch was answered, and for the answer
  to be that of a switch to its own version there must be only one request per caller, of the kind
  its place calls for (`ReqInv`); `ServedInv` adds that who is about to commit has been served.
* `RollbackSparesOthersCorrect`: only the handling of the rollback itself can both remove it and
  change what is served (`OthersStay`), and the child compares versions before it does.
* `GatewayIsOrderly`: who waits has a request in the gateway or on a broken connection, and one request
  at most holds the recovery lock. Each step answers a request, moves one on or sends one
  (`AnswerOrder`, `StageOrder`, `MoveOrder`); a request comes to hold the lock only when nobody does.

`ImageIngest_proofs`, from `ImageIngestAssumption`:

* `TypeCorrect` and `KeptUntilQueuedCorrect` from `IInv`. The property is not inductive: when the last
  call is answered the form is cleared, and that everything is queued by then follows from what the
  submission knows before. `AllAccounted` says that what it found is being sent, still to be sent or
  queued; `CallSound` that the present call has a batch and, once the API has made it, a job with
  that batch and a workflow. `ServerGrows` (jobs and workflows do not go away) and `SendCall` (what the
  next call takes) are the facts about steps that the parts share. `ChipSound` is needed for types: the
  detail is only ever that of a listed job, so what it shows is the status of a job that exists.

The same module proves `IngestViews`, from `IngestAssumption`, through an instance (`Views!`):

* `ViewsTypeCorrect`: types, and no attempt has more workflows than retries were pressed for it.
* `PagesShowTheirOwnCorrect`: what a page shows is what it asks for or, until that has been read, rows of
  another page or stage of its own list; the page of an attempt shows only that attempt.
* `NoPageWaitsCorrect`: a page that does not show what it asks for is being read, or the read has failed for
  good and the page has been told (`broken`).
* `NoAttemptIsStrandedCorrect`: an attempt under way has a workflow or a call that is about to start one,
  as long as no call or read has failed (a start that fails leaves one without either).

`GifAnnotation_proofs`, from `GifAssumption`:

* `InvCorrect`: `IInv` in every state. "Saved" is said of a page long after the row was made, so the
  properties are about the past of a row: `Past(x, r)` says that x has at most the revision of r and, with
  the same one, the same content. `RowsGrow` and `PastStays` show once that no step takes that away. Then
  each part is about one place a row is copied to: the query cache (`CacheSound`), a refetch on its way
  (`FetchSound`), a save that was granted (`SaveSound`, which also says that a page untouched since it
  sent a save still shows its GIF), and the page (`ViewSound`). `OthersStay` and `StepsOfPage` sort the
  steps by the tab they change.
* `TypeCorrect`, `SavedMeansStoredCorrect`, `TypedTextIsKeptCorrect`, `ExportIsStoredCorrect` follow. The text
  that is kept is that of the history variable `typed`, which the dirty flag does not enter.
* `SpinnerIsHonestCorrect`: a page shows the spinner during a save that nothing it did has changed, and
  never offers to retry or says "saved" over one in flight.
* `RegisterRefinement`: rows and calls are those of `RevisionedRegister`; a save that is sent is an
  invocation, `Store` a grant, `Conflict` a refusal, a lost save a lost call, its answer the return, and
  every other step a stutter (`RegisterStep`).

`JudgmentSession_proofs`, from `JudgmentAssumption`:

* `TypeCorrect` from `IInv`: a row, wherever it was copied to, has a grade exactly when it has a revision
  (`Judged`), and the place of a session is one of its list, which grows under it.
* `FirstGradeKeptCorrect`, an action property: `CallSound` says that a call that saw no grade names
  revision 0, and that a transaction that has read the row has read the revision its tab saw. The write
  compares that with the row again, and only a write changes a row (`OnlyWritten`).
* `CandidatesOnlyCorrect`: only candidates are graded, since pools only grow (`PoolsGrow`) and a
  transaction that goes on to write has looked the image up; pages, and loads on their way, list
  candidates of the query they are for, since a page that turns gives up its load (`ListedStep`).

`SearchEvalRuns_proofs`, from `EvalAssumption`:

* `InvCorrect`. `RowSound` says what the place of a workflow means for the row of its run: no result
  before the search, all of them after it, a score before the run is complete, and a score of its own on
  its own queries, whatever rescoring added. Rescoring is a step of another run's workflow: `RunsFollow`,
  proved of every action by itself, says that runs stay sound and that no step takes a score away, so
  what the baseline and the dialogs of stale tabs name keeps its score (`NamedSound`). `TodoSound` keeps
  the runs of two dialogs apart. `NaturalMinimum` (by well-founded induction) gives `InsertRuns` its ids.
* `TypeCorrect`, `CompleteIsScoredCorrect`, `ScoredOnItsQueriesCorrect` follow.
* `NoRunIsStrandedCorrect`, `EvidenceIsKeptCorrect` and `EndsAreFinalCorrect`, from what a step may do to
  a run (`RunMoves`): a run under way has a workflow that goes on, a call about to start it, or is lost, and
  only a failed `fail_run` or a start that failed before it loses one; snapshot, results and scores are never
  replaced; a failed run and a complete one whose workflow has ended keep their status, and a run that
  waits for judgments is queued again only when it has them.

`SourceForm_proofs`, from `SourceAssumption` (`None` is no score, plan, id or record):

* `TypeCorrect`, `UntouchedSheetCorrect`, `SaveIsShownCorrect` and `DeletedStaysDeletedCorrect` from
  `IInv`. A record's version is bounded by the calls made that are not in flight (`VersionsSound`); a call
  that has found its source names one that exists (`FoundSound`). A deleted source is written only by a
  call that had found it (`PatchedRow`), and no new call finds it (`CallsAreFound`). That a
  sheet which closes shows its save needs to know that the save's version is in the row (`DoneSound`) and
  in any read that began after it (`SettleSound`); the page of a list waits for no record (`ReadSound`).
  Steps are sorted by what they do to calls (`CallsKeep`, `ServedStep`), since a page that is left
  unmounts all of its calls, and only the end of a read changes what a tab shows (`CacheMoves`).
* `NoSaveWaitsCorrect`: a save that waits for a read waits for one that runs (`ReadsMove`).
* `VersionsAreKnownCorrect`: a record is only replaced by a later one (`RecordsGrow`, where that a patched
  record is still one comes from the count of calls in `IInv`), so settings are never shown under a
  version that had others.

`SearchResults_proofs`, from `SearchAssumption` (no image is a candidate twice, sizes are positive):

* `NothingSkippedCorrect`, by what is counted. `FoundGrows` and `PlaceOfRank` make the candidates with a
  row a sequence without gaps, so a range of ranks has as many images as it has numbers
  (`RankedCounted`). `SearchEnds` shows that the recursive function of `Taken` exists and stops where it
  may: a place from which the fewest candidates are left and for which this fails would be followed by
  another one. So a page has the ranks after its offset, whatever the batches were (`CutIsTop`), and one
  that has more is full. `IInv` says this of pages of the present index (`PageSound`), that pages follow
  one another (`Chain`), and that a request continues what is loaded or, when it loads that again, what it
  has got (`QuerySound`). An index or a row that is gone does not come back (`ServerStep`), so a page that
  was answered before cannot count as one of the present index. `ChainShows` draws the conclusion.
* `TypeCorrect` from the same invariant.
* `ReaderIsNotStuckCorrect`: the query of the page has results, a request under way or is told that they
  could not be loaded. A failed refetch tells nothing, so it needs that what is loaded again was loaded
  before.

Only model-checked: the eleven liveness properties, since fairness and ENABLED are outside of what the
prover handles. Several have a safety half, which is proved: nobody waits for what nobody will do
(`GatewayIsOrderly` for `AvailabilityRestored`, `SpinnerIsHonestCorrect` for `SpinnerStops`,
`NoRunIsStrandedCorrect` for `PageSeesTheEnd`, `NoPageWaitsCorrect` for `ViewsSettle`,
`ReaderIsNotStuckCorrect` for `EndIsReached`). That the steps on which they wait are taken is fairness.
No run checks these halves: they are stated and proved in the `_proofs` modules, for every value of the
constants.

## Not modelled

* Embedding shards (`index/pack.py`): rows embedded again while a shard is packed (`index/store.py:95`),
  a seal that fails between two shards (`index/pack.py:257`), sequence numbers (`index/pack.py:230`).
  `RebuildClaim` takes a sealed corpus as one step.
* The stages of ingest: two batches that see no duplicate of the same picture (`ingest/run.py:230`), a
  batch that is retried while its first attempt goes on (`ingest/run.py:63`), the sweep of stragglers
  (`ingest/store.py:187`). `IngestViews` and `ImageIngest` only know that an attempt ends.
* Compute jobs (`compute/jobs.py:88`), source discovery and its replay (`source/store.py:264`), the
  reconciliation of schedules (`source/schedule.py:137`).
* In the rebuild: `Store.deactivate` with the reconcile probe (`index/ops.py:295`), a run that fails
  without owning the claim (`index/ops.py:413`), the empty activation that is retried
  (`index/store.py:147`); progress and results of jobs.
* In the pages: two evaluations started at once (`search_eval/service.py:589`, a check before an insert:
  the instance has one tab); a gallery of a source or a run is not polled, so that the toast "watch
  statuses settle as the ingest reruns." (`use-source-retry.ts:17`) is true only of a page that is
  focused again; a list that shrinks below its last page keeps no bar to turn back; a light box by
  place over a list that shifts; duplicates and gaps when the index is replaced between two pages of
  results; the highest offset the API accepts is a bound of `SearchResults`.
* Ranking, fusion, FAISS, metrics and text rendering are numeric or textual and have no protocol. Admin
  access compares one cookie per request. Images pages, landing page and UI kit only read and draw.
  Object storage appears as the functions `planned` and `built`; infrastructure and scripts are left out.

# LIMS: a TLA+ development of the laboratory workflow and its browser client

This directory specifies the laboratory information system in `src/`: its backend
(Django, Django Ninja, Celery, PostgreSQL, Redis), that is, what happens to a
commission request, its wafers, their experiments, the WIP batches, the dispatch
jobs and the machines from the draft of the request to its closing; and the
browser client (Next.js, React) through which requesters, managers and laboratory
users act on them: its session, its routing, the data its pages show and the calls
its forms and buttons make. The modules are translated from the code; line
references are in `PROJECT.json` (`map`).

Contents: [the system](#the-system) · [the modules](#the-modules) ·
[how code becomes actions](#how-code-becomes-actions) · [the runs](#the-runs) ·
[bounds](#bounds) · [fairness](#fairness) · [the proofs](#the-proofs) ·
[what the runs found](#what-the-runs-found) · [not modelled](#not-modelled) ·
[plan](#plan)

## The system

The backend (paths in `src/backend`):

| Component | State | Operations | Hard behaviour |
|---|---|---|---|
| commission requests and samples (`apps/commissions`) | `CommissionRequest.status`; `Sample.status`, `current_wip`; `SampleExperiment.status`, `sequence_no`, `current_wip` | create, update, submit, approve, reject, return, cancel, close; receive, reject, set the status of a sample | rows are loaded by the endpoint before the service opens its transaction, then guarded on and saved in full; a receipt looks at its sibling wafers without a lock |
| WIP batches (`apps/wip`) | `WipBatch.status`, `recipe`; `WipItem` | create, lock, cancel, automatic batching | `create_wip` locks its wafers, `lock_wip` and `cancel_wip` trust a stale row |
| dispatch queue proposals (`apps/wip`) | proposal, its batches and items | propose, edit, prune, cancel, confirm | the confirmation dispatches in an `on_commit` callback, in the same process |
| dispatch jobs (`apps/dispatch/services.py`) | `DispatchJob.status`, `wip`, `equipment`, `final_confirmed_at` | create, cancel, retry, final confirmation | the machine is chosen without a lock; the Celery message is sent before the commit; broker errors are swallowed |
| the simulation task (`apps/dispatch/tasks.py`) | the process's own loaded rows | one task, three transactions | late acknowledgement, redelivery, failure after success, cancelled jobs |
| equipment (`apps/equipment`) | `Equipment.status`, `current_dispatch`, `is_active`; capability links; recipes | create, edit, maintenance, activate, deactivate | full saves with no transaction; no look at the running job; links deleted and made again one by one |
| experiment types and results (`apps/experiments`) | `ExperimentResult` | catalogue edits, manual results | a result is created by the task in its second transaction |
| accounts and sessions (`apps/accounts`) | users, profiles, refresh tokens | login, refresh, logout, first manager, administration | read-then-delete of a token; check-then-insert on an empty table |
| notifications and audit | append-only rows | written inside the workflow's transactions | a duplicate check without a constraint |
| business codes (`apps/common/codes.py`) | none | count the year's rows plus one | two transactions compute the same number; a unique index refuses one |
| realtime, reports, dashboard | a Redis cache; nothing | publish, stream; read-only queries | errors swallowed |

The browser client (paths in `src/frontend`):

| Component | State | Operations | Hard behaviour |
|---|---|---|---|
| session and API wrapper (`lib/lims/api.ts`, `hooks.tsx`) | tokens in the tab's storage, the refresh in flight, the user shown | call, refresh, retry, login, logout, session check, reload | calls that meet a 401 share one refresh; logout or login during a refresh; lost answers |
| routing (`reference-ui.tsx`, `routes/path.ts`) | the page shown, the address, the path being loaded | click, log in and out, back, bookmark | the router delivers late, remounts or not; an effect reconciles and redirects by role |
| data hooks (`hooks.tsx`, all pages) | the row shown, waiting, error | fetch, poll, change of key | answers in any order, polls that stop when the row has ended |
| status views (`api.ts`, `fab.tsx`, `lab.tsx`, `mgr.tsx`) | none | names of statuses, tabs, pipelines, progress, the buttons offered | statuses are merged, then decided on |
| request and sample pages | form, dialogs, busy flags, the rows shown | save, submit, approve, reject, return, cancel, close, receive, bulk receive | chains of calls that break; pages that show old rows; components that are gone when the answer comes |
| buttons and dialogs | busy flags, ids of busy rows, the open dialog | press, open, close | a dialog closed and opened under a call |
| forms for a batch, a machine, a recipe | fields, effects, what was fetched | choose, tick, save | effects that depend on one field and reset another; lists that come late |

The client calls the backend over HTTP and nothing else; the backend's parts
interact through the database only, apart from two channels: the Celery message
that `create_dispatch` hands to the broker for the task, and the `on_commit`
callback of a confirmation. Several API processes (`docker-compose.yml:61` starts
three) and several workers run at the same time. `ATOMIC_REQUESTS` is not set, so
an endpoint's first read is outside the service's `transaction.atomic()`, and the
isolation level is PostgreSQL's READ COMMITTED. That is the source of nearly every
hard behaviour of the backend: a decision taken on a row that has changed since.
The client's is its mirror image: a page acts on what it was shown some time ago,
and an answer arrives in a page that may not be the one that asked.

What makes the parts correct, in the terms of the modules:

* wafers and experiments: an experiment is in a batch exactly while it is
  active; its batch holds its wafer and runs its recipe; a wafer is in one batch
  at a time; a wafer's experiments are done in order; an outcome is never
  rewritten (`ExperimentIntegrity`, `OutcomeIsFinal`, `KeepsLifecycle`);
* jobs: an ended job leaves no experiment behind, a batch has one live job, a
  confirmed job stays so, a job that started ends (`EndedJobSettledItsBatch`,
  `BatchHasOneLiveJob`, `ConfirmationIsFinal`, `RunningJobEnds`);
* machines: one live job per machine, which knows it (`MachineRunsOneJob`);
* requests: one form is one request, a request only advances, it has arrived
  when its wafers have, and a closed one has nothing left to do
  (`OneSubmissionPerForm`, `RequestOnlyAdvances`, `ArrivedRequestIsReceived` with its
  weaker form `ArrivalNeedsARace`,
  `ClosedRequestIsDone`);
* proposals: no wafer is batched twice, nothing confirmed is lost, and what the
  page calls ready is what is taken (`WaferBatchedOnce`,
  `ConfirmedProposalHasNoWafer`, `LockedBatchIsFollowedUp`,
  `ConfirmTakesWhatIsReady`);
* what is shown: done means done, a button offered is a call that is served,
  progress never drops, a view catches up and shows what it was last asked for
  (`DoneMeansDone`, `OfferIsServed`, `ProgressNeverDrops`, `PolledViewCatchesUp`,
  `GuardedViewShowsItsKey`);
* the client's own state: whoever is shown as signed in can act, every call ends,
  the address and the page agree, no button stays grey for ever and none sends
  twice, a form sends what belongs together (`ShownSessionIsUsable`, `CallsEnd`,
  `SettledPageIsAsked`, `AppSettles`, `GreyButtonWaits`, `PressSendsOnce`,
  `BatchMatchesItsRecipe`, `ParametersStayWithTheirRecipe`,
  `UntouchedCapabilitiesStay`).

## The modules

```
LabData ── Commissions ────┐                             LabViews ─┬─ MCLab         (TLC)
   │  ├─── WipBatches ─────┤                          ┌──┘  │     └─ LabCalmProofs (TLAPS)
   │  ├─── EquipmentAdmin ─┼─ LabWorkflow ── LabProperties ──│──── LabProofs ──┘
   │  └─── DispatchJobs ── DispatchTasks ┘        │      StatusViews
   │                                   INSTANCE ExperimentLifecycle
BatchPlanning ── QueueProposals ─┬─ MCProposals                                (TLC)
                                 └─ ProposalsProofs                            (TLAPS)
RequestService ─┐                ┌─ MCIntake                                   (TLC)
StatusViews ────┴─ RequestPages ── Intake ── IntakeProofs                      (TLAPS)
ClientSession ─┬─ MCSession                                               (TLC)
               └─ SessionProofs                                           (TLAPS)
ClientValues ─┬─ ClientRoutes ─┐                   ClientRoutes ── RoutesProofs (TLAPS)
              ├─ PolledViews ──┼─ MCPages (TLC)    PolledViews ─┐
              ├─ PageActions ──┘                   PageActions ─┴─ PagesProofs
              └─ Catalogue ─┬─ BatchForm ───┐
                            ├─ MachineForm ─┼─ MCForms (TLC), FormsProofs (TLAPS)
                            └─ RecipeForm ──┘
```

The backend:

| Module | Models |
|---|---|
| `LabData` | the tables: one function per column that a guard reads, the status choices, reverse foreign keys, the type invariant `TypeOK`, the initial rows |
| `Commissions` | `receive_sample`, `reject_sample`, `cancel_request`, `close_request`, `update_sample_status` |
| `WipBatches` | `create_wip` with `_validate_samples` and `_next_ready_sample_experiment`, `lock_wip`, `cancel_wip` |
| `DispatchJobs` | `create_dispatch` in three steps, `retry_dispatch`, `cancel_dispatch`, `final_confirm_dispatch`; the broker and the open transactions |
| `DispatchTasks` | `run_dispatch_job` one step per transaction, `sync_request_completion`, acknowledgement, the two ways a worker dies |
| `EquipmentAdmin` | the manager's machine endpoints |
| `LabWorkflow` | all of them over the same tables, with calls in flight; `Spec` |
| `LabProperties` | the properties, the inductive invariant `LabInv`, `FairSpec` |
| `ExperimentLifecycle` | the abstract specification: what the laboratory promises about a wafer's experiments, with no requests, jobs, machines or messages |
| `BatchPlanning` | `_effective_batch_size` and the chunking loop, as operators: a chunk is a slice of the wafers in the order of the list, and what each chunk is planned for follows from the chunks before it |
| `QueueProposals` | automatic batching, proposals, their edits, confirmation, `queue_dispatches`; what the page calls ready |
| `RequestService` | the server's side of a request up to its closing: drafts, submission, the manager's decisions, receipt; a call is served in two steps |

The browser client:

| Module | Models |
|---|---|
| `ClientSession` | the token store, `request` with its shared `refreshInflight` and retry, login, logout, `loadSession`, reloads; the server's rotation |
| `ClientRoutes` | `routeToPath`, `routeFromPath`, what every page links to, redirects by role, `navigate`, the router, the reconciling effect |
| `PolledViews` | `useData` and the pages' own data hooks, by whether they poll, whether their key changes, and whether they drop late answers |
| `StatusViews` | the maps of statuses, the lists, tabs, pipelines, progress and the buttons chosen by them: operators, no state |
| `LabViews` | `StatusViews` over the tables of `LabWorkflow`, and the properties that relate what is shown to what is so |
| `RequestPages` | the requester's form and detail page, the manager's detail page and dialog, the laboratory's list of samples |
| `Intake` | those pages, the network and `RequestService` together |
| `PageActions` | every other button that acts on the server, the mark that greys it, its dialog |
| `BatchForm`, `MachineForm`, `RecipeForm` | the form for a batch; the form for a machine with the two PATCHes of a save and the server's capability links; the form for a recipe |
| `ClientValues`, `Catalogue` | the constants they share |

`MCLab`, `MCProposals`, `MCSession`, `MCIntake`, `MCPages` and `MCForms` give the constants
values for TLC. The eight modules whose names end in `Proofs` hold the proofs.

Operators under a comment "Defect variant" are not part of the specification:
each is the form a plausible mistake would give the definition that follows it.
Putting it in that definition's place must break a property of a run, which
shows that the property depends on the code.

## How code becomes actions

### The backend

**Tables.** `reqStatus`, `sampleStatus`, `sampleWip`, `expStatus`, `expWip`,
`wipStatus`, `wipItems`, `wipRecipe`, `jobStatus`, `jobWip`, `jobEquip`,
`jobConfirmed`, `jobResult`, `eqStatus`, `eqCurrent` and `eqActive` are the
columns of the Django models. A row that does not exist yet has the status
`"absent"`. Identifiers are handed out from the constant sets `Wips` and `Jobs`;
rows are never deleted in this part of the system.

**Transactions.** A `transaction.atomic()` block is one step, at its commit. This
is exact where the rows a handler reads are locked (`create_wip` locks wafers and
experiments; `final_confirm_dispatch` locks its job). `create_dispatch` is the
exception, because its effects are visible in two moments: `BeginDispatch` locks
the batch and reads an idle machine without a lock, `SubmitDispatch` inserts the
job and hands the message to the broker, `CommitDispatch` makes the rows visible.
Between them anything else may run; a worker that takes the message then finds
no row (`MissDispatch`). `AbortDispatch` is a rollback: the insert refused
(before the message) or a process that died (after it). The rows written at the
commit are written without reading them again, so moving those writes to the
commit step loses nothing; what other transactions must wait for is kept by
`WipLocked` and `JobLocked`. Only one transaction at a time is between
`SubmitDispatch` and its commit: the job's number is unique and counted from
committed rows, so a second insert waits on the index. `retry_dispatch` is the
same three steps with the failed job in `retryOf`; its lock on the machine's row
is not modelled, which only adds behaviours.

**Stale rows.** Endpoints that load a row and then call a service which trusts it
are parameterised by what they loaded. `CallServed` loads and handles in one
step; `CallLoaded` puts the loaded row in `calls`, `CallHandled` uses it later,
whatever has changed. Guards read the loaded columns (`seen`), and full
`save()`s write them back: `receive_sample` restores `current_wip`,
`cancel_dispatch` the confirmation and the machine's activity,
`update_equipment` the machine's job. `CallDropped` is a `DomainError` or a
client that left. Handlers that write nothing when their guard fails are simply
not enabled.

**The task.** A worker's record in `task` is a phase and the columns it loaded.
`TakeMessage` loads; `StartRun` is the first transaction, which checks nothing;
`FinishRun` the second, with the verdict of the simulator chosen freely;
`FailRun` the `except` branch, which is reached from an equipment fault, from an
error of either transaction, and, when `ReportMayFail`, from the log and
notification calls after the second one; `Acknowledge` the return. `WorkerDies`
returns the message to the broker (`CELERY_TASK_ACKS_LATE`); `PoolProcessDies`
is the death of the prefork child alone, where Celery acknowledges the message
because `task_reject_on_worker_lost` is unset. The progress loop between the
transactions only moves columns that nothing here reads.

**Machines.** `update_equipment` accepts any status and activity, so the step
chooses them; the job it writes back is the loaded one.

**Abstractions.** Recipe, material and priority compatibility are folded into one
recipe per experiment (`RecipeOf`), as there is one active recipe per experiment
type and `create_wip` compares just that; the repair branch of
`_next_ready_sample_experiment` that creates missing experiment rows is not
taken, since `create_request` creates them. `bulk_receive` is several
`receive_sample` calls. Which machines support a recipe (`Capable`) does not
change. Histories, audit rows, notifications, logs, realtime events, progress,
names and dates are left out: no guard reads them.

**Proposals.** `QueueProposals` sees a wafer only as batching does: on its way,
received, batched or gone; a machine by its status; a proposal batch as a row
with its machine and its items. `ConfirmProposal` is one step, as the code locks
the proposal and its wafers; users may reorder the batches, so every order is
tried. An edit holds the row its endpoint loaded (`edits`); its `save()` inserts
a row again that was deleted in the meantime. After the commit the callback is a
`plan` worked off one `create_dispatch` at a time, between the steps of everyone
else. A dispatch can always be refused (its number may be taken), and then the
managers are told at the end (`told`). `SampleChanges`, `MachineChanges` and
`BatchByHand` are what the workflow modules do, seen from here; the last one also
cancels a batch. A callback that dies with its process, or whose notification
raises, loses the rest of its plan (`LosePlan`).

**What a confirmation shows.** `ShownReady` is what the proposal's page calls ready
to dispatch (a batch with a machine, or for which one is idle); `TakesPart` is what
`confirm_proposal` takes. `ConfirmTakesWhatIsReady` compares the two in the step.

**Requests before the laboratory.** `RequestService` sees the same tables as
`Commissions` from the other side. A call is `sent`, then `Begin`s (the row is
loaded, the guard evaluated, the sibling wafers read), then `Commit`s what was
decided, then is `answered`; the siblings are read at the one or the other. Any
number of calls are between `Begin` and `Commit` at once, as with the three web
workers of `docker-compose.yml`, and none of them locks a row. A commit saves the
whole row its endpoint loaded: `update_request` sets the status back to draft with
it. `raced` is a history: the rows that two calls were served on at once after both
had passed their guards; the properties say what holds of all others. The desk's
Reject sends an empty reason, which `reject_sample` refuses (`ReasonGiven`).
What the laboratory does with a request it received is one step there (`Process`),
since `LabWorkflow` says what it does.

### The browser client

**Handlers.** JavaScript runs a handler up to its first `await` without
interruption: that is one action, and what follows the `await` is another, which
takes the answer from the record of the call in flight (`calls`, `call`, `sends`,
`saves`, `recipeCalls`, `fetches`). The record keeps what the closure captured (the
row, the component instance, the key), because the handler goes on also when its
component is mounted no more. The network can lose a call on its way or its answer
on the way back; the page cannot tell the two apart.

**Components.** A component instance is a number (`mount`, `visit`, `opening`):
`useState` of an instance that is gone is not the state of the one that is there
now. Dialogs that are mounted for each opening and dialogs that stay mounted and
are reset by an effect behave differently under a late answer; `PageActions` keeps
both kinds, `RecipeForm` and `MachineForm` are of the second.

**Effects.** An effect runs after the render that its dependencies changed in. Where
nothing can happen in between (`BatchForm`, `RecipeForm`) it is part of the action
that changed them; where the router or an answer can (`ClientRoutes`) it is a step
of its own with the flag `dirty`.

**What is shown.** A page's rows are as old as its last fetch. `RequestPages` keeps
what the row offered when it was fetched and refetches in steps of their own.
`PolledViews` looks at the fetching itself: a row is a version that grows while
the row is open, so an old answer is a smaller number. `LabViews` is the opposite
case: the page has just loaded, and the question is whether the client's names for
the statuses hide a difference the services make.

**The session.** A pair of tokens is one number; its access half expires
(`fresh`), its refresh half is a row of the server (`live`). `Retry` starts the
refresh or joins the one in flight; `LookUpToken` and `Rotate` are the two reads
and writes of `refresh_view`; `RefreshEnds` is the resolution of the shared
promise, after which every waiting call goes on. A reload forgets all calls, but
what they sent may still reach the server (`orphans`). The login form shows at
once after a press of logout (`hooks.tsx:82-85`), so a user may sign in while the
logout and the calls of the session before are still open. `hurt` is a history of
the events that can take a session from under the user it shows: the server ended
it; the answer of a rotation or of a login was lost by the network or a reload; a
logout of the session before was answered after the login (`LateLogout`: the answer
clears the store whatever is in it); a refresh of the session before was
(`Overtaken`: its answer stores its own pair, its failure clears the store).

**Routes.** A path is its root, its segments and the tab of its query; `route`
is the page component with its id and tab. `Deliver` lets Next.js keep the app or
mount it anew when the segments differ. `asked` is a history: the page of the last
click, unless the click was overtaken (see [below](#what-the-runs-found)).

**Buttons.** A button of `PageActions` is a record: the call, the mark it sets, the
marks that disable it, the kind of its dialog, the marks that disable the button
that opens the dialog. The generic steps (open, press, close, leave, serve,
answer) are those of every handler in these pages; what a call does to the server
is in the backend's modules.

**Forms.** `BatchForm` keeps the fields and the two effects of
`WipCreationModalInner`. `MachineForm` keeps the list of ids the form edits, which holds
recipe ids and experiment-type ids (that is what the code does: the page's
capabilities are recipes, the checkboxes are types). It opens from the row of the
page (`cards`), which is as old as the page's last poll. The save is modelled as it runs: a
PATCH, a listing of the recipes, a second PATCH whose links the server deletes and
makes one by one. `RecipeForm` keeps the fields and the JSON text side by side; a
parameter is reduced to where it comes from (a recipe, the keyboard, an empty
field).

**Runs of several parts.** The modules of `MCPages` and those of `MCForms` share no
state. A behaviour of the composed specification is one of one part, chosen at the
start by `part`, with the others at rest; this checks several modules in one run
without multiplying their states.

## The runs

Passing runs (times on two cores):

| Run | Question | Properties |
|---|---|---|
| `LabRetry` (5 s) | machine faults and retries, two machines, calls one at a time: is it always clear who owns a machine, a batch and a wafer, is the verdict on record the outcome the wafers carry, and do the pages say so? | `MachineRunsOneJob`, `BatchHasOneLiveJob`, `WaferKnowsItsBatch`, `NoExperimentInADeadBatch`, `ResultMatchesExperiments`, `OfferIsServed`, `DoneMeansDone` |
| `LabStale` (1 min) | a call acts on a row it loaded earlier: does an experiment keep its batch, order and outcome, what can a stale retry or cancellation do to a confirmed result, and does the workflow implement `ExperimentLifecycle`? | `ExperimentIntegrity`, `OutcomeIsFinal`, `ConfirmationIsFinal`, `KeepsLifecycle` |
| `LabCrash` (2 min) | workers and API processes die, the broker and the reporting calls fail, messages come twice: is an ended job settled, a closed request done, does the progress shown never drop, and does a death take no confirmation back? | `EndedJobSettledItsBatch`, `ClosedRequestIsDone`, `ProgressNeverDrops`, `ConfirmationIsFinal` |
| `LabLive` (30 s) | wafers put back among the received by hand, machines edited while they work, a worker that dies: does the inductive invariant survive, does a started job end, is a queued message served? | `LabInv`, `RunningJobEnds`, `VisibleMessageIsServed` |
| `Proposals` (90 s) | overlapping chunks, an edit in flight, machines that come and go, a lost callback: is each wafer batched once, each confirmed batch followed up, and does a confirmation take what the page showed? | `WaferBatchedOnce`, `ConfirmedProposalHasNoWafer`, `LockedBatchIsFollowedUp`, `ConfirmTakesWhatIsReady` |
| `Session` (3 min) | calls of a tab share a refresh while two users log in, out and reload, also over the open calls of the session before: is a token spent once, and can the user shown as signed in act? | `SessionTypeOK`, `RefreshIsShared`, `ShownSessionIsUsable` |
| `SessionEnds` (40 s) | one user, everything else the same: does every call end, and the spinner of the session check disappear? | `CallsEnd` |
| `Intake` (90 s) | three people act on one request from pages that show old rows, over a network that loses calls, served by processes that run side by side: is one form one request, one wafer one arrival, does the request arrive with its wafers and only advance, and does a grey button come back? | `OneSubmissionPerForm`, `WaferArrivesOnce`, `ArrivalNeedsARace`, `BusyPageAwaitsACall`, `RequestOnlyAdvances` |
| `Pages` (45 s) | do address and page stay together, do views catch up and show what was asked, do buttons send once and come back? | `SettledPageIsAsked`, `AppSettles`, `GuardedViewShowsItsKey`, `PolledViewCatchesUp`, `GreyButtonWaits`, `PressSendsOnce` |
| `Forms` (45 s) | a form that is closed under its save and opened again over lists that come late: does what it sends belong to what it was opened for? | `BatchMatchesItsRecipe`, `ParametersStayWithTheirRecipe`, `UntouchedCapabilitiesStay` |

`LabRetry` assumes what its name for the property group says (`LabProperties`: "With
calls served one at a time and no crash"): no broker or reporting failure, no
cancellation of batches or jobs, one `create_dispatch` at a time. Its properties are
what the tables are meant to say to each other; which of these assumptions each of
them needs is what the theorems of `LabCalmProofs` say. `MachineRunsOneJob` needs
all of them, one open dispatch among them: `LabDoubleBooking` opens two and breaks
it, so it is checked here for the retries alone and no theorem is stated about it.
`ConfirmationIsFinal` says what can take a confirmed result back, and its runs let
all of it happen: a retry or cancellation that loaded the job before it completed
(`LabStale`), a task that is still on the job because its message came twice or its
reporting call failed (`LabCrash`). No other step of any actor does. `ResultMatchesExperiments`
speaks of batches that were run once: a failed run settles the experiments as failed,
and a retry that passes finds none left in the batch, so its PASS result stands beside
failed experiments. `DoneMeansDone` is about the same behaviours: a wafer is shown as
done, by the client's rules over the statuses, only when it has no experiment left to
wait for.

`OneSubmissionPerForm` allows one more submission for each submission whose answer
the network lost; without a loss the bound is one. `WaferArrivesOnce`,
`ArrivalNeedsARace` and `RequestOnlyAdvances` except the wafers and requests in
`raced`: the exception is per row, so overlapping calls on two requests, or on two
wafers as far as the wafers are concerned, are covered. It cannot be dropped, since
the code locks nothing there: two overlapping receipts of one wafer record two
arrivals, two of sibling wafers leave the request waiting (`IntakeBulkReceive`, without
the exception), and an approval that commits after an overlapping cancellation takes
the request back. `PolledViewCatchesUp` says nothing of the views that never poll.

Violation runs, each with one property that a test or the code states:

| Run | Property | Story |
|---|---|---|
| `LabDoubleBooking` | `MachineRunsOneJob` | two open `create_dispatch` transactions read the same idle machine |
| `IntakeBulkReceive` | `ArrivedRequestIsReceived` | the two receipts of a bulk receive are served by two web workers; each reads the other's wafer as pending, and the request stays at `waiting_sample_receive` for ever: the wafers are received already and will not be received again |

## Bounds

The laboratories have one request with two wafers; the first needs two
experiments in sequence with different recipes, so promotion from one experiment
to the next, a batch of both wafers, two batches of one wafer and "all wafers
finished" all happen. `LabRetry` adds three batches, three jobs, two machines and
two workers: a retry, and two machines busy at once. `LabStale`
keeps one wafer with its two experiments, two batches, two jobs, one machine and
one call in flight (`MaxCalls = 1`): every stale effect needs one stale row
against current rows, and the interleaved handlers are unrestricted. `LabCrash`
has one death (`MaxCrashes = 1`) among two batches and jobs: enough for every
step to be cut and every message to come twice; a second death starts again from
a state of the same kind. `LabLive` has one batch, two jobs, one machine, two
workers and one death, with the machine endpoints and `update_sample_status` acting
on current rows (`LabInv` with stale ones is proved, not run). `MaxOpening` bounds transactions of `create_dispatch`
open at once (2 only in `LabDoubleBooking`; elsewhere one, with the rest of the
system interleaved). `Operations` and `ManualStatuses` select the endpoints
users call in an instance, named in each `.cfg`. Batches, jobs, machines are
symmetric and declared so in safety runs only. `CHECK_DEADLOCK FALSE` because
the system may really stop: the identifiers are used up, or nobody calls.

`Proposals`: two wafers, one recipe with batches of two, one machine for one
wafer and one for two. When the larger is offline the step between chunks is one
and their size two: they overlap, and the two proposed batches share a wafer.
One proposal, two batch rows, one edit in flight, one death.

`Session`: two accounts, one data call beside the session check, login and
logout: a data call and the logout of one session meet a 401 together, and both may
still be open, waiting for their refresh, when the other user signs in and sends the
next; three pairs of tokens (`MaxTokens`), so a login whose answer is lost is
followed by another login and its rotation; one reload. That more calls and pairs
change nothing is proved for the three safety properties. `SessionEnds` has one
account and two pairs, which is what its liveness takes in a minute.

`Intake`: two requests, one of them with two wafers and with pages of its own
(`Opened`); the other one is what a second press of the form creates. Two calls in
flight, one lost, two forms or dialogs (`MaxMounts`). `Teams` names who is at work
together: every pair but author and owner, who are the same person. Both calls may be
served at once. `IntakeBulkReceive`: the laboratory alone.

`Pages`: one id, six clicks after the page has loaded (it takes four for a click to
be overtaken on its way back to a page whose tab the address loses, see below), all
roles, all pages and links; two keys, two
changes of a row and two open fetches (one to be overtaken); two rows, two calls in
flight and two openings of a dialog. `Forms`: two types with one recipe each, one
with a schema of one parameter and one with none; three wafers, a machine and a
recipe for one and for two; one manager with two saves under way (closed under the
first and saved again; two managers' saves interleave in the theorem only, the run
would take too long with the cards of both); one call of the recipe form.

The proofs do not use any of these bounds.

## Fairness

`FairSpec` of `LabProperties` asks for weak fairness of each worker (`WorkerStep(k)`:
Celery prefetches one message and loops) and of the two steps that carry an open
`create_dispatch` to its commit, which no user input delays. Nothing is assumed
of users, so no property says that a batch is locked or dispatched. `RunningJobEnds`
and `VisibleMessageIsServed` hold with a worker death and redelivery, but not
with the death of a pool process: the message is then acknowledged, so `PoolMayDie`
is FALSE in `LabLive`. That is a real gap of the deployment (the job stays
RUNNING), recorded as a hazard.

`FairSpec` of `ClientSession`: the server answers what reaches it and the page's
continuations run. Nothing is assumed of the user, the clock or the network;
`CallsEnd` holds since a lost call ends as well, by its error. `RoutesFairness`:
React runs its effects, the router delivers what was pushed last, the session
check is answered; the user need not click. `ViewsFairness`: the interval ticks
(weak), and an answer that is asked for again and again comes and arrives (strong:
single fetches may fail for ever only if all do). A row that never stops changing
would never be caught up with, so the property is "eventually always" over rows
that change finitely often (`LastVersion`).

## The proofs

`LabProofs` proves about `Spec` of `LabWorkflow`, for any number of requests,
wafers, experiments, batches, jobs, machines, workers, calls in flight, open
transactions and crashes, and with every fault switched on or off:

| Theorem | States |
|---|---|
| `TypeCorrectness` | `[]LabTypeOK` |
| `LabInvariant` | `[]LabInv`, the inductive invariant |
| `ExperimentsKeepIntegrity` | `[]ExperimentIntegrity` |
| `EndedJobsSettle` | `[]EndedJobSettledItsBatch` |
| `ClosedRequestsAreDone` | `[]ClosedRequestIsDone` |
| `OutcomesAreFinal` | `OutcomeIsFinal` |
| `LabImplementsLifecycle` | `KeepsLifecycle`: the workflow implements `ExperimentLifecycle` |

Assumptions: `ForeignKeysAssumption` (foreign keys name rows),
`SequenceAssumption` (`create_request` numbers a wafer's experiments without
repetition), `NullAssumption`, `BoundsAssumption` and the two assumptions that
the fault switches are Boolean. TLC evaluates all of them in every run.

The argument. `StateInv` is type correctness with the existence of the rows that
jobs, tasks and transactions refer to; it has one lemma per handler
(`...Type`), since a row's columns are only typed once the row exists.
`BatchRunsItsRecipe` needs in addition that the loaded columns a call writes
back are themselves of the right kind (`CallRowExists`). The rest of
`ExperimentIntegrity` is not proved handler by handler: `StepRefines` shows that
under the invariant every step of `LabWorkflow` is a step of
`ExperimentLifecycle` or leaves `expStatus` and `expWip` alone, and
`LifecycleKeeps` shows that the three actions of `ExperimentLifecycle`
preserve "active iff batched", "one experiment per wafer", "in sequence" and
never rewrite an outcome. The two halves need each other: a task settles exactly
the experiments of its batch only because `BatchRunsItsRecipe` says that they
are all on the batch's wafers (`SettledIsBatch`), and a batch that
`CreateWip` makes is empty before because no experiment points to an absent row.
`EndedJobSettledItsBatch` then follows because only `CreateWip` puts experiments
into a batch and only into a new one; `ClosedRequestIsDone` because the only
steps that close a request check its experiments and finished ones stay so.

`LabCalmProofs` proves what the tables are meant to say to each other and what the
pages say of them, again for a laboratory of any size. A theorem names what it
assumes of the constants. *Calm* is `MaxCalls = 0` (a service acts on the row that
its endpoint has just loaded), `MaxCrashes = 0` and `~ReportMayFail`; the broker may
still lose messages, runs may fail and be retried, jobs be cancelled, and any
number of dispatches be opened side by side, unless the theorem says otherwise.

| Theorem | States | Assumes |
|---|---|---|
| `ConfirmationsAreFinal` | `ConfirmationIsFinal` | nothing |
| `BatchesHaveOneLiveJob` | `[]BatchHasOneLiveJob` | calm, no `cancel_wip` |
| `WafersKnowTheirBatch` | `[]WaferKnowsItsBatch` | calm, no `cancel_wip`, nobody sets a wafer to `received` by hand |
| `ResultsMatchExperiments` | `[]ResultMatchesExperiments` | the same |
| `DeadBatchesAreEmpty` | `[]NoExperimentInADeadBatch` | no `cancel_wip` |
| `ShownDoneIsDone` | `[]DoneMeansDone` | calm, no `cancel_wip`, nobody sets a wafer to `received` or `completed` by hand |
| `OffersAreServed` | `[]OfferIsServed` | nothing |
| `ProgressOnlyGrows` | `ProgressNeverDrops` | finitely many experiments |

The hypotheses are where the code takes no lock or looks at no status. A service
that acts on a row loaded before the transaction (stale rows), a message that comes
twice, a reporting call that fails the job after its completion committed, the
wafers that `cancel_wip` gives back while their experiments stay in the batch, a
status set by hand past every guard: each of them breaks the property (see the
findings below). `OfferIsServed` is about the buttons its comment lists; record,
receive and the other buttons of a batch are not among them, and the theorem claims
nothing of those.

The arguments. `ConfirmationsAreFinal`: a dispatch that is open creates a job that
nobody has seen (`OpeningIsNew`) and keeps the row of the job it retries locked until
it commits, so its commit takes no standing confirmation away; what is left are the
calls, whose guards read the status they loaded, and the task. `JobsInv`: a message that is held belongs to the one task of its job,
one that is ready to a job that has not run, and the phase of a task fixes the
status of its row (`TaskFollowsJob`).
`BatchesInv` adds which status of a batch goes with which stage of its job; the row
of the batch, which `create_dispatch` locks, keeps two open dispatches apart
(`OpeningIsExclusive`), and this is where a retry needs its own clause: the failed job
waits for it. `WafersInv`: a batch that is not settled holds its wafers, except those
that failed before a retry (`BatchHoldsWafers`, `FailedWaferIsOut`), and nothing is
received again once an experiment of the request has left the queue. `DoneInv` and
`DraftHasWafers` are what the pages need: no request is stored as completed, and a
draft that can be locked has wafers. `ProgressNeverDrops` is a step property that
follows from `OutcomeIsFinal` and the cardinality of the sets that are counted.

`ProposalsProofs` proves about `Spec` of `QueueProposals`, for any wafers, recipes,
machines and bounds:

| Theorem | States |
|---|---|
| `ProposalsTypeCorrect` | `[]ProposalsTypeOK` |
| `WafersAreBatchedOnce` | `[]WaferBatchedOnce` |
| `ConfirmedProposalsAreEmpty` | `[]ConfirmedProposalHasNoWafer` |
| `LockedBatchesAreFollowedUp` | `[]LockedBatchIsFollowedUp` |
| `ConfirmationsTakeWhatIsReady` | `ConfirmTakesWhatIsReady` |

The inductive invariant `ProposalsInv` says that what a batch took is batched and
stays so (`TakenIsBatched`; that chunks overlap is then harmless, as `create_wip`
refuses the second taker), that a deleted row and every row of a confirmed proposal
is empty (`RowsAreAccounted`; a stale edit can bring the row back, its items went
with it), that an edit in flight names a row (`EditsNameRows`), and that a draft
batch was made by a lab user, so that nobody has to be told of it (`DraftsAreTold`).
To be provable the planning loop is written without recursion: `Starts` gives the
first position of each chunk, `Place` and `Slice` cut the ordered wafers there.

`SessionProofs` and `IntakeProofs` are about the specifications of
`ClientSession` and `Intake`, for any accounts, calls, token pairs and reloads, and
for any requests, wafers, calls, losses and forms:

| Theorem | States |
|---|---|
| `SessionTypeCorrect` | `[]SessionTypeOK` |
| `OneRefreshInFlight` | `[]RefreshIsShared` |
| `ShownSessionHolds` | `[]ShownSessionIsUsable` |
| `IntakeTypeCorrect` | `[]IntakeTypeOK` |
| `FormsSubmitOnce` | `[]OneSubmissionPerForm` |
| `BusyPagesAwaitTheirCalls` | `[]BusyPageAwaitsACall` |
| `WafersArriveOnce` | `[]WaferArrivesOnce` |
| `RequestsArriveWithTheirWafers` | `[]ArrivalNeedsARace` |
| `RequestsOnlyAdvance` | `RequestOnlyAdvances` |

None of them restricts how calls overlap. The session: the promise `refreshInflight`
is set exactly while the call that started the refresh waits for it (`SharedInv`),
which is why a token is presented once. `ShownInv` follows the pair a page holds
through a rotation: between refreshes the stored pair is one that the server knows
and no page that is gone will rotate (`StoredPairIsSound`); during one, first the
token on its way is, then the pair it was exchanged for (`RefreshIsSound`, which claims
nothing of a refresh of an earlier pair); a login brings a pair that is its own
(`GrantIsSound`); pairs on their way are not in use (`PairsAreApart`), which is what
keeps the refresh or the logout of the session before off the new pair; and only the
session check runs alone (`PageIsOrderly`).

Intake: two calls that are served at once and write a common row have put it in
`raced` (`RacesAreKnown`). So while the request of a call is not there, what its
endpoint checked and read of the sibling wafers still holds when it commits
(`GuardsHold`), from which `RequestOnlyAdvances` and `ArrivalNeedsARace` follow; a
commit leaves the rows of other requests alone (`RowsUntouched`). The arrivals need
less, only that no second call was served on the wafer itself, since another one may
have raced it on the request: a wafer that waits was never received (`PendingIsNew`),
and a receipt that is being served is its wafer's first (`FirstReceipt`). The pages' two
properties need none of this: a form has one call on its way and is busy with it while
it is mounted (`FormsAreBusy`), and what it submitted a second time it had not been told
of (`SubmissionsAreCounted`).

`RoutesProofs`, `PagesProofs` and `FormsProofs` are about the browser's single modules,
for any values of their constants:

| Theorem | Module | States |
|---|---|---|
| `PathsNameTheirPages` | `RoutesProofs` | what `routeToPath` writes is read back as the page and row it was written for |
| `SettledPagesAreAsked` | `RoutesProofs` | `[]SettledPageIsAsked` |
| `LoadedViewShowsItsKey` | `PagesProofs` | `[]GuardedViewShowsItsKey` |
| `FlagsLetOneCallThrough`, `GreyButtonsAwaitACall` | `PagesProofs` | `[]PressSendsOnce`, `[]GreyButtonWaits` |
| `BatchesMatchTheirRecipes` | `FormsProofs` | `[]BatchMatchesItsRecipe` |
| `UntouchedCapabilitiesAreKept` | `FormsProofs` | `UntouchedCapabilitiesStay` |
| `ParametersAreOwn` | `FormsProofs` | `[]ParametersStayWithTheirRecipe` |

`RoutesProofs`: first the functions of `routes/path.ts`, page by page: a path that was
written for a page of any role is read as that page and row (the tab may be lost), and
every link of a role's pages, sidebar and notifications leads to a page that the
role may see. Then `RoutesInv`. While the effect is due (`DueInv`), what was asked for
is in the address or was asked before the login. When it has nothing to do
(`SteadyInv`), the address is the path of the page, or the router holds that path, or
it holds one whose delivery the effect will notice, because it stands for another
page than `syncedInitialRoute`, or one that stands for the page shown. A notification's
path never stands for the list it is opened from, which is why its delivery is
noticed; `VisitorInv` and `LoadingInv` carry this over a logout and a remount.

`PagesProofs`, the views: a guarded view may show only its key because, first, a fetch
that is open and not dropped is for the present key (`FetchesFollowTheKey`), which needs
that a guarded view with a changing key never polls, as a poll is never dropped
(`GuardedKeyedHooksNeverPoll`, read off the list of hooks); second, what is shown
without waiting came from such a fetch. The buttons: `ActionsInv` says that while a call
of the present visit is in flight under a page's flag, the flag is set (`FlagsHeld`),
the same per opening for the flag of a mounted dialog (`DialogHeld`), that every mark
that is set belongs to a button of the page (`MarksBelong`), and that while a dialog is
open the page's flags that would have kept it from opening are clear (`DialogOK`). Each
page's set of buttons has to satisfy `PageOK` (every button greys itself or is behind
one that does; a page's dialogs are all kept, all mounted, or closed by the press),
which is shown page by page.

`FormsProofs`: the batch form's fields agree at any time, not only when they are
sent (`BatchInv`): this is where both effects of a change of type are needed. A
save of a machine carries only recipes of the types that were ticked when it was
pressed (`SaveFollowsItsTicks`), and the form's list follows its ticks
(`FormHoldsItsTicks`). A recipe holds values that were typed or its own
(`RecipeInv`): the rows are old copies of recipes (`RowsAreOwn`), an open form holds
only values of the recipe it edits (`FormIsOwn`; the fields that a closed one keeps may
be anybody's), and a save carries what the form held, with the fields of its type, which
an edit cannot change (`CallIsOwn`).

Assumptions, all evaluated by TLC in the run of the component: `SessionAssumption`,
`ServiceAssumption` (finitely many requests and wafers; null is no status),
`PagesAssumption`, `PlanningAssumption` (finitely many wafers, and no two of them or of
the machines rank the same: the order of a list ends with the primary key),
`RoutesAssumption` and `NullAssumption` of `ClientRoutes` (null is no page; no row has
the id `new`), `ViewsAssumption`, `ActionsAssumption`, `ButtonsAssumption`,
`CatalogueAssumption`, `BatchFormAssumption`, `MachineFormAssumption`,
`RecipeFormAssumption`, `RecipeRowAssumption`. The inductive invariants hold in
TLC's runs too, `RoutesInv` with seven clicks and those of a calm laboratory in `LabRetry`.

What the proofs found that the bounded runs had not shown:

* `SettledPageIsAsked` once said that the address is always the path of the page. The
  invariant could not be closed: it takes four clicks, one more than the run then
  had, to leave a tab in the address that the page does not know (see below). The
  property now says so and the run has six clicks;
* a lost login: when the server has granted a session whose answer the network drops,
  the page goes on with what it stored before, which may have ended long ago. `hurt` had
  been reset by the grant and now counts the loss; the run has the third pair this takes;
* several properties of `LabRetry` hold far beyond that run's assumptions (`OfferIsServed`
  and `ProgressNeverDrops` in every laboratory, `NoExperimentInADeadBatch` in every
  laboratory without `cancel_wip`), while `DoneMeansDone` needs that no message comes
  twice: a run that is repeated after its completion committed could complete a wafer
  whose next experiment has begun.

Model-checked only, since the prover has no liveness under fairness: `RunningJobEnds`,
`VisibleMessageIsServed`, `CallsEnd`, `AppSettles`, `PolledViewCatchesUp`.

## What the runs found

Two disagreements between the code and what it or its tests say are listed
under `findings`, each with a violation run (see above).

Other behaviour met while modelling, without a run of its own. In the backend:

* `dispatch/services.py:221`: a worker that takes the message before the commit
  finds no row; `DispatchJob.objects.get` raises outside the `try`, the message is
  acknowledged, then the job commits as QUEUED and nothing will run it;
* `tasks.py:49`: the message of a cancelled job is not revoked and the task does not
  look at the status: a cancelled job still runs;
* `dispatch/services.py:317`: a retried job stays RETRYING, so "all jobs of the batch
  COMPLETED" is never true of its batch, which stays RUNNING;
* `wip/services.py:311`: `cancel_wip` gives the wafers back as RECEIVED and leaves
  their experiments IN_WIP: they cannot be batched again;
* `wip/services.py:283` and `:453`: a chunk is cut by the recipe's limit and planned
  for a machine that may hold fewer;
* `commissions/services.py:403`: `receive_sample` reads its wafer without a lock, so two
  overlapping receipts of one wafer (two laboratory users, or a press repeated after a
  lost answer) both pass the guard and both record an arrival, with a history row each.
  `apps/commissions/tests_state_machine.py:142` lists `receive` on a received wafer among
  the illegal transitions, of a table that no handler asks. The wafers this can happen to are those `WaferArrivesOnce` excepts;
* `commissions/services.py:252`: with several web workers an approval that commits
  after a rejection or a cancellation that overlapped it makes the request wait for
  wafers again, and a save of a draft (line 214) that commits after its submission makes
  it a draft again: both save the status they loaded (`RequestOnlyAdvances` excepts
  requests on which two calls raced);
* `commissions/services.py:411`: once a wafer of a request is batched, a wafer that
  arrives late is refused; `receive` also accepts the status `approved`, which
  nothing sets; a wafer of a draft can be rejected;
* `tasks.py:67` writes the request's status without looking at it: a batch that
  outlives the cancellation of its request makes the request RUNNING again;
* `tasks.py:145-158`: when a log or notification call fails after the
  completion committed, the `except` branch marks the completed job FAILED and
  its machine FAULTY, although its result and experiments stand;
* `wip/services.py:493` refuses to edit a proposal that is no draft, but checks
  a row loaded without a lock: an edit that races the confirmation brings a
  deleted batch row back, without its wafers;
* a request with a rejected wafer, or with a failed wafer whose later
  experiments stay PENDING, satisfies neither way of closing a request.

In the client's session and routing:

* a login while calls of the previous session are open can be wiped by the late
  answer of the logout, which clears the store, or overwritten by the answer of the
  refresh that those calls wait for; `loadSession` clears the tokens on
  any error, a lost answer included; a failed refresh clears the store and leaves
  the user shown; a reload between the rotation and the storing of its answer
  loses the session;
* `reference-ui.tsx:85`: a click back to the page of the address bar while another
  path loads pushes nothing, and the other path overtakes it. When a manager on
  `/manager/lab/equipment` clicks the dashboard, its alerts tile (`mgr.tsx:2127`, which
  pushes `/manager/lab/equipment?tab=alerts`) and the sidebar's Equipment before the
  router delivers, the page is right but the address keeps a tab that
  `routeFromPath` drops;
* `mgr.tsx:2086` opens the tab `submitted` and `mgr.tsx:2127` the tab `alerts`,
  which are no tabs of the pages they open; the manager's `mgr_equipment` and
  `lab_notifications` fall back to dashboards.

In the pages:

* when the submission after a create fails, the second press creates a second draft
  (`fab.tsx:1633`); a failed poll of the draft puts "Draft not found" in place of
  the form and loses its input and its busy flag; the late answer of a form that was
  left navigates the user away from where they are;
* `lab.tsx:1313` and `:1710` reject a wafer with an empty reason, which the comment at
  `lab.tsx:1311` calls optional on the backend; `reject_sample`
  (`commissions/services.py:429`) refuses it, so no press of these buttons ever rejects;
* `lab.tsx:1327-1334`: a bulk receipt frees all its rows with the first failure and
  skips the refresh; Receive is offered on wafers of drafts and of unapproved requests
  (`lab.tsx:509-512`);
* a view whose first fetch fails does not poll (the dispatch detail and list);
  the page of a batch never polls; an answer of an older chart range can stay shown;
* dialogs can be closed under their call, whose answer then closes whichever dialog is
  open by then; ids of busy rows hold one row, so the next press frees the last;
  the manager's `SecondaryBtn` ignores `disabled` (`mgr.tsx:529`, used at 941);
* a save of a machine with a ticked type that fails after the links were deleted leaves
  the machine without them (`UntouchedCapabilitiesStay` is about the saves without a tick);
* the capabilities of a machine are recipe ids while the checkboxes toggle type ids:
  ticking one type replaces all links, and a failed listing of the recipes wipes them
  (`MachineForm`); a form that edits the name with a status it loaded earlier sends
  that status back;
* the recipe form opened before the rows are refreshed saves older parameters; editing
  drops the parameters outside the schema (`mgr.tsx:1157-1161`); a new recipe gets the
  first equipment type (`compat-api.ts:18-19`); a removed recipe can still be edited;
* a batch can hold more wafers than its recipe allows when the recipe is chosen after
  the wafers, although the comment at `lab.tsx:2400-2405` speaks of a cap;
* `Start` and `Unload` only read the job again (`compat-api.ts:86-94`); recording the
  result of a failed job asks for a confirmation the service refuses;
* the requester's tab "Completed" leaves out closed requests, cancelled wafers are in no
  tab; the list of activity calls every event of a completed request "Completed" and
  the receipt of one in progress "Dispatched" (`fab.tsx:842-851`).

## Not modelled

Presentation: layout, colours, icons, the theme panel, generated UI primitives,
wording, sorting, searching and the charts; the earlier pages under
`components/lims/pages/{fab,lab,mgr}` that the routes no longer mount. The dialog that
creates a dispatch drops most of its fields before the call, so only its button is
modelled. The first manager and user administration; manual results; creating
machines. Business codes, except that they serialise `create_dispatch`: elsewhere a
refused insert is a call that fails, which the client's modules allow at any time.
Reports and the dashboard only read. Realtime events are a cache whose errors are
swallowed and which nothing in the workflow reads. The two `state_machine.py` files are
transition tables that no handler calls. Configuration and seed commands are data.
Database errors inside the task's failure transaction (the exception would leave the
task) are not modelled, nor are deadlock aborts. The rest is listed with a note in
`PROJECT.json` (`components`, `hazards`).

## Plan

Done: the tables and the workflow from receipt to closing; the task with its faults;
equipment; the abstract lifecycle and its refinement, proved; automatic batching and
proposals; requests from draft to receipt with the pages that move them; the browser
client's session, routing, data hooks, status views, buttons and forms; a theorem for
every safety invariant and action property that a passing run checks.

Next, in order of importance:

1. An abstract specification of a proposal (planned, confirmed, followed up) and the
   refinement by `QueueProposals`; lemmas about `Slice` and `Starts` (which wafers a chunk
   holds, when chunks are disjoint) and `EffectiveBatchSize`.
2. The ownership of a message (at most one worker holds a job) with crashes, and which of
   the calm laboratory's properties survive them.
3. `LockOrder`: the row locks each handler takes and in which order; where two
   handlers can wait for each other (`cancel_wip` and `create_dispatch`).

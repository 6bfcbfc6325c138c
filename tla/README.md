# A TLA+ development of MFD

MFD is a small Go service (`cmd/mfd`, `internal/`) with a web lab, a PostgreSQL
database, a JetStream work queue, a Redis cache and a scheduled updater. It replays
research experiments on a fixture data set, imports eToro portfolios, and can place
one kind of Demo order. This directory models the parts of it that have state,
concurrency and failures, checks them with TLC on small instances, and proves the
central properties with TLAPS for every value of the constants.

All paths are relative to the repository (`src/` in `PROJECT.json`). `PROJECT.json`
maps every definition that models code to the lines it stands for.

## 1. The system

| Component | State | Operations | What is hard | What makes it correct |
|---|---|---|---|---|
| **Demo order life cycle** `platform/demo_strategy.go` | tables `demo_strategy_runs`, `demo_strategy_events` | `DemoPreview`, `DemoExecute`, `DemoReconcile`, `ReconcilePendingDemo` | concurrent handlers and a sweeper on one row; a crash or a lost answer around the POST; lookups that are answered out of order | an order is posted once and only after its intent is durable; one unresolved run; a final status is true of the broker; every intent is resolved |
| **Replay queue** `platform/platform.go`, `schema.sql` | tables `runs`, `outbox`; stream `MFD_JOBS`; Redis | `Enqueue`, `dispatch`, worker loop, `process` | publish-then-mark, redelivery, duplicate suppression, restart with another data set, a consumer at its limit | no accepted run is lost, it has one outcome, computed from what was queued; it finishes |
| **Portfolio sync and key binding** `platform/broker.go` | slots, bound and conflicted keys, throttle (memory); `etoro_snapshots`, `etoro_sync_events` | `Sync`, `Run`/`syncConfigured`, `recordSuccess`, `syncDemoAfterOrder` | provider reads under a mutex and one outside it; a commit that is not heard of; two keys for one account; restart | a key serves one environment, for as long as the process lives; a status is about the key in use |
| **Updater** `scripts/deploy.py` | `status.json`, installed `deploy.py`, containers | `tick`, `deploy`, rollback, `verify` | a crash or failure after every command, a rollback that fails, main and settings that move | only commits with passed CI serve; a tick at rest leaves the accepted release; failures cool down; main is deployed |
| **Demo evaluation** `evaluateDemo` in `demo_strategy.go` | captured reads, the reviewed plan | a chain of gates over account, quote, eligibility, cost; the recheck at execution | boundary values; a restart under another account's key between any two reads | the order is the reviewed one, in the reviewed account; only that account's key decides what became of it |
| **Research replay** `internal/lab/lab.go` | none | `NormalizeExperiment`, `Value`, `ReplayExperiment` | freshness and threshold boundaries, no partial sums | every position is marked; two results differ by their experiments only |
| **eToro client** `internal/etoro` | none | portfolio, quote, order, lookup | which failures are a rejection and which are ambiguous; bodies that break off | an ambiguous answer is never taken for a rejection |
| **Schema migration** `migrate` in `platform.go` | schema and its versions | one transaction under an advisory lock | two processes starting at once | applied once |
| **HTTP API** `internal/httpapi/server.go` | none | routing, limits, the operator token | - | passes on what the services return |
| **Web lab** `internal/httpapi/web/app.js` | selected run, pending key, comparison | polling, retry with the same key | answers that arrive late | a retry reuses its key; the last selection is shown |
| **Process start and stop** `cmd/mfd/main.go` | configuration | start of services, shutdown | death between any two steps | - |
| **Operations and metrics** `operations.go` | none | read-only queries | - | - |
| **Configuration and scripts** `deploy/`, `compose.yaml`, other scripts | none of their own | - | - | - |

How they interact: HTTP handlers call the platform's services, which share the
database. The order code asks the portfolio sync for the bound Demo key, posts through
the eToro client, and triggers a portfolio read after an order. The background goroutine
of `BrokerService.Run` does the portfolio round and sweeps pending orders. The outbox
relay and the workers share only the database and the stream. The updater replaces the
process, which is the crash the other models contain.

## 2. The modules

    DemoIntent    <-refines- DemoOrder       DemoOrderProofs <- DemoOrderSafety
    DemoIntent    <-refines- DemoProbe       DemoProbeProofs
    EtoroClient, Sums <----- DemoProbe
    ReplayPromise <-refines- ReplayPipeline  ReplayProofs
    ReplayPromise, Lab <---- WebLab          WebLabProofs
    Sums <------------------ Lab             SumProofs -> DemoProbeProofs, WebLabProofs
    KeyPromise    <-refines- BrokerSync      BrokerProofs
    ReleasePromise <refines- Deployer        DeployerProofs

Each `MC*` module instantiates its model for TLC and adds a symmetry set where one is
sound: safety runs over model values that the model never tells apart. Liveness runs
use no symmetry.

### DemoOrder

A run is a row, named by its idempotency key. A process is a handler or the sweeper; its
`pc` says which step of which function is next, `verdict` and `copy` are its locals. A
row read, a transaction and a broker call are one step each.

| Code | Actions |
|---|---|
| `DemoPreview` | `PreviewEvaluate`, `PreviewInsert` |
| `DemoExecute`, `holdDemo` | `ExecuteRead`, `ExecuteEvaluate`, `HoldRun`, `SubmitIntent`, `SubmitRefused` |
| `SubmitDemoMarket`, `recordDemoSubmit` | `Post`, `ReceiveOutcome`, `RecordSubmit`, `InlineReconcile` |
| `DemoReconcile`, `ReconcilePendingDemo` | `BeginReconcile`, `LookupAnswered`, `LookupFailed`, `ApplyLookup`, `MarkUnknown`, `Abandon` |
| time, process, network, broker | `Expire`, `Age`, `Crash`, `Bind`, `BrokerReceives`, `BrokerProgress`, `ClosePosition` |

The `WHERE` clauses of the updates and the partial unique index are operators of their
own (`HoldWhere`, `RecordWhere`, `LookupWhere`, `MarkWhere`, `IndexAdmits`), because the
whole argument rests on them. Broker status IDs are abstracted to the classes
`demoLookupState` distinguishes. The broker and the network are external: a POST may be
received, refused or lost, whatever the client hears, and an order moves forward only.

`DemoIntent` is what a user is promised: a decision is held or becomes a plan, a plan
becomes an intent only while no other is open, an intent is sent at most once and closed
only after it was sent. `KeepsIntentPromise` maps the four statuses under the index to one
open phase.

The environment is selected by constants. `ReferenceIndexed` says whether the broker finds
an order by the request's reference, which `FillIsRecorded` needs after a lost answer.
`ForeignAnswers` lets a lookup return another order's ID and is needed for one run only.
`SlowCommit` lets the 30 s window elapse while the POST is on the wire.

### EtoroClient and DemoProbe

`EtoroClient` says which error each operation of the client returns for an answer, which is an
HTTP status, a form (a body that decodes, one that does not, one that broke off or is too long)
and the fields that decide. `DemoProbe` runs `evaluateDemo` on it: each of the six provider reads
is a step, with its gates as operators (`AccountGate`, `QuoteGate`, ...) on the data that was
read, in cents and seconds.

| Code | Actions |
|---|---|
| `demoClient`, `evaluateDemo` | `Begin`, `BeginUnarmed`, `ReadPasses`, `ReadHolds` |
| `DemoPreview` | `PreviewReady` |
| `DemoExecute`, `holdDemo`, `recordDemoSubmit` | `RecheckHolds`, `SubmitIntent`, `Post`, `Record` |
| `DemoReconcile`, `lookupDemoOrderWithFallback`, `markDemoUnknown` | `DemoReconcile` |
| portfolio sync, operator, broker | `Bind`, `Restart`, `BrokerProgress` |

`DemoOrder` has the races between processes and reduces an evaluation to a free verdict;
`DemoProbe` has one run, makes a transaction part of the step that needs it, and follows what
`DemoOrder` leaves out: which account, instrument and price each step speaks about. `Restart`
may change the configured key and the execution switch. The history variable `posts` counts
the POSTs, with which the one run refines `DemoIntent` too. `LateRefusals` lets a 4xx other than 429
follow an accepted order, which the code takes for impossible.

### ReplayPipeline

`run`, `outbox`, `born`, `finished` are the tables; `batch` and `relay` the locals of
`dispatch`; `pc`, `task`, `read` those of a worker; `stream` and `dedup` JetStream. Each
transaction, publish, mark, fetch and acknowledgement is a step that can fail, or succeed
without the process hearing of it. `Restart` loses every local and may bring a program with
another data set. The result column is modelled by what it was computed from.

`ReplayPromise` is what a caller relies on: a key is bound once to an experiment and a
data set and gets one outcome.

### Lab and WebLab

`Lab` is the arithmetic of `lab.go` on integers: money in 1/200000 dollar, so that products with
basis points and halved spreads are exact on a fixture whose prices are multiples of a twentieth
of a dollar, as the code's decimals are; the theorems are about this integer arithmetic, on any
fixture. `Worth` is the end of `Value`, once a mark is chosen for each position; snapshot and
decision `[i][k]` are of sleeve k at observation i. `Sums` is the loop that adds up a list, which
`Value` and the cost gate of `evaluateDemo` have in common. `WebLab` is one page of the
lab, the three handlers it calls and the runs behind them. What the pipeline does to a run is a
step of `ReplayPromise` (`Promise == INSTANCE ReplayPromise WITH run <- table`), the specification
`ReplayPipeline` is shown to implement; a run completes only if `Lab` can value its data set.

| Code | Actions |
|---|---|
| `enqueue` | `Submit`, `PostAccepted`, `PostFails` |
| `POST /api/v1/replays`, `Enqueue` | `ServePost`, `OtherCaller` |
| `refreshRuns`, `loadSelected`, `GET /api/v1/runs/{id}` | `Refresh`, `ServeLoad`, `LoadArrives`, `LoadFails` |
| the list's buttons, `selectRun` | `Click`, `ClickedEnds` |
| the worker, the browser | `Finish`, `Reload` |

The page keeps `selected`, `current`, `pendingKey` and `busy` under their names in `app.js`.
`wire` holds requests the server has not served, which may outlive the page's wait for them.
The history variable `fate` says which keys the page has drawn, and which of them
are settled: confirmed to the page, forgotten by a reload, or another caller's.

### BrokerSync

`slot` is the configuration, `scope` what the provider lets a key read, `bound`,
`conflicted`, `throttled` the service's memory, `last` and `imported` its tables, `call` the
sync that holds the mutex, `round` the background round, `followUp` the portfolio read after
an order, which is made outside the mutex. `recordSuccess` binds a key only if storing the
snapshot reported success, so a transaction has three endings: stored, failed, unheard
(committed, but the caller got an error). Sync tries the other endpoint after a denial, which
is a second step of the same call. Encryption and the shape of a portfolio are left out.

`KeyPromise` is what an operator sees of it: the first key whose portfolio is stored holds an
environment until the process restarts, a key holds one at most, a second key for it is set aside
and imports nothing more, and the newest report of an environment is of its holder's reads.

### Deployer

`running` and `env` are the app's container, `current`, `applied`, `failed`, `retry` what
`status.json` keeps, `mine` the settings the tick has read, `works` which release becomes
healthy with which settings. The file lock makes ticks exclusive, so one `pc` is enough.
Every command may fail before, while or after it replaced the container, every health check
may fail although the release is healthy, the services may die, and the updater may be
killed between any two commands. Commits are numbered in the order of their pushes: main
only moves forward (a push that took commits back is not modelled). `failed_sha` remembers one candidate; the history variable `cooling`
holds all that failed less than ten minutes ago.

`ReleasePromise` is what a team that pushes to main may rely on: what is started is the accepted
release, or a newer commit with passed CI that has not failed within ten minutes; a verified
candidate becomes the accepted release; the updater replaces itself by that release's copy only.

## 3. The runs

Times are with two workers on a small machine.

| Run | Question | Size |
|---|---|---|
| `demo_safe` | two runs, two handlers that execute and reconcile, a crash, lost answers, partial fills, a POST that outlives its window; refinement of `DemoIntent` | 2.4 M states, 2 min |
| `demo_live` | the sweeper resolves what a crashed handler left | 33 k, 10 s |
| `demo_exposure`, `demo_mismatch` | two claims the code does not keep (section 6) | - |
| `replay_safe` | one run with two callers, two experiments, two data sets, two workers, three copies of its message, two restarts; refinement of `ReplayPromise` | 0.15 M, 5 s |
| `replay_live` | two runs compete for the relay's batch and the consumer's one slot | 11 k, 22 s |
| `broker_keys` | two keys, any slots, any scopes, revocation, a restart with other settings; every key is confirmed or set aside at last; refinement of `KeyPromise` | 0.14 M, 90 s |
| `deploy_updates` | two commits, two settings, failures, a crash; refinement of `ReleasePromise` | 96 k, 3 s |
| `deploy_live` | the tip of main is deployed, services come back | 3.5 k, 7 s |
| `deploy_settings` | a claim the updater does not keep (section 6) | - |
| `probe_accounts` | a preview, an execution and lookups on values at both sides of every gate, two accounts, two instruments of one symbol, failing reads, two restarts under either key or none | 58 k, 30 s |
| `web_lab` | two keys, two experiments, another caller, POSTs that are lost, late and repeated, a reload at any time, answers in any order; the repository's fixture and one that cannot be valued | 0.33 M, 75 s |

Why these bounds. A race needs two actors besides the background goroutine, a conflict two
runs, keys or commits; no property relates three. One crash separates any two steps, since it
may come anywhere; the pipeline gets two, because a run may be taken up by a second program
and finished by a third. Three copies of a message let a duplicate be in one worker's hands,
in the other's and in the stream. The counters that bound a run (`MaxCrashes`, `MaxCopies`,
`MaxRestarts`, `MaxEdits`, `MaxWire`, `MaxClicks`) are constants, and the theorems hold for all their values.
Deadlock is checked where the system can always move; an order or a replay may be
finished, so those runs say `CHECK_DEADLOCK FALSE`. The sweeper is a process of `demo_live` only:
what it may do a handler may do as well, at any time. The values of `probe_accounts` are the last
that passes and the first that fails of each gate, for currencies, the quote's type, `canOpen`,
the symbol and the like a right and a wrong one, each wrong alone; without any one of these gates
`SubmitsAsDocumented` is violated (the account's currency has two). Its second instrument, account and quote make
each comparison of the recheck fail alone. It sets `ReferenceIndexed` to FALSE, so that the
lookup by order ID is needed. `web_lab` has the repository's fixture and one whose last mark is
late, which no run may be valued on. Its page submits the baseline and a lower threshold, so a
key may be sent again with the other (409). `ResultsAreComparable` compares a completed run with
what every experiment, a scenario of prices too, would give on the *same* data set; a name that is
refused is among the experiments. Runs of two data sets are not compared (section 6).

Hazards and the properties that answer them are listed in `PROJECT.json`. For each property
of a passing run there is a mutant: a plausible bug in the code, written in the module beside
the definition it distorts and marked "Not the code", under which the run finds the property
violated.

### Fairness

* **DemoOrder.** The sweeper's ticker never stops, time passes, the portfolio sync retries
  until it binds a key (weak fairness). A lookup and the write after it succeed at last if they
  are tried for ever (strong fairness): `Run` calls the sweeper at every tick and an error only
  ends that tick. Nothing is assumed of handlers: they may stop at any step.
* **ReplayPipeline.** The relay's ticker and the workers' loops go on (weak); publishing,
  marking, fetching, locking, committing and acknowledging do not fail for ever (strong). A
  held message comes due, since JetStream redelivers without a delivery limit. A run on which
  the database fails for ever is thereby excluded.
* **BrokerSync.** The round begins again and gets the mutex (Go's mutex does not starve a
  waiter), a read ends after 25 s, the throttle after 30 s. A key tried for ever is answered at
  last.
* **DemoProbe.** Syncs bind the configured key, a POST ends within 25 s and is recorded (weak); the
  background round looks a run up for ever and not every lookup fails (strong).
  `DoneIsRecorded` promises nothing while the key is another account's.
* **WebLab.** The timer goes on, and neither the list nor the run's record fails for ever (strong).
  Nothing is assumed of submissions, clicks, reloads or the worker.
* **Deployer.** cron never stops and every command has a timeout, so a tick goes on (weak); a
  step that is tried again and again succeeds at last (strong). `HeadIsDeployed` says nothing
  when the accepted release itself cannot become healthy: a tick repairs that one first and
  ends there if it cannot, so a commit that would repair it is never fetched.

## 4. What is proved

All theorems hold for arbitrary constants; the assumptions on them are named in the
modules (a null value is outside its set, bounds are naturals, the pipeline's workers are
finitely many). Each argument is an inductive invariant, needed because the property by itself
is not preserved by steps from unreachable states.

* **DemoOrder.** `SubmissionInv`: the intent event and the status move together
  (`IntentInv`); of two processes only one is past a run's intent transaction, and it has
  posted exactly when it is past `Post` (`SubmitterInv`); what the broker knows came from that
  one POST (`PostInv`); a reconciler carries a final status only with an order behind it
  (`ReconcilerInv`). *At most one run is unresolved* is part of it. It yields `OneActiveRun`,
  `OrderPostedOnce` and `OrderKeepsIntentPromise`, the step simulation of `DemoIntent`.
  `FinalRowImmutable` follows from the `WHERE` clauses and typing. For a broker that answers about
  the right order (`ForeignAnswers` FALSE), `TruthInv` adds that not only the rows but what a
  process is about to write is true of the broker; since nothing at the broker undoes a fill or
  a rejection (`TruthIsStable`), a lookup may be written as late as it likes. That is
  `FinalIsTrue`, and `UnsettledFrozen` follows: a posted run is active or final, and a true
  final status leaves nothing to come.
* **DemoProbe.** `Inv`: what an evaluation has captured passed its gates for the client's account
  (`SeenInv`), past the recheck it agrees with the plan (`StageInv`), and an order is the plan's
  (`OrderInv`). It yields `Reviewed` and `ForeignKey`, and `FinalIsTrue` if refusals precede
  acceptance (`LateRefusals` FALSE). `GateInv` carries from read to read what each gate and
  each check of the client established: the instrument the later reads are about is an item of the
  third read (`ItemFound`), and the minimum that was compared is that of a configuration that fits
  (`ConfigFound`). It yields `SubmitsDocumented`, for the conditions of
`docs/demo-btc-probe.md:7-9` that concern the six reads; that the account is the reviewed one
(the end of line 7) is `Reviewed`. `PostsInv` says that nothing is posted before
  the intent or `Post`, and that after `Post`, or with an order at the broker, one POST was made;
  it yields `ProbeKeepsIntentPromise`, the step simulation of `DemoIntent`.
* **Sums.** `SumProofs` shows that the sum of a list of integers is an integer and grows with its
  elements, and that a set of indices has a least and a greatest element. The library's induction theorems take an operator, which the provers cannot
  instantiate; here induction is a statement about a *set* of numbers (`Induction`), from the
  least counterexample, which the well-foundedness of < provides. The sum is a recursive
  function, not a RECURSIVE operator.
* **ReplayPipeline.** `PipelineInv`: everything that refers to a run refers to an accepted
  one (`ReferenceInv`); *before its row is marked, and while its ID suppresses duplicates, the
  stream holds a message of a queued run* (`DeliveryInv`, the reason no run is lost when a
  publish is suppressed); a worker about to commit holds the row as it is, alone
  (`WorkerInv`); results, keys and cache (`ResultInv`). `FinishedRunStays` and
  `PipelineKeepsPromise` follow. That only finitely many runs exist is part of the typing.
* **WebLab.** `Inv`: a key has a run, or a request on its way, only once it was drawn, and the one
  drawn key is the pending one (`KeyInv`, the reason a late request creates no second run); an
  answer on its way says "queued" or the run's own outcome (`ViewInv`). It yields
  `OneRunPerSubmission` and `SelectedRunShown`.
* **Lab.** `RunInv` says that a run has an experiment and a data set of the program, and that a
  completed run's data set can be valued under its experiment; everything else is a lemma about a pure function, for any
  fixture: every position of a cell has a usable mark (`EverythingIsMarked`), two replays agree
  on all cells before the shocked one and on what no price decides (`ScenariosDiffer`), a lower
  threshold puts up no less for review (`ThresholdsOrder`), a shock keeps bid and ask positive and
  in order (`ShockKeepsOrder`), since it is at most one half. That yields `ResultsComparable`,
  `LiquidationIsConservative` and `DatasetDecides`: no scenario makes a run fail on a data set on which
  another succeeded.
* **BrokerSync.** `SyncInv`: a sync in progress works with a key that is not set aside, and
  looks at the other endpoint only with a key confirmed for neither (`CallInv`); the key of a
  portfolio waiting to be stored still is the Demo key (`FollowUpInv`). It yields
  `KeyServesOneEnvironment`, `StatusIsOfBoundKey`, `BoundIsImported` and `BindingLasts`. The
  step simulation of `KeyPromise`, `ServiceKeepsKeyPromise`, rests on it: whoever calls
  `recordSuccess`, with the mutex held since the read or taken after it, does so with a key
  that is not set aside and not the other environment's (`CalledKeyIsFree`, `FollowUpKeyIsFree`).
* **Deployer.** `DeployInv`: what runs, was accepted or is a candidate has passed CI
  (`CheckedInv`); past its check a tick runs the accepted release or nothing (`RestInv`); every
  cooling candidate is older than main and than the tick's candidate, or is the accepted one, or
  is the failure on record (`CoolInv`, the reason why one recorded failure is enough). It yields
  `OnlyCheckedRun`, `RestsOnAccepted` and `FailuresCool`. `ForwardInv` adds that a candidate
  is younger than the accepted release while it is deployed, and is that release when the updater
  installs it; with it every command, also one that fails half-way, is a step of `ReleasePromise`
  (`UpdaterKeepsReleasePromise`).

**Only model-checked.** Every liveness property: temporal reasoning with fairness and ENABLED
is out of the prover's reach. All safety and action properties of the passing runs are theorems. Some
theorems have no run of their own: two that a run's refinement implies (`BoundIsImported`,
`OnlyCheckedRun`), that DemoProbe refines `DemoIntent`, and two about the lab
(`LiquidationIsConservative`, `DatasetDecides`).

## 5. What is not modelled

* The migration: one transaction that first takes an advisory lock, so PostgreSQL serialises
  processes that start together; a model would repeat the lock and find nothing else.
* In the web lab: the comparison panel (section 6), the broker and Demo panels, the limit of 50
  listed runs, the search, and a link to a run that does not exist, which is loaded in vain for ever.
* In the client: headers, the credentials' absence, decimal and time syntax, and the category of
  an API error, which only words a message. A plan's account is compared directly, not through its
  HMAC fingerprint.
* Artifacts and the sentences of checks, decisions and events.
* Reads and rendering (HTTP routing, history, operations, metrics, the web lab's rendering),
  encryption, declarative configuration and the sequential operator scripts: they keep no state
  that another part relies on.
* In the updater: the `paused` file, starting the container runtime, the release archive
  and the wording of the recorded phase.

## 6. Where the code and its documentation disagree

1. `OneExposure` (`demo_exposure`). The intent transaction does not look at the account again.
   Two ready plans, both evaluated on an empty account, are posted one after the other when the
   first is filled in between, although `demo_strategy.go:161` says existing positions block
   the one-time probe.
2. `MismatchNeedsAPerson` (`demo_mismatch`). A lookup with a foreign order ID makes the run
   unknown, "manual reconciliation required", and stores that foreign ID; the next lookup
   compares with it, finds no mismatch and resolves the run.
3. `SettingsTakeEffect` (`deploy_settings`). Settings that are changed and changed back, after
   the restart that should apply them failed half-way, leave the app with the withdrawn ones: the
   hash recorded last is equal again. `docs/deployment.md:46` promises that a change is applied
   on the next check.

Seen while modelling, and not checked as a property: a submitter that takes more than 30 s to
record its outcome finds its row moved by the sweeper, and the accepted order ID is dropped.
The comparison panel offers every completed run and explains any difference by "scenario prices
or the review threshold" (`app.js:258-260`, `app.js:284`), also when the other run was valued on
another data set: it does not look at `dataset_hash`, which each run has and which a new fixture
changes. The panel keeps showing the previous selection's comparison after another
run is selected, although its label says "Compare selected run with" (`index.html:81`):
`updateCompareOptions` clears it only when the option is gone, and an answer that arrives late
overwrites a later one (`app.js:269`). The pending key is kept after a 409 as well: a form
that was edited after an unconfirmed submission which the server had stored is refused with "Use a
new key for a different experiment" (`server.go:292`) until the page is reloaded. The length of
a name is counted in bytes, its message says characters (`lab.go:82-83`).
A snapshot whose commit was not heard of stays in the history although its key is later set
aside as the extra one (`app.js:418` says such an account was not imported). An updater that dies
between accepting a release and installing its own new copy keeps the old copy until the next
deployment. The phase `rolled_back` is overwritten by `error` at once. `README.md:69` describes
an immediate-or-cancel limit order, the code submits a market order.

## 7. Plan

Done: DemoOrder, ReplayPipeline, BrokerSync, Deployer, the evaluation and the client (DemoProbe),
the lab and its page (Lab, WebLab), each with runs and an inductive invariant, and a theorem for
every safety and action property. What would add most from here:

1. A composition of DemoOrder and DemoProbe with several runs, where the verdict of an execution
   is an evaluation of the account at that moment.
2. The page's comparison panel and Demo panel, with the late answers named in section 6.

# SignalRoom in TLA+

A verification project for SignalRoom, the FastAPI application under
`src/src/splunk_security_agent/`. It holds TLA+ models of the parts that coordinate work, TLC runs
that check them on small instances, and theorems that TLAPS proves for every value of the constants.

Paths in this file are relative to `src/src/splunk_security_agent/`, except those of `docs/`, `README.md`,
`pyproject.toml`, `Dockerfile` and `install.sh`, which are relative to `src/`.

Contents: [how the program runs](#how-the-program-runs), [inventory](#inventory),
[modules](#modules), [runs](#runs), [bounds](#bounds), [fairness](#fairness), [proofs](#proofs),
[what the models found](#what-the-models-found), [what is not modelled](#what-is-not-modelled),
[what is left](#what-is-left), [running it](#running-it).

## How the program runs

SignalRoom is one process with one asyncio event loop. HTTP handlers and the background workers
(manual discovery, continuous assurance, delivery, audit export, forecast schedules) are coroutines on
that loop: they interleave only where one suspends. State that must survive is in SQLite databases; a
store method is synchronous, so it is one atomic step of the process, and one transaction. Three
consequences shape every model here:

- an action is the code between two suspension points of a coroutine, whatever number of functions
  that is;
- a crash can fall between any two transactions, also inside such a stretch: where a handler commits
  twice and the order matters, the crash between the commits is an action of its own;
- what a coroutine read before an `await` may be stale after it, and most hazards below are of that
  kind.

A stopped process is started again by its operator (`install.sh --start`, `--restart`); what each service
does with half-finished rows at that moment is part of its model.

## Inventory

`PROJECT.json` lists all thirty components with their sources and status. The table gives the state
and operations of those with a protocol worth stating, what is hard, and what correct means.

| Component | State | Operations | Hard behaviours | Correct means | Module |
|---|---|---|---|---|---|
| Splunk workload admission (`workload/`) | policy row and generation, ledger of calls, five counters per instance, a condition variable | `call` (assess, queue, run, release), `update_policy`, restart recovery | lost wakeups, cancellation and timeout during a wait, failing progress reports, policy changed while queued, midnight | capacity never lent twice, nobody forgotten, limits in force respected, the daily budget covers what was sent | `WorkloadAdmission` |
| Manual discovery (`discovery/job_*.py`) | job rows, one worker, one task, the shared lane | `enqueue`, `cancel`, `start`, `stop`, worker loop, `_execute` | shutdown against operator cancellation, crash at any point, connection changed while queued, a cancellation before the task's first step | one job at a time, cancellation final, retried from the start, budget exact, every job ends | `DiscoveryJobs` |
| Continuous assurance (`assurance/service.py`, `store.py`) | policy row with schedule, run rows, daily usage, worker and task | policy edit, rebinding, manual runs, due slots, execution | late forms, a slot committed but not advanced, run of an old target, counting runs after cancellation | runs follow the policy's target, daily limit, slots pass, every run ends | `AssuranceRuns` |
| Assurance signals and packages (`assurance/store.py`, `response.py`) | signals with streaks, response packages, drafts, notices | `correlate_signals`, `process`, `close_package`, `expire_packages` | partial and shallow runs, a crash between four commits | only complete reads decide; a signal is under one review | `AssuranceSignals` |
| Validation queue (`validation/`) | task rows: status, contract, preflight receipt, artifact | edit, check, approve, execute, delete, expiry, restart | several requests on one task around an `await`, expiry and hang-up in between | only an approved, unedited contract runs; evidence belongs to it | `ValidationQueue` |
| Outbound delivery (`delivery/`) | policy and secrets, outbox rows with attempts and external record | preview, approve, automatic mode, retry, cancel, worker, recovery | outcome unknown after a timeout or crash, policy changed during a request, crash between commits | one Jira create per decision, delivered means received, jobs settle | `DeliveryOutbox` |
| Audit log and export (`audit/`, `audit_export/`) | hash chain, export policy, cursor, failure count, kits and reconciliations | append, `_export_once` under a lock, `run_now`, policy change with backfill, kit export, reconcile | batches cut by size, late and lost answers, a cursor moved while a batch is in flight, several reads of Splunk that a policy change crosses | no event before the cursor is missing at its destination; "verified" means the present kit | `AuditExport` |
| Detection lifecycle (`detections/service.py`, `store.py`) | projects, versions, gates, reviews, exports | create, edit, gate, submit, approve, request changes, export, retire, delete | a text that returns, several gates of it, an approved project gated again | an approval has a passing gate of its own, an export names it | `DetectionLifecycle` |
| Detection repository (`detections/repository*.py`) | handoffs, worktrees, review snapshots | preview, apply, push, draft pull request, refresh, preserve | branch, base and pull request move from outside, crash between two Git commands | what is pushed was approved; "low risk" is said of the approved head | `DetectionRepository` |
| Detection deployment (`detections/deployment*.py`) | deployment snapshots, runtime checks | refresh (awaits), preserve, runtime draft, assess | capped catalogs, project edited while Splunk answers | claims about Splunk hold of all of Splunk | `DetectionDeployment` |
| Tenant data plane (`tenancy/`), retention of its storage (`retention.py`) | route per tenant, migrations, reverse migrations, generations | stage, cutover, rollback, reverse, finalize, routed reads and writes, cleanup | long legal sequences; crashes inside multi-component operations and between a routed write and its count | no write is lost by a move; purged data has a way back | `TenantRouting` |
| Model tournaments and trust (`benchmarks/`, `model_trust/`) | benchmark runs, tournaments, promotions, baseline, suite, attestations, settings file | run, review, promote, rollback, stage, discard, attest, enforce | settings loaded before and saved after an `await`; model replaced between evaluation and promotion | one active promotion per route, of exactly what was evaluated | `ModelRouting` |
| Model setup (`model_setup.py`) | jobs in memory, model folders, revisions, failure history, the drill, the Context index | start, queue for the lock, install, record, retry, drill, index, restart | failures at every step, two callers of one job, removal of a profile, a drill waiting for its child | every installation ends; what is installed stays; a retry changes the method | `ModelInstall` |
| Forecasts (`forecasting/`) | schedules, attempts, runs, baselines, reviews, alert candidates | due, enqueue, defer, run now, execute, review, rebind, archive | two committing paths after a run, budgets, a schedule that blocks others | one attempt at a time, retried after interruption; drift goes to review; a due schedule is served | `Forecasts` |
| Recovery bundles (`recovery/`) | packages, inspection, pending stage and marker, live files | create, inspect, `stage_restore`, `cancel_pending`, apply at startup | crash or write failure between files; writes admitted before the freeze | what is served is whole; the checkpoint is what the restore replaces | `RecoveryRestore` |
| Access, sessions, OIDC (`auth/`); connections; cases | users and sessions; aliases and revisions; case rows | single transactions on one store | | | not modelled |

The other components (estimator, discovery pipeline, agent orchestration, Splunk client, evidence
store, providers, application wiring, reports) are content processing, network adapters or read-only
reports. `PROJECT.json` says so for each.

How they interact, where the models need it:

- every Splunk call of discovery, assurance, validation, the agent and diagnostics goes through a
  `WorkloadControlledSplunkClient` (`workload/service.py`), whose reports run in the caller: a
  discovery or assurance report raises `CancelledError` when its row was cancelled, in the middle of
  admission;
- manual discovery, assurance, streamed discovery and MLTK scans share one `asyncio.Lock`
  (`app.py:324`), the *lane*;
- jobs, runs, validation tasks, forecasts and signals carry a connection alias and identity revision,
  which the connection registry validates when they execute;
- a completed assurance run produces signals, these a response package, this validation drafts and
  an outbox job; closing the package cancels its jobs;
- a detection's gate reads the latest completed validation of its query, its repository handoff and its
  deployment checks read the approved detection, and a runtime check is a validation task of its own;
- tournaments, trust, model setup and `PUT /api/settings` rewrite one settings file as a whole;
- rebinding assurance to another connection (`app.py:2290`) looks at the active runs first;
- while a restore is pending a middleware refuses every request that changes something.

## Modules

| Module | What it is |
|---|---|
| `WorkloadAdmission` | one Splunk instance's admission controller |
| `DurableRuns` | abstract: what a durable job service promises |
| `DiscoveryJobs` | manual discovery; implements `DurableRuns` |
| `AssuranceRuns` | continuous assurance; implements `DurableRuns` |
| `Forecasts` | forecast schedules, attempts, runs and candidates; implements `DurableRuns` |
| `AssuranceSignals` | what a completed assurance run becomes |
| `ValidationQueue` | one task and the requests in progress on it |
| `DeliveryOutbox` | the outbox, its worker, the policy and the packages' ends |
| `AuditExport` | audit chain, HEC export, operations kit |
| `DetectionLifecycle` | detection projects, gates, reviews and exports |
| `DetectionRepository` | extends it with Git, the remote and GitHub |
| `DetectionDeployment` | extends it with Splunk's saved searches and runtime checks |
| `TenantRouting` | generations, routes, reverse migrations, cleanup |
| `ModelRouting` | benchmarks, tournaments, promotion, trust, settings |
| `ModelInstall` | installation jobs, the drill, the Context index |
| `RecoveryRestore` | backup and restore of the control plane |
| `WorkloadAdmissionProofs`, `DiscoveryJobsProofs`, `AssuranceRunsProofs`, `DeliveryOutboxProofs` | theorems about the module each is named for |
| `ModelProofs` | theorems about `ModelRouting` and `ModelInstall` |
| `DetectionProofs` | theorems about `DetectionLifecycle`, `DetectionRepository` and `DetectionDeployment` |
| `ServicesProofs` | theorems about `AuditExport` and `Forecasts` |
| `GovernanceProofs` | theorems about `ValidationQueue`, `AssuranceSignals`, `RecoveryRestore` and `TenantRouting` |
| `MCWorkloadAdmission`, `MCDeliveryOutbox` | instances: callers and policies that cross; one adapter of each retry discipline |
| `MCGovernance` | instances of routing, detections, recovery and signals |
| `MCModels` | instances of routing and installing models |
| `MCServices` | instances of the audit export and of forecasts |

The last three modules check several components in one run. Components that share no state are put
beside each other, and a constant-like variable `focus`, chosen in the initial state, says which of them
a behaviour is about; the others stay as they began. A focus also says how the bounds are spent, for
instance on requests that race or on tournaments in sequence, where all at once would be too
many states. The sections below name the foci.

Operators marked `Mutant:` are plausible bugs of the definition that follows them. They are not part
of the specifications; `PROJECT.json` says which property each of them violates.

### WorkloadAdmission

`policy`, `generation`, `event` and `history` are the rows of `workload_policy` and
`workload_events`; `active_calls` … `reserved_query_units` are the fields of `_InstanceState`; `pc`
and `reason` are where a caller is suspended and how it will be woken; `lock` is the condition's lock.
`Call` is `call()` up to its first suspension, `Enter` a contended first acquisition, `Resume` and
`Abandon` the two ways out of `Condition.wait`, `Finish` and `Release` the `finally` of `call()`.
One pass of `_admit`'s loop is `Decide`: refuse, admit, admit with a report that fails, park, or
leave without parking.

Whether the lock is ever *seen* held depends on the interpreter. On CPython 3.11
`asyncio.wait_for` runs the wait in an inner task, which returns holding the lock one turn of the loop
before its caller goes on; from 3.12 on it does not. `pyproject.toml` admits 3.11 and the `Dockerfile`
uses 3.12, so `InnerWaitTask` chooses, and both are checked. The proofs hold for either.

`ledger`, not memory, is what the daily budget reads, so `LedgerCoversSent` relates the history
variable `sent` (issued today) to rows and reservations.

### DurableRuns, DiscoveryJobs, AssuranceRuns

The two services have the same shape in the code and in the models: a row table, a worker that
picks the queued row and joins a task, and the task's stretches `Begin`, `Preflight`, `EnterLane`,
`call`, `Collect` and `Interrupt`. A cancellation is a flag, `task_cancel`, that the task meets when it
next runs; `stop` and the operator's `cancel` both raise it, and `Interrupt` decides by the row's
`cancel_requested` which one it was. `Crash` leaves the table and nothing else; `start` runs
`recover_interrupted`.

`DiscoveryJobs` has the lane in detail: a queue of users, its waiters included, since
`asyncio.Lock` is first come first served. `AssuranceRuns` has it as free, ours or theirs and adds the
policy. Time there is what the schedule tells apart: no slot, a slot later, a slot now. `OpenForm` and
`fresh` are the rebinding form an administrator has open; every policy write makes it stale.
`CrashInSchedule` is the crash after `create_run` has committed and before `advance_schedule`.

`DurableRuns` states the common promise in six actions, and `KeepsPromise` is the refinement in each
model: `status` is mapped to `phase` (all endings but `cancelled` are `"ended"`) and
`cancel_requested` to the set `cancelling`.

### ValidationQueue

One task row and a fixed number of slots for requests. A request suspends in a preflight (while
checking, approving, or preparing an execution) and in the query; `taken` is the contract it read
before. The writes follow the store: `set_preflight` and `mark_running` name the status they expect,
`fail` and `requeue_interrupted` do not (`Overwrite`). `due` says that `expires_at` has passed, and
`Current` is what `expire_due`, run by nearly every store method, makes of the row. `blessed` is a
history variable: an analyst approved since the last edit.

### DeliveryOutbox

A job is a package and a destination, which is what the idempotency key amounts to. `Deliver` is
`next_due` and `_deliver` up to the request; `Succeeds` and `Fails` what follows the answer. After an
error, a timeout or a crash the destination may have taken the request: `received` records whether it
did, and the code never sees it. `CrashAfterCorrelation`, `CrashInUpdate` and `CrashInClose` are the
crashes between two commits of one handler. `stop` writes nothing and is a crash as far as the rows
are concerned. `posts`, `retries` and `approval` are history variables.

### AssuranceSignals

A signal is a kind of finding on a connection. `process` is the callback of a completed run: correlate,
open a package for the persistent signals no open package covers, draft validations, post a notice. These
are four commits, and `process` may stop after any of them (`Commits`). `Results` says of a run how deep it
looked, whether every call came back, and what it found; `Absent` are the signals it looked for
and missed. `warrant` is a history variable: what complete reads alone say of a signal.

### AuditExport

An event is its sequence number and a destination its fingerprint. `begin_export` takes the lock, verifies the
chain and cuts a batch; `hec_accept` is the destination, which may take the batch whether or not its answer
arrives; `end_export` is `record_attempt`. `began` (where the cursor started for this destination) and
`crossed` (the cursor was moved under a batch in flight) are history variables. `reconcile` awaits several
objects; two stand for them, in order, with policy changes between the reads and another
reconciliation that is refused and recorded meanwhile.

### DetectionLifecycle, DetectionRepository, DetectionDeployment

No method of the lifecycle service awaits, so each request is one action, but for what follows a committed
approval (`preserve_approval`: Knowledge, then the case). A content stands for its digest: an edit that
returns to an earlier text returns to an earlier digest, which is where gates and approvals could be
mixed up. `DetectionRepository` gives every Git or GitHub command a step (`call` is the method in
progress) because branch, base, remote and pull request move from outside between them; a commit is its
parent and content. In `DetectionDeployment` only `refresh` awaits; `Answers` are the catalogs Splunk
may return, the capped ones included.

### TenantRouting

`shared` and `generations` hold the version of a tenant's records per component, and a digest is modelled
by the content it covers. `operation` is what holds the operation lock across commits: staging, reverse
staging, applying and purging proceed component by component, and `RegistryRestart` falls between any two. `latest`
is a history variable: the last write a caller was told is saved. A behaviour has one `profile` of
features (generations staged on generations, rollback, finalization, crashes inside a purge or between a
write and its count).

### ModelRouting, ModelInstall

A request that awaits is a member of `requests` with the settings it loaded; what resumes it saves these
settings over whatever was saved meanwhile, as the code does. `assert_binding` makes the observation
of the artifact, the last thing awaited. A tournament, its runs, review, promotion and rollback are
actions over the rows of their stores. In `ModelInstall` a job's `step` is where its task awaits; specialists
wait for one install lock; `next_local_install_strategy` picks by the failures recorded;
the guided drill polls a child job; `restart_installs` forgets the jobs and keeps the files.

### Forecasts

`due` is the queue of schedules whose time has come, `attempts` the table, `inference` the attempt that
awaits Splunk or the runtime. `enqueue_due` serves the oldest due schedule or puts it off;
`finish_forecast` retains the run, compares it with its baseline and completes the attempt, and a
restart may fall between the two commits. With nothing to cancel it implements `DurableRuns`.

### RecoveryRestore

A file is its version; the vault is also the key it was encrypted with, so that a vault beside the wrong
key reads as empty (`Credentials`), and the access database the sessions opened in it. `start`, `replace` and
`applied` are the startup, a file at a time; `replace_fails`, `removal_fails`, `die` and `stop` interrupt it.
`Admit` and `WriteFile` are a request around its await. `replaced` is the set of files the running start has
replaced. `intended`, `late` and `torn` are history variables.

## Runs

| Run | Instance | Distinct states | What it shows |
|---|---|---|---|
| `wa_interleavings` | 3 callers, 4 policies, CPython 3.11, one policy change, midnight and restart | 983 thousand | counters cover the calls in flight; no wakeup is lost; limits and budget of the policy in force |
| `wa_drains` | 4 callers, one rejected by the guardrail, CPython 3.12, no failing report | 35 thousand | every queued call is admitted or refused without a timeout |
| `wa_leak` | 3 callers, failing reports | violation | a failing `workload:admitted` report loses a slot |
| `dj_recovery` | 2 jobs, 2 restarts, 2 revisions, another lane user, raising factory, early cancellations | 130 thousand | one job at a time, collected as bound, budget, refinement, jobs end |
| `dj_factory` | 1 job, raising factory | violation | a raising factory leaves a running row nobody owns |
| `ar_recovery` | 2 runs, a restart, a midnight, 2 revisions, raising factory, early cancellations | 1.0 million | runs follow the policy's target, the daily limit, refinement, slots pass |
| `vq_queue` | 3 requests, 2 contracts, expiry, restart, executions one at a time | 37 thousand | approval, receipt and result belong to the row's contract |
| `do_outbox` | 1 package, a Jira and a SOAR destination, 2 attempts, 1 retry, 1 restart | 538 thousand | requests per decision, truth of "delivered", settling |
| `gv_governance` | six foci of `MCGovernance` | 2.5 million | routes serve the last write; approvals, exports, pushes and feedback name what was reviewed; restores are whole; signals follow complete reads |
| `tr_nested` | routing with finalization, rollback and chained generations together | violation | a nested rollback forgets that shared duplicates were purged |
| `md_models` | seven foci of `MCModels` | 662 thousand | one active promotion per route, of what was evaluated; installations end |
| `sv_services` | five foci of `MCServices` | 291 thousand | no audit event is skipped, "verified" is of the present kit, forecasts are durable, drift is reviewed, due schedules are served |

The properties of the packed runs, by focus:

| Run | Focus | Properties |
|---|---|---|
| `gv_governance` | `routing` | `RouteServesLatest`, `PurgedHasReturnPath` |
| | `lifecycle` | `ApprovalHasItsGate`, `ExportsNameAcceptedGate` |
| | `repository` | `PushedWasApproved`, `LowRiskIsApprovedHead` |
| | `deployment` | `ClaimsHoldOfSplunk` |
| | `recovery` | `ServedIsWhole`, `CheckpointIsCurrent` |
| | `signals` | `CompleteReadsDecide`, `SignalInOneReview` |
| `md_models` | `race`, `sequence` | `OneActivePromotion` (two requests at once; two tournaments one after the other) |
| | `trust`, `suite` | `PromotedAsEvaluated` (models replaced, attested, enforced; suites published, archived) |
| | `jobs`, `retry`, `index` | `PullsEnd` (several jobs and the drill; failures and restarts; the index behind the embedder) |
| `sv_services` | `export` | `NothingSkipped` |
| | `kit` | `VerifiedIsPresentKit` |
| | `lane`, `days` | `ForecastsAreDurable`, `DriftIsReviewed`, `DueIsServed` (two schedules on a day; one over two days with its reviews) |
| | `registry` | runs by hand, baselines and alert candidates beside them |

`CHECK_DEADLOCK FALSE` is set for the validation queue, whose task may be deleted, after which nothing
happens, and for the packed runs and `tr_nested`, where a focus has nothing left to do once its bounds are
spent. In the other models the system can always move (the workload model has `Quiescent`, the
last state of a set of calls that are each made once).

## Bounds

- **Callers, jobs, runs, requests.** Every property concerns one or two items and what a third does to
  them. Three callers contain a holder, a sleeper and one that arrives or gives up; the fourth of
  `wa_drains` adds a call the guardrail refuses. Two jobs suffice to have one active and one refused
  or waiting. With a daily limit of one, two runs are one that used the day and one that is refused, or
  created after midnight. Three validation requests contain two executions and one approval or check
  between them.
- **Policies.** `MixedPolicies` crosses limits and thresholds so that a change can make a queued query
  admissible, refusable, or over budget; each of the three thresholds is, in one of the policies, the
  only one that refuses some query.
- **Restarts.** A second restart matters where the first leaves something behind for it, which
  `dj_recovery` covers; assurance has the same recovery and one restart, which leaves the states for a
  midnight. The outbox, the queue, the export and the forecasts have one: recovery leaves no row as it found it.
  Recovery of the control plane has two failures: one that interrupts a restore and one that
  interrupts its repetition.
- **MaxGeneration, MaxDays, MaxRetries, MaxAttempts.** One policy change between any two steps of a
  caller, one midnight, one explicit retry, two attempts: a first failure that is retried and a second
  that is not.
- **HistoryLimit** is 5 with at most four callers, so no row of the day is pruned. The code keeps
  5000 rows and prunes whatever day they are of; with a smaller bound `LedgerCoversSent` fails: the daily
  budget counts within bounded history.
- **Routing.** One tenant moves and another one's rows share its databases; one database, restored as a
  whole, and one directory; two generations, so that one is staged on the other or follows it; two reverse
  snapshots, of which the second supersedes the first. `KeepCount` 0 stands for tenants whose newer terminal items
  fill the count the code keeps (at least one). The profiles keep apart features whose combination is the
  finding of `tr_nested` or one of the observations below.
- **Detections.** Two texts make a text return; three versions, two gates, two reviews; results that
  differ in count, so that a gate passes or fails. A second project would only share the tasks.
- **Models.** One control and one staged profile, one route, two tournaments, two requests at once. Three
  installations contain two that compete for the install lock and one retry or the drill's child.
- **Export.** Batches of two over three events, the administrator's own decisions among them, and two
  destinations. Two kits are enough to mistake one for the other.
- **Forecasts.** Two schedules, of which one can hold up the other; budgets of one per schedule and two in
  all; two days; three runs, so that a baseline, a comparison and a run left by a crash fit.
- **Signals.** Two connections, one signal of each kind on each, packages of one signal (so that a run
  leaves some over), three runs: two make a streak, the third resolves, interrupts or repeats it.

The constants that are booleans are not bounds: `EarlyCancel` and `FactoryMayRaise` are true in
`dj_recovery` and `ar_recovery`; `dj_factory` has the raising factory alone. `OverlappingRuns` separates
what holds for any use of the queue from what holds with one execution at a time.

## Fairness

Liveness is checked under weak fairness of the program's own steps, never of users', administrators' or
crashes:

- the event loop runs every coroutine that is ready, so the steps of a worker, of a task that is not
  waiting, and of a caller that can have the lock are taken;
- preflights, MCP calls and HTTP requests have timeouts (`splunk/mcp_client.py`, `delivery/service.py`),
  so waiting for one of them ends; workers poll with `asyncio.wait_for`, so a missed wake event costs
  time and nothing else;
- the commands of an installation, its downloads and the forecast runtime are assumed to answer or fail.
  The stream of an Ollama pull has no read timeout (`model_setup.py`), so there it is an assumption about
  Ollama;
- `asyncio.Lock` hands over in order. `DiscoveryJobs` models the queue itself and needs weak
  fairness only. `AssuranceRuns` keeps no queue and states strong fairness of `EnterLane` in its place;
- the other users of the lane finish what they do;
- a stopped service is started again. This is an assumption about the operator, and the condition under
  which the documentation promises anything: "An active job is re-queued and starts a fresh read-only
  collection when the worker returns" (`docs/DEPLOYMENT.md:414`).

`EveryJobEnds` and `ScheduleGoesOn` assume that from some time on the worker survives and no row is
left running without a task; the run `dj_factory` and the first observation below show that the code
does not guarantee that. Restarts are bounded, so each of these properties speaks of the time after the
last one. `PullsEnd` is about profiles that stay configured, `DueIsServed` about every due schedule, also one
whose runs are refused. `AuditFairness` is stated with the specification and no property rests on it.

## Proofs

All theorems hold for arbitrary constants under the named assumptions in the modules
(`CallersAssumption`, `BoundsAssumption`, `JobsAssumption`, `RunsAssumption`, `QueueAssumption`,
`OutboxAssumption`, `LifecycleAssumption`, `CatalogAssumption`, `SignalsAssumption`, `AuditAssumption`,
`ForecastAssumption`, `RoutingAssumption`, `InstallAssumption`, `TenancyAssumption`): types, sentinels
that differ from what they stand beside, and profiles that are of one kind. `CatalogAssumption` says that Splunk identifies a saved search by app
and name. Of the sets, only those of callers and of assurance runs are assumed finite. Each proof
module keeps the specifications it is about apart: they share the module, not a state.

**WorkloadAdmissionProofs.** `TypeCorrect` is inductive as it stands. For `SlotsAlwaysCovered`,
`DecideMove`, `GiveSlotBackMove`, `WakeMove` and `MoveStep` show that every step changes the calls in
flight and the counters in one of four ways (`HolderMove`: nobody new and no counter lower, one admitted
within the limits, one released, or a restart that empties both), and counting lemmas on finite sets (`FewerMembers`, `OneMoreMember`)
do the rest; the invariant is an inequality because a slot may leak. `LimitsRespected` follows from the
same moves. `WakeupsNeverLost` splits the steps into those that free nothing (`FreesNothing`: then
whoever could not be admitted still cannot) and those that leave nobody waiting (`NobodyWaits`).

The daily budget compares sums over sets of calls. `CostOf` folds over a set in whatever order `CHOOSE` gives, so its
laws (`CostOfStep`, `CostOfAdd`, `CostOfUnion`, `CostOfSubset`) need an induction over subsets. The induction theorems
of the library take an operator and are out of reach here; its theorem that proper inclusion is well founded on the
subsets of a finite set is not, and gives a smallest counterexample (`SmallestSubset`, `SmallestNumber`), from which follow
existence and uniqueness of the recursive sum (`SumsExist`, `SumsAgree`) and then its laws. On them rests `LedgerInv`: the
units reserved cover the calls in flight (`ReservedForHolders`), and what was sent is in flight or has a settled row
(`SentOpenOrSettled`). So what was charged is in the usage or reserved, *as long as its row is there*: `KeptLedgerCovers` and
`KeptAdmissionsFollowPolicy` say just that (`RowsKept`), for any number of callers. `LedgerAlwaysCovers` and
`AdmissionsFollowPolicy` discharge `RowsKept` for histories that never fill, `Cardinality(Callers) <= HistoryLimit` (each caller makes
one call, so this is the number of calls the instance ever sees). Without it they are false: with `HistoryLimit` 2 TLC finds
`LedgerCoversSent` violated, since the code prunes rows of today too.

**DiscoveryJobsProofs, AssuranceRunsProofs.** `AtMostOneActive`, `CollectsAsBound` and
`ActiveRunsFollowPolicy` are not inductive: they need to know whose row the task works on. `IInv` adds
`RowsOK` (the types the argument needs), `CancelNotPending` (a cancellation is recorded only in rows that
were running or have ended), `TaskOwnsRow` (a task in flight works on the active
job, whose row is running under the revision of its client, and a requested cancellation is on its way to it) and `OffIsIdle`. One lemma per group of actions (`RequestKeeps`,
`ProcessKeeps`, `WorkerKeeps`, `TaskKeeps`, …) shows that `IInv` is preserved. On top of it the
refinement maps each step to a step of `DurableRuns` or to a stutter (`StepImplements`), and the action
properties follow. `ScheduleFollowsPolicy` (a next slot exists exactly while the policy is enabled) has an
invariant of its own, independent of the runs. So has `BudgetIsHard`: a refused call is remembered only
while the count stands at the budget (`RefusedAtLimit`). `DailyLimitHolds` compares the calls really issued
with the counts in the rows; `FirstAttempts` says that before a restart every run is at its first attempt,
so the runs that called Splunk are among those the rows count, and the rows count fewer than the limit.

**DeliveryOutboxProofs.** `Base` joins the types to `WorkerSends` and `SendingIsOwned` (the row being
sent is the worker's, and only its) and `HasAttempt` (a row that may still be sent has an attempt left,
which makes `attempt_count <= max_attempts` inductive). `AskedOnce` says that a Jira row is queued
only by an approval or a retry nobody has sent for yet, `RequestsCounted` relates requests to attempts, retries and restarts, and `CorrelatedRests` says that a
row with a stored record is delivered, or is the interrupted one that recovery will deliver.

**DetectionProofs.** The lifecycle's properties quantify over positions in growing histories. `Governed`
strengthens them for one project: every approval in its reviews is `Backed` by a gate stamped with its position, the
project's status is `Standing` on its last review, and every export is `Traced`. The store looks for the
gate accepted last by comparing stamps, so the argument needs that a finite set of positions has a
largest member (`LargestExists`, from the well-founded ordering of subsets of a finite set).
`ApprovalMove` is the one step that adds an approval; `OthersKept` shows what the other actions leave.
For the repository, `RepositoryInv` says what the commands of a push or an apply have found out so far
(`CallStands`): every one of them may be followed by a change of the branch, the remote or the pull request, so
the approved content has to be carried from the handoff's preview (`HandoffsApproved`) through the commit
(`AppliedIsCommit`) to the remote. `ClaimsAlwaysHold` needs only `ClaimHolds`, of each recorded deployment, but
a case for each order in which catalogs change and answers arrive (`RecordedClaim`).

**ServicesProofs.** `NothingSkipped` is strengthened by `OneBatch` (the lock) and `BatchFollows`: what is
in flight begins right after the cursor and is for the destination the cursor belongs to. `VerifiedKitIsPresent`
rests on `KitInv`: a reconciliation shown as verified read what the kit it names makes (`VerifiedAsNamed`), and kits
are never changed (`KitsKept`). `ForecastInv` adds to `DriftIsReviewed` that at most one attempt is active, that
what completed names its run, and that the attempts of a day are within the budgets (`DaysBudgeted`); on it
rests the third refinement of `DurableRuns`.

**ModelProofs.** Promotion and rollback load settings, await, and write; what they checked may be
undone meanwhile. `RoutingInv` keeps what cannot: a tournament's runs ended as they are recorded, in order
(`OneAtATime`, `InOrder`, `NextInOrder`), its recommendation is one of them (`Recommended`), and a promotion that
awaits was checked against a run under the tournament's version (`Checked`), which no later step takes back (`Recorded`).

Of installations, `StepsStand` says what is there already where a task awaits: a whole folder before its manifest is written, an
installed model when it is observed. `Advance` sums up what a step of one job may do; since no other pending job is for
the same model (`OnePending`), it disturbs nothing another one stands on. It follows that a
job shown as complete names an installed model (`CompleteMeansInstalled`), that no failed update, clean download or restart takes
one away (`InstalledStays`), and that the drill waits for an installation of its own model (`DrillAwaitsItsOwn`). `RetriesChange` is
about `next_local_install_strategy` on every history that can be: the next strategy is not the last one, and one not yet tried while
there is one. "Installed" is what `local_model_installed` asks, whichever revision the files are of.

**GovernanceProofs.** Of the validation queue, `TypeCorrect`, `RunningIsOwned` and `ExpiryIsFinal` hold however
executions overlap. `SingleRunsAreExact`, `RunsArePreflighted`, `ResultsBelong` and `CompleteStays` assume one at a
time; `SingleInv` adds `OneRun`, `PreparingOwnsRow` (while an execution is in its preflight the contract cannot
change) and `QueryOwnsRow` (while its query is out, the row is running with the contract the request took).

Of the signals, `StreakWarranted` adds to `CompleteReadsDecide` that a running streak is
warranted, since the count of one run decides what the next makes of the signal. `OneReviewPerSignal` adds the
types of packages; a new package holds only signals that are not `Covered`.

Of recovery, `RecoveryInv` relates the live files to the package and the originals while a start replaces them one
at a time: outside the pending package nothing differs from what was intended (`DiffersOnlyInPackage`), what was replaced is
as the package has it (`ReplacedFromPackage`), and while a restore is pending the live files are those of its
checkpoint unless a late request wrote (`FrozenAtCheckpoint`).

Of the tenant data plane, `ReturnInv` proves `PurgedHasReturnPath` without further hypothesis: a tenant is routed
only to a generation cut over for it (`RouteIsCutOver`), no second generation was cut over from the one below
(`SourceIsCutOver`), the operation under the lock works on the routed generation (`OperationStands`), and a
snapshot interrupted while it was applied goes back to the status it had (`ReturnPathStands`).
`RouteServesLatest` does not hold in every profile (below), so `RoutesServeLatest` has the
hypothesis `Reversible`: a profile with rollbacks has no crash between a write or a purge and its
record, and one that also chains generations neither purges nor keeps fewer items than can lie below the active
generation and its source, the two that retention protects (`KeepCount + 2 >= MaxGenerations`). Each part is needed: TLC finds the property violated without it
(`tr_nested` is one of the three). Every profile of `gv_governance` satisfies it. `ServeInv` adds
that a snapshot splices one tenant's rows into what it found (`SnapshotSplices`) and an apply replaces only
what the snapshot knew (`ApplySplices`), so a whole-database replacement loses nobody's rows; that the digest a
staged generation was verified with is of the present rows unless a later write shows in them (`PendingStands`); and, for rollbacks,
that the generations a tenant can be rolled back through form a chain (`Chain`) below which the source still has the last
write as long as nothing above it was written (`ChainHolds`). `CutoverChain` and `RollbackChain` are the
two steps that move along it, `ChainKept` is for all others, and `ChainNotCleaned` counts the items
retention may remove.

Only model-checked:

- liveness (`QueueDrains`, `EveryJobEnds`, `ScheduleGoesOn`, `JobsSettle`, `PullsEnd`, `DueIsServed`),
  which is beyond the prover.

## What the models found

Three runs end in a violation of something the repository says. `PROJECT.json` quotes the lines.

1. **`wa_leak`** — a report that raises between taking the slot and returning loses the slot until
   the process restarts (`workload/service.py:360`).
2. **`dj_factory`** — a raising `client_factory` leaves a running row with no task; cancelling it has
   no effect (`discovery/job_service.py:187`, the same order in `assurance/service.py`).
3. **`tr_nested`** — rolling back a generation staged on a finalized one resets the mark that the shared
   duplicates were purged; rolling back once more routes the tenant to the emptied stores
   (`tenancy/data_plane.py:835`, `881`).

Observations made while translating, without a run.

Jobs and runs:

- a task cancelled between `create_task` and its first step raises `CancelledError` in the worker
  (`discovery/job_service.py:135-145`, the same loop in `assurance/service.py:182`) and ends it; later
  jobs stay queued, though "Explicit cancellation is terminal". `EarlyCancel` is on in the runs, and
  the liveness properties assume a worker that survives;
- `on_complete` raising after `complete_job` overwrites the complete row with an error
  (`discovery/job_service.py:290`);
- usage of cancelled queries leaves the UTC-day sum (`workload/store.py:205`; `Charged` says so), and
  history is pruned to 5000 rows of any day (`workload/store.py:164`): past them the budget counts too
  little, and the theorems about it say so (`RowsKept`);
- a run that called Splunk, was retried after a restart and cancelled before calling again no
  longer counts against the daily limit (`assurance/store.py:910`), so `DailyLimitHolds` speaks of the
  time before a restart; the call ceiling is per attempt (`assurance/service.py:281`);
- a job cancelled in the queue after a requeue is described as having made no Splunk calls
  (`discovery/job_store.py:365`);
- policy updates of assurance carry no revision, so the last writer wins (`assurance/store.py:147`);
- `_admit` decrements `queued_calls` without a lower bound when it admits
  (`workload/service.py:354`), which after the first finding makes it negative.

Signals and validations:

- a complete run on another connection of the tenant resolves the former connection's signals
  (`assurance/store.py:598-607`);
- validation drafts are reused by tenant and query only (`validation/store.py:376-392`);
- a crash after `complete_run` loses the run's correlation (`assurance/service.py:385`), one after
  `create_package` its drafts and notice (`response.py:92-113`); nothing makes them up later;
- `fail` and `requeue_interrupted` write their status whatever the row is (`validation/store.py:334-352`):
  the failing preflight of a second execution reopens the running task for editing, and cancelling the
  first then approves what was edited. With `OverlappingRuns = TRUE` the property `ApprovalIsCurrent` fails;
- `approve_validation` awaits the preflight of one contract and approves the one the row holds
  afterwards (`app.py:4671`; the action `Approved`);
- a query that fails after the expiry leaves its task as expired before execution
  (`validation/store.py:342`), and its artifact may be stored before `complete` refuses
  (`validation/service.py:297`).

Delivery and audit:

- approving a fresh preview after the policy cancelled the job returns the cancelled job
  (`delivery/store.py:286`; `README.md:813` asks for the fresh preview);
- the approval of a webhook or Slack payload is not tied to the destination that was previewed
  (`delivery/service.py:660`; `payload`);
- an exception `_deliver` does not name leaves its row sending until a restart (`delivery/service.py:1470`);
- a policy change that moves the cursor while a batch is in flight is overwritten when the batch is
  recorded (`audit_export/store.py:329`): a backfill asked for then does not happen, although
  `README.md:880-883` promises it. `NothingSkipped` excludes such behaviours (`crossed`);
- the process may end between `update_secrets` and `update_policy` (`audit_export/service.py:173-181`); a HEC
  token replaced in the environment does not reset the cursor; an unexpected error in `run_now` leaves
  "sending"; a late answer records "pending" or "retrying" for a policy disabled meanwhile.

Detections:

- published content is not read again after its preview; the pull request's head and its checks are
  read in two calls, so the checks may be of another head (`repository.py:1001`);
- a crash between the case item and its mark (`repository.py:707`) repeats the item; one between
  `update-ref` and `mark_applied` (`repository.py:453`) leaves a branch the handoff does not know; one after `store.review` loses what
  an approval preserves (`service.py:315`);
- a project approved once can be deleted after an edit (`store.py:447`); an artifact may be deleted between
  gate and decision (`service.py:937`), and `create_validation_draft` may return a task whose artifact is
  gone (`service.py:262`);
- two concurrent deployment refreshes are stored in the order they finish (`deployment.py:58`);
  `unique_name_observed` may come from a capped catalog (`deployment.py:600`); the project may be edited while
  its runtime task waits (`deployment.py:663`).

Tenancy:

- combinations the profiles leave out fail for real reasons: the nesting of `tr_nested`; a crash between
  purges, or between a routed write and `note_write`, followed by a direct rollback; and retention with three
  chained generations: only the source of the active generation is protected (`retention.py:349-357`,
  `README.md:1074`), so the first of them can be cleaned, and after two rollbacks the tenant is routed to it
  (`rollback` does not look whether the store exists, `data_plane.py:859-903`);
- a stale verified migration can never be replaced (`data_plane.py:739`, and the message at 1236).

Models:

- two concurrent promotes pass their checks before either awaits (`tournament.py:345`); promote, rollback and
  staging save settings loaded before the await; rollback overwrites a newer manual route
  (`tournament.py:437`, against `README.md:487-488`) and marks a profile as candidate that another route uses
  (`445-449`); the enforcement check observes the routes loaded before its await;
- a profile removed between `start_pull` and its task's first step leaves a queued job for good
  (`model_setup.py:2723`, `2790`, `2423`), which is why `PullsEnd` is about profiles that stay; a failed
  update leaves an old manifest over mixed files (`1030`); `_record_ollama_revision` records the
  publisher's newest revision, not the one pulled (`1915`).

Forecasts and recovery:

- the request of an attempt is read again at execution; a crash between retaining a run and completing its
  attempt leaves an extra run; recovered attempts do not count against the daily budget; review decisions
  are authorised against the present connection (`app.py:3137-3150`); a deleted draft makes its candidate
  unusable;
- a package without a vault leaves the live vault in place, unreadable under the package's key
  (`config.py:121-127`; `docs/DEPLOYMENT.md:455`);
- a restore given up half way, or a stage that cannot be removed, leaves a mixture (`torn`), a second
  attempt takes half-replaced files for originals, and a file that was absent stays after a rollback;
- the freeze is checked once, before a handler awaits (`late`), and public authentication paths still
  write (`README.md:1027`, `docs/ARCHITECTURE.md:577`); a crash in `cancel_pending` between its two
  removals leaves a marker without a stage.

## What is not modelled

- Who may do what: authentication, sessions, OIDC, roles and permissions. Every operation may be called at
  any time, by anybody.
- Content: what a pipeline or an agent finds, what a payload says, what an estimator, a model or a forecast
  scores. Where control depends on it, it is a constant or a nondeterministic choice. That is why
  the discovery pipeline, the agent, the evidence store, the Splunk context and the providers have no
  module: they are long, straight sequences of reads and text processing, whose concurrency is that of the
  services that run them.
- Wall-clock time: timeouts, backoffs and poll intervals are steps that may happen; expiry and due dates
  are flags; UTC dates are the step from one day to the next.
- Single-transaction registries: connections, cases and the policies of repository and retention. Their
  changes are actions of the models that depend on them.
- Within modelled components: the one-time `bind_unbound` and ownership migrations, the read-only Jira
  reconciliation, connection tests, the tenant binding of an outbox job, freshness thresholds of the operations kit,
  activation and diagnostics of models, listing and search. Several suites and blind comparisons are one, five objects of
  the operations kit are two.
- Exceptions nobody raises on purpose (a full disk inside a store method), except where a hazard in
  `PROJECT.json` says otherwise.
- Several processes on one data directory: the `Dockerfile` and `install.sh` start one, without workers, and
  `docs/DEPLOYMENT.md:453` asks to stop the application before the recovery command.

## What is left

- The lane as a module of its own, shared by discovery, assurance and the other users, to discharge the strong
  fairness of `EnterLane` from its queue.
- A composition of `AssuranceRuns`, `AssuranceSignals` and `DeliveryOutbox`: today the completion of a run, the
  opening of a package and its jobs meet only at their interfaces.
- Sessions and OIDC transactions, and the last administrator, if access is to be part of the project.

## Running it

    tlc -workers 2 -config wa_interleavings.cfg MCWorkloadAdmission
    tlapm WorkloadAdmissionProofs.tla

`PROJECT.json` names the module of each configuration. Each run takes from seconds to a few minutes; so
does each proof module. The modules use the community modules `FiniteSetsExt` and `SequencesExt`.

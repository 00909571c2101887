# TLA+ specifications of the migration platform

The platform moves records from a source (an uploaded object, a watched prefix,
Salesforce) to HTTP destinations. A Rust API (`apps/api`) keeps jobs, templates,
sources, schedules and batches in Postgres and starts Temporal workflows through a
small HTTP bridge; a Go orchestrator (`apps/orchestrator-go`) runs the workflows and
activities; a Python worker transforms rows in a sandbox; a license server, run by
the vendor, attests installations. This directory models the parts in which
concurrency and failure decide whether the result is right, checks them with TLC on
small instances, and proves with TLAPS, for all instances, every safety property that
the passing runs check of them.

Contents: [inventory](#inventory), [plan](#plan), [modules](#modules),
[runs](#runs), [bounds](#bounds), [fairness](#fairness), [proofs](#proofs),
[findings](#findings), [known divergences](#known-divergences),
[not modelled](#not-modelled).

## Inventory

| Component | Module | State | Operations | Correct when |
|---|---|---|---|---|
| Operation ledger (`activities/operations.go`, `call_endpoint.go`) | `OperationLedger`, `Delivery` | row of `operations`: state, payload digest, lease, first send | `begin`/`decideAttempt`, lookup, send, `finish` | no effect is repeated unless an operator decided so; success is never invented; one attempt at the destination at a time |
| Job lifecycle (`lifecycle/*`, `workflows/lifecycle.go`, `routes/jobs.rs`, `bridge.go`, `activities/export.go`) | `JobLifecycle`, `JobStatus` | row of `jobs`, `job_rows.status`, exported files | create, start, pause, resume, cancel, row retry, export retry, finalize, export, reconcile | outcome agrees with rows, is never undone, and every job gets one |
| Migration run (`workflows/workflows.go`, `checkpoint.go`, `activities.go`), source connectors, `authorize` | `MigrationRun` | checkpoint, template version, totals, pause flag, `job_rows`; offset of the reader; registry of versions | ingest, continuity check, preprocess, dispatch, persist, continue-as-new | each record is dispatched once, in order, from one snapshot, under one template |
| Batches (`workflows/batch.go`, `activities/batch.go`, `batch/*`, `routes/batches.rs`) | `BatchRun` | `batches`, `batch_stages`, waves | start, unpack, materialize, quarantine, run waves of child workflows, skip, finalize | a stage runs after its dependencies; stop means stop; every workflow ends with the stages' outcome |
| Watched prefixes and SFTP (`workflows/watch.go`, `activities/watch.go`) | `WatchPrefix` | cursor of seen keys, child workflows | list, start children, advance the cursor, evict | every object version starts, and once unless a named cause makes it start again |
| Licensing (`security/license.rs`, `license_server.rs`, `routes/license.rs`, `bin/*`) | `License` | store file, mounted file, state of each replica, server's revocations and trials | boot, heartbeat, trial, adopt, revoke, reinstate, gate | a revocation bites in time, a block heals, one trial has one end |
| Schedules (`routes/schedules.rs`, `temporal.rs`, `bridge.go`) | `Schedules` | row and Temporal schedule | create, update, delete, pause, resume, trigger | both exist or neither, a deletion is final |
| Templates, uploads, job admission (`routes/templates.rs`, `routes/files.rs`, `sources.rs`, `routes/jobs.rs`, `routes/schedules.rs`, `activities/batch.go`, `activities/watch.go`, `BootstrapScheduledJob`) | `Catalog` | `rule_templates`, `sources`, object storage, `schedules`, `jobs` | create, version, publish, delete, upload, stage, register, schedule, admit by the API, a batch, a watch or a scheduled run | a published version is fixed; what a job names exists |
| Sampling, LLM suggestions, validation, step chain (`sampling/*`, `routes/files.rs`, `routes/llm.rs`, `routes/templates.rs`, `processOneRow`) | `Sampling`, `Designer` | one designer session, `job_row_steps` of one row | sample, suggest, validate, run steps, retry | an unmarked sample is all the parser reads; an accepted template has its references; a succeeded row is coherent |
| Specs, dry run, connector, secret and user administration, egress, transform worker, web | none | rows or none | requests | see [not modelled](#not-modelled) |

**Interactions.** The API writes the job row and calls the bridge; the bridge calls
Temporal; workflows call activities, which are delivered at least once and time out;
activities write the same job row, `job_rows`, the ledger and the object store; the
reconciler reads stale jobs, describes their workflows and repairs the rows. Schedules
fire watch workflows, which start migrations and batches as children; a batch runs its
stages' migrations as children. API replicas share one license file. No lock or
transaction spans any two of these: every protocol rests on conditional updates,
a lease, deterministic workflow ids, a cursor and workflow order.

**Hard behaviours.** A timed out attempt that is still sending while its successor
runs; a lost response or lost receipt; a start that arrives after the API gave up;
control requests racing the end of the workflow; a reconciler racing a start or a
finalization; a run handing its position to a successor; a source that changes between
the check and the read; overlapping fires merging one cursor; a wave of children with
a stop in its middle; a second execution over stages that already ran; a license
answer that arrives after the license changed; a handler dropped between two stores.
`PROJECT.json` lists them under `hazards`, each at its line.

## Plan

Done: the eleven component modules above, the refinements of `JobStatus` by
`JobLifecycle` and of `Delivery` by `OperationLedger`, and proofs about all of them (see
[proofs](#proofs)). What could follow:

1. `BatchRun` over `JobLifecycle`: a child's outcome is a choice today.
2. `MigrationRun` over `OperationLedger`: a dispatched row is one step today, whose
   delivery the ledger's module covers for each row alone.
3. An abstract specification of a watched prefix, with the conditions of
   `MigratedAgainOnlyIf` as its actions.

## Modules

Definitions keep the names of the functions they model; `map` in `PROJECT.json` gives
the lines of each. Definitions marked *Mutant* are plausible mistakes: none is used by a
specification, and each breaks the property that guards against it when it replaces the
definition it stands before. The proofs about a module `M` are in `MProofs`, which
extends it, and those about `Catalog`, `Designer` and `Sampling` in `TemplateProofs`; they
define the inductive invariants and nothing a specification uses. `Designer` prefixes the
names of its specification with `Session`, so that one module can extend it and `Catalog`.

### OperationLedger

One operation (job, row, step); operations never share state, so one is enough.

* `op` is the row of `operations`. A missing row is `pending` without payload. The
  count of attempts is dropped, as nothing depends on it.
* `call` is the CallEndpoint activity execution, `cur` the attempt Temporal waits for.
  `pc[a]` is where attempt `a` is: several attempts can be between `begin` and `finish`,
  because `TimeoutAttempt` may happen at any time (CallEndpoint does not heartbeat) and
  the worker goes on.
* `StartCall` carries what `retry_row` can ask for: another payload, a from-start
  re-send, a confirmation that nothing was applied. `AbandonCall` is a cancelled
  workflow or one that stops for another error.
* `BeginSend`, `BeginUnresolved` and `BeginNoChange` are the transaction of `begin`, by
  the answer of `decideAttempt`; `lookupEffect`, `SendNotWritten`, `SendWrite` and
  `Response` are the calls to the destination; `Finish`, `FinishLeaseLost` and
  `FinishFails` the three ends of `finishWithRetry`; `Die` is a crash or the end of the
  attempt's context, possible at every step.
* The destination is the environment. In mode idempotent it remembers a key for
  `DestRetention = Retention + Deadline`; in mode lookup it answers truthfully about
  effects that exist. A request is settled (applied or refused) by the time its worker
  stops waiting, or at the latest at the attempt's deadline: the HTTP client gives up
  after 30 s (`cmd/worker/main.go:83`), and a destination that applies a request after
  that is excluded.
* `effects` counts effects and `decisions` the calls that carry an operator's decision;
  `authorised` is the set of attempts that sent again because of one. One decision is in
  the input of the activity, so every attempt of that call may be in the set.
* `Delivery` is what the owner of the row may rely on: calls and their answers, effects
  and decisions, without attempts, leases or time. `Tries` is how often one call may be
  put to the destination: `MaxTries` here.

### JobLifecycle

One job of at most `MaxRows` records with every writer of its row.

* `start` is the task `create_job` spawns: `StartArrives`, `StartUnknown` (timeout or
  5xx), `StartRefused`, then `RecordStart` or `RecordRefused`. A start whose caller gave
  up may still arrive (`orphan`).
* `req` holds pause, resume and cancel requests between their read, their signal and
  their update, three steps as in `signal_and_record` and `cancel_job`; a request may
  be dropped after each.
* `wf` holds the workflows `{id}`, `{id}-retry` and `{id}-export`. `FinalizeCount` and
  `FinalizeUpdate` are the two statements of `finalize`; the export is read, upload,
  record. `FinalizeFails` may happen before or after the commit.
* `rec` is the reconciler between describing, counting and updating. A job is stale
  once its start call is over: five minutes, the default of `RECONCILE_STALE_AFTER`,
  exceed the API's 20 s and the bridge's 15 s timeouts, and this is all the code needs of
  the delay. `config.go:88` accepts any positive duration: a shorter one is excluded.
* `main.batch` says that the workflow is inside a batch. `Ingest` is the head of the
  loop, the only place where a pause holds it: a batch that was ingested is processed to
  its end, and the last one also ends the source (`SourceExhausted`), pause or not.
  `Publish` is the progress of a batch, whose errors are ignored.
* `CloseStates` is how Temporal records the end. A cancelled job whose work ended with
  another error closes as failed: the workflow returns that error.

### MigrationRun

One job from its first batch to its end, over the chain of continue-as-new runs.

* `source` is the environment: an object whose versions are replaced and registered,
  or Salesforce query jobs that complete on their own. A snapshot is a version of the
  object or a query job; `size` gives each its number of records.
* `cp`, `template`, `result`, `paused` are the run's locals; `input` is what the run
  was given; `ContinueAsNew` passes on what `continueMigrationAsNew` does and forgets
  the rest.
* `Authorize`, `Open`, `QueryReady`, `FetchPage`, `NextRow`, `SourceDone` and
  `BatchFull` are one attempt of Ingest. The version check and the read are two steps
  because they are two requests. `IngestRetry` loses an attempt, with any query job it
  created.
* `DispatchRow` and `PersistRow` are `processOneRow`; `PersistRetry` is a redelivered
  upsert. `log` records what was dispatched: index, snapshot, record and template.
* Whether a run hands over depends on history sizes, so it may after any batch or poll.
* An object source follows the CSV and XML connectors, which end the skip quietly at
  the end of a shorter object; the JSON connector fails instead, which is `IngestFail`.
  Uploads are content-addressed: replacement concerns objects of watched prefixes. An
  object never gets the ETag of an earlier version back.

### JobStatus

What a client may rely on about a job's status, as ADR 0004 states it, with three
variables: the status, whether the job stopped early and whether a retry of its rows is
open. `JobLifecycle` maps its row and its retry workflow to them (`Promise`) and
`KeepsPromise` says that every one of its steps is a step of `JobStatus` or leaves the
three unchanged: a job ends once, only a row retry restates its outcome, and never from
cancelled or to a success of a job that stopped early.

### BatchRun

One archive package. The manifest (dependsOn relation, onStageFailure) is any over `N`
stages, cyclic ones included: `Validate` is what refuses them.

* `starter` is the handler of POST /batches or the watch workflow: insert, start, mark.
  Its last update looks at no status, as in the code. `StartBatch` is a later fire that
  finds the archive again and runs the same workflow id, which Temporal allows once the
  last execution failed.
* `wf` holds the locals of `BatchWorkflow`. `skipStage` and `NextWave` are one pass of
  the loop of `runStagesDAG`; a sequential batch is the case of waves of one stage in
  manifest order (`ReadyStageIDs`), where a failed stage blocks others only by a stop.
* `StartBatchStageJob` starts the stages of a wave one by one, since a start that fails
  may stop the rest of the wave; `FinalizeBatchStage` awaits them in order. A child that
  an earlier execution completed cannot be started again (`dup`). A child ends `ok` (all
  rows migrated), `flawed` (completed, with failed or unresolved rows) or `bad` (an error):
  Temporal starts only the last again.
* `WorkflowFails` is an activity that fails for good at any point, or a lapsed license:
  no row is written and the running children are terminated.

### WatchPrefix

Overlapping executions (`Fire`) of `WatchPrefixWorkflow` over one prefix. Each reads the
cursor (`LoadConnector`), lists (`ListPrefixObjects`), starts a child per new version in
any order, and merges what it started (`AdvanceConnectorCursor`), keeping the lexically
largest `MaxCursor` keys. Keys are numbers in lexical order, so eviction is by number.
`hist` records what was started, migrated and evicted. `Forget` is Temporal's retention.
Objects under `failed/` (`Quarantine`) are never listed. `MigratedAgainOnlyIf` takes any
fault of the behaviour as a cause, not only one of that version. Clearing the cursor by
hand (`docs/scheduling.md:83`) has no code behind it and is left out.

### License

API replicas, the store file they share, a mounted license file and the server.

* `rep[r]` is `LicenseState`; `seen` abstracts `store_stamp`: whether the replica knows
  the file that is in the store. `task[r]` holds the two calls a replica can have in
  flight: the tick's heartbeat and a trial start. Each goes through asked (by the
  server: `heartbeat`, `trial_start`), granted or denied, persisted, activated: five
  steps with anything in between. `Unavailable` may replace the answer before or after
  the server acted.
* `validity`, `heartbeat_due` and `should_adopt` are the predicates of the same names.
  `heartbeat_tick` adopts a changed store and takes the decision to ask in one step: no
  await separates them.
* Time passes only when no call is in flight and every replica has done the tick it
  needs: calls take seconds, ticks come every minute, and the periods are hours or days.
* `revoke` and `unrevoke` are the two statements of the command line tool in one step.
  The licensee follows from the license's kind. Whether a trial counts as revoked is the
  flag of its record, which is what both calls obey.
* `license_sign` signs licenses of both kinds by hand, with or without heartbeat; a trial
  signed so is in no record of the server (`hist.signed`). That the vendor signs no
  license for a licensee it revoked (`Deliver`) is an assumption about people:
  `license-sign` works offline and does not look.

### Schedules

One or more schedules, each a row and a Temporal schedule. A request is read, call(s),
write; `AfterCall` is what each handler does with the bridge's answer. `call_fails` is a
call that is lost or takes effect after its caller gave up (`late`), `dropped` a handler
that ends where it waits. `alone` marks a request that had the schedule to itself.
Timings in `Foreign` are those the API accepts and the bridge refuses (durations such as
`1week`, which Go does not parse). Catch-up window and overlap policy go the way of the
time zone and are left out: an update writes all three to the row only. `Settled` says
field by field which store a request reaches.

### Catalog

Requests, each a process that runs one handler a statement at a time. `create_version`,
`snapshot_version`, `insert_version` split INSERT ... SELECT MAX(version)+1 into its
read and its insertion, which READ COMMITTED allows to interleave; the unique index and
the foreign keys are part of the insertions and of `delete_template`. There are four ways
to a job (`by` of its row):

* the API: `create_job`, `resolve_source`, `insert_job`;
* a stage of a batch: `UnpackAndStageArchive` stores the stage's object,
  `MaterializeBatchStages` finds the newest published version of its key, and
  `StartBatchStageJob` registers the object and inserts the job;
* a watch: `StartWatchObjectJob` registers an object it listed, which another system or
  the staging of a remote file has written (`object_written`);
* a scheduled run of a connector: `BootstrapScheduledJob`, without an object.

The last two take template and version from the schedule, for which `create_schedule`
checks only that the template is the organisation's. `bound` is history: the row a
published version names.

### Sampling, Designer

`Sampling` is the algorithms: `infer_column_type` and the samplers of the four formats,
as functions of the records read, the row cap and whether the input was clipped. A file
is seen at one column; a cell is told apart by the types it parses as, the cell `object`
being one without text, such as an XML element `<id></id>`, which reads as `{}`. A record
`SelfClosing` is an XML element `<record .../>`, which `read_next_record` passes over.
`Designer` puts
them in a session: an object is sampled, a template suggested (one correction round) or
written, validated and run. `chain` is one row's way through the saved steps with its
`job_row_steps`; a record remembers in which pass it was written and which responses it
used, so that a stale response shows. Rendering fails if a reference has no response.
`Kept` selects the records a parser does not skip by their rank, and the inferred type is
the least survivor in the order of preference: what the loops of the code end with, stated
without recursion so that it can be reasoned about.

## Runs

| Run | Properties | What it shows |
|---|---|---|
| `ledger` | `OneLiveSender`, `EffectsAuthorised`, `ImplementsDelivery` | with a lease that outlives its attempts, no timeout, crash or lost answer brings two attempts to the destination, and none repeats an effect before an operator decided that the operation may be sent again; after a decision at most the attempts of the calls that carry one do; the owner of the row sees what `Delivery` says |
| `ledger_zombie` | `SuccessIsReal`, `LiveLeaseIsExclusive` | even when an attempt outlives its lease, the fence on `lease_attempt` holds and no success is invented |
| `job` | `OutcomeFromRows`, `RepairOnlyOrphans`, `OutcomeKept`, `KeepsPromise` | outcomes agree with rows and are kept, the reconciler touches only orphans, `JobStatus` is implemented |
| `job_settles` | `Settles` | every job that is not left paused gets an outcome |
| `run` | `RowsOnceInOrder`, `OneSnapshotOneTemplate`, `CompleteWhenOk`, `EarlierBatchesPinned`, `InvalidOnlyIfReplaced`, `PositionAdvances`, `Finishes` | hand-overs, pages, pending polls and lost attempts skip, repeat or mislabel no row, the position never moves back or past an unrecorded row, and the job ends |
| `batch` | `StagesInOrder`, `OutcomeFromStages`, `NoStartAfterStop`, `WorkflowEnds` | for every manifest of three stages: order and stop hold through faults and a second execution; the outcome written is what the rows say, success is recorded only if all was migrated, and failure of what was migrated needs a second execution or a lost answer; no wave waits for ever |
| `watch` | `TypeOK`, `SeenWasStarted`, `MigratedAgainOnlyIf`, `ArrivalStarts` | the cursor hides nothing that was not started; a repeat needs an eviction, a fault or an overwrite, and retention; fires catch up with every key |
| `license` | `TypeOK`, `RevocationWithinGrace`, `RevocationTakesEffect`, `BlockedOnlyIfRefused`, `OneTrialOneEnd` | a revocation bites within the grace, or within an interval when the server answers; blocks heal; a trial has the end on record, or one the vendor signed by hand |
| `schedules` | `ExistenceAgrees`, `DeletedStaysDeleted`, `SoloRequestSettles` | the two stores agree on existence unless a fault struck a creation or deletion; a deletion is final; a request served alone repairs the spec and the state |
| `catalog` | `PublishedVersionFixed`, `TemplateStaysUntilAdmitted`, `JobInputsExist` | numbers of deleted drafts are reused, those of published versions never; a found template is there when the job is inserted; a job of any origin names its organisation's template and stored object, and one of the API or of a batch a published version |
| `designer` | `UntruncatedIsWhole`, `ReferencesExecuted`, `SucceededChainCoherent`, `SucceededStepsKept` | an unmarked sample is all of the file that the format's parser reads; an accepted template never renders a missing reference; a succeeded row used the responses on record; a resumed pass calls no succeeded step again |
| `job_direct_cancel` | `DirectCancelIsQuiet` | a counterexample, see [findings](#findings) |

The type invariants of `ledger`, `job`, `run` and `designer` are theorems and need no run.
Only `run` and `watch` check for deadlock: the rest of `run` is `Ended`, and fires go
on for ever. Everywhere else the system may stop: an operation without further calls, a
finished job or batch, requests that are all answered, bounds that are used up.

## Bounds

* `ledger`: three attempts, two per execution, two executions, two payloads, all modes,
  clock up to 2 with lease, deadline and retention 1. Two attempts overlap within an
  execution and a third comes from a retry with another payload; the clock passes every
  deadline twice.
* `ledger_zombie`: the same with `Deadline = 2 > Lease = 1`, the case the lease is not made
  for. Three attempts are needed: two use up an execution, and the third, of a confirmed
  retry with another payload, takes the lease over while an earlier one still waits.
* `job`: two rows (an outcome can be mixed), one control request, one retry, one fault.
  `job_settles`: two requests, so that a pause can be resumed or cancelled.
* `run`: batches of 2, pages of 3, sources of 0, 3, 5 and 6 records: batch and page
  boundaries fall apart and together, the last page is full, partial or the only one,
  the last batch is full (an empty one follows) or not. Three runs, two snapshots, two
  templates, one lost attempt. A hand-over is not taken once `MaxRuns` is reached, as
  the code is free to go on in the same run.
* `batch`: three stages give chains, forks, joins, self-dependencies and cycles, 512
  relations times 8 choices of onStageFailure; two faults let a first execution fail and
  a stage of the second one as well.
* `watch`: two keys that are listed and one that is quarantined, a cursor of one entry
  (every second arrival evicts), two versions, two overlapping fires, one fault.
* `license`: two replicas, `Interval = 2`, `Grace = 3`, `Retry = 1`, a trial of 3 and a
  license of 5 units, clock up to 4: a trial expires and a grace period ends within the
  run, on a license that has not expired. Two acts of people (trial, delivery, revoke, reinstate) and one fault. Trials signed
  by hand have the length of a license, so another end than the server's.
* `schedules`: one schedule, which is enough as schedules share nothing, three requests
  (creation and two that race), three timings, one of which the bridge refuses, UTC and
  another zone, one fault.
* `catalog`: two organisations, one key, two contents (an archive and its stage), one
  file name, two template rows, one schedule, two requests at a time, one job, two
  uploads. No property relates two jobs, and a job's row is never changed, so one is
  enough; two rows of one key let a number be used again while a request holds it.
* `designer`: up to three records of size 2 or 3 against a byte cap of 4 (the cap falls
  on and inside a record), row caps 1 and 2 (at, below and above the number of records),
  every template of up to three steps over three names, three passes.
* Symmetry: attempts and payloads (ledger), replicas (license), requests and specs the
  bridge accepts (schedules), requests, organisations and contents (catalog). Only safety
  runs use it.

## Fairness

`FairSpec` of `JobLifecycle` has weak fairness for the start task, the workflows' own
steps and the reconciler: the process runs the spawned task, Temporal schedules
workflow and activity tasks as long as a worker lives, and the reconciler is a ticker
loop. `FairSpec` of `MigrationRun` has it for the workflow's steps and for the
completion of a query job (Salesforce finishes or fails a query; a failed one is
`IngestFail`). `BatchRun` has it for the workflow's steps and the end of each child,
which has an execution timeout of 24 hours. `WatchPrefix` has it for each fire: the
schedule goes on firing. Nothing obliges an operator to send a request, and no fault is
obliged to happen or to stop; faults are bounded by `MaxFaults`. `Settles` excludes a
job whose workflow waits in a pause, and `Finishes` assumes that pauses end for good: a
paused run may wait for ever by design. A process that is down for ever is outside all.

## Proofs

`OperationLedgerProofs` proves, for every set of attempts and payloads, every retry
policy, clock, lease and retention (only `LedgerAssumption` is assumed):

| Theorem | Statement |
|---|---|
| `TypeCorrect` | `Spec => []TypeOK` |
| `SuccessTheorem` | `Spec => []SuccessIsReal` |
| `OneLiveSenderTheorem` | `Spec => []OneLiveSender` |
| `EffectsTheorem` | `Spec => []EffectsAuthorised` |
| `ExclusiveTheorem` | `Spec => LiveLeaseIsExclusive` |
| `DeliveryTheorem` | `Spec => ImplementsDelivery`, that is, `Delivery`'s specification under the refinement mapping |

None of the invariants is inductive alone. The argument:

1. `AttemptInv` ties where an attempt is to its payload, its deadline and the fate of
   its request: one that decided *responded* or *found* has an effect of its payload.
2. `RowInv` ties the row to its holder: leased exactly while `sending`, with the
   holder's payload. `finish` writes only for the holder, so `succeeded` is written
   with the payload whose effect `AttemptInv` gives. `TypeOK`, `AttemptInv` and `RowInv`
   form `LedgerInv`, inductive whatever the lease, which is why `SuccessTheorem` and
   `ExclusiveTheorem` cover attempts that outlive it.
3. `HolderInv` needs `Deadline <= Lease`: an attempt that can still act holds the lease,
   and the lease outlives it. A successor gets the row only when the lease is over, when
   nothing of the predecessor can act. Two attempts at the destination would both hold
   the one lease.
4. `EffectsInv` strengthens the count: effects exceed the attempts in `authorised` only
   in states from which, outside mode idempotent, `decideAttempt` does not send without a
   lookup that finds nothing or a decision; where a send is possible, effects are at most
   as many. It uses `HolderInv` to know that no other request is on its way. `CarryInv`
   bounds these attempts: only one that carries a decision is in `authorised`, an attempt
   carries what its call does, and a call has at most `MaxTries` attempts. Cardinalities of
   finite sets are taken from `FiniteSetTheorems`.
5. `DeliveryTheorem` maps the open call, the recorded row, the effects and the decisions
   to `Delivery`, which says in addition that the first call carries no decision and a
   retry of an unresolved row always one, that a call is answered at most once
   (`CallInv`: Temporal waits only for an attempt of an open call), and that late replies
   change nothing.
   `Delivery`'s `exact` is the condition on the lease and the mode, so that the rest of
   the promise is proved whatever they are.

`OneLiveSender` and `EffectsAuthorised` state `Deadline <= Lease` as their condition:
`operations.go` sets the lease to 2 min 15 s, above the start-to-close timeout of 2 min.

### The other modules

Every theorem has the form `Spec => []P`, or `Spec => P` for an action property, and
follows from `Invariance`, `Spec => []IInv`, in the same module (`SessionInvariance`,
`SessionSpec => []SessionInv`, for `Designer`). `IInv` was checked by TLC
on the instance of the module's run before it was proved. What each proof assumes is the
`ASSUME` of its module, mostly that bounds are natural numbers, and nothing else about
the sets of requests, keys, replicas, stages or rows.

| Module | Theorems: properties proved | Assumed |
|---|---|---|
| `JobLifecycleProofs` | `TypeOK`, `OutcomeFromRows`, `RepairOnlyOrphans`, `OutcomeKept`, `KeepsPromise` | `LifecycleAssumption` |
| `MigrationRunProofs` | `TypeOK`, `RowsOnceInOrder`, `OneSnapshotOneTemplate`, `CompleteWhenOk`, `EarlierBatchesPinned`, `InvalidOnlyIfReplaced`, `PositionAdvances` | `MigrationRunAssumption`: sizes are positive, and there is room for one query job more than attempts are lost |
| `BatchRunProofs` | `StagesInOrder`, `OutcomeFromStages`, `NoStartAfterStop` | `BatchAssumption` |
| `WatchPrefixProofs` | `TypeOK`, `SeenWasStarted`, `MigratedAgainOnlyIf` | `WatchAssumption` |
| `LicenseProofs` | `TypeOK`, `RevocationWithinGrace`, `RevocationTakesEffect`, `BlockedOnlyIfRefused`, `OneTrialOneEnd` | `LicenseAssumption`: the heartbeat interval does not exceed the grace period (constants of `license.rs`) |
| `SchedulesProofs` | `DeletedStaysDeleted`, `ExistenceAgrees`, `SoloRequestSettles` | `SchedulesAssumption` |
| `TemplateProofs` (`Catalog`) | `PublishedVersionFixed`, `TemplateStaysUntilAdmitted`, `JobInputsExist` | `CatalogAssumption` |
| `TemplateProofs` (`Designer`, `Sampling`) | `SessionTypeInv`, `UntruncatedIsWhole`, `ReferencesExecuted`, `SucceededChainCoherent`, `SucceededStepsKept` | `BoundsAssumption`: caps and record sizes are positive |

The arguments, and what the invariants add to the properties:

* **Job lifecycle.** `TypeOK` is not inductive alone: a request that is on its way writes
  its kind into the row, and `RequestInv` says that it has one. `StartInv` and `OwnerInv`
  relate the start task and the running workflows to the job's status: until its workflow
  has updated the job, nobody but a cancel ends it. `CountInv` says that what a
  finalization, a retry or the reconciler counted is still true of the rows whenever its
  conditional update can take effect, `RowsInv` that a job that ended without an error
  has all its rows, and `ReconcilerInv` that a workflow described as closed does not run
  again. `KeepsPromise` is proved step by
  step: each step of a writer is a stutter, a progress, an end, a note or a restatement
  of `JobStatus`, under its refinement mapping.
* **Migration run.** `PositionInv` holds the position a run goes on from, be it handed
  over or its own: all rows before it were sent, counted and recorded, and a Salesforce
  position names its query job and fits its pages (`OnPage`). `BatchInv` ties the iterator
  to the batch: row *i* of the batch is record `Base + i - 1`, and the offset resumes
  behind the last one. This rests on the lemmas about pages: `PageTurn` (an exhausted
  page is the start of the next), `PageNext`, `PageEnd` and `OffsetResumes`. `LogInv` and
  `JobRowsInv` carry it to what was sent and recorded; between two deliveries of one
  outcome `job_rows` already has the row under the attempt's id, so that the upsert does
  not count again (`UpsertOnce`). `TemplateInv` pins the template over hand-overs.
  `CreatedInv` bounds query jobs by lost attempts; without it the type of `created`
  cannot be shown. `Base` is less than the checkpoint only for a replaced, shorter
  object, the only case in which `checkRowContinuity` can refuse a batch.
  `PositionAdvances` follows from these step by step: only the end of a batch and a
  pending poll change the position, and both go on with the job it names (`SameJob`).
* **Batches.** `WaveInv` and `TurnInv` say that a wave holds pending stages whose turn it
  is, and stays so while its children end one by one; `StatusInv` that the workflow's
  notes, the rows and the children agree; `StopInv` that a failure that stops the batch is
  remembered; `FirstInv` that in a first execution no stage whose child migrated
  everything is noted as failed, so that only a second one, or the API's own update after
  a lost answer, can misreport it. That a wave is never empty while stages can run is part
  of `WorkflowEnds`, which is checked only.
* **Watched prefixes.** `StartedInv`: whatever a cursor or a fire's advance holds was
  started. `OnceInv` is the case without a named cause: a first version that was started
  is in the cursor or about to be put there, and once migrated it is remembered by
  Temporal until the cursor has it and no fire works from an older one. The bound of the
  cursor after a merge needs facts about cardinalities and about the entries kept.
* **Licensing.** `CopyInv` covers every copy of a license, stored, mounted, active or on
  its way: it was attested no later than its kind was revoked, and a trial's copies have
  the end on record or one signed by hand. `RepInv` ties a replica's denial and error to
  its last attempt.
* **Schedules.** `CreateInv`: a schedule is created in Temporal at most once, by a request
  or by a late call. `HalvesInv` says how row and schedule can come apart, `SoloInv` what
  a request that is alone has achieved before each of its steps.
* **Catalog.** `UniqueInv` is the unique index; `VersionInv` makes the largest version
  exist; `BoundInv` ties published names to rows; `RequestInv` says that what a handler
  found still holds when it acts, which is the property two statements of one handler
  could lose to a concurrent deletion; a draft that a `create_schedule` found may be gone,
  and then the foreign key refuses the row. `ScheduleInv` and `JobInv` say that what a
  schedule or a job names is there, which is what the foreign keys keep, and `SourceInv`
  that what is registered is stored.
* **Designer.** `SessionInv` says that a running chain's template was validated, so that
  names are distinct and references point back (`ReferencesSeen`). `PassedInv`: every step
  the pass has gone by has a response or failed in it, which with the references is
  `ReferencesExecuted`. For rows that were not restarted, `ResumeInv` says that a step
  still to be run anew has no succeeded record: so no record a later one rests on is about
  to be replaced, and `SucceededStepsKept` holds. `ResponseInv` and `RecordInv` tie
  the responses of the pass and those every succeeded record used to the records of the
  steps they come from; neither survives a restart, which is why the property excludes it.
* **Sampling.** The type inferred fits every value it was inferred from
  (`InferredTypeFits`), the records `Kept` selects are all that are not lost
  (`KeptFacts`), and the body of a file within the byte cap is the whole file
  (`BodyWhole`); `WholeSample` follows for each format, for the records the format's
  parser does not pass over. No induction over the file is needed, as the least survivor
  and the rank of a record are defined directly.

The attempts changed four modules. `Pending` in `Schedules` had CASE arms that overlapped
for a request that is no longer at its call; TLC took the first one, the semantics may
take either; the arms now exclude each other. `Put` in `WatchPrefix` also bounds the
versions of the key it writes: the bound on all writes implies it, but only by a sum over
the keys that the prover cannot reason about. `Sampling` and `Designer` used folds, filters
and function overrides that the prover cannot unfold; the same values are now defined by
sets, ranks and function constructors.

### Model-checked only

* Liveness, as fairness and `ENABLED` are outside the prover: `Settles`, `Finishes`,
  `WorkflowEnds`, `ArrivalStarts`.
* The statements of [findings](#findings) and [known divergences](#known-divergences),
  which do not hold.

## Findings

`DirectCancelIsQuiet` (`job_direct_cancel`): a cancel that finds no workflow may precede
the start that is still in flight; the migration then runs under a cancelled job. TLC
answers the run with that behaviour; `PROJECT.json` quotes the text it contradicts.

## Known divergences

Other places where the code does not do what a text or a user would expect. Those with a
configuration are reproduced by `tlc -config <cfg> <module>`; they are not among the
runs.

* `MCLedgerManualRetry.cfg` (`MCOperationLedger`), `ManualNotRetriedAutomatically`: a
  confirmed retry carries its confirmation in the activity's input, so Temporal's own
  retries are confirmed too and re-send. ADR 0003 says of mode manual "is not retried
  automatically".
* `MCLedgerRetention.cfg` (`MCOperationLedger`), `OneEffectPerDecision`: a retry that was
  not sent sets the operation to `pending`, which forgets an earlier send of unknown
  outcome; a send after the retention is applied again. ADR 0003: "one effect when the
  declared policy holds, otherwise an explicit `unresolved` row".
* `MCLedgerFailedRow.cfg`, `FailedRowHasNoEffect`: the row's status is taken from the
  last attempt's error, the effect may come from an earlier attempt.
* `MCJobRetryFinalize.cfg` (`MCJobLifecycle`), `RetryIsFinalized`: the reconciler selects
  active jobs only, so a finished job whose row retry ended before finalizing keeps a
  stale outcome. ADR 0004: "the reconciler repairs the job".
* `MCJobExport.cfg`, `ExportedFilesCurrent`: three workflows may export one job; the last
  to finish may be the first that read.
* `MCRunSourceVersion.cfg` (`MCMigrationRun`), `SourceVersionHeld`: the object is fetched
  by another request than the one that read its ETag; a replacement between the two, in
  the last batch, is not noticed.
* `MCLicenseDowngrade.cfg` (`MCLicense`), `NeverDowngraded`: POST /license/trial looks for
  a commercial license before it calls the server. One that the tick adopts during the
  call is replaced by the trial when the answer arrives, in memory and in the store,
  although `should_adopt` is to "never downgrade".
* `MCLicenseRestart.cfg` (`MCLicense`), `RevokedOnRestart`: a replica that starts asks the
  server only when a heartbeat is due (`license.rs:256-285`), so one with a fresh
  attestation works on for up to an interval after a revocation and a restart.
  `docs/install.md:125`: "Revocations take effect at the next heartbeat (≤ 24h,
  immediately on restart)".
* `MCScheduleTimezone.cfg` (`MCSchedules`), `TimezoneKept`: an update of a schedule sends
  no time zone to Temporal, which goes back to UTC; the row keeps its own
  (`docs/operations.md:102`).
* `MCScheduleUpdate.cfg` (`MCSchedules`), `UpdateTakesEffect`: the time zone, overlap
  policy or catch-up window that an update asks for is acknowledged and written to the
  row, and Temporal is not told. `docs/api.md:127`: "Updates cron/overlap/paused state";
  `docs/operations.md:101`: "switch `overlap_policy` to `buffer_one`".
* `MCSchedulePaused.cfg` (`MCSchedules`), `CreatedPaused`: a creation with
  `enabled: false` ignores an error of the pause (`schedules.rs:154-156`), so that the
  schedule fires although its row says it is off.
* `MCBatchEnded.cfg` (`MCBatchRun`), `EndedStands`: the updates of `POST /batches`
  (`batches.rs:202`, `batches.rs:214`) look at no status, so that a batch whose workflow
  has ended reads running or failed again (and `MarkBatchRunning`,
  `activities/batch.go:126`, makes one that reads failed running).
  `docs/PRODUCT_ROADMAP.md:131`: "A fast terminal workflow cannot be overwritten as
  running."
* `MCCatalogSchedule.cfg` (`MCCatalog`), `ScheduledTemplatePublished`: `create_schedule`
  checks that the template is the organisation's, and neither that it is published nor
  that the version is its own (`schedules.rs:87-96`); the jobs of watches and scheduled
  runs name both. `docs/api.md:42`: "only published templates can be used in
  jobs/schedules"; `docs/scheduling.md:15`: "must be published".
* `MCDesignerXml.cfg` (`MCDesigner`), `EachElementIsARow`: the XML sampler passes over a
  self-closing record (`xml.rs:149`, `xml.rs:165`), which the connector would emit, and
  does not mark the sample. `docs/sampling.md:96-100`: the columns "match exactly what the
  connector will emit at run time"; "Each `<recordTag>` element is one row".
* `MCLargeFiles.cfg` (`MCDesigner`), `LargeFilesSampled`: `sample_file` compares the
  length of the body with the Content-Length of the same ranged response, so a clipped
  file counts as complete: it is unmarked, or refused when the cut record does not
  parse. `sampling/mod.rs` says such files are sampled and marked truncated.
* Step chain: a from-start retry that fails early leaves later records of the earlier
  pass, and the next plain retry resumes past them with the old responses
  (`SucceededChainCoherent` excludes restarted rows).
* Batches: a batch whose workflow failed stays running, as there is no reconciler; a
  second execution marks the stages that had succeeded as failed, because their children
  cannot be started again, so that a batch all of whose stages were migrated may end
  failed (`OutcomeFromStages` names this case); "dependencies never satisfied" is reached
  then, although the comment at `workflows/batch.go:194` says it should not be.
* Schedules: an interval that the API accepts and Go does not parse is refused by the
  bridge, for a creation after the row was inserted (which is rolled back); an unknown
  overlap policy is refused after Temporal was changed; a row whose Temporal schedule is
  gone cannot be deleted.
* License: a denial is known to the replica that got it only; `revoke("*")` before the
  trial's row exists does not stop `trial_start`; an `unrevoke` for one licensee clears
  the trial's flag while "*" stands; replicas overwrite each other's file in the store; a
  heartbeat gives a trial that was signed by hand the end the server has on record
  (`license_server.rs:612`).
* SFTP: a plain file is staged in object storage and its job registered with the SFTP
  fingerprint, modification time and size, as its ETag (`watch.go:187-195`,
  `workflows/watch.go:163`). `objectSource` compares that with the ETag object storage
  reports (`source_authz.go:174`), so the job would end as a changed source, although the
  staging is there so that workflows "can reuse the existing minio source_ref path"
  (`watch.go:152`). Not modelled: `MigrationRun` starts from a registered version.
* Catalog: the same bytes uploaded under another name change the format of the source
  for jobs admitted later; version numbers of deleted drafts are used again; the loser of
  two concurrent `create_version` gets a plain database error.
* Sampling: malformed NDJSON lines are skipped unmarked, and an empty string makes a
  column nullable in CSV only.

## Not modelled

* Specs and dry run: an API description is stored by one upsert and deleted by one
  statement; its parsing and the preview of a rendering are pure functions.
* Administration of connectors, secrets, users and LLM configurations: single statements
  on single rows, and cryptography. A secret that is missing or an LLM configuration that
  is unusable is an event of `OperationLedger` or `Designer`.
* Rate limiting and egress filtering: predicates whose refusal is an event of
  `OperationLedger`. The transform worker: its failure is an event of `MigrationRun`.
* Paths kept for runs that started before a version gate (legacy `_offset`, the
  finalization before lifecycle ownership), and the expiry of workflow history other than
  in `WatchPrefix`.
* Parsing, rendering, transformation, signatures, metrics and the user interface: data or
  single-row operations without a protocol of their own.
* A database statement is atomic, but for INSERT ... SELECT in `Catalog`; an export's
  pages are one read.

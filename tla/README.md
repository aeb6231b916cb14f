# A TLA+ verification of the Operational Intelligence Engine

The engine takes operational events from equipment and other systems, stores
them, evaluates each tenant's rules on them, turns what the rules find into
alerts, and lets operators and an assistant work with the result. This directory
models the path of an event through it, from the edge agent on the plant floor
to the alert an operator acknowledges, and the parts that stand beside that path:
documents and their index, prompts and the assistant, workflows, notifications,
rate limits, escalation and the analyses. It checks small instances of them with TLC
and proves the main safety properties for all values of the constants with TLAPS.

All paths below are relative to the repository root.

## 1. The system

| component | state it keeps | operations | talks to |
|---|---|---|---|
| edge agent, `apps/edge-agent` | the queue in memory, its file, the sync task, the HTTP client | ingest_event, sync, start, stop | the API, by POST /events/batch |
| API, `apps/api` | PostgreSQL rows, per-minute counters in Redis, one in-memory table of webhook sources | the routes | PostgreSQL, Redis, object storage, and the workers through arq jobs |
| workers, `apps/workers` | arq jobs in Redis; one module-level session factory per process | process_event, create_alert, send_notification, generate_embeddings, reindex_document, the rule sweeps | PostgreSQL, Redis |
| scheduler, `apps/scheduler` | an APScheduler job store | four jobs that only enqueue | arq |
| event processing, `packages/events` | the tenant's Redis stream | process_event's five steps | rules, arq |
| rules, `packages/rules` | rule rows; composite state in Redis and PostgreSQL | three evaluators, get/update/clear state | PostgreSQL, Redis |
| alerts, `packages/domain/alert_service.py` | the alerts table with its unique constraint | create, acknowledge, resolve | PostgreSQL |
| documents, `packages/domain`, `packages/storage` | objects, documents, chunks, embeddings | upload, delete, process, embed, reindex | object storage, PostgreSQL |
| AI, `packages/ai` | prompt versions and the active one of each slot; message lists | register, promote, query with tool rounds | the model's API, MCP tool servers |
| workflows, `packages/workflows` | the execution record | execute_workflow | outside services |
| intelligence, reporting, integrations, verticals, observability | none that outlives a call (webhook sources aside) | pure computation and formatting | |

The hard behaviours are those of a system of processes with two stores and no
transaction over both: a commit in PostgreSQL followed by an enqueue in Redis,
with a process that may die in between; jobs run at least once; reads and writes
of one row an await apart; an agent that trims a list after an await during
which others changed it; state with a TTL; and a worker process whose abilities
depend on what it has run before. `PROJECT.json` lists each such place with its
line and the properties that cover it ("hazards").

What makes each component correct, in a sentence:

* edge agent: an accepted event is held until the cloud has it, in order and
  once in the queue, and what is lost was logged; it drains; it shuts down.
* ingestion and processing: no job before its row, every row of an accepted
  upload queued, every enabled rule that matches answered by one alert job,
  independently of the other rules; every job ends.
* alerts: one alert per incident, no firing lost by deduplication, at most one
  notification, no operator's call undone.
* composite rules: a state that meets its condition fires once.
* rule expressions: what is accepted is the documented grammar, and means what the
  grouping of its connectives says.
* documents: a row has its object and an object its row; every chunk can be found,
  none outlives its row, and a search returns it once.
* prompts: one version number per prompt, one active prompt per slot, and queries use it.
* assistant: every query comes to an end, with a reply unless one of two things that are not
  caught raises, and every tool result is that of its own call.
* workflows: the record of an execution says truly which steps ran, and with what result.
* notifications: what a result says of a channel tells a caller what is safe to repeat.
* rate limiter: never more than the limit in a minute, and no permanent block.
* escalation, SLA, grouping: what an alert is due depends on the time alone.
* analyses: a finding follows from the events, whatever comes in while they are read.

## 2. The modules

| module | models | kind |
|---|---|---|
| `EventBuffer` | what the agent promises the equipment | abstract specification |
| `EdgeAgent` | `apps/edge-agent/agent.py`, `main.py` | implements `EventBuffer` |
| `EdgeAgent_proofs` | | theorems |
| `EventPipeline` | `apps/api/routes/events.py`, `apps/workers/tasks/ingestion.py`, `packages/events/processor.py`, `evaluate_event_rules`, `packages/db/session.py` | component with its environment |
| `EventPipeline_proofs` | | theorems |
| `AlertLifecycle` | `apps/workers/tasks/alerts.py`, `packages/domain/alert_service.py`, `packages/db/models/alert.py`, the acknowledge and resolve routes | component with its environment |
| `AlertLifecycle_proofs` | | theorems |
| `RuleSweeps` | `packages/rules/state.py`, the threshold and composite evaluators, their worker tasks, `apps/scheduler/jobs.py` | component with its environment |
| `RuleSweeps_proofs` | | theorems |
| `Documents` | `apps/api/routes/documents.py`, `packages/storage/adapter.py`, `packages/domain/document_processor.py` and `embedding_service.py`, `apps/workers/tasks/embedding.py` | component with its environment |
| `Documents_proofs` | | theorems |
| `PromptRegistry` | `packages/ai/prompt_registry.py` | component |
| `PolicyGuard` | `packages/ai/policy_guard.py` | pure operators |
| `Assistant` | `packages/ai/ai_service.py`, `tool_coordinator.py` | composes the two above |
| `Assistant_proofs` | | theorems, also on `PromptRegistry` |
| `Expressions` | `packages/rules/expression_parser.py` | recursive operators beside a reference |
| `Workflow` | `packages/workflows/engine.py`, `templates.py` | component with its environment |
| `Notifications` | `packages/integrations/outbound.py` | component with its environment |
| `RateLimiter` | the class in `apps/api/deps.py` | component with its environment |
| `Escalation` | `packages/domain/escalation.py`, the SLA report of `packages/reporting/generator.py` | functions over alerts that change |
| `ContextAssembly` | `packages/ai/context_assembly.py` | pure operators |
| `Anomalies`, `RootCause`, `Predictions` | the three classes of `packages/intelligence` | functions over events that come in |
| `Lists` | `sorted`, `sum` and the comprehensions of the four above | pure operators |
| `Analyses_proofs` | | theorems on `Lists`, `Escalation`, `ContextAssembly`, `RootCause`, `Anomalies` and `Predictions` |
| `Operations` | | composes all from `Workflow` on, one in each behaviour |
| `Operations_proofs` | | theorems on `Notifications`, `Workflow`, `RateLimiter` and on `Operations` |
| `MCEdgeAgent`, `MCEventPipeline`, `MCAlertLifecycle`, `MCRuleSweeps`, `MCAssistant`, `MCDocuments`, `MCOperations` | | small instances for TLC |

The components are a chain: the agent's POST is the pipeline's upload, and the
pipeline's `alertJobs` and the `jobs` of the sweeps are the lifecycle's `Jobs`. They
share no variable, only those hand-overs. A job the lifecycle starts is one with the payload
`create_alert` documents; what the event processor really puts into it is a
question of its own (run `pipeline_payload`), and its answer, that such a job
fails at once, is the action `JobFails`. So `AlertLifecycle` says what
`create_alert` does for a producer that keeps to its docstring; nothing in the
repository does so yet.

### EdgeAgent

One process, one asyncio loop; everything between two awaits that can suspend is
one action. `queue` is `_queue`, `disk` the file, `pc[t]` the await at which task
`t` (the sync loop, or a `stop()` a signal handler started) is suspended,
`batch[t]` the local `batch` of its `sync()`, `wire[t]` its last request. Events
are numbered in acceptance order. Actions: `IngestEvent`; `BeginSync` (up to the
connectivity check), `SendBatch` (snapshot and POST), `SyncSucceeds` (trim and
persist) and `SyncFails`; `CloudCommits`, which may come after the agent has given
up; `Stop`, `LoopEnds`, `FinishStop`, `StopDies`; `RunReturns` and `Exit` (the poll in
`run()`, and asyncio.run cancelling what is left); `Crash` and `Restart`. `Persist`
may fail or leave an unreadable file; no configured path is the same as a write
that always fails. `accepted`, `evicted` and `damaged` are history.

The cloud of this model answers a committed batch with 2xx or with an error. Of
the present API only the second is possible, because its response model reads
`metadata` from an ORM object where that name is SQLAlchemy's own
(`apps/api/routes/events.py:130`); the agent is modelled for the API it was
written for, and the error answer is among its behaviours.

### EventPipeline

`Commit` stores the rows of an upload in one transaction; `EnqueueNext` queues
their jobs one at a time and `EnqueueFails` leaves the loop. `Start`,
`LoadAndAppend`, `Evaluate`, `FireNext`, `Finish` and `Fail` are process_event with
the awaits between its steps; `RestartWorker` kills the worker under any of its jobs
and `EmbeddingTask` is the one place where a process gets its session factory
(`ready`). `EditRule` enables or disables a rule at any time. A rule's trigger and
condition are the constant `Matches`, a condition that raises is `Broken`. `wasOn`
and `stayedOn` are history: the rules enabled at some time, and at all times,
since an event's row was stored. The single-event endpoint is an upload of one row.

### AlertLifecycle

A table of alerts in commit order, and jobs and calls that read it in one step and
write it in a later one, as READ COMMITTED transactions with an await in between do.
`CheckDuplicate` is the query for an active alert, `InsertAlert` the insert under the
unique constraint, `Notify` the enqueue after the commit; `WorkerDies` sends the job
back to the queue from any step, with the notification enqueued or not. `LoadAlert`
and `CommitCall` are acknowledge and resolve; `Written` is SQLAlchemy's flush, which
writes an attribute only if its value changed from the one loaded.

### RuleSweeps

The scheduler's sweeps and the state of composite rules. `redis` and `pg` are the two
stores of a rule's state, a state being the `update_state` call that wrote it;
`WriteRedis`, `WriteLong` and `Checkpoint` are the three tiers, `Expire` the TTL.
`Tick` enqueues a sweep, `Start` to `End` are its task: for a threshold rule
`CountEvents`, for a composite one `ReadRedis` and `ReadPg` (get_state), `Judge` (the
expression), `ClearRedis` and `ClearPg` (clear_state), and only after the last rule
`QueueNext`, one alert job at a time. Every store call is a step and may fail, which
`RuleStateManager` swallows; a failed statement may leave the session in an aborted
transaction (`aborted`), since nothing rolls it back. `Stop` is a failing task, a
timeout or a dying worker, after which arq starts the sweep again. `last`, `muddled`,
`unsure` and `cleared` are history. The set of enabled rules is fixed here (edits are in
`EventPipeline`); an expression is the constant set `Hot` of states that meet it.

Two facts of the repository limit what this says of the present program. Nothing
calls `update_state`, so today every composite state is empty; and no migration
creates the `rule_state` table, so today every statement on it fails. Both are
behaviours of the model, which is of the code as its docstrings mean it to be used.
The docstring of `evaluate_composite_rules` also says that a longer window reads from
PostgreSQL; get_state asks Redis first whatever the window, so a rule whose window
was lengthened answers from its short-lived state until that expires. `StoresInStep`
leaves such rules out (`muddled`).

### Documents

A document is an object in the store, a row, and behind the row its chunks and their
embeddings; no transaction spans the store and the tables. `HeadBucket` to
`EnqueueUpload` are the POST, `LoadForDelete`, `DeleteObject` and `DeleteRow` (with
`Cascade`) the DELETE, `Start` to `Finish` the jobs generate_embeddings and
reindex_document: each commits once, at its end, so that its reads are steps before
it. `JobFails` and `UploadFails` are any call that raises, `WorkerDies` a worker that
does, after which arq starts the job again. Chunks written by one run share their fate
and are one member of `batches`, named by the run. `emptied` and `disturbed` are history.

The model follows the code in three things that keep it from working as meant. The job an
upload enqueues gets a dict where the task takes a document id, raises at once and is not
tried again (`Start`). process_document takes the first segment of the key for the
bucket, which an uploaded document's key does not begin with, so that only documents
imported under a key without "/" can be chunked (`CanDownload`). And the comment at
`documents.py:86` counts on a sweep that does not exist. Imported documents and jobs
enqueued by hand are therefore how the index comes to life here.

### PromptRegistry, PolicyGuard and Assistant

`register_prompt` is `Count` and `CommitInsert`; `promote_prompt` is `Load`, `BeginUpdate`, an
`UpdateRow` for each row, `Activate` and `CommitPromotion`, under READ COMMITTED with row
locks, and any transaction may abort. `latest`, `clashed` and `raced` are history. The class has
no caller in the repository; evaluations count by their existence, since every one is
given the placeholder score.

`Assistant` extends both modules with the query: `Submit` (the input guard), `Prepare` (the
prompt, the stubs, the list of tools), `CallFails`, `CallAnswers` and `CallWantsTools` for what
the model may do, `ToolEnds` for each of the parallel calls, `Gathered` and `Guard`. The
code allows four rounds with `_MAX_TOOL_ROUNDS` of 3, and does not read the results of
the last; the fallback prompt it uses without an active one is what the registry's
docstring says there must not be; a tool's answer of None goes to the model as the error
None and not as one. A query may end with an exception and no reply (phase `raised`) in two
places outside any try: when the list of tools is formatted (`tool_coordinator.py:91-102`, in
`Prepare`), which fails for the dicts that `MCPServer.list_tools` returns, where the comment at
line 92 expects dataclasses, and when a tool's
result is written as JSON (`ai_service.py:315`, in `Gathered`), which fails for a value JSON has
no form for (outcome `opaque`). All of these are in the model as they are. Two things around it are not:
`routes/ai.py:43` passes `db=` where the class takes `session`, and the servers it would
register lack `call_tool`, so that the query works only for a caller that builds the
service itself.

### Workflow, Notifications, RateLimiter

`Workflow` is one execution: `SkipStep`, `RunAtOnce`, `BeginWait` and `WaitEnds` take its steps one by one; a request may
be acted on before or after the engine's timeout (`landed`). `Notifications` is one dispatch:
each channel is checked, sent, and its answer comes, fails to come, or comes too late.
`RateLimiter` has the minute a request takes from its clock, its INCR and its EXPIRE as three
steps, any of which may be the last; keys run out (`KeyExpires`) and `renewed`, `uncounted` and `cut` are history.

Nothing in the repository calls the engine or the dispatcher yet. Of the engine's defaults a
reader may not expect: any HTTP status counts as a success, and `{entity_id}` in a template's
body is never filled in. The channels of an escalation stage name a `url` where the
dispatcher looks for `webhook_url`.

### Escalation, ContextAssembly and the analyses

Pure functions, compared with what their descriptions and callers need; `Lists` has what Python's
`sorted`, `sum` and comprehensions do for them. `Escalation` applies
them to alerts that are raised, acknowledged and resolved in any order while time passes;
`Anomalies` and `RootCause` to events that come in between two readings of them, `RootCause`
with its two queries as two steps; `Predictions` and `ContextAssembly` to every short log
and every small context. Arithmetic is that of integers: a comparison of means and deviations is one
with the denominators multiplied out, scores are in thousandths as the code rounds
them. The line that `numpy.polyfit` puts through readings has floats for coefficients, though, and
of two figures that are equal as fractions either may come out as the greater: the slope of
readings that stand still need not be 0. So a comparison of such figures is a set of
answers (`Exceeds`), both where they are equal and the readings are not all 0, and so is what
a prediction says (`DelayAnswers`, `SlaAnswers`). An SLA prediction may also raise: where the
time left is past the last date (`EndOfTime`), as it is with a slope that only seems to rise,
and where the deadline has no time zone. The payloads of the model hold whole numbers, whose
figures are either equal or much further apart than the rounding; NaN and infinity are left out.

The SLA report has a target of its own (`ReportTarget`; 60.0 minutes in `generator.py:307`) and
cuts its table by entity to the first rows (`TableRows`; 10 at line 347) after sorting
it by breaches; `SlaTarget` is that of SLATracker.

What the properties state includes what surprises: a baseline learned on demand hides
the value it was asked about unless there are five others (`BaselineHidesItsOwn`); an empty
baseline stays; a window of more than half the lookback reports spikes at an even rate, and
`SteadyVolumeIsQuiet` leaves it out; the earliest of like events is not always the likeliest
cause, as the docstrings at `root_cause.py:92` and 334 say it is: a later one is ahead if it is so much
nearer to the last event that this outweighs the place, which takes 0.4 of its share of the
events against 0.3 (`UpstreamCounts` decides it either way); early delays that stand still may be reported as
increasing, and the risk score of an entity that is early can be below 0. An anomaly_score that is no number fails the whole analysis of its tenant (`RiskFails`,
and the outcome "failed" of `RootCause`).

### Expressions

Lexemes, the recursive descent parser and evaluation with its coercions, as they are; beside
them a grammar given as a predicate on token sequences, and a meaning by the last
connective of least binding, to which they are compared. EventPipeline and RuleSweeps only
need of an expression that it holds, does not hold or raises.

## 3. What the runs check

| run | instance | states | result |
|---|---|---|---|
| `edge` | 4 events of which the last is poisoned, queue of 2, 2 restarts, one signal in a life | 208 000 | pass |
| `edge_race` | same | | violates `OnlySyncedRemoved` |
| `alerts` | 2 firings of one incident, 1 of another, 1 acknowledge, 1 resolve, 2 tries | 582 000 | pass |
| `alerts_refire` | same | | violates `OnlyActiveSuppresses` |
| `alerts_notify` | same | | violates `AlertsNotified` |
| `pipeline` | a batch of 2 events, 3 rules of which one is broken, 2 tries, 1 edit | 473 000 | pass |
| `pipeline_startup` | same | | violates `StartupInitialises` |
| `pipeline_payload` | same | | violates `AlertJobsAreComplete` |
| `sweeps` | a composite rule written twice, each in any tier, a threshold rule, 2 sweeps of either kind, 2 tries | 1 337 000 | pass |
| `documents` | 1 upload, 2 imported documents of which one has no text, 2 jobs by hand, 1 DELETE, 2 tries | 967 000 | pass |
| `assistant` | 2 prompts of one name and slot, 3 promotions, 1 query, 2 tool rounds of up to 2 calls | 362 000 | pass |
| `operations` | the nine smaller parts, one in each behaviour | 868 000 | pass |

**edge.** `QueueInOrder`, `LossBounded`, `NoLossWithoutEviction`, `OneSyncAtATime` and
the refinement `RefinesBuffer` of `EventBuffer`; under fairness `EventuallySettled` and
`ShutdownEnds`. A queue of 2 with 4 events is enough for an eviction before,
during and after a POST and for one that meets an event already delivered, which
is where the trim by position goes wrong; two restarts bring back a file that is
older than the queue that was lost. `LossBounded` says how wrong: no more events
vanish than were evicted after delivery. `edge_race` shows the code's own comment
violated by the same mechanism.

**alerts.** `OneAlertPerKey`, `EndedIsOnRecord`, `NotifiedAtMostOnce`, `CallsTakeEffect`,
and under fairness `FiringAnswered`. Two jobs with one key are enough for check and
insert to cross; the third has the same rule and another entity, for a key that is
too coarse. One window is None and one 0, which the code takes for the same. One
acknowledge and one resolve cross on one row. `alerts_refire` needs fire,
acknowledge or resolve, fire; `alerts_notify` one death of a worker.

**pipeline.** `RowsPrecedeJobs`, `AnsweredUploadsAreQueued`, `RulesAreIndependent`,
`DisabledRulesAreQuiet`, and under fairness `QueuedEventsSettle`. A batch of two is
needed for a queue error in the middle of it; the first event matches all rules, one
of them broken, the second only the broken one; any set of rules is enabled at the
start and one edit comes at any moment.

**sweeps.** `StoresInStep`, `NothingReturns`, `FiresOnce`, `ClearsOnlyWhatFired`. Two writes
are needed for one store to fall behind the other, two sweeps for one to fire what the
other is clearing, one state that meets the expression and one that does not for a clear
without a firing. `FiresOnce` names what excuses a second alert job for one state
(`unsure`): an overlapping sweep, a checkpoint still to come, a clear that failed or
was cut short. A firing lost between clear and enqueue is a behaviour of the model too,
and no property speaks of it because the code makes no promise there.

**documents.** `StoreAndTable` says what a row without an object, or an object without a row,
must come from: the DELETE removes the object first (`documents.py:179`), the upload puts it
first. `IndexConsistent` says, of any overlap of two jobs and a DELETE with failures and
restarts, that no chunk or embedding outlives its row, that every chunk has an embedding,
that "indexed" means there is something to find, and that a document whose jobs never
overlapped and that was chunked once is found once. Two jobs and one DELETE are enough for
each to come between the read and the commit of another; with two tries a job runs again
after its commit, which is what doubles chunks.

**assistant.** `PromptsConsistent`: unless transactions for it overlapped, a slot has the
one prompt promoted last and none before, versions are distinct, and a query uses that
prompt. Three promotions are needed for one to be repeated and one to be undone by
another. `ResultsMatchCalls` needs two calls in a round that end in either order, one of which may
go to a server nobody registered. `EveryQueryAnswered` is liveness: a query comes to an end and
stays there, with a reply or with an exception, and an exception has one of the two
causes above: no error of the model or the database, and no tool that raises, is late or has no
server, is one.

**operations.** Each behaviour is one of one part, chosen in the initial state, so that the
states add up and do not multiply. `ExpressionsMeanWhatTheySay`: every list of up to 5 of
10 lexemes, in 7 contexts. `WorkflowRecord`: the three templates and all lists of up to 3 of
8 kinds of step. `ResultsTellWhatIsSafe`: up to 2 of 12 kinds of channel. `LimitHolds`: 3
requests, a limit of 2, 2 minutes, enough for a key to run out under a late request.
`AlertsFollowTime`: 3 alerts of 2 entities over 2 minutes, one entity more than the SLA report's
table has rows here (1), for the cut to leave one out. `AssembledFits`: up to 3 messages and 3
chunks, some longer than their share. `FindingsAreSound`: 6 readings over 2 days, which is
what it takes for a baseline to let one of its own values through; stories of 3 events of 6
kinds, a day or more apart or at once, and a window of two days; logs of 4 events, with a last
date that a slow line passes.

Deadlock is checked in all runs but `operations`, whose parts end: an execution, a dispatch, the
last minute, the longest list. `EdgeAgent` never stops (events on the wire and
restarts aside, a process that is up can always sync or be ended); the others
have a `Terminated` step for when every job, call or query is over.

### Bounds

`MaxEvents`, `MaxRestarts`, `MaxEdits` cap what the environment does and are the only
bounds the code does not have; `MaxQueueSize` and `MaxTries` are its own parameters with
small values; so are `MaxToolRounds` (1 here, 3 in the code), `Limit`, `Window`, `SlaTarget`,
`ReportTarget`, `TableRows` (1 here, 10 in the code), `Lookback`, `DelayLookback` (2), `EndOfTime`
(12), `MaxTokens` and `Listed`. `MaxUses`, `Minutes`, `LastMinute`, `LastDay`, `LastHour`,
`MaxReadings`, `MaxStory` and, in `MCOperations`, `MaxLexemes`, `MaxPieces` and `MaxLog` cap
what comes from outside. `MCAssistant` lets registry and query overlap only without an
API key, where a query is two steps: all that the two share is the query's one look at the
registry. A signal is only sent while a restart is left, so that the last life
is a long one and liveness is about it.

### Fairness

* Every task of the agent's loop that is ready is run, each await in it has a
  timeout (5 s and 30 s in agent.py), `run()` polls every second, and a supervisor
  restarts the process (the repository does not say which): weak fairness of the
  agent's steps, `RunReturns`, `Exit` and `Restart`. Strong fairness of
  `SendBatch`, `CloudCommits` and `SyncSucceeds` of the loop says that the cloud is
  reachable, commits and answers infinitely often if asked infinitely often;
  without it nothing can be promised. Nothing is assumed of signals or crashes.
* Some worker is always polling the queue and a job it runs goes on (arq, with a
  job_timeout of 10 minutes): weak fairness of `JobStep` and `Process`. Nothing is
  assumed of operators, uploads, edits or of the enqueue succeeding.
* The assistant's event loop runs what is ready, the API client has a timeout of its own and
  a tool call is under `wait_for`: weak fairness of `Prepare`, `ModelAnswers`, `SomeToolEnds`,
  `Gathered` and `Guard` of each query. An answer, an error and a timeout are all an end of a wait.
* `Documents` and the parts of `MCOperations` have no fairness and no liveness property: a job
  that raises is not tried again, and a request may end anywhere.

## 4. What is proved

For all values of the constants that meet the named assumption of each module
(`EdgeAssumption`, `PipelineAssumption`, `LifecycleAssumption`, `SweepsAssumption`,
`DocumentsAssumption`, `RegistryAssumption`, `AssistantAssumption`, `LimiterAssumption`,
`NotificationsAssumption`, `WorkflowsAssumption`, `EscalationAssumption`, `ContextAssumption`,
`RootCauseAssumption`, `AnomaliesAssumption`, `PredictionsAssumption`, `OperationsAssumption`):

* `EdgeAgent_proofs`: `TypeCorrect`, `StaysInOrder`, `SyncsAreExclusive`, `NothingLost`,
  `LossesArePaidFor`, `AgentIsABuffer`.
  Order is inductive only together with the order of the file and of each request.
  `NothingLost` needs more: while nothing was evicted, a batch in the hands of a task is
  a prefix of the queue, so the trim by position is a trim by content; the file, as
  long as no write of it failed, is the queue; a request off the wire is in the cloud.
  `LossesArePaidFor` is the same account with evictions: the queue is the batch shifted by
  some k of them (`ShiftInv`), all in the batch, so that the trim takes k events too many and
  the k evicted ones, which the cloud has by then, pay for them; until the trim, the events
  of the batch have paid for nothing else (`LossInv`). `AgentIsABuffer` is the refinement
  of `EventBuffer`, step by step: accepting, delivering, releasing, damaging, and everything else
  leaves the buffer alone; that a release lets go of no more than it may is `LossBounded` of
  the state after it. All but the first two have the hypothesis `SingleSignal`,
  one `stop()` in a life: with two, a second signal's flush can overlap the first's
  and both trim.
* `AlertLifecycle_proofs`: `TypeCorrect`, `IncidentsAreUnique`, `AnnouncedAtMostOnce`,
  `FiringsAreOnRecord`, `CallsAreNotLost`. `AnnouncedAtMostOnce` rests on
  `InsertsAreOwned`: an alert was inserted by one start of one job, only that start
  announces it, and a notice names its start. `CallsAreNotLost` rests on
  `ReadsStillHold`: columns only ever move away from what a call read.
* `EventPipeline_proofs`: `TypeCorrect`, `RowsComeFirst`, `UploadsAreQueued`,
  `RulesStandAlone`, `DisabledRulesStayQuiet`, from one invariant, `TypeOK /\ Safe`:
  what the histories mean, what a job in each phase knows of the rules, and what an
  upload has done at each index.
* `RuleSweeps_proofs`: `TypeCorrect`, `StoresStayInStep`, `ClearedStaysCleared`,
  `OnlyFiredIsCleared`, `OneStateOneAlert`. The first of the safety theorems rests on `TierInv` (the tier of
  the last write says which store can hold anything, and a checkpoint still to come is
  that of the last write), the second on `OwnedInv` and `KnownInv` (a state belongs to
  its rule, the writes a sweep knows of are over and never come again, and after its DEL
  none of them is in Redis), the third on `FiredInv` besides. The fourth rests on `OnceInv`: a state
  that has fired is covered, which is to say in the hands of a sweep whose clear has not failed
  so far and knows the state, or cleared for good; and on what may be in a store and in a job at
  all (`WrittenInv`, `OwnerInv`).
* `Documents_proofs`: `TypeCorrect`, `StoreAndTableAgree`, `IndexStaysConsistent`. The second
  rests on where uploads and deletions are: a DELETE that has removed an object is one of a
  row, so no upload puts the object back. The third rests on `OwnRuns` (the chunks of a
  document were made by jobs for it, so no reindex chooses another's embeddings) and on
  `OnceInv`: of a document whose jobs never overlapped, the job in progress knows the
  chunks (`Knows`: none before a generate commits; all embeddings chosen before a reindex does).
* `Assistant_proofs`: `TypeCorrect`, `PromptsStayConsistent`, `ResultsStayMatched`. A slot without
  clash has at most one promotion in flight (`AloneInv`), and what that one has locked or
  is about to is what it will find (`PromotionInv`); a name without race has at most one
  registration that counted and did not end (`VersionInv`). Results: every call that has an
  outcome is in `ended` under its block's id.
* `Operations_proofs`, on `RateLimiter`: `LimiterTypeCorrect`, `LimitIsKept`. What INCR returned is
  different for every request of a minute whose key was not made again (`NumbersInv`), so at most
  `Limit` of them have a number up to it, by an injection; and never more than the requests that are
  past their INCR (`CountInv`), so that a refusal means a full minute.
  On `Notifications`: `NotificationsTypeCorrect`, `ResultsAreSafe`. On `Workflow`:
  `WorkflowTypeCorrect`, `RecordCanBeRead`, for any workflows over the modelled kinds of step; the
  context's last result is that of the last step that ran (`ContextInv`), a request belongs to a
  step that ran or is waited for (`CallInv`), one that succeeded was acted on (`SuccessInv`), and an
  execution has failed if and only if its last result is the failure of a step that aborts
  (`AbortInv`, `FailedInv`).
  On `Operations`: `OperationsAreOfTheirParts` (a behaviour of the composition is one of each
  part, by a refinement that maps every variable to itself), from which `OperationsTypeCorrect`
  follows; `ContextsFit` and `FindingsFollow`, which need besides that what is given to the pure
  parts is of the right kind (`InputsOK`).
* `Analyses_proofs` begins with the lists of `Lists`, for any length: what `Ascending`, `Arranged`,
  `SortedBy` and `Kept` return, and that a sum is linear and the same in either direction. A loop
  of the code is a FoldLeft of the model. The prover cannot apply an induction theorem to a
  predicate, but it can apply one to a set: `UpTo` is the least-number principle for the set of the
  turns a fact has been shown of, and `FoldExists` says that the recursive function behind FoldLeft
  exists, for any step given as a function. On these rest:
  * on `Escalation`, `EscalationTypeCorrect`, `EscalationClimbs` and `AlertsFollow`. A stage once
    returned stays due (`ClimbOf`), and of the stages that are due there is a last one; the report's
    table is arranged by breaches before it is cut, for any number of rows, so that what is left
    out has no more of them, and its rows add up for the entities it shows (`SlaFigures`); a bucket is cut at every gap longer than the window and nowhere else
    (`GroupsAreCutAtGaps`), so that groups are chains in whatever order the alerts are listed.
    `QuietHoursAreAnInterval` is for any two hours, `OnCallTakesEveryTurn` for any rota and any day.
  * on `ContextAssembly`, `PruningKeepsToItsRoom` (the loop that prunes history and knowledge
    keeps a beginning, within the budget, as long as it can) and `EverySectionFits`, for any
    material and any number of tokens.
  * on `RootCause`, `CausesFollow`, by the invariant `CausesInv`: what was read first stays part of
    the story, in its order, and a score is of the distance at the time of the second reading.
    Rounded division keeps the order of what it divides, so that a confidence follows its parts;
    for `UpstreamCounts` these are the place and the nearness, each with its weight.
  * on `Anomalies`, `AnomaliesFollow`, by `AnomaliesInv`: a baseline is the profile of some list of
    figures with every figure of the lookback in it (`LearnedFrom`). The inequality of Cauchy and
    Schwarz for the other figures (`OthersSpread`) says how far one of n numbers can be from
    their mean, by (n - 1) / sqrt(n) of their deviation at most (Samuelson's inequality): it takes
    five other figures to find one of a baseline's own, eight for medium severity and ten for high.
    `EvenRateIsQuiet`, `SilenceIsFound` and `FartherIsNotLessSevere` are for any figures.
  * on `Predictions`, `PredictionsFollow`, for any log, lookback and last date, and for both answers
    where floats may be off: the fit of points on a line is that line (`FitOnLine`), that of
    readings which never rise falls, unless they are all the same (`NoRiseFound`, Chebyshev's sum
    inequality, strict), so that only readings that stand still can seem to rise, one event more changes the score of no other entity (`NextScore`), and the list of
    risks is arranged by score (`ListInOrder`).

Each theorem on a specification follows the same argument: the initial states have the invariant,
each action keeps it, and it implies the property.

Only model-checked: every liveness property, since liveness under fairness and ENABLED are out of
the prover's reach: `EventuallySettled`, `ShutdownEnds`, `FiringAnswered`, `QueuedEventsSettle` and
`EveryQueryAnswered`. And `ExpressionsMeanWhatTheySay`: the parser and its reference are RECURSIVE
operators, for which the prover has no solver, and that they agree on every expression would be an
induction over expressions. `Expressions` is therefore extended by `MCOperations` alone: the theorems
about the rest are on `Operations`, whose specification is the one TLC runs, without the expression.

## 5. What is not modelled

Left out of the modelled components: `evaluate_local_rules` (pure), the read-only
queries and listings, `send_notification` (it loads and logs), stream readers, the tasks
nothing enqueues, text extraction and ranking, message layouts, model routing and
telemetry. Left out as a whole:

* tenant isolation: a setting on a pooled connection that outlives its request
  (hazard at `packages/db/session.py:81`) would need the pool and row policies, which
  `packages/db/rls.py` generates and nothing applies; every model here has one tenant;
* the webhook receiver, whose sources are in the memory of one process and whose endpoint
  stores nothing, and the EDI parser, a parser of an outside format;
* the playbooks, whose SQL names a column (`rule_name`) the alerts table does not have, and
  reports and exports, which format counts of rows (two of them read a `created_at` that events
  do not have);
* the confidence figures, percentiles and texts of the analyses, and fits through readings
  of one and the same moment;
* authentication and users, the MCP tool servers, observability, schemas, verticals and the
  front end: requests to other services, declarations, formatting; and the maintenance
  tasks, which are stubs.

## 6. Running it

In this directory, `tlc -config MCEdgeAgent.cfg MCEdgeAgent` (and so on for the other
configurations) runs the model checker and `tlapm EdgeAgent_proofs.tla` the proofs. The
community modules and TLAPS's library must be on the path. `PROJECT.json` maps every
definition to the lines it models and gives, for each property, a mutation of the model
that breaks it.

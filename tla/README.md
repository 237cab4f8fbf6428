# TLA+ models of aflow

aflow runs workflows: a workflow is a graph of typed nodes, stored in versions in
PostgreSQL; an *execution* is one run of it, created by an API request, a webhook, an MCP
tool or a cron job, queued as a [River](https://riverqueue.com) job and run by a separate
worker process. These modules model the code under `src/`; paths below are relative to
`src/`.

- `PROJECT.json` lists components, runs, mutants, hazards, findings and theorems, and maps
  every definition to the lines it models.
- Model-check a run: `tlc -config Workflows.cfg MCWorkflows.tla` (the pairs of module and
  configuration are in `PROJECT.json` "runs").
- Check the proofs: `tlapm Workflows_proofs.tla`, and likewise for the other seven modules
  whose name ends in `_proofs`.

## 1. Inventory

The server (`cmd/server`) and the worker (`cmd/worker`) are separate processes. They share
no memory, only PostgreSQL: the application's tables and River's `river_job`. River
reaches the same database through a client of its own, and nothing runs an application
statement and a job insertion in one transaction. **Every statement or transaction is
therefore an atomic step, and anything may happen between two of them**; that is the grain
of the models.

| Component | State | Operations | Talks to | What makes it correct |
|---|---|---|---|---|
| Executions service, repository (`internal/executions`, `database/queries/executions.sql`) | `executions`, `execution_logs` | Execute, ExecuteWithTrigger, Retry, Cancel, PrepareExecution, Start-/FinishExecution, listings | River (insert), workflows (active flag) | an accepted execution has a job; statuses follow the documented diagram; a finished row describes one delivery |
| Runtime executor (`internal/runtime/executor`, `internal/queue/workers/workflow_execute.go`) | outputs of a run, in memory | RunExecution, runNodeWithRetry | executions, versions, node registry, River (result of Work) | nodes run after their parents, at most as often as configured; the outcome is recorded and reported once |
| Runtime engine (`internal/runtime/engine`) | local | TopologicalSort, ParentOutputs, FindTriggerNode, ParseDefinition | publish, executor | the sort is exact: an order when there is one, an error otherwise |
| River (library) | `river_job` | insert, unique insert, fetch, retry, discard, rescue | all of the above | external |
| Scheduler and cron worker (`internal/runtime/scheduler`, `internal/queue/workers/cron_trigger.go`) | `cron.trigger` jobs | ScheduleCron, Work | workflows, executions, River | a published workflow has a chain, and one only; each fire once; the chain goes on while the workflow is active |
| Workflows service, repository (`internal/workflows`) | `workflows`, `workflow_versions` | create, publish, deactivate, delete, webhook secret | engine, scheduler | an answered secret works; an active workflow can be triggered; an inactive or deleted one starts nothing; requests end in spite of each other's locks |
| Webhook trigger (`internal/api/handlers/webhooks.go`) | none | Trigger | workflows, executions | only the current secret starts executions |
| Built-in nodes and registry (`internal/nodes/builtin`, `registry`) | immutable after start-up | Get, List, Execute | HTTP | a path reaches what it names; a node runs with the credentials its config refers to |
| HTTP-action nodes (`internal/nodes/httpaction`, `internal/runtime/template`) | none | Execute, Resolve, ResolveBody | node types, credentials, HTTP | one stored definition, one workspace's secret, nothing of a template lost |
| Node types (`internal/nodetypes`) | `node_types` | create, update, delete, catalog | httpaction executor, credentials (foreign key) | a binding names a credential that exists; the catalog offers what can run |
| Data tables (`internal/datatables`) | `data_tables`, `data_table_rows` | table and row operations | none | a row operation never crosses tables or workspaces |
| Credentials (`internal/credentials`, `pkg/crypto`) | `credentials` | create, list, delete, decrypt | executors | a secret stays in its workspace |
| Auth, middleware (`internal/auth`, `internal/api/middleware`) | `api_keys`; a counter per key | filters | all handlers | sequential; not modelled |
| MCP (`internal/mcp`) | none | JSON-RPC dispatch, tools | services | a tool does what the endpoint does |
| Migration runner (`cmd/migrate`) | `_aflow_migrations` | up, down, status | PostgreSQL | a file is applied once, in order |
| Configuration, pool, observability, generated code and docs | none of interest | | | not modelled |

The hard behaviours, at their lines in `PROJECT.json` "hazards":

- **Between two statements.** The row is committed, then the job inserted; the flag is
  read, then the row inserted; a cancellation lands between enqueue and start; a workflow
  is deactivated or published while its cron job runs.
- **Redelivery.** River delivers a job up to 25 times by default. A delivery starts from
  the beginning, whatever the previous one did, and over a row the previous one wrote.
- **Death** of the worker between nodes, or between the recorded outcome and the
  acknowledgement; death of the server in the middle of a request.
- **Dropped errors.** The outcome of FinishExecution, of IsActive and of ScheduleCron is
  logged or ignored, so a failed statement silently changes what happens next.
- **Uniqueness** of cron jobs counts some job states and not others.
- **Checks in one statement, writes in another.** A table, a credential or a node type is
  looked up and then used, with deletes in between; the webhook secret is read by one
  statement of a publish and set by another.
- **Locks.** A publish and a delete take the same two row locks in opposite orders.
- **Orders nobody chose.** Kahn's queue is seeded from a Go map iteration.

## 2. Plan and what is left of it

The order was that of what matters most to a user of the system; all of it is written.

| # | Modules | Proofs | Relation to the others |
|---|---|---|---|
| 1 | `Dag`, `Executions`, `ExecutionLifecycle` (abstract) | `Executions_proofs` | `Executions` implements `ExecutionLifecycle` |
| 2 | `KahnSort` | `KahnSort_proofs` | implements the orders of `Dag`, which `Executions` uses |
| 3 | `CronChain` | `CronChain_proofs` | |
| 4 | `Workflows` | `Workflows_proofs` | its executions are those of `Executions`, its cron jobs those of `CronChain` |
| 5 | `Migrations` | `Migrations_proofs` | |
| 6 | `DataTables` | `DataTables_proofs` | |
| 7 | `NodeCalls`, with `Lookup` and `NodeSearch` | `NodeCalls_proofs`, `NodeData_proofs` | a node call of `Executions`, opened up |

Left: one model of a workflow and its executions together (the flag and the row are the
only state the two share, and both modules have them); an abstract publish that
`Workflows` implements when nothing fails; the tools of the MCP server that read; the
operators of a condition node.

Modules that are proved about use no RECURSIVE operator: orders are functions constrained
by quantifiers (`Dag!TopoOrders`), paths and patterns are recursive functions (`Lookup`,
`NodeSearch`), and KahnSort is a state machine.

## 3. The modules

### Dag

What `engine.TopologicalSort` and `engine.ParentOutputs` promise: `TopoOrders`, the set of
every order in which each node occurs once and after its parents, and `ParentOutputs`,
which silently leaves out a parent that has no output.

### KahnSort

`TopologicalSort` loop by loop, with both lists of the JSON definition as input: ids may
repeat, edges may repeat, loop or dangle. `AddEdge`/`UnknownNode` is the edge loop, `Seed`
the iteration over the map (any order: `Listings`), `Pop`, `Relax`, `Skip` and `EndOfAdj`
the main loop, `Return` the length check. The adjacency list of a node is read off `edges`
in place (`Relax` follows its entries, `Skip` passes those of other nodes), so no state is
duplicated.

`Executions` uses `TopoOrders` in the place of the sort; `ResultIsTopological` and
`ErrorIsJustified` are what makes that sound.

### Executions

One workflow; each variable is a table or a process's memory:

| Variable | Code |
|---|---|
| `active` | `workflows.active` |
| `row` | `executions`: status, started_at, finished_at, output, error |
| `job` | the `workflow.execute` job of the execution in `river_job` |
| `run` | the `RunExecution` call in progress: place, context, rest of the order, outputs map, attempt |
| `req` | Execute / ExecuteWithTrigger / Retry calls in progress |
| `accepted`, `calls` | history: ids returned to callers, how often each node ran |

Requests: `Checked` (the flag is read) and `CreateExecution` (the row is inserted) are two
statements of one READ COMMITTED transaction; `Enqueue` is the insert of the job and the
answer. `RequestFails` ends a request at any of them and undoes nothing. `Cancel` is one
conditional UPDATE.

River: `Fetch`, `Complete`, `Errored`, `Rescue`, `ContextDone`.

Run: `Load`, `Start`, one step per attempt of a node (`NodeSucceeds`, `NodeRetries`,
`NodeFails`), `FinishFailed`, `FinishSuccess`. Every return of `RunExecution` and every
dropped error is there: load or start fails (`LoadOrStartFails`: Work returns the error
and the row is untouched), the definition does not parse or sort (`reject`: failed without
having been started), a node fails for good, the statement recording the outcome fails
(error kept for a failed run, nil returned for a successful one).

Outputs are abstracted to the set of nodes that produced one; what happens inside a node
call is in NodeCalls; execution logs (best-effort inserts whose errors are dropped) are
left out.

### ExecutionLifecycle

What the owner of an execution may observe: its status, the phase of its delivery and the
number of deliveries, with five actions. `Executions!ImplementsLifecycle` states that the
detailed system implements it under the mapping status = row's status, phase = `Phase(e)`
from job and run, deliveries = River's attempt. The abstract specification documents what
holds rather than the README's diagram: a cancelled or failed status may be left by a
later delivery.

### CronChain

The jobs of one workflow's cron trigger. `PublishTx` is the publish transaction,
`PublishCron` what Publish does after it: it calls ScheduleCron, whose error is only
logged, if the trigger has a schedule and the server a scheduler (`Schedule` is "missing"
otherwise, and "unparsable" if nextRunTime refuses it). `Scheduled` is what the calls of
ScheduleCron may leave. Whether River takes the options of the insert is the constant
`AcceptsStates` (section 4); `Inserted` is the unique insert of a River that does, which
leaves the jobs as they are when one in a state that `ByState` lists exists.
`Check`, `Prepare`, `Enqueue` and `Reschedule` are the statements of
`CronTriggerWorker.Work`; `Promote` is the end of a retryable job's back-off, where River
finds out whether another job took its place. Time is abstracted: a scheduled job may be
due at any moment, so two publishers, a deactivation and a fire may meet in every order.

History: `fired` counts the executions a job enqueued, `lost` the attempts that ended with
the process, `steady` says whether the workflow was active ever since the job was
scheduled, `misread` that a failed read of the flag was taken for "inactive".

### Workflows

All requests on one workflow, by endpoint, webhook and MCP tool. `wf` is the row of
`workflows` together with its only version, `execs` the number of its executions, `call`
the requests in progress: where each is and which secret its snapshot had. `stored` and
`good` are history: the secrets ever stored (they are never drawn again), and those
answered by a publish no other overlapped.

| Request | Steps |
|---|---|
| create | `Create` (one transaction) |
| publish | `BeginPublish`, `PublishGet`, `PublishVersions` (parsing and sorting between them), `PublishTx` up to the UPDATE of the version, `Activate` (the UPDATE of the workflow, whose RETURNING is the snapshot, and the commit), then `SetSecret`, `Schedule`, `ArmFails` or `NothingToArm`, `PublishAnswer` |
| deactivate | `Deactivate` |
| delete | `BeginDelete`, `DeleteLock` (row lock), `DeleteCascade` (the version by cascade; refused if there are executions) |
| execute, tool call | `Execute`, `ExecuteTool`, then PrepareExecution: `ReadFlag`, `ReadVersion`, `InsertExecution` |
| webhook | `Trigger`, `Authenticate`, then the same |

`VersionLocked` and `RowLocked` say who waits for whom. `DeadlockVictim` is PostgreSQL's
way out when a publish that holds the version meets a delete that holds the workflow.
`InsertExecution` meets the foreign keys: it fails if the workflow is gone, and a delete
fails while executions refer to it. That no secret could be set is only logged by the
code (`ArmFails`), and remembered as `unarmed`. `Schedule` is the cron case of Publish,
which ends the same way for the request whether a job was inserted, refused or, for want
of a schedule, not even tried; what becomes of the job is the subject of CronChain.

### DataTables

Every request of the eight endpoints from its check to its answer: `CheckTable` is the
statement of GetTable, and `InsertRow`, `ListRows`, `UpdateRow`, `DeleteRow` are the
statement that follows it, with anything of any workspace in between; table requests are
one statement. `Cascade` is the foreign key of `data_table_rows`. `StatusOf` is
`tableServiceErr`. A request's answer, with the rows listed, stays in `call` until the
caller's next request, so that `RepliesAreTrue` can compare it with the tables at the
moment it was given.

### NodeCalls, Lookup, NodeSearch

`runNode` of a running execution, one statement at a time, against workspaces that change
credentials and node types. A custom node: `BeginCustom`, `LoadNodeType` (by id alone),
`DecryptBound` (in the execution's workspace), `Send`. A built-in one: `BeginBuiltin`,
`ResolveCredRef` once per reference in the config, `Resolved`, `ExecuteBuiltin`. `Return`
hands back what it put out, and `ExchangeFails` and `StatementFails` end a call anywhere.
`References` tells the references of a config apart by credential, by field and by where
they stand: the executor recognises one that is all of a string in an object (`whole`,
`Recognised`), and passes on what stands inside a longer string or in an array.

`Lookup` has the two ways a node names data. The code splits a path at its dots, so a path
is here the sequence of what is between them: `Segments` are the strings without a dot,
the empty one included, and the empty path is `<<"">>`. The name of a field may be any
string; one with a dot in it is no segment, and no path names it. `ResolveDotPath` is the
recursion of `resolveDotPath` written as the sequence of keys it looks up (`Keys`): each
level trims one leading `$.` (`Trimmed`), and `$` or nothing as the rest of the path is
the value reached so far. `PathTo` is, conversely, a path that it takes for given keys.
Values are JSON values and the map of strings that http-request puts out as its headers,
into which a dot path does not reach and a template does (`Unmarshalled`). `Resolve`,
`ResolveBody`, `IsExact` and `ResolveExact` are the template engine over strings made of
pieces of text and references, and `WritesInOrder` says what they owe: each piece that has
something to contribute does, once and in its place. `NodeSearch` has the two searches
behind the catalog, which both look at names and descriptions (`BuiltinTexts`,
`Templates[v].texts`): `ContainsInsensitive`, in Go, and `Like`, PostgreSQL's ILIKE, which
folds letters outside ASCII too and reads `%`, `_` and `\` of the query as wildcards and
escape. `Like` works by the places of the string from which the rest of it matches the
rest of the pattern.

Two constants describe the process: `Decryptor` (whether the executors were given a
decryptor; the worker gives none, as in `node_updates`, while `node_calls` has one, for
which there is more to show) and the definitions (`Templates`, `Config`, `Paths`,
`RefSets`).

### Migrations

The migration command: `Load` reads the applied set once, and may take a part of it for
the whole, since the code does not ask why the rows came to an end (`Readings`), `Skip`
passes a file by that set, `Exec` begins a transaction and executes a file (waiting for
another's locks: `Locked`), `Commit` records it in the same transaction. `Creates`,
`UpPossible`, `Drops` and `DownPossible` are the four files of `database/migrations`,
abstracted to what they create and depend on. `clashed` is history: an up and a down have
overlapped.

## 4. Assumptions and their reasons

- **PostgreSQL.** A statement is atomic, a transaction that fails or whose process dies
  leaves nothing, a statement of READ COMMITTED sees what is committed when it begins, and
  an UPDATE or DELETE of a row waits for the transaction that has it locked. Deadlocks are
  detected and one of the transactions is made to fail.
- **River** is external and modelled from its use. `waiting` stands for available and
  retryable in Executions (a worker may fetch the job sooner or later) and for scheduled
  and available in CronChain, where retryable is separate because uniqueness tells it
  apart. A job that is running in no process is rescued; a run always ends before it is
  rescued, because River's job timeout ends its context earlier than the rescuer looks.
- **Uniqueness.** `ByState` of ScheduleCron does not list River's *pending* state. River
  v0.37.0, which `go.mod` names, refuses an insert with such a list; its source is not in
  the repository, so this is taken from River's published rule. `AcceptsStates` is FALSE
  for a River with that rule, under which no cron job ever exists (`NothingIsScheduled`)
  and every property of cron jobs is vacuous, and TRUE for one without it. The passing run
  `cron_fires` is about the latter: it shows what Work and Publish do with jobs, as they
  will once the list is completed. Completing it changes nothing else in the model, which
  has no pending jobs.
- A job that comes back from retryable while another one is live is discarded, as River
  does when the unique key is taken.
- A worker that dies with several runs dies in several `WorkerCrash` steps: the runs share
  no state, so the interleaving adds nothing that one step would not.
- Executions has no `ErrNoPublishedVersion`: Publish sets `active` and `published` in one
  transaction. That an active workflow has a published version is a theorem of Workflows
  (`ActiveHasVersion`).
- No code calls BumpWorkflowVersion, so a workflow keeps its first version and a cron
  chain its schedule; all jobs of a workflow have equal arguments.
- Publish refuses a definition that does not sort; the executor does not rely on it, and
  `UnsortablesNeverRun` is proved for definitions that were let through.
- A workflow deleted under its cron job looks inactive to the worker.
- Ids and webhook secrets are drawn at random and taken to be new: an id never names two
  rows in turn. AES-GCM returns what was sealed or an error.
- **What the values of NodeCalls are.** `NodeTypesAssumption`: the id of a node type is a
  UUID and no name of a built-in node, and each stored version has its definition.
  `TextsAssumption`: names, descriptions, queries and templates are finite sequences.
  `LookupAssumption`: `$` and the empty string have no dot. `InputAssumption`: the input
  of an execution is an object (`map[string]any`), as is the map RunExecution wraps it in,
  and the paths a transform's config may hold include one to each field whose name is a
  segment. `NodeSearchAssumption`: the letters A to Z are not among the other capital
  letters, nor are their small ones.

**Faults.** `Faults` says what may go wrong in a run: `crash` (a process dies), `db` (a
statement or insert fails without effect), `timeout` (the job's context ends), `io` (the
exchange of a node fails). No fault is ever required to happen.

**Fairness.** Only liveness uses it. Executions: weak fairness of `Fetch`, `Rescue` and
`RunStep` of each execution; CronChain: of `Fetch`, `Work`, `Complete`, `Errored`,
`Rescue`, `Promote` of each job. River polls, retries and rescues for ever, and a live
goroutine keeps executing; a node returns because every node takes the job's context.
Workflows: strong fairness of the steps of each request (`CallStep`), because a request
that waits for a row lock is served in turn by PostgreSQL's lock queue while others come
and go; whether a statement succeeds or fails is left open. Nothing is assumed of new
requests, of publishers of cron jobs, or of faults.

## 5. The runs

States are distinct ones; times are with two workers. Every action of every module fires
in a passing run.

| Run | Instance | States | Properties |
|---|---|---|---|
| `executions_lifecycle` | 2 executions, 2 callers, 1 node, 2 attempts, all faults, symmetric executions | 312,464 (1 min) | `FinishedRowIsCoherent`, `CompletedJobSucceeded`, `OnlyTheQueueRuns`, `SettledRowIsFrozen`; refinement of ExecutionLifecycle |
| `executions_dag` | diamond of 4 nodes, one retried, 3 attempts, crashes, fair | 22,244 | `NodeSeesAllParents`, `CallsAreBounded`, `JobsSettle`, `AcceptedExecutionsFinish` |
| `kahn_sort` | every definition of 5 id lists (up to 3 ids, one repeated) and up to 4 of 11 edges | 271,189 | `ResultIsTopological`, `ErrorIsJustified` |
| `cron_fires` | 2 job slots, 2 publishers, 2 attempts, a River that accepts the inserts, crashes and failures, fair | 67,220 | `OneLiveJob`, `OneExecutionPerFire`, `SkippedOnlyIfDeactivated`, `ScheduledJobsFire` |
| `workflows` | 2 requests at a time on a workflow of each of 4 kinds, 2 secrets, 2 executions, crashes and failures, fair | 60,758 (½ min) | `AnsweredSecretHolds`, `DeletedLeavesNothing`, `ActiveWebhookHasSecret`, `RunsSawActive`, `EveryCallEnds` |
| `data_tables` | 2 requests at a time, 2 workspaces, 2 tables, 2 values, 2 rows, lists of 1, failures, symmetric | 132,971 | `RowsBelongToTheirTable`, `ChangesAreRequested`, `RepliesAreTrue`, `ErrorsAreRaces` |
| `node_calls` | 1 call at a time, 2 workspaces, 2 credentials, 1 node type of up to 3 definitions, failures | 832,958 (1½ min) | `SecretsAreOwn`, `CallsHaveTheirSecrets`, `CallsUseStoredDefinition`, `CatalogIsUniform`, `TemplatesLoseNothing`, `InitialInputIsReachable` |
| `migrations` | 2 runs at a time in both directions, crashes and failures | 53,665 | `RecordIsTrue`, `AppliedIsPrefix`, `SuccessIsComplete` |

All of them but `executions_dag` check `TypeOK` as well.

What they show, in a sentence each: the rows, jobs and runs of executions stay consistent
through every fault; nodes run in order, a bounded number of times, and accepted
executions end; the sort is exact; ticks of a cron job are neither doubled nor swallowed;
what a publish answered stays true, nothing runs a deactivated or deleted workflow, and no
request hangs; a row of a data table never crosses tables or workspaces and each answer is
true; a node call uses one stored definition and its own workspace's secrets, all that
are recognised and no other, or ends with an error; the record of the migrations is true
and success means done.

**Bounds.** *Two executions* because executions meet only in a Retry and in the callers;
*one workflow* because nothing relates two; *two attempts* distinguish the first, a
repeated and the last delivery, *three* add one that is neither; the *diamond* is the
smallest graph with two orders and a node with two parents; *retry 2* makes max_attempts
differ from its default. In KahnSort *four edges* allow a repeated edge beside a cycle or
a second parent. *Two job slots* hold a live job and a retryable or finished one. *Two
requests* are enough for every lock and check of Workflows and DataTables, since each of
them relates two requests; *two secrets* are the two that racing first publishes set; *two
rows* with lists of *one* make a list overflow. One node call at a time suffices because
calls share nothing but tables that they only read; *three definitions* are those before,
during and after a call. The templates of these are one string of each kind: a typed
reference, text with a reference, several references, and one that is not JSON.
`kahn_sort` switches the deadlock check off because the sort ends. Symmetry is used in
runs without liveness only.

### Findings

Each of these runs checks what the documentation says, and TLC finds a behaviour of the
code that violates it:

| Run | Claim | What the code does |
|---|---|---|
| `executions_final` | success, failed and cancelled are final (README's state diagram) | the job of a cancelled execution stays in the queue and `StartExecution` has no condition: it is run; the same statement takes a failed execution back to running on a redelivery |
| `executions_enqueue` | "creates an execution and enqueues it" | an insert that fails after the row's commit leaves a queued row with no job |
| `cron_chain` | "a job is registered on publish, the chain is self-sustaining until the workflow is deactivated" | River refuses the insert for its list of states, and Publish and the worker only log that: an active workflow without any job. With a River that accepts the list, a fire finds its own running job for a duplicate: one fire per publish (`RescheduleInsertsNothing`) |
| `node_updates` | an update of a node type "affects future executions only" | each attempt of a node loads the current definition, so an update changes the rest of the executions in progress |

### Disagreements without a run

Met while modelling; the models have the code's behaviour.

*Executions and cron.* When the statement that "persists the final state"
(`internal/runtime/executor/executor.go:53`) fails after a success, nil is returned and
the row reads running for ever (`:146`; the second case of `CompletedJobSucceeded`). An
error of IsActive is taken for "inactive" and ends a cron chain (the `misread` of
`SkippedOnlyIfDeactivated`).

*Workflows.* Two first publishes that overlap answer different secrets, of which one works
(`AnsweredSecretHolds` is about publishes that were alone). Publish answers 200 though
storing the secret or scheduling the job failed. A cron trigger whose `schedule` is
missing, empty or not a string, or a server without a scheduler, is published as active
with no job, no error and no message in the log
(`internal/workflows/service/service.go:181-182`), where the endpoint documents that it
"activates its trigger (cron or webhook)" (`internal/api/handlers/workflows.go:233`). It
also documents that a delete removes "all its versions and executions"
(`internal/api/handlers/workflows.go:195`), and the foreign keys refuse it once there is
an execution.

*Data tables.* Deleting a table or row that is not there answers 204 where 404 is
documented, an empty name or missing data 500 where 400 is. A list of a table deleted
after its check answers 200 with no rows, and an insert then answers 500.

*Nodes.* "The executor decrypts at runtime and substitutes the value" (`README.md:338`) is
not so: the worker builds both executors without a decryptor (`cmd/worker/main.go:76,85`),
so references are passed on as written and `{{credential.*}}` is filled with nothing
(`NothingIsDecrypted`). With a decryptor `README.md:335`'s own example,
`Bearer $cred:abc123.api_key`, still would be: a reference is recognised only as all of a string,
and not in an array (`internal/runtime/executor/executor.go:269,275`). Deleting a
credential sets `credential_id` to NULL, so later calls go out without it. An update of a
node type may empty its base URL, which a create refuses; with no method the API stores an
empty one, while create and the MCP tool default to POST. A `credential_id` that is no
UUID is dropped. A workspace is checked when a credential is decrypted, not when a node
type is loaded. `isExact` takes several adjacent references for one and returns the first.
Credential data that is no JSON object yields no fields. The input `"$"` of the first node
is reachable only as `$.$.field`, and no path or template names a field with a dot in its
name. A dot path does not reach into the response headers of http-request. `%` and `_` in
a catalog query are wildcards for custom nodes only, and so is `\` an escape: a query that
contains it may find a built-in node and miss a custom one of the same name, which is why
`CatalogIsUniform` leaves such queries out. The `required` of a tool's schema is not
enforced by the MCP server.

*Migrations.* `down` on a database that was never migrated fails at 000003, whose ALTER
TABLE needs `workflows`.

## 6. What is proved

Eight modules prove all safety properties of the passing runs for every value of the
constants that satisfies the module's assumptions (`ExecutionsAssumption` and
`DagAssumption`, `KahnAssumption`, `CronAssumption`, `WorkflowsAssumption`,
`DataTablesAssumption`, `NodeCallsAssumption` and the five of section 4,
`MigrationsAssumption`): any number of executions, requests, nodes, edges, attempts,
publishers, jobs, secrets, tables, credentials, node types and runners, and any set of
faults. Of the properties, few are inductive; each module has an inductive invariant
`IInv` that implies them, and proves that each action preserves each of its parts.

**Executions.** Whether a row may be written depends on where the delivery is, and that on
the job. `IInv` joins `TypeOK` with

- `DeliveryInv` (`DelIdle`, `DelActive`, `DelCount`, `DelFresh`, `DelClosed`): a run is in
  progress only under a running job, attempts fit the job's state, and a completed job
  leaves a settled row;
- `CallersInv`: a caller holds an execution nobody else holds, whose job does not exist
  yet;
- `OutcomeInv` (`OutShape`, `OutSuccess`, `OutStatus`, `OutFresh`): what a row of each
  status shows, per place of its run;
- `OrderInv`: the outputs and the rest of the order of a run always split one topological
  order, so the parents of its head are among the outputs;
- `CallsInv`: calls so far are bounded by the attempts of finished deliveries plus the one
  in progress.

`UnsortablesNeverRun` also needs the lemma `CyclesHaveNoOrder`: the first member of a
cycle in a topological order would come after one of its parents (the well-founded order
of the positions). `SettledRowsAreFrozen` is an action property and `Refinement` a step
simulation, both from the same invariant. `UnstartedRowsAreUntouched` and
`StaleOutcomesAreOld` say what a row shows before it is started, and on its first
delivery.

Liveness cannot be proved here, but its safety half can. `SettledJobLeftOutcome` is what
`AcceptedExecutionsFinish` comes to once the job has settled: with no fault but deaths,
River is done with a job only when the row has an outcome or its last delivery was lost
(`OutcomeLeft` adds to `IInv` that a run which is about to acknowledge has recorded it).
`DeliveriesGoForward` is what `JobsSettle` needs besides fairness: whatever changes of a
job or its run goes forward in an order of deliveries, stages, nodes and attempts of a
node. `TypeOK` bounds the first, `OrderInv` and `CallsInv` the others, so the order has no
infinite ascent and a job that does not settle is one that is not served.

**KahnSort.** The heart is `CountersAreExact`: the counter of a node is the number of
edges into it that are left to follow, repeated ones each counted. `Counting` says so of
the edge loop and `Sorting` of the main loop, together with the fact that the nodes with
counter zero are those queued or listed. With `Distinct` (nobody is queued twice) and
`Ordered` (a listed node comes after the origins of its edges), a result as long as the
list of ids is a topological order (`ResultsAreOrders`); and if the queue runs empty
before that, each node left out has an origin that was left out, so no order exists
(`StuckNodesHaveNoOrder`, `ErrorsAreJustified`). `NobodyIsQueuedTwice` is the executor's
guarantee that a delivery runs no node twice.

**CronChain.** `JobInv` relates the place of a job's Work to its state, and `fired` to the
attempts lost; `SteadyIsActive` ties the history of a job to the flag. With `OneLiveJob`
they are inductive. `RescheduleInsertsNothing` says, for all constants and either River,
that the worker's rescheduling leaves the jobs as they are: it is refused, or finds the
worker's own job. `NothingIsScheduled` is the finding for all constants: where the insert
is refused, or there is no usable schedule, no job is ever there. `OnlyPublishesSchedule`
draws the conclusion: a job is made by a publish or not at all, and otherwise only goes
forward through the deliveries River allows it (`Later`), so that the number of fires of a
workflow is bounded by that of its publishes and lost attempts. It is the safety half of
`ScheduledJobsFire` as well.

**Workflows.** `SeenIsStored` says that a secret a publish has read was not cleared since
and is still the stored one if no other publish overlapped (`AloneIsAlone`), and
`GoodIsSettled` that after such a publish was answered no publish is about to replace its
secret; hence `SecretHolds` and `SecretStays` (once a secret is set and every publish that
saw none is over, it never changes). `LockHolds` (a publish that holds the version holds
off a delete) gives `NothingIsLeft`, `RunsAreOpen` gives `RunsWereOpen`, and
`ActiveHasVersion` and `WebhookHasSecret` are inductive with them. For the type of
`execs`, `Bounded` counts the requests in progress with the executions there are; it needs
the number of callers to be finite. `RequestsGoForward` is the safety half of
`EveryCallEnds`: every step of a request, whatever locks it meets, shortens what is left
of it (`Left`), and no step of another lengthens it. `LocksAreExclusive` is why
`VersionLocked` and `RowLocked` may stand for locks: at most one request is past each.

**DataTables.** What an insert checked may be gone when it writes, but its id is never
given to another table: `IdsAreUnique` and `CheckHolds` make `RowsHaveTheirTable`
inductive, though no key relates a row's workspace to its table's. `OnlyRequestsChange`
and `OnlyRacesFail` are action properties of the same invariant.
`RequestsAreToldTheTruth` goes further: `RowsAreNumbered` (finitely many rows, each with
the number it was inserted under) makes them an order, in which every non-empty set has a
greatest member; `NewestRows` shows by cardinality that the rows newer than which fewer
than the limit exist are as many as the list has room for, and `ListIsNewest` that these
are the ones `ListRows` returns.

**NodeCalls.** `Loaded` keeps what a call knew when it began and loaded, `Versions` that a
definition never goes back, and `SecretsExist` that a decrypted credential keeps its
workspace for good; `BeingResolved` divides the recognised references of a call into
those that are left and those whose secrets it has, from which `SecretsAreComplete`
follows, and `NothingIsDecrypted` is about executors without a decryptor, the worker's;
`BindingsHold` (no node type is bound to a credential that does not exist) is what the
foreign key gives. `CatalogsAreUniform`, `TemplatesAreKept` and `InitialInputReached`
combine it with what the next module proves of the data.

**NodeData.** What the recursive functions of `Lookup` and `NodeSearch` compute, for
paths, templates, names and queries of every length. Such a function is the CHOOSE of one
that meets its equation, so each part first shows that one does (`ValuesEquation`,
`KeysEquation`, `PartsEquation`, `StartsEquation`). The induction is over a set of
numbers, whose least missing member contradicts `WFMin`: no theorem with an operator as
its parameter is needed. `PathsNameSegments` says which keys paths can name, the sequences
of segments and nothing else, and with `WrappedDataIsReachable` it is why the key `$`
hides nothing, although a single `$.` does not reach it; `ResolveWritesInOrder` is by
induction on the number of pieces written; `ListedFindsMore` and `ListedFindsNoMore` say
that ILIKE agrees with the search in Go up to case folding and wildcards.

**Migrations.** While no up and no down have overlapped, all runs go one way (`OneWay`),
so the applied set only grows or only shrinks behind the back of each; `AllPassed` says
that every file a run has passed is as it left it. `Record` and `Prefix` are inductive
with these.

**Only model-checked.** `JobsSettle`, `AcceptedExecutionsFinish`, `ScheduledJobsFire` and
`EveryCallEnds`: liveness under fairness, and the enabledness it is defined by, are out of
the prover's reach. The forward properties above are proved instead; TLC finds no
violation of them either when they are added to the configurations of these runs, which do
not list them. The claims of the findings are not theorems: they are false.

## 7. Mutants

Each property of a passing run has a mutant: a definition named in the map, changed the
way a plausible bug would (`\* Mutant:` in the modules), under which TLC finds the
property violated. They are not used by any specification.

## 8. Not modelled

See the components of status `not_modelled` and the notes of those of status `partly`.
Authentication, API keys, rate limiting, configuration, metrics and the HTTP layer are
sequential filters over libraries and have no state that steps of two actors could put out
of order. The generated documentation is text. The HTTP exchange, the wait of the delay
node and the cron expression are I/O and library calls, of which only "succeeds or fails"
matters here. JSON parsing (ParseDefinition, request bodies) appears as the kinds of input
that the code tells apart. Execution logs and most listings are best-effort writes or
reads that no property depends on. The operators of a condition other than `exists`
compare two formatted values. Generated queries are modelled where they are called;
River's own migrations and `status` of the migration command are left out.

# TLA+ models of hugegraph-ai

This directory holds the specifications of the parts of hugegraph-ai whose
correctness depends on the order in which things happen: TLA+ modules, TLC
configurations that check them on small instances, and proofs that TLAPS checks
for every size of instance. `PROJECT.json` maps every definition to the source
lines it models and lists runs, mutations, findings and hazards.

Five parts are modelled: the canonical write protocol of `hugegraph-mcp`, its
legacy confirmations with their migration, the flow scheduler and the vertex id
index of `hugegraph-llm`, and the asynchronous extraction of
`hugegraph-llm-sdk`. Paths below are relative to
`src/hugegraph-mcp/hugegraph_mcp/` unless they say otherwise.

## 1. Inventory

| Component | State | Operations | What is hard | What makes it correct |
|---|---|---|---|---|
| Write plan vocabulary (`write_plan.py`) | none | transition table, aggregation of operation outcomes | table and aggregation are separate rules | aggregate never hides a success |
| Plan store (`plan_store.py`) | SQLite tables `write_plans`, `write_operations` | save, transition, claim plan, claim operation, record receipt, begin reconcile, record reconciliation | leases, owner and attempt tokens; each method is atomic, sequences of them are not | one executor at a time; outcomes final; plan and rows agree |
| Executor (`write_executor.py`) | locals of a confirm or resume call | confirm, resume, status | dies or stalls anywhere; stale reads before a claim | nothing sent twice; plan order |
| Adapters (`tools/graph_write_adapter.py`, `tools/schema_write_adapter.py`) | none | read, write, read back | requests that time out and commit later; other writers | success is proven; doubt stays doubt |
| Reconciler (`reconciler.py`) | locals of a reconcile call, one snapshot of the rows | reconcile | acts on a snapshot; concurrent calls; may die half-way | retry only what was never sent; everything settles |
| Legacy confirmations (`confirmation_store.py`, `confirmable_workflow.py`, `plan_hash.py`) | SQLite tables of issued and consumed nonces and outcomes | issue, consume, record outcome, cleanup | crash after consume; cleanup by age; outcome overwritten | a nonce authorises one execution |
| Legacy migration (`plan_store.py:635-862`) | both databases | prepare | concurrent first use, corrupt rows | old state is never executable |
| MCP tools and server (`server.py`, `tools/`) | none of their own | about 20 tools | validation and query building | not modelled |
| Flow scheduler (`hugegraph-llm/.../flows/scheduler.py`) | pool of pipelines per flow | fetch, run, add, release; streaming | threads, abandoned generators, exceptions | a pipeline serves one call; none is lost |
| Vector indexes (`hugegraph-llm/.../indices`, `operators/index_op`) | FAISS file and properties file | load, add, remove, save, clean | two files, read-modify-write by several callers | vectors and properties match; no lost update |
| Runtime configuration (`hugegraph-llm/.../config`, `api`) | settings singletons, settings file, one lock | update, snapshot, refresh | a refresh holds the lock while a pipeline runs | not modelled |
| Extraction SDK (`hugegraph-llm-sdk/.../extraction_runtime`, `_lifecycle.py`) | counters per chunk, worker tasks, owned models | run chunks, review, repair, close | cancellation, failures, budgets | results in order; models closed once |
| LLM operators, model clients | none | prompts and parsing | I/O | not modelled |
| Python clients, machine learning, UI, packaging | none | REST wrappers, training, pages | I/O, numerics | not modelled |

How the write protocol's parts interact: a dry run saves a plan and returns its
`plan_id`. `confirm_write` claims the plan and then, per operation, claims the
operation, calls the adapter and records its receipt. `reconcile_write` fences
an executor whose lease ran out, reads the rows and the graph, and records what
it finds. `resume` (internal, no tool calls it) continues a reconciled plan.
They share nothing but the SQLite rows and the graph server. Tools are synchronous
functions that FastMCP runs in threads, so calls interleave at every
transaction and at every request; the store is meant for one write-capable server
instance (`README.md:190` of hugegraph-mcp), which may have any number of calls
under way.

The other modelled parts. A legacy confirm call works on its own SQLite file;
every method of the canonical store first copies legacy rows into its own
database, while such calls go on. In `hugegraph-llm` every request is a call of
one `Scheduler`, whose pipelines are kept and used again; the nodes of a
pipeline run in pycgraph's threads and share one input and one state. The
update of the vertex id index is such a flow; its state is two files, which
queries read at the same time. In the SDK one event loop runs the worker tasks of
`aextract_graph`, which own the models they create until the group is closed.

## 2. Plan

Done, in this order: the write protocol with its proofs; the promise it
implements (`WritePromise`, `WriteRefinement`, `RefinementProofs`); the legacy
confirmations and the migration; the extraction; the flow scheduler; the vertex
id index; then the proofs of the invariants of these parts, the vertex id index
last, and in the write protocol of plan order, final outcomes, receipts, and what
holds under every interleaving when no resume call is made.

Left:

1. The synchronous `extract_graph` and `run_chunks`: `ChunkReview` as it is, with
   a thread pool and an iterator under a lock instead of tasks.
2. The lock of the runtime configuration, with the refresh that holds it while a
   pipeline runs, once it is known which threads pycgraph uses.
3. Proofs: how the theorems about the write protocol change with several resume
   calls, beyond the counterexample of `resume_race`.

## 3. Modules

### Write protocol

- `WritePlan` has no state: statuses, transition table, `AggregatePlanStatus`,
  `AggregatePersisted`, and the classification of an observed state.
- `PlanStore` has the columns of one plan's rows as variables and one action per
  store method. The condition under which a method commits is an operator of
  its own (`CanClaimPlan`, `CanRecordReceipt`, ...); where it is false the method
  raises and changes nothing. Plans share no row, so one plan is enough.
- `WriteProtocol` composes the store with confirm and resume calls (`Worker`,
  `Resumers`), reconcile calls (`Reconcilers`) and the graph. A call's program
  counter moves once per transaction, per read of the graph and per request, as
  these are the points where other calls can get in between.
- `WritePromise` is what a client is promised, without calls, leases, attempts
  and snapshots: a plan is offered, then taken or expired; an operation of a taken
  plan is settled once, as a success only if its object was in the desired state
  at some time; the plan's report is truthful. `WriteRefinement` maps
  `WriteProtocol` to it: `planStatus` to phase and report, the rows' statuses to
  outcomes.
- `MCWriteProtocol` adds the symmetry used by the safety runs;
  `WriteProtocolProofs`, `OutcomeProofs`, `RefinementProofs`, `OrderProofs` hold
  the theorems. Those of the other parts are in `LegacyConfirmationProofs`,
  `ExtractionProofs`, `FlowSchedulerProofs` and `VectorIndexProofs`.

| Model | Code |
|---|---|
| `planStatus`, `leaseOwner`, `leaseLive`, `expired` | `write_plans.status`, `lease_owner`, `lease_expires_at` and `expires_at` compared with the clock |
| `op[o]` | row of `write_operations`: status, attempt, attempt token, reconciled |
| `ConfirmStart`, `ConfirmExpire`, `Claim` | `WriteExecutor.confirm` |
| `ResumeStart`, `Claim` | `WriteExecutor.resume` |
| `LoadOperations`, `ClaimNext`, `Record` | `_execute_claimed` |
| `AdapterRead`, `AdapterWrite`, `AdapterVerify` | `_delete_adapter`, `schema_create_adapter` with `apply_schema_operations` |
| `ReconcileBegin` ... `ReconcileRecord` | `WriteReconciler.reconcile`, with its two separate reads after `begin_reconcile` |
| `requests`, `ServerCommits`, `ServerDrops`, `OtherWriter` | HugeGraph and its other clients (external) |

### Legacy confirmations and migration

`ConfirmationStore` holds the three tables, one action per transaction;
`LegacyConfirmation` composes them with dry runs and confirm calls, the graph, a
clock, and the copying of the tables by the canonical store.

| Model | Code |
|---|---|
| `issued`, `consumed`, `operation` | tables of `confirmation_store.py`; a row is the expiry of its plan |
| `CleanupExpired`, `Issue`, `Consume`, `RecordOutcome` | the methods of that name |
| `BuildPlan`, `IssuePrepare`, `IssuePlan` | a dry run: `build_plan_context`, `issue` before and after its cleanup |
| `Confirm`, `CheckReplayed`, `LoadIssuedPlan`, `ConsumePrepare`, `ConsumePlan` | a confirm call up to the consume; `clock` is the time consume has read |
| `ReadTarget`, `SendDelete`, `ReceiveAnswer`, `CheckDeleted` | `execute_graph_change_plan` for edge deletions |
| `RecordWriteOutcome` | `record_write_outcome`, which may lose its storage |
| `ReadIssued`, `ReadConsumed`, `ReadOperations`, `InsertMigrated` | `_migrate_legacy`, `_legacy_status` of `plan_store.py` |

A plan is the pair of its nonce and its expiry, because `compute_plan_hash`
hashes both and two dry runs under a nonce differ in nothing else that matters
here. All plans delete the same edges, which makes their effects hardest to tell
apart. The first state may hold nonces consumed before `write_operations`
existed. A call that dies leaves its request at the server.

### Extraction

`ChunkReview` says what each answer of a model does to a chunk;
`ExtractionRuntime` runs chunks on workers in groups.

| Model | Code (`hugegraph-llm-sdk/.../hugegraph_llm_sdk/`) |
|---|---|
| `ChunkRow`, `Judge`, `ReviewReturned`, `GraphReturned`, `CallFailed` | loop of `run_chunk` and `arun_chunk` in `extraction_runtime/review.py` |
| `Start`, `TakeChunk`, `CallReturns`, `WorkerRaises` | a worker of `arun_chunks`, between two awaits |
| `GroupReturns`, `GroupRaises`, `Drained` | `gather` in `arun_chunks`, and the second one after a failure |
| `CloseModel`, `CleanupDone`, `Cancellation`, `Seen` | `OwnedModels` in `_lifecycle.py` |
| `LeaveGroup`, `NextGroup`, `End`, `Cancel` | `aextract_graph` in `api.py`, and its caller |

One event loop runs everything, so a step is what one task does between two
awaits. asyncio is modelled by what the code relies on: `cancel` makes the next
step of a task raise; a task that has not started never runs its body; `gather`
hands on the first exception at once and cancels its tasks when it is cancelled
itself. A model is named by the chunk it was made for; a factory may return an
old one.

### Flow scheduler

`FlowRun` is one run of a pipeline over its shared input and state;
`FlowScheduler` has the calls and the pool.

| Model | Code (`hugegraph-llm/.../hugegraph_llm/`) |
|---|---|
| `pool`, `FetchOne`, `FetchNone`, `Build`, `Prepare`, `Run`, `Deal`, `StreamEnds`, `StreamBreaks`, `Returns`, `RunFailed`, `Raises` | `schedule_flow` and `schedule_stream_flow` in `flows/scheduler.py`; `GPipelineManager` is external |
| `input`, `state`, `Setup`, `Reset`, `ToJson`, `Assign` | `WkFlowInput`, `WkFlowState` in `state/ai_state.py` |
| `NodeStarts`, `NodeAssigns`, `NodeClears` | `node_init` in `nodes/base_node.py`, which takes no lock |
| `NodeReads`, `NodeWrites`, `NodeGivesUp`, `NodeFails` | `run` in `nodes/base_node.py` with the node's operator |
| `RunEnds` | the end of `pipeline.run`, external |

A value of the state is the set of calls it was computed from, so that a value of
an earlier call, or none, can be told from the right one. A node whose operator
answers a failure with its unchanged input is `Lenient`. pycgraph starts a node
when its predecessors are done and none after a failure; nothing of a failed
run is assumed to go on after `pipeline.run` has returned.

### Vertex id index

`VectorIndex`: rebuilds, queries and clean over two files.

| Model | Code (`hugegraph-llm/.../hugegraph_llm/`) |
|---|---|
| `indexFile`, `propFile` | `index.faiss`, `properties.pkl`; `Partial` while one is open for writing |
| `Exists`, `ReadIndex`, `ReadProps`, `ReadFails`, `OpenIndex` ... `WriteProps`, `CleanIndex`, `CleanProps`, `RemoveVids`, `AddVids` | `indices/vector_index/faiss_vector_store.py` |
| `Fetch`, `Diff`, `NothingAdded`, `Embed`, `EmbedFails` | `BuildSemanticIndex.run` on what `fetch_graph_data` found |
| `StartQuery`, `Search` | `SemanticIdQuery`, its load and its search |

A vector is named by the vertex it was made from, so vectors and properties that
belong together are equal sequences. The dimension of the embeddings is fixed.
A crash may come at any moment and leaves the files as they are. `alone` is a history
variable: it says that since a task began to load nobody else wrote.

### Abstractions of the write protocol

Why they lose nothing the properties tell apart:

- Time. A deadline is the answer to "is it in the past?". The clock is
  unconstrained, so a lease may expire after any step. `claim_plan` and
  `begin_reconcile` read the clock before they wait for the database lock: a
  claim with a stale clock yields a lease that is shorter, the same as one that
  expires at once; a refusal with a stale clock changes nothing.
- Tokens. A call claims an operation at most once, so a fresh attempt token is
  named by its call.
- Reads. `get_plan_record` reads the plan and the rows in two statements. Each
  caller uses only one of the two, except `resume`, whose check is one step
  here: whenever the two reads pass the check, so did a single read at an
  earlier moment, because a claim leaves the rows alone.
- Graph. The state of an operation's object is the approved one, the desired
  one, or anything else. A deletion and a creation differ in what a request does
  (`Effect`), in whether a failed request is read back (`ReadsAfterFailure`), and
  in the status written then (`PostWriteStatus`). `AdapterVerify` for a schema
  create is slightly more permissive than the code: it may answer UNKNOWN
  although the read succeeded.
- Crash and stall. Nothing makes an executor act, so an executor that dies and
  one that sleeps for ever are the same behaviour.
- Only `DELETE_EDGE` and `CREATE_SCHEMA` have adapters, so plans of other kinds
  are refused before they are claimed; a schema plan has one operation
  (`PlanAssumption`).
- Locals of a call that has ended are reset, which only merges states.

## 4. Runs

All runs check for deadlock. Where a model really ends, an action of its own
(`Over`, `Quiet`) says so; everywhere else somebody can always go on.

| Run | Instance | Shows |
|---|---|---|
| `serial_calls` | 2 operations, 2 confirms, 1 resume, 1 reconcile client that runs without interruption but may die; other writers do anything | nothing is retried that was claimed, sent twice, sent out of order, or under way after REJECTED; expiry and execution exclude each other |
| `concurrent_calls` | 2 operations, 1 confirm, 1 resume, 2 reconcile clients, all interleaved, may die | successes are real, the plan's status is truthful, outcomes are final |
| `schema_calls` | 1 schema create, 2 confirms, 2 reconcile clients, interleaved | with one operation, retry safety holds in every interleaving; a create that timed out is no success |
| `recovery` | 2 operations, 1 confirm, 1 resume, 1 reconcile client, interleaved, fair | every plan leaves EXECUTING; every operation of a claimed plan gets evidence; the protocol implements `WritePromise` |
| `legacy_calls` | 2 edges, 1 nonce, 2 calls, 1 migration, a clock; one edge is shared with other writers | a nonce authorises one execution, also when its row is purged and it is issued again; successes and rejections are true; migrated rows say no more than the legacy rows; records are final |
| `extraction` | 3 chunks, 2 workers, 1 review, 1 repair, 2 cancellations, fair | budgets hold and statuses are earned; models are open while used, closed once and few; results are in order; no cancellation is lost; every call ends |
| `flow_calls` | 3 calls, one of them streaming, at most 2 at once; a flow of two branches and the node that joins them, one branch lenient; fair | a pipeline serves one call and comes back; answers are the call's own; nodes see their input and do not lose each other's results |
| `vector_index` | 3 vertices, 2 rebuilding callers, 1 query, clean, 3 rebuilds, 1 crash | only interference mismatches the files; no vertex twice; an undisturbed rebuild is right |
| `stale_snapshot`, `resume_race`, `delete_timeout`, `already_deleted` | the smallest instance that shows the finding | see section 7 |

Bounds of the write protocol. Each worker is one call, so the number of calls is bounded by the
constants; reconcile clients call again and again. Nothing else needs a bound:
attempts are bounded by the calls, requests by the claims. Two operations are
the least with a before and an after, a partial plan and an unclaimed rest;
`resume_race` needs three because its two resumes must find one operation done,
one to fail and one left. Two confirms, or two reconciles, are the least that
race. In `concurrent_calls` and `recovery` other writers only reach the desired
state, which keeps the state space small and is the case that makes a read
ambiguous; `serial_calls` and `schema_calls` allow every state.

`Interleaved = FALSE` in `serial_calls` says that workers pause while a
reconcile call runs (a call under way before continues after it). It is a
condition on callers, not a fact about the code, and `stale_snapshot` shows what
happens without it. `RetryableNeverClaimed`, `NoReplay` and `RejectedUntouched` need
it. The last two need it only if resume calls are made, and the first does not
either then for a plan of one operation; the properties of `concurrent_calls` need no
condition.

Fairness of `recovery` (`Fairness` in `WriteProtocol`): leases run out, because
the clock advances; a client goes on reconciling, because every answer for a
plan in doubt says `reconciliation_required` and asks for it; and a reader that
can succeed again and again does so once (strong fairness of
`ReconcileObserve`). Executors, the server and other writers get no fairness. The
run assumes that reconcile calls do not die half-way: with
`ReconcilersDie = TRUE` `NothingLeftBehind` fails, since a reconcile that dies after its
first RETRYABLE_NOT_APPLIED leaves a plan that neither reconcile nor resume accepts.

Bounds of the other runs.

- `legacy_calls`: `MaxTime = 3` with `TTL = 1` lets a plan be issued, expire, be
  purged, and its nonce be issued and confirmed again, as an expired row is purged
  at the earliest two ticks after its issue. Two calls are the least that race for a
  consume; a third would only stand in for one that has ended. One migration
  reads the three tables at any three moments of this. Other clients and the
  migration are explored apart (`MigratesUndisturbed`): they meet in the graph only,
  which the migration does not read. The theorems have no such restriction.
- `extraction`: 3 chunks on 2 workers are two groups, the second one shorter. Two
  cancellations reach the caller once while workers are awaited and once while
  models are closed, or twice in either. With one review and one repair every
  way through the loop occurs, also the one that spends both.
- `flow_calls`: `MaxActive = 2` lets two calls race for the pool and leaves a third
  to use what they left behind. Two pipelines suffice as a call holds at
  most one and builds one only if none is free. Two nodes that start together and one that waits for both are the
  least in which copies of the state can overwrite each other.
- `vector_index`: two rebuilds race and a third finds what they left; three
  vertices allow keeping, adding and removing one at once. One crash is enough to
  leave any half-written pair, and rebuilds then start from it. The last rebuild
  meets no query (`QueriesEarly`), as a query writes nothing; the first two do.

Fairness of `extraction` (`Fairness`): the event loop runs what can go on, and
model calls and closes end. Of `flow_calls`: threads run, a model answers
or fails, a client reads its stream or goes away. Neither the order of tasks
nor success is assumed, and no caller has to cancel or to begin.

Every property of a passing run has a mutation of the code (operators marked
"Mutation" in the modules) under which TLC finds it violated.

## 5. Proofs

All theorems hold for every value of the constants, from the assumptions named
with them in the modules. The bounds of the runs are constants too, so they hold
for every bound.

### Write protocol

From `PlanAssumption`, `NoWorkerAssumption` and `CallAssumption`:

| Theorem | States | Condition |
|---|---|---|
| `TypeCorrect`, `PlanStatusTruthful`, `ExpiredNeverExecuted` | `TypeOK`, `TruthfulPlanStatus`, `ExpiredUntouched` | none |
| `OperationsFinal` | no step changes the recorded outcome of an operation | none |
| `SuccessesAreProven` | `SuccessProven` | none |
| `Implements` | `PromiseKept`: `WriteProtocol` implements `WritePromise` | none |
| `ReceiptsRecorded` | the receipt of an executor that holds the lease of its attempt is refused in two cases only, which it names | none |
| `RetryableOnlyUnclaimed`, `NeverReplayed` | `RetryableNeverClaimed`, `NoReplay` | `Interleaved` is FALSE |
| `RejectedNeverSent` | `RejectedUntouched` | `Interleaved` is FALSE, or no resume call |
| `NotReplayedWithoutResume` | `NoReplay` | no resume call |
| `SingleRetryableUnclaimed` | `RetryableNeverClaimed` | one operation, no resume call |
| `SingleReceiptsRecorded` | `FencedReceiptRecorded` | one operation |
| `OneResumeKeepsOrder`, `OneResumeKeepsOutcomes` | `InPlanOrder`, `OutcomesAreFinal` | at most one resume call |
| `PlanFollowsTable` | the plan's status moves along the transition table, but for a step from UNKNOWN to PARTIAL with the first success | at most one resume call |

The conditions are assumptions about the callers. That no resume call is made is
what the server does today: no tool makes one. `stale_snapshot` shows what happens
if calls interleave, and `resume_race` what becomes of the order with two resume
calls. The conditions are independent: order and final outcomes hold under every
interleaving.

`IInv` is inductive. `TruthfulPlanStatus` alone is not: that
`claim_operation` may leave a PARTIAL plan PARTIAL rests on PARTIAL meaning that
some operation succeeded, which needs that no row is itself PARTIAL
(`KnownOutcomes`); that it may leave the plan alone at all rests on a live lease
implying a plan in execution (`LeaseHeld`); and that recording a reconciliation
keeps this rests on NULL being no worker. `FreshPlan` strengthens
`ExpiredUntouched` by the calls: none gets past its claim, or its check, before the
plan was claimed. A step of the system is one transaction of the store or none
(`NextIsStoreStep`), so the facts about rows are proved per store method
(`StoreTyped`, `StorePreserved`) and the rest per step of a call.
`SuccessWitnessed` follows the evidence of a success from the read to the row.
`SnapshotCurrent` says that what a reconcile call read once still holds, and is
exactly what fails when another call interleaves.

The refinement needs that a finished plan's status is settled by its rows. Most
of it is `TruthfulPlanStatus`; the rest is that a step which settles an operation
finds it open (`OperationsFinal`) and its plan taken, and that a success is
witnessed. Each step then settles one operation, reassesses the plan, or changes
nothing a client sees.

Order rests on what the call that holds the lease knows of the rows it does not
hold on its list (`Ordered`): they have succeeded, and nobody takes a success back.
Between the check of a resume and its claim nothing else can claim, which is
where a second resume gets in. That a finished plan stays as it is does not follow
from the code of a reconciliation, which overwrites the status. It follows because
no operation that is still open then can change the aggregate: a plan is
CONFLICT only with nothing unknown and nothing done, and its open rows were never
attempted (`Ordered`, `Claimed`), so they become retryable; and a reconcile
call that is past its check excludes REJECTED with issued rows left (`Doubt`).
`Tokens` ties every request, and every call past its claim, to the attempt its row
counts; so a row that is rejected is rejected by the call that sent nothing.

`PlanFollowsTable` needs the same of plans that are not finished. The one that a
reconciliation might take out of the table is a retryable plan, if a row it has
passed over is still under way. Before the first success only the first operation
can have been tried (`Ordered`), and a reconcile call that finds it EXECUTING while
others are ISSUED has not passed it (`Awaited`), because it takes the rows in plan
order and its list was made after the claim. TLC checked the statement before it was
proved, on the instance of `concurrent_calls` and on three operations with
one reconcile client.

Without resume calls a plan is claimed once, and every operation at most once: an
ISSUED row counts no attempt, and while a confirm call holds the lease no row is
retryable (`Unattempted`), so what the holder may claim was never claimed
(`FirstClaims`). A stale snapshot may still offer an operation for a retry, but
nobody takes the offer up, so nothing is sent twice and no request outlives a
rejection. With one operation the plan is never PARTIAL before its receipt, so a
reconcile call that is past its check has fenced the only claim there will be, and
what it read stays true when it matters (`SingleKnown`, `SingleExecuting`).

A receipt is recorded if the call owns the plan, the row has its attempt, and the
aggregate after it may follow the status before it. The first two are given while the
lease lives (`LeaseHeld`). The third depends on what the status before says of the
rows (`TruthfulPlanStatus`); `AggregateTells` reads it back from the aggregate, and
what remains are the two cases of `ReceiptsRecorded`: all operations of a plan were
already applied (`already_deleted`), or a resume call's first operation is rejected
(section 7). Neither can occur with one operation.

### Legacy confirmations

`LegacyTypeCorrect`, `LegacySingleUse`, `LegacyRecordsFinal`,
`LegacyMigrationTruthful`, `LegacyOutcomeProven`, `LegacyRejectedUntouched`: all
properties of `legacy_calls`, from `PlanAssumption`, `TTLAssumption` and
`CallerAssumption`. Consumed rows are purged, so what makes a nonce good for one
execution is the row of `write_operations`, which stays: a nonce was executed
exactly if it has one, and calls past their consume have different nonces and
rows that say EXECUTING (`Owned`). So `record_outcome`, which looks at no status,
never overwrites an outcome. `Kept` says that what the migration read earlier is
still true when it inserts. `Witnessed` and `Untouched` follow an execution edge
by edge: what it counts as done was absent once, and what it may still deny has
taken nothing away.

### Flow scheduler

`FlowTypeCorrect`, `PipelinesNotShared`, `RunsAtMostOnce`, `AnswersNotMixed`,
`NodesSeeInput`, `ResultsNotLost`: all safety properties of `flow_calls`, for any
number of calls, pipelines and nodes, from the assumptions of `FlowRun` and
`FlowScheduler`. What a pipeline's state holds comes from the call that holds the
pipeline (`Own`), which rests on `PoolSound`; a pipeline nobody holds is as a new
one (`Fresh`). The shared input is cleared only after it has been assigned to the
state. No assignment of an older copy takes a value away, because `to_json` leaves
out what is None.

### Extraction

`ExtractionTypeCorrect`, `BudgetsHold`, `StatusesEarned`, `ModelsStayUsable`,
`ModelsClosedOnce`, `CancellationReported`, `ResultsComplete`, `OpenModelsBounded`:
all safety properties of `extraction`, for any number of chunks, workers, reviews,
repairs and cancellations, from the assumptions of `ChunkReview` and
`ExtractionRuntime`. What a chunk's counters and status may be at each point of
the loop (`RowOK`) needs no other chunk. The stages of the caller and its tasks go
together (`Staged`): a task runs only while its group does, and models are closed
only when no task can go on. That no result is missing needs who fills each slot of
the current group (`Filled`).

### Vertex id index

`IndexTypeCorrect`, `UndisturbedMatches`, `VerticesNotRepeated`, `RebuildsRight`:
all properties of `vector_index`, for any number of vertices, callers, rebuilds and
crashes. `IndexInv` follows the files into a task's memory and back: whoever is
`alone` has in memory what the files hold. That no vertex is repeated, and that
a save holds exactly what the graph had, needs what each stage of a rebuild knows of
the vertices it found (`Covers`, in `StoreInv`), and that removal keeps the rest once
each and in order. `Without` names a kept position by its rank (`Nth`); that
there is one position of every rank follows by counting (`NthCounts`, with the pigeonhole
principle of the library), where sorting would need an induction.

### Only model-checked

The liveness properties: `ExecutionEnds`, `NothingLeftBehind`, `PoolDrains`,
`Terminates`. They rest on fairness, so on ENABLED, which the prover does not
handle. Every safety property of a passing run is stated by a theorem; the four
properties of the runs that expect a violation are false.

## 6. Not modelled

- Write protocol: the create adapters that are not registered; validation, query
  building and answers of the tools; status, which only reads; failures of SQLite
  itself; a deletion followed by the creation of another edge with the same id,
  which the code's own documentation excludes.
- Legacy confirmations: rows with corrupt JSON, which are migrated as
  LEGACY_UNKNOWN; operations that are no longer executed (imports, vertex
  deletions); the guard's configuration and the content of hashes. The two stores
  are modelled apart: one dry run can be confirmed in each, and no document says
  that it must not.
- Extraction: the synchronous `extract_graph` and `run_chunks` (see section 2),
  parsing and validation of graphs, a call with one shared model.
- Flows: the operators inside the nodes, what each flow copies into its input, and
  the other shapes of flows; a node reads and writes the same state in all of them.
  Counters that several nodes raise are kept out: a late copy may take one back
  (`nodes/base_node.py:87`).
- Indexes: Milvus and Qdrant, which are external services;
  the chunk and example indexes, which are built anew with the same class.
- Runtime configuration: its updates, rollbacks and snapshots all run under one
  lock; what may go wrong is which thread of pycgraph asks for the lock while a
  refresh holds it, and that is not decided in this repository.
- REST clients, model clients, prompts, machine learning, user interface,
  packaging: calls to other systems, parsing and numerics, with no protocol of
  their own. They are by far the most lines of the repository, so the mapped
  lines are a small share of it.

## 7. Findings

- `stale_snapshot`: reconcile can mark a claimed operation as retryable, against
  `docs/architecture.md:89-90`. Its snapshot is the only proof and
  `record_reconciliation_receipt` does not compare the attempt.
- `resume_race`: the claim of a resume does not repeat the check made before it,
  so a second resume goes past an operation in doubt.
- `delete_timeout`: a deletion that timed out is recorded as CONFLICT, a final
  status, while it may still commit.
- `already_deleted`: if all operations of a longer plan are already applied,
  the last receipt is refused, because PARTIAL to ALREADY_APPLIED is missing in
  the table.

Also met, without a run: a resume call whose first operation is rejected while
others are retryable has its receipt refused too, as EXECUTING to
RETRYABLE_NOT_APPLIED is not in the table either (`write_plan.py:56-91`; it is the second case of
`ReceiptsRecorded`). The status of a plan goes from UNKNOWN to PARTIAL by
reconciliation although the table does not allow it, which by `PlanFollowsTable` is
the only such step; `claim_plan` does not look at `expires_at`; a deletion refused for lack of permission is recorded as CONFLICT.
A legacy deletion that was acknowledged is recorded as REJECTED if another client
puts the edge back before the verification read, and a legacy call that dies
leaves its row EXECUTING for ever. A row copied while it said ISSUED keeps that
status in the canonical store; nothing can execute it. A client that leaves its
stream makes the scheduler drop a new pipeline instead of pooling it, which costs a
build later. A rebuild of the vertex id index that only removes vertices saves
nothing; of two rebuilds at once, the later save drops the additions of the
earlier one; and after a crash in a save the files may not match, or not be
readable, until clean removes them.

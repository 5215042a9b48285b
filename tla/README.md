# A TLA+ model of Presto

This directory holds a formal model of parts of Presto where several actors meet:
how the coordinator hands work to a task and the task decides that it is finished,
how pages travel from one task to the next, how queries share the memory of a
worker, how a query ends, and how the pages of the web UI and the Tableau connector
follow all this from outside. TLC checks the modules on small instances; TLAPS
proves the central theorems for every instance.

Java paths below are relative to
`src/presto-main/src/main/java/com/facebook/presto/`, paths of the web UI to
`src/presto-main/src/main/resources/webapp/`.

## 1. The system and its parts

A query is a tree of stages; a stage runs as tasks on workers. The coordinator
drives each task through an `HttpRemoteTask`, which sends it splits in numbered
updates. On the worker a `SqlTask` owns the task's state and its output buffer,
and a `SqlTaskExecution` runs a driver for each split on the `TaskExecutor`. The
drivers reserve memory in a `MemoryPool` and write pages to the output buffer. A
consuming task reads them with a `PageBufferClient` per source, all of which belong
to an `ExchangeClient`. The `QueryStateMachine` of the coordinator keeps the state of
the query. The pages of the web UI poll the coordinator every second; the Tableau
connector fetches the results of a query.

| Part | Source | Modelled in | Extent |
|---|---|---|---|
| Client buffer | `execution/buffer/ClientBuffer` | `ClientBuffer` | all but loading from a supplier |
| Partitioned output buffer | `execution/buffer/PartitionedOutputBuffer` | `PageTransport`, `TaskExecution` | state machine and one partition |
| Lazy output buffer | `execution/buffer/LazyOutputBuffer` | `PageTransport` | all |
| Task results resource | `server/TaskResource` | `PageTransport` | results, acknowledge, abort |
| Page buffer client, backoff | `operator/PageBufferClient`, `server/remotetask/Backoff` | `PageBufferClient`, `PageTransport` | all |
| Exchange client | `operator/ExchangeClient` | `PageTransport` | with one source |
| Remote task | `server/remotetask/HttpRemoteTask` | `TaskExecution` | splits, updates, abort, cleanup |
| SQL task, its state | `execution/SqlTask`, `TaskStateMachine` | `TaskExecution` | update, end, cleanup |
| Task execution | `execution/SqlTaskExecution` | `TaskExecution` | one ungrouped source |
| Task executor | `execution/executor/TaskExecutor` | `TaskExecution` | which futures complete |
| Memory pools | `memory/MemoryPool`, `memory/QueryContext`, `operator/OperatorContext` | `MemoryPool` | reserve, free, revocable memory, moves |
| End of a query | `execution/QueryStateMachine`, `server/QueryResource` | `QueryLifecycle` | finishing, commit, failure, cancellation, kill |
| Query list | `src/components/QueryList.jsx` | `QueryList` | refresh, merge, filters, search, order |
| Query page | `src/components/QueryDetail.jsx` | `QueryDetail`, `StageSummary`, `Histogram` | polling, rates, charts, task list |
| Head of a query's pages | `src/components/QueryHeader.jsx`, `src/utils.js` | `QueryHeader` | bar, title, colour, Kill, Preempt |
| Live plan | `src/components/LivePlan.jsx` | `LivePlan` | polling and when the plan is drawn |
| Stage page | `src/components/StageDetail.jsx` | `StageDetail`, `OperatorGraph` | polling, selection, operator graph |
| Pipelines of a stage | `sql/planner/LocalExecutionPlanner` | `OperatorGraph` | which operators a plan node adds to which pipeline |
| Cluster figures | `src/components/ClusterHUD.jsx` | `ClusterHUD` | polling and rates; not the plain histories and the drawing |
| Worker page | `src/components/WorkerStatus.jsx`, `WorkerThreadList.jsx` | `WorkerStatus`, `WorkerThreadList` | pools, thread snapshots |
| Title bar | `src/components/PageTitle.jsx` | `PageTitle` | all |
| Formats | `src/utils.js` | `Formats` | durations, counts, sizes |
| Tableau connector | `tableau/` | `TableauConnector` | statement client and callbacks; not the form that starts it |
| Statement protocol | `server/protocol/Query`, `QueuedStatementResource` | `TableauConnector` | what an answer has |

Section 7 lists what is not modelled.

## 2. The modules

### Page transport

- `ClientBuffer`: the pages one consumer has still to fetch. Every operator is the
  body of one `synchronized` block, as a function on a buffer record. A page is
  known by its position in the stream; `currentSequenceId` is the position of the
  first page still held. Reads are limited by bytes, as in `processRead`.
- `PageBufferClient`: the consumer's end, in the same style, with the backoff. Time
  is abstracted: `MayBePermanent` says when `Backoff.failure()` *may* give up.
- `PageTransport` composes them with `LazyOutputBuffer`, `PartitionedOutputBuffer`,
  `TaskResource` and the network. An action is one synchronized block, so the gaps in
  which other threads run are those of the code: between the acknowledgement and the
  read of a GET, between taking a pending read and answering it, between the blocks of a
  client callback, between the test and the effect of `enqueue`, and between the test of
  the task's state in `checkTaskCompletion` and the end of the output
  (`BeginCompletionCheck`, `LeaveCompletionCheck`, `CheckTaskCompletion`): the task may
  fail, and its buffer with it, in the middle of the check. Each request is a record
  with a phase; a request can be lost on the way to the worker, on the way back, or be
  given up by the client while the worker still works on it. The worker may restart,
  which loses the buffer and gives the task a new instance id.
- `PageStream`: what the transport promises: pages are produced and delivered in
  order; the consumer is told of the end only when all of them are delivered (or the
  task was cancelled); otherwise it fails or abandons the stream. A task that failed
  before it began to end its output never ends it. One that fails while it does may:
  then pages may be missing that the buffer never took, and the consumer still has all
  that it took.
- `PageTransportInvariant`: the inductive invariant.
- `MCPageTransport`: page sizes for the runs.

Simplifications. A page's content is a model value; two pages may be equal, so
duplicates and gaps are told apart by position. The partitions of a partitioned
buffer interact only through its state, which becomes `FINISHED` when all of them are
destroyed; with one partition the model is that of one consumer. `LazyOutputBuffer`
replays waiting reads from a list; here they are replayed in any order, which
matters to nothing because they carry the same token.

`completion` says how far the completion check of the first instance is and whether the
task failed before it or in it. What `checkTaskCompletion` reads of splits and drivers is
in `TaskExecution`; here it may find them done at any time when no writer is inside
`enqueue`. The gap is the one of run `task_clean_end` (section 4), seen from the other
end: `CompletionIsReal` says precisely which consumers are misled by it.

### Task execution

`TaskExecution` is one task, from `HttpRemoteTask` to `SqlTaskExecution`.

- *Coordinator*: `AddSplit`, `NoMoreSplits`, `SendUpdate`, `ReceiveResponse` (the future
  of a request is done), the two blocks of the response handler (`ClearCurrentRequest`,
  `HandleResponse`), `LearnDone`, `CleanUpTask`. `inFlight` are the updates whose future
  is not done. `sendUpdate` waits for the future of `currentRequest`, not for its
  handler, and the handler clears `currentRequest` even when a newer update is there, so
  several updates can be under way. `sendCalled` stands for the calls of `sendUpdate`
  waiting in the executor. Updates carry a number so that each is answered once; one
  that timed out may still arrive.
- *Worker*: `ArriveUpdate` is `SqlTask.updateTask` up to `addSources`, `ApplyUpdate`
  is `updateSources` under the lock of the execution. The end of the task runs its
  two listeners one after the other (`CleanUpBuffer`, `RemoveTask`).
- *Drivers*: a driver writes at most once, in the two steps of `enqueue`; its
  future succeeds or fails; the callback runs later.
- *Completion*: `checkTaskCompletion` is five steps, because it holds the lock of
  the execution but not of the task state, the counters or the buffer.

Simplifications. The threads that are about to check for completion are a set of
callers: two pending checks of the same kind are one. The task begins when its
execution exists, so that the state PLANNED and the creation of the execution are
left out, as are lifespans and several sources. `PendingSplits.addSplit` throws when
a split comes after the last one; the model has no such branch, and `NoSplitAfterEnd`
shows that none is needed.

### Memory pools

`MemoryPool` has a worker's pools and the queries that reserve in them. A method
holds the monitor of its pool and is one step; `moveQuery` holds the monitor of the
pool the query leaves, and that of the other one only inside each call, so it is a
step for each call, between which others use the target. `future[p]` is the one future
on which everybody waits for pool `p`; `waiting[q]` are the pools whose futures callers
of `q` were given by `reserve` or `reserveRevocable`. An operator registers only after
that, with no lock held (`updateMemoryFuture`): it gets a future of its own that the
pool's future completes, and `moreMemoryAvailable` after a move. `blocked[q]` are the
pools of operators that registered while their query was in the pool, `late[q]` those of
operators that registered when it had left. A move wakes the registered operators at
once, or when the target has memory (`listeners`). It does not reach who registers later,
the output buffer, and operators that wait for revocable memory, which stay with the
future of the old pool; `NoLostWakeup` says of these only that the old pool is full. The
last sections of the module have the properties that are sums, and the invariants they
rest on.

Simplifications. One limit stands for those of user and total memory. A reservation
that the limit refuses, and a `tryReserve` that finds no room, change nothing and are
not steps. Memory is freed by who reserved it, with the tag it was reserved with. A
missing map entry and an entry of zero are the same. The write of the tags into the
target's map, which the code does without the target's monitor
(`MemoryPool.java:277`), is atomic. Resource overcommit, broadcast and spill limits
and the listeners of revocable memory are left out.

### The end of a query

`QueryLifecycle` has the threads that finish, fail, cancel, kill and preempt a query.
They share no lock: a failure looks at the state, stores its cause, changes the state
and aborts the transaction in separate steps. `StateMachine.setIf` is atomic.
`QueryResource.failQuery` adds a look before and a verification after. A cause is the
thread that brought it. The states before RUNNING are merged, the transaction is an
auto-commit one.

`QueryHeader` composes it with the page that shows the query. `getQueryInfo` puts a
`QueryInfo` together in two steps, the state first and cause and statistics later,
while the query goes on. Requests are not lost here, and blocked reasons are left
out.

### The web UI

All pages poll in the same way: `refreshLoop` sends a GET, its handler calls
`resetTimer`, and the timer calls `refreshLoop`. `Polling` has this part and
`QueryPolling` the query behind it for two of the pages. `RefreshLoop` is what it
should amount to: one series of requests that goes on until the final answer; the
three pages of a query are shown to implement it. Handlers run one at a time,
requests may fail or take any time, and the user may click at any time.

- `StageDetail`, `LivePlan`, `QueryDetail`, `QueryList`, `ClusterHUD`, `WorkerStatus`,
  `WorkerThreadList`, `PageTitle`: one module for each page or part of a page. An
  action is one handler, with the update and drawing it causes.
- `StageSummary` and `Histogram`: the stages on the query page, with charts that are
  not drawn twice within a second. A task id is the sequence of its parts.
- `OperatorGraph`: the walk over a stage's plan that puts its pipelines together.
  Plans are built up node by node, each with the operators that
  `LocalExecutionPlanner` adds for it: a scan has one, or none when the projection above
  it scans; a join adds one to the pipeline of its probe side and ends that of its build
  side, with one more for a dynamic filter; a local exchange ends the pipelines of its
  sources; a RIGHT or FULL join gets a further pipeline, of its outer operator and copies
  of the operators above it.
- `Formats`: numbers as mantissa, digits and unit.
- `TableauConnector`: the statement client and the connector's callbacks, with the answers
  that `Query.getNextResult` can give: it polls rows first and looks at the state of the
  query after that, so an answer may have rows and an error.

Behaviour of libraries that the modules rely on, from how the code uses them: React
runs the update of a component inside `setState` when it is called from a request's
handler, and unmounts a page whose rendering fails; a d3 selection of a missing
element is empty, not null; Reactable sorts with the given comparison; Tableau calls
`getColumnHeaders` once and `getTableData` after each answer that has more data.

Simplifications. Queries with equal sort keys, which no run has, are in an order that
does not depend on the order of the answer. Time is counted in refreshes or in seconds,
and the clock is set back only in `QueryDetail`. The rates of `ClusterHUD` are divided
by whole seconds and rounded down; the histories that only append a figure of the answer
and the drawing of its charts at most once a second are left out. One rate stands for
the rates that are computed alike. A snapshot has at most one thread of each group. The
flag `initialized` of the query list decides only between two messages and is left out.
`WorkerStatus` has no CPU and heap charts and no widths of bars. `Histogram` has no
rounding of floating-point numbers. `StageSummary` has the latest attempt only.
`Formats` has whole numbers, rounds ties up, stops at the units B (counts) and G
(sizes), and leaves out a size of zero.

### The modules for TLC

`MCViews` and `MCProgress` put parts that do not interact side by side: a behaviour
is one of a single part, named by `part`, while the others rest, so that a run explores
the sum of their states and not the product. `MCViews` has the properties that hold at
every moment, of the query lifecycle and of what the pages show. `MCProgress` has those
that need fairness or are about the way to an end, and the memory pools. Some modules
are in both, with other constants: liveness takes smaller instances than safety. The
variables of parts that share a name (`query`, `timers`) are shared.

## 3. What TLC checks

| Run | Configuration | Checks |
|---|---|---|
| `transport_loss` | lossy network, 3 requests, 2 pages of two sizes | in-order delivery, nothing lost, no refused token, the invariant |
| `transport_teardown` | 2 requests, 2 pages of one size; failure, also in the completion check, cancellation, close, removal | which ends are real, refinement of `PageStream` |
| `transport_restart` | 2 requests, 2 pages of one size; the worker restarts, a task is cancelled | the invariant and the refinement across task instances |
| `transport_restart_noticed` | the same with one page, fair | a client of a vanished instance does not wait for ever |
| `transport_settles` | 2 pages that exceed the limit, fair, network recovers | an ended stream is consumed, its buffer released |
| `task_updates` | 2 splits, 1 timeout | each split runs once, none comes after the end, no page is dropped |
| `task_failures` | 2 splits, failing drivers, abort | a FINISHED task ran everything; the inductive invariant |
| `task_stops` | 2 splits, cancel, early delete | nobody writes after the end |
| `task_completes` | 1 split, 1 timeout, early delete, fair | the task ends |
| `views` | see below | the lifecycle of a query, and what the pages show at every moment |
| `progress` | see below, fair | the memory pools, and that the pages and the Tableau connector come to show the end |
| `task_clean_end` | 1 split, failing driver | a violation, section 4 |

The parts of `views`; a property that is given for two parts joins what holds of each:

| Part | Instance | Property | It says |
|---|---|---|---|
| `query` | a kill, a preemption, a failure, a cancellation, a commit that may fail | `FailedHasCause`, `FinishedMeansCommitted`, `ConflictMeansOther`, `EndsOnce` | causes, commits, honest conflicts, one end |
| `head` | the query is killed or its commit fails; 2 drivers | `HeadsTellTruth`, `EndShownStays` | the failure named is the query's, bar, title and colour agree; an end shown is the end |
| `title` | failures and recoveries | `AnswersShown` | light and dialog agree with the connection |
| `list` | 2 queries, limits 0 and 1, reordering on or off, a filter | `ListCurrent` | one current row per query, nothing hidden while there is room |
| `detail` | 1 row, a window of 1, a clock that jumps | `RatesAccounted` | samples account for all rows, later ones are finite, the chart is one behind |
| `hud` | totals to 3, 0 or 2 workers, 1 or 2 seconds between answers, a restart | `RatesAccounted` | negative and undefined rates do not last |
| `threads` | 2 groups, 2 requests at once | `AnswersShown` | snapshots go forward, groups partition the threads, the page fails only for a group that is gone |
| `worker` | 1 query, 2 pools | `ListAccountsForBar` | the list of queries adds up to the bar |
| `tasks` | 2 tasks with numbers 0 and 1 | `EveryTaskShown` | a task is under one filter, in order; charts are current when drawn |
| `buckets` | to 6 tasks, at most 2 buckets | `EveryTaskShown` | a task is in one bucket, whose tooltip covers it |
| `graph` | every plan of up to 5 nodes | `GraphIsPlan` | every operator drawn, edges along pipelines, sources apart |
| `format` | numbers around every change of unit | `GrowingReadsGrowing` | a growing number never reads smaller |

The parts of `progress`:

| Part | Instance | Property | It says |
|---|---|---|---|
| `pools` | 2 queries, 2 pools of size 3, a tag and the moving tag | `IInv`, `NoLostWakeup`, `MemoryAddsUp` | waiting operators are woken; counters and tags add up, memory is in one pool, no check stops a move; the inductive invariant |
| `head` | a kill, a cancellation, no drivers | `EndShown` | whoever tries to end the query sees its end on the page |
| `search` | 1 query, a search term it does not match, reordering | `SettingsTakeEffect` | what was asked for is shown in the end |
| `detail` | no rows, a window of 1 | `FinalInformationShown`, `RefreshesUntilFinal` | the page rests on the final query |
| `plan` | 2 stages | `FinalInformationShown`, `RefreshesUntilFinal` | the page rests with the final plan drawn |
| `stage` | 3 stages, 3 links | `FinalInformationShown`, `RefreshesUntilFinal` | the page rests on the graph of the stage selected |
| `charts` | 2 tasks, 2 times | `BarsAppear` | an expanded stage gets its bars |
| `connector` | to 8 pages | `ExtractIsWhole` | pages once and in order, done means whole, and an answer in the end |

`RefreshesUntilFinal` is the refinement of `RefreshLoop`. The conjuncts are defined in
the modules of the parts, each with what it says.

*Why the bounds are enough, and where they are not.* In the transport, three request
slots hold an outstanding GET, an acknowledgement in flight and one stale request;
the runs with events have two, so a stale request and an acknowledgement are not in
flight at once there. Two pages of different sizes give responses with one page,
with two, and with one that exceeds the limit; the runs with events have pages of one
size, since what they add is not about sizes. `transport_restart` has no failing task:
with one it is not exhausted in the time of a run. Nothing is concluded about larger
instances from the runs; for the safety properties of the transport, the task, the
memory pools, the query lifecycle and the pages that section 5 lists, the proofs do that.

In `TaskExecution`, two splits let one driver fail while another completes, and let an
update that repeats a split carry a new one; one timeout makes one update late. `Event`
selects the events of the environment of a run. Their product is too large: two splits
with a timeout **and** failures or cancellations is not exhausted in 15 minutes, nor are
updates with cancellation alone, so the runs combine either two splits with a timeout or
two splits with events. The liveness run has neither failures nor cancel nor abort; with
failing drivers it passes in four minutes, and with cancellation besides it passed on an
earlier version of the module; neither is kept. Larger sets of events without timeouts
(fail, cancel and abort) passed on earlier versions of the module and are not kept
either.

In the memory pools, two queries let one use the target of the other's move, and pools
of three bytes let one query fill a pool alone or with the other. `WorkerStatus` has one
query, since two are not exhausted in eight minutes; sums over two queries are checked
in `pools`. In the query lifecycle two kills pass too. Single parts passed with more
than the runs have room for, and are not kept that way: `QueryHeader` with a
cancellation beside the kill (3.3 million states), `QueryDetail` with 2 rows and a
window of 2 (2.5 million), the query list with an error type (0.7 million), `WorkerStatus` with limits of 2 and `WorkerThreadList` with two
versions. The query list with three queries and two limits was cut off after seven
minutes, `StageSummary` with two tasks, two times and two numbers likewise; its two
parts vary one thing each. `Histogram` has a width of 2 so that six tasks reach it.

Some conjuncts cover less than their names suggest. `SnapshotsGoForward`, of the thread
page, is about users who wait for each answer; of two snapshots under way the one
answered last stays, be it the older. `SettingsTakeEffect` is about lists that are
reordered, and with one query and a limit of 1 it is about the search, not about order
or limit; two queries are not exhausted in fifteen minutes. `SelectionKept`, of the
stage page, is about clicks while no request is in flight; a click during one is undone
by its answer. `ChartsCurrent` and `BarsAppear` say nothing of an update that is
suppressed after the last refresh. `AnsweredUnlessCut`, of the connector, leaves out
extracts whose request fails after the headers, and `DoneMeansWhole` allows an extract
to pass for complete when the query failed in the answer that brought its last rows.

*Deadlock* is not checked where a run ends by design: a finished transport, a task
that is done, a page at rest. Getting stuck is excluded by the liveness runs.

*Fairness.* Weak fairness of single threads, callbacks, listeners, timers and
handlers: executors and browsers run what is submitted. In `PageTransport` the network
is only assumed to stop failing eventually (`NetworkRecovers`). In `TaskExecution` at
most `MaxTimeouts` updates fail, that is, the network recovers before the error budget
of `RequestErrorTracker` is used up; if it does not, the code fails the task, which
ends it too. A request that does not fail is delivered and answered, and the reader
deletes the buffer once it has seen its end, which `transport_settles` shows of the
consumer. Nothing is assumed of aborts, whose retries the coordinator gives up. The
pages repeat their requests for ever, of which not all are lost (strong fairness of
answers). A commit succeeds or fails. Tableau calls again when it was given data, and
the coordinator does not answer "nothing yet" for ever.

## 4. Findings

`task_clean_end` checks what comments of the code say of it: "don't close buffers for a
failed query" and "closed buffers signal to upstream tasks that everything finished
cleanly" (`SqlTask.java:182-183`). TLC finds a behaviour that departs from it.
`checkTaskCompletion` first tests that the task is not done, then that no driver
remains, and then calls `outputBuffer.setNoMorePages()`. When the last driver fails, its
callback marks the task as failed and counts the driver down, without the execution's
lock; if both happen between the two tests the check ends the output of a failed task.
The task's FAILED state still reaches the coordinator, so the query fails; but until
then a consumer that reads the buffer is told that the stream is complete, without the
pages the failed driver did not write. `PageTransport` has the same gap, and
`RealCompletion` (section 5) proves that there is no other: a consumer of a failed task is
told of the end only when the task failed after its completion check had found it running.

The models of the other parts behave as the code does, also where that differs from
what is written about it. TLC gave a counterexample to each of these sentences, stated
as a property of the module; the project keeps no run for them:

| Module | What is said | What happens |
|---|---|---|
| `LivePlan` | "Live plan graph will appear automatically when query starts running." (`LivePlan.jsx:324`) | the canvas is looked for before it exists, and the empty selection is kept |
| `QueryList` | "The currently running queries are at the top of the page" (`web-interface.rst:11`) | the list is sorted by creation time whatever the states are |
| `QueryDetail` | "Auto-Refresh: On" (`QueryDetail.jsx:892`) | switched on after the last answer, it refreshes nothing |
| `WorkerThreadList` | "No threads in group" (`WorkerThreadList.jsx:231`) | a selected group that is gone makes the rendering fail |
| `WorkerStatus` | "Returns the number of free bytes." (`MemoryPool.java:282`) | the bar counts revocable memory as a part of reserved memory |
| `QueryLifecycle` | "verify if the query was failed (if not, we lost the race)" (`QueryResource.java:134`) | OK is answered for a query that finished |
| `QueryLifecycle` | a FINISHING query "should only be failed if the transaction commit fails" (`QueryStateMachine.java:709`) | a cancellation fails it too |
| `QueryHeader` | "progress bars should appear 'full' when query progress is not meaningful" (`utils.js:146`) | a progress of 0 is shown as full, too |
| `StageSummary` | "sort the x-axis" (`QueryDetail.jsx:310`) | the sort key is the number of the stage execution, the same for all tasks |
| `TableauConnector` | Tableau will "create an extract out of the results" (`tableau.rst:23`) | a request that fails after the headers leaves Tableau waiting; a failure that comes with rows passes for the end |

The rows on `LivePlan`, `WorkerThreadList` and `TableauConnector` depend on what
section 2 says of React, d3 and Tableau.

## 5. What is proved

For every set of pages, byte sizes, requests and writers, and every bound:

| Theorem | Module | Statement |
|---|---|---|
| `TypeCorrect` | `PageTransportTypes` | `Spec => []TypeOK` |
| `Invariance` | `PageTransportProofs` | `Spec => []Inv` |
| `InOrderDelivery` | `PageTransportProofs` | `Spec => []ReceivedInOrder` |
| `RealCompletion` | `PageTransportProofs` | `Spec => []CompletionIsReal` |
| `ValidSequenceIds` | `PageTransportProofs` | `Spec => []NoInvalidSequenceId` |
| `NoLoss` | `PageTransportProofs` | `Spec => []NothingLost` |
| `Refinement` | `PageTransportProofs` | `Spec => ImplementsPageStream` |

For every number of splits and of updates that time out, and every set of events
(so also for the combinations that section 3 says TLC does not exhaust):

| Theorem | Module | Statement |
|---|---|---|
| `TypeCorrect` | `TaskExecutionProofs` | `Spec => []TypeOK` |
| `Invariance` | `TaskExecutionProofs` | `Spec => []IInv` |
| `SplitsRunOnce` | `TaskExecutionProofs` | `Spec => []RunOnce` |
| `NoLateSplit` | `TaskExecutionProofs` | `Spec => []NoSplitAfterEnd` |
| `FinishedIsComplete` | `TaskExecutionProofs` | `Spec => []FinishedTaskRanEverything` |
| `NoWriterAfterEnd` | `TaskExecutionProofs` | `Spec => []NobodyWritesAfterEnd` |
| `OutputIsWhole` | `TaskExecutionProofs` | `Spec => []WholeOutput` |

For every set of pools, every finite set of queries and of tags, every size and every
limit:

| Theorem | Module | Statement |
|---|---|---|
| `TypeCorrect` | `MemoryPoolProofs` | `Spec => []TypeOK` |
| `Invariance` | `MemoryPoolProofs` | `Spec => []IInv` |
| `Futures` | `MemoryPoolProofs` | `Spec => []WaitersHaveFutures` |
| `Wakeups` | `MemoryPoolProofs` | `Spec => []NoLostWakeup` |
| `Sums` | `MemoryPoolProofs` | `Spec => []MemoryAddsUp` |

For every number of administrators, failing threads and cancellations:

| Theorem | Module | Statement |
|---|---|---|
| `TypeCorrect` | `ViewsProofs` | `Spec => []TypeOK` |
| `Causes` | `ViewsProofs` | `Spec => []FailedHasCause` |
| `Commits` | `ViewsProofs` | `Spec => []FinishedMeansCommitted` |
| `Conflicts` | `ViewsProofs` | `Spec => []ConflictMeansOther` |
| `OneEnd` | `ViewsProofs` | `Spec => EndsOnce` |

For the pages of the web UI, with any number of answers, failures and clicks. The last
column is what a theorem assumes of the page's constants; `TheoremsApply` in `MCViews` has
TLC evaluate these predicates for the instances of the run. `HeadsTellTruth` and
`EndShownStays` are properties of `views` as they stand; the others are what a property of
`views` says of one of its parts:

| Theorem | Module | Statement | Assumes |
|---|---|---|---|
| `QueryHeads` | `ViewsProofs` | `HeaderSpec => []HeadsTellTruth` (of `QueryHeader`) | |
| `EndStays` | `ViewsProofs` | `HeaderSpec => EndShownStays` | |
| `TitleHeads` | `ViewsProofs` | `Title!Spec => []Title!HeadsTellTruth` (`PageTitle`) | |
| `SnapshotsOfThreads` | `ViewsProofs` | `Dump!Spec => []Dump!SnapshotsShown` (`WorkerThreadList`) | `GroupNames`: no group of threads is called like an entry of the menu |
| `RatesOfCluster` | `ViewsProofs` | `HUD!Spec => []HUD!RatesAccounted` (`ClusterHUD`) | `HUDConstants`: window and workers are numbers |
| `RatesOfQuery` | `ViewsProofs` | `Detail!Spec => []Detail!RatesAccounted` (`QueryDetail`) | `DetailConstants`: so are the bounds, time is told apart from none, `null` is no answer |
| `SeriesOfQuery` | `ViewsProofs` | `Detail!Spec => Series!Safety` (`QueryDetail` refines `RefreshLoop`) | `DetailConstants` |
| `QueriesListed` | `QueryListProofs` | `Spec => []ListCurrent` (`QueryList`) | `ListConstants`: bounds and sort keys are numbers |
| `PoolsListed` | `MemoryPoolProofs` | `StatusSpec => []ListAccountsForBar` (`WorkerStatus` over `MemoryPool`) | `TwoPools`: the pools are the general and the reserved one |

*The transport.* None of its properties is inductive. That the consumer's pages are a
prefix of the stream is preserved by a step that adds the pages of a response only if
that response carries exactly the pages that follow; that in turn depends on what every
response in flight was read from, and on how far the buffer had been acknowledged then.
`Inv` says so:

- `OneRequest`: at most one request is the client's current one, and only one
  callback runs;
- `Phases`: which phases a request of each kind can be in;
- `Destruction`: a destroyed buffer is empty and its state says why;
- `BufferHoldsRest`: the buffer of the first instance holds exactly the stream from
  `currentSequenceId` on, unless destroyed;
- `Tokens`: every token in flight lies between what the buffer has dropped and what
  the client has accepted;
- `EndOfStream`, `CompleteResults`: `noMorePages` and complete results occur only at
  the end of the stream, or after a cancellation, and what the completion check knew
  when it declared that end;
- `ResultsFromStream`: the pages of every response are the stretch of the stream its
  token names;
- `TokenCounts`: the client's token counts the pages received and those in the hands
  of its callback.

`PageTransportTypes` has the lemmas about the operators on buffers, requests and clients
and the type invariant. The preservation of `Inv` is split by who takes the step:
`PageTransportServerProofs` (reads at the worker, the producing task, other requests, lost
messages, sending and failing), `PageTransportClientProofs` (the consumer's callbacks);
`PageTransportProofs` has cancellation and restart, combines them and proves the theorems
and the refinement.

*Task execution.* The properties relate the coordinator's splits to the worker's drivers,
with repeated, late and lost updates in between; none is inductive. `IInv` adds:

- `OnlyKnownSplits`: what the worker knows of splits, or will learn from an update under
  way, the coordinator has said;
- `NothingForgotten`: what the coordinator no longer holds as pending the worker has
  acknowledged, and an update leaves no gap, also when several are under way: it repeats
  every earlier split that the worker may not have. That is why the worker may remember
  only the largest number;
- `DriversCounted`: each acknowledged split was given one driver, and the counter of
  remaining drivers is the number of those not counted down. This is an argument about
  cardinalities, from the library's facts on finite sets;
- `EndIsReal`: how far the completion check is, and what it has seen, when the buffer
  and the task are said to be at the end;
- `UpdatesHaveReasons`: each update is caused by a split, by the end of the splits or by
  a failure, which bounds their numbers.

*Memory pools.* `IInv` has three parts besides the types. `WaitersHaveFutures` is the
strengthening of `NoLostWakeup`: that nobody waits at a pool with room follows from who
waits on which future, since a future exists only while its pool is full; and a query
whose operators registered in time listens to the pool it is in, or has all of them
there. `PoolsAddUp` and `QueriesAddUp` are the sums over a pool and over a query outside
a move, and `MoveAddsUp` says what has left the source and what has arrived at the
target after each call of `moveQuery`; without it nothing connects the last call with
the first. The checks of `free` and `freeRevocable` inside a move succeed
(`ChecksSucceed`) because of the same sums. A sum is a fold over a finite set, in an
order that is not specified; that one element can be taken out of it or replaced is
proved by induction on the size of the set, in the form that no least natural number is
a counterexample.

*Query lifecycle.* That a failed query has a cause needs to know of every thread past
`failureCause.compareAndSet` that the cause is there; that a finished query has
committed needs to know where `transitionToFinishing` is when the transaction is what
it is; that a conflict is honest needs to know which causes a thread that has been
answered can have left. `CauseFirst`, `FinishInv` and `AnswerInv` state these.

*The pages.* A page knows only answers that are on their way for any time, so each of its
invariants speaks of the requests under way too:

- `HeadInv`: a state that was read, or is shown, and is an end is the query's state, and a
  failure that is shown has the query's cause. It rests on the query's own `IInv`: without
  `OneEnd` an answer could be true when made and false when shown.
- `TitleInv`: light, dialog and last outcome agree at every moment between two answers.
- `DumpInv`: what is shown is one snapshot, grouped (`PageInv`); while no two requests
  overlap, the one under way is newer than what is shown (`ForwardInv`).
- `HUDInv`: each sample is a number and follows from the totals of two successive answers,
  except after a restart between the first two, or without workers.
- `DetailInv`: there is one request or one timer (`OneLoop`); the samples and what they
  leave out add up to the rows of the last answer (`RowsInv`); some time has passed when an
  answer comes, because the timer that led to the request took some (`ClockInv`); and the
  chart drawn last is this history or the one before (`ChartInv`). That the sum of a
  history changes by the sample added and those cut off is shown by well-founded induction
  on its length. `SeriesInv` adds to it that the loop is at rest exactly when the last
  answer was final; with it each step of the page is one of `RefreshLoop` or a stutter.
- `ListInv`: every answer, and what the page keeps of one, has each query once
  (`AnswersInv`); the rows are queries of the last answer, each once, no more than the
  limit, and none is left out while there is room (`ShownInv`). The operators of the list,
  a sort and a merge of the old order with the new answer, are covered by lemmas of their
  own. The sort is a choice among the orders of a set by its keys, which may be equal for
  two queries; that there is one is shown by counting the members before each.
- `StatusInv`: the pools' information in every answer, also in one of which only the first
  pool has been read, adds up. It rests on `Sums`: a row of the list is a query of the
  pool, so the rows account for the bar.

The type invariant of the query lifecycle is proved and is in no run of its own; those of
the transport and the memory pools are conjuncts of `Inv` and `IInv`, as is
`CompletionIsReal` of `Inv`.

The proofs assume only what the modules state as assumptions: byte sizes, limits and
bounds are natural numbers, the model values that stand for `null` are none of the
others, the kinds of threads are disjoint, queries and tags are finitely many, and the
moving tag is a tag. The theorems about pages have, besides, the hypotheses of their table.

## 6. What is only model-checked

- *Liveness everywhere*, which is out of reach of the prover under fairness. The transport's
  promise to the consumer and the query page's refinement of `RefreshLoop` are proved in
  their safety parts; that they make progress is checked.
- *`GraphIsPlan` and `GrowingReadsGrowing`*: `OperatorGraph` and `Formats` are defined by
  recursion over trees and over units, which the prover cannot take.
- *`EveryTaskShown`*: the buckets of the histogram are a computation on the times of a
  sequence of tasks; the runs compare it with a reference.
- *The Tableau connector, the live plan and the stage page*, whose properties are about what
  they come to show.

## 7. Not modelled

- *Arbitrary, broadcast and spooling output buffers, their memory manager and page
  tracker; an exchange client with several sources.* They need several consumers or
  sources at once, while the transport is at the limit of TLC with one.
- *Grouped execution and lifespans, several sources of a task.* The counters of drivers
  per lifespan repeat those of the task; the model has one.
- *Status and info fetchers.* `TaskExecution` has their effect: at some time the
  coordinator learns the state of the task.
- *The generic state machine.* Its `setIf` and listeners are the steps of the others.
- *Split queue with levels, failure detector.* Decisions by measured times.
- *Schedulers, resource groups, cluster memory manager.* Policies over structures of a
  whole cluster; the models take their orders (splits, moves, kills) as coming at any
  time.
- *Local exchange, drivers, join bridges.* Inside one task.
- *Parser, analyzer, planner (but for the pipelines of a stage), operators, connectors.*
  Transformations of large data types.
- *Rest of the web UI.* The layout of rows, figures and colours of stages; the layout of
  plan graphs by dagre; the parsing of durations and sizes and the trimming of query
  text, which work on characters; task lists of earlier attempts; the entry points that
  mount the pages; the timeline, which is a script inside its own HTML page; the form that
  starts the Tableau connector, with its lists of catalogs and schemas.

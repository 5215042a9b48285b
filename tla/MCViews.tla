----------------------------- MODULE MCViews ------------------------------
(***************************************************************************)
(* What may never be shown, for TLC: how a query ends, and the pages and   *)
(* charts of the web UI as far as they are about safety.                   *)
(*                                                                         *)
(* The parts do not interact.  A behaviour is one of a single part while   *)
(* the others rest: the run explores the sum of their states and not the   *)
(* product.  Each part has constants of its own.                           *)
(***************************************************************************)
EXTENDS QueryHeader, Polling

VARIABLES
  part,  \* the part whose behaviour this is
  initialized, mounted,
  coordinator, submitted, allQueries, displayedQueries, filters, searchString, maxQueries,
  currentSortType, currentSortOrder, reorderInterval, sinceReorder, searchTimer, rebuilt,
  total, activeWorkers, restarts, lastTotal, inputRate, perWorkerCpuTimeRate,
  fresh, earlyRestart, noWorkers,
  noConnection, lightShown, info, modalShown, quiet, dialog, closed, lastFailed,
  worker, threads, selectedGroup, selectedThreadState, newest, overlap,
  reservedBytes, reservedRevocableBytes, future, queryReservations,
  queryRevocableReservations, tagged, memoryPool, waiting, blocked, late, listeners, moving,
  serverInfo,
  server, ended, query, stageRefresh, lastSnapshotStage, lastRowInput, rowInputRate,
  answered, elapsed, sparkline, justDrawn, outside, clockMoved, onAtEnd,
  inputData, tasks, final, expanded, taskFilter, throttled, histogram, bars, suppressed,
  nodes, operators, roots, pipelineOf, buildOuter,
  kind, number

pageVars == <<initialized, mounted>>
listVars == <<coordinator, submitted, allQueries, displayedQueries, filters, searchString,
              maxQueries, currentSortType, currentSortOrder, reorderInterval, sinceReorder,
              searchTimer, rebuilt>>
hudVars == <<total, activeWorkers, restarts, lastTotal, inputRate, perWorkerCpuTimeRate,
             fresh, earlyRestart, noWorkers>>
titleVars == <<noConnection, lightShown, info, modalShown, quiet, dialog, closed, lastFailed>>
threadVars == <<worker, threads, selectedGroup, selectedThreadState, newest, overlap>>
workerVars == <<reservedBytes, reservedRevocableBytes, future, queryReservations,
                queryRevocableReservations, tagged, memoryPool, waiting, blocked, late, listeners,
                moving, serverInfo>>
detailVars == <<server, ended, query, stageRefresh, lastSnapshotStage, lastRowInput,
                rowInputRate, answered, elapsed, sparkline, justDrawn, outside, clockMoved,
                onAtEnd>>
taskVars == <<inputData, tasks, final, expanded, taskFilter, throttled, histogram, bars,
              suppressed>>
graphVars == <<nodes, operators, roots, pipelineOf, buildOuter>>
formatVars == <<kind, number>>

-----------------------------------------------------------------------------
(* With the page, the query is killed or its commit fails, and it is moved *)
(* to the reserved pool only when all of its drivers are there.            *)
OnlyKilled ==
  /\ \A t \in Preempter \cup Failer \cup Canceler : pc'[t] = "idle"
  /\ stats'.reserved => stats'.totalDrivers = MaxDrivers

(* The order by memory is not the order of creation.                       *)
List == INSTANCE QueryList WITH
  MaxQueryId <- 2, ErrorTypes <- {}, Matching <- [t \in {} |-> {}],
  Memory <- <<2, 1>>, Limits <- {0, 1}, SortTypes <- {"CUMULATIVE_MEMORY"},
  Intervals <- {0, 1}, Clickable <- {"FINISHED"}

HUD == INSTANCE ClusterHUD WITH
  MAX_HISTORY <- 2, MaxTotal <- 3, Workers <- {0, 2}, Seconds <- {1, 2}, MaxRestarts <- 1

Title == INSTANCE PageTitle WITH Patience <- 3

Threads == INSTANCE WorkerThreadList WITH
  Group <- {"http", "query"}, QueryGroup <- {"query"},
  ThreadState <- {"RUNNABLE", "WAITING"}, MaxVersion <- 1, MaxRequests <- 2

(* One query with a byte of each kind, in pools of one byte.               *)
Worker == INSTANCE WorkerStatus WITH
  general <- "general", reserved <- "reserved", Pool <- {"general", "reserved"},
  Query <- {"q"}, Tag <- {"t", "move"}, MOVE_QUERY_TAG <- "move",
  maxBytes <- [p \in {"general", "reserved"} |-> 1],
  maxTotalMemory <- 1, maxRevocableMemory <- 1, NoMove <- Null

Detail == INSTANCE QueryDetail WITH MAX_HISTORY <- 1, MaxRows <- 1, MaxElapsed <- 1

(* Two tasks of which the list shows the numbers and the states.           *)
Tasks == INSTANCE StageSummary WITH
  HISTOGRAM_WIDTH <- 175, MaxTasks <- 2, TaskTime <- {0}, TaskNumber <- {0, 1}

(* Narrow enough for the number of buckets to reach its limit.             *)
Buckets == INSTANCE Histogram WITH
  HISTOGRAM_WIDTH <- 2, MaxTasks <- 6, TaskTime <- {0, 1, 3, 4}

Graph == INSTANCE OperatorGraph WITH MaxNodes <- 5

(* The numbers around the ones where a format changes: the multiples of    *)
(* the units by which another unit or precision sets in.                   *)
Window(grain, size, factors) ==
  {size * f + d * grain : f \in factors, d \in -4..4} \cap 0..2000000000

Factors == {1, 7, 10, 24, 60, 100, 500, 999, 1000, 1023, 1024}

Numbers ==
  [duration |-> Window(1, 1, Factors) \cup Window(1, 1000, {1, 10, 59, 60})
                  \cup Window(1, 60000, {1, 10, 59, 60}) \cup Window(1, 3600000, {1, 5}),
   minutes |-> Window(60000, 3600000, {1, 10, 23, 24, 25})
                 \cup Window(60000, 86400000, {1, 2, 6, 7, 8, 10, 14}),
   count |-> Window(1, 1, Factors) \cup Window(1, 1000, Factors)
               \cup Window(1, 1000000, {1, 7, 10, 20}),
   size |-> Window(1, 1, Factors) \cup Window(1, 1024, Factors)
              \cup Window(1, 1048576, {1, 7, 10, 20})]

Format == INSTANCE Formats WITH
  Numbers <- Numbers,
  Grain <- [duration |-> 1, minutes |-> 60000, count |-> 1, size |-> 1]

(* The constants of the parts are such as the theorems about them assume.  *)
ASSUME TheoremsApply ==
  /\ List!ListConstants /\ HUD!HUDConstants /\ Threads!GroupNames
  /\ Worker!TwoPools /\ Detail!DetailConstants

-----------------------------------------------------------------------------
(* Where the parts rest.                                                   *)
NoList ==
  /\ coordinator = {} /\ submitted = 0 /\ allQueries = {} /\ displayedQueries = <<>>
  /\ filters = {} /\ searchString = "" /\ maxQueries = 0 /\ currentSortType = "CREATED"
  /\ currentSortOrder = "DESCENDING" /\ reorderInterval = 0 /\ sinceReorder = 0
  /\ searchTimer = FALSE /\ rebuilt = FALSE

NoHUD ==
  /\ total = 0 /\ activeWorkers = 0 /\ restarts = 0 /\ lastTotal = -1
  /\ inputRate = <<>> /\ perWorkerCpuTimeRate = <<>> /\ fresh = TRUE
  /\ earlyRestart = FALSE /\ noWorkers = FALSE

NoTitle ==
  /\ noConnection = FALSE /\ lightShown = FALSE /\ info = FALSE /\ modalShown = FALSE
  /\ quiet = 0 /\ dialog = FALSE /\ closed = FALSE /\ lastFailed = FALSE

NoThreads ==
  /\ worker = [version |-> 0, threads |-> {}] /\ threads = Null
  /\ selectedGroup = Threads!ALL_THREADS
  /\ selectedThreadState = Threads!ALL_THREAD_STATE
  /\ newest = 0 /\ overlap = FALSE

NoWorker ==
  /\ reservedBytes = Null /\ reservedRevocableBytes = Null /\ future = Null
  /\ queryReservations = Null /\ queryRevocableReservations = Null /\ tagged = Null
  /\ memoryPool = Null /\ waiting = Null /\ blocked = Null /\ late = Null
  /\ listeners = Null /\ moving = Null /\ serverInfo = Null

NoDetail ==
  /\ server = Null /\ ended = FALSE /\ query = Null
  /\ stageRefresh = TRUE /\ lastSnapshotStage = Null /\ onAtEnd = FALSE
  /\ lastRowInput = 0 /\ rowInputRate = <<>> /\ answered = FALSE
  /\ elapsed = 0 /\ clockMoved = FALSE
  /\ sparkline = <<>> /\ justDrawn = FALSE /\ outside = 0

NoFormat == kind = "count" /\ number = 0

Pages == {"list", "hud", "title", "threads", "worker", "detail"}

ViewsInit ==
  /\ part \in Pages \cup {"query", "head", "tasks", "buckets", "graph", "format"}
  /\ HeaderInit /\ Tasks!SummaryInit /\ Graph!Init
  /\ IF part = "list" THEN List!Init ELSE NoList
  /\ IF part = "hud" THEN HUD!Init ELSE NoHUD
  /\ IF part = "title" THEN Title!Init ELSE NoTitle
  /\ IF part = "threads" THEN Threads!Init ELSE NoThreads
  /\ IF part = "worker" THEN Worker!StatusInit ELSE NoWorker
  /\ IF part = "detail" THEN Detail!Init ELSE NoDetail
  /\ IF part = "format" THEN Format!Init ELSE NoFormat
  /\ part \notin Pages => requests = {}
  /\ part \notin Pages \ {"threads"} => timers = {} /\ timeoutId = 0
  /\ part \notin {"threads", "worker", "detail"} => initialized = FALSE
  /\ part # "threads" => mounted = TRUE

(* A step of one part leaves the variables of the others alone.            *)
ViewsNext ==
  \/ /\ \/ part = "query" /\ Next /\ UNCHANGED headerVars
        \/ part = "head" /\ HeaderNext /\ OnlyKilled
     /\ UNCHANGED <<part, pollVars, pageVars, listVars, hudVars, titleVars, threadVars,
                    workerVars, detailVars, taskVars, graphVars, formatVars>>
  \/ /\ \/ /\ part = "list" /\ List!Next
           /\ UNCHANGED <<pageVars, hudVars, titleVars>>
        \/ /\ part = "hud" /\ HUD!Next
           /\ UNCHANGED <<pageVars, listVars, titleVars>>
        \/ /\ part = "title" /\ Title!Next
           /\ UNCHANGED <<pageVars, listVars, hudVars>>
     /\ UNCHANGED <<part, vars, headerVars, threadVars, workerVars, detailVars, taskVars,
                    graphVars, formatVars>>
  \/ /\ \/ /\ part = "threads" /\ Threads!Next
           /\ UNCHANGED <<timers, timeoutId, workerVars, detailVars>>
        \/ part = "worker" /\ Worker!StatusNext /\ UNCHANGED <<mounted, threadVars, detailVars>>
        \/ part = "detail" /\ Detail!Next /\ UNCHANGED <<mounted, threadVars, workerVars>>
     /\ UNCHANGED <<part, vars, headerVars, listVars, hudVars, titleVars, taskVars, graphVars,
                    formatVars>>
  \/ /\ \/ part = "tasks" /\ Tasks!SummaryNext /\ UNCHANGED <<graphVars, formatVars>>
        \/ /\ part = "buckets" /\ Buckets!HistogramNext
           /\ UNCHANGED <<tasks, final, expanded, taskFilter, throttled, histogram, bars,
                          suppressed, graphVars, formatVars>>
        \/ part = "graph" /\ Graph!Next /\ UNCHANGED <<taskVars, formatVars>>
        \/ part = "format" /\ Format!Next /\ UNCHANGED <<taskVars, graphVars>>
     /\ UNCHANGED <<part, vars, headerVars, pollVars, pageVars, listVars, hudVars, titleVars,
                    threadVars, workerVars, detailVars>>

ViewsSpec ==
  ViewsInit
    /\ [][ViewsNext]_<<part, vars, headerVars, pollVars, pageVars, listVars, hudVars, titleVars,
                       threadVars, workerVars, detailVars, taskVars, graphVars, formatVars>>

-----------------------------------------------------------------------------
(* Of the list of queries (QueryList).  There is one row for each query,   *)
(* with the data of the last answer, and a list with room shows every      *)
(* query that passes the filters and the search, if it was built since the *)
(* last keystroke (refreshLoop and the clicks of QueryList.jsx).           *)
ListCurrent == part = "list" => List!ListCurrent

(* Of the rates on the page of a query and of the cluster (QueryDetail,    *)
(* ClusterHUD).  The samples of a query and what they leave out account    *)
(* for the rows of the last answer, only the first can be a division by    *)
(* zero, and the sparkline is at most one behind, unless the clock was set *)
(* back.  A restart of the coordinator shows no negative rate but at the   *)
(* first sample; an average that is no number comes from an answer without *)
(* workers, and only an idle cluster ends it                               *)
(* (addExponentiallyWeightedToHistory).                                    *)
RatesAccounted ==
  /\ part = "detail" => Detail!RatesAccounted
  /\ part = "hud" => HUD!RatesAccounted

(* Of the title bar of the pages and of the page of a worker's threads     *)
(* (PageTitle, WorkerThreadList).  The light and the dialog of the title   *)
(* bar tell whether the server can be reached.  The threads shown are      *)
(* never older than those shown before, unless two requests were in flight *)
(* at once (captureSnapshot); every thread of a snapshot is in the list of *)
(* all threads and in that of one group; and the page is down only because *)
(* of a group that a snapshot did not have (render).                       *)
AnswersShown ==
  /\ part = "title" => Title!HeadsTellTruth
  /\ part = "threads" => Threads!SnapshotsShown

(* Of the page of a worker (WorkerStatus).  The rows of a pool's list      *)
(* account for the bytes of its bar, whatever happened while the worker    *)
(* answered (getInfo, renderPoolBar, renderPoolQueries).                   *)
ListAccountsForBar == part = "worker" => Worker!ListAccountsForBar

(* Of the tasks of a stage (StageSummary, Histogram).  Each task is listed *)
(* under exactly one of the filters, in the order of the numbers           *)
(* (TASK_FILTER, compareTaskId); after an update that drew, the charts     *)
(* show the tasks that the page has (componentDidUpdate); and each task is *)
(* counted in one bar of the histogram, whose tooltip names a range that   *)
(* its time is in (renderHistogram).                                       *)
EveryTaskShown ==
  /\ part = "tasks" => Tasks!ListedUnderOneFilter /\ Tasks!ListInOrder /\ Tasks!ChartsCurrent
  /\ part = "buckets" => Buckets!EveryTaskCounted /\ Buckets!TooltipsAreRight

(* Of the graph of a stage's operators (OperatorGraph).  Every operator is *)
(* drawn, the edges lead from each operator to the one that reads its      *)
(* rows, and the sources of a join are drawn apart                         *)
(* (computeOperatorGraphs).                                                *)
GraphIsPlan ==
  part = "graph" =>
    Graph!EveryOperatorDrawn /\ Graph!EdgesFollowPipelines /\ Graph!SourcesApart

(* Of the formats of numbers (utils.js).  A number that grows never reads  *)
(* smaller than before, whatever unit and precision it gets.               *)
GrowingReadsGrowing == Format!GrowingReadsGrowing
=============================================================================

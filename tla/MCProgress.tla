----------------------------- MODULE MCProgress -----------------------------
(***************************************************************************)
(* What must get somewhere, for TLC: the attempts to end a query, and the  *)
(* pages of the web UI that come to rest on the end of what they show; and *)
(* the memory pools of a worker.                                           *)
(*                                                                         *)
(* The parts do not interact.  A behaviour is one of a single part while   *)
(* the others rest: the run explores the sum of their states and not the   *)
(* product.  Each part has constants of its own.                           *)
(***************************************************************************)
EXTENDS MemoryPool, Polling, Sequences

CONSTANTS Null, general, reserved

(* What one query can hold: one that stays behind fills a pool by itself.  *)
Sizes == [p \in {general, reserved} |-> 3]

VARIABLES
  part,  \* the part whose behaviour this is
  queryState, failureCause, finalQueryInfo, transaction, pc, finish, answer,
  stats, fetched, shown,
  server, initialized, ended, query, mounted,
  coordinator, submitted, allQueries, displayedQueries, filters, searchString, maxQueries,
  currentSortType, currentSortOrder, reorderInterval, sinceReorder, searchTimer, rebuilt,
  stageRefresh, lastSnapshotStage, lastRowInput, rowInputRate, answered, elapsed,
  sparkline, justDrawn, outside, clockMoved, onAtEnd,
  svg, drawn,
  selectedStageId, url, chosen, quiet,
  inputData, tasks, final, expanded, taskFilter, throttled, histogram, bars, suppressed,
  client, tableau, extract, cut

lifecycleVars == <<queryState, failureCause, finalQueryInfo, transaction, pc, finish, answer>>
headerVars == <<stats, fetched, shown>>
pageVars == <<initialized, ended, query, mounted>>
listVars == <<coordinator, submitted, allQueries, displayedQueries, filters, searchString,
              maxQueries, currentSortType, currentSortOrder, reorderInterval, sinceReorder,
              searchTimer, rebuilt>>
rateVars == <<stageRefresh, lastSnapshotStage, lastRowInput, rowInputRate, answered, elapsed,
              sparkline, justDrawn, outside, clockMoved, onAtEnd>>
planVars == <<svg, drawn>>
stageVars == <<selectedStageId, url, chosen, quiet>>
taskVars == <<inputData, tasks, final, expanded, taskFilter, throttled, histogram, bars,
              suppressed>>
connectorVars == <<client, tableau, extract, cut>>

-----------------------------------------------------------------------------
(* A kill and a cancellation.  The statistics of the query are left alone, *)
(* what counts is whether the page shows that it has ended.                *)
Header == INSTANCE QueryHeader WITH
  Killer <- {"kill"}, Preempter <- {}, Failer <- {}, Canceler <- {"cancel"},
  Commit <- "commit", MaxDrivers <- 0

(* "x" is a word that the text of the query does not have.                 *)
Search == INSTANCE QueryList WITH
  MaxQueryId <- 1, ErrorTypes <- {}, Matching <- [t \in {"x"} |-> {}],
  Memory <- <<1>>, Limits <- {1}, SortTypes <- {}, Intervals <- {0, 2}, Clickable <- {}

Detail == INSTANCE QueryDetail WITH MAX_HISTORY <- 1, MaxRows <- 0, MaxElapsed <- 0

Plan == INSTANCE LivePlan WITH Stage <- {0, 1}

(* Stage 7 is one that the query does not have.                            *)
StagePage == INSTANCE StageDetail WITH Stage <- {0, 1, 2}, UrlStage <- {0, 1, 7}

Charts == INSTANCE StageSummary WITH
  HISTOGRAM_WIDTH <- 175, MaxTasks <- 2, TaskTime <- {0, 1}, TaskNumber <- {0}

Connector == INSTANCE TableauConnector WITH MaxPages <- 8

-----------------------------------------------------------------------------
(* Where the parts rest.                                                   *)
NoList ==
  /\ coordinator = {} /\ submitted = 0 /\ allQueries = {} /\ displayedQueries = <<>>
  /\ filters = {} /\ searchString = "" /\ maxQueries = 0 /\ currentSortType = "CREATED"
  /\ currentSortOrder = "DESCENDING" /\ reorderInterval = 0 /\ sinceReorder = 0
  /\ searchTimer = FALSE /\ rebuilt = FALSE

NoDetail ==
  /\ stageRefresh = TRUE /\ lastSnapshotStage = Null /\ onAtEnd = FALSE
  /\ lastRowInput = 0 /\ rowInputRate = <<>> /\ answered = FALSE
  /\ elapsed = 0 /\ clockMoved = FALSE
  /\ sparkline = <<>> /\ justDrawn = FALSE /\ outside = 0

NoPlan == svg = Null /\ drawn = Null

NoStage == selectedStageId = Null /\ url = 0 /\ chosen = Null /\ quiet = FALSE

NoConnector == client = Null /\ tableau = Null /\ extract = Null /\ cut = FALSE

QueryPages == {"detail", "plan", "stage"}
Pages == QueryPages \cup {"search"}

ProgressInit ==
  /\ part \in Pages \cup {"pools", "head", "charts", "connector"}
  /\ Init /\ (part = "pools" \/ memoryPool = [q \in Query |-> general])
  /\ Header!HeaderInit /\ Charts!SummaryInit
  /\ IF part = "search" THEN Search!Init ELSE NoList
  /\ IF part = "detail" THEN Detail!Init ELSE NoDetail
  /\ IF part = "plan" THEN Plan!Init ELSE NoPlan
  /\ IF part = "stage" THEN StagePage!Init ELSE NoStage
  /\ IF part = "connector" THEN Connector!Init ELSE NoConnector
  /\ part \notin Pages => timers = {} /\ timeoutId = 0 /\ requests = {}
  /\ part \notin QueryPages =>
       server = [final |-> FALSE] /\ initialized = FALSE /\ ended = FALSE
  /\ part \notin QueryPages \cup {"connector"} => query = Null
  /\ part # "plan" => mounted = TRUE

(* A step of one part leaves the variables of the others alone.            *)
ProgressNext ==
  \/ /\ \/ part = "pools" /\ Next /\ UNCHANGED <<lifecycleVars, headerVars>>
        \/ part = "head" /\ Header!HeaderNext /\ UNCHANGED <<stats, vars>>
     /\ UNCHANGED <<part, pollVars, server, pageVars, listVars, rateVars, planVars, stageVars,
                    taskVars, connectorVars>>
  \/ /\ \/ /\ part = "search" /\ Search!Next
           /\ UNCHANGED <<server, pageVars, rateVars, planVars, stageVars>>
        \/ /\ part = "detail" /\ Detail!Next
           /\ UNCHANGED <<mounted, listVars, planVars, stageVars>>
        \/ part = "plan" /\ Plan!Next /\ UNCHANGED <<listVars, rateVars, stageVars>>
        \/ /\ part = "stage" /\ StagePage!Next
           /\ UNCHANGED <<mounted, listVars, rateVars, planVars>>
     /\ UNCHANGED <<part, vars, lifecycleVars, headerVars, taskVars, connectorVars>>
  \/ /\ \/ part = "charts" /\ Charts!SummaryNext /\ UNCHANGED <<query, connectorVars>>
        \/ part = "connector" /\ Connector!Next /\ UNCHANGED taskVars
     /\ UNCHANGED <<part, vars, lifecycleVars, headerVars, pollVars, server, initialized, ended,
                    mounted, listVars, rateVars, planVars, stageVars>>

allVars == <<part, vars, lifecycleVars, headerVars, pollVars, server, pageVars, listVars,
             rateVars, planVars, stageVars, taskVars, connectorVars>>

(* The fairness of the parts.  As a behaviour is one of a single part, the *)
(* fairness of a disjunction over the parts is that of each.  The threads  *)
(* that have begun to end a query go on; the browser runs the handlers and *)
(* timers that are due, also on Tableau's side; of requests that are       *)
(* repeated for ever, not all are lost, nor are they all answered with     *)
(* nothing yet.                                                            *)
Handlers ==
  \/ part = "search" /\ Search!Handlers
  \/ part = "detail" /\ Detail!Handlers
  \/ part = "plan" /\ Plan!Handlers
  \/ part = "stage" /\ StagePage!Handlers

Timers ==
  \/ part = "search" /\ Search!Refreshes
  \/ part = "detail" /\ Detail!Refreshes
  \/ part = "plan" /\ Plan!Refreshes
  \/ part = "stage" /\ StagePage!Refreshes

Answers ==
  \/ /\ \/ part = "search" /\ Search!Answers
        \/ part = "detail" /\ Detail!Answers
        \/ part = "plan" /\ Plan!Answers
        \/ part = "stage" /\ StagePage!Answers
     /\ UNCHANGED connectorVars
  \/ /\ part = "connector"
     /\ \E a \in Connector!Answers :
          (a[1].data # 0 \/ ~a[1].next) /\ Connector!Answer(a)
     /\ UNCHANGED pollVars

Arrivals ==
  \/ part = "search" /\ \E r \in requests : Search!HandleQueries(r)
  \/ part = "detail" /\ \E r \in requests : Detail!HandleQuery(r)
  \/ part = "plan" /\ \E r \in requests : Plan!HandleQuery(r)
  \/ part = "stage" /\ \E r \in requests : StagePage!HandleQuery(r)

ProgressFairness ==
  /\ Header!Fairness
  /\ WF_pollVars(Handlers) /\ WF_pollVars(Timers)
  /\ SF_<<pollVars, connectorVars>>(Answers) /\ SF_pollVars(Arrivals)
  /\ WF_fetched(part = "head" /\ Header!Refresh)
  /\ WF_taskVars(part = "charts" /\ Charts!SecondPasses)
  /\ WF_taskVars(part = "charts" /\ Charts!Refresh)
  /\ WF_connectorVars(part = "connector" /\ Connector!getColumnHeaders)
  /\ WF_connectorVars(part = "connector" /\ Connector!getTableData)
  /\ WF_connectorVars(part = "connector" /\ \E a \in Connector!Answers : Connector!Answer(a))

ProgressSpec == ProgressInit /\ [][ProgressNext]_allVars /\ ProgressFairness

-----------------------------------------------------------------------------
(* Of the head of a query's pages (QueryHeader).  Whoever tries to kill or *)
(* to cancel a query sees it end on the page, also when it is committing   *)
(* and when the commit fails (failQuery, transitionToFinishing and the     *)
(* refresh of the page).                                                   *)
EndShown == part = "head" => Header!EndShown

(* Of the list of queries (QueryList).  While reordering is on and the     *)
(* user changes nothing, the list becomes what the settings ask for, even  *)
(* if a refresh dropped a pending search (refreshLoop clears               *)
(* searchTimeoutId).                                                       *)
SettingsTakeEffect == part = "search" => Search!SettingsTakeEffect

(* Of the pages of a query (QueryDetail, LivePlan, StageDetail).  Each     *)
(* comes to rest on the final information of the query: the page of the    *)
(* query with its stages, if Auto-Refresh was on when it came; the live    *)
(* plan with the plan drawn from it, if it has a canvas; the page of a     *)
(* stage with the graph of a stage that the query has, which is the one    *)
(* selected last while no request was in flight (refreshLoop of the three, *)
(* componentDidUpdate).                                                    *)
FinalInformationShown ==
  /\ part = "detail" => Detail!FinalQueryShown
  /\ part = "plan" => Plan!FinalPlanDrawn
  /\ part = "stage" => (server.final ~> [](part = "stage" /\ StagePage!AtRest))

(* Of the charts of a stage's tasks (StageSummary).  An expanded stage     *)
(* gets its bar charts as long as the page refreshes, also if it was       *)
(* expanded within a second of a drawing (lastRender).                     *)
BarsAppear == part = "charts" => Charts!BarsAppear

(* Of the Tableau connector (TableauConnector).  Tableau gets the pages    *)
(* the server served, each once and in order (pushDataToTableau), is told  *)
(* that the extract is complete only when the query has finished, or has   *)
(* failed in the answer with the last page, and all pages were handed over *)
(* (advance, getTableData, getNextResult), and, while nothing is cut       *)
(* short, gets the whole result or is told of the error (getColumnHeaders, *)
(* advance).                                                               *)
ExtractIsWhole ==
  /\ [](part = "connector" => Connector!PagesOnceInOrder /\ Connector!DoneMeansWhole)
  /\ part = "connector" => Connector!AnsweredUnlessCut

(* A page that has neither a request nor a timer, and no final answer,     *)
(* waits for a refresh that does not come.                                 *)
PageLoop == IF Loop = "stopped" /\ ~ended THEN "waiting" ELSE Loop

Series == INSTANCE RefreshLoop WITH
  loop <- IF part \in QueryPages THEN PageLoop ELSE "requesting"

(* The pages of a query keep one series of requests until an answer was    *)
(* final: no failure, lost answer or click starts a second one, leaves a   *)
(* request behind or ends the series early (resetTimer, refreshLoop).      *)
RefreshesUntilFinal ==
  /\ Series!Safety
  /\ part \in QueryPages => Series!Liveness
=============================================================================

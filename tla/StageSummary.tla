---------------------------- MODULE StageSummary ----------------------------
(***************************************************************************)
(* The summary of a stage on a query's page (StageSummary and TaskList of  *)
(* QueryDetail.jsx): a row with two histograms which expands to bar charts *)
(* and a list of the stage's tasks.  The charts are drawn after an update  *)
(* of the component, but not twice within a second.                        *)
(*                                                                         *)
(* A task id is the sequence of its four parts, as TaskId.java prints      *)
(* them: query, stage, stage execution, task.  The coordinator lists the   *)
(* tasks in the order of a ConcurrentHashMap, that is, in any.             *)
(***************************************************************************)
EXTENDS Histogram, SequencesExt

CONSTANTS TaskNumber, Null

VARIABLES
  tasks,                             \* this.props.stage: the tasks listed
  final,                             \* whether the page stopped refreshing
  expanded, taskFilter,              \* this.state
  throttled,                         \* whether lastRender is less than 1000 ms ago
  histogram, bars,                   \* what the charts show, Null before it
  suppressed                         \* whether the last update drew nothing

summaryVars == <<tasks, final, expanded, taskFilter, throttled, histogram, bars, suppressed>>

TaskState == {"PLANNED", "RUNNING", "FINISHED", "CANCELED", "ABORTED", "FAILED"}

TaskId(number) == <<0, 1, 0, number>>

Filters == {"PLANNED", "RUNNING", "FINISHED", "FAILED"}

-----------------------------------------------------------------------------
(* utils.js and TaskList *)

getTaskIdSuffix(taskId) == Tail(taskId)

(* parseInt of what follows the second dot reads up to the third.          *)
getTaskNumber(taskId) == Head(getTaskIdSuffix(getTaskIdSuffix(taskId)))

removeQueryId(taskId) == Tail(taskId)

(* 1, 0 or -1; the first part that differs decides.                        *)
compareTaskId(a, b) ==
  LET partsA == removeQueryId(a)
      partsB == removeQueryId(b)
      differ == {i \in 1..Len(partsA) : partsA[i] # partsB[i]}
  IN CASE Len(partsA) > Len(partsB) -> 1
       [] differ = {} -> 0
       [] OTHER -> IF partsA[Min(differ)] > partsB[Min(differ)] THEN 1 ELSE -1

(* TASK_FILTER                                                             *)
predicate(filter, state) ==
  CASE filter = "ALL" -> TRUE
    [] filter = "FAILED" -> state \in {"FAILED", "ABORTED", "CANCELED"}
    [] OTHER -> state = filter

(* renderTaskList, and the rows in the order TaskList sorts them by.       *)
renderTaskList(filter) ==
  IF expanded
  THEN SortSeq(SelectSeq(tasks, LAMBDA task : predicate(filter, task.state)),
               LAMBDA a, b : compareTaskId(a.taskId, b.taskId) < 0)
  ELSE <<>>

-----------------------------------------------------------------------------
Times(list) == [i \in 1..Len(list) |-> list[i].time]

(* The sort of the x-axis, in place.                                       *)
SortAxis(list) == SortSeq(list, LAMBDA a, b : getTaskNumber(a.taskId) < getTaskNumber(b.taskId))

(* The bar charts: bar i has the tooltip "stage.i".                        *)
Bars(list) == [i \in 1..Len(list) |-> [task |-> list[i].taskId, time |-> list[i].time, label |-> i - 1]]

(* Mutant: the charts are drawn once.                                      *)
DidUpdateOnce(list, isExpanded) ==
  /\ tasks' = SortAxis(list)
  /\ suppressed' = (histogram # Null)
  /\ IF histogram # Null
     THEN UNCHANGED <<histogram, bars, throttled>>
     ELSE /\ histogram' = renderHistogram(Times(tasks'))
          /\ bars' = IF isExpanded THEN Bars(tasks') ELSE bars
          /\ throttled' = TRUE

(* componentDidUpdate.  Its setState updates the component once more,      *)
(* which draws nothing.                                                    *)
componentDidUpdate(list, isExpanded) ==
  /\ tasks' = SortAxis(list)
  /\ suppressed' = throttled
  /\ IF throttled
     THEN UNCHANGED <<histogram, bars, throttled>>
     ELSE /\ histogram' = renderHistogram(Times(tasks'))
          /\ bars' = IF isExpanded THEN Bars(tasks') ELSE bars
          /\ throttled' = TRUE

SummaryInit ==
  /\ inputData = <<>>
  /\ tasks = <<>> /\ final = FALSE
  /\ expanded = FALSE /\ taskFilter = "ALL" /\ throttled = FALSE
  /\ histogram = Null /\ bars = Null /\ suppressed = TRUE

(* A refresh of the page brings the tasks as they are now: more of them,   *)
(* further on, in any order.                                               *)
NewTask(number) == [taskId |-> TaskId(number), state |-> "PLANNED", time |-> 0]

GoesOn(old, new) ==
  /\ new.taskId = old.taskId /\ new.time >= old.time
  /\ old.state \notin {"PLANNED", "RUNNING"} => new = old
  /\ old.state = "RUNNING" => new.state # "PLANNED"

Known(number) == \E i \in 1..Len(tasks) : tasks[i].taskId = TaskId(number)

Listed(number) == CHOOSE task \in Range(tasks) : task.taskId = TaskId(number)

RefreshWith(isFinal) ==
  /\ ~final /\ final' = isFinal
  /\ \E present \in SUBSET TaskNumber :
       /\ \A number \in TaskNumber : Known(number) => number \in present
       /\ \E now \in [present -> [state : TaskState, time : TaskTime]] :
            LET At(number) == [taskId |-> TaskId(number), state |-> now[number].state,
                               time |-> now[number].time]
            IN /\ \A number \in present :
                    GoesOn(IF Known(number) THEN Listed(number) ELSE NewTask(number), At(number))
               /\ \E order \in SetToSeqs(present) :
                    componentDidUpdate([i \in 1..Len(order) |-> At(order[i])], expanded)
  /\ UNCHANGED <<inputData, expanded, taskFilter>>

Refresh == RefreshWith(FALSE)

LastRefresh == RefreshWith(TRUE)

toggleExpanded ==
  /\ expanded' = ~expanded
  /\ componentDidUpdate(tasks, expanded')
  /\ UNCHANGED <<inputData, final, taskFilter>>

handleTaskFilterClick ==
  /\ expanded
  /\ taskFilter' \in Filters \cup {"ALL"}
  /\ componentDidUpdate(tasks, expanded)
  /\ UNCHANGED <<inputData, final, expanded>>

(* A second has passed since lastRender.                                   *)
SecondPasses ==
  /\ throttled /\ throttled' = FALSE
  /\ UNCHANGED <<inputData, tasks, final, expanded, taskFilter, histogram, bars, suppressed>>

SummaryNext == Refresh \/ LastRefresh \/ toggleExpanded \/ handleTaskFilterClick \/ SecondPasses

allVars == <<inputData, summaryVars>>

(* Time passes and the page goes on refreshing.                            *)
SummarySpec ==
  /\ SummaryInit /\ [][SummaryNext]_allVars
  /\ WF_allVars(SecondPasses) /\ WF_allVars(Refresh)

-----------------------------------------------------------------------------
(* After an update that drew, the charts show the tasks that the page has: *)
(* the histogram all of them, and the bar charts of an expanded stage      *)
(* (componentDidUpdate reads the props and the state of the update).       *)
ChartsCurrent ==
  ~suppressed =>
    /\ histogram = renderHistogram(Times(tasks))
    /\ expanded => bars = Bars(tasks)

(* Whatever the user clicks on, an expanded stage gets its bar charts as   *)
(* long as the page refreshes, also when the update that expanded it came  *)
(* within a second of a drawing (lastRender).                              *)
BarsAppear == expanded ~> (bars # Null \/ ~expanded \/ final)

(* The list shows every task of an expanded stage under exactly one of the *)
(* filters (TASK_FILTER).                                                  *)
ListedUnderOneFilter ==
  expanded =>
    \A task \in Range(tasks) :
      Cardinality({f \in Filters : task \in Range(renderTaskList(f))}) = 1

(* The list is in the order of the task numbers, whatever the order of the *)
(* answer (compareTaskId).                                                 *)
ListInOrder ==
  LET rows == renderTaskList(taskFilter)
  IN \A i, j \in 1..Len(rows) : i < j => Last(rows[i].taskId) < Last(rows[j].taskId)

=============================================================================

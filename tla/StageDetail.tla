---------------------------- MODULE StageDetail ----------------------------
(***************************************************************************)
(* The page of one stage of a query (stage.html, StageDetail.jsx): it      *)
(* polls the query every second, shows the stage that the URL names or the *)
(* one selected in the drop-down, and shows the graph of the stage's       *)
(* operators once the query has ended.                                     *)
(*                                                                         *)
(* A request carries the selection that refreshLoop read before sending    *)
(* it, because the handler's closure does.                                 *)
(***************************************************************************)
EXTENDS QueryPolling

CONSTANT UrlStage  \* the stage numbers a URL of the page may name

VARIABLES
  initialized, ended, selectedStageId, query,   \* this.state
  url,      \* the stage the page's URL names, 0 when it names none
  chosen,   \* the user's last selection in the drop-down, Null before it
  quiet     \* whether no request was in flight when it was made

pageVars == <<initialized, ended, selectedStageId, query>>
userVars == <<url, chosen, quiet>>
vars == <<pollVars, server, pageVars, userVars>>

(* The request of refreshLoop: the stage selected, or the one of the URL.  *)
NewQuery(selected) ==
  [id |-> NewRequest, stage |-> IF selected = Null THEN url ELSE selected,
   phase |-> "sent", query |-> Null]

Init ==
  /\ url \in UrlStage
  /\ PollInit([id |-> 1, stage |-> url, phase |-> "sent", query |-> Null])
  /\ ServerInit
  /\ initialized = FALSE /\ ended = FALSE
  /\ selectedStageId = Null /\ query = Null
  /\ chosen = Null /\ quiet = FALSE

refreshLoop(i) ==
  /\ SendRequest(i, NewQuery(selectedStageId))
  /\ UNCHANGED <<server, pageVars, userVars>>

(* Mutant: the loop stops when the query has ended, before its information *)
(* is final.                                                               *)
StopWhenEnded == query' = Null \/ ~isQueryEnded(query')

(* stop refreshing when the query finishes or fails                        *)
GoOn == query' = Null \/ ~ended'

HandleQuery(r) ==
  /\ r.phase = "answered"
  /\ requests' = requests \ {r}
  /\ initialized' = TRUE
  /\ ended' = r.query.final
  /\ selectedStageId' = r.stage
  /\ query' = r.query
  /\ ResetTimer(GoOn)
  /\ UNCHANGED <<server, userVars>>

HandleError(r) ==
  /\ r.phase = "failed"
  /\ requests' = requests \ {r}
  /\ initialized' = TRUE
  /\ UNCHANGED <<ended, selectedStageId, query>>
  /\ ResetTimer(GoOn)
  /\ UNCHANGED <<server, userVars>>

(* What render shows.                                                      *)
View ==
  CASE query = Null -> IF initialized THEN "Query not found" ELSE "Loading"
    [] query # Null /\ query.stages = {} -> "Query does not have an output stage"
    [] query # Null /\ query.stages # {} /\ selectedStageId \notin query.stages ->
         "Stage not found"
    [] OTHER -> IF isQueryEnded(query) THEN "operator graph" ELSE "graph will appear"

(* A click in the drop-down, which lists every stage of the query shown.   *)
SelectStage(s) ==
  /\ View \in {"operator graph", "graph will appear"}
  /\ s \in query.stages
  /\ selectedStageId' = s
  /\ chosen' = s
  /\ quiet' = (requests = {})
  /\ UNCHANGED <<pollVars, server, initialized, ended, query, url>>

Answers == \E r \in requests : Answer(r) /\ UNCHANGED <<pageVars, userVars>>

Failures == \E r \in requests : Fail(r) /\ UNCHANGED <<pageVars, userVars>>

Environment == ServerNext /\ UNCHANGED <<pollVars, pageVars, userVars>>

Handlers == \E r \in requests : HandleQuery(r) \/ HandleError(r)

Refreshes == \E i \in timers : refreshLoop(i)

(* Once the loop has stopped and the query cannot change the page rests.   *)
Next ==
  \/ Environment \/ Answers \/ Failures \/ Handlers \/ Refreshes
  \/ \E s \in Stage : SelectStage(s)

(* The browser runs the handlers and timers that are due; of requests that *)
(* are repeated for ever, not all are lost.                                *)
Fairness ==
  /\ WF_vars(Handlers) /\ WF_vars(Refreshes)
  /\ SF_vars(Answers) /\ SF_vars(\E r \in requests : HandleQuery(r))

Spec == Init /\ [][Next]_vars /\ Fairness

-----------------------------------------------------------------------------
(* A stage selected while no request is in flight stays selected until the *)
(* user selects another one: no later answer puts an older selection back. *)
SelectionKept == quiet => selectedStageId = chosen

(* The page shows the final information, and the graph of a selected stage *)
(* that the query has.                                                     *)
Rests ==
  /\ query = server
  /\ View = IF query.stages = {} THEN "Query does not have an output stage"
            ELSE IF selectedStageId \in query.stages THEN "operator graph"
            ELSE "Stage not found"

(* It shows it for good: nothing is under way any more.                    *)
AtRest == Rests /\ SelectionKept /\ requests = {} /\ timers = {}

=============================================================================

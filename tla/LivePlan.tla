------------------------------ MODULE LivePlan ------------------------------
(***************************************************************************)
(* The live plan of a query (plan.html and embedded_plan.html,             *)
(* LivePlan.jsx): it polls the query every second and draws its stages     *)
(* with d3 each time React has updated the component.                      *)
(*                                                                         *)
(* React and d3 are the environment.  React 16 runs setState of a promise  *)
(* handler, with the render and componentDidUpdate it causes, before       *)
(* setState returns; an error in componentDidUpdate unmounts the page and  *)
(* is thrown again by setState; setState of an unmounted component does    *)
(* nothing.  A d3 selection of an element that is not there is empty, and  *)
(* drawing on it shows nothing.                                            *)
(***************************************************************************)
EXTENDS QueryPolling

VARIABLES
  initialized, ended, query,  \* this.state: BOOLEAN, BOOLEAN, a QueryInfo or Null
  svg,      \* this.state.svg: Null, "canvas", or "nothing" for a selection
            \* made while the page had no canvas
  mounted,  \* whether React still shows the component
  drawn     \* the QueryInfo of the plan on the canvas

pageVars == <<initialized, ended, query, svg, mounted, drawn>>
vars == <<pollVars, server, pageVars>>

Init ==
  /\ PollInit([id |-> 1, phase |-> "sent", query |-> Null])
  /\ ServerInit \/ server = [state |-> "RUNNING", final |-> FALSE, stages |-> Stage]
  /\ initialized = FALSE /\ ended = FALSE /\ query = Null
  /\ svg = Null /\ mounted = TRUE /\ drawn = Null

refreshLoop(i) ==
  /\ SendRequest(i, [id |-> NewRequest, phase |-> "sent", query |-> Null])
  /\ UNCHANGED <<server, pageVars>>

(* Mutant: the loop stops when the query has ended, before its information *)
(* is final.                                                               *)
StopWhenEnded == query' = Null \/ ~isQueryEnded(query')

(* stop refreshing when the query finishes or fails                        *)
GoOn == query' = Null \/ ~ended'

(* initializeSvg: the page has a canvas once it shows a query.             *)
Canvas == IF query' = Null THEN "nothing" ELSE "canvas"

(* componentDidUpdate.  updateD3Graph first sets svg, which updates the    *)
(* component again; then it flattens the stages under the output stage,    *)
(* which is an error for a query that has none, and draws them.            *)
updateD3Graph ==
  /\ svg' = IF svg = Null THEN Canvas ELSE svg
  /\ mounted' = (query' # Null => query'.stages # {})
  /\ drawn' = IF query' # Null /\ mounted' /\ svg' = "canvas" THEN query' ELSE drawn

(* setState with the render and the update it causes.                      *)
SetState(q, end) ==
  \/ /\ mounted
     /\ query' = q /\ ended' = end /\ initialized' = TRUE
     /\ updateD3Graph
  \/ /\ ~mounted
     /\ UNCHANGED pageVars

(* The handler of an answer.  When the update fails, the catch handler     *)
(* runs in its place, finds the component unmounted and resets the timer   *)
(* just the same.                                                          *)
HandleQuery(r) ==
  /\ r.phase = "answered"
  /\ requests' = requests \ {r}
  /\ SetState(r.query, r.query.final)
  /\ ResetTimer(GoOn)
  /\ UNCHANGED server

HandleError(r) ==
  /\ r.phase = "failed"
  /\ requests' = requests \ {r}
  /\ SetState(query, ended)
  /\ ResetTimer(GoOn)
  /\ UNCHANGED server

Answers == \E r \in requests : Answer(r) /\ UNCHANGED pageVars

Failures == \E r \in requests : Fail(r) /\ UNCHANGED pageVars

Environment == ServerNext /\ UNCHANGED <<pollVars, pageVars>>

Handlers == \E r \in requests : HandleQuery(r) \/ HandleError(r)

Refreshes == \E i \in timers : refreshLoop(i)

Next == Environment \/ Answers \/ Failures \/ Handlers \/ Refreshes

(* The browser runs the handlers and timers that are due; of requests that *)
(* are repeated for ever, not all are lost.                                *)
Fairness ==
  /\ WF_vars(Handlers) /\ WF_vars(Refreshes)
  /\ SF_vars(Answers) /\ SF_vars(\E r \in requests : HandleQuery(r))

Spec == Init /\ [][Next]_vars /\ Fairness

-----------------------------------------------------------------------------
(* A page whose first request was answered, with a planned query, keeps    *)
(* drawing until it rests with the plan drawn from the query's final       *)
(* information: an update that fails, or that the loop stops before, would *)
(* leave an older plan on the canvas.                                      *)
FinalPlanDrawn ==
  server.final /\ mounted /\ svg = "canvas"
    ~> [](mounted /\ drawn = server /\ requests = {} /\ timers = {})

=============================================================================

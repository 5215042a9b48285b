---------------------------- MODULE QueryDetail ----------------------------
(***************************************************************************)
(* The page of one query (query.html, QueryDetail.jsx): it polls the query *)
(* every three seconds, keeps the history of its rates for the sparklines, *)
(* and shows the stages of the last answer or, with Auto-Refresh off, of   *)
(* an older one.                                                           *)
(*                                                                         *)
(* The four rates are computed alike; the model has the one of the input   *)
(* rows, as the rows and the seconds it is the quotient of.  Time is       *)
(* counted in ticks of at least one second, from the last answer or, while *)
(* there is none, from the creation of the query.                          *)
(***************************************************************************)
EXTENDS Polling, Integers, Sequences

CONSTANTS
  Null,
  MAX_HISTORY,  \* of utils.js
  MaxRows,      \* the rows the query reads at most
  MaxElapsed    \* the ticks that are told apart

(* What the bounds must be for the page to work as described, and that no  *)
(* answer is null.                                                         *)
DetailConstants ==
  /\ MAX_HISTORY \in Nat /\ MaxElapsed \in Nat \ {0}
  /\ Null \notin [state : {"QUEUED", "RUNNING", "FINISHED", "FAILED"},
                  final : BOOLEAN, rows : Int]

VARIABLES
  server,       \* the QueryInfo the coordinator would answer with now
  initialized, ended, query, stageRefresh,   \* this.state
  lastSnapshotStage,  \* the answer whose stages are shown
  lastRowInput,
  rowInputRate,       \* the samples [rows, secs]
  answered,     \* whether lastRefresh is not null
  elapsed,      \* the ticks since lastRefresh
  sparkline,    \* the samples the chart was drawn with
  justDrawn,    \* whether lastRender is less than a second ago
  outside,      \* the rows of lastRowInput that no sample of the history has
  clockMoved,   \* whether the clock of the browser was ever set back
  onAtEnd       \* whether stageRefresh was on when the final answer came

clockVars == <<elapsed, clockMoved>>
chartVars == <<lastRowInput, rowInputRate, answered, sparkline, justDrawn, outside>>
stageVars == <<stageRefresh, lastSnapshotStage, onAtEnd>>
pageVars == <<initialized, ended, query>>
vars == <<pollVars, server, clockVars, chartVars, stageVars, pageVars>>

QueryInfo == [state : {"QUEUED", "RUNNING", "FINISHED", "FAILED"},
              final : BOOLEAN, rows : 0..MaxRows]

NewQuery == [id |-> NewRequest, phase |-> "sent", query |-> Null]

Init ==
  /\ PollInit([id |-> 1, phase |-> "sent", query |-> Null])
  /\ server \in {q \in QueryInfo :
       /\ q.state \in {"QUEUED", "RUNNING"}
       /\ ~q.final
       /\ q.state = "QUEUED" => q.rows = 0}
  /\ initialized = FALSE /\ ended = FALSE /\ query = Null
  /\ stageRefresh = TRUE /\ lastSnapshotStage = Null /\ onAtEnd = FALSE
  /\ lastRowInput = 0 /\ rowInputRate = <<>> /\ answered = FALSE
  /\ elapsed \in 0..MaxElapsed /\ clockMoved = FALSE
  /\ sparkline = <<>> /\ justDrawn = FALSE /\ outside = 0

-----------------------------------------------------------------------------
(* The coordinator's query, the network and the clock.                     *)
isQueryEnded(q) == q.state \in {"FINISHED", "FAILED"}

ServerNext ==
  \/ server.state = "QUEUED" /\ server' = [server EXCEPT !.state = "RUNNING"]
  \/ /\ server.state = "RUNNING" /\ server.rows < MaxRows
     /\ server' = [server EXCEPT !.rows = @ + 1]
  \/ server.state = "RUNNING" /\ server' = [server EXCEPT !.state = "FINISHED"]
  \/ ~isQueryEnded(server) /\ server' = [server EXCEPT !.state = "FAILED"]
  \/ isQueryEnded(server) /\ ~server.final /\ server' = [server EXCEPT !.final = TRUE]

Environment == ServerNext /\ UNCHANGED <<pollVars, clockVars, chartVars, stageVars, pageVars>>

Answers == \E r \in requests :
  /\ r.phase = "sent"
  /\ requests' = (requests \ {r}) \cup {[r EXCEPT !.phase = "answered", !.query = server]}
  /\ UNCHANGED <<timers, timeoutId, server, clockVars, chartVars, stageVars, pageVars>>

Failures == \E r \in requests :
  /\ r.phase # "failed"
  /\ requests' = (requests \ {r}) \cup {[r EXCEPT !.phase = "failed", !.query = Null]}
  /\ UNCHANGED <<timers, timeoutId, server, clockVars, chartVars, stageVars, pageVars>>

Later(t) == IF t < MaxElapsed THEN t + 1 ELSE t

(* A chart that was drawn before the clock was set back may stay newer     *)
(* than the clock for any time.                                            *)
Aged(drawn) == IF clockMoved THEN {drawn, FALSE} ELSE {FALSE}

Tick ==
  /\ elapsed' = Later(elapsed)
  /\ justDrawn' \in Aged(justDrawn)
  /\ UNCHANGED <<pollVars, server, clockMoved, lastRowInput, rowInputRate, answered,
                 sparkline, outside, stageVars, pageVars>>

(* The clock of the browser's machine is set back, before the last answer. *)
SetClockBack ==
  /\ ~clockMoved
  /\ clockMoved' = TRUE
  /\ elapsed' = -1
  /\ justDrawn' = initialized
  /\ UNCHANGED <<pollVars, server, lastRowInput, rowInputRate, answered, sparkline, outside,
                 stageVars, pageVars>>

-----------------------------------------------------------------------------
(* The timer, which waits for three seconds, fires.                        *)
refreshLoop(i) ==
  /\ SendRequest(i, NewQuery)
  /\ elapsed' = Later(elapsed)
  /\ justDrawn' \in Aged(justDrawn)
  /\ UNCHANGED <<server, clockMoved, lastRowInput, rowInputRate, answered, sparkline,
                 outside, stageVars, pageVars>>

(* Mutant: the loop stops when the query has ended, before its information *)
(* is final.                                                               *)
StopWhenEnded == query' = Null \/ ~isQueryEnded(query')

(* stop refreshing when the query finishes or fails                        *)
GoOn == query' = Null \/ ~ended'

(* The rows of the samples of a history.                                   *)
Rows(history) == LET sum[i \in 0..Len(history)] ==
                       IF i = 0 THEN 0 ELSE sum[i - 1] + history[i].rows
                 IN  sum[Len(history)]

addToHistory(value, history) ==
  LET n == Len(history)
      cut == IF n > MAX_HISTORY THEN n - MAX_HISTORY ELSE 0
  IN  IF n = 0 THEN <<value>> ELSE SubSeq(Append(history, value), cut + 1, n + 1)

(* Mutant: nothing is kept of an answer that gives no sample.              *)
MeasureSamplesOnly(q) ==
  LET first  == ~answered
      sample == [rows |-> q.rows - lastRowInput, secs |-> elapsed]
  IN  IF ended \/ (first /\ q.state = "RUNNING") \/ elapsed < 0
      THEN UNCHANGED <<rowInputRate, outside, lastRowInput>>
      ELSE /\ rowInputRate' = addToHistory(sample, rowInputRate)
           /\ lastRowInput' = q.rows
           /\ outside' = outside + Rows(rowInputRate) + sample.rows - Rows(rowInputRate')

(* An answer's contribution to the rates: don't show sparklines if we've   *)
(* already decided not to update or if we don't have one previous          *)
(* measurement.                                                            *)
Measure(q) ==
  LET first  == ~answered
      sample == [rows |-> q.rows - lastRowInput, secs |-> elapsed]
  IN  /\ lastRowInput' = q.rows
      /\ IF ended \/ (first /\ q.state = "RUNNING") \/ elapsed < 0
         THEN UNCHANGED rowInputRate /\ outside' = outside + sample.rows
         ELSE /\ rowInputRate' = addToHistory(sample, rowInputRate)
              /\ outside' = outside + Rows(rowInputRate) + sample.rows - Rows(rowInputRate')

(* componentDidUpdate draws the sparklines unless it did so within the     *)
(* last second.  The first setState of the handler, before the new samples *)
(* are there, already causes it.                                           *)
Draw ==
  /\ sparkline' = IF justDrawn THEN sparkline ELSE rowInputRate
  /\ justDrawn' = TRUE

HandleQuery(r) ==
  /\ r.phase = "answered"
  /\ requests' = requests \ {r}
  /\ query' = r.query
  /\ initialized' = TRUE
  /\ ended' = r.query.final
  /\ lastSnapshotStage' = IF stageRefresh THEN r.query ELSE lastSnapshotStage
  /\ onAtEnd' = (r.query.final /\ stageRefresh)
  /\ answered' = TRUE
  /\ elapsed' = 0
  /\ Draw
  /\ Measure(r.query)
  /\ ResetTimer(GoOn)
  /\ UNCHANGED <<server, clockMoved, stageRefresh>>

HandleError(r) ==
  /\ r.phase = "failed"
  /\ requests' = requests \ {r}
  /\ initialized' = TRUE
  /\ UNCHANGED <<ended, query>>
  /\ Draw
  /\ ResetTimer(GoOn)
  /\ UNCHANGED <<server, clockVars, lastRowInput, rowInputRate, answered, outside, stageVars>>

(* The button is there once the page shows a query.                        *)
handleStageRefreshClick ==
  /\ query # Null
  /\ stageRefresh' = ~stageRefresh
  /\ Draw
  /\ UNCHANGED <<pollVars, server, clockVars, lastRowInput, rowInputRate, answered, outside,
                 lastSnapshotStage, onAtEnd, pageVars>>

-----------------------------------------------------------------------------
Handlers == \E r \in requests : HandleQuery(r) \/ HandleError(r)

Refreshes == \E i \in timers : refreshLoop(i)

Next ==
  \/ Environment \/ Answers \/ Failures \/ Tick \/ SetClockBack
  \/ Handlers \/ Refreshes \/ handleStageRefreshClick

(* The browser runs the handlers and timers that are due; of requests that *)
(* are repeated for ever, not all are lost.                                *)
Fairness ==
  /\ WF_vars(Handlers) /\ WF_vars(Refreshes)
  /\ SF_vars(Answers) /\ SF_vars(\E r \in requests : HandleQuery(r))

Spec == Init /\ [][Next]_vars /\ Fairness

-----------------------------------------------------------------------------
(* The rates account for the work: the rows of the samples, and those of   *)
(* answers that gave no sample and of samples that left the window, are    *)
(* the rows of the last answer.  No answer is counted twice or left out,   *)
(* whatever fails in between.                                              *)
RatesAccountForRows == query # Null => Rows(rowInputRate) + outside = query.rows

(* Only the first sample, of a query that was just created, can be a       *)
(* division by zero, unless the clock was set back: the guard of the       *)
(* handler, elapsedSecsSinceLastRefresh >= 0, lets it in.                  *)
LaterRatesAreFinite ==
  \A i \in 2..Len(rowInputRate) : rowInputRate[i].secs > 0 \/ clockMoved

(* What the chart shows is never more than one sample behind, unless the   *)
(* clock was set back: the handler draws before it adds its sample, and    *)
(* every later answer draws again.                                         *)
ChartLagsByOne ==
  \/ sparkline = rowInputRate
  \/ rowInputRate = addToHistory(rowInputRate[Len(rowInputRate)], sparkline)
  \/ clockMoved

(* What the charts show of the query's work, taken together.               *)
RatesAccounted == RatesAccountForRows /\ LaterRatesAreFinite /\ ChartLagsByOne

(* Once the query's information is final the page comes to rest on it, and *)
(* on its stages if Auto-Refresh was on when it came.                      *)
FinalQueryShown ==
  server.final ~> [](query = server /\ (onAtEnd => lastSnapshotStage = server))

=============================================================================

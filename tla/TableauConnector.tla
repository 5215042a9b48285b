-------------------------- MODULE TableauConnector --------------------------
(***************************************************************************)
(* The Tableau web connector: StatementClient (tableau/presto-client.js)   *)
(* and the page that drives it (tableau/presto-connector.html).  Tableau   *)
(* calls getColumnHeaders once and then getTableData, each time when its   *)
(* last call was answered with dataCallback and more data to come.  All    *)
(* HTTP calls are synchronous (async: false), so a call of Tableau is a    *)
(* run of requests that nothing of the page interrupts.                    *)
(*                                                                         *)
(* A result page is a number, the pages of a result are 1, 2, ... in the   *)
(* order of the server.  A request that fails leaves the server as it was: *)
(* the server answers a repeated token from its cache.                     *)
(***************************************************************************)
EXTENDS Naturals, Sequences

CONSTANT MaxPages     \* bound: the pages of a result

VARIABLES
  client,     \* the StatementClient and the globals of the page
  tableau,    \* what Tableau was told last
  extract,    \* the pages Tableau has
  query,      \* the server's query: pages served, columns known, its state,
              \* and whether the last answer brought rows
  cut         \* history: a request failed, or the query did after its headers

vars == <<client, tableau, extract, query, cut>>

Init ==
  /\ client = [nextUri |-> FALSE, valid |-> TRUE, headersPushed |-> FALSE,
               errorMessage |-> FALSE, getTableDataCalled |-> FALSE,
               buffer |-> <<>>, call |-> "none", ajax |-> "none"]
  /\ tableau = "started"
  /\ extract = <<>>
  /\ query = [pages |-> 0, columns |-> FALSE, end |-> "running", rows |-> FALSE]
  /\ cut = FALSE

-----------------------------------------------------------------------------
(* The server's answers.                                                   *)

Response(columns, data, error, next) ==
  [columns |-> columns, data |-> data, error |-> error, next |-> next]

(* What getNextResult finds: the columns, if they are known, the rows it   *)
(* polls, and after that the state of the query.  It may have failed since *)
(* it produced the rows, or between the poll and the look at its state.    *)
Found ==
  {f \in [columns : BOOLEAN, data : {0} \cup {n \in 1..MaxPages : n = query.pages + 1},
          state : {"running", "FINISHED", "FAILED"}] :
     query.columns \/ f.data # 0 \/ f.state = "FINISHED" => f.columns}

(* The answers to a GET, each with the query after it: with the failure    *)
(* and with the end of the query there is no next token.                   *)
getNextResult ==
  {<<Response(f.columns, f.data, f.state = "FAILED", f.state = "running"),
     [pages |-> IF f.data = 0 THEN query.pages ELSE f.data,
      columns |-> f.columns, end |-> f.state, rows |-> f.data # 0]>> : f \in Found}

(* The answer to the POST, which is given before the query is created.     *)
getInitialQueryResults == {<<Response(FALSE, 0, FALSE, TRUE), query>>}

Answers == IF client.ajax = "POST" THEN getInitialQueryResults ELSE getNextResult

-----------------------------------------------------------------------------
(* A step of the connector changes its state, Tableau's and the extract:   *)
(* s = [c |-> client, t |-> tableau, x |-> extract].                       *)

Current == [c |-> client, t |-> tableau, x |-> extract]

Become(s) == client' = s.c /\ tableau' = s.t /\ extract' = s.x

pushDataToTableau(s, data) ==
  IF ~s.c.getTableDataCalled
  THEN [s EXCEPT !.c.buffer = Append(@, data)]
  ELSE [s EXCEPT !.x = Append(@, data), !.t = "more"]

pushHeadersToTableau(s, columns) ==
  IF columns /\ ~s.c.headersPushed
  THEN [s EXCEPT !.c.headersPushed = TRUE, !.t = "headers"]
  ELSE s

responseHandler(s, response) ==
  LET errs    == IF response.error THEN [s EXCEPT !.c.errorMessage = TRUE] ELSE s
      headers == pushHeadersToTableau(errs, response.columns)
  IN  IF response.data = 0 THEN headers
      ELSE pushDataToTableau(headers, response.data)

(* advance up to its request: without a nextUri the client is done.        *)
advance(s) ==
  IF s.c.nextUri THEN [s EXCEPT !.c.ajax = "GET"]
  ELSE [s EXCEPT !.c.valid = FALSE, !.c.ajax = "none"]

(* The loop of getColumnHeaders and what follows it.  When advance has     *)
(* nothing to request the loop goes round for ever.                        *)
ColumnHeadersLoop(s) ==
  IF s.c.errorMessage THEN [s EXCEPT !.c.call = "none", !.t = "aborted"]
  ELSE IF s.c.headersPushed THEN [s EXCEPT !.c.call = "none"]
  ELSE LET n == advance(s)
       IN  IF n.c.valid THEN n ELSE [n EXCEPT !.c.call = "spinning"]

(* The rest of getTableData after advance.                                 *)
TableDataEnd(s) ==
  IF s.c.valid THEN [s EXCEPT !.c.call = "none"]
  ELSE [s EXCEPT !.c.call = "none", !.t = "done"]

(* The call of Tableau goes on once its advance is over.                   *)
Return(s) ==
  IF s.c.call = "getColumnHeaders" THEN ColumnHeadersLoop(s) ELSE TableDataEnd(s)

(* Mutant: a request without rows is not followed by another.              *)
SuccessOnce(s, response) ==
  Return(responseHandler([s EXCEPT !.c.nextUri = response.next, !.c.ajax = "none"],
                         response))

(* The success handlers: the answer to the POST is only handled, a GET     *)
(* without rows or error is followed by another one.                       *)
success(s, response) ==
  LET handled == responseHandler([s EXCEPT !.c.nextUri = response.next,
                                           !.c.ajax = "none"], response)
      again   == s.c.ajax = "GET" /\ response.data = 0 /\ ~response.error
      next    == IF again THEN advance(handled) ELSE handled
  IN  IF next.c.ajax = "GET" THEN next ELSE Return(next)

-----------------------------------------------------------------------------
getColumnHeaders ==
  /\ tableau = "started" /\ client.call = "none"
  /\ client' = [client EXCEPT !.call = "getColumnHeaders", !.ajax = "POST"]
  /\ UNCHANGED <<tableau, extract, query, cut>>

(* A buffered page is handed over first, one in a call.                    *)
getTableData ==
  /\ tableau \in {"headers", "more"} /\ client.call = "none"
  /\ LET s == [Current EXCEPT !.c.getTableDataCalled = TRUE, !.t = "waiting"]
     IN  Become(IF s.c.buffer # <<>>
                THEN pushDataToTableau([s EXCEPT !.c.buffer = Tail(@)], Head(s.c.buffer))
                ELSE LET n == advance([s EXCEPT !.c.call = "getTableData"])
                     IN  IF n.c.ajax = "GET" THEN n ELSE Return(n))
  /\ UNCHANGED <<query, cut>>

Answer(a) ==
  /\ client.ajax # "none"
  /\ query.end = "running"
  /\ Become(success(Current, a[1]))
  /\ query' = a[2]
  /\ cut' = (cut \/ (a[1].error /\ client.headersPushed))

(* A request fails; the text of the failure, which is what ends the loop   *)
(* of getColumnHeaders, is empty when there was no HTTP answer at all.     *)
RequestFails ==
  /\ client.ajax # "none"
  /\ \E text \in BOOLEAN :
       Become(Return([Current EXCEPT !.c.errorMessage = text, !.c.ajax = "none"]))
  /\ cut' = TRUE
  /\ UNCHANGED query

(* The connection is over, or nothing will call the connector again.       *)
Over ==
  /\ client.call \in {"none", "spinning"}
  /\ tableau \in {"done", "aborted", "waiting"} \/ client.call = "spinning"
  /\ UNCHANGED vars

Next ==
  \/ getColumnHeaders \/ getTableData \/ RequestFails \/ Over
  \/ \E a \in Answers : Answer(a)

(* The page and Tableau go on, requests are answered, and the query ends:  *)
(* its answers are not all "nothing yet".                                  *)
Fairness ==
  /\ WF_vars(getColumnHeaders) /\ WF_vars(getTableData)
  /\ WF_vars(\E a \in Answers : Answer(a))
  /\ SF_vars(\E a \in Answers : (a[1].data # 0 \/ ~a[1].next) /\ Answer(a))

Spec == Init /\ [][Next]_vars /\ Fairness

-----------------------------------------------------------------------------
(* The pages Tableau has and those in the buffer are the pages the server  *)
(* served, each once and in order, whatever request brought them           *)
(* (pushDataToTableau, buffer.splice in getTableData).                     *)
PagesOnceInOrder == extract \o client.buffer = [i \in 1..query.pages |-> i]

(* Tableau is told that the extract is complete only when the query has    *)
(* ended and all the pages that were served were handed over: neither a    *)
(* lost answer nor an error passes for the end (valid in advance and       *)
(* getTableData).  One error does: that of a query whose failure comes in  *)
(* the same answer as its last rows, which getNextResult polls before it   *)
(* looks at the state of the query.                                        *)
DoneMeansWhole ==
  tableau = "done" =>
    /\ query.end = "FINISHED" \/ (query.end = "FAILED" /\ query.rows)
    /\ extract = [i \in 1..query.pages |-> i]

(* While no request fails and the query does not fail after its headers,   *)
(* Tableau gets the whole result or is told of the error (getColumnHeaders *)
(* and the GET after a GET without rows in advance).                       *)
AnsweredUnlessCut ==
  [](~cut) => <>(tableau \in {"done", "aborted"})

=============================================================================

--------------------- MODULE PageTransportClientProofs ---------------------
(***************************************************************************)
(* The PageBufferClient and ExchangeClient callbacks keep the invariant of *)
(* PageTransport: one lemma per action.                                    *)
(***************************************************************************)
EXTENDS PageTransportTypes

(* The end of the callback that handles results, where the client may      *)
(* complete, keeps the invariant.                                          *)
LEMMA FinishResultsStep ==
  ASSUME Inv, NEW r \in Request, FinishResults(r)
  PROVE  Rest'
<1>1. /\ UNCHANGED <<serverVars, writing, exchange, received, historyVars>>
      /\ request[r].phase = "added" /\ ~request[r].live
      /\ request[r].kind = "get" /\ Callback(r)
      /\ request'[r] = Free
      /\ \A s \in Request : s # r => request'[s] = request[s]
      /\ request'[r].phase = "free" /\ ~request'[r].live
      /\ request[r].result.complete \in BOOLEAN
      /\ OneRequest
      /\ client.future = r \/ client.closed
      /\ ~client.completed
  <2>1. request[r].phase = "added" /\ OneRequest /\ request[r] \in RequestType
    BY Zenon DEF FinishResults, Inv, TypeOK
  <2>2. Callback(r)
    BY Zenon, <2>1 DEF Callback, CallbackPhase
  <2>3. request[r].result.complete \in BOOLEAN /\ request[r].live \in BOOLEAN
    BY Zenon, <2>1 DEF RequestType, Results
  <2> QED
    BY <2>1, <2>2, <2>3, FreeFields DEF FinishResults, Inv, TypeOK, Is, OneRequest, Callback
<1>2. /\ client'.token = client.token
      /\ client'.taskInstanceId = client.taskInstanceId
      /\ client'.closed = client.closed
      /\ client'.completed => request[r].result.complete
      /\ client'.future = NoRequest \/ (client'.future = client.future /\ client.future # r)
  <2>1. client \in ClientType(Request, Instance)
        /\ client' = CompleteRequest(client, r, request[r].result)
    BY DEF FinishResults, Inv, TypeOK
  <2>2. CASE client.future = r
    BY <1>1, <2>1, <2>2 DEF CompleteRequest, ClearFuture, ClientType
  <2>3. CASE client.future # r
    BY <1>1, <2>1, <2>3 DEF CompleteRequest, ClearFuture, ClientType
  <2> QED
    BY <2>2, <2>3
<1>3. KeptClient
  <2>1. \A s \in Request : Kept(s)
    BY Zenon, <1>1 DEF Kept, ServerPhase
  <2> QED
    BY <1>1, <1>2, <2>1 DEF KeptClient, serverVars, historyVars
<1>4. OneRequest'
  <2>1. \A s \in Request : request'[s].phase \notin CallbackPhase
    BY Zenon, <1>1 DEF OneRequest, Callback, CallbackPhase
  <2>2. ASSUME NEW s \in Request, request'[s].live
        PROVE  /\ client'.future = s
               /\ request'[s].kind = "delete"
               /\ request'[s].phase \notin CallbackPhase \cup {"free"}
    <3>1. s # r /\ request[s].live /\ request'[s] = request[s] /\ client.future = s
      BY <1>1, <2>2 DEF OneRequest
    <3>2. client.closed
      BY Zenon, <1>1, <3>1
    <3>3. client'.future = s
      <4>1. client' = CompleteRequest(client, r, request[r].result)
            /\ client \in ClientType(Request, Instance)
        BY Zenon DEF FinishResults, Inv, TypeOK
      <4> QED
        BY <3>1, <4>1 DEF CompleteRequest, ClearFuture, ClientType
    <3> QED
      BY <3>1, <3>2, <3>3 DEF OneRequest, Inv
  <2>3. client'.future \in Request => request'[client'.future].live
    BY <1>1, <1>2, RequestAssumption DEF OneRequest, Callback
  <2> QED
    BY Zenon, <2>1, <2>2, <2>3 DEF OneRequest, Callback
<1>5. CompletionIsReal'
  <2>1. ASSUME ConsumerStatus' = "finished"
        PROVE  EndReached' \/ client'.taskInstanceId \in cancelled'
    <3>1. ~exchange.failed /\ ~exchange.closed /\ client'.completed
      BY Zenon, <1>1, <2>1 DEF ConsumerStatus
    <3>2. AtEnd(client.taskInstanceId)
      BY <1>1, <1>2, <3>1 DEF Inv, CompleteResults
    <3>3. CASE client.taskInstanceId \in cancelled
      BY Zenon, <1>1, <1>2, <3>3 DEF historyVars
    <3>4. CASE /\ outputDone /\ client.token = Len(stream)
               /\ dropped => completion = "overtaken"
      <4>1. \A s \in Request : request[s].phase # "adding"
        BY Zenon, <1>1 DEF OneRequest, Callback, CallbackPhase
      <4>2. /\ Len(received) = Len(stream)
            /\ \A i \in 1..Len(received) : received[i] = stream[i]
        BY <3>1, <3>4, <4>1 DEF Inv, TokenCounts, Accepting
      <4>3. received = stream
        BY Zenon, <4>2, SequencesEqual DEF Inv, TypeOK
      <4> QED
        BY Zenon, <1>1, <3>4, <4>3 DEF EndReached, historyVars
    <3> QED
      BY Zenon, <3>2, <3>3, <3>4 DEF AtEnd
  <2> QED
    BY Zenon, <2>1 DEF CompletionIsReal
<1> QED
  BY <1>3, <1>4, <1>5, KeptStep DEF Rest

(* So does the arrival of results.                                         *)
LEMMA ReceiveResultsStep ==
  ASSUME Inv, NEW r \in Request, ReceiveResults(r)
  PROVE  Rest'
<1>1. /\ UNCHANGED <<serverVars, writing, clientVars, historyVars>>
      /\ request[r].kind = "get" /\ request[r].phase = "reply" /\ request[r].live
      /\ Is(request'[r], "get", "received", FALSE, request[r].token, request[r].result)
      /\ \A s \in Request : s # r => request'[s] = request[s]
      /\ OneRequest
      /\ client.future = r
  <2>1. request[r] \in RequestType /\ OneRequest /\ request[r].kind = "get" /\ request[r].live
    BY Zenon DEF ReceiveResults, Inv, TypeOK
  <2>2. request'[r] = [request[r] EXCEPT !.phase = "received", !.live = FALSE]
    BY Zenon DEF ReceiveResults, Inv, TypeOK
  <2>3. Is(request'[r], "get", "received", FALSE, request[r].token, request[r].result)
    BY <2>1, <2>2 DEF Is, RequestType
  <2> QED
    BY ZenonT(60), <2>1, <2>3 DEF ReceiveResults, Inv, TypeOK, OneRequest
<1>2. buffer.pendingRead # r /\ r \notin lazyReads
  BY Zenon, <1>1 DEF Inv, Phases
<1>3. ~client.closed /\ ~client.completed
  BY Zenon, <1>1 DEF OneRequest
<1>4. \A s \in Request : ~Callback(s)
  BY Zenon, <1>1, <1>3 DEF OneRequest, Callback
<1>5. OneRequest'
  <2>1. \A s \in Request : ~request'[s].live
    BY <1>1 DEF OneRequest, Is
  <2>2. \A s \in Request : request'[s].phase \in CallbackPhase <=> s = r
    BY Zenon, <1>1, <1>4 DEF Callback, CallbackPhase, Is
  <2> QED
    BY <1>1, <1>3, <2>1, <2>2 DEF OneRequest, Callback, Is, clientVars
<1>6. Phases'
  BY <1>1, <1>2 DEF Inv, Phases, Is, ServerPhase, serverVars
<1>7. Destruction'
  BY <1>1 DEF Inv, Destruction, Exhausted, Is, serverVars, clientVars, historyVars
<1>8. BufferHoldsRest' /\ EndOfStream' /\ CompletionIsReal'
  BY <1>1, FrameBufferHoldsRest, FrameEndOfStream, FrameCompletionIsReal
     DEF Inv, serverVars, clientVars, historyVars
<1>9. Tokens'
  BY <1>1, <1>2 DEF Inv, Tokens, Is, serverVars, clientVars, historyVars
<1>10. ResultsFromStream'
  <2>1. FromStream(request[r].result)
    BY Zenon, <1>1 DEF Inv, ResultsFromStream
  <2>2. ASSUME NEW s \in Request, request'[s].kind = "get", request'[s].phase \in {"reply", "received"}
        PROVE  request'[s].result = request[s].result /\ FromStream(request[s].result)
    <3>1. CASE s = r
      BY Zenon, <1>1, <2>1, <3>1 DEF Is
    <3>2. CASE s # r
      BY Zenon, <1>1, <2>2, <3>2 DEF Inv, ResultsFromStream
    <3> QED
      BY Zenon, <3>1, <3>2
  <2>3. stream' = stream
    BY Zenon, <1>1 DEF historyVars
  <2> QED
    BY SMTT(30), <2>2, <2>3 DEF ResultsFromStream, FromStream
<1>11. CompleteResults'
  <2>1. \A id : AtEnd(id) <=> AtEnd(id)'
    BY Zenon, <1>1 DEF AtEnd, clientVars, historyVars
  <2>2. request[r].result.complete => AtEnd(request[r].result.taskInstanceId)
    BY Zenon, <1>1 DEF Inv, CompleteResults
  <2>3. ASSUME NEW s \in Request, request'[s].kind = "get", request'[s].result.complete,
               (request'[s].phase = "reply" /\ request'[s].live) \/ Callback(s)',
               NEW id, id = request'[s].result.taskInstanceId
        PROVE  AtEnd(id)
    <3>1. s = r
      BY Zenon, <1>1, <1>4, <2>3 DEF Callback, OneRequest
    <3> QED
      BY <1>1, <2>2, <2>3, <3>1 DEF Is
  <2>4. \A s \in Request : request'[s].phase \notin {"adding", "added"}
    BY <1>1, <1>4 DEF Callback, CallbackPhase, Is
  <2> QED
    BY Zenon, <2>1, <2>3, <2>4 DEF CompleteResults
<1>12. TokenCounts'
  <2>1. \A s \in Request : request[s].phase # "adding" /\ request'[s].phase # "adding"
    BY <1>1, <1>4 DEF Callback, CallbackPhase, Is
  <2> QED
    BY Zenon, <1>1, <2>1 DEF Inv, TokenCounts, Accepting, clientVars, historyVars
<1> QED
  BY <1>5, <1>6, <1>7, <1>8, <1>9, <1>10, <1>11, <1>12 DEF Rest

(* So does addPages, which hands the accepted pages to the exchange.       *)
LEMMA OfferPagesStep ==
  ASSUME Inv, NEW r \in Request, OfferPages(r)
  PROVE  Rest'
<1> DEFINE ps == request[r].result.pages
<1>1. /\ UNCHANGED <<serverVars, writing, client, exchange, historyVars>>
      /\ request[r].phase = "adding" /\ request[r] \in RequestType
      /\ request'[r] = [request[r] EXCEPT !.phase = "added"]
      /\ \A s \in Request : s # r => request'[s] = request[s]
      /\ OneRequest
      /\ received \in Seq(Page) /\ stream \in Seq(Page) /\ ps \in Seq(Page)
      /\ received' = IF exchange.closed \/ exchange.failed THEN received ELSE received \o ps
  BY Zenon DEF OfferPages, Inv, TypeOK, RequestType, Results
<1>2. /\ Callback(r)
      /\ request[r].kind = "get" /\ ~client.completed
      /\ \A s \in Request : s # r => ~Callback(s)
  BY Zenon, <1>1 DEF Callback, CallbackPhase, OneRequest
<1>3. Is(request'[r], "get", "added", request[r].live, request[r].token, request[r].result)
  <2>1. \A ph : Is([request[r] EXCEPT !.phase = ph], "get", ph, request[r].live, request[r].token,
                   request[r].result)
    BY ZenonT(60), <1>1, <1>2, RequestFields
  <2> QED
    BY <1>1, <2>1
<1> HIDE DEF ps
<1>4. buffer.pendingRead # r /\ r \notin lazyReads
  BY Zenon, <1>1 DEF Inv, Phases
<1>5. OneRequest'
  <2>1. /\ request'[r].kind = "get" /\ request'[r].phase = "added"
        /\ ~request[r].live /\ request'[r].live = request[r].live
    BY <1>1, <1>2, <1>3 DEF Is, OneRequest, Callback
  <2>2. \A s \in Request : request'[s].phase \in CallbackPhase <=> s = r
    BY Zenon, <1>1, <1>2, <2>1 DEF Callback, CallbackPhase
  <2>3. \A s \in Request : /\ request'[s].live = request[s].live
                           /\ request'[s].live => request'[s] = request[s]
    BY ZenonT(60), <1>1, <2>1
  <2> QED
    <3>1. ASSUME NEW s \in Request, request'[s].live
          PROVE  /\ client'.future = s
                 /\ request'[s].kind \in {"get", "delete"}
                 /\ request'[s].phase \notin CallbackPhase \cup {"free"}
                 /\ client'.closed \/ client'.completed => request'[s].kind = "delete"
      <4>1. request'[s] = request[s] /\ request[s].live /\ client' = client
        BY Zenon, <1>1, <2>3, <3>1
      <4>2. /\ client.future = s
            /\ request[s].kind \in {"get", "delete"}
            /\ request[s].phase \notin CallbackPhase \cup {"free"}
            /\ client.closed \/ client.completed => request[s].kind = "delete"
        BY Zenon, <1>1, <4>1 DEF OneRequest
      <4> QED
        BY Zenon, <4>1, <4>2
    <3>2. client'.future = r \/ client'.closed
      BY Zenon, <1>1, <1>2 DEF OneRequest
    <3>3. client'.future \in Request => request'[client'.future].live \/ client'.future = r
      BY <1>1, <1>2, <2>3 DEF OneRequest
    <3> QED
      <4>1. ASSUME NEW s \in Request, request'[s].phase \in CallbackPhase
            PROVE  /\ request'[s].kind = "get"
                   /\ client'.future = s \/ client'.closed
                   /\ ~client'.completed
        BY ZenonT(60), <1>1, <1>2, <2>1, <2>2, <3>2, <4>1
      <4>2. \A s, t \in Request : request'[s].phase \in CallbackPhase
                                   /\ request'[t].phase \in CallbackPhase => s = t
        BY Zenon, <2>2
      <4>3. client'.future \in Request =>
              request'[client'.future].live \/ request'[client'.future].phase \in CallbackPhase
        BY Zenon, <2>2, <3>3
      <4> QED
        BY Zenon, <3>1, <4>1, <4>2, <4>3 DEF OneRequest, Callback
<1>6. Phases'
  <2>1. request'[r].kind = "get" /\ request'[r].phase = "added"
    BY <1>3 DEF Is
  <2>2. UNCHANGED <<lazyReads, buffer, delegate>>
    BY Zenon, <1>1 DEF serverVars
  <2>3. ASSUME NEW s \in Request
        PROVE  /\ request'[s].phase \in ServerPhase => request'[s].kind = "get"
               /\ request'[s].phase = "acked" => delegate'
               /\ request'[s].kind = "ack" => request'[s].phase = "sent"
               /\ request'[s].kind = "delete" => request'[s].phase \in {"sent", "reply", "lost"}
               /\ s \in lazyReads' => request'[s].phase = "waiting" /\ buffer'.pendingRead # s
               /\ buffer'.pendingRead = s => request'[s].phase = "waiting"
    <3>1. CASE s = r
      BY <1>4, <2>1, <2>2, <3>1 DEF ServerPhase
    <3>2. CASE s # r
      BY <1>1, <2>2, <3>2 DEF Inv, Phases
    <3> QED
      BY <3>1, <3>2
  <2> QED
    BY Zenon, <2>3 DEF Phases
<1>7. Destruction'
  BY ZenonT(60), <1>1, <1>3 DEF Inv, Destruction, Exhausted, Is, serverVars, historyVars
<1>8. BufferHoldsRest' /\ EndOfStream'
  BY Zenon, <1>1, FrameBufferHoldsRest, FrameEndOfStream DEF Inv, serverVars, historyVars
<1>9. CompletionIsReal'
  <2>1. ConsumerStatus' # "finished"
    BY <1>1, <1>2 DEF ConsumerStatus
  <2> QED
    BY Zenon, <2>1 DEF CompletionIsReal
<1>10. Tokens'
  BY ZenonT(60), <1>1, <1>3, <1>4 DEF Inv, Tokens, Is, serverVars, historyVars
<1>11. ResultsFromStream'
  <2>1. ASSUME NEW s \in Request, request'[s].kind = "get", request'[s].phase \in {"reply", "received"}
        PROVE  request'[s].result = request[s].result /\ FromStream(request[s].result)
    <3>1. s # r
      BY Zenon, <1>3, <2>1 DEF Is
    <3> QED
      BY <1>1, <2>1, <3>1 DEF Inv, ResultsFromStream
  <2>2. stream' = stream
    BY Zenon, <1>1 DEF historyVars
  <2> QED
    BY <2>1, <2>2 DEF ResultsFromStream, FromStream
<1>12. CompleteResults'
  <2>1. \A id : AtEnd(id) <=> AtEnd(id)'
    BY Zenon, <1>1 DEF AtEnd, historyVars
  <2>2. /\ request[r].result.complete => AtEnd(request[r].result.taskInstanceId)
        /\ client.taskInstanceId = request[r].result.taskInstanceId
    BY Zenon, <1>1, <1>2 DEF Inv, CompleteResults
  <2>3. ASSUME NEW s \in Request, request'[s].kind = "get", request'[s].result.complete,
               (request'[s].phase = "reply" /\ request'[s].live) \/ Callback(s)',
               NEW id, id = request'[s].result.taskInstanceId
        PROVE  AtEnd(id)
    <3>1. CASE s = r
      BY <1>3, <2>2, <2>3, <3>1 DEF Is
    <3>2. CASE s # r
      <4>1. request'[s] = request[s] /\ CompleteResults
        BY Zenon, <1>1, <3>2 DEF Inv
      <4> QED
        BY Zenon, <2>3, <4>1 DEF CompleteResults, Callback
    <3> QED
      BY Zenon, <3>1, <3>2
  <2>4. ASSUME NEW s \in Request, request'[s].phase \in {"adding", "added"}
        PROVE  client'.taskInstanceId = request'[s].result.taskInstanceId
    <3>1. s = r
      BY <1>1, <1>2, <2>4 DEF Callback, CallbackPhase
    <3> QED
      BY Zenon, <1>1, <1>3, <2>2, <3>1 DEF Is
  <2> QED
    BY Zenon, <2>1, <2>3, <2>4 DEF CompleteResults
<1>13. TokenCounts'
  <2>1. \A s \in Request : request'[s].phase # "adding"
    BY ZenonT(60), <1>1, <1>2, <1>3 DEF Callback, CallbackPhase, Is
  <2>2. CASE exchange.closed \/ exchange.failed
    BY ZenonT(60), <1>1, <2>2 DEF Inv, TokenCounts, Accepting, historyVars
  <2>3. CASE ~(exchange.closed \/ exchange.failed)
    <3> DEFINE m == Len(received)
               k == Len(ps)
               n == Len(stream)
    <3>1. m \in Nat /\ k \in Nat /\ n \in Nat
      BY <1>1, SequenceLen
    <3>2. received' = received \o ps /\ received' \in Seq(Page) /\ Len(received') = m + k
      BY SMTT(30), <1>1, <2>3, SequenceConcat
    <3>3. /\ client.token = m + k
          /\ \A i \in 1..k : ps[i] = stream[m + i]
          /\ \A i \in 1..m : received[i] = stream[i]
          /\ client.token <= n
      BY <1>1, <2>3 DEF Inv, TokenCounts, Accepting, Tokens, ps
    <3>4. /\ \A i \in 1..m : received'[i] = received[i]
          /\ \A i \in (m + 1)..(m + k) : received'[i] = ps[i - m]
      BY <1>1, <3>2, SequenceConcat
    <3> HIDE DEF m, k, n
    <3>5. ASSUME NEW i \in 1..(m + k)
          PROVE  received'[i] = stream[i]
      <4>1. CASE i \in 1..m
        BY Zenon, <3>3, <3>4, <4>1
      <4>2. CASE i \notin 1..m
        <5>1. i \in (m + 1)..(m + k) /\ i - m \in 1..k /\ m + (i - m) = i
          BY <3>1, <4>2
        <5> QED
          BY <3>3, <3>4, <5>1
      <4> QED
        BY Zenon, <4>1, <4>2
    <3>6. m + k <= Len(stream) /\ stream' = stream /\ client' = client
      BY Zenon, <1>1, <3>3 DEF n, historyVars
    <3> QED
      BY ZenonT(60), <1>1, <2>1, <3>2, <3>3, <3>5, <3>6 DEF TokenCounts
  <2> QED
    BY <2>2, <2>3
<1> QED
  BY Zenon, <1>5, <1>6, <1>7, <1>8, <1>9, <1>10, <1>11, <1>12, <1>13 DEF Rest

(* A response from another instance of the task fails the client.          *)
LEMMA MismatchStep ==
  ASSUME Inv, NEW r \in Request, AcceptResults(r), Mismatch(client, request[r].result)
  PROVE  Rest'
<1>1. /\ UNCHANGED <<serverVars, writing, received, historyVars>>
      /\ request[r].phase = "received"
      /\ request'[r] = Free
      /\ \A s \in Request : s # r => request'[s] = request[s]
      /\ request'[r].phase = "free" /\ ~request'[r].live
      /\ ClientFailed
      /\ OneRequest
  BY Zenon, FreeFields DEF AcceptResults, Inv, TypeOK, Is
<1>2. Callback(r) /\ ~request[r].live
  BY Zenon, <1>1 DEF Callback, CallbackPhase, OneRequest
<1>3. /\ client'.token = client.token
      /\ client'.taskInstanceId = client.taskInstanceId
      /\ client'.closed = client.closed
      /\ client'.completed = client.completed
      /\ client'.future = IF client.future = r THEN NoRequest ELSE client.future
  <2>1. client \in ClientType(Request, Instance)
        /\ client' = BackoffSuccess(ClearFuture(client, r))
    BY Zenon DEF AcceptResults, Inv, TypeOK
  <2> QED
    BY Zenon, <2>1 DEF ClearFuture, BackoffSuccess, ClientType
<1>4. KeptClient
  <2>1. \A s \in Request : Kept(s)
    BY ZenonT(60), <1>1 DEF Kept, ServerPhase
  <2>2. /\ exchange.closed => exchange'.closed
        /\ exchange.failed => exchange'.failed
        /\ exchange.removed => exchange'.removed
    BY Zenon, <1>1, ExchangeFails
  <2> QED
    BY <1>1, <1>3, <2>1, <2>2 DEF KeptClient, serverVars, historyVars
<1>5. OneRequest'
  <2>1. \A s \in Request : request'[s].phase \notin CallbackPhase
    BY Zenon, <1>1, <1>2 DEF OneRequest, Callback, CallbackPhase
  <2>2. ASSUME NEW s \in Request, request'[s].live
        PROVE  s # r /\ request'[s] = request[s] /\ request[s].live /\ client'.future = s
    BY <1>1, <1>2, <1>3, <2>2 DEF OneRequest
  <2>3. client'.future \in Request => request'[client'.future].live
    <3>1. CASE client.future = r
      BY Zenon, <1>3, <3>1, RequestAssumption
    <3>2. CASE client.future # r
      <4>1. client.future \in Request => request[client.future].live
        BY Zenon, <1>1, <1>2, <3>2 DEF OneRequest
      <4> QED
        BY <1>1, <1>3, <3>2, <4>1
    <3> QED
      BY Zenon, <3>1, <3>2
  <2> QED
    BY <1>1, <1>3, <2>1, <2>2, <2>3 DEF OneRequest, Callback
<1>6. CompletionIsReal'
  BY <1>3, <1>4, KeptCompletion
<1> QED
  BY Zenon, <1>4, <1>5, <1>6, KeptStep DEF Rest

(* The first block of onSuccess on the client and on the request.          *)
LEMMA AcceptFields ==
  ASSUME Inv, NEW r \in Request, AcceptResults(r), ~Mismatch(client, request[r].result)
  PROVE  LET x == request[r].result
             y == request'[r]
         IN  /\ x.token \in Nat /\ x.nextToken \in Nat /\ x.pages \in Seq(Page)
             /\ y.kind = request[r].kind /\ y.phase = "adding" /\ y.live = request[r].live
             /\ y.token = request[r].token
             /\ y.result.complete = x.complete
             /\ y.result.taskInstanceId = x.taskInstanceId
             /\ y.result.pages = AcceptedPages(client, x)
             /\ Cli(client', IF InOrder(client, x) THEN x.nextToken ELSE client.token,
                    client.completed, client.closed, client.future, x.taskInstanceId)
             /\ \A s \in Request : s # r =>
                  \/ request'[s] = request[s]
                  \/ /\ request[s].phase = "free"
                     /\ AcceptedPages(client, x) # <<>>
                     /\ Is(request'[s], "ack", "sent", FALSE, x.nextToken, EmptyResults(1, 0, FALSE))
<1> DEFINE x == request[r].result
           pages == AcceptedPages(client, x)
           accepted == [request EXCEPT ![r] = Accepted(@, pages)]
<1>1. /\ request \in [Request -> RequestType] /\ request[r] \in RequestType
      /\ x \in Results(Instance)
      /\ client \in ClientType(Request, Instance)
  BY Zenon DEF Inv, TypeOK, RequestType
<1>2. x.token \in Nat /\ x.nextToken \in Nat /\ x.pages \in Seq(Page)
  BY Zenon, <1>1 DEF Results
<1>3. /\ client' = BackoffSuccess(AcceptResult(client, x))
      /\ request[r].phase = "received"
      /\ \/ request' = accepted
         \/ /\ pages # <<>>
            /\ \E s \in Request :
                  IsFree(s) /\ request' = [accepted EXCEPT ![s] = NewRequest("ack", x.nextToken)]
  BY Zenon DEF AcceptResults
<1>4. Cli(client', IF InOrder(client, x) THEN x.nextToken ELSE client.token,
          client.completed, client.closed, client.future, x.taskInstanceId)
  <2>1. client.taskInstanceId = NoInstance \/ client.taskInstanceId = x.taskInstanceId
    BY Zenon DEF Mismatch
  <2> HIDE DEF x
  <2>2. CASE InOrder(client, x)
    BY <1>1, <1>3, <2>1, <2>2 DEF Cli, AcceptResult, BackoffSuccess, ClientType
  <2>3. CASE ~InOrder(client, x)
    BY <1>1, <1>3, <2>1, <2>3 DEF Cli, AcceptResult, BackoffSuccess, ClientType
  <2> QED
    BY Zenon, <2>2, <2>3
<1>5. request'[r] = Accepted(request[r], pages)
  <2>1. CASE request' = accepted
    BY <1>1, <2>1
  <2>2. ASSUME NEW s \in Request, IsFree(s),
               request' = [accepted EXCEPT ![s] = NewRequest("ack", x.nextToken)]
        PROVE  request'[r] = Accepted(request[r], pages)
    <3>1. s # r
      BY Zenon, <1>3, <2>2 DEF IsFree
    <3> QED
      BY Zenon, <1>1, <2>2, <3>1
  <2> QED
    BY <1>3, <2>1, <2>2
<1>6. ASSUME NEW s \in Request, s # r
      PROVE  \/ request'[s] = request[s]
             \/ /\ request[s].phase = "free"
                /\ pages # <<>>
                /\ request'[s] = NewRequest("ack", x.nextToken)
  <2>1. CASE request' = accepted
    BY <1>1, <1>6, <2>1
  <2>2. ASSUME NEW q \in Request, IsFree(q), pages # <<>>,
               request' = [accepted EXCEPT ![q] = NewRequest("ack", x.nextToken)]
        PROVE  \/ request'[s] = request[s]
               \/ /\ request[s].phase = "free"
                  /\ pages # <<>>
                  /\ request'[s] = NewRequest("ack", x.nextToken)
    <3>1. CASE s = q
      BY Zenon, <1>1, <2>2, <3>1 DEF IsFree
    <3>2. CASE s # q
      BY Zenon, <1>1, <1>6, <2>2, <3>2
    <3> QED
      BY ZenonT(60), <3>1, <3>2
  <2> QED
    BY Zenon, <1>3, <2>1, <2>2
<1>7. Is(NewRequest("ack", x.nextToken), "ack", "sent", FALSE, x.nextToken, EmptyResults(1, 0, FALSE))
  BY Zenon DEF Is, NewRequest, Free
<1>8. LET y == Accepted(request[r], pages)
      IN  /\ y.kind = request[r].kind /\ y.phase = "adding" /\ y.live = request[r].live
          /\ y.token = request[r].token
          /\ y.result.complete = x.complete
          /\ y.result.taskInstanceId = x.taskInstanceId
          /\ y.result.pages = pages
  <2> HIDE DEF pages
  <2> QED
    BY Zenon, <1>1 DEF Accepted, RequestType, Results
<1> HIDE DEF accepted, x
<1>9. \A s \in Request : s # r =>
        \/ request'[s] = request[s]
        \/ /\ request[s].phase = "free"
           /\ pages # <<>>
           /\ Is(request'[s], "ack", "sent", FALSE, x.nextToken, EmptyResults(1, 0, FALSE))
  BY ZenonT(60), <1>6, <1>7
<1> QED
  BY ZenonT(60), <1>2, <1>4, <1>5, <1>8, <1>9 DEF x

(* So does the block of sendGetResults that takes the pages of a result in *)
(* order and moves the token on.                                           *)
LEMMA AcceptStep ==
  ASSUME Inv, NEW r \in Request, AcceptResults(r), ~Mismatch(client, request[r].result)
  PROVE  Rest'
<1> DEFINE x == request[r].result
           ps == AcceptedPages(client, x)
           t == client'.token
           k == Len(ps)
           m == Len(received)
           n == Len(stream)
<1>1. /\ UNCHANGED <<instance, task, delegate, aborted, lazyReads, bufferState, buffer, writing, exchange,
                     received, stream, dropped, completion, outputDone, cancelled>>
      /\ request[r].phase = "received"
      /\ OneRequest
      /\ client.token \in Nat /\ buffer.currentSequenceId \in Nat
      /\ received \in Seq(Page) /\ stream \in Seq(Page)
      /\ \A s \in Request : request[s].token \in Nat
  BY Zenon DEF AcceptResults, Inv, TypeOK, ClientType, BufferType, RequestType, serverVars, historyVars
<1>0. /\ client.token <= Len(stream) /\ buffer.currentSequenceId <= client.token
      /\ \A s \in Request : request[s].token <= client.token
  BY Zenon DEF Inv, Tokens
<1>2. /\ Callback(r)
      /\ request[r].kind = "get" /\ ~client.completed /\ ~request[r].live
      /\ \A s \in Request : s # r => ~Callback(s)
  BY Zenon, <1>1 DEF Callback, CallbackPhase, OneRequest
<1>3. /\ x.token \in Nat /\ x.nextToken \in Nat /\ x.pages \in Seq(Page)
      /\ request'[r].kind = "get" /\ request'[r].phase = "adding"
      /\ request'[r].live = request[r].live
      /\ request'[r].token = request[r].token
      /\ request'[r].result.complete = x.complete
      /\ request'[r].result.taskInstanceId = x.taskInstanceId
      /\ request'[r].result.pages = ps
      /\ Cli(client', IF InOrder(client, x) THEN x.nextToken ELSE client.token,
             client.completed, client.closed, client.future, x.taskInstanceId)
      /\ \A s \in Request : s # r =>
           \/ request'[s] = request[s]
           \/ /\ request[s].phase = "free"
              /\ ps # <<>>
              /\ Is(request'[s], "ack", "sent", FALSE, x.nextToken, EmptyResults(1, 0, FALSE))
  BY Zenon, <1>2, AcceptFields
<1>4. /\ FromStream(x)
      /\ x.complete => AtEnd(x.taskInstanceId)
  BY ZenonT(60), <1>1, <1>2 DEF Inv, ResultsFromStream, CompleteResults
<1> HIDE DEF x, ps
<1>5. ps \in Seq(Page) /\ k \in Nat /\ m \in Nat /\ n \in Nat
  <2>1. ps \in Seq(Page)
    BY ZenonT(60), <1>3, SequenceEmpty DEF ps, AcceptedPages
  <2> QED
    BY Zenon, <1>1, <2>1, SequenceLen
<1>6. /\ t = client.token + k
      /\ t <= n
      /\ ps # <<>> => t = x.nextToken
      /\ \A i \in 1..k : ps[i] = stream[client.token + i]
  <2>1. CASE InOrder(client, x)
    <3>1. ps = x.pages /\ x.token = client.token /\ t = x.nextToken
      BY ZenonT(60), <1>3, <2>1 DEF ps, AcceptedPages, InOrder, Cli
    <3>2. x.nextToken = x.token + Len(x.pages)
          /\ (x.pages # <<>> => x.nextToken <= Len(stream))
          /\ \A i \in 1..Len(x.pages) : x.pages[i] = stream[x.token + i]
      BY Zenon, <1>4 DEF FromStream
    <3>3. t = client.token + k
      BY Zenon, <3>1, <3>2
    <3>4. t <= n
      <4>1. CASE ps # <<>>
        BY Zenon, <3>1, <3>2, <4>1
      <4>2. CASE ps = <<>>
        <5>1. k = 0
          BY Zenon, <4>2, SequenceEmpty
        <5> QED
          BY <1>0, <1>1, <3>3, <5>1
      <4> QED
        BY <4>1, <4>2
    <3> QED
      BY <3>1, <3>2, <3>3, <3>4
  <2>2. CASE ~InOrder(client, x)
    <3>1. ps = <<>> /\ t = client.token
      BY ZenonT(60), <1>3, <2>2 DEF ps, AcceptedPages, Cli
    <3>2. k = 0
      BY Zenon, <3>1, SequenceEmpty
    <3> QED
      BY <1>0, <1>1, <3>1, <3>2
  <2> QED
    BY <2>1, <2>2
<1>7. t \in Nat /\ client.token <= t /\ client.token <= n
  <2>1. t = client.token + k
    BY Zenon, <1>6
  <2>2. client.token \in Nat /\ k \in Nat
    BY Zenon, <1>1, <1>5
  <2> HIDE DEF t, k
  <2>3. t \in Nat /\ client.token <= t
    BY <2>1, <2>2
  <2> QED
    BY Zenon, <1>0, <2>3
<1>8. /\ client'.completed = client.completed /\ client'.closed = client.closed
      /\ client'.future = client.future /\ client'.taskInstanceId = x.taskInstanceId
  BY Zenon, <1>3 DEF Cli
<1> HIDE DEF k
<1>9. ASSUME NEW s \in Request, s # r
      PROVE  /\ request'[s].live = request[s].live
             /\ request'[s].phase = request[s].phase \/ request'[s].phase = "sent"
             /\ request'[s].phase # "sent" => request'[s] = request[s]
             /\ request'[s].live => request'[s] = request[s]
             /\ request'[s].kind = "ack" => request'[s].phase = "sent"
             /\ request'[s].kind = "delete" => request'[s] = request[s]
             /\ request'[s].token <= t
             /\ s \in lazyReads \/ buffer.pendingRead = s => request'[s] = request[s]
  <2>1. CASE request'[s] = request[s]
    <3>1. request[s].kind = "ack" => request[s].phase = "sent"
      BY ZenonT(60) DEF Inv, Phases
    <3>2. request[s].token <= t
      <4>1. request[s].token \in Nat /\ client.token \in Nat /\ request[s].token <= client.token
        BY Zenon, <1>0, <1>1
      <4> HIDE DEF t
      <4> QED
        BY <1>7, <4>1
    <3> QED
      BY Zenon, <2>1, <3>1, <3>2
  <2>2. CASE /\ request[s].phase = "free"
             /\ ps # <<>>
             /\ Is(request'[s], "ack", "sent", FALSE, x.nextToken, EmptyResults(1, 0, FALSE))
    <3>1. ~request[s].live /\ s \notin lazyReads /\ buffer.pendingRead # s
      BY ZenonT(60), <2>2 DEF Inv, OneRequest, Phases
    <3>2. request[s].live \in BOOLEAN
      BY DEF Inv, TypeOK, RequestType
    <3>3. request'[s].token = x.nextToken /\ x.nextToken = t
      BY ZenonT(60), <1>6, <2>2 DEF Is
    <3>4. request'[s].token <= t
      <4> HIDE DEF t
      <4> QED
        BY <1>7, <3>3
    <3> QED
      BY ZenonT(60), <2>2, <3>1, <3>2, <3>4 DEF Is
  <2> QED
    BY ZenonT(60), <1>3, <1>9, <2>1, <2>2
<1> HIDE DEF t, m, n
<1>10. OneRequest'
  <2>1. \A s \in Request : request'[s].phase \in CallbackPhase <=> s = r
    <3>1. ASSUME NEW s \in Request, s # r PROVE request'[s].phase \notin CallbackPhase
      BY Zenon, <1>2, <1>9, <3>1 DEF Callback, CallbackPhase
    <3> QED
      BY Zenon, <1>3, <3>1 DEF CallbackPhase
  <2>2. ASSUME NEW s \in Request, request'[s].live
        PROVE  s # r /\ request'[s] = request[s] /\ request[s].live
    BY ZenonT(60), <1>2, <1>3, <1>9, <2>2
  <2>3. ASSUME NEW s \in Request, request'[s].live
        PROVE  /\ client'.future = s
               /\ request'[s].kind \in {"get", "delete"}
               /\ request'[s].phase \notin CallbackPhase \cup {"free"}
               /\ client'.closed \/ client'.completed => request'[s].kind = "delete"
    BY ZenonT(60), <1>1, <1>8, <2>2, <2>3 DEF OneRequest
  <2>4. /\ client'.future = r \/ client'.closed
        /\ ~client'.completed
    BY ZenonT(60), <1>1, <1>2, <1>8 DEF OneRequest
  <2>5. client'.future \in Request => request'[client'.future].live \/ client'.future = r
    BY ZenonT(60), <1>1, <1>2, <1>8, <1>9 DEF OneRequest
  <2> QED
    BY ZenonT(60), <1>3, <2>1, <2>3, <2>4, <2>5 DEF OneRequest, Callback
<1>11. Phases'
  <2> SUFFICES ASSUME NEW s \in Request
               PROVE  /\ request'[s].phase \in ServerPhase => request'[s].kind = "get"
                      /\ request'[s].phase = "acked" => delegate'
                      /\ request'[s].kind = "ack" => request'[s].phase = "sent"
                      /\ request'[s].kind = "delete" => request'[s].phase \in {"sent", "reply", "lost"}
                      /\ s \in lazyReads' => request'[s].phase = "waiting" /\ buffer'.pendingRead # s
                      /\ buffer'.pendingRead = s => request'[s].phase = "waiting"
    BY Zenon DEF Phases
  <2>1. CASE s = r
    <3>1. r \notin lazyReads /\ buffer.pendingRead # r
      BY Zenon, <1>1 DEF Inv, Phases
    <3> QED
      BY ZenonT(60), <1>1, <1>3, <2>1, <3>1 DEF ServerPhase
  <2>2. CASE s # r
    BY ZenonT(60), <1>1, <1>9, <2>2 DEF Inv, Phases, ServerPhase
  <2> QED
    BY Zenon, <2>1, <2>2
<1>12. Destruction'
  <2>1. \A s \in Request : request'[s].kind = "delete" => request[s].kind = "delete"
    BY Zenon, <1>3, <1>9
  <2> QED
    BY Zenon, <1>1, <1>8, <2>1 DEF Inv, Destruction, Exhausted
<1>13. BufferHoldsRest' /\ EndOfStream'
  BY ZenonT(60), <1>1, FrameBufferHoldsRest, FrameEndOfStream DEF Inv
<1>14. Tokens'
  <2>1. t <= Len(stream) /\ buffer.currentSequenceId <= t
    <3>1. buffer.currentSequenceId \in Nat /\ client.token \in Nat
      BY Zenon, <1>1
    <3>2. t <= Len(stream)
      BY Zenon, <1>6 DEF n
    <3> QED
      BY <1>0, <1>7, <3>1, <3>2
  <2>2. ASSUME NEW s \in Request
        PROVE  /\ request'[s].token <= t
               /\ request'[s].phase \in {"acked", "taken"} \/ buffer'.pendingRead = s =>
                    buffer'.destroyed \/ request'[s].token <= buffer'.currentSequenceId
               /\ instance' = 1 => request'[s].phase # "error"
    <3>1. CASE s = r
      <4>1. buffer.pendingRead # r
        BY ZenonT(60), <1>1 DEF Inv, Phases
      <4>2. request[r].token <= t
        <5>1. request[r].token \in Nat /\ client.token \in Nat /\ request[r].token <= client.token
          BY ZenonT(60), <1>0, <1>1
        <5> QED
          BY <1>7, <5>1
      <4> QED
        BY ZenonT(60), <1>1, <1>3, <3>1, <4>1, <4>2
    <3>2. CASE s # r
      BY ZenonT(60), <1>1, <1>9, <3>2 DEF Inv, Tokens
    <3> QED
      BY Zenon, <3>1, <3>2
  <2> QED
    BY ZenonT(60), <1>1, <2>1, <2>2 DEF Tokens, t
<1>15. ResultsFromStream'
  <2>1. ASSUME NEW s \in Request, request'[s].kind = "get", request'[s].phase \in {"reply", "received"}
        PROVE  request'[s].result = request[s].result /\ FromStream(request[s].result)
    <3>1. s # r /\ request'[s] = request[s]
      BY ZenonT(60), <1>3, <1>9, <2>1
    <3> QED
      BY ZenonT(60), <2>1, <3>1 DEF Inv, ResultsFromStream
  <2> QED
    BY ZenonT(60), <1>1, <2>1 DEF ResultsFromStream, FromStream
<1>16. CompleteResults'
  <2>1. ASSUME NEW id, AtEnd(id) PROVE AtEnd(id)'
    <3>1. client.token = n => t = n
      BY <1>5, <1>6, <1>7
    <3> QED
      BY <1>1, <2>1, <3>1 DEF AtEnd, t, n
  <2>2. ASSUME NEW s \in Request, request'[s].kind = "get", request'[s].result.complete,
               (request'[s].phase = "reply" /\ request'[s].live) \/ Callback(s)',
               NEW id, id = request'[s].result.taskInstanceId
        PROVE  AtEnd(id)
    <3>1. CASE s = r
      BY ZenonT(60), <1>3, <1>4, <2>2, <3>1
    <3>2. CASE s # r
      <4>1. request'[s] = request[s]
        BY Zenon, <1>9, <2>2, <3>2 DEF Callback, CallbackPhase
      <4> QED
        BY ZenonT(60), <2>2, <4>1 DEF Inv, CompleteResults, Callback
    <3> QED
      BY Zenon, <3>1, <3>2
  <2>3. ASSUME NEW s \in Request, request'[s].phase \in {"adding", "added"}
        PROVE  client'.taskInstanceId = request'[s].result.taskInstanceId
    <3>1. s = r
      BY ZenonT(60), <1>2, <1>9, <2>3 DEF Callback, CallbackPhase
    <3> QED
      BY ZenonT(60), <1>3, <1>8, <3>1
  <2> QED
    BY <2>1, <2>2, <2>3 DEF CompleteResults
<1>17. TokenCounts'
  <2>1. \A s \in Request : request[s].phase # "adding"
    BY Zenon, <1>1, <1>2 DEF Callback, CallbackPhase
  <2>2. \A s \in Request : request'[s].phase = "adding" <=> s = r
    BY ZenonT(60), <1>3, <1>9, <2>1
  <2>3. Accepting' => client.token = m
    BY ZenonT(60), <1>1, <2>1 DEF Inv, TokenCounts, Accepting, m
  <2>4. Accepting' => /\ t = Len(received) + Len(request'[r].result.pages)
                      /\ \A i \in 1..Len(request'[r].result.pages) :
                           request'[r].result.pages[i] = stream[Len(received) + i]
    BY ZenonT(60), <1>3, <1>6, <2>3 DEF m, k
  <2>5. /\ Len(received) <= Len(stream)
        /\ \A i \in 1..Len(received) : received[i] = stream[i]
    BY Zenon DEF Inv, TokenCounts
  <2> QED
    BY ZenonT(60), <1>1, <2>2, <2>4, <2>5 DEF TokenCounts, t
<1>18. CompletionIsReal'
  <2>1. ConsumerStatus' # "finished"
    BY SMTT(30), <1>1, <1>2, <1>8 DEF ConsumerStatus
  <2> QED
    BY Zenon, <2>1 DEF CompletionIsReal
<1> QED
  BY SMTT(30), <1>10, <1>11, <1>12, <1>13, <1>14, <1>15, <1>16, <1>17, <1>18 DEF Rest

(* A request the client gives up stays where it is, but not for the        *)
(* client.                                                                 *)
LEMMA GivenUpKept ==
  ASSUME NEW s \in Request, request[s] \in RequestType, request'[s] = GivenUp(request[s])
  PROVE  /\ Kept(s) /\ ~request'[s].live
         /\ request[s].phase \notin CallbackPhase => request'[s].phase \notin CallbackPhase
<1>1. CASE request[s].phase = "lost"
  <2>1. request'[s] = Free
    BY ZenonT(60), <1>1, RequestFields
  <2>2. request'[s].phase = "free" /\ ~request'[s].live
    BY Zenon, <2>1, FreeFields DEF Is
  <2> QED
    BY <1>1, <2>1, <2>2 DEF Kept, ServerPhase, CallbackPhase
<1>2. CASE request[s].phase # "lost"
  <2>1. Is(request'[s], request[s].kind, request[s].phase, FALSE, request[s].token,
           request[s].result)
    BY ZenonT(60), <1>2, RequestFields
  <2> QED
    BY Zenon, <2>1 DEF Kept, Is
<1> QED
  BY <1>1, <1>2

(* PageBufferClient.close keeps the invariant, whoever calls it.           *)
LEMMA CloseClientStep ==
  ASSUME Inv, CloseClient,
         UNCHANGED <<serverVars, writing, received, historyVars>>,
         exchange.closed => exchange'.closed,
         exchange.failed => exchange'.failed,
         exchange.removed => exchange'.removed
  PROVE  Rest'
<1> DEFINE outstanding == client.future # NoRequest /\ request[client.future].live
           requests == IF outstanding
                       THEN [request EXCEPT ![client.future] = GivenUp(@)] ELSE request
           failing == IF outstanding THEN BackoffFailure(client) ELSE client
<1>1. /\ request \in [Request -> RequestType]
      /\ client \in ClientType(Request, Instance)
      /\ client.future \in Request \cup {NoRequest}
      /\ client.token \in Nat
      /\ OneRequest
  BY Zenon DEF Inv, TypeOK, ClientType
<1>2. /\ failing \in ClientType(Request, Instance)
      /\ Cli(failing, client.token, client.completed, client.closed, client.future,
             client.taskInstanceId)
  <2>1. BackoffFailure(client) \in ClientType(Request, Instance)
    BY <1>1, BackoffTypes
  <2>2. Cli(BackoffFailure(client), client.token, client.completed, client.closed, client.future,
            client.taskInstanceId)
    BY Zenon, <1>1, ClientFields
  <2>3. Cli(client, client.token, client.completed, client.closed, client.future,
            client.taskInstanceId)
    BY Zenon DEF Cli
  <2> QED
    BY <1>1, <2>1, <2>2, <2>3
<1>3. \A s \in Request :
        \/ requests[s] = request[s] /\ ~request[s].live
        \/ requests[s] = GivenUp(request[s]) /\ request[s].live
  <2>1. CASE outstanding
    <3>1. requests = [request EXCEPT ![client.future] = GivenUp(@)] /\ client.future \in Request
      BY Zenon, <1>1, <2>1
    <3>2. \A s \in Request : request[s].live => s = client.future
      BY Zenon, <1>1 DEF OneRequest
    <3> QED
      BY ZenonT(60), <1>1, <2>1, <3>1, <3>2
  <2>2. CASE ~outstanding
    <3>1. \A s \in Request : ~request[s].live
      BY <1>1, <2>2, RequestAssumption DEF OneRequest
    <3> QED
      BY <2>2, <3>1
  <2> QED
    BY <2>1, <2>2
<1>4. requests \in [Request -> RequestType]
  <2>1. \A s \in Request : GivenUp(request[s]) \in RequestType
    BY <1>1, RequestTypes
  <2>2. CASE outstanding
    BY <1>1, <2>1, <2>2
  <2>3. CASE ~outstanding
    BY Zenon, <1>1, <2>3
  <2> QED
    BY Zenon, <2>2, <2>3
<1>5. IF client.closed
      THEN /\ client' = [failing EXCEPT !.future = NoRequest]
           /\ request' = requests
      ELSE \E r \in Request :
             /\ IsFree(r)
             /\ client' = Close(failing, r)
             /\ request' = [requests EXCEPT ![r] = NewRequest("delete", 0)]
  BY Zenon DEF CloseClient
<1> HIDE DEF requests, failing, outstanding
<1>6. ASSUME NEW s \in Request, request'[s] = requests[s]
      PROVE  /\ Kept(s) /\ ~request'[s].live
             /\ request'[s].phase \in CallbackPhase => request'[s] = request[s]
  <2>1. CASE requests[s] = request[s] /\ ~request[s].live
    BY Zenon, <1>6, <2>1 DEF Kept
  <2>2. CASE requests[s] = GivenUp(request[s]) /\ request[s].live
    <3>1. request[s].phase \notin CallbackPhase
      BY Zenon, <1>1, <2>2 DEF OneRequest
    <3> QED
      BY SMTT(30), <1>1, <1>6, <2>2, <3>1, GivenUpKept
  <2> QED
    BY <1>3, <2>1, <2>2
<1>7. CASE client.closed
  <2>1. client' = [failing EXCEPT !.future = NoRequest] /\ request' = requests
    BY Zenon, <1>5, <1>7
  <2>2. Cli(client', client.token, client.completed, client.closed, NoRequest, client.taskInstanceId)
    BY Zenon, <1>2, <2>1 DEF Cli, ClientType
  <2>3. KeptClient
    BY Zenon, <1>6, <2>1, <2>2 DEF KeptClient, Cli, serverVars, historyVars
  <2>4. OneRequest'
    <3>1. \A s \in Request : ~request'[s].live
      BY Zenon, <1>6, <2>1
    <3>2. \A s \in Request : request'[s].phase \in CallbackPhase => request'[s] = request[s]
      BY Zenon, <1>6, <2>1
    <3> QED
      BY ZenonT(60), <1>1, <1>7, <2>2, <3>1, <3>2, RequestAssumption DEF OneRequest, Callback, Cli
  <2>5. CompletionIsReal'
    BY Zenon, <2>2, <2>3, KeptCompletion DEF Cli
  <2> QED
    BY <2>3, <2>4, <2>5, KeptStep DEF Rest
<1>8. CASE ~client.closed
  <2>1. PICK r \in Request :
          /\ IsFree(r)
          /\ client' = Close(failing, r)
          /\ request' = [requests EXCEPT ![r] = NewRequest("delete", 0)]
    BY Zenon, <1>5, <1>8
  <2>2. Cli(client', client.token, client.completed, TRUE, r, client.taskInstanceId)
    BY Zenon, <1>2, <2>1 DEF Cli, Close, ClientType
  <2>3. /\ request'[r].kind = "delete" /\ request'[r].phase = "sent"
        /\ request'[r].live /\ request'[r].token = 0
    <3>1. request'[r] = NewRequest("delete", 0)
      BY Zenon, <1>4, <2>1
    <3> QED
      BY ZenonT(60), <3>1 DEF NewRequest, Free
  <2>4. \A s \in Request : s # r => request'[s] = requests[s]
    BY Zenon, <1>4, <2>1
  <2>5. KeptClient
    <3>1. \A s \in Request : Kept(s)
      <4>1. Kept(r)
        <5>1. client'.closed /\ request[r].phase = "free"
          BY Zenon, <2>1, <2>2 DEF Cli, IsFree
        <5>2. request'[r].token <= client.token
          BY <1>1, <2>3
        <5> QED
          BY ZenonT(60), <2>3, <5>1, <5>2 DEF Kept
      <4> QED
        BY ZenonT(60), <1>6, <2>4, <4>1
    <3> QED
      BY Zenon, <2>2, <3>1 DEF KeptClient, Cli, serverVars, historyVars
  <2>6. OneRequest'
    <3>1. \A s \in Request : request'[s].live <=> s = r
      BY ZenonT(60), <1>6, <2>3, <2>4
    <3>2. \A s \in Request : request'[s].phase \in CallbackPhase => request'[s] = request[s]
      BY Zenon, <1>6, <2>3, <2>4 DEF CallbackPhase
    <3> QED
      BY ZenonT(60), <1>1, <2>2, <2>3, <3>1, <3>2 DEF OneRequest, Callback, CallbackPhase, Cli
  <2>7. CompletionIsReal'
    BY Zenon, <2>2, <2>5, KeptCompletion DEF Cli
  <2> QED
    BY Zenon, <2>5, <2>6, <2>7, KeptStep DEF Rest
<1> QED
  BY <1>7, <1>8

(* ExchangeClient.close keeps the invariant.                               *)
LEMMA CloseExchangeStep ==
  ASSUME Inv, CloseExchange
  PROVE  Rest'
<1>1. exchange' = [exchange EXCEPT !.closed = TRUE]
      /\ exchange \in [closed: BOOLEAN, failed: BOOLEAN, removed: BOOLEAN]
  BY Zenon DEF CloseExchange, Inv, TypeOK
<1>2. /\ exchange.closed => exchange'.closed
      /\ exchange.failed => exchange'.failed
      /\ exchange.removed => exchange'.removed
  BY Zenon, <1>1
<1> QED
  BY Zenon, <1>2, CloseClientStep DEF CloseExchange

(* So does the removal of the remote source.                               *)
LEMMA RemoveRemoteSourceStep ==
  ASSUME Inv, RemoveRemoteSource
  PROVE  Rest'
<1>1. exchange' = [exchange EXCEPT !.removed = TRUE]
      /\ exchange \in [closed: BOOLEAN, failed: BOOLEAN, removed: BOOLEAN]
  BY Zenon DEF RemoveRemoteSource, Inv, TypeOK
<1>2. /\ exchange.closed => exchange'.closed
      /\ exchange.failed => exchange'.failed
      /\ exchange.removed => exchange'.removed
  BY Zenon, <1>1
<1> QED
  BY Zenon, <1>2, CloseClientStep DEF RemoveRemoteSource
=============================================================================

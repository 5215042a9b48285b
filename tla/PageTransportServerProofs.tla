--------------------- MODULE PageTransportServerProofs ----------------------
(***************************************************************************)
(* The worker's results resource and the producing task keep the invariant *)
(* of PageTransport, and so does what becomes of a request other than a    *)
(* read: acknowledgements and deletions at the worker, lost messages, and  *)
(* at the client the sending of requests and the answers that bring no     *)
(* pages.  One lemma per action.                                           *)
(***************************************************************************)
EXTENDS PageTransportTypes

(* acknowledgePages keeps the buffer the end of the stream.                *)
LEMMA AcknowledgeStep ==
  ASSUME Inv, NEW t \in Nat, t <= client.token, ~AcknowledgeFails(buffer, t),
         buffer' = AcknowledgePages(buffer, t), UNCHANGED <<instance, stream>>
  PROVE  /\ BufferHoldsRest'
         /\ buffer' \in BufferType
         /\ buffer'.currentSequenceId <= client.token
         /\ buffer'.destroyed \/ t <= buffer'.currentSequenceId
         /\ buffer.currentSequenceId <= buffer'.currentSequenceId
         /\ buffer'.destroyed = buffer.destroyed
         /\ buffer'.noMorePages = buffer.noMorePages
         /\ buffer'.pendingRead = buffer.pendingRead
         /\ buffer.destroyed => buffer' = buffer
<1>1. buffer \in BufferType /\ client.token \in Nat /\ instance \in Nat
  BY DEF Inv, TypeOK, ClientType, Instance
<1>2. /\ buffer' \in BufferType
      /\ buffer'.destroyed = buffer.destroyed
      /\ buffer'.noMorePages = buffer.noMorePages
      /\ buffer'.pendingRead = buffer.pendingRead
      /\ buffer.destroyed => buffer' = buffer
      /\ ~buffer.destroyed => t <= buffer'.currentSequenceId
      /\ buffer.currentSequenceId <= buffer'.currentSequenceId
      /\ buffer'.currentSequenceId \in {buffer.currentSequenceId, t}
      /\ buffer'.currentSequenceId + Len(buffer'.pages)
           = buffer.currentSequenceId + Len(buffer.pages)
      /\ \A i \in 1..Len(buffer'.pages) :
           buffer'.pages[i]
             = buffer.pages[i + (buffer'.currentSequenceId - buffer.currentSequenceId)]
  BY <1>1, AcknowledgePagesProperties
<1>3. buffer'.currentSequenceId <= client.token
  BY Zenon, <1>2 DEF Inv, Tokens
<1>4. BufferHoldsRest'
  <2> DEFINE c == buffer.currentSequenceId
             d == buffer'.currentSequenceId
             m == Len(buffer.pages)
             k == Len(buffer'.pages)
             n == Len(stream)
  <2>1. c \in Nat /\ d \in Nat /\ m \in Nat /\ k \in Nat
    BY Zenon, <1>1, <1>2, SequenceLen DEF BufferType
  <2>2. d + k = c + m /\ c <= d /\ d \in {c, t}
        /\ \A i \in 1..k : buffer'.pages[i] = buffer.pages[i + (d - c)]
    BY Zenon, <1>2
  <2>3. CASE buffer.destroyed
    BY Zenon, <1>2, <2>3 DEF Inv, BufferHoldsRest
  <2>4. CASE ~buffer.destroyed /\ instance = 1
    <3>1. c + m = n /\ \A i \in 1..m : buffer.pages[i] = stream[c + i]
      BY Zenon, <2>4 DEF Inv, BufferHoldsRest
    <3> HIDE DEF c, d, m, k, n
    <3>2. d + k = n
      BY Zenon, <2>2, <3>1
    <3>3. ASSUME NEW i \in 1..k
          PROVE  buffer'.pages[i] = stream[d + i]
      <4>1. i + (d - c) \in 1..m /\ c + (i + (d - c)) = d + i
        BY <2>1, <2>2
      <4> QED
        BY Zenon, <2>2, <3>1, <4>1
    <3> QED
      BY <2>4, <3>2, <3>3 DEF BufferHoldsRest, c, d, m, k, n
  <2>5. CASE ~buffer.destroyed /\ instance # 1
    <3>1. buffer.pages = <<>> /\ c = 0 /\ m = 0
      BY <1>1, <2>5, SequenceEmpty DEF Inv, BufferHoldsRest, TypeOK, Instance
    <3>2. t <= c + m
      <4>1. ~(t > c + m)
        BY Zenon, <2>5 DEF AcknowledgeFails
      <4> HIDE DEF c, m
      <4> QED
        BY <2>1, <4>1
    <3>3. d = 0 /\ k = 0
      <4> HIDE DEF c, d, m, k, n
      <4> QED
        BY <2>1, <2>2, <3>1, <3>2
    <3>4. buffer'.pages = <<>>
      BY Zenon, <1>2, <3>3, SequenceEmpty DEF BufferType
    <3> QED
      BY Zenon, <2>5, <3>3, <3>4 DEF BufferHoldsRest
  <2> QED
    BY Zenon, <2>3, <2>4, <2>5
<1> QED
  BY Zenon, <1>2, <1>3, <1>4

(* The first block of ClientBuffer.getPages keeps the invariant, called    *)
(* for a request that arrives or for one the lazy buffer kept.             *)
LEMMA StartGetPagesStep ==
  ASSUME Inv, NEW r \in Request, delegate,
         request[r].kind = "get", request[r].phase \in {"sent", "waiting"},
         buffer.pendingRead # r,
         StartGetPages(r), lazyReads' = lazyReads \ {r},
         UNCHANGED <<instance, task, delegate, aborted, bufferState, writing, clientVars, historyVars>>
  PROVE  Rest'
<1> USE DEF Inv, serverVars, clientVars, historyVars
<1> DEFINE t == request[r].token
<1>1. /\ buffer \in BufferType
      /\ \A s \in Request : request[s] \in RequestType
      /\ t \in Nat /\ t <= client.token
  BY Zenon DEF TypeOK, RequestType, Tokens
<1>2. \A s \in Request : s # r => request'[s] = request[s]
  BY Zenon DEF StartGetPages, TypeOK
<1> DEFINE ph == IF AcknowledgeFails(buffer, t) THEN "error" ELSE "acked"
<1>3. request'[r] = [request[r] EXCEPT !.phase = ph]
  BY Zenon DEF StartGetPages, TypeOK
<1>4. Is(request'[r], "get", ph, request[r].live, t, request[r].result) /\ ph \in {"acked", "error"}
  <2>1. \A x : Is([request[r] EXCEPT !.phase = x], request[r].kind, x, request[r].live, t,
                 request[r].result)
    BY Zenon, <1>1, RequestFields
  <2> QED
    BY <1>3, <2>1 DEF Is
<1>5. /\ BufferHoldsRest'
      /\ buffer' \in BufferType
      /\ buffer'.currentSequenceId <= client.token
      /\ ph = "acked" => buffer'.destroyed \/ t <= buffer'.currentSequenceId
      /\ buffer.currentSequenceId <= buffer'.currentSequenceId
      /\ buffer'.destroyed = buffer.destroyed
      /\ buffer'.noMorePages = buffer.noMorePages
      /\ buffer'.pendingRead = buffer.pendingRead
      /\ buffer.destroyed => buffer' = buffer
  <2>1. CASE AcknowledgeFails(buffer, t)
    <3>1. buffer' = buffer /\ ph = "error"
      BY Zenon, <2>1 DEF StartGetPages
    <3>2. buffer.currentSequenceId <= buffer.currentSequenceId
      <4>1. buffer.currentSequenceId \in Nat
        BY Zenon, <1>1 DEF BufferType
      <4> QED
        BY <4>1
    <3> QED
      BY <1>1, <3>1, <3>2, FrameBufferHoldsRest DEF Tokens
  <2>2. CASE ~AcknowledgeFails(buffer, t)
    <3>1. buffer' = AcknowledgePages(buffer, t)
      BY Zenon, <2>2 DEF StartGetPages
    <3> QED
      BY <1>1, <2>2, <3>1, AcknowledgeStep
  <2> QED
    BY Zenon, <2>1, <2>2
<1>6. instance = 1 => ph # "error"
  <2> SUFFICES ASSUME instance = 1 PROVE ~AcknowledgeFails(buffer, t)
    BY Zenon
  <2>1. CASE buffer.destroyed
    BY Zenon, <2>1 DEF AcknowledgeFails
  <2>2. CASE ~buffer.destroyed
    <3>1. buffer.currentSequenceId + Len(buffer.pages) = Len(stream)
      BY Zenon, <2>2 DEF BufferHoldsRest
    <3>2. t <= Len(stream)
      <4>1. client.token <= Len(stream) /\ client.token \in Nat /\ Len(stream) \in Nat
        BY Zenon, SequenceLen DEF Tokens, TypeOK, ClientType
      <4> HIDE DEF t
      <4> QED
        BY <1>1, <4>1
    <3>3. ~(t > Len(stream))
      <4>1. Len(stream) \in Nat
        BY Zenon, SequenceLen DEF TypeOK
      <4> HIDE DEF t
      <4> QED
        BY <1>1, <3>2, <4>1
    <3> QED
      BY Zenon, <3>1, <3>3 DEF AcknowledgeFails
  <2> QED
    BY Zenon, <2>1, <2>2
<1> HIDE DEF ph
<1>7. \A s \in Request : Unaffected(s)
  <2>1. Unaffected(r)
    BY Zenon, <1>4 DEF Unaffected, Is, Callback, CallbackPhase
  <2> QED
    BY Zenon, <1>2, <2>1, SameUnaffected
<1>8. \A s \in Request : AnswersFromStream(s) /\ AnswersTruly(s)
  <2>1. \A s \in Request : request'[s].phase # "reply" \/ request'[s] = request[s]
    BY Zenon, <1>2, <1>4 DEF Is
  <2> QED
    BY Zenon, <2>1, SameAnswer
<1>9. EndStays
  BY Zenon DEF EndStays, AtEnd
<1>10. OneRequest' /\ ResultsFromStream' /\ CompleteResults' /\ TokenCounts' /\ CompletionIsReal'
  BY SMTT(30), <1>7, <1>8, <1>9, UnaffectedOneRequest, UnaffectedResultsFromStream,
     UnaffectedCompleteResults, UnaffectedTokenCounts, FrameCompletionIsReal
<1>11. Phases'
  <2>1. ASSUME NEW s \in Request, s # r
        PROVE  /\ request'[s].phase \in ServerPhase => request'[s].kind = "get"
               /\ request'[s].kind = "ack" => request'[s].phase = "sent"
               /\ request'[s].kind = "delete" => request'[s].phase \in {"sent", "reply", "lost"}
               /\ s \in lazyReads' => request'[s].phase = "waiting" /\ buffer'.pendingRead # s
               /\ buffer'.pendingRead = s => request'[s].phase = "waiting"
    BY SMTT(30), <1>2, <1>5, <2>1 DEF Phases
  <2>2. r \notin lazyReads' /\ buffer'.pendingRead # r
    BY Zenon, <1>5
  <2> QED
    BY SMTT(30), <1>4, <2>1, <2>2 DEF Phases, Is
<1>12. Destruction'
  <2>1. \A s \in Request : request'[s].kind = request[s].kind
    BY Zenon, <1>2, <1>4 DEF Is
  <2> QED
    BY Zenon, <1>5, <2>1 DEF Destruction, Exhausted
<1>13. Tokens'
  <2>1. ASSUME NEW s \in Request, s # r
        PROVE  /\ request'[s].token <= client.token
               /\ request'[s].phase \in {"acked", "taken"} \/ buffer'.pendingRead = s =>
                    buffer'.destroyed \/ request'[s].token <= buffer'.currentSequenceId
               /\ instance = 1 => request'[s].phase # "error"
    <3>1. request'[s].token \in Nat /\ buffer.currentSequenceId \in Nat
      BY Zenon, <1>1, <1>2, <2>1 DEF RequestType, BufferType
    <3>2. buffer'.currentSequenceId \in Nat
      BY Zenon, <1>5 DEF BufferType
    <3> QED
      BY <1>2, <1>5, <2>1, <3>1, <3>2 DEF Tokens
  <2>2. /\ request'[r].token <= client.token
        /\ request'[r].phase \in {"acked", "taken"} =>
             buffer'.destroyed \/ request'[r].token <= buffer'.currentSequenceId
        /\ instance = 1 => request'[r].phase # "error"
        /\ buffer'.pendingRead # r
    BY Zenon, <1>1, <1>4, <1>5, <1>6 DEF Is
  <2> QED
    BY <1>5, <2>1, <2>2 DEF Tokens
<1>14. EndOfStream'
  BY Zenon, <1>5 DEF EndOfStream
<1> QED
  BY <1>5, <1>10, <1>11, <1>12, <1>13, <1>14 DEF Rest

(* The arrival of a GET keeps the invariant.                               *)
LEMMA ArriveGetStep ==
  ASSUME Inv, NEW r \in Request, ArriveGet(r)
  PROVE  Rest'
<1> USE DEF Inv, serverVars, clientVars, historyVars
<1>1. /\ UNCHANGED <<instance, task, delegate, aborted, bufferState, writing, client, exchange,
                     received, stream, dropped, completion, outputDone, cancelled>>
      /\ request[r].kind = "get" /\ request[r].phase = "sent"
      /\ request[r] \in RequestType
  BY Zenon DEF ArriveGet, TypeOK
<1>2. r \notin lazyReads /\ buffer.pendingRead # r
  BY Zenon, <1>1 DEF Phases
<1>3. CASE delegate
  <2>1. StartGetPages(r) /\ lazyReads' = lazyReads \ {r}
    BY Zenon, <1>2, <1>3 DEF ArriveGet
  <2> QED
    BY <1>1, <1>2, <1>3, <2>1, StartGetPagesStep
<1>4. CASE ~delegate
  <2>1. UNCHANGED buffer
    BY Zenon, <1>4 DEF ArriveGet
  <2>2. buffer.pendingRead = NoRead
    BY Zenon, <1>4, BufferFields DEF Destruction, TypeOK, Buf
  <2>3. \A s \in Request : s # r => request'[s] = request[s]
    BY Zenon, <1>4 DEF ArriveGet, TypeOK
  <2>4. \/ /\ instance \in cancelled /\ lazyReads' = lazyReads
           /\ request'[r] = Replied(request[r], EmptyResults(instance, 0, TRUE))
        \/ /\ request'[r] = [request[r] EXCEPT !.phase = "waiting"]
           /\ lazyReads' = lazyReads \cup {r}
    BY Zenon, <1>4 DEF ArriveGet, TypeOK, Destruction
  <2>5. \/ /\ instance \in cancelled /\ lazyReads' = lazyReads
           /\ Is(request'[r], "get", "reply", request[r].live, request[r].token,
                 EmptyResults(instance, 0, TRUE))
        \/ /\ Is(request'[r], "get", "waiting", request[r].live, request[r].token,
                 request[r].result)
           /\ lazyReads' = lazyReads \cup {r}
    <3>1. CASE /\ instance \in cancelled /\ lazyReads' = lazyReads
               /\ request'[r] = Replied(request[r], EmptyResults(instance, 0, TRUE))
      <4>1. Is(request'[r], request[r].kind, "reply", request[r].live, request[r].token,
               EmptyResults(instance, 0, TRUE))
        BY Zenon, <1>1, <3>1, RequestFields
      <4> QED
        BY Zenon, <1>1, <3>1, <4>1
    <3>2. CASE /\ request'[r] = [request[r] EXCEPT !.phase = "waiting"]
               /\ lazyReads' = lazyReads \cup {r}
      <4>1. Is(request'[r], request[r].kind, "waiting", request[r].live, request[r].token,
               request[r].result)
        <5>1. \A x : Is([request[r] EXCEPT !.phase = x], request[r].kind, x, request[r].live,
                       request[r].token, request[r].result)
          BY Zenon, <1>1, RequestFields
        <5> QED
          BY Zenon, <3>2, <5>1
      <4> QED
        BY Zenon, <1>1, <3>2, <4>1
    <3> QED
      BY Zenon, <2>4, <3>1, <3>2
  <2>6. \A s \in Request : Unaffected(s)
    <3>1. Unaffected(r)
      BY Zenon, <1>1, <2>5 DEF Unaffected, Is, Callback, CallbackPhase
    <3> QED
      BY Zenon, <2>3, <3>1, SameUnaffected
  <2>7. \A s \in Request : AnswersFromStream(s) /\ AnswersTruly(s)
    <3>1. ASSUME instance \in cancelled, request'[r].result = EmptyResults(instance, 0, TRUE)
          PROVE  AnswersFromStream(r) /\ AnswersTruly(r)
      <4>1. ASSUME NEW id, id = instance
            PROVE  AtEnd(id)'
        BY Zenon, <1>1, <3>1, <4>1 DEF AtEnd
      <4> QED
        BY Zenon, <3>1, <4>1, EmptyAnswer
    <3>2. request'[r].phase # "reply" => AnswersFromStream(r) /\ AnswersTruly(r)
      BY Zenon, SameAnswer
    <3>3. AnswersFromStream(r) /\ AnswersTruly(r)
      BY Zenon, <2>5, <3>1, <3>2 DEF Is
    <3> QED
      BY Zenon, <2>3, <3>3, SameAnswer
  <2>8. EndStays
    BY Zenon, <1>1 DEF EndStays, AtEnd
  <2>9. OneRequest' /\ ResultsFromStream' /\ CompleteResults' /\ TokenCounts' /\ CompletionIsReal'
    BY SMTT(30), <1>1, <2>6, <2>7, <2>8, UnaffectedOneRequest, UnaffectedResultsFromStream,
       UnaffectedCompleteResults, UnaffectedTokenCounts, FrameCompletionIsReal
  <2>10. Phases'
    <3>1. ASSUME NEW s \in Request, s # r
          PROVE  /\ request'[s].phase \in ServerPhase => request'[s].kind = "get"
                 /\ request'[s].kind = "ack" => request'[s].phase = "sent"
                 /\ request'[s].kind = "delete" => request'[s].phase \in {"sent", "reply", "lost"}
                 /\ s \in lazyReads' => request'[s].phase = "waiting"
                 /\ request'[s].phase = "acked" => delegate'
      BY Zenon, <1>1, <2>3, <2>5, <3>1 DEF Phases
    <3>2. /\ request'[r].kind = "get"
          /\ request'[r].phase # "acked"
          /\ r \in lazyReads' => request'[r].phase = "waiting"
      BY Zenon, <1>2, <2>5 DEF Is
    <3>3. \A s \in Request : buffer'.pendingRead # s
      BY Zenon, <2>1, <2>2, ReadAssumption
    <3> QED
      BY <3>1, <3>2, <3>3 DEF Phases
  <2>11. Destruction'
    <3>1. \A s \in Request : request'[s].kind = request[s].kind
      BY ZenonT(60), <1>1, <2>3, <2>5 DEF Is
    <3> QED
      BY <1>1, <2>1, <3>1 DEF Destruction, Exhausted
  <2>12. BufferHoldsRest' /\ EndOfStream'
    BY <1>1, <2>1, FrameBufferHoldsRest, FrameEndOfStream
  <2>13. Tokens'
    <3>1. /\ request'[r].token = request[r].token
          /\ request'[r].phase \notin {"acked", "taken", "error"}
      BY Zenon, <2>5 DEF Is
    <3> QED
      BY SMTT(30), <1>1, <2>1, <2>2, <2>3, <3>1, ReadAssumption DEF Tokens
  <2> QED
    BY <2>9, <2>10, <2>11, <2>12, <2>13 DEF Rest
<1> QED
  BY Zenon, <1>3, <1>4

(* So does the replay of a read that came before the buffer.               *)
LEMMA ProcessLazyReadStep ==
  ASSUME Inv, NEW r \in Request, ProcessLazyRead(r)
  PROVE  Rest'
<1>1. /\ request[r].phase = "waiting" /\ buffer.pendingRead # r
      /\ request[r].kind = "get"
  BY Zenon DEF ProcessLazyRead, Inv, Phases, ServerPhase
<1> QED
  BY Zenon, <1>1, StartGetPagesStep DEF ProcessLazyRead

(* What processRead answers is from the stream, and complete only when     *)
(* that is the truth - for a read the client still waits for.              *)
LEMMA ReadAnswer ==
  ASSUME Inv, NEW r \in Request, ~ReadFails(buffer, request[r].token),
         NEW x, x = ProcessRead(buffer, instance, request[r].token, MaxBytes)
  PROVE  /\ FromStream(x)
         /\ x.taskInstanceId = instance
         /\ x.complete /\ request[r].kind = "get" /\ request[r].live => AtEnd(instance)
<1>1. /\ buffer \in BufferType /\ instance \in Instance /\ instance \in Nat
      /\ request[r].token \in Nat
      /\ instance # 1 => instance > 1
  BY DEF Inv, TypeOK, RequestType, Instance
<1>2. /\ x \in Results(Instance)
      /\ x.taskInstanceId = instance
      /\ x.nextToken = x.token + Len(x.pages)
      /\ x.complete => Exhausted(buffer)
      /\ x.pages # <<>> =>
           /\ x.token = buffer.currentSequenceId
           /\ Len(x.pages) <= Len(buffer.pages)
           /\ \A i \in 1..Len(x.pages) : x.pages[i] = buffer.pages[i]
  BY SMTT(30), <1>1, ProcessReadProperties
<1>3. FromStream(x)
  <2>1. CASE x.pages = <<>>
    BY <1>2, <2>1, SequenceEmpty DEF FromStream
  <2>2. CASE x.pages # <<>>
    <3> DEFINE c == buffer.currentSequenceId
               m == Len(buffer.pages)
               k == Len(x.pages)
               n == Len(stream)
    <3>1. c \in Nat /\ m \in Nat /\ k \in Nat /\ n \in Nat /\ k > 0
      <4>1. buffer.pages \in Seq(Page) /\ x.pages \in Seq(Page) /\ stream \in Seq(Page)
        BY Zenon, <1>1, <1>2 DEF BufferType, Results, Inv, TypeOK
      <4>2. c \in Nat
        BY Zenon, <1>1 DEF BufferType
      <4>3. m \in Nat /\ k \in Nat /\ n \in Nat
        BY Zenon, <4>1, SequenceLen
      <4>4. k # 0
        BY Zenon, <2>2, <4>1, SequenceEmpty
      <4> QED
        BY <4>2, <4>3, <4>4
    <3>2. k <= m /\ x.token = c /\ x.nextToken = c + k
          /\ \A i \in 1..k : x.pages[i] = buffer.pages[i]
      BY Zenon, <1>2, <2>2
    <3>3. buffer.pages # <<>>
      BY <3>1, <3>2, SequenceEmpty
    <3>4. instance = 1 /\ ~buffer.destroyed
      BY <1>1, <3>3 DEF Inv, BufferHoldsRest, Destruction, Exhausted
    <3>5. c + m = n /\ \A i \in 1..m : buffer.pages[i] = stream[c + i]
      BY Zenon, <3>4 DEF Inv, BufferHoldsRest
    <3> HIDE DEF c, m, k, n
    <3>6. x.nextToken <= n
      BY <3>1, <3>2, <3>5
    <3>7. \A i \in 1..k : x.pages[i] = stream[x.token + i]
      BY <3>1, <3>2, <3>5
    <3> QED
      BY Zenon, <1>2, <3>6, <3>7 DEF FromStream, n, k
  <2> QED
    BY Zenon, <2>1, <2>2
<1>4. ASSUME x.complete, request[r].kind = "get", request[r].live
      PROVE  AtEnd(instance)
  <2>1. ~client.completed /\ ~client.closed
    BY Zenon, <1>4 DEF Inv, OneRequest
  <2>2. buffer.pages = <<>> /\ buffer.noMorePages
    BY <1>2, <1>4 DEF Exhausted
  <2>3. CASE buffer.destroyed
    BY Zenon, <2>1, <2>3 DEF Inv, Destruction, AtEnd
  <2>4. CASE ~buffer.destroyed
    <3>1. instance = 1
      BY <1>1, <2>2, <2>4 DEF Inv, EndOfStream
    <3>2. outputDone /\ (dropped => completion = "overtaken")
      <4>1. outputDone
        BY Zenon, <2>2, <2>4, <3>1 DEF Inv, EndOfStream
      <4>2. /\ completion \in {"checking", "overtaken"}
            /\ dropped => completion \in {"overtaken", "failed"}
        BY Zenon, <2>4, <3>1, <4>1 DEF Inv, EndOfStream
      <4> QED
        BY Zenon, <4>1, <4>2
    <3>3. client.token = Len(stream)
      <4>1. client.token \in Nat /\ Len(stream) \in Nat /\ buffer.currentSequenceId \in Nat
        BY Zenon, <1>1, SequenceLen DEF Inv, TypeOK, ClientType, BufferType
      <4>2. buffer.currentSequenceId = Len(stream)
        <5>1. Len(buffer.pages) = 0 /\ buffer.currentSequenceId + Len(buffer.pages) = Len(stream)
          BY SMTT(30), <2>2, <2>4, <3>1, SequenceEmpty DEF Inv, BufferHoldsRest
        <5> QED
          BY <4>1, <5>1
      <4>3. client.token <= Len(stream) /\ buffer.currentSequenceId <= client.token
        BY Zenon DEF Inv, Tokens
      <4> QED
        BY <4>1, <4>2, <4>3
    <3> QED
      BY Zenon, <3>1, <3>2, <3>3 DEF AtEnd
  <2> QED
    BY Zenon, <2>3, <2>4
<1> QED
  BY <1>2, <1>3, <1>4

(* So does the answer to a pending read that was taken under the lock.     *)
LEMMA AnswerTakenReadStep ==
  ASSUME Inv, NEW r \in Request, AnswerTakenRead(r)
  PROVE  Rest'
<1> USE DEF Inv, serverVars, clientVars, historyVars
<1> DEFINE x == ProcessRead(buffer, instance, request[r].token, MaxBytes)
<1>1. /\ UNCHANGED <<instance, task, delegate, aborted, lazyReads, bufferState, buffer, writing, client,
                     exchange, received, stream, dropped, completion, outputDone, cancelled>>
      /\ request[r].phase = "taken" /\ request[r].kind = "get"
      /\ \A s \in Request : s # r => request'[s] = request[s]
      /\ request[r] \in RequestType
      /\ request'[r] = Replied(request[r], x)
      /\ ~ReadFails(buffer, request[r].token)
  BY DEF AnswerTakenRead, TypeOK, Phases, ServerPhase
<1> HIDE DEF x
<1>2. Is(request'[r], request[r].kind, "reply", request[r].live, request[r].token, x)
  BY Zenon, <1>1, RequestFields
<1>3. /\ FromStream(x)
      /\ x.taskInstanceId = instance
      /\ x.complete /\ request[r].live => AtEnd(instance)
  BY ZenonT(60), <1>1, ReadAnswer DEF x
<1>4. \A s \in Request : Unaffected(s)
  <2>1. Unaffected(r)
    BY Zenon, <1>1, <1>2 DEF Unaffected, Is, Callback, CallbackPhase
  <2> QED
    BY SMTT(30), <1>1, <2>1, SameUnaffected
<1>5. EndStays
  BY Zenon, <1>1 DEF EndStays, AtEnd
<1>6. \A s \in Request : AnswersFromStream(s) /\ AnswersTruly(s)
  <2>1. AnswersFromStream(r)
    BY Zenon, <1>2, <1>3 DEF AnswersFromStream, Is
  <2>2. AnswersTruly(r)
    BY <1>2, <1>3, <1>5 DEF AnswersTruly, Is, EndStays
  <2> QED
    BY <1>1, <2>1, <2>2, SameAnswer
<1>7. OneRequest' /\ ResultsFromStream' /\ CompleteResults' /\ TokenCounts' /\ CompletionIsReal'
      /\ BufferHoldsRest' /\ EndOfStream'
  BY ZenonT(60), <1>1, <1>4, <1>5, <1>6, UnaffectedOneRequest, UnaffectedResultsFromStream,
     UnaffectedCompleteResults, UnaffectedTokenCounts, FrameCompletionIsReal,
     FrameBufferHoldsRest, FrameEndOfStream
<1>8. Phases'
  BY <1>1, <1>2 DEF Phases, Is, ServerPhase
<1>9. Destruction'
  BY Zenon, <1>1, <1>2 DEF Destruction, Is, Exhausted
<1>10. Tokens'
  BY <1>1, <1>2 DEF Tokens, Is, Phases
<1> QED
  BY SMTT(30), <1>7, <1>8, <1>9, <1>10 DEF Rest

(* So does the timeout of a read, answered without pages.                  *)
LEMMA ReadTimeoutStep ==
  ASSUME Inv, NEW r \in Request, ReadTimeout(r)
  PROVE  Rest'
<1> USE DEF Inv, serverVars, clientVars, historyVars
<1>1. /\ UNCHANGED <<instance, task, delegate, aborted, bufferState, writing, client,
                     exchange, received, stream, dropped, completion, outputDone, cancelled>>
      /\ request[r].phase \in {"waiting", "taken"} /\ request[r].kind = "get"
      /\ \A s \in Request : s # r => request'[s] = request[s]
      /\ request[r] \in RequestType
      /\ request'[r] = NotComplete(request[r])
      /\ buffer' = ReadDone(buffer, r)
      /\ lazyReads' = lazyReads \ {r}
      /\ request[r].token \in Nat
  BY DEF ReadTimeout, TypeOK, Phases, ServerPhase, RequestType
<1>2. Is(request'[r], request[r].kind, "reply", request[r].live, request[r].token,
         EmptyResults(instance, request[r].token, FALSE))
  BY ZenonT(60), <1>1, RequestFields
<1>3. /\ Buf(buffer', buffer.currentSequenceId, buffer.pages, buffer.noMorePages,
             buffer.destroyed, buffer'.pendingRead)
      /\ buffer'.pendingRead # r
      /\ \A s \in Request : buffer'.pendingRead = s => buffer.pendingRead = s
  <2>1. buffer \in BufferType
    BY Zenon DEF TypeOK
  <2>2. CASE buffer.pendingRead = r
    <3>1. buffer' = [buffer EXCEPT !.pendingRead = DoneRead]
      BY <1>1, <2>2 DEF ReadDone
    <3>2. Buf(buffer', buffer.currentSequenceId, buffer.pages, buffer.noMorePages,
             buffer.destroyed, DoneRead)
      BY Zenon, <2>1, <3>1 DEF Buf, BufferType
    <3> QED
      BY Zenon, <3>2, ReadAssumption DEF Buf
  <2>3. CASE buffer.pendingRead # r
    <3>1. buffer' = buffer
      BY Zenon, <1>1, <2>3 DEF ReadDone
    <3> QED
      BY Zenon, <2>3, <3>1 DEF Buf
  <2> QED
    BY Zenon, <2>2, <2>3
<1>4. \A s \in Request : Unaffected(s)
  <2>1. Unaffected(r)
    BY Zenon, <1>1, <1>2 DEF Unaffected, Is, Callback, CallbackPhase
  <2> QED
    BY Zenon, <1>1, <2>1, SameUnaffected
<1>5. EndStays
  BY Zenon, <1>1 DEF EndStays, AtEnd
<1>6. \A s \in Request : AnswersFromStream(s) /\ AnswersTruly(s)
  <2>1. AnswersFromStream(r) /\ AnswersTruly(r)
    BY ZenonT(60), <1>1, <1>2, EmptyAnswer DEF Is
  <2> QED
    BY <1>1, <2>1, SameAnswer
<1>7. OneRequest' /\ ResultsFromStream' /\ CompleteResults' /\ TokenCounts' /\ CompletionIsReal'
  <2>1. OneRequest' /\ TokenCounts'
    BY ZenonT(60), <1>1, <1>4, UnaffectedOneRequest, UnaffectedTokenCounts
  <2>2. ResultsFromStream' /\ CompleteResults'
    BY ZenonT(60), <1>1, <1>4, <1>5, <1>6, UnaffectedResultsFromStream, UnaffectedCompleteResults
  <2>3. CompletionIsReal'
    BY Zenon, <1>1, FrameCompletionIsReal
  <2> QED
    BY Zenon, <2>1, <2>2, <2>3
<1>8. Phases'
  <2>1. request'[r].kind = "get" /\ request'[r].phase = "reply" /\ buffer'.pendingRead # r
    BY Zenon, <1>1, <1>2, <1>3 DEF Is
  <2>2. ASSUME NEW s \in Request, s # r
        PROVE  /\ request'[s] = request[s]
               /\ buffer'.pendingRead = s => buffer.pendingRead = s
               /\ s \in lazyReads' => s \in lazyReads
    BY ZenonT(60), <1>1, <1>3, <2>2
  <2>3. r \notin lazyReads'
    BY Zenon, <1>1
  <2>4. \A s \in lazyReads : buffer'.pendingRead # s
    BY Zenon, <1>3 DEF Phases, TypeOK
  <2> QED
    BY <1>1, <2>1, <2>2, <2>3, <2>4, SMTT(60) DEF Phases, ServerPhase
<1>9. Destruction'
  <2>1. ~delegate => buffer' = NewBuffer
    <3>1. ~delegate => buffer = NewBuffer
      BY Zenon DEF Destruction
    <3>2. NewBuffer.pendingRead # r
      BY Zenon, ReadAssumption DEF NewBuffer
    <3> QED
      BY Zenon, <1>1, <3>1, <3>2 DEF ReadDone
  <2>2. \A s \in Request : request'[s].kind = request[s].kind
    BY Zenon, <1>1, <1>2 DEF Is
  <2> QED
    BY ZenonT(60), <1>1, <1>3, <2>1, <2>2 DEF Destruction, Exhausted, Buf
<1>10. Tokens'
  <2>1. ASSUME NEW s \in Request, s # r
        PROVE  request'[s] = request[s] /\ (buffer'.pendingRead = s => buffer.pendingRead = s)
    BY Zenon, <1>1, <1>3, <2>1
  <2>2. request'[r].token <= client.token /\ request'[r].phase = "reply" /\ buffer'.pendingRead # r
    BY Zenon, <1>2, <1>3 DEF Is, Tokens
  <2> QED
    BY Zenon, <1>1, <1>3, <2>1, <2>2 DEF Tokens, Buf
<1>11. BufferHoldsRest'
  BY ZenonT(60), <1>1, <1>3 DEF BufferHoldsRest, Buf
<1>12. EndOfStream'
  BY Zenon, <1>1, <1>3 DEF EndOfStream, Buf
<1> QED
  BY Zenon, <1>7, <1>8, <1>9, <1>10, <1>11, <1>12 DEF Rest

-----------------------------------------------------------------------------
(* The producing task.                                                     *)

(* The creation of the real buffer by the LazyOutputBuffer keeps the       *)
(* invariant.                                                              *)
LEMMA SetOutputBuffersStep ==
  ASSUME Inv, SetOutputBuffers
  PROVE  Rest'
<1> USE DEF Inv, serverVars, clientVars, historyVars
<1>1. buffer = NewBuffer /\ NewBuffer \in BufferType
  BY Zenon DEF SetOutputBuffers, Destruction, TypeOK
<1>2. /\ buffer'.currentSequenceId = 0
      /\ buffer'.pages = <<>>
      /\ buffer'.noMorePages = aborted
      /\ buffer'.destroyed = aborted
      /\ buffer'.pendingRead = NoRead
      /\ buffer.pendingRead = NoRead
      /\ buffer.currentSequenceId = 0
      /\ buffer.pages = <<>>
      /\ buffer.noMorePages = FALSE /\ buffer.destroyed = FALSE
  BY ZenonT(60), <1>1, BufferFields DEF SetOutputBuffers, Buf, TypeOK
<1>3. OneRequest' /\ ResultsFromStream' /\ CompleteResults' /\ TokenCounts' /\ CompletionIsReal'
  BY FrameOneRequest, FrameResultsFromStream, FrameCompleteResults, FrameTokenCounts,
     FrameCompletionIsReal DEF SetOutputBuffers
<1>4. Phases'
  BY <1>2, FramePhases DEF SetOutputBuffers
<1>5. Destruction'
  BY Zenon, <1>2 DEF SetOutputBuffers, Destruction, Exhausted, TypeOK
<1>6. BufferHoldsRest'
  BY <1>2 DEF SetOutputBuffers, BufferHoldsRest
<1>7. Tokens'
  BY <1>2 DEF SetOutputBuffers, Tokens, Phases
<1>8. EndOfStream'
  BY Zenon, <1>2 DEF SetOutputBuffers, EndOfStream, Terminal, TypeOK
<1> QED
  BY Zenon, <1>3, <1>4, <1>5, <1>6, <1>7, <1>8 DEF Rest

(* The test of canAddPages at the start of enqueue keeps the invariant.    *)
LEMMA BeginEnqueueStep ==
  ASSUME Inv, NEW w \in Writer, BeginEnqueue(w)
  PROVE  Rest'
<1> USE DEF Inv, serverVars, clientVars, historyVars
<1>1. /\ UNCHANGED <<instance, task, delegate, aborted, lazyReads, bufferState, buffer, request,
                     client, exchange, received, stream, completion, outputDone, cancelled>>
      /\ delegate /\ instance = 1 /\ ~outputDone
      /\ \A v \in Writer : v # w => writing'[v] = writing[v]
      /\ dropped' => dropped \/ ~CanAddPages
      /\ dropped => dropped'
  BY DEF BeginEnqueue, TypeOK
<1>2. OneRequest' /\ Phases' /\ Destruction' /\ BufferHoldsRest' /\ Tokens'
      /\ ResultsFromStream' /\ TokenCounts'
  BY Zenon, <1>1, FrameOneRequest, FramePhases, FrameDestruction, FrameBufferHoldsRest, FrameTokens,
     FrameResultsFromStream, FrameTokenCounts
<1>3. EndOfStream'
  <2>1. dropped => buffer.destroyed \/ completion \in {"overtaken", "failed"}
    BY Zenon, <1>1 DEF EndOfStream
  <2>2. ~CanAddPages => bufferState \in {"FLUSHING", "FINISHED", "FAILED"}
    BY Zenon DEF CanAddPages, TypeOK
  <2>3. bufferState = "FLUSHING" => outputDone
    BY Zenon, <1>1 DEF EndOfStream
  <2>4. bufferState = "FINISHED" => buffer.destroyed
    BY Zenon, <1>1 DEF Destruction
  <2>5. bufferState = "FAILED" => completion \in {"overtaken", "failed"}
    BY Zenon, <1>1 DEF EndOfStream
  <2>6. dropped' => buffer.destroyed \/ completion \in {"overtaken", "failed"}
    BY Zenon, <1>1, <2>1, <2>2, <2>3, <2>4, <2>5
  <2> QED
    BY Zenon, <1>1, <2>6 DEF EndOfStream
<1>4. CompleteResults'
  BY Zenon, <1>1 DEF CompleteResults, AtEnd, Callback
<1>5. CompletionIsReal'
  BY <1>1 DEF CompletionIsReal, ConsumerStatus, EndReached
<1> QED
  BY SMTT(30), <1>2, <1>3, <1>4, <1>5 DEF Rest

(* So does the rest of enqueue, which may answer a pending read.           *)
LEMMA FinishEnqueueStep ==
  ASSUME Inv, NEW w \in Writer, FinishEnqueue(w)
  PROVE  Rest'
<1> USE DEF Inv, serverVars, clientVars, historyVars
<1>1. /\ UNCHANGED <<instance, task, delegate, aborted, lazyReads, bufferState, client, exchange,
                     received, completion, outputDone, cancelled>>
      /\ writing' = [writing EXCEPT ![w] = <<>>]
      /\ writing[w] # <<>>
      /\ ~outputDone /\ instance = 1 /\ delegate
  BY Zenon DEF FinishEnqueue, EndOfStream
<1>2. EndOfStream /\ TypeOK
  OBVIOUS
<1>3. CASE buffer.noMorePages
  <2>1. dropped' = TRUE /\ UNCHANGED <<buffer, request, stream>> /\ buffer.destroyed
    BY SMTT(30), <1>1, <1>3 DEF FinishEnqueue, EndOfStream
  <2>2. OneRequest' /\ Phases' /\ Destruction' /\ BufferHoldsRest' /\ Tokens'
        /\ ResultsFromStream' /\ TokenCounts'
    BY SMTT(30), <1>1, <2>1, FrameOneRequest, FramePhases, FrameDestruction, FrameBufferHoldsRest,
       FrameTokens, FrameResultsFromStream, FrameTokenCounts
  <2>3. EndOfStream'
    BY SMTT(30), <1>1, <2>1 DEF EndOfStream, TypeOK
  <2>4. CompleteResults'
    BY <1>1, <2>1 DEF CompleteResults, AtEnd, Callback
  <2>5. CompletionIsReal'
    BY <1>1, <2>1 DEF CompletionIsReal, ConsumerStatus, EndReached
  <2> QED
    BY Zenon, <2>2, <2>3, <2>4, <2>5 DEF Rest
<1>4. CASE ~buffer.noMorePages
  <2> DEFINE ps == writing[w]
  <2>1. /\ buffer' = EnqueuePages(buffer, ps)
        /\ request' = PendingTaken(request)
        /\ stream' = stream \o ps
        /\ dropped' = dropped
    BY Zenon, <1>4 DEF FinishEnqueue
  <2>2. /\ ps \in Seq(Page) /\ Len(ps) \in Nat
        /\ stream \in Seq(Page) /\ Len(stream) \in Nat
        /\ received \in Seq(Page) /\ Len(received) \in Nat
        /\ buffer.pages \in Seq(Page) /\ Len(buffer.pages) \in Nat
        /\ buffer.currentSequenceId \in Nat
        /\ client.token \in Nat
    BY Zenon, SequenceLen DEF TypeOK, BufferType, ClientType
  <2>3. /\ Len(stream') = Len(stream) + Len(ps)
        /\ \A i \in 1..Len(stream) : stream'[i] = stream[i]
        /\ \A i \in 1..Len(ps) : stream'[Len(stream) + i] = ps[i]
    BY <2>1, <2>2, SequenceConcat
  <2>4. Buf(buffer', buffer.currentSequenceId, buffer.pages \o ps,
            buffer.noMorePages, buffer.destroyed, NoRead)
    BY ZenonT(60), <2>1, BufferFields DEF TypeOK
  <2>5. \A s \in Request :
          /\ request'[s].kind = request[s].kind
          /\ request'[s].phase = IF s = buffer.pendingRead THEN "taken" ELSE request[s].phase
          /\ request'[s].live = request[s].live
          /\ request'[s].token = request[s].token
          /\ request'[s].result = request[s].result
    BY <2>1, PendingTakenFields
  <2>6. \A s \in Request : s = buffer.pendingRead => request[s].phase = "waiting" /\ request[s].kind = "get"
    BY Zenon DEF Phases, ServerPhase
  <2> HIDE DEF ps
  <2>7. OneRequest'
    BY SMTT(30), <1>1, <2>5, <2>6 DEF OneRequest, Callback, CallbackPhase
  <2>8. Phases'
    BY SMTT(30), <1>1, <2>4, <2>5, <2>6, ReadAssumption DEF Phases, ServerPhase, Buf
  <2>9. Destruction'
    BY SMTT(30), <1>1, <1>4, <2>4, <2>5 DEF Destruction, Buf, Exhausted
  <2>10. BufferHoldsRest'
    <3> DEFINE c == buffer.currentSequenceId
               m == Len(buffer.pages)
               n == Len(stream)
               k == Len(ps)
    <3>1. ~buffer.destroyed
      BY Zenon, <1>4 DEF Destruction, Exhausted
    <3>2. c \in Nat /\ m \in Nat /\ n \in Nat /\ k \in Nat
      BY Zenon, <2>2
    <3>3. c + m = n /\ \A i \in 1..m : buffer.pages[i] = stream[c + i]
      BY <1>1, <3>1 DEF BufferHoldsRest
    <3>4. /\ Len(buffer'.pages) = m + k
          /\ \A i \in 1..(m + k) :
               buffer'.pages[i] = IF i <= m THEN buffer.pages[i] ELSE ps[i - m]
      BY <2>2, <2>4, SequenceConcat DEF Buf
    <3>5. /\ Len(stream') = n + k
          /\ \A i \in 1..n : stream'[i] = stream[i]
          /\ \A i \in 1..k : stream'[n + i] = ps[i]
      BY Zenon, <2>3
    <3> HIDE DEF c, m, n, k
    <3>6. c + (m + k) = n + k
      BY SMTT(30), <3>2, <3>3
    <3>7. ASSUME NEW i \in 1..(m + k)
          PROVE  buffer'.pages[i] = stream'[c + i]
      <4>1. CASE i <= m
        <5>1. i \in 1..m /\ c + i \in 1..n
          BY SMTT(30), <3>2, <3>3, <4>1
        <5> QED
          BY SMTT(30), <3>3, <3>4, <3>5, <4>1, <5>1
      <4>2. CASE ~(i <= m)
        <5>1. i - m \in 1..k /\ c + i = n + (i - m)
          BY SMTT(30), <3>2, <3>3, <4>2
        <5> QED
          BY SMTT(30), <3>4, <3>5, <4>2, <5>1
      <4> QED
        BY SMTT(30), <4>1, <4>2
    <3> QED
      BY SMTT(30), <1>1, <2>4, <3>4, <3>5, <3>6, <3>7 DEF BufferHoldsRest, Buf, c
  <2>11. Tokens'
    <3>1. client.token <= Len(stream')
      BY SMTT(30), <2>2, <2>3 DEF Tokens
    <3>2. ASSUME NEW s \in Request
          PROVE  /\ request'[s].token <= client.token
                 /\ request'[s].phase \in {"acked", "taken"} =>
                      buffer.destroyed \/ request'[s].token <= buffer.currentSequenceId
                 /\ request'[s].phase # "error"
      BY <1>1, <2>5 DEF Tokens
    <3>3. \A s \in Request : buffer'.pendingRead # s
      BY SMTT(30), <2>4, ReadAssumption DEF Buf
    <3> QED
      BY SMTT(30), <1>1, <2>4, <3>1, <3>2, <3>3 DEF Tokens, Buf
  <2>12. EndOfStream'
    <3>1. <<>> # ps /\ \A v \in Writer : writing'[v] # <<>> => writing[v] # <<>>
      BY Zenon, <1>1 DEF TypeOK, ps
    <3> QED
      BY SMTT(30), <1>1, <1>4, <2>1, <2>4, <3>1 DEF EndOfStream, Buf
  <2>13. ResultsFromStream'
    <3>1. ASSUME NEW s \in Request, request'[s].kind = "get",
                 request'[s].phase \in {"reply", "received"}
          PROVE  LET result == request[s].result
                 IN  /\ result.nextToken = result.token + Len(result.pages)
                     /\ result.pages # <<>> => result.nextToken <= Len(stream')
                     /\ \A i \in 1..Len(result.pages) :
                          result.pages[i] = stream'[result.token + i]
      <4> DEFINE result == request[s].result
      <4>1. /\ result.nextToken = result.token + Len(result.pages)
            /\ result.pages # <<>> => result.nextToken <= Len(stream)
            /\ \A i \in 1..Len(result.pages) : result.pages[i] = stream[result.token + i]
        BY <2>5, <2>6, <3>1 DEF ResultsFromStream, FromStream
      <4>2. /\ result.pages \in Seq(Page) /\ Len(result.pages) \in Nat
            /\ result.token \in Nat /\ result.nextToken \in Nat
        BY Zenon, SequenceLen DEF TypeOK, RequestType, Results
      <4> HIDE DEF result
      <4>3. result.pages # <<>> => result.nextToken <= Len(stream')
        BY <2>2, <2>3, <4>1, <4>2
      <4>4. ASSUME NEW i \in 1..Len(result.pages)
            PROVE  result.pages[i] = stream'[result.token + i]
        <5>1. result.pages # <<>>
          BY <4>2, SequenceEmpty
        <5>2. result.token + i \in 1..Len(stream)
          <6> DEFINE n == Len(result.pages)
                     k == Len(stream)
                     t == result.token
          <6>1. n \in Nat /\ k \in Nat /\ t \in Nat /\ t + n <= k
            BY Zenon, <2>2, <4>1, <4>2, <5>1
          <6>2. i \in 1..n
            BY Zenon
          <6> HIDE DEF n, k, t
          <6>3. t + i \in 1..k
            BY SMTT(30), <6>1, <6>2
          <6> QED
            BY Zenon, <6>3 DEF k, t
        <5> QED
          BY Zenon, <2>3, <4>1, <5>2
      <4> QED
        BY Zenon, <4>1, <4>3, <4>4 DEF result
    <3> QED
      BY SMTT(30), <2>5, <3>1 DEF ResultsFromStream, FromStream
  <2>14. CompleteResults'
    BY <1>1, <2>5, <2>6 DEF CompleteResults, AtEnd, Callback, CallbackPhase
  <2>15. TokenCounts'
    <3>1. /\ Len(received) <= Len(stream')
          /\ \A i \in 1..Len(received) : received[i] = stream'[i]
      BY <2>2, <2>3 DEF TokenCounts
    <3>2. ASSUME Accepting, NEW s \in Request, request[s].phase = "adding"
          PROVE  /\ client.token = Len(received) + Len(request[s].result.pages)
                 /\ \A i \in 1..Len(request[s].result.pages) :
                      request[s].result.pages[i] = stream'[Len(received) + i]
      <4> DEFINE pages == request[s].result.pages
      <4>1. /\ client.token = Len(received) + Len(pages)
            /\ \A i \in 1..Len(pages) : pages[i] = stream[Len(received) + i]
        BY <3>2 DEF TokenCounts
      <4>2. Len(pages) \in Nat
        BY Zenon, SequenceLen DEF TypeOK, RequestType, Results
      <4>3. client.token <= Len(stream)
        BY Zenon DEF Tokens
      <4> HIDE DEF pages
      <4>4. \A i \in 1..Len(pages) : Len(received) + i \in 1..Len(stream)
        BY <2>2, <4>1, <4>2, <4>3
      <4> QED
        BY Zenon, <2>3, <4>1, <4>4 DEF pages
    <3>3. Accepting' = Accepting
      BY Zenon, <1>1 DEF Accepting
    <3>4. \A s \in Request : /\ request'[s].phase = "adding" <=> request[s].phase = "adding"
                             /\ request'[s].result = request[s].result
      BY <2>5, <2>6
    <3>5. Accepting /\ (\A s \in Request : request[s].phase # "adding") =>
            client.token = Len(received)
      BY Zenon DEF TokenCounts
    <3>6. ASSUME Accepting', NEW s \in Request, request'[s].phase = "adding"
          PROVE  /\ client'.token = Len(received') + Len(request'[s].result.pages)
                 /\ \A i \in 1..Len(request'[s].result.pages) :
                      request'[s].result.pages[i] = stream'[Len(received') + i]
      <4>1. Accepting /\ request[s].phase = "adding" /\ request'[s].result = request[s].result
        BY Zenon, <3>3, <3>4, <3>6
      <4> QED
        BY <1>1, <3>2, <4>1
    <3>7. Accepting' /\ (\A s \in Request : request'[s].phase # "adding") =>
            client'.token = Len(received')
      BY <1>1, <3>3, <3>4, <3>5
    <3> QED
      BY Zenon, <1>1, <3>1, <3>6, <3>7 DEF TokenCounts
  <2>16. CompletionIsReal'
    BY Zenon, <1>1 DEF CompletionIsReal, ConsumerStatus, EndReached
  <2> QED
    BY SMTT(30), <2>7, <2>8, <2>9, <2>10, <2>11, <2>12, <2>13, <2>14, <2>15, <2>16 DEF Rest
<1> QED
  BY <1>3, <1>4

(* So does the end of the output (setNoMorePages).                         *)
LEMMA CheckTaskCompletionStep ==
  ASSUME Inv, CheckTaskCompletion
  PROVE  Rest'
<1> USE DEF Inv, serverVars, clientVars, historyVars
<1>1. /\ UNCHANGED <<instance, task, delegate, aborted, lazyReads, writing, client, exchange, received,
                     stream, dropped, completion, cancelled>>
      /\ outputDone' = TRUE /\ ~outputDone /\ instance = 1 /\ delegate
      /\ completion \in {"checking", "overtaken"}
      /\ \A w \in Writer : writing[w] = <<>>
      /\ bufferState' \in {bufferState, "FLUSHING", "FINISHED"}
      /\ bufferState' = "FINISHED" => buffer.destroyed
  BY Zenon DEF CheckTaskCompletion, setNoMorePages, Destruction, FlushedState
<1>2. buffer \in BufferType /\ \A s \in Request : request[s] \in RequestType
  BY Zenon DEF TypeOK
<1>3. \A s \in Request : s = buffer.pendingRead =>
        request[s].phase = "waiting" /\ request[s].kind = "get"
  BY Zenon DEF Phases, ServerPhase
<1>4. EndOfStream' /\ Destruction'
  <2>1. /\ buffer'.pages = buffer.pages
        /\ buffer'.noMorePages
        /\ buffer'.destroyed = buffer.destroyed
    <3>1. CASE buffer.noMorePages
      BY Zenon, <3>1 DEF CheckTaskCompletion, setNoMorePages
    <3>2. CASE ~buffer.noMorePages
      <4>1. buffer' = SetNoMorePages(buffer)
        BY Zenon, <3>2 DEF CheckTaskCompletion, setNoMorePages
      <4> QED
        BY ZenonT(60), <1>2, <4>1, BufferFields DEF Buf
    <3> QED
      BY Zenon, <3>1, <3>2
  <2>2. \A s \in Request : request'[s].kind = request[s].kind
    BY Zenon, PendingTakenFields DEF CheckTaskCompletion, setNoMorePages
  <2>3. EndOfStream'
    BY SMTT(30), <1>1, <2>1 DEF EndOfStream
  <2>4. Destruction'
    BY <1>1, <2>1, <2>2 DEF Destruction, Exhausted
  <2> QED
    BY Zenon, <2>3, <2>4
<1>5. CompletionIsReal'
  BY Zenon, <1>1 DEF CompletionIsReal, ConsumerStatus, EndReached
<1>6. EndStays
  BY Zenon, <1>1 DEF EndStays, AtEnd
<1>7. CASE buffer.noMorePages
  <2>1. UNCHANGED <<buffer, request>>
    BY Zenon, <1>7 DEF CheckTaskCompletion, setNoMorePages
  <2>2. CompleteResults'
    BY <1>1, <1>6, <2>1 DEF CompleteResults, Callback, EndStays
  <2> QED
    BY SMTT(30), <1>1, <1>4, <1>5, <2>1, <2>2, FrameOneRequest, FramePhases, FrameBufferHoldsRest,
       FrameTokens, FrameResultsFromStream, FrameTokenCounts DEF Rest
<1>8. CASE ~buffer.noMorePages
  <2>1. buffer' = SetNoMorePages(buffer) /\ request' = PendingTaken(request)
    BY Zenon, <1>8 DEF CheckTaskCompletion, setNoMorePages
  <2>2. Buf(buffer', buffer.currentSequenceId, buffer.pages, TRUE, buffer.destroyed, NoRead)
    BY ZenonT(60), <1>2, <2>1, BufferFields
  <2>3. \A s \in Request :
          /\ request'[s].kind = request[s].kind
          /\ request'[s].live = request[s].live
          /\ request'[s].token = request[s].token
          /\ \/ s # buffer.pendingRead /\ request'[s] = request[s]
             \/ s = buffer.pendingRead /\ request'[s].phase = "taken"
    BY SMTT(30), <2>1, PendingTakenFields DEF PendingTaken, TypeOK
  <2>4. \A s \in Request : Unaffected(s)
    BY SMTT(30), <1>3, <2>3 DEF Unaffected, OneRequest, Callback, CallbackPhase
  <2>5. Phases'
    BY SMTT(30), <1>1, <1>3, <2>2, <2>3, ReadAssumption DEF Phases, ServerPhase, Buf
  <2>6. BufferHoldsRest'
    BY SMTT(30), <1>1, <2>2 DEF BufferHoldsRest, Buf
  <2>7. Tokens'
    BY <1>1, <1>3, <2>2, <2>3, ReadAssumption DEF Tokens, Buf
  <2>8. \A s \in Request : AnswersFromStream(s) /\ AnswersTruly(s)
    BY Zenon, <2>3 DEF AnswersFromStream, AnswersTruly
  <2>9. OneRequest' /\ ResultsFromStream' /\ CompleteResults' /\ TokenCounts'
    BY ZenonT(60), <1>1, <1>6, <2>4, <2>8, UnaffectedOneRequest, UnaffectedResultsFromStream,
       UnaffectedCompleteResults, UnaffectedTokenCounts
  <2> QED
    BY <1>4, <1>5, <2>5, <2>6, <2>7, <2>9 DEF Rest
<1> QED
  BY <1>7, <1>8

(* So do the steps of the completion check that end nothing, and the       *)
(* failure of the task.                                                    *)
LEMMA CompletionStep ==
  ASSUME Inv, BeginCompletionCheck \/ LeaveCompletionCheck \/ FailTask
  PROVE  Rest'
<1> USE DEF Inv, serverVars, clientVars, historyVars
<1>1. /\ UNCHANGED <<instance, delegate, aborted, lazyReads, bufferState, buffer, writing, request,
                     client, exchange, received, stream, dropped, outputDone, cancelled>>
      /\ outputDone => completion' = completion
      /\ task' \in {task, "FAILED"}
  <2>1. CASE BeginCompletionCheck
    BY Zenon, <2>1 DEF BeginCompletionCheck
  <2>2. CASE LeaveCompletionCheck
    BY Zenon, <2>2 DEF LeaveCompletionCheck
  <2>3. CASE FailTask
    BY Zenon, <2>3 DEF FailTask
  <2> QED
    BY Zenon, <2>1, <2>2, <2>3
<1>2. OneRequest' /\ Phases' /\ BufferHoldsRest' /\ Tokens' /\ ResultsFromStream' /\ TokenCounts'
  BY Zenon, <1>1, FrameOneRequest, FramePhases, FrameBufferHoldsRest, FrameTokens,
     FrameResultsFromStream, FrameTokenCounts
<1>3. Destruction'
  BY Zenon, <1>1 DEF Destruction, Exhausted
<1>4. EndOfStream'
  <2>1. /\ instance = 1 /\ dropped => buffer.destroyed \/ completion' \in {"overtaken", "failed"}
        /\ instance = 1 /\ task' = "FAILED" =>
             outputDone \/ completion' \in {"overtaken", "failed"}
        /\ bufferState = "FAILED" => task' = "FAILED"
    <3>1. EndOfStream /\ instance \in Instance
      BY Zenon DEF TypeOK
    <3>2. CASE BeginCompletionCheck
      BY SMTT(30), <1>1, <3>1, <3>2 DEF BeginCompletionCheck, EndOfStream
    <3>3. CASE LeaveCompletionCheck
      BY SMTT(30), <1>1, <3>1, <3>3 DEF LeaveCompletionCheck, EndOfStream
    <3>4. CASE FailTask
      BY SMTT(30), BoundAssumption, <1>1, <3>1, <3>4 DEF FailTask, EndOfStream, Instance
    <3> QED
      BY Zenon, <3>2, <3>3, <3>4
  <2> QED
    BY Zenon, <1>1, <2>1 DEF EndOfStream
<1>5. CompleteResults' /\ CompletionIsReal'
  BY Zenon, <1>1
     DEF CompleteResults, AtEnd, Callback, CompletionIsReal, ConsumerStatus, EndReached
<1> QED
  BY Zenon, <1>2, <1>3, <1>4, <1>5 DEF Rest

(* So does the cancellation of the task, which is only noted here,         *)
LEMMA CancelTaskStep ==
  ASSUME Inv, CancelTask
  PROVE  Rest'
<1> USE DEF Inv, serverVars, clientVars, historyVars
<1>1. /\ UNCHANGED <<instance, delegate, aborted, lazyReads, bufferState, buffer, writing, request,
                     client, exchange, received, stream, dropped, completion, outputDone>>
      /\ cancelled' = cancelled \cup {instance}
      /\ task = "RUNNING" /\ task' = "CANCELED"
  BY Zenon DEF CancelTask
<1>2. OneRequest' /\ Phases' /\ BufferHoldsRest' /\ Tokens' /\ ResultsFromStream' /\ TokenCounts'
  BY Zenon, <1>1, FrameOneRequest, FramePhases, FrameBufferHoldsRest, FrameTokens,
     FrameResultsFromStream, FrameTokenCounts
<1>3. Destruction'
  BY Zenon, <1>1 DEF Destruction, Exhausted
<1>4. EndOfStream'
  BY Zenon, <1>1 DEF EndOfStream
<1>5. CompleteResults' /\ CompletionIsReal'
  BY Zenon, <1>1
     DEF CompleteResults, AtEnd, Callback, CompletionIsReal, ConsumerStatus, EndReached
<1> QED
  BY Zenon, <1>2, <1>3, <1>4, <1>5 DEF Rest

(* and the failure of the buffer, which keeps its pages and its readers.   *)
LEMMA FailBufferStep ==
  ASSUME Inv, FailBuffer
  PROVE  Rest'
<1> USE DEF Inv, serverVars, clientVars, historyVars
<1>1. OneRequest' /\ Phases' /\ BufferHoldsRest' /\ Tokens' /\ ResultsFromStream'
      /\ CompleteResults' /\ TokenCounts' /\ CompletionIsReal'
  BY SMTT(30), FrameOneRequest, FramePhases, FrameBufferHoldsRest, FrameTokens, FrameResultsFromStream,
     FrameCompleteResults, FrameTokenCounts, FrameCompletionIsReal DEF FailBuffer
<1>2. Destruction'
  BY Zenon DEF FailBuffer, Destruction, Exhausted
<1>3. EndOfStream'
  BY Zenon DEF FailBuffer, EndOfStream, Terminal
<1> QED
  BY SMTT(30), <1>1, <1>2, <1>3 DEF Rest

-----------------------------------------------------------------------------
(* Requests other than reads.                                              *)

(* The sequence id of a buffer is a number.                                *)
LEMMA SequenceIds ==
  ASSUME NEW b \in BufferType
  PROVE  b.currentSequenceId \in Nat /\ b.currentSequenceId <= b.currentSequenceId
BY DEF BufferType

(* What is below a number is below a larger one.                           *)
LEMMA Below ==
  ASSUME NEW a \in Nat, NEW b \in Nat, NEW c \in Nat, a <= b, b <= c
  PROVE  a <= c
OBVIOUS

(* A natural number is not below zero.                                     *)
LEMMA NotNegative == ASSUME NEW a \in Nat PROVE 0 <= a
OBVIOUS

(* No phase of a request that is served is "free".                         *)
LEMMA FreeIsNotServed == "free" \notin ServerPhase /\ "free" # "acked"
BY DEF ServerPhase

(* An acknowledgement keeps the invariant.                                 *)
LEMMA ArriveAcknowledgeStep ==
  ASSUME Inv, NEW r \in Request, ArriveAcknowledge(r)
  PROVE  Rest'
<1> USE DEF Inv, serverVars, clientVars, historyVars
<1>1. /\ UNCHANGED <<instance, task, delegate, aborted, lazyReads, bufferState, writing, client,
                     exchange, received, stream, dropped, completion, outputDone, cancelled>>
      /\ request[r].kind = "ack" /\ request[r].phase = "sent"
      /\ \A s \in Request : s # r => request'[s] = request[s]
      /\ request'[r] = Free
      /\ request[r].token \in Nat /\ request[r].token <= client.token
      /\ request[r].live \in BOOLEAN
      /\ client.token \in Nat
  BY Zenon DEF ArriveAcknowledge, TypeOK, RequestType, Tokens, ClientType
<1>2. Is(request'[r], "none", "free", FALSE, 0, EmptyResults(1, 0, FALSE))
  BY ZenonT(60), <1>1, FreeFields
<1>3. /\ BufferHoldsRest'
      /\ buffer' \in BufferType
      /\ buffer'.currentSequenceId <= client.token
      /\ buffer.currentSequenceId <= buffer'.currentSequenceId
      /\ buffer'.destroyed = buffer.destroyed
      /\ buffer'.noMorePages = buffer.noMorePages
      /\ buffer'.pendingRead = buffer.pendingRead
      /\ buffer.destroyed => buffer' = buffer
      /\ ~delegate => buffer' = buffer
  <2>1. CASE delegate /\ ~AcknowledgeFails(buffer, request[r].token)
    <3>1. buffer' = AcknowledgePages(buffer, request[r].token)
      BY <2>1 DEF ArriveAcknowledge
    <3> QED
      BY ZenonT(60), <1>1, <2>1, <3>1, AcknowledgeStep
  <2>2. CASE ~(delegate /\ ~AcknowledgeFails(buffer, request[r].token))
    <3>1. buffer' = buffer
      BY Zenon, <2>2 DEF ArriveAcknowledge
    <3>2. buffer \in BufferType /\ buffer.currentSequenceId <= buffer.currentSequenceId
      BY Zenon, SequenceIds DEF TypeOK
    <3> QED
      BY ZenonT(60), <1>1, <3>1, <3>2, FrameBufferHoldsRest DEF Tokens
  <2> QED
    BY Zenon, <2>1, <2>2
<1>4. ~request[r].live /\ r \notin lazyReads /\ buffer.pendingRead # r
  BY Zenon, <1>1 DEF OneRequest, Phases
<1>5. \A s \in Request : Unaffected(s)
  <2>1. Unaffected(r)
    BY ZenonT(60), <1>1, <1>2, <1>4 DEF Unaffected, Is, Callback, CallbackPhase
  <2> QED
    BY ZenonT(60), <1>1, <2>1, SameUnaffected
<1>6. EndStays
  BY Zenon, <1>1 DEF EndStays, AtEnd
<1>7. \A s \in Request : AnswersFromStream(s) /\ AnswersTruly(s)
  <2>1. request'[r].phase # "reply"
    BY Zenon, <1>2 DEF Is
  <2> QED
    BY Zenon, <1>1, <2>1, SameAnswer
<1>8. OneRequest' /\ ResultsFromStream' /\ CompleteResults' /\ TokenCounts' /\ CompletionIsReal'
  BY ZenonT(60), <1>1, <1>5, <1>6, <1>7, UnaffectedOneRequest, UnaffectedResultsFromStream,
     UnaffectedCompleteResults, UnaffectedTokenCounts, FrameCompletionIsReal
<1>9. Phases'
  <2>1. /\ request'[r].kind = "none" /\ request'[r].phase = "free" /\ buffer'.pendingRead # r
        /\ r \notin lazyReads'
    BY Zenon, <1>1, <1>2, <1>3, <1>4 DEF Is
  <2>2. ASSUME NEW s \in Request, s # r
        PROVE  /\ request'[s] = request[s]
               /\ buffer'.pendingRead = buffer.pendingRead
               /\ s \in lazyReads' => s \in lazyReads
    BY Zenon, <1>1, <1>3, <2>2
  <2>3. "free" \notin ServerPhase /\ "free" # "acked" /\ delegate' = delegate
    BY Zenon, <1>1, FreeIsNotServed
  <2>4. Phases
    BY Zenon, <1>1
  <2> DEFINE InPhase(s) ==
        /\ request'[s].phase \in ServerPhase => request'[s].kind = "get"
        /\ request'[s].phase = "acked" => delegate'
        /\ request'[s].kind = "ack" => request'[s].phase = "sent"
        /\ request'[s].kind = "delete" => request'[s].phase \in {"sent", "reply", "lost"}
        /\ s \in lazyReads' => request'[s].phase = "waiting" /\ buffer'.pendingRead # s
        /\ buffer'.pendingRead = s => request'[s].phase = "waiting"
  <2>5. InPhase(r)
    <3>1. "none" # "ack" /\ "none" # "delete"
      OBVIOUS
    <3> QED
      BY Zenon, <2>1, <2>3, <3>1
  <2>6. ASSUME NEW s \in Request, s # r PROVE InPhase(s)
    BY Zenon, <2>2, <2>3, <2>4, <2>6 DEF Phases
  <2> HIDE DEF InPhase
  <2>7. \A s \in Request : InPhase(s)
    BY Zenon, <2>5, <2>6
  <2> QED
    BY Zenon, <2>7 DEF InPhase, Phases
<1>10. Destruction'
  BY ZenonT(60), <1>1, <1>2, <1>3 DEF Destruction, Is, Exhausted
<1>11. Tokens'
  <2>1. ASSUME NEW s \in Request, s # r
        PROVE  /\ request'[s].token <= client.token
               /\ request'[s].phase \in {"acked", "taken"} \/ buffer'.pendingRead = s =>
                    buffer'.destroyed \/ request'[s].token <= buffer'.currentSequenceId
               /\ instance = 1 => request'[s].phase # "error"
    <3>1. request[s].token \in Nat /\ request'[s] = request[s]
      BY ZenonT(60), <1>1, <2>1 DEF TypeOK, RequestType
    <3>2. buffer.currentSequenceId \in Nat /\ buffer'.currentSequenceId \in Nat
      BY ZenonT(60), <1>3, SequenceIds DEF TypeOK
    <3>3. /\ request[s].token <= client.token
          /\ request[s].phase \in {"acked", "taken"} \/ buffer.pendingRead = s =>
               buffer.destroyed \/ request[s].token <= buffer.currentSequenceId
          /\ instance = 1 => request[s].phase # "error"
      BY Zenon, <2>1 DEF Tokens
    <3>4. request[s].token <= buffer.currentSequenceId =>
            request[s].token <= buffer'.currentSequenceId
      BY Zenon, <1>3, <3>1, <3>2, Below
    <3> QED
      BY Zenon, <1>3, <3>1, <3>3, <3>4
  <2>2. request'[r].token <= client.token /\ request'[r].phase = "free" /\ buffer'.pendingRead # r
    <3>1. 0 <= client.token
      BY Zenon, <1>1, NotNegative
    <3> QED
      BY ZenonT(60), <1>1, <1>2, <1>3, <1>4, <3>1 DEF Is
  <2> QED
    BY ZenonT(60), <1>1, <1>3, <2>1, <2>2 DEF Tokens
<1>12. EndOfStream'
  BY ZenonT(60), <1>1, <1>3 DEF EndOfStream
<1> QED
  BY SMTT(30), <1>3, <1>8, <1>9, <1>10, <1>11, <1>12 DEF Rest

(* So does the loss of a request or of an answer.                          *)
LEMMA LoseMessageStep ==
  ASSUME Inv, NEW r \in Request, LoseMessage(r)
  PROVE  Rest'
<1> USE DEF Inv, serverVars, clientVars, historyVars
<1>1. /\ UNCHANGED <<instance, task, delegate, aborted, lazyReads, bufferState, buffer, writing, client,
                     exchange, received, stream, dropped, completion, outputDone, cancelled>>
      /\ request[r].phase \in WirePhase
      /\ \A s \in Request : s # r => request'[s] = request[s]
      /\ request'[r] = Gone(request[r])
      /\ request[r] \in RequestType /\ request[r].live \in BOOLEAN
      /\ client.token \in Nat
  BY Zenon DEF LoseMessage, TypeOK, RequestType, ClientType
<1>2. \/ /\ request[r].live
         /\ Is(request'[r], request[r].kind, "lost", TRUE, request[r].token, request[r].result)
      \/ /\ ~request[r].live
         /\ Is(request'[r], "none", "free", FALSE, 0, EmptyResults(1, 0, FALSE))
  BY Zenon, <1>1, RequestFields, FreeFields
<1>3. /\ request'[r].phase \in {"lost", "free"}
      /\ request'[r].live = request[r].live
      /\ request[r].live => request'[r].kind = request[r].kind /\ request'[r].phase = "lost"
      /\ request'[r].kind \in {request[r].kind, "none"}
      /\ request'[r].kind # "none" => request[r].live
      /\ request'[r].token \in {request[r].token, 0}
  BY ZenonT(60), <1>1, <1>2 DEF Is
<1>4. r \notin lazyReads /\ buffer.pendingRead # r
  BY Zenon, <1>1 DEF Phases, WirePhase
<1>5. \A s \in Request : Unaffected(s)
  <2>1. Unaffected(r)
    BY Zenon, <1>1, <1>3 DEF Unaffected, WirePhase, Callback, CallbackPhase
  <2> QED
    BY Zenon, <1>1, <2>1, SameUnaffected
<1>6. EndStays
  BY ZenonT(60), <1>1 DEF EndStays, AtEnd
<1>7. \A s \in Request : AnswersFromStream(s) /\ AnswersTruly(s)
  <2>1. request'[r].phase # "reply"
    BY Zenon, <1>3
  <2> QED
    BY ZenonT(60), <1>1, <2>1, SameAnswer
<1>8. OneRequest' /\ ResultsFromStream' /\ CompleteResults' /\ TokenCounts' /\ CompletionIsReal'
      /\ BufferHoldsRest' /\ EndOfStream'
  BY ZenonT(60), <1>1, <1>5, <1>6, <1>7, UnaffectedOneRequest, UnaffectedResultsFromStream,
     UnaffectedCompleteResults, UnaffectedTokenCounts, FrameCompletionIsReal,
     FrameBufferHoldsRest, FrameEndOfStream
<1>9. Phases'
  <2>1. request'[r].kind # "ack"
    BY Zenon, <1>3 DEF OneRequest
  <2>2. SUFFICES ASSUME NEW s \in Request
                 PROVE  /\ request'[s].phase \in ServerPhase => request'[s].kind = "get"
                        /\ request'[s].phase = "acked" => delegate
                        /\ request'[s].kind = "ack" => request'[s].phase = "sent"
                        /\ request'[s].kind = "delete" =>
                             request'[s].phase \in {"sent", "reply", "lost"}
                        /\ s \in lazyReads =>
                             request'[s].phase = "waiting" /\ buffer.pendingRead # s
                        /\ buffer.pendingRead = s => request'[s].phase = "waiting"
    BY ZenonT(60), <1>1 DEF Phases
  <2>3. CASE s = r
    BY Zenon, <1>3, <1>4, <2>1, <2>3 DEF ServerPhase
  <2>4. CASE s # r
    <3>1. request'[s] = request[s]
      BY ZenonT(60), <1>1, <2>4
    <3> QED
      BY ZenonT(60), <3>1 DEF Phases
  <2> QED
    BY Zenon, <2>3, <2>4
<1>10. Destruction'
  BY ZenonT(60), <1>1, <1>3 DEF Destruction, Exhausted
<1>11. Tokens'
  <2>1. request'[r].token <= client.token
    <3>1. 0 <= client.token
      BY Zenon, <1>1, NotNegative
    <3>2. request[r].token <= client.token
      BY Zenon DEF Tokens
    <3> QED
      BY Zenon, <1>3, <3>1, <3>2
  <2> QED
    BY ZenonT(60), <1>1, <1>3, <1>4, <2>1 DEF Tokens
<1> QED
  BY <1>8, <1>9, <1>10, <1>11 DEF Rest

(* What getPages makes of the read r: an error only of a later instance.   *)
LEMMA GetPagesAnswer ==
  ASSUME Inv, NEW r \in Request, FinishGetPages(r)
  PROVE  /\ request'[r].kind = "get"
         /\ request'[r].live = request[r].live
         /\ request'[r].token = request[r].token
         /\ request'[r].phase \in {"reply", "waiting", "error"}
         /\ request'[r].phase = "error" => instance # 1
         /\ request'[r].phase = "reply" =>
              /\ FromStream(request'[r].result)
              /\ request'[r].result.taskInstanceId = instance
              /\ request'[r].result.complete /\ request[r].live => AtEnd(instance)
         /\ Buf(buffer', buffer.currentSequenceId, buffer.pages, buffer.noMorePages,
                buffer.destroyed, buffer'.pendingRead)
         /\ buffer'.pendingRead = NoRead \/ (buffer'.pendingRead = r /\ request'[r].phase = "waiting")
<1> DEFINE t == request[r].token
           requests == PendingAborted(request)
           x == ProcessRead(buffer, instance, t, MaxBytes)
<1>1. /\ request[r].phase = "acked" /\ request[r].kind = "get"
      /\ buffer.pendingRead # r
      /\ request[r] \in RequestType
      /\ buffer \in BufferType
  BY Zenon DEF FinishGetPages, Inv, TypeOK, Phases, ServerPhase
<1>2. requests \in [Request -> RequestType] /\ requests[r] = request[r]
  BY ZenonT(60), <1>1, PendingTypes, AbortedRequests DEF Inv, TypeOK
<1>3. \/ /\ AnswersImmediately(buffer, t)
         /\ buffer' = AbortPendingRead(buffer)
         /\ \/ /\ ReadFails(buffer, t)
               /\ request' = [requests EXCEPT ![r].phase = "error"]
            \/ /\ ~ReadFails(buffer, t)
               /\ request' = [requests EXCEPT ![r] = Replied(@, x)]
      \/ /\ buffer' = WaitForPages(buffer, r)
         /\ request' = [requests EXCEPT ![r].phase = "waiting"]
  BY Zenon DEF FinishGetPages
<1> HIDE DEF requests, t, x
<1>4. \A ph : Is([request[r] EXCEPT !.phase = ph], "get", ph, request[r].live,
                  request[r].token, request[r].result)
  BY Zenon, <1>1, RequestFields
<1>5. /\ Buf(AbortPendingRead(buffer), buffer.currentSequenceId, buffer.pages,
             buffer.noMorePages, buffer.destroyed, NoRead)
      /\ Buf(WaitForPages(buffer, r), buffer.currentSequenceId, buffer.pages,
             buffer.noMorePages, buffer.destroyed, r)
  BY Zenon, <1>1 DEF Buf, AbortPendingRead, WaitForPages, BufferType
<1>6. CASE ReadFails(buffer, t) /\ buffer' = AbortPendingRead(buffer)
           /\ request' = [requests EXCEPT ![r].phase = "error"]
  <2>1. request'[r] = [request[r] EXCEPT !.phase = "error"]
    BY Zenon, <1>2, <1>6
  <2>2. Is(request'[r], "get", "error", request[r].live, request[r].token, request[r].result)
    BY <1>4, <2>1
  <2>3. instance # 1
    <3>1. request[r].token \in Nat /\ buffer.currentSequenceId \in Nat
      BY Zenon, <1>1 DEF RequestType, BufferType
    <3>2. buffer.destroyed \/ request[r].token <= buffer.currentSequenceId
      BY Zenon, <1>1 DEF Inv, Tokens
    <3> QED
      BY <1>6, <3>1, <3>2 DEF ReadFails, t, Inv, Destruction
  <2> QED
    BY <1>5, <1>6, <2>2, <2>3 DEF Is, Buf
<1>7. CASE ~ReadFails(buffer, t) /\ buffer' = AbortPendingRead(buffer)
           /\ request' = [requests EXCEPT ![r] = Replied(@, x)]
  <2>1. request'[r] = Replied(request[r], x)
    BY Zenon, <1>2, <1>7
  <2>2. Is(request'[r], request[r].kind, "reply", request[r].live, request[r].token, x)
    BY Zenon, <1>1, <2>1, RequestFields
  <2>3. /\ FromStream(x)
        /\ x.taskInstanceId = instance
        /\ x.complete /\ request[r].live => AtEnd(instance)
    BY ZenonT(60), <1>1, <1>7, ReadAnswer DEF x, t
  <2> QED
    BY ZenonT(60), <1>1, <1>5, <1>7, <2>2, <2>3 DEF Is, Buf
<1>8. CASE buffer' = WaitForPages(buffer, r) /\ request' = [requests EXCEPT ![r].phase = "waiting"]
  <2>1. request'[r] = [request[r] EXCEPT !.phase = "waiting"]
    BY Zenon, <1>2, <1>8
  <2>2. Is(request'[r], "get", "waiting", request[r].live, request[r].token, request[r].result)
    BY Zenon, <1>4, <2>1
  <2> QED
    BY Zenon, <1>5, <1>8, <2>2 DEF Is, Buf
<1> QED
  BY SMTT(30), <1>3, <1>6, <1>7, <1>8

(* So does the second block of getPages, which reads or waits.             *)
LEMMA FinishGetPagesStep ==
  ASSUME Inv, NEW r \in Request, FinishGetPages(r)
  PROVE  Rest'
<1>0. ASSUME NEW s \in Request, NEW x, x = PendingAborted(request)[s]
      PROVE  /\ x.kind = request[s].kind
             /\ x.live = request[s].live
             /\ x.token = request[s].token
             /\ \/ s # buffer.pendingRead /\ x = request[s]
                \/ /\ s = buffer.pendingRead
                   /\ request[s].phase = "waiting"
                   /\ x.kind = "get" /\ x.phase = "reply"
                   /\ x.result = EmptyResults(instance, request[s].token, FALSE)
  BY Zenon, <1>0, AbortedRequests
<1> USE DEF Inv, serverVars, clientVars, historyVars
<1>1. /\ UNCHANGED <<instance, task, delegate, aborted, lazyReads, bufferState, writing, client,
                     exchange, received, stream, dropped, completion, outputDone, cancelled>>
      /\ request[r].phase = "acked" /\ request[r].kind = "get"
      /\ delegate
      /\ \A s \in Request : request[s].token \in Nat
  BY Zenon DEF FinishGetPages, Phases, ServerPhase, TypeOK, RequestType
<1>2. /\ request'[r].kind = "get"
      /\ request'[r].live = request[r].live
      /\ request'[r].token = request[r].token
      /\ request'[r].phase \in {"reply", "waiting", "error"}
      /\ request'[r].phase = "error" => instance # 1
      /\ request'[r].phase = "reply" =>
           /\ FromStream(request'[r].result)
           /\ request'[r].result.taskInstanceId = instance
           /\ request'[r].result.complete /\ request[r].live => AtEnd(instance)
      /\ Buf(buffer', buffer.currentSequenceId, buffer.pages, buffer.noMorePages,
             buffer.destroyed, buffer'.pendingRead)
      /\ buffer'.pendingRead = NoRead \/ (buffer'.pendingRead = r /\ request'[r].phase = "waiting")
  BY Zenon, GetPagesAnswer
<1>3. ASSUME NEW s \in Request, s # r
      PROVE  /\ request'[s].kind = request[s].kind
             /\ request'[s].live = request[s].live
             /\ request'[s].token = request[s].token
             /\ \/ s # buffer.pendingRead /\ request'[s] = request[s]
                \/ /\ s = buffer.pendingRead
                   /\ request[s].phase = "waiting"
                   /\ request'[s].kind = "get" /\ request'[s].phase = "reply"
                   /\ request'[s].result = EmptyResults(instance, request[s].token, FALSE)
  <2>1. PendingAborted(request) \in [Request -> RequestType]
    BY Zenon, PendingTypes DEF TypeOK
  <2>2. request'[s] = PendingAborted(request)[s]
    BY Zenon, <1>3, <2>1 DEF FinishGetPages
  <2> QED
    BY ZenonT(60), <1>0, <2>2
<1>4. EndStays
  BY Zenon, <1>1 DEF EndStays, AtEnd
<1>5. \A s \in Request : Unaffected(s)
  <2>1. Unaffected(r)
    BY Zenon, <1>1, <1>2 DEF Unaffected, Callback, CallbackPhase
  <2>2. ASSUME NEW s \in Request, s # r PROVE Unaffected(s)
    <3>1. CASE request'[s] = request[s]
      BY Zenon, <3>1, SameUnaffected
    <3>2. CASE request[s].phase = "waiting" /\ request'[s].phase = "reply"
      BY ZenonT(60), <1>3, <2>2, <3>2 DEF Unaffected, Callback, CallbackPhase
    <3> QED
      BY ZenonT(60), <1>3, <2>2, <3>1, <3>2
  <2> QED
    BY <2>1, <2>2
<1>6. \A s \in Request : AnswersFromStream(s) /\ AnswersTruly(s)
  <2>1. AnswersFromStream(r)
    BY Zenon, <1>2 DEF AnswersFromStream
  <2>2. AnswersTruly(r)
    BY Zenon, <1>2, <1>4 DEF AnswersTruly, EndStays
  <2>3. ASSUME NEW s \in Request, s # r PROVE AnswersFromStream(s) /\ AnswersTruly(s)
    <3>1. CASE request'[s] = request[s]
      BY <3>1, SameAnswer
    <3>2. CASE request'[s].result = EmptyResults(instance, request[s].token, FALSE)
      BY ZenonT(60), <1>1, <3>2, EmptyAnswer
    <3> QED
      BY ZenonT(60), <1>3, <2>3, <3>1, <3>2
  <2> QED
    BY <2>1, <2>2, <2>3
<1>7. OneRequest' /\ ResultsFromStream' /\ CompleteResults' /\ TokenCounts' /\ CompletionIsReal'
  <2>1. OneRequest' /\ TokenCounts'
    BY ZenonT(60), <1>1, <1>5, UnaffectedOneRequest, UnaffectedTokenCounts
  <2>2. ResultsFromStream' /\ CompleteResults'
    BY ZenonT(60), <1>1, <1>4, <1>5, <1>6, UnaffectedResultsFromStream, UnaffectedCompleteResults
  <2>3. CompletionIsReal'
    BY Zenon, <1>1, FrameCompletionIsReal
  <2> QED
    BY Zenon, <2>1, <2>2, <2>3
<1>8. Phases'
  <2>1. ASSUME NEW s \in Request
        PROVE  /\ request'[s].phase \in ServerPhase => request'[s].kind = "get"
               /\ request'[s].phase = "acked" => delegate
               /\ request'[s].kind = "ack" => request'[s].phase = "sent"
               /\ request'[s].kind = "delete" => request'[s].phase \in {"sent", "reply", "lost"}
    <3>1. CASE s = r
      BY <1>1, <1>2, <3>1
    <3>2. CASE s # r /\ request'[s] = request[s]
      BY Zenon, <3>2 DEF Phases
    <3>3. CASE request'[s].kind = "get"
      BY <1>1, <3>3
    <3> QED
      BY ZenonT(60), <1>3, <3>1, <3>2, <3>3
  <2>2. ASSUME NEW s \in Request, s \in lazyReads'
        PROVE  request'[s].phase = "waiting" /\ buffer'.pendingRead # s
    <3>1. s # r /\ s # buffer.pendingRead /\ request[s].phase = "waiting"
      BY ZenonT(60), <1>1, <2>2 DEF Phases
    <3> QED
      BY ZenonT(60), <1>2, <1>3, <3>1, ReadAssumption
  <2>3. ASSUME NEW s \in Request, buffer'.pendingRead = s
        PROVE  request'[s].phase = "waiting"
    BY ZenonT(60), <1>2, <2>3, ReadAssumption
  <2> QED
    BY ZenonT(60), <1>1, <2>1, <2>2, <2>3 DEF Phases
<1>9. Destruction'
  <2>1. \A s \in Request : request'[s].kind = request[s].kind
    BY ZenonT(60), <1>1, <1>2, <1>3
  <2> QED
    BY ZenonT(60), <1>1, <1>2, <2>1 DEF Destruction, Exhausted, Buf
<1>10. Tokens'
  <2>1. \A s \in Request : request'[s].token = request[s].token
    BY Zenon, <1>2, <1>3
  <2>2. ASSUME NEW s \in Request, request'[s].phase \in {"acked", "taken"} \/ buffer'.pendingRead = s
        PROVE  request[s].phase \in {"acked", "taken"}
    BY ZenonT(60), <1>1, <1>2, <1>3, <2>2, ReadAssumption
  <2>3. ASSUME NEW s \in Request, request'[s].phase = "error", instance = 1
        PROVE  request[s].phase = "error"
    BY Zenon, <1>2, <1>3, <2>3
  <2> QED
    BY ZenonT(60), <1>1, <1>2, <2>1, <2>2, <2>3 DEF Tokens, Buf
<1>11. BufferHoldsRest'
  BY ZenonT(60), <1>1, <1>2 DEF BufferHoldsRest, Buf
<1>12. EndOfStream'
  BY ZenonT(60), <1>1, <1>2 DEF EndOfStream, Buf
<1> QED
  BY SMTT(30), <1>7, <1>8, <1>9, <1>10, <1>11, <1>12 DEF Rest

(* So does a DELETE of the results.                                        *)
LEMMA ArriveDeleteStep ==
  ASSUME Inv, NEW r \in Request, ArriveDelete(r)
  PROVE  Rest'
<1> DEFINE requests == PendingAborted(request)
<1>0. ASSUME NEW s \in Request
      PROVE  /\ requests[s].kind = request[s].kind
             /\ requests[s].live = request[s].live
             /\ requests[s].token = request[s].token
             /\ \/ s # buffer.pendingRead /\ requests[s] = request[s]
                \/ /\ s = buffer.pendingRead
                   /\ request[s].phase = "waiting"
                   /\ requests[s].kind = "get" /\ requests[s].phase = "reply"
                   /\ requests[s].result = EmptyResults(instance, request[s].token, FALSE)
  BY Zenon, <1>0, AbortedRequests
<1> USE DEF Inv, serverVars, clientVars, historyVars
<1>1. /\ UNCHANGED <<instance, task, delegate, lazyReads, writing, client,
                     exchange, received, stream, dropped, completion, outputDone, cancelled>>
      /\ request[r].phase = "sent" /\ request[r].kind = "delete"
      /\ client.completed \/ client.closed
      /\ buffer.pendingRead # r /\ r \notin lazyReads
      /\ buffer \in BufferType
      /\ request[r] \in RequestType
      /\ \A s \in Request : request[s].token \in Nat
  BY Zenon DEF ArriveDelete, Phases, Destruction, TypeOK, RequestType
<1> HIDE DEF requests
<1>2. /\ \A s \in Request : s # r =>
           request'[s] = request[s] \/ (delegate /\ request'[s] = requests[s])
      /\ Is(request'[r], "delete", "reply", request[r].live, request[r].token, request[r].result)
  <2>1. Is([request[r] EXCEPT !.phase = "reply"], "delete", "reply", request[r].live,
           request[r].token, request[r].result)
    BY ZenonT(60), <1>1, RequestFields
  <2>2. requests \in [Request -> RequestType] /\ request \in [Request -> RequestType]
    BY Zenon, PendingTypes DEF TypeOK, requests
  <2>3. requests[r] = request[r]
    BY Zenon, <1>0, <1>1
  <2>4. CASE delegate
    <3>1. request' = [requests EXCEPT ![r].phase = "reply"]
      BY <2>4 DEF ArriveDelete, requests
    <3> QED
      BY SMTT(30), <2>1, <2>2, <2>3, <2>4, <3>1
  <2>5. CASE ~delegate
    <3>1. request' = [request EXCEPT ![r].phase = "reply"]
      BY <2>5 DEF ArriveDelete
    <3> QED
      BY <2>1, <2>2, <3>1
  <2> QED
    BY <2>4, <2>5
<1>3. ASSUME NEW s \in Request, s # r
      PROVE  /\ request'[s].kind = request[s].kind
             /\ request'[s].live = request[s].live
             /\ request'[s].token = request[s].token
             /\ \/ request'[s] = request[s]
                \/ /\ s = buffer.pendingRead
                   /\ delegate
                   /\ request[s].phase = "waiting"
                   /\ request'[s].kind = "get" /\ request'[s].phase = "reply"
                   /\ request'[s].result = EmptyResults(instance, request[s].token, FALSE)
  <2>1. CASE request'[s] = request[s]
    BY Zenon, <2>1
  <2>2. CASE delegate /\ request'[s] = requests[s]
    BY ZenonT(60), <1>0, <2>2
  <2> QED
    BY ZenonT(60), <1>2, <1>3, <2>1, <2>2
<1>4. EndStays
  BY Zenon, <1>1 DEF EndStays, AtEnd
<1>5. \A s \in Request : Unaffected(s)
  <2>1. Unaffected(r)
    BY Zenon, <1>1, <1>2 DEF Unaffected, Is, Callback, CallbackPhase
  <2>2. ASSUME NEW s \in Request, s # r PROVE Unaffected(s)
    <3>1. CASE request'[s] = request[s]
      BY Zenon, <3>1, SameUnaffected
    <3>2. CASE request[s].phase = "waiting" /\ request'[s].phase = "reply"
      BY ZenonT(60), <1>3, <2>2, <3>2 DEF Unaffected, Callback, CallbackPhase
    <3> QED
      BY ZenonT(60), <1>3, <2>2, <3>1, <3>2
  <2> QED
    BY Zenon, <2>1, <2>2
<1>6. \A s \in Request : AnswersFromStream(s) /\ AnswersTruly(s)
  <2>1. AnswersFromStream(r) /\ AnswersTruly(r)
    BY Zenon, <1>2 DEF AnswersFromStream, AnswersTruly, Is
  <2>3. ASSUME NEW s \in Request, s # r PROVE AnswersFromStream(s) /\ AnswersTruly(s)
    <3>1. CASE request'[s] = request[s]
      BY Zenon, <3>1, SameAnswer
    <3>2. CASE request'[s].result = EmptyResults(instance, request[s].token, FALSE)
      BY ZenonT(60), <1>1, <3>2, EmptyAnswer
    <3> QED
      BY ZenonT(60), <1>3, <2>3, <3>1, <3>2
  <2> QED
    BY <2>1, <2>3
<1>7. OneRequest' /\ ResultsFromStream' /\ CompleteResults' /\ TokenCounts' /\ CompletionIsReal'
  BY ZenonT(60), <1>1, <1>4, <1>5, <1>6, UnaffectedOneRequest, UnaffectedResultsFromStream,
     UnaffectedCompleteResults, UnaffectedTokenCounts, FrameCompletionIsReal
<1>8. \/ /\ delegate
         /\ Buf(buffer', buffer.currentSequenceId, <<>>, TRUE, TRUE, NoRead)
         /\ bufferState' = FlushedState(bufferState)
         /\ aborted' = aborted
      \/ /\ ~delegate
         /\ buffer' = buffer
         /\ bufferState' = bufferState
         /\ aborted'
  <2>1. Buf(Destroy(buffer), buffer.currentSequenceId, <<>>, TRUE, TRUE, NoRead)
    BY Zenon, <1>1 DEF Buf, Destroy, BufferType
  <2>2. CASE delegate
    BY Zenon, <2>1, <2>2 DEF ArriveDelete
  <2>3. CASE ~delegate
    BY Zenon, <2>3 DEF ArriveDelete
  <2> QED
    BY Zenon, <2>2, <2>3
<1>9. ASSUME NEW s \in Request PROVE buffer'.pendingRead = s => ~delegate /\ buffer' = buffer
  BY Zenon, <1>8, ReadAssumption DEF Buf
<1>10. Phases'
  <2>1. ASSUME NEW s \in Request
        PROVE  /\ request'[s].phase \in ServerPhase => request'[s].kind = "get"
               /\ request'[s].phase = "acked" => delegate
               /\ request'[s].kind = "ack" => request'[s].phase = "sent"
               /\ request'[s].kind = "delete" => request'[s].phase \in {"sent", "reply", "lost"}
    <3>1. CASE s = r
      BY <1>2, <3>1 DEF Is, ServerPhase
    <3>2. CASE request'[s] = request[s]
      BY Zenon, <3>2 DEF Phases
    <3>3. CASE request'[s].kind = "get" /\ request'[s].phase = "reply"
      BY Zenon, <3>3
    <3> QED
      BY ZenonT(60), <1>3, <3>1, <3>2, <3>3
  <2>2. ASSUME NEW s \in Request, s \in lazyReads'
        PROVE  request'[s].phase = "waiting" /\ buffer'.pendingRead # s
    <3>1. s # r /\ s # buffer.pendingRead /\ request[s].phase = "waiting"
      BY ZenonT(60), <1>1, <2>2 DEF Phases
    <3>2. request'[s] = request[s]
      BY ZenonT(60), <1>3, <3>1
    <3> QED
      BY SMTT(30), <1>9, <3>1, <3>2
  <2>3. ASSUME NEW s \in Request, buffer'.pendingRead = s
        PROVE  request'[s].phase = "waiting"
    <3>1. request[s].phase = "waiting" /\ ~delegate
      BY <1>9, <2>3 DEF Phases
    <3> QED
      BY ZenonT(60), <1>1, <1>3, <3>1
  <2> QED
    BY ZenonT(60), <1>1, <2>1, <2>2, <2>3 DEF Phases
<1>11. Destruction'
  <2>1. \A s \in Request : request'[s].kind = request[s].kind
    <3>1. request'[r].kind = request[r].kind
      BY ZenonT(60), <1>1, <1>2 DEF Is
    <3> QED
      BY ZenonT(60), <1>3, <3>1
  <2>2. CASE delegate
    BY ZenonT(60), <1>1, <1>8, <2>1, <2>2 DEF Destruction, Exhausted, Buf
  <2>3. CASE ~delegate
    BY ZenonT(60), <1>1, <1>8, <2>1, <2>3 DEF Destruction
  <2> QED
    BY Zenon, <2>2, <2>3
<1>12. Tokens'
  <2>1. \A s \in Request : request'[s].token = request[s].token
    BY Zenon, <1>2, <1>3 DEF Is
  <2>2. ASSUME NEW s \in Request, request'[s].phase = "error"
        PROVE  request[s].phase = "error"
    BY ZenonT(60), <1>2, <1>3, <2>2 DEF Is
  <2>3. ASSUME NEW s \in Request, request'[s].phase \in {"acked", "taken"} \/ buffer'.pendingRead = s,
               ~delegate
        PROVE  request[s].phase \in {"acked", "taken"} \/ buffer.pendingRead = s
    BY ZenonT(60), <1>2, <1>3, <1>9, <2>3 DEF Is
  <2>4. CASE delegate
    BY ZenonT(60), <1>1, <1>8, <2>1, <2>2, <2>4 DEF Tokens, Buf
  <2>5. CASE ~delegate
    BY ZenonT(60), <1>1, <1>8, <2>1, <2>2, <2>3, <2>5 DEF Tokens
  <2> QED
    BY Zenon, <2>4, <2>5
<1>13. BufferHoldsRest'
  BY ZenonT(60), <1>1, <1>8 DEF BufferHoldsRest, Buf
<1>14. EndOfStream'
  BY Zenon, <1>1, <1>8 DEF EndOfStream, Buf, FlushedState
<1> QED
  BY Zenon, <1>7, <1>10, <1>11, <1>12, <1>13, <1>14 DEF Rest

(* PageBufferClient.scheduleRequest keeps the invariant.                   *)
LEMMA ScheduleClientStep ==
  ASSUME Inv, ScheduleClient
  PROVE  Rest'
<1>1. /\ UNCHANGED <<serverVars, writing, request, exchange, received, historyVars>>
      /\ client' = ScheduleRequest(client)
      /\ client \in ClientType(Request, Instance)
  BY Zenon DEF ScheduleClient, Inv, TypeOK
<1>2. Cli(client', client.token, client.completed, client.closed, client.future,
          client.taskInstanceId)
  BY Zenon, <1>1, ClientFields
<1>3. KeptClient
  BY Zenon, <1>1, <1>2 DEF KeptClient, Kept, Cli, serverVars, historyVars
<1>4. OneRequest'
  BY <1>1, <1>2 DEF Inv, OneRequest, Callback, Cli
<1>5. CompletionIsReal'
  BY Zenon, <1>2, <1>3, KeptCompletion DEF Cli
<1> QED
  BY <1>3, <1>4, <1>5, KeptStep DEF Rest

(* PageBufferClient.initiateRequest keeps the invariant.                   *)
LEMMA SendRequestStep ==
  ASSUME Inv, SendRequest
  PROVE  Rest'
<1>1. /\ UNCHANGED <<serverVars, writing, exchange, received, historyVars>>
      /\ client \in ClientType(Request, Instance)
      /\ request \in [Request -> RequestType]
      /\ client.token \in Nat
      /\ OneRequest
  BY DEF SendRequest, Inv, TypeOK, ClientType
<1>2. CASE ~CanInitiate(client)
  <2>1. client' = SkipRequest(client) /\ request' = request
    BY Zenon, <1>2 DEF SendRequest
  <2>2. Cli(client', client.token, client.completed, client.closed, client.future,
            client.taskInstanceId)
    BY ZenonT(60), <1>1, <2>1, ClientFields
  <2>3. KeptClient
    BY Zenon, <1>1, <2>1, <2>2 DEF KeptClient, Kept, Cli, serverVars, historyVars
  <2>4. OneRequest'
    BY ZenonT(60), <1>1, <2>1, <2>2 DEF OneRequest, Callback, Cli
  <2>5. CompletionIsReal'
    BY Zenon, <2>2, <2>3, KeptCompletion DEF Cli
  <2> QED
    BY Zenon, <2>3, <2>4, <2>5, KeptStep DEF Rest
<1>3. CASE CanInitiate(client)
  <2>1. PICK r \in Request :
          /\ IsFree(r)
          /\ client' = InitiateRequest(client, r)
          /\ request' = [request EXCEPT ![r] =
                           IF client.completed THEN NewRequest("delete", 0)
                           ELSE NewRequest("get", client.token)]
    BY Zenon, <1>3 DEF SendRequest
  <2>2. Cli(client', client.token, client.completed, client.closed, r, client.taskInstanceId)
    BY Zenon, <1>1, <2>1, ClientFields
  <2>3. /\ request'[r].phase = "sent"
        /\ request'[r].kind \in {"get", "delete"}
        /\ request'[r].kind = "delete" <=> client.completed
        /\ request'[r].token <= client.token
        /\ request'[r].live
        /\ \A s \in Request : s # r => request'[s] = request[s]
    <3>1. /\ NewRequest("delete", 0).kind = "delete" /\ NewRequest("delete", 0).phase = "sent"
          /\ NewRequest("delete", 0).live /\ NewRequest("delete", 0).token = 0
      BY Zenon DEF NewRequest, Free
    <3>2. /\ NewRequest("get", client.token).kind = "get"
          /\ NewRequest("get", client.token).phase = "sent"
          /\ NewRequest("get", client.token).live
          /\ NewRequest("get", client.token).token = client.token
      BY Zenon DEF NewRequest, Free
    <3>3. CASE client.completed
      <4>1. request'[r] = NewRequest("delete", 0)
        BY Zenon, <1>1, <2>1, <3>3
      <4> QED
        BY <1>1, <2>1, <3>1, <3>3, <4>1
    <3>4. CASE ~client.completed
      <4>1. request'[r] = NewRequest("get", client.token)
        BY Zenon, <1>1, <2>1, <3>4
      <4> QED
        BY <1>1, <2>1, <3>2, <3>4, <4>1
    <3> QED
      BY Zenon, <3>3, <3>4
  <2>4. KeptClient
    <3>1. \A s \in Request : Kept(s)
      BY Zenon, <2>1, <2>2, <2>3 DEF Kept, IsFree, Cli
    <3> QED
      BY Zenon, <1>1, <2>2, <3>1 DEF KeptClient, Cli, serverVars, historyVars
  <2>5. \A s \in Request : ~request[s].live /\ ~Callback(s)
    BY Zenon, <1>1, <1>3, RequestAssumption DEF CanInitiate, OneRequest
  <2>6. OneRequest'
    <3>1. \A s \in Request : s # r => ~request'[s].live /\ request'[s].phase \notin CallbackPhase
      BY Zenon, <2>3, <2>5 DEF Callback
    <3> QED
      BY <1>3, <2>2, <2>3, <3>1 DEF OneRequest, Callback, CallbackPhase, Cli, CanInitiate
  <2>7. CompletionIsReal'
    BY Zenon, <2>2, <2>4, KeptCompletion DEF Cli
  <2> QED
    BY Zenon, <2>4, <2>6, <2>7, KeptStep DEF Rest
<1> QED
  BY SMTT(30), <1>2, <1>3

(* An answer nobody waits for any more can go.                             *)
LEMMA DiscardReplyStep ==
  ASSUME Inv, NEW r \in Request, DiscardReply(r)
  PROVE  Rest'
<1>1. /\ UNCHANGED <<serverVars, writing, clientVars, historyVars>>
      /\ request[r].phase \in {"reply", "error"} /\ ~request[r].live
      /\ request'[r] = Free
      /\ \A s \in Request : s # r => request'[s] = request[s]
      /\ request'[r].phase = "free" /\ ~request'[r].live
      /\ OneRequest
  BY Zenon, FreeFields DEF DiscardReply, Inv, TypeOK, Is
<1>2. KeptClient
  <2>1. \A s \in Request : Kept(s)
    BY Zenon, <1>1 DEF Kept, ServerPhase
  <2> QED
    BY Zenon, <1>1, <2>1 DEF KeptClient, serverVars, clientVars, historyVars
<1>3. OneRequest'
  <2>1. request'[r].phase \notin CallbackPhase
    BY Zenon, <1>1 DEF CallbackPhase
  <2>2. ~Callback(r) /\ client' = client
    BY Zenon, <1>1 DEF Callback, CallbackPhase, clientVars
  <2> QED
    BY ZenonT(60), <1>1, <2>1, <2>2 DEF OneRequest, Callback
<1>4. CompletionIsReal'
  BY Zenon, <1>1, <1>2, KeptCompletion DEF clientVars
<1> QED
  BY <1>2, <1>3, <1>4, KeptStep DEF Rest

(* The answer to a DELETE (sendDelete) keeps the invariant.                *)
LEMMA DeleteDoneStep ==
  ASSUME Inv, NEW r \in Request, DeleteDone(r)
  PROVE  Rest'
<1>1. /\ UNCHANGED <<serverVars, writing, exchange, received, historyVars>>
      /\ request[r].kind = "delete" /\ request[r].phase = "reply" /\ request[r].live
      /\ request'[r] = Free
      /\ \A s \in Request : s # r => request'[s] = request[s]
      /\ request'[r].phase = "free" /\ ~request'[r].live
      /\ OneRequest
      /\ client.future = r
  BY Zenon, FreeFields DEF DeleteDone, Inv, TypeOK, Is, OneRequest
<1>2. Cli(client', client.token, client.completed, TRUE, NoRequest, client.taskInstanceId)
  <2>1. client \in ClientType(Request, Instance) /\ client' = BackoffSuccess(DeleteSucceeded(client, r))
    BY Zenon DEF DeleteDone, Inv, TypeOK
  <2> QED
    BY Zenon, <1>1, <2>1 DEF Cli, DeleteSucceeded, ClearFuture, BackoffSuccess, ClientType
<1>3. KeptClient
  <2>1. \A s \in Request : Kept(s)
    BY Zenon, <1>1 DEF Kept, ServerPhase
  <2> QED
    BY Zenon, <1>1, <1>2, <2>1 DEF KeptClient, Cli, serverVars, historyVars
<1>4. OneRequest'
  <2>1. \A s \in Request : ~request'[s].live
    BY Zenon, <1>1 DEF OneRequest
  <2>2. /\ client'.completed = client.completed /\ client'.closed
        /\ client'.future = NoRequest /\ NoRequest \notin Request
    BY Zenon, <1>2, RequestAssumption DEF Cli
  <2>3. request'[r].phase \notin CallbackPhase
    BY Zenon, <1>1 DEF CallbackPhase
  <2>4. ASSUME NEW s \in Request, request'[s].phase \in CallbackPhase
        PROVE  s # r /\ request'[s] = request[s] /\ Callback(s)
    BY Zenon, <1>1, <2>3, <2>4 DEF Callback
  <2>5. ASSUME NEW s \in Request, Callback(s)
        PROVE  request[s].kind = "get" /\ ~client.completed
    BY Zenon, <1>1, <2>5 DEF OneRequest
  <2>6. \A s, t \in Request : Callback(s) /\ Callback(t) => s = t
    BY Zenon, <1>1 DEF OneRequest
  <2> QED
    BY ZenonT(60), <2>1, <2>2, <2>4, <2>5, <2>6 DEF OneRequest, Callback
<1>5. CompletionIsReal'
  BY Zenon, <1>2, <1>3, KeptCompletion DEF Cli
<1> QED
  BY Zenon, <1>3, <1>4, <1>5, KeptStep DEF Rest

(* The client stops waiting for r, for whatever reason.                    *)
LEMMA ClearedOneRequest ==
  ASSUME OneRequest, NEW r \in Request, request[r].live,
         Cli(client', client.token, client.completed, client.closed, NoRequest,
             client.taskInstanceId),
         ~request'[r].live, request'[r].phase \notin CallbackPhase,
         \A s \in Request : s # r => request'[s] = request[s]
  PROVE  OneRequest'
<1>1. client.future = r
  BY Zenon DEF OneRequest
<1>2. \A s \in Request : ~request'[s].live
  BY Zenon, <1>1 DEF OneRequest
<1>3. /\ client'.completed = client.completed /\ client'.closed = client.closed
      /\ client'.future = NoRequest /\ NoRequest \notin Request
  BY Zenon, RequestAssumption DEF Cli
<1>4. ASSUME NEW s \in Request, request'[s].phase \in CallbackPhase
      PROVE  s # r /\ request'[s] = request[s] /\ Callback(s)
  BY Zenon, <1>4 DEF Callback
<1>5. ASSUME NEW s \in Request, Callback(s)
      PROVE  request[s].kind = "get" /\ (s = r \/ client.closed) /\ ~client.completed
  BY Zenon, <1>1, <1>5 DEF OneRequest
<1>6. \A s, t \in Request : Callback(s) /\ Callback(t) => s = t
  BY Zenon DEF OneRequest
<1> QED
  BY ZenonT(60), <1>2, <1>3, <1>4, <1>5, <1>6 DEF OneRequest, Callback

(* An answer that is an error (handleFailure) keeps the invariant.         *)
LEMMA ReceiveErrorStep ==
  ASSUME Inv, NEW r \in Request, ReceiveError(r)
  PROVE  Rest'
<1>1. /\ UNCHANGED <<serverVars, writing, received, historyVars>>
      /\ request[r].phase = "error" /\ request[r].live
      /\ request'[r] = Free
      /\ \A s \in Request : s # r => request'[s] = request[s]
      /\ request'[r].phase = "free" /\ ~request'[r].live
      /\ OneRequest
      /\ client.future = r
  BY ZenonT(60), FreeFields DEF ReceiveError, Inv, TypeOK, Is, OneRequest
<1>2. Cli(client', client.token, client.completed, client.closed, NoRequest, client.taskInstanceId)
  <2>1. client \in ClientType(Request, Instance) /\ client' = ClearFuture(client, r)
    BY Zenon DEF ReceiveError, Inv, TypeOK
  <2> QED
    BY Zenon, <1>1, <2>1 DEF Cli, ClearFuture, ClientType
<1>3. KeptClient
  <2>1. \A s \in Request : Kept(s)
    BY Zenon, <1>1 DEF Kept, ServerPhase
  <2>2. /\ exchange.closed => exchange'.closed
        /\ exchange.failed => exchange'.failed
        /\ exchange.removed => exchange'.removed
    BY Zenon, ExchangeFails DEF ReceiveError
  <2> QED
    BY Zenon, <1>1, <1>2, <2>1, <2>2 DEF KeptClient, Cli, serverVars, historyVars
<1>4. OneRequest'
  BY Zenon, <1>1, <1>2, ClearedOneRequest DEF CallbackPhase
<1>5. CompletionIsReal'
  BY ZenonT(60), <1>2, <1>3, KeptCompletion DEF Cli
<1> QED
  BY Zenon, <1>3, <1>4, <1>5, KeptStep DEF Rest

(* So does a request that got no answer.                                   *)
LEMMA TransportFailureStep ==
  ASSUME Inv, NEW r \in Request, TransportFailure(r)
  PROVE  Rest'
<1>1. /\ UNCHANGED <<serverVars, writing, received, historyVars>>
      /\ request[r].live
      /\ request'[r] = GivenUp(request[r])
      /\ request[r] \in RequestType
      /\ \A s \in Request : s # r => request'[s] = request[s]
      /\ OneRequest
      /\ client.future = r
      /\ request[r].phase \notin CallbackPhase
  BY ZenonT(60) DEF TransportFailure, Inv, TypeOK, OneRequest
<1>2. Cli(client', client.token, client.completed, client.closed, NoRequest, client.taskInstanceId)
  <2>1. client \in ClientType(Request, Instance) /\ client' = BackoffFailure(ClearFuture(client, r))
    BY Zenon DEF TransportFailure, Inv, TypeOK
  <2> QED
    BY Zenon, <1>1, <2>1 DEF Cli, ClearFuture, BackoffFailure, ClientType
<1>3. Kept(r) /\ ~request'[r].live /\ request'[r].phase \notin CallbackPhase
  <2>1. CASE request[r].phase = "lost"
    <3>1. request'[r] = Free
      BY Zenon, <1>1, <2>1, RequestFields
    <3>2. request'[r].phase = "free" /\ ~request'[r].live
      BY Zenon, <3>1, FreeFields DEF Is
    <3> QED
      BY Zenon, <2>1, <3>1, <3>2 DEF Kept, ServerPhase, CallbackPhase
  <2>2. CASE request[r].phase # "lost"
    <3>1. Is(request'[r], request[r].kind, request[r].phase, FALSE, request[r].token,
             request[r].result)
      BY ZenonT(60), <1>1, <2>2, RequestFields
    <3> QED
      BY Zenon, <1>1, <3>1 DEF Kept, Is
  <2> QED
    BY Zenon, <2>1, <2>2
<1>4. KeptClient
  <2>1. \A s \in Request : Kept(s)
    BY ZenonT(60), <1>1, <1>3 DEF Kept
  <2>2. /\ exchange.closed => exchange'.closed
        /\ exchange.failed => exchange'.failed
        /\ exchange.removed => exchange'.removed
    BY Zenon, ExchangeFails DEF TransportFailure
  <2> QED
    BY Zenon, <1>1, <1>2, <2>1, <2>2 DEF KeptClient, Cli, serverVars, historyVars
<1>5. OneRequest'
  BY ZenonT(60), <1>1, <1>2, <1>3, ClearedOneRequest
<1>6. CompletionIsReal'
  BY Zenon, <1>2, <1>4, KeptCompletion DEF Cli
<1> QED
  BY Zenon, <1>4, <1>5, <1>6, KeptStep DEF Rest
=============================================================================

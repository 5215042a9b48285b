------------------------ MODULE PageTransportProofs ------------------------
(***************************************************************************)
(* The safety of PageTransport for any pages, requests, writers and        *)
(* bounds.  Inv is inductive; the properties that the model checker checks *)
(* on small instances follow from it.                                      *)
(***************************************************************************)
EXTENDS PageTransportServerProofs, PageTransportClientProofs

(* The buffer of a cancelled task is destroyed, which keeps the invariant. *)
LEMMA DestroyBufferStep ==
  ASSUME Inv, DestroyBuffer
  PROVE  Rest'
<1> USE DEF Inv, serverVars, clientVars, historyVars
<1>1. /\ UNCHANGED <<instance, task, delegate, aborted, writing, client, exchange, received, stream,
                     dropped, completion, outputDone, cancelled>>
      /\ bufferState' = "FINISHED"
      /\ task = "CANCELED" /\ instance \in cancelled
      /\ bufferState \notin {"FINISHED", "FAILED"}
  BY Zenon DEF DestroyBuffer, Terminal, Destruction
<1>2. buffer \in BufferType /\ \A s \in Request : request[s] \in RequestType /\ request[s].token \in Nat
  BY DEF TypeOK, RequestType
<1>3. EndStays
  BY Zenon, <1>1 DEF EndStays, AtEnd
<1>4. CompletionIsReal'
  BY Zenon, <1>1, FrameCompletionIsReal
<1>5. CASE delegate
  <2>1. /\ buffer' = Destroy(buffer)
        /\ request' = PendingAborted(request)
        /\ lazyReads' = lazyReads
    BY <1>5, Zenon DEF DestroyBuffer
  <2>2. Buf(buffer', buffer.currentSequenceId, <<>>, TRUE, TRUE, NoRead)
    BY Zenon, <1>2, <2>1, BufferFields
  <2>3. \A s \in Request :
          /\ request'[s].kind = request[s].kind
          /\ request'[s].live = request[s].live
          /\ request'[s].token = request[s].token
          /\ \/ s # buffer.pendingRead /\ request'[s] = request[s]
             \/ /\ s = buffer.pendingRead
                /\ request[s].phase = "waiting"
                /\ request'[s].kind = "get" /\ request'[s].phase = "reply"
                /\ request'[s].result = EmptyResults(instance, request[s].token, FALSE)
    BY ZenonT(60), <2>1, AbortedRequests
  <2>4. \A s \in Request : Unaffected(s)
    BY ZenonT(60), <2>3 DEF Unaffected, OneRequest, Callback, CallbackPhase
  <2>5. \A s \in Request : AnswersFromStream(s) /\ AnswersTruly(s)
    <3> TAKE s \in Request
    <3>1. CASE request'[s] = request[s]
      BY <3>1, SameAnswer
    <3>2. CASE request'[s].result = EmptyResults(instance, request[s].token, FALSE)
      BY ZenonT(60), <1>2, <3>2, EmptyAnswer
    <3> QED
      BY ZenonT(60), <2>3, <3>1, <3>2
  <2>6. OneRequest' /\ ResultsFromStream' /\ CompleteResults' /\ TokenCounts'
    BY SMTT(30), <1>1, <1>3, <2>4, <2>5, UnaffectedOneRequest, UnaffectedResultsFromStream,
       UnaffectedCompleteResults, UnaffectedTokenCounts
  <2>7. Phases'
    <3>1. \A s \in Request : buffer'.pendingRead # s
      BY SMTT(30), <2>2, ReadAssumption DEF Buf
    <3>2. \A s \in lazyReads : request'[s] = request[s]
      BY ZenonT(60), <2>3 DEF Phases, TypeOK
    <3>3. ASSUME NEW s \in Request
          PROVE  /\ request'[s].phase \in ServerPhase => request'[s].kind = "get"
                 /\ request'[s].phase = "acked" => delegate'
                 /\ request'[s].kind = "ack" => request'[s].phase = "sent"
                 /\ request'[s].kind = "delete" => request'[s].phase \in {"sent", "reply", "lost"}
      BY <1>1, <2>3, ZenonT(60) DEF Phases
    <3>4. \A s \in lazyReads : request'[s].phase = "waiting"
      BY Zenon, <3>2 DEF Phases, TypeOK
    <3> QED
      BY SMTT(30), <2>1, <3>1, <3>3, <3>4 DEF Phases
  <2>8. Destruction'
    BY ZenonT(60), <1>1, <1>5, <2>2, <2>3 DEF Destruction, Exhausted, Buf
  <2>9. BufferHoldsRest'
    BY Zenon, <1>1, <2>2 DEF BufferHoldsRest, Buf
  <2>10. Tokens'
    BY <1>1, <2>2, <2>3, ReadAssumption, ZenonT(60) DEF Tokens, Buf
  <2>11. EndOfStream'
    BY Zenon, <1>1, <2>2 DEF EndOfStream, Buf
  <2> QED
    BY SMTT(30), <1>4, <2>6, <2>7, <2>8, <2>9, <2>10, <2>11 DEF Rest
<1>6. CASE ~delegate
  <2>1. /\ buffer' = buffer
        /\ lazyReads' = {}
        /\ request' = [r \in Request |->
                         IF request[r].phase = "waiting"
                         THEN Replied(request[r], EmptyResults(instance, 0, TRUE))
                         ELSE request[r]]
    BY <1>6, Zenon DEF DestroyBuffer
  <2>2. Buf(buffer, 0, <<>>, FALSE, FALSE, NoRead)
    BY ZenonT(60), <1>2, <1>6, BufferFields DEF Destruction
  <2>3. \A s \in Request :
          /\ request'[s].kind = request[s].kind
          /\ request'[s].live = request[s].live
          /\ request'[s].token = request[s].token
          /\ \/ request'[s] = request[s] /\ request[s].phase # "waiting"
             \/ /\ request[s].phase = "waiting" /\ request'[s].phase = "reply"
                /\ request[s].kind = "get"
                /\ request'[s].result = EmptyResults(instance, 0, TRUE)
    <3> TAKE s \in Request
    <3>1. CASE request[s].phase = "waiting"
      <4>1. request'[s] = Replied(request[s], EmptyResults(instance, 0, TRUE))
        BY ZenonT(60), <2>1, <3>1
      <4>2. Is(request'[s], request[s].kind, "reply", request[s].live, request[s].token,
               EmptyResults(instance, 0, TRUE))
        BY ZenonT(60), <1>2, <4>1, RequestFields
      <4>3. request[s].kind = "get"
        BY <3>1 DEF Phases, ServerPhase
      <4> QED
        BY Zenon, <3>1, <4>2, <4>3 DEF Is
    <3>2. CASE request[s].phase # "waiting"
      BY ZenonT(60), <2>1, <3>2
    <3> QED
      BY ZenonT(60), <3>1, <3>2
  <2>4. \A s \in Request : Unaffected(s)
    BY ZenonT(60), <2>3 DEF Unaffected, OneRequest, Callback, CallbackPhase
  <2>5. \A s \in Request : AnswersFromStream(s) /\ AnswersTruly(s)
    <3> TAKE s \in Request
    <3>1. CASE request'[s] = request[s]
      BY Zenon, <3>1, SameAnswer
    <3>2. CASE request'[s].result = EmptyResults(instance, 0, TRUE)
      <4>1. ASSUME NEW id, id = instance
            PROVE  AtEnd(id)'
        BY <1>1, <4>1 DEF AtEnd
      <4> QED
        BY ZenonT(60), <3>2, <4>1, EmptyAnswer
    <3> QED
      BY ZenonT(60), <2>3, <3>1, <3>2
  <2>6. OneRequest' /\ ResultsFromStream' /\ CompleteResults' /\ TokenCounts'
    BY Zenon, <1>1, <1>3, <2>4, <2>5, UnaffectedOneRequest, UnaffectedResultsFromStream,
       UnaffectedCompleteResults, UnaffectedTokenCounts
  <2>7. Phases'
    BY ZenonT(60), <1>1, <2>1, <2>2, <2>3, ReadAssumption DEF Phases, ServerPhase, Buf
  <2>8. Destruction'
    BY ZenonT(60), <1>1, <1>6, <2>1, <2>2, <2>3 DEF Destruction, Exhausted, Buf
  <2>9. BufferHoldsRest'
    BY Zenon, <1>1, <2>1, FrameBufferHoldsRest
  <2>10. Tokens'
    BY ZenonT(60), <1>1, <2>1, <2>2, <2>3, ReadAssumption DEF Tokens, Buf
  <2>11. EndOfStream'
    BY ZenonT(60), <1>1, <2>1 DEF EndOfStream
  <2> QED
    BY Zenon, <1>4, <2>6, <2>7, <2>8, <2>9, <2>10, <2>11 DEF Rest
<1> QED
  BY <1>5, <1>6

(* So does a restart of the worker, which starts a new instance.           *)
LEMMA RestartWorkerStep ==
  ASSUME Inv, RestartWorker
  PROVE  Rest'
<1> USE DEF Inv, serverVars, clientVars, historyVars
<1>1. /\ UNCHANGED <<client, exchange, received, stream, dropped, completion, outputDone, cancelled>>
      /\ instance' = instance + 1 /\ delegate' = FALSE /\ aborted' = FALSE /\ lazyReads' = {}
      /\ bufferState' = "OPEN" /\ buffer' = NewBuffer /\ task' = "RUNNING"
      /\ \A w \in Writer : writing'[w] = <<>>
      /\ instance' > 1
  BY DEF RestartWorker, TypeOK, Instance
<1>2. \A s \in Request : request[s] \in RequestType /\ request[s].live \in BOOLEAN
  BY Zenon DEF TypeOK, RequestType
<1>3. Buf(buffer', 0, <<>>, FALSE, FALSE, NoRead)
  BY ZenonT(60), <1>1, BufferFields DEF TypeOK
<1>4. ASSUME NEW s \in Request
      PROVE  \/ request'[s] = request[s] /\ request[s].phase \notin ServerPhase
             \/ /\ request[s].phase \in ServerPhase /\ request[s].live
                /\ Is(request'[s], request[s].kind, "lost", TRUE, request[s].token, request[s].result)
             \/ /\ request[s].phase \in ServerPhase /\ ~request[s].live
                /\ Is(request'[s], "none", "free", FALSE, 0, EmptyResults(1, 0, FALSE))
  <2>1. request'[s] = IF request[s].phase \in ServerPhase THEN Gone(request[s]) ELSE request[s]
    BY Zenon DEF RestartWorker
  <2> QED
    BY ZenonT(60), <1>2, <2>1, RequestFields, FreeFields
<1>5. \A s \in Request : Unaffected(s)
  <2> TAKE s \in Request
  <2>1. CASE request'[s] = request[s]
    BY Zenon, <2>1, SameUnaffected
  <2>2. CASE request'[s] # request[s]
    <3>1. request[s].phase \in ServerPhase /\ request'[s].phase \in {"lost", "free"}
      BY ZenonT(60), <1>4, <2>2 DEF Is
    <3>2. ~Callback(s) /\ ~Callback(s)'
      BY Zenon, <3>1 DEF ServerPhase, Callback, CallbackPhase
    <3>3. request'[s].live = request[s].live
      BY ZenonT(60), <1>2, <1>4, <2>2 DEF Is
    <3>4. request[s].live => request'[s].kind = request[s].kind /\ request'[s].phase = "lost"
      BY ZenonT(60), <1>4, <2>2 DEF Is
    <3> QED
      BY <3>2, <3>3, <3>4 DEF Unaffected, CallbackPhase
  <2> QED
    BY <2>1, <2>2
<1>6. \A s \in Request : AnswersFromStream(s) /\ AnswersTruly(s)
  <2> TAKE s \in Request
  <2>1. request'[s].phase # "reply" \/ request'[s] = request[s]
    BY Zenon, <1>4 DEF Is
  <2> QED
    BY <2>1, SameAnswer
<1>7. EndStays
  BY Zenon, <1>1 DEF EndStays, AtEnd
<1>8. OneRequest' /\ ResultsFromStream' /\ CompleteResults' /\ TokenCounts' /\ CompletionIsReal'
  BY SMTT(30), <1>1, <1>5, <1>6, <1>7, UnaffectedOneRequest, UnaffectedResultsFromStream,
     UnaffectedCompleteResults, UnaffectedTokenCounts, FrameCompletionIsReal
<1>9. \A s \in Request : /\ request'[s].phase \notin ServerPhase
                         /\ request'[s].kind \in {request[s].kind, "none"}
                         /\ request'[s].token <= client.token
                         /\ buffer'.pendingRead # s
  <2>1. client.token \in Nat
    BY Zenon DEF TypeOK, ClientType
  <2> QED
    <3> TAKE s \in Request
    <3>1. request'[s].phase \notin ServerPhase /\ request'[s].kind \in {request[s].kind, "none"}
      BY Zenon, <1>4 DEF Is, ServerPhase
    <3>2. request'[s].token \in {request[s].token, 0}
      BY ZenonT(60), <1>4 DEF Is
    <3>3. request[s].token <= client.token /\ 0 <= client.token
      BY <2>1 DEF Tokens
    <3>4. buffer'.pendingRead # s
      BY Zenon, <1>3, ReadAssumption DEF Buf
    <3> QED
      BY <3>1, <3>2, <3>3, <3>4
<1>10. Phases'
  <2>1. ASSUME NEW s \in Request
        PROVE  /\ request'[s].kind = "ack" => request'[s].phase = "sent"
               /\ request'[s].kind = "delete" => request'[s].phase \in {"sent", "reply", "lost"}
    BY ZenonT(60), <1>4 DEF Phases, Is
  <2> QED
    BY SMTT(30), <1>1, <1>9, <2>1 DEF Phases, ServerPhase
<1>11. Destruction'
  BY Zenon, <1>1, <1>3, <1>9 DEF Destruction, Buf
<1>12. BufferHoldsRest'
  BY SMTT(30), <1>1, <1>3 DEF BufferHoldsRest, Buf
<1>13. Tokens'
  <2>1. client.token \in Nat /\ instance \in Nat /\ instance' # 1
    BY <1>1 DEF TypeOK, ClientType, Instance
  <2> QED
    BY SMTT(30), <1>1, <1>3, <1>9, <2>1 DEF Tokens, Buf, ServerPhase
<1>14. EndOfStream'
  <2>1. instance' # 1
    BY <1>1 DEF TypeOK, Instance
  <2>2. ~buffer'.noMorePages
    BY <1>3 DEF Buf
  <2>3. \A w \in Writer : writing'[w] = <<>>
    BY Zenon, <1>1
  <2> QED
    BY Zenon, <1>1, <2>1, <2>2, <2>3 DEF EndOfStream
<1> QED
  BY SMTT(30), <1>8, <1>10, <1>11, <1>12, <1>13, <1>14 DEF Rest

-----------------------------------------------------------------------------
(* The invariant holds initially.                                          *)
LEMMA InvInit == Init => Inv
<1> SUFFICES ASSUME Init PROVE Inv
  BY Zenon
<1>1. TypeOK
  BY Zenon, TypeInit
<1>2. /\ instance = 1 /\ task = "RUNNING" /\ completion = "none"
      /\ delegate = FALSE /\ aborted = FALSE /\ lazyReads = {}
      /\ bufferState = "OPEN" /\ writing = [w \in Writer |-> <<>>]
      /\ received = <<>> /\ stream = <<>> /\ dropped = FALSE /\ outputDone = FALSE
      /\ cancelled = {}
      /\ buffer = NewBuffer
      /\ Len(<<>>) = 0
  BY Zenon, SequenceEmpty DEF Init
<1>3. /\ \A r \in Request : Is(request[r], "none", "free", FALSE, 0, EmptyResults(1, 0, FALSE))
      /\ Buf(buffer, 0, <<>>, FALSE, FALSE, NoRead)
      /\ Cli(client, 0, FALSE, FALSE, NoRequest, NoInstance)
  BY Zenon, FreeFields DEF Init, Buf, NewBuffer, Cli, NewClient
<1>4. OneRequest
  BY Zenon, <1>3, RequestAssumption DEF OneRequest, Callback, CallbackPhase, Is, Cli
<1>5. Phases
  BY ZenonT(60), <1>2, <1>3, ReadAssumption DEF Phases, ServerPhase, Is, Buf
<1>6. Destruction
  BY ZenonT(60), <1>2, <1>3 DEF Destruction, Is, Buf
<1>7. BufferHoldsRest
  BY <1>2, <1>3 DEF BufferHoldsRest, Buf
<1>8. Tokens
  <2>1. client.token = 0 /\ buffer.currentSequenceId = 0 /\ Len(stream) = 0
    BY <1>2, <1>3 DEF Buf, Cli
  <2>2. \A r \in Request : /\ request[r].token = 0 /\ request[r].phase = "free"
                           /\ buffer.pendingRead # r
    BY ZenonT(60), <1>3, ReadAssumption DEF Is, Buf
  <2> QED
    BY <2>1, <2>2 DEF Tokens
<1>9. EndOfStream
  BY Zenon, <1>2, <1>3 DEF EndOfStream, Buf
<1>10. ResultsFromStream /\ CompleteResults
  BY ZenonT(60), <1>3 DEF ResultsFromStream, CompleteResults, Callback, CallbackPhase, Is
<1>11. TokenCounts
  <2>1. client.token = 0 /\ Len(received) = 0 /\ Len(stream) = 0
    BY Zenon, <1>2, <1>3 DEF Cli
  <2>2. \A r \in Request : request[r].phase = "free"
    BY ZenonT(60), <1>3 DEF Is
  <2> QED
    BY <2>1, <2>2 DEF TokenCounts
<1>12. CompletionIsReal
  BY Zenon, <1>3 DEF CompletionIsReal, ConsumerStatus, Cli
<1> QED
  BY SMTT(30), <1>1, <1>4, <1>5, <1>6, <1>7, <1>8, <1>9, <1>10, <1>11, <1>12 DEF Inv

(* It is about the variables of the transport only.                        *)
LEMMA FrameRest ==
  ASSUME Inv, UNCHANGED vars
  PROVE  Rest'
<1>1. UNCHANGED <<instance, task, delegate, aborted, lazyReads, bufferState, buffer, writing, request,
                  client, exchange, received, stream, dropped, completion, outputDone, cancelled>>
  BY Zenon DEF vars, serverVars, clientVars, historyVars
<1> QED
  BY SMTT(30), <1>1, FrameOneRequest, FramePhases, FrameDestruction, FrameBufferHoldsRest, FrameTokens,
     FrameEndOfStream, FrameResultsFromStream, FrameCompleteResults, FrameTokenCounts,
     FrameCompletionIsReal DEF Inv, Rest

(* Every action keeps what the invariant says beyond types.                *)
LEMMA RestStep ==
  ASSUME Inv, Next
  PROVE  Rest'
<1>1. CASE Produce
  BY <1>1, BeginEnqueueStep, FinishEnqueueStep DEF Produce
<1>2. ASSUME NEW r \in Request, ServerStep(r)
      PROVE  Rest'
  BY SMTT(30), <1>2, ArriveGetStep, ProcessLazyReadStep, FinishGetPagesStep, AnswerTakenReadStep,
     ReadTimeoutStep, ArriveAcknowledgeStep, ArriveDeleteStep DEF ServerStep
<1>3. ASSUME NEW r \in Request, ClientStep(r)
      PROVE  Rest'
  <2>1. CASE AcceptResults(r)
    BY <2>1, MismatchStep, AcceptStep
  <2> QED
    BY SMTT(30), <1>3, <2>1, DiscardReplyStep, ReceiveResultsStep, ReceiveErrorStep, DeleteDoneStep,
       OfferPagesStep, FinishResultsStep DEF ClientStep
<1>4. ASSUME NEW r \in Request, LoseMessage(r) \/ TransportFailure(r)
      PROVE  Rest'
  BY <1>4, LoseMessageStep, TransportFailureStep
<1> QED
  BY SMTT(30), <1>1, <1>2, <1>3, <1>4, SetOutputBuffersStep, CheckTaskCompletionStep,
     CompletionStep, CancelTaskStep, FailBufferStep, DestroyBufferStep, RestartWorkerStep, ScheduleClientStep, SendRequestStep, CloseExchangeStep,
     RemoveRemoteSourceStep DEF Next

(* The invariant is inductive.                                             *)
LEMMA InvStep == Inv /\ [Next]_vars => Inv'
<1> SUFFICES ASSUME Inv, [Next]_vars PROVE Inv'
  BY Zenon
<1>1. TypeOK'
  BY TypeStep DEF Inv
<1>2. Rest'
  BY RestStep, FrameRest
<1> QED
  BY Zenon, <1>1, <1>2 DEF Inv, Rest

(* Inv always holds: every handler of the transport, in the producing      *)
(* task, in the worker's resource and in the client's callbacks, keeps the *)
(* tokens, the buffer, the responses in flight and the pages received      *)
(* consistent with the stream of pages produced.                           *)
THEOREM Invariance == Spec => []Inv
BY InvInit, InvStep, PTL DEF Spec

(* The pages added to the ExchangeClient are a prefix of the pages the     *)
(* first instance's buffer accepted, for any number of requests, retries,  *)
(* losses and restarts.                                                    *)
THEOREM InOrderDelivery == Spec => []ReceivedInOrder
<1>1. Inv => ReceivedInOrder
  <2> SUFFICES ASSUME Inv PROVE ReceivedInOrder
    BY Zenon
  <2> DEFINE m == Len(received)
             b == SubSeq(stream, 1, m)
  <2>1. received \in Seq(Page) /\ stream \in Seq(Page)
    BY DEF Inv, TypeOK
  <2>2. m \in Nat /\ Len(stream) \in Nat /\ m <= Len(stream)
        /\ \A i \in 1..m : received[i] = stream[i]
    BY SMTT(30), <2>1, SequenceLen DEF Inv, TokenCounts
  <2>3. b \in Seq(Page) /\ Len(b) = m /\ \A i \in 1..m : b[i] = stream[i]
    BY <2>1, <2>2
  <2>4. received = b
    <3> HIDE DEF b
    <3> QED
      BY SMTT(30), <2>1, <2>2, <2>3, SequencesEqual
  <2> QED
    BY Zenon, <2>2, <2>4 DEF ReceivedInOrder
<1> QED
  BY <1>1, Invariance, PTL

(* A client that considers its buffer complete has every page, or reads    *)
(* from a task that was cancelled: a restarted task is never taken for one *)
(* that finished, and a failed one only when it failed after its last      *)
(* completion check had found it running.                                  *)
THEOREM RealCompletion == Spec => []CompletionIsReal
<1>1. Inv => CompletionIsReal
  BY DEF Inv
<1> QED
  BY <1>1, Invariance, PTL

(* acknowledgePages and processRead of the first instance's buffer never   *)
(* find a sequence id they have to refuse.                                 *)
THEOREM ValidSequenceIds == Spec => []NoInvalidSequenceId
<1>1. Inv => NoInvalidSequenceId
  <2> SUFFICES ASSUME Inv, instance = 1, NEW r \in Request
               PROVE  /\ request[r].phase # "error"
                      /\ request[r].phase = "taken" => ~ReadFails(buffer, request[r].token)
    BY DEF NoInvalidSequenceId
  <2>1. request[r].token \in Nat /\ buffer.currentSequenceId \in Nat
    BY DEF Inv, TypeOK, RequestType, BufferType
  <2>2. /\ request[r].phase # "error"
        /\ request[r].phase = "taken" =>
             buffer.destroyed \/ request[r].token <= buffer.currentSequenceId
        /\ buffer.destroyed => Exhausted(buffer)
    BY DEF Inv, Tokens, Destruction
  <2> QED
    BY <2>1, <2>2 DEF ReadFails
<1> QED
  BY <1>1, Invariance, PTL

(* A page leaves the producing buffer only once the consumer has it.       *)
THEOREM NoLoss == Spec => []NothingLost
<1>1. Inv => NothingLost
  <2> SUFFICES ASSUME Inv, instance = 1, ~exchange.closed, ~exchange.failed,
                      NEW i \in (Len(received) + 1)..buffer.currentSequenceId
               PROVE  \E r \in Request :
                        /\ request[r].phase = "adding"
                        /\ i <= Len(received) + Len(request[r].result.pages)
    BY DEF NothingLost
  <2>1. received \in Seq(Page) /\ buffer.currentSequenceId \in Nat /\ client.token \in Nat
    BY DEF Inv, TypeOK, BufferType, ClientType
  <2>2. Len(received) \in Nat
    BY <2>1, SequenceLen
  <2>3. i <= client.token /\ i > Len(received)
    <3>1. buffer.currentSequenceId <= client.token
      BY DEF Inv, Tokens
    <3> QED
      BY <2>1, <2>2, <3>1
  <2>4. Accepting
    BY DEF Accepting
  <2>5. PICK r \in Request : request[r].phase = "adding"
    <3>1. client.token # Len(received)
      BY SMTT(30), <2>1, <2>2, <2>3
    <3> QED
      BY <2>4, <3>1 DEF Inv, TokenCounts
  <2>6. client.token = Len(received) + Len(request[r].result.pages)
    BY <2>4, <2>5 DEF Inv, TokenCounts
  <2> QED
    BY <2>3, <2>5, <2>6
<1> QED
  BY <1>1, Invariance, PTL

-----------------------------------------------------------------------------
(* Refinement: every step is a step of the page stream or leaves it alone. *)

StreamStep == Stream!Next \/ UNCHANGED Stream!vars

(* The client's fields that the page stream shows.                         *)
SameView ==
  /\ client'.completed = client.completed
  /\ client'.taskInstanceId = client.taskInstanceId

(* A step that changes nothing a reader of the page stream sees is a       *)
(* stutter of PageStream.                                                  *)
LEMMA StreamUnchanged ==
  ASSUME UNCHANGED <<historyVars, received, exchange>>, SameView
  PROVE  StreamStep
<1>1. ConsumerStatus' = ConsumerStatus
  BY Zenon DEF ConsumerStatus, SameView
<1>2. UNCHANGED Stream!vars
  BY <1>1 DEF Stream!vars, historyVars, SameView
<1> QED
  BY Zenon, <1>2 DEF StreamStep

(* A failure of the client is a step of PageStream or a stutter.           *)
LEMMA StreamFails ==
  ASSUME Inv, UNCHANGED <<historyVars, received>>, SameView, ClientFailed \/ UNCHANGED exchange
  PROVE  StreamStep
<1>1. CASE UNCHANGED exchange
  BY <1>1, StreamUnchanged
<1>2. CASE exchange' = [exchange EXCEPT !.failed = TRUE]
  <2>1. exchange'.failed
    BY <1>2 DEF Inv, TypeOK
  <2>2. ConsumerStatus' = "failed"
    BY <2>1 DEF ConsumerStatus
  <2>3. Stream!Fail
    BY <2>2 DEF Stream!Fail, historyVars, SameView
  <2> QED
    BY Zenon, <2>3 DEF StreamStep, Stream!Next
<1> QED
  BY Zenon, <1>1, <1>2 DEF ClientFailed

(* A page the output buffer refuses is a step of PageStream or a stutter.  *)
LEMMA StreamDrops ==
  ASSUME UNCHANGED <<clientVars, stream, completion, outputDone, cancelled>>, dropped' = TRUE
  PROVE  StreamStep
<1>1. ConsumerStatus' = ConsumerStatus
  BY DEF ConsumerStatus, clientVars
<1>2. Stream!Drop
  BY <1>1 DEF Stream!Drop, clientVars
<1> QED
  BY <1>2 DEF StreamStep, Stream!Next

(* So are the steps of the completion check that end nothing, and the      *)
(* failure of the task.                                                    *)
LEMMA StreamCompletion ==
  ASSUME BeginCompletionCheck \/ LeaveCompletionCheck \/ FailTask
  PROVE  StreamStep
<1>1. UNCHANGED <<clientVars, stream, dropped, outputDone, cancelled>>
  BY Zenon DEF BeginCompletionCheck, LeaveCompletionCheck, FailTask
<1>2. /\ ConsumerStatus' = ConsumerStatus
      /\ (client.taskInstanceId \in cancelled)' = (client.taskInstanceId \in cancelled)
      /\ UNCHANGED received
  BY Zenon, <1>1 DEF ConsumerStatus, clientVars
<1>3. CASE BeginCompletionCheck
  <2>1. Stream!BeginEnd
    BY Zenon, <1>1, <1>2, <1>3 DEF Stream!BeginEnd, BeginCompletionCheck
  <2> QED
    BY Zenon, <2>1 DEF StreamStep, Stream!Next
<1>4. CASE LeaveCompletionCheck
  <2>1. Stream!LeaveEnd
    BY Zenon, <1>1, <1>2, <1>4 DEF Stream!LeaveEnd, LeaveCompletionCheck
  <2> QED
    BY Zenon, <2>1 DEF StreamStep, Stream!Next
<1>5. CASE FailTask
  <2>1. CASE instance > 1 \/ outputDone
    <3>1. UNCHANGED Stream!vars
      BY Zenon, <1>1, <1>2, <1>5, <2>1 DEF Stream!vars, FailTask
    <3> QED
      BY Zenon, <3>1 DEF StreamStep
  <2>2. CASE ~(instance > 1 \/ outputDone)
    <3>1. Stream!TaskFails
      <4>1. completion' = IF completion = "checking" THEN "overtaken" ELSE "failed"
        BY Zenon, <1>5, <2>2 DEF FailTask
      <4> QED
        BY Zenon, <1>1, <1>2, <2>2, <4>1 DEF Stream!TaskFails
    <3> QED
      BY Zenon, <3>1 DEF StreamStep, Stream!Next
  <2> QED
    BY Zenon, <2>1, <2>2
<1> QED
  BY Zenon, <1>3, <1>4, <1>5

(* So is the end of the output.                                            *)
LEMMA StreamEnds ==
  ASSUME UNCHANGED <<clientVars, stream, dropped, completion, cancelled>>, outputDone' = TRUE,
         completion \in {"checking", "overtaken"}
  PROVE  StreamStep
<1>1. ConsumerStatus' = ConsumerStatus
  BY Zenon DEF ConsumerStatus, clientVars
<1>2. Stream!End
  BY Zenon, <1>1 DEF Stream!End, clientVars
<1> QED
  BY <1>2 DEF StreamStep, Stream!Next

(* So is a cancellation.                                                   *)
LEMMA StreamCancels ==
  ASSUME UNCHANGED <<exchange, received, stream, dropped, completion, outputDone>>,
         client'.completed = client.completed,
         (client.taskInstanceId \in cancelled) => (client.taskInstanceId \in cancelled)'
  PROVE  StreamStep
<1>1. ConsumerStatus' = ConsumerStatus
  BY DEF ConsumerStatus
<1>2. CASE (client.taskInstanceId \in cancelled)'
  <2>1. Stream!Cancel
    BY Zenon, <1>1, <1>2 DEF Stream!Cancel
  <2> QED
    BY <2>1 DEF StreamStep, Stream!Next
<1>3. CASE ~(client.taskInstanceId \in cancelled)'
  <2>1. (client.taskInstanceId \in cancelled)' = (client.taskInstanceId \in cancelled)
    BY <1>3
  <2>2. UNCHANGED Stream!vars
    BY <1>1, <2>1 DEF Stream!vars
  <2> QED
    BY Zenon, <2>2 DEF StreamStep
<1> QED
  BY <1>2, <1>3

(* So is a page that a writer adds.                                        *)
LEMMA StreamGrows ==
  ASSUME Inv, NEW w \in Writer, FinishEnqueue(w)
  PROVE  StreamStep
<1> DEFINE ps == writing[w]
<1>1. /\ ps \in Seq(Page) /\ ps # <<>> /\ stream \in Seq(Page) /\ ~outputDone
      /\ UNCHANGED <<clientVars, completion, outputDone, cancelled>>
  BY Zenon DEF FinishEnqueue, Inv, TypeOK, EndOfStream
<1>2. CASE buffer.noMorePages
  <2>1. dropped' = TRUE /\ UNCHANGED stream
    BY <1>2 DEF FinishEnqueue
  <2> QED
    BY <1>1, <2>1, StreamDrops
<1>3. CASE ~buffer.noMorePages
  <2>1. stream' = stream \o ps /\ dropped' = dropped
    BY Zenon, <1>3 DEF FinishEnqueue
  <2> HIDE DEF ps
  <2>2. /\ Len(stream) \in Nat /\ Len(ps) \in Nat
        /\ Len(ps) # 0
        /\ stream' \in Seq(Page) /\ Len(stream') = Len(stream) + Len(ps)
        /\ \A i \in 1..Len(stream) : stream'[i] = stream[i]
    BY SMTT(30), <1>1, <2>1, SequenceConcat, SequenceLen, SequenceEmpty
  <2>3. SubSeq(stream', 1, Len(stream)) = stream
    <3> DEFINE a == SubSeq(stream', 1, Len(stream))
    <3>1. a \in Seq(Page) /\ Len(a) = Len(stream) /\ \A i \in 1..Len(stream) : a[i] = stream'[i]
      BY <1>1, <2>2
    <3> HIDE DEF a
    <3>2. a = stream
      BY SMTT(30), <1>1, <2>2, <3>1, SequencesEqual
    <3> QED
      BY <3>2 DEF a
  <2>4. ConsumerStatus' = ConsumerStatus
    BY <1>1 DEF ConsumerStatus, clientVars
  <2>5. Stream!Produce
    BY SMTT(30), <1>1, <2>1, <2>2, <2>3, <2>4 DEF Stream!Produce, clientVars
  <2> QED
    BY Zenon, <2>5 DEF StreamStep, Stream!Next
<1> QED
  BY SMTT(30), <1>2, <1>3

(* So are pages handed to the exchange.                                    *)
LEMMA StreamDelivers ==
  ASSUME Inv, Inv', NEW r \in Request, OfferPages(r)
  PROVE  StreamStep
<1> DEFINE ps == request[r].result.pages
<1>1. /\ UNCHANGED <<client, exchange, historyVars>>
      /\ received \in Seq(Page) /\ stream \in Seq(Page) /\ ps \in Seq(Page)
      /\ received' \in Seq(Page)
      /\ received' = IF exchange.closed \/ exchange.failed THEN received ELSE received \o ps
  BY Zenon DEF OfferPages, Inv, TypeOK, RequestType, Results
<1> HIDE DEF ps
<1>2. CASE received' = received
  BY <1>1, <1>2, StreamUnchanged DEF SameView
<1>3. CASE received' # received
  <2>1. received' = received \o ps /\ ~exchange.failed /\ ps # <<>>
    BY <1>1, <1>3, SequenceConcat
  <2>2. /\ Len(received) \in Nat /\ Len(ps) \in Nat /\ Len(stream) \in Nat
        /\ Len(ps) # 0
        /\ Len(received') = Len(received) + Len(ps)
    BY SMTT(30), <1>1, <2>1, SequenceConcat, SequenceLen, SequenceEmpty
  <2>3. /\ Len(received') <= Len(stream)
        /\ \A i \in 1..Len(received') : received'[i] = stream[i]
    BY <1>1 DEF Inv, TokenCounts, historyVars
  <2>4. PICK n \in (Len(received) + 1)..Len(stream) : n = Len(received')
    BY <2>2, <2>3
  <2>5. received' = SubSeq(stream, 1, n)
    <3> DEFINE a == SubSeq(stream, 1, n)
    <3>1. a \in Seq(Page) /\ Len(a) = n /\ \A i \in 1..n : a[i] = stream[i]
      BY <1>1, <2>2, <2>4
    <3> HIDE DEF a
    <3>2. received' = a
      BY ZenonT(60), <1>1, <2>3, <2>4, <3>1, SequencesEqual
    <3> QED
      BY Zenon, <3>2 DEF a
  <2>6. ConsumerStatus' = ConsumerStatus /\ ConsumerStatus # "failed"
    BY <1>1, <2>1 DEF ConsumerStatus
  <2>7. Stream!Deliver
    BY ZenonT(60), <1>1, <2>4, <2>5, <2>6 DEF Stream!Deliver, historyVars
  <2> QED
    BY Zenon, <2>7 DEF StreamStep, Stream!Next
<1> QED
  BY <1>2, <1>3

(* So is the completion of the client.                                     *)
LEMMA StreamFinishes ==
  ASSUME Inv, Inv', NEW r \in Request, FinishResults(r)
  PROVE  StreamStep
<1>1. /\ UNCHANGED <<exchange, received, historyVars>>
      /\ client \in ClientType(Request, Instance)
      /\ client' = CompleteRequest(client, r, request[r].result)
      /\ client.completed \in BOOLEAN /\ client'.completed \in BOOLEAN
  BY Zenon DEF FinishResults, Inv, TypeOK, ClientType
<1>2. client'.taskInstanceId = client.taskInstanceId
  <2>1. CASE client.future = r
    BY <1>1, <2>1 DEF CompleteRequest, ClearFuture, ClientType
  <2>2. CASE client.future # r
    BY <1>1, <2>2 DEF CompleteRequest, ClearFuture, ClientType
  <2> QED
    BY Zenon, <2>1, <2>2
<1>3. CASE client'.completed = client.completed
  BY ZenonT(60), <1>1, <1>2, <1>3, StreamUnchanged DEF SameView
<1>4. CASE client'.completed # client.completed
  <2>1. client'.completed /\ ~client.completed
    <3>1. OneRequest /\ request[r].phase = "added"
      BY Zenon DEF FinishResults, Inv
    <3>2. ~client.completed
      BY <3>1 DEF OneRequest, Callback, CallbackPhase
    <3> QED
      BY <1>1, <1>4, <3>2
  <2>2. CASE ConsumerStatus = "open"
    <3>1. ConsumerStatus' = "finished"
      BY SMTT(30), <1>1, <2>1, <2>2 DEF ConsumerStatus
    <3>2. EndReached' \/ (client.taskInstanceId \in cancelled)'
      BY <3>1 DEF Inv, CompletionIsReal
    <3>3. EndReached \/ client.taskInstanceId \in cancelled
      BY SMTT(30), <1>1, <1>2, <3>2 DEF EndReached, historyVars
    <3>4. (client.taskInstanceId \in cancelled)' = (client.taskInstanceId \in cancelled)
      BY <1>1, <1>2 DEF historyVars
    <3>5. Stream!Finish
      BY SMTT(30), <1>1, <2>2, <3>1, <3>3, <3>4 DEF Stream!Finish, Stream!EndReached, EndReached, historyVars
    <3> QED
      BY Zenon, <3>5 DEF StreamStep, Stream!Next
  <2>3. CASE ConsumerStatus # "open"
    <3>1. exchange.failed \/ exchange.closed \/ exchange.removed
      BY <2>1, <2>3 DEF ConsumerStatus
    <3>2. ConsumerStatus' = ConsumerStatus
      BY <1>1, <3>1 DEF ConsumerStatus
    <3>3. (client.taskInstanceId \in cancelled)' = (client.taskInstanceId \in cancelled)
      BY Zenon, <1>1, <1>2 DEF historyVars
    <3>4. UNCHANGED Stream!vars
      BY <1>1, <3>2, <3>3 DEF Stream!vars, historyVars
    <3> QED
      BY <3>4 DEF StreamStep
  <2> QED
    BY <2>2, <2>3
<1> QED
  BY <1>3, <1>4

(* So is a consumer that closes or removes the source.                     *)
LEMMA StreamAbandoned ==
  ASSUME Inv, CloseClient, UNCHANGED <<received, historyVars>>,
         exchange' = [exchange EXCEPT !.closed = TRUE] \/ exchange' = [exchange EXCEPT !.removed = TRUE]
  PROVE  StreamStep
<1>1. client \in ClientType(Request, Instance) /\ client.closed \in BOOLEAN
  BY DEF Inv, TypeOK, ClientType
<1>2. SameView
  <2>1. PICK failing \in {client, BackoffFailure(client)} :
          \/ client' = [failing EXCEPT !.future = NoRequest]
          \/ \E r \in Request : client' = Close(failing, r)
    BY DEF CloseClient
  <2>2. /\ failing \in ClientType(Request, Instance)
        /\ failing.completed = client.completed
        /\ failing.taskInstanceId = client.taskInstanceId
    <3>1. /\ BackoffFailure(client) \in ClientType(Request, Instance)
          /\ BackoffFailure(client).completed = client.completed
          /\ BackoffFailure(client).taskInstanceId = client.taskInstanceId
      <4>1. BackoffFailure(client) \in ClientType(Request, Instance)
        BY <1>1, BackoffTypes
      <4>2. Cli(BackoffFailure(client), client.token, client.completed, client.closed,
                client.future, client.taskInstanceId)
        BY ZenonT(60), <1>1, ClientFields
      <4> QED
        BY <4>1, <4>2 DEF Cli
    <3> QED
      BY <1>1, <2>1, <3>1
  <2> QED
    BY ZenonT(60), <2>1, <2>2 DEF SameView, Close, ClientType
<1>3. (client.taskInstanceId \in cancelled)' = (client.taskInstanceId \in cancelled)
  BY <1>2 DEF SameView, historyVars
<1>4. exchange'.failed = exchange.failed /\ (exchange'.closed \/ exchange'.removed)
  BY Zenon DEF Inv, TypeOK
<1>5. CASE exchange.failed
  <2>1. ConsumerStatus' = ConsumerStatus
    BY <1>4, <1>5 DEF ConsumerStatus
  <2>2. UNCHANGED Stream!vars
    BY Zenon, <1>3, <2>1 DEF Stream!vars, historyVars
  <2> QED
    BY Zenon, <2>2 DEF StreamStep
<1>6. CASE ~exchange.failed
  <2>1. ConsumerStatus' = "closed" /\ ConsumerStatus \in {"open", "finished", "closed"}
    BY <1>4, <1>6 DEF ConsumerStatus
  <2>2. CASE ConsumerStatus = "closed"
    <3>1. UNCHANGED Stream!vars
      BY <1>3, <2>1, <2>2 DEF Stream!vars, historyVars
    <3> QED
      BY Zenon, <3>1 DEF StreamStep
  <2>3. CASE ConsumerStatus # "closed"
    <3>1. Stream!Abandon
      BY <1>3, <2>1, <2>3 DEF Stream!Abandon, historyVars
    <3> QED
      BY <3>1 DEF StreamStep, Stream!Next
  <2> QED
    BY <2>1, <2>2, <2>3
<1> QED
  BY <1>5, <1>6

(* So is the acceptance of results, which delivers nothing yet.            *)
LEMMA StreamAccepts ==
  ASSUME Inv, NEW r \in Request, AcceptResults(r)
  PROVE  StreamStep
<1> DEFINE x == request[r].result
<1>1. /\ UNCHANGED <<received, historyVars>>
      /\ client \in ClientType(Request, Instance)
      /\ cancelled \subseteq Instance
  BY Zenon DEF AcceptResults, Inv, TypeOK
<1>2. CASE Mismatch(client, x)
  <2>1. client' = BackoffSuccess(ClearFuture(client, r)) /\ ClientFailed
    BY <1>2 DEF AcceptResults
  <2>2. SameView
    BY <1>1, <2>1 DEF SameView, BackoffSuccess, ClearFuture, ClientType
  <2> QED
    BY SMTT(30), <1>1, <2>1, <2>2, StreamFails
<1>3. CASE ~Mismatch(client, x)
  <2>1. client' = BackoffSuccess(AcceptResult(client, x)) /\ UNCHANGED exchange
    BY <1>3 DEF AcceptResults
  <2> HIDE DEF x
  <2>2. client.taskInstanceId = NoInstance \/ client.taskInstanceId = x.taskInstanceId
    BY Zenon, <1>3 DEF Mismatch
  <2>3. client'.completed = client.completed /\ client'.taskInstanceId = x.taskInstanceId
    BY <1>1, <2>1, <2>2 DEF BackoffSuccess, AcceptResult, ClientType
  <2>4. NoInstance \notin cancelled
    <3>1. \A i \in Instance : i \in Nat
      BY BoundAssumption DEF Instance
    <3> QED
      BY <1>1, <3>1, InstanceAssumption
  <2>5. (client.taskInstanceId \in cancelled) => (client.taskInstanceId \in cancelled)'
    BY Zenon, <1>1, <2>2, <2>3, <2>4 DEF historyVars
  <2> QED
    BY ZenonT(60), <1>1, <2>1, <2>3, <2>5, StreamCancels DEF historyVars
<1> QED
  BY <1>2, <1>3

(* The initial states map to initial states of PageStream.                 *)
LEMMA StreamInit == Init => Stream!Init
<1> SUFFICES ASSUME Init PROVE Stream!Init
  BY Zenon
<1>1. /\ exchange.failed = FALSE /\ exchange.closed = FALSE /\ exchange.removed = FALSE
      /\ client.completed = FALSE
  BY Zenon DEF Init, NewClient
<1>2. ConsumerStatus = "open"
  BY <1>1 DEF ConsumerStatus
<1>3. (client.taskInstanceId \in cancelled) = FALSE
  BY DEF Init
<1> QED
  BY <1>2, <1>3 DEF Init, Stream!Init

(* Every step maps to a step of PageStream or a stutter.                   *)
LEMMA StreamNext ==
  ASSUME Inv, Inv', [Next]_vars
  PROVE  StreamStep
<1>0. client \in ClientType(Request, Instance)
  BY Zenon DEF Inv, TypeOK
<1>1. ASSUME UNCHANGED <<clientVars, historyVars>> PROVE StreamStep
  BY <1>1, StreamUnchanged DEF SameView, clientVars
<1>2. CASE UNCHANGED vars
  BY Zenon, <1>1, <1>2 DEF vars
<1>3. CASE SetOutputBuffers \/ FailBuffer \/ DestroyBuffer \/ RestartWorker
  BY Zenon, <1>1, <1>3 DEF SetOutputBuffers, FailBuffer, DestroyBuffer, RestartWorker
<1>4. ASSUME NEW w \in Writer, BeginEnqueue(w) PROVE StreamStep
  <2>1. CASE CanAddPages
    BY <1>1, <1>4, <2>1 DEF BeginEnqueue, historyVars
  <2>2. CASE ~CanAddPages
    BY ZenonT(60), <1>4, <2>2, StreamDrops DEF BeginEnqueue
  <2> QED
    BY Zenon, <2>1, <2>2
<1>5. ASSUME NEW w \in Writer, FinishEnqueue(w) PROVE StreamStep
  BY <1>5, StreamGrows
<1>6. CASE CheckTaskCompletion
  BY Zenon, <1>6, StreamEnds DEF CheckTaskCompletion
<1>7. CASE BeginCompletionCheck \/ LeaveCompletionCheck \/ FailTask \/ CancelTask
  <2>1. CASE CancelTask
    BY Zenon, <2>1, StreamCancels DEF CancelTask, clientVars
  <2> QED
    BY Zenon, <1>7, <2>1, StreamCompletion
<1>8. CASE ScheduleClient
  <2>1. SameView
    BY ZenonT(60), <1>0, <1>8, ClientFields DEF ScheduleClient, SameView, Cli
  <2> QED
    BY <1>8, <2>1, StreamUnchanged DEF ScheduleClient
<1>9. CASE SendRequest
  <2>1. SameView
    BY ZenonT(60), <1>0, <1>9 DEF SendRequest, SameView, InitiateRequest, SkipRequest, ClientType
  <2> QED
    BY <1>9, <2>1, StreamUnchanged DEF SendRequest
<1>10. CASE CloseExchange \/ RemoveRemoteSource
  BY <1>10, StreamAbandoned DEF CloseExchange, RemoveRemoteSource
<1>11. ASSUME NEW r \in Request, ServerStep(r) PROVE StreamStep
  BY ZenonT(60), <1>1, <1>11 DEF ServerStep, ArriveGet, ProcessLazyRead, FinishGetPages, AnswerTakenRead,
     ReadTimeout, ArriveAcknowledge, ArriveDelete
<1>12. ASSUME NEW r \in Request, DiscardReply(r) \/ ReceiveResults(r) \/ LoseMessage(r)
       PROVE  StreamStep
  BY <1>1, <1>12 DEF DiscardReply, ReceiveResults, LoseMessage
<1>13. ASSUME NEW r \in Request, DeleteDone(r) PROVE StreamStep
  <2>1. SameView
    BY <1>0, <1>13 DEF DeleteDone, SameView, BackoffSuccess, DeleteSucceeded, ClearFuture, ClientType
  <2> QED
    BY <1>13, <2>1, StreamUnchanged DEF DeleteDone
<1>14. ASSUME NEW r \in Request, ReceiveError(r) PROVE StreamStep
  <2>1. SameView
    BY <1>0, <1>14 DEF ReceiveError, SameView, ClearFuture, ClientType
  <2> QED
    BY <1>14, <2>1, StreamFails DEF ReceiveError
<1>15. ASSUME NEW r \in Request, TransportFailure(r) PROVE StreamStep
  <2>1. SameView
    BY <1>0, <1>15 DEF TransportFailure, SameView, BackoffFailure, ClearFuture, ClientType
  <2> QED
    BY <1>15, <2>1, StreamFails DEF TransportFailure
<1>16. ASSUME NEW r \in Request, ClientStep(r) PROVE StreamStep
  BY SMTT(30), <1>12, <1>13, <1>14, <1>16, StreamAccepts, StreamDelivers, StreamFinishes DEF ClientStep
<1> QED
  BY SMTT(30), <1>2, <1>3, <1>4, <1>5, <1>6, <1>7, <1>8, <1>9, <1>10, <1>11, <1>12, <1>15, <1>16
     DEF Next, Produce

(* The transport implements the page stream: whatever is lost, repeated,   *)
(* timed out or restarted, a consumer sees pages appear in order, and sees *)
(* the end only when it is the end.                                        *)
THEOREM Refinement == Spec => ImplementsPageStream
<1>1. Inv /\ Inv' /\ [Next]_vars => [Stream!Next]_(Stream!vars)
  BY Zenon, StreamNext DEF StreamStep
<1> QED
  BY <1>1, Invariance, StreamInit, PTL DEF Spec, ImplementsPageStream, Stream!Spec
=============================================================================

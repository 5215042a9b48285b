--------------------------- MODULE PageTransport ---------------------------
(***************************************************************************)
(* One producing task, one consuming task and the HTTP between them: a     *)
(* partitioned output buffer with one partition (ClientBuffer) behind a    *)
(* LazyOutputBuffer, read by a PageBufferClient over requests that may be  *)
(* lost, answered late, time out on either side, and be retried.  The      *)
(* worker of the producing task may restart, which loses the buffer and    *)
(* gives the task a new instance id.                                       *)
(*                                                                         *)
(* An action is one synchronized block (with the lock-free code around it  *)
(* that no other thread can tell apart), so the gaps in which other        *)
(* threads run are the ones the code has: between the acknowledgement and  *)
(* the read of getPages, between taking a pending read and answering it,   *)
(* and between the two blocks of a client callback.                        *)
(***************************************************************************)
EXTENDS ClientBuffer, PageBufferClient

CONSTANTS
  Writer,        \* driver threads of the producing task
  Event,         \* bound: which one-off events of the environment happen
  MaxBytes,      \* maxResponseSize of every GET
  MaxBatch,      \* bound: pages in one enqueue
  MaxPages,      \* bound: pages put in the output buffer
  MaxInstance    \* bound: instances of the task, one more than restarts

ASSUME RequestAssumption == NoRequest \notin Request
ASSUME BoundAssumption ==
  /\ Event \subseteq {"fail", "cancel", "restart", "close", "remove"}
  /\ MaxBytes \in Nat
  /\ MaxBatch \in Nat
  /\ MaxPages \in Nat
  /\ MaxInstance \in Nat \ {0}
ASSUME InstanceAssumption == NoInstance \notin Nat

Instance == 1..MaxInstance

VARIABLES
  instance,      \* taskInstanceId of the SqlTask the worker now has
  task,          \* its TaskStateMachine, as far as a failure or a cancellation
  delegate,      \* LazyOutputBuffer.delegate has been created
  aborted,       \* LazyOutputBuffer.abortedBuffers holds the buffer
  lazyReads,     \* LazyOutputBuffer.pendingReads
  bufferState,   \* the output buffer's StateMachine<BufferState>
  buffer,        \* the ClientBuffer
  writing,       \* pages a driver is between the test and the call of enqueue with
  request,       \* the HTTP requests and the server and client work on them
  client,        \* the PageBufferClient
  exchange,      \* the ExchangeClient: closed, failed, and removedClients
  received,      \* pages added to the ExchangeClient's pageBuffer, in order
  stream,        \* history: pages accepted by the first instance's buffer
  dropped,       \* history: the first instance's buffer refused a page
  completion,    \* the completion check of the first instance, and whether
                 \* the task failed in it or before it
  outputDone,    \* history: the first instance has ended its output
  cancelled      \* history: the instances of the task that were cancelled

serverVars == <<instance, task, delegate, aborted, lazyReads, bufferState, buffer>>
clientVars == <<client, exchange, received>>
historyVars == <<stream, dropped, completion, outputDone, cancelled>>
vars == <<serverVars, writing, request, clientVars, historyVars>>

-----------------------------------------------------------------------------
(* Requests.  live: the client's future for it is not done.                *)

Kind == {"none", "get", "ack", "delete"}

Phase ==
  {"free",       \* not in use
   "sent",       \* on its way to the worker
   "acked",      \* GET: getPages between acknowledgePages and the read
   "waiting",    \* GET: a pending read of the buffer or of the lazy buffer
   "taken",      \* GET: pending read taken by another thread, not yet answered
   "reply",      \* the response is on its way back
   "error",      \* an error response is on its way back
   "lost",       \* a message or the connection was lost
   "received",   \* GET: onSuccess is about to run
   "adding",     \* GET: onSuccess has advanced the token and holds the pages
   "added"}      \* GET: onSuccess has offered the pages to the exchange client

ServerPhase == {"acked", "waiting", "taken"}
CallbackPhase == {"received", "adding", "added"}
WirePhase == {"sent", "reply", "error"}

Free ==
  [kind |-> "none", phase |-> "free", live |-> FALSE, token |-> 0,
   result |-> EmptyResults(1, 0, FALSE)]

NewRequest(kind, token) ==
  [Free EXCEPT !.kind = kind, !.phase = "sent", !.live = (kind # "ack"),
               !.token = token]

RequestType ==
  [kind: Kind, phase: Phase, live: BOOLEAN, token: Nat,
   result: Results(Instance)]

IsFree(r) == request[r].phase = "free"

(* Nothing will come of request x any more: keep it while the client still *)
(* waits for it, else its identity may be used again.                      *)
Gone(x) == IF x.live THEN [x EXCEPT !.phase = "lost"] ELSE Free

(* The client stops waiting for x.                                         *)
GivenUp(x) == IF x.phase = "lost" THEN Free ELSE [x EXCEPT !.live = FALSE]

Replied(x, result) == [x EXCEPT !.phase = "reply", !.result = result]

(* onSuccess holds the pages of x that it accepted.                        *)
Accepted(x, pages) ==
  [x EXCEPT !.phase = "adding", !.result = [@ EXCEPT !.pages = pages]]

NotComplete(x) == Replied(x, EmptyResults(instance, x.token, FALSE))

TaskState == {"RUNNING", "FAILED", "CANCELED"}

Completion ==
  {"none",        \* no check is under way
   "checking",    \* the check has found the task running
   "overtaken",   \* the task has failed since then
   "failed"}      \* the task had failed, and no check was under way

(* The types of the buffer, the requests and the client.                   *)
TypeOK ==
  /\ instance \in Instance
  /\ task \in TaskState
  /\ delegate \in BOOLEAN
  /\ aborted \in BOOLEAN
  /\ lazyReads \subseteq Request
  /\ bufferState \in {"OPEN", "NO_MORE_BUFFERS", "FLUSHING", "FINISHED", "FAILED"}
  /\ buffer \in BufferType
  /\ writing \in [Writer -> Seq(Page)]
  /\ request \in [Request -> RequestType]
  /\ client \in ClientType(Request, Instance)
  /\ exchange \in [closed: BOOLEAN, failed: BOOLEAN, removed: BOOLEAN]
  /\ received \in Seq(Page)
  /\ stream \in Seq(Page)
  /\ dropped \in BOOLEAN
  /\ completion \in Completion
  /\ outputDone \in BOOLEAN
  /\ cancelled \subseteq Instance

Init ==
  /\ instance = 1
  /\ task = "RUNNING"
  /\ delegate = FALSE
  /\ aborted = FALSE
  /\ lazyReads = {}
  /\ bufferState = "OPEN"
  /\ buffer = NewBuffer
  /\ writing = [w \in Writer |-> <<>>]
  /\ request = [r \in Request |-> Free]
  /\ client = NewClient
  /\ exchange = [closed |-> FALSE, failed |-> FALSE, removed |-> FALSE]
  /\ received = <<>>
  /\ stream = <<>>
  /\ dropped = FALSE
  /\ completion = "none"
  /\ outputDone = FALSE
  /\ cancelled = {}

-----------------------------------------------------------------------------
(* The producing task's output buffer.                                     *)

Terminal == bufferState \in {"FINISHED", "FAILED"}

CanAddPages == bufferState \in {"OPEN", "NO_MORE_BUFFERS"}

(* checkFlushComplete once the only partition is destroyed.                *)
FlushedState(state) ==
  IF state \in {"FLUSHING", "NO_MORE_BUFFERS"} THEN "FINISHED" ELSE state

(* The pending read of the buffer leaves it: taken by a thread that will   *)
(* process it, or aborted.                                                 *)
PendingTaken(requests) ==
  IF buffer.pendingRead \in Request
  THEN [requests EXCEPT ![buffer.pendingRead].phase = "taken"]
  ELSE requests

PendingAborted(requests) ==
  IF buffer.pendingRead \in Request
  THEN [requests EXCEPT ![buffer.pendingRead] = NotComplete(@)]
  ELSE requests

(* The coordinator's first update of the task creates the real buffer and  *)
(* applies the aborts that came early.                                     *)
SetOutputBuffers ==
  /\ ~delegate
  /\ ~Terminal
  /\ delegate' = TRUE
  /\ aborted' = FALSE
  /\ buffer' = IF aborted THEN Destroy(NewBuffer) ELSE NewBuffer
  /\ bufferState' = IF aborted THEN "FINISHED" ELSE "NO_MORE_BUFFERS"
  /\ UNCHANGED <<instance, task, lazyReads, writing, request, clientVars, historyVars>>

PagesInHand == MapThenSumSet(LAMBDA w : Len(writing[w]), Writer)

(* enqueue up to its canAddPages test.  A restarted task has no fragment,  *)
(* so no drivers.                                                          *)
BeginEnqueue(w) ==
  /\ delegate /\ instance = 1 /\ ~outputDone
  /\ writing[w] = <<>>
  /\ \/ /\ CanAddPages
        /\ \E n \in 1..MaxBatch : \E ps \in [1..n -> Page] :
              /\ Len(stream) + PagesInHand + n <= MaxPages
              /\ writing' = [writing EXCEPT ![w] = ps]
        /\ UNCHANGED dropped
     \/ /\ ~CanAddPages
        /\ dropped' = TRUE
        /\ UNCHANGED writing
  /\ UNCHANGED <<serverVars, request, clientVars, stream, completion, outputDone, cancelled>>

(* The rest of enqueue: ClientBuffer.enqueuePages.                         *)
FinishEnqueue(w) ==
  /\ writing[w] # <<>>
  /\ writing' = [writing EXCEPT ![w] = <<>>]
  /\ \/ /\ buffer.noMorePages
        /\ dropped' = TRUE
        /\ UNCHANGED <<buffer, request, stream>>
     \/ /\ ~buffer.noMorePages
        /\ buffer' = EnqueuePages(buffer, writing[w])
        /\ request' = PendingTaken(request)
        /\ stream' = stream \o writing[w]
        /\ UNCHANGED dropped
  /\ UNCHANGED <<instance, task, delegate, aborted, lazyReads, bufferState,
                 clientVars, completion, outputDone, cancelled>>

(* PartitionedOutputBuffer.setNoMorePages: readers see the end whatever    *)
(* state the buffer is in.                                                 *)
setNoMorePages ==
  /\ IF buffer.noMorePages
     THEN UNCHANGED <<buffer, request>>
     ELSE /\ buffer' = SetNoMorePages(buffer)
          /\ request' = PendingTaken(request)
  /\ bufferState' =
       LET flushing == IF bufferState = "NO_MORE_BUFFERS" THEN "FLUSHING" ELSE bufferState
       IN  IF buffer.destroyed THEN FlushedState(flushing) ELSE flushing

(* SqlTaskExecution.checkTaskCompletion holds the lock of the execution,   *)
(* not that of the task's state, which may change in the middle of it.     *)

(* Its test of the state of the task.                                      *)
BeginCompletionCheck ==
  /\ delegate /\ instance = 1 /\ ~outputDone
  /\ completion = "none" /\ task = "RUNNING"
  /\ completion' = "checking"
  /\ UNCHANGED <<serverVars, writing, request, clientVars,
                 stream, dropped, outputDone, cancelled>>

(* It returns: splits are still to come, or drivers are still at work.     *)
LeaveCompletionCheck ==
  /\ instance = 1 /\ ~outputDone
  /\ completion \in {"checking", "overtaken"}
  /\ completion' = IF completion = "checking" THEN "none" ELSE "failed"
  /\ UNCHANGED <<serverVars, writing, request, clientVars,
                 stream, dropped, outputDone, cancelled>>

(* Every driver is done, be it with a failure: setNoMorePages, whatever    *)
(* became of the task and of the buffer since the test.  A check after     *)
(* this one sets it again, which changes nothing.                          *)
CheckTaskCompletion ==
  /\ delegate /\ instance = 1 /\ ~outputDone
  /\ completion \in {"checking", "overtaken"}
  /\ \A w \in Writer : writing[w] = <<>>
  /\ outputDone' = TRUE
  /\ setNoMorePages
  /\ UNCHANGED <<instance, task, delegate, aborted, lazyReads, writing, clientVars,
                 stream, dropped, completion, cancelled>>

(* A driver or the coordinator fails the task, or aborts it.               *)
FailTask ==
  /\ "fail" \in Event
  /\ task = "RUNNING"
  /\ task' = "FAILED"
  /\ completion' = IF instance > 1 \/ outputDone THEN completion
                   ELSE IF completion = "checking" THEN "overtaken" ELSE "failed"
  /\ UNCHANGED <<instance, delegate, aborted, lazyReads, bufferState, buffer, writing,
                 request, clientVars, stream, dropped, outputDone, cancelled>>

CancelTask ==
  /\ "cancel" \in Event
  /\ task = "RUNNING"
  /\ task' = "CANCELED"
  /\ cancelled' = cancelled \cup {instance}
  /\ UNCHANGED <<instance, delegate, aborted, lazyReads, bufferState, buffer, writing,
                 request, clientVars, stream, dropped, completion, outputDone>>

(* Fault: a failed task ends its output like a finished one.               *)
FailBufferEndsOutput ==
  /\ task = "FAILED"
  /\ ~Terminal
  /\ bufferState' = "FAILED"
  /\ buffer' = SetNoMorePages(buffer)
  /\ request' = PendingTaken(request)
  /\ UNCHANGED <<instance, task, delegate, aborted, lazyReads, writing, clientVars,
                 historyVars>>

(* The listener of the task's end, for a task that failed: fail() of the   *)
(* output buffer, which leaves readers waiting.                            *)
FailBuffer ==
  /\ task = "FAILED"
  /\ ~Terminal
  /\ bufferState' = "FAILED"
  /\ UNCHANGED <<instance, task, delegate, aborted, lazyReads, buffer, writing,
                 request, clientVars, historyVars>>

(* The same for a task that was cancelled: destroy().                      *)
DestroyBuffer ==
  /\ task = "CANCELED"
  /\ ~Terminal
  /\ bufferState' = "FINISHED"
  /\ IF delegate
     THEN /\ buffer' = Destroy(buffer)
          /\ request' = PendingAborted(request)
          /\ UNCHANGED lazyReads
     ELSE /\ lazyReads' = {}
          /\ request' = [r \in Request |->
                           IF request[r].phase = "waiting"
                           THEN Replied(request[r], EmptyResults(instance, 0, TRUE))
                           ELSE request[r]]
          /\ UNCHANGED buffer
  /\ UNCHANGED <<instance, task, delegate, aborted, writing, clientVars, historyVars>>

(* The worker process dies and comes back; the first request that names    *)
(* the task creates it anew, with another instance id.                     *)
RestartWorker ==
  /\ "restart" \in Event
  /\ instance < MaxInstance
  /\ instance' = instance + 1
  /\ task' = "RUNNING"
  /\ delegate' = FALSE
  /\ aborted' = FALSE
  /\ lazyReads' = {}
  /\ bufferState' = "OPEN"
  /\ buffer' = NewBuffer
  /\ writing' = [w \in Writer |-> <<>>]
  /\ request' = [r \in Request |->
                   IF request[r].phase \in ServerPhase THEN Gone(request[r])
                   ELSE request[r]]
  /\ UNCHANGED <<clientVars, historyVars>>

-----------------------------------------------------------------------------
(* The worker's REST resource: results, acknowledge and abort.             *)

(* The first half of getPages: acknowledgePages.                           *)
StartGetPages(r) ==
  IF AcknowledgeFails(buffer, request[r].token)
  THEN /\ request' = [request EXCEPT ![r].phase = "error"]
       /\ UNCHANGED buffer
  ELSE /\ request' = [request EXCEPT ![r].phase = "acked"]
       /\ buffer' = AcknowledgePages(buffer, request[r].token)

ArriveGet(r) ==
  /\ request[r].kind = "get" /\ request[r].phase = "sent"
  /\ \/ /\ delegate
        /\ StartGetPages(r)
        /\ UNCHANGED lazyReads
     \/ /\ ~delegate /\ bufferState = "FINISHED"
        /\ request' = [request EXCEPT ![r] = Replied(@, EmptyResults(instance, 0, TRUE))]
        /\ UNCHANGED <<buffer, lazyReads>>
     \/ /\ ~delegate /\ bufferState # "FINISHED"
        /\ request' = [request EXCEPT ![r].phase = "waiting"]
        /\ lazyReads' = lazyReads \cup {r}
        /\ UNCHANGED buffer
  /\ UNCHANGED <<instance, task, delegate, aborted, bufferState, writing,
                 clientVars, historyVars>>

(* LazyOutputBuffer.PendingRead.process, for the reads that came before    *)
(* the buffer was created.  The code goes through them in a list; they all *)
(* ask for the same token, and the order is left open here.                *)
ProcessLazyRead(r) ==
  /\ delegate /\ r \in lazyReads
  /\ StartGetPages(r)
  /\ lazyReads' = lazyReads \ {r}
  /\ UNCHANGED <<instance, task, delegate, aborted, bufferState, writing,
                 clientVars, historyVars>>

(* Fault: sending a page counts as delivering it.                          *)
FinishGetPagesAcknowledges(r) ==
  /\ request[r].phase = "acked"
  /\ LET token == request[r].token
         result == ProcessRead(buffer, instance, token, MaxBytes)
     IN  IF AnswersImmediately(buffer, token)
         THEN /\ ~ReadFails(buffer, token)
              /\ buffer' = AcknowledgePages(AbortPendingRead(buffer), result.nextToken)
              /\ request' = [PendingAborted(request) EXCEPT ![r] = Replied(@, result)]
         ELSE /\ buffer' = WaitForPages(buffer, r)
              /\ request' = [PendingAborted(request) EXCEPT ![r].phase = "waiting"]
  /\ UNCHANGED <<instance, task, delegate, aborted, lazyReads, bufferState, writing,
                 clientVars, historyVars>>

(* The second half of getPages: abort the older pending read, then answer  *)
(* or wait.                                                                *)
FinishGetPages(r) ==
  /\ request[r].phase = "acked"
  /\ LET token == request[r].token
         requests == PendingAborted(request)
     IN  IF AnswersImmediately(buffer, token)
         THEN /\ buffer' = AbortPendingRead(buffer)
              /\ request' =
                   IF ReadFails(buffer, token)
                   THEN [requests EXCEPT ![r].phase = "error"]
                   ELSE [requests EXCEPT ![r] =
                           Replied(@, ProcessRead(buffer, instance, token, MaxBytes))]
         ELSE /\ buffer' = WaitForPages(buffer, r)
              /\ request' = [requests EXCEPT ![r].phase = "waiting"]
  /\ UNCHANGED <<instance, task, delegate, aborted, lazyReads, bufferState, writing,
                 clientVars, historyVars>>

(* processRead(pendingRead) in the thread that took it.                    *)
AnswerTakenRead(r) ==
  /\ request[r].phase = "taken"
  /\ ~ReadFails(buffer, request[r].token)
  /\ request' = [request EXCEPT ![r] =
                   Replied(@, ProcessRead(buffer, instance, @.token, MaxBytes))]
  /\ UNCHANGED <<serverVars, writing, clientVars, historyVars>>

(* TaskResource.getResults gives up waiting for the buffer.                *)
ReadTimeout(r) ==
  /\ request[r].phase \in {"waiting", "taken"}
  /\ request' = [request EXCEPT ![r] = NotComplete(@)]
  /\ buffer' = ReadDone(buffer, r)
  /\ lazyReads' = lazyReads \ {r}
  /\ UNCHANGED <<instance, task, delegate, aborted, bufferState, writing,
                 clientVars, historyVars>>

ArriveAcknowledge(r) ==
  /\ request[r].kind = "ack" /\ request[r].phase = "sent"
  /\ request' = [request EXCEPT ![r] = Free]
  /\ buffer' = IF delegate /\ ~AcknowledgeFails(buffer, request[r].token)
               THEN AcknowledgePages(buffer, request[r].token) ELSE buffer
  /\ UNCHANGED <<instance, task, delegate, aborted, lazyReads, bufferState, writing,
                 clientVars, historyVars>>

ArriveDelete(r) ==
  /\ request[r].kind = "delete" /\ request[r].phase = "sent"
  /\ \/ /\ delegate
        /\ buffer' = Destroy(buffer)
        /\ bufferState' = FlushedState(bufferState)
        /\ request' = [PendingAborted(request) EXCEPT ![r].phase = "reply"]
        /\ UNCHANGED aborted
     \/ /\ ~delegate
        /\ aborted' = TRUE
        /\ request' = [request EXCEPT ![r].phase = "reply"]
        /\ UNCHANGED <<buffer, bufferState>>
  /\ UNCHANGED <<instance, task, delegate, lazyReads, writing, clientVars, historyVars>>

(* The network loses a message.                                            *)
LoseMessage(r) ==
  /\ request[r].phase \in WirePhase
  /\ request' = [request EXCEPT ![r] = Gone(@)]
  /\ UNCHANGED <<serverVars, writing, clientVars, historyVars>>

-----------------------------------------------------------------------------
(* The consuming task.                                                     *)

(* ExchangeClient.clientFailed.                                            *)
ClientFailed ==
  exchange' = IF exchange.removed \/ exchange.closed THEN exchange
              ELSE [exchange EXCEPT !.failed = TRUE]

(* ExchangeClient.scheduleRequestIfNecessary picks the client.             *)
ScheduleClient ==
  /\ ~exchange.failed
  /\ CanSchedule(client)
  /\ client' = ScheduleRequest(client)
  /\ UNCHANGED <<serverVars, writing, request, exchange, received, historyVars>>

SendRequest ==
  /\ client.scheduled
  /\ IF CanInitiate(client)
     THEN \E r \in Request :
            /\ IsFree(r)
            /\ client' = InitiateRequest(client, r)
            /\ request' = [request EXCEPT ![r] =
                             IF client.completed THEN NewRequest("delete", 0)
                             ELSE NewRequest("get", client.token)]
     ELSE /\ client' = SkipRequest(client)
          /\ UNCHANGED request
  /\ UNCHANGED <<serverVars, writing, exchange, received, historyVars>>

(* A response arrives for a request the client no longer waits for.        *)
DiscardReply(r) ==
  /\ request[r].phase \in {"reply", "error"} /\ ~request[r].live
  /\ request' = [request EXCEPT ![r] = Free]
  /\ UNCHANGED <<serverVars, writing, clientVars, historyVars>>

ReceiveResults(r) ==
  /\ request[r].kind = "get" /\ request[r].phase = "reply" /\ request[r].live
  /\ request' = [request EXCEPT ![r] = [@ EXCEPT !.phase = "received", !.live = FALSE]]
  /\ UNCHANGED <<serverVars, writing, clientVars, historyVars>>

(* The DELETE succeeded: the client is closed and clientFinished.          *)
DeleteDone(r) ==
  /\ request[r].kind = "delete" /\ request[r].phase = "reply" /\ request[r].live
  /\ request' = [request EXCEPT ![r] = Free]
  /\ client' = BackoffSuccess(DeleteSucceeded(client, r))
  /\ UNCHANGED <<serverVars, writing, exchange, received, historyVars>>

(* An error status: PageTransportErrorException, a PrestoException.        *)
ReceiveError(r) ==
  /\ request[r].phase = "error" /\ request[r].live
  /\ request' = [request EXCEPT ![r] = Free]
  /\ client' = ClearFuture(client, r)
  /\ ClientFailed
  /\ UNCHANGED <<serverVars, writing, received, historyVars>>

(* The client's HTTP layer reports a failure: timeout, reset, refusal.     *)
TransportFailure(r) ==
  /\ request[r].live
  /\ request' = [request EXCEPT ![r] = GivenUp(@)]
  /\ client' = BackoffFailure(ClearFuture(client, r))
  /\ \/ UNCHANGED exchange
     \/ MayBePermanent(client) /\ ClientFailed
  /\ UNCHANGED <<serverVars, writing, received, historyVars>>

(* onSuccess of a GET up to the end of its first synchronized block, and   *)
(* the acknowledgement it may send: fire and forget, so it may be lost.    *)
AcceptResults(r) ==
  /\ request[r].phase = "received"
  /\ LET result == request[r].result
         pages == AcceptedPages(client, result)
         accepted == [request EXCEPT ![r] = Accepted(@, pages)]
     IN  IF Mismatch(client, result)
         THEN /\ client' = BackoffSuccess(ClearFuture(client, r))
              /\ request' = [request EXCEPT ![r] = Free]
              /\ ClientFailed
         ELSE /\ client' = BackoffSuccess(AcceptResult(client, result))
              /\ \/ request' = accepted
                 \/ /\ pages # <<>>
                    /\ \E s \in Request :
                          /\ IsFree(s)
                          /\ request' = [accepted EXCEPT ![s] =
                                           NewRequest("ack", result.nextToken)]
              /\ UNCHANGED exchange
  /\ UNCHANGED <<serverVars, writing, received, historyVars>>

(* ExchangeClient.addPages.                                                *)
OfferPages(r) ==
  /\ request[r].phase = "adding"
  /\ request' = [request EXCEPT ![r].phase = "added"]
  /\ received' = IF exchange.closed \/ exchange.failed THEN received
                 ELSE received \o request[r].result.pages
  /\ UNCHANGED <<serverVars, writing, client, exchange, historyVars>>

(* The second synchronized block of onSuccess.                             *)
FinishResults(r) ==
  /\ request[r].phase = "added"
  /\ request' = [request EXCEPT ![r] = Free]
  /\ client' = CompleteRequest(client, r, request[r].result)
  /\ UNCHANGED <<serverVars, writing, exchange, received, historyVars>>

(* PageBufferClient.close(): cancel the outstanding request and send a     *)
(* DELETE, unless the client is already closed.                            *)
CloseClient ==
  LET outstanding == client.future # NoRequest /\ request[client.future].live
      requests == IF outstanding
                  THEN [request EXCEPT ![client.future] = GivenUp(@)] ELSE request
      failing == IF outstanding THEN BackoffFailure(client) ELSE client
  IN  IF client.closed
      THEN /\ client' = [failing EXCEPT !.future = NoRequest]
           /\ request' = requests
      ELSE \E r \in Request :
             /\ IsFree(r)
             /\ client' = Close(failing, r)
             /\ request' = [requests EXCEPT ![r] = NewRequest("delete", 0)]

(* ExchangeClient.close(): the consumer is done, possibly before the end.  *)
CloseExchange ==
  /\ "close" \in Event
  /\ ~exchange.closed
  /\ exchange' = [exchange EXCEPT !.closed = TRUE]
  /\ CloseClient
  /\ UNCHANGED <<serverVars, writing, received, historyVars>>

RemoveRemoteSource ==
  /\ "remove" \in Event
  /\ ~exchange.closed
  /\ exchange' = [exchange EXCEPT !.removed = TRUE]
  /\ CloseClient
  /\ UNCHANGED <<serverVars, writing, received, historyVars>>

-----------------------------------------------------------------------------
Produce == \E w \in Writer : BeginEnqueue(w) \/ FinishEnqueue(w)

ServerStep(r) ==
  \/ ArriveGet(r) \/ ProcessLazyRead(r) \/ FinishGetPages(r)
  \/ AnswerTakenRead(r) \/ ReadTimeout(r) \/ ArriveAcknowledge(r) \/ ArriveDelete(r)

ClientStep(r) ==
  \/ DiscardReply(r) \/ ReceiveResults(r) \/ ReceiveError(r) \/ DeleteDone(r)
  \/ AcceptResults(r) \/ OfferPages(r) \/ FinishResults(r)

Next ==
  \/ SetOutputBuffers
  \/ Produce
  \/ BeginCompletionCheck
  \/ LeaveCompletionCheck
  \/ CheckTaskCompletion
  \/ FailTask
  \/ CancelTask
  \/ FailBuffer
  \/ DestroyBuffer
  \/ RestartWorker
  \/ ScheduleClient
  \/ SendRequest
  \/ CloseExchange
  \/ RemoveRemoteSource
  \/ \E r \in Request :
       ServerStep(r) \/ ClientStep(r) \/ LoseMessage(r) \/ TransportFailure(r)

Spec == Init /\ [][Next]_vars

(* The threads that work on a request run, the timeouts fire, a client     *)
(* that may be scheduled is (the ExchangeClient asks again on every        *)
(* completed request), and a lost message is noticed.  The network is only *)
(* assumed to stop failing at some point.                                  *)
Fault ==
  \E r \in Request :
    LoseMessage(r) \/ (request[r].phase # "lost" /\ TransportFailure(r))

NetworkRecovers == <>[][~Fault]_vars

Fairness ==
  /\ WF_vars(SetOutputBuffers)
  /\ WF_vars(FailBuffer)
  /\ WF_vars(DestroyBuffer)
  /\ \A w \in Writer : WF_vars(FinishEnqueue(w))
  /\ WF_vars(ScheduleClient)
  /\ WF_vars(SendRequest)
  /\ \A r \in Request :
       /\ WF_vars(ServerStep(r))
       /\ WF_vars(ClientStep(r))
       /\ WF_vars(request[r].phase = "lost" /\ TransportFailure(r))

FairSpec == Spec /\ Fairness /\ NetworkRecovers

-----------------------------------------------------------------------------
(* Properties.                                                             *)

(* What the operators above the ExchangeClient get is a prefix of what the *)
(* task put in its output buffer: no page twice, none skipped, none out of *)
(* order, whatever requests, acknowledgements and responses were lost,     *)
(* repeated or overtaken.                                                  *)
ReceivedInOrder ==
  Len(received) <= Len(stream) /\ received = SubSeq(stream, 1, Len(received))

(* The consumer has all there is: nothing was dropped, unless the task     *)
(* failed while it was ending its output.                                  *)
EndReached ==
  outputDone /\ received = stream /\ (dropped => completion = "overtaken")

ConsumerStatus ==
  IF exchange.failed THEN "failed"
  ELSE IF exchange.closed \/ exchange.removed THEN "closed"
  ELSE IF client.completed THEN "finished"
  ELSE "open"

(* A client that considers its buffer complete has received every page the *)
(* task produced, or reads from an instance of the task that was           *)
(* cancelled.  In particular a restarted task is never taken for one that  *)
(* finished, and a failed one only when it failed after its last           *)
(* completion check had found it running (checkTaskCompletion): then pages *)
(* may be missing, but none of those in the buffer.                        *)
CompletionIsReal ==
  ConsumerStatus = "finished" =>
    EndReached \/ client.taskInstanceId \in cancelled

(* The buffer of the first instance never sees a token it has to refuse    *)
(* ("Invalid sequence id", in acknowledgePages or in processRead).         *)
NoInvalidSequenceId ==
  instance = 1 =>
    \A r \in Request :
      /\ request[r].phase # "error"
      /\ request[r].phase = "taken" => ~ReadFails(buffer, request[r].token)

(* A page leaves the producing buffer only once the consumer has it: in    *)
(* pageBuffer, or in the hands of the callback about to put it there.      *)
NothingLost ==
  instance = 1 /\ ~exchange.closed /\ ~exchange.failed =>
    \A i \in (Len(received) + 1)..buffer.currentSequenceId :
      \E r \in Request :
        /\ request[r].phase = "adding"
        /\ i <= Len(received) + Len(request[r].result.pages)

Stream == INSTANCE PageStream WITH
  produced <- stream, dropped <- dropped, ending <- completion, ended <- outputDone,
  cancelled <- client.taskInstanceId \in cancelled,
  delivered <- received, status <- ConsumerStatus

(* The transport implements the page stream: whatever requests, answers,   *)
(* failures and closings interleave, the consumer sees a behaviour of      *)
(* PageStream.                                                             *)
ImplementsPageStream == Stream!Spec

(* A stream that has ended is eventually consumed to its end, unless the   *)
(* exchange fails, is closed by its consumer, or the worker restarts:      *)
(* retries, empty answers and abandoned reads never make the client stall. *)
StreamSettles ==
  (outputDone /\ instance = 1) ~> (ConsumerStatus # "open" \/ instance > 1)

(* A client that was reading from an instance of the task that is gone     *)
(* does not wait for it for ever.                                          *)
RestartIsNoticed ==
  (instance > 1 /\ client.taskInstanceId = 1) ~> ConsumerStatus # "open"

(* A client that has seen the end gets the producing buffer released:      *)
(* the DELETE is repeated until it succeeds.                               *)
BufferIsReleased ==
  client.completed ~>
    (bufferState = "FINISHED" \/ ConsumerStatus \in {"failed", "closed"}
     \/ bufferState = "FAILED" \/ instance > 1)
=============================================================================

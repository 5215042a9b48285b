----------------------- MODULE PageTransportInvariant -----------------------
(***************************************************************************)
(* The inductive invariant behind the safety properties of PageTransport.  *)
(***************************************************************************)
EXTENDS PageTransport

Callback(r) == request[r].phase \in CallbackPhase

Accepting == ~exchange.closed /\ ~exchange.failed

(* The client waits for at most one request, the one its future is for,    *)
(* and runs at most one callback.                                          *)
OneRequest ==
  /\ \A r \in Request :
       /\ request[r].live =>
            /\ client.future = r
            /\ request[r].kind \in {"get", "delete"}
            /\ request[r].phase \notin CallbackPhase \cup {"free"}
            /\ client.closed \/ client.completed => request[r].kind = "delete"
       /\ Callback(r) =>
            /\ request[r].kind = "get"
            /\ client.future = r \/ client.closed
            /\ ~client.completed
       /\ \A s \in Request : Callback(r) /\ Callback(s) => r = s
  /\ client.future \in Request =>
       request[client.future].live \/ Callback(client.future)

(* Which requests can be in which phase.                                   *)
Phases ==
  \A r \in Request :
    /\ request[r].phase \in ServerPhase => request[r].kind = "get"
    /\ request[r].phase = "acked" => delegate
    /\ request[r].kind = "ack" => request[r].phase = "sent"
    /\ request[r].kind = "delete" =>
         request[r].phase \in {"sent", "reply", "lost"}
    /\ r \in lazyReads =>
         request[r].phase = "waiting" /\ buffer.pendingRead # r
    /\ buffer.pendingRead = r => request[r].phase = "waiting"

(* A buffer is destroyed when its instance of the task is cancelled, or by *)
(* a DELETE, which the client sends when it has seen the end or is closed. *)
Destruction ==
  /\ \A r \in Request :
       request[r].kind = "delete" => client.completed \/ client.closed
  /\ aborted => client.completed \/ client.closed
  /\ buffer.destroyed =>
       /\ instance \in cancelled \/ client.completed \/ client.closed
       /\ Exhausted(buffer)
  /\ bufferState = "FINISHED" =>
       IF delegate THEN buffer.destroyed ELSE instance \in cancelled
  /\ task = "CANCELED" => instance \in cancelled
  /\ ~delegate => buffer = NewBuffer

(* The first instance's buffer holds exactly the end of the stream, from   *)
(* currentSequenceId on; a later instance's buffer never holds a page.     *)
BufferHoldsRest ==
  /\ instance > 1 => buffer.pages = <<>> /\ buffer.currentSequenceId = 0
  /\ instance = 1 /\ ~buffer.destroyed =>
       /\ buffer.currentSequenceId + Len(buffer.pages) = Len(stream)
       /\ \A i \in 1..Len(buffer.pages) :
            buffer.pages[i] = stream[buffer.currentSequenceId + i]

(* Tokens only ask for pages that exist, and the buffer is never ahead of  *)
(* the client.                                                             *)
Tokens ==
  /\ client.token <= Len(stream)
  /\ buffer.currentSequenceId <= client.token
  /\ \A r \in Request :
       /\ request[r].token <= client.token
       /\ \/ request[r].phase \in {"acked", "taken"}
          \/ buffer.pendingRead = r
          => buffer.destroyed \/ request[r].token <= buffer.currentSequenceId
       /\ instance = 1 => request[r].phase # "error"

(* The end of the stream: once the drivers are finished nothing is added,  *)
(* and a buffer that still counts has refused nothing.                     *)
EndOfStream ==
  /\ \A w \in Writer : writing[w] # <<>> => ~outputDone /\ instance = 1 /\ delegate
  /\ instance > 1 /\ buffer.noMorePages => buffer.destroyed
  /\ outputDone => completion \in {"checking", "overtaken"}
  /\ bufferState = "FAILED" => task = "FAILED"
  /\ instance = 1 =>
       /\ bufferState = "FLUSHING" => outputDone
       /\ buffer.noMorePages => buffer.destroyed \/ outputDone
       /\ dropped => buffer.destroyed \/ completion \in {"overtaken", "failed"}
       /\ task = "FAILED" => outputDone \/ completion \in {"overtaken", "failed"}
       /\ ~delegate => ~outputDone

(* A response carries the pages of the stream from its token on.           *)
FromStream(result) ==
  /\ result.nextToken = result.token + Len(result.pages)
  /\ result.pages # <<>> => result.nextToken <= Len(stream)
  /\ \A i \in 1..Len(result.pages) : result.pages[i] = stream[result.token + i]

ResultsFromStream ==
  \A r \in Request :
    request[r].kind = "get" /\ request[r].phase \in {"reply", "received"} =>
      FromStream(request[r].result)

AtEnd(id) ==
  \/ id \in cancelled
  \/ /\ id = 1 /\ outputDone /\ client.token = Len(stream)
     /\ dropped => completion = "overtaken"

(* A complete result that the client will act on is the truth.             *)
CompleteResults ==
  \A r \in Request :
    /\ request[r].kind = "get" /\ request[r].result.complete
       /\ ((request[r].phase = "reply" /\ request[r].live) \/ Callback(r))
       => AtEnd(request[r].result.taskInstanceId)
    /\ request[r].phase \in {"adding", "added"} =>
         client.taskInstanceId = request[r].result.taskInstanceId

(* The client's token counts the pages received and the pages in hand.     *)
TokenCounts ==
  /\ Len(received) <= Len(stream)
  /\ \A i \in 1..Len(received) : received[i] = stream[i]
  /\ Accepting =>
       /\ \A r \in Request :
            request[r].phase = "adding" =>
              /\ client.token = Len(received) + Len(request[r].result.pages)
              /\ \A i \in 1..Len(request[r].result.pages) :
                   request[r].result.pages[i] = stream[Len(received) + i]
       /\ (\A r \in Request : request[r].phase # "adding") =>
            client.token = Len(received)

(* The inductive invariant of the transport: what the buffer, the requests *)
(* on their way, the client and the consumer have of the stream fits       *)
(* together.                                                               *)
Inv ==
  /\ TypeOK
  /\ OneRequest
  /\ Phases
  /\ Destruction
  /\ BufferHoldsRest
  /\ Tokens
  /\ EndOfStream
  /\ ResultsFromStream
  /\ CompleteResults
  /\ TokenCounts
  /\ CompletionIsReal
=============================================================================

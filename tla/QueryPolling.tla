---------------------------- MODULE QueryPolling ----------------------------
(***************************************************************************)
(* The environment of the pages that poll /v1/query/{queryId} (StageDetail *)
(* and LivePlan): the query on the coordinator, as far as the pages read   *)
(* its QueryInfo, and the requests that ask for it.  A query has no output *)
(* stage until it is planned, may fail before that, and its information is *)
(* final only some time after it ended.                                    *)
(***************************************************************************)
EXTENDS Polling

CONSTANTS
  Stage,  \* the numbers of the query's stages; 0 is the output stage
  Null

VARIABLE server  \* the QueryInfo the coordinator would answer with now

QueryInfo == [state : {"QUEUED", "RUNNING", "FINISHED", "FAILED"},
              final : BOOLEAN,          \* finalQueryInfo
              stages : {{}, Stage}]     \* {} while there is no outputStage

ServerInit == server = [state |-> "QUEUED", final |-> FALSE, stages |-> {}]

isQueryEnded(query) == query.state \in {"FINISHED", "FAILED"}

Plan ==
  /\ server.state = "QUEUED"
  /\ server' = [server EXCEPT !.state = "RUNNING", !.stages = Stage]

End ==
  /\ \/ server.state = "RUNNING" /\ server' = [server EXCEPT !.state = "FINISHED"]
     \/ ~isQueryEnded(server) /\ server' = [server EXCEPT !.state = "FAILED"]

Finalize ==
  /\ isQueryEnded(server) /\ ~server.final
  /\ server' = [server EXCEPT !.final = TRUE]

ServerNext == Plan \/ End \/ Finalize

(* The coordinator answers with the query as it is now; the answer reaches *)
(* the page later.                                                         *)
Answer(r) ==
  /\ r.phase = "sent"
  /\ requests' = (requests \ {r}) \cup {[r EXCEPT !.phase = "answered", !.query = server]}
  /\ UNCHANGED <<timers, timeoutId, server>>

(* The request, or its answer, is lost, or the coordinator answers with an *)
(* error.                                                                  *)
Fail(r) ==
  /\ r.phase \in {"sent", "answered"}
  /\ requests' = (requests \ {r}) \cup {[r EXCEPT !.phase = "failed", !.query = Null]}
  /\ UNCHANGED <<timers, timeoutId, server>>
=============================================================================

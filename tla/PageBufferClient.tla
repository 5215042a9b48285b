-------------------------- MODULE PageBufferClient --------------------------
(***************************************************************************)
(* operator/PageBufferClient.java: fetches the pages of one ClientBuffer   *)
(* with one request at a time, and server/remotetask/Backoff.java, which   *)
(* decides when repeated transport failures are permanent.  As in          *)
(* ClientBuffer, each operator is one synchronized block of the class.     *)
(***************************************************************************)
EXTENDS Integers, Sequences

CONSTANTS
  NoRequest,    \* future = null
  NoInstance,   \* taskInstanceId = null
  MinTries      \* Backoff.MIN_RETRIES

ASSUME MinTriesAssumption == MinTries \in Nat \ {0}

ClientType(Request, Instance) ==
  [token: Nat,
   scheduled: BOOLEAN,
   completed: BOOLEAN,
   closed: BOOLEAN,
   future: Request \cup {NoRequest},
   taskInstanceId: Instance \cup {NoInstance},
   failureCount: 0..MinTries]

NewClient ==
  [token |-> 0,
   scheduled |-> FALSE,
   completed |-> FALSE,
   closed |-> FALSE,
   future |-> NoRequest,
   taskInstanceId |-> NoInstance,
   failureCount |-> 0]

-----------------------------------------------------------------------------
(* Backoff.  failureCount is counted up to MinTries, beyond which failure()*)
(* only asks the clock; the clock is left to the caller's choice.          *)

BackoffSuccess(c) == [c EXCEPT !.failureCount = 0]

BackoffFailure(c) ==
  [c EXCEPT !.failureCount = IF @ < MinTries THEN @ + 1 ELSE @]

(* failure() may return true: never on the first failure since a success,  *)
(* nor before MinTries failures.                                           *)
MayBePermanent(c) == c.failureCount > 0 /\ c.failureCount + 1 >= MinTries

-----------------------------------------------------------------------------
(* Requests.                                                               *)

(* Fault: a completed client is not asked for its DELETE.                  *)
CanScheduleUnlessCompleted(c) ==
  ~c.closed /\ ~c.completed /\ c.future = NoRequest /\ ~c.scheduled

CanSchedule(c) == ~c.closed /\ c.future = NoRequest /\ ~c.scheduled

ScheduleRequest(c) == [c EXCEPT !.scheduled = TRUE]

CanInitiate(c) == ~c.closed /\ c.future = NoRequest

(* initiateRequest, with r the request it sends.                           *)
InitiateRequest(c, r) == [c EXCEPT !.scheduled = FALSE, !.future = r]

SkipRequest(c) == [c EXCEPT !.scheduled = FALSE]

ClearFuture(c, r) ==
  IF c.future = r THEN [c EXCEPT !.future = NoRequest] ELSE c

-----------------------------------------------------------------------------
(* The callbacks of a GET.                                                 *)

(* The first synchronized block of onSuccess.                              *)

(* Fault: the instance is not compared.                                    *)
AnyInstance(c, result) == FALSE

Mismatch(c, result) ==
  c.taskInstanceId # NoInstance /\ c.taskInstanceId # result.taskInstanceId

InOrder(c, result) == result.token = c.token

(* Fault: the token stays where it was.                                    *)
AcceptResultKeepsToken(c, result) ==
  [c EXCEPT !.taskInstanceId = IF @ = NoInstance THEN result.taskInstanceId ELSE @]

AcceptResult(c, result) ==
  [c EXCEPT !.taskInstanceId = IF @ = NoInstance THEN result.taskInstanceId ELSE @,
            !.token = IF InOrder(c, result) THEN result.nextToken ELSE @]

AcceptedPages(c, result) == IF InOrder(c, result) THEN result.pages ELSE <<>>

(* The second one, after the pages went to the exchange client.            *)

(* Fault: an answer without pages is taken for the end.                    *)
CompleteOnEmpty(c, r, result) ==
  [ClearFuture(c, r) EXCEPT !.completed = @ \/ result.pages = <<>>]

CompleteRequest(c, r, result) ==
  [ClearFuture(c, r) EXCEPT !.completed = @ \/ result.complete]

(* onSuccess of a DELETE.                                                  *)
DeleteSucceeded(c, r) == [ClearFuture(c, r) EXCEPT !.closed = TRUE]

(* close(), with r the DELETE it sends.                                    *)
Close(c, r) == [c EXCEPT !.closed = TRUE, !.future = r]
=============================================================================

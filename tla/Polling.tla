------------------------------ MODULE Polling ------------------------------
(***************************************************************************)
(* The part of the web UI's pages that QueryDetail, StageDetail, LivePlan, *)
(* QueryList, ClusterHUD, WorkerStatus and PageTitle all hold a copy of:   *)
(* refreshLoop sends a GET, its handler calls resetTimer, the timer calls  *)
(* refreshLoop.  The browser runs one handler at a time; its timers and    *)
(* requests are the environment.                                           *)
(***************************************************************************)
EXTENDS Naturals

VARIABLES
  timers,     \* the timers that have not fired and were not cleared
  timeoutId,  \* this.timeoutId, 0 while undefined
  requests    \* the GETs whose handler has not run yet

pollVars == <<timers, timeoutId, requests>>

(* One series needs two identities, the timer that fires and the next one; *)
(* the others are there for a second series, if there ever is one.         *)
TimerId == 1..4

RequestId == 1..3

(* setTimeout gives an identity that no live timer has.                    *)
NewTimer(live) == CHOOSE i \in TimerId : i \notin live /\ i # timeoutId

NewRequest == CHOOSE i \in RequestId : \A r \in requests : r.id # i

(* The mount of the component calls refreshLoop.                           *)
PollInit(request) ==
  /\ timers = {}
  /\ timeoutId = 0
  /\ requests = {request}

(* Timer i fires; refreshLoop clears this.timeoutId and sends a request.   *)
SendRequest(i, request) ==
  /\ i \in timers
  /\ timers' = timers \ {i, timeoutId}
  /\ requests' = requests \cup {request}
  /\ UNCHANGED timeoutId

(* clearTimeout and, while the page goes on refreshing, setTimeout.        *)
ResetTimer(again) ==
  LET live == timers \ {timeoutId}
      new  == NewTimer(live)
  IN  IF again
      THEN timers' = live \cup {new} /\ timeoutId' = new
      ELSE timers' = live /\ UNCHANGED timeoutId

(* Where the page's series of requests is, for RefreshLoop.                *)
Loop ==
  CASE requests # {} /\ timers = {} -> "requesting"
    [] requests = {} /\ timers # {} -> "waiting"
    [] requests = {} /\ timers = {} -> "stopped"
    [] OTHER -> "several"
=============================================================================

---------------------------- MODULE RefreshLoop ----------------------------
(***************************************************************************)
(* What the refresh loop of a page of the web UI promises: one series of   *)
(* requests, each sent when the timer of the one before it fires, for as   *)
(* long as no answer was final.  `loop` is where the series is, `ended`    *)
(* whether the page has seen a final answer.                               *)
(***************************************************************************)
VARIABLES loop, ended

vars == <<loop, ended>>

(* componentDidMount starts the series.                                    *)
Init == loop = "requesting" /\ ended = FALSE

(* The timer fires.                                                        *)
Refresh ==
  /\ loop = "waiting"
  /\ loop' = "requesting"
  /\ UNCHANGED ended

(* An answer, or a failure, which is never final, has been handled.        *)
Handle(final) ==
  /\ loop = "requesting"
  /\ ended' = final
  /\ loop' = IF final THEN "stopped" ELSE "waiting"

Next == Refresh \/ \E final \in BOOLEAN : Handle(final)

Safety == Init /\ [][Next]_vars

(* The series goes on until it has ended.                                  *)
Liveness == WF_vars(Next)

Spec == Safety /\ Liveness
=============================================================================

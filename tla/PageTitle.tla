----------------------------- MODULE PageTitle -----------------------------
(***************************************************************************)
(* The title bar of every page (PageTitle.jsx): it polls /v1/info every    *)
(* second, shows a status light, and opens a modal dialog while the server *)
(* cannot be reached.  The bar, and with it the dialog, is only there once *)
(* the server has answered.  The user may close the dialog (external).     *)
(***************************************************************************)
EXTENDS Polling

CONSTANT Patience   \* the 30 seconds after which a failure opens the dialog

VARIABLES
  noConnection, lightShown, info, modalShown,  \* this.state
  quiet,      \* the seconds since lastSuccess, up to one more than Patience
  dialog,     \* whether the dialog is open
  closed,     \* whether the user closed it since the last answer
  lastFailed  \* whether the last request that was handled failed

pageVars == <<noConnection, lightShown, info, modalShown, quiet>>
vars == <<pollVars, pageVars, dialog, closed, lastFailed>>

Init ==
  /\ PollInit([id |-> 1, phase |-> "sent"])
  /\ noConnection = FALSE /\ lightShown = FALSE /\ info = FALSE /\ modalShown = FALSE
  /\ quiet = 0 /\ dialog = FALSE /\ closed = FALSE /\ lastFailed = FALSE

Network == \E r \in requests, phase \in {"answered", "failed"} :
  /\ r.phase # "failed" /\ r.phase # phase
  /\ requests' = (requests \ {r}) \cup {[r EXCEPT !.phase = phase]}
  /\ UNCHANGED <<timers, timeoutId, pageVars, dialog, closed, lastFailed>>

refreshLoop(i) ==
  /\ SendRequest(i, [id |-> NewRequest, phase |-> "sent"])
  /\ quiet' = IF quiet > Patience THEN quiet ELSE quiet + 1
  /\ UNCHANGED <<noConnection, lightShown, info, modalShown, dialog, closed, lastFailed>>

HandleInfo(r) ==
  /\ r.phase = "answered"
  /\ requests' = requests \ {r}
  /\ info' = TRUE /\ noConnection' = FALSE /\ modalShown' = FALSE
  /\ dialog' = FALSE /\ quiet' = 0
  /\ closed' = FALSE /\ lastFailed' = FALSE
  /\ ResetTimer(TRUE)
  /\ UNCHANGED lightShown

(* A failed fetch always has an error.                                     *)
error == TRUE

HandleError(r) ==
  LET open == ~modalShown /\ (error \/ quiet > Patience)
  IN  /\ r.phase = "failed"
      /\ requests' = requests \ {r}
      /\ noConnection' = TRUE /\ lightShown' = ~lightShown
      /\ modalShown' = (modalShown \/ open)
      /\ dialog' = IF open THEN info ELSE dialog
      /\ lastFailed' = TRUE
      /\ ResetTimer(TRUE)
      /\ UNCHANGED <<info, closed, quiet>>

CloseDialog ==
  /\ dialog
  /\ dialog' = FALSE /\ closed' = TRUE
  /\ UNCHANGED <<pollVars, pageVars, lastFailed>>

Next ==
  \/ Network \/ CloseDialog
  \/ \E r \in requests : HandleInfo(r) \/ HandleError(r)
  \/ \E i \in timers : refreshLoop(i)

Spec == Init /\ [][Next]_vars

(* renderStatusLight                                                       *)
StatusLight == IF ~noConnection THEN "green" ELSE IF lightShown THEN "red" ELSE "off"

(* The dialog and the light tell whether the server can be reached: the    *)
(* dialog is open only after a failure, a page that has its title bar has  *)
(* it open after each one until the user closes it, and the light is green *)
(* exactly when the last request was answered or none was handled.         *)
HeadsTellTruth ==
  /\ dialog => lastFailed
  /\ info /\ lastFailed /\ ~closed => dialog
  /\ StatusLight = "green" <=> ~lastFailed
=============================================================================

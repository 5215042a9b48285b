----------------------------- MODULE PageStream -----------------------------
(***************************************************************************)
(* What the exchange between a producing task and a consuming task         *)
(* promises: the consumer receives a growing prefix of the pages produced, *)
(* each page once and in order, and is told that it has everything only    *)
(* when it does.  There are two exceptions: the producing task was         *)
(* cancelled, which happens when nobody needs its pages any more, or it    *)
(* failed while it was ending its output, having found nothing wrong when  *)
(* it began to.  A task that failed before that never ends its output, and *)
(* a failed exchange never reports that it is finished.                    *)
(***************************************************************************)
EXTENDS Integers, Sequences

CONSTANT Page

VARIABLES
  produced,    \* pages the task has put in its output buffer, in order
  dropped,     \* the task produced a page its output buffer refused
  ending,      \* the task is ending its output, or failed in it or before it
  ended,       \* the task declared that it has no more pages
  cancelled,   \* the task was cancelled
  delivered,   \* pages handed to the consuming operators, in order
  status       \* the consumer's view

vars == <<produced, dropped, ending, ended, cancelled, delivered, status>>

Status == {"open", "finished", "closed", "failed"}

(* The types of the page stream.                                           *)
TypeOK ==
  /\ produced \in Seq(Page)
  /\ delivered \in Seq(Page)
  /\ dropped \in BOOLEAN
  /\ ending \in {"none", "checking", "overtaken", "failed"}
  /\ ended \in BOOLEAN
  /\ cancelled \in BOOLEAN
  /\ status \in Status

Init ==
  /\ produced = <<>>
  /\ delivered = <<>>
  /\ dropped = FALSE
  /\ ending = "none"
  /\ ended = FALSE
  /\ cancelled = FALSE
  /\ status = "open"

Produce ==
  /\ ~ended
  /\ produced' \in Seq(Page)
  /\ Len(produced') > Len(produced)
  /\ SubSeq(produced', 1, Len(produced)) = produced
  /\ UNCHANGED <<dropped, ending, ended, cancelled, delivered, status>>

Drop ==
  /\ dropped' = TRUE
  /\ UNCHANGED <<produced, ending, ended, cancelled, delivered, status>>

(* The task begins to end its output, and may find that it is too early.   *)
BeginEnd ==
  /\ ~ended /\ ending = "none"
  /\ ending' = "checking"
  /\ UNCHANGED <<produced, dropped, ended, cancelled, delivered, status>>

LeaveEnd ==
  /\ ~ended /\ ending \in {"checking", "overtaken"}
  /\ ending' = IF ending = "checking" THEN "none" ELSE "failed"
  /\ UNCHANGED <<produced, dropped, ended, cancelled, delivered, status>>

TaskFails ==
  /\ ~ended
  /\ ending' = IF ending = "checking" THEN "overtaken" ELSE "failed"
  /\ UNCHANGED <<produced, dropped, ended, cancelled, delivered, status>>

End ==
  /\ ending \in {"checking", "overtaken"}
  /\ ended' = TRUE
  /\ UNCHANGED <<produced, dropped, ending, cancelled, delivered, status>>

Cancel ==
  /\ cancelled' = TRUE
  /\ UNCHANGED <<produced, dropped, ending, ended, delivered, status>>

Deliver ==
  /\ status # "failed"
  /\ \E n \in (Len(delivered) + 1)..Len(produced) :
        delivered' = SubSeq(produced, 1, n)
  /\ UNCHANGED <<produced, dropped, ending, ended, cancelled, status>>

(* All there is: nothing was dropped unless the task failed as it ended.   *)
EndReached ==
  ended /\ delivered = produced /\ (dropped => ending = "overtaken")

Finish ==
  /\ status = "open"
  /\ EndReached \/ cancelled
  /\ status' = "finished"
  /\ UNCHANGED <<produced, dropped, ending, ended, cancelled, delivered>>

(* The consumer gives up before the end: a LIMIT is satisfied, or the      *)
(* source is removed.                                                      *)
Abandon ==
  /\ status \in {"open", "finished"}
  /\ status' = "closed"
  /\ UNCHANGED <<produced, dropped, ending, ended, cancelled, delivered>>

Fail ==
  /\ status' = "failed"
  /\ UNCHANGED <<produced, dropped, ending, ended, cancelled, delivered>>

Next ==
  \/ Produce \/ Drop \/ BeginEnd \/ LeaveEnd \/ TaskFails \/ End
  \/ Cancel \/ Deliver \/ Finish \/ Abandon \/ Fail

Spec == Init /\ [][Next]_vars
=============================================================================

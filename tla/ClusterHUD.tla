----------------------------- MODULE ClusterHUD -----------------------------
(***************************************************************************)
(* The charts of the whole cluster on the main page (ClusterHUD.jsx).  It  *)
(* polls /v1/cluster every second and turns the coordinator's running      *)
(* totals into moving averages of rates.                                   *)
(*                                                                         *)
(* The totals (input rows and bytes, CPU seconds) grow alike, so one total *)
(* stands for them.  A value of JavaScript is a number, rounded down here, *)
(* or one of Infinity, -Infinity and NaN, which the division by the number *)
(* of workers makes when there are none.  The histories of figures that    *)
(* are shown as they come are left out, and so is the redrawing of the     *)
(* charts (componentDidUpdate), at most once in a second.                  *)
(***************************************************************************)
EXTENDS Polling, Integers, Sequences

CONSTANTS
  MAX_HISTORY,   \* of utils.js
  MaxTotal,      \* bound on the coordinator's total
  Workers,       \* the numbers of active workers
  Seconds,       \* secsSinceRefresh: the time between two answers
  MaxRestarts    \* how often the coordinator restarts

(* What the code makes sure of: histories have a length, workers are       *)
(* counted, and the timer is set for a second when an answer has come (the *)
(* clock is not set back).                                                 *)
HUDConstants == MAX_HISTORY \in Nat /\ Workers \subseteq Nat /\ Seconds \subseteq Nat \ {0}

VARIABLES
  total, activeWorkers, restarts,     \* the coordinator
  lastTotal,                          \* this.state, -1 before the first answer
  inputRate, perWorkerCpuTimeRate,
  fresh,         \* whether the page has seen less than two answers
  earlyRestart,  \* whether the total fell between the first two answers
  noWorkers      \* whether an answer with no workers was turned into a rate

serverVars == <<total, activeWorkers, restarts>>
pageVars == <<lastTotal, inputRate, perWorkerCpuTimeRate, fresh, earlyRestart, noWorkers>>
vars == <<pollVars, serverVars, pageVars>>

Init ==
  /\ PollInit([id |-> 1, phase |-> "sent", total |-> 0, workers |-> 0])
  /\ total \in 0..MaxTotal /\ activeWorkers \in Workers /\ restarts = 0
  /\ lastTotal = -1 /\ inputRate = <<>> /\ perWorkerCpuTimeRate = <<>>
  /\ fresh = TRUE /\ earlyRestart = FALSE /\ noWorkers = FALSE

-----------------------------------------------------------------------------
(* The coordinator and the network.                                        *)
Work == total < MaxTotal /\ total' \in (total + 1)..MaxTotal /\ UNCHANGED <<activeWorkers, restarts>>

ChangeWorkers == activeWorkers' \in Workers /\ UNCHANGED <<total, restarts>>

(* A restarted coordinator counts from zero.                               *)
Restart ==
  /\ restarts < MaxRestarts
  /\ restarts' = restarts + 1
  /\ total' = 0
  /\ UNCHANGED activeWorkers

Coordinator == (Work \/ ChangeWorkers \/ Restart) /\ UNCHANGED <<pollVars, pageVars>>

Answers == \E r \in requests :
  /\ r.phase = "sent"
  /\ requests' = (requests \ {r}) \cup
       {[r EXCEPT !.phase = "answered", !.total = total, !.workers = activeWorkers]}
  /\ UNCHANGED <<timers, timeoutId, serverVars, pageVars>>

Failures == \E r \in requests :
  /\ r.phase # "failed"
  /\ requests' = (requests \ {r}) \cup {[r EXCEPT !.phase = "failed", !.total = 0, !.workers = 0]}
  /\ UNCHANGED <<timers, timeoutId, serverVars, pageVars>>

-----------------------------------------------------------------------------
Number(n) == [kind |-> "number", n |-> n]
Special(kind) == [kind |-> kind, n |-> 0]

(* The quotient of two numbers, rounded down.                              *)
Quotient(n, d) ==
  CASE d # 0 -> Number(n \div d)
    [] d = 0 /\ n = 0 -> Special("NaN")
    [] d = 0 /\ n > 0 -> Special("Infinity")
    [] OTHER -> Special("-Infinity")

(* value * alpha + last * (1 - alpha) with alpha = 0.2.                    *)
Weighted(value, last) ==
  CASE value.kind = "number" /\ last.kind = "number" -> Number((value.n + 4 * last.n) \div 5)
    [] value.kind = "number" /\ last.kind # "number" -> last
    [] value.kind # "number" /\ last.kind \in {"number", value.kind} -> value
    [] OTHER -> Special("NaN")

LessThanOne(value) ==
  value.kind = "-Infinity" \/ (value.kind = "number" /\ value.n < 1)

Window(history) ==
  LET n == Len(history)
  IN  SubSeq(history, (IF n > MAX_HISTORY + 1 THEN n - MAX_HISTORY ELSE 1), n)

addExponentiallyWeightedToHistory(value, history) ==
  IF history = <<>> THEN <<value>>
  ELSE LET average == IF LessThanOne(value) THEN Number(0)
                      ELSE Weighted(value, history[Len(history)])
       IN  Window(Append(history, average))

PerSecond(value, secs) == IF value.kind = "number" THEN Number(value.n \div secs) ELSE value

HandleCluster(r, secs) ==
  LET diff  == r.total - lastTotal
      first == lastTotal = -1
  IN  /\ r.phase = "answered"
      /\ requests' = requests \ {r}
      /\ inputRate' = IF first THEN <<>>
                      ELSE addExponentiallyWeightedToHistory(PerSecond(Number(diff), secs), inputRate)
      /\ perWorkerCpuTimeRate' =
           IF first THEN <<>>
           ELSE addExponentiallyWeightedToHistory(PerSecond(Quotient(diff, r.workers), secs),
                                                  perWorkerCpuTimeRate)
      /\ lastTotal' = r.total
      /\ fresh' = first
      /\ earlyRestart' = (earlyRestart \/ (~first /\ fresh /\ diff < 0))
      /\ noWorkers' = (noWorkers \/ (~first /\ r.workers = 0))
      /\ ResetTimer(TRUE)
      /\ UNCHANGED serverVars

HandleError(r) ==
  /\ r.phase = "failed"
  /\ requests' = requests \ {r}
  /\ ResetTimer(TRUE)
  /\ UNCHANGED <<serverVars, pageVars>>

refreshLoop(i) ==
  /\ SendRequest(i, [id |-> NewRequest, phase |-> "sent", total |-> 0, workers |-> 0])
  /\ UNCHANGED <<serverVars, pageVars>>

Handlers ==
  \E r \in requests : HandleError(r) \/ \E secs \in Seconds : HandleCluster(r, secs)

Next == Coordinator \/ Answers \/ Failures \/ Handlers \/ \E i \in timers : refreshLoop(i)

Spec == Init /\ [][Next]_vars

-----------------------------------------------------------------------------
Values(history) == {history[i] : i \in DOMAIN history}

(* No chart shows a negative rate when a restart of the coordinator makes  *)
(* the totals fall, except when that happens between the first two answers *)
(* of the page: the first rate is taken as it is.                          *)
NoNegativeRates ==
  ~earlyRestart => \A v \in Values(inputRate) : v.n >= 0

(* A rate that is no number comes from an answer without workers, and only *)
(* a rate below one, which sets the average to zero, ends it: while the    *)
(* cluster stays busy every later average is no number either.             *)
OnlyIdleHeals ==
  /\ \A v \in Values(perWorkerCpuTimeRate) : v.kind # "number" => noWorkers
  /\ \A i \in 2..Len(perWorkerCpuTimeRate) :
       perWorkerCpuTimeRate[i - 1].kind # "number" /\ perWorkerCpuTimeRate[i].kind = "number"
         => perWorkerCpuTimeRate[i].n = 0

(* What the charts show of the cluster's work, taken together.             *)
RatesAccounted == NoNegativeRates /\ OnlyIdleHeals
=============================================================================

--------------------------- MODULE QueryLifecycle ---------------------------
(***************************************************************************)
(* How a query ends (QueryStateMachine.java), and the requests of the web  *)
(* UI's Kill and Preempt buttons (QueryResource.failQuery).  The threads   *)
(* that fail, cancel or finish a query share no lock: a failure looks at   *)
(* the state, stores its cause, changes the state and aborts the           *)
(* transaction in steps that others interleave with.  StateMachine.setIf   *)
(* is atomic: it repeats its test until nothing changed in between.        *)
(*                                                                         *)
(* The states before RUNNING are one, the transaction is an auto-commit    *)
(* one, and a cause is the thread that brought it.                         *)
(***************************************************************************)
CONSTANTS
  Killer,      \* requests to /killed
  Preempter,   \* requests to /preempted
  Failer,      \* failures of stages and of the scheduler
  Canceler,    \* cancellations
  Commit,      \* the callback of a commit that failed
  Null

Administrator == Killer \cup Preempter
Thread == Administrator \cup Failer \cup Canceler \cup {Commit}

ASSUME ThreadAssumption ==
  /\ Null \notin Thread
  /\ Commit \notin Administrator \cup Failer \cup Canceler
  /\ Administrator \cap Canceler = {}
  /\ Failer \cap (Administrator \cup Canceler) = {}

VARIABLES
  queryState, failureCause, finalQueryInfo,   \* of the QueryStateMachine
  transaction,
  pc,       \* where each thread that ends the query is
  finish,   \* where transitionToFinishing is
  answer    \* what each administrator was told

vars == <<queryState, failureCause, finalQueryInfo, transaction, pc, finish, answer>>

QueryState == {"QUEUED", "RUNNING", "FINISHING", "FINISHED", "FAILED"}

isDone(state) == state \in {"FINISHED", "FAILED"}

Code(t) ==
  CASE t \in Killer -> "ADMINISTRATIVELY_KILLED"
    [] t \in Preempter -> "ADMINISTRATIVELY_PREEMPTED"
    [] t \in Canceler -> "USER_CANCELED"
    [] t = Null -> "none"
    [] OTHER -> "other"

Codes == {"ADMINISTRATIVELY_KILLED", "ADMINISTRATIVELY_PREEMPTED", "USER_CANCELED",
          "none", "other"}

(* The types of the state machine's fields and of where its threads are.   *)
TypeOK ==
  /\ queryState \in QueryState
  /\ failureCause \in Thread \cup {Null}
  /\ finalQueryInfo \in Codes \cup {Null}
  /\ transaction \in {"open", "committing", "committed", "failed", "aborted"}
  /\ pc \in [Thread -> {"idle", "look", "check", "cause", "set", "abort", "verify", "over"}]
  /\ finish \in {"idle", "commit", "committing", "finish", "over"}
  /\ answer \in [Administrator -> {"none", "OK", "CONFLICT"}]

Init ==
  /\ queryState = "QUEUED"
  /\ failureCause = Null /\ finalQueryInfo = Null
  /\ transaction = "open"
  /\ pc = [t \in Thread |-> "idle"]
  /\ finish = "idle"
  /\ answer = [a \in Administrator |-> "none"]

-----------------------------------------------------------------------------
(* Towards the end of a query that goes well.                              *)

transitionToRunning ==
  /\ queryState = "QUEUED"
  /\ queryState' = "RUNNING"
  /\ UNCHANGED <<failureCause, finalQueryInfo, transaction, pc, finish, answer>>

transitionToFinishing ==
  /\ finish = "idle"
  /\ queryState # "FINISHING" /\ ~isDone(queryState)
  /\ queryState' = "FINISHING"
  /\ finish' = "commit"
  /\ UNCHANGED <<failureCause, finalQueryInfo, transaction, pc, answer>>

(* Mutant: the commit is not waited for.                                   *)
CommitWithoutWaiting ==
  /\ finish = "commit"
  /\ finish' = "finish"
  /\ transaction' = IF transaction = "open" THEN "committing" ELSE transaction
  /\ UNCHANGED <<queryState, failureCause, finalQueryInfo, pc, answer>>

(* asyncCommit, unless the transaction is gone.                            *)
asyncCommit ==
  /\ finish = "commit"
  /\ \/ transaction = "open" /\ transaction' = "committing" /\ finish' = "committing"
     \/ transaction # "open" /\ UNCHANGED transaction /\ finish' = "finish"
  /\ UNCHANGED <<queryState, failureCause, finalQueryInfo, pc, answer>>

CommitSucceeds ==
  /\ finish = "committing"
  /\ transaction' = "committed" /\ finish' = "finish"
  /\ UNCHANGED <<queryState, failureCause, finalQueryInfo, pc, answer>>

(* The callback of the failed commit begins.                               *)
CommitFails ==
  /\ finish = "committing"
  /\ transaction' = "failed" /\ finish' = "over"
  /\ pc' = [pc EXCEPT ![Commit] = "check"]
  /\ UNCHANGED <<queryState, failureCause, finalQueryInfo, answer>>

(* Mutant: the state is set whatever it is.                                *)
FinishInAnyState ==
  /\ finish = "finish"
  /\ queryState' = "FINISHED"
  /\ finish' = "over"
  /\ UNCHANGED <<failureCause, finalQueryInfo, transaction, pc, answer>>

transitionToFinished ==
  /\ finish = "finish"
  /\ queryState' = IF isDone(queryState) THEN queryState ELSE "FINISHED"
  /\ finish' = "over"
  /\ UNCHANGED <<failureCause, finalQueryInfo, transaction, pc, answer>>

-----------------------------------------------------------------------------
(* transitionToFailed and transitionToCanceled.                            *)

(* Mutant: a commit that failed is treated as any other failure.           *)
NotWhileFinishing(t, state) ==
  ~isDone(state) /\ (t \notin Canceler => state # "FINISHING")

(* The predicates: nothing but the commit, or a cancellation, fails a      *)
(* query that is finishing.                                                *)
MayFail(t, state) ==
  ~isDone(state) /\ (t \notin Canceler \cup {Commit} => state # "FINISHING")

(* What a thread does after transitionToFailed.                            *)
After(t) == IF t \in Administrator THEN "verify" ELSE "over"

(* Mutant: a cancellation brings no cause.                                 *)
BeginWithoutCause(t) ==
  CASE t \in Administrator -> "look" [] t \in Canceler -> "set" [] OTHER -> "check"

(* Where a thread begins: failQuery looks at the query first, a            *)
(* cancellation looks at nothing.                                          *)
BeginAt(t) ==
  CASE t \in Administrator -> "look" [] t \in Canceler -> "cause" [] OTHER -> "check"

Begin(t) ==
  /\ pc[t] = "idle" /\ t # Commit
  /\ pc' = [pc EXCEPT ![t] = BeginAt(t)]
  /\ UNCHANGED <<queryState, failureCause, finalQueryInfo, transaction, finish, answer>>

CheckState(t) ==
  /\ pc[t] = "check"
  /\ pc' = [pc EXCEPT ![t] = IF MayFail(t, queryState) THEN "cause" ELSE After(t)]
  /\ UNCHANGED <<queryState, failureCause, finalQueryInfo, transaction, finish, answer>>

(* failureCause.compareAndSet                                              *)
SetCause(t) ==
  /\ pc[t] = "cause"
  /\ failureCause' = IF failureCause = Null THEN t ELSE failureCause
  /\ pc' = [pc EXCEPT ![t] = "set"]
  /\ UNCHANGED <<queryState, finalQueryInfo, transaction, finish, answer>>

(* Mutant: the state is not looked at again when it is set.                *)
SetFailedUnchecked(t) ==
  /\ pc[t] = "set"
  /\ queryState' = "FAILED" /\ pc' = [pc EXCEPT ![t] = "abort"]
  /\ UNCHANGED <<failureCause, finalQueryInfo, transaction, finish, answer>>

SetFailed(t) ==
  /\ pc[t] = "set"
  /\ \/ /\ MayFail(t, queryState)
        /\ queryState' = "FAILED" /\ pc' = [pc EXCEPT ![t] = "abort"]
     \/ /\ ~MayFail(t, queryState)
        /\ UNCHANGED queryState /\ pc' = [pc EXCEPT ![t] = After(t)]
  /\ UNCHANGED <<failureCause, finalQueryInfo, transaction, finish, answer>>

(* asyncAbort, unless the transaction is gone.                             *)
asyncAbort(t) ==
  /\ pc[t] = "abort"
  /\ transaction' = IF transaction = "open" THEN "aborted" ELSE transaction
  /\ pc' = [pc EXCEPT ![t] = After(t)]
  /\ UNCHANGED <<queryState, failureCause, finalQueryInfo, finish, answer>>

(* updateQueryInfo once all stages are final.                              *)
updateQueryInfo ==
  /\ isDone(queryState) /\ finalQueryInfo = Null
  /\ finalQueryInfo' = IF queryState = "FAILED" THEN Code(failureCause) ELSE "none"
  /\ UNCHANGED <<queryState, failureCause, transaction, pc, finish, answer>>

-----------------------------------------------------------------------------
(* QueryResource.failQuery around transitionToFailed.                      *)

Answer(a, what) == answer' = [answer EXCEPT ![a] = what]

LookAtQuery(a) ==
  /\ pc[a] = "look"
  /\ \/ /\ isDone(queryState)
        /\ Answer(a, "CONFLICT") /\ pc' = [pc EXCEPT ![a] = "over"]
     \/ /\ ~isDone(queryState)
        /\ pc' = [pc EXCEPT ![a] = "check"] /\ UNCHANGED answer
  /\ UNCHANGED <<queryState, failureCause, finalQueryInfo, transaction, finish>>

(* The error code of getBasicQueryInfo: that of the final information, or  *)
(* else that of the cause, in whatever state the query is.                 *)
ErrorCode == IF finalQueryInfo # Null THEN finalQueryInfo ELSE Code(failureCause)

(* Mutant: the first test repeated instead of the error code.              *)
VerifyByState(a) ==
  /\ pc[a] = "verify"
  /\ Answer(a, IF isDone(queryState) THEN "CONFLICT" ELSE "OK")
  /\ pc' = [pc EXCEPT ![a] = "over"]
  /\ UNCHANGED <<queryState, failureCause, finalQueryInfo, transaction, finish>>

Verify(a) ==
  /\ pc[a] = "verify"
  /\ Answer(a, IF ErrorCode = Code(a) THEN "OK" ELSE "CONFLICT")
  /\ pc' = [pc EXCEPT ![a] = "over"]
  /\ UNCHANGED <<queryState, failureCause, finalQueryInfo, transaction, finish>>

-----------------------------------------------------------------------------
Finishing ==
  \/ transitionToRunning \/ transitionToFinishing \/ asyncCommit
  \/ CommitSucceeds \/ CommitFails \/ transitionToFinished \/ updateQueryInfo

Failing(t) == CheckState(t) \/ SetCause(t) \/ SetFailed(t) \/ asyncAbort(t)

Asking(a) == LookAtQuery(a) \/ Verify(a)

(* Nothing is left to do.                                                  *)
Over ==
  /\ finalQueryInfo # Null
  /\ \A t \in Thread : pc[t] = "over" \/ (t = Commit /\ pc[t] = "idle")
  /\ finish \in {"idle", "over"}
  /\ UNCHANGED vars

Next ==
  \/ Finishing \/ Over
  \/ \E t \in Thread : Begin(t) \/ Failing(t)
  \/ \E a \in Administrator : Asking(a)

(* The threads that have begun go on, and a commit succeeds or fails.      *)
Fairness ==
  /\ WF_vars(asyncCommit) /\ WF_vars(CommitSucceeds \/ CommitFails)
  /\ WF_vars(transitionToFinished)
  /\ \A t \in Thread : WF_vars(Failing(t))
  /\ \A a \in Administrator : WF_vars(Asking(a))

Spec == Init /\ [][Next]_vars /\ Fairness

-----------------------------------------------------------------------------
(* A query that failed has a cause, at the very moment it fails: the note  *)
(* in transitionToFailed that listeners can observe the exception.         *)
FailedHasCause == queryState = "FAILED" => failureCause # Null

(* A query is FINISHED only when its transaction is committed, whoever     *)
(* tried to fail or to cancel it on the way (transitionToFinishing and its *)
(* callbacks).                                                             *)
FinishedMeansCommitted == queryState = "FINISHED" => transaction = "committed"

(* A query ends once: no failure, cancellation or late commit changes a    *)
(* query that has ended (the predicates given to setIf).                   *)
EndsOnce == [][isDone(queryState) => queryState' = queryState]_vars

(* Whoever is told CONFLICT did not end the query: it has not failed for   *)
(* their cause (the check and the verification in failQuery).              *)
ConflictMeansOther ==
  \A a \in Administrator :
    answer[a] = "CONFLICT" => ~(queryState = "FAILED" /\ failureCause = a)
=============================================================================

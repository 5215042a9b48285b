--------------------------- MODULE TaskExecution ----------------------------
(***************************************************************************)
(* One task from the coordinator's HttpRemoteTask, which sends it splits,  *)
(* to the worker's SqlTaskExecution, which runs a driver for each and      *)
(* declares the end of the output once all of them are done.  Updates may  *)
(* time out, be answered late, and be repeated; a driver may fail; the     *)
(* coordinator may cancel or abort the task; the reader of the output may  *)
(* delete the buffer at any time.                                          *)
(*                                                                         *)
(* SqlTaskExecution.checkTaskCompletion holds the lock of the execution    *)
(* from start to end, but nothing stops the task from failing while it     *)
(* runs: it is modelled read by read.                                      *)
(***************************************************************************)
EXTENDS Integers, FiniteSetsExt

CONSTANTS
  MaxSplits,    \* bound: splits the scheduler assigns to the task
  MaxTimeouts,  \* bound: updates that fail or time out
  Event,        \* which events of the environment may happen
  NoUpdate      \* currentRequest = null

ASSUME SplitsAssumption == MaxSplits \in Nat
ASSUME TimeoutsAssumption == MaxTimeouts \in Nat
ASSUME EventAssumption == Event \subseteq {"fail", "cancel", "abort", "limit"}

(* ScheduledSplits by their sequence ids; each gets a driver of its own.   *)
Split == 1..MaxSplits

(* Every request asks for something new or repeats one that failed.        *)
MaxUpdates == MaxSplits + MaxTimeouts + 1

(* TaskUpdateRequests, numbered: each has its own answer.                  *)
Update == [id: 1..MaxUpdates, splits: SUBSET Split, noMoreSplits: BOOLEAN]

ASSUME UpdateAssumption == NoUpdate \notin Update

(* A done future, whose handler clears currentRequest in its first block.  *)
Response == [update: Update, ok: BOOLEAN, cleared: BOOLEAN]

TaskDone == {"FINISHED", "CANCELED", "ABORTED", "FAILED"}

VARIABLES
  nextSplitId, pendingSplits,  \* HttpRemoteTask
  noMoreSplits,                \* HttpRemoteTask.noMoreSplits: absent, true or false
  needsUpdate,                 \* HttpRemoteTask
  currentRequest,              \* the update HttpRemoteTask waits for
  inFlight,                    \* updates whose future is not done
  updates, timeouts,           \* requests sent, and those that failed
  answered,                    \* updates in flight that the worker has answered
  handling,                    \* responses whose UpdateResponseHandler is not over
  sendCalled,                  \* a thread is about to enter sendUpdate
  knownState,                  \* the task state the coordinator has learned
  wire,                        \* updates that may still reach the worker
  applying,                    \* updates between SqlTask.updateTask and updateSources
  maxAcknowledgedSplit,        \* SqlTaskExecution
  noMoreDriverRunner,          \* SqlTaskExecution: every driver runner is created
  driver,                      \* the driver of each split
  remainingDriver,             \* SqlTaskExecution.Status.overallRemainingDriver
  callers,                     \* threads about to enter checkTaskCompletion
  checking,                    \* where the thread in checkTaskCompletion is
  taskState,                   \* TaskStateMachine
  cleanup,                     \* notification of the done state: its next listener
  bufferState,                 \* StateMachine<BufferState> of the output buffer
  noMorePages, destroyed,      \* its ClientBuffer
  bufferNotice,                \* the listener of bufferState = FINISHED is to run
  runs,                        \* history: drivers created for each split
  failed,                      \* history: a driver failed
  refused                      \* history: the output buffer ignored a driver's pages

remoteVars == <<nextSplitId, pendingSplits, noMoreSplits, needsUpdate,
                currentRequest, inFlight, handling, sendCalled, knownState, updates, timeouts>>
wireVars == <<answered, wire, applying>>
splitVars == <<maxAcknowledgedSplit, noMoreDriverRunner, runs>>
driverVars == <<driver, remainingDriver>>
checkVars == <<callers, checking>>
taskVars == <<taskState, cleanup>>
bufferVars == <<bufferState, noMorePages, destroyed, bufferNotice>>
historyVars == <<failed, refused>>
workerVars == <<splitVars, driverVars, checkVars, taskVars, bufferVars, historyVars>>
vars == <<remoteVars, wireVars, workerVars>>

DriverState ==
  {"absent",
   "queued",     \* known to the TaskExecutor, possibly started
   "writing",    \* in enqueue, after its canAddPages test
   "wrote",
   "finished",   \* finishedFuture is set, its callback is to run
   "erred",      \* finishedFuture has failed, its callback is to run
   "failing",    \* the failure callback has failed the task, not yet counted
   "over",       \* counted down
   "discarded"}  \* destroyed before it ran: finishedFuture is never set

Caller == ({"driver"} \X Split) \cup {<<"update", 0>>, <<"buffer", 0>>}

RemoteTypeOK ==
  /\ nextSplitId \in 1..(MaxSplits + 1)
  /\ pendingSplits \subseteq Split
  /\ noMoreSplits \in {"absent", "true", "false"}
  /\ needsUpdate \in BOOLEAN
  /\ currentRequest \in Update \cup {NoUpdate}
  /\ updates \in 0..MaxUpdates
  /\ timeouts \in 0..MaxTimeouts
  /\ inFlight \subseteq Update
  /\ answered \subseteq inFlight
  /\ handling \subseteq Response
  /\ sendCalled \in BOOLEAN
  /\ knownState \in TaskDone \cup {"RUNNING"}
  /\ wire \subseteq Update
  /\ applying \subseteq Update

WorkerTypeOK ==
  /\ maxAcknowledgedSplit \in 0..MaxSplits
  /\ noMoreDriverRunner \in BOOLEAN
  /\ driver \in [Split -> DriverState]
  /\ remainingDriver \in Nat
  /\ callers \subseteq Caller
  /\ checking \in {"no", "alive", "ended", "flushing", "flushed"}
  /\ taskState \in TaskDone \cup {"RUNNING"}
  /\ cleanup \in {"none", "buffer", "remove", "done"}
  /\ bufferState \in {"NO_MORE_BUFFERS", "FLUSHING", "FINISHED", "FAILED"}
  /\ noMorePages \in BOOLEAN
  /\ destroyed \in BOOLEAN
  /\ bufferNotice \in BOOLEAN
  /\ runs \in [Split -> Nat]
  /\ failed \in BOOLEAN
  /\ refused \in BOOLEAN

(* The types of the coordinator's and the worker's state; remainingDriver  *)
(* never falls below zero.                                                 *)
TypeOK == RemoteTypeOK /\ WorkerTypeOK

(* The task exists on the worker, with its output buffer; the coordinator  *)
(* has not sent it a split yet.                                            *)
Init ==
  /\ nextSplitId = 1
  /\ pendingSplits = {}
  /\ noMoreSplits = "absent"
  /\ needsUpdate = FALSE
  /\ currentRequest = NoUpdate
  /\ updates = 0
  /\ timeouts = 0
  /\ inFlight = {}
  /\ answered = {}
  /\ handling = {}
  /\ sendCalled = FALSE
  /\ knownState = "RUNNING"
  /\ wire = {}
  /\ applying = {}
  /\ maxAcknowledgedSplit = 0
  /\ noMoreDriverRunner = FALSE
  /\ driver = [s \in Split |-> "absent"]
  /\ remainingDriver = 0
  /\ callers = {}
  /\ checking = "no"
  /\ taskState = "RUNNING"
  /\ cleanup = "none"
  /\ bufferState = "NO_MORE_BUFFERS"
  /\ noMorePages = FALSE
  /\ destroyed = FALSE
  /\ bufferNotice = FALSE
  /\ runs = [s \in Split |-> 0]
  /\ failed = FALSE
  /\ refused = FALSE

-----------------------------------------------------------------------------
(* The coordinator: HttpRemoteTask.                                        *)

AddSplit ==
  /\ knownState \notin TaskDone
  /\ noMoreSplits = "absent" /\ nextSplitId <= MaxSplits
  /\ nextSplitId' = nextSplitId + 1
  /\ pendingSplits' = pendingSplits \cup {nextSplitId}
  /\ needsUpdate' = TRUE
  /\ sendCalled' = TRUE
  /\ UNCHANGED <<noMoreSplits, currentRequest, inFlight, handling, knownState, updates,
                 timeouts, wireVars, workerVars>>

NoMoreSplits ==
  /\ noMoreSplits = "absent"
  /\ noMoreSplits' = "true"
  /\ needsUpdate' = TRUE
  /\ sendCalled' = TRUE
  /\ UNCHANGED <<nextSplitId, pendingSplits, currentRequest, inFlight, handling,
                 knownState, updates, timeouts, wireVars, workerVars>>

(* Fault: one split per update.                                            *)
SourceOneSplit ==
  [id |-> updates + 1,
   splits |-> IF pendingSplits = {} THEN {} ELSE {Min(pendingSplits)},
   noMoreSplits |-> noMoreSplits # "absent" /\ (pendingSplits # {} \/ noMoreSplits = "true")]

(* getSources: an update may have nothing to say.                          *)
Source ==
  [id |-> updates + 1,
   splits |-> pendingSplits,
   noMoreSplits |-> noMoreSplits # "absent" /\ (pendingSplits # {} \/ noMoreSplits = "true")]

(* sendUpdate, in any of the threads that call it.  It does not wait for   *)
(* the handler of a request that is done, so requests may overlap.         *)
SendUpdate ==
  /\ sendCalled
  /\ sendCalled' = FALSE
  /\ IF needsUpdate /\ knownState \notin TaskDone /\ currentRequest \notin inFlight
     THEN /\ currentRequest' = Source
          /\ inFlight' = inFlight \cup {Source}
          /\ updates' = updates + 1
          /\ wire' = wire \cup {Source}
          /\ needsUpdate' = FALSE
     ELSE UNCHANGED <<currentRequest, inFlight, updates, wire, needsUpdate>>
  /\ UNCHANGED <<nextSplitId, pendingSplits, noMoreSplits, handling, knownState,
                 timeouts, answered, applying, workerVars>>

(* The future of a request is done: ok when the worker's answer arrived,   *)
(* not ok when the request failed or timed out.                            *)
ReceiveResponse(u, ok) ==
  /\ u \in inFlight
  /\ IF ok THEN u \in answered /\ UNCHANGED timeouts
           ELSE timeouts < MaxTimeouts /\ timeouts' = timeouts + 1
  /\ handling' = handling \cup {[update |-> u, ok |-> ok, cleared |-> FALSE]}
  /\ inFlight' = inFlight \ {u}
  /\ answered' = answered \ {u}
  /\ UNCHANGED <<nextSplitId, pendingSplits, noMoreSplits, needsUpdate, currentRequest,
                 sendCalled, knownState, updates, wire, applying, workerVars>>

(* The first block of UpdateResponseHandler, which also forgets a request  *)
(* sent since.                                                             *)
ClearCurrentRequest(h) ==
  /\ h \in handling /\ ~h.cleared
  /\ handling' = (handling \ {h}) \cup {[h EXCEPT !.cleared = TRUE]}
  /\ currentRequest' = NoUpdate
  /\ UNCHANGED <<nextSplitId, pendingSplits, noMoreSplits, needsUpdate, inFlight,
                 sendCalled, knownState, updates, timeouts, wireVars, workerVars>>

(* Fault: a failed request is not sent again.                              *)
HandleResponseNoRetry(h) ==
  /\ h \in handling /\ h.cleared
  /\ handling' = handling \ {h}
  /\ pendingSplits' = pendingSplits \ h.update.splits
  /\ noMoreSplits' = IF h.update.noMoreSplits THEN "false" ELSE noMoreSplits
  /\ sendCalled' = TRUE
  /\ UNCHANGED <<nextSplitId, needsUpdate, currentRequest, inFlight, knownState, updates,
                 timeouts, wireVars, workerVars>>

(* processTaskUpdate, or "on failure assume we need to update again"; both *)
(* end in sendUpdate.                                                      *)
HandleResponse(h) ==
  /\ h \in handling /\ h.cleared
  /\ handling' = handling \ {h}
  /\ IF h.ok
     THEN /\ pendingSplits' = pendingSplits \ h.update.splits
          /\ noMoreSplits' = IF h.update.noMoreSplits THEN "false" ELSE noMoreSplits
          /\ UNCHANGED needsUpdate
     ELSE /\ needsUpdate' = TRUE
          /\ UNCHANGED <<pendingSplits, noMoreSplits>>
  /\ sendCalled' = TRUE
  /\ UNCHANGED <<nextSplitId, currentRequest, inFlight, knownState, updates, timeouts,
                 wireVars, workerVars>>

(* The coordinator learns that the task is done, from an answer or from    *)
(* the status fetcher, or decides to abort it.                             *)
LearnDone ==
  /\ knownState \notin TaskDone
  /\ \/ taskState \in TaskDone /\ knownState' = taskState
     \/ "abort" \in Event /\ knownState' = "ABORTED"
  /\ UNCHANGED <<nextSplitId, pendingSplits, noMoreSplits, needsUpdate, currentRequest,
                 inFlight, handling, sendCalled, updates, timeouts, wireVars, workerVars>>

(* cleanUpTask, once the coordinator knows.  The canceled request fails.   *)
CleanUpTask ==
  /\ knownState \in TaskDone
  /\ pendingSplits # {} \/ currentRequest # NoUpdate
  /\ pendingSplits' = {}
  /\ currentRequest' = NoUpdate
  /\ inFlight' = inFlight \ {currentRequest}
  /\ answered' = answered \ {currentRequest}
  /\ handling' =
       IF currentRequest \in inFlight
       THEN handling \cup {[update |-> currentRequest, ok |-> FALSE, cleared |-> FALSE]}
       ELSE handling
  /\ UNCHANGED <<nextSplitId, noMoreSplits, needsUpdate, sendCalled, knownState,
                 updates, timeouts, wire, applying, workerVars>>

-----------------------------------------------------------------------------
(* The worker: task state, and updates.                                    *)

(* TaskStateMachine.transitionToDoneState; the listeners run later.        *)
TransitionToDone(state) ==
  /\ taskState' = IF taskState \in TaskDone THEN taskState ELSE state
  /\ cleanup' = IF taskState \in TaskDone THEN cleanup ELSE "buffer"

(* SqlTask.updateTask: ignored once the listener has stored the final task *)
(* info.  A request that timed out may arrive late.                        *)
ArriveUpdate(u) ==
  /\ u \in wire
  /\ wire' = wire \ {u}
  /\ IF cleanup \in {"none", "buffer"}
     THEN /\ applying' = applying \cup {u}
          /\ UNCHANGED answered
     ELSE /\ answered' = answered \cup ({u} \cap inFlight)
          /\ UNCHANGED applying
  /\ UNCHANGED <<remoteVars, workerVars>>

(* Fault: splits the worker already has are not filtered out.              *)
AllSplits(u) == u.splits

NewSplits(u) == {s \in u.splits : s > maxAcknowledgedSplit}

(* addSources: updateSources under the lock of the execution, then a call  *)
(* of checkTaskCompletion.  PendingSplits.addSplit would throw for a new   *)
(* split after the last update: NoSplitAfterEnd says there is none.        *)
ApplyUpdate(u) ==
  /\ u \in applying
  /\ checking = "no"
  /\ applying' = applying \ {u}
  /\ answered' = answered \cup ({u} \cap inFlight)
  /\ driver' = [s \in Split |->
                  IF s \notin NewSplits(u) THEN driver[s]
                  ELSE IF cleanup = "done" THEN "discarded" ELSE "queued"]
  /\ remainingDriver' = remainingDriver + Cardinality(NewSplits(u))
  /\ runs' = [s \in Split |-> IF s \in NewSplits(u) THEN runs[s] + 1 ELSE runs[s]]
  /\ maxAcknowledgedSplit' =
       IF NewSplits(u) = {} THEN maxAcknowledgedSplit ELSE Max(NewSplits(u))
  /\ noMoreDriverRunner' = (noMoreDriverRunner \/ u.noMoreSplits)
  /\ callers' = callers \cup {<<"update", 0>>}
  /\ UNCHANGED <<remoteVars, wire, checking, taskVars, bufferVars, historyVars>>

(* A cancel or an abort from the coordinator arrives.                      *)
EndTask ==
  /\ taskState \notin TaskDone
  /\ \/ "cancel" \in Event /\ TransitionToDone("CANCELED")
     \/ knownState = "ABORTED" /\ TransitionToDone("ABORTED")
  /\ UNCHANGED <<remoteVars, wireVars, splitVars, driverVars, checkVars, bufferVars,
                 historyVars>>

-----------------------------------------------------------------------------
(* The output buffer, with one partition.                                  *)

CanAddPages == bufferState = "NO_MORE_BUFFERS"

Terminal == bufferState \in {"FINISHED", "FAILED"}

(* destroy(): state to FINISHED, which notifies its listener.              *)
DestroyBuffer ==
  IF Terminal
  THEN UNCHANGED bufferVars
  ELSE /\ bufferState' = "FINISHED"
       /\ noMorePages' = TRUE
       /\ destroyed' = TRUE
       /\ bufferNotice' = TRUE

(* abort(bufferId): the reader deletes the buffer, having seen its end or  *)
(* needing no more of it; checkFlushComplete is a step of its own.         *)
AbortBuffer ==
  /\ ~destroyed
  /\ noMorePages \/ "limit" \in Event
  /\ noMorePages' = TRUE
  /\ destroyed' = TRUE
  /\ UNCHANGED <<remoteVars, wireVars, splitVars, driverVars, checkVars, taskVars,
                 bufferState, bufferNotice, historyVars>>

CheckFlushComplete ==
  /\ destroyed /\ ~Terminal
  /\ DestroyBuffer
  /\ UNCHANGED <<remoteVars, wireVars, splitVars, driverVars, checkVars, taskVars,
                 historyVars>>

(* CheckTaskCompletionOnBufferFinish.                                      *)
NotifyBufferFinished ==
  /\ bufferNotice
  /\ bufferNotice' = FALSE
  /\ callers' = callers \cup {<<"buffer", 0>>}
  /\ UNCHANGED <<remoteVars, wireVars, splitVars, driverVars, checking, taskVars,
                 bufferState, noMorePages, destroyed, historyVars>>

(* The listener of SqlTask.initialize: fail or destroy the output buffer.  *)
CleanUpBuffer ==
  /\ cleanup = "buffer"
  /\ cleanup' = "remove"
  /\ IF taskState \in {"FAILED", "ABORTED"}
     THEN /\ bufferState' = IF Terminal THEN bufferState ELSE "FAILED"
          /\ UNCHANGED <<noMorePages, destroyed, bufferNotice>>
     ELSE DestroyBuffer
  /\ UNCHANGED <<remoteVars, wireVars, splitVars, driverVars, checkVars, taskState,
                 historyVars>>

(* The listener of createTaskHandle: TaskExecutor.removeTask closes every  *)
(* split; the future of one that no thread is running is never set.        *)
RemoveTask ==
  /\ cleanup = "remove"
  /\ cleanup' = "done"
  /\ \E idle \in SUBSET {s \in Split : driver[s] \in {"queued", "wrote"}} :
        driver' = [s \in Split |-> IF s \in idle THEN "discarded" ELSE driver[s]]
  /\ UNCHANGED <<remoteVars, wireVars, splitVars, remainingDriver, checkVars,
                 taskState, bufferVars, historyVars>>

-----------------------------------------------------------------------------
(* Drivers.  Each writes at most once to the output buffer.                *)

(* enqueue up to its canAddPages test.                                     *)
BeginOutput(s) ==
  /\ driver[s] = "queued"
  /\ driver' = [driver EXCEPT ![s] = IF CanAddPages THEN "writing" ELSE "wrote"]
  /\ refused' = (refused \/ ~CanAddPages)
  /\ UNCHANGED <<remoteVars, wireVars, splitVars, remainingDriver, checkVars, taskVars,
                 bufferVars, failed>>

(* The rest of it, to ClientBuffer.enqueuePages.                           *)
EndOutput(s) ==
  /\ driver[s] = "writing"
  /\ driver' = [driver EXCEPT ![s] = "wrote"]
  /\ refused' = (refused \/ noMorePages)
  /\ UNCHANGED <<remoteVars, wireVars, splitVars, remainingDriver, checkVars, taskVars,
                 bufferVars, failed>>

(* A driver that was closed, or had nothing to say, ends without writing.  *)
FinishDriver(s) ==
  /\ driver[s] \in {"queued", "wrote"}
  /\ driver' = [driver EXCEPT ![s] = "finished"]
  /\ UNCHANGED <<remoteVars, wireVars, splitVars, remainingDriver, checkVars, taskVars,
                 bufferVars, historyVars>>

FailDriver(s) ==
  /\ "fail" \in Event
  /\ driver[s] \in {"queued", "wrote"}
  /\ driver' = [driver EXCEPT ![s] = "erred"]
  /\ failed' = TRUE
  /\ UNCHANGED <<remoteVars, wireVars, splitVars, remainingDriver, checkVars, taskVars,
                 bufferVars, refused>>

(* onSuccess: count down, then checkTaskCompletion.                        *)
OnSuccess(s) ==
  /\ driver[s] = "finished"
  /\ driver' = [driver EXCEPT ![s] = "over"]
  /\ remainingDriver' = remainingDriver - 1
  /\ callers' = callers \cup {<<"driver", s>>}
  /\ UNCHANGED <<remoteVars, wireVars, splitVars, checking, taskVars, bufferVars,
                 historyVars>>

(* Fault: the failed driver is counted twice.                              *)
OnFailureCounts(s) ==
  /\ driver[s] = "erred"
  /\ driver' = [driver EXCEPT ![s] = "failing"]
  /\ remainingDriver' = remainingDriver - 1
  /\ TransitionToDone("FAILED")
  /\ UNCHANGED <<remoteVars, wireVars, splitVars, checkVars, bufferVars, historyVars>>

(* onFailure: fail the task, then count down.                              *)
OnFailure(s) ==
  /\ driver[s] = "erred"
  /\ driver' = [driver EXCEPT ![s] = "failing"]
  /\ TransitionToDone("FAILED")
  /\ UNCHANGED <<remoteVars, wireVars, splitVars, remainingDriver, checkVars, bufferVars,
                 historyVars>>

CountFailure(s) ==
  /\ driver[s] = "failing"
  /\ driver' = [driver EXCEPT ![s] = "over"]
  /\ remainingDriver' = remainingDriver - 1
  /\ UNCHANGED <<remoteVars, wireVars, splitVars, checkVars, taskVars, bufferVars,
                 historyVars>>

-----------------------------------------------------------------------------
(* checkTaskCompletion, step by step.                                      *)

CheckState ==
  /\ checking = "no"
  /\ \E c \in callers : callers' = callers \ {c}
  /\ checking' = IF taskState \in TaskDone THEN "no" ELSE "alive"
  /\ UNCHANGED <<remoteVars, wireVars, splitVars, driverVars, taskVars, bufferVars,
                 historyVars>>

(* Fault: the drivers that still run are not looked at.                    *)
CheckSplitsOnly ==
  /\ checking = "alive"
  /\ checking' = IF noMoreDriverRunner THEN "ended" ELSE "no"
  /\ UNCHANGED <<remoteVars, wireVars, splitVars, driverVars, callers, taskVars,
                 bufferVars, historyVars>>

CheckDrivers ==
  /\ checking = "alive"
  /\ checking' = IF noMoreDriverRunner /\ remainingDriver = 0 THEN "ended" ELSE "no"
  /\ UNCHANGED <<remoteVars, wireVars, splitVars, driverVars, callers, taskVars,
                 bufferVars, historyVars>>

(* PartitionedOutputBuffer.setNoMorePages: first the state, then the       *)
(* partition and checkFlushComplete.                                       *)
CheckFlush ==
  /\ checking = "ended"
  /\ checking' = "flushing"
  /\ bufferState' = IF bufferState = "NO_MORE_BUFFERS" THEN "FLUSHING" ELSE bufferState
  /\ UNCHANGED <<remoteVars, wireVars, splitVars, driverVars, callers, taskVars,
                 noMorePages, destroyed, bufferNotice, historyVars>>

CheckNoMorePages ==
  /\ checking = "flushing"
  /\ checking' = "flushed"
  /\ IF destroyed
     THEN DestroyBuffer
     ELSE noMorePages' = TRUE /\ UNCHANGED <<bufferState, destroyed, bufferNotice>>
  /\ UNCHANGED <<remoteVars, wireVars, splitVars, driverVars, callers, taskVars,
                 historyVars>>

CheckFinished ==
  /\ checking = "flushed"
  /\ checking' = "no"
  /\ IF bufferState = "FINISHED" THEN TransitionToDone("FINISHED") ELSE UNCHANGED taskVars
  /\ UNCHANGED <<remoteVars, wireVars, splitVars, driverVars, callers, bufferVars,
                 historyVars>>

Check == CheckState \/ CheckDrivers \/ CheckFlush \/ CheckNoMorePages \/ CheckFinished

-----------------------------------------------------------------------------
RunDriver(s) ==
  BeginOutput(s) \/ EndOutput(s) \/ FinishDriver(s)

(* Fault: a failed driver is counted before the task fails.                *)
CallbackCountsFirst(s) ==
  \/ OnSuccess(s)
  \/ /\ driver[s] = "erred"
     /\ driver' = [driver EXCEPT ![s] = "failing"]
     /\ remainingDriver' = remainingDriver - 1
     /\ UNCHANGED <<remoteVars, wireVars, splitVars, checkVars, taskVars, bufferVars,
                    historyVars>>
  \/ /\ driver[s] = "failing"
     /\ driver' = [driver EXCEPT ![s] = "over"]
     /\ TransitionToDone("FAILED")
     /\ UNCHANGED <<remoteVars, wireVars, splitVars, remainingDriver, checkVars,
                    bufferVars, historyVars>>

Callback(s) == OnSuccess(s) \/ OnFailure(s) \/ CountFailure(s)

Next ==
  \/ AddSplit \/ NoMoreSplits \/ SendUpdate
  \/ \E u \in inFlight, ok \in BOOLEAN : ReceiveResponse(u, ok)
  \/ \E h \in handling : ClearCurrentRequest(h) \/ HandleResponse(h)
  \/ LearnDone \/ CleanUpTask
  \/ \E u \in wire : ArriveUpdate(u)
  \/ \E u \in applying : ApplyUpdate(u)
  \/ EndTask \/ AbortBuffer \/ CheckFlushComplete
  \/ NotifyBufferFinished \/ CleanUpBuffer \/ RemoveTask
  \/ \E s \in Split : RunDriver(s) \/ FailDriver(s) \/ Callback(s)
  \/ Check

Spec == Init /\ [][Next]_vars

(* Every thread, callback and listener of the two nodes keeps running; the *)
(* network delivers a request that does not time out, and its answer; the  *)
(* reader of the output deletes the buffer when it has seen its end.       *)
(* Nothing is assumed of aborts, whose retries the coordinator gives up.   *)
Fairness ==
  /\ WF_vars(SendUpdate)
  /\ WF_vars(\E u \in inFlight : ReceiveResponse(u, TRUE))
  /\ WF_vars(\E h \in handling : ClearCurrentRequest(h))
  /\ WF_vars(\E h \in handling : HandleResponse(h))
  /\ WF_vars(\E u \in inFlight : ArriveUpdate(u))
  /\ WF_vars(\E u \in applying : ApplyUpdate(u))
  /\ WF_vars(noMorePages /\ AbortBuffer)
  /\ WF_vars(CheckFlushComplete)
  /\ WF_vars(NotifyBufferFinished)
  /\ WF_vars(CleanUpBuffer)
  /\ WF_vars(RemoveTask)
  /\ \A s \in Split : WF_vars(RunDriver(s)) /\ WF_vars(Callback(s))
  /\ WF_vars(Check)

FairSpec == Spec /\ Fairness

-----------------------------------------------------------------------------
(* A task that reports FINISHED has run every split the coordinator gave   *)
(* it to the end, knows that there are no more, and none of its drivers    *)
(* failed (SqlTaskExecution.checkTaskCompletion, "Cool! All done!").       *)
FinishedTaskRanEverything ==
  taskState = "FINISHED" =>
    /\ noMoreSplits # "absent"
    /\ \A s \in 1..(nextSplitId - 1) : driver[s] = "over"
    /\ ~failed

(* However often an update is sent, repeated or delayed, a split is run at *)
(* most once (the filter on maxAcknowledgedSplit in updateSources).        *)
RunOnce == \A s \in Split : runs[s] <= 1

(* An update that arrives after the last one was applied brings no split   *)
(* that is new to the worker: PendingSplits.addSplit never throws.         *)
NoSplitAfterEnd == \A u \in wire \cup applying : noMoreDriverRunner => NewSplits(u) = {}

(* Once checkTaskCompletion has declared the end of the output to its      *)
(* reader, no driver is left that could still write to it.                 *)
NobodyWritesAfterEnd ==
  noMorePages /\ ~destroyed =>
    \A s \in Split : driver[s] \notin {"queued", "writing", "wrote"}

(* Where no reader deletes the buffer before its end, a task that reports  *)
(* FINISHED wrote every page it made: the output buffer ignored none of    *)
(* them.                                                                   *)
WholeOutput == "limit" \notin Event /\ taskState = "FINISHED" => ~refused

(* "closed buffers signal to upstream tasks that everything finished       *)
(* cleanly" (SqlTask.initialize): when the reader is told that the output  *)
(* is complete, no driver of the task has failed.                          *)
EndMeansClean == noMorePages /\ ~destroyed => ~failed

(* Once the coordinator has said that there are no more splits, the task   *)
(* ends: neither a lost update nor a missed completion check leaves it     *)
(* running.                                                                *)
TaskCompletes == noMoreSplits # "absent" ~> taskState # "RUNNING"
-----------------------------------------------------------------------------
(* Why the task does what it says: the inductive invariant.                *)

NotFinished == TaskDone \ {"FINISHED"}

(* The worker has stored the final task info and ignores updates.          *)
Closed == cleanup \in {"remove", "done"}

Acknowledged(s) == s <= maxAcknowledgedSplit

Sent == wire \cup applying \cup {h.update : h \in handling} \cup inFlight

(* What the worker knows of splits comes from what the coordinator said.   *)
OnlyKnownSplits ==
  /\ pendingSplits \subseteq 1..(nextSplitId - 1)
  /\ \A u \in Sent : /\ u.splits \subseteq 1..(nextSplitId - 1)
                     /\ u.noMoreSplits => noMoreSplits # "absent"
  /\ noMoreDriverRunner => noMoreSplits # "absent"
  /\ maxAcknowledgedSplit < nextSplitId

(* An update repeats every split before its own that the worker may not    *)
(* have, and the last update every such split there is.                    *)
LeavesNoGap(u) ==
  /\ \A s \in u.splits : \A t \in 1..s : t \in u.splits \/ Acknowledged(t)
  /\ u.noMoreSplits => \A t \in 1..(nextSplitId - 1) : t \in u.splits \/ Acknowledged(t)

(* Nothing is forgotten between coordinator and worker before one of them  *)
(* knows that the task is done: what the coordinator no longer has pending *)
(* the worker has acknowledged.                                            *)
NothingForgotten ==
  /\ \/ knownState \in TaskDone \/ Closed
     \/ \A t \in 1..(nextSplitId - 1) : t \in pendingSplits \/ Acknowledged(t)
  /\ \A u \in wire : Closed \/ LeavesNoGap(u)
  /\ \A u \in applying : LeavesNoGap(u)
  /\ \A u \in answered : Closed \/ \A s \in u.splits : Acknowledged(s)
  /\ \A h \in handling : h.ok => Closed \/ \A s \in h.update.splits : Acknowledged(s)
  /\ noMoreDriverRunner => \A t \in 1..(nextSplitId - 1) : Acknowledged(t)

Remaining == {s \in Split : driver[s] \notin {"absent", "over"}}

(* Each split that was acknowledged has been given one driver, and those   *)
(* not counted down yet are the remaining ones.                            *)
DriversCounted ==
  /\ \A s \in Split : /\ driver[s] = "absent" <=> ~Acknowledged(s)
                      /\ runs[s] = IF Acknowledged(s) THEN 1 ELSE 0
  /\ remainingDriver = Cardinality(Remaining)

(* The condition of checkTaskCompletion; once true it stays true.          *)
AllOver == noMoreDriverRunner /\ remainingDriver = 0

(* Who tells of an end, the completion check, the task or the buffer, does *)
(* so when all drivers are over, or else the task has failed or is given   *)
(* up.                                                                     *)
EndIsReal ==
  /\ checking \in {"ended", "flushing", "flushed"} \/ taskState = "FINISHED" => AllOver
  /\ noMorePages /\ ~destroyed => AllOver
  /\ failed => taskState \in NotFinished \/ \E s \in Split : driver[s] = "erred"
  /\ cleanup = "none" <=> taskState \notin TaskDone
  /\ "limit" \notin Event =>
       /\ bufferState # "NO_MORE_BUFFERS" \/ noMorePages \/ destroyed =>
            AllOver \/ taskState \in NotFinished
       /\ refused => taskState \in NotFinished

One(condition) == IF condition THEN 1 ELSE 0

(* Each update has its reason: a split, the end of the splits, or an       *)
(* update that failed.                                                     *)
UpdatesHaveReasons ==
  /\ IsFiniteSet(handling)
  /\ knownState \notin TaskDone =>
       updates + One(needsUpdate) + Cardinality({h \in handling : ~h.ok})
         <= (nextSplitId - 1) + One(noMoreSplits # "absent") + timeouts

(* The inductive invariant of HttpRemoteTask and SqlTaskExecution.         *)
IInv ==
  TypeOK /\ OnlyKnownSplits /\ NothingForgotten /\ DriversCounted /\ EndIsReal /\ UpdatesHaveReasons
=============================================================================

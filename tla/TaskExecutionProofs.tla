------------------------ MODULE TaskExecutionProofs -------------------------
(***************************************************************************)
(* For any number of splits and of updates that time out, and any events:  *)
(* every split of a task is run once, and the task, its completion check   *)
(* and its output buffer tell of the end only when it has come.            *)
(***************************************************************************)
EXTENDS TaskExecution, FiniteSetTheorems, TLAPS

(* A nonempty set of naturals has a least element.                         *)
LEMMA LeastNatural ==
  ASSUME NEW T, T \subseteq Nat, T # {}
  PROVE  \E x \in T : \A y \in T : x <= y
<1> DEFINE R == {ss \in Nat \X Nat : ss[1] < ss[2]}
<1>1. IsWellFoundedOn(R, Nat)
  BY Zenon, NatLessThanWellFounded DEF OpToRel
<1> HIDE DEF R
<1>2. PICK x \in T : \A y \in T : ~(<<y, x>> \in R)
  BY Zenon, <1>1, WFMin
<1>3. ASSUME NEW y \in T PROVE x <= y
  <2>1. x \in Nat /\ y \in Nat
    BY Zenon, <1>2
  <2>2. ~(y < x)
    BY Zenon, <1>2, <2>1 DEF R
  <2> QED
    BY <2>1, <2>2
<1> QED
  BY Zenon, <1>3

(* A nonempty set of positions has a largest element, which Max returns.   *)
LEMMA MaxOfPositions ==
  ASSUME NEW n \in Nat, NEW S \in SUBSET (1..n), S # {}
  PROVE  Max(S) \in S /\ \A k \in S : k <= Max(S)
<1> DEFINE T == {n - m : m \in S}
<1>1. T \subseteq Nat /\ T # {}
  <2>1. \A k \in S : n - k \in Nat
    OBVIOUS
  <2>2. PICK m \in S : TRUE
    BY Zenon
  <2>3. n - m \in T
    BY Zenon, <2>2
  <2> QED
    BY Zenon, <2>1, <2>3
<1>2. PICK x \in T : \A y \in T : x <= y
  BY Zenon, <1>1, LeastNatural
<1>3. PICK m \in S : x = n - m
  BY Zenon, <1>2
<1>4. \A k \in S : m >= k
  <2> TAKE k \in S
  <2>1. x <= n - k
    BY Zenon, <1>2
  <2> QED
    BY <2>1, <1>3
<1>5. Max(S) \in S /\ \A k \in S : Max(S) >= k
  BY Zenon, <1>4 DEF Max
<1> QED
  BY Zenon, <1>5

(* The steps of the worker that no update causes.                          *)
Work ==
  \/ EndTask \/ AbortBuffer \/ CheckFlushComplete
  \/ NotifyBufferFinished \/ CleanUpBuffer \/ RemoveTask
  \/ \E s \in Split : RunDriver(s) \/ FailDriver(s) \/ Callback(s)
  \/ Check

Coordinate ==
  \/ AddSplit \/ NoMoreSplits \/ SendUpdate
  \/ \E u \in inFlight, ok \in BOOLEAN : ReceiveResponse(u, ok)
  \/ \E h \in handling : ClearCurrentRequest(h) \/ HandleResponse(h)
  \/ LearnDone \/ CleanUpTask

(* A step is one of the coordinator, of an update or of the worker.        *)
LEMMA NextCases ==
  Next <=> \/ Coordinate
           \/ \E u \in wire : ArriveUpdate(u)
           \/ \E u \in applying : ApplyUpdate(u)
           \/ Work
BY Zenon DEF Next, Coordinate, Work

(* The splits and their bounds are numbers.                                *)
LEMMA Numbers ==
  ASSUME TypeOK
  PROVE  /\ MaxSplits \in Nat /\ MaxTimeouts \in Nat
         /\ nextSplitId \in Nat /\ maxAcknowledgedSplit \in Nat
         /\ nextSplitId - 1 \in 0..MaxSplits
BY SplitsAssumption, TimeoutsAssumption DEF TypeOK, RemoteTypeOK, WorkerTypeOK

(* What a request, sent or answered, looks like.                           *)
LEMMA UpdateFields ==
  ASSUME NEW u \in Update
  PROVE  u.splits \subseteq Split /\ u.noMoreSplits \in BOOLEAN /\ u # NoUpdate
BY Zenon, UpdateAssumption DEF Update

(* A response that its handler has begun with is still the same response.  *)
LEMMA ClearedFields ==
  ASSUME NEW h \in Response
  PROVE  LET g == [h EXCEPT !.cleared = TRUE]
         IN  g \in Response /\ g.update = h.update /\ g.ok = h.ok
BY Zenon DEF Response

(* The worker works on without the coordinator, and never opens again.     *)
LEMMA WorkFrame ==
  ASSUME IInv, Work
  PROVE  UNCHANGED <<remoteVars, wireVars, splitVars>> /\ (Closed => Closed')
<1> USE DEF IInv, EndIsReal, Closed
<1>1. ASSUME NEW st, TransitionToDone(st)
      PROVE  Closed => Closed'
  BY Zenon, <1>1 DEF TransitionToDone
<1>2. CASE EndTask
  BY Zenon, <1>1, <1>2 DEF EndTask
<1>3. CASE AbortBuffer
  BY Zenon, <1>3 DEF AbortBuffer, taskVars
<1>4. CASE CheckFlushComplete
  BY Zenon, <1>4 DEF CheckFlushComplete, taskVars
<1>5. CASE NotifyBufferFinished
  BY Zenon, <1>5 DEF NotifyBufferFinished, taskVars
<1>6. CASE CleanUpBuffer
  BY Zenon, <1>6 DEF CleanUpBuffer
<1>7. CASE RemoveTask
  BY Zenon, <1>7 DEF RemoveTask
<1>8. ASSUME NEW s \in Split, RunDriver(s) \/ FailDriver(s)
      PROVE  UNCHANGED <<remoteVars, wireVars, splitVars>> /\ (Closed => Closed')
  BY Zenon, <1>8 DEF RunDriver, FailDriver, BeginOutput, EndOutput, FinishDriver, taskVars
<1>9. ASSUME NEW s \in Split, Callback(s)
      PROVE  UNCHANGED <<remoteVars, wireVars, splitVars>> /\ (Closed => Closed')
  BY Zenon, <1>1, <1>9 DEF Callback, OnSuccess, OnFailure, CountFailure, taskVars
<1>10. CASE Check
  BY Zenon, <1>1, <1>10 DEF Check, CheckState, CheckDrivers, CheckFlush, CheckNoMorePages,
     CheckFinished, taskVars
<1> QED
  BY Zenon, <1>2, <1>3, <1>4, <1>5, <1>6, <1>7, <1>8, <1>9, <1>10 DEF Work
-----------------------------------------------------------------------------
(* Nothing is known or counted before the first split.                     *)
LEMMA InitIInv == Init => IInv
<1> SUFFICES ASSUME Init PROVE IInv
  BY Zenon
<1> USE DEF Init
<1>1. TypeOK
  <2>1. /\ nextSplitId \in 1..(MaxSplits + 1)
        /\ updates \in 0..MaxUpdates
        /\ timeouts \in 0..MaxTimeouts
        /\ maxAcknowledgedSplit \in 0..MaxSplits
    BY SplitsAssumption, TimeoutsAssumption DEF MaxUpdates
  <2>2. driver \in [Split -> DriverState] /\ runs \in [Split -> Nat]
    BY Zenon DEF DriverState
  <2> QED
    BY Zenon, <2>1, <2>2 DEF TypeOK, RemoteTypeOK, WorkerTypeOK
<1>2. OnlyKnownSplits
  BY DEF OnlyKnownSplits, Sent
<1>3. NothingForgotten
  BY DEF NothingForgotten
<1>4. DriversCounted
  <2>1. Remaining = {}
    BY Zenon DEF Remaining, Split
  <2> QED
    BY <2>1, FS_EmptySet, SplitsAssumption DEF DriversCounted, Acknowledged, Split
<1>5. EndIsReal
  BY Zenon DEF EndIsReal, TaskDone
<1>6. UpdatesHaveReasons
  <2>1. {h \in handling : ~h.ok} = {}
    BY Zenon
  <2> QED
    BY <2>1, FS_EmptySet DEF UpdatesHaveReasons, One
<1> QED
  BY Zenon, <1>1, <1>2, <1>3, <1>4, <1>5, <1>6 DEF IInv

-----------------------------------------------------------------------------
(* What the coordinator sends is what it has.                              *)
LEMMA SourceFields ==
  ASSUME TypeOK
  PROVE  /\ Source.splits = pendingSplits
         /\ Source.id = updates + 1
         /\ Source.noMoreSplits \in BOOLEAN
         /\ Source.noMoreSplits => noMoreSplits # "absent"
BY Zenon DEF Source

(* The coordinator adds to what is known before it sends anything.         *)
LEMMA OnlyKnownSplitsStep ==
  ASSUME IInv, Next
  PROVE  OnlyKnownSplits'
<1> USE DEF IInv, OnlyKnownSplits
<1> nextSplitId \in Nat /\ maxAcknowledgedSplit \in Nat
  BY Zenon, Numbers
<1>1. CASE AddSplit
  BY <1>1 DEF AddSplit, Sent, wireVars, workerVars, splitVars
<1>2. CASE NoMoreSplits
  BY Zenon, <1>2 DEF NoMoreSplits, Sent, wireVars, workerVars, splitVars
<1>3. CASE SendUpdate
  <2>1. Sent' \subseteq Sent \cup {Source}
    BY Zenon, <1>3 DEF SendUpdate, Sent
  <2>2. UNCHANGED <<pendingSplits, nextSplitId, noMoreSplits, splitVars>>
    BY Zenon, <1>3 DEF SendUpdate, workerVars
  <2>3. Source.splits \subseteq 1..(nextSplitId - 1)
        /\ (Source.noMoreSplits => noMoreSplits # "absent")
    BY Zenon, SourceFields
  <2> QED
    BY Zenon, <2>1, <2>2, <2>3 DEF splitVars
<1>4. ASSUME NEW u \in inFlight, NEW ok \in BOOLEAN, ReceiveResponse(u, ok)
      PROVE  OnlyKnownSplits'
  <2>1. Sent' \subseteq Sent
    BY <1>4 DEF ReceiveResponse, Sent
  <2> QED
    BY Zenon, <1>4, <2>1 DEF ReceiveResponse, workerVars, splitVars
<1>11. ASSUME NEW h \in handling, ClearCurrentRequest(h)
       PROVE  OnlyKnownSplits'
  <2>1. \A g \in handling' : g \in handling \/ g.update = h.update
    BY Zenon, <1>11, ClearedFields DEF ClearCurrentRequest, TypeOK, RemoteTypeOK
  <2>2. UNCHANGED <<pendingSplits, nextSplitId, noMoreSplits, inFlight, wire, applying, splitVars>>
    BY Zenon, <1>11 DEF ClearCurrentRequest, wireVars, workerVars
  <2>3. Sent' \subseteq Sent
    BY Zenon, <2>1, <2>2 DEF Sent
  <2> QED
    BY Zenon, <2>2, <2>3 DEF splitVars
<1>5. ASSUME NEW h \in handling, HandleResponse(h)
      PROVE  OnlyKnownSplits'
  <2>1. Sent' \subseteq Sent
    BY Zenon, <1>5 DEF HandleResponse, Sent, wireVars
  <2>2. noMoreSplits # "absent" => noMoreSplits' # "absent"
    BY Zenon, <1>5 DEF HandleResponse
  <2>3. pendingSplits' \subseteq pendingSplits /\ UNCHANGED <<nextSplitId, splitVars>>
    BY Zenon, <1>5 DEF HandleResponse, workerVars
  <2> QED
    BY Zenon, <2>1, <2>2, <2>3 DEF splitVars
<1>6. CASE LearnDone
  BY Zenon, <1>6 DEF LearnDone, Sent, wireVars, workerVars, splitVars
<1>7. CASE CleanUpTask
  <2>1. Sent' \subseteq Sent
    BY <1>7 DEF CleanUpTask, Sent
  <2> QED
    BY Zenon, <1>7, <2>1 DEF CleanUpTask, workerVars, splitVars
<1>8. ASSUME NEW u \in wire, ArriveUpdate(u)
      PROVE  OnlyKnownSplits'
  <2>1. Sent' \subseteq Sent
    BY <1>8 DEF ArriveUpdate, Sent, remoteVars
  <2> QED
    BY Zenon, <1>8, <2>1 DEF ArriveUpdate, remoteVars, workerVars, splitVars
<1>9. ASSUME NEW u \in applying, ApplyUpdate(u)
      PROVE  OnlyKnownSplits'
  <2>1. Sent' \subseteq Sent /\ u \in Sent
    BY Zenon, <1>9 DEF ApplyUpdate, Sent, remoteVars
  <2>2. u.splits \subseteq 1..(nextSplitId - 1) /\ (u.noMoreSplits => noMoreSplits # "absent")
    BY Zenon, <2>1
  <2>3. maxAcknowledgedSplit' < nextSplitId
    <3>1. CASE NewSplits(u) = {}
      BY Zenon, <1>9, <3>1 DEF ApplyUpdate
    <3>2. CASE NewSplits(u) # {}
      <4>1. NewSplits(u) \in SUBSET (1..(nextSplitId - 1)) /\ nextSplitId - 1 \in Nat
        BY <2>2, Numbers DEF NewSplits
      <4>2. Max(NewSplits(u)) \in NewSplits(u)
        BY Zenon, <3>2, <4>1, MaxOfPositions
      <4> QED
        BY <1>9, <3>2, <4>1, <4>2 DEF ApplyUpdate
    <3> QED
      BY Zenon, <3>1, <3>2
  <2>4. UNCHANGED remoteVars /\ noMoreDriverRunner' = (noMoreDriverRunner \/ u.noMoreSplits)
    BY Zenon, <1>9 DEF ApplyUpdate
  <2> QED
    BY Zenon, <2>1, <2>2, <2>3, <2>4 DEF remoteVars
<1>10. CASE Work
  <2>1. UNCHANGED <<remoteVars, wireVars, splitVars>>
    BY Zenon, <1>10, WorkFrame
  <2> QED
    BY Zenon, <2>1 DEF Sent, remoteVars, wireVars, splitVars
<1> QED
  BY Zenon, <1>1, <1>2, <1>3, <1>4, <1>5, <1>6, <1>7, <1>8, <1>9, <1>10,
     <1>11, NextCases DEF Coordinate

-----------------------------------------------------------------------------
(* More splits acknowledged leave no new gap.                              *)
LEMMA GapsClose ==
  ASSUME TypeOK, TypeOK', UNCHANGED nextSplitId,
         maxAcknowledgedSplit <= maxAcknowledgedSplit',
         NEW u, u.splits \subseteq Split, LeavesNoGap(u)
  PROVE  LeavesNoGap(u)'
<1>1. \A t \in 1..(nextSplitId - 1) : Acknowledged(t) => Acknowledged(t)'
  BY Numbers DEF Acknowledged, TypeOK, RemoteTypeOK, WorkerTypeOK
<1>2. \A s \in u.splits : \A t \in 1..s : Acknowledged(t) => Acknowledged(t)'
  BY Numbers DEF Acknowledged, TypeOK, RemoteTypeOK, WorkerTypeOK, Split
<1> QED
  BY <1>1, <1>2, Zenon DEF LeavesNoGap

(* When every gap is closed before it is sent, none is sent.               *)
LEMMA SourceLeavesNoGap ==
  ASSUME IInv, \A t \in 1..(nextSplitId - 1) : t \in pendingSplits \/ Acknowledged(t)
  PROVE  LeavesNoGap(Source)
<1>1. Source.splits = pendingSplits
  BY Zenon, SourceFields DEF IInv
<1>2. \A s \in pendingSplits : \A t \in 1..s : t \in 1..(nextSplitId - 1)
  BY Numbers DEF IInv, OnlyKnownSplits
<1> QED
  BY Zenon, <1>1, <1>2 DEF LeavesNoGap

(* Once the end of the splits is announced, the splits are known.          *)
LEMMA GapsStay ==
  ASSUME IInv, AddSplit, NEW u \in Sent, LeavesNoGap(u)
  PROVE  LeavesNoGap(u)'
<1>1. ~u.noMoreSplits
  BY Zenon DEF IInv, OnlyKnownSplits, AddSplit
<1>2. UNCHANGED maxAcknowledgedSplit
  BY Zenon DEF AddSplit, workerVars, splitVars
<1> QED
  BY Zenon, <1>1, <1>2 DEF LeavesNoGap, Acknowledged

(* After an update with new splits every split up to its last is           *)
(* acknowledged, and every split before it had a driver or gets one now.   *)
LEMMA ApplyAcknowledges ==
  ASSUME IInv, NEW u \in applying, ApplyUpdate(u)
  PROVE  /\ maxAcknowledgedSplit <= maxAcknowledgedSplit'
         /\ maxAcknowledgedSplit' \in 0..MaxSplits
         /\ \A s \in Split : s <= maxAcknowledgedSplit'
                               <=> s \in NewSplits(u) \/ s <= maxAcknowledgedSplit
<1> USE DEF IInv
<1>1. /\ MaxSplits \in Nat /\ maxAcknowledgedSplit \in 0..MaxSplits /\ u \in Update
      /\ u.splits \subseteq Split /\ LeavesNoGap(u)
  BY Zenon, Numbers, UpdateFields DEF TypeOK, RemoteTypeOK, WorkerTypeOK, NothingForgotten
<1>2. CASE NewSplits(u) = {}
  BY <1>1, <1>2 DEF ApplyUpdate
<1>3. CASE NewSplits(u) # {}
  <2>1. NewSplits(u) \in SUBSET (1..MaxSplits)
    BY Zenon, <1>1 DEF NewSplits, Split
  <2>2. Max(NewSplits(u)) \in NewSplits(u) /\ \A k \in NewSplits(u) : k <= Max(NewSplits(u))
    BY Zenon, <1>1, <1>3, <2>1, MaxOfPositions
  <2>3. maxAcknowledgedSplit' = Max(NewSplits(u))
    BY Zenon, <1>3 DEF ApplyUpdate
  <2>4. Max(NewSplits(u)) \in 1..MaxSplits /\ Max(NewSplits(u)) > maxAcknowledgedSplit
        /\ Max(NewSplits(u)) \in u.splits
    BY Zenon, <1>1, <2>1, <2>2 DEF NewSplits
  <2> DEFINE m == Max(NewSplits(u))
  <2> HIDE DEF m
  <2>5. ASSUME NEW s \in Split
        PROVE  s <= m <=> s \in NewSplits(u) \/ s <= maxAcknowledgedSplit
    <3>1. ASSUME s <= m PROVE s \in u.splits \/ s <= maxAcknowledgedSplit
      <4>1. s \in 1..m /\ m \in u.splits
        BY <1>1, <2>4, <3>1 DEF m, Split
      <4> QED
        BY Zenon, <1>1, <4>1 DEF LeavesNoGap, Acknowledged
    <3>2. s \in NewSplits(u) <=> s \in u.splits /\ ~(s <= maxAcknowledgedSplit)
      BY <1>1 DEF NewSplits, Split
    <3>3. s <= maxAcknowledgedSplit => s <= m
      BY <1>1, <2>4 DEF m, Split
    <3>4. s \in NewSplits(u) => s <= m
      BY Zenon, <2>2 DEF m
    <3> QED
      BY Zenon, <3>1, <3>2, <3>3, <3>4
  <2> QED
    BY <1>1, <2>3, <2>4, <2>5 DEF m
<1> QED
  BY Zenon, <1>2, <1>3

-----------------------------------------------------------------------------
(* Types.  The bound on the number of updates comes from their reasons.    *)

(* The types of what a step does not touch stay.                           *)
LEMMA FrameTypes ==
  /\ RemoteTypeOK /\ UNCHANGED <<remoteVars, wireVars>> => RemoteTypeOK'
  /\ WorkerTypeOK /\ UNCHANGED workerVars => WorkerTypeOK'
<1>1. RemoteTypeOK /\ UNCHANGED <<remoteVars, wireVars>> => RemoteTypeOK'
  BY Zenon DEF RemoteTypeOK, RemoteTypeOK, WorkerTypeOK, remoteVars, wireVars
<1>2. WorkerTypeOK /\ UNCHANGED workerVars => WorkerTypeOK'
  BY DEF WorkerTypeOK, RemoteTypeOK, WorkerTypeOK, splitVars, driverVars, checkVars, taskVars,
     bufferVars, historyVars, workerVars
<1> QED
  BY Zenon, <1>1, <1>2

(* An update is sent for a reason, so it has a number.                     *)
LEMMA SourceType ==
  ASSUME IInv, needsUpdate, knownState \notin TaskDone
  PROVE  updates + 1 \in 1..MaxUpdates /\ Source \in Update
<1> USE DEF IInv
<1>1. updates \in Nat /\ timeouts \in 0..MaxTimeouts /\ MaxTimeouts \in Nat /\ MaxSplits \in Nat
      /\ nextSplitId - 1 \in 0..MaxSplits
  BY Numbers DEF TypeOK, RemoteTypeOK, WorkerTypeOK, MaxUpdates
<1>2. IsFiniteSet({h \in handling : ~h.ok})
  BY Zenon, FS_Subset DEF UpdatesHaveReasons
<1>3. Cardinality({h \in handling : ~h.ok}) \in Nat
  BY Zenon, <1>2, FS_CardinalityType
<1>4. updates + 1 + Cardinality({h \in handling : ~h.ok})
        <= (nextSplitId - 1) + One(noMoreSplits # "absent") + timeouts
  BY Zenon DEF UpdatesHaveReasons, One
<1>5. One(noMoreSplits # "absent") \in {0, 1}
  BY Zenon DEF One
<1>6. updates + 1 \in 1..MaxUpdates
  BY <1>1, <1>3, <1>4, <1>5 DEF MaxUpdates
<1>7. pendingSplits \subseteq Split
  BY Zenon DEF TypeOK, RemoteTypeOK, WorkerTypeOK
<1> QED
  BY Zenon, <1>6, <1>7 DEF Source, Update

(* The steps of the coordinator keep the types.                            *)
LEMMA CoordinateTypes ==
  ASSUME IInv, Coordinate
  PROVE  TypeOK'
<1> SUFFICES RemoteTypeOK'
  <2>1. UNCHANGED workerVars
    BY Zenon DEF Coordinate, AddSplit, NoMoreSplits, SendUpdate, ReceiveResponse,
       ClearCurrentRequest, HandleResponse,
       LearnDone, CleanUpTask
  <2> QED
    BY Zenon, <2>1, FrameTypes DEF IInv, TypeOK
<1> RemoteTypeOK
  BY Zenon DEF IInv, TypeOK
<1>1. CASE AddSplit
  <2>1. nextSplitId + 1 \in 1..(MaxSplits + 1) /\ nextSplitId \in Split
    BY <1>1, SplitsAssumption DEF AddSplit, Split, RemoteTypeOK
  <2> QED
    BY Zenon, <1>1, <2>1 DEF AddSplit, RemoteTypeOK, wireVars
<1>2. CASE NoMoreSplits
  BY Zenon, <1>2 DEF NoMoreSplits, RemoteTypeOK, wireVars
<1>3. CASE SendUpdate
  <2>1. CASE needsUpdate /\ knownState \notin TaskDone /\ currentRequest \notin inFlight
    <3>1. updates + 1 \in 1..MaxUpdates /\ Source \in Update
      BY Zenon, <2>1, SourceType
    <3>2. updates + 1 \in 0..MaxUpdates
      BY <3>1 DEF RemoteTypeOK
    <3> HIDE DEF Source
    <3> QED
      BY Zenon, <1>3, <2>1, <3>1, <3>2 DEF SendUpdate, RemoteTypeOK
  <2>2. CASE ~(needsUpdate /\ knownState \notin TaskDone /\ currentRequest \notin inFlight)
    BY Zenon, <1>3, <2>2 DEF SendUpdate, RemoteTypeOK
  <2> QED
    BY Zenon, <2>1, <2>2
<1>4. ASSUME NEW u \in inFlight, NEW ok \in BOOLEAN, ReceiveResponse(u, ok)
      PROVE  RemoteTypeOK'
  <2>1. handling' \subseteq Response
    <3> DEFINE h == [update |-> u, ok |-> ok, cleared |-> FALSE]
    <3>1. h \in Response
      BY Zenon DEF RemoteTypeOK, Response
    <3> QED
      BY Zenon, <1>4, <3>1 DEF ReceiveResponse, RemoteTypeOK
  <2>2. timeouts' \in 0..MaxTimeouts
    BY <1>4, TimeoutsAssumption DEF ReceiveResponse, RemoteTypeOK
  <2>3. inFlight' \subseteq Update /\ answered' \subseteq inFlight'
    BY Zenon, <1>4 DEF ReceiveResponse, RemoteTypeOK
  <2> QED
    BY Zenon, <1>4, <2>1, <2>2, <2>3 DEF ReceiveResponse, RemoteTypeOK
<1>8. ASSUME NEW h \in handling, ClearCurrentRequest(h)
      PROVE  RemoteTypeOK'
  <2>1. handling' \subseteq Response
    BY Zenon, <1>8, ClearedFields DEF ClearCurrentRequest, RemoteTypeOK
  <2> QED
    BY Zenon, <1>8, <2>1 DEF ClearCurrentRequest, RemoteTypeOK, wireVars
<1>5. ASSUME NEW h \in handling, HandleResponse(h)
      PROVE  RemoteTypeOK'
  BY Zenon, <1>5 DEF HandleResponse, RemoteTypeOK, wireVars
<1>6. CASE LearnDone
  BY Zenon, <1>6 DEF LearnDone, RemoteTypeOK, TaskDone, wireVars
<1>7. CASE CleanUpTask
  <2>1. inFlight' \subseteq Update /\ answered' \subseteq inFlight'
    BY Zenon, <1>7 DEF CleanUpTask, RemoteTypeOK
  <2>2. handling' \subseteq Response
    <3>1. CASE currentRequest \notin inFlight
      BY Zenon, <1>7, <3>1 DEF CleanUpTask, RemoteTypeOK
    <3>2. CASE currentRequest \in inFlight
      <4> DEFINE h == [update |-> currentRequest, ok |-> FALSE, cleared |-> FALSE]
      <4>1. handling' = handling \cup {h}
        BY Zenon, <1>7, <3>2 DEF CleanUpTask
      <4>2. h \in Response
        BY Zenon, <3>2 DEF RemoteTypeOK, Response
      <4> QED
        BY Zenon, <4>1, <4>2 DEF RemoteTypeOK
    <3> QED
      BY Zenon, <3>1, <3>2
  <2> QED
    BY Zenon, <1>7, <2>1, <2>2 DEF CleanUpTask, RemoteTypeOK
<1> QED
  BY Zenon, <1>1, <1>2, <1>3, <1>4, <1>5, <1>6, <1>7, <1>8 DEF Coordinate

(* The drivers not counted down yet are finitely many, at most one for     *)
(* each split.                                                             *)
LEMMA RemainingFinite ==
  ASSUME TypeOK
  PROVE  /\ IsFiniteSet(Split) /\ IsFiniteSet(Remaining)
         /\ Cardinality(Remaining) \in Nat
<1>1. IsFiniteSet(Split)
  BY SplitsAssumption, FS_Interval DEF Split
<1>2. IsFiniteSet(Remaining)
  BY Zenon, <1>1, FS_Subset DEF Remaining
<1> QED
  BY Zenon, <1>1, <1>2, FS_CardinalityType

(* A driver that is counted down was counted.                              *)
LEMMA CountDown ==
  ASSUME IInv, NEW s \in Split, driver[s] \in {"finished", "failing"}
  PROVE  remainingDriver - 1 \in Nat
<1>1. s \in Remaining
  BY Zenon DEF Remaining
<1>2. Remaining # {}
  BY Zenon, <1>1
<1>3. Cardinality(Remaining) # 0 /\ Cardinality(Remaining) \in Nat
  BY Zenon, <1>2, RemainingFinite, FS_EmptySet DEF IInv
<1> QED
  BY <1>3 DEF IInv, DriversCounted

(* An update keeps the types on its way and when it is applied.            *)
LEMMA UpdateTypes ==
  ASSUME IInv, NEW u \in Update,
         \/ u \in wire /\ ArriveUpdate(u)
         \/ u \in applying /\ ApplyUpdate(u)
  PROVE  TypeOK'
<1> USE DEF IInv, TypeOK
<1>1. CASE u \in wire /\ ArriveUpdate(u)
  <2>1. RemoteTypeOK'
    BY Zenon, <1>1 DEF ArriveUpdate, RemoteTypeOK, remoteVars
  <2> QED
    BY Zenon, <1>1, <2>1, FrameTypes DEF ArriveUpdate
<1>2. CASE u \in applying /\ ApplyUpdate(u)
  <2>1. RemoteTypeOK'
    BY Zenon, <1>2 DEF ApplyUpdate, RemoteTypeOK, remoteVars
  <2>2. maxAcknowledgedSplit' \in 0..MaxSplits
    BY Zenon, <1>2, ApplyAcknowledges
  <2>3. IsFiniteSet(NewSplits(u))
    <3>1. u.splits \subseteq Split
      BY Zenon, UpdateFields
    <3> QED
      BY Zenon, <3>1, RemainingFinite, FS_Subset DEF NewSplits
  <2>4. remainingDriver' \in Nat
    <3>1. Cardinality(NewSplits(u)) \in Nat
      BY Zenon, <2>3, FS_CardinalityType
    <3> QED
      BY <1>2, <3>1 DEF ApplyUpdate, WorkerTypeOK
  <2>5. driver' \in [Split -> DriverState]
    BY Zenon, <1>2 DEF ApplyUpdate, WorkerTypeOK, DriverState
  <2>6. runs' \in [Split -> Nat]
    BY <1>2 DEF ApplyUpdate, WorkerTypeOK
  <2>7. noMoreDriverRunner' \in BOOLEAN /\ callers' \subseteq Caller
    BY Zenon, <1>2, UpdateFields DEF ApplyUpdate, WorkerTypeOK, Caller
  <2>8. UNCHANGED <<checking, taskVars, bufferVars, historyVars>>
    BY Zenon, <1>2 DEF ApplyUpdate
  <2>9. WorkerTypeOK'
    BY <2>2, <2>4, <2>5, <2>6, <2>7, <2>8 DEF WorkerTypeOK, taskVars, bufferVars, historyVars
  <2> QED
    BY Zenon, <2>1, <2>9
<1> QED
  BY Zenon, <1>1, <1>2

(* So does the worker, whatever it does on its own.                        *)
LEMMA WorkTypes ==
  ASSUME IInv, Work
  PROVE  TypeOK'
<1> SUFFICES WorkerTypeOK'
  BY Zenon, WorkFrame, FrameTypes DEF IInv, TypeOK
<1> WorkerTypeOK /\ UNCHANGED splitVars
  BY Zenon, WorkFrame DEF IInv, TypeOK
<1> USE DEF splitVars, driverVars, checkVars, taskVars, bufferVars, historyVars
<1>1. CASE EndTask
  BY <1>1 DEF EndTask, TransitionToDone, TaskDone, WorkerTypeOK
<1>2. CASE AbortBuffer
  BY <1>2 DEF AbortBuffer, WorkerTypeOK
<1>3. CASE CheckFlushComplete
  BY <1>3 DEF CheckFlushComplete, DestroyBuffer, WorkerTypeOK
<1>4. CASE NotifyBufferFinished
  <2>1. callers' \subseteq Caller
    BY Zenon, <1>4 DEF NotifyBufferFinished, Caller, WorkerTypeOK
  <2>2. bufferNotice' \in BOOLEAN
    BY Zenon, <1>4 DEF NotifyBufferFinished
  <2>3. UNCHANGED <<driver, remainingDriver, checking, taskState, cleanup, bufferState, noMorePages,
                    destroyed, failed, refused>>
    BY Zenon, <1>4 DEF NotifyBufferFinished
  <2> QED
    BY <2>1, <2>2, <2>3 DEF WorkerTypeOK
<1>5. CASE CleanUpBuffer
  <2>1. bufferState' \in {bufferState, "FAILED", "FINISHED"}
        /\ noMorePages' \in {noMorePages, TRUE} /\ destroyed' \in {destroyed, TRUE}
        /\ bufferNotice' \in {bufferNotice, TRUE}
    BY Zenon, <1>5 DEF CleanUpBuffer, DestroyBuffer
  <2>2. /\ bufferState' \in {"NO_MORE_BUFFERS", "FLUSHING", "FINISHED", "FAILED"}
        /\ noMorePages' \in BOOLEAN /\ destroyed' \in BOOLEAN /\ bufferNotice' \in BOOLEAN
        /\ cleanup' \in {"none", "buffer", "remove", "done"}
    BY Zenon, <1>5, <2>1 DEF CleanUpBuffer, WorkerTypeOK
  <2> QED
    BY Zenon, <1>5, <2>2 DEF CleanUpBuffer, WorkerTypeOK
<1>6. CASE RemoveTask
  BY <1>6 DEF RemoveTask, DriverState, WorkerTypeOK
<1>7. ASSUME NEW s \in Split, RunDriver(s) \/ FailDriver(s)
      PROVE  WorkerTypeOK'
  <2>1. CASE BeginOutput(s)
    BY <2>1 DEF BeginOutput, CanAddPages, DriverState, WorkerTypeOK
  <2>2. CASE EndOutput(s)
    BY <2>2 DEF EndOutput, DriverState, WorkerTypeOK
  <2>3. CASE FinishDriver(s)
    BY <2>3 DEF FinishDriver, DriverState, WorkerTypeOK
  <2>4. CASE FailDriver(s)
    BY <2>4 DEF FailDriver, DriverState, WorkerTypeOK
  <2> QED
    BY Zenon, <1>7, <2>1, <2>2, <2>3, <2>4 DEF RunDriver
<1>8. ASSUME NEW s \in Split, Callback(s)
      PROVE  WorkerTypeOK'
  <2>1. CASE OnSuccess(s)
    <3>1. remainingDriver - 1 \in Nat
      BY Zenon, <2>1, CountDown DEF OnSuccess
    <3> QED
      BY <2>1, <3>1 DEF OnSuccess, DriverState, Caller, WorkerTypeOK
  <2>2. CASE OnFailure(s)
    BY <2>2 DEF OnFailure, TransitionToDone, TaskDone, DriverState, WorkerTypeOK
  <2>3. CASE CountFailure(s)
    <3>1. remainingDriver - 1 \in Nat
      BY Zenon, <2>3, CountDown DEF CountFailure
    <3> QED
      BY <2>3, <3>1 DEF CountFailure, DriverState, WorkerTypeOK
  <2> QED
    BY Zenon, <1>8, <2>1, <2>2, <2>3 DEF Callback
<1>9. CASE Check
  <2>1. CASE CheckState
    BY <2>1 DEF CheckState, WorkerTypeOK
  <2>2. CASE CheckDrivers
    BY <2>2 DEF CheckDrivers, WorkerTypeOK
  <2>3. CASE CheckFlush
    BY <2>3 DEF CheckFlush, WorkerTypeOK
  <2>4. CASE CheckNoMorePages
    <3>1. /\ bufferState' \in {bufferState, "FINISHED"} /\ noMorePages' \in BOOLEAN
          /\ destroyed' \in BOOLEAN /\ bufferNotice' \in BOOLEAN
      <4>1. CASE destroyed /\ Terminal
        BY Zenon, <2>4, <4>1 DEF CheckNoMorePages, DestroyBuffer, WorkerTypeOK, bufferVars
      <4>2. CASE destroyed /\ ~Terminal
        BY Zenon, <2>4, <4>2 DEF CheckNoMorePages, DestroyBuffer
      <4>3. CASE ~destroyed
        BY Zenon, <2>4, <4>3 DEF CheckNoMorePages, WorkerTypeOK
      <4> QED
        BY Zenon, <4>1, <4>2, <4>3
    <3> QED
      BY <2>4, <3>1 DEF CheckNoMorePages, WorkerTypeOK
  <2>5. CASE CheckFinished
    BY <2>5 DEF CheckFinished, TransitionToDone, TaskDone, WorkerTypeOK
  <2> QED
    BY Zenon, <1>9, <2>1, <2>2, <2>3, <2>4, <2>5 DEF Check
<1> QED
  BY Zenon, <1>1, <1>2, <1>3, <1>4, <1>5, <1>6, <1>7, <1>8, <1>9 DEF Work

(* Every step keeps the types.                                             *)
LEMMA TypeStep ==
  ASSUME IInv, Next
  PROVE  TypeOK'
<1>1. wire \subseteq Update /\ applying \subseteq Update
  BY Zenon DEF IInv, TypeOK, RemoteTypeOK
<1> QED
  BY Zenon, <1>1, NextCases, CoordinateTypes, UpdateTypes, WorkTypes

-----------------------------------------------------------------------------
(* Nothing that the coordinator said is forgotten by its own steps.        *)
LEMMA CoordinateForgetsNothing ==
  ASSUME IInv, Coordinate
  PROVE  NothingForgotten'
<1> USE DEF IInv, NothingForgotten
<1>1. UNCHANGED <<cleanup, applying, maxAcknowledgedSplit, noMoreDriverRunner>>
  BY Zenon DEF Coordinate, AddSplit, NoMoreSplits, SendUpdate, ReceiveResponse,
       ClearCurrentRequest, HandleResponse,
     LearnDone, CleanUpTask, wireVars, workerVars, splitVars, taskVars
<1>2. (Closed <=> Closed') /\ \A t : Acknowledged(t) <=> Acknowledged(t)'
  BY Zenon, <1>1 DEF Closed, Acknowledged
<1>3. CASE AddSplit
  <2>1. \A u \in wire \cup applying : LeavesNoGap(u) => LeavesNoGap(u)'
    BY Zenon, <1>3, GapsStay DEF Sent
  <2>2. ~noMoreDriverRunner
    BY Zenon, <1>3 DEF AddSplit, OnlyKnownSplits
  <2>3. UNCHANGED <<wire, answered, handling, knownState>>
    BY Zenon, <1>3 DEF AddSplit, wireVars
  <2>4. ASSUME \A t \in 1..(nextSplitId - 1) : t \in pendingSplits \/ Acknowledged(t)
        PROVE  \A t \in 1..(nextSplitId' - 1) : t \in pendingSplits' \/ Acknowledged(t)
    <3>1. pendingSplits' = pendingSplits \cup {nextSplitId} /\ nextSplitId' = nextSplitId + 1
      BY Zenon, <1>3 DEF AddSplit
    <3>2. \A t \in 1..(nextSplitId' - 1) : t \in 1..(nextSplitId - 1) \/ t = nextSplitId
      BY <3>1, Numbers
    <3> QED
      BY Zenon, <2>4, <3>1, <3>2
  <2> QED
    BY Zenon, <1>1, <1>2, <2>1, <2>2, <2>3, <2>4
<1>4. ASSUME UNCHANGED nextSplitId, NEW u, LeavesNoGap(u)
      PROVE  LeavesNoGap(u)'
  BY Zenon, <1>2, <1>4 DEF LeavesNoGap
<1>5. CASE NoMoreSplits
  <2>1. UNCHANGED <<nextSplitId, pendingSplits, wire, answered, handling, knownState>>
    BY Zenon, <1>5 DEF NoMoreSplits, wireVars
  <2> QED
    BY Zenon, <1>1, <1>2, <1>4, <2>1
<1>6. CASE SendUpdate
  <2>1. UNCHANGED <<nextSplitId, pendingSplits, answered, handling, knownState>>
    BY Zenon, <1>6 DEF SendUpdate
  <2>2. CASE needsUpdate /\ knownState \notin TaskDone /\ currentRequest \notin inFlight
    <3>1. wire' = wire \cup {Source}
      BY Zenon, <1>6, <2>2 DEF SendUpdate
    <3>2. Closed \/ LeavesNoGap(Source)
      BY Zenon, <2>2, SourceLeavesNoGap
    <3>3. \A u \in wire' : Closed' \/ LeavesNoGap(u)'
      BY Zenon, <1>2, <1>4, <2>1, <3>1, <3>2
    <3> QED
      BY Zenon, <1>1, <1>2, <1>4, <2>1, <3>1, <3>3
  <2>3. CASE ~(needsUpdate /\ knownState \notin TaskDone /\ currentRequest \notin inFlight)
    <3>1. UNCHANGED wire
      BY Zenon, <1>6, <2>3 DEF SendUpdate
    <3> QED
      BY Zenon, <1>1, <1>2, <1>4, <2>1, <3>1
  <2> QED
    BY Zenon, <2>2, <2>3
<1>7. ASSUME NEW u \in inFlight, NEW ok \in BOOLEAN, ReceiveResponse(u, ok)
      PROVE  NothingForgotten'
  <2> DEFINE h == [update |-> u, ok |-> ok, cleared |-> FALSE]
  <2>1. /\ UNCHANGED <<nextSplitId, pendingSplits, wire, knownState>>
        /\ handling' = handling \cup {h}
        /\ (ok => u \in answered) /\ answered' \subseteq answered
    BY Zenon, <1>7 DEF ReceiveResponse
  <2>2. h.update = u /\ h.ok = ok
    BY Zenon
  <2> HIDE DEF h
  <2>3. \A g \in handling' : g.ok => Closed' \/ \A s \in g.update.splits : Acknowledged(s)'
    BY Zenon, <1>2, <2>1, <2>2
  <2> QED
    BY Zenon, <1>1, <1>2, <1>4, <2>1, <2>3
<1>11. ASSUME NEW h \in handling, ClearCurrentRequest(h)
       PROVE  NothingForgotten'
  <2>1. UNCHANGED <<nextSplitId, pendingSplits, wire, answered, knownState>>
    BY Zenon, <1>11 DEF ClearCurrentRequest, wireVars
  <2>2. \A g \in handling' : g \in handling \/ (g.update = h.update /\ g.ok = h.ok)
    BY Zenon, <1>11, ClearedFields DEF ClearCurrentRequest, TypeOK, RemoteTypeOK
  <2>3. \A g \in handling' : g.ok => Closed' \/ \A s \in g.update.splits : Acknowledged(s)'
    BY Zenon, <1>2, <2>2
  <2> QED
    BY Zenon, <1>1, <1>2, <1>4, <2>1, <2>3
<1>8. ASSUME NEW h \in handling, HandleResponse(h)
      PROVE  NothingForgotten'
  <2>1. /\ UNCHANGED <<nextSplitId, wire, answered, knownState>>
        /\ handling' \subseteq handling
    BY Zenon, <1>8 DEF HandleResponse, wireVars
  <2>2. pendingSplits' = pendingSplits \/ (h.ok /\ pendingSplits' = pendingSplits \ h.update.splits)
    BY Zenon, <1>8 DEF HandleResponse
  <2>3. Closed \/ \A t \in pendingSplits : t \in pendingSplits' \/ Acknowledged(t)
    BY Zenon, <2>2
  <2>4. \/ knownState \in TaskDone \/ Closed
        \/ \A t \in 1..(nextSplitId - 1) : t \in pendingSplits' \/ Acknowledged(t)
    BY Zenon, <2>3
  <2> QED
    BY Zenon, <1>1, <1>2, <1>4, <2>1, <2>4
<1>9. CASE LearnDone
  <2>1. /\ UNCHANGED <<nextSplitId, pendingSplits, wire, answered, handling>>
        /\ knownState' \in TaskDone
    BY Zenon, <1>9 DEF LearnDone, wireVars, TaskDone
  <2> QED
    BY Zenon, <1>1, <1>2, <1>4, <2>1
<1>10. CASE CleanUpTask
  <2>1. /\ UNCHANGED <<nextSplitId, wire, knownState>>
        /\ knownState \in TaskDone /\ answered' \subseteq answered
        /\ \A h \in handling' : h \in handling \/ ~h.ok
    BY <1>10 DEF CleanUpTask
  <2> QED
    BY Zenon, <1>1, <1>2, <1>4, <2>1
<1> QED
  BY Zenon, <1>3, <1>5, <1>6, <1>7, <1>8, <1>9, <1>10, <1>11 DEF Coordinate

(* Nor by the worker, to which the update that it applies brings what it   *)
(* did not have.                                                           *)
LEMMA WorkerForgetsNothing ==
  ASSUME IInv, ~Coordinate, Next
  PROVE  NothingForgotten'
<1> USE DEF IInv, NothingForgotten
<1>1. ASSUME NEW u \in wire, ArriveUpdate(u)
      PROVE  NothingForgotten'
  <2>1. UNCHANGED <<nextSplitId, pendingSplits, handling, knownState, cleanup,
                    maxAcknowledgedSplit, noMoreDriverRunner>>
    BY Zenon, <1>1 DEF ArriveUpdate, remoteVars, workerVars, splitVars, taskVars
  <2>2. (Closed <=> Closed') /\ \A t : Acknowledged(t) <=> Acknowledged(t)'
    BY Zenon, <2>1 DEF Closed, Acknowledged
  <2>3. ASSUME NEW v, LeavesNoGap(v) PROVE LeavesNoGap(v)'
    BY Zenon, <2>1, <2>2, <2>3 DEF LeavesNoGap
  <2>4. wire' \subseteq wire
    BY Zenon, <1>1 DEF ArriveUpdate
  <2>5. CASE cleanup \in {"none", "buffer"}
    <3>1. ~Closed /\ applying' = applying \cup {u} /\ answered' = answered
      BY Zenon, <1>1, <2>5 DEF ArriveUpdate, Closed
    <3>2. LeavesNoGap(u)
      BY Zenon, <3>1
    <3>3. \A v \in applying' : LeavesNoGap(v)'
      BY Zenon, <2>3, <3>1, <3>2
    <3> QED
      BY Zenon, <2>1, <2>2, <2>3, <2>4, <3>1, <3>3
  <2>6. CASE cleanup \notin {"none", "buffer"}
    <3>1. applying' = applying
      BY Zenon, <1>1, <2>6 DEF ArriveUpdate
    <3>2. Closed
      BY Zenon, <2>6 DEF Closed, TypeOK, WorkerTypeOK
    <3> QED
      BY Zenon, <2>1, <2>2, <2>3, <2>4, <3>1, <3>2
  <2> QED
    BY Zenon, <2>5, <2>6
<1>2. ASSUME NEW u \in applying, ApplyUpdate(u)
      PROVE  NothingForgotten'
  <2>1. /\ UNCHANGED <<nextSplitId, pendingSplits, handling, knownState, cleanup, wire>>
        /\ applying' \subseteq applying
        /\ answered' \subseteq answered \cup {u} /\ answered \subseteq Update
        /\ noMoreDriverRunner' => noMoreDriverRunner \/ u.noMoreSplits
    BY Zenon, <1>2 DEF ApplyUpdate, remoteVars, taskVars, TypeOK, RemoteTypeOK
  <2>2. u \in Update /\ u.splits \subseteq Split /\ wire \subseteq Update /\ applying \subseteq Update
    BY Zenon, UpdateFields DEF TypeOK, RemoteTypeOK
  <2>3. /\ maxAcknowledgedSplit <= maxAcknowledgedSplit'
        /\ \A s \in Split : s <= maxAcknowledgedSplit'
                              <=> s \in NewSplits(u) \/ s <= maxAcknowledgedSplit
    BY Zenon, <1>2, ApplyAcknowledges
  <2>4. \A s \in Split : s \in u.splits => Acknowledged(s)'
    <3> TAKE s \in Split
    <3>1. s \in u.splits => s \in NewSplits(u) \/ s <= maxAcknowledgedSplit
      BY DEF NewSplits, TypeOK, WorkerTypeOK, Split
    <3> QED
      BY Zenon, <2>3, <3>1 DEF Acknowledged
  <2>5. \A s \in Split : Acknowledged(s) => Acknowledged(s)'
    BY Zenon, <2>3 DEF Acknowledged
  <2>6. TypeOK'
    BY Zenon, <2>2, <1>2, UpdateTypes
  <2>7. \A v \in wire \cup applying : LeavesNoGap(v) => LeavesNoGap(v)'
    <3> TAKE v \in wire \cup applying
    <3>1. v.splits \subseteq Split
      BY Zenon, <2>2, UpdateFields
    <3> QED
      BY Zenon, <2>1, <2>3, <2>6, <3>1, GapsClose
  <2>8. Closed <=> Closed'
    BY Zenon, <2>1 DEF Closed
  <2>9. 1..(nextSplitId - 1) \subseteq Split
    BY Numbers DEF Split
  <2>10. \/ knownState' \in TaskDone \/ Closed'
         \/ \A t \in 1..(nextSplitId' - 1) : t \in pendingSplits' \/ Acknowledged(t)'
    BY Zenon, <2>1, <2>5, <2>8, <2>9
  <2>11. \A v \in wire' : Closed' \/ LeavesNoGap(v)'
    BY Zenon, <2>1, <2>7, <2>8
  <2>12. \A v \in applying' : LeavesNoGap(v)'
    BY Zenon, <2>1, <2>7
  <2>13. \A v \in answered' : Closed' \/ \A s \in v.splits : Acknowledged(s)'
    <3>1. \A v \in answered : v.splits \subseteq Split
      BY Zenon, <2>1, UpdateFields
    <3>2. u.splits \subseteq Split
      BY Zenon, <2>2
    <3> QED
      BY Zenon, <2>1, <2>4, <2>5, <2>8, <3>1, <3>2
  <2>14. \A h \in handling' : h.ok => Closed' \/ \A s \in h.update.splits : Acknowledged(s)'
    <3>1. \A h \in handling : h.update.splits \subseteq Split
      BY Zenon, UpdateFields DEF TypeOK, RemoteTypeOK, Response
    <3> QED
      BY Zenon, <2>1, <2>5, <2>8, <3>1
  <2>15. noMoreDriverRunner' => \A t \in 1..(nextSplitId' - 1) : Acknowledged(t)'
    <3>1. u.noMoreSplits => \A t \in 1..(nextSplitId - 1) : t \in u.splits \/ Acknowledged(t)
      BY Zenon, <1>2 DEF LeavesNoGap
    <3> QED
      BY Zenon, <2>1, <2>4, <2>5, <2>9, <3>1
  <2> QED
    BY Zenon, <2>10, <2>11, <2>12, <2>13, <2>14, <2>15
<1>3. CASE Work
  <2>1. UNCHANGED <<remoteVars, wireVars, splitVars>> /\ (Closed => Closed')
    BY Zenon, <1>3, WorkFrame
  <2>2. UNCHANGED <<nextSplitId, pendingSplits, handling, knownState, wire, applying,
                    answered, maxAcknowledgedSplit, noMoreDriverRunner>>
    BY Zenon, <2>1 DEF remoteVars, wireVars, splitVars
  <2>3. \A t : Acknowledged(t) <=> Acknowledged(t)'
    BY Zenon, <2>2 DEF Acknowledged
  <2>4. ASSUME NEW v, LeavesNoGap(v) PROVE LeavesNoGap(v)'
    BY Zenon, <2>2, <2>3, <2>4 DEF LeavesNoGap
  <2> QED
    BY Zenon, <2>1, <2>2, <2>3, <2>4
<1> QED
  BY Zenon, <1>1, <1>2, <1>3, NextCases

-----------------------------------------------------------------------------
(* A driver that goes on without being over remains.                       *)
LEMMA DriverGoesOn ==
  ASSUME IInv, UNCHANGED <<splitVars, remainingDriver>>, driver' \in [Split -> DriverState],
         \A s \in Split : (driver[s] = driver'[s])
                          \/ (driver[s] \notin {"absent", "over"} /\ driver'[s] \notin {"absent", "over"})
  PROVE  DriversCounted'
<1> USE DEF IInv, DriversCounted
<1>1. UNCHANGED <<maxAcknowledgedSplit, runs>>
  BY Zenon DEF splitVars
<1>2. \A s \in Split : /\ driver[s] = "absent" <=> driver'[s] = "absent"
                       /\ s \in Remaining <=> s \in Remaining'
                       /\ Acknowledged(s) <=> Acknowledged(s)'
  BY Zenon, <1>1 DEF Remaining, Acknowledged
<1>3. Remaining' = Remaining
  <2>1. Remaining \subseteq Split /\ Remaining' \subseteq Split
    BY Zenon DEF Remaining
  <2> QED
    BY Zenon, <1>2, <2>1
<1> QED
  BY Zenon, <1>1, <1>2, <1>3

(* A driver that is over remains no longer, and is counted down once.      *)
LEMMA DriverOver ==
  ASSUME IInv, UNCHANGED splitVars, NEW s \in Split, driver[s] \in {"finished", "failing"},
         driver' = [driver EXCEPT ![s] = "over"], remainingDriver' = remainingDriver - 1
  PROVE  DriversCounted'
<1> USE DEF IInv, DriversCounted
<1>1. UNCHANGED <<maxAcknowledgedSplit, runs>>
  BY Zenon DEF splitVars
<1>2. driver'[s] = "over" /\ \A t \in Split : t # s => driver'[t] = driver[t]
  BY Zenon DEF TypeOK, WorkerTypeOK
<1>3. Remaining' = Remaining \ {s} /\ s \in Remaining
  BY Zenon, <1>2 DEF Remaining
<1>4. Cardinality(Remaining') = Cardinality(Remaining) - 1
  BY Zenon, <1>3, RemainingFinite, FS_RemoveElement
<1>5. \A t \in Split : /\ driver[t] = "absent" <=> driver'[t] = "absent"
                       /\ Acknowledged(t) <=> Acknowledged(t)'
  BY Zenon, <1>1, <1>2 DEF Acknowledged
<1> QED
  BY Zenon, <1>1, <1>4, <1>5

(* An update gives a driver to each split that had none.                   *)
LEMMA ApplyCounted ==
  ASSUME IInv, NEW u \in applying, ApplyUpdate(u)
  PROVE  DriversCounted'
<1> USE DEF IInv, DriversCounted
<1>1. u \in Update /\ u.splits \subseteq Split /\ maxAcknowledgedSplit \in Nat
      /\ NewSplits(u) \subseteq Split
  BY UpdateFields DEF TypeOK, RemoteTypeOK, WorkerTypeOK, NewSplits
<1>2. \A s \in Split : Acknowledged(s)' <=> s \in NewSplits(u) \/ Acknowledged(s)
  BY Zenon, ApplyAcknowledges DEF Acknowledged
<1>3. \A s \in NewSplits(u) : ~Acknowledged(s) /\ driver[s] = "absent" /\ runs[s] = 0
  <2> TAKE s \in NewSplits(u)
  <2>1. s \in Split /\ ~(s <= maxAcknowledgedSplit)
    BY <1>1 DEF NewSplits, Split
  <2> QED
    BY Zenon, <2>1 DEF Acknowledged
<1>4. \A s \in Split : /\ s \in NewSplits(u) => driver'[s] \in {"discarded", "queued"} /\ runs'[s] = 1
                       /\ s \notin NewSplits(u) => driver'[s] = driver[s] /\ runs'[s] = runs[s]
  BY <1>3 DEF ApplyUpdate
<1>5. \A s \in Split : /\ driver'[s] = "absent" <=> ~Acknowledged(s)'
                       /\ runs'[s] = IF Acknowledged(s)' THEN 1 ELSE 0
  BY <1>2, <1>3, <1>4
<1>6. Remaining' = Remaining \cup NewSplits(u) /\ Remaining \cap NewSplits(u) = {}
  BY Zenon, <1>1, <1>3, <1>4 DEF Remaining
<1>7. Cardinality(Remaining') = Cardinality(Remaining) + Cardinality(NewSplits(u))
  <2>1. IsFiniteSet(NewSplits(u)) /\ IsFiniteSet(Remaining)
    BY Zenon, <1>1, RemainingFinite, FS_Subset
  <2>2. Cardinality(Remaining) \in Nat /\ Cardinality(NewSplits(u)) \in Nat
    BY Zenon, <2>1, FS_CardinalityType
  <2>3. Cardinality(Remaining \cap NewSplits(u)) = 0
    BY Zenon, <1>6, FS_EmptySet
  <2>4. Cardinality(Remaining \cup NewSplits(u)) =
          Cardinality(Remaining) + Cardinality(NewSplits(u)) - Cardinality(Remaining \cap NewSplits(u))
    BY Zenon, <2>1, FS_Union
  <2> QED
    BY <1>6, <2>2, <2>3, <2>4
<1>8. remainingDriver' = remainingDriver + Cardinality(NewSplits(u))
  BY Zenon DEF ApplyUpdate
<1> QED
  BY Zenon, <1>5, <1>7, <1>8

(* The drivers stay counted.                                               *)
LEMMA CountedStep ==
  ASSUME IInv, Next
  PROVE  DriversCounted'
<1>1. TypeOK'
  BY Zenon, TypeStep
<1>2. driver' \in [Split -> DriverState] /\ driver \in [Split -> DriverState]
  BY Zenon, <1>1 DEF IInv, TypeOK, WorkerTypeOK
<1>3. ASSUME UNCHANGED <<splitVars, driverVars>> PROVE DriversCounted'
  BY Zenon, <1>2, <1>3, DriverGoesOn DEF driverVars
<1>4. CASE Coordinate
  <2>1. UNCHANGED <<splitVars, driverVars>>
    BY Zenon, <1>4 DEF Coordinate, AddSplit, NoMoreSplits, SendUpdate, ReceiveResponse,
       ClearCurrentRequest, HandleResponse, LearnDone, CleanUpTask, workerVars
  <2> QED
    BY Zenon, <1>3, <2>1
<1>5. ASSUME NEW u \in wire, ArriveUpdate(u) PROVE DriversCounted'
  BY Zenon, <1>3, <1>5 DEF ArriveUpdate, workerVars
<1>6. ASSUME NEW u \in applying, ApplyUpdate(u) PROVE DriversCounted'
  BY Zenon, <1>6, ApplyCounted
<1>7. CASE Work
  <2>1. UNCHANGED splitVars
    BY Zenon, <1>7, WorkFrame
  <2>2. CASE EndTask \/ AbortBuffer \/ CheckFlushComplete \/ NotifyBufferFinished \/ CleanUpBuffer \/ Check
    <3>1. UNCHANGED driverVars
      BY Zenon, <2>2 DEF EndTask, AbortBuffer, CheckFlushComplete, NotifyBufferFinished,
         CleanUpBuffer, Check, CheckState, CheckDrivers, CheckFlush, CheckNoMorePages, CheckFinished
    <3> QED
      BY Zenon, <1>3, <2>1, <3>1
  <2>3. CASE RemoveTask
    <3>1. remainingDriver' = remainingDriver
      BY Zenon, <2>3 DEF RemoveTask
    <3>2. \A s \in Split : (driver[s] = driver'[s])
            \/ (driver[s] \notin {"absent", "over"} /\ driver'[s] \notin {"absent", "over"})
      BY Zenon, <2>3 DEF RemoveTask
    <3> QED
      BY Zenon, <1>2, <2>1, <3>1, <3>2, DriverGoesOn
  <2>4. ASSUME NEW s \in Split, NEW d \in DriverState \ {"absent", "over"},
               driver[s] \notin {"absent", "over"}, driver' = [driver EXCEPT ![s] = d],
               UNCHANGED remainingDriver
        PROVE  DriversCounted'
    <3>1. \A t \in Split : (driver[t] = driver'[t])
            \/ (driver[t] \notin {"absent", "over"} /\ driver'[t] \notin {"absent", "over"})
      BY Zenon, <1>2, <2>4
    <3> QED
      BY Zenon, <1>2, <2>1, <2>4, <3>1, DriverGoesOn
  <2>5. ASSUME NEW s \in Split, BeginOutput(s) PROVE DriversCounted'
    BY Zenon, <2>4, <2>5 DEF BeginOutput, DriverState
  <2>6. ASSUME NEW s \in Split, EndOutput(s) PROVE DriversCounted'
    BY Zenon, <2>4, <2>6 DEF EndOutput, DriverState
  <2>7. ASSUME NEW s \in Split, FinishDriver(s) PROVE DriversCounted'
    BY Zenon, <2>4, <2>7 DEF FinishDriver, DriverState
  <2>8. ASSUME NEW s \in Split, FailDriver(s) PROVE DriversCounted'
    BY Zenon, <2>4, <2>8 DEF FailDriver, DriverState
  <2>9. ASSUME NEW s \in Split, OnFailure(s) PROVE DriversCounted'
    BY Zenon, <2>4, <2>9 DEF OnFailure, DriverState
  <2>10. ASSUME NEW s \in Split, OnSuccess(s) \/ CountFailure(s) PROVE DriversCounted'
    BY Zenon, <2>1, <2>10, DriverOver DEF OnSuccess, CountFailure
  <2> QED
    BY Zenon, <1>7, <2>2, <2>3, <2>5, <2>6, <2>7, <2>8, <2>9, <2>10 DEF Work, RunDriver, Callback
<1> QED
  BY Zenon, <1>4, <1>5, <1>6, <1>7, NextCases

-----------------------------------------------------------------------------
(* When all drivers are over, none is left that could do anything.         *)
LEMMA NoDriverLeft ==
  ASSUME IInv, AllOver, NEW s \in Split
  PROVE  driver[s] \in {"absent", "over"}
<1>1. Cardinality(Remaining) = 0
  BY Zenon DEF IInv, DriversCounted, AllOver
<1>2. Remaining = {}
  BY Zenon, <1>1, RemainingFinite, FS_EmptySet DEF IInv
<1> QED
  BY Zenon, <1>2 DEF Remaining

(* After the last update no update brings a new split.                     *)
LEMMA NothingNew ==
  ASSUME IInv, noMoreDriverRunner, NEW u \in wire \cup applying
  PROVE  NewSplits(u) = {}
<1>1. u.splits \subseteq 1..(nextSplitId - 1)
  BY Zenon DEF IInv, OnlyKnownSplits, Sent
<1>2. \A t \in 1..(nextSplitId - 1) : t <= maxAcknowledgedSplit
  BY Zenon DEF IInv, NothingForgotten, Acknowledged
<1>3. nextSplitId \in Nat /\ maxAcknowledgedSplit \in Nat
  BY Zenon, Numbers DEF IInv
<1> QED
  BY <1>1, <1>2, <1>3 DEF NewSplits

(* The condition of checkTaskCompletion stays true.                        *)
LEMMA AllOverStays ==
  ASSUME IInv, Next, AllOver
  PROVE  AllOver'
<1>1. CASE Coordinate \/ \E u \in wire : ArriveUpdate(u)
  <2>1. UNCHANGED workerVars
    BY Zenon, <1>1 DEF Coordinate, AddSplit, NoMoreSplits, SendUpdate, ReceiveResponse,
       ClearCurrentRequest, HandleResponse, LearnDone, CleanUpTask, ArriveUpdate
  <2> QED
    BY Zenon, <2>1 DEF AllOver, workerVars, splitVars, driverVars
<1>2. ASSUME NEW u \in applying, ApplyUpdate(u) PROVE AllOver'
  <2>1. NewSplits(u) = {}
    BY Zenon, NothingNew DEF AllOver
  <2>2. remainingDriver' = 0
    BY <1>2, <2>1, FS_EmptySet DEF ApplyUpdate, AllOver
  <2> QED
    BY Zenon, <1>2, <2>2 DEF ApplyUpdate, AllOver
<1>3. CASE Work
  <2>1. UNCHANGED noMoreDriverRunner
    BY Zenon, <1>3, WorkFrame DEF splitVars
  <2>2. ASSUME NEW s \in Split PROVE ~OnSuccess(s) /\ ~CountFailure(s)
    BY Zenon, NoDriverLeft DEF OnSuccess, CountFailure
  <2>3. UNCHANGED remainingDriver
    BY Zenon, <1>3, <2>2 DEF Work, EndTask, AbortBuffer, CheckFlushComplete, NotifyBufferFinished,
       CleanUpBuffer, RemoveTask, RunDriver, BeginOutput, EndOutput, FinishDriver, FailDriver,
       Callback, OnFailure, Check, CheckState, CheckDrivers, CheckFlush, CheckNoMorePages,
       CheckFinished, driverVars
  <2> QED
    BY Zenon, <2>1, <2>3 DEF AllOver
<1> QED
  BY Zenon, <1>1, <1>2, <1>3, NextCases

(* The parts of the state that tell of an end.                             *)
endVars == <<checking, taskVars, bufferVars, historyVars>>

Over(s) == driver[s] \in {"absent", "over"}

(* How a step may begin to tell of an end: the completion check goes on,   *)
(* the buffer follows it or the end of the task, and a driver that fails   *)
(* or is refused was not over.                                             *)
EndStep ==
  /\ checking' \in {"ended", "flushing", "flushed"} =>
       checking \in {"ended", "flushing", "flushed"} \/ AllOver
  /\ taskState' = "FINISHED" => taskState = "FINISHED" \/ (checking = "flushed" /\ taskState \notin TaskDone)
  /\ taskState' \in TaskDone \cup {"RUNNING"} /\ (taskState \in TaskDone => taskState' = taskState)
  /\ noMorePages' /\ ~destroyed' => (noMorePages /\ ~destroyed) \/ checking = "flushing"
  /\ failed' => failed \/ \E s \in Split : driver'[s] = "erred"
  /\ \A s \in Split : driver[s] = "erred" => driver'[s] = "erred" \/ taskState' \in TaskDone
  /\ cleanup' = "none" <=> taskState' \notin TaskDone
  /\ "limit" \notin Event =>
       /\ bufferState' # "NO_MORE_BUFFERS" \/ noMorePages' \/ destroyed' =>
            \/ bufferState # "NO_MORE_BUFFERS" \/ noMorePages \/ destroyed
            \/ checking \in {"ended", "flushing", "flushed"} \/ taskState \in TaskDone
       /\ refused' => \/ refused
                      \/ /\ bufferState # "NO_MORE_BUFFERS" \/ noMorePages
                         /\ \E s \in Split : ~Over(s)

(* Every step is such a step.                                              *)
LEMMA EveryEndStep ==
  ASSUME IInv, Next
  PROVE  EndStep
<1> USE DEF IInv
<1>1. /\ taskState \in TaskDone \cup {"RUNNING"}
      /\ cleanup = "none" <=> taskState \notin TaskDone
  BY Zenon DEF TypeOK, WorkerTypeOK, EndIsReal
<1>2. ASSUME UNCHANGED endVars, \A s \in Split : driver[s] = "erred" => driver'[s] = "erred"
      PROVE  EndStep
  BY Zenon, <1>1, <1>2 DEF EndStep, endVars, taskVars, bufferVars, historyVars
<1>3. CASE Coordinate \/ \E u \in wire : ArriveUpdate(u)
  <2>1. UNCHANGED workerVars
    BY Zenon, <1>3 DEF Coordinate, AddSplit, NoMoreSplits, SendUpdate, ReceiveResponse,
       ClearCurrentRequest, HandleResponse, LearnDone, CleanUpTask, ArriveUpdate
  <2>2. UNCHANGED endVars /\ UNCHANGED driver
    BY Zenon, <2>1 DEF workerVars, checkVars, endVars, driverVars
  <2> QED
    BY Zenon, <1>2, <2>2
<1>4. ASSUME NEW u \in applying, ApplyUpdate(u) PROVE EndStep
  <2>1. ASSUME NEW s \in Split, driver[s] = "erred" PROVE driver'[s] = "erred"
    <3>1. s <= maxAcknowledgedSplit
      BY Zenon, <2>1 DEF DriversCounted, Acknowledged
    <3>2. s \notin NewSplits(u)
      BY <3>1, Numbers DEF NewSplits, Split
    <3> QED
      BY Zenon, <1>4, <2>1, <3>2 DEF ApplyUpdate
  <2>2. UNCHANGED endVars
    BY Zenon, <1>4 DEF ApplyUpdate, endVars
  <2> QED
    BY Zenon, <1>2, <2>1, <2>2
<1> USE DEF checkVars, taskVars, bufferVars, historyVars, driverVars
<1>5. CASE EndTask
  BY Zenon, <1>1, <1>5 DEF EndTask, TransitionToDone, TaskDone, EndStep
<1>6. CASE AbortBuffer
  BY Zenon, <1>1, <1>6 DEF AbortBuffer, EndStep
<1>7. CASE CheckFlushComplete
  BY Zenon, <1>1, <1>7 DEF CheckFlushComplete, DestroyBuffer, EndStep
<1>8. CASE NotifyBufferFinished
  BY Zenon, <1>1, <1>8 DEF NotifyBufferFinished, EndStep
<1>9. CASE CleanUpBuffer
  BY Zenon, <1>1, <1>9 DEF CleanUpBuffer, DestroyBuffer, EndStep
<1>10. CASE RemoveTask
  BY Zenon, <1>1, <1>10 DEF RemoveTask, EndStep
<1>11. ASSUME NEW s \in Split, Callback(s) PROVE EndStep
  BY <1>1, <1>11 DEF Callback, OnSuccess, OnFailure, CountFailure, TransitionToDone, TaskDone, EndStep,
     TypeOK, WorkerTypeOK
<1>12. ASSUME NEW s \in Split, FailDriver(s) PROVE EndStep
  BY Zenon, <1>1, <1>12 DEF FailDriver, EndStep, TypeOK, WorkerTypeOK
<1>13. ASSUME NEW s \in Split, BeginOutput(s) PROVE EndStep
  BY Zenon, <1>1, <1>13 DEF BeginOutput, CanAddPages, Over, EndStep, TypeOK, WorkerTypeOK
<1>14. ASSUME NEW s \in Split, EndOutput(s) PROVE EndStep
  BY Zenon, <1>1, <1>14 DEF EndOutput, Over, EndStep, TypeOK, WorkerTypeOK
<1>15. ASSUME NEW s \in Split, FinishDriver(s) PROVE EndStep
  BY <1>1, <1>15 DEF FinishDriver, EndStep, TypeOK, WorkerTypeOK
<1>16. CASE CheckState
  BY Zenon, <1>1, <1>16 DEF CheckState, EndStep
<1>17. CASE CheckDrivers
  BY Zenon, <1>1, <1>17 DEF CheckDrivers, AllOver, EndStep
<1>18. CASE CheckFlush
  BY Zenon, <1>1, <1>18 DEF CheckFlush, EndStep
<1>19. CASE CheckNoMorePages
  BY Zenon, <1>1, <1>19 DEF CheckNoMorePages, DestroyBuffer, EndStep
<1>20. CASE CheckFinished
  BY Zenon, <1>1, <1>20 DEF CheckFinished, TransitionToDone, TaskDone, EndStep
<1> QED
  BY Zenon, <1>3, <1>4, <1>5, <1>6, <1>7, <1>8, <1>9, <1>10, <1>11, <1>12, <1>13, <1>14, <1>15, <1>16,
     <1>17, <1>18, <1>19, <1>20, NextCases DEF Work, RunDriver, Check

(* So an end that is told of is real after the step as before it.          *)
LEMMA EndIsRealStep ==
  ASSUME IInv, Next
  PROVE  EndIsReal'
<1>1. EndStep /\ EndIsReal
  BY Zenon, EveryEndStep DEF IInv
<1>2. AllOver => AllOver'
  BY Zenon, AllOverStays
<1>3. AllOver => \A s \in Split : Over(s)
  BY Zenon, NoDriverLeft DEF Over
<1>4. taskState \in NotFinished => taskState' \in NotFinished
  BY Zenon, <1>1 DEF EndStep, NotFinished, TaskDone
<1>5. taskState \in TaskDone => AllOver \/ taskState \in NotFinished
  BY Zenon, <1>1 DEF EndIsReal, NotFinished, TaskDone
<1>6. checking' \in {"ended", "flushing", "flushed"} \/ taskState' = "FINISHED" => AllOver
  BY Zenon, <1>1 DEF EndStep, EndIsReal
<1>7. noMorePages' /\ ~destroyed' => AllOver
  BY Zenon, <1>1 DEF EndStep, EndIsReal
<1>8. failed' => taskState' \in NotFinished \/ \E s \in Split : driver'[s] = "erred"
  <2>1. ASSUME NEW s \in Split, driver[s] = "erred", taskState' \in TaskDone
        PROVE  taskState' \in NotFinished
    <3>1. ~Over(s)
      BY Zenon, <2>1 DEF Over
    <3>2. taskState' # "FINISHED"
      BY Zenon, <1>3, <1>6, <3>1
    <3> QED
      BY Zenon, <2>1, <3>2 DEF NotFinished
  <2> QED
    BY Zenon, <1>1, <1>4, <2>1 DEF EndStep, EndIsReal
<1>9. ASSUME "limit" \notin Event
      PROVE  /\ bufferState' # "NO_MORE_BUFFERS" \/ noMorePages' \/ destroyed' =>
                  AllOver' \/ taskState' \in NotFinished
             /\ refused' => taskState' \in NotFinished
  <2>1. bufferState # "NO_MORE_BUFFERS" \/ noMorePages \/ destroyed
          => AllOver \/ taskState \in NotFinished
    BY Zenon, <1>1, <1>9 DEF EndIsReal
  <2>2. checking \in {"ended", "flushing", "flushed"} => AllOver
    BY Zenon, <1>1 DEF EndIsReal
  <2>3. bufferState' # "NO_MORE_BUFFERS" \/ noMorePages' \/ destroyed' =>
          AllOver \/ taskState \in NotFinished
    BY Zenon, <1>1, <1>5, <1>9, <2>1, <2>2 DEF EndStep
  <2>4. refused' => taskState \in NotFinished
    BY Zenon, <1>1, <1>3, <1>9, <2>1 DEF EndStep, EndIsReal
  <2> QED
    BY Zenon, <1>2, <1>4, <2>3, <2>4
<1> QED
  BY Zenon, <1>1, <1>2, <1>6, <1>7, <1>8, <1>9 DEF EndStep, EndIsReal

-----------------------------------------------------------------------------
(* What a failed update adds to the reasons for another, it takes away     *)
(* when it is handled.                                                     *)
LEMMA ReasonsStep ==
  ASSUME IInv, Next
  PROVE  UpdatesHaveReasons'
<1> USE DEF IInv
<1> DEFINE F == {h \in handling : ~h.ok}
           R == (nextSplitId - 1) + One(noMoreSplits # "absent") + timeouts
<1>1. /\ IsFiniteSet(handling) /\ IsFiniteSet(F) /\ Cardinality(F) \in Nat
      /\ updates \in Nat /\ timeouts \in Nat /\ nextSplitId \in Nat /\ MaxUpdates \in Nat
  <2>1. IsFiniteSet(handling)
    BY Zenon DEF UpdatesHaveReasons
  <2>2. IsFiniteSet(F)
    BY Zenon, <2>1, FS_Subset
  <2> QED
    BY <2>1, <2>2, FS_CardinalityType, SplitsAssumption, TimeoutsAssumption
       DEF TypeOK, RemoteTypeOK, MaxUpdates
<1>2. knownState \notin TaskDone => updates + One(needsUpdate) + Cardinality(F) <= R
  BY Zenon DEF UpdatesHaveReasons
<1>3. One(needsUpdate) \in {0, 1} /\ One(noMoreSplits # "absent") \in {0, 1}
      /\ One(needsUpdate)' \in {0, 1} /\ One(noMoreSplits # "absent")' \in {0, 1}
  BY Zenon DEF One
<1>4. CASE AddSplit
  <2>1. F' = F /\ UNCHANGED <<handling, knownState, updates, timeouts, noMoreSplits>>
        /\ nextSplitId' = nextSplitId + 1 /\ knownState \notin TaskDone
    BY Zenon, <1>4 DEF AddSplit
  <2>2. updates + One(needsUpdate)' + Cardinality(F) <= R + 1
    BY <1>1, <1>2, <1>3, <2>1
  <2>3. R' = R + 1
    BY <1>1, <1>3, <2>1 DEF One
  <2> QED
    BY Zenon, <1>1, <2>1, <2>2, <2>3 DEF UpdatesHaveReasons
<1>5. CASE NoMoreSplits
  <2>1. F' = F /\ UNCHANGED <<handling, knownState, updates, timeouts, nextSplitId>>
    BY Zenon, <1>5 DEF NoMoreSplits
  <2>2. R' = R + 1
    BY <1>1, <1>5, <2>1 DEF One, NoMoreSplits
  <2>3. R \in Int
    BY <1>1, <1>3
  <2>4. knownState \notin TaskDone => updates + One(needsUpdate)' + Cardinality(F) <= R + 1
    BY <1>1, <1>2, <1>3, <2>3
  <2> QED
    BY Zenon, <1>1, <2>1, <2>2, <2>4 DEF UpdatesHaveReasons
<1>6. CASE SendUpdate
  <2>1. F' = F /\ R' = R /\ UNCHANGED <<handling, knownState>>
    BY Zenon, <1>6 DEF SendUpdate
  <2>2. \/ UNCHANGED <<updates, needsUpdate>>
        \/ needsUpdate /\ ~needsUpdate' /\ updates' = updates + 1
    BY Zenon, <1>6 DEF SendUpdate
  <2>3. updates' + One(needsUpdate)' = updates + One(needsUpdate)
    BY <1>1, <2>2 DEF One
  <2> QED
    BY Zenon, <1>1, <1>2, <2>1, <2>3 DEF UpdatesHaveReasons
<1>7. ASSUME NEW u \in inFlight, NEW ok \in BOOLEAN, ReceiveResponse(u, ok)
      PROVE  UpdatesHaveReasons'
  <2> DEFINE h == [update |-> u, ok |-> ok, cleared |-> FALSE]
  <2>1. /\ UNCHANGED <<knownState, updates, needsUpdate, noMoreSplits, nextSplitId>>
        /\ handling' = handling \cup {h} /\ timeouts' = timeouts + One(~ok)
    BY <1>1, <1>7 DEF ReceiveResponse, One
  <2>2. F' = F \cup (IF ok THEN {} ELSE {h})
    BY <2>1
  <2> HIDE DEF h
  <2>3. IsFiniteSet(handling') /\ Cardinality(F') <= Cardinality(F) + One(~ok)
    <3>1. IsFiniteSet(F \cup {h}) /\ Cardinality(F \cup {h}) <= Cardinality(F) + 1
      <4>1. /\ IsFiniteSet(F \cup {h})
            /\ Cardinality(F \cup {h}) = IF h \in F THEN Cardinality(F) ELSE Cardinality(F) + 1
        BY Zenon, <1>1, FS_AddElement
      <4> HIDE DEF F
      <4> QED
        BY <1>1, <4>1
    <3>2. IsFiniteSet(handling \cup {h})
      BY Zenon, <1>1, FS_AddElement
    <3>3. CASE ok
      <4>1. F' = F
        BY Zenon, <2>2, <3>3
      <4>2. Cardinality(F) <= Cardinality(F) + One(~ok)
        BY <1>1, <3>3 DEF One
      <4> QED
        BY Zenon, <2>1, <3>2, <4>1, <4>2
    <3>4. CASE ~ok
      BY Zenon, <2>1, <2>2, <3>1, <3>2, <3>4 DEF One
    <3> QED
      BY Zenon, <3>3, <3>4
  <2>4. IsFiniteSet(F') /\ Cardinality(F') \in Nat
    <3>1. IsFiniteSet(F')
      BY Zenon, <2>3, FS_Subset
    <3> QED
      BY Zenon, <3>1, FS_CardinalityType
  <2>5. R' = R + One(~ok) /\ One(~ok) \in {0, 1}
    BY <1>1, <1>3, <2>1 DEF One
  <2>6. One(needsUpdate)' = One(needsUpdate)
    BY Zenon, <2>1 DEF One
  <2>7. R \in Int
    BY <1>1, <1>3
  <2>8. knownState \notin TaskDone => updates + One(needsUpdate)' + Cardinality(F') <= R'
    BY <1>1, <1>2, <1>3, <2>3, <2>4, <2>5, <2>6, <2>7
  <2> QED
    BY Zenon, <2>1, <2>3, <2>8 DEF UpdatesHaveReasons
<1>13. ASSUME NEW h \in handling, ClearCurrentRequest(h)
       PROVE  UpdatesHaveReasons'
  <2> DEFINE g == [h EXCEPT !.cleared = TRUE]
  <2>1. /\ UNCHANGED <<knownState, updates, timeouts, nextSplitId, needsUpdate, noMoreSplits>>
        /\ handling' = (handling \ {h}) \cup {g}
    BY Zenon, <1>13 DEF ClearCurrentRequest
  <2>2. g.ok = h.ok
    BY Zenon, ClearedFields DEF TypeOK, RemoteTypeOK
  <2> HIDE DEF g
  <2>3. IsFiniteSet(handling')
    BY Zenon, <1>1, <2>1, FS_RemoveElement, FS_AddElement
  <2>4. Cardinality(F') <= Cardinality(F) /\ Cardinality(F') \in Nat
    <3>1. CASE h.ok
      <4>1. F' = F
        BY Zenon, <2>1, <2>2, <3>1
      <4> HIDE DEF F
      <4> QED
        BY <1>1, <4>1
    <3>2. CASE ~h.ok
      <4>1. F' = (F \ {h}) \cup {g} /\ h \in F
        BY Zenon, <2>1, <2>2, <3>2
      <4> HIDE DEF F
      <4>2. IsFiniteSet(F \ {h}) /\ Cardinality(F \ {h}) = Cardinality(F) - 1
        BY Zenon, <1>1, <4>1, FS_RemoveElement
      <4>3. /\ Cardinality(F \ {h}) \in Nat
            /\ Cardinality(F') = IF g \in F \ {h} THEN Cardinality(F \ {h})
                                                 ELSE Cardinality(F \ {h}) + 1
        BY Zenon, <4>1, <4>2, FS_AddElement, FS_CardinalityType
      <4> QED
        BY <1>1, <4>2, <4>3
    <3> QED
      BY Zenon, <3>1, <3>2
  <2>5. R' = R /\ One(needsUpdate)' = One(needsUpdate) /\ R \in Int
    BY <1>1, <1>3, <2>1 DEF One
  <2>6. knownState \notin TaskDone => updates + One(needsUpdate)' + Cardinality(F') <= R'
    BY <1>1, <1>2, <1>3, <2>4, <2>5
  <2> QED
    BY Zenon, <2>1, <2>3, <2>6 DEF UpdatesHaveReasons
<1>8. ASSUME NEW h \in handling, HandleResponse(h)
      PROVE  UpdatesHaveReasons'
  <2>1. UNCHANGED <<knownState, updates, timeouts, nextSplitId>> /\ handling' = handling \ {h}
    BY Zenon, <1>8 DEF HandleResponse
  <2>2. F' = F \ {h} /\ IsFiniteSet(handling')
    BY Zenon, <1>1, <2>1, FS_RemoveElement
  <2>3. Cardinality(F') = IF h \in F THEN Cardinality(F) - 1 ELSE Cardinality(F)
    BY Zenon, <1>1, <2>2, FS_RemoveElement
  <2>4. One(noMoreSplits # "absent") <= One(noMoreSplits # "absent")'
    <3>1. noMoreSplits # "absent" => noMoreSplits' # "absent"
      BY Zenon, <1>8 DEF HandleResponse
    <3> QED
      BY <3>1 DEF One
  <2>5. One(needsUpdate)' <= One(needsUpdate) + (IF h \in F THEN 1 ELSE 0)
    <3>1. h \in F \/ needsUpdate' = needsUpdate
      BY Zenon, <1>8 DEF HandleResponse
    <3> HIDE DEF F
    <3> QED
      BY <1>3, <3>1 DEF One
  <2>6. knownState \notin TaskDone => updates + One(needsUpdate)' + Cardinality(F') <= R'
    BY <1>1, <1>2, <1>3, <2>1, <2>3, <2>4, <2>5
  <2> QED
    BY Zenon, <2>1, <2>2, <2>6 DEF UpdatesHaveReasons
<1>9. CASE LearnDone
  BY Zenon, <1>1, <1>9 DEF LearnDone, TaskDone, UpdatesHaveReasons
<1>10. CASE CleanUpTask
  <2>1. knownState' \in TaskDone
    BY Zenon, <1>10 DEF CleanUpTask
  <2>2. \/ handling' = handling
        \/ \E h : handling' = handling \cup {h}
    BY Zenon, <1>10 DEF CleanUpTask
  <2>3. IsFiniteSet(handling')
    BY <1>1, <2>2, FS_AddElement
  <2> QED
    BY Zenon, <2>1, <2>3 DEF UpdatesHaveReasons
<1>11. CASE UNCHANGED remoteVars
  <2>1. F' = F /\ R' = R
    BY Zenon, <1>11 DEF remoteVars
  <2> QED
    BY Zenon, <1>1, <1>2, <1>11, <2>1 DEF UpdatesHaveReasons, remoteVars, One
<1>12. CASE ~Coordinate
  <2>1. UNCHANGED remoteVars
    BY Zenon, <1>12, NextCases, WorkFrame DEF ArriveUpdate, ApplyUpdate
  <2> QED
    BY Zenon, <1>11, <2>1
<1> QED
  BY Zenon, <1>4, <1>5, <1>6, <1>7, <1>8, <1>9, <1>10, <1>12, <1>13 DEF Coordinate

-----------------------------------------------------------------------------
(* Every step keeps the inductive invariant.                               *)
LEMMA IInvStep == IInv /\ [Next]_vars => IInv'
<1>1. ASSUME IInv, Next PROVE IInv'
  <2>1. TypeOK' /\ OnlyKnownSplits' /\ DriversCounted' /\ EndIsReal' /\ UpdatesHaveReasons'
    BY Zenon, <1>1, TypeStep, OnlyKnownSplitsStep, CountedStep, EndIsRealStep, ReasonsStep
  <2>2. NothingForgotten'
    BY Zenon, <1>1, CoordinateForgetsNothing, WorkerForgetsNothing
  <2> QED
    BY Zenon, <2>1, <2>2 DEF IInv
<1>2. ASSUME IInv, UNCHANGED vars PROVE IInv'
  <2>1. UNCHANGED <<remoteVars, wireVars, workerVars>>
    BY Zenon, <1>2 DEF vars
  <2>2. UNCHANGED <<splitVars, driverVars, checkVars, taskVars, bufferVars, historyVars>>
    BY Zenon, <2>1 DEF workerVars
  <2>3. TypeOK'
    BY Zenon, <1>2, <2>1, FrameTypes DEF IInv, TypeOK
  <2>4. OnlyKnownSplits'
    BY Zenon, <1>2, <2>1, <2>2 DEF IInv, OnlyKnownSplits, Sent, remoteVars, wireVars, splitVars
  <2>5. NothingForgotten'
    BY Zenon, <1>2, <2>1, <2>2 DEF IInv, NothingForgotten, LeavesNoGap, Acknowledged, Closed,
       remoteVars, wireVars, splitVars, taskVars
  <2>6. DriversCounted'
    BY Zenon, <1>2, <2>2 DEF IInv, DriversCounted, Remaining, Acknowledged, splitVars, driverVars
  <2>7. EndIsReal'
    BY Zenon, <1>2, <2>2 DEF IInv, EndIsReal, AllOver, splitVars, driverVars, checkVars, taskVars,
       bufferVars, historyVars
  <2>8. UpdatesHaveReasons'
    BY Zenon, <1>2, <2>1 DEF IInv, UpdatesHaveReasons, One, remoteVars
  <2> QED
    BY Zenon, <2>3, <2>4, <2>5, <2>6, <2>7, <2>8 DEF IInv
<1> QED
  BY Zenon, <1>1, <1>2

(* For any number of splits and of lost updates, the inductive invariant   *)
(* of a task holds: HttpRemoteTask and SqlTaskExecution agree on splits,   *)
(* drivers and the end.                                                    *)
THEOREM Invariance == Spec => []IInv
BY InitIInv, IInvStep, PTL DEF Spec

(* The state of a task is typed, and remainingDriver counts down to zero   *)
(* and no further (Status.decrementRemainingDriver).                       *)
THEOREM TypeCorrect == Spec => []TypeOK
<1>1. IInv => TypeOK
  BY Zenon DEF IInv
<1> QED
  BY <1>1, Invariance, PTL

(* No split is run twice, whatever updates are repeated or late (the       *)
(* filter on maxAcknowledgedSplit in updateSources).                       *)
THEOREM SplitsRunOnce == Spec => []RunOnce
<1>1. IInv => RunOnce
  BY DEF IInv, DriversCounted, RunOnce
<1> QED
  BY <1>1, Invariance, PTL

(* PendingSplits.addSplit never throws: no update brings a new split after *)
(* the last one.                                                           *)
THEOREM NoLateSplit == Spec => []NoSplitAfterEnd
<1>1. IInv => NoSplitAfterEnd
  BY Zenon, NothingNew DEF NoSplitAfterEnd
<1> QED
  BY <1>1, Invariance, PTL

(* A FINISHED task ran every split of the coordinator, and no driver of it *)
(* failed (checkTaskCompletion).                                           *)
THEOREM FinishedIsComplete == Spec => []FinishedTaskRanEverything
<1>1. ASSUME IInv PROVE FinishedTaskRanEverything
  <2> SUFFICES ASSUME taskState = "FINISHED"
               PROVE  /\ noMoreSplits # "absent"
                      /\ \A s \in 1..(nextSplitId - 1) : driver[s] = "over"
                      /\ ~failed
    BY Zenon DEF FinishedTaskRanEverything
  <2>1. AllOver
    BY Zenon, <1>1 DEF IInv, EndIsReal
  <2>2. noMoreSplits # "absent"
    BY Zenon, <1>1, <2>1 DEF IInv, OnlyKnownSplits, AllOver
  <2>3. ASSUME NEW s \in 1..(nextSplitId - 1) PROVE driver[s] = "over"
    <3>1. s \in Split
      BY <1>1, Numbers DEF IInv, Split
    <3>2. Acknowledged(s)
      BY Zenon, <1>1, <2>1 DEF IInv, NothingForgotten, AllOver
    <3>3. driver[s] # "absent"
      BY Zenon, <1>1, <3>1, <3>2 DEF IInv, DriversCounted
    <3> QED
      BY Zenon, <1>1, <2>1, <3>1, <3>3, NoDriverLeft
  <2>4. ~failed
    <3>1. \A s \in Split : driver[s] # "erred"
      BY Zenon, <1>1, <2>1, NoDriverLeft
    <3>2. taskState \notin NotFinished
      BY Zenon DEF NotFinished
    <3> QED
      BY Zenon, <1>1, <3>1, <3>2 DEF IInv, EndIsReal
  <2> QED
    BY Zenon, <2>2, <2>3, <2>4
<1> QED
  BY <1>1, Invariance, PTL

(* Nobody writes to the output after its reader was told of its end        *)
(* (setNoMorePages in checkTaskCompletion).                                *)
THEOREM NoWriterAfterEnd == Spec => []NobodyWritesAfterEnd
<1>1. ASSUME IInv PROVE NobodyWritesAfterEnd
  <2> SUFFICES ASSUME noMorePages /\ ~destroyed, NEW s \in Split
               PROVE  driver[s] \notin {"queued", "writing", "wrote"}
    BY Zenon DEF NobodyWritesAfterEnd
  <2>1. AllOver
    BY Zenon, <1>1 DEF IInv, EndIsReal
  <2> QED
    BY Zenon, <1>1, <2>1, NoDriverLeft
<1> QED
  BY <1>1, Invariance, PTL

(* A FINISHED task whose reader waited for the end lost no page that a     *)
(* driver wrote (enqueue, which ignores pages after the end).              *)
THEOREM OutputIsWhole == Spec => []WholeOutput
<1>1. ASSUME IInv PROVE WholeOutput
  <2>1. taskState = "FINISHED" => taskState \notin NotFinished
    BY Zenon DEF NotFinished
  <2> QED
    BY Zenon, <1>1, <2>1 DEF IInv, EndIsReal, WholeOutput
<1> QED
  BY <1>1, Invariance, PTL
=============================================================================

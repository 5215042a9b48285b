------------------------- MODULE PageTransportTypes -------------------------
(***************************************************************************)
(* What the operations of ClientBuffer return for any buffer, the type     *)
(* invariant of PageTransport, and what its operations on requests,        *)
(* buffers and clients do to each field.                                   *)
(***************************************************************************)
EXTENDS PageTransportInvariant, FunctionTheorems, TLAPS

(* A sequence of pages is a function on the positions up to its length.    *)
LEMMA SequenceLen ==
  ASSUME NEW S, NEW seq \in Seq(S)
  PROVE  /\ Len(seq) \in Nat
         /\ seq \in [1..Len(seq) -> S]
         /\ DOMAIN seq = 1..Len(seq)
OBVIOUS

(* Every element of a sequence over S, such as a page of a buffer, is in S. *)
LEMMA SequenceElement ==
  ASSUME NEW S, NEW seq \in Seq(S), NEW n \in 1..Len(seq)
  PROVE  seq[n] \in S
OBVIOUS

(* A sequence that is not empty has at least one element.                  *)
LEMMA SequenceEmpty ==
  ASSUME NEW S
  PROVE  /\ <<>> \in Seq(S)
         /\ Len(<<>>) = 0
         /\ \A seq \in Seq(S) : seq # <<>> => Len(seq) \in Nat \ {0}
OBVIOUS

(* Sequences of the same elements are equal.                               *)
LEMMA SequencesEqual ==
  ASSUME NEW S, NEW s \in Seq(S), NEW t \in Seq(S),
         Len(s) = Len(t), \A i \in 1..Len(s) : s[i] = t[i]
  PROVE  s = t
OBVIOUS

(* Appending pages keeps those already there at their positions.           *)
LEMMA SequenceConcat ==
  ASSUME NEW S, NEW s \in Seq(S), NEW t \in Seq(S)
  PROVE  /\ s \o t \in Seq(S)
         /\ Len(s \o t) = Len(s) + Len(t)
         /\ \A i \in 1..(Len(s) + Len(t)) :
              (s \o t)[i] = IF i <= Len(s) THEN s[i] ELSE t[i - Len(s)]
OBVIOUS

(* A part of a sequence has its elements, shifted to position 1.           *)
LEMMA SequencePart ==
  ASSUME NEW S, NEW s, NEW m \in Int, NEW n \in Int,
         \A i \in m..n : s[i] \in S
  PROVE  /\ SubSeq(s, m, n) \in Seq(S)
         /\ Len(SubSeq(s, m, n)) = IF m <= n THEN n - m + 1 ELSE 0
         /\ \A i \in 1..(n - m + 1) : SubSeq(s, m, n)[i] = s[m + i - 1]
OBVIOUS

(* Sequences over S are the functions from an initial segment to S.        *)
LEMMA SequenceSet == \A S : Seq(S) = UNION {[1..n -> S] : n \in Nat}
OBVIOUS

(* A nonempty set of positions has a largest element, which Max returns.   *)
(* Otherwise 1..n could be moved into 1..(n - 1), every position below one *)
(* of the set staying where it is and every other one moving down by one.  *)
LEMMA MaxOfPositions ==
  ASSUME NEW n \in Nat, NEW S \in SUBSET (1..n), S # {}
  PROVE  Max(S) \in S /\ \A k \in S : k <= Max(S)
<1>1. \E m \in S : \A k \in S : m >= k
  <2> SUFFICES ASSUME \A m \in S : \E k \in S : ~(m >= k)
               PROVE  FALSE
    BY Zenon
  <2> DEFINE U == {x \in 1..n : \E t \in S : x <= t}
             g == [x \in 1..n |-> IF x \in U THEN x ELSE x - 1]
  <2>1. n - 1 \in Nat /\ 1 \in U
    <3>1. PICK t \in S : TRUE
      BY Zenon
    <3>2. t \in 1..n
      BY Zenon
    <3> QED
      BY <3>2
  <2>2. \A x \in U : x + 1 \in U
    <3> TAKE x \in U
    <3>1. PICK t \in S : x <= t
      BY Zenon
    <3>2. PICK k \in S : ~(t >= k)
      BY Zenon
    <3> QED
      BY <3>1, <3>2
  <2>3. \A x \in U : x \in 1..(n - 1)
    BY <2>2
  <2>4. \A x \in 1..n : x \notin U => x - 1 \in 1..(n - 1)
    BY <2>1
  <2> HIDE DEF U
  <2>5. g \in [1..n -> 1..(n - 1)]
    BY Zenon, <2>3, <2>4
  <2>6. \A x, y \in 1..n : g[x] = g[y] => x = y
    BY <2>2, <2>3, <2>4
  <2>7. ExistsInjection(1..n, 1..(n - 1))
    BY Zenon, <2>5, <2>6 DEF ExistsInjection, Injection, IsInjective
  <2>8. n <= n - 1
    BY Zenon, <2>1, <2>7, Fun_NatInjLeq
  <2> QED
    BY <2>8
<1> QED
  BY Zenon, <1>1 DEF Max

(* processRead sends at least one page, whatever its size, and no more     *)
(* than there are.                                                         *)
LEMMA ReadCountBounds ==
  ASSUME NEW ps \in Seq(Page), ps # <<>>, NEW maxBytes
  PROVE  ReadCount(ps, maxBytes) \in 1..Len(ps)
<1> DEFINE S == {n \in 1..Len(ps) : n = 1 \/ RetainedSize(SubSeq(ps, 1, n)) <= maxBytes}
<1>1. Len(ps) \in Nat \ {0}
  BY Zenon, SequenceEmpty
<1>2. 1 \in S /\ S \in SUBSET (1..Len(ps))
  BY <1>1
<1>3. Max(S) \in S
  BY Zenon, <1>1, <1>2, MaxOfPositions
<1> QED
  BY Zenon, <1>3 DEF ReadCount

-----------------------------------------------------------------------------
(* What is left of a sequence of pages when its first n are removed, as    *)
(* acknowledgePages does.                                                  *)
LEMMA WithoutFirst ==
  ASSUME NEW S, NEW ps \in Seq(S), NEW n \in 0..Len(ps)
  PROVE  LET rest == SubSeq(ps, n + 1, Len(ps))
         IN  /\ rest \in Seq(S)
             /\ Len(rest) = Len(ps) - n
             /\ \A i \in 1..Len(rest) : rest[i] = ps[i + n]
<1> DEFINE rest == SubSeq(ps, n + 1, Len(ps))
<1>1. Len(ps) \in Nat /\ n \in Nat /\ n + 1 \in Int /\ Len(ps) \in Int
  BY SequenceLen
<1>2. \A i \in (n + 1)..Len(ps) : ps[i] \in S
  BY <1>1, SequenceElement
<1>3. /\ rest \in Seq(S)
      /\ Len(rest) = IF n + 1 <= Len(ps) THEN Len(ps) - (n + 1) + 1 ELSE 0
      /\ \A i \in 1..(Len(ps) - (n + 1) + 1) : rest[i] = ps[(n + 1) + i - 1]
  BY <1>1, <1>2, SequencePart
<1>4. Len(rest) = Len(ps) - n
  BY <1>1, <1>3
<1>5. ASSUME NEW i \in 1..Len(rest)
      PROVE  rest[i] = ps[i + n]
  <2>1. i \in 1..(Len(ps) - (n + 1) + 1) /\ (n + 1) + i - 1 = i + n
    BY <1>1, <1>4
  <2> QED
    BY Zenon, <1>3, <2>1
<1> QED
  BY Zenon, <1>3, <1>4, <1>5

(* acknowledgePages removes the pages before the token, and no other.      *)
LEMMA AcknowledgePagesProperties ==
  ASSUME NEW b \in BufferType, NEW sequenceId \in Nat,
         ~AcknowledgeFails(b, sequenceId),
         NEW a, a = AcknowledgePages(b, sequenceId)
  PROVE  /\ a \in BufferType
         /\ a.destroyed = b.destroyed
         /\ a.noMorePages = b.noMorePages
         /\ a.pendingRead = b.pendingRead
         /\ b.destroyed => a = b
         /\ ~b.destroyed => sequenceId <= a.currentSequenceId
         /\ b.currentSequenceId <= a.currentSequenceId
         /\ a.currentSequenceId \in {b.currentSequenceId, sequenceId}
         /\ a.currentSequenceId + Len(a.pages) = b.currentSequenceId + Len(b.pages)
         /\ \A i \in 1..Len(a.pages) :
              a.pages[i] = b.pages[i + (a.currentSequenceId - b.currentSequenceId)]
<1> DEFINE n == sequenceId - b.currentSequenceId
           ps == SubSeq(b.pages, n + 1, Len(b.pages))
<1>1. /\ b.pages \in Seq(Page)
      /\ Len(b.pages) \in Nat
      /\ b.currentSequenceId \in Nat
  BY Zenon, SequenceLen DEF BufferType
<1>2. CASE b.destroyed \/ sequenceId < b.currentSequenceId
  <2>1. a = b
    BY Zenon, <1>2 DEF AcknowledgePages
  <2>2. \A i \in 1..Len(b.pages) : i + (b.currentSequenceId - b.currentSequenceId) = i
    BY <1>1
  <2> QED
    BY <1>1, <1>2, <2>1, <2>2
<1>3. CASE ~b.destroyed /\ ~(sequenceId < b.currentSequenceId)
  <2>1. n \in 0..Len(b.pages)
    BY <1>1, <1>3 DEF AcknowledgeFails
  <2>2. /\ ps \in Seq(Page)
        /\ Len(ps) = Len(b.pages) - n
        /\ \A i \in 1..Len(ps) : ps[i] = b.pages[i + n]
    BY Zenon, <1>1, <2>1, WithoutFirst
  <2>3. a = [b EXCEPT !.currentSequenceId = sequenceId, !.pages = ps]
    BY Zenon, <1>3 DEF AcknowledgePages
  <2> HIDE DEF ps
  <2>4. /\ a.currentSequenceId = sequenceId
        /\ a.pages = ps
        /\ a.destroyed = b.destroyed
        /\ a.noMorePages = b.noMorePages
        /\ a.pendingRead = b.pendingRead
        /\ a \in BufferType
    BY Zenon, <2>2, <2>3 DEF BufferType
  <2>5. n = a.currentSequenceId - b.currentSequenceId /\ n \in Nat
    BY <1>1, <2>1, <2>4
  <2>6. /\ sequenceId <= a.currentSequenceId
        /\ b.currentSequenceId <= a.currentSequenceId
        /\ a.currentSequenceId + Len(a.pages) = b.currentSequenceId + Len(b.pages)
    <3>1. Len(a.pages) = Len(b.pages) - (sequenceId - b.currentSequenceId)
      BY Zenon, <2>2, <2>4
    <3>2. sequenceId + Len(a.pages) = b.currentSequenceId + Len(b.pages)
      BY <1>1, <3>1
    <3>3. sequenceId <= sequenceId /\ b.currentSequenceId <= sequenceId
      BY <1>1, <1>3
    <3> QED
      BY Zenon, <2>4, <3>2, <3>3
  <2>7. \A i \in 1..Len(a.pages) :
          a.pages[i] = b.pages[i + (a.currentSequenceId - b.currentSequenceId)]
    BY Zenon, <2>2, <2>4, <2>5
  <2> QED
    BY Zenon, <1>3, <2>4, <2>6, <2>7
<1> QED
  BY Zenon, <1>2, <1>3

(* processRead answers with the pages the buffer holds from                *)
(* currentSequenceId on, at least one if there is one, and says complete   *)
(* only when there is none and there will be none.                         *)
LEMMA ProcessReadProperties ==
  ASSUME NEW b \in BufferType, NEW Ids, NEW id \in Ids, NEW sequenceId \in Nat,
         NEW maxBytes,
         ~ReadFails(b, sequenceId),
         NEW x, x = ProcessRead(b, id, sequenceId, maxBytes)
  PROVE  /\ x \in Results(Ids)
         /\ x.taskInstanceId = id
         /\ x.nextToken = x.token + Len(x.pages)
         /\ x.complete => Exhausted(b)
         /\ x.pages # <<>> =>
              /\ x.token = b.currentSequenceId
              /\ Len(x.pages) <= Len(b.pages)
              /\ \A i \in 1..Len(x.pages) : x.pages[i] = b.pages[i]
<1>1. /\ b.pages \in Seq(Page)
      /\ Len(b.pages) \in Nat
      /\ b.currentSequenceId \in Nat
  BY Zenon, SequenceLen DEF BufferType
<1>2. ASSUME NEW t \in Nat, NEW c \in BOOLEAN
      PROVE  LET e == EmptyResults(id, t, c)
             IN  /\ e \in Results(Ids)
                 /\ e.taskInstanceId = id
                 /\ e.nextToken = e.token + Len(e.pages)
                 /\ e.complete = c
                 /\ e.pages = <<>>
  BY SequenceEmpty DEF EmptyResults, Results
<1>3. CASE b.pages = <<>> \/ sequenceId < b.currentSequenceId
  BY Zenon, <1>1, <1>2, <1>3 DEF ProcessRead
<1>4. CASE b.pages # <<>> /\ ~(sequenceId < b.currentSequenceId)
  <2> DEFINE n == ReadCount(b.pages, maxBytes)
             ps == SubSeq(b.pages, 1, n)
  <2>1. sequenceId = b.currentSequenceId
    BY <1>1, <1>4 DEF ReadFails, Exhausted
  <2>2. n \in 1..Len(b.pages)
    BY Zenon, <1>1, <1>4, ReadCountBounds
  <2>3. /\ ps \in Seq(Page)
        /\ Len(ps) = n
        /\ \A i \in 1..Len(ps) : ps[i] = b.pages[i]
    <3> HIDE DEF n
    <3>1. \A i \in 1..n : b.pages[i] \in Page
      BY <1>1, <2>2, SequenceElement
    <3>2. /\ SubSeq(b.pages, 1, n) \in Seq(Page)
          /\ Len(SubSeq(b.pages, 1, n)) = IF 1 <= n THEN n - 1 + 1 ELSE 0
          /\ \A i \in 1..(n - 1 + 1) : SubSeq(b.pages, 1, n)[i] = b.pages[1 + i - 1]
      BY <2>2, <3>1, SequencePart
    <3> QED
      BY <1>1, <2>2, <3>2
  <2>4. x = [taskInstanceId |-> id, token |-> sequenceId, nextToken |-> sequenceId + n,
             complete |-> FALSE, pages |-> ps]
    BY Zenon, <1>4 DEF ProcessRead, Exhausted, ReadPages
  <2> HIDE DEF n, ps
  <2>5. /\ x \in Results(Ids)
        /\ x.taskInstanceId = id
        /\ x.nextToken = x.token + Len(x.pages)
        /\ x.complete = FALSE
    BY <1>1, <2>2, <2>3, <2>4 DEF Results
  <2>6. /\ x.token = b.currentSequenceId
        /\ Len(x.pages) <= Len(b.pages)
        /\ \A i \in 1..Len(x.pages) : x.pages[i] = b.pages[i]
    BY <1>1, <2>1, <2>2, <2>3, <2>4
  <2> QED
    BY Zenon, <2>5, <2>6
<1> QED
  BY Zenon, <1>3, <1>4

-----------------------------------------------------------------------------
(* Types.                                                                  *)

(* BufferResult.emptyResults returns a result.                             *)
LEMMA EmptyResultsType ==
  ASSUME NEW id \in Instance, NEW t \in Nat, NEW c \in BOOLEAN
  PROVE  EmptyResults(id, t, c) \in Results(Instance)
BY Zenon, SequenceEmpty DEF EmptyResults, Results

(* An unused request is a request.                                         *)
LEMMA FreeType == Free \in RequestType
<1>1. 1 \in Instance
  BY BoundAssumption DEF Instance
<1>2. EmptyResults(1, 0, FALSE) \in Results(Instance)
  BY Zenon, <1>1, EmptyResultsType
<1> QED
  BY Zenon, <1>2 DEF Free, RequestType, Kind, Phase

(* So is a new one.                                                        *)
LEMMA NewRequestType ==
  ASSUME NEW kind \in Kind, NEW t \in Nat
  PROVE  NewRequest(kind, t) \in RequestType
BY Zenon, FreeType DEF NewRequest, RequestType, Phase

(* What happens to a request on its way leaves it a request.               *)
LEMMA RequestTypes ==
  ASSUME NEW x \in RequestType
  PROVE  /\ Gone(x) \in RequestType
         /\ GivenUp(x) \in RequestType
         /\ \A ph \in Phase : [x EXCEPT !.phase = ph] \in RequestType
         /\ \A result \in Results(Instance) : Replied(x, result) \in RequestType
         /\ instance \in Instance => NotComplete(x) \in RequestType
<1>1. Gone(x) \in RequestType
  BY Zenon, FreeType DEF Gone, RequestType, Phase
<1>2. GivenUp(x) \in RequestType
  BY Zenon, FreeType DEF GivenUp, RequestType
<1>3. \A ph \in Phase : [x EXCEPT !.phase = ph] \in RequestType
  BY Zenon DEF RequestType
<1>4. \A result \in Results(Instance) : Replied(x, result) \in RequestType
  BY Zenon DEF Replied, RequestType, Phase
<1>5. instance \in Instance => NotComplete(x) \in RequestType
  BY Zenon, <1>4, EmptyResultsType DEF NotComplete, RequestType
<1> QED
  BY Zenon, <1>1, <1>2, <1>3, <1>4, <1>5

(* So does what happens to the pending read of the buffer.                 *)
LEMMA PendingTypes ==
  ASSUME TypeOK, NEW requests \in [Request -> RequestType]
  PROVE  /\ PendingTaken(requests) \in [Request -> RequestType]
         /\ PendingAborted(requests) \in [Request -> RequestType]
<1>1. instance \in Instance /\ "taken" \in Phase
  BY Zenon DEF TypeOK, Phase
<1>2. \A r \in Request : /\ [requests[r] EXCEPT !.phase = "taken"] \in RequestType
                         /\ NotComplete(requests[r]) \in RequestType
  BY Zenon, <1>1, RequestTypes
<1> QED
  BY Zenon, <1>2 DEF PendingTaken, PendingAborted

(* The methods of ClientBuffer keep the type of the buffer.                *)
LEMMA BufferTypes ==
  ASSUME NEW b \in BufferType
  PROVE  /\ NewBuffer \in BufferType
         /\ Destroy(b) \in BufferType
         /\ SetNoMorePages(b) \in BufferType
         /\ AbortPendingRead(b) \in BufferType
         /\ \A ps \in Seq(Page) : EnqueuePages(b, ps) \in BufferType
         /\ \A r \in Request : WaitForPages(b, r) \in BufferType /\ ReadDone(b, r) \in BufferType
BY Zenon, SequenceEmpty, SequenceConcat
   DEF NewBuffer, Destroy, SetNoMorePages, AbortPendingRead, EnqueuePages, AddPages,
       WaitForPages, ReadDone, BufferType

(* The methods of Backoff keep the type of the client.                     *)
LEMMA BackoffTypes ==
  ASSUME NEW c \in ClientType(Request, Instance)
  PROVE  /\ BackoffSuccess(c) \in ClientType(Request, Instance)
         /\ BackoffFailure(c) \in ClientType(Request, Instance)
BY MinTriesAssumption DEF BackoffSuccess, BackoffFailure, ClientType

(* So do the methods of PageBufferClient.                                  *)
LEMMA ClientTypes ==
  ASSUME NEW c \in ClientType(Request, Instance), NEW r \in Request
  PROVE  /\ ScheduleRequest(c) \in ClientType(Request, Instance)
         /\ SkipRequest(c) \in ClientType(Request, Instance)
         /\ InitiateRequest(c, r) \in ClientType(Request, Instance)
         /\ ClearFuture(c, r) \in ClientType(Request, Instance)
         /\ DeleteSucceeded(c, r) \in ClientType(Request, Instance)
         /\ Close(c, r) \in ClientType(Request, Instance)
         /\ \A result \in Results(Instance) :
              /\ AcceptResult(c, result) \in ClientType(Request, Instance)
              /\ CompleteRequest(c, r, result) \in ClientType(Request, Instance)
<1>1. /\ ScheduleRequest(c) \in ClientType(Request, Instance)
      /\ SkipRequest(c) \in ClientType(Request, Instance)
      /\ InitiateRequest(c, r) \in ClientType(Request, Instance)
      /\ ClearFuture(c, r) \in ClientType(Request, Instance)
      /\ Close(c, r) \in ClientType(Request, Instance)
  BY Zenon DEF ScheduleRequest, SkipRequest, InitiateRequest, ClearFuture, Close, ClientType
<1>2. DeleteSucceeded(c, r) \in ClientType(Request, Instance)
  BY Zenon DEF DeleteSucceeded, ClearFuture, ClientType
<1>3. ASSUME NEW result \in Results(Instance)
      PROVE  /\ AcceptResult(c, result) \in ClientType(Request, Instance)
             /\ CompleteRequest(c, r, result) \in ClientType(Request, Instance)
  BY ZenonT(60) DEF AcceptResult, InOrder, CompleteRequest, ClearFuture, ClientType, Results
<1> QED
  BY Zenon, <1>1, <1>2, <1>3

(* Every step keeps the types.                                             *)
LEMMA TypeStep == TypeOK /\ [Next]_vars => TypeOK'
<1> SUFFICES ASSUME TypeOK, [Next]_vars
             PROVE  TypeOK'
  BY Zenon
<1> USE DEF TypeOK, serverVars, clientVars, historyVars
<1>0. /\ \A ph \in Phase : \A r \in Request :
             [request EXCEPT ![r].phase = ph] \in [Request -> RequestType]
      /\ \A x \in RequestType : \A r \in Request :
             [request EXCEPT ![r] = x] \in [Request -> RequestType]
  BY Zenon, RequestTypes
<1>1. CASE SetOutputBuffers
  BY Zenon, <1>1, BufferTypes DEF SetOutputBuffers, Terminal
<1>2. ASSUME NEW w \in Writer, BeginEnqueue(w)
      PROVE  TypeOK'
  <2>1. \A n \in 1..MaxBatch : \A ps \in [1..n -> Page] : ps \in Seq(Page)
    BY BoundAssumption, SequenceSet
  <2>2. CASE CanAddPages
    <3>1. PICK n \in 1..MaxBatch : \E ps \in [1..n -> Page] : writing' = [writing EXCEPT ![w] = ps]
      BY Zenon, <1>2, <2>2 DEF BeginEnqueue
    <3>2. PICK ps \in [1..n -> Page] : writing' = [writing EXCEPT ![w] = ps]
      BY Zenon, <3>1
    <3>3. writing' \in [Writer -> Seq(Page)]
      BY Zenon, <2>1, <3>2
    <3> QED
      BY Zenon, <1>2, <2>2, <3>3 DEF BeginEnqueue
  <2>3. CASE ~CanAddPages
    BY Zenon, <1>2, <2>3 DEF BeginEnqueue
  <2> QED
    BY Zenon, <2>2, <2>3
<1>3. ASSUME NEW w \in Writer, FinishEnqueue(w)
      PROVE  TypeOK'
  <2>1. writing[w] \in Seq(Page) /\ <<>> \in Seq(Page)
    BY Zenon, SequenceEmpty
  <2>2. stream \o writing[w] \in Seq(Page)
    BY Zenon, <2>1, SequenceConcat
  <2>3. EnqueuePages(buffer, writing[w]) \in BufferType
    BY Zenon, <2>1, BufferTypes
  <2>4. PendingTaken(request) \in [Request -> RequestType]
    BY Zenon, PendingTypes
  <2> QED
    BY ZenonT(60), <1>3, <2>1, <2>2, <2>3, <2>4 DEF FinishEnqueue
<1>4. CASE CheckTaskCompletion
  BY Zenon, <1>4, PendingTypes, BufferTypes DEF CheckTaskCompletion, setNoMorePages, FlushedState
<1>5. CASE BeginCompletionCheck \/ LeaveCompletionCheck \/ FailTask \/ CancelTask \/ FailBuffer
  BY ZenonT(60), <1>5
     DEF BeginCompletionCheck, LeaveCompletionCheck, FailTask, CancelTask, FailBuffer,
         TaskState, Completion
<1>6. CASE DestroyBuffer
  <2>1. \A r \in Request :
          Replied(request[r], EmptyResults(instance, 0, TRUE)) \in RequestType
    BY Zenon, RequestTypes, EmptyResultsType
  <2>2. Destroy(buffer) \in BufferType /\ PendingAborted(request) \in [Request -> RequestType]
    BY Zenon, PendingTypes, BufferTypes
  <2>3. buffer' \in BufferType /\ request' \in [Request -> RequestType]
    <3>1. CASE delegate
      BY Zenon, <1>6, <2>2, <3>1 DEF DestroyBuffer
    <3>2. CASE ~delegate
      <4>1. buffer' = buffer
        BY <1>6, <3>2, Zenon DEF DestroyBuffer
      <4>2. request' \in [Request -> RequestType]
        <5>1. request' = [r \in Request |->
                            IF request[r].phase = "waiting"
                            THEN Replied(request[r], EmptyResults(instance, 0, TRUE))
                            ELSE request[r]]
          BY <1>6, <3>2, Zenon DEF DestroyBuffer
        <5>2. \A r \in Request : request[r] \in RequestType
          BY Zenon
        <5> QED
          BY Zenon, <2>1, <5>1, <5>2
      <4> QED
        BY Zenon, <4>1, <4>2
    <3> QED
      BY Zenon, <3>1, <3>2
  <2> QED
    BY Zenon, <1>6, <2>3 DEF DestroyBuffer
<1>7. CASE RestartWorker
  <2>1. \A r \in Request : Gone(request[r]) \in RequestType
    BY Zenon, RequestTypes
  <2>2. instance' \in Instance
    BY <1>7, BoundAssumption DEF RestartWorker, Instance
  <2> QED
    BY Zenon, <1>7, <2>1, <2>2, BufferTypes, SequenceEmpty DEF RestartWorker, TaskState
<1>8. CASE ScheduleClient
  BY ZenonT(60), <1>8 DEF ScheduleClient, ScheduleRequest, ClientType
<1>9. CASE SendRequest
  <2>1. client.token \in Nat /\ "get" \in Kind /\ "delete" \in Kind
    BY Zenon DEF ClientType, Kind
  <2>2. NewRequest("delete", 0) \in RequestType /\ NewRequest("get", client.token) \in RequestType
    BY Zenon, <2>1, NewRequestType
  <2>3. SkipRequest(client) \in ClientType(Request, Instance)
    BY Zenon DEF SkipRequest, ClientType
  <2> QED
    BY <1>9, <2>2, <2>3, <1>0, ClientTypes DEF SendRequest
<1>10. ASSUME CloseClient
       PROVE  /\ request' \in [Request -> RequestType]
              /\ client' \in ClientType(Request, Instance)
  <2> DEFINE outstanding == client.future # NoRequest /\ request[client.future].live
             requests == IF outstanding
                         THEN [request EXCEPT ![client.future] = GivenUp(@)] ELSE request
             failing == IF outstanding THEN BackoffFailure(client) ELSE client
  <2>1. requests \in [Request -> RequestType]
    BY Zenon, RequestTypes DEF ClientType
  <2>2. failing \in ClientType(Request, Instance)
    BY Zenon, BackoffTypes
  <2>3. NewRequest("delete", 0) \in RequestType
    BY Zenon, NewRequestType DEF Kind
  <2>4. /\ [failing EXCEPT !.future = NoRequest] \in ClientType(Request, Instance)
        /\ \A r \in Request : Close(failing, r) \in ClientType(Request, Instance)
    <3> HIDE DEF failing
    <3> QED
      BY ZenonT(60), <2>2, ClientTypes DEF ClientType
  <2>5. \/ client' = [failing EXCEPT !.future = NoRequest] /\ request' = requests
        \/ \E r \in Request :
             /\ client' = Close(failing, r)
             /\ request' = [requests EXCEPT ![r] = NewRequest("delete", 0)]
    BY Zenon, <1>10 DEF CloseClient
  <2> HIDE DEF failing, requests
  <2> QED
    BY Zenon, <2>1, <2>3, <2>4, <2>5
<1>11. CASE CloseExchange
  BY Zenon, <1>10, <1>11 DEF CloseExchange
<1>12. CASE RemoveRemoteSource
  BY Zenon, <1>10, <1>12 DEF RemoveRemoteSource
<1>13. ASSUME NEW r \in Request, StartGetPages(r)
       PROVE  /\ request' \in [Request -> RequestType]
              /\ buffer' \in BufferType
  <2>1. request[r].token \in Nat
    BY Zenon DEF RequestType
  <2>2. ~AcknowledgeFails(buffer, request[r].token) =>
          AcknowledgePages(buffer, request[r].token) \in BufferType
    BY Zenon, <2>1, AcknowledgePagesProperties
  <2>3. "error" \in Phase /\ "acked" \in Phase
    BY Zenon DEF Phase
  <2> QED
    BY <1>13, <2>2, <2>3, <1>0 DEF StartGetPages
<1>14. ASSUME NEW r \in Request, ArriveGet(r)
       PROVE  TypeOK'
  <2>1. Replied(request[r], EmptyResults(instance, 0, TRUE)) \in RequestType
    BY Zenon, RequestTypes, EmptyResultsType
  <2>2. "waiting" \in Phase
    BY Zenon DEF Phase
  <2>3. CASE delegate /\ StartGetPages(r) /\ UNCHANGED lazyReads
    BY Zenon, <1>13, <1>14, <2>3 DEF ArriveGet
  <2>4. CASE request' = [request EXCEPT ![r] = Replied(@, EmptyResults(instance, 0, TRUE))]
             /\ UNCHANGED <<buffer, lazyReads>>
    BY ZenonT(60), <1>14, <2>1, <2>4, <1>0 DEF ArriveGet
  <2>5. CASE request' = [request EXCEPT ![r].phase = "waiting"]
             /\ lazyReads' = lazyReads \cup {r} /\ UNCHANGED buffer
    BY <1>14, <2>2, <2>5, <1>0 DEF ArriveGet
  <2> QED
    BY ZenonT(60), <1>14, <2>3, <2>4, <2>5 DEF ArriveGet
<1>15. ASSUME NEW r \in Request, ProcessLazyRead(r)
       PROVE  TypeOK'
  BY Zenon, <1>13, <1>15 DEF ProcessLazyRead
<1>16. ASSUME NEW r \in Request, ~ReadFails(buffer, request[r].token)
       PROVE  Replied(request[r], ProcessRead(buffer, instance, request[r].token, MaxBytes))
                \in RequestType
  <2>1. request[r].token \in Nat
    BY Zenon DEF RequestType
  <2>2. ProcessRead(buffer, instance, request[r].token, MaxBytes) \in Results(Instance)
    BY Zenon, <1>16, <2>1, ProcessReadProperties
  <2> QED
    BY Zenon, <2>2, RequestTypes
<1>17. ASSUME NEW r \in Request, FinishGetPages(r)
       PROVE  TypeOK'
  <2> DEFINE requests == PendingAborted(request)
             answered == Replied(requests[r], ProcessRead(buffer, instance, request[r].token, MaxBytes))
  <2>1. requests \in [Request -> RequestType]
    BY Zenon, PendingTypes
  <2>2. ~ReadFails(buffer, request[r].token) => answered \in RequestType
    <3>1. request[r].token \in Nat
      BY Zenon DEF RequestType
    <3>2. ~ReadFails(buffer, request[r].token) =>
            ProcessRead(buffer, instance, request[r].token, MaxBytes) \in Results(Instance)
      BY Zenon, <3>1, ProcessReadProperties
    <3> QED
      BY ZenonT(60), <2>1, <3>2, RequestTypes
  <2>3. /\ [requests[r] EXCEPT !.phase = "error"] \in RequestType
        /\ [requests[r] EXCEPT !.phase = "waiting"] \in RequestType
    BY Zenon, <2>1, RequestTypes DEF Phase
  <2>4. AbortPendingRead(buffer) \in BufferType /\ WaitForPages(buffer, r) \in BufferType
    BY Zenon, BufferTypes
  <2>5. \/ /\ buffer' = AbortPendingRead(buffer)
           /\ ReadFails(buffer, request[r].token)
           /\ request' = [requests EXCEPT ![r].phase = "error"]
        \/ /\ buffer' = AbortPendingRead(buffer)
           /\ ~ReadFails(buffer, request[r].token)
           /\ request' = [requests EXCEPT ![r] = answered]
        \/ /\ buffer' = WaitForPages(buffer, r)
           /\ request' = [requests EXCEPT ![r].phase = "waiting"]
    BY Zenon, <1>17 DEF FinishGetPages
  <2> HIDE DEF requests, answered
  <2>6. request' \in [Request -> RequestType] /\ buffer' \in BufferType
    BY ZenonT(60), <2>1, <2>2, <2>3, <2>4, <2>5
  <2> QED
    BY <1>17, <2>6 DEF FinishGetPages
<1>18. ASSUME NEW r \in Request, AnswerTakenRead(r)
       PROVE  TypeOK'
  BY <1>0, <1>16, <1>18 DEF AnswerTakenRead
<1>19. ASSUME NEW r \in Request, ReadTimeout(r)
       PROVE  TypeOK'
  <2>1. NotComplete(request[r]) \in RequestType
    BY Zenon, RequestTypes
  <2> QED
    BY ZenonT(60), <1>0, <1>19, <2>1, BufferTypes DEF ReadTimeout
<1>20. ASSUME NEW r \in Request, ArriveAcknowledge(r)
       PROVE  TypeOK'
  <2>1. ~AcknowledgeFails(buffer, request[r].token) =>
          AcknowledgePages(buffer, request[r].token) \in BufferType
    BY Zenon, AcknowledgePagesProperties DEF RequestType
  <2> QED
    BY <1>0, <1>20, <2>1, FreeType DEF ArriveAcknowledge
<1>21. ASSUME NEW r \in Request, ArriveDelete(r)
       PROVE  TypeOK'
  <2>1. Destroy(buffer) \in BufferType
    BY Zenon, BufferTypes
  <2>2. /\ PendingAborted(request) \in [Request -> RequestType]
        /\ [PendingAborted(request) EXCEPT ![r].phase = "reply"] \in [Request -> RequestType]
        /\ [request EXCEPT ![r].phase = "reply"] \in [Request -> RequestType]
    BY ZenonT(60), PendingTypes, RequestTypes DEF Phase
  <2>3. buffer' \in BufferType /\ request' \in [Request -> RequestType]
    BY Zenon, <1>21, <2>1, <2>2 DEF ArriveDelete
  <2> QED
    BY ZenonT(60), <1>21, <2>3 DEF ArriveDelete, FlushedState
<1>22. ASSUME NEW r \in Request, LoseMessage(r)
       PROVE  TypeOK'
  BY <1>0, <1>22, RequestTypes DEF LoseMessage
<1>23. ASSUME NEW r \in Request, DiscardReply(r)
       PROVE  TypeOK'
  BY <1>0, <1>23, FreeType DEF DiscardReply
<1>24. ASSUME NEW r \in Request, ReceiveResults(r)
       PROVE  TypeOK'
  <2>1. [request[r] EXCEPT !.phase = "received", !.live = FALSE] \in RequestType
    BY ZenonT(60) DEF RequestType, Phase
  <2> QED
    BY <1>0, <1>24, <2>1 DEF ReceiveResults
<1>25. ASSUME NEW r \in Request, DeleteDone(r)
       PROVE  TypeOK'
  BY ZenonT(60), <1>0, <1>25, FreeType, ClientTypes, BackoffTypes DEF DeleteDone
<1>26. ASSUME NEW r \in Request, ReceiveError(r)
       PROVE  TypeOK'
  BY ZenonT(60), <1>0, <1>26, FreeType, ClientTypes DEF ReceiveError, ClientFailed
<1>27. ASSUME NEW r \in Request, TransportFailure(r)
       PROVE  TypeOK'
  <2>1. BackoffFailure(ClearFuture(client, r)) \in ClientType(Request, Instance)
    BY Zenon, ClientTypes, BackoffTypes
  <2>2. exchange' \in [closed: BOOLEAN, failed: BOOLEAN, removed: BOOLEAN]
    BY Zenon, <1>27 DEF TransportFailure, ClientFailed
  <2>3. request' \in [Request -> RequestType]
    BY Zenon, <1>0, <1>27, RequestTypes DEF TransportFailure
  <2> QED
    BY <1>27, <2>1, <2>2, <2>3 DEF TransportFailure
<1>28. ASSUME NEW r \in Request, AcceptResults(r)
       PROVE  TypeOK'
  <2> DEFINE result == request[r].result
             pages == AcceptedPages(client, result)
             accepted == [request EXCEPT ![r] = Accepted(@, pages)]
  <2>1. result \in Results(Instance)
    BY Zenon DEF RequestType
  <2>2. pages \in Seq(Page)
    BY Zenon, <2>1, SequenceEmpty DEF AcceptedPages, Results
  <2>3. Accepted(request[r], pages) \in RequestType
    <3> HIDE DEF pages
    <3>1. [result EXCEPT !.pages = pages] \in Results(Instance)
      BY Zenon, <2>1, <2>2 DEF Results
    <3> QED
      BY ZenonT(60), <3>1 DEF Accepted, RequestType, Phase
  <2>4. accepted \in [Request -> RequestType]
    BY Zenon, <1>0, <2>3
  <2>5. NewRequest("ack", result.nextToken) \in RequestType
    BY Zenon, <2>1, NewRequestType DEF Results, Kind
  <2>6. /\ BackoffSuccess(ClearFuture(client, r)) \in ClientType(Request, Instance)
        /\ BackoffSuccess(AcceptResult(client, result)) \in ClientType(Request, Instance)
    BY ZenonT(60), <2>1, ClientTypes, BackoffTypes
  <2>7. client' \in ClientType(Request, Instance)
    BY Zenon, <1>28, <2>6 DEF AcceptResults
  <2>8. exchange' \in [closed: BOOLEAN, failed: BOOLEAN, removed: BOOLEAN]
    BY Zenon, <1>28 DEF AcceptResults, ClientFailed
  <2>9. request' \in [Request -> RequestType]
    <3>1. \/ request' = [request EXCEPT ![r] = Free]
          \/ request' = accepted
          \/ \E s \in Request :
               request' = [accepted EXCEPT ![s] = NewRequest("ack", result.nextToken)]
      BY Zenon, <1>28 DEF AcceptResults
    <3> HIDE DEF accepted
    <3> QED
      BY ZenonT(60), <1>0, <2>4, <2>5, <3>1, FreeType
  <2> QED
    BY <1>28, <2>7, <2>8, <2>9 DEF AcceptResults
<1>29. ASSUME NEW r \in Request, OfferPages(r)
       PROVE  TypeOK'
  <2>1. request[r].result.pages \in Seq(Page) /\ "added" \in Phase
    BY Zenon DEF RequestType, Results, Phase
  <2>2. received \o request[r].result.pages \in Seq(Page)
    BY Zenon, <2>1, SequenceConcat
  <2> QED
    BY <1>0, <1>29, <2>1, <2>2 DEF OfferPages
<1>30. ASSUME NEW r \in Request, FinishResults(r)
       PROVE  TypeOK'
  <2>1. request[r].result \in Results(Instance)
    BY Zenon DEF RequestType
  <2> QED
    BY ZenonT(60), <1>0, <1>30, <2>1, FreeType, ClientTypes DEF FinishResults
<1>31. CASE UNCHANGED vars
  BY <1>31 DEF vars
<1> QED
  BY Zenon, <1>1, <1>2, <1>3, <1>4, <1>5, <1>6, <1>7, <1>8, <1>9, <1>11, <1>12, <1>14, <1>15,
     <1>17, <1>18, <1>19, <1>20, <1>21, <1>22, <1>23, <1>24, <1>25, <1>26, <1>27, <1>28,
     <1>29, <1>30, <1>31
     DEF Next, Produce, ServerStep, ClientStep

(* The types hold initially.                                               *)
LEMMA TypeInit == Init => TypeOK
<1>1. <<>> \in Seq(Page)
  BY Zenon, SequenceEmpty
<1>2. NewBuffer \in BufferType
  BY Zenon, <1>1 DEF NewBuffer, BufferType
<1>3. NewClient \in ClientType(Request, Instance)
  BY MinTriesAssumption DEF NewClient, ClientType
<1>4. 1 \in Instance
  BY BoundAssumption DEF Instance
<1>5. Init => /\ writing \in [Writer -> Seq(Page)]
              /\ request \in [Request -> RequestType]
  BY Zenon, <1>1, FreeType DEF Init
<1>6. Init => /\ buffer \in BufferType
              /\ client \in ClientType(Request, Instance)
  BY Zenon, <1>2, <1>3 DEF Init
<1> QED
  <2> SUFFICES ASSUME Init PROVE TypeOK
    BY Zenon
  <2>1. /\ exchange \in [closed: BOOLEAN, failed: BOOLEAN, removed: BOOLEAN]
        /\ instance \in Instance
        /\ received \in Seq(Page) /\ stream \in Seq(Page)
        /\ lazyReads \subseteq Request /\ cancelled \subseteq Instance
    BY Zenon, <1>1, <1>4 DEF Init
  <2>2. /\ delegate \in BOOLEAN /\ aborted \in BOOLEAN /\ dropped \in BOOLEAN
        /\ outputDone \in BOOLEAN /\ task \in TaskState /\ completion \in Completion
        /\ bufferState \in {"OPEN", "NO_MORE_BUFFERS", "FLUSHING", "FINISHED", "FAILED"}
    BY Zenon DEF Init, TaskState, Completion
  <2> QED
    BY Zenon, <1>5, <1>6, <2>1, <2>2 DEF TypeOK

(* Every variable keeps its type: token arithmetic never leaves the        *)
(* naturals, and no operation reads past the pages a buffer holds.         *)
THEOREM TypeCorrect == Spec => []TypeOK
BY TypeInit, TypeStep, PTL DEF Spec

-----------------------------------------------------------------------------
(* Fields.                                                                 *)

Is(x, kind, phase, live, token, result) ==
  /\ x.kind = kind
  /\ x.phase = phase
  /\ x.live = live
  /\ x.token = token
  /\ x.result = result

(* The fields of an unused request.                                        *)
LEMMA FreeFields ==
  Is(Free, "none", "free", FALSE, 0, EmptyResults(1, 0, FALSE))
BY Zenon DEF Is, Free

(* The fields of a new request.                                            *)
LEMMA NewRequestFields ==
  ASSUME NEW kind, NEW t
  PROVE  Is(NewRequest(kind, t), kind, "sent", kind # "ack", t, EmptyResults(1, 0, FALSE))
BY Zenon DEF Is, NewRequest, Free

(* The fields of a request after what happens to it on its way.            *)
LEMMA RequestFields ==
  ASSUME NEW x \in RequestType
  PROVE  /\ \A ph : Is([x EXCEPT !.phase = ph], x.kind, ph, x.live, x.token, x.result)
         /\ \A result : Is(Replied(x, result), x.kind, "reply", x.live, x.token, result)
         /\ Is(NotComplete(x), x.kind, "reply", x.live, x.token,
               EmptyResults(instance, x.token, FALSE))
         /\ x.live => Is(Gone(x), x.kind, "lost", TRUE, x.token, x.result)
         /\ ~x.live => Gone(x) = Free
         /\ x.phase = "lost" => GivenUp(x) = Free
         /\ x.phase # "lost" => Is(GivenUp(x), x.kind, x.phase, FALSE, x.token, x.result)
BY Zenon DEF Is, RequestType, Replied, NotComplete, Gone, GivenUp

(* The fields of a result without pages.                                   *)
LEMMA EmptyResultsFields ==
  ASSUME NEW id, NEW t, NEW c
  PROVE  LET x == EmptyResults(id, t, c)
         IN  /\ x.taskInstanceId = id
             /\ x.token = t
             /\ x.nextToken = t
             /\ x.complete = c
             /\ x.pages = <<>>
BY Zenon DEF EmptyResults

Buf(b, current, pages, noMorePages, destroyed, pendingRead) ==
  /\ b.currentSequenceId = current
  /\ b.pages = pages
  /\ b.noMorePages = noMorePages
  /\ b.destroyed = destroyed
  /\ b.pendingRead = pendingRead

(* The fields of a buffer after each method of ClientBuffer.               *)
LEMMA BufferFields ==
  ASSUME NEW b \in BufferType
  PROVE  /\ Buf(NewBuffer, 0, <<>>, FALSE, FALSE, NoRead)
         /\ Buf(Destroy(b), b.currentSequenceId, <<>>, TRUE, TRUE, NoRead)
         /\ Buf(SetNoMorePages(b), b.currentSequenceId, b.pages, TRUE, b.destroyed, NoRead)
         /\ Buf(AbortPendingRead(b), b.currentSequenceId, b.pages, b.noMorePages,
                b.destroyed, NoRead)
         /\ \A ps : Buf(EnqueuePages(b, ps), b.currentSequenceId, b.pages \o ps,
                        b.noMorePages, b.destroyed, NoRead)
         /\ \A r : Buf(WaitForPages(b, r), b.currentSequenceId, b.pages, b.noMorePages,
                       b.destroyed, r)
         /\ \A r : Buf(ReadDone(b, r), b.currentSequenceId, b.pages, b.noMorePages,
                       b.destroyed, IF b.pendingRead = r THEN DoneRead ELSE b.pendingRead)
BY Zenon DEF Buf, NewBuffer, Destroy, SetNoMorePages, AbortPendingRead, EnqueuePages, AddPages,
       WaitForPages, ReadDone, BufferType

(* The fields of the client that the invariants speak of.                  *)
Cli(c, token, completed, closed, future, id) ==
  /\ c.token = token
  /\ c.completed = completed
  /\ c.closed = closed
  /\ c.future = future
  /\ c.taskInstanceId = id

(* The fields of a client after each method of PageBufferClient.           *)
LEMMA ClientFields ==
  ASSUME NEW c \in ClientType(Request, Instance)
  PROVE  /\ Cli(BackoffSuccess(c), c.token, c.completed, c.closed, c.future, c.taskInstanceId)
         /\ Cli(BackoffFailure(c), c.token, c.completed, c.closed, c.future, c.taskInstanceId)
         /\ Cli(ScheduleRequest(c), c.token, c.completed, c.closed, c.future, c.taskInstanceId)
         /\ Cli(SkipRequest(c), c.token, c.completed, c.closed, c.future, c.taskInstanceId)
         /\ \A r : Cli(InitiateRequest(c, r), c.token, c.completed, c.closed, r, c.taskInstanceId)
         /\ \A r : Cli(ClearFuture(c, r), c.token, c.completed, c.closed,
                       IF c.future = r THEN NoRequest ELSE c.future, c.taskInstanceId)
         /\ \A r : Cli(DeleteSucceeded(c, r), c.token, c.completed, TRUE,
                       IF c.future = r THEN NoRequest ELSE c.future, c.taskInstanceId)
         /\ \A r : Cli(Close(c, r), c.token, c.completed, TRUE, r, c.taskInstanceId)
         /\ \A r, result :
              Cli(CompleteRequest(c, r, result), c.token, c.completed \/ result.complete,
                  c.closed, IF c.future = r THEN NoRequest ELSE c.future, c.taskInstanceId)
         /\ \A result :
              Cli(AcceptResult(c, result),
                  IF InOrder(c, result) THEN result.nextToken ELSE c.token,
                  c.completed, c.closed, c.future,
                  IF c.taskInstanceId = NoInstance THEN result.taskInstanceId ELSE c.taskInstanceId)
<1>1. /\ Cli(BackoffSuccess(c), c.token, c.completed, c.closed, c.future, c.taskInstanceId)
      /\ Cli(BackoffFailure(c), c.token, c.completed, c.closed, c.future, c.taskInstanceId)
      /\ Cli(ScheduleRequest(c), c.token, c.completed, c.closed, c.future, c.taskInstanceId)
      /\ Cli(SkipRequest(c), c.token, c.completed, c.closed, c.future, c.taskInstanceId)
      /\ \A r : Cli(InitiateRequest(c, r), c.token, c.completed, c.closed, r, c.taskInstanceId)
      /\ \A r : Cli(Close(c, r), c.token, c.completed, TRUE, r, c.taskInstanceId)
  BY Zenon DEF Cli, BackoffSuccess, BackoffFailure, ScheduleRequest, SkipRequest, InitiateRequest,
         Close, ClientType
<1>2. \A r : Cli(ClearFuture(c, r), c.token, c.completed, c.closed,
                IF c.future = r THEN NoRequest ELSE c.future, c.taskInstanceId)
  BY Zenon DEF Cli, ClearFuture, ClientType
<1>3. \A r : Cli(DeleteSucceeded(c, r), c.token, c.completed, TRUE,
                IF c.future = r THEN NoRequest ELSE c.future, c.taskInstanceId)
  BY Zenon DEF Cli, DeleteSucceeded, ClearFuture, ClientType
<1>4. \A r, result :
        Cli(CompleteRequest(c, r, result), c.token, c.completed \/ result.complete,
            c.closed, IF c.future = r THEN NoRequest ELSE c.future, c.taskInstanceId)
  BY Zenon DEF Cli, CompleteRequest, ClearFuture, ClientType
<1>5. \A result :
        Cli(AcceptResult(c, result),
            IF InOrder(c, result) THEN result.nextToken ELSE c.token,
            c.completed, c.closed, c.future,
            IF c.taskInstanceId = NoInstance THEN result.taskInstanceId ELSE c.taskInstanceId)
  BY Zenon DEF Cli, AcceptResult, ClientType
<1> QED
  BY Zenon, <1>1, <1>2, <1>3, <1>4, <1>5

-----------------------------------------------------------------------------
(* Frames: what a step keeps because of what it leaves alone.              *)

(* Inv without its types.                                                  *)
Rest ==
  /\ OneRequest
  /\ Phases
  /\ Destruction
  /\ BufferHoldsRest
  /\ Tokens
  /\ EndOfStream
  /\ ResultsFromStream
  /\ CompleteResults
  /\ TokenCounts
  /\ CompletionIsReal

(* The parts of Inv a step leaves alone because it leaves their variables  *)
(* alone.                                                                  *)
LEMMA FrameOneRequest ==
  OneRequest /\ UNCHANGED <<request, client>> => OneRequest'
BY Zenon DEF OneRequest, Callback

(* What each conjunct of the invariant depends on: Phases,                 *)
LEMMA FramePhases ==
  Phases /\ UNCHANGED <<request, lazyReads>> /\ buffer'.pendingRead = buffer.pendingRead
  /\ (delegate => delegate')
  => Phases'
BY DEF Phases

(* Destruction,                                                            *)
LEMMA FrameDestruction ==
  Destruction
  /\ UNCHANGED <<request, client, aborted, buffer, instance, task, cancelled, bufferState, delegate>>
  => Destruction'
BY DEF Destruction, Exhausted

(* BufferHoldsRest,                                                        *)
LEMMA FrameBufferHoldsRest ==
  BufferHoldsRest /\ UNCHANGED <<instance, buffer, stream>> => BufferHoldsRest'
BY Zenon DEF BufferHoldsRest

(* Tokens,                                                                 *)
LEMMA FrameTokens ==
  Tokens /\ UNCHANGED <<client, stream, buffer, request, instance>> => Tokens'
BY Zenon DEF Tokens

(* EndOfStream,                                                            *)
LEMMA FrameEndOfStream ==
  EndOfStream
  /\ UNCHANGED <<writing, completion, outputDone, instance, task, delegate, buffer, bufferState, dropped>>
  => EndOfStream'
BY DEF EndOfStream

(* ResultsFromStream,                                                      *)
LEMMA FrameResultsFromStream ==
  ResultsFromStream /\ UNCHANGED <<request, stream>> => ResultsFromStream'
BY DEF ResultsFromStream, FromStream

(* CompleteResults,                                                        *)
LEMMA FrameCompleteResults ==
  CompleteResults /\ UNCHANGED <<request, client, stream, completion, outputDone, dropped, cancelled>>
  => CompleteResults'
BY DEF CompleteResults, AtEnd, Callback

(* TokenCounts,                                                            *)
LEMMA FrameTokenCounts ==
  TokenCounts /\ UNCHANGED <<received, stream, exchange, request, client>> => TokenCounts'
BY Zenon DEF TokenCounts, Accepting

(* and CompletionIsReal.                                                   *)
LEMMA FrameCompletionIsReal ==
  CompletionIsReal
  /\ UNCHANGED <<exchange, client, completion, outputDone, dropped, received, stream, cancelled>>
  => CompletionIsReal'
BY DEF CompletionIsReal, ConsumerStatus, EndReached

(* A step that the client does not take part in: it leaves the client's    *)
(* callbacks alone, and the requests the client waits for are still there. *)
Unaffected(s) ==
  LET x == request[s]
      y == request'[s]
  IN  /\ y.live = x.live
      /\ x.live => y.kind = x.kind /\ y.phase \notin CallbackPhase \cup {"free"}
      /\ Callback(s) \/ Callback(s)' => y = x

(* A step of the server that leaves every request unaffected for the       *)
(* client keeps OneRequest,                                                *)
LEMMA UnaffectedOneRequest ==
  ASSUME OneRequest, UNCHANGED client, \A s \in Request : Unaffected(s)
  PROVE  OneRequest'
BY DEF OneRequest, Callback, Unaffected

(* TokenCounts,                                                            *)
LEMMA UnaffectedTokenCounts ==
  ASSUME TokenCounts, UNCHANGED <<received, stream, client, exchange>>,
         \A s \in Request : Unaffected(s)
  PROVE  TokenCounts'
<1>1. \A s \in Request : request[s].phase = "adding" \/ request'[s].phase = "adding" =>
                           request'[s] = request[s]
  BY Zenon DEF Unaffected, Callback, CallbackPhase
<1>2. Accepting' = Accepting
  BY Zenon DEF Accepting
<1>3. ASSUME Accepting', NEW s \in Request, request'[s].phase = "adding"
      PROVE  /\ client'.token = Len(received') + Len(request'[s].result.pages)
             /\ \A i \in 1..Len(request'[s].result.pages) :
                  request'[s].result.pages[i] = stream'[Len(received') + i]
  <2>1. Accepting /\ request[s].phase = "adding" /\ request'[s] = request[s]
    BY <1>1, <1>2, <1>3
  <2> QED
    BY Zenon, <2>1 DEF TokenCounts
<1>4. Accepting' /\ (\A s \in Request : request'[s].phase # "adding") =>
        client'.token = Len(received')
  BY Zenon, <1>1, <1>2 DEF TokenCounts
<1> QED
  BY Zenon, <1>3, <1>4 DEF TokenCounts

(* The answers a step adds must be from the stream.                        *)
AnswersFromStream(s) ==
  request'[s].kind = "get" /\ request'[s].phase = "reply" =>
    request'[s] = request[s] \/ FromStream(request'[s].result)

(* ResultsFromStream, if its answers are from the stream,                  *)
LEMMA UnaffectedResultsFromStream ==
  ASSUME ResultsFromStream, UNCHANGED stream,
         \A s \in Request : Unaffected(s),
         \A s \in Request : AnswersFromStream(s)
  PROVE  ResultsFromStream'
BY DEF ResultsFromStream, AnswersFromStream, FromStream, Unaffected, Callback, CallbackPhase

(* The complete answers a step adds must be true.                          *)
AnswersTruly(s) ==
  /\ request'[s].kind = "get" /\ request'[s].phase = "reply"
  /\ request'[s].live /\ request'[s].result.complete
  => \/ request'[s] = request[s]
     \/ \A id : id = request'[s].result.taskInstanceId => AtEnd(id)'

EndStays == \A id : AtEnd(id) => AtEnd(id)'

(* and CompleteResults, if its answers are true to the end of the stream.  *)
LEMMA UnaffectedCompleteResults ==
  ASSUME CompleteResults, UNCHANGED client, EndStays,
         \A s \in Request : Unaffected(s),
         \A s \in Request : AnswersTruly(s)
  PROVE  CompleteResults'
<1>1. ASSUME NEW s \in Request, NEW id, id = request'[s].result.taskInstanceId,
             request'[s].kind = "get", request'[s].result.complete,
             (request'[s].phase = "reply" /\ request'[s].live) \/ Callback(s)'
      PROVE  AtEnd(id)'
  <2>1. CASE request'[s] = request[s]
    BY Zenon, <1>1, <2>1 DEF CompleteResults, Callback, EndStays
  <2>2. CASE request'[s] # request[s]
    BY Zenon, <1>1, <2>2 DEF Unaffected, AnswersTruly, Callback
  <2> QED
    BY Zenon, <2>1, <2>2
<1>2. ASSUME NEW s \in Request, request'[s].phase \in {"adding", "added"}
      PROVE  client'.taskInstanceId = request'[s].result.taskInstanceId
  BY Zenon, <1>2 DEF CompleteResults, Unaffected, Callback, CallbackPhase
<1> QED
  BY Zenon, <1>1, <1>2 DEF CompleteResults, Callback, AtEnd

-----------------------------------------------------------------------------
(* The requests after the pending read is taken or aborted.                *)

(* The fields of a request when the pending read is taken.                 *)
LEMMA PendingTakenFields ==
  ASSUME TypeOK, NEW s \in Request
  PROVE  LET x == PendingTaken(request)[s]
         IN  /\ x.kind = request[s].kind
             /\ x.phase = IF s = buffer.pendingRead THEN "taken" ELSE request[s].phase
             /\ x.live = request[s].live
             /\ x.token = request[s].token
             /\ x.result = request[s].result
<1>1. request[s] \in RequestType
  BY Zenon DEF TypeOK
<1>2. PendingTaken(request)[s] =
        IF s = buffer.pendingRead THEN [request[s] EXCEPT !.phase = "taken"] ELSE request[s]
  BY Zenon DEF PendingTaken, TypeOK
<1> QED
  BY <1>1, <1>2, RequestFields DEF Is

(* The fields of a request when the pending read is aborted.               *)
LEMMA PendingAbortedFields ==
  ASSUME TypeOK, NEW s \in Request
  PROVE  LET x == PendingAborted(request)[s]
         IN  /\ x.kind = request[s].kind
             /\ x.phase = IF s = buffer.pendingRead THEN "reply" ELSE request[s].phase
             /\ x.live = request[s].live
             /\ x.token = request[s].token
             /\ x.result = IF s = buffer.pendingRead
                           THEN EmptyResults(instance, request[s].token, FALSE)
                           ELSE request[s].result
<1>1. request[s] \in RequestType
  BY Zenon DEF TypeOK
<1>2. PendingAborted(request)[s] =
        IF s = buffer.pendingRead THEN NotComplete(request[s]) ELSE request[s]
  BY Zenon DEF PendingAborted, TypeOK
<1>3. CASE s = buffer.pendingRead
  <2>1. PendingAborted(request)[s] = NotComplete(request[s])
    BY Zenon, <1>2, <1>3
  <2>2. Is(NotComplete(request[s]), request[s].kind, "reply", request[s].live,
           request[s].token, EmptyResults(instance, request[s].token, FALSE))
    BY ZenonT(60), <1>1, RequestFields
  <2> QED
    BY Zenon, <1>3, <2>1, <2>2 DEF Is
<1>4. CASE s # buffer.pendingRead
  BY Zenon, <1>2, <1>4
<1> QED
  BY Zenon, <1>3, <1>4

(* A pending read aborted with an empty, incomplete answer.                *)
LEMMA AbortedRequests ==
  ASSUME Inv, NEW s \in Request
  PROVE  LET x == PendingAborted(request)[s]
         IN  /\ x.kind = request[s].kind
             /\ x.live = request[s].live
             /\ x.token = request[s].token
             /\ \/ s # buffer.pendingRead /\ x = request[s]
                \/ /\ s = buffer.pendingRead
                   /\ request[s].phase = "waiting"
                   /\ x.kind = "get" /\ x.phase = "reply"
                   /\ x.result = EmptyResults(instance, request[s].token, FALSE)
<1>1. TypeOK
  BY Zenon DEF Inv
<1>2. CASE s # buffer.pendingRead
  BY Zenon, <1>2 DEF PendingAborted, Inv, TypeOK
<1>3. CASE s = buffer.pendingRead
  <2>1. request[s].phase = "waiting" /\ request[s].kind = "get"
    BY Zenon, <1>3 DEF Inv, Phases, ServerPhase
  <2> QED
    BY ZenonT(60), <1>1, <1>3, <2>1, PendingAbortedFields
<1> QED
  BY Zenon, <1>2, <1>3

(* An empty answer is from the stream.                                     *)
LEMMA EmptyFromStream ==
  ASSUME NEW id, NEW t \in Nat, NEW c
  PROVE  /\ EmptyResults(id, t, c).complete = c
         /\ EmptyResults(id, t, c).taskInstanceId = id
         /\ FromStream(EmptyResults(id, t, c))
BY SequenceEmpty DEF EmptyResults, FromStream

(* A request that gets no answer in the step, or the same, is answered     *)
(* truly.                                                                  *)
LEMMA SameAnswer ==
  ASSUME NEW s \in Request, request'[s].phase # "reply" \/ request'[s] = request[s]
  PROVE  AnswersFromStream(s) /\ AnswersTruly(s)
BY Zenon DEF AnswersFromStream, AnswersTruly

(* So is one that is answered without pages.                               *)
LEMMA EmptyAnswer ==
  ASSUME NEW s \in Request, NEW id, NEW t \in Nat, NEW c,
         request'[s].result = EmptyResults(id, t, c), c => AtEnd(id)'
  PROVE  AnswersFromStream(s) /\ AnswersTruly(s)
<1>1. /\ request'[s].result.complete = c
      /\ request'[s].result.taskInstanceId = id
      /\ FromStream(request'[s].result)
  BY EmptyFromStream
<1> QED
  BY Zenon, <1>1 DEF AnswersFromStream, AnswersTruly

(* A request that does not change is unaffected.                           *)
LEMMA SameUnaffected ==
  ASSUME OneRequest, NEW s \in Request, request'[s] = request[s]
  PROVE  Unaffected(s)
BY Zenon DEF Unaffected, OneRequest, Callback

(* What the steps of the client do to request s: nothing, forget it, stop  *)
(* waiting for it, or send it.                                             *)
Kept(s) ==
  \/ request'[s] = request[s]
  \/ request'[s] = Free /\ request[s].phase \notin ServerPhase \cup {"adding"}
  \/ Is(request'[s], request[s].kind, request[s].phase, FALSE, request[s].token,
        request[s].result)
  \/ /\ request[s].phase = "free"
     /\ request'[s].phase = "sent"
     /\ request'[s].kind \in {"get", "delete"}
     /\ request'[s].token <= client.token
     /\ request'[s].kind = "delete" => client'.completed \/ client'.closed

(* The steps of the client that do not take pages.                         *)
KeptClient ==
  /\ client'.token = client.token
  /\ client'.taskInstanceId = client.taskInstanceId
  /\ client.completed => client'.completed
  /\ client.closed => client'.closed
  /\ UNCHANGED <<instance, task, delegate, aborted, lazyReads, bufferState, buffer, writing,
                 received, stream, dropped, completion, outputDone, cancelled>>
  /\ exchange.closed => exchange'.closed
  /\ exchange.failed => exchange'.failed
  /\ exchange.removed => exchange'.removed
  /\ \A s \in Request : Kept(s)

(* What a step of KeptClient leaves of each request: those at the server   *)
(* or in a callback stay as they are.                                      *)
LEMMA KeptFields ==
  ASSUME Inv, KeptClient, NEW s \in Request
  PROVE  /\ request'[s].phase \in {request[s].phase, "free", "sent"}
         /\ request'[s].phase \in ServerPhase \cup {"error", "reply"} \cup CallbackPhase =>
              /\ request'[s].phase = request[s].phase
              /\ request'[s].kind = request[s].kind
              /\ request'[s].token = request[s].token
              /\ request'[s].result = request[s].result
              /\ request'[s].live => request[s].live
         /\ request[s].phase \in ServerPhase \cup {"adding"} => request'[s].phase = request[s].phase
         /\ request'[s].token <= client.token
         /\ request'[s].kind = "ack" => request'[s].phase = "sent"
         /\ request'[s].kind = "delete" =>
              /\ request'[s].phase \in {"sent", "reply", "lost"}
              /\ client'.completed \/ client'.closed
<1>1. /\ Kept(s)
      /\ client.token \in Nat
      /\ request[s].token <= client.token
      /\ request[s].kind = "ack" => request[s].phase = "sent"
      /\ request[s].kind = "delete" =>
           /\ request[s].phase \in {"sent", "reply", "lost"}
           /\ client'.completed \/ client'.closed
  BY Zenon DEF KeptClient, Inv, TypeOK, ClientType, Tokens, Phases, Destruction
<1>2. CASE request'[s] = request[s]
  BY Zenon, <1>1, <1>2
<1>3. CASE request'[s] = Free /\ request[s].phase \notin ServerPhase \cup {"adding"}
  BY <1>1, <1>3, FreeFields DEF Is, ServerPhase, CallbackPhase
<1>4. CASE Is(request'[s], request[s].kind, request[s].phase, FALSE, request[s].token,
              request[s].result)
  BY Zenon, <1>1, <1>4 DEF Is
<1>5. CASE /\ request[s].phase = "free"
           /\ request'[s].phase = "sent"
           /\ request'[s].kind \in {"get", "delete"}
           /\ request'[s].token <= client.token
           /\ request'[s].kind = "delete" => client'.completed \/ client'.closed
  BY Zenon, <1>5 DEF ServerPhase, CallbackPhase
<1> QED
  BY Zenon, <1>1, <1>2, <1>3, <1>4, <1>5 DEF Kept

(* A step of KeptClient keeps every conjunct of the invariant but the      *)
(* last.                                                                   *)
LEMMA KeptStep ==
  ASSUME Inv, KeptClient
  PROVE  /\ Phases' /\ Destruction' /\ BufferHoldsRest' /\ Tokens' /\ EndOfStream'
         /\ ResultsFromStream' /\ CompleteResults' /\ TokenCounts'
<1>1. /\ client'.token = client.token
      /\ client'.taskInstanceId = client.taskInstanceId
      /\ client.completed => client'.completed
      /\ client.closed => client'.closed
      /\ UNCHANGED <<instance, task, delegate, aborted, lazyReads, bufferState, buffer, writing,
                     received, stream, dropped, completion, outputDone, cancelled>>
      /\ Accepting' => Accepting
  BY Zenon DEF KeptClient, Accepting
<1>2. \A s \in Request :
         /\ request'[s].phase \in {request[s].phase, "free", "sent"}
         /\ request'[s].phase \in ServerPhase \cup {"error", "reply"} \cup CallbackPhase =>
              /\ request'[s].phase = request[s].phase
              /\ request'[s].kind = request[s].kind
              /\ request'[s].token = request[s].token
              /\ request'[s].result = request[s].result
              /\ request'[s].live => request[s].live
         /\ request[s].phase \in ServerPhase \cup {"adding"} => request'[s].phase = request[s].phase
         /\ request'[s].token <= client.token
         /\ request'[s].kind = "ack" => request'[s].phase = "sent"
         /\ request'[s].kind = "delete" =>
              /\ request'[s].phase \in {"sent", "reply", "lost"}
              /\ client'.completed \/ client'.closed
  BY Zenon, KeptFields
<1>3. Phases'
  BY <1>1, <1>2 DEF Inv, Phases, ServerPhase
<1>4. Destruction'
  BY Zenon, <1>1, <1>2 DEF Inv, Destruction, Exhausted
<1>5. BufferHoldsRest' /\ EndOfStream'
  BY Zenon, <1>1, FrameBufferHoldsRest, FrameEndOfStream DEF Inv
<1>6. Tokens'
  <2>1. \A s \in Request : buffer'.pendingRead = s =>
           buffer.pendingRead = s /\ request'[s].phase = "waiting"
    BY Zenon, <1>1, <1>3 DEF Phases
  <2> QED
    BY <1>1, <1>2, <2>1 DEF Inv, Tokens, ServerPhase
<1>7. ResultsFromStream'
  <2>1. ASSUME NEW s \in Request, request'[s].kind = "get", request'[s].phase \in {"reply", "received"}
        PROVE  request'[s].result = request[s].result /\ FromStream(request[s].result)
    BY Zenon, <1>2, <2>1 DEF CallbackPhase, Inv, ResultsFromStream
  <2> QED
    BY SMTT(30), <1>1, <2>1 DEF ResultsFromStream, FromStream
<1>8. CompleteResults'
  <2>1. \A id : AtEnd(id) => AtEnd(id)'
    BY Zenon, <1>1 DEF AtEnd
  <2>2. ASSUME NEW s \in Request, request'[s].kind = "get", request'[s].result.complete,
               (request'[s].phase = "reply" /\ request'[s].live) \/ Callback(s)',
               NEW id, id = request'[s].result.taskInstanceId
        PROVE  AtEnd(id)
    BY <1>2, <2>2 DEF Callback, CallbackPhase, Inv, CompleteResults
  <2>3. ASSUME NEW s \in Request, request'[s].phase \in {"adding", "added"}
        PROVE  client'.taskInstanceId = request'[s].result.taskInstanceId
    BY SMTT(30), <1>1, <1>2, <2>3 DEF CallbackPhase, Inv, CompleteResults
  <2> QED
    BY <2>1, <2>2, <2>3 DEF CompleteResults
<1>9. TokenCounts'
  <2>1. \A s \in Request : /\ (request'[s].phase = "adding") <=> (request[s].phase = "adding")
                           /\ request'[s].phase = "adding" => request'[s].result = request[s].result
    BY Zenon, <1>2 DEF CallbackPhase
  <2>2. ASSUME Accepting', NEW s \in Request, request'[s].phase = "adding"
        PROVE  /\ client'.token = Len(received') + Len(request'[s].result.pages)
               /\ \A i \in 1..Len(request'[s].result.pages) :
                    request'[s].result.pages[i] = stream'[Len(received') + i]
    <3>1. Accepting /\ request[s].phase = "adding" /\ request'[s].result = request[s].result
      BY Zenon, <1>1, <2>1, <2>2
    <3> QED
      BY <1>1, <3>1 DEF Inv, TokenCounts
  <2>3. Accepting' /\ (\A s \in Request : request'[s].phase # "adding") =>
          client'.token = Len(received')
    BY Zenon, <1>1, <2>1 DEF Inv, TokenCounts
  <2> QED
    BY <1>1, <2>2, <2>3 DEF Inv, TokenCounts
<1> QED
  BY SMTT(30), <1>3, <1>4, <1>5, <1>6, <1>7, <1>8, <1>9

(* And the last one, CompletionIsReal, if the client does not complete.    *)
LEMMA KeptCompletion ==
  ASSUME Inv, KeptClient, client'.completed => client.completed
  PROVE  CompletionIsReal'
<1>1. /\ UNCHANGED <<received, stream, dropped, completion, outputDone, cancelled>>
      /\ client'.taskInstanceId = client.taskInstanceId
      /\ exchange.closed => exchange'.closed
      /\ exchange.failed => exchange'.failed
      /\ exchange.removed => exchange'.removed
  BY Zenon DEF KeptClient
<1>2. ConsumerStatus' = "finished" => ConsumerStatus = "finished"
  BY Zenon, <1>1 DEF ConsumerStatus
<1> QED
  BY Zenon, <1>1, <1>2 DEF Inv, CompletionIsReal, EndReached

(* A failed client may fail the exchange; it undoes nothing.               *)
LEMMA ExchangeFails ==
  ASSUME Inv, ClientFailed
  PROVE  /\ exchange.closed => exchange'.closed
         /\ exchange.failed => exchange'.failed
         /\ exchange.removed => exchange'.removed
BY Zenon DEF Inv, TypeOK, ClientFailed
=============================================================================

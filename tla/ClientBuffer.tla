---------------------------- MODULE ClientBuffer ----------------------------
(***************************************************************************)
(* execution/buffer/ClientBuffer.java: the pages one downstream client has *)
(* still to fetch from one task.  A page is identified by its position in  *)
(* the buffer's history; currentSequenceId is the position of the first    *)
(* page still held.  Every operation below is the body of one synchronized *)
(* block of the class, as a function from buffer state to buffer state; an *)
(* output buffer composes them into actions.                               *)
(***************************************************************************)
EXTENDS Integers, Sequences, FiniteSetsExt

CONSTANTS
  Page,       \* pages
  Bytes,      \* Bytes[p]: SerializedPage.getRetainedSizeInBytes
  Request,    \* identities of the reads that can be outstanding
  NoRead,     \* pendingRead = null
  DoneRead    \* pendingRead refers to a read whose future is already done

ASSUME PageAssumption == Bytes \in [Page -> Nat]
ASSUME ReadAssumption == /\ NoRead \notin Request
                         /\ DoneRead \notin Request
                         /\ NoRead # DoneRead

BufferType ==
  [currentSequenceId: Nat,
   pages: Seq(Page),
   noMorePages: BOOLEAN,
   destroyed: BOOLEAN,
   pendingRead: Request \cup {NoRead, DoneRead}]

NewBuffer ==
  [currentSequenceId |-> 0,
   pages |-> <<>>,
   noMorePages |-> FALSE,
   destroyed |-> FALSE,
   pendingRead |-> NoRead]

-----------------------------------------------------------------------------
(* BufferResult: pages [token, nextToken) of one task instance.            *)

Results(Instance) ==
  [taskInstanceId: Instance, token: Nat, nextToken: Nat,
   complete: BOOLEAN, pages: Seq(Page)]

EmptyResults(taskInstanceId, token, complete) ==
  [taskInstanceId |-> taskInstanceId, token |-> token, nextToken |-> token,
   complete |-> complete, pages |-> <<>>]

RetainedSize(ps) ==
  FoldFunction(LAMBDA x, y : x + y, 0, [i \in DOMAIN ps |-> Bytes[ps[i]]])

(* Fault: a page larger than the limit is never sent.                      *)
ReadCountWithinLimit(ps, maxBytes) ==
  Max({0} \cup {n \in 1..Len(ps) : RetainedSize(SubSeq(ps, 1, n)) <= maxBytes})

(* How many leading pages fit in maxBytes; never fewer than one, so a page *)
(* larger than the limit still goes out.                                   *)
ReadCount(ps, maxBytes) ==
  Max({n \in 1..Len(ps) : n = 1 \/ RetainedSize(SubSeq(ps, 1, n)) <= maxBytes})

(* Fault: nextToken is the token of the last page sent.                    *)
ReadPagesTokenOfLast(b, taskInstanceId, sequenceId, maxBytes) ==
  LET n == ReadCount(b.pages, maxBytes)
  IN  [taskInstanceId |-> taskInstanceId, token |-> sequenceId,
       nextToken |-> sequenceId + n - 1, complete |-> FALSE,
       pages |-> SubSeq(b.pages, 1, n)]

ReadPages(b, taskInstanceId, sequenceId, maxBytes) ==
  LET n == ReadCount(b.pages, maxBytes)
  IN  [taskInstanceId |-> taskInstanceId, token |-> sequenceId,
       nextToken |-> sequenceId + n, complete |-> FALSE,
       pages |-> SubSeq(b.pages, 1, n)]

Exhausted(b) == b.pages = <<>> /\ b.noMorePages

(* processRead(sequenceId, maxSize) when its verify() holds.  With no page *)
(* to send it answers an empty, incomplete result.                         *)
ProcessRead(b, taskInstanceId, sequenceId, maxBytes) ==
  IF sequenceId < b.currentSequenceId
  THEN EmptyResults(taskInstanceId, sequenceId, FALSE)
  ELSE IF Exhausted(b)
  THEN EmptyResults(taskInstanceId, b.currentSequenceId, TRUE)
  ELSE IF b.pages = <<>>
  THEN EmptyResults(taskInstanceId, sequenceId, FALSE)
  ELSE ReadPages(b, taskInstanceId, sequenceId, maxBytes)

(* verify(sequenceId == currentSequenceId) of processRead fails.           *)
ReadFails(b, sequenceId) ==
  sequenceId > b.currentSequenceId /\ ~Exhausted(b)

-----------------------------------------------------------------------------
(* The synchronized blocks.                                                *)

AddPages(b, ps) == [b EXCEPT !.pages = @ \o ps]

(* enqueuePages after its noMorePages test; the pending read is taken out  *)
(* here and processed after the lock is released.                          *)
EnqueuePages(b, ps) == [AddPages(b, ps) EXCEPT !.pendingRead = NoRead]

SetNoMorePages(b) == [b EXCEPT !.noMorePages = TRUE, !.pendingRead = NoRead]

Destroy(b) ==
  [b EXCEPT !.pages = <<>>, !.noMorePages = TRUE, !.destroyed = TRUE,
            !.pendingRead = NoRead]

(* checkArgument(pagesToRemove <= pages.size()) of acknowledgePages fails. *)
AcknowledgeFails(b, sequenceId) ==
  ~b.destroyed /\ sequenceId > b.currentSequenceId + Len(b.pages)

(* Fault: the page asked for next is removed too.                          *)
AcknowledgeOneTooMany(b, sequenceId) ==
  IF b.destroyed \/ sequenceId < b.currentSequenceId
  THEN b
  ELSE [b EXCEPT !.currentSequenceId = sequenceId,
                 !.pages = SubSeq(@, sequenceId - b.currentSequenceId + 2, Len(@))]

AcknowledgePages(b, sequenceId) ==
  IF b.destroyed \/ sequenceId < b.currentSequenceId
  THEN b
  ELSE [b EXCEPT !.currentSequenceId = sequenceId,
                 !.pages = SubSeq(@, sequenceId - b.currentSequenceId + 1, Len(@))]

(* The last block of getPages: answer at once, or leave a pending read.    *)
AnswersImmediately(b, sequenceId) ==
  b.pages # <<>> \/ b.noMorePages \/ sequenceId # b.currentSequenceId

AbortPendingRead(b) == [b EXCEPT !.pendingRead = NoRead]

WaitForPages(b, r) == [b EXCEPT !.pendingRead = r]

(* The future of r completes while r is still the pending read.            *)
ReadDone(b, r) ==
  IF b.pendingRead = r THEN [b EXCEPT !.pendingRead = DoneRead] ELSE b
=============================================================================

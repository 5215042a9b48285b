---------------------------- MODULE ViewsProofs ----------------------------
(***************************************************************************)
(* Proofs about the life of a query and about the pages that show it: the  *)
(* query itself (QueryLifecycle), its head, the title of every page, the   *)
(* threads of a worker, and the rates of the cluster and of a query; each  *)
(* for any number of actors, answers and steps.                            *)
(***************************************************************************)
EXTENDS QueryHeader, Sequences, Integers, WellFoundedInduction, TLAPS

(* The strengthening.  A thread that is past its cause knows that there is *)
(* one; a transaction is aborted only for a query that failed; and the     *)
(* finishing thread gets to the end only with a committed transaction or   *)
(* with a query that somebody failed.                                      *)
CauseFirst ==
  /\ \A t \in Thread : pc[t] \in {"set", "abort"} => failureCause # Null
  /\ \A t \in Thread : pc[t] = "abort" => queryState = "FAILED"

(* Where the finishing thread and the transaction stand.                   *)
FinishInv ==
  /\ transaction = "aborted" => queryState = "FAILED"
  /\ finish = "finish" => transaction = "committed" \/ queryState = "FAILED"
  /\ finish \in {"idle", "commit"} => transaction \in {"open", "aborted"}
  /\ finish = "committing" => transaction = "committing"

(* What an administrator relies on.  One who has brought no cause yet owns *)
(* none, the final information of a failed query has the code of its       *)
(* cause, and there is none before the query has ended.                    *)
AnswerInv ==
  /\ \A a \in Administrator :
       /\ pc[a] \in {"idle", "look", "check", "cause"} => failureCause # a
       /\ answer[a] # "none" => pc[a] = "over"
       /\ answer[a] = "CONFLICT" => failureCause # a \/ queryState = "FINISHED"
  /\ finalQueryInfo # Null =>
       /\ isDone(queryState)
       /\ queryState = "FAILED" => finalQueryInfo = Code(failureCause)

(* The inductive invariant: the checked invariants, with where the commit  *)
(* and each administrator's request stand.                                 *)
IInv ==
  /\ TypeOK /\ FailedHasCause /\ FinishedMeansCommitted /\ ConflictMeansOther
  /\ CauseFirst /\ FinishInv /\ AnswerInv

(* The code of a cause is a code.                                          *)
LEMMA CodeType == ASSUME NEW t PROVE Code(t) \in Codes
BY DEF Code, Codes

(* Administrators and the callback of the commit are different threads.    *)
LEMMA Threads ==
  /\ Administrator \subseteq Thread
  /\ Commit \in Thread /\ Commit \notin Administrator
  /\ Null \notin Thread
BY ThreadAssumption DEF Thread

(* The inductive invariant holds of a new query.                           *)
LEMMA InitInv == Init => IInv
BY Threads DEF Init, IInv, TypeOK, FailedHasCause, FinishedMeansCommitted,
     ConflictMeansOther, CauseFirst, FinishInv, AnswerInv, QueryState, isDone

(* Every step of Next keeps the types.                                     *)
LEMMA StepTypes == ASSUME TypeOK, [Next]_vars PROVE TypeOK'
<1> USE Threads DEF TypeOK
<1>1. CASE Finishing
  BY <1>1, CodeType DEF Finishing, transitionToRunning, transitionToFinishing, asyncCommit,
     CommitSucceeds, CommitFails, transitionToFinished, updateQueryInfo, QueryState, Codes
<1>2. CASE \E t \in Thread : Begin(t) \/ Failing(t)
  <2> PICK t \in Thread : Begin(t) \/ Failing(t)
    BY <1>2
  <2>1. After(t) \in {"verify", "over"} /\ BeginAt(t) \in {"look", "cause", "check"}
    BY DEF After, BeginAt
  <2> QED
    BY <2>1 DEF Begin, Failing, CheckState, SetCause, SetFailed, asyncAbort, QueryState
<1>3. CASE \E a \in Administrator : Asking(a)
  BY <1>3 DEF Asking, LookAtQuery, Verify, Answer
<1>4. CASE UNCHANGED vars
  BY <1>4 DEF vars
<1> QED
  BY <1>1, <1>2, <1>3, <1>4 DEF Next, Over

(* The steps of the finishing thread keep the invariant.                   *)
LEMMA FinishingStep == ASSUME IInv, TypeOK', Finishing PROVE IInv'
<1> USE Threads DEF IInv, TypeOK, FailedHasCause, FinishedMeansCommitted,
     ConflictMeansOther, CauseFirst, FinishInv, AnswerInv, QueryState, isDone
<1>1. CASE transitionToRunning BY <1>1 DEF transitionToRunning
<1>2. CASE transitionToFinishing BY <1>2 DEF transitionToFinishing
<1>3. CASE asyncCommit BY <1>3 DEF asyncCommit
<1>4. CASE CommitSucceeds BY <1>4 DEF CommitSucceeds
<1>5. CASE CommitFails BY <1>5 DEF CommitFails
<1>6. CASE transitionToFinished BY <1>6 DEF transitionToFinished
<1>7. CASE updateQueryInfo BY <1>7 DEF updateQueryInfo
<1> QED BY <1>1, <1>2, <1>3, <1>4, <1>5, <1>6, <1>7 DEF Finishing

(* The steps of a thread that fails or cancels the query keep it.          *)
LEMMA FailingStep ==
  ASSUME IInv, TypeOK', NEW t \in Thread, Begin(t) \/ Failing(t) PROVE IInv'
<1> USE Threads DEF IInv, TypeOK, FailedHasCause, FinishedMeansCommitted,
     ConflictMeansOther, CauseFirst, FinishInv, AnswerInv, QueryState, isDone
<1>0. /\ After(t) \in {"verify", "over"} /\ BeginAt(t) \in {"look", "cause", "check"}
      /\ MayFail(t, queryState) => ~isDone(queryState)
  BY DEF After, BeginAt, MayFail
<1>1. CASE Begin(t) BY <1>0, <1>1 DEF Begin
<1>2. CASE CheckState(t) BY <1>0, <1>2 DEF CheckState
<1>3. CASE SetCause(t) BY <1>3 DEF SetCause
<1>4. CASE SetFailed(t) BY <1>0, <1>4 DEF SetFailed
<1>5. CASE asyncAbort(t) BY <1>0, <1>5 DEF asyncAbort
<1> QED BY <1>1, <1>2, <1>3, <1>4, <1>5 DEF Failing

(* The steps of failQuery around them keep it.                             *)
LEMMA AskingStep ==
  ASSUME IInv, TypeOK', NEW a \in Administrator, Asking(a) PROVE IInv'
<1> USE Threads DEF IInv, TypeOK, FailedHasCause, FinishedMeansCommitted,
     ConflictMeansOther, CauseFirst, FinishInv, AnswerInv, QueryState, isDone
<1>1. CASE LookAtQuery(a) BY <1>1 DEF LookAtQuery, Answer
<1>2. CASE Verify(a) BY <1>2 DEF Verify, Answer, ErrorCode
<1> QED BY <1>1, <1>2 DEF Asking

(* Every step of the threads that end a query keeps the invariant.         *)
LEMMA StepInv == ASSUME IInv, [Next]_vars PROVE IInv'
<1>1. TypeOK'
  BY StepTypes DEF IInv
<1>2. CASE UNCHANGED vars
  BY <1>2 DEF vars, IInv, TypeOK, FailedHasCause, FinishedMeansCommitted,
     ConflictMeansOther, CauseFirst, FinishInv, AnswerInv, Code
<1> QED
  BY <1>1, <1>2, FinishingStep, FailingStep, AskingStep DEF Next, Over

(* The inductive invariant always holds.                                   *)
LEMMA Invariance == Spec => []IInv
BY InitInv, StepInv, PTL DEF Spec

(* The state machine's fields keep their types.                            *)
THEOREM TypeCorrect == Spec => []TypeOK
BY Invariance, PTL DEF IInv

(* A query that failed has a cause (transitionToFailed).                   *)
THEOREM Causes == Spec => []FailedHasCause
BY Invariance, PTL DEF IInv

(* A finished query is committed (transitionToFinishing).                  *)
THEOREM Commits == Spec => []FinishedMeansCommitted
BY Invariance, PTL DEF IInv

(* CONFLICT is never answered to whoever ended the query (failQuery).      *)
THEOREM Conflicts == Spec => []ConflictMeansOther
BY Invariance, PTL DEF IInv

(* No step changes the state of a query that has ended.                    *)
THEOREM OneEnd == Spec => EndsOnce
<1>1. ASSUME [Next]_vars PROVE [isDone(queryState) => queryState' = queryState]_vars
  BY <1>1 DEF Next, Finishing, Failing, Asking, Begin, CheckState, SetCause, SetFailed,
     asyncAbort, LookAtQuery, Verify, Over, transitionToRunning, transitionToFinishing,
     asyncCommit, CommitSucceeds, CommitFails, transitionToFinished, updateQueryInfo,
     MayFail, isDone, vars
<1> QED
  BY <1>1, PTL DEF Spec, EndsOnce

-----------------------------------------------------------------------------
(* The head of a page of a query.                                          *)

(* What the head relies on: an answer that is being put together, and the  *)
(* one that is shown, have a state that the query had; once that is an end *)
(* the query is in it, the cause shown is the one it has, and no answer    *)
(* begun earlier is still to come.                                         *)
HeadInv ==
  /\ fetched # Null => fetched \in QueryState
  /\ fetched # Null /\ isDone(fetched) => queryState = fetched
  /\ shown # Null =>
       /\ shown.state \in QueryState
       /\ isDone(shown.state) =>
            queryState = shown.state /\ (fetched # Null => fetched = shown.state)
       /\ shown.state = "FAILED" =>
            shown.errorCode = Code(failureCause) /\ shown.errorType = ErrorType(failureCause)

(* A failed query keeps its cause, and a query that has ended its state.   *)
LEMMA EndIsKept ==
  ASSUME IInv, [Next]_vars
  PROVE  /\ isDone(queryState) => queryState' = queryState
         /\ failureCause # Null => failureCause' = failureCause
BY Zenon DEF Next, Finishing, Failing, Asking, Begin, CheckState, SetCause, SetFailed,
     asyncAbort, LookAtQuery, Verify, Over, transitionToRunning, transitionToFinishing,
     asyncCommit, CommitSucceeds, CommitFails, transitionToFinished, updateQueryInfo,
     MayFail, isDone, vars

(* Whatever happens around a page is a step of the query or none.          *)
LEMMA HeaderStep == ASSUME [HeaderNext]_allVars PROVE [Next]_vars
<1>1. ASSUME NEW a \in Administrator, Click(a) PROVE Next
  BY Zenon, <1>1, Threads DEF Click, Next
<1>2. CASE Server
  BY Zenon, <1>2 DEF Server, Next
<1>3. CASE Refresh \/ Schedule \/ AddDriver \/ CompleteDriver \/ BlockOrUnblock \/ Promote
  BY Zenon, <1>3 DEF Refresh, FetchState, FetchRest, Schedule, AddDriver, CompleteDriver,
     BlockOrUnblock, Promote
<1>4. CASE UNCHANGED allVars
  BY Zenon, <1>4 DEF allVars
<1> QED
  BY Zenon, <1>1, <1>2, <1>3, <1>4 DEF HeaderNext

(* Each of these steps keeps what the head relies on.                      *)
LEMMA HeadStep ==
  ASSUME IInv, HeadInv, [HeaderNext]_allVars
  PROVE  HeadInv'
<1>1. /\ isDone(queryState) => queryState' = queryState
      /\ failureCause # Null => failureCause' = failureCause
      /\ queryState \in QueryState
      /\ queryState = "FAILED" => failureCause # Null
  BY Zenon, EndIsKept, HeaderStep DEF IInv, TypeOK, FailedHasCause
<1>2. CASE FetchState
  BY Zenon, <1>1, <1>2 DEF FetchState, HeadInv, isDone, vars, Code, ErrorType
<1>3. CASE FetchRest
  <2>1. /\ shown'.state = fetched
        /\ shown'.errorType = ErrorType(CauseOf(fetched))
        /\ shown'.errorCode = Code(CauseOf(fetched))
        /\ fetched # Null /\ fetched' = Null
        /\ queryState' = queryState /\ failureCause' = failureCause
    BY Zenon, <1>3 DEF FetchRest, vars
  <2> QED
    BY Zenon, <1>1, <2>1 DEF HeadInv, isDone, CauseOf, Code, ErrorType
<1>4. CASE UNCHANGED <<fetched, shown>>
  <2>1. ASSUME failureCause # Null
        PROVE  /\ Code(failureCause)' = Code(failureCause)
               /\ ErrorType(failureCause)' = ErrorType(failureCause)
    BY Zenon, <1>1, <2>1 DEF Code, ErrorType
  <2> QED
    BY Zenon, <1>1, <1>4, <2>1 DEF HeadInv, isDone
<1> QED
  BY Zenon, <1>2, <1>3, <1>4 DEF HeaderNext, allVars, headerVars, Server, Refresh, Schedule,
     AddDriver, CompleteDriver, BlockOrUnblock, Promote, Click

(* The invariant always holds, of the query and of its page.               *)
LEMMA HeadInvariance == HeaderSpec => [](IInv /\ HeadInv)
<1>1. HeaderInit => IInv /\ HeadInv
  BY Zenon, InitInv DEF HeaderInit, HeadInv
<1>2. IInv /\ HeadInv /\ [HeaderNext]_allVars => (IInv /\ HeadInv)'
  BY Zenon, HeaderStep, StepInv, HeadStep
<1> QED
  BY <1>1, <1>2, PTL DEF HeaderSpec

(* The error types of the causes of a failure.                             *)
CauseTypes == {"USER_ERROR", "INSUFFICIENT_RESOURCES", "EXTERNAL", "INTERNAL_ERROR"}

(* A cause has one of the types the head has words for.                    *)
LEMMA ErrorTypeOfCause == ASSUME NEW c \in Thread PROVE ErrorType(c) \in CauseTypes
BY Zenon, Threads DEF ErrorType, CauseTypes

(* The words getHumanReadableState has for a failed query.                 *)
FailureWords == {"USER CANCELED", "USER ERROR", "INTERNAL ERROR", "INSUFFICIENT RESOURCES",
                 "EXTERNAL ERROR"}

(* The title of a failed query says how it failed.                         *)
LEMMA FailureHasWords ==
  ASSUME NEW c \in Thread, NEW q, q.state = "FAILED", q.errorType = ErrorType(c)
  PROVE  \E word \in FailureWords : getHumanReadableState(q) = {word}
BY Zenon, ErrorTypeOfCause DEF getHumanReadableState, FailureWords, CauseTypes

(* The title and the colour of a query that has ended depend on nothing    *)
(* but its state and its error.                                            *)
LEMMA EndHasOneHead ==
  ASSUME NEW p, NEW q, p.state = q.state, q.state \in {"FINISHED", "FAILED"},
         q.state = "FAILED" => /\ p.errorType = q.errorType /\ p.errorCode = q.errorCode
                               /\ q.errorType \in CauseTypes
  PROVE  /\ getHumanReadableState(p) = getHumanReadableState(q)
         /\ getQueryStateColor(p) = getQueryStateColor(q)
<1>1. CASE q.state = "FINISHED"
  BY Zenon, <1>1 DEF getHumanReadableState, getQueryStateColor
<1>2. CASE q.state = "FAILED"
  <2>1. p.errorType = q.errorType /\ p.errorCode = q.errorCode /\ q.errorType \in CauseTypes
    BY Zenon, <1>2
  <2>2. getHumanReadableState(p) = getHumanReadableState(q)
    BY Zenon, <1>2, <2>1 DEF getHumanReadableState, CauseTypes
  <2>3. getQueryStateColor(p) = getQueryStateColor(q)
    BY <1>2, <2>1, Zenon DEF getQueryStateColor
  <2> QED
    BY Zenon, <2>2, <2>3
<1> QED
  BY Zenon, <1>1, <1>2

(* The head tells the truth about the query, whatever the query, its       *)
(* administrators, its drivers and the refreshes of the page do meanwhile: *)
(* a failure is named by the words of its cause, a title that says BLOCKED *)
(* has the colour of blocked queries, and a part-filled bar has a          *)
(* percentage (getHumanReadableState, getQueryStateColor,                  *)
(* getProgressBarPercentage).                                              *)
THEOREM QueryHeads == HeaderSpec => []HeadsTellTruth
<1>1. ASSUME IInv, HeadInv PROVE HeadsTellTruth
  <2>1. ASSUME shown # Null, shown.state = "FAILED"
        PROVE  /\ shown.errorCode = Code(failureCause)
               /\ shown.errorType = ErrorType(failureCause)
               /\ \E word \in FailureWords : getHumanReadableState(shown) = {word}
    <3>1. /\ shown.errorCode = Code(failureCause)
          /\ shown.errorType = ErrorType(failureCause)
          /\ queryState = "FAILED"
      BY Zenon, <1>1, <2>1 DEF HeadInv, isDone
    <3>2. failureCause \in Thread
      BY Zenon, <1>1, <3>1 DEF IInv, TypeOK, FailedHasCause
    <3> QED
      BY Zenon, <2>1, <3>1, <3>2, FailureHasWords
  <2>2. FailureNamed
    BY Zenon, <2>1 DEF FailureNamed, Header, FailureWords
  <2>3. TitleAndColorAgree
    <3>1. SUFFICES ASSUME shown # Null, "BLOCKED" \in getHumanReadableState(shown)
                   PROVE  getQueryStateColor(shown) = "BLOCKED"
      BY Zenon DEF TitleAndColorAgree, Header
    <3>2. shown.state # "FAILED"
      <4>1. ASSUME NEW word \in FailureWords PROVE "BLOCKED" \notin {word}
        BY Zenon DEF FailureWords
      <4> QED
        BY <2>1, <3>1, <4>1, Zenon
    <3>3. shown.state = "RUNNING" /\ shown.stats.fullyBlocked
      BY Zenon, <1>1, <3>1, <3>2 DEF HeadInv, getHumanReadableState, QueryState
    <3> QED
      BY Zenon, <3>3 DEF getQueryStateColor
  <2>4. BarAndTitleAgree
    <3>1. ~TitleHasPercentage(shown) => getProgressBarPercentage(shown) = 100
      BY Zenon DEF getProgressBarPercentage, TitleHasPercentage
    <3>2. ~(100 < 100)
      OBVIOUS
    <3> QED
      BY Zenon, <3>1, <3>2 DEF BarAndTitleAgree, Header
  <2> QED
    BY Zenon, <2>2, <2>3, <2>4 DEF HeadsTellTruth
<1> QED
  BY <1>1, HeadInvariance, PTL

(* Once the head shows an end it shows the same one for ever, and it is the*)
(* end the query has: no late answer takes it back (refreshLoop).          *)
THEOREM EndStays == HeaderSpec => EndShownStays
<1> DEFINE Stays == shown # Null /\ isQueryEnded(shown) =>
              /\ Header(shown').title = Header(shown).title
              /\ Header(shown').color = Header(shown).color
              /\ shown'.state = queryState
<1>1. ASSUME IInv, HeadInv, [HeaderNext]_allVars PROVE [Stays]_allVars
  <2>1. SUFFICES ASSUME shown # Null, isQueryEnded(shown)
                 PROVE  /\ getHumanReadableState(shown') = getHumanReadableState(shown)
                        /\ getQueryStateColor(shown') = getQueryStateColor(shown)
                        /\ shown'.state = queryState
    BY Zenon DEF Header
  <2>2. /\ shown.state \in {"FINISHED", "FAILED"} /\ queryState = shown.state
        /\ fetched # Null => fetched = shown.state
        /\ shown.state = "FAILED" =>
            shown.errorCode = Code(failureCause) /\ shown.errorType = ErrorType(failureCause)
    BY Zenon, <1>1, <2>1 DEF HeadInv, isDone, isQueryEnded, QueryState
  <2>3. CASE FetchRest
    <3>1. /\ shown'.state = shown.state
          /\ shown.state = "FAILED" =>
               /\ shown'.errorCode = shown.errorCode /\ shown'.errorType = shown.errorType
               /\ failureCause \in Thread
      BY Zenon, <1>1, <2>2, <2>3 DEF FetchRest, CauseOf, IInv, TypeOK, FailedHasCause
    <3> QED
      BY Zenon, <2>2, <3>1, EndHasOneHead, ErrorTypeOfCause
  <2>4. CASE shown' = shown
    BY Zenon, <2>2, <2>4 DEF getHumanReadableState, getQueryStateColor
  <2> QED
    BY Zenon, <1>1, <2>3, <2>4 DEF HeaderNext, allVars, headerVars, Server, Refresh, FetchState,
       Schedule, AddDriver, CompleteDriver, BlockOrUnblock, Promote, Click
<1> QED
  BY <1>1, HeadInvariance, PTL DEF HeaderSpec, EndShownStays

-----------------------------------------------------------------------------
(* The title.                                                              *)

CONSTANT Patience

VARIABLES
  requests, timers, timeoutId,
  noConnection, lightShown, info, modalShown, quiet, dialog, closed, lastFailed

Title == INSTANCE PageTitle

(* What the title relies on: the light and the dialog follow the last      *)
(* request that was handled.                                               *)
TitleInv ==
  /\ lastFailed \in BOOLEAN /\ noConnection = lastFailed /\ modalShown = lastFailed
  /\ dialog \in BOOLEAN /\ info \in BOOLEAN
  /\ Title!HeadsTellTruth

(* Each step of the title keeps it.                                        *)
LEMMA TitleStep == ASSUME TitleInv, [Title!Next]_(Title!vars) PROVE TitleInv'
<1> USE DEF TitleInv, Title!HeadsTellTruth, Title!StatusLight
<1>1. CASE Title!Network
  BY <1>1 DEF Title!Network, Title!pageVars
<1>2. CASE Title!CloseDialog
  BY Zenon, <1>2 DEF Title!CloseDialog, Title!pageVars
<1>3. ASSUME NEW r \in requests, Title!HandleInfo(r) PROVE TitleInv'
  BY Zenon, <1>3 DEF Title!HandleInfo
<1>4. ASSUME NEW r \in requests, Title!HandleError(r) PROVE TitleInv'
  BY Zenon, <1>4 DEF Title!HandleError, Title!error
<1>5. ASSUME NEW i \in timers, Title!refreshLoop(i) PROVE TitleInv'
  BY Zenon, <1>5 DEF Title!refreshLoop
<1>6. CASE UNCHANGED Title!vars
  BY Zenon, <1>6 DEF Title!vars, Title!pageVars
<1> QED
  BY Zenon, <1>1, <1>2, <1>3, <1>4, <1>5, <1>6 DEF Title!Next

(* The light and the dialog of every page tell whether the server answered *)
(* the last request, in any order of answers, failures and clicks          *)
(* (PageTitle.jsx, refreshLoop and renderStatusLight).                     *)
THEOREM TitleHeads == Title!Spec => []Title!HeadsTellTruth
<1>1. Title!Init => TitleInv
  BY Zenon DEF Title!Init, TitleInv, Title!HeadsTellTruth, Title!StatusLight
<1> QED
  BY <1>1, TitleStep, PTL DEF Title!Spec, TitleInv

-----------------------------------------------------------------------------
(* The threads of a worker.                                                *)

CONSTANTS Group, QueryGroup, ThreadState, MaxVersion, MaxRequests

VARIABLES
  initialized, mounted, worker, threads, selectedGroup, selectedThreadState, newest, overlap

Dump == INSTANCE WorkerThreadList

(* The threads of a worker at some moment.                                 *)
Snapshot == [version : Nat, threads : SUBSET Dump!Thread]

(* The types of what the page of threads and its requests have.            *)
SnapshotInv ==
  /\ worker \in Snapshot /\ newest \in Nat /\ newest <= worker.version
  /\ overlap \in BOOLEAN /\ mounted \in BOOLEAN
  /\ \A r \in requests :
       /\ {"phase", "answer"} \subseteq DOMAIN r
       /\ r.phase = "answered" => r.answer \in Snapshot

(* What is shown, or is still to come, is not older than what was shown.   *)
ForwardInv ==
  /\ \A r \in requests : r.phase = "answered" => r.answer.version <= worker.version
  /\ ~overlap =>
       /\ \A r, s \in requests : r = s
       /\ \A r \in requests : r.phase = "answered" => newest <= r.answer.version
       /\ mounted /\ threads # Null => threads.version = newest

(* The lists are those of a snapshot, and the group selected is one of     *)
(* them while the page is up.                                              *)
PageInv ==
  /\ threads = Null \/ \E a \in Snapshot : threads = Dump!processThreads(a)
  /\ selectedGroup \in Group \cup {Dump!ALL_THREADS, Dump!QUERY_THREADS}
  /\ mounted /\ threads # Null => selectedGroup \in DOMAIN threads.groups
  /\ ~mounted => threads # Null /\ selectedGroup \notin DOMAIN threads.groups

(* The inductive invariant of the page of threads.                         *)
DumpInv == SnapshotInv /\ ForwardInv /\ PageInv

(* The lists of a snapshot include that of all threads and that of the     *)
(* threads of queries.                                                     *)
LEMMA ListsOfSnapshot ==
  ASSUME NEW a \in Snapshot
  PROVE  LET p == Dump!processThreads(a)
         IN  /\ p.version = a.version
             /\ DOMAIN p.groups = {t.group : t \in a.threads}
                                    \cup {Dump!ALL_THREADS, Dump!QUERY_THREADS}
             /\ \A g \in DOMAIN p.groups :
                  p.groups[g] = CASE g = Dump!ALL_THREADS -> a.threads
                                  [] g = Dump!QUERY_THREADS ->
                                       {t \in a.threads : t.group \in QueryGroup}
                                  [] OTHER -> {t \in a.threads : t.group = g}
BY Zenon DEF Dump!processThreads

(* setState with new lists, or with the lists that are shown, keeps the    *)
(* page or takes it down for want of the group selected.                   *)
LEMMA SetStateStep ==
  ASSUME SnapshotInv, PageInv, NEW snapshot, NEW init, NEW g, NEW state,
         snapshot = Null \/ \E a \in Snapshot : snapshot = Dump!processThreads(a),
         g \in Group \cup {Dump!ALL_THREADS, Dump!QUERY_THREADS},
         Dump!SetState(snapshot, init, g, state)
  PROVE  /\ PageInv' /\ mounted' \in BOOLEAN
         /\ mounted' => mounted /\ threads' = snapshot
<1>1. mounted \in BOOLEAN
  BY Zenon DEF SnapshotInv
<1>2. CASE mounted
  <2>1. /\ threads' = snapshot /\ selectedGroup' = g
        /\ mounted' = (threads' # Null => selectedGroup' \in DOMAIN threads'.groups)
    BY Zenon, <1>2 DEF Dump!SetState, Dump!Renders
  <2> QED
    BY Zenon, <1>2, <2>1 DEF PageInv
<1>3. CASE ~mounted
  BY <1>1, <1>3 DEF Dump!SetState, Dump!pageVars, PageInv
<1> QED
  BY Zenon, <1>1, <1>2, <1>3

(* An action keeps what is known of the snapshots if it touches neither    *)
(* the worker nor an answer.                                               *)
LEMMA DumpStep ==
  ASSUME DumpInv, [Dump!Next]_(Dump!vars)
  PROVE  DumpInv'
<1> USE DEF DumpInv
<1>1. CASE Dump!ThreadsChange
  <2>1. /\ worker' \in Snapshot /\ worker.version <= worker'.version
        /\ UNCHANGED <<requests, threads, selectedGroup, mounted, newest, overlap>>
    BY <1>1 DEF Dump!ThreadsChange, Dump!pageVars, Dump!ThreadSets, Snapshot, SnapshotInv
  <2>2. SnapshotInv'
    BY <2>1 DEF SnapshotInv, Snapshot
  <2>3. ForwardInv'
    BY <2>1, <2>2 DEF ForwardInv, SnapshotInv, Snapshot
  <2> QED
    BY Zenon, <2>1, <2>2, <2>3 DEF PageInv
<1>2. ASSUME NEW r \in requests, NEW s,
             requests' = (requests \ {r}) \cup {s},
             s.phase = "answered" => s.answer = worker,
             UNCHANGED <<worker, Dump!pageVars, newest, overlap>>,
             {"phase", "answer"} \subseteq DOMAIN s
      PROVE  DumpInv'
  <2>1. SnapshotInv'
    BY Zenon, <1>2 DEF SnapshotInv, Dump!pageVars
  <2>2. ForwardInv'
    BY <1>2 DEF SnapshotInv, ForwardInv, Dump!pageVars, Snapshot
  <2> QED
    BY Zenon, <1>2, <2>1, <2>2 DEF PageInv, Dump!pageVars
<1>3. CASE Dump!Answers
  <2>1. PICK r \in requests :
          /\ requests' = (requests \ {r}) \cup
                           {[r EXCEPT !.phase = "answered", !.answer = worker]}
          /\ UNCHANGED <<worker, Dump!pageVars, newest, overlap>>
    BY Zenon, <1>3 DEF Dump!Answers
  <2> DEFINE s == [r EXCEPT !.phase = "answered", !.answer = worker]
  <2>2. s.phase = "answered" /\ s.answer = worker /\ {"phase", "answer"} \subseteq DOMAIN s
    BY Zenon DEF SnapshotInv
  <2> HIDE DEF s
  <2>3. requests' = (requests \ {r}) \cup {s}
    BY Zenon, <2>1 DEF s
  <2> QED
    BY Zenon, <1>2, <2>1, <2>2, <2>3
<1>4. CASE Dump!Failures
  <2>1. PICK r \in requests :
          /\ requests' = (requests \ {r}) \cup
                           {[r EXCEPT !.phase = "failed", !.answer = Null]}
          /\ UNCHANGED <<worker, Dump!pageVars, newest, overlap>>
    BY Zenon, <1>4 DEF Dump!Failures
  <2> DEFINE s == [r EXCEPT !.phase = "failed", !.answer = Null]
  <2>2. s.phase = "failed" /\ s.answer = Null /\ {"phase", "answer"} \subseteq DOMAIN s
    BY Zenon DEF SnapshotInv
  <2> HIDE DEF s
  <2>3. requests' = (requests \ {r}) \cup {s}
    BY Zenon, <2>1 DEF s
  <2> QED
    BY Zenon, <1>2, <2>1, <2>2, <2>3
<1>5. ASSUME NEW r \in requests, Dump!HandleThreads(r) PROVE DumpInv'
  <2>1. r.answer \in Snapshot /\ requests' \subseteq requests /\ UNCHANGED <<worker, overlap>>
    BY Zenon, <1>5 DEF Dump!HandleThreads, SnapshotInv
  <2>2. /\ PageInv' /\ mounted' \in BOOLEAN
        /\ mounted' => mounted /\ threads' = Dump!processThreads(r.answer)
    BY Zenon, <1>5, <2>1, SetStateStep DEF Dump!HandleThreads, PageInv
  <2>3. /\ r.answer.version \in Nat /\ newest \in Nat /\ r.answer.version <= worker.version
        /\ newest' = IF r.answer.version > newest THEN r.answer.version ELSE newest
    BY Zenon, <1>5, <2>1 DEF Dump!HandleThreads, SnapshotInv, ForwardInv, Snapshot
  <2>4. SnapshotInv'
    BY Zenon, <2>1, <2>2, <2>3 DEF SnapshotInv, Snapshot
  <2>5. ASSUME ~overlap PROVE requests' = {} /\ (mounted' => threads'.version = newest')
    <3>1. requests' = {} /\ newest <= r.answer.version
      BY Zenon, <1>5, <2>5 DEF Dump!HandleThreads, ForwardInv
    <3> QED
      BY <2>1, <2>2, <2>3, <3>1, ListsOfSnapshot
  <2>6. ForwardInv'
    BY Zenon, <2>1, <2>5 DEF ForwardInv
  <2> QED
    BY Zenon, <2>2, <2>4, <2>6
<1>6. ASSUME UNCHANGED <<worker, newest>>, requests' \subseteq requests, overlap' = overlap,
             PageInv', mounted' \in BOOLEAN, mounted' => mounted /\ threads' = threads
      PROVE  DumpInv'
  BY Zenon, <1>6 DEF SnapshotInv, ForwardInv
<1>7. ASSUME NEW r \in requests, Dump!HandleError(r) PROVE DumpInv'
  <2>1. /\ PageInv' /\ mounted' \in BOOLEAN
        /\ mounted' => mounted /\ threads' = threads
    BY Zenon, <1>7, SetStateStep DEF Dump!HandleError, PageInv
  <2> QED
    BY Zenon, <1>6, <1>7, <2>1 DEF Dump!HandleError
<1>8. CASE Dump!handleNewSnapshotClick
  <2>1. /\ PageInv' /\ mounted' \in BOOLEAN
        /\ mounted' => mounted /\ threads' = threads
    BY Zenon, <1>8, SetStateStep DEF Dump!handleNewSnapshotClick, PageInv
  <2>2. PICK s : /\ requests' = requests \cup {s} /\ s.phase = "sent"
                 /\ {"phase", "answer"} \subseteq DOMAIN s
                 /\ overlap' = (overlap \/ requests # {})
                 /\ UNCHANGED <<worker, newest>>
    BY Zenon, <1>8 DEF Dump!handleNewSnapshotClick, Dump!captureSnapshot
  <2>3. SnapshotInv'
    BY Zenon, <2>1, <2>2 DEF SnapshotInv
  <2>4. ForwardInv'
    BY Zenon, <2>1, <2>2 DEF ForwardInv, SnapshotInv
  <2> QED
    BY Zenon, <2>1, <2>3, <2>4
<1>9. ASSUME NEW g \in Group \cup {Dump!ALL_THREADS, Dump!QUERY_THREADS},
             Dump!handleGroupClick(g)
      PROVE  DumpInv'
  <2>1. /\ PageInv' /\ mounted' \in BOOLEAN
        /\ mounted' => mounted /\ threads' = threads
    BY Zenon, <1>9, SetStateStep DEF Dump!handleGroupClick, PageInv
  <2> QED
    BY Zenon, <1>6, <1>9, <2>1 DEF Dump!handleGroupClick
<1>10. ASSUME NEW state, Dump!handleThreadStateClick(state) PROVE DumpInv'
  <2>1. /\ PageInv' /\ mounted' \in BOOLEAN
        /\ mounted' => mounted /\ threads' = threads
    BY Zenon, <1>10, SetStateStep DEF Dump!handleThreadStateClick, PageInv
  <2> QED
    BY Zenon, <1>6, <1>10, <2>1 DEF Dump!handleThreadStateClick
<1>11. CASE UNCHANGED Dump!vars
  BY Zenon, <1>11 DEF Dump!vars, Dump!pageVars, SnapshotInv, ForwardInv, PageInv
<1> QED
  BY Zenon, <1>1, <1>3, <1>4, <1>5, <1>7, <1>8, <1>9, <1>10, <1>11
     DEF Dump!Next, Dump!Handlers, Dump!User

(* What the page shows follows from the invariant.                         *)
LEMMA DumpShown ==
  ASSUME DumpInv, Dump!GroupNames
  PROVE  Dump!SnapshotsShown
<1>1. Dump!SnapshotsGoForward
  BY Zenon DEF DumpInv, ForwardInv, Dump!SnapshotsGoForward
<1>2. Dump!GroupsPartitionThreads
  <2>1. SUFFICES ASSUME NEW a \in Snapshot, threads = Dump!processThreads(a)
                 PROVE  LET own == DOMAIN threads.groups \cap Group
                        IN  /\ \A t \in threads.groups[Dump!ALL_THREADS] :
                                 \E g \in own : \A h \in own :
                                    t \in threads.groups[h] <=> h = g
                            /\ threads.groups[Dump!QUERY_THREADS]
                                 \subseteq UNION {threads.groups[g] : g \in own}
    BY Zenon DEF DumpInv, PageInv, Dump!GroupsPartitionThreads
  <2> DEFINE own == DOMAIN threads.groups \cap Group
  <2>2. /\ Dump!ALL_THREADS \notin Group /\ Dump!QUERY_THREADS \notin Group
        /\ Dump!ALL_THREADS # Dump!QUERY_THREADS
    BY Zenon DEF Dump!GroupNames, Dump!ALL_THREADS, Dump!QUERY_THREADS
  <2>3. \A t \in a.threads : t.group \in Group
    BY Zenon DEF Snapshot, Dump!Thread
  <2>4. own = {t.group : t \in a.threads}
    BY <2>1, <2>2, <2>3, ListsOfSnapshot
  <2>5. /\ threads.groups[Dump!ALL_THREADS] = a.threads
        /\ threads.groups[Dump!QUERY_THREADS] \subseteq a.threads
        /\ \A g \in own : threads.groups[g] = {t \in a.threads : t.group = g}
    BY Zenon, <2>1, <2>2, <2>4, ListsOfSnapshot
  <2> HIDE DEF own
  <2>6. \A t \in a.threads : t.group \in own /\ t \in threads.groups[t.group]
    BY Zenon, <2>4, <2>5
  <2>7. threads.groups[Dump!QUERY_THREADS] \subseteq UNION {threads.groups[g] : g \in own}
    BY <2>5, <2>6, Zenon
  <2>8. \A t \in threads.groups[Dump!ALL_THREADS] :
          \E g \in own : \A h \in own : t \in threads.groups[h] <=> h = g
    BY <2>5, <2>6
  <2> QED
    BY Zenon, <2>7, <2>8 DEF own
<1>3. Dump!DownOnlyWithoutGroup
  <2>1. Dump!Display = "nothing" => ~mounted
    BY Zenon DEF Dump!Display
  <2>2. ~mounted => {Dump!ALL_THREADS, Dump!QUERY_THREADS} \subseteq DOMAIN threads.groups
    BY Zenon, ListsOfSnapshot DEF DumpInv, PageInv
  <2> QED
    BY Zenon, <2>1, <2>2 DEF DumpInv, PageInv, Dump!DownOnlyWithoutGroup
<1> QED
  BY Zenon, <1>1, <1>2, <1>3 DEF Dump!SnapshotsShown

(* What the page of threads shows is one snapshot of the worker: its lists *)
(* partition the threads, a user who waits for each answer never goes back *)
(* to an older snapshot, and the page goes down only when the group        *)
(* selected has no thread any more (WorkerThreadList.jsx, processThreads   *)
(* and render).                                                            *)
THEOREM SnapshotsOfThreads ==
  ASSUME Dump!GroupNames
  PROVE  Dump!Spec => []Dump!SnapshotsShown
<1>1. ASSUME Dump!Init PROVE DumpInv
  <2>1. worker \in Snapshot /\ worker.version = 0
    BY <1>1 DEF Dump!Init, Snapshot, Dump!ThreadSets
  <2>2. requests = {} /\ threads = Null /\ mounted = TRUE /\ newest = 0 /\ overlap = FALSE
    BY Zenon, <1>1 DEF Dump!Init
  <2>4. newest \in Nat /\ newest <= worker.version
    BY <2>1, <2>2
  <2>5. SnapshotInv
    BY Zenon, <2>1, <2>2, <2>4 DEF SnapshotInv
  <2>6. ForwardInv
    BY Zenon, <2>2 DEF ForwardInv
  <2>3. PageInv
    BY Zenon, <1>1 DEF Dump!Init, PageInv
  <2> QED
    BY Zenon, <2>3, <2>5, <2>6 DEF DumpInv
<1> QED
  BY <1>1, DumpStep, DumpShown, PTL DEF Dump!Spec

-----------------------------------------------------------------------------
(* The rates of the cluster.                                               *)

CONSTANTS MAX_HISTORY, MaxTotal, Workers, Seconds, MaxRestarts

VARIABLES
  total, activeWorkers, restarts, lastTotal, inputRate, perWorkerCpuTimeRate,
  fresh, earlyRestart, noWorkers

HUD == INSTANCE ClusterHUD

(* The values of a chart.                                                  *)
ChartValue == [kind : {"number", "NaN", "Infinity", "-Infinity"}, n : Int]

(* What the page knows of the coordinator.                                 *)
TotalsInv ==
  /\ total \in Nat /\ activeWorkers \in Nat
  /\ \A r \in requests :
       /\ {"phase", "total", "workers"} \subseteq DOMAIN r
       /\ r.phase = "answered" => r.total \in Nat /\ r.workers \in Nat
  /\ lastTotal \in Nat \cup {-1}
  /\ fresh \in BOOLEAN /\ earlyRestart \in BOOLEAN /\ noWorkers \in BOOLEAN

(* The charts: the input rate is always a number, and one is only missing  *)
(* before the second answer.                                               *)
ChartsInv ==
  /\ inputRate \in Seq(ChartValue) /\ perWorkerCpuTimeRate \in Seq(ChartValue)
  /\ \A i \in 1..Len(inputRate) :
       inputRate[i].kind = "number" /\ (~earlyRestart => inputRate[i].n >= 0)
  /\ inputRate = <<>> => fresh
  /\ \A i \in 1..Len(perWorkerCpuTimeRate) :
       perWorkerCpuTimeRate[i].kind # "number" => noWorkers
  /\ \A i \in 2..Len(perWorkerCpuTimeRate) :
       perWorkerCpuTimeRate[i - 1].kind # "number" /\ perWorkerCpuTimeRate[i].kind = "number"
         => perWorkerCpuTimeRate[i].n = 0

(* The inductive invariant of the charts of the cluster.                   *)
HUDInv == TotalsInv /\ ChartsInv

(* The value that is added to a history.                                   *)
AverageAdded(value, history) ==
  IF history = <<>> THEN value
  ELSE IF HUD!LessThanOne(value) THEN HUD!Number(0)
  ELSE HUD!Weighted(value, history[Len(history)])

(* What is added is a value: of two numbers a number, and negative only if *)
(* it is the first; after no number it is none, unless it is zero.         *)
LEMMA AverageIsValue ==
  ASSUME NEW value \in ChartValue, NEW history \in Seq(ChartValue)
  PROVE  LET added == AverageAdded(value, history)
             n     == Len(history)
         IN  /\ added \in ChartValue
             /\ history # <<>> /\ value.kind = "number" /\ history[n].kind = "number"
                  => /\ added.kind = "number"
                     /\ history[n].n >= 0 => added.n >= 0
             /\ history # <<>> /\ history[n].kind # "number" /\ added.kind = "number"
                  => added.n = 0
             /\ history # <<>> /\ added.kind # "number"
                  => value.kind # "number" \/ history[n].kind # "number"
<1> DEFINE last == history[Len(history)]
<1>1. CASE history = <<>>
  BY Zenon, <1>1 DEF AverageAdded
<1>2. CASE history # <<>> /\ HUD!LessThanOne(value)
  BY <1>2 DEF AverageAdded, HUD!Number, ChartValue
<1>3. CASE history # <<>> /\ ~HUD!LessThanOne(value)
  <2>1. last \in ChartValue
    BY <1>3
  <2>2. AverageAdded(value, history) = HUD!Weighted(value, last)
    BY Zenon, <1>3 DEF AverageAdded
  <2> HIDE DEF last
  <2>3. CASE value.kind = "number" /\ last.kind = "number"
    <3>1. HUD!Weighted(value, last) = HUD!Number((value.n + 4 * last.n) \div 5)
      BY Zenon, <2>3 DEF HUD!Weighted
    <3>2. /\ value.n \in Int /\ last.n \in Int /\ value.n >= 1
      BY <1>3, <2>1, <2>3 DEF ChartValue, HUD!LessThanOne
    <3>3. (value.n + 4 * last.n) \div 5 \in Int
          /\ (last.n >= 0 => (value.n + 4 * last.n) \div 5 >= 0)
      BY <3>2
    <3> QED
      BY <2>2, <2>3, <3>1, <3>3 DEF HUD!Number, ChartValue, last
  <2>4. CASE ~(value.kind = "number" /\ last.kind = "number")
    <3>1. HUD!Weighted(value, last) \in ChartValue
          /\ HUD!Weighted(value, last).kind # "number"
      BY <2>1, <2>4 DEF HUD!Weighted, HUD!Special, ChartValue
    <3> QED
      BY Zenon, <2>2, <2>4, <3>1 DEF last
  <2> QED
    BY Zenon, <2>3, <2>4
<1> QED
  BY Zenon, <1>1, <1>2, <1>3

(* A longer history is the old one with the value added, less what left    *)
(* the window.                                                             *)
LEMMA HistoryIsWindow ==
  ASSUME MAX_HISTORY \in Nat, NEW value \in ChartValue, NEW history \in Seq(ChartValue)
  PROVE  LET added == AverageAdded(value, history)
             new   == HUD!addExponentiallyWeightedToHistory(value, history)
         IN  /\ new \in Seq(ChartValue)
             /\ \E k \in 0..Len(history) :
                  /\ Len(new) = Len(history) + 1 - k
                  /\ \A i \in 1..Len(new) :
                       new[i] = IF i = Len(new) THEN added ELSE history[i + k]
<1> DEFINE added == AverageAdded(value, history)
           new   == HUD!addExponentiallyWeightedToHistory(value, history)
           n     == Len(history)
<1>1. added \in ChartValue /\ n \in Nat
  BY AverageIsValue
<1>2. CASE history = <<>>
  <2>1. new = <<added>>
    BY Zenon, <1>2 DEF HUD!addExponentiallyWeightedToHistory, AverageAdded
  <2> HIDE DEF added, new
  <2>2. Len(new) = 1 /\ new[1] = added /\ new \in Seq(ChartValue) /\ n = 0
    BY <1>1, <1>2, <2>1
  <2>3. 0 \in 0..n /\ Len(new) = n + 1 - 0
    BY <2>2
  <2> QED
    BY <2>2, <2>3 DEF added, new
<1>3. CASE history # <<>>
  <2> DEFINE longer == Append(history, added)
             k == IF n > MAX_HISTORY THEN n - MAX_HISTORY ELSE 0
  <2>1. /\ longer \in Seq(ChartValue) /\ Len(longer) = n + 1
        /\ \A i \in 1..(n + 1) : longer[i] = IF i = n + 1 THEN added ELSE history[i]
    BY <1>1
  <2>2. new = HUD!Window(longer)
    BY Zenon, <1>3 DEF HUD!addExponentiallyWeightedToHistory, AverageAdded
  <2>3. n > 0
    BY <1>3
  <2> HIDE DEF added, new, longer, n
  <2>4. k \in 0..n /\ new = SubSeq(longer, k + 1, n + 1)
    BY <1>1, <2>1, <2>2, <2>3 DEF HUD!Window
  <2> HIDE DEF k
  <2>5. /\ new \in Seq(ChartValue) /\ Len(new) = n + 1 - k
        /\ \A i \in 1..Len(new) : new[i] = longer[i + k]
    BY <1>1, <2>1, <2>4
  <2>6. ASSUME NEW i \in 1..Len(new)
        PROVE  new[i] = IF i = Len(new) THEN added ELSE history[i + k]
    <3>1. i + k \in 1..(n + 1) /\ (i = Len(new) <=> i + k = n + 1)
      BY <1>1, <2>4, <2>5
    <3> QED
      BY Zenon, <2>1, <2>5, <3>1
  <2> QED
    BY Zenon, <2>4, <2>5, <2>6 DEF added, new, n
<1> QED
  BY Zenon, <1>2, <1>3

(* An answer keeps the charts.                                             *)
LEMMA ClusterStep ==
  ASSUME HUD!HUDConstants, HUDInv, NEW r \in requests, NEW secs \in Seconds,
         HUD!HandleCluster(r, secs)
  PROVE  HUDInv'
<1> DEFINE diff == r.total - lastTotal
<1>1. /\ r.total \in Nat /\ r.workers \in Nat /\ lastTotal \in Nat \cup {-1} /\ diff \in Int
      /\ requests' \subseteq requests /\ lastTotal' = r.total
      /\ UNCHANGED <<total, activeWorkers>>
  BY DEF HUD!HandleCluster, HUD!serverVars, HUDInv, TotalsInv
<1>2. /\ fresh' = (lastTotal = -1)
      /\ earlyRestart' = (earlyRestart \/ (~(lastTotal = -1) /\ fresh /\ diff < 0))
      /\ noWorkers' = (noWorkers \/ (~(lastTotal = -1) /\ r.workers = 0))
  BY Zenon DEF HUD!HandleCluster
<1>3. TotalsInv'
  <2>1. fresh' \in BOOLEAN /\ earlyRestart' \in BOOLEAN /\ noWorkers' \in BOOLEAN
    BY <1>2, Zenon
  <2> QED
    BY Zenon, <1>1, <2>1 DEF HUDInv, TotalsInv
<1>4. CASE lastTotal = -1
  <2>1. inputRate' = <<>> /\ perWorkerCpuTimeRate' = <<>> /\ fresh'
    BY Zenon, <1>2, <1>4 DEF HUD!HandleCluster
  <2>2. ChartsInv'
    BY <2>1 DEF ChartsInv
  <2> QED
    BY Zenon, <1>3, <2>2 DEF HUDInv
<1>5. CASE lastTotal # -1
  <2> DEFINE rate  == HUD!PerSecond(HUD!Number(diff), secs)
             whole == HUD!Quotient(diff, r.workers)
             share == HUD!PerSecond(whole, secs)
  <2>1. /\ inputRate' = HUD!addExponentiallyWeightedToHistory(rate, inputRate)
        /\ perWorkerCpuTimeRate'
             = HUD!addExponentiallyWeightedToHistory(share, perWorkerCpuTimeRate)
    BY Zenon, <1>5 DEF HUD!HandleCluster
  <2>2. rate \in ChartValue /\ rate.kind = "number" /\ (rate.n < 0 => diff < 0)
    <3>1. secs \in Nat \ {0}
      BY Zenon DEF HUD!HUDConstants
    <3>2. diff \div secs \in Int /\ (diff \div secs < 0 => diff < 0)
      <4> HIDE DEF diff
      <4> QED
        BY <1>1, <3>1
    <3>3. rate = HUD!Number(diff \div secs)
      BY Zenon DEF HUD!PerSecond, HUD!Number
    <3> HIDE DEF diff, rate
    <3> QED
      BY <3>2, <3>3 DEF HUD!Number, ChartValue
  <2>3. share \in ChartValue /\ (share.kind # "number" => r.workers = 0)
    <3>1. whole \in ChartValue /\ (whole.kind # "number" => r.workers = 0)
      <4>1. CASE r.workers = 0
        BY <1>1, <4>1 DEF HUD!Quotient, HUD!Special, ChartValue
      <4>2. CASE r.workers # 0
        <5>1. diff \div r.workers \in Int
          BY <1>1, <4>2
        <5>2. whole = HUD!Number(diff \div r.workers)
          BY Zenon, <4>2 DEF HUD!Quotient
        <5> QED
          BY <5>1, <5>2 DEF HUD!Number, ChartValue
      <4> QED
        BY Zenon, <4>1, <4>2
    <3> HIDE DEF whole
    <3>2. CASE whole.kind = "number"
      <4>1. whole.n \div secs \in Int
        BY <3>1 DEF ChartValue, HUD!HUDConstants
      <4>2. share = HUD!Number(whole.n \div secs)
        BY Zenon, <3>2 DEF HUD!PerSecond
      <4> QED
        BY <4>1, <4>2 DEF HUD!Number, ChartValue
    <3>3. CASE whole.kind # "number"
      BY Zenon, <3>1, <3>3 DEF HUD!PerSecond
    <3> QED
      BY Zenon, <3>2, <3>3
  <2> HIDE DEF rate, whole, share
  <2> DEFINE a == AverageAdded(rate, inputRate)
             b == AverageAdded(share, perWorkerCpuTimeRate)
  <2>4. inputRate \in Seq(ChartValue) /\ perWorkerCpuTimeRate \in Seq(ChartValue)
    BY Zenon DEF HUDInv, ChartsInv
  <2>16. MAX_HISTORY \in Nat
    BY Zenon DEF HUD!HUDConstants
  <2>5. PICK k \in 0..Len(inputRate) :
          /\ Len(inputRate') = Len(inputRate) + 1 - k
          /\ \A i \in 1..Len(inputRate') :
               inputRate'[i] = IF i = Len(inputRate') THEN a ELSE inputRate[i + k]
    BY Zenon, <2>1, <2>2, <2>4, <2>16, HistoryIsWindow
  <2>6. PICK m \in 0..Len(perWorkerCpuTimeRate) :
          /\ Len(perWorkerCpuTimeRate') = Len(perWorkerCpuTimeRate) + 1 - m
          /\ \A i \in 1..Len(perWorkerCpuTimeRate') :
               perWorkerCpuTimeRate'[i] = IF i = Len(perWorkerCpuTimeRate') THEN b
                                          ELSE perWorkerCpuTimeRate[i + m]
    BY Zenon, <2>1, <2>3, <2>4, <2>16, HistoryIsWindow
  <2>7. inputRate' \in Seq(ChartValue) /\ perWorkerCpuTimeRate' \in Seq(ChartValue)
    BY Zenon, <2>1, <2>2, <2>3, <2>4, <2>16, HistoryIsWindow
  <2> DEFINE x == Len(inputRate)
             y == Len(perWorkerCpuTimeRate)
  <2>15. /\ x \in Nat /\ x' \in Nat /\ x' = x + 1 - k /\ k \in 0..x
         /\ y \in Nat /\ y' \in Nat /\ y' = y + 1 - m /\ m \in 0..y
    BY <2>4, <2>5, <2>6, <2>7
  <2>8. a.kind = "number" /\ (~earlyRestart' => a.n >= 0)
    <3>1. CASE inputRate = <<>>
      <4>1. fresh /\ a = rate
        BY Zenon, <3>1 DEF HUDInv, ChartsInv, AverageAdded
      <4>2. ~earlyRestart' => ~(diff < 0)
        BY Zenon, <1>2, <1>5, <4>1
      <4>3. rate.n \in Int
        BY Zenon, <2>2 DEF ChartValue
      <4> QED
        BY <2>2, <4>1, <4>2, <4>3
    <3>2. CASE inputRate # <<>>
      <4>1. Len(inputRate) \in 1..Len(inputRate)
        BY <2>4, <3>2
      <4>2. ~earlyRestart' => ~earlyRestart
        BY Zenon, <1>2
      <4>3. inputRate[Len(inputRate)].kind = "number"
            /\ (~earlyRestart => inputRate[Len(inputRate)].n >= 0)
        BY Zenon, <4>1 DEF HUDInv, ChartsInv
      <4> QED
        BY Zenon, <2>2, <2>4, <3>2, <4>2, <4>3, AverageIsValue
    <3> QED
      BY Zenon, <3>1, <3>2
  <2>9. \A i \in 1..Len(inputRate') :
          inputRate'[i].kind = "number" /\ (~earlyRestart' => inputRate'[i].n >= 0)
    <3> SUFFICES ASSUME NEW i \in 1..Len(inputRate')
                 PROVE  inputRate'[i].kind = "number" /\ (~earlyRestart' => inputRate'[i].n >= 0)
      BY Zenon
    <3>1. CASE i = Len(inputRate')
      BY Zenon, <2>5, <2>8, <3>1
    <3>2. CASE i # Len(inputRate')
      <4>1. inputRate'[i] = inputRate[i + k]
        BY Zenon, <2>5, <3>2
      <4>3. i + k \in 1..x
        <5> HIDE DEF x
        <5>1. i \in 1..x' /\ i # x'
          BY Zenon, <3>2 DEF x
        <5> QED
          BY <2>15, <5>1
      <4>2. ~earlyRestart' => ~earlyRestart
        BY Zenon, <1>2
      <4> QED
        BY Zenon, <4>1, <4>2, <4>3 DEF HUDInv, ChartsInv
    <3> QED
      BY Zenon, <3>1, <3>2
  <2>10. inputRate' # <<>>
    BY <2>4, <2>5
  <2>11. b.kind # "number" => noWorkers'
    <3>1. CASE perWorkerCpuTimeRate = <<>>
      BY Zenon, <1>2, <1>5, <2>3, <3>1 DEF AverageAdded
    <3>2. CASE perWorkerCpuTimeRate # <<>>
      <4>1. Len(perWorkerCpuTimeRate) \in 1..Len(perWorkerCpuTimeRate)
        BY <2>4, <3>2
      <4>2. perWorkerCpuTimeRate[Len(perWorkerCpuTimeRate)].kind # "number" => noWorkers
        BY Zenon, <4>1 DEF HUDInv, ChartsInv
      <4>3. b.kind # "number" => share.kind # "number"
              \/ perWorkerCpuTimeRate[Len(perWorkerCpuTimeRate)].kind # "number"
        BY Zenon, <2>3, <2>4, <3>2, AverageIsValue
      <4> QED
        BY Zenon, <1>2, <1>5, <2>3, <4>2, <4>3
    <3> QED
      BY Zenon, <3>1, <3>2
  <2>12. \A i \in 1..Len(perWorkerCpuTimeRate') :
           perWorkerCpuTimeRate'[i].kind # "number" => noWorkers'
    <3> SUFFICES ASSUME NEW i \in 1..Len(perWorkerCpuTimeRate')
                 PROVE  perWorkerCpuTimeRate'[i].kind # "number" => noWorkers'
      BY Zenon
    <3>1. CASE i = Len(perWorkerCpuTimeRate')
      BY Zenon, <2>6, <2>11, <3>1
    <3>2. CASE i # Len(perWorkerCpuTimeRate')
      <4>1. perWorkerCpuTimeRate'[i] = perWorkerCpuTimeRate[i + m]
        BY Zenon, <2>6, <3>2
      <4>2. i + m \in 1..y
        <5> HIDE DEF y
        <5>1. i \in 1..y' /\ i # y'
          BY Zenon, <3>2 DEF y
        <5> QED
          BY <2>15, <5>1
      <4> QED
        BY Zenon, <1>2, <4>1, <4>2 DEF HUDInv, ChartsInv
    <3> QED
      BY Zenon, <3>1, <3>2
  <2>13. ASSUME NEW i \in 2..Len(perWorkerCpuTimeRate'),
                perWorkerCpuTimeRate'[i - 1].kind # "number",
                perWorkerCpuTimeRate'[i].kind = "number"
         PROVE  perWorkerCpuTimeRate'[i].n = 0
    <3>4. /\ i - 1 + m \in 1..y /\ i - 1 \in 1..y' /\ i - 1 # y' /\ i \in 1..y'
          /\ i # y' => i + m \in 2..y /\ (i + m) - 1 = i - 1 + m
          /\ i = y' => i - 1 + m = y /\ y # 0
      <4> HIDE DEF y
      <4>1. i \in 2..y'
        BY Zenon DEF y
      <4> QED
        BY <2>15, <4>1
    <3>1. /\ i - 1 + m \in 1..Len(perWorkerCpuTimeRate)
          /\ perWorkerCpuTimeRate'[i - 1] = perWorkerCpuTimeRate[i - 1 + m]
      BY Zenon, <2>6, <3>4
    <3>2. CASE i = Len(perWorkerCpuTimeRate')
      <4>1. i - 1 + m = Len(perWorkerCpuTimeRate) /\ perWorkerCpuTimeRate # <<>>
        BY Zenon, <3>2, <3>4
      <4>2. perWorkerCpuTimeRate'[i] = b
        BY <2>6, <3>2
      <4> QED
        BY <2>3, <2>4, <2>13, <3>1, <4>1, <4>2, AverageIsValue
    <3>3. CASE i # Len(perWorkerCpuTimeRate')
      <4>1. /\ i + m \in 2..Len(perWorkerCpuTimeRate) /\ (i + m) - 1 = i - 1 + m
            /\ perWorkerCpuTimeRate'[i] = perWorkerCpuTimeRate[i + m]
        BY Zenon, <2>6, <3>3, <3>4
      <4> QED
        BY Zenon, <2>13, <3>1, <4>1 DEF HUDInv, ChartsInv
    <3> QED
      BY Zenon, <3>2, <3>3
  <2>14. ChartsInv'
    BY Zenon, <2>7, <2>9, <2>10, <2>12, <2>13 DEF ChartsInv
  <2> QED
    BY Zenon, <1>3, <2>14 DEF HUDInv
<1> QED
  BY Zenon, <1>4, <1>5

(* Each step of the cluster, the network and the page keeps it.            *)
LEMMA HUDStep ==
  ASSUME HUD!HUDConstants, HUDInv, [HUD!Next]_(HUD!vars)
  PROVE  HUDInv'
<1>1. ASSUME UNCHANGED HUD!pageVars, TotalsInv' PROVE HUDInv'
  BY Zenon, <1>1 DEF HUDInv, ChartsInv, HUD!pageVars
<1>2. CASE HUD!Coordinator
  <2>4. total \in Nat /\ activeWorkers \in Nat /\ Workers \subseteq Nat
    BY Zenon DEF HUDInv, TotalsInv, HUD!HUDConstants
  <2>5. HUD!Work => total' \in Nat /\ activeWorkers' \in Nat
    BY <2>4 DEF HUD!Work
  <2>6. HUD!ChangeWorkers => total' \in Nat /\ activeWorkers' \in Nat
    BY Zenon, <2>4 DEF HUD!ChangeWorkers
  <2>7. HUD!Restart => total' \in Nat /\ activeWorkers' \in Nat
    BY <2>4 DEF HUD!Restart
  <2>1. total' \in Nat /\ activeWorkers' \in Nat
    BY Zenon, <1>2, <2>5, <2>6, <2>7 DEF HUD!Coordinator
  <2>2. UNCHANGED requests /\ UNCHANGED HUD!pageVars
    BY Zenon, <1>2 DEF HUD!Coordinator, HUD!pollVars
  <2>3. TotalsInv'
    BY Zenon, <2>1, <2>2 DEF HUDInv, TotalsInv, HUD!pageVars
  <2> QED
    BY Zenon, <1>1, <2>2, <2>3
<1>3. ASSUME NEW r \in requests, NEW s,
             requests' = (requests \ {r}) \cup {s},
             s.total \in Nat, s.workers \in Nat,
             {"phase", "total", "workers"} \subseteq DOMAIN s,
             UNCHANGED <<HUD!serverVars, HUD!pageVars>>
      PROVE  HUDInv'
  <2>1. TotalsInv'
    BY Zenon, <1>3 DEF HUDInv, TotalsInv, HUD!serverVars, HUD!pageVars
  <2> QED
    BY Zenon, <1>1, <1>3, <2>1
<1>4. CASE HUD!Answers
  <2>1. PICK r \in requests :
          /\ requests' = (requests \ {r}) \cup
               {[r EXCEPT !.phase = "answered", !.total = total, !.workers = activeWorkers]}
          /\ UNCHANGED <<HUD!serverVars, HUD!pageVars>>
    BY Zenon, <1>4 DEF HUD!Answers
  <2> DEFINE s == [r EXCEPT !.phase = "answered", !.total = total, !.workers = activeWorkers]
  <2>2. /\ s.total \in Nat /\ s.workers \in Nat
        /\ {"phase", "total", "workers"} \subseteq DOMAIN s
    BY Zenon DEF HUDInv, TotalsInv
  <2> HIDE DEF s
  <2>3. requests' = (requests \ {r}) \cup {s}
    BY Zenon, <2>1 DEF s
  <2> QED
    BY Zenon, <1>3, <2>1, <2>2, <2>3
<1>5. CASE HUD!Failures
  <2>1. PICK r \in requests :
          /\ requests' = (requests \ {r}) \cup
               {[r EXCEPT !.phase = "failed", !.total = 0, !.workers = 0]}
          /\ UNCHANGED <<HUD!serverVars, HUD!pageVars>>
    BY Zenon, <1>5 DEF HUD!Failures
  <2> DEFINE s == [r EXCEPT !.phase = "failed", !.total = 0, !.workers = 0]
  <2>2. /\ s.total \in Nat /\ s.workers \in Nat
        /\ {"phase", "total", "workers"} \subseteq DOMAIN s
    BY Zenon DEF HUDInv, TotalsInv
  <2> HIDE DEF s
  <2>3. requests' = (requests \ {r}) \cup {s}
    BY Zenon, <2>1 DEF s
  <2> QED
    BY Zenon, <1>3, <2>1, <2>2, <2>3
<1>6. ASSUME NEW r \in requests, HUD!HandleError(r) PROVE HUDInv'
  <2>1. requests' \subseteq requests /\ UNCHANGED <<HUD!serverVars, HUD!pageVars>>
    BY Zenon, <1>6 DEF HUD!HandleError
  <2>2. TotalsInv'
    BY Zenon, <2>1 DEF HUDInv, TotalsInv, HUD!serverVars, HUD!pageVars
  <2> QED
    BY Zenon, <1>1, <2>1, <2>2
<1>7. ASSUME NEW i, HUD!refreshLoop(i) PROVE HUDInv'
  <2>1. PICK s : /\ requests' = requests \cup {s}
                 /\ s.phase = "sent" /\ {"phase", "total", "workers"} \subseteq DOMAIN s
                 /\ UNCHANGED <<HUD!serverVars, HUD!pageVars>>
    BY Zenon, <1>7 DEF HUD!refreshLoop, HUD!SendRequest
  <2>2. TotalsInv'
    BY Zenon, <2>1 DEF HUDInv, TotalsInv, HUD!serverVars, HUD!pageVars
  <2> QED
    BY Zenon, <1>1, <2>1, <2>2
<1>8. CASE UNCHANGED HUD!vars
  <2>1. UNCHANGED <<requests, HUD!serverVars, HUD!pageVars>>
    BY Zenon, <1>8 DEF HUD!vars, HUD!pollVars
  <2>2. TotalsInv'
    BY Zenon, <2>1 DEF HUDInv, TotalsInv, HUD!serverVars, HUD!pageVars
  <2> QED
    BY Zenon, <1>1, <2>1, <2>2
<1> QED
  BY Zenon, <1>2, <1>4, <1>5, <1>6, <1>7, <1>8, ClusterStep DEF HUD!Next, HUD!Handlers

(* The charts of the cluster account for its work, for any history length  *)
(* and any number of restarts: no negative rate unless the total fell      *)
(* between the first two answers, and a rate that is no number comes from  *)
(* an answer with no workers and ends only at zero (ClusterHUD.jsx,        *)
(* addExponentiallyWeightedToHistory).                                     *)
THEOREM RatesOfCluster ==
  ASSUME HUD!HUDConstants
  PROVE  HUD!Spec => []HUD!RatesAccounted
<1>1. ASSUME HUD!Init PROVE HUDInv
  <2>1. /\ requests = {[id |-> 1, phase |-> "sent", total |-> 0, workers |-> 0]}
        /\ inputRate = <<>> /\ perWorkerCpuTimeRate = <<>> /\ fresh = TRUE
        /\ earlyRestart = FALSE /\ noWorkers = FALSE /\ lastTotal = -1
    BY Zenon, <1>1 DEF HUD!Init, HUD!PollInit
  <2>2. total \in Nat /\ activeWorkers \in Nat
    BY <1>1 DEF HUD!Init, HUD!HUDConstants
  <2>5. \A r \in requests : r.phase = "sent" /\ {"phase", "total", "workers"} \subseteq DOMAIN r
    BY <2>1
  <2>3. TotalsInv
    BY Zenon, <2>1, <2>2, <2>5 DEF TotalsInv
  <2>4. ChartsInv
    BY <2>1 DEF ChartsInv
  <2> QED
    BY Zenon, <2>3, <2>4 DEF HUDInv
<1>2. HUDInv => HUD!RatesAccounted
  BY SMTT(30) DEF HUDInv, ChartsInv, HUD!RatesAccounted, HUD!NoNegativeRates, HUD!OnlyIdleHeals,
         HUD!Values
<1> QED
  BY <1>1, <1>2, HUDStep, PTL DEF HUD!Spec

-----------------------------------------------------------------------------
(* The rates of a query.                                                   *)

CONSTANTS MaxRows, MaxElapsed

VARIABLES
  server, ended, query, stageRefresh, lastSnapshotStage, lastRowInput, rowInputRate,
  answered, elapsed, sparkline, justDrawn, outside, clockMoved, onAtEnd

Detail == INSTANCE QueryDetail

(* A set of naturals that is not empty has a least one.                    *)
LEMMA LeastNatural ==
  ASSUME NEW T, T \subseteq Nat, T # {}
  PROVE  \E x \in T : \A y \in T : x <= y
<1> DEFINE R == {ss \in Nat \X Nat : ss[1] < ss[2]}
<1>1. IsWellFoundedOn(R, Nat)
  BY Zenon, NatLessThanWellFounded DEF OpToRel
<1> HIDE DEF R
<1>2. PICK x \in T : \A y \in T : ~(<<y, x>> \in R)
  BY Zenon, <1>1, WFMin
<1>3. ASSUME NEW y \in T PROVE x <= y
  <2>1. x \in Nat /\ y \in Nat
    BY Zenon, <1>2
  <2>2. ~(y < x)
    BY Zenon, <1>2, <2>1 DEF R
  <2> QED
    BY <2>1, <2>2
<1> QED
  BY Zenon, <1>3

(* Induction over the naturals.                                            *)
LEMMA NaturalInduction ==
  ASSUME NEW S, 0 \in S, \A n \in Nat : n \in S => n + 1 \in S
  PROVE  Nat \subseteq S
<1>1. SUFFICES ASSUME Nat \ S # {} PROVE FALSE
  BY Zenon
<1>2. PICK x \in Nat \ S : \A y \in Nat \ S : x <= y
  BY Zenon, <1>1, LeastNatural
<1>3. x - 1 \in Nat /\ (x - 1) + 1 = x /\ ~(x <= x - 1)
  BY <1>2
<1>4. x - 1 \in S
  BY Zenon, <1>2, <1>3
<1> QED
  BY Zenon, <1>2, <1>3, <1>4

(* The samples of a history.                                               *)
Sample == [rows : Int, secs : Int]

(* g has the rows of the first samples of a history.                       *)
RowTable(history, n, g) ==
  g = [i \in 0..n |-> IF i = 0 THEN 0 ELSE g[i - 1] + history[i].rows]

(* There is such a table for every length.                                 *)
LEMMA RowTableExists ==
  ASSUME NEW history, NEW n \in Nat
  PROVE  \E g : RowTable(history, n, g)
<1> DEFINE N == {k \in Nat : \E g : RowTable(history, k, g)}
<1>1. 0 \in N
  <2> DEFINE g == [i \in 0..0 |-> 0]
  <2>1. \A i \in 0..0 : i = 0
    OBVIOUS
  <2>2. RowTable(history, 0, g)
    BY Zenon, <2>1 DEF RowTable
  <2> QED
    BY Zenon, <2>2
<1>2. ASSUME NEW k \in Nat, k \in N PROVE k + 1 \in N
  <2>1. PICK g : RowTable(history, k, g)
    BY Zenon, <1>2
  <2> DEFINE h == [i \in 0..(k + 1) |-> IF i \in 0..k THEN g[i]
                                        ELSE g[i - 1] + history[i].rows]
  <2>2. ASSUME NEW i \in 0..(k + 1)
        PROVE  h[i] = IF i = 0 THEN 0 ELSE h[i - 1] + history[i].rows
    <3>1. CASE i = 0
      <4>1. 0 \in 0..k /\ 0 \in 0..(k + 1)
        OBVIOUS
      <4>2. g[0] = 0
        BY Zenon, <2>1, <4>1 DEF RowTable
      <4> QED
        BY Zenon, <3>1, <4>1, <4>2
    <3>2. CASE i # 0
      <4>1. i - 1 \in 0..k /\ i - 1 \in 0..(k + 1)
        BY <3>2
      <4>2. h[i - 1] = g[i - 1]
        BY Zenon, <4>1
      <4>3. i \in 0..k => g[i] = g[i - 1] + history[i].rows
        BY Zenon, <2>1, <3>2 DEF RowTable
      <4> QED
        BY Zenon, <3>2, <4>2, <4>3
    <3> QED
      BY Zenon, <3>1, <3>2
  <2>3. RowTable(history, k + 1, h)
    BY Zenon, <2>2 DEF RowTable
  <2> QED
    BY <2>3
<1> HIDE DEF N
<1>3. Nat \subseteq N
  BY Zenon, <1>1, <1>2, NaturalInduction
<1> QED
  BY Zenon, <1>3 DEF N

(* The rows of a history are a number, none of an empty one.               *)
LEMMA RowsType ==
  ASSUME NEW history \in Seq(Sample)
  PROVE  Detail!Rows(history) \in Int /\ (history = <<>> => Detail!Rows(history) = 0)
<1> DEFINE n == Len(history)
           h == CHOOSE h : h = [i \in 0..Len(history) |->
                                  IF i = 0 THEN 0 ELSE h[i - 1] + history[i].rows]
<1>1. n \in Nat
  OBVIOUS
<1>2. RowTable(history, n, h)
  BY Zenon, <1>1, RowTableExists DEF RowTable
<1>3. Detail!Rows(history) = h[n]
  BY Zenon DEF Detail!Rows
<1> HIDE DEF h, n
<1>4. h[0] = 0
  <2>1. 0 \in 0..n
    BY <1>1
  <2> QED
    BY Zenon, <1>2, <2>1 DEF RowTable
<1> DEFINE N == {k \in Nat : k \in 0..n => h[k] \in Int}
<1>5. 0 \in N
  BY <1>4
<1>6. ASSUME NEW k \in Nat, k \in N PROVE k + 1 \in N
  <2>1. SUFFICES ASSUME k + 1 \in 0..n PROVE h[k + 1] \in Int
    OBVIOUS
  <2>2. k \in 0..n /\ k + 1 # 0 /\ (k + 1) - 1 = k /\ k + 1 \in 1..n
    BY <1>1, <2>1
  <2>3. h[k + 1] = h[k] + history[k + 1].rows
    BY Zenon, <1>2, <2>1, <2>2 DEF RowTable
  <2>5. history[k + 1] \in Sample
    BY <2>2 DEF n
  <2>4. history[k + 1].rows \in Int
    BY Zenon, <2>5 DEF Sample
  <2> QED
    BY <1>6, <2>2, <2>3, <2>4
<1>7. n \in N
  <2> HIDE DEF N
  <2>1. Nat \subseteq N
    BY Zenon, <1>5, <1>6, NaturalInduction
  <2> QED
    BY Zenon, <1>1, <2>1
<1>8. n \in 0..n
  BY <1>1
<1>9. history = <<>> => n = 0
  BY DEF n
<1> QED
  BY Zenon, <1>3, <1>4, <1>7, <1>8, <1>9

(* A longer history is the old one with the sample added, less what left   *)
(* the window.                                                             *)
LEMMA SamplesAreWindow ==
  ASSUME MAX_HISTORY \in Nat, NEW value \in Sample, NEW history \in Seq(Sample)
  PROVE  LET new == Detail!addToHistory(value, history)
         IN  /\ new \in Seq(Sample)
             /\ \E k \in 0..Len(history) :
                  /\ Len(new) = Len(history) + 1 - k
                  /\ \A i \in 1..Len(new) :
                       new[i] = IF i = Len(new) THEN value ELSE history[i + k]
<1> DEFINE new == Detail!addToHistory(value, history)
           n   == Len(history)
<1>1. n \in Nat
  OBVIOUS
<1>2. CASE n = 0
  <2>1. new = <<value>>
    BY Zenon, <1>2 DEF Detail!addToHistory
  <2> HIDE DEF new
  <2>2. Len(new) = 1 /\ new[1] = value /\ new \in Seq(Sample)
    BY <2>1
  <2>3. 0 \in 0..n /\ Len(new) = n + 1 - 0
    BY <1>2, <2>2
  <2> QED
    BY <2>2, <2>3 DEF new
<1>3. CASE n # 0
  <2> DEFINE longer == Append(history, value)
             k == IF n > MAX_HISTORY THEN n - MAX_HISTORY ELSE 0
  <2>1. /\ longer \in Seq(Sample) /\ Len(longer) = n + 1
        /\ \A i \in 1..(n + 1) : longer[i] = IF i = n + 1 THEN value ELSE history[i]
    BY <1>1
  <2>2. new = SubSeq(longer, k + 1, n + 1)
    BY Zenon, <1>3 DEF Detail!addToHistory
  <2> HIDE DEF new, longer, n
  <2>3. k \in 0..n
    BY <1>1
  <2> HIDE DEF k
  <2>4. /\ new \in Seq(Sample) /\ Len(new) = n + 1 - k
        /\ \A i \in 1..Len(new) : new[i] = longer[i + k]
    BY <1>1, <2>1, <2>2, <2>3
  <2>5. ASSUME NEW i \in 1..Len(new)
        PROVE  new[i] = IF i = Len(new) THEN value ELSE history[i + k]
    <3>1. i + k \in 1..(n + 1) /\ (i = Len(new) <=> i + k = n + 1)
      BY <1>1, <2>3, <2>4
    <3> QED
      BY Zenon, <2>1, <2>4, <3>1
  <2> QED
    BY Zenon, <2>3, <2>4, <2>5 DEF new, n
<1> QED
  BY Zenon, <1>2, <1>3

(* The query at the coordinator.                                           *)
ServerQuery == [state : {"QUEUED", "RUNNING", "FINISHED", "FAILED"}, final : BOOLEAN, rows : Int]

(* One request or one timer at a time.                                     *)
OneLoop ==
  /\ \A r, s \in requests : r = s
  /\ timers \subseteq {timeoutId}
  /\ timers # {} => requests = {}

(* What the page knows of the query.                                       *)
RowsInv ==
  /\ server \in ServerQuery
  /\ \A r \in requests :
       /\ {"phase", "query"} \subseteq DOMAIN r
       /\ r.phase = "answered" => r.query \in ServerQuery
  /\ rowInputRate \in Seq(Sample)
  /\ lastRowInput \in Int /\ outside \in Int
  /\ Detail!Rows(rowInputRate) + outside = lastRowInput
  /\ query # Null => query.rows = lastRowInput

(* The clock, unless it was set back: a request that follows an answer is  *)
(* sent at least a tick later.                                             *)
ClockInv ==
  /\ elapsed \in Int
  /\ rowInputRate # <<>> => answered
  /\ \A i \in 2..Len(rowInputRate) : rowInputRate[i].secs > 0 \/ clockMoved
  /\ clockMoved \in BOOLEAN
  /\ ~clockMoved => elapsed >= 0 /\ (answered /\ requests # {} => elapsed > 0)

(* The chart: while a request is out, it was not drawn within the last     *)
(* second, unless a click drew it with all samples.                        *)
ChartInv ==
  /\ justDrawn \in BOOLEAN /\ initialized \in BOOLEAN
  /\ Detail!ChartLagsByOne
  /\ justDrawn /\ requests # {} => sparkline = rowInputRate \/ clockMoved

(* The inductive invariant of the rates of a query.                        *)
DetailInv == OneLoop /\ RowsInv /\ ClockInv /\ ChartInv

(* Once its only request is done, the page is left with a timer or with    *)
(* nothing.                                                                *)
LEMMA LoopGoesOn ==
  ASSUME OneLoop, NEW r \in requests, requests' = requests \ {r},
         NEW again, Detail!ResetTimer(again)
  PROVE  OneLoop' /\ requests' = {}
<1>1. requests' = {} /\ timers \ {timeoutId} = {}
  BY Zenon DEF OneLoop
<1>2. timers' \subseteq {timeoutId'}
  BY Zenon, <1>1 DEF Detail!ResetTimer
<1> QED
  BY Zenon, <1>1, <1>2 DEF OneLoop

(* The answer to a request is counted once.                                *)
LEMMA AnswerStep ==
  ASSUME Detail!DetailConstants, DetailInv, NEW r \in requests, Detail!HandleQuery(r)
  PROVE  DetailInv'
<1> DEFINE q == r.query
           sample == [rows |-> q.rows - lastRowInput, secs |-> elapsed]
           skipped == ended \/ (~answered /\ q.state = "RUNNING") \/ elapsed < 0
<1>1. OneLoop' /\ requests' = {}
  BY Zenon, LoopGoesOn DEF Detail!HandleQuery, DetailInv
<1>2. /\ q \in ServerQuery /\ query' = q /\ lastRowInput' = q.rows /\ answered' = TRUE
      /\ elapsed' = 0 /\ UNCHANGED <<server, clockMoved>>
      /\ sparkline' = IF justDrawn THEN sparkline ELSE rowInputRate
      /\ justDrawn' = TRUE /\ initialized' = TRUE
  BY Zenon DEF Detail!HandleQuery, Detail!Measure, Detail!Draw, DetailInv, RowsInv
<1>3. q.rows \in Int /\ lastRowInput \in Int /\ outside \in Int /\ elapsed \in Int
  BY Zenon, <1>2 DEF ServerQuery, DetailInv, RowsInv, ClockInv
<1>4. IF skipped
      THEN UNCHANGED rowInputRate /\ outside' = outside + sample.rows
      ELSE /\ rowInputRate' = Detail!addToHistory(sample, rowInputRate)
           /\ outside' = outside + Detail!Rows(rowInputRate) + sample.rows
                           - Detail!Rows(rowInputRate')
  BY Zenon DEF Detail!HandleQuery, Detail!Measure
<1>5. sample \in Sample /\ sample.rows = q.rows - lastRowInput /\ sample.secs = elapsed
  BY <1>3 DEF Sample
<1> HIDE DEF sample, skipped
<1>6. rowInputRate \in Seq(Sample) /\ Detail!Rows(rowInputRate) + outside = lastRowInput
  BY Zenon DEF DetailInv, RowsInv
<1>7. /\ rowInputRate' \in Seq(Sample) /\ outside' \in Int
      /\ Detail!Rows(rowInputRate') + outside' = q.rows
  <2>1. Detail!Rows(rowInputRate) \in Int
    BY Zenon, <1>6, RowsType
  <2>2. CASE skipped
    <3>1. rowInputRate' = rowInputRate /\ outside' = outside + (q.rows - lastRowInput)
      BY Zenon, <1>4, <1>5, <2>2
    <3> DEFINE n == Detail!Rows(rowInputRate)
               m == q.rows
    <3>2. n \in Int /\ m \in Int /\ n + outside = lastRowInput
      BY Zenon, <1>3, <1>6, <2>1
    <3> HIDE DEF n, m
    <3>3. /\ outside + (m - lastRowInput) \in Int
          /\ n + (outside + (m - lastRowInput)) = m
      BY <1>3, <3>2
    <3> QED
      BY Zenon, <1>6, <3>1, <3>3 DEF n, m
  <2>3. CASE ~skipped
    <3>1. rowInputRate' \in Seq(Sample)
      BY Zenon, <1>4, <1>5, <1>6, <2>3, SamplesAreWindow DEF Detail!DetailConstants
    <3>2. Detail!Rows(rowInputRate') \in Int
      BY Zenon, <3>1, RowsType
    <3> DEFINE a == Detail!Rows(rowInputRate)
               b == Detail!Rows(rowInputRate')
    <3>3. outside' = outside + a + sample.rows - b
      BY Zenon, <1>4, <2>3
    <3> HIDE DEF a, b
    <3>4. a \in Int /\ b \in Int /\ a + outside = lastRowInput
      BY Zenon, <1>6, <2>1, <3>2 DEF a, b
    <3>5. outside' \in Int /\ b + outside' = q.rows
      BY <1>3, <1>5, <3>3, <3>4
    <3> QED
      BY Zenon, <3>1, <3>5 DEF b
  <2> QED
    BY Zenon, <2>2, <2>3
<1>8. RowsInv'
  BY Zenon, <1>1, <1>2, <1>3, <1>7 DEF RowsInv, DetailInv
<1>11. ASSUME ~skipped
       PROVE  \E k \in 0..Len(rowInputRate) :
                /\ Len(rowInputRate') = Len(rowInputRate) + 1 - k
                /\ \A j \in 1..Len(rowInputRate') :
                     rowInputRate'[j] = IF j = Len(rowInputRate') THEN sample
                                        ELSE rowInputRate[j + k]
  <2>1. rowInputRate' = Detail!addToHistory(sample, rowInputRate)
    BY Zenon, <1>4, <1>11
  <2> QED
    <3> DEFINE new == Detail!addToHistory(sample, rowInputRate)
    <3>1. \E k \in 0..Len(rowInputRate) :
            /\ Len(new) = Len(rowInputRate) + 1 - k
            /\ \A j \in 1..Len(new) :
                 new[j] = IF j = Len(new) THEN sample ELSE rowInputRate[j + k]
      BY Zenon, <1>5, <1>6, SamplesAreWindow DEF Detail!DetailConstants
    <3> HIDE DEF new
    <3>2. rowInputRate' = new
      BY Zenon, <2>1 DEF new
    <3> QED
      BY Zenon, <3>1, <3>2
<1>9. ClockInv'
  <2>1. ASSUME NEW i \in 2..Len(rowInputRate'), ~clockMoved
        PROVE  rowInputRate'[i].secs > 0
    <3>1. CASE skipped
      BY Zenon, <1>4, <2>1, <3>1 DEF DetailInv, ClockInv
    <3>2. CASE ~skipped
      <4> DEFINE x == Len(rowInputRate)
      <4>1. PICK k \in 0..x :
              /\ Len(rowInputRate') = x + 1 - k
              /\ \A j \in 1..Len(rowInputRate') :
                   rowInputRate'[j] = IF j = Len(rowInputRate') THEN sample
                                      ELSE rowInputRate[j + k]
        BY Zenon, <1>11, <3>2
      <4>2. /\ x \in Nat /\ x' \in Nat /\ x' = x + 1 - k
        BY <1>6, <1>7, <4>1
      <4>3. i \in 2..x'
        BY Zenon
      <4>4. x # 0 /\ i \in 1..x' /\ (i # x' => i + k \in 2..x)
        <5> HIDE DEF x
        <5> QED
          BY <4>1, <4>2, <4>3
      <4>5. CASE i = x'
        <5>1. rowInputRate'[i] = sample
          BY Zenon, <4>1, <4>4, <4>5
        <5>2. answered /\ elapsed > 0
          BY <2>1, <4>4 DEF DetailInv, ClockInv
        <5> QED
          BY Zenon, <1>5, <5>1, <5>2
      <4>6. CASE i # x'
        <5>1. rowInputRate'[i] = rowInputRate[i + k]
          BY Zenon, <4>1, <4>4, <4>6
        <5> QED
          BY Zenon, <2>1, <4>4, <4>6, <5>1 DEF DetailInv, ClockInv
      <4> QED
        BY Zenon, <4>5, <4>6
    <3> QED
      BY Zenon, <3>1, <3>2
  <2> QED
    BY <1>1, <1>2, <2>1 DEF DetailInv, ClockInv
<1>10. ChartInv'
  <2>1. clockMoved \/ sparkline' = rowInputRate
    BY Zenon, <1>2 DEF DetailInv, ChartInv
  <2>2. rowInputRate' = rowInputRate
          \/ rowInputRate' = Detail!addToHistory(rowInputRate'[Len(rowInputRate')], rowInputRate)
    <3>1. CASE skipped
      BY Zenon, <1>4, <3>1
    <3>2. CASE ~skipped
      <4>1. PICK k \in 0..Len(rowInputRate) :
              /\ Len(rowInputRate') = Len(rowInputRate) + 1 - k
              /\ \A j \in 1..Len(rowInputRate') :
                   rowInputRate'[j] = IF j = Len(rowInputRate') THEN sample
                                      ELSE rowInputRate[j + k]
        BY Zenon, <1>11, <3>2
      <4>2. Len(rowInputRate') \in 1..Len(rowInputRate')
        BY <1>6, <1>7, <4>1
      <4>3. rowInputRate'[Len(rowInputRate')] = sample
        BY Zenon, <4>1, <4>2
      <4> QED
        BY Zenon, <1>4, <3>2, <4>3
    <3> QED
      BY Zenon, <3>1, <3>2
  <2>3. Detail!ChartLagsByOne'
    BY Zenon, <1>2, <2>1, <2>2 DEF Detail!ChartLagsByOne
  <2> QED
    BY Zenon, <1>1, <1>2, <2>3 DEF ChartInv
<1> QED
  BY Zenon, <1>1, <1>8, <1>9, <1>10 DEF DetailInv

(* Draw keeps what is known of the chart.                                  *)
LEMMA DrawStep ==
  ASSUME ChartInv, Detail!Draw, UNCHANGED <<rowInputRate, clockMoved>>
  PROVE  /\ justDrawn' \in BOOLEAN /\ Detail!ChartLagsByOne'
         /\ sparkline' = sparkline \/ sparkline' = rowInputRate
         /\ ~justDrawn => sparkline' = rowInputRate
BY Zenon DEF Detail!Draw, ChartInv, Detail!ChartLagsByOne

(* Time passes: the chart gets old.                                        *)
LEMMA TimeStep ==
  ASSUME Detail!DetailConstants, ClockInv, ChartInv,
         elapsed' = Detail!Later(elapsed), justDrawn' \in Detail!Aged(justDrawn),
         UNCHANGED <<clockMoved, rowInputRate, answered, sparkline>>
  PROVE  /\ ClockInv' /\ (~clockMoved => elapsed' > 0 /\ ~justDrawn')
         /\ Detail!ChartLagsByOne' /\ justDrawn' \in BOOLEAN
<1>1. elapsed' \in Int /\ (~clockMoved => elapsed' > 0)
  BY DEF ClockInv, Detail!Later, Detail!DetailConstants
<1>2. justDrawn' \in BOOLEAN /\ (~clockMoved => ~justDrawn')
  BY Zenon DEF Detail!Aged, ChartInv, ClockInv
<1>3. Detail!ChartLagsByOne'
  BY Zenon DEF Detail!ChartLagsByOne, ChartInv
<1>4. ClockInv'
  BY <1>1 DEF ClockInv
<1> QED
  BY Zenon, <1>1, <1>2, <1>3, <1>4

(* Each step of the query, the clock, the network and the page keeps it.   *)
LEMMA DetailStep ==
  ASSUME Detail!DetailConstants, DetailInv, [Detail!Next]_(Detail!vars)
  PROVE  DetailInv'
<1> USE DEF DetailInv
<1>1. CASE Detail!Environment
  <2>1. server' \in ServerQuery
    <3>1. server \in ServerQuery /\ Detail!ServerNext
      BY Zenon, <1>1 DEF Detail!Environment, RowsInv
    <3>2. ASSUME NEW state \in {"RUNNING", "FINISHED", "FAILED"}
          PROVE  [server EXCEPT !.state = state] \in ServerQuery
      BY Zenon, <3>1 DEF ServerQuery
    <3>3. [server EXCEPT !.rows = @ + 1] \in ServerQuery
      <4>1. server.rows + 1 \in Int
        BY <3>1 DEF ServerQuery
      <4> QED
        BY Zenon, <3>1, <4>1 DEF ServerQuery
    <3>4. [server EXCEPT !.final = TRUE] \in ServerQuery
      BY Zenon, <3>1 DEF ServerQuery
    <3> QED
      BY <3>1, <3>2, <3>3, <3>4, Zenon DEF Detail!ServerNext
  <2>2. UNCHANGED <<Detail!pollVars, Detail!clockVars, Detail!chartVars, query, initialized>>
    BY Zenon, <1>1 DEF Detail!Environment, Detail!pageVars
  <2>3. OneLoop' /\ ClockInv' /\ ChartInv'
    BY Zenon, <2>2 DEF OneLoop, ClockInv, ChartInv, Detail!ChartLagsByOne, Detail!pollVars,
                Detail!clockVars, Detail!chartVars
  <2>4. RowsInv'
    BY Zenon, <2>1, <2>2 DEF RowsInv, Detail!pollVars, Detail!chartVars
  <2> QED
    BY Zenon, <2>3, <2>4
<1>2. ASSUME NEW r \in requests, NEW s,
             requests' = (requests \ {r}) \cup {s},
             {"phase", "query"} \subseteq DOMAIN s,
             s.phase = "answered" => s.query = server,
             UNCHANGED <<timers, timeoutId, server, Detail!clockVars, Detail!chartVars, query, initialized>>
      PROVE  DetailInv'
  <2>1. requests # {} /\ requests' = {s}
    BY Zenon, <1>2 DEF OneLoop
  <2>2. OneLoop'
    BY Zenon, <1>2, <2>1 DEF OneLoop
  <2>3. RowsInv'
    BY Zenon, <1>2, <2>1 DEF RowsInv, Detail!chartVars
  <2>4. ClockInv' /\ ChartInv'
    BY Zenon, <1>2, <2>1 DEF ClockInv, ChartInv, Detail!ChartLagsByOne, Detail!clockVars,
                      Detail!chartVars
  <2> QED
    BY Zenon, <2>2, <2>3, <2>4
<1>3. CASE Detail!Answers
  <2>1. PICK r \in requests :
          /\ requests' = (requests \ {r}) \cup
                           {[r EXCEPT !.phase = "answered", !.query = server]}
          /\ UNCHANGED <<timers, timeoutId, server, Detail!clockVars, Detail!chartVars, query, initialized>>
    BY Zenon, <1>3 DEF Detail!Answers, Detail!pageVars
  <2> DEFINE s == [r EXCEPT !.phase = "answered", !.query = server]
  <2>2. {"phase", "query"} \subseteq DOMAIN s /\ s.query = server
    BY Zenon DEF RowsInv
  <2> HIDE DEF s
  <2>3. requests' = (requests \ {r}) \cup {s}
    BY Zenon, <2>1 DEF s
  <2> QED
    BY Zenon, <1>2, <2>1, <2>2, <2>3
<1>4. CASE Detail!Failures
  <2>1. PICK r \in requests :
          /\ requests' = (requests \ {r}) \cup
                           {[r EXCEPT !.phase = "failed", !.query = Null]}
          /\ UNCHANGED <<timers, timeoutId, server, Detail!clockVars, Detail!chartVars, query, initialized>>
    BY Zenon, <1>4 DEF Detail!Failures, Detail!pageVars
  <2> DEFINE s == [r EXCEPT !.phase = "failed", !.query = Null]
  <2>2. {"phase", "query"} \subseteq DOMAIN s /\ s.phase = "failed"
    BY Zenon DEF RowsInv
  <2> HIDE DEF s
  <2>3. requests' = (requests \ {r}) \cup {s}
    BY Zenon, <2>1 DEF s
  <2> QED
    BY Zenon, <1>2, <2>1, <2>2, <2>3
<1>5. CASE Detail!Tick
  <2>1. /\ UNCHANGED <<Detail!pollVars, server, clockMoved, lastRowInput, rowInputRate,
                       answered, sparkline, outside, query, initialized>>
        /\ elapsed' = Detail!Later(elapsed) /\ justDrawn' \in Detail!Aged(justDrawn)
    BY Zenon, <1>5 DEF Detail!Tick, Detail!pageVars
  <2>2. OneLoop' /\ RowsInv'
    BY Zenon, <2>1 DEF OneLoop, RowsInv, Detail!pollVars
  <2>3. /\ ClockInv' /\ (~clockMoved => ~justDrawn')
        /\ Detail!ChartLagsByOne' /\ justDrawn' \in BOOLEAN
    BY Zenon, <2>1, TimeStep
  <2>4. ChartInv'
    BY Zenon, <2>1, <2>3 DEF ChartInv, ClockInv
  <2> QED
    BY Zenon, <2>2, <2>3, <2>4
<1>6. CASE Detail!SetClockBack
  <2>1. /\ UNCHANGED <<Detail!pollVars, server, lastRowInput, rowInputRate, answered,
                       sparkline, outside, query, initialized>>
        /\ clockMoved' = TRUE /\ elapsed' = -1 /\ justDrawn' = initialized
    BY Zenon, <1>6 DEF Detail!SetClockBack, Detail!pageVars
  <2>2. OneLoop' /\ RowsInv'
    BY Zenon, <2>1 DEF OneLoop, RowsInv, Detail!pollVars
  <2>3. ClockInv' /\ ChartInv'
    BY <2>1 DEF ClockInv, ChartInv, Detail!ChartLagsByOne
  <2> QED
    BY Zenon, <2>2, <2>3
<1>7. ASSUME NEW r \in requests, Detail!HandleError(r) PROVE DetailInv'
  <2>1. /\ requests' = requests \ {r} /\ Detail!Draw
        /\ UNCHANGED <<server, elapsed, clockMoved, lastRowInput, rowInputRate, answered,
                       outside, query>>
        /\ initialized' = TRUE
    BY Zenon, <1>7 DEF Detail!HandleError, Detail!clockVars
  <2>2. OneLoop' /\ requests' = {}
    BY Zenon, <1>7, <2>1, LoopGoesOn DEF Detail!HandleError
  <2>3. RowsInv' /\ ClockInv'
    BY Zenon, <2>1, <2>2 DEF RowsInv, ClockInv
  <2>4. ChartInv'
    BY Zenon, <2>1, <2>2, DrawStep DEF ChartInv
  <2> QED
    BY Zenon, <2>2, <2>3, <2>4
<1>8. ASSUME NEW i \in timers, Detail!refreshLoop(i) PROVE DetailInv'
  <2>1. PICK s : /\ requests' = requests \cup {s}
                 /\ s.phase = "sent" /\ {"phase", "query"} \subseteq DOMAIN s
    <3>1. LET s == Detail!NewQuery
          IN  s.phase = "sent" /\ {"phase", "query"} \subseteq DOMAIN s
      BY Zenon DEF Detail!NewQuery
    <3> QED
      BY <1>8, <3>1, Zenon DEF Detail!refreshLoop, Detail!SendRequest
  <2>2. /\ timers' = timers \ {i, timeoutId}
        /\ UNCHANGED <<timeoutId, server, clockMoved, lastRowInput, rowInputRate, answered,
                       sparkline, outside, query, initialized>>
        /\ elapsed' = Detail!Later(elapsed) /\ justDrawn' \in Detail!Aged(justDrawn)
    BY Zenon, <1>8 DEF Detail!refreshLoop, Detail!SendRequest, Detail!pageVars
  <2>3. requests' = {s} /\ timers' = {}
    BY Zenon, <2>1, <2>2 DEF OneLoop
  <2>4. OneLoop'
    BY Zenon, <2>3 DEF OneLoop
  <2>5. RowsInv'
    BY Zenon, <2>1, <2>2, <2>3 DEF RowsInv
  <2>6. /\ elapsed' \in Int /\ (~clockMoved => elapsed' > 0 /\ ~justDrawn')
        /\ Detail!ChartLagsByOne' /\ justDrawn' \in BOOLEAN
    BY Zenon, <2>2, TimeStep DEF ClockInv
  <2>7. ClockInv' /\ ChartInv'
    BY <2>2, <2>6 DEF ClockInv, ChartInv
  <2> QED
    BY Zenon, <2>4, <2>5, <2>7
<1>9. CASE Detail!handleStageRefreshClick
  <2>1. /\ UNCHANGED <<Detail!pollVars, server, elapsed, clockMoved, lastRowInput,
                       rowInputRate, answered, outside, query, initialized>>
        /\ Detail!Draw
    BY Zenon, <1>9 DEF Detail!handleStageRefreshClick, Detail!pageVars, Detail!clockVars
  <2>2. OneLoop' /\ RowsInv' /\ ClockInv'
    BY Zenon, <2>1 DEF OneLoop, RowsInv, ClockInv, Detail!pollVars
  <2>3. ChartInv'
    BY Zenon, <2>1, DrawStep DEF ChartInv, Detail!pollVars
  <2> QED
    BY Zenon, <2>2, <2>3
<1>10. CASE UNCHANGED Detail!vars
  <2>1. UNCHANGED <<Detail!pollVars, server, Detail!clockVars, Detail!chartVars, query, initialized>>
    BY Zenon, <1>10 DEF Detail!vars, Detail!pageVars
  <2>2. OneLoop' /\ ClockInv' /\ ChartInv'
    BY Zenon, <2>1 DEF OneLoop, ClockInv, ChartInv, Detail!ChartLagsByOne, Detail!pollVars,
                Detail!clockVars, Detail!chartVars
  <2>3. RowsInv'
    BY Zenon, <2>1 DEF RowsInv, Detail!pollVars, Detail!chartVars
  <2> QED
    BY Zenon, <2>2, <2>3
<1> QED
  BY Zenon, <1>1, <1>3, <1>4, <1>5, <1>6, <1>7, <1>8, <1>9, <1>10, AnswerStep
     DEF Detail!Next, Detail!Handlers, Detail!Refreshes

(* The page begins in its invariant.                                       *)
LEMMA DetailBegins ==
  ASSUME Detail!DetailConstants, Detail!Init
  PROVE  DetailInv
<1>1. /\ requests = {[id |-> 1, phase |-> "sent", query |-> Null]}
      /\ timers = {} /\ query = Null /\ lastRowInput = 0 /\ rowInputRate = <<>>
      /\ answered = FALSE /\ clockMoved = FALSE /\ sparkline = <<>>
      /\ justDrawn = FALSE /\ outside = 0 /\ initialized = FALSE
  BY Zenon DEF Detail!Init, Detail!PollInit
<1>2. server \in ServerQuery
  BY DEF Detail!Init, Detail!QueryInfo, ServerQuery
<1>3. elapsed \in Int /\ elapsed >= 0
  BY DEF Detail!Init, Detail!DetailConstants
<1>4. \A r \in requests : r.phase = "sent" /\ {"phase", "query"} \subseteq DOMAIN r
  BY <1>1
<1>9. <<>> \in Seq(Sample)
  OBVIOUS
<1>5. rowInputRate \in Seq(Sample) /\ Detail!Rows(rowInputRate) = 0
  BY <1>1, <1>9, RowsType, Zenon
<1>6. RowsInv
  BY <1>1, <1>2, <1>4, <1>5 DEF RowsInv
<1>7. OneLoop
  BY Zenon, <1>1 DEF OneLoop
<1>11. \A i \in 2..Len(rowInputRate) : FALSE
  BY <1>1
<1>8. ClockInv
  BY Zenon, <1>1, <1>3, <1>11 DEF ClockInv
<1>10. ChartInv
  BY <1>1, Zenon DEF ChartInv, Detail!ChartLagsByOne
<1> QED
  BY Zenon, <1>6, <1>7, <1>8, <1>10 DEF DetailInv

(* The rates of a query account for each row of the last answer once,      *)
(* whatever requests fail and wherever the clock goes; only the first      *)
(* sample divides by zero and the chart lags by one sample at most, unless *)
(* the clock was set back (QueryDetail.jsx, refreshLoop and addToHistory). *)
THEOREM RatesOfQuery ==
  ASSUME Detail!DetailConstants
  PROVE  Detail!Spec => []Detail!RatesAccounted
<1>1. Detail!Init => DetailInv
  BY Zenon, DetailBegins
<1>2. DetailInv => Detail!RatesAccounted
  BY Zenon DEF DetailInv, RowsInv, ClockInv, ChartInv, Detail!RatesAccounted,
         Detail!RatesAccountForRows, Detail!LaterRatesAreFinite
<1> QED
  BY <1>1, <1>2, DetailStep, PTL DEF Detail!Spec

-----------------------------------------------------------------------------
(* The series of requests of the query page.                               *)
Series == INSTANCE RefreshLoop WITH loop <- Detail!Loop

(* The page has a request or a timer exactly as long as no answer was      *)
(* final.                                                                  *)
SeriesInv ==
  /\ DetailInv
  /\ ended \in BOOLEAN
  /\ ended <=> requests = {} /\ timers = {}

(* Where the series is, at a moment at which the page has one.             *)
LEMMA LoopIs ==
  /\ requests # {} /\ timers = {} => Detail!Loop = "requesting"
  /\ requests = {} /\ timers # {} => Detail!Loop = "waiting"
  /\ requests = {} /\ timers = {} => Detail!Loop = "stopped"
BY DEF Detail!Loop

(* The same of the next moment.                                            *)
LEMMA LoopWillBe ==
  /\ requests' # {} /\ timers' = {} => Detail!Loop' = "requesting"
  /\ requests' = {} /\ timers' # {} => Detail!Loop' = "waiting"
  /\ requests' = {} /\ timers' = {} => Detail!Loop' = "stopped"
BY DEF Detail!Loop

(* resetTimer after the only request was handled sets one timer, or none   *)
(* when the loop is over.                                                  *)
LEMMA ResetOnce ==
  ASSUME OneLoop, NEW r \in requests, NEW again,
         requests' = requests \ {r}, Detail!ResetTimer(again)
  PROVE  requests' = {} /\ timers = {} /\ (again <=> timers' # {})
<1>1. requests' = {} /\ timers = {}
  BY Zenon DEF OneLoop
<1>2. CASE again
  BY Zenon, <1>1, <1>2 DEF Detail!ResetTimer
<1>3. CASE ~again
  BY Zenon, <1>1, <1>3 DEF Detail!ResetTimer
<1> QED
  BY Zenon, <1>1, <1>2, <1>3

(* Each step of the page is a step of the series, or none of it.           *)
LEMMA SeriesStep ==
  ASSUME Detail!DetailConstants, SeriesInv, [Detail!Next]_(Detail!vars)
  PROVE  SeriesInv' /\ [Series!Next]_(Series!vars)
<1>1. DetailInv'
  BY Zenon, DetailStep DEF SeriesInv
<1>2. OneLoop /\ RowsInv
  BY Zenon DEF SeriesInv, DetailInv
<1>3. ASSUME UNCHANGED <<requests, timers, ended>>
      PROVE  SeriesInv' /\ [Series!Next]_(Series!vars)
  <2>1. UNCHANGED Detail!Loop
    BY Zenon, <1>3 DEF Detail!Loop
  <2> QED
    BY Zenon, <1>1, <1>3, <2>1 DEF SeriesInv, Series!vars
<1>4. ASSUME NEW r \in requests, NEW s, requests' = (requests \ {r}) \cup {s},
             UNCHANGED <<timers, ended>>
      PROVE  SeriesInv' /\ [Series!Next]_(Series!vars)
  <2>1. requests # {} /\ requests' # {} /\ timers = {}
    BY Zenon, <1>2, <1>4 DEF OneLoop
  <2>2. UNCHANGED Detail!Loop
    BY Zenon, <1>4, <2>1, LoopIs, LoopWillBe
  <2> QED
    BY Zenon, <1>1, <1>4, <2>1, <2>2 DEF SeriesInv, Series!vars
<1>5. ASSUME NEW r \in requests, requests' = requests \ {r}, Detail!ResetTimer(~ended'),
             ended' \in BOOLEAN
      PROVE  SeriesInv' /\ [Series!Next]_(Series!vars)
  <2>2. requests' = {} /\ timers = {} /\ (~ended' <=> timers' # {})
    BY Zenon, <1>2, <1>5, ResetOnce
  <2>3. Detail!Loop = "requesting"
    BY Zenon, <1>5, <2>2, LoopIs
  <2>4. Detail!Loop' = IF ended' THEN "stopped" ELSE "waiting"
    BY Zenon, <1>5, <2>2, LoopWillBe
  <2>5. Series!Handle(ended')
    BY Zenon, <2>3, <2>4 DEF Series!Handle
  <2> QED
    BY Zenon, <1>1, <1>5, <2>2, <2>5 DEF SeriesInv, Series!Next
<1>6. ASSUME NEW r \in requests, Detail!HandleQuery(r)
      PROVE  SeriesInv' /\ [Series!Next]_(Series!vars)
  <2>1. r.query \in ServerQuery
    BY Zenon, <1>2, <1>6 DEF RowsInv, Detail!HandleQuery
  <2>5. r.query # Null
    BY Zenon, <2>1 DEF ServerQuery, Detail!DetailConstants
  <2>6. r.query.final \in BOOLEAN
    BY <2>1 DEF ServerQuery
  <2>3. /\ query' # Null /\ ended' \in BOOLEAN /\ requests' = requests \ {r}
        /\ Detail!ResetTimer(Detail!GoOn)
    BY Zenon, <1>6, <2>5, <2>6 DEF Detail!HandleQuery
  <2>4. Detail!ResetTimer(~ended')
    BY Zenon, <2>3 DEF Detail!GoOn, Detail!ResetTimer
  <2> QED
    BY Zenon, <1>5, <2>3, <2>4
<1>7. ASSUME NEW r \in requests, Detail!HandleError(r)
      PROVE  SeriesInv' /\ [Series!Next]_(Series!vars)
  <2>1. ~ended /\ ended' = ended /\ ended' \in BOOLEAN /\ requests' = requests \ {r}
        /\ Detail!ResetTimer(Detail!GoOn)
    BY Zenon, <1>7 DEF Detail!HandleError, SeriesInv
  <2>2. Detail!ResetTimer(~ended')
    BY Zenon, <2>1 DEF Detail!GoOn, Detail!ResetTimer
  <2> QED
    BY Zenon, <1>5, <2>1, <2>2
<1>8. ASSUME NEW i \in timers, Detail!refreshLoop(i)
      PROVE  SeriesInv' /\ [Series!Next]_(Series!vars)
  <2>1. PICK s : requests' = requests \cup {s}
    BY Zenon, <1>8 DEF Detail!refreshLoop, Detail!SendRequest
  <2>2. timers' = timers \ {i, timeoutId} /\ UNCHANGED ended
    BY Zenon, <1>8 DEF Detail!refreshLoop, Detail!SendRequest, Detail!pageVars
  <2>3. requests = {} /\ timers # {} /\ timers' = {} /\ requests' # {}
    BY Zenon, <1>2, <1>8, <2>1, <2>2 DEF OneLoop
  <2>4. Series!Refresh
    BY Zenon, <2>2, <2>3, LoopIs, LoopWillBe DEF Series!Refresh
  <2> QED
    BY Zenon, <1>1, <2>2, <2>3, <2>4 DEF SeriesInv, Series!Next
<1>9. CASE Detail!Answers
  <2>1. PICK r \in requests :
          /\ requests' = (requests \ {r}) \cup
                           {[r EXCEPT !.phase = "answered", !.query = server]}
          /\ UNCHANGED <<timers, ended>>
    BY Zenon, <1>9 DEF Detail!Answers, Detail!pageVars
  <2> QED
    BY Zenon, <1>4, <2>1
<1>10. CASE Detail!Failures
  <2>1. PICK r \in requests :
          /\ requests' = (requests \ {r}) \cup {[r EXCEPT !.phase = "failed", !.query = Null]}
          /\ UNCHANGED <<timers, ended>>
    BY Zenon, <1>10 DEF Detail!Failures, Detail!pageVars
  <2> QED
    BY Zenon, <1>4, <2>1
<1>11. CASE \/ Detail!Environment \/ Detail!Tick \/ Detail!SetClockBack
            \/ Detail!handleStageRefreshClick \/ UNCHANGED Detail!vars
  <2>1. UNCHANGED <<requests, timers, ended>>
    BY Zenon, <1>11 DEF Detail!Environment, Detail!Tick, Detail!SetClockBack,
       Detail!handleStageRefreshClick, Detail!vars, Detail!pollVars, Detail!pageVars
  <2> QED
    BY Zenon, <1>3, <2>1
<1> QED
  BY Zenon, <1>6, <1>7, <1>8, <1>9, <1>10, <1>11
     DEF Detail!Next, Detail!Handlers, Detail!Refreshes

(* The query page keeps one series of requests until an answer was final:  *)
(* no failure, lost answer, click or jump of the clock starts a second     *)
(* one, leaves a request behind or ends the series early (QueryDetail.jsx, *)
(* resetTimer and refreshLoop).  This is the safety part of the refinement *)
(* of RefreshLoop.                                                         *)
THEOREM SeriesOfQuery ==
  ASSUME Detail!DetailConstants
  PROVE  Detail!Spec => Series!Safety
<1>1. ASSUME Detail!Init PROVE SeriesInv /\ Series!Init
  <2>1. requests # {} /\ timers = {} /\ ended = FALSE
    BY Zenon, <1>1 DEF Detail!Init, Detail!PollInit
  <2>2. DetailInv
    BY Zenon, <1>1, DetailBegins
  <2> QED
    BY Zenon, <2>1, <2>2, LoopIs DEF SeriesInv, Series!Init
<1> QED
  BY <1>1, SeriesStep, PTL DEF Detail!Spec, Series!Safety

=============================================================================

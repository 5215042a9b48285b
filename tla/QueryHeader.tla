----------------------------- MODULE QueryHeader -----------------------------
(***************************************************************************)
(* The head of a query's pages (QueryHeader.jsx and the query display of   *)
(* utils.js) over the query of QueryLifecycle: the progress bar, its title *)
(* and colour, and the Kill and Preempt buttons.  The page shows a         *)
(* QueryInfo that the coordinator puts together while the query goes on:   *)
(* its state is read first, its cause and its statistics later             *)
(* (QueryStateMachine.getQueryInfo).                                       *)
(*                                                                         *)
(* Lost and repeated requests are the subject of QueryDetail and are left  *)
(* out here.                                                               *)
(***************************************************************************)
EXTENDS QueryLifecycle, Integers

CONSTANT MaxDrivers

VARIABLES
  stats,   \* the drivers of the query, as far as the head shows them
  fetched, \* the state a QueryInfo under way was given
  shown    \* the QueryInfo the page shows

headerVars == <<stats, fetched, shown>>

Stats == [scheduled : BOOLEAN, fullyBlocked : BOOLEAN, reserved : BOOLEAN,
          totalDrivers : 0..MaxDrivers, completedDrivers : 0..MaxDrivers]

HeaderInit ==
  /\ Init
  /\ stats = [scheduled |-> FALSE, fullyBlocked |-> FALSE, reserved |-> FALSE,
              totalDrivers |-> 0, completedDrivers |-> 0]
  /\ fetched = Null /\ shown = Null

-----------------------------------------------------------------------------
(* What the page makes of a QueryInfo.                                     *)

ErrorType(cause) ==
  CASE cause = Null -> "none"
    [] cause \in Killer \cup Canceler -> "USER_ERROR"
    [] cause \in Preempter -> "INSUFFICIENT_RESOURCES"
    [] cause = Commit -> "EXTERNAL"
    [] OTHER -> "INTERNAL_ERROR"

isQueryEnded(query) == query.state \in {"FINISHED", "FAILED", "CANCELED"}

getQueryStateColor(query) ==
  CASE query.state \in {"PLANNING", "FINISHED"} -> query.state
    [] query.state \in {"STARTING", "FINISHING", "RUNNING"} ->
         IF query.stats.fullyBlocked THEN "BLOCKED" ELSE "RUNNING"
    [] query.state = "FAILED" ->
         (CASE query.errorType = "USER_ERROR" ->
                 IF query.errorCode = "USER_CANCELED" THEN "CANCELED" ELSE "USER_ERROR"
            [] query.errorType = "EXTERNAL" -> "EXTERNAL_ERROR"
            [] query.errorType = "INSUFFICIENT_RESOURCES" -> "INSUFFICIENT_RESOURCES"
            [] OTHER -> "UNKNOWN_ERROR")
    [] OTHER -> "QUEUED"

(* The words of the title.  runningDrivers is never negative.              *)
getHumanReadableState(query) ==
  CASE query.state = "RUNNING" /\ query.stats.scheduled /\ query.stats.totalDrivers > 0 ->
         {IF query.stats.fullyBlocked THEN "BLOCKED" ELSE "RUNNING"}
           \cup (IF query.stats.reserved THEN {"(RESERVED)"} ELSE {})
    [] query.state = "FAILED" /\ query.errorType # "none" ->
         (CASE query.errorType = "USER_ERROR" ->
                 {IF query.errorCode = "USER_CANCELED" THEN "USER CANCELED" ELSE "USER ERROR"}
            [] query.errorType = "INTERNAL_ERROR" -> {"INTERNAL ERROR"}
            [] query.errorType = "INSUFFICIENT_RESOURCES" -> {"INSUFFICIENT RESOURCES"}
            [] query.errorType = "EXTERNAL" -> {"EXTERNAL ERROR"})
    [] OTHER -> {query.state}

(* A percentage is there when all stages are scheduled; the page takes a   *)
(* percentage of 0 for none.                                               *)
HasProgress(s) == s.scheduled /\ s.totalDrivers # 0
SeesProgress(s) == HasProgress(s) /\ s.completedDrivers # 0

(* Math.round of the percentage.                                           *)
Rounded(s) == (200 * s.completedDrivers + s.totalDrivers) \div (2 * s.totalDrivers)

getProgressBarPercentage(query) ==
  IF ~SeesProgress(query.stats) \/ query.state # "RUNNING" THEN 100 ELSE Rounded(query.stats)

(* Whether the title ends with the percentage.                             *)
TitleHasPercentage(query) == SeesProgress(query.stats) /\ query.state = "RUNNING"

Header(query) ==
  [title |-> getHumanReadableState(query), percentage |-> TitleHasPercentage(query),
   width |-> getProgressBarPercentage(query), color |-> getQueryStateColor(query),
   buttons |-> ~isQueryEnded(query)]

-----------------------------------------------------------------------------
(* The statistics change while the query runs.                             *)
Schedule ==
  /\ queryState = "RUNNING" /\ ~stats.scheduled
  /\ stats' = [stats EXCEPT !.scheduled = TRUE]
  /\ UNCHANGED <<vars, fetched, shown>>

AddDriver ==
  /\ queryState = "RUNNING" /\ stats.totalDrivers < MaxDrivers
  /\ stats' = [stats EXCEPT !.totalDrivers = @ + 1]
  /\ UNCHANGED <<vars, fetched, shown>>

CompleteDriver ==
  /\ stats.completedDrivers < stats.totalDrivers
  /\ stats' = [stats EXCEPT !.completedDrivers = @ + 1, !.fullyBlocked = FALSE]
  /\ UNCHANGED <<vars, fetched, shown>>

BlockOrUnblock ==
  /\ stats.totalDrivers > stats.completedDrivers
  /\ stats' = [stats EXCEPT !.fullyBlocked = ~@]
  /\ UNCHANGED <<vars, fetched, shown>>

(* The cluster memory manager moves the query to the reserved pool.        *)
Promote ==
  /\ queryState = "RUNNING" /\ ~stats.reserved
  /\ stats' = [stats EXCEPT !.reserved = TRUE]
  /\ UNCHANGED <<vars, fetched, shown>>

-----------------------------------------------------------------------------
(* A QueryInfo, in the order getQueryInfo reads it.                        *)

CauseOf(state) == IF state = "FAILED" THEN failureCause ELSE Null

FetchState ==
  /\ fetched = Null
  /\ fetched' = queryState
  /\ UNCHANGED <<vars, stats, shown>>

(* Mutant: the state is read again, after the cause.                       *)
FetchRestStateLast ==
  /\ fetched # Null
  /\ LET cause == CauseOf(fetched)
     IN shown' = [state |-> queryState, errorType |-> ErrorType(cause),
                  errorCode |-> Code(cause), stats |-> stats]
  /\ fetched' = Null
  /\ UNCHANGED <<vars, stats>>

FetchRest ==
  /\ fetched # Null
  /\ LET cause == CauseOf(fetched)
     IN shown' = [state |-> fetched, errorType |-> ErrorType(cause),
                  errorCode |-> Code(cause), stats |-> stats]
  /\ fetched' = Null
  /\ UNCHANGED <<vars, stats>>

(* A click on Kill or Preempt sends the request.                           *)
Click(a) ==
  /\ shown # Null /\ Header(shown).buttons
  /\ Begin(a)
  /\ UNCHANGED headerVars

(* Everything that goes on without the page.                               *)
Server ==
  /\ \/ Finishing
     \/ \E t \in Thread : Failing(t)
     \/ \E t \in Thread \ Administrator : Begin(t)
     \/ \E a \in Administrator : Asking(a)
  /\ UNCHANGED headerVars

Refresh == FetchState \/ FetchRest

HeaderNext ==
  \/ Server \/ Refresh
  \/ Schedule \/ AddDriver \/ CompleteDriver \/ BlockOrUnblock \/ Promote
  \/ \E a \in Administrator : Click(a)

allVars == <<vars, headerVars>>

(* The page goes on refreshing, and the threads that have begun go on.     *)
HeaderFairness ==
  /\ WF_allVars(Refresh)
  /\ WF_allVars(asyncCommit /\ UNCHANGED headerVars)
  /\ WF_allVars((CommitSucceeds \/ CommitFails) /\ UNCHANGED headerVars)
  /\ WF_allVars(transitionToFinished /\ UNCHANGED headerVars)
  /\ \A t \in Thread : WF_allVars(Failing(t) /\ UNCHANGED headerVars)
  /\ \A a \in Administrator : WF_allVars(Asking(a) /\ UNCHANGED headerVars)

HeaderSpec == HeaderInit /\ [][HeaderNext]_allVars /\ HeaderFairness

-----------------------------------------------------------------------------
(* A page that shows a failed query says how it failed, and says it of the *)
(* cause the query has now, however the failure and the request            *)
(* interleave: getQueryInfo captures the state first.                      *)
FailureNamed ==
  shown # Null /\ shown.state = "FAILED" =>
    /\ shown.errorCode = Code(failureCause) /\ shown.errorType = ErrorType(failureCause)
    /\ Header(shown).title # {"FAILED"}

(* A title that says BLOCKED stands on the colour of blocked queries:      *)
(* getQueryStateColor and getHumanReadableState each test the state for    *)
(* themselves.                                                             *)
TitleAndColorAgree ==
  shown # Null =>
    LET header == Header(shown)
    IN "BLOCKED" \in header.title => header.color = "BLOCKED"

(* A part-filled bar has its percentage in the title                       *)
(* (getProgressBarPercentage, getProgressBarTitle).                        *)
BarAndTitleAgree ==
  shown # Null => (Header(shown).width < 100 => Header(shown).percentage)

(* What the head says of the query, taken together: a failure is the       *)
(* query's, and title, colour and bar agree (getQueryInfo,                 *)
(* getHumanReadableState, getQueryStateColor, getProgressBarTitle).        *)
HeadsTellTruth == FailureNamed /\ TitleAndColorAgree /\ BarAndTitleAgree

(* What the page shows of a query that ended is the end of the query, and  *)
(* the head does not change any more, but for the buttons being gone       *)
(* (getQueryInfo reads the state first).                                   *)
EndShownStays ==
  [][shown # Null /\ isQueryEnded(shown) =>
       Header(shown').title = Header(shown).title /\ Header(shown').color = Header(shown).color
       /\ shown'.state = queryState]_allVars

(* Whoever tries to end the query, by a click on Kill or Preempt or        *)
(* otherwise, sees it end on the page, also when it is committing and when *)
(* the commit fails.                                                       *)
EndShown ==
  (\E t \in Thread : pc[t] # "idle") ~> (shown # Null /\ isQueryEnded(shown))

=============================================================================

----------------------------- MODULE QueryList -----------------------------
(***************************************************************************)
(* The list of queries on the main page of the web UI (QueryList.jsx).  A  *)
(* refresh keeps the queries it shows where they are, with their new data, *)
(* and adds the new ones at the end; every reorderInterval it filters and  *)
(* sorts the whole list again.  A change of the filters, of the order or   *)
(* of the limit rebuilds the list at once from the last answer, a change   *)
(* of the search string 200 ms later unless a refresh comes first.         *)
(*                                                                         *)
(* A failed query's state is its error type, so that one set of states     *)
(* stands for stateFilters and errorTypeFilters.  The order of queries     *)
(* with the same sort key depends on these queries alone and not on the    *)
(* order of the answer, so that allQueries is a set.  Time is counted in   *)
(* refreshes.                                                              *)
(***************************************************************************)
EXTENDS Polling, Integers, FiniteSets, Sequences, Functions

CONSTANTS
  MaxQueryId,      \* how many queries are ever submitted
  ErrorTypes,      \* the error types of failed queries
  Matching,        \* for each search term, the queries whose text has it
  Memory,          \* cumulative memory of each query, a sort key
  Limits,          \* the choices of the Show menu, 0 for "All queries"
  SortTypes,       \* the choices of the Sort menu
  Intervals,       \* the choices of the Reorder Interval menu, 0 for "Off"
  Clickable        \* the filters the user clicks

(* What the sort keys and the limits are.                                  *)
ListConstants ==
  /\ MaxQueryId \in Nat /\ Limits \subseteq Nat
  /\ Memory \in [1..MaxQueryId -> Int]

VARIABLES
  coordinator,     \* the queries of the coordinator
  submitted,       \* how many were submitted
  allQueries, displayedQueries, filters, searchString,       \* this.state
  maxQueries, currentSortType, currentSortOrder, reorderInterval,
  sinceReorder,    \* lastRefresh - lastReorder, in refreshes
  searchTimer,     \* whether searchTimeoutId is the id of a live timer
  rebuilt          \* whether the list was built since the last keystroke

serverVars == <<coordinator, submitted>>
settings == <<filters, searchString, maxQueries, currentSortType,
              currentSortOrder, reorderInterval>>
listVars == <<allQueries, displayedQueries, sinceReorder, searchTimer, rebuilt>>
vars == <<pollVars, serverVars, settings, listVars>>

State == {"QUEUED", "RUNNING", "FINISHED"} \cup ErrorTypes

(* RUNNING and QUEUED, and every error type but USER_ERROR.                *)
DefaultFilters == State \ {"FINISHED", "USER_ERROR"}

Init ==
  /\ PollInit([id |-> 1, phase |-> "sent", queries |-> {}])
  /\ coordinator = {} /\ submitted = 0
  /\ allQueries = {} /\ displayedQueries = <<>>
  /\ filters = DefaultFilters
  /\ searchString = ""
  /\ maxQueries \in Limits
  /\ currentSortType = "CREATED" /\ currentSortOrder = "DESCENDING"
  /\ reorderInterval = CHOOSE i \in Intervals : i # 0
  /\ sinceReorder = 0 /\ searchTimer = FALSE /\ rebuilt = TRUE

-----------------------------------------------------------------------------
(* The coordinator: queries are submitted, run, end and are forgotten.     *)
Submit ==
  /\ submitted < MaxQueryId
  /\ submitted' = submitted + 1
  /\ coordinator' = coordinator \cup {[id |-> submitted', state |-> "QUEUED"]}

Advance(q) ==
  /\ \E s \in State :
       /\ \/ q.state = "QUEUED" /\ s \in {"RUNNING"} \cup ErrorTypes
          \/ q.state = "RUNNING" /\ s \in {"FINISHED"} \cup ErrorTypes
       /\ coordinator' = (coordinator \ {q}) \cup {[q EXCEPT !.state = s]}
  /\ UNCHANGED submitted

Forget(q) ==
  /\ q.state \notin {"QUEUED", "RUNNING"}
  /\ coordinator' = coordinator \ {q}
  /\ UNCHANGED submitted

Coordinator ==
  /\ Submit \/ \E q \in coordinator : Advance(q) \/ Forget(q)
  /\ UNCHANGED <<pollVars, settings, listVars>>

Answers == \E r \in requests :
  /\ r.phase = "sent"
  /\ requests' = (requests \ {r}) \cup {[r EXCEPT !.phase = "answered", !.queries = coordinator]}
  /\ UNCHANGED <<timers, timeoutId, serverVars, settings, listVars>>

Failures == \E r \in requests :
  /\ r.phase # "failed"
  /\ requests' = (requests \ {r}) \cup {[r EXCEPT !.phase = "failed", !.queries = {}]}
  /\ UNCHANGED <<timers, timeoutId, serverVars, settings, listVars>>

-----------------------------------------------------------------------------
SORT_TYPE(type, q) == IF type = "CREATED" THEN q.id ELSE Memory[q.id]

(* The members of a set in an order of their keys.                         *)
InOrder(S, key) ==
  CHOOSE s \in [1..Cardinality(S) -> S] :
    \A i, j \in DOMAIN s : i < j => s[i] # s[j] /\ key[s[i]] <= key[s[j]]

Sorted(S, type, order) ==
  InOrder(S, [q \in S |-> IF order = "ASCENDING" THEN SORT_TYPE(type, q)
                                                 ELSE -SORT_TYPE(type, q)])

Limit(seq, max) == IF max # 0 /\ Len(seq) > max THEN SubSeq(seq, 1, max) ELSE seq

sortAndLimitQueries(S, type, order, max) == Limit(Sorted(S, type, order), max)

(* A search term matches the text of a query or the name of its state.     *)
Matches(q, term) == term = "" \/ q.id \in Matching[term] \/ q.state = term

filterQueries(S, states, term) == {q \in S : q.state \in states /\ Matches(q, term)}

(* The queries that were displayed before and are in the answer, in their  *)
(* places and with their new data.                                         *)
Updated(answer) ==
  LET positions == {i \in DOMAIN displayedQueries :
                      \E n \in answer : n.id = displayedQueries[i].id}
      kept == InOrder(positions, [i \in positions |-> i])
  IN  [k \in DOMAIN kept |-> CHOOSE n \in answer : n.id = displayedQueries[kept[k]].id]

(* Mutant: a displayed query is not taken out of the map of new ones.      *)
MergeForgetsDisplayed(answer, reorder) ==
  LET updated == Updated(answer)
      new == filterQueries(answer, filters, searchString)
  IN  IF reorder
      THEN Sorted(filterQueries(Range(updated), filters, searchString) \cup new,
                  currentSortType, currentSortOrder)
      ELSE updated \o Sorted(new, currentSortType, currentSortOrder)

(* Mutant: a refresh never filters or sorts what is shown already.         *)
MergeNeverReorders(answer, reorder) ==
  LET updated == Updated(answer)
      new == filterQueries(answer \ Range(updated), filters, searchString)
  IN  updated \o Sorted(new, currentSortType, currentSortOrder)

(* What a refresh makes of the list: the queries displayed before that are *)
(* in the answer, and the others that pass the filters.                    *)
Merge(answer, reorder) ==
  LET updated == Updated(answer)
      new == filterQueries(answer \ Range(updated), filters, searchString)
  IN  IF reorder
      THEN Sorted(filterQueries(Range(updated), filters, searchString) \cup new,
                  currentSortType, currentSortOrder)
      ELSE updated \o Sorted(new, currentSortType, currentSortOrder)

-----------------------------------------------------------------------------
(* The timer fires: refreshLoop also clears the timer of a pending search. *)
refreshLoop(i) ==
  /\ SendRequest(i, [id |-> NewRequest, phase |-> "sent", queries |-> {}])
  /\ searchTimer' = FALSE
  /\ UNCHANGED <<serverVars, settings, allQueries, displayedQueries, sinceReorder, rebuilt>>

HandleQueries(r) ==
  LET since   == sinceReorder + 1
      reorder == reorderInterval # 0 /\ since >= reorderInterval
  IN  /\ r.phase = "answered"
      /\ requests' = requests \ {r}
      /\ allQueries' = r.queries
      /\ displayedQueries' = Limit(Merge(r.queries, reorder), maxQueries)
      /\ sinceReorder' = IF reorder THEN 0
                         ELSE IF \A i \in Intervals : since > i THEN sinceReorder ELSE since
      /\ rebuilt' = TRUE
      /\ ResetTimer(TRUE)
      /\ UNCHANGED <<serverVars, settings, searchTimer>>

HandleError(r) ==
  /\ r.phase = "failed"
  /\ requests' = requests \ {r}
  /\ ResetTimer(TRUE)
  /\ UNCHANGED <<serverVars, settings, listVars>>

(* What executeSearch and the clicks that rebuild the list have in common. *)
Rebuild(states, term, type, order, max) ==
  /\ displayedQueries' = sortAndLimitQueries(
       filterQueries(allQueries, states, term), type, order, max)
  /\ rebuilt' = TRUE
  /\ UNCHANGED <<pollVars, serverVars, allQueries, sinceReorder>>

handleSearchStringChange(term) ==
  /\ term # searchString
  /\ searchString' = term
  /\ searchTimer' = TRUE
  /\ rebuilt' = FALSE
  /\ UNCHANGED <<pollVars, serverVars, filters, maxQueries, currentSortType, currentSortOrder,
                 reorderInterval, allQueries, displayedQueries, sinceReorder>>

executeSearch ==
  /\ searchTimer
  /\ searchTimer' = FALSE
  /\ Rebuild(filters, searchString, currentSortType, currentSortOrder, maxQueries)
  /\ UNCHANGED settings

handleMaxQueriesClick(max) ==
  /\ maxQueries' = max
  /\ Rebuild(filters, searchString, currentSortType, currentSortOrder, max)
  /\ UNCHANGED <<filters, searchString, currentSortType, currentSortOrder, reorderInterval,
                 searchTimer>>

handleReorderClick(interval) ==
  /\ reorderInterval # interval
  /\ reorderInterval' = interval
  /\ UNCHANGED <<pollVars, serverVars, listVars, filters, searchString, maxQueries,
                 currentSortType, currentSortOrder>>

handleSortClick(type) ==
  LET order == IF currentSortType = type /\ currentSortOrder = "DESCENDING"
               THEN "ASCENDING" ELSE "DESCENDING"
  IN  /\ currentSortType' = type
      /\ currentSortOrder' = order
      /\ Rebuild(filters, searchString, type, order, maxQueries)
      /\ UNCHANGED <<filters, searchString, maxQueries, reorderInterval, searchTimer>>

(* handleStateFilterClick and handleErrorTypeFilterClick, which give no    *)
(* limit.                                                                  *)
handleFilterClick(state) ==
  LET newFilters == IF state \in filters THEN filters \ {state} ELSE filters \cup {state}
  IN  /\ filters' = newFilters
      /\ Rebuild(newFilters, searchString, currentSortType, currentSortOrder, 0)
      /\ UNCHANGED <<searchString, maxQueries, currentSortType, currentSortOrder,
                     reorderInterval, searchTimer>>

-----------------------------------------------------------------------------
User ==
  \/ \E term \in DOMAIN Matching \cup {""} : handleSearchStringChange(term)
  \/ \E max \in Limits : handleMaxQueriesClick(max)
  \/ \E i \in Intervals : handleReorderClick(i)
  \/ \E type \in SortTypes : handleSortClick(type)
  \/ \E state \in Clickable : handleFilterClick(state)

Handlers == \E r \in requests : HandleQueries(r) \/ HandleError(r)

Refreshes == \E i \in timers : refreshLoop(i)

Next == Coordinator \/ Answers \/ Failures \/ Handlers \/ Refreshes \/ executeSearch \/ User

(* The browser runs the handlers and timers that are due; of requests that *)
(* are repeated for ever, not all are lost.                                *)
Fairness ==
  /\ WF_vars(Handlers) /\ WF_vars(Refreshes)
  /\ SF_vars(Answers) /\ SF_vars(\E r \in requests : HandleQueries(r))

Spec == Init /\ [][Next]_vars /\ Fairness

-----------------------------------------------------------------------------
(* One row for each query, with the data of the last answer: no merge and  *)
(* no rebuild shows a query twice, shows one that the coordinator has      *)
(* forgotten, or leaves old data in a row.                                 *)
RowsAreCurrent ==
  /\ Range(displayedQueries) \subseteq allQueries
  /\ \A i, j \in DOMAIN displayedQueries :
       displayedQueries[i].id = displayedQueries[j].id => i = j

(* While the list has room, it shows every query of the last answer that   *)
(* passes the filters and the search, if it was built since the last       *)
(* keystroke: neither merging nor dropping a pending search loses one.     *)
NothingHidden ==
  rebuilt /\ (maxQueries = 0 \/ Len(displayedQueries) < maxQueries)
    => filterQueries(allQueries, filters, searchString) \subseteq Range(displayedQueries)

(* The list shows the last answer, and all that is asked for of it.        *)
ListCurrent == RowsAreCurrent /\ NothingHidden

(* What the settings ask for.                                              *)
Wanted == sortAndLimitQueries(filterQueries(allQueries, filters, searchString),
                              currentSortType, currentSortOrder, maxQueries)

(* While reordering is on and the user changes nothing more, the list is   *)
(* again and again exactly what the settings ask for, even if a refresh    *)
(* dropped a pending search.                                               *)
SettingsTakeEffect ==
  <>[][FALSE]_settings /\ <>[](reorderInterval # 0) => []<>(displayedQueries = Wanted)

=============================================================================

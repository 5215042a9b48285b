-------------------------- MODULE WorkerThreadList --------------------------
(***************************************************************************)
(* The thread snapshots of a worker's page (WorkerThreadList.jsx).  A      *)
(* click asks the worker for its threads; nothing keeps the user from      *)
(* clicking again before the answer, and the selected group and state stay *)
(* as they are when a new snapshot comes.                                  *)
(*                                                                         *)
(* A thread has a group (the part of its name before its number), a state, *)
(* and is or is not a thread of a query.  A group is always created with   *)
(* its first thread, so that a snapshot's groups are those of its threads. *)
(* React unmounts a page whose render fails.                               *)
(***************************************************************************)
EXTENDS Naturals, FiniteSets

CONSTANTS
  Null,
  Group,          \* the groups of threads
  QueryGroup,     \* those whose threads have names of query threads
  ThreadState,    \* states of threads
  MaxVersion,     \* how often the worker's threads change
  MaxRequests     \* how many requests are in flight at most

ALL_THREADS == "All Threads"
QUERY_THREADS == "Running Queries"
ALL_THREAD_STATE == "ALL"

(* No group has the name of one of the two lists that are not of a group.  *)
GroupNames == Group \cap {ALL_THREADS, QUERY_THREADS} = {}

VARIABLES
  worker,     \* the worker's threads: [version, threads], one thread a group at most
  requests,   \* [id, phase, answer]
  threads, initialized, selectedGroup, selectedThreadState,   \* this.state
  mounted,    \* whether React still shows the page
  newest,     \* the newest version that was ever shown
  overlap     \* whether a request was ever sent while another was in flight

pageVars == <<threads, initialized, selectedGroup, selectedThreadState, mounted>>
vars == <<worker, requests, pageVars, newest, overlap>>

Thread == [group : Group, state : ThreadState]

(* The threads of a worker, at most one of each group.                     *)
ThreadSets == {T \in SUBSET Thread : \A t, u \in T : t.group = u.group => t = u}

Init ==
  /\ worker \in [version : {0}, threads : ThreadSets]
  /\ requests = {}
  /\ threads = Null /\ initialized = FALSE /\ mounted = TRUE
  /\ selectedGroup = ALL_THREADS /\ selectedThreadState = ALL_THREAD_STATE
  /\ newest = 0 /\ overlap = FALSE

-----------------------------------------------------------------------------
(* The worker and the network.                                             *)
ThreadsChange ==
  /\ worker.version < MaxVersion
  /\ worker' \in [version : {worker.version + 1}, threads : ThreadSets \ {worker.threads}]
  /\ UNCHANGED <<requests, pageVars, newest, overlap>>

Answers == \E r \in requests :
  /\ r.phase = "sent"
  /\ requests' = (requests \ {r}) \cup {[r EXCEPT !.phase = "answered", !.answer = worker]}
  /\ UNCHANGED <<worker, pageVars, newest, overlap>>

Failures == \E r \in requests :
  /\ r.phase # "failed"
  /\ requests' = (requests \ {r}) \cup {[r EXCEPT !.phase = "failed", !.answer = Null]}
  /\ UNCHANGED <<worker, pageVars, newest, overlap>>

-----------------------------------------------------------------------------
(* The lists of a snapshot: one for all threads, one for the threads of    *)
(* queries, and one for each group that has a thread.                      *)
processThreads(answer) ==
  LET groups == {t.group : t \in answer.threads}
      list(g) == CASE g = ALL_THREADS -> answer.threads
                   [] g = QUERY_THREADS -> {t \in answer.threads : t.group \in QueryGroup}
                   [] OTHER -> {t \in answer.threads : t.group = g}
  IN  [version |-> answer.version,
       groups |-> [g \in groups \cup {ALL_THREADS, QUERY_THREADS} |-> list(g)]]

filterThreads(group, state) ==
  {t \in threads.groups[group] : t.state = state \/ state = ALL_THREAD_STATE}

(* render fails on a selected group that the snapshot does not have.       *)
Renders == threads' # Null => selectedGroup' \in DOMAIN threads'.groups

(* setState with the render it causes; of an unmounted page it does        *)
(* nothing.                                                                *)
SetState(snapshot, init, group, state) ==
  \/ /\ mounted
     /\ threads' = snapshot /\ initialized' = init
     /\ selectedGroup' = group /\ selectedThreadState' = state
     /\ mounted' = Renders
  \/ ~mounted /\ UNCHANGED pageVars

(* captureSnapshot with its two handlers.                                  *)
captureSnapshot ==
  /\ requests' = requests \cup
       {[id |-> CHOOSE i \in 1..MaxRequests : \A r \in requests : r.id # i,
         phase |-> "sent", answer |-> Null]}
  /\ overlap' = (overlap \/ requests # {})

(* Mutant: the first snapshot is kept.                                     *)
HandleThreadsOnce(r) ==
  /\ r.phase = "answered"
  /\ requests' = requests \ {r}
  /\ SetState(IF threads = Null THEN processThreads(r.answer) ELSE threads, TRUE,
              selectedGroup, selectedThreadState)
  /\ newest' = IF r.answer.version > newest THEN r.answer.version ELSE newest
  /\ UNCHANGED <<worker, overlap>>

HandleThreads(r) ==
  /\ r.phase = "answered"
  /\ requests' = requests \ {r}
  /\ SetState(processThreads(r.answer), TRUE, selectedGroup, selectedThreadState)
  /\ newest' = IF r.answer.version > newest THEN r.answer.version ELSE newest
  /\ UNCHANGED <<worker, overlap>>

HandleError(r) ==
  /\ r.phase = "failed"
  /\ requests' = requests \ {r}
  /\ SetState(threads, TRUE, selectedGroup, selectedThreadState)
  /\ UNCHANGED <<worker, newest, overlap>>

(* "Capture Snapshot" is there until something was loaded or failed, "New  *)
(* Snapshot" with every snapshot.                                          *)
ButtonShown == mounted /\ (threads # Null \/ ~initialized)

handleNewSnapshotClick ==
  /\ ButtonShown
  /\ Cardinality(requests) < MaxRequests
  /\ SetState(threads, FALSE, selectedGroup, selectedThreadState)
  /\ captureSnapshot
  /\ UNCHANGED <<worker, newest>>

handleGroupClick(group) ==
  /\ mounted /\ threads # Null /\ group \in DOMAIN threads.groups
  /\ SetState(threads, initialized, group, selectedThreadState)
  /\ UNCHANGED <<worker, requests, newest, overlap>>

handleThreadStateClick(state) ==
  /\ mounted /\ threads # Null
  /\ SetState(threads, initialized, selectedGroup, state)
  /\ UNCHANGED <<worker, requests, newest, overlap>>

(* What render shows.                                                      *)
Display ==
  CASE ~mounted -> "nothing"
    [] mounted /\ threads = Null ->
         IF initialized THEN "Thread snapshot could not be loaded" ELSE "Capture Snapshot"
    [] OTHER ->
         LET shown == filterThreads(selectedGroup, selectedThreadState)
         IN  CASE shown # {} -> "threads"
               [] shown = {} /\ selectedThreadState = ALL_THREAD_STATE -> "No threads in group"
               [] shown = {} /\ selectedThreadState # ALL_THREAD_STATE
                             /\ selectedGroup = ALL_THREADS -> "No threads with state"
               [] OTHER -> "No threads in group with state"

Handlers == \E r \in requests : HandleThreads(r) \/ HandleError(r)

User ==
  \/ handleNewSnapshotClick
  \/ \E g \in Group \cup {ALL_THREADS, QUERY_THREADS} : handleGroupClick(g)
  \/ \E s \in ThreadState \cup {ALL_THREAD_STATE} : handleThreadStateClick(s)

Next == ThreadsChange \/ Answers \/ Failures \/ Handlers \/ User

Spec == Init /\ [][Next]_vars

-----------------------------------------------------------------------------
(* The lists of a snapshot: every thread is in the list of all threads and *)
(* in the list of exactly one group, and the list of queries has nothing   *)
(* that the groups do not have.                                            *)
GroupsPartitionThreads ==
  threads # Null =>
    LET own == DOMAIN threads.groups \cap Group
    IN  /\ \A t \in threads.groups[ALL_THREADS] :
             \E g \in own : \A h \in own : t \in threads.groups[h] <=> h = g
        /\ threads.groups[QUERY_THREADS] \subseteq UNION {threads.groups[g] : g \in own}

(* A snapshot is never replaced by an older one if the user waits for each *)
(* answer before the next click; otherwise the last answer to come wins.   *)
SnapshotsGoForward ==
  ~overlap /\ mounted /\ threads # Null => threads.version = newest

(* The page goes down only when the group selected has no thread in a new  *)
(* snapshot: no click and no failure can do it.                            *)
DownOnlyWithoutGroup ==
  Display = "nothing" => selectedGroup \in Group /\ selectedGroup \notin DOMAIN threads.groups

(* What the page shows of the worker's threads, taken together.            *)
SnapshotsShown == SnapshotsGoForward /\ GroupsPartitionThreads /\ DownOnlyWithoutGroup

=============================================================================

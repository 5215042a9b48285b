---------------------------- MODULE WorkerStatus ----------------------------
(***************************************************************************)
(* The page of a worker (WorkerStatus.jsx) and the memory pools it shows.  *)
(* The worker answers with what MemoryPool.getInfo returns for one pool    *)
(* after the other, so queries reserve, free and move between the two; the *)
(* page polls every second and draws a bar and a list of queries for each  *)
(* pool.  The CPU and heap charts are left out.                            *)
(***************************************************************************)
EXTENDS MemoryPool, Polling

CONSTANTS general, reserved, Null

(* A worker has two pools.                                                 *)
TwoPools == Pool = {general, reserved}

VARIABLES
  serverInfo,    \* this.state.serverInfo: the pools, Null before an answer
  initialized

pageVars == <<serverInfo, initialized>>
statusVars == <<pollVars, vars, pageVars>>

NewGet(id) == [id |-> id, phase |-> "sent", general |-> Null, reserved |-> Null]

StatusInit ==
  /\ Init
  /\ \A q \in Query : memoryPool[q] = general
  /\ PollInit(NewGet(1))
  /\ serverInfo = Null /\ initialized = FALSE

-----------------------------------------------------------------------------
Worker == Next /\ UNCHANGED <<pollVars, pageVars>>

(* getInfo takes the pool's monitor, which a move away from it holds.      *)
getInfo(p) ==
  [reservedBytes |-> reservedBytes[p],
   reservedRevocableBytes |-> reservedRevocableBytes[p],
   queryMemoryReservations |-> queryReservations[p],
   queryMemoryRevocableReservations |-> queryRevocableReservations[p]]

CanLock(p) == moving # NoMove => moving.source # p

(* The worker's answer: the general pool, then the reserved one.           *)
Answers == \E r \in requests :
  /\ \/ /\ r.phase = "sent" /\ CanLock(general)
        /\ requests' = (requests \ {r}) \cup
             {[r EXCEPT !.phase = "general", !.general = getInfo(general)]}
     \/ /\ r.phase = "general" /\ CanLock(reserved)
        /\ requests' = (requests \ {r}) \cup
             {[r EXCEPT !.phase = "answered", !.reserved = getInfo(reserved)]}
  /\ UNCHANGED <<timers, timeoutId, vars, pageVars>>

Failures == \E r \in requests :
  /\ r.phase # "failed"
  /\ requests' = (requests \ {r}) \cup {[NewGet(r.id) EXCEPT !.phase = "failed"]}
  /\ UNCHANGED <<timers, timeoutId, vars, pageVars>>

-----------------------------------------------------------------------------
HandleStatus(r) ==
  /\ r.phase = "answered"
  /\ requests' = requests \ {r}
  /\ serverInfo' = [p \in Pool |-> IF p = general THEN r.general ELSE r.reserved]
  /\ initialized' = TRUE
  /\ ResetTimer(TRUE)
  /\ UNCHANGED vars

HandleError(r) ==
  /\ r.phase = "failed"
  /\ requests' = requests \ {r}
  /\ initialized' = TRUE
  /\ ResetTimer(TRUE)
  /\ UNCHANGED <<vars, serverInfo>>

refreshLoop(i) ==
  /\ SendRequest(i, NewGet(NewRequest))
  /\ UNCHANGED <<vars, pageVars>>

StatusNext ==
  \/ Worker \/ Answers \/ Failures
  \/ \E r \in requests : HandleStatus(r) \/ HandleError(r)
  \/ \E i \in timers : refreshLoop(i)

StatusSpec == StatusInit /\ [][StatusNext]_statusVars

-----------------------------------------------------------------------------
(* What the page draws of a pool.                                          *)

(* The labels of the bar of renderPoolBar.                                 *)
renderPoolBar(pool, size) ==
  [nonRevocable |-> pool.reservedBytes - pool.reservedRevocableBytes,
   revocable    |-> pool.reservedRevocableBytes,
   free         |-> size - pool.reservedBytes]

(* Mutant: a query with revocable memory only is not listed.               *)
ListReserved(pool) ==
  {<<q, pool.queryMemoryReservations[q], pool.queryMemoryRevocableReservations[q]>> :
     q \in {x \in Query : pool.queryMemoryReservations[x] # 0}}

(* The rows of renderPoolQueries: a query with its reserved and revocable  *)
(* bytes, from two maps of which it may be in one only.                    *)
renderPoolQueries(pool) ==
  LET reservations == {q \in Query : pool.queryMemoryReservations[q] # 0}
      revocable    == {q \in Query : pool.queryMemoryRevocableReservations[q] # 0}
  IN  {<<q, pool.queryMemoryReservations[q], 0>> : q \in reservations \ revocable}
      \cup {<<q, pool.queryMemoryReservations[q], pool.queryMemoryRevocableReservations[q]>> :
              q \in reservations \cap revocable}
      \cup {<<q, 0, pool.queryMemoryRevocableReservations[q]>> :
              q \in revocable \ reservations}

(* Whatever happened while the worker answered, the rows of a pool's list  *)
(* account for all the bytes that its bar shows as not free, and for its   *)
(* revocable ones: the list and the bar of one pool are of one moment      *)
(* (getInfo, renderPoolBar, renderPoolQueries).                            *)
ListAccountsForBar ==
  serverInfo # Null => \A p \in Pool :
    LET rows == renderPoolQueries(serverInfo[p])
        bar  == renderPoolBar(serverInfo[p], maxBytes[p])
    IN  /\ Total([row \in rows |-> row[2]]) = maxBytes[p] - bar.free
        /\ Total([row \in rows |-> row[3]]) = bar.revocable

=============================================================================

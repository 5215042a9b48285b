----------------------------- MODULE MemoryPool -----------------------------
(***************************************************************************)
(* The memory pools of a worker (MemoryPool.java) and the queries that     *)
(* reserve in them (QueryContext.java).  A method of a pool is atomic, it  *)
(* holds the pool's monitor.  A query that moves to another pool holds its *)
(* own monitor and that of the pool it leaves all along, and that of the   *)
(* other pool only inside each call: other queries use the target between  *)
(* the steps of a move.  Moves come one at a time (the synchronized        *)
(* SqlTaskManager.updateMemoryPoolAssignments).                            *)
(*                                                                         *)
(* A map without an entry and an entry of zero are not told apart.         *)
(*                                                                         *)
(* A caller whose reservation filled its pool is given the pool's future.  *)
(* An operator only then registers, with no lock held: it waits on a       *)
(* future of its own, completed by that of the pool or by                  *)
(* moreMemoryAvailable (updateMemoryFuture).  The output buffer and an     *)
(* operator that waits for revocable memory are never reached by           *)
(* moreMemoryAvailable.  A query has any number of operators: who waits is *)
(* a set of pools.                                                         *)
(***************************************************************************)
EXTENDS Integers, FiniteSetsExt

CONSTANTS
  Pool, Query,
  Tag,                  \* the allocation tags, and among them
  MOVE_QUERY_TAG,
  maxBytes,             \* the size of each pool
  maxTotalMemory,       \* a query's limits, of user and system memory
  maxRevocableMemory,   \* and of revocable memory
  NoMove

ASSUME MemoryAssumption ==
  /\ IsFiniteSet(Query) /\ IsFiniteSet(Tag)
  /\ maxBytes \in [Pool -> Nat]
  /\ maxTotalMemory \in Nat
  /\ maxRevocableMemory \in Nat
  /\ MOVE_QUERY_TAG \in Tag
  /\ NoMove \notin [query : Query, source : Pool, target : Pool,
                    step : {"free", "reserveRevocable", "freeRevocable", "put"},
                    pending : BOOLEAN, reserved : Nat, revocable : Nat,
                    tags : [Tag -> Nat]]

VARIABLES
  reservedBytes, reservedRevocableBytes,
  future,             \* whether the pool has a future, which is not done
  queryReservations, queryRevocableReservations,
  tagged,             \* taggedMemoryAllocations
  memoryPool,         \* the pool of each query's QueryContext
  waiting,            \* the pools whose future, not done, a caller was given
  blocked,            \* those on which operators wait that have registered
  late,               \* those on which they do so after the query had left them
  listeners,          \* the pools whose future unblocks all tasks of the query
  moving              \* the move under way

vars == <<reservedBytes, reservedRevocableBytes, future, queryReservations,
          queryRevocableReservations, tagged, memoryPool, waiting, blocked, late, listeners,
          moving>>

Move == [query : Query, source : Pool, target : Pool,
         step : {"free", "reserveRevocable", "freeRevocable", "put"},
         pending : BOOLEAN, reserved : Nat, revocable : Nat, tags : [Tag -> Nat]]

(* The types of the pools; no counter of a pool falls below zero.          *)
TypeOK ==
  /\ reservedBytes \in [Pool -> Nat]
  /\ reservedRevocableBytes \in [Pool -> Nat]
  /\ future \in [Pool -> BOOLEAN]
  /\ queryReservations \in [Pool -> [Query -> Nat]]
  /\ queryRevocableReservations \in [Pool -> [Query -> Nat]]
  /\ tagged \in [Pool -> [Query -> [Tag -> Nat]]]
  /\ memoryPool \in [Query -> Pool]
  /\ waiting \in [Query -> SUBSET Pool]
  /\ blocked \in [Query -> SUBSET Pool]
  /\ late \in [Query -> SUBSET Pool]
  /\ listeners \in [Query -> SUBSET Pool]
  /\ moving \in Move \cup {NoMove}

NoTags == [t \in Tag |-> 0]

Init ==
  /\ reservedBytes = [p \in Pool |-> 0]
  /\ reservedRevocableBytes = [p \in Pool |-> 0]
  /\ future = [p \in Pool |-> FALSE]
  /\ queryReservations = [p \in Pool |-> [q \in Query |-> 0]]
  /\ queryRevocableReservations = [p \in Pool |-> [q \in Query |-> 0]]
  /\ tagged = [p \in Pool |-> [q \in Query |-> NoTags]]
  /\ memoryPool \in {[q \in Query |-> general] : general \in Pool}
  /\ waiting = [q \in Query |-> {}]
  /\ blocked = [q \in Query |-> {}]
  /\ late = [q \in Query |-> {}]
  /\ listeners = [q \in Query |-> {}]
  /\ moving = NoMove

(* getFreeBytes; negative when the pool is over-committed.                 *)
FreeBytes(p) == maxBytes[p] - reservedBytes[p] - reservedRevocableBytes[p]

(* getFreeBytes once the step has changed the counters.                    *)
FreeAfter(p) == maxBytes[p] - reservedBytes'[p] - reservedRevocableBytes'[p]

-----------------------------------------------------------------------------
(* The methods of a pool.  reserve and reserveRevocable leave a future     *)
(* that is not done when the pool is full after them.                      *)

UpdateReservations(p, q, delta) ==
  /\ reservedBytes' = [reservedBytes EXCEPT ![p] = @ + delta]
  /\ queryReservations' = [queryReservations EXCEPT ![p][q] = @ + delta]

UpdateRevocableReservations(p, q, delta) ==
  /\ reservedRevocableBytes' = [reservedRevocableBytes EXCEPT ![p] = @ + delta]
  /\ queryRevocableReservations' = [queryRevocableReservations EXCEPT ![p][q] = @ + delta]

FutureIfFull(p) ==
  future' = [future EXCEPT ![p] = @ \/ FreeAfter(p) <= 0]

(* free completes the future when the pool has free bytes after it.        *)
Wakes(p) == FreeAfter(p) > 0 /\ future[p]

(* Who of a query's registered operators goes on waiting when the future   *)
(* of p is done: with a listener to p, which calls moreMemoryAvailable for *)
(* every task, nobody.                                                     *)
StillBlocked(operators, q, p) ==
  IF p \in listeners[q] THEN {} ELSE operators[q] \ {p}

(* The future of p is done: who was given it goes on.                      *)
CompleteFutureIf(p, wakes) ==
  /\ future' = [future EXCEPT ![p] = @ /\ ~wakes]
  /\ waiting' = [q \in Query |-> IF wakes THEN waiting[q] \ {p} ELSE waiting[q]]
  /\ blocked' = [q \in Query |->
                   IF wakes THEN StillBlocked(blocked, q, p) ELSE blocked[q]]
  /\ late' = [q \in Query |-> IF wakes THEN StillBlocked(late, q, p) ELSE late[q]]
  /\ listeners' = [q \in Query |-> IF wakes THEN listeners[q] \ {p} ELSE listeners[q]]

(* What the future returned by the move's reserve says after that.         *)
StillPending(p, wakes) ==
  IF moving # NoMove /\ wakes /\ moving.target = p
  THEN moving' = [moving EXCEPT !.pending = FALSE]
  ELSE UNCHANGED moving

(* The last byte of a query takes its tags with it.                        *)
TagsAfterFree(p, q, tag, bytes) ==
  LET tags == IF queryReservations[p][q] = bytes THEN NoTags
              ELSE [tagged[p][q] EXCEPT ![tag] = @ - bytes]
  IN  tagged' = [tagged EXCEPT ![p][q] = tags]

-----------------------------------------------------------------------------
(* An operator calls its query's context, which calls the pool of the      *)
(* query.  Neither is locked by a move.                                    *)
MayUse(q) ==
  moving # NoMove => moving.query # q /\ moving.source # memoryPool[q]

(* What reserve returns.                                                   *)
GiveFuture(q, p) ==
  /\ waiting' = [waiting EXCEPT ![q] = IF FreeAfter(p) <= 0 THEN @ \cup {p} ELSE @]
  /\ UNCHANGED <<blocked, late>>

(* updateUserMemory and updateSystemMemory with delta >= 0, and reserve.   *)
reserve(q, tag, bytes) ==
  LET p == memoryPool[q]
  IN  /\ MayUse(q)
      /\ queryReservations[p][q] + bytes <= maxTotalMemory
      /\ UpdateReservations(p, q, bytes)
      /\ tagged' = [tagged EXCEPT ![p][q][tag] = @ + bytes]
      /\ UNCHANGED <<reservedRevocableBytes, queryRevocableReservations>>
      /\ FutureIfFull(p)
      /\ GiveFuture(q, p)
      /\ UNCHANGED <<memoryPool, listeners, moving>>

(* updateRevocableMemory with delta >= 0, and reserveRevocable.            *)
reserveRevocable(q, bytes) ==
  LET p == memoryPool[q]
  IN  /\ MayUse(q)
      /\ queryRevocableReservations[p][q] + bytes <= maxRevocableMemory
      /\ UpdateRevocableReservations(p, q, bytes)
      /\ UNCHANGED <<reservedBytes, queryReservations, tagged>>
      /\ FutureIfFull(p)
      /\ GiveFuture(q, p)
      /\ UNCHANGED <<memoryPool, listeners, moving>>

(* tryUpdateUserMemory with delta > 0, and tryReserve, when it succeeds.   *)
tryReserve(q, tag, bytes) ==
  LET p == memoryPool[q]
  IN  /\ MayUse(q)
      /\ bytes > 0
      /\ queryReservations[p][q] + bytes <= maxTotalMemory
      /\ FreeBytes(p) - bytes >= 0
      /\ UpdateReservations(p, q, bytes)
      /\ tagged' = [tagged EXCEPT ![p][q][tag] = @ + bytes]
      /\ UNCHANGED <<reservedRevocableBytes, queryRevocableReservations, future,
                     memoryPool, waiting, blocked, late, listeners, moving>>

(* updateMemoryFuture of an operator that was given the future of p, which *)
(* is not done: it may have come from a pool that the query has left.      *)
updateMemoryFuture(q, p) ==
  /\ p \in waiting[q]
  /\ IF p = memoryPool[q]
     THEN blocked' = [blocked EXCEPT ![q] = @ \cup {p}] /\ UNCHANGED late
     ELSE late' = [late EXCEPT ![q] = @ \cup {p}] /\ UNCHANGED blocked
  /\ UNCHANGED <<reservedBytes, reservedRevocableBytes, future, queryReservations,
                 queryRevocableReservations, tagged, memoryPool, waiting, listeners, moving>>

(* updateUserMemory and updateSystemMemory with delta < 0, and free.  The  *)
(* memory context of an operator frees what it has reserved under its tag. *)
free(q, tag, bytes) ==
  LET p == memoryPool[q]
  IN  /\ MayUse(q)
      /\ bytes > 0 /\ tagged[p][q][tag] >= bytes
      /\ reservedBytes[p] >= bytes /\ queryReservations[p][q] >= bytes
      /\ TagsAfterFree(p, q, tag, bytes)
      /\ UpdateReservations(p, q, -bytes)
      /\ UNCHANGED <<reservedRevocableBytes, queryRevocableReservations, memoryPool>>
      /\ CompleteFutureIf(p, Wakes(p))
      /\ StillPending(p, Wakes(p))

(* Mutant: freed revocable memory wakes nobody.                            *)
FreeRevocableSilently(q, bytes) ==
  LET p == memoryPool[q]
  IN  /\ MayUse(q)
      /\ bytes > 0 /\ reservedRevocableBytes[p] >= bytes
      /\ queryRevocableReservations[p][q] >= bytes
      /\ UpdateRevocableReservations(p, q, -bytes)
      /\ UNCHANGED <<reservedBytes, queryReservations, tagged, memoryPool,
                     future, waiting, blocked, late, listeners, moving>>

(* updateRevocableMemory with delta < 0, and freeRevocable.                *)
freeRevocable(q, bytes) ==
  LET p == memoryPool[q]
  IN  /\ MayUse(q)
      /\ bytes > 0 /\ reservedRevocableBytes[p] >= bytes
      /\ queryRevocableReservations[p][q] >= bytes
      /\ UpdateRevocableReservations(p, q, -bytes)
      /\ UNCHANGED <<reservedBytes, queryReservations, tagged, memoryPool>>
      /\ CompleteFutureIf(p, Wakes(p))
      /\ StillPending(p, Wakes(p))

-----------------------------------------------------------------------------
(* setMemoryPool and moveQuery, a step for each call on the target.        *)

(* The tags are taken out, and the target's reserve.                       *)
moveQuery(q, target) ==
  LET source == memoryPool[q]
      bytes  == queryReservations[source][q]
      rest   == [tagged EXCEPT ![source][q] = NoTags]
  IN  /\ moving = NoMove
      /\ target # source
      /\ UpdateReservations(target, q, bytes)
      /\ tagged' = [rest EXCEPT ![target][q][MOVE_QUERY_TAG] = @ + bytes]
      /\ UNCHANGED <<reservedRevocableBytes, queryRevocableReservations>>
      /\ FutureIfFull(target)
      /\ moving' = [query |-> q, source |-> source, target |-> target, step |-> "free",
                    pending |-> FreeAfter(target) <= 0,
                    reserved |-> bytes,
                    revocable |-> queryRevocableReservations[source][q],
                    tags |-> tagged[source][q]]
      /\ UNCHANGED <<memoryPool, waiting, blocked, late, listeners>>

MoveStep(step) == moving # NoMove /\ moving.step = step

(* free of the source.                                                     *)
MoveFree ==
  LET p == moving.source
      q == moving.query
      bytes == moving.reserved
  IN  /\ MoveStep("free")
      /\ reservedBytes[p] >= bytes /\ queryReservations[p][q] >= bytes
      /\ UpdateReservations(p, q, -bytes)
      /\ UNCHANGED <<reservedRevocableBytes, queryRevocableReservations, tagged, memoryPool>>
      /\ CompleteFutureIf(p, bytes # 0 /\ Wakes(p))
      /\ moving' = [moving EXCEPT !.step = "reserveRevocable"]

(* reserveRevocable of the target; its future is not kept.                 *)
MoveReserveRevocable ==
  LET p == moving.target
      q == moving.query
  IN  /\ MoveStep("reserveRevocable")
      /\ UpdateRevocableReservations(p, q, moving.revocable)
      /\ UNCHANGED <<reservedBytes, queryReservations, tagged, memoryPool,
                     waiting, blocked, late, listeners>>
      /\ FutureIfFull(p)
      /\ moving' = [moving EXCEPT !.step = "freeRevocable"]

(* Mutant: the revocable memory stays in the source.                       *)
MoveLeavesRevocable ==
  /\ MoveStep("freeRevocable")
  /\ moving' = [moving EXCEPT !.step = "put"]
  /\ UNCHANGED <<reservedBytes, reservedRevocableBytes, future, queryReservations,
                 queryRevocableReservations, tagged, memoryPool, waiting, blocked, late,
                 listeners>>

(* freeRevocable of the source.                                            *)
MoveFreeRevocable ==
  LET p == moving.source
      q == moving.query
      bytes == moving.revocable
  IN  /\ MoveStep("freeRevocable")
      /\ reservedRevocableBytes[p] >= bytes /\ queryRevocableReservations[p][q] >= bytes
      /\ UpdateRevocableReservations(p, q, -bytes)
      /\ UNCHANGED <<reservedBytes, queryReservations, tagged, memoryPool>>
      /\ CompleteFutureIf(p, bytes # 0 /\ Wakes(p))
      /\ moving' = [moving EXCEPT !.step = "put"]

(* Mutant: the tasks of a query that was moved are left to the futures     *)
(* they wait on.                                                           *)
MovePutQuietly ==
  LET q == moving.query
  IN  /\ MoveStep("put")
      /\ tagged' = [tagged EXCEPT ![moving.target][q] = moving.tags]
      /\ memoryPool' = [memoryPool EXCEPT ![q] = moving.target]
      /\ moving' = NoMove
      /\ UNCHANGED <<reservedBytes, reservedRevocableBytes, future, queryReservations,
                     queryRevocableReservations, waiting, blocked, late, listeners>>

(* The tags are put into the target, and the context changes its pool.     *)
(* moreMemoryAvailable is called for its tasks now or when the target has  *)
(* memory: it completes the futures of the operators that have registered. *)
MovePut ==
  LET q == moving.query
  IN  /\ MoveStep("put")
      /\ tagged' = [tagged EXCEPT ![moving.target][q] = moving.tags]
      /\ memoryPool' = [memoryPool EXCEPT ![q] = moving.target]
      /\ blocked' = IF moving.pending THEN blocked ELSE [blocked EXCEPT ![q] = {}]
      /\ late' = IF moving.pending THEN late ELSE [late EXCEPT ![q] = {}]
      /\ listeners' = IF moving.pending
                      THEN [listeners EXCEPT ![q] = @ \cup {moving.target}] ELSE listeners
      /\ moving' = NoMove
      /\ UNCHANGED <<reservedBytes, reservedRevocableBytes, future, queryReservations,
                     queryRevocableReservations, waiting>>

Operators ==
  \E q \in Query :
    \/ \E tag \in Tag \ {MOVE_QUERY_TAG}, bytes \in 0..maxTotalMemory :
         reserve(q, tag, bytes) \/ tryReserve(q, tag, bytes) \/ free(q, tag, bytes)
    \/ \E bytes \in 0..maxRevocableMemory :
         reserveRevocable(q, bytes) \/ freeRevocable(q, bytes)
    \/ \E p \in Pool : updateMemoryFuture(q, p)

Moves ==
  \/ \E q \in Query, p \in Pool : moveQuery(q, p)
  \/ MoveFree \/ MoveReserveRevocable \/ MoveFreeRevocable \/ MovePut

Next == Operators \/ Moves

Spec == Init /\ [][Next]_vars

-----------------------------------------------------------------------------
(* The futures of the pools say who waits (reserve, free and their         *)
(* revocable forms, moveQuery): a future exists only while its pool is     *)
(* full, who waits on a pool or listens to it does so on its future, and a *)
(* query with an operator that registered with the query's own pool        *)
(* listens to the pool the query is in now, or has such operators waiting  *)
(* on that pool alone.                                                     *)
WaitersHaveFutures ==
  /\ \A p \in Pool : future[p] => FreeBytes(p) <= 0
  /\ \A q \in Query : \A p \in waiting[q] \cup listeners[q] : future[p]
  /\ \A q \in Query : blocked[q] \cup late[q] \subseteq waiting[q]
  /\ moving # NoMove => /\ moving.source # moving.target
                        /\ moving.pending => future[moving.target]
  /\ \A q \in Query :
       /\ blocked[q] # {}
       /\ moving = NoMove \/ moving.query # q
       => memoryPool[q] \in listeners[q] \/ blocked[q] = {memoryPool[q]}

(* Nobody waits for memory of a pool that has some: a free, a              *)
(* freeRevocable or a move that makes room wakes whoever was given its     *)
(* future.  An operator that registered before its query was moved waits,  *)
(* whatever pool it began to wait on, only while the pool the query is in  *)
(* now is full.  That is not so of who registers after the move with the   *)
(* future of the old pool, of the output buffer, and of an operator that   *)
(* waits for revocable memory: these wait until the old pool has memory    *)
(* (future in MemoryPool, setMemoryPool, updateMemoryFuture).              *)
NoLostWakeup ==
  \A q \in Query :
    /\ \A p \in waiting[q] \cup blocked[q] \cup late[q] : FreeBytes(p) <= 0
    /\ /\ blocked[q] # {}
       /\ moving = NoMove \/ moving.query # q
       => FreeBytes(memoryPool[q]) <= 0

-----------------------------------------------------------------------------
(* Sums.                                                                   *)

Total(f) == MapThenSumSet(LAMBDA x : f[x], DOMAIN f)

(* The pool that a move holds the monitor of is seen by nobody.            *)
Visible(p) == moving = NoMove \/ moving.source # p

(* Whenever a pool can be looked at, its counters are the sums of what its *)
(* queries hold (reservedBytes, reservedRevocableBytes and the maps of     *)
(* MemoryPool), also in the middle of a move.                              *)
CountersAddUp ==
  \A p \in Pool : Visible(p) =>
    /\ reservedBytes[p] = Total(queryReservations[p])
    /\ reservedRevocableBytes[p] = Total(queryRevocableReservations[p])

(* The tagged allocations of a query add up to its reservation, also in    *)
(* the middle of a move, and the tag of the move is gone after it          *)
(* (updateTaggedMemoryAllocations, moveQuery).                             *)
TagsAddUp ==
  \A p \in Pool, q \in Query : Visible(p) =>
    /\ queryReservations[p][q] = Total(tagged[p][q])
    /\ moving = NoMove => tagged[p][q][MOVE_QUERY_TAG] = 0

(* A query has memory in its own pool only, and a move takes all of it     *)
(* along (moveQuery).                                                      *)
MemoryInOnePool ==
  \A q \in Query, p \in Pool :
    /\ moving = NoMove /\ p # memoryPool[q]
    => queryReservations[p][q] = 0 /\ queryRevocableReservations[p][q] = 0

(* The checks that free and freeRevocable make of their arguments succeed  *)
(* for whoever frees what it has reserved, and never stop a move half way. *)
ChecksSucceed ==
  /\ \A p \in Pool, q \in Query :
       /\ \A tag \in Tag : tagged[p][q][tag] <= queryReservations[p][q]
       /\ queryReservations[p][q] <= reservedBytes[p]
       /\ queryRevocableReservations[p][q] <= reservedRevocableBytes[p]
  /\ MoveStep("free") => queryReservations[moving.source][moving.query] = moving.reserved
  /\ MoveStep("freeRevocable") =>
       queryRevocableReservations[moving.source][moving.query] = moving.revocable

(* Whatever calls of queries come between those of a move, no byte is lost *)
(* or counted twice: counters, tags and the pools of the queries agree, so *)
(* that no free fails (reserve, free, moveQuery).                          *)
MemoryAddsUp == CountersAddUp /\ TagsAddUp /\ MemoryInOnePool /\ ChecksSucceed

-----------------------------------------------------------------------------
(* The inductive invariant: what holds of the sums in the pool that nobody *)
(* sees, and how much of the query that is moved is where.                 *)

InMove(q) == moving # NoMove /\ moving.query = q

PoolsAddUp ==
  \A p \in Pool :
    /\ reservedBytes[p] = Total(queryReservations[p])
    /\ reservedRevocableBytes[p] = Total(queryRevocableReservations[p])

QueriesAddUp ==
  \A q \in Query, p \in Pool : ~InMove(q) =>
    /\ queryReservations[p][q] = Total(tagged[p][q])
    /\ tagged[p][q][MOVE_QUERY_TAG] = 0
    /\ p # memoryPool[q] => queryReservations[p][q] = 0 /\ queryRevocableReservations[p][q] = 0

MoveAddsUp ==
  moving # NoMove =>
    LET q == moving.query
    IN  /\ moving.source = memoryPool[q]
        /\ Total(moving.tags) = moving.reserved /\ moving.tags[MOVE_QUERY_TAG] = 0
        /\ tagged[moving.source][q] = NoTags
        /\ \A p \in Pool :
             /\ queryReservations[p][q] =
                  IF p = moving.target \/ (p = moving.source /\ moving.step = "free")
                  THEN moving.reserved ELSE 0
             /\ queryRevocableReservations[p][q] =
                  IF \/ p = moving.source /\ moving.step # "put"
                     \/ p = moving.target /\ moving.step \in {"freeRevocable", "put"}
                  THEN moving.revocable ELSE 0
             /\ p # moving.source => queryReservations[p][q] = Total(tagged[p][q])
             /\ p # moving.target => tagged[p][q][MOVE_QUERY_TAG] = 0

(* What the steps of operators and of a move keep, and what the other      *)
(* properties follow from.                                                 *)
IInv == TypeOK /\ WaitersHaveFutures /\ PoolsAddUp /\ QueriesAddUp /\ MoveAddsUp
=============================================================================

-------------------------- MODULE MemoryPoolProofs --------------------------
(***************************************************************************)
(* For any pools, sizes, queries, tags and limits: nobody waits on a pool  *)
(* that has memory, a move leaves no registered operator waiting on the    *)
(* old pool while the new one has memory, no byte is lost or counted       *)
(* twice, and the page of a worker shows where they are.                   *)
(*                                                                         *)
(* NoLostWakeup is not inductive: that a free wakes a waiting operator     *)
(* follows from where the operator waits, and that from the history of     *)
(* moves.  WaitersHaveFutures says it.  Nor is MemoryAddsUp: what a move   *)
(* puts into its target at the end is what it took out of the source at    *)
(* its start, which MoveAddsUp keeps track of in between.                  *)
(*                                                                         *)
(* Total is a fold over a set.  That it does not depend on the order of    *)
(* the elements is by induction on the size of the subsets.                *)
(***************************************************************************)
EXTENDS WorkerStatus, FiniteSetTheorems, TLAPS

-----------------------------------------------------------------------------
(* Induction, stated with a set in place of a predicate.                   *)

(* A nonempty set of naturals has a least element.                         *)
LEMMA LeastNatural ==
  ASSUME NEW T, T \subseteq Nat, T # {}
  PROVE  \E x \in T : \A y \in T : x <= y
<1> DEFINE R == {ss \in Nat \X Nat : ss[1] < ss[2]}
<1>1. IsWellFoundedOn(R, Nat)
  BY Zenon, NatLessThanWellFounded DEF OpToRel
<1> HIDE DEF R
<1>2. PICK x \in T : \A y \in T : ~(<<y, x>> \in R)
  BY Zenon, <1>1, WFMin
<1>3. ASSUME NEW y \in T PROVE x <= y
  <2>1. x \in Nat /\ y \in Nat
    BY Zenon, <1>2
  <2>2. ~(y < x)
    BY Zenon, <1>2, <2>1 DEF R
  <2> QED
    BY <2>1, <2>2
<1> QED
  BY Zenon, <1>3

(* Induction over the naturals.                                            *)
LEMMA NaturalInduction ==
  ASSUME NEW S, 0 \in S, \A n \in Nat : n \in S => n + 1 \in S
  PROVE  Nat \subseteq S
<1>1. SUFFICES ASSUME Nat \ S # {} PROVE FALSE
  BY Zenon
<1>2. PICK x \in Nat \ S : \A y \in Nat \ S : x <= y
  BY Zenon, <1>1, LeastNatural
<1>3. x - 1 \in Nat /\ (x - 1) + 1 = x /\ ~(x <= x - 1)
  BY <1>2
<1>4. x - 1 \in S
  BY Zenon, <1>2, <1>3
<1> QED
  BY Zenon, <1>2, <1>3, <1>4

-----------------------------------------------------------------------------
(* Sums over finite sets.                                                  *)

Pick(T) == CHOOSE x \in T : TRUE

(* g maps the subsets of S to the sums of f over them.                     *)
SumTable(f, S, g) ==
  g = [T \in SUBSET S |-> IF T = {} THEN 0 ELSE f[Pick(T)] + g[T \ {Pick(T)}]]

(* Total is read off a table of the sums over subsets, if there is one.    *)
LEMMA TotalTable ==
  ASSUME NEW f, NEW g, SumTable(f, DOMAIN f, g)
  PROVE  \E h : SumTable(f, DOMAIN f, h) /\ Total(f) = h[DOMAIN f]
<1> DEFINE h == CHOOSE h : h = [T \in SUBSET DOMAIN f |->
                                  IF T = {} THEN 0
                                  ELSE f[CHOOSE x \in T : TRUE] + h[T \ {CHOOSE x \in T : TRUE}]]
<1>1. SumTable(f, DOMAIN f, h)
  BY Zenon DEF SumTable, Pick
<1>2. Total(f) = h[DOMAIN f]
  BY Zenon DEF Total, MapThenSumSet, MapThenFoldSet
<1> QED
  BY <1>1, <1>2, Zenon

(* With a finite set there is a table of the sums over its subsets: by     *)
(* induction on the size of the subsets it covers.                         *)
LEMMA TableExists ==
  ASSUME NEW f, NEW S, IsFiniteSet(S)
  PROVE  \E g : SumTable(f, S, g)
<1> DEFINE Small(n) == {T \in SUBSET S : Cardinality(T) <= n}
           Covers(n, g) == g = [T \in Small(n) |-> IF T = {} THEN 0
                                       ELSE f[Pick(T)] + g[T \ {Pick(T)}]]
           N == {n \in Nat : \E g : Covers(n, g)}
<1>1. \A T \in SUBSET S : IsFiniteSet(T) /\ Cardinality(T) \in Nat
  BY Zenon, FS_Subset, FS_CardinalityType
<1>2. \A T \in SUBSET S : T # {} =>
        /\ Pick(T) \in T
        /\ T \ {Pick(T)} \in SUBSET S
        /\ Cardinality(T \ {Pick(T)}) = Cardinality(T) - 1
  <2> SUFFICES ASSUME NEW T \in SUBSET S, T # {}
               PROVE  /\ Pick(T) \in T
                      /\ Cardinality(T \ {Pick(T)}) = Cardinality(T) - 1
    BY Zenon
  <2>1. Pick(T) \in T
    BY Zenon DEF Pick
  <2> QED
    BY Zenon, <1>1, <2>1, FS_RemoveElement
<1>3. 0 \in N
  <2> DEFINE g == [T \in Small(0) |-> 0]
  <2>1. ASSUME NEW T \in Small(0), T # {} PROVE FALSE
    <3>1. Cardinality(T) <= 0 /\ Cardinality(T) \in Nat
      BY Zenon, <1>1
    <3>2. Cardinality(T) - 1 \in Nat
      BY Zenon, <1>1, <1>2, <2>1
    <3> QED
      BY <3>1, <3>2
  <2>2. Covers(0, g)
    BY Zenon, <2>1
  <2> QED
    BY Zenon, <2>2
<1>4. ASSUME NEW n \in Nat, n \in N PROVE n + 1 \in N
  <2>1. PICK g : Covers(n, g)
    BY Zenon, <1>4
  <2> DEFINE h == [T \in Small(n + 1) |->
                     IF T \in Small(n) THEN g[T] ELSE f[Pick(T)] + g[T \ {Pick(T)}]]
  <2>2. Covers(n + 1, h)
    <3>1. ASSUME NEW T \in Small(n + 1)
          PROVE  h[T] = IF T = {} THEN 0 ELSE f[Pick(T)] + h[T \ {Pick(T)}]
      <4>1. CASE T = {}
        <5>1. T \in Small(n)
          BY <4>1, FS_EmptySet
        <5>2. h[T] = g[T] /\ g[T] = 0
          BY Zenon, <2>1, <4>1, <5>1
        <5> QED
          BY Zenon, <4>1, <5>2
      <4>2. CASE T # {}
        <5> DEFINE R == T \ {Pick(T)}
        <5>1. R \in Small(n) /\ R \in Small(n + 1)
          BY <1>1, <1>2, <4>2
        <5>2. h[R] = g[R]
          BY Zenon, <5>1
        <5>3. h[T] = f[Pick(T)] + g[R]
          BY Zenon, <2>1, <4>2
        <5> QED
          BY Zenon, <4>2, <5>2, <5>3
      <4> QED
        BY Zenon, <4>1, <4>2
    <3> QED
      BY Zenon, <3>1
  <2> HIDE DEF Covers, h
  <2> QED
    BY <2>2
<1>5. Cardinality(S) \in N
  <2> HIDE DEF N
  <2>1. Nat \subseteq N
    BY Zenon, <1>3, <1>4, NaturalInduction
  <2> QED
    BY Zenon, <1>1, <2>1
<1>6. PICK g : Covers(Cardinality(S), g)
  BY Zenon, <1>5
<1>7. Small(Cardinality(S)) = SUBSET S
  BY Zenon, <1>1, FS_Subset
<1> QED
  BY Zenon, <1>6, <1>7 DEF SumTable

(* The sums over the subsets on which two functions agree are the same.    *)
LEMMA TablesAgree ==
  ASSUME NEW f, NEW S, IsFiniteSet(S), NEW g, SumTable(f, S, g),
         NEW e, NEW R, NEW h, SumTable(e, R, h),
         NEW U, U \subseteq S, U \subseteq R, \A x \in U : e[x] = f[x]
  PROVE  g[U] = h[U]
<1> DEFINE N == {n \in Nat : \A T \in SUBSET U : Cardinality(T) = n => g[T] = h[T]}
<1>1. \A T \in SUBSET U : IsFiniteSet(T) /\ Cardinality(T) \in Nat
  BY Zenon, FS_Subset, FS_CardinalityType
<1>2. 0 \in N
  <2>1. ASSUME NEW T \in SUBSET U, Cardinality(T) = 0 PROVE g[T] = h[T]
    <3>1. T = {}
      BY Zenon, <1>1, <2>1, FS_EmptySet
    <3> QED
      BY Zenon, <3>1 DEF SumTable
  <2> QED
    BY Zenon, <2>1
<1>3. ASSUME NEW n \in Nat, n \in N PROVE n + 1 \in N
  <2>1. ASSUME NEW T \in SUBSET U, Cardinality(T) = n + 1 PROVE g[T] = h[T]
    <3>1. T # {}
      BY <2>1, FS_EmptySet
    <3>2. Pick(T) \in T
      BY Zenon, <3>1 DEF Pick
    <3>3. Cardinality(T \ {Pick(T)}) = n
      <4>1. Cardinality(T \ {Pick(T)}) = Cardinality(T) - 1
        BY Zenon, <1>1, <3>2, FS_RemoveElement
      <4> QED
        BY <2>1, <4>1
    <3>4. g[T \ {Pick(T)}] = h[T \ {Pick(T)}]
      BY Zenon, <1>3, <3>3
    <3>5. g[T] = f[Pick(T)] + g[T \ {Pick(T)}] /\ h[T] = e[Pick(T)] + h[T \ {Pick(T)}]
      BY Zenon, <3>1 DEF SumTable
    <3> QED
      BY Zenon, <3>2, <3>4, <3>5
  <2> QED
    BY <2>1
<1>4. Cardinality(U) \in N
  <2> HIDE DEF N
  <2>1. Nat \subseteq N
    BY Zenon, <1>2, <1>3, NaturalInduction
  <2> QED
    BY Zenon, <1>1, <2>1
<1> QED
  BY Zenon, <1>4

(* The sums of integers are integers, those of naturals are naturals.      *)
LEMMA TableType ==
  ASSUME NEW D \in {Nat, Int}, NEW f, NEW S, IsFiniteSet(S), NEW g, SumTable(f, S, g),
         \A x \in S : f[x] \in D
  PROVE  \A T \in SUBSET S : g[T] \in D
<1> DEFINE N == {n \in Nat : \A T \in SUBSET S : Cardinality(T) = n => g[T] \in D}
<1>1. \A T \in SUBSET S : IsFiniteSet(T) /\ Cardinality(T) \in Nat
  BY Zenon, FS_Subset, FS_CardinalityType
<1>2. 0 \in N
  <2>1. ASSUME NEW T \in SUBSET S, Cardinality(T) = 0 PROVE g[T] \in D
    <3>1. T = {}
      BY Zenon, <1>1, <2>1, FS_EmptySet
    <3>2. g[T] = 0
      BY Zenon, <3>1 DEF SumTable
    <3> QED
      BY <3>2
  <2> QED
    BY Zenon, <2>1
<1>3. ASSUME NEW n \in Nat, n \in N PROVE n + 1 \in N
  <2>1. ASSUME NEW T \in SUBSET S, Cardinality(T) = n + 1 PROVE g[T] \in D
    <3>1. T # {}
      BY <2>1, FS_EmptySet
    <3>2. Pick(T) \in T
      BY Zenon, <3>1 DEF Pick
    <3>3. Cardinality(T \ {Pick(T)}) = n
      <4>1. Cardinality(T \ {Pick(T)}) = Cardinality(T) - 1
        BY Zenon, <1>1, <3>2, FS_RemoveElement
      <4> QED
        BY <2>1, <4>1
    <3>4. g[T \ {Pick(T)}] \in D /\ f[Pick(T)] \in D
      BY Zenon, <1>3, <3>2, <3>3
    <3>5. g[T] = f[Pick(T)] + g[T \ {Pick(T)}]
      BY Zenon, <3>1 DEF SumTable
    <3> QED
      BY <3>4, <3>5
  <2> QED
    BY <2>1
<1>4. ASSUME NEW T \in SUBSET S PROVE g[T] \in D
  <2> HIDE DEF N
  <2>1. Nat \subseteq N
    BY Zenon, <1>2, <1>3, NaturalInduction
  <2>2. Cardinality(T) \in N
    BY Zenon, <1>1, <2>1
  <2> QED
    BY Zenon, <2>2 DEF N
<1> QED
  BY Zenon, <1>4

(* The sum over a set is that over the rest and any of its elements.       *)
LEMMA TableAnyElement ==
  ASSUME NEW f, NEW S, IsFiniteSet(S), NEW g, SumTable(f, S, g),
         \A x \in S : f[x] \in Int
  PROVE  \A T \in SUBSET S : \A x \in T : g[T] = f[x] + g[T \ {x}]
<1> DEFINE Good(T) == \A x \in T : g[T] = f[x] + g[T \ {x}]
           N == {n \in Nat : \A T \in SUBSET S : Cardinality(T) = n => Good(T)}
<1>1. \A T \in SUBSET S : IsFiniteSet(T) /\ Cardinality(T) \in Nat
  BY Zenon, FS_Subset, FS_CardinalityType
<1>2. 0 \in N
  <2>1. ASSUME NEW T \in SUBSET S, Cardinality(T) = 0 PROVE Good(T)
    <3>1. T = {}
      BY Zenon, <1>1, <2>1, FS_EmptySet
    <3> QED
      BY Zenon, <3>1
  <2> QED
    BY Zenon, <2>1
<1>3. ASSUME NEW n \in Nat, n \in N PROVE n + 1 \in N
  <2>1. ASSUME NEW T \in SUBSET S, Cardinality(T) = n + 1 PROVE Good(T)
    <3>1. T # {}
      BY <2>1, FS_EmptySet
    <3>2. PICK p \in T : p = Pick(T)
      BY Zenon, <3>1 DEF Pick
    <3>3. ASSUME NEW x \in T PROVE Good(T \ {x})
      <4>1. Cardinality(T \ {x}) = Cardinality(T) - 1
        BY Zenon, <1>1, FS_RemoveElement
      <4>2. Cardinality(T \ {x}) = n
        BY <2>1, <4>1
      <4> HIDE DEF Good
      <4> QED
        BY Zenon, <1>3, <4>2
    <3>4. g[T] = f[p] + g[T \ {p}]
      BY Zenon, <3>1, <3>2 DEF SumTable
    <3>5. ASSUME NEW x \in T PROVE g[T] = f[x] + g[T \ {x}]
      <4>1. CASE x = p
        BY Zenon, <3>4, <4>1
      <4>2. CASE x # p
        <5>1. g[T \ {p}] = f[x] + g[(T \ {p}) \ {x}]
          BY Zenon, <3>3, <4>2
        <5>2. g[T \ {x}] = f[p] + g[(T \ {x}) \ {p}]
          BY Zenon, <3>3, <4>2
        <5>3. (T \ {p}) \ {x} = (T \ {x}) \ {p}
          BY Zenon
        <5>4. PICK r \in Int : r = g[(T \ {x}) \ {p}]
          BY TableType
        <5>5. g[T] = f[p] + (f[x] + r) /\ g[T \ {x}] = f[p] + r
          BY Zenon, <3>4, <5>1, <5>2, <5>3, <5>4
        <5> QED
          BY <5>5
      <4> QED
        BY Zenon, <4>1, <4>2
    <3> QED
      BY Zenon, <3>5
  <2> QED
    BY <2>1
<1>4. ASSUME NEW T \in SUBSET S PROVE Good(T)
  <2> HIDE DEF N, Good
  <2>1. Nat \subseteq N
    BY Zenon, <1>2, <1>3, NaturalInduction
  <2>2. Cardinality(T) \in N
    BY Zenon, <1>1, <2>1
  <2> QED
    BY Zenon, <2>2 DEF N
<1> QED
  BY Zenon, <1>4

(* For a function on a finite set, Total is the last entry of its table.   *)
LEMMA TotalIsTabled ==
  ASSUME NEW f, IsFiniteSet(DOMAIN f)
  PROVE  \E g : SumTable(f, DOMAIN f, g) /\ Total(f) = g[DOMAIN f]
<1>1. PICK g : SumTable(f, DOMAIN f, g)
  BY Zenon, TableExists
<1> QED
  BY Zenon, <1>1, TotalTable

(* The total of integers is an integer, that of naturals a natural.        *)
LEMMA TotalType ==
  ASSUME NEW D \in {Nat, Int}, NEW S, IsFiniteSet(S), NEW f \in [S -> D]
  PROVE  Total(f) \in D
<1>1. PICK g : SumTable(f, S, g) /\ Total(f) = g[S]
  BY Zenon, TotalIsTabled
<1>2. g[S] \in D
  BY <1>1, TableType
<1> QED
  BY Zenon, <1>1, <1>2

(* The total of zeroes is zero.                                            *)
LEMMA TotalZero ==
  ASSUME NEW S, IsFiniteSet(S)
  PROVE  Total([x \in S |-> 0]) = 0
<1> DEFINE f == [x \in S |-> 0]
           h == [T \in SUBSET S |-> 0]
<1>1. PICK g : SumTable(f, S, g) /\ Total(f) = g[S]
  <2>1. DOMAIN f = S
    BY Zenon
  <2> HIDE DEF f
  <2> QED
    BY Zenon, <2>1, TotalIsTabled
<1>2. SumTable(f, S, h)
  <2>1. ASSUME NEW T \in SUBSET S, T # {} PROVE f[Pick(T)] + h[T \ {Pick(T)}] = 0
    BY <2>1 DEF Pick
  <2> QED
    BY Zenon, <2>1 DEF SumTable
<1>3. h[S] = 0
  BY Zenon
<1>4. g[S] = h[S]
  <2> HIDE DEF h, f
  <2> QED
    BY <1>1, <1>2, TablesAgree
<1> QED
  BY Zenon, <1>1, <1>3, <1>4

(* A change of one entry changes the total by as much.                     *)
LEMMA TotalExcept ==
  ASSUME NEW S, IsFiniteSet(S), NEW f \in [S -> Int], NEW x \in S, NEW v \in Int
  PROVE  Total([f EXCEPT ![x] = v]) = Total(f) - f[x] + v
<1> DEFINE e == [f EXCEPT ![x] = v]
<1>1. e \in [S -> Int] /\ e[x] = v /\ \A y \in S \ {x} : e[y] = f[y]
  BY Zenon
<1> HIDE DEF e
<1>2. PICK g : SumTable(f, S, g) /\ Total(f) = g[S]
  BY Zenon, TotalIsTabled
<1>3. PICK h : SumTable(e, S, h) /\ Total(e) = h[S]
  BY Zenon, <1>1, TotalIsTabled
<1>4. g[S \ {x}] = h[S \ {x}]
  BY <1>1, <1>2, <1>3, TablesAgree
<1>5. g[S] = f[x] + g[S \ {x}]
  BY <1>2, TableAnyElement
<1>6. h[S] = v + h[S \ {x}]
  <2>1. \A y \in S : e[y] \in Int
    BY Zenon, <1>1
  <2>2. h[S] = e[x] + h[S \ {x}]
    BY <1>3, <2>1, TableAnyElement
  <2> QED
    BY Zenon, <1>1, <2>2
<1>7. g[S \ {x}] \in Int
  BY <1>2, TableType
<1>8. Total(e) = Total(f) - f[x] + v
  BY <1>2, <1>3, <1>4, <1>5, <1>6, <1>7
<1> QED
  BY Zenon, <1>8 DEF e

(* No natural is larger than the total.                                    *)
LEMMA TotalBounds ==
  ASSUME NEW S, IsFiniteSet(S), NEW f \in [S -> Nat], NEW x \in S
  PROVE  f[x] <= Total(f)
<1>1. PICK g : SumTable(f, S, g) /\ Total(f) = g[S]
  BY Zenon, TotalIsTabled
<1>2. g[S] = f[x] + g[S \ {x}]
  BY <1>1, TableAnyElement
<1>3. g[S \ {x}] \in Nat
  BY <1>1, TableType
<1> QED
  BY <1>1, <1>2, <1>3

-----------------------------------------------------------------------------
(* Futures and waiting operators.                                          *)

FuturesInv == TypeOK /\ WaitersHaveFutures

(* The inductive invariant holds when the pools are empty.                 *)
LEMMA InitFutures == Init => FuturesInv
<1> SUFFICES ASSUME Init PROVE FuturesInv
  BY Zenon
<1>1. NoTags \in [Tag -> Nat]
  BY Zenon DEF NoTags
<1>2. TypeOK
  BY Zenon, <1>1 DEF Init, TypeOK
<1>3. WaitersHaveFutures
  BY Zenon DEF Init, WaitersHaveFutures
<1> QED
  BY Zenon, <1>2, <1>3 DEF FuturesInv

(* The counters are integers and so is what is free.                       *)
LEMMA FreeBytesInt ==
  ASSUME TypeOK, NEW r \in Pool
  PROVE  FreeBytes(r) \in Int /\ maxBytes[r] \in Int
         /\ reservedBytes[r] \in Int /\ reservedRevocableBytes[r] \in Int
<1>1. maxBytes[r] \in Nat
  BY Zenon, MemoryAssumption
<1>2. reservedBytes[r] \in Nat /\ reservedRevocableBytes[r] \in Nat
  BY Zenon DEF TypeOK
<1> QED
  BY <1>1, <1>2 DEF FreeBytes

(* More bytes in the counters of one pool leave no pool with more free.    *)
LEMMA FreeBytesFall ==
  ASSUME TypeOK, NEW p \in Pool, NEW bytes \in Nat,
         \/ /\ reservedBytes' = [reservedBytes EXCEPT ![p] = @ + bytes]
            /\ UNCHANGED reservedRevocableBytes
         \/ /\ reservedRevocableBytes' = [reservedRevocableBytes EXCEPT ![p] = @ + bytes]
            /\ UNCHANGED reservedBytes
  PROVE  \A r \in Pool : /\ maxBytes[r] - reservedBytes'[r] - reservedRevocableBytes'[r]
                              <= FreeBytes(r)
                         /\ maxBytes[r] - reservedBytes'[r] - reservedRevocableBytes'[r] \in Int
<1> SUFFICES ASSUME NEW r \in Pool
             PROVE  /\ maxBytes[r] - reservedBytes'[r] - reservedRevocableBytes'[r]
                         <= FreeBytes(r)
                    /\ maxBytes[r] - reservedBytes'[r] - reservedRevocableBytes'[r] \in Int
  BY Zenon
<1>1. \/ reservedBytes'[r] = reservedBytes[r] /\ reservedRevocableBytes'[r] = reservedRevocableBytes[r]
      \/ reservedBytes'[r] = reservedBytes[r] + bytes
         /\ reservedRevocableBytes'[r] = reservedRevocableBytes[r]
      \/ reservedBytes'[r] = reservedBytes[r]
         /\ reservedRevocableBytes'[r] = reservedRevocableBytes[r] + bytes
  BY Zenon DEF TypeOK
<1> QED
  BY <1>1, FreeBytesInt DEF FreeBytes

(* An operator's call of reserve or reserveRevocable.                      *)
LEMMA ReserveStep ==
  ASSUME FuturesInv, NEW q \in Query, NEW tag \in Tag, NEW bytes \in Nat,
         reserve(q, tag, bytes) \/ reserveRevocable(q, bytes)
  PROVE  FuturesInv'
<1>1. PICK p \in Pool : p = memoryPool[q]
  BY Zenon DEF FuturesInv, TypeOK
<1>2. TypeOK'
  <2>1. CASE reserve(q, tag, bytes)
    BY <1>1, <2>1 DEF FuturesInv, TypeOK, reserve, UpdateReservations, FutureIfFull,
                      GiveFuture
  <2>2. CASE reserveRevocable(q, bytes)
    BY <1>1, <2>2 DEF FuturesInv, TypeOK, reserveRevocable, UpdateRevocableReservations,
                      FutureIfFull, GiveFuture
  <2> QED
    BY Zenon, <2>1, <2>2
<1>3. \A r \in Pool : /\ FreeBytes(r)' <= FreeBytes(r)
                      /\ FreeBytes(r) \in Int /\ FreeBytes(r)' \in Int
                      /\ FreeAfter(r) = FreeBytes(r)'
  <2>1. CASE reserve(q, tag, bytes)
    BY Zenon, <1>1, <2>1, FreeBytesInt, FreeBytesFall
    DEF FuturesInv, reserve, UpdateReservations, FreeBytes, FreeAfter
  <2>2. CASE reserveRevocable(q, bytes)
    BY Zenon, <1>1, <2>2, FreeBytesInt, FreeBytesFall
    DEF FuturesInv, reserveRevocable, UpdateRevocableReservations, FreeBytes, FreeAfter
  <2> QED
    BY Zenon, <2>1, <2>2
<1>4. /\ future' = [future EXCEPT ![p] = @ \/ FreeAfter(p) <= 0]
      /\ waiting' = [waiting EXCEPT ![q] = IF FreeAfter(p) <= 0 THEN @ \cup {p} ELSE @]
      /\ UNCHANGED <<memoryPool, blocked, late, listeners, moving>>
  BY Zenon, <1>1 DEF reserve, reserveRevocable, FutureIfFull, GiveFuture
<1>5. \A r \in Pool :
        /\ future[r] => future'[r]
        /\ future'[r] => future[r] \/ (r = p /\ FreeAfter(p) <= 0)
  BY <1>1, <1>4, Zenon DEF FuturesInv, TypeOK
<1>6. WaitersHaveFutures'
  <2>1. \A r \in Pool : future'[r] => FreeBytes(r)' <= 0
    BY <1>1, <1>3, <1>5 DEF FuturesInv, WaitersHaveFutures
  <2>2. FreeAfter(p) <= 0 => future'[p]
    BY <1>1, <1>4, Zenon DEF FuturesInv, TypeOK
  <2>3. \A s \in Query : \A r \in waiting'[s] \cup listeners'[s] : future'[r]
    BY <1>1, <1>4, <1>5, <2>2 DEF FuturesInv, TypeOK, WaitersHaveFutures
  <2>6. \A s \in Query : waiting[s] \subseteq waiting'[s]
    BY Zenon, <1>4 DEF FuturesInv, TypeOK
  <2>7. \A s \in Query : blocked'[s] \cup late'[s] \subseteq waiting'[s]
    BY Zenon, <1>4, <2>6 DEF FuturesInv, WaitersHaveFutures
  <2>4. moving' # NoMove => /\ moving'.source # moving'.target
                            /\ moving'.pending => future'[moving'.target]
    BY Zenon, <1>4, <1>5 DEF FuturesInv, TypeOK, WaitersHaveFutures, Move
  <2>5. \A s \in Query :
          blocked'[s] # {} /\ (moving' = NoMove \/ moving'.query # s)
            => memoryPool'[s] \in listeners'[s] \/ blocked'[s] = {memoryPool'[s]}
    BY Zenon, <1>1, <1>4 DEF FuturesInv, TypeOK, WaitersHaveFutures
  <2> QED
    BY Zenon, <2>1, <2>3, <2>4, <2>5, <2>7 DEF WaitersHaveFutures
<1> QED
  BY Zenon, <1>2, <1>6 DEF FuturesInv

(* tryReserve takes bytes that are free and changes nothing else: there    *)
(* may be no future after it although the pool is full.                    *)
LEMMA TryReserveStep ==
  ASSUME FuturesInv, NEW q \in Query, NEW tag \in Tag, NEW bytes \in Nat,
         tryReserve(q, tag, bytes)
  PROVE  FuturesInv'
<1>1. PICK p \in Pool : p = memoryPool[q]
  BY Zenon DEF FuturesInv, TypeOK
<1>2. TypeOK'
  BY <1>1 DEF FuturesInv, TypeOK, tryReserve, UpdateReservations
<1>3. \A r \in Pool : FreeBytes(r)' <= FreeBytes(r) /\ FreeBytes(r) \in Int /\ FreeBytes(r)' \in Int
  BY Zenon, <1>1, FreeBytesInt, FreeBytesFall DEF FuturesInv, tryReserve, UpdateReservations, FreeBytes
<1>4. UNCHANGED <<future, memoryPool, waiting, blocked, late, listeners, moving>>
  BY Zenon DEF tryReserve
<1>5. WaitersHaveFutures'
  <2>1. \A r \in Pool : future'[r] => FreeBytes(r)' <= 0
    BY <1>3, <1>4 DEF FuturesInv, WaitersHaveFutures
  <2> QED
    BY Zenon, <1>4, <2>1 DEF FuturesInv, WaitersHaveFutures
<1> QED
  BY Zenon, <1>2, <1>5 DEF FuturesInv

(* An operator that was given the future of a pool registers.  If that is  *)
(* not the pool of its query, it is late.                                  *)
LEMMA RegisterStep ==
  ASSUME FuturesInv, NEW q \in Query, NEW p \in Pool, updateMemoryFuture(q, p)
  PROVE  FuturesInv'
<1>1. /\ p \in waiting[q]
      /\ UNCHANGED <<reservedBytes, reservedRevocableBytes, future, queryReservations,
                     queryRevocableReservations, tagged, memoryPool, waiting, listeners,
                     moving>>
  BY Zenon DEF updateMemoryFuture
<1>2. \/ /\ p = memoryPool[q] /\ late' = late
         /\ blocked' = [blocked EXCEPT ![q] = @ \cup {p}]
      \/ blocked' = blocked /\ late' = [late EXCEPT ![q] = @ \cup {p}]
  BY Zenon DEF updateMemoryFuture
<1>0. blocked \in [Query -> SUBSET Pool] /\ late \in [Query -> SUBSET Pool]
  BY Zenon DEF FuturesInv, TypeOK
<1>3. TypeOK'
  <2>1. blocked' \in [Query -> SUBSET Pool] /\ late' \in [Query -> SUBSET Pool]
    BY <1>0, <1>2, SMT
  <2> QED
    BY Zenon, <1>1, <2>1 DEF FuturesInv, TypeOK
<1>4. \A r \in Pool : FreeBytes(r)' = FreeBytes(r)
  BY Zenon, <1>1 DEF FreeBytes
<1>5. \A s \in Query : blocked'[s] \cup late'[s] \subseteq waiting'[s]
  <2> SUFFICES ASSUME NEW s \in Query
               PROVE  blocked'[s] \cup late'[s] \subseteq waiting[s]
    BY Zenon, <1>1
  <2>1. blocked[s] \cup late[s] \subseteq waiting[s]
    BY Zenon DEF FuturesInv, WaitersHaveFutures
  <2>2. /\ blocked'[s] = blocked[s] \/ (s = q /\ blocked'[s] = blocked[s] \cup {p})
        /\ late'[s] = late[s] \/ (s = q /\ late'[s] = late[s] \cup {p})
    BY Zenon, <1>0, <1>2
  <2> QED
    BY Zenon, <1>1, <2>1, <2>2
<1>6. ASSUME NEW s \in Query, blocked'[s] # {}, moving = NoMove \/ moving.query # s
      PROVE  memoryPool[s] \in listeners[s] \/ blocked'[s] = {memoryPool[s]}
  <2>1. \/ blocked'[s] = blocked[s]
        \/ p = memoryPool[s] /\ blocked'[s] = blocked[s] \cup {p}
    BY Zenon, <1>2 DEF FuturesInv, TypeOK
  <2>2. \/ blocked[s] = {} \/ memoryPool[s] \in listeners[s]
        \/ blocked[s] = {memoryPool[s]}
    BY Zenon, <1>6 DEF FuturesInv, WaitersHaveFutures
  <2> QED
    BY Zenon, <1>6, <2>1, <2>2
<1>7. WaitersHaveFutures'
  <2>0. \A r \in Pool : future[r] => FreeBytes(r) <= 0
    BY Zenon DEF FuturesInv, WaitersHaveFutures
  <2>1. \A r \in Pool : future'[r] => FreeBytes(r)' <= 0
    BY <1>1, <1>4, <2>0
  <2>3. /\ \A s \in Query : \A r \in waiting'[s] \cup listeners'[s] : future'[r]
        /\ moving' # NoMove => /\ moving'.source # moving'.target
                               /\ moving'.pending => future'[moving'.target]
    BY Zenon, <1>1 DEF FuturesInv, WaitersHaveFutures
  <2>2. \A s \in Query :
          blocked'[s] # {} /\ (moving' = NoMove \/ moving'.query # s)
            => memoryPool'[s] \in listeners'[s] \/ blocked'[s] = {memoryPool'[s]}
    BY Zenon, <1>1, <1>6
  <2> QED
    BY Zenon, <1>5, <2>1, <2>2, <2>3 DEF WaitersHaveFutures
<1> QED
  BY Zenon, <1>3, <1>7 DEF FuturesInv

(* A pool completes its future or leaves it.  When it leaves one there is  *)
(* still nothing free, and of the other pools nothing has changed.         *)
LEMMA CompleteFuture ==
  ASSUME FuturesInv, NEW p \in Pool, NEW wakes \in BOOLEAN,
         CompleteFutureIf(p, wakes),
         \A r \in Pool \ {p} : FreeBytes(r)' = FreeBytes(r),
         future[p] /\ ~wakes => FreeBytes(p)' <= 0,
         UNCHANGED memoryPool
  PROVE  /\ future' \in [Pool -> BOOLEAN]
         /\ waiting' \in [Query -> SUBSET Pool]
         /\ blocked' \in [Query -> SUBSET Pool]
         /\ late' \in [Query -> SUBSET Pool]
         /\ listeners' \in [Query -> SUBSET Pool]
         /\ \A r \in Pool : future'[r] => FreeBytes(r)' <= 0
         /\ \A r \in Pool : future[r] /\ (r # p \/ ~wakes) => future'[r]
         /\ \A q \in Query : \A r \in waiting'[q] \cup listeners'[q] : future'[r]
         /\ \A q \in Query : blocked'[q] \cup late'[q] \subseteq waiting'[q]
         /\ \A q \in Query :
              /\ blocked'[q] # {}
              /\ moving = NoMove \/ moving.query # q
              => memoryPool'[q] \in listeners'[q] \/ blocked'[q] = {memoryPool'[q]}
<1>1. /\ future' = [future EXCEPT ![p] = @ /\ ~wakes]
      /\ waiting' = [q \in Query |-> IF wakes THEN waiting[q] \ {p} ELSE waiting[q]]
      /\ blocked' = [q \in Query |->
                       IF wakes
                       THEN IF p \in listeners[q] THEN {} ELSE blocked[q] \ {p}
                       ELSE blocked[q]]
      /\ late' = [q \in Query |->
                    IF wakes
                    THEN IF p \in listeners[q] THEN {} ELSE late[q] \ {p}
                    ELSE late[q]]
      /\ listeners' = [q \in Query |-> IF wakes THEN listeners[q] \ {p} ELSE listeners[q]]
  BY Zenon DEF CompleteFutureIf, StillBlocked
<1>2. /\ future' \in [Pool -> BOOLEAN]
      /\ \A r \in Pool : future'[r] = (future[r] /\ (r # p \/ ~wakes))
  BY <1>1, Zenon DEF FuturesInv, TypeOK
<1>3. /\ waiting' \in [Query -> SUBSET Pool]
      /\ blocked' \in [Query -> SUBSET Pool]
      /\ late' \in [Query -> SUBSET Pool]
      /\ listeners' \in [Query -> SUBSET Pool]
  BY Zenon, <1>1 DEF FuturesInv, TypeOK
<1>4. \A r \in Pool : future'[r] => FreeBytes(r)' <= 0
  BY <1>2 DEF FuturesInv, WaitersHaveFutures
<1>5. \A q \in Query : \A r \in waiting'[q] \cup listeners'[q] : future'[r]
  <2> SUFFICES ASSUME NEW q \in Query, NEW r \in waiting'[q] \cup listeners'[q]
               PROVE  future'[r]
    BY Zenon
  <2>1. r \in waiting[q] \cup listeners[q] /\ (r # p \/ ~wakes)
    BY Zenon, <1>1 DEF FuturesInv, TypeOK
  <2>2. r \in Pool /\ future[r]
    BY Zenon, <2>1 DEF FuturesInv, TypeOK, WaitersHaveFutures
  <2> QED
    BY Zenon, <1>2, <2>1, <2>2
<1>7. ASSUME NEW q \in Query PROVE blocked'[q] \cup late'[q] \subseteq waiting'[q]
  <2>1. blocked[q] \cup late[q] \subseteq waiting[q]
    BY Zenon DEF FuturesInv, WaitersHaveFutures
  <2> QED
    BY Zenon, <1>1, <2>1
<1>6. ASSUME NEW q \in Query, blocked'[q] # {}, moving = NoMove \/ moving.query # q
      PROVE  memoryPool'[q] \in listeners'[q] \/ blocked'[q] = {memoryPool'[q]}
  <2>1. blocked[q] # {}
    BY Zenon, <1>1, <1>6
  <2>2. memoryPool[q] \in listeners[q] \/ blocked[q] = {memoryPool[q]}
    BY Zenon, <1>6, <2>1 DEF FuturesInv, WaitersHaveFutures
  <2>3. CASE ~wakes
    BY Zenon, <1>1, <2>2, <2>3
  <2>4. CASE wakes
    <3>1. p \notin listeners[q] /\ blocked'[q] = blocked[q] \ {p}
          /\ listeners'[q] = listeners[q] \ {p}
      BY Zenon, <1>1, <1>6, <2>4
    <3> QED
      BY Zenon, <1>6, <2>2, <3>1
  <2> QED
    BY Zenon, <2>3, <2>4
<1> QED
  BY Zenon, <1>2, <1>3, <1>4, <1>5, <1>6, <1>7

(* What is free of the pools after fewer bytes in one of them.             *)
LEMMA FreeBytesAfterFree ==
  ASSUME TypeOK, TypeOK', NEW p \in Pool, NEW bytes \in Nat,
         \/ /\ reservedBytes' = [reservedBytes EXCEPT ![p] = @ + (-bytes)]
            /\ UNCHANGED reservedRevocableBytes
         \/ /\ reservedRevocableBytes' = [reservedRevocableBytes EXCEPT ![p] = @ + (-bytes)]
            /\ UNCHANGED reservedBytes
  PROVE  /\ \A r \in Pool \ {p} : FreeBytes(r)' = FreeBytes(r)
         /\ FreeAfter(p) = FreeBytes(p)' /\ FreeAfter(p) \in Int
         /\ bytes = 0 => FreeBytes(p)' = FreeBytes(p)
<1>1. \A r \in Pool \ {p} : /\ reservedBytes'[r] = reservedBytes[r]
                            /\ reservedRevocableBytes'[r] = reservedRevocableBytes[r]
  BY Zenon DEF TypeOK
<1>2. \A r \in Pool : reservedBytes'[r] \in Nat /\ reservedRevocableBytes'[r] \in Nat
                      /\ maxBytes[r] \in Nat
  BY Zenon, MemoryAssumption DEF TypeOK
<1>3. bytes = 0 => /\ reservedBytes'[p] = reservedBytes[p]
                   /\ reservedRevocableBytes'[p] = reservedRevocableBytes[p]
  BY DEF TypeOK
<1> QED
  BY <1>1, <1>2, <1>3 DEF FreeBytes, FreeAfter

(* The counters keep their types when the checks of free succeed.          *)
LEMMA FreeTypes ==
  ASSUME TypeOK, NEW p \in Pool, NEW q \in Query, NEW bytes \in Nat,
         \/ /\ reservedBytes[p] >= bytes /\ queryReservations[p][q] >= bytes
            /\ UpdateReservations(p, q, -bytes)
            /\ UNCHANGED <<reservedRevocableBytes, queryRevocableReservations>>
         \/ /\ reservedRevocableBytes[p] >= bytes
            /\ queryRevocableReservations[p][q] >= bytes
            /\ UpdateRevocableReservations(p, q, -bytes)
            /\ UNCHANGED <<reservedBytes, queryReservations>>
  PROVE  /\ reservedBytes' \in [Pool -> Nat]
         /\ reservedRevocableBytes' \in [Pool -> Nat]
         /\ queryReservations' \in [Pool -> [Query -> Nat]]
         /\ queryRevocableReservations' \in [Pool -> [Query -> Nat]]
<1>1. CASE /\ reservedBytes[p] >= bytes /\ queryReservations[p][q] >= bytes
           /\ UpdateReservations(p, q, -bytes)
           /\ UNCHANGED <<reservedRevocableBytes, queryRevocableReservations>>
  <2>1. reservedBytes[p] + (-bytes) \in Nat /\ queryReservations[p][q] + (-bytes) \in Nat
    BY <1>1 DEF TypeOK
  <2> QED
    BY Zenon, <1>1, <2>1 DEF TypeOK, UpdateReservations
<1>2. CASE /\ reservedRevocableBytes[p] >= bytes
           /\ queryRevocableReservations[p][q] >= bytes
           /\ UpdateRevocableReservations(p, q, -bytes)
           /\ UNCHANGED <<reservedBytes, queryReservations>>
  <2>1. /\ reservedRevocableBytes[p] + (-bytes) \in Nat
        /\ queryRevocableReservations[p][q] + (-bytes) \in Nat
    BY <1>2 DEF TypeOK
  <2> QED
    BY Zenon, <1>2, <2>1 DEF TypeOK, UpdateRevocableReservations
<1> QED
  BY Zenon, <1>1, <1>2

(* An operator's call of free or freeRevocable.                            *)
LEMMA FreeStep ==
  ASSUME FuturesInv, NEW q \in Query, NEW tag \in Tag, NEW bytes \in Nat,
         free(q, tag, bytes) \/ freeRevocable(q, bytes)
  PROVE  FuturesInv'
<1> TypeOK
  BY Zenon DEF FuturesInv
<1>1. PICK p \in Pool : p = memoryPool[q]
  BY Zenon DEF TypeOK
<1>0. PICK wakes \in BOOLEAN : wakes = Wakes(p)
  BY Zenon DEF Wakes
<1>2. /\ reservedBytes' \in [Pool -> Nat]
      /\ reservedRevocableBytes' \in [Pool -> Nat]
      /\ queryReservations' \in [Pool -> [Query -> Nat]]
      /\ queryRevocableReservations' \in [Pool -> [Query -> Nat]]
  BY Zenon, <1>1, FreeTypes DEF free, freeRevocable
<1>3. tagged' \in [Pool -> [Query -> [Tag -> Nat]]]
  <2>1. CASE free(q, tag, bytes)
    <3>1. NoTags \in [Tag -> Nat]
      BY Zenon DEF NoTags
    <3>2. [tagged[p][q] EXCEPT ![tag] = @ - bytes] \in [Tag -> Nat]
      <4>1. tagged[p][q] \in [Tag -> Nat] /\ tagged[p][q][tag] >= bytes
        BY <1>1, <2>1 DEF TypeOK, free
      <4>2. tagged[p][q][tag] - bytes \in Nat
        BY <4>1
      <4> QED
        BY Zenon, <4>1, <4>2
    <3> DEFINE tags == IF queryReservations[p][q] = bytes THEN NoTags
                       ELSE [tagged[p][q] EXCEPT ![tag] = @ - bytes]
    <3>3. tags \in [Tag -> Nat]
      BY Zenon, <3>1, <3>2
    <3>4. tagged' = [tagged EXCEPT ![p][q] = tags]
      BY <1>1, <2>1, Zenon DEF free, TagsAfterFree
    <3> HIDE DEF tags
    <3> QED
      BY Zenon, <1>1, <3>3, <3>4 DEF TypeOK
  <2>2. CASE freeRevocable(q, bytes)
    BY Zenon, <1>1, <2>2 DEF TypeOK, freeRevocable
  <2> QED
    BY Zenon, <2>1, <2>2
<1>4. memoryPool' = memoryPool /\ CompleteFutureIf(p, wakes) /\ StillPending(p, wakes)
  BY Zenon, <1>1, <1>0 DEF free, freeRevocable
<1>5. /\ future' \in [Pool -> BOOLEAN]
      /\ waiting' \in [Query -> SUBSET Pool]
      /\ blocked' \in [Query -> SUBSET Pool]
      /\ late' \in [Query -> SUBSET Pool]
      /\ listeners' \in [Query -> SUBSET Pool]
  BY <1>1, <1>4, Zenon DEF CompleteFutureIf, StillBlocked, TypeOK
<1>6. moving' \in Move \cup {NoMove}
  BY ZenonT(60), <1>1, <1>4 DEF StillPending, TypeOK, Move
<1>7. TypeOK'
  BY Zenon, <1>1, <1>2, <1>3, <1>4, <1>5, <1>6 DEF TypeOK
<1>8. /\ \A r \in Pool \ {p} : FreeBytes(r)' = FreeBytes(r)
      /\ FreeAfter(p) = FreeBytes(p)' /\ FreeAfter(p) \in Int
  BY Zenon, <1>1, <1>7, FreeBytesAfterFree
  DEF free, freeRevocable, UpdateReservations, UpdateRevocableReservations
<1>9. future[p] /\ ~wakes => FreeBytes(p)' <= 0
  <2>1. future[p] /\ ~wakes => ~(FreeAfter(p) > 0)
    BY <1>0, Zenon DEF Wakes
  <2>2. FreeAfter(p) > 0 \/ FreeBytes(p)' <= 0
    BY <1>8
  <2> QED
    BY Zenon, <2>1, <2>2
<1>10. /\ \A r \in Pool : future'[r] => FreeBytes(r)' <= 0
       /\ \A r \in Pool : future[r] /\ (r # p \/ ~wakes) => future'[r]
       /\ \A s \in Query : \A r \in waiting'[s] \cup listeners'[s] : future'[r]
       /\ \A s \in Query : blocked'[s] \cup late'[s] \subseteq waiting'[s]
       /\ \A s \in Query :
            /\ blocked'[s] # {}
            /\ moving = NoMove \/ moving.query # s
            => memoryPool'[s] \in listeners'[s] \/ blocked'[s] = {memoryPool'[s]}
  BY <1>4, <1>8, <1>9, CompleteFuture
<1>11. /\ moving' = NoMove <=> moving = NoMove
       /\ moving # NoMove =>
            /\ moving'.query = moving.query /\ moving'.target = moving.target
            /\ moving'.source = moving.source /\ moving.target \in Pool
            /\ moving'.pending => moving.pending /\ (moving.target # p \/ ~wakes)
  <2>1. moving = NoMove \/ moving \in Move
    BY Zenon, <1>1 DEF TypeOK
  <2>2. CASE moving # NoMove /\ wakes /\ moving.target = p
    <3>1. moving \in Move /\ moving' = [moving EXCEPT !.pending = FALSE]
      BY Zenon, <1>4, <2>1, <2>2 DEF StillPending
    <3>2. moving' \in Move /\ moving' # NoMove
      BY ZenonT(60), <3>1, MemoryAssumption DEF Move
    <3> QED
      BY Zenon, <2>2, <3>1, <3>2 DEF Move
  <2>3. CASE ~(moving # NoMove /\ wakes /\ moving.target = p)
    <3>1. moving' = moving
      BY Zenon, <1>4, <2>3 DEF StillPending
    <3> QED
      BY Zenon, <2>1, <2>3, <3>1 DEF Move
  <2> QED
    BY Zenon, <2>2, <2>3
<1>12. WaitersHaveFutures'
  BY Zenon, <1>10, <1>11 DEF FuturesInv, WaitersHaveFutures
<1> QED
  BY Zenon, <1>7, <1>12 DEF FuturesInv

-----------------------------------------------------------------------------
(* The steps of a move.                                                    *)

(* The first step of moveQuery, which reserves in the target, keeps the    *)
(* invariant.                                                              *)
LEMMA MoveBeginsStep ==
  ASSUME FuturesInv, NEW q \in Query, NEW target \in Pool, moveQuery(q, target)
  PROVE  FuturesInv'
<1> TypeOK
  BY Zenon DEF FuturesInv
<1>1. PICK source \in Pool : source = memoryPool[q]
  BY Zenon DEF TypeOK
<1> DEFINE rest == [tagged EXCEPT ![source][q] = NoTags]
<1>2. PICK bytes \in Nat : bytes = queryReservations[source][q]
  BY DEF TypeOK
<1>3. /\ reservedBytes' = [reservedBytes EXCEPT ![target] = @ + bytes]
      /\ queryReservations' = [queryReservations EXCEPT ![target][q] = @ + bytes]
      /\ tagged' = [rest EXCEPT ![target][q][MOVE_QUERY_TAG] = @ + bytes]
      /\ UNCHANGED <<reservedRevocableBytes, queryRevocableReservations, memoryPool,
                     waiting, blocked, late, listeners>>
  BY <1>1, <1>2, Zenon DEF moveQuery, UpdateReservations
<1>4. \A r \in Pool : /\ FreeBytes(r)' <= FreeBytes(r)
                      /\ FreeBytes(r) \in Int /\ FreeBytes(r)' \in Int
                      /\ FreeAfter(r) = FreeBytes(r)'
  BY Zenon, <1>3, FreeBytesInt, FreeBytesFall DEF FreeBytes, FreeAfter
<1>5. PICK full \in BOOLEAN : full = (FreeAfter(target) <= 0)
  <2>1. FreeAfter(target) \in Int
    BY Zenon, <1>4
  <2>2. (FreeAfter(target) <= 0) \in BOOLEAN
    BY <2>1
  <2> QED
    BY <2>2, Zenon
<1>6. /\ future' = [future EXCEPT ![target] = @ \/ full]
      /\ moving' = [query |-> q, source |-> source, target |-> target, step |-> "free",
                    pending |-> full, reserved |-> bytes,
                    revocable |-> queryRevocableReservations[source][q],
                    tags |-> tagged[source][q]]
      /\ moving = NoMove
  BY <1>1, <1>2, <1>5, Zenon DEF moveQuery, FutureIfFull
<1>7. moving' \in Move /\ moving' # NoMove
  BY <1>6, MemoryAssumption DEF TypeOK, Move
<1>8. tagged' \in [Pool -> [Query -> [Tag -> Nat]]]
  <2>1. NoTags \in [Tag -> Nat] /\ MOVE_QUERY_TAG \in Tag
    BY Zenon, MemoryAssumption DEF NoTags
  <2>2. rest \in [Pool -> [Query -> [Tag -> Nat]]]
    BY Zenon, <2>1 DEF TypeOK
  <2> HIDE DEF rest
  <2> QED
    BY <1>3, <2>1, <2>2
<1>9. TypeOK'
  <2>1. reservedBytes' \in [Pool -> Nat]
    BY <1>3 DEF TypeOK
  <2>2. queryReservations' \in [Pool -> [Query -> Nat]]
    BY <1>3 DEF TypeOK
  <2>3. future' \in [Pool -> BOOLEAN]
    BY <1>6, Zenon DEF TypeOK
  <2> QED
    BY Zenon, <1>3, <1>7, <1>8, <2>1, <2>2, <2>3 DEF TypeOK
<1>10. \A r \in Pool : /\ future[r] => future'[r]
                       /\ future'[r] => future[r] \/ (r = target /\ full)
                       /\ full => future'[target]
  BY <1>6, Zenon DEF TypeOK
<1>11. WaitersHaveFutures'
  <2>1. \A r \in Pool : future'[r] => FreeBytes(r)' <= 0
    <3>1. full => FreeBytes(target)' <= 0
      BY Zenon, <1>5, <1>4
    <3> QED
      BY <1>4, <1>10, <3>1 DEF FuturesInv, WaitersHaveFutures
  <2>2. /\ moving'.pending = full /\ moving'.target = target /\ moving'.query = q
        /\ moving'.source # target
    BY <1>1, <1>6 DEF moveQuery
  <2>3. /\ \A s \in Query : \A r \in waiting'[s] \cup listeners'[s] : future'[r]
        /\ \A s \in Query : blocked'[s] \cup late'[s] \subseteq waiting'[s]
    BY Zenon, <1>3, <1>10 DEF FuturesInv, TypeOK, WaitersHaveFutures
  <2>4. \A s \in Query :
          blocked'[s] # {} /\ (moving' = NoMove \/ moving'.query # s)
            => memoryPool'[s] \in listeners'[s] \/ blocked'[s] = {memoryPool'[s]}
    BY Zenon, <1>3, <1>6 DEF FuturesInv, WaitersHaveFutures
  <2> QED
    BY Zenon, <1>10, <2>1, <2>2, <2>3, <2>4 DEF WaitersHaveFutures
<1> QED
  BY Zenon, <1>9, <1>11 DEF FuturesInv

(* free and freeRevocable of the source.                                   *)
LEMMA MoveFreesStep ==
  ASSUME FuturesInv, MoveFree \/ MoveFreeRevocable
  PROVE  FuturesInv'
<1> TypeOK
  BY Zenon DEF FuturesInv
<1>1. moving \in Move /\ moving # NoMove
  BY Zenon DEF TypeOK, MoveFree, MoveFreeRevocable, MoveStep
<1>2. PICK p \in Pool, q \in Query, bytes \in Nat :
        /\ p = moving.source /\ q = moving.query
        /\ \/ bytes = moving.reserved /\ MoveFree
           \/ bytes = moving.revocable /\ MoveFreeRevocable
  BY Zenon, <1>1 DEF Move
<1>3. PICK wakes \in BOOLEAN : wakes = (bytes # 0 /\ Wakes(p))
  BY Zenon
<1>4. /\ UNCHANGED <<memoryPool, tagged>>
      /\ CompleteFutureIf(p, wakes)
      /\ \/ moving' = [moving EXCEPT !.step = "reserveRevocable"]
         \/ moving' = [moving EXCEPT !.step = "put"]
  BY <1>2, <1>3 DEF MoveFree, MoveFreeRevocable
<1>5. /\ reservedBytes' \in [Pool -> Nat]
      /\ reservedRevocableBytes' \in [Pool -> Nat]
      /\ queryReservations' \in [Pool -> [Query -> Nat]]
      /\ queryRevocableReservations' \in [Pool -> [Query -> Nat]]
  BY <1>2, FreeTypes DEF MoveFree, MoveFreeRevocable
<1>6. /\ future' \in [Pool -> BOOLEAN]
      /\ waiting' \in [Query -> SUBSET Pool]
      /\ blocked' \in [Query -> SUBSET Pool]
      /\ late' \in [Query -> SUBSET Pool]
      /\ listeners' \in [Query -> SUBSET Pool]
  BY <1>4, Zenon DEF CompleteFutureIf, StillBlocked, TypeOK
<1>7. /\ moving' \in Move /\ moving' # NoMove
      /\ moving'.query = moving.query /\ moving'.target = moving.target
      /\ moving'.pending = moving.pending /\ moving.target \in Pool
      /\ moving'.source = moving.source
  BY <1>1, <1>4, MemoryAssumption DEF Move
<1>8. TypeOK'
  BY Zenon, <1>4, <1>5, <1>6, <1>7 DEF TypeOK
<1>9. /\ \A r \in Pool \ {p} : FreeBytes(r)' = FreeBytes(r)
      /\ FreeAfter(p) = FreeBytes(p)' /\ FreeAfter(p) \in Int
      /\ bytes = 0 => FreeBytes(p)' = FreeBytes(p)
  BY <1>2, <1>8, FreeBytesAfterFree
  DEF MoveFree, MoveFreeRevocable, UpdateReservations, UpdateRevocableReservations
<1>10. future[p] /\ ~wakes => FreeBytes(p)' <= 0
  <2>1. future[p] /\ ~wakes => bytes = 0 \/ ~(FreeAfter(p) > 0)
    BY <1>3, Zenon DEF Wakes
  <2>2. FreeAfter(p) > 0 \/ FreeBytes(p)' <= 0
    BY <1>9
  <2>3. future[p] => FreeBytes(p) <= 0
    BY Zenon DEF FuturesInv, WaitersHaveFutures
  <2> QED
    BY Zenon, <1>9, <2>1, <2>2, <2>3
<1>11. /\ \A r \in Pool : future'[r] => FreeBytes(r)' <= 0
       /\ \A r \in Pool : future[r] /\ (r # p \/ ~wakes) => future'[r]
       /\ \A s \in Query : \A r \in waiting'[s] \cup listeners'[s] : future'[r]
       /\ \A s \in Query : blocked'[s] \cup late'[s] \subseteq waiting'[s]
       /\ \A s \in Query :
            /\ blocked'[s] # {}
            /\ moving = NoMove \/ moving.query # s
            => memoryPool'[s] \in listeners'[s] \/ blocked'[s] = {memoryPool'[s]}
  BY <1>4, <1>9, <1>10, CompleteFuture
<1>12. WaitersHaveFutures'
  <2>1. moving.target # p
    BY Zenon, <1>1, <1>2 DEF FuturesInv, WaitersHaveFutures
  <2>2. moving'.pending => future'[moving'.target]
    BY Zenon, <1>1, <1>7, <1>11, <2>1 DEF FuturesInv, WaitersHaveFutures
  <2>3. moving'.source # moving'.target
    BY Zenon, <1>2, <1>7, <2>1
  <2> QED
    BY Zenon, <1>1, <1>7, <1>11, <2>2, <2>3 DEF WaitersHaveFutures
<1> QED
  BY Zenon, <1>8, <1>12 DEF FuturesInv

(* reserveRevocable of the target.                                         *)
LEMMA MoveReserveRevocableStep ==
  ASSUME FuturesInv, MoveReserveRevocable
  PROVE  FuturesInv'
<1> TypeOK
  BY Zenon DEF FuturesInv
<1>1. moving \in Move /\ moving # NoMove
  BY Zenon DEF TypeOK, MoveReserveRevocable, MoveStep
<1>2. PICK p \in Pool, q \in Query, bytes \in Nat :
        p = moving.target /\ q = moving.query /\ bytes = moving.revocable
  BY Zenon, <1>1 DEF Move
<1>3. /\ UpdateRevocableReservations(p, q, bytes)
      /\ UNCHANGED <<reservedBytes, queryReservations, tagged, memoryPool,
                     waiting, blocked, late, listeners>>
      /\ future' = [future EXCEPT ![p] = @ \/ FreeAfter(p) <= 0]
      /\ moving' = [moving EXCEPT !.step = "freeRevocable"]
  BY Zenon, <1>2 DEF MoveReserveRevocable, FutureIfFull
<1>4. \A r \in Pool : /\ FreeBytes(r)' <= FreeBytes(r)
                      /\ FreeBytes(r) \in Int /\ FreeBytes(r)' \in Int
                      /\ FreeAfter(r) = FreeBytes(r)'
  BY Zenon, <1>3, FreeBytesInt, FreeBytesFall DEF UpdateRevocableReservations, FreeBytes, FreeAfter
<1>5. /\ moving' \in Move /\ moving' # NoMove
      /\ moving'.query = moving.query /\ moving'.target = moving.target
      /\ moving'.source = moving.source /\ moving'.pending = moving.pending
  BY <1>1, <1>3, MemoryAssumption DEF Move
<1>6. TypeOK'
  <2>1. /\ reservedRevocableBytes' \in [Pool -> Nat]
        /\ queryRevocableReservations' \in [Pool -> [Query -> Nat]]
    BY <1>3 DEF UpdateRevocableReservations, TypeOK
  <2>2. future' \in [Pool -> BOOLEAN]
    <3>1. (FreeAfter(p) <= 0) \in BOOLEAN
      BY <1>4
    <3> QED
      BY <1>3, <3>1, Zenon DEF TypeOK
  <2> QED
    BY Zenon, <1>3, <1>5, <2>1, <2>2 DEF TypeOK
<1>7. \A r \in Pool : /\ future[r] => future'[r]
                      /\ future'[r] => future[r] \/ (r = p /\ FreeAfter(p) <= 0)
  BY <1>3, Zenon DEF TypeOK
<1>8. WaitersHaveFutures'
  <2>1. \A r \in Pool : future'[r] => FreeBytes(r)' <= 0
    BY <1>4, <1>7 DEF FuturesInv, WaitersHaveFutures
  <2>2. \A s \in Query : \A r \in waiting'[s] \cup listeners'[s] : future'[r]
    BY Zenon, <1>3, <1>7 DEF FuturesInv, TypeOK, WaitersHaveFutures
  <2>3. moving'.source # moving'.target /\ (moving'.pending => future'[moving'.target])
    BY Zenon, <1>1, <1>2, <1>5, <1>7 DEF FuturesInv, WaitersHaveFutures
  <2> QED
    BY Zenon, <1>1, <1>3, <1>5, <2>1, <2>2, <2>3 DEF FuturesInv, WaitersHaveFutures
<1> QED
  BY Zenon, <1>6, <1>8 DEF FuturesInv

(* The end of a move: when the target was full its future unblocks the     *)
(* tasks of the query later, otherwise they are unblocked now.             *)
LEMMA MovePutStep ==
  ASSUME FuturesInv, MovePut
  PROVE  FuturesInv'
<1> TypeOK
  BY Zenon DEF FuturesInv
<1>1. moving \in Move /\ moving # NoMove
  BY Zenon DEF TypeOK, MovePut, MoveStep
<1>2. PICK p \in Pool, q \in Query, pending \in BOOLEAN :
        p = moving.target /\ q = moving.query /\ pending = moving.pending
  BY Zenon, <1>1 DEF Move
<1>3. /\ tagged' = [tagged EXCEPT ![p][q] = moving.tags]
      /\ memoryPool' = [memoryPool EXCEPT ![q] = p]
      /\ blocked' = IF pending THEN blocked ELSE [blocked EXCEPT ![q] = {}]
      /\ late' = IF pending THEN late ELSE [late EXCEPT ![q] = {}]
      /\ listeners' = IF pending THEN [listeners EXCEPT ![q] = @ \cup {p}] ELSE listeners
      /\ moving' = NoMove
      /\ UNCHANGED <<reservedBytes, reservedRevocableBytes, future, queryReservations,
                     queryRevocableReservations, waiting>>
  BY Zenon, <1>2 DEF MovePut
<1>4. TypeOK'
  <2>1. moving.tags \in [Tag -> Nat]
    BY Zenon, <1>1 DEF Move
  <2>2. tagged' \in [Pool -> [Query -> [Tag -> Nat]]]
    BY Zenon, <1>3, <2>1 DEF TypeOK
  <2> QED
    BY <1>3, <2>2 DEF TypeOK
<1>5. pending => future[p]
  BY Zenon, <1>1, <1>2 DEF FuturesInv, WaitersHaveFutures
<1>6. \A r \in Pool : FreeBytes(r)' = FreeBytes(r)
  BY Zenon, <1>3 DEF FreeBytes
<1>7. WaitersHaveFutures'
  <2>1. \A s \in Query : \A r \in waiting'[s] \cup listeners'[s] : future'[r]
    BY <1>3, <1>5 DEF FuturesInv, TypeOK, WaitersHaveFutures
  <2>3. \A s \in Query : blocked'[s] \cup late'[s] \subseteq waiting'[s]
    BY Zenon, <1>3 DEF FuturesInv, TypeOK, WaitersHaveFutures
  <2>2. ASSUME NEW s \in Query, blocked'[s] # {}
        PROVE  memoryPool'[s] \in listeners'[s] \/ blocked'[s] = {memoryPool'[s]}
    <3>1. CASE s = q
      BY Zenon, <1>3, <2>2, <3>1 DEF TypeOK
    <3>2. CASE s # q
      <4>1. /\ blocked'[s] = blocked[s] /\ listeners'[s] = listeners[s]
            /\ memoryPool'[s] = memoryPool[s]
        BY Zenon, <1>3, <3>2 DEF TypeOK
      <4> QED
        BY Zenon, <1>1, <1>2, <2>2, <3>2, <4>1 DEF FuturesInv, WaitersHaveFutures
    <3> QED
      BY Zenon, <3>1, <3>2
  <2> QED
    <3>0. \A r \in Pool : future[r] => FreeBytes(r) <= 0
      BY Zenon DEF FuturesInv, WaitersHaveFutures
    <3>1. \A r \in Pool : future'[r] => FreeBytes(r)' <= 0
      BY <1>3, <1>6, <3>0
    <3> QED
      BY Zenon, <1>3, <2>1, <2>2, <2>3, <3>1 DEF WaitersHaveFutures
<1> QED
  BY Zenon, <1>4, <1>7 DEF FuturesInv

-----------------------------------------------------------------------------
(* Every call of an operator and every step of a move keeps the futures.   *)
LEMMA NextFutures == FuturesInv /\ [Next]_vars => FuturesInv'
<1> SUFFICES ASSUME FuturesInv, [Next]_vars PROVE FuturesInv'
  BY Zenon
<1>1. CASE Operators
  <2>1. \A n \in Nat : 0..n \subseteq Nat
    OBVIOUS
  <2>2. /\ Tag \ {MOVE_QUERY_TAG} \subseteq Tag /\ MOVE_QUERY_TAG \in Tag
        /\ 0..maxTotalMemory \subseteq Nat /\ 0..maxRevocableMemory \subseteq Nat
    BY Zenon, <2>1, MemoryAssumption
  <2> QED
    BY <1>1, <2>2, ReserveStep, TryReserveStep, FreeStep, RegisterStep, Zenon
    DEF Operators
<1>2. CASE Moves
  BY Zenon, <1>2, MoveBeginsStep, MoveFreesStep, MoveReserveRevocableStep, MovePutStep DEF Moves
<1>3. CASE UNCHANGED vars
  BY Zenon, <1>3 DEF vars, FuturesInv, TypeOK, WaitersHaveFutures, FreeBytes
<1> QED
  BY Zenon, <1>1, <1>2, <1>3 DEF Next

-----------------------------------------------------------------------------
(* The sums.                                                               *)

SumsInv == PoolsAddUp /\ QueriesAddUp /\ MoveAddsUp

(* A change of one reservation, with that of the counter, keeps the sums   *)
(* of the pools.                                                           *)
LEMMA PoolsStep ==
  ASSUME TypeOK, PoolsAddUp, NEW p \in Pool, NEW q \in Query, NEW delta \in Int,
         \/ UpdateReservations(p, q, delta)
            /\ UNCHANGED <<reservedRevocableBytes, queryRevocableReservations>>
         \/ UpdateRevocableReservations(p, q, delta)
            /\ UNCHANGED <<reservedBytes, queryReservations>>
  PROVE  PoolsAddUp'
<1> DEFINE Changed(f) == [f[p] EXCEPT ![q] = @ + delta]
<1>1. ASSUME NEW f \in [Pool -> [Query -> Nat]]
      PROVE  /\ Total(Changed(f)) = Total(f[p]) + delta
             /\ [f EXCEPT ![p][q] = @ + delta][p] = Changed(f)
             /\ \A r \in Pool \ {p} : [f EXCEPT ![p][q] = @ + delta][r] = f[r]
  <2>1. f[p] \in [Query -> Int] /\ f[p][q] \in Int
    OBVIOUS
  <2>2. PICK v \in Int : v = f[p][q] + delta
    BY <2>1
  <2>3. Changed(f) = [f[p] EXCEPT ![q] = v]
    BY Zenon, <2>2
  <2>4. IsFiniteSet(Query)
    BY Zenon, MemoryAssumption
  <2>5. Total([f[p] EXCEPT ![q] = v]) = Total(f[p]) - f[p][q] + v /\ Total(f[p]) \in Int
    BY ZenonT(60), <2>1, <2>2, <2>4, TotalExcept, TotalType
  <2>6. Total(Changed(f)) = Total(f[p]) + delta
    BY <2>1, <2>2, <2>3, <2>5
  <2> QED
    BY Zenon, <2>6
<1> HIDE DEF Changed
<1>2. CASE UpdateReservations(p, q, delta)
           /\ UNCHANGED <<reservedRevocableBytes, queryRevocableReservations>>
  <2> DEFINE f == queryReservations
  <2>1. /\ Total(Changed(f)) = Total(f[p]) + delta
        /\ queryReservations'[p] = Changed(f)
        /\ \A r \in Pool \ {p} : queryReservations'[r] = f[r]
    BY Zenon, <1>1, <1>2 DEF TypeOK, UpdateReservations
  <2>2. /\ reservedBytes'[p] = reservedBytes[p] + delta
        /\ \A r \in Pool \ {p} : reservedBytes'[r] = reservedBytes[r]
    BY Zenon, <1>2 DEF TypeOK, UpdateReservations
  <2> QED
    BY Zenon, <1>2, <2>1, <2>2 DEF PoolsAddUp
<1>3. CASE UpdateRevocableReservations(p, q, delta)
           /\ UNCHANGED <<reservedBytes, queryReservations>>
  <2> DEFINE f == queryRevocableReservations
  <2>1. /\ Total(Changed(f)) = Total(f[p]) + delta
        /\ queryRevocableReservations'[p] = Changed(f)
        /\ \A r \in Pool \ {p} : queryRevocableReservations'[r] = f[r]
    BY Zenon, <1>1, <1>3 DEF TypeOK, UpdateRevocableReservations
  <2>2. /\ reservedRevocableBytes'[p] = reservedRevocableBytes[p] + delta
        /\ \A r \in Pool \ {p} : reservedRevocableBytes'[r] = reservedRevocableBytes[r]
    BY Zenon, <1>3 DEF TypeOK, UpdateRevocableReservations
  <2> QED
    BY Zenon, <1>3, <2>1, <2>2 DEF PoolsAddUp
<1> QED
  BY Zenon, <1>2, <1>3

(* A call of a query that is not moved, in its own pool, which leaves the  *)
(* query's tags and its reservation in agreement.                          *)
LEMMA OperatorKeepsSums ==
  ASSUME TypeOK, QueriesAddUp, MoveAddsUp, NEW q \in Query, MayUse(q),
         UNCHANGED memoryPool,
         moving' = moving \/ (moving # NoMove /\ moving' = [moving EXCEPT !.pending = FALSE]),
         \A r \in Pool, s \in Query : r # memoryPool[q] \/ s # q =>
           /\ queryReservations'[r][s] = queryReservations[r][s]
           /\ queryRevocableReservations'[r][s] = queryRevocableReservations[r][s]
           /\ tagged'[r][s] = tagged[r][s],
         queryReservations'[memoryPool[q]][q] = Total(tagged'[memoryPool[q]][q]),
         tagged'[memoryPool[q]][q][MOVE_QUERY_TAG] = 0
  PROVE  QueriesAddUp' /\ MoveAddsUp'
<1>1. moving = NoMove => moving' = NoMove
  BY Zenon
<1>2. moving # NoMove =>
        /\ moving' # NoMove /\ moving.query # q /\ moving \in Move
        /\ moving'.query = moving.query /\ moving'.source = moving.source
        /\ moving'.target = moving.target /\ moving'.step = moving.step
        /\ moving'.reserved = moving.reserved /\ moving'.revocable = moving.revocable
        /\ moving'.tags = moving.tags
  <2> SUFFICES ASSUME moving # NoMove
               PROVE  /\ moving' # NoMove /\ moving.query # q /\ moving \in Move
                      /\ moving'.query = moving.query /\ moving'.source = moving.source
                      /\ moving'.target = moving.target /\ moving'.step = moving.step
                      /\ moving'.reserved = moving.reserved
                      /\ moving'.revocable = moving.revocable
                      /\ moving'.tags = moving.tags
    BY Zenon
  <2>1. moving \in Move /\ moving.query # q
    BY Zenon DEF TypeOK, MayUse
  <2>2. CASE moving' = moving
    BY Zenon, <2>1, <2>2
  <2>3. CASE moving' = [moving EXCEPT !.pending = FALSE]
    <3>1. moving' \in Move
      BY ZenonT(60), <2>1, <2>3 DEF Move
    <3>2. moving' # NoMove
      BY Zenon, <3>1, MemoryAssumption DEF Move
    <3> QED
      BY Zenon, <2>1, <2>3, <3>2 DEF Move
  <2> QED
    BY Zenon, <2>2, <2>3
<1>3. \A s \in Query : InMove(s)' <=> InMove(s)
  BY <1>1, <1>2, Zenon DEF InMove
<1>4. ~InMove(q)
  BY Zenon DEF InMove, MayUse
<1>5. memoryPool[q] \in Pool
  BY Zenon DEF TypeOK
<1>6. QueriesAddUp'
  <2> SUFFICES ASSUME NEW s \in Query, NEW r \in Pool, ~InMove(s)
               PROVE  /\ queryReservations'[r][s] = Total(tagged'[r][s])
                      /\ tagged'[r][s][MOVE_QUERY_TAG] = 0
                      /\ r # memoryPool[s] => /\ queryReservations'[r][s] = 0
                                              /\ queryRevocableReservations'[r][s] = 0
    BY <1>3, Zenon DEF QueriesAddUp
  <2>1. CASE r = memoryPool[q] /\ s = q
    BY Zenon, <2>1
  <2>2. CASE r # memoryPool[q] \/ s # q
    BY <2>2 DEF QueriesAddUp
  <2> QED
    BY Zenon, <2>1, <2>2
<1>7. MoveAddsUp'
  <2> SUFFICES ASSUME moving # NoMove PROVE MoveAddsUp'
    BY <1>1, Zenon DEF MoveAddsUp
  <2>1. PICK s \in Query : s = moving.query /\ s # q
    BY Zenon, <1>2 DEF Move
  <2>2. \A r \in Pool :
          /\ queryReservations'[r][s] = queryReservations[r][s]
          /\ queryRevocableReservations'[r][s] = queryRevocableReservations[r][s]
          /\ tagged'[r][s] = tagged[r][s]
    BY Zenon, <2>1
  <2>3. moving.source \in Pool
    BY Zenon, <1>2 DEF Move
  <2> QED
    BY <1>2, <2>1, <2>2, <2>3 DEF MoveAddsUp
<1> QED
  BY Zenon, <1>6, <1>7

(* What more or fewer bytes under one tag make of the total of the tags.   *)
LEMMA TagsStep ==
  ASSUME NEW tags \in [Tag -> Nat], NEW tag \in Tag, NEW delta \in Int
  PROVE  /\ Total([tags EXCEPT ![tag] = @ + delta]) = Total(tags) + delta
         /\ Total(tags) \in Nat /\ Total(NoTags) = 0
<1>1. IsFiniteSet(Tag)
  BY Zenon, MemoryAssumption
<1>2. tags \in [Tag -> Int] /\ tags[tag] \in Int
  OBVIOUS
<1>3. PICK v \in Int : v = tags[tag] + delta
  BY <1>2
<1>4. Total([tags EXCEPT ![tag] = v]) = Total(tags) - tags[tag] + v
  BY Zenon, <1>1, <1>2, TotalExcept
<1>5. Total(tags) \in Nat
  BY Zenon, <1>1, TotalType
<1>6. Total(NoTags) = 0
  BY Zenon, <1>1, TotalZero DEF NoTags
<1> QED
  BY <1>2, <1>3, <1>4, <1>5, <1>6

(* reserve, tryReserve and reserveRevocable keep the sums.                 *)
LEMMA ReserveKeepsSums ==
  ASSUME TypeOK, SumsInv, NEW q \in Query, NEW tag \in Tag, NEW bytes \in Nat,
         \/ tag # MOVE_QUERY_TAG /\ (reserve(q, tag, bytes) \/ tryReserve(q, tag, bytes))
         \/ reserveRevocable(q, bytes)
  PROVE  SumsInv'
<1>1. PICK p \in Pool : p = memoryPool[q]
  BY Zenon DEF TypeOK
<1>2. MayUse(q) /\ UNCHANGED <<memoryPool, moving>>
  BY Zenon DEF reserve, tryReserve, reserveRevocable
<1>3. ~InMove(q)
  BY Zenon, <1>2 DEF MayUse, InMove
<1>4. queryReservations[p][q] = Total(tagged[p][q]) /\ tagged[p][q][MOVE_QUERY_TAG] = 0
  BY Zenon, <1>3 DEF SumsInv, QueriesAddUp
<1>5. CASE tag # MOVE_QUERY_TAG /\ (reserve(q, tag, bytes) \/ tryReserve(q, tag, bytes))
  <2>1. /\ UpdateReservations(p, q, bytes)
        /\ tagged' = [tagged EXCEPT ![p][q][tag] = @ + bytes]
        /\ UNCHANGED <<reservedRevocableBytes, queryRevocableReservations>>
    BY Zenon, <1>1, <1>5 DEF reserve, tryReserve
  <2>2. PoolsAddUp'
    BY <2>1, PoolsStep DEF SumsInv
  <2>3. /\ tagged'[p][q] = [tagged[p][q] EXCEPT ![tag] = @ + bytes]
        /\ queryReservations'[p][q] = queryReservations[p][q] + bytes
    BY Zenon, <2>1 DEF TypeOK, UpdateReservations
  <2>4. \A r \in Pool, s \in Query : r # p \/ s # q =>
          /\ queryReservations'[r][s] = queryReservations[r][s]
          /\ queryRevocableReservations'[r][s] = queryRevocableReservations[r][s]
          /\ tagged'[r][s] = tagged[r][s]
    BY Zenon, <2>1 DEF TypeOK, UpdateReservations
  <2>5. tagged[p][q] \in [Tag -> Nat]
    BY DEF TypeOK
  <2>6. queryReservations'[p][q] = Total(tagged'[p][q])
    BY <1>4, <2>3, <2>5, TagsStep
  <2>7. tagged'[p][q][MOVE_QUERY_TAG] = 0
    BY <1>4, <1>5, <2>3, <2>5
  <2> QED
    BY <1>1, <1>2, <2>2, <2>4, <2>6, <2>7, OperatorKeepsSums DEF SumsInv
<1>6. CASE reserveRevocable(q, bytes)
  <2>1. /\ UpdateRevocableReservations(p, q, bytes)
        /\ UNCHANGED <<reservedBytes, queryReservations, tagged>>
    BY Zenon, <1>1, <1>6 DEF reserveRevocable
  <2>2. PoolsAddUp'
    BY <2>1, PoolsStep DEF SumsInv
  <2>3. \A r \in Pool, s \in Query : r # p \/ s # q =>
          queryRevocableReservations'[r][s] = queryRevocableReservations[r][s]
    BY Zenon, <2>1 DEF TypeOK, UpdateRevocableReservations
  <2> QED
    BY Zenon, <1>1, <1>2, <1>4, <2>1, <2>2, <2>3, OperatorKeepsSums DEF SumsInv
<1> QED
  BY Zenon, <1>5, <1>6

(* free and freeRevocable keep the sums, also when the last byte takes the *)
(* tags with it.                                                           *)
LEMMA FreeKeepsSums ==
  ASSUME TypeOK, SumsInv, NEW q \in Query, NEW tag \in Tag, NEW bytes \in Nat,
         (tag # MOVE_QUERY_TAG /\ free(q, tag, bytes)) \/ freeRevocable(q, bytes)
  PROVE  SumsInv'
<1>1. PICK p \in Pool : p = memoryPool[q]
  BY Zenon DEF TypeOK
<1>2. /\ MayUse(q) /\ UNCHANGED memoryPool
      /\ moving' = moving \/ (moving # NoMove /\ moving' = [moving EXCEPT !.pending = FALSE])
  BY Zenon DEF free, freeRevocable, StillPending
<1>3. ~InMove(q)
  BY Zenon, <1>2 DEF MayUse, InMove
<1>4. queryReservations[p][q] = Total(tagged[p][q]) /\ tagged[p][q][MOVE_QUERY_TAG] = 0
  BY Zenon, <1>3 DEF SumsInv, QueriesAddUp
<1>5. CASE tag # MOVE_QUERY_TAG /\ free(q, tag, bytes)
  <2> DEFINE tags == IF queryReservations[p][q] = bytes THEN NoTags
                     ELSE [tagged[p][q] EXCEPT ![tag] = @ - bytes]
  <2>1. /\ UpdateReservations(p, q, -bytes)
        /\ tagged' = [tagged EXCEPT ![p][q] = tags]
        /\ UNCHANGED <<reservedRevocableBytes, queryRevocableReservations>>
    BY Zenon, <1>1, <1>5 DEF free, TagsAfterFree
  <2>2. tagged[p][q] \in [Tag -> Nat] /\ queryReservations[p][q] \in Nat
    BY DEF TypeOK
  <2>3. Total(tags) = queryReservations[p][q] - bytes /\ tags[MOVE_QUERY_TAG] = 0
    <3>1. CASE queryReservations[p][q] = bytes
      <4>1. MOVE_QUERY_TAG \in Tag /\ tags = NoTags
        BY Zenon, <3>1, MemoryAssumption
      <4>2. Total(NoTags) = 0
        BY <2>2, TagsStep
      <4> QED
        BY <2>2, <3>1, <4>1, <4>2 DEF NoTags
    <3>2. CASE queryReservations[p][q] # bytes
      <4>1. tags = [tagged[p][q] EXCEPT ![tag] = @ + (-bytes)]
        BY Zenon, <2>2, <3>2
      <4>2. Total([tagged[p][q] EXCEPT ![tag] = @ + (-bytes)]) = Total(tagged[p][q]) + (-bytes)
        BY <2>2, TagsStep
      <4>3. [tagged[p][q] EXCEPT ![tag] = @ + (-bytes)][MOVE_QUERY_TAG] = 0
        BY <1>4, <1>5, <2>2
      <4> HIDE DEF tags
      <4> QED
        BY Zenon, <1>4, <2>2, <4>1, <4>2, <4>3
    <3> QED
      BY Zenon, <3>1, <3>2
  <2> HIDE DEF tags
  <2>4. PoolsAddUp'
    BY <2>1, PoolsStep DEF SumsInv
  <2>5. /\ tagged'[p][q] = tags
        /\ queryReservations'[p][q] = queryReservations[p][q] - bytes
    BY Zenon, <2>1 DEF TypeOK, UpdateReservations
  <2>6. \A r \in Pool, s \in Query : r # p \/ s # q =>
          /\ queryReservations'[r][s] = queryReservations[r][s]
          /\ queryRevocableReservations'[r][s] = queryRevocableReservations[r][s]
          /\ tagged'[r][s] = tagged[r][s]
    BY Zenon, <2>1 DEF TypeOK, UpdateReservations
  <2> QED
    BY Zenon, <1>1, <1>2, <2>3, <2>4, <2>5, <2>6, OperatorKeepsSums DEF SumsInv
<1>6. CASE freeRevocable(q, bytes)
  <2>1. /\ UpdateRevocableReservations(p, q, -bytes)
        /\ UNCHANGED <<reservedBytes, queryReservations, tagged>>
    BY Zenon, <1>1, <1>6 DEF freeRevocable
  <2>2. PoolsAddUp'
    BY <2>1, PoolsStep DEF SumsInv
  <2>3. \A r \in Pool, s \in Query : r # p \/ s # q =>
          queryRevocableReservations'[r][s] = queryRevocableReservations[r][s]
    BY Zenon, <2>1 DEF TypeOK, UpdateRevocableReservations
  <2> QED
    BY Zenon, <1>1, <1>2, <1>4, <2>1, <2>2, <2>3, OperatorKeepsSums DEF SumsInv
<1> QED
  BY Zenon, <1>5, <1>6

(* The start of a move keeps the sums: the target has nothing of the query *)
(* before, and the query's bytes under the tag of the move after it.       *)
LEMMA MoveBeginsKeepsSums ==
  ASSUME FuturesInv, SumsInv, NEW q \in Query, NEW target \in Pool, moveQuery(q, target)
  PROVE  SumsInv'
<1> TypeOK
  BY Zenon DEF FuturesInv
<1>1. PICK source \in Pool : source = memoryPool[q] /\ source # target
  BY Zenon DEF TypeOK, moveQuery
<1>2. PICK bytes \in Nat, revocable \in Nat, tags \in [Tag -> Nat] :
        /\ bytes = queryReservations[source][q]
        /\ revocable = queryRevocableReservations[source][q]
        /\ tags = tagged[source][q]
  BY ZenonT(60) DEF TypeOK
<1> DEFINE rest == [tagged EXCEPT ![source][q] = NoTags]
<1>3. /\ moving = NoMove
      /\ UpdateReservations(target, q, bytes)
      /\ tagged' = [rest EXCEPT ![target][q][MOVE_QUERY_TAG] = @ + bytes]
      /\ UNCHANGED <<reservedRevocableBytes, queryRevocableReservations, memoryPool>>
  BY <1>1, <1>2, Zenon DEF moveQuery
<1>4. PICK full \in BOOLEAN :
        moving' = [query |-> q, source |-> source, target |-> target, step |-> "free",
                   pending |-> full, reserved |-> bytes, revocable |-> revocable,
                   tags |-> tags]
  <2>1. TypeOK'
    BY Zenon, MoveBeginsStep DEF FuturesInv
  <2>2. maxBytes[target] \in Nat /\ reservedBytes'[target] \in Nat
        /\ reservedRevocableBytes'[target] \in Nat
    BY Zenon, <2>1, MemoryAssumption DEF TypeOK
  <2>3. (FreeAfter(target) <= 0) \in BOOLEAN
    BY <2>2 DEF FreeAfter
  <2> QED
    BY <1>1, <1>2, <2>3, Zenon DEF moveQuery
<1>5. /\ moving' # NoMove
      /\ moving'.query = q /\ moving'.source = source /\ moving'.target = target
      /\ moving'.step = "free" /\ moving'.reserved = bytes
      /\ moving'.revocable = revocable /\ moving'.tags = tags
  BY <1>4, MemoryAssumption
<1>6. \A s \in Query : ~InMove(s)
  BY Zenon, <1>3 DEF InMove
<1>7. \A r \in Pool, s \in Query :
        /\ queryReservations[r][s] = Total(tagged[r][s]) /\ tagged[r][s][MOVE_QUERY_TAG] = 0
        /\ r # memoryPool[s] =>
             queryReservations[r][s] = 0 /\ queryRevocableReservations[r][s] = 0
  BY Zenon, <1>6 DEF SumsInv, QueriesAddUp
<1>8. PoolsAddUp'
  BY <1>3, PoolsStep DEF SumsInv
<1>9. MOVE_QUERY_TAG \in Tag /\ NoTags \in [Tag -> Nat] /\ NoTags[MOVE_QUERY_TAG] = 0
  BY Zenon, MemoryAssumption DEF NoTags
<1>10. /\ rest \in [Pool -> [Query -> [Tag -> Nat]]]
       /\ rest[source][q] = NoTags
       /\ \A r \in Pool, s \in Query : r # source \/ s # q => rest[r][s] = tagged[r][s]
  BY Zenon, <1>9 DEF TypeOK
<1> HIDE DEF rest
<1>11. /\ tagged'[source][q] = NoTags
       /\ tagged'[target][q] = [tagged[target][q] EXCEPT ![MOVE_QUERY_TAG] = @ + bytes]
       /\ \A r \in Pool, s \in Query :
            s # q \/ (r # source /\ r # target) => tagged'[r][s] = tagged[r][s]
  BY ZenonT(60), <1>1, <1>3, <1>9, <1>10
<1>12. /\ queryReservations'[target][q] = bytes
       /\ \A r \in Pool, s \in Query :
            s # q \/ r # target => queryReservations'[r][s] = queryReservations[r][s]
  <2>1. queryReservations[target][q] = 0
    BY Zenon, <1>1, <1>7
  <2>2. 0 + bytes = bytes
    OBVIOUS
  <2> QED
    BY Zenon, <1>3, <2>1, <2>2 DEF TypeOK, UpdateReservations
<1>13. Total(tagged'[target][q]) = bytes
  <2>1. tagged[target][q] \in [Tag -> Nat] /\ Total(tagged[target][q]) = 0
    BY <1>1, <1>7 DEF TypeOK
  <2>2. Total([tagged[target][q] EXCEPT ![MOVE_QUERY_TAG] = @ + bytes])
          = Total(tagged[target][q]) + bytes
    BY <1>9, <2>1, TagsStep
  <2> QED
    BY <1>11, <2>1, <2>2
<1>14. QueriesAddUp'
  <2> SUFFICES ASSUME NEW s \in Query, NEW r \in Pool, ~InMove(s)'
               PROVE  /\ queryReservations'[r][s] = Total(tagged'[r][s])
                      /\ tagged'[r][s][MOVE_QUERY_TAG] = 0
                      /\ r # memoryPool'[s] => /\ queryReservations'[r][s] = 0
                                               /\ queryRevocableReservations'[r][s] = 0
    BY Zenon DEF QueriesAddUp
  <2>1. s # q
    BY Zenon, <1>5 DEF InMove
  <2> QED
    BY <1>3, <1>7, <1>11, <1>12, <2>1
<1>15. MoveAddsUp'
  <2>1. moving'.source = memoryPool'[q] /\ tagged'[moving'.source][q] = NoTags
    BY Zenon, <1>1, <1>3, <1>5, <1>11
  <2>2. Total(moving'.tags) = moving'.reserved /\ moving'.tags[MOVE_QUERY_TAG] = 0
    BY SMTT(30), <1>2, <1>5, <1>7
  <2>3. ASSUME NEW r \in Pool
        PROVE  /\ queryReservations'[r][q] = IF r = target \/ r = source THEN bytes ELSE 0
               /\ queryRevocableReservations'[r][q] = IF r = source THEN revocable ELSE 0
               /\ r # source => queryReservations'[r][q] = Total(tagged'[r][q])
               /\ r # target => tagged'[r][q][MOVE_QUERY_TAG] = 0
    BY <1>1, <1>2, <1>3, <1>7, <1>9, <1>11, <1>12, <1>13
  <2> QED
    BY <1>1, <1>5, <2>1, <2>2, <2>3 DEF MoveAddsUp
<1> QED
  BY Zenon, <1>8, <1>14, <1>15 DEF SumsInv

(* The calls between the first and the last step of a move.                *)
LEMMA MoveKeepsSums ==
  ASSUME FuturesInv, SumsInv, MoveFree \/ MoveReserveRevocable \/ MoveFreeRevocable
  PROVE  SumsInv'
<1> TypeOK
  BY Zenon DEF FuturesInv
<1>1. moving \in Move /\ moving # NoMove
  BY Zenon DEF TypeOK, MoveFree, MoveReserveRevocable, MoveFreeRevocable, MoveStep
<1>2. PICK q \in Query, source \in Pool, target \in Pool, bytes \in Nat, revocable \in Nat :
        /\ q = moving.query /\ source = moving.source /\ target = moving.target
        /\ bytes = moving.reserved /\ revocable = moving.revocable
  BY Zenon, <1>1 DEF Move
<1>3. source # target
  BY Zenon, <1>1, <1>2 DEF FuturesInv, WaitersHaveFutures
<1>4. /\ UNCHANGED <<tagged, memoryPool>>
      /\ \E step \in {"reserveRevocable", "freeRevocable", "put"} :
           moving' = [moving EXCEPT !.step = step]
  BY Zenon DEF MoveFree, MoveReserveRevocable, MoveFreeRevocable
<1>5. /\ moving' \in Move /\ moving' # NoMove
      /\ moving'.query = q /\ moving'.source = source /\ moving'.target = target
      /\ moving'.reserved = bytes /\ moving'.revocable = revocable
      /\ moving'.tags = moving.tags
  BY <1>1, <1>2, <1>4, MemoryAssumption DEF Move
<1>6. PoolsAddUp'
  <2>1. -bytes \in Int /\ -revocable \in Int /\ bytes \in Int /\ revocable \in Int
    OBVIOUS
  <2> QED
    BY Zenon, <1>2, <2>1, PoolsStep DEF SumsInv, MoveFree, MoveReserveRevocable, MoveFreeRevocable
<1>7. \A r \in Pool, s \in Query \ {q} :
        /\ queryReservations'[r][s] = queryReservations[r][s]
        /\ queryRevocableReservations'[r][s] = queryRevocableReservations[r][s]
  <2>1. CASE MoveFree
    BY Zenon, <1>2, <2>1 DEF TypeOK, MoveFree, UpdateReservations
  <2>2. CASE MoveReserveRevocable
    BY Zenon, <1>2, <2>2 DEF TypeOK, MoveReserveRevocable, UpdateRevocableReservations
  <2>3. CASE MoveFreeRevocable
    BY Zenon, <1>2, <2>3 DEF TypeOK, MoveFreeRevocable, UpdateRevocableReservations
  <2> QED
    BY Zenon, <2>1, <2>2, <2>3
<1>8. \A s \in Query : (InMove(s) <=> s = q) /\ (InMove(s)' <=> s = q)
  BY <1>1, <1>2, <1>5, Zenon DEF InMove
<1>9. QueriesAddUp'
  <2> SUFFICES ASSUME NEW s \in Query, NEW r \in Pool, s # q
               PROVE  /\ queryReservations'[r][s] = Total(tagged'[r][s])
                      /\ tagged'[r][s][MOVE_QUERY_TAG] = 0
                      /\ r # memoryPool'[s] => /\ queryReservations'[r][s] = 0
                                               /\ queryRevocableReservations'[r][s] = 0
    BY <1>8, Zenon DEF QueriesAddUp
  <2> QED
    BY <1>4, <1>7, <1>8 DEF SumsInv, QueriesAddUp
<1>10. \A r \in Pool :
         /\ queryReservations[r][q] =
              IF r = target \/ (r = source /\ moving.step = "free") THEN bytes ELSE 0
         /\ queryRevocableReservations[r][q] =
              IF \/ r = source /\ moving.step # "put"
                 \/ r = target /\ moving.step \in {"freeRevocable", "put"}
              THEN revocable ELSE 0
         /\ r # source => queryReservations[r][q] = Total(tagged[r][q])
         /\ r # target => tagged[r][q][MOVE_QUERY_TAG] = 0
  BY Zenon, <1>1, <1>2 DEF SumsInv, MoveAddsUp
<1>11. \A r \in Pool :
         /\ queryReservations'[r][q] =
              IF r = target \/ (r = source /\ moving'.step = "free") THEN bytes ELSE 0
         /\ queryRevocableReservations'[r][q] =
              IF \/ r = source /\ moving'.step # "put"
                 \/ r = target /\ moving'.step \in {"freeRevocable", "put"}
              THEN revocable ELSE 0
         /\ r # source => queryReservations'[r][q] = queryReservations[r][q]
  <2>1. CASE MoveFree
    <3>1. moving.step = "free" /\ moving'.step = "reserveRevocable"
      BY Zenon, <1>1, <2>1 DEF MoveFree, MoveStep, Move
    <3>2. /\ queryReservations' = [queryReservations EXCEPT ![source][q] = @ + (-bytes)]
          /\ UNCHANGED queryRevocableReservations
      BY Zenon, <1>2, <2>1 DEF MoveFree, UpdateReservations
    <3>3. queryReservations[source][q] + (-bytes) = 0
      BY <1>10, <3>1
    <3> QED
      BY <1>3, <1>10, <3>1, <3>2, <3>3 DEF TypeOK
  <2>2. CASE MoveReserveRevocable
    <3>1. moving.step = "reserveRevocable" /\ moving'.step = "freeRevocable"
      BY Zenon, <1>1, <2>2 DEF MoveReserveRevocable, MoveStep, Move
    <3>2. /\ queryRevocableReservations' =
               [queryRevocableReservations EXCEPT ![target][q] = @ + revocable]
          /\ UNCHANGED queryReservations
      BY Zenon, <1>2, <2>2 DEF MoveReserveRevocable, UpdateRevocableReservations
    <3>3. queryRevocableReservations[target][q] + revocable = revocable
      BY <1>3, <1>10, <3>1
    <3> QED
      BY Zenon, <1>3, <1>10, <3>1, <3>2, <3>3 DEF TypeOK
  <2>3. CASE MoveFreeRevocable
    <3>1. moving.step = "freeRevocable" /\ moving'.step = "put"
      BY Zenon, <1>1, <2>3 DEF MoveFreeRevocable, MoveStep, Move
    <3>2. /\ queryRevocableReservations' =
               [queryRevocableReservations EXCEPT ![source][q] = @ + (-revocable)]
          /\ UNCHANGED queryReservations
      BY Zenon, <1>2, <2>3 DEF MoveFreeRevocable, UpdateRevocableReservations
    <3>3. queryRevocableReservations[source][q] + (-revocable) = 0
      BY <1>10, <3>1
    <3> QED
      BY Zenon, <1>3, <1>10, <3>1, <3>2, <3>3 DEF TypeOK
  <2> QED
    BY Zenon, <2>1, <2>2, <2>3
<1>12. MoveAddsUp'
  <2>1. /\ moving'.source = memoryPool'[q] /\ tagged'[moving'.source][q] = NoTags
        /\ Total(moving'.tags) = moving'.reserved /\ moving'.tags[MOVE_QUERY_TAG] = 0
    BY Zenon, <1>1, <1>2, <1>4, <1>5 DEF SumsInv, MoveAddsUp
  <2>2. \A r \in Pool : /\ r # source => queryReservations'[r][q] = Total(tagged'[r][q])
                        /\ r # target => tagged'[r][q][MOVE_QUERY_TAG] = 0
    BY Zenon, <1>4, <1>10, <1>11
  <2> QED
    BY <1>5, <1>11, <2>1, <2>2 DEF MoveAddsUp
<1> QED
  BY Zenon, <1>6, <1>9, <1>12 DEF SumsInv

(* The end of a move keeps the sums: the tags that were taken out of the   *)
(* source are those of the bytes that the target has by now.               *)
LEMMA MovePutKeepsSums ==
  ASSUME FuturesInv, SumsInv, MovePut
  PROVE  SumsInv'
<1> TypeOK
  BY Zenon DEF FuturesInv
<1>1. moving \in Move /\ moving # NoMove /\ moving.step = "put"
  BY Zenon DEF TypeOK, MovePut, MoveStep
<1>2. PICK q \in Query, source \in Pool, target \in Pool :
        q = moving.query /\ source = moving.source /\ target = moving.target
  BY Zenon, <1>1 DEF Move
<1>3. source # target
  BY Zenon, <1>1, <1>2 DEF FuturesInv, WaitersHaveFutures
<1>4. /\ tagged' = [tagged EXCEPT ![target][q] = moving.tags]
      /\ memoryPool' = [memoryPool EXCEPT ![q] = target]
      /\ moving' = NoMove
      /\ UNCHANGED <<reservedBytes, reservedRevocableBytes, queryReservations,
                     queryRevocableReservations>>
  BY Zenon, <1>2 DEF MovePut
<1>5. /\ tagged'[target][q] = moving.tags
      /\ \A r \in Pool, s \in Query : r # target \/ s # q => tagged'[r][s] = tagged[r][s]
      /\ memoryPool'[q] = target
      /\ \A s \in Query \ {q} : memoryPool'[s] = memoryPool[s]
  BY Zenon, <1>4 DEF TypeOK
<1>6. PoolsAddUp'
  BY Zenon, <1>4 DEF SumsInv, PoolsAddUp
<1>7. MoveAddsUp'
  BY <1>4, Zenon DEF MoveAddsUp
<1>8. /\ Total(moving.tags) = moving.reserved /\ moving.tags[MOVE_QUERY_TAG] = 0
      /\ tagged[source][q] = NoTags
      /\ \A r \in Pool :
           /\ queryReservations[r][q] = IF r = target THEN moving.reserved ELSE 0
           /\ r # target => queryRevocableReservations[r][q] = 0
           /\ r # source => queryReservations[r][q] = Total(tagged[r][q])
           /\ r # target => tagged[r][q][MOVE_QUERY_TAG] = 0
  BY Zenon, <1>1, <1>2 DEF SumsInv, MoveAddsUp
<1>9. QueriesAddUp'
  <2> SUFFICES ASSUME NEW s \in Query, NEW r \in Pool
               PROVE  /\ queryReservations'[r][s] = Total(tagged'[r][s])
                      /\ tagged'[r][s][MOVE_QUERY_TAG] = 0
                      /\ r # memoryPool'[s] => /\ queryReservations'[r][s] = 0
                                               /\ queryRevocableReservations'[r][s] = 0
    BY Zenon DEF QueriesAddUp
  <2>1. CASE s # q
    <3>1. ~InMove(s)
      BY Zenon, <1>2, <2>1 DEF InMove
    <3> QED
      BY <1>4, <1>5, <2>1, <3>1 DEF SumsInv, QueriesAddUp
  <2>2. CASE s = q
    <3>1. MOVE_QUERY_TAG \in Tag
      BY Zenon, MemoryAssumption
    <3>2. NoTags \in [Tag -> Nat]
      BY Zenon DEF NoTags
    <3>3. Total(NoTags) = 0
      BY <3>1, <3>2, TagsStep
    <3>4. queryReservations'[r][s] = Total(tagged'[r][s])
      BY <1>3, <1>4, <1>5, <1>8, <2>2, <3>3
    <3> QED
      BY <1>4, <1>5, <1>8, <2>2, <3>4
  <2> QED
    BY Zenon, <2>1, <2>2
<1> QED
  BY Zenon, <1>6, <1>7, <1>9 DEF SumsInv

-----------------------------------------------------------------------------
(* The inductive invariant holds when the pools are empty.                 *)
LEMMA InitIInv == Init => IInv
<1> SUFFICES ASSUME Init PROVE IInv
  BY Zenon
<1>1. IsFiniteSet(Query) /\ IsFiniteSet(Tag) /\ MOVE_QUERY_TAG \in Tag
  BY Zenon, MemoryAssumption
<1>2. Total([q \in Query |-> 0]) = 0 /\ Total(NoTags) = 0
  BY Zenon, <1>1, TotalZero DEF NoTags
<1>3. PoolsAddUp
  BY Zenon, <1>2 DEF Init, PoolsAddUp
<1>4. QueriesAddUp
  BY Zenon, <1>1, <1>2 DEF Init, QueriesAddUp, NoTags
<1>5. MoveAddsUp
  BY Zenon DEF Init, MoveAddsUp
<1> QED
  BY Zenon, <1>3, <1>4, <1>5, InitFutures DEF IInv, FuturesInv

(* Every call of an operator and every step of a move keeps the invariant. *)
LEMMA NextIInv == IInv /\ [Next]_vars => IInv'
<1> SUFFICES ASSUME IInv, [Next]_vars PROVE IInv'
  BY Zenon
<1>1. FuturesInv /\ SumsInv /\ TypeOK
  BY Zenon DEF IInv, FuturesInv, SumsInv
<1>2. FuturesInv'
  BY Zenon, <1>1, NextFutures
<1>3. SumsInv'
  <2>1. CASE Operators
    <3>1. \A n \in Nat : 0..n \subseteq Nat
      OBVIOUS
    <3>2. /\ 0..maxTotalMemory \subseteq Nat /\ 0..maxRevocableMemory \subseteq Nat
          /\ MOVE_QUERY_TAG \in Tag
      BY Zenon, <3>1, MemoryAssumption
    <3>3. \/ \E q \in Query, tag \in Tag, bytes \in Nat :
               \/ /\ tag # MOVE_QUERY_TAG
                  /\ \/ reserve(q, tag, bytes) \/ tryReserve(q, tag, bytes)
                     \/ free(q, tag, bytes)
               \/ reserveRevocable(q, bytes) \/ freeRevocable(q, bytes)
          \/ \E q \in Query, p \in Pool : updateMemoryFuture(q, p)
      BY <2>1, <3>2, ZenonT(60) DEF Operators
    <3>4. ASSUME NEW q \in Query, NEW p \in Pool, updateMemoryFuture(q, p) PROVE SumsInv'
      BY Zenon, <1>1, <3>4
      DEF updateMemoryFuture, SumsInv, PoolsAddUp, QueriesAddUp, MoveAddsUp, InMove
    <3> QED
      BY Zenon, <1>1, <3>3, <3>4, ReserveKeepsSums, FreeKeepsSums
  <2>2. CASE Moves
    BY Zenon, <1>1, <2>2, MoveBeginsKeepsSums, MoveKeepsSums, MovePutKeepsSums DEF Moves
  <2>3. CASE UNCHANGED vars
    BY Zenon, <1>1, <2>3 DEF vars, SumsInv, PoolsAddUp, QueriesAddUp, MoveAddsUp, InMove
  <2> QED
    BY Zenon, <2>1, <2>2, <2>3 DEF Next
<1> QED
  BY Zenon, <1>2, <1>3 DEF IInv, FuturesInv, SumsInv

(* What is known of the pools at any moment, for any pools, queries, tags, *)
(* sizes and limits: who waits where, and what adds up to what in the      *)
(* middle of a move (MemoryPool, QueryContext.setMemoryPool).              *)
THEOREM Invariance == Spec => []IInv
BY InitIInv, NextIInv, PTL DEF Spec

(* The counters, maps and waiting sets of the pools keep their types: no   *)
(* counter of MemoryPool is ever negative.                                 *)
THEOREM TypeCorrect == Spec => []TypeOK
<1>1. IInv => TypeOK
  BY Zenon DEF IInv
<1> QED
  BY <1>1, InitIInv, NextIInv, PTL DEF Spec

(* The futures of the pools say who waits, for any number of queries that  *)
(* reserve, free and are moved between any pools.                          *)
THEOREM Futures == Spec => []WaitersHaveFutures
<1>1. IInv => WaitersHaveFutures
  BY Zenon DEF IInv
<1> QED
  BY <1>1, InitIInv, NextIInv, PTL DEF Spec

(* Nobody waits on the future of a pool that has memory, and an operator   *)
(* that registered before its query was moved waits only while the pool    *)
(* the query is in now is full, whatever pool it began to wait on and      *)
(* however often the query moved (MemoryPool, updateMemoryFuture,          *)
(* setMemoryPool).                                                         *)
THEOREM Wakeups == Spec => []NoLostWakeup
<1>1. IInv => NoLostWakeup
  <2> SUFFICES ASSUME IInv, NEW q \in Query
               PROVE  /\ \A p \in waiting[q] \cup blocked[q] \cup late[q] : FreeBytes(p) <= 0
                      /\ /\ blocked[q] # {}
                         /\ moving = NoMove \/ moving.query # q
                         => FreeBytes(memoryPool[q]) <= 0
    BY Zenon DEF NoLostWakeup
  <2>1. ASSUME NEW p \in waiting[q] \cup blocked[q] \cup late[q] \cup listeners[q]
        PROVE  FreeBytes(p) <= 0
    <3>1. p \in waiting[q] \cup listeners[q] /\ p \in Pool
      BY Zenon, <2>1 DEF IInv, TypeOK, WaitersHaveFutures
    <3> QED
      BY Zenon, <3>1 DEF IInv, WaitersHaveFutures
  <2>2. blocked[q] # {} /\ (moving = NoMove \/ moving.query # q)
          => memoryPool[q] \in blocked[q] \cup listeners[q]
    BY ZenonT(60) DEF IInv, WaitersHaveFutures
  <2> QED
    BY Zenon, <2>1, <2>2
<1> QED
  BY <1>1, InitIInv, NextIInv, PTL DEF Spec

(* No byte of memory is lost or counted twice by moveQuery, whatever calls *)
(* of other queries come between its steps: the counters of the pools, the *)
(* reservations of the queries and their tags add up, and the checks of    *)
(* free and freeRevocable succeed.                                         *)
THEOREM Sums == Spec => []MemoryAddsUp
<1>1. IInv => MemoryAddsUp
  <2> SUFFICES ASSUME IInv PROVE MemoryAddsUp
    BY Zenon
  <2> TypeOK
    BY Zenon DEF IInv
  <2>1. CountersAddUp
    BY Zenon DEF IInv, PoolsAddUp, CountersAddUp
  <2>2. ASSUME NEW p \in Pool, NEW q \in Query, p # moving.source \/ ~InMove(q)
        PROVE  queryReservations[p][q] = Total(tagged[p][q])
    BY Zenon, <2>2 DEF IInv, QueriesAddUp, MoveAddsUp, InMove
  <2>3. moving = NoMove =>
          \A p \in Pool, q \in Query :
            /\ tagged[p][q][MOVE_QUERY_TAG] = 0
            /\ p # memoryPool[q] =>
                 queryReservations[p][q] = 0 /\ queryRevocableReservations[p][q] = 0
    BY Zenon DEF IInv, QueriesAddUp, InMove
  <2>4. TagsAddUp
    BY Zenon, <2>2, <2>3 DEF TagsAddUp, Visible, InMove
  <2>5. MemoryInOnePool
    BY Zenon, <2>3 DEF MemoryInOnePool
  <2>6. ASSUME NEW p \in Pool, NEW q \in Query
        PROVE  /\ \A tag \in Tag : tagged[p][q][tag] <= queryReservations[p][q]
               /\ queryReservations[p][q] <= reservedBytes[p]
               /\ queryRevocableReservations[p][q] <= reservedRevocableBytes[p]
    <3>1. /\ queryReservations[p] \in [Query -> Nat]
          /\ queryRevocableReservations[p] \in [Query -> Nat]
          /\ tagged[p][q] \in [Tag -> Nat]
      BY DEF TypeOK
    <3>2. IsFiniteSet(Query) /\ IsFiniteSet(Tag)
      BY Zenon, MemoryAssumption
    <3>3. /\ reservedBytes[p] = Total(queryReservations[p])
          /\ reservedRevocableBytes[p] = Total(queryRevocableReservations[p])
      BY Zenon DEF IInv, PoolsAddUp
    <3>4. /\ queryReservations[p][q] <= reservedBytes[p]
          /\ queryRevocableReservations[p][q] <= reservedRevocableBytes[p]
      BY Zenon, <3>1, <3>2, <3>3, TotalBounds
    <3>5. CASE p # moving.source \/ ~InMove(q)
      BY Zenon, <2>2, <3>1, <3>2, <3>4, <3>5, TotalBounds
    <3>6. CASE p = moving.source /\ InMove(q)
      <4>1. tagged[p][q] = NoTags
        BY Zenon, <3>6 DEF IInv, MoveAddsUp, InMove
      <4>2. queryReservations[p][q] \in Nat
        BY Zenon, <3>1
      <4> QED
        BY <3>4, <4>1, <4>2 DEF NoTags
    <3> QED
      BY Zenon, <3>5, <3>6
  <2>7. ASSUME moving # NoMove
        PROVE  /\ moving.step = "free" =>
                    queryReservations[moving.source][moving.query] = moving.reserved
               /\ moving.step = "freeRevocable" =>
                    queryRevocableReservations[moving.source][moving.query] = moving.revocable
    <3>1. moving.source \in Pool
      BY Zenon, <2>7 DEF TypeOK, Move
    <3> QED
      BY Zenon, <2>7, <3>1 DEF IInv, MoveAddsUp
  <2>8. ChecksSucceed
    BY Zenon, <2>6, <2>7 DEF ChecksSucceed, MoveStep
  <2> QED
    BY Zenon, <2>1, <2>4, <2>5, <2>8 DEF MemoryAddsUp
<1> QED
  BY <1>1, InitIInv, NextIInv, PTL DEF Spec

-----------------------------------------------------------------------------
(* The page of a worker.                                                   *)

(* A sum over rows, one for each member of S, is the sum over any larger   *)
(* set of which the other members count nothing.                           *)
LEMMA TotalOfRows ==
  ASSUME NEW Q, IsFiniteSet(Q), NEW f \in [Q -> Nat], NEW S \in SUBSET Q,
         \A q \in Q \ S : f[q] = 0,
         NEW row, \A p, q \in S : row[p] = row[q] => p = q,
         NEW e, DOMAIN e = {row[q] : q \in S}, \A q \in S : e[row[q]] = f[q]
  PROVE  Total(e) = Total(f)
<1> DEFINE R == {row[q] : q \in S}
           img(T) == {row[q] : q \in T \cap S}
<1>1. IsFiniteSet(R)
  <2>1. IsFiniteSet(S)
    BY Zenon, FS_Subset
  <2> DEFINE h == [q \in S |-> row[q]]
  <2>2. h \in Surjection(S, R)
    BY Zenon DEF Surjection
  <2> HIDE DEF h, R
  <2> QED
    BY Zenon, <2>1, <2>2, FS_Surjection
<1>2. PICK g : SumTable(f, Q, g) /\ Total(f) = g[Q]
  BY Zenon, TotalIsTabled
<1>3. PICK h : SumTable(e, R, h) /\ Total(e) = h[R]
  BY Zenon, <1>1, TotalIsTabled
<1>4. \A x \in R : e[x] \in Int
  BY DEF R
<1>5. \A T \in SUBSET Q : IsFiniteSet(T) /\ Cardinality(T) \in Nat
  BY Zenon, FS_Subset, FS_CardinalityType
<1> DEFINE N == {n \in Nat : \A T \in SUBSET Q : Cardinality(T) = n => g[T] = h[img(T)]}
<1>6. 0 \in N
  <2>1. ASSUME NEW T \in SUBSET Q, Cardinality(T) = 0 PROVE g[T] = h[img(T)]
    <3>1. T = {}
      BY Zenon, <1>5, <2>1, FS_EmptySet
    <3>2. img(T) = {} /\ {} \in SUBSET Q /\ {} \in SUBSET R
      BY Zenon, <3>1
    <3>3. g[{}] = 0 /\ h[{}] = 0
      BY Zenon, <1>2, <1>3, <3>2 DEF SumTable
    <3> QED
      BY Zenon, <3>1, <3>2, <3>3
  <2> QED
    BY Zenon, <2>1
<1>7. ASSUME NEW n \in Nat, n \in N PROVE n + 1 \in N
  <2>1. ASSUME NEW T \in SUBSET Q, Cardinality(T) = n + 1 PROVE g[T] = h[img(T)]
    <3>1. T # {}
      <4>1. Cardinality({}) = 0
        BY Zenon, FS_EmptySet
      <4>2. n + 1 # 0
        OBVIOUS
      <4> QED
        BY Zenon, <2>1, <4>1, <4>2
    <3>2. PICK x \in T : TRUE
      BY Zenon, <3>1
    <3>3. g[T \ {x}] = h[img(T \ {x})]
      <4>1. Cardinality(T \ {x}) = Cardinality(T) - 1
        BY Zenon, <1>5, FS_RemoveElement
      <4>2. Cardinality(T \ {x}) = n
        BY <2>1, <4>1
      <4> HIDE DEF img
      <4> QED
        BY Zenon, <1>7, <4>2
    <3>4. g[T] = f[x] + g[T \ {x}] /\ g[T \ {x}] \in Nat
      <4>1. \A y \in Q : f[y] \in Int /\ f[y] \in Nat
        OBVIOUS
      <4> QED
        BY SMTT(30), <1>2, <4>1, TableAnyElement, TableType
    <3>5. CASE x \in S
      <4>1. img(T) \in SUBSET R /\ row[x] \in img(T)
        <5>1. T \cap S \subseteq S /\ x \in T \cap S
          BY Zenon, <3>2, <3>5
        <5>2. \A y \in img(T) : y \in R
          BY Zenon, <5>1
        <5>3. row[x] \in img(T)
          BY Zenon, <5>1
        <5> HIDE DEF img, R
        <5> QED
          BY Zenon, <5>2, <5>3
      <4>2. img(T) \ {row[x]} = img(T \ {x})
        <5>1. \A q \in T \cap S : row[q] # row[x] <=> q # x
          BY Zenon, <3>5
        <5>2. ASSUME NEW y \in img(T) \ {row[x]} PROVE y \in img(T \ {x})
          <6>1. PICK q \in T \cap S : y = row[q]
            BY Zenon, <5>2
          <6> QED
            BY Zenon, <5>1, <5>2, <6>1
        <5>3. ASSUME NEW y \in img(T \ {x}) PROVE y \in img(T) \ {row[x]}
          <6>1. PICK q \in (T \ {x}) \cap S : y = row[q]
            BY Zenon, <5>3
          <6> QED
            BY Zenon, <5>1, <6>1
        <5> HIDE DEF img
        <5> QED
          BY Zenon, <5>2, <5>3
      <4> HIDE DEF img, R
      <4>3. h[img(T)] = e[row[x]] + h[img(T) \ {row[x]}]
        BY <1>1, <1>3, <1>4, <4>1, TableAnyElement
      <4> QED
        BY Zenon, <3>3, <3>4, <3>5, <4>2, <4>3
    <3>6. CASE x \notin S
      <4>1. f[x] = 0 /\ img(T) = img(T \ {x})
        BY Zenon, <3>6
      <4>2. g[T] = g[T \ {x}]
        BY <3>4, <4>1
      <4> QED
        BY Zenon, <3>3, <4>1, <4>2
    <3> QED
      BY Zenon, <3>5, <3>6
  <2> QED
    BY <2>1
<1>8. g[Q] = h[img(Q)]
  <2> HIDE DEF N, img
  <2>1. Nat \subseteq N
    BY Zenon, <1>6, <1>7, NaturalInduction
  <2>2. Cardinality(Q) \in N
    BY Zenon, <1>5, <2>1
  <2> QED
    BY Zenon, <2>2 DEF N
<1>9. img(Q) = R
  BY Zenon
<1> QED
  BY Zenon, <1>2, <1>3, <1>8, <1>9

(* What is known of one pool's part of an answer.                          *)
InfoAddsUp(pool) ==
  /\ pool.queryMemoryReservations \in [Query -> Nat]
  /\ pool.queryMemoryRevocableReservations \in [Query -> Nat]
  /\ pool.reservedBytes = Total(pool.queryMemoryReservations)
  /\ pool.reservedRevocableBytes = Total(pool.queryMemoryRevocableReservations)

(* Whenever the worker answers for a pool, its information adds up.        *)
LEMMA InfoOfPool ==
  ASSUME IInv, NEW p \in Pool
  PROVE  InfoAddsUp(getInfo(p))
<1>1. /\ queryReservations[p] \in [Query -> Nat]
      /\ queryRevocableReservations[p] \in [Query -> Nat]
      /\ reservedBytes[p] = Total(queryReservations[p])
      /\ reservedRevocableBytes[p] = Total(queryRevocableReservations[p])
  BY Zenon DEF IInv, TypeOK, PoolsAddUp
<1> QED
  BY Zenon, <1>1 DEF InfoAddsUp, getInfo

(* The rows of information that adds up account for its counters.          *)
LEMMA RowsAddUp ==
  ASSUME NEW pool, InfoAddsUp(pool)
  PROVE  LET rows == renderPoolQueries(pool)
         IN  /\ Total([row \in rows |-> row[2]]) = pool.reservedBytes
             /\ Total([row \in rows |-> row[3]]) = pool.reservedRevocableBytes
<1> DEFINE f == pool.queryMemoryReservations
           g == pool.queryMemoryRevocableReservations
           S == {q \in Query : f[q] # 0 \/ g[q] # 0}
           row == [q \in Query |-> <<q, f[q], g[q]>>]
           rows == renderPoolQueries(pool)
<1>1. rows = {row[q] : q \in S}
  <2>1. ASSUME NEW x \in rows PROVE x \in {row[q] : q \in S}
    <3>1. PICK q \in S : x = <<q, f[q], g[q]>>
      BY Zenon DEF renderPoolQueries
    <3> QED
      BY Zenon, <3>1
  <2>2. ASSUME NEW q \in S PROVE row[q] \in rows
    BY Zenon DEF renderPoolQueries
  <2> QED
    BY <2>1, <2>2, Zenon
<1>2. IsFiniteSet(Query) /\ f \in [Query -> Nat] /\ g \in [Query -> Nat]
  BY Zenon, MemoryAssumption DEF InfoAddsUp
<1>3. \A p, q \in S : row[p] = row[q] => p = q
  BY Zenon
<1>4. \A q \in S : row[q] \in rows /\ row[q][2] = f[q] /\ row[q][3] = g[q]
  BY Zenon, <1>1
<1>5. /\ S \in SUBSET Query
      /\ \A q \in Query \ S : f[q] = 0 /\ g[q] = 0
  BY Zenon
<1> HIDE DEF row, rows, S, f, g
<1>6. Total([r \in rows |-> r[2]]) = Total(f)
  <2> DEFINE e == [r \in rows |-> r[2]]
  <2>1. DOMAIN e = {row[q] : q \in S} /\ \A q \in S : e[row[q]] = f[q]
    BY Zenon, <1>1, <1>4
  <2> HIDE DEF e
  <2>2. Total(e) = Total(f)
    BY <1>2, <1>3, <1>5, <2>1, TotalOfRows
  <2> QED
    BY Zenon, <2>2 DEF e
<1>7. Total([r \in rows |-> r[3]]) = Total(g)
  <2> DEFINE e == [r \in rows |-> r[3]]
  <2>1. DOMAIN e = {row[q] : q \in S} /\ \A q \in S : e[row[q]] = g[q]
    BY Zenon, <1>1, <1>4
  <2> HIDE DEF e
  <2>2. Total(e) = Total(g)
    BY SMTT(30), <1>2, <1>3, <1>5, <2>1, TotalOfRows
  <2> QED
    BY Zenon, <2>2 DEF e
<1> QED
  BY <1>6, <1>7, Zenon DEF InfoAddsUp, f, g, rows

(* What the page has, and what is on its way to it, adds up.               *)
StatusInv ==
  /\ IInv
  /\ \A r \in requests :
       /\ {"phase", "general", "reserved"} \subseteq DOMAIN r
       /\ r.phase \in {"general", "answered"} => InfoAddsUp(r.general)
       /\ r.phase = "answered" => InfoAddsUp(r.reserved)
  /\ serverInfo # Null => \A p \in Pool : InfoAddsUp(serverInfo[p])

(* Each step of the worker, the network and the page keeps it.             *)
LEMMA StatusStep ==
  ASSUME TwoPools, StatusInv, [StatusNext]_statusVars
  PROVE  StatusInv'
<1>1. ASSUME UNCHANGED vars PROVE IInv'
  BY Zenon, <1>1, NextIInv DEF StatusInv
<1>2. CASE Worker
  <2>1. IInv'
    BY Zenon, <1>2, NextIInv DEF Worker, StatusInv
  <2>2. UNCHANGED <<requests, serverInfo>>
    BY Zenon, <1>2 DEF Worker, pollVars, pageVars
  <2> QED
    BY Zenon, <2>1, <2>2 DEF StatusInv, InfoAddsUp
<1>3. ASSUME NEW r \in requests, NEW s, requests' = (requests \ {r}) \cup {s},
             {"phase", "general", "reserved"} \subseteq DOMAIN s,
             s.phase \in {"general", "answered"} => InfoAddsUp(s.general),
             s.phase = "answered" => InfoAddsUp(s.reserved),
             UNCHANGED <<vars, pageVars>>
      PROVE  StatusInv'
  <2>1. IInv' /\ UNCHANGED serverInfo
    BY Zenon, <1>1, <1>3 DEF pageVars
  <2> QED
    BY Zenon, <1>3, <2>1 DEF StatusInv, InfoAddsUp
<1>4. InfoAddsUp(getInfo(general)) /\ InfoAddsUp(getInfo(reserved))
  BY Zenon, InfoOfPool DEF StatusInv, TwoPools
<1>5. CASE Answers
  <2>1. PICK r \in requests :
          /\ \/ /\ r.phase = "sent"
                /\ requests' = (requests \ {r}) \cup
                     {[r EXCEPT !.phase = "general", !.general = getInfo(general)]}
             \/ /\ r.phase = "general"
                /\ requests' = (requests \ {r}) \cup
                     {[r EXCEPT !.phase = "answered", !.reserved = getInfo(reserved)]}
          /\ UNCHANGED <<vars, pageVars>>
    BY Zenon, <1>5 DEF Answers
  <2> DEFINE s == [r EXCEPT !.phase = "general", !.general = getInfo(general)]
             t == [r EXCEPT !.phase = "answered", !.reserved = getInfo(reserved)]
  <2>2. /\ {"phase", "general", "reserved"} \subseteq DOMAIN s
        /\ s.phase = "general" /\ s.general = getInfo(general)
    BY Zenon DEF StatusInv
  <2>3. /\ {"phase", "general", "reserved"} \subseteq DOMAIN t
        /\ t.phase = "answered" /\ t.general = r.general /\ t.reserved = getInfo(reserved)
    BY Zenon DEF StatusInv
  <2> HIDE DEF s, t
  <2>4. CASE requests' = (requests \ {r}) \cup {s}
    BY Zenon, <1>3, <1>4, <2>1, <2>2, <2>4
  <2>5. CASE r.phase = "general" /\ requests' = (requests \ {r}) \cup {t}
    BY Zenon, <1>3, <1>4, <2>1, <2>3, <2>5 DEF StatusInv
  <2> QED
    BY Zenon, <2>1, <2>4, <2>5 DEF s, t
<1>6. CASE Failures
  <2>1. PICK r \in requests :
          /\ requests' = (requests \ {r}) \cup {[NewGet(r.id) EXCEPT !.phase = "failed"]}
          /\ UNCHANGED <<vars, pageVars>>
    BY Zenon, <1>6 DEF Failures
  <2> DEFINE s == [NewGet(r.id) EXCEPT !.phase = "failed"]
  <2>2. {"phase", "general", "reserved"} \subseteq DOMAIN s /\ s.phase = "failed"
    BY Zenon DEF NewGet
  <2> HIDE DEF s
  <2>3. requests' = (requests \ {r}) \cup {s}
    BY Zenon, <2>1 DEF s
  <2> QED
    BY Zenon, <1>3, <2>1, <2>2, <2>3
<1>7. ASSUME NEW r \in requests, HandleStatus(r) PROVE StatusInv'
  <2>1. /\ r.phase = "answered" /\ requests' \subseteq requests
        /\ serverInfo' = [p \in Pool |-> IF p = general THEN r.general ELSE r.reserved]
        /\ IInv'
    BY Zenon, <1>1, <1>7 DEF HandleStatus
  <2>2. InfoAddsUp(r.general) /\ InfoAddsUp(r.reserved)
    BY Zenon, <2>1 DEF StatusInv
  <2>3. \A p \in Pool : serverInfo'[p] = r.general \/ serverInfo'[p] = r.reserved
    BY Zenon, <2>1
  <2>4. \A p \in Pool : InfoAddsUp(serverInfo'[p])
    BY Zenon, <2>2, <2>3 DEF InfoAddsUp
  <2> QED
    BY Zenon, <2>1, <2>4 DEF StatusInv, InfoAddsUp
<1>8. ASSUME NEW r \in requests, HandleError(r) PROVE StatusInv'
  <2>1. requests' \subseteq requests /\ UNCHANGED serverInfo /\ IInv'
    BY Zenon, <1>1, <1>8 DEF HandleError
  <2> QED
    BY Zenon, <2>1 DEF StatusInv, InfoAddsUp
<1>9. ASSUME NEW i, refreshLoop(i) PROVE StatusInv'
  <2>1. PICK s : /\ requests' = requests \cup {s}
                 /\ s.phase = "sent"
                 /\ {"phase", "general", "reserved"} \subseteq DOMAIN s
    <3>1. LET s == NewGet(NewRequest)
          IN  s.phase = "sent" /\ {"phase", "general", "reserved"} \subseteq DOMAIN s
      BY Zenon DEF NewGet
    <3> QED
      BY <1>9, <3>1, Zenon DEF refreshLoop, SendRequest
  <2>2. UNCHANGED serverInfo /\ IInv'
    BY Zenon, <1>1, <1>9 DEF refreshLoop, pageVars
  <2> QED
    BY Zenon, <2>1, <2>2 DEF StatusInv, InfoAddsUp
<1>10. CASE UNCHANGED statusVars
  <2>1. UNCHANGED <<requests, serverInfo>> /\ UNCHANGED vars
    BY Zenon, <1>10 DEF statusVars, pollVars, pageVars
  <2> QED
    BY Zenon, <1>1, <2>1 DEF StatusInv, InfoAddsUp
<1> QED
  BY Zenon, <1>2, <1>5, <1>6, <1>7, <1>8, <1>9, <1>10 DEF StatusNext

(* Whatever the queries of a worker reserve, free and move while it        *)
(* answers, the rows listed for a pool account for all the bytes its bar   *)
(* shows as not free, and for the revocable ones (MemoryPool.getInfo,      *)
(* WorkerStatus.jsx renderPoolBar and renderPoolQueries).                  *)
THEOREM PoolsListed ==
  ASSUME TwoPools
  PROVE  StatusSpec => []ListAccountsForBar
<1>1. ASSUME StatusInit PROVE StatusInv
  <2>1. requests = {NewGet(1)} /\ serverInfo = Null /\ IInv
    BY Zenon, <1>1, InitIInv DEF StatusInit, PollInit
  <2>2. \A r \in requests : /\ r.phase = "sent"
                            /\ {"phase", "general", "reserved"} \subseteq DOMAIN r
    BY <2>1 DEF NewGet
  <2> QED
    BY Zenon, <2>1, <2>2 DEF StatusInv
<1>2. ASSUME StatusInv PROVE ListAccountsForBar
  <2> SUFFICES ASSUME serverInfo # Null, NEW p \in Pool
               PROVE  LET rows == renderPoolQueries(serverInfo[p])
                          bar  == renderPoolBar(serverInfo[p], maxBytes[p])
                      IN  /\ Total([row \in rows |-> row[2]]) = maxBytes[p] - bar.free
                          /\ Total([row \in rows |-> row[3]]) = bar.revocable
    BY Zenon DEF ListAccountsForBar
  <2> DEFINE pool == serverInfo[p]
  <2>1. InfoAddsUp(pool)
    BY Zenon, <1>2 DEF StatusInv
  <2> HIDE DEF pool
  <2>2. pool.reservedBytes \in Nat /\ maxBytes[p] \in Nat
    BY Zenon, <2>1, MemoryAssumption, TotalType DEF InfoAddsUp
  <2>3. /\ renderPoolBar(pool, maxBytes[p]).free = maxBytes[p] - pool.reservedBytes
        /\ renderPoolBar(pool, maxBytes[p]).revocable = pool.reservedRevocableBytes
    BY Zenon DEF renderPoolBar
  <2>4. maxBytes[p] - renderPoolBar(pool, maxBytes[p]).free = pool.reservedBytes
    BY <2>2, <2>3
  <2> QED
    BY <2>1, <2>3, <2>4, RowsAddUp, Zenon DEF pool
<1> QED
  BY <1>1, <1>2, StatusStep, PTL DEF StatusSpec

=============================================================================

-------------------------- MODULE QueryListProofs ---------------------------
(***************************************************************************)
(* Proofs about QueryList, for any number of queries, search terms and     *)
(* choices of its menus, and any sequence of refreshes and clicks.         *)
(***************************************************************************)
EXTENDS QueryList, FiniteSetTheorems, TLAPS

(* The members of a finite set can be numbered.                            *)
LEMMA NumbersExist ==
  ASSUME NEW S, IsFiniteSet(S)
  PROVE  \E num \in [S -> Int] : \A x, y \in S : num[x] = num[y] => x = y
<1> DEFINE n == Cardinality(S)
<1>1. n \in Nat
  BY Zenon, FS_CardinalityType
<1>2. IsFiniteSet(1..n) /\ Cardinality(1..n) = n
  BY <1>1, FS_Interval
<1>3. ExistsBijection(S, 1..n)
  BY Zenon, <1>2, FS_SameCardinalityBij
<1>4. PICK num \in [S -> 1..n] : \A x, y \in S : num[x] = num[y] => x = y
  BY Zenon, <1>3 DEF ExistsBijection, Bijection, Injection, IsInjective
<1>5. num \in [S -> Int]
  BY <1>1
<1> QED
  BY Zenon, <1>4, <1>5

(* A finite set has a sequence in the order of any keys: the place of a    *)
(* member is the number of those that do not come after it, by their keys  *)
(* or, of members with the same key, by their numbers.                     *)
LEMMA OrderExists ==
  ASSUME NEW S, IsFiniteSet(S), NEW key \in [S -> Int]
  PROVE  \E s \in [1..Cardinality(S) -> S] :
           \A i, j \in 1..Cardinality(S) : i < j => s[i] # s[j] /\ key[s[i]] <= key[s[j]]
<1>0. PICK num \in [S -> Int] : \A x, y \in S : num[x] = num[y] => x = y
  BY Zenon, NumbersExist
<1> DEFINE n == Cardinality(S)
           Before(x, y) == key[x] < key[y] \/ (key[x] = key[y] /\ num[x] < num[y])
           upto(x) == {y \in S : ~Before(x, y)}
           place == [x \in S |-> Cardinality(upto(x))]
<1>1. n \in Nat
  BY Zenon, FS_CardinalityType
<1>2. ASSUME NEW x \in S
      PROVE  IsFiniteSet(upto(x)) /\ Cardinality(upto(x)) \in 1..n
  <2>1. upto(x) \in SUBSET S
    BY Zenon
  <2>2. IsFiniteSet(upto(x)) /\ Cardinality(upto(x)) <= n /\ Cardinality(upto(x)) \in Nat
    BY Zenon, <2>1, FS_Subset, FS_CardinalityType
  <2>3. x \in upto(x)
    OBVIOUS
  <2>4. Cardinality(upto(x)) # 0
    <3> HIDE DEF upto
    <3> QED
      BY Zenon, <2>2, <2>3, FS_EmptySet
  <2> HIDE DEF upto
  <2> QED
    BY <1>1, <2>2, <2>4
<1>3. ASSUME NEW x \in S, NEW y \in S, Before(x, y)
      PROVE  place[x] < place[y]
  <2>1. upto(x) \in SUBSET upto(y) /\ y \in upto(y) /\ y \notin upto(x)
    BY <1>3
  <2>2. /\ IsFiniteSet(upto(x)) /\ IsFiniteSet(upto(y))
        /\ place[x] = Cardinality(upto(x)) /\ place[y] = Cardinality(upto(y))
        /\ place[x] \in Nat /\ place[y] \in Nat
    BY <1>1, <1>2
  <2> HIDE DEF upto, place
  <2>3. place[x] <= place[y] /\ place[x] # place[y]
    BY <2>1, <2>2, FS_Subset
  <2> QED
    BY <2>2, <2>3
<1>4. place \in [S -> 1..n] /\ \A x \in S : place[x] \in Int
  BY <1>1, <1>2
<1> HIDE DEF place, upto
<1>5. \A x, y \in S : place[x] = place[y] => x = y
  <2> SUFFICES ASSUME NEW x \in S, NEW y \in S, place[x] = place[y], x # y PROVE FALSE
    BY Zenon
  <2>1. num[x] # num[y]
    BY Zenon, <1>0
  <2>2. Before(x, y) \/ Before(y, x)
    BY <2>1
  <2> HIDE DEF Before
  <2> QED
    BY <1>3, <1>4, <2>2
<1>6. place \in Injection(S, 1..n)
  BY <1>4, <1>5, Zenon DEF Injection, IsInjective
<1>7. IsFiniteSet(1..n) /\ Cardinality(1..n) = n
  BY <1>1, FS_Interval
<1>8. place \in Surjection(S, 1..n)
  BY Zenon, <1>6, <1>7, FS_Injection
<1>9. \A i \in 1..n : \E x \in S : place[x] = i
  BY <1>8, Zenon DEF Surjection
<1> DEFINE s == [i \in 1..n |-> CHOOSE x \in S : place[x] = i]
<1>10. \A i \in 1..n : s[i] \in S /\ place[s[i]] = i
  BY <1>9, Zenon
<1>11. s \in [1..n -> S]
  BY Zenon, <1>10
<1> HIDE DEF s
<1>12. ASSUME NEW i \in 1..n, NEW j \in 1..n, i < j
       PROVE  s[i] # s[j] /\ key[s[i]] <= key[s[j]]
  <2>1. s[i] \in S /\ s[j] \in S /\ place[s[i]] = i /\ place[s[j]] = j
    BY Zenon, <1>10
  <2>2. i \in Int /\ j \in Int /\ i # j /\ ~(j < i)
    BY <1>1, <1>12
  <2>3. s[i] # s[j]
    BY Zenon, <2>1, <2>2
  <2>4. ~Before(s[j], s[i])
    BY Zenon, <1>3, <2>1, <2>2
  <2>5. key[s[i]] \in Int /\ key[s[j]] \in Int
    BY Zenon, <2>1
  <2> QED
    BY <2>3, <2>4, <2>5
<1> QED
  BY Zenon, <1>11, <1>12

(* What InOrder gives: each member of the set at one place.                *)
LEMMA InOrderIsList ==
  ASSUME NEW S, IsFiniteSet(S), NEW key \in [S -> Int]
  PROVE  LET s == InOrder(S, key)
         IN  /\ s \in Seq(S) /\ Len(s) = Cardinality(S) /\ DOMAIN s = 1..Len(s)
             /\ {s[i] : i \in DOMAIN s} = S
             /\ \A i, j \in DOMAIN s : s[i] = s[j] => i = j
<1> DEFINE n == Cardinality(S)
           s == InOrder(S, key)
<1>1. n \in Nat
  BY Zenon, FS_CardinalityType
<1>2. PICK f \in [1..n -> S] :
        \A i, j \in 1..n : i < j => f[i] # f[j] /\ key[f[i]] <= key[f[j]]
  BY Zenon, OrderExists
<1>3. /\ s \in [1..n -> S]
      /\ \A i, j \in DOMAIN s : i < j => s[i] # s[j] /\ key[s[i]] <= key[s[j]]
  <2>1. \A i, j \in DOMAIN f : i < j => f[i] # f[j] /\ key[f[i]] <= key[f[j]]
    BY Zenon, <1>2
  <2>2. s = CHOOSE x \in [1..n -> S] :
              \A i, j \in DOMAIN x : i < j => x[i] # x[j] /\ key[x[i]] <= key[x[j]]
    BY Zenon DEF InOrder
  <2> DEFINE InPlace(x) == \A i, j \in DOMAIN x :
                             i < j => x[i] # x[j] /\ key[x[i]] <= key[x[j]]
  <2>3. s = CHOOSE x \in [1..n -> S] : InPlace(x)
    BY Zenon, <2>2
  <2>4. InPlace(f)
    BY Zenon, <2>1
  <2> HIDE DEF s, InPlace
  <2>5. s \in [1..n -> S] /\ InPlace(s)
    BY Zenon, <1>2, <2>3, <2>4
  <2> QED
    BY Zenon, <2>5 DEF InPlace
<1> HIDE DEF s, n
<1>4. DOMAIN s = 1..n
  BY Zenon, <1>3
<1>6. /\ s \in [1..n -> S]
      /\ \A i, j \in 1..n : i # j => s[i] # s[j]
  <2> SUFFICES ASSUME NEW i \in 1..n, NEW j \in 1..n, i # j, s[i] = s[j] PROVE FALSE
    BY Zenon, <1>3
  <2>1. i < j \/ j < i
    BY <1>1
  <2> QED
    BY Zenon, <1>3, <1>4, <2>1
<1>7. s \in Seq(S) /\ Len(s) = n /\ DOMAIN s = 1..n
  BY <1>1, <1>6
<1>8. s \in Injection(1..n, S)
  BY <1>6, Zenon DEF Injection, IsInjective
<1>9. IsFiniteSet(1..n) /\ Cardinality(1..n) = n
  BY <1>1, FS_Interval
<1>10. s \in Surjection(1..n, S)
  BY Zenon, <1>8, <1>9, FS_Injection DEF n
<1>11. {s[i] : i \in 1..n} = S
  <2>1. \A x \in S : \E i \in 1..n : s[i] = x
    BY <1>10, Zenon DEF Surjection
  <2> QED
    BY <1>6, <2>1
<1> QED
  BY Zenon, <1>6, <1>7, <1>11 DEF s, n

(* The queries of an answer: each has an identity of its own.              *)
ListAnswer(Q) ==
  /\ IsFiniteSet(Q)
  /\ \A q \in Q : q.id \in 1..MaxQueryId /\ {"id", "state"} \subseteq DOMAIN q
  /\ \A p, q \in Q : p.id = q.id => p = q

(* Lists of queries of an answer, each at most once.                       *)
IsList(s, Q) ==
  /\ s \in Seq(Q) /\ Len(s) \in Nat /\ DOMAIN s = 1..Len(s)
  /\ \A i, j \in DOMAIN s : s[i].id = s[j].id => i = j

(* Sorted makes a list of any queries of an answer.                        *)
LEMMA SortedIsList ==
  ASSUME ListConstants, NEW Q, ListAnswer(Q), NEW T \in SUBSET Q, NEW type, NEW order
  PROVE  LET s == Sorted(T, type, order)
         IN  IsList(s, Q) /\ {s[i] : i \in DOMAIN s} = T
<1> DEFINE key == [q \in T |-> IF order = "ASCENDING" THEN SORT_TYPE(type, q)
                                                     ELSE -SORT_TYPE(type, q)]
           s == Sorted(T, type, order)
<1>1. IsFiniteSet(T)
  BY Zenon, FS_Subset DEF ListAnswer
<1>2. \A q \in T : q.id \in 1..MaxQueryId
  BY Zenon DEF ListAnswer
<1>3. \A q \in T : SORT_TYPE(type, q) \in Int
  <2>1. ASSUME NEW q \in T PROVE q.id \in Int /\ Memory[q.id] \in Int
    BY <1>2 DEF ListConstants
  <2> QED
    BY <2>1, Zenon DEF SORT_TYPE
<1>5. key \in [T -> Int]
  BY <1>3
<1>7. s = InOrder(T, key)
  BY Zenon DEF Sorted
<1> HIDE DEF key, s
<1>8. /\ s \in Seq(T) /\ Len(s) = Cardinality(T) /\ DOMAIN s = 1..Len(s)
      /\ {s[i] : i \in DOMAIN s} = T
      /\ \A i, j \in DOMAIN s : s[i] = s[j] => i = j
  BY <1>1, <1>5, <1>7, InOrderIsList
<1>9. Cardinality(T) \in Nat
  BY Zenon, <1>1, FS_CardinalityType
<1>10. s \in Seq(Q)
  BY <1>8
<1>11. \A i \in DOMAIN s : s[i] \in Q
  BY Zenon, <1>8
<1> QED
  BY <1>8, <1>9, <1>10, <1>11, Zenon DEF IsList, ListAnswer, s

(* Limit keeps a list a list, and if there is room it keeps all of it.     *)
LEMMA LimitIsList ==
  ASSUME NEW Q, NEW s, IsList(s, Q), NEW max \in Nat
  PROVE  LET t == Limit(s, max)
         IN  IsList(t, Q) /\ (max = 0 \/ Len(t) < max => t = s)
<1>1. CASE max # 0 /\ Len(s) > max
  <2> DEFINE t == SubSeq(s, 1, max)
  <2>1. Limit(s, max) = t
    BY Zenon, <1>1 DEF Limit
  <2>2. s \in Seq(Q) /\ max \in 1..Len(s)
    BY <1>1 DEF IsList
  <2>3. /\ t \in Seq(Q) /\ Len(t) = max /\ DOMAIN t = 1..max
        /\ \A i \in 1..max : t[i] = s[i] /\ i \in DOMAIN s
    BY <2>2
  <2> HIDE DEF t
  <2>4. IsList(t, Q)
    BY Zenon, <2>3 DEF IsList
  <2> QED
    BY <1>1, <2>1, <2>3, <2>4
<1>2. CASE ~(max # 0 /\ Len(s) > max)
  BY Zenon, <1>2 DEF Limit
<1> QED
  BY Zenon, <1>1, <1>2

(* The queries that stay in the list are at different places, with the     *)
(* data of the answer.                                                     *)
LEMMA UpdatedIsList ==
  ASSUME NEW Q, ListAnswer(Q), NEW old, IsList(displayedQueries, old)
  PROVE  IsList(Updated(Q), Q)
<1> DEFINE positions == {i \in DOMAIN displayedQueries :
                           \E n \in Q : n.id = displayedQueries[i].id}
           key  == [i \in positions |-> i]
           kept == InOrder(positions, key)
           new  == [k \in DOMAIN kept |-> CHOOSE n \in Q : n.id = displayedQueries[kept[k]].id]
<1>1. Updated(Q) = new
  BY Zenon DEF Updated
<1>2. DOMAIN displayedQueries = 1..Len(displayedQueries) /\ Len(displayedQueries) \in Nat
  BY Zenon DEF IsList
<1>3. IsFiniteSet(positions)
  <2>1. IsFiniteSet(1..Len(displayedQueries))
    BY <1>2, FS_Interval
  <2>2. positions \in SUBSET (1..Len(displayedQueries))
    BY <1>2, Zenon
  <2> HIDE DEF positions
  <2> QED
    BY Zenon, <2>1, <2>2, FS_Subset
<1>4. key \in [positions -> Int]
  <2>1. \A i \in positions : i \in Int
    BY <1>2
  <2> HIDE DEF positions
  <2> QED
    BY Zenon, <2>1
<1> HIDE DEF key
<1>5. /\ kept \in Seq(positions) /\ Len(kept) = Cardinality(positions)
      /\ DOMAIN kept = 1..Len(kept)
      /\ \A i, j \in DOMAIN kept : kept[i] = kept[j] => i = j
  <2> HIDE DEF positions
  <2> QED
    BY Zenon, <1>3, <1>4, InOrderIsList
<1>6. Len(kept) \in Nat
  BY Zenon, <1>3, <1>5, FS_CardinalityType
<1> HIDE DEF kept
<1>7. \A k \in DOMAIN kept : kept[k] \in positions
  <2> HIDE DEF positions
  <2> QED
    BY <1>5
<1>8. ASSUME NEW k \in DOMAIN kept
      PROVE  new[k] \in Q /\ new[k].id = displayedQueries[kept[k]].id
  <2>1. \E n \in Q : n.id = displayedQueries[kept[k]].id
    BY Zenon, <1>7
  <2> QED
    BY <2>1, Zenon
<1>9. new \in Seq(Q) /\ Len(new) = Len(kept) /\ DOMAIN new = 1..Len(kept)
  <2>1. new \in [1..Len(kept) -> Q] /\ DOMAIN new = 1..Len(kept)
    BY Zenon, <1>5, <1>8
  <2> HIDE DEF new
  <2> QED
    BY <1>6, <2>1
<1>10. ASSUME NEW i \in DOMAIN kept, NEW j \in DOMAIN kept, new[i].id = new[j].id
       PROVE  i = j
  <2>1. displayedQueries[kept[i]].id = displayedQueries[kept[j]].id
    BY Zenon, <1>8, <1>10
  <2>2. kept[i] \in DOMAIN displayedQueries /\ kept[j] \in DOMAIN displayedQueries
    BY Zenon, <1>7
  <2>3. kept[i] = kept[j]
    BY Zenon, <2>1, <2>2 DEF IsList
  <2> QED
    BY Zenon, <1>5, <2>3
<1> HIDE DEF new
<1>11. IsList(new, Q)
  BY Zenon, <1>5, <1>6, <1>9, <1>10 DEF IsList
<1> QED
  BY Zenon, <1>1, <1>11

(* Merge makes a list of the answer that has all that pass the filters.    *)
LEMMA MergeIsList ==
  ASSUME ListConstants, NEW Q, ListAnswer(Q), NEW old, IsList(displayedQueries, old),
         NEW reorder
  PROVE  LET s == Merge(Q, reorder)
         IN  /\ IsList(s, Q)
             /\ filterQueries(Q, filters, searchString) \subseteq {s[i] : i \in DOMAIN s}
<1> DEFINE u == Updated(Q)
           U == {u[i] : i \in DOMAIN u}
           wanted(T) == filterQueries(T, filters, searchString)
           a == Sorted(wanted(U) \cup wanted(Q \ U), currentSortType, currentSortOrder)
           b == Sorted(wanted(Q \ U), currentSortType, currentSortOrder)
<1>1. Merge(Q, reorder) = IF reorder THEN a ELSE u \o b
  BY Zenon DEF Merge, Range
<1>2. IsList(u, Q)
  BY Zenon, UpdatedIsList
<1> HIDE DEF u
<1>3. U \subseteq Q
  BY <1>2 DEF IsList
<1>4. /\ wanted(U) \cup wanted(Q \ U) = wanted(Q) /\ wanted(Q) \in SUBSET Q
      /\ wanted(Q \ U) \in SUBSET (Q \ U)
  <2> HIDE DEF U
  <2> QED
    BY <1>3, Zenon DEF filterQueries
<1>5. IsList(a, Q) /\ {a[i] : i \in DOMAIN a} = wanted(Q)
  <2> DEFINE W == wanted(U) \cup wanted(Q \ U)
  <2>1. W \in SUBSET Q /\ W = wanted(Q)
    BY <1>4, Zenon
  <2> HIDE DEF W
  <2>2. LET x == Sorted(W, currentSortType, currentSortOrder)
        IN  IsList(x, Q) /\ {x[i] : i \in DOMAIN x} = W
    BY <2>1, SortedIsList
  <2> QED
    BY <2>1, <2>2, Zenon DEF W
<1>6. IsList(b, Q) /\ {b[i] : i \in DOMAIN b} = wanted(Q \ U)
  <2> DEFINE W == wanted(Q \ U)
  <2>1. W \in SUBSET Q
    BY Zenon, <1>4
  <2> HIDE DEF W
  <2>2. LET x == Sorted(W, currentSortType, currentSortOrder)
        IN  IsList(x, Q) /\ {x[i] : i \in DOMAIN x} = W
    BY <2>1, SortedIsList
  <2> QED
    BY Zenon, <2>2 DEF W
<1> HIDE DEF a, b
<1>7. CASE reorder
  BY Zenon, <1>1, <1>5, <1>7
<1>8. CASE ~reorder
  <2> DEFINE s == u \o b
             m == Len(u)
             k == Len(b)
  <2>1. m \in Nat /\ k \in Nat /\ u \in Seq(Q) /\ b \in Seq(Q)
        /\ DOMAIN u = 1..m /\ DOMAIN b = 1..k
    BY Zenon, <1>2, <1>6 DEF IsList
  <2>2. /\ s \in Seq(Q) /\ Len(s) = m + k /\ DOMAIN s = 1..(m + k)
        /\ \A i \in 1..m : s[i] = u[i]
        /\ \A i \in 1..k : s[m + i] = b[i]
    BY <2>1
  <2> HIDE DEF s, m, k
  <2>3. \A i \in 1..(m + k) : i \in 1..m \/ (i - m \in 1..k /\ m + (i - m) = i)
    BY <2>1
  <2>4. \A i \in 1..m, j \in 1..k : u[i].id # b[j].id
    <3> SUFFICES ASSUME NEW i \in 1..m, NEW j \in 1..k, u[i].id = b[j].id PROVE FALSE
      BY Zenon
    <3>1. u[i] \in U /\ u[i] \in Q /\ b[j] \in wanted(Q \ U)
      BY Zenon, <1>3, <1>6, <2>1
    <3>2. b[j] \in Q /\ b[j] \notin U
      BY Zenon, <1>4, <3>1
    <3> QED
      BY <3>1, <3>2, Zenon DEF ListAnswer
  <2>5. ASSUME NEW i \in 1..(m + k), NEW j \in 1..(m + k), s[i].id = s[j].id PROVE i = j
    <3>1. /\ \A x, y \in 1..m : u[x].id = u[y].id => x = y
          /\ \A x, y \in 1..k : b[x].id = b[y].id => x = y
      BY Zenon, <1>2, <1>6, <2>1 DEF IsList
    <3>2. CASE i \in 1..m /\ j \in 1..m
      BY Zenon, <2>2, <2>5, <3>1, <3>2
    <3>3. CASE i \notin 1..m /\ j \notin 1..m
      <4>1. /\ i - m \in 1..k /\ m + (i - m) = i /\ j - m \in 1..k /\ m + (j - m) = j
        BY Zenon, <2>3, <3>3
      <4>2. s[i] = b[i - m] /\ s[j] = b[j - m]
        BY Zenon, <2>2, <4>1
      <4>3. i - m = j - m
        BY Zenon, <2>5, <3>1, <4>1, <4>2
      <4> QED
        BY Zenon, <4>1, <4>3
    <3>4. CASE i \in 1..m /\ j \notin 1..m
      <4>1. j - m \in 1..k /\ m + (j - m) = j
        BY Zenon, <2>3, <3>4
      <4>2. s[i] = u[i] /\ s[j] = b[j - m]
        BY Zenon, <2>2, <3>4, <4>1
      <4> QED
        BY Zenon, <2>4, <2>5, <3>4, <4>1, <4>2
    <3>5. CASE i \notin 1..m /\ j \in 1..m
      <4>1. i - m \in 1..k /\ m + (i - m) = i
        BY Zenon, <2>3, <3>5
      <4>2. s[j] = u[j] /\ s[i] = b[i - m]
        BY Zenon, <2>2, <3>5, <4>1
      <4> QED
        BY Zenon, <2>4, <2>5, <3>5, <4>1, <4>2
    <3> QED
      BY Zenon, <3>2, <3>3, <3>4, <3>5
  <2>6. IsList(s, Q)
    BY <2>1, <2>2, <2>5 DEF IsList
  <2>7. ASSUME NEW q \in wanted(Q) PROVE \E i \in DOMAIN s : s[i] = q
    <3>1. CASE q \in U
      <4>1. PICK i \in 1..m : q = u[i]
        BY Zenon, <2>1, <3>1
      <4>2. i \in 1..(m + k)
        BY <2>1
      <4> QED
        BY Zenon, <2>2, <4>1, <4>2
    <3>2. CASE q \notin U
      <4>1. q \in wanted(Q \ U)
        BY <3>2, Zenon DEF filterQueries
      <4>2. PICK i \in 1..k : q = b[i]
        BY Zenon, <1>6, <2>1, <4>1
      <4>3. m + i \in 1..(m + k)
        BY <2>1
      <4> QED
        BY Zenon, <2>2, <4>2, <4>3
    <3> QED
      BY Zenon, <3>1, <3>2
  <2>8. wanted(Q) \subseteq {s[i] : i \in DOMAIN s}
    BY Zenon, <2>7
  <2>9. Merge(Q, reorder) = s
    BY Zenon, <1>1, <1>8 DEF s
  <2> QED
    BY Zenon, <2>6, <2>8, <2>9
<1> QED
  BY Zenon, <1>7, <1>8

(* What the page knows of the coordinator's queries.                       *)
AnswersInv ==
  /\ submitted \in Nat /\ submitted <= MaxQueryId
  /\ ListAnswer(coordinator) /\ \A q \in coordinator : q.id <= submitted
  /\ \A r \in requests :
       {"phase", "queries"} \subseteq DOMAIN r /\ (r.phase = "answered" => ListAnswer(r.queries))
  /\ ListAnswer(allQueries)

(* What the list shows.                                                    *)
ShownInv ==
  /\ maxQueries \in Nat
  /\ IsList(displayedQueries, allQueries)
  /\ NothingHidden

(* The inductive invariant of the list.                                    *)
ListInv == AnswersInv /\ ShownInv

(* The queries of the coordinator stay an answer.                          *)
LEMMA CoordinatorStep ==
  ASSUME ListConstants, AnswersInv, Coordinator
  PROVE  AnswersInv'
<1>1. UNCHANGED <<requests, allQueries>>
  BY Zenon DEF Coordinator, pollVars, listVars
<1>2. /\ submitted \in Nat /\ MaxQueryId \in Nat /\ ListAnswer(coordinator)
      /\ \A q \in coordinator : q.id <= submitted
  BY Zenon DEF AnswersInv, ListConstants
<1>3. SUFFICES /\ submitted' \in Nat /\ submitted' <= MaxQueryId
               /\ ListAnswer(coordinator') /\ \A q \in coordinator' : q.id <= submitted'
  BY Zenon, <1>1 DEF AnswersInv, ListAnswer
<1>4. CASE Submit
  <2> DEFINE new == [id |-> submitted', state |-> "QUEUED"]
  <2>1. /\ submitted' = submitted + 1 /\ submitted < MaxQueryId
        /\ coordinator' = coordinator \cup {new}
    BY Zenon, <1>4 DEF Submit
  <2>2. new.id = submitted' /\ {"id", "state"} \subseteq DOMAIN new
    BY Zenon
  <2> HIDE DEF new
  <2>3. /\ submitted' \in 1..MaxQueryId /\ submitted' \in Nat /\ submitted' <= MaxQueryId
        /\ \A q \in coordinator : q.id \in 1..MaxQueryId /\ q.id # submitted'
                                    /\ q.id <= submitted'
    BY <1>2, <2>1 DEF ListAnswer
  <2>4. IsFiniteSet(coordinator')
    BY Zenon, <1>2, <2>1, FS_AddElement DEF ListAnswer
  <2>5. \A p, q \in coordinator' : p.id = q.id => p = q
    BY <1>2, <2>1, <2>2, <2>3, Zenon DEF ListAnswer
  <2>6. \A q \in coordinator' : q.id \in 1..MaxQueryId /\ {"id", "state"} \subseteq DOMAIN q
    BY <1>2, <2>1, <2>2, <2>3, Zenon DEF ListAnswer
  <2>7. \A q \in coordinator' : q.id <= submitted'
    BY <2>1, <2>2, <2>3
  <2> QED
    BY Zenon, <2>3, <2>4, <2>5, <2>6, <2>7 DEF ListAnswer
<1>5. ASSUME NEW q \in coordinator, Advance(q)
      PROVE  /\ submitted' \in Nat /\ submitted' <= MaxQueryId
             /\ ListAnswer(coordinator') /\ \A x \in coordinator' : x.id <= submitted'
  <2>1. PICK state : coordinator' = (coordinator \ {q}) \cup {[q EXCEPT !.state = state]}
    BY Zenon, <1>5 DEF Advance
  <2> DEFINE new == [q EXCEPT !.state = state]
  <2>2. new.id = q.id /\ {"id", "state"} \subseteq DOMAIN new
    BY Zenon, <1>2 DEF ListAnswer
  <2>3. coordinator' = (coordinator \ {q}) \cup {new}
    BY Zenon, <2>1
  <2> HIDE DEF new
  <2>4. IsFiniteSet(coordinator')
    BY Zenon, <1>2, <2>3, FS_AddElement, FS_RemoveElement DEF ListAnswer
  <2>5. \A x, y \in coordinator' : x.id = y.id => x = y
    BY <1>2, <2>2, <2>3, Zenon DEF ListAnswer
  <2>6. \A x \in coordinator' : x.id \in 1..MaxQueryId /\ {"id", "state"} \subseteq DOMAIN x
    BY <1>2, <2>2, <2>3, Zenon DEF ListAnswer
  <2>7. submitted' = submitted /\ \A x \in coordinator' : x.id <= submitted
    BY Zenon, <1>2, <1>5, <2>2, <2>3 DEF Advance
  <2> QED
    BY Zenon, <1>2, <2>4, <2>5, <2>6, <2>7 DEF ListAnswer, AnswersInv
<1>6. ASSUME NEW q \in coordinator, Forget(q)
      PROVE  /\ submitted' \in Nat /\ submitted' <= MaxQueryId
             /\ ListAnswer(coordinator') /\ \A x \in coordinator' : x.id <= submitted'
  <2>1. coordinator' = coordinator \ {q} /\ submitted' = submitted
    BY Zenon, <1>6 DEF Forget
  <2>2. IsFiniteSet(coordinator')
    BY Zenon, <1>2, <2>1, FS_RemoveElement DEF ListAnswer
  <2>3. coordinator' \subseteq coordinator
    BY Zenon, <2>1
  <2> QED
    BY Zenon, <1>2, <2>1, <2>2, <2>3 DEF ListAnswer, AnswersInv
<1> QED
  BY Zenon, <1>4, <1>5, <1>6 DEF Coordinator

(* A list that is built anew from the last answer.                         *)
LEMMA RebuildStep ==
  ASSUME ListConstants, ListInv, NEW states, NEW term, NEW type, NEW order,
         NEW max \in Nat, Rebuild(states, term, type, order, max),
         filters' = states, searchString' = term, maxQueries' \in Nat,
         max = 0 \/ max = maxQueries'
  PROVE  ListInv'
<1> DEFINE W == filterQueries(allQueries, states, term)
           s == Sorted(W, type, order)
           t == Limit(s, max)
<1>1. /\ UNCHANGED <<requests, coordinator, submitted, allQueries>>
      /\ displayedQueries' = t
  BY Zenon DEF Rebuild, pollVars, serverVars, sortAndLimitQueries
<1>2. ListAnswer(allQueries) /\ W \in SUBSET allQueries
  BY Zenon DEF ListInv, AnswersInv, filterQueries
<1> HIDE DEF W
<1>3. IsList(s, allQueries) /\ {s[i] : i \in DOMAIN s} = W
  BY <1>2, SortedIsList
<1> HIDE DEF s
<1>4. IsList(t, allQueries) /\ (max = 0 \/ Len(t) < max => t = s)
  BY Zenon, <1>3, LimitIsList
<1> HIDE DEF t
<1>5. AnswersInv'
  BY Zenon, <1>1 DEF ListInv, AnswersInv, ListAnswer
<1>6. W = filterQueries(allQueries', filters', searchString')
  BY <1>1, Zenon DEF W
<1>7. maxQueries' = 0 \/ Len(t) < maxQueries' => W \subseteq {t[i] : i \in DOMAIN t}
  BY Zenon, <1>3, <1>4
<1>8. NothingHidden'
  BY <1>1, <1>6, <1>7, Zenon DEF NothingHidden, Range, filterQueries, Matches
<1>9. IsList(displayedQueries', allQueries')
  BY Zenon, <1>1, <1>4
<1> QED
  BY Zenon, <1>5, <1>8, <1>9 DEF ListInv, ShownInv

(* An answer is merged into the list.                                      *)
LEMMA MergeStep ==
  ASSUME ListConstants, ListInv, NEW r \in requests, HandleQueries(r)
  PROVE  ListInv'
<1>1. PICK reorder : displayedQueries' = Limit(Merge(r.queries, reorder), maxQueries)
  BY Zenon DEF HandleQueries
<1>2. /\ requests' \subseteq requests /\ allQueries' = r.queries
      /\ UNCHANGED <<coordinator, submitted, filters, searchString, maxQueries>>
      /\ ListAnswer(r.queries)
  BY Zenon DEF HandleQueries, serverVars, settings, ListInv, AnswersInv
<1> DEFINE Q == r.queries
           s == Merge(Q, reorder)
           t == Limit(s, maxQueries)
           W == filterQueries(Q, filters, searchString)
<1>3. maxQueries \in Nat /\ IsList(displayedQueries, allQueries)
  BY Zenon DEF ListInv, ShownInv
<1>4. IsList(s, Q) /\ W \subseteq {s[i] : i \in DOMAIN s}
  BY <1>2, <1>3, MergeIsList
<1> HIDE DEF s, W
<1>5. IsList(t, Q) /\ (maxQueries = 0 \/ Len(t) < maxQueries => t = s)
  BY Zenon, <1>3, <1>4, LimitIsList
<1>6. displayedQueries' = t
  BY Zenon, <1>1 DEF s
<1> HIDE DEF t
<1>7. AnswersInv'
  BY Zenon, <1>2 DEF ListInv, AnswersInv, ListAnswer
<1>8. W = filterQueries(allQueries', filters', searchString')
  BY <1>2, Zenon DEF W
<1>9. maxQueries' = 0 \/ Len(t) < maxQueries' => W \subseteq {t[i] : i \in DOMAIN t}
  BY Zenon, <1>2, <1>4, <1>5
<1>10. NothingHidden'
  BY <1>6, <1>8, <1>9, Zenon DEF NothingHidden, Range, filterQueries, Matches
<1>11. IsList(displayedQueries', allQueries') /\ maxQueries' \in Nat
  BY Zenon, <1>2, <1>3, <1>5, <1>6
<1> QED
  BY Zenon, <1>7, <1>10, <1>11 DEF ListInv, ShownInv

(* Each step of the coordinator, the network, the timers and the user keeps*)
(* it.                                                                     *)
LEMMA ListStep ==
  ASSUME ListConstants, ListInv, [Next]_vars
  PROVE  ListInv'
<1>1. ASSUME AnswersInv', UNCHANGED <<allQueries, displayedQueries, rebuilt, filters,
                                      searchString, maxQueries>>
      PROVE  ListInv'
  <2>1. NothingHidden'
    BY <1>1, Zenon DEF ListInv, ShownInv, NothingHidden, Range, filterQueries,
                       Matches
  <2>2. IsList(displayedQueries', allQueries') /\ maxQueries' \in Nat
    BY Zenon, <1>1 DEF ListInv, ShownInv
  <2> QED
    BY Zenon, <1>1, <2>1, <2>2 DEF ListInv, ShownInv
<1>2. CASE Coordinator
  BY Zenon, <1>1, <1>2, CoordinatorStep DEF Coordinator, settings, listVars, ListInv
<1>3. ASSUME NEW r \in requests, NEW s,
             requests' = (requests \ {r}) \cup {s},
             {"phase", "queries"} \subseteq DOMAIN s,
             s.phase = "answered" => s.queries = coordinator,
             UNCHANGED <<serverVars, settings, listVars>>
      PROVE  ListInv'
  <2>1. AnswersInv'
    BY Zenon, <1>3 DEF ListInv, AnswersInv, ListAnswer, serverVars, listVars
  <2> QED
    BY Zenon, <1>1, <1>3, <2>1 DEF settings, listVars
<1>4. CASE Answers
  <2>1. PICK r \in requests :
          /\ requests' = (requests \ {r}) \cup
                           {[r EXCEPT !.phase = "answered", !.queries = coordinator]}
          /\ UNCHANGED <<serverVars, settings, listVars>>
    BY Zenon, <1>4 DEF Answers
  <2> DEFINE s == [r EXCEPT !.phase = "answered", !.queries = coordinator]
  <2>2. {"phase", "queries"} \subseteq DOMAIN s /\ s.queries = coordinator
    BY Zenon DEF ListInv, AnswersInv
  <2> HIDE DEF s
  <2>3. requests' = (requests \ {r}) \cup {s}
    BY Zenon, <2>1 DEF s
  <2> QED
    BY Zenon, <1>3, <2>1, <2>2, <2>3
<1>5. CASE Failures
  <2>1. PICK r \in requests :
          /\ requests' = (requests \ {r}) \cup
                           {[r EXCEPT !.phase = "failed", !.queries = {}]}
          /\ UNCHANGED <<serverVars, settings, listVars>>
    BY Zenon, <1>5 DEF Failures
  <2> DEFINE s == [r EXCEPT !.phase = "failed", !.queries = {}]
  <2>2. {"phase", "queries"} \subseteq DOMAIN s /\ s.phase = "failed"
    BY Zenon DEF ListInv, AnswersInv
  <2> HIDE DEF s
  <2>3. requests' = (requests \ {r}) \cup {s}
    BY Zenon, <2>1 DEF s
  <2> QED
    BY Zenon, <1>3, <2>1, <2>2, <2>3
<1>6. ASSUME NEW r \in requests, HandleError(r) PROVE ListInv'
  <2>1. /\ requests' \subseteq requests
        /\ UNCHANGED <<serverVars, settings, listVars>>
    BY Zenon, <1>6 DEF HandleError
  <2>2. AnswersInv'
    BY Zenon, <2>1 DEF ListInv, AnswersInv, ListAnswer, serverVars, listVars
  <2> QED
    BY Zenon, <1>1, <2>1, <2>2 DEF settings, listVars
<1>7. ASSUME NEW i \in timers, refreshLoop(i) PROVE ListInv'
  <2>1. PICK s : /\ requests' = requests \cup {s}
                 /\ s.phase = "sent" /\ {"phase", "queries"} \subseteq DOMAIN s
    <3>1. LET s == [id |-> NewRequest, phase |-> "sent", queries |-> {}]
          IN  s.phase = "sent" /\ {"phase", "queries"} \subseteq DOMAIN s
      BY Zenon
    <3> QED
      BY <1>7, <3>1, Zenon DEF refreshLoop, SendRequest
  <2>2. UNCHANGED <<serverVars, settings, allQueries, displayedQueries, rebuilt>>
    BY Zenon, <1>7 DEF refreshLoop
  <2>3. AnswersInv'
    BY Zenon, <2>1, <2>2 DEF ListInv, AnswersInv, ListAnswer, serverVars
  <2> QED
    BY Zenon, <1>1, <2>2, <2>3 DEF settings
<1>8. ASSUME NEW term, handleSearchStringChange(term) PROVE ListInv'
  <2>1. /\ UNCHANGED <<requests, coordinator, submitted, allQueries, displayedQueries,
                       maxQueries>>
        /\ rebuilt' = FALSE
    BY Zenon, <1>8 DEF handleSearchStringChange, pollVars, serverVars
  <2>2. AnswersInv'
    BY Zenon, <2>1 DEF ListInv, AnswersInv, ListAnswer
  <2>3. ShownInv'
    BY Zenon, <2>1 DEF ListInv, ShownInv, IsList, NothingHidden
  <2> QED
    BY Zenon, <2>2, <2>3 DEF ListInv
<1>9. maxQueries \in Nat /\ Limits \subseteq Nat
  BY Zenon DEF ListInv, ShownInv, ListConstants
<1>10. CASE executeSearch
  BY Zenon, <1>9, <1>10, RebuildStep DEF executeSearch, settings
<1>11. ASSUME NEW max \in Limits, handleMaxQueriesClick(max) PROVE ListInv'
  BY Zenon, <1>9, <1>11, RebuildStep DEF handleMaxQueriesClick
<1>12. ASSUME NEW i, handleReorderClick(i) PROVE ListInv'
  <2>1. UNCHANGED <<pollVars, serverVars, listVars, filters, searchString,
                    maxQueries>>
    BY Zenon, <1>12 DEF handleReorderClick
  <2>2. AnswersInv'
    BY Zenon, <2>1 DEF ListInv, AnswersInv, ListAnswer, serverVars, listVars, pollVars
  <2> QED
    BY Zenon, <1>1, <2>1, <2>2 DEF listVars
<1>13. ASSUME NEW type, handleSortClick(type) PROVE ListInv'
  <2>1. PICK order : Rebuild(filters, searchString, type, order, maxQueries)
    BY <1>13, Zenon DEF handleSortClick
  <2>2. UNCHANGED <<filters, searchString, maxQueries>>
    BY <1>13, Zenon DEF handleSortClick
  <2> QED
    BY Zenon, <1>9, <2>1, <2>2, RebuildStep
<1>14. ASSUME NEW state, handleFilterClick(state) PROVE ListInv'
  <2>1. /\ Rebuild(filters', searchString, currentSortType, currentSortOrder, 0)
        /\ UNCHANGED <<searchString, maxQueries>>
    BY <1>14, Zenon DEF handleFilterClick
  <2>2. 0 \in Nat /\ maxQueries' \in Nat
    BY Zenon, <1>9, <2>1
  <2> QED
    BY Zenon, <2>1, <2>2, RebuildStep
<1>15. CASE UNCHANGED vars
  <2>1. UNCHANGED <<pollVars, serverVars, settings, listVars>>
    BY Zenon, <1>15 DEF vars
  <2>2. AnswersInv'
    BY Zenon, <2>1 DEF ListInv, AnswersInv, ListAnswer, serverVars, listVars, pollVars
  <2> QED
    BY Zenon, <1>1, <2>1, <2>2 DEF settings, listVars
<1> QED
  BY Zenon, <1>2, <1>4, <1>5, <1>6, <1>7, <1>8, <1>10, <1>11, <1>12, <1>13, <1>14, <1>15, MergeStep
     DEF Next, Handlers, Refreshes, User

(* The list is current: each query of the last answer has at most one row, *)
(* with the data of that answer, and while there is room none that passes  *)
(* the filters and the search is hidden, after any sequence of refreshes,  *)
(* merges, reorderings and clicks (QueryList.jsx, refreshLoop and          *)
(* executeSearch).                                                         *)
THEOREM QueriesListed ==
  ASSUME ListConstants
  PROVE  Spec => []ListCurrent
<1>1. ASSUME Init PROVE ListInv
  <2>1. /\ requests = {[id |-> 1, phase |-> "sent", queries |-> {}]}
        /\ coordinator = {} /\ submitted = 0 /\ allQueries = {} /\ displayedQueries = <<>>
        /\ maxQueries \in Nat
    BY Zenon, <1>1 DEF Init, PollInit, ListConstants
  <2>2. \A r \in requests : r.phase = "sent" /\ {"phase", "queries"} \subseteq DOMAIN r
    BY <2>1
  <2>3. ListAnswer({})
    BY FS_EmptySet, Zenon DEF ListAnswer
  <2>4. submitted \in Nat /\ submitted <= MaxQueryId
    BY <2>1 DEF ListConstants
  <2>5. AnswersInv
    BY <2>1, <2>2, <2>3, <2>4, Zenon DEF AnswersInv
  <2>6. IsList(<<>>, {})
    BY DEF IsList
  <2>7. NothingHidden
    BY <2>1, Zenon DEF NothingHidden, filterQueries
  <2> QED
    BY Zenon, <2>1, <2>5, <2>6, <2>7 DEF ListInv, ShownInv
<1>2. ListInv => ListCurrent
  <2> SUFFICES ASSUME ListInv PROVE ListCurrent
    BY Zenon
  <2>1. /\ displayedQueries \in Seq(allQueries) /\ NothingHidden
        /\ \A i, j \in DOMAIN displayedQueries :
             displayedQueries[i].id = displayedQueries[j].id => i = j
    BY Zenon DEF ListInv, ShownInv, IsList
  <2>2. \A i \in DOMAIN displayedQueries : displayedQueries[i] \in allQueries
    BY <2>1
  <2> QED
    BY <2>1, <2>2, Zenon DEF ListCurrent, RowsAreCurrent, Range
<1> QED
  BY <1>1, <1>2, ListStep, PTL DEF Spec

=============================================================================

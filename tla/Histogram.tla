------------------------------ MODULE Histogram ------------------------------
(***************************************************************************)
(* The histogram that StageSummary.renderHistogram (QueryDetail.jsx) draws *)
(* of the times of a stage's tasks.  The number of buckets is the square   *)
(* root of the number of tasks, which is no integer in general, so the     *)
(* comparisons are made between squares; the rounding of the browser's     *)
(* floating-point numbers is left out.                                     *)
(***************************************************************************)
EXTENDS Integers, Sequences, FiniteSetsExt

CONSTANTS
  HISTOGRAM_WIDTH,
  MaxTasks,       \* bound: tasks of a stage
  TaskTime        \* the times a task may have

VARIABLE inputData

LeastOf(data) == Min({data[i] : i \in 1..Len(data)})
GreatestOf(data) == Max({data[i] : i \in 1..Len(data)})

(* numBuckets * numBuckets                                                 *)
NumBucketsSquared(n) == Min({HISTOGRAM_WIDTH * HISTOGRAM_WIDTH, n})

(* bucketSize === 0.  Without any task it is -Infinity.                    *)
BucketSizeIsZero(data) == data # <<>> /\ LeastOf(data) = GreatestOf(data)

(* Mutant: the loop stops at numBuckets.                                   *)
OneBucketLess(n) == Cardinality({i \in 0..n : i * i < NumBucketsSquared(n)})

(* How often the loop "i < numBuckets + 1" pushes a 0.                     *)
BucketsPushed(n) ==
  Cardinality({i \in 0..(n + 1) : i = 0 \/ (i - 1) * (i - 1) < NumBucketsSquared(n)})

(* Whether bucket i begins at or before a point that is x above the least: *)
(* i * bucketSize <= x, with spread = dataMax - dataMin.                   *)
BeginsBefore(i, x, spread, n) ==
  (i * spread) * (i * spread) <= (x * x) * NumBucketsSquared(n)

(* Math.floor((dataPoint - dataMin) / bucketSize)                          *)
Bucket(x, spread, n) == Max({i \in 0..(n + 1) : BeginsBefore(i, x, spread, n)})

(* The counts of the buckets.  A bucket that was not pushed becomes NaN    *)
(* and draws nothing.                                                      *)
renderHistogram(data) ==
  LET n == Len(data)
      spread == GreatestOf(data) - LeastOf(data)
      Count(i) == Cardinality({j \in 1..n : Bucket(data[j] - LeastOf(data), spread, n) = i})
  IN CASE BucketSizeIsZero(data) -> <<n>>
       [] data = <<>> -> <<0>>
       [] OTHER -> [i \in 1..BucketsPushed(n) |-> Count(i - 1)]

HistogramInit == inputData = <<>>

AddTask == Len(inputData) < MaxTasks /\ \E x \in TaskTime : inputData' = Append(inputData, x)

Restart == Len(inputData) = MaxTasks /\ inputData' = <<>>

HistogramNext == AddTask \/ Restart

HistogramSpec == HistogramInit /\ [][HistogramNext]_inputData

-----------------------------------------------------------------------------
SumOf(seq) == MapThenSumSet(LAMBDA i : seq[i], 1..Len(seq))

(* The bars of the histogram stand for all tasks of the stage, and each    *)
(* task for one: the greatest time lands in the extra bucket that the loop *)
(* pushes.                                                                 *)
EveryTaskCounted == SumOf(renderHistogram(inputData)) = Len(inputData)

(* A bar counts the tasks whose times are in the range its tooltip names,  *)
(* from the bucket's beginning up to the beginning of the next.            *)
TooltipsAreRight ==
  LET n == Len(inputData)
      counts == renderHistogram(inputData)
      spread == GreatestOf(inputData) - LeastOf(inputData)
      Above(j) == inputData[j] - LeastOf(inputData)
  IN n > 0 /\ ~BucketSizeIsZero(inputData) =>
       \A i \in 1..Len(counts) :
         counts[i] = Cardinality({j \in 1..n :
                        /\ BeginsBefore(i - 1, Above(j), spread, n)
                        /\ ~BeginsBefore(i, Above(j), spread, n)})
=============================================================================

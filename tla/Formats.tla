------------------------------ MODULE Formats ------------------------------
(***************************************************************************)
(* How the pages write durations, counts and data sizes (formatDuration,   *)
(* formatCount, formatDataSize and precisionRound of utils.js), for whole  *)
(* numbers: a number climbs from unit to unit and is written with two, one *)
(* or no decimals.  A tie is rounded up; that toFixed sees the binary      *)
(* representation of a tie is left out.                                    *)
(*                                                                         *)
(* A page shows any of the numbers first, and they grow from one state to  *)
(* the next, as the number on a page that is refreshed does.               *)
(***************************************************************************)
EXTENDS Integers, Sequences, FiniteSetsExt

CONSTANTS
  Numbers,   \* the numbers to be written, for each kind
  Grain      \* and what they all are multiples of

VARIABLES
  kind,      \* a duration in milliseconds, a count, or a size in bytes
  number

vars == <<kind, number>>

(* Minutes stand for durations in minutes, given in milliseconds.          *)
Kinds == {"duration", "minutes", "count", "size"}

(* What one of each unit is of the unit before: s, m, h, d, w of ms;       *)
(* K, M, B of a count; K, M, G of bytes.                                   *)
Steps ==
  CASE kind \in {"duration", "minutes"} -> <<1000, 60, 60, 24, 7>>
    [] kind = "count" -> <<1000, 1000, 1000>>
    [] kind = "size" -> <<1024, 1024, 1024>>

RECURSIVE UnitSize(_)
UnitSize(unit) == IF unit = 0 THEN 1 ELSE UnitSize(unit - 1) * Steps[unit]

(* Whether the number, in the given unit, is to be written in the next.    *)
Exceeds(n, unit) ==
  LET limit == UnitSize(unit + 1)
  IN IF kind = "size" THEN n >= limit ELSE n > limit

(* Mutant: minutes are tested without asking whether the unit is seconds.  *)
UnguardedMinutes(n, unit) ==
  IF n \in 61..1000 THEN 2 ELSE Max({u \in 0..Len(Steps) : u = 0 \/ n > UnitSize(u)})

RECURSIVE Climb(_, _)
Climb(n, unit) ==
  IF unit < Len(Steps) /\ Exceeds(n, unit) THEN Climb(n, unit + 1) ELSE unit

(* The decimals precisionRound keeps of n / size.                          *)
Decimals(n, size) ==
  CASE n \div 10 < size -> 2
    [] n \div 100 < size -> 1
    [] OTHER -> 0

Power(decimals) == CASE decimals = 2 -> 100 [] decimals = 1 -> 10 [] OTHER -> 1

(* n / size * power, rounded; the remainder is taken in grains, to stay    *)
(* within the integers of the model checker.                               *)
Scaled(n, size, power) ==
  LET rest == n % size
      parts == IF rest = 0 THEN 1 ELSE size \div Grain[kind]
  IN (n \div size) * power + (2 * (rest \div Grain[kind]) * power + parts) \div (2 * parts)

(* What is written: the digits without the point, the decimals, the unit.  *)
Format(n) ==
  LET unit == Climb(n, 0)
      decimals == Decimals(n, UnitSize(unit))
  IN [digits |-> Scaled(n, UnitSize(unit), Power(decimals)), decimals |-> decimals, unit |-> unit]

Init == kind \in Kinds /\ number \in Numbers[kind]

Grow ==
  LET greater == {n \in Numbers[kind] : n > number}
  IN greater # {} /\ number' = Min(greater) /\ UNCHANGED kind

StartAgain ==
  /\ number = Max(Numbers[kind]) /\ number' = Min(Numbers[kind])
  /\ UNCHANGED kind

Next == Grow \/ StartAgain

Spec == Init /\ [][Next]_vars

-----------------------------------------------------------------------------
(* What is written a may stand for no more than what is written b.         *)
ReadsAtMost(a, b) ==
  LET step == IF a.unit = b.unit THEN 1 ELSE Steps[b.unit]
  IN a.digits * Power(b.decimals) <= b.digits * Power(a.decimals) * step

(* A number that grows never reads smaller than before, also where it is   *)
(* written in the next unit or with fewer decimals, and skips no unit      *)
(* (the tests in formatDuration, formatCount and formatDataSize).          *)
GrowingReadsGrowing ==
  [][number' > number =>
       LET a == Format(number)
           b == Format(number')
       IN b.unit \in {a.unit, a.unit + 1} /\ ReadsAtMost(a, b)]_vars

=============================================================================

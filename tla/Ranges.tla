-------------------------------- MODULE Ranges --------------------------------
(***************************************************************************)
(* The functions of ranges.py.  A range is a pair of its start and stop,   *)
(* the values from start to stop - 1.                                      *)
(***************************************************************************)
EXTENDS Integers, Sequences
LOCAL INSTANCE SequencesExt

CONSTANT NoRange     \* the None that intersect may return

Bytes(r) == {i \in r[1]..r[2] : i < r[2]}

\* The values covered by a list of ranges.
Covered(ranges) == UNION {Bytes(ranges[k]) : k \in DOMAIN ranges}

Ascending(ranges) ==
  \A j, k \in DOMAIN ranges : j < k => ranges[j][2] <= ranges[k][1]

\* One range is split at i if it contains i and does not start there.
SplitOne(r, i) ==
  IF r[1] < i /\ i < r[2] THEN <<<<r[1], i>>, <<i, r[2]>>>> ELSE <<r>>

Split(ranges, i) ==
  FlattenSeq([k \in DOMAIN ranges |-> SplitOne(ranges[k], i)])

Outside(r, ex) == r[2] <= ex[1] \/ r[1] >= ex[2]

Exclude(ranges, ex) ==
  SelectSeq(Split(Split(ranges, ex[1]), ex[2]), LAMBDA r : Outside(r, ex))

Larger(a, b) == IF a < b THEN b ELSE a
Smaller(a, b) == IF a < b THEN a ELSE b

\* Mutant of Intersect: ranges that only touch are given an intersection.
IntersectTouching(r1, r2) ==
  LET r == <<Larger(r1[1], r2[1]), Smaller(r1[2], r2[2])>> IN
  IF r[1] <= r[2] THEN r ELSE NoRange

Intersect(r1, r2) ==
  LET r == <<Larger(r1[1], r2[1]), Smaller(r1[2], r2[2])>> IN
  IF r[1] < r[2] THEN r ELSE NoRange

\* The generator's loop: acc holds what was yielded and the current range.
Consolidate(ranges) ==
  LET Step(acc, r) == IF r[1] > acc[2][2] THEN <<Append(acc[1], acc[2]), r>>
                      ELSE <<acc[1], <<acc[2][1], r[2]>>>>
      end == FoldLeft(Step, <<<<>>, Head(ranges)>>, Tail(ranges))
  IN  Append(end[1], end[2])
=============================================================================

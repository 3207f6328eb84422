------------------------------ MODULE RangeCalls ------------------------------
(***************************************************************************)
(* The functions of Ranges over all small inputs: each state is a call.    *)
(* Lists are built by excluding and splitting, as the program does.        *)
(***************************************************************************)
EXTENDS Ranges

CONSTANT Limit       \* ranges within 0..Limit

VARIABLES list, arg

AnyRange == {r \in (0..Limit) \X (0..Limit) : r[1] <= r[2]}

CallsInit == list = <<<<0, Limit>>>> /\ arg = <<0, 0>>

CallExclude == list' = Exclude(list, arg) /\ arg' \in AnyRange
CallSplit == list' = Split(list, arg[1]) /\ arg' \in AnyRange
CallsNext == CallExclude \/ CallSplit

\* arg among the list's ranges, which both begin and end one after the other.
Inserted == <<list[1], arg>> \o Tail(list)
InTurn ==
  /\ list # <<>>
  /\ \A k \in 1..(Len(list)) : \A e \in {1, 2} : Inserted[k][e] <= Inserted[k + 1][e]

\* ranges.exclude is the difference of sets, split is their identity, and
\* intersect is the intersection, None if it is empty; all keep the order.
\* consolidate loses nothing of ranges none of which contains the next.
RangesAreSets ==
  /\ Covered(Exclude(list, arg)) = Covered(list) \ Bytes(arg)
  /\ Ascending(Exclude(list, arg))
  /\ Covered(Split(list, arg[1])) = Covered(list)
  /\ Ascending(Split(list, arg[1]))
  /\ \A k \in DOMAIN list :
       LET both == Bytes(list[k]) \cap Bytes(arg)
           r == Intersect(list[k], arg)
       IN  IF both = {} THEN r = NoRange ELSE r # NoRange /\ Bytes(r) = both
  /\ InTurn => Covered(Consolidate(Inserted)) = Covered(Inserted)
=============================================================================

------------------------------ MODULE PinRanges -----------------------------
(***************************************************************************)
(* The ranges of host memory that are registered with CUDA (gpuSpace/):    *)
(* __merge_ranges rounds up to three ranges to pages and joins those that  *)
(* touch.  A range is [ad |-> address, sz |-> size].                       *)
(***************************************************************************)
EXTENDS Integers, Sequences, Functions

CONSTANT PageSize   \* PAGE_SIZE

round_down(x) == (x \div PageSize) * PageSize
round_up(x) == ((x + PageSize - 1) \div PageSize) * PageSize

Larger(x, y) == IF x > y THEN x ELSE y

\* __merge_2ranges: whether two ranges touch, and their union if they do.
Touch(a, b) ==
  \/ a.ad < b.ad /\ a.ad + a.sz >= b.ad
  \/ a.ad = b.ad
  \/ a.ad > b.ad /\ b.ad + b.sz >= a.ad

\* Faulty variant: the range that starts later is taken to end later.
Union_Later(a, b) ==
  IF a.ad < b.ad
  THEN [ad |-> a.ad, sz |-> b.ad + b.sz - a.ad]
  ELSE IF a.ad = b.ad
       THEN [ad |-> a.ad, sz |-> Larger(a.sz, b.sz)]
       ELSE [ad |-> b.ad, sz |-> Larger(a.ad + a.sz, b.ad + b.sz) - b.ad]

Union(a, b) ==
  IF a.ad < b.ad
  THEN [ad |-> a.ad, sz |-> Larger(a.ad + a.sz, b.ad + b.sz) - a.ad]
  ELSE IF a.ad = b.ad
       THEN [ad |-> a.ad, sz |-> Larger(a.sz, b.sz)]
       ELSE [ad |-> b.ad, sz |-> Larger(a.ad + a.sz, b.ad + b.sz) - b.ad]

\* Two ranges, merged if they touch.
Merge2(a, b) == IF Touch(a, b) THEN <<Union(a, b)>> ELSE <<a, b>>

\* Faulty variant: the third range is not merged with the first two.
MergeRounded_Once(r) ==
  CASE Len(r) <= 1 -> r
    [] Len(r) = 2  -> Merge2(r[1], r[2])
    [] Len(r) = 3  ->
         IF Touch(r[1], r[2]) THEN <<Union(r[1], r[2]), r[3]>>
         ELSE IF Touch(r[1], r[3]) THEN Merge2(Union(r[1], r[3]), r[2])
         ELSE IF Touch(r[3], r[2]) THEN Merge2(r[1], Union(r[3], r[2]))
         ELSE r

\* __merge_ranges, the switch on the number of ranges.
MergeRounded(r) ==
  CASE Len(r) <= 1 -> r
    [] Len(r) = 2  -> Merge2(r[1], r[2])
    [] Len(r) = 3  ->
         IF Touch(r[1], r[2]) THEN Merge2(Union(r[1], r[2]), r[3])
         ELSE IF Touch(r[1], r[3]) THEN Merge2(Union(r[1], r[3]), r[2])
         ELSE IF Touch(r[3], r[2]) THEN Merge2(r[1], Union(r[3], r[2]))
         ELSE r

\* Addresses are rounded down and sizes up, independently.
Round(r) == [i \in DOMAIN r |-> [ad |-> round_down(r[i].ad), sz |-> round_up(r[i].sz)]]

merge_ranges(r) == MergeRounded(Round(r))

=============================================================================

------------------------------ MODULE Histogram ------------------------------
(***************************************************************************)
(* The latency histogram (histogram.hpp) as a value: buckets of unit width *)
(* up to SubBucketCount, of doubling width after that, counts per bucket,  *)
(* and the extremes seen.  Shifts and masks are divisions by powers of     *)
(* two; the 2^62 clamp of the range is out of reach.                       *)
(***************************************************************************)
EXTENDS Integers, FiniteSets, FiniteSetsExt

CONSTANTS HighestTrackable,             \* highest_trackable_
          SubBucketMagnitude            \* sub_bucket_magnitude_

ASSUME HistogramAssumption == HighestTrackable >= 2 /\ SubBucketMagnitude >= 1

SubBucketCount == 2^SubBucketMagnitude
SubBucketHalf  == SubBucketCount \div 2

MaxDoublings == 16                      \* bound: doublings looked at

(* Doublings until the range is passed. *)
BucketCount ==
  1 + Min({n \in 0 .. MaxDoublings : SubBucketCount * 2^n > HighestTrackable})

Slots == 0 .. (BucketCount + 1) * SubBucketHalf - 1

EmptyHistogram ==
  [counts |-> [i \in Slots |-> 0], total |-> 0, overflow |-> 0, low |-> 0, high |-> 0]

(* value | mask has as many bits as the larger of the two. *)
bucket_index(v) ==
  Min({n \in 0 .. MaxDoublings : v < SubBucketCount * 2^n})

index_for(v) ==
  LET b == bucket_index(v)
  IN  (b + 1) * SubBucketHalf + (v \div 2^b - SubBucketHalf)

value_at_index(i) ==
  LET b   == i \div SubBucketHalf - 1
      sub == (i % SubBucketHalf) + SubBucketHalf
  IN  IF b < 0 THEN sub - SubBucketHalf ELSE sub * 2^b

lowest_equivalent_value(v) == (v \div 2^bucket_index(v)) * 2^bucket_index(v)

highest_equivalent_value(v) ==
  lowest_equivalent_value(v) + 2^bucket_index(v) - 1

record(h, value) ==
  LET v == IF value > HighestTrackable THEN HighestTrackable ELSE value
  IN  [counts   |-> [h.counts EXCEPT ![index_for(v)] = @ + 1],
       total    |-> h.total + 1,
       overflow |-> h.overflow + (IF value > HighestTrackable THEN 1 ELSE 0),
       low      |-> IF h.total = 0 \/ v < h.low THEN v ELSE h.low,
       high     |-> IF h.total = 0 \/ v > h.high THEN v ELSE h.high]

(* Mutant: the rank is rounded down. *)
Target_RoundedDown(p, total) ==
  LET t == (p * total) \div 100
  IN  IF t = 0 THEN 1 ELSE IF t > total THEN total ELSE t

(* The rank percentile p stands for: p% of the count, rounded to nearest.  *)
Target(p, total) ==
  LET t == (p * total + 50) \div 100
  IN  IF t = 0 THEN 1 ELSE IF t > total THEN total ELSE t

(* The buckets at or past the one that holds the rank. *)
Reached(rank, h) ==
  {i \in Slots : MapThenSumSet(LAMBDA j : h.counts[j], 0 .. i) >= rank}

(* The upper bound of the bucket that holds that rank, or the maximum. *)
percentile(p, h) ==
  LET hits == Reached(Target(p, h.total), h)
  IN  IF h.total = 0 THEN 0
      ELSE IF hits = {} THEN h.high
      ELSE Min({highest_equivalent_value(value_at_index(Min(hits))), h.high})

=============================================================================

------------------------------- MODULE Tiers -------------------------------
(***************************************************************************)
(* int_relative: the encoding of a number above the one before it, by      *)
(* their difference, in tiers.                                             *)
(***************************************************************************)
EXTENDS Codec

CONSTANTS Buckets,       \* the ranges of differences, in order
          IntRelativeMax,\* the largest value, 2^31 - 1 in the code
          AbsoluteBits   \* the bits of the last tier, 32 in the code

ASSUME BucketsAssumption ==
  /\ Buckets \in Seq([min : Nat, max : Nat])
  /\ \A b \in 1..Len(Buckets) :
       /\ Buckets[b].min <= Buckets[b].max
       /\ Buckets[b].min = IF b = 1 THEN 2 ELSE Buckets[b-1].max + 1
ASSUME DomainAssumption == /\ AbsoluteBits \in Nat
                           /\ IntRelativeMax \in 1..2^AbsoluteBits - 1

(***************************************************************************)
(* The bits WriteStream.SerializeIntRelative writes: a flag per tier, zero *)
(* until the tier the difference is in; its offset in the bucket, or the   *)
(* value itself if it is in none.                                          *)
(***************************************************************************)
BoundedMax == IF Buckets = <<>> THEN 1 ELSE Buckets[Len(Buckets)].max
Span(bucket) == bucket.max - bucket.min

IntRelativeCode(previous, current) ==
  LET difference == current - previous
      tiers == {b \in 1..Len(Buckets) : difference <= Buckets[b].max}
      first == CHOOSE b \in tiers : \A c \in tiers : b <= c
  IN  IF difference = 1 THEN <<1>>
      ELSE IF tiers = {} THEN Zeros(Len(Buckets) + 1) \o ToBits(current, AbsoluteBits)
      ELSE Zeros(first) \o <<1>>
             \o ToBits(difference - Buckets[first].min, BitsRequired(Span(Buckets[first])))
=============================================================================

---------------------------- MODULE FixedPoint ----------------------------
(***************************************************************************)
(* Ranged integers and fixed point values: how a declaration becomes the   *)
(* width of a field, a value its offset from the minimum, and a field that *)
(* is read a value again.  All of it is wrapping unsigned arithmetic on    *)
(* one lane or two, because a range may be wider than the signed half of   *)
(* its type and a bound in whole units shifted to its raw value may too.   *)
(*                                                                         *)
(* "int" is SerializeInt and SerializeInt64 (a lane is the whole type of   *)
(* either), "int128", "fixed64" and "fixed128" the operations of those     *)
(* names, and "zigzag" a caller that sends SignedToUnsigned of a number.   *)
(***************************************************************************)
EXTENDS Wide

CONSTANTS Bounds,      \* the bounds of ranged wide integers
          IntegerBits, \* the formats of fixed point values
          FractionBits

Int128 == -(2^(WideBits-1))..2^(WideBits-1)-1

ASSUME BoundsAssumption == /\ Bounds \subseteq Int128
                           /\ IntegerBits \subseteq Int /\ FractionBits \subseteq Int

Ranged(kind, bounds) ==
  {[kind |-> kind, integerBits |-> 0, fractionBits |-> 0, min |-> a, max |-> b] :
     a \in bounds, b \in bounds}
Fixed(kind) ==
  {[kind |-> kind, integerBits |-> i, fractionBits |-> f, min |-> a, max |-> b] :
     i \in IntegerBits, f \in FractionBits, a \in Int64, b \in Int64}

Declarations == Ranged("int", Int64) \cup Ranged("int128", Bounds)
                  \cup Fixed("fixed64") \cup Fixed("fixed128")
                  \cup Ranged("zigzag", {0})
IsWide(d) == d.kind \in {"int128", "fixed128"}
Values(d) == IF IsWide(d) THEN Int128 ELSE Int64

(***************************************************************************)
(* The patterns of a signed number in one lane and in two.                 *)
(***************************************************************************)
uint64(n) == n % LaneModulus
uint128(n) == [Lo |-> uint64(n), Hi |-> uint64(n \div LaneModulus)]

VARIABLES declaration, \* of the call
          stage,       \* "declared", then "written" and "read", or "forged"
          value,       \* what the caller writes
          wire,        \* the width and the group of bits, or the trap of the write
          result       \* the value read, or the refusal

vars == <<declaration, stage, value, wire, result>>

None == "none"

Panics(message) == [trap |-> message, bits |-> 0, group |-> 0]
Emits(bits, group) == [trap |-> None, bits |-> bits, group |-> group]
Refuses(reason) == [refusal |-> reason, value |-> 0]
Returns(n) == [refusal |-> None, value |-> n]

-----------------------------------------------------------------------------
BitsRequired64(min, max) == IF min = max THEN 0 ELSE LaneLen((max - min) % LaneModulus)
BitsRequired128(min, max) == IF min = max THEN 0 ELSE WideLen(Sub(max, min))

\* Mutant of fixedPointCapacity: the unsigned format of all but one of the bits overflows.
fixedPointCapacityLate(integerBits, signed) ==
  IF signed
    THEN IF integerBits > LaneBits
           THEN [min |-> -(2^(LaneBits-1)), max |-> 2^(LaneBits-1) - 1]
           ELSE LET half == uint64(2^(integerBits-1))
                IN  [min |-> int64(uint64(-half)),
                     max |-> IF integerBits >= LaneBits THEN 2^(LaneBits-1) - 1 ELSE half - 1]
    ELSE IF integerBits > LaneBits THEN [min |-> 0, max |-> 2^(LaneBits-1) - 1]
         ELSE [min |-> 0, max |-> int64(uint64(uint64(2^integerBits) - 1))]

(***************************************************************************)
(* The whole units a Q format holds, within the lane the bounds are in: a  *)
(* format with a negative bound is signed.                                 *)
(***************************************************************************)
fixedPointCapacity(integerBits, signed) ==
  IF signed
    THEN IF integerBits > LaneBits
           THEN [min |-> -(2^(LaneBits-1)), max |-> 2^(LaneBits-1) - 1]
           ELSE LET half == uint64(2^(integerBits-1))
                IN  [min |-> int64(uint64(-half)),
                     max |-> IF integerBits >= LaneBits THEN 2^(LaneBits-1) - 1 ELSE half - 1]
    ELSE IF integerBits >= LaneBits - 1 THEN [min |-> 0, max |-> 2^(LaneBits-1) - 1]
         ELSE [min |-> 0, max |-> int64(uint64(2^integerBits) - 1)]

fixedMisuse(d, formatFits) ==
  LET capacity == fixedPointCapacity(d.integerBits, d.min < 0)
  IN  IF d.integerBits < 1 \/ d.fractionBits < 0 \/ ~formatFits \/ d.min > d.max
        THEN "fixed params"
      ELSE IF d.min < capacity.min \/ d.max > capacity.max THEN "fixed bounds"
      ELSE None

fixedPointParams64(d) ==
  LET rawMin == LaneLsh(uint64(d.min), d.fractionBits)
      rawMax == LaneLsh(uint64(d.max), d.fractionBits)
      misuse == fixedMisuse(d, d.integerBits + d.fractionBits <= LaneBits)
  IN  IF misuse # None THEN [misuse |-> misuse]
      ELSE [misuse |-> None, rawMin |-> rawMin, rawRange |-> uint64(rawMax - rawMin),
            numBits |-> BitsRequired64(rawMin, rawMax)]

\* Mutant of fixedPointParams128: a range of one value has the bits of its fraction.
fixedPointParams128Wide(d) ==
  LET rawMin == Lsh(Int128From64(d.min), d.fractionBits)
      rawMax == Lsh(Int128From64(d.max), d.fractionBits)
      misuse == fixedMisuse(d, d.integerBits + d.fractionBits = WideBits)
  IN  IF misuse # None THEN [misuse |-> misuse]
      ELSE [misuse |-> None, rawMin |-> rawMin, rawRange |-> Sub(rawMax, rawMin),
            numBits |-> BitsRequired64(uint64(d.min), uint64(d.max)) + d.fractionBits]

(***************************************************************************)
(* In two lanes the width is that of the whole units and the fraction's.   *)
(***************************************************************************)
fixedPointParams128(d) ==
  LET rawMin == Lsh(Int128From64(d.min), d.fractionBits)
      rawMax == Lsh(Int128From64(d.max), d.fractionBits)
      misuse == fixedMisuse(d, d.integerBits + d.fractionBits = WideBits)
  IN  IF misuse # None THEN [misuse |-> misuse]
      ELSE [misuse |-> None, rawMin |-> rawMin, rawRange |-> Sub(rawMax, rawMin),
            numBits |-> IF d.min = d.max THEN 0
                        ELSE BitsRequired64(uint64(d.min), uint64(d.max)) + d.fractionBits]

SignedToUnsigned(n) ==
  LaneXor(LaneLsh(uint64(n), 1), uint64(-LaneRsh(uint64(n), LaneBits - 1)))
UnsignedToSigned(u) == int64(LaneXor(LaneRsh(u, 1), uint64(-(u % 2))))

-----------------------------------------------------------------------------
(***************************************************************************)
(* The write: a lane or a pair goes to the wire as it is, "already masked" *)
(* to the width of the field.  A pair of no more than a lane of bits       *)
(* leaves its high lane behind.                                            *)
(***************************************************************************)
WriteInt(d, v) ==
  IF d.min > d.max THEN Panics("min max")
  ELSE IF v < d.min \/ v > d.max THEN Panics("value out of range")
  ELSE Emits(BitsRequired64(uint64(d.min), uint64(d.max)), uint64(uint64(v) - uint64(d.min)))

writeGroups128(offset, numBits) ==
  Emits(numBits, IF numBits <= LaneBits THEN offset.Lo ELSE Unsigned(offset))

WriteInt128(d, v) ==
  LET min == uint128(d.min)
      max == uint128(d.max)
      wide == uint128(v)
  IN  IF SignedCmp(min, max) > 0 THEN Panics("min max")
      ELSE IF SignedCmp(wide, min) < 0 \/ SignedCmp(wide, max) > 0
        THEN Panics("value out of range")
      ELSE writeGroups128(Sub(wide, min), BitsRequired128(min, max))

WriteFixed64(d, v) ==
  LET params == fixedPointParams64(d)
      offset == uint64(uint64(v) - params.rawMin)
  IN  IF params.misuse # None THEN Panics(params.misuse)
      ELSE IF offset > params.rawRange THEN Panics("value out of range")
      ELSE Emits(params.numBits, offset)

WriteFixed128(d, v) ==
  LET params == fixedPointParams128(d)
      offset == Sub(uint128(v), params.rawMin)
  IN  IF params.misuse # None THEN Panics(params.misuse)
      ELSE IF Cmp(offset, params.rawRange) > 0 THEN Panics("value out of range")
      ELSE writeGroups128(offset, params.numBits)

Write(d, v) == CASE d.kind = "int" -> WriteInt(d, v)
                 [] d.kind = "int128" -> WriteInt128(d, v)
                 [] d.kind = "fixed64" -> WriteFixed64(d, v)
                 [] d.kind = "fixed128" -> WriteFixed128(d, v)
                 [] d.kind = "zigzag" -> Emits(LaneBits, SignedToUnsigned(v))

-----------------------------------------------------------------------------
(***************************************************************************)
(* The read of a group of as many bits as the declaration asks for; a bad  *)
(* declaration is refused before any bit is looked at.                     *)
(***************************************************************************)
Misdeclared(d) ==
  \/ d.kind = "int" /\ d.min > d.max
  \/ d.kind = "int128" /\ SignedCmp(uint128(d.min), uint128(d.max)) > 0
  \/ d.kind = "fixed64" /\ fixedPointParams64(d).misuse # None
  \/ d.kind = "fixed128" /\ fixedPointParams128(d).misuse # None

Width(d) == CASE d.kind = "int" -> BitsRequired64(uint64(d.min), uint64(d.max))
              [] d.kind = "int128" -> BitsRequired128(uint128(d.min), uint128(d.max))
              [] d.kind = "fixed64" -> fixedPointParams64(d).numBits
              [] d.kind = "fixed128" -> fixedPointParams128(d).numBits
              [] d.kind = "zigzag" -> LaneBits

readGroups128(group, numBits) ==
  IF numBits <= LaneBits THEN Uint128From64(group) ELSE uint128(group)

\* Mutant of ReadInt: the span is taken for a signed number.
ReadIntSigned(d, group) ==
  IF int64(group) > d.max - d.min THEN Refuses("value_out_of_range")
  ELSE Returns(int64(uint64(group + uint64(d.min))))

ReadInt(d, group) ==
  IF group > uint64(uint64(d.max) - uint64(d.min)) THEN Refuses("value_out_of_range")
  ELSE Returns(int64(uint64(group + uint64(d.min))))

ReadInt128(d, group) ==
  LET min == uint128(d.min)
      offset == readGroups128(group, Width(d))
  IN  IF Cmp(offset, Sub(uint128(d.max), min)) > 0 THEN Refuses("value_out_of_range")
      ELSE Returns(Signed(Add(offset, min)))

ReadFixed64(d, group) ==
  LET params == fixedPointParams64(d)
  IN  IF group > params.rawRange THEN Refuses("value_out_of_range")
      ELSE Returns(int64(uint64(params.rawMin + group)))

ReadFixed128(d, group) ==
  LET params == fixedPointParams128(d)
      offset == readGroups128(group, params.numBits)
  IN  IF Cmp(offset, params.rawRange) > 0 THEN Refuses("value_out_of_range")
      ELSE Returns(Signed(Add(params.rawMin, offset)))

Read(d, group) == CASE d.kind = "int" -> ReadInt(d, group)
                    [] d.kind = "int128" -> ReadInt128(d, group)
                    [] d.kind = "fixed64" -> ReadFixed64(d, group)
                    [] d.kind = "fixed128" -> ReadFixed128(d, group)
                    [] d.kind = "zigzag" -> Returns(UnsignedToSigned(group))

-----------------------------------------------------------------------------
Init == /\ declaration \in Declarations
        /\ stage = "declared"
        /\ value = 0
        /\ wire = Emits(0, 0)
        /\ result = Returns(0)

Serialize(v) == /\ stage = "declared"
                /\ stage' = "written"
                /\ value' = v
                /\ wire' = Write(declaration, v)
                /\ UNCHANGED <<declaration, result>>

(***************************************************************************)
(* The field as a reader finds it: the bits the writer sent, or any others *)
(* of the width the declaration has.                                       *)
(***************************************************************************)
Receive == /\ stage = "written" /\ wire.trap = None
           /\ stage' = "read"
           /\ result' = Read(declaration, wire.group)
           /\ UNCHANGED <<declaration, value, wire>>

ReceiveAny(group) == /\ stage = "declared" /\ ~Misdeclared(declaration)
                     /\ stage' = "forged"
                     /\ wire' = Emits(Width(declaration), group)
                     /\ result' = Read(declaration, group)
                     /\ UNCHANGED <<declaration, value>>

Refuse == /\ stage = "declared" /\ Misdeclared(declaration)
          /\ stage' = "forged"
          /\ result' = Refuses("value_out_of_range")
          /\ UNCHANGED <<declaration, value, wire>>

Next == \/ \E v \in Values(declaration) : Serialize(v)
        \/ Receive
        \/ \E group \in 0..2^WideBits-1 :
             ~Misdeclared(declaration) /\ group < 2^Width(declaration) /\ ReceiveAny(group)
        \/ Refuse

Spec == Init /\ [][Next]_vars

-----------------------------------------------------------------------------
(***************************************************************************)
(* What a declaration means, in plain numbers: the raw values it takes,    *)
(* and whether it is one at all.  A format holds as many whole units as    *)
(* its integer bits, one of which is the sign if a bound is negative.      *)
(***************************************************************************)
Lowest(d) == d.min * 2^d.fractionBits
Highest(d) == d.max * 2^d.fractionBits
ZigZag(n) == IF n >= 0 THEN 2 * n ELSE -2 * n - 1

FormatHolds(d) ==
  /\ d.integerBits >= 1 /\ d.fractionBits >= 0
  /\ IF d.min < 0 THEN d.min >= -(2^(d.integerBits-1)) /\ d.max < 2^(d.integerBits-1)
                  ELSE d.max < 2^d.integerBits

WellDeclared(d) ==
  /\ d.min <= d.max
  /\ d.kind \in {"fixed64", "fixed128"} => FormatHolds(d)
  /\ d.kind = "fixed64" => d.integerBits + d.fractionBits <= LaneBits
  /\ d.kind = "fixed128" => d.integerBits + d.fractionBits = WideBits

(***************************************************************************)
(* The storage is signed and the format may not be: with no negative bound *)
(* it is the pattern of the stored value that counts.                      *)
(***************************************************************************)
Raw(d, v) == IF d.kind \in {"fixed64", "fixed128"} /\ d.min >= 0
               THEN v % 2^(IF IsWide(d) THEN WideBits ELSE LaneBits) ELSE v

InRange(d, raw) == d.kind = "zigzag" \/ raw \in Lowest(d)..Highest(d)

(***************************************************************************)
(* A write panics on a declaration that means nothing and on a value       *)
(* outside the bounds, and on nothing else: also where the range is wider  *)
(* than the signed half of the type, where a shifted bound wraps, and at   *)
(* the formats around the width of a lane (fixedPointCapacity).            *)
(***************************************************************************)
PanicsOutsideTheRange ==
  stage \in {"written", "read"} =>
    (wire.trap = None <=> WellDeclared(declaration) /\ InRange(declaration, Raw(declaration, value)))

(***************************************************************************)
(* What is written is the distance from the minimum, in the fewest bits    *)
(* that hold the range, whatever the storage ("the bytes are identical to  *)
(* SerializeInt64 over the same bounds"; a range of one value has no bits  *)
(* "on every storage width"), and it fits those bits: nothing masks it     *)
(* again.  A zig-zag number is its rank in 0, -1, +1, -2, +2.              *)
(***************************************************************************)
WireIsTheOffset ==
  stage = "written" /\ wire.trap = None =>
    IF declaration.kind = "zigzag" THEN wire = Emits(LaneBits, ZigZag(value))
    ELSE LET span == Highest(declaration) - Lowest(declaration)
         IN  /\ wire.group = Raw(declaration, value) - Lowest(declaration)
             /\ span < 2^wire.bits
             /\ wire.bits > 0 => span >= 2^(wire.bits - 1)

(***************************************************************************)
(* A read of any bits at all returns the value they are the offset of, if  *)
(* it is in the declared bounds, and refuses them if not; a bad            *)
(* declaration it refuses.  What was written is what is read.              *)
(***************************************************************************)
ReadsTheRange ==
  /\ stage = "read" => result = Returns(value)
  /\ stage = "forged" =>
       IF ~WellDeclared(declaration) THEN result = Refuses("value_out_of_range")
       ELSE IF declaration.kind = "zigzag" THEN wire.group = ZigZag(result.value)
       ELSE LET raw == Lowest(declaration) + wire.group
            IN  IF InRange(declaration, raw)
                  THEN result.refusal = None /\ Raw(declaration, result.value) = raw
                  ELSE result = Refuses("value_out_of_range")
=============================================================================

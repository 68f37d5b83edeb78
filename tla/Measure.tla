------------------------------ MODULE Measure ------------------------------
(***************************************************************************)
(* The measure stream, beside the write streams it measures for: one       *)
(* serialize function makes the same calls on a MeasureStream and on a     *)
(* WriteStream, wherever in a stream the object lands.  The measure is a   *)
(* count of bits and cannot know where that is.                            *)
(*                                                                         *)
(* The two streams check and count for themselves, so both are here: for   *)
(* each operation what the measure stream does and what the write stream   *)
(* does, which is to panic or to take a number of bits.  The write stream  *)
(* has the room: running out of it is the one panic a measure has not.     *)
(***************************************************************************)
EXTENDS Tiers, FiniteSets

CONSTANTS Fields,      \* the values and widths of raw fields
          MaxFieldBits,\* the widest a raw field may be, 32 or 64 in the code
          Ranges,      \* the values and bounds of ranged integers
          FloatBits,   \* the width of a float
          Counts,      \* the lengths of byte arrays
          Texts,       \* the lengths of strings and whether their text is "nul" or "ill"
          Sizes,       \* the buffer sizes of strings
          Relatives,   \* the numbers of int_relative, before and after
          MaxCalls     \* bound of the model: the calls on a stream

ASSUME ArgumentsAssumption ==
  /\ Fields \subseteq [value : Nat, bits : Int] /\ MaxFieldBits \in Nat
  /\ Ranges \subseteq [value : Int, min : Int, max : Int]
  /\ FloatBits \in Nat /\ Counts \subseteq Nat
  /\ \A text \in Texts : text.length \in Nat
  /\ Sizes \subseteq Int
  /\ Relatives \subseteq [previous : Int, current : Int]
  /\ MaxCalls \in Nat

VARIABLES bitsWritten, \* the bits measured
          written,     \* the bits a write stream has written, by where it began
          aligns,      \* how many of the calls so far align
          calls,       \* how many there were
          trap         \* what the last call panicked with, on either stream

vars == <<bitsWritten, written, aligns, calls, trap>>

None == "none"
Phases == 0..ByteBits-1

Panics(message) == [trap |-> message, bits |-> 0]
Takes(bits) == [trap |-> None, bits |-> bits]
Anywhere(o) == [phase \in Phases |-> o]

-----------------------------------------------------------------------------
(***************************************************************************)
(* MeasureStream.                                                          *)
(***************************************************************************)
WorstAlign == ByteBits - 1

MeasureField(value, bits) ==
  IF bits < 1 \/ bits > MaxFieldBits THEN Panics("bits range")
  ELSE IF value > 2^bits - 1 THEN Panics("value too wide")
  ELSE Takes(bits)

MeasureRanged(value, min, max) ==
  IF min > max THEN Panics("min max")
  ELSE IF value < min \/ value > max THEN Panics("value out of range")
  ELSE Takes(BitsRequired(max - min))

MeasureFloat(finite) == IF finite THEN Takes(FloatBits) ELSE Panics("non finite float")
MeasureAlign == Takes(WorstAlign)

\* Mutant of MeasureBytes: the align of a byte array is not counted.
MeasureBytesBare(count) == Takes(count * ByteBits)

MeasureBytes(count) == Takes(WorstAlign + count * ByteBits)

\* Mutant of MeasureString: a text of the size of the buffer is let through.
MeasureStringTooLong(text, size) ==
  IF size < 1 THEN Panics("buffer size")
  ELSE IF text.length > size THEN Panics("string too long")
  ELSE IF text.form = "nul" THEN Panics("embedded nul")
  ELSE IF text.form = "ill" THEN Panics("invalid utf8")
  ELSE Takes(BitsRequired(size - 1) + WorstAlign + text.length * ByteBits)

MeasureString(text, size) ==
  IF size < 1 THEN Panics("buffer size")
  ELSE IF text.length >= size THEN Panics("string too long")
  ELSE IF text.form = "nul" THEN Panics("embedded nul")
  ELSE IF text.form = "ill" THEN Panics("invalid utf8")
  ELSE Takes(BitsRequired(size - 1) + WorstAlign + text.length * ByteBits)

\* Mutant of MeasureIntRelative: the absolute tier is counted a flag of its own.
MeasureIntRelativeOver(previous, current) ==
  LET difference == current - previous
      passed == {b \in 1..Len(Buckets) : difference > Buckets[b].max}
      tier == Cardinality(passed) + 1
  IN  IF previous < 0 THEN Panics("previous")
      ELSE IF previous >= current THEN Panics("order")
      ELSE IF difference = 1 THEN Takes(1)
      ELSE IF tier > Len(Buckets) THEN Takes(1 + tier + AbsoluteBits)
      ELSE Takes(1 + tier + BitsRequired(Span(Buckets[tier])))

(***************************************************************************)
(* The loop counts a bit for each bucket up to the one that takes the      *)
(* difference: those it is too large for, and that one.                    *)
(***************************************************************************)
MeasureIntRelative(previous, current) ==
  LET difference == current - previous
      passed == {b \in 1..Len(Buckets) : difference > Buckets[b].max}
      tier == Cardinality(passed) + 1
  IN  IF previous < 0 THEN Panics("previous")
      ELSE IF previous >= current THEN Panics("order")
      ELSE IF difference = 1 THEN Takes(1)
      ELSE IF tier > Len(Buckets) THEN Takes(1 + Len(Buckets) + AbsoluteBits)
      ELSE Takes(1 + tier + BitsRequired(Span(Buckets[tier])))

-----------------------------------------------------------------------------
(***************************************************************************)
(* WriteStream, at a position that is phase bits into a byte.              *)
(***************************************************************************)
WriteField(value, bits) ==
  IF bits < 1 \/ bits > MaxFieldBits THEN Panics("bits range")
  ELSE IF value > 2^bits - 1 THEN Panics("value too wide")
  ELSE Takes(Len(ToBits(value, bits)))

WriteRanged(value, min, max) ==
  IF min > max THEN Panics("min max")
  ELSE IF value < min \/ value > max THEN Panics("value out of range")
  ELSE Takes(Len(ToBits(value - min, BitsRequired(max - min))))

WriteFloat(finite) == IF finite THEN Takes(FloatBits) ELSE Panics("non finite float")
WriteAlign == [phase \in Phases |-> Takes(AlignPad(phase))]
WriteBytes(count) == [phase \in Phases |-> Takes(AlignPad(phase) + count * ByteBits)]

WriteString(text, size) ==
  [phase \in Phases |->
     IF size < 1 THEN Panics("buffer size")
     ELSE IF text.length >= size THEN Panics("string too long")
     ELSE IF text.form = "nul" THEN Panics("embedded nul")
     ELSE IF text.form = "ill" THEN Panics("invalid utf8")
     ELSE LET lengthBits == BitsRequired(size - 1)
          IN  Takes(lengthBits + AlignPad(phase + lengthBits) + text.length * ByteBits)]

WriteIntRelative(previous, current) ==
  IF previous < 0 THEN Panics("previous")
  ELSE IF previous >= current THEN Panics("order")
  ELSE Takes(Len(IntRelativeCode(previous, current)))

-----------------------------------------------------------------------------
Init == /\ bitsWritten = 0
        /\ written = [start \in Phases |-> 0]
        /\ aligns = 0 /\ calls = 0
        /\ trap = [measure |-> None, write |-> None]

(***************************************************************************)
(* A call of the serialize function on every one of the streams.  One that *)
(* panics leaves its stream alone; a caller that recovers goes on.         *)
(***************************************************************************)
Call(measure, write, isAlign) ==
  /\ calls < MaxCalls
  /\ calls' = calls + 1
  /\ bitsWritten' = bitsWritten + measure.bits
  /\ written' = [start \in Phases |->
                   written[start] + write[(start + written[start]) % ByteBits].bits]
  /\ aligns' = IF isAlign /\ measure.trap = None THEN aligns + 1 ELSE aligns
  /\ trap' = [measure |-> measure.trap, write |-> write[written[0] % ByteBits].trap]

SerializeBits(value, bits) ==
  Call(MeasureField(value, bits), Anywhere(WriteField(value, bits)), FALSE)
SerializeInt(value, min, max) ==
  Call(MeasureRanged(value, min, max), Anywhere(WriteRanged(value, min, max)), FALSE)
SerializeFloat(finite) == Call(MeasureFloat(finite), Anywhere(WriteFloat(finite)), FALSE)
SerializeAlign == Call(MeasureAlign, WriteAlign, TRUE)
SerializeBytes(count) == Call(MeasureBytes(count), WriteBytes(count), TRUE)
SerializeString(text, size) ==
  Call(MeasureString(text, size), WriteString(text, size), TRUE)
SerializeIntRelative(previous, current) ==
  Call(MeasureIntRelative(previous, current),
       Anywhere(WriteIntRelative(previous, current)), FALSE)

(***************************************************************************)
(* The end of the object, which neither stream counts.                     *)
(***************************************************************************)
SerializeEnd == Call(Takes(0), Anywhere(Takes(0)), FALSE)

\* Mutant of Reset: the count is kept.
ResetKeepingCount == /\ UNCHANGED bitsWritten
                     /\ written' = [start \in Phases |-> 0]
                     /\ aligns' = 0 /\ calls' = 0
                     /\ trap' = [measure |-> None, write |-> None]

Reset == /\ bitsWritten' = 0
         /\ written' = [start \in Phases |-> 0]
         /\ aligns' = 0 /\ calls' = 0
         /\ trap' = [measure |-> None, write |-> None]

Next == \/ \E f \in Fields : SerializeBits(f.value, f.bits)
        \/ \E r \in Ranges : SerializeInt(r.value, r.min, r.max)
        \/ \E finite \in BOOLEAN : SerializeFloat(finite)
        \/ SerializeAlign
        \/ \E count \in Counts : SerializeBytes(count)
        \/ \E text \in Texts, size \in Sizes : SerializeString(text, size)
        \/ \E r \in Relatives : SerializeIntRelative(r.previous, r.current)
        \/ SerializeEnd
        \/ Reset

Spec == Init /\ [][Next]_vars

-----------------------------------------------------------------------------
(***************************************************************************)
(* The type of every variable; nothing is measured before the first call.  *)
(***************************************************************************)
TypeOK == /\ bitsWritten \in Nat
          /\ calls = 0 => bitsWritten = 0
          /\ written \in [Phases -> Nat]
          /\ calls \in 0..MaxCalls
          /\ aligns \in 0..calls
          /\ trap.measure # None => calls > 0

(***************************************************************************)
(* "The estimate is guaranteed to be conservative" (MeasureStream): what   *)
(* is measured is at least what a write stream writes for the same calls,  *)
(* wherever in a byte the object lands and however often it aligns, so a   *)
(* buffer with that room left never overflows.                             *)
(***************************************************************************)
Enough == \A start \in Phases : written[start] <= bitsWritten

(***************************************************************************)
(* Only an align is estimated: the excess is at most all but one of the    *)
(* bits of a byte for each align of the object, and an object that never   *)
(* aligns is measured exactly.                                             *)
(***************************************************************************)
OnlyAlignsEstimated ==
  \A start \in Phases : bitsWritten - written[start] <= aligns * WorstAlign

(***************************************************************************)
(* A measure "makes every check a write makes, except the room left": it   *)
(* panics exactly where the write does and with the same message.          *)
(***************************************************************************)
SameTrap == trap.measure = trap.write
=============================================================================

-------------------------- MODULE CompressedFloat --------------------------
(***************************************************************************)
(* Compressed floats: a value quantized to an integer in 0..steps of a     *)
(* declared range, all of it in float32 with every step rounding.  The     *)
(* integer is as wide as or wider than a float's significand, so an        *)
(* integer that becomes a float moves, and half a step may carry.          *)
(*                                                                         *)
(* A "derived" declaration is (min, max, resolution), its constants        *)
(* derived on every call; a "precomputed" one comes with its constants,    *)
(* which nobody says are right.                                            *)
(***************************************************************************)
EXTENDS Floats

CONSTANTS IntegerWidth, \* bits of the integer type
          Bounds,       \* the floats declarations and values are made of
          Resolutions,
          Deltas,
          Values

ASSUME CompressedFloatAssumption ==
  /\ IntegerWidth \in Nat /\ IntegerWidth > Precision /\ IntegerWidth + UnitBits < TopBits
  /\ Bounds \cup Resolutions \cup Deltas \cup Values \subseteq Floats

Derived == {[kind |-> "derived", min |-> a, max |-> b, resolution |-> r] :
              a \in Bounds, b \in Bounds, r \in Resolutions}
Precomputed == {[kind |-> "precomputed", maxIntegerValue |-> n, bits |-> Length(n) + k, delta |-> x, min |-> a] :
                  n \in 0..2^IntegerWidth-1, k \in -1..1, x \in Deltas, a \in Bounds}

VARIABLES declaration, \* of the field
          stage,       \* "declared", then "measured", "written", "read", or "forged"
          measured,    \* the width the measure stream counts, or its trap
          value,       \* what the caller writes
          wire,        \* the width and the integer sent, or the trap of the write
          result       \* the value read, or the refusal

floatVars == <<declaration, stage, measured, value, wire, result>>

None == "none"

Panics(message) == [trap |-> message, bits |-> 0, integer |-> 0]
Emits(bits, integer) == [trap |-> None, bits |-> bits, integer |-> integer]
Refuses(reason) == [refusal |-> reason, value |-> 0]
Returns(x) == [refusal |-> None, value |-> x]

-----------------------------------------------------------------------------
LargestBelow == (2^Precision - 1) * 2^(IntegerWidth - Precision) \* below 2^IntegerWidth

compressedFloatDeclarationValid(d) == Less(d.min, d.max) /\ Less(0, d.resolution)

MostSteps == FromInteger(LargestBelow)
Params(integer, delta) ==
  [maxIntegerValue |-> integer, bits |-> Length(integer), delta |-> delta]

\* Mutant of Clamped: the clamp is at the largest integer, which rounds up.
TypeSteps == FromInteger(2^IntegerWidth - 1)
ClampedAtTheType(steps) == IF ~LessEqual(One, steps) THEN One
                           ELSE IF Less(TypeSteps, steps) THEN TypeSteps ELSE steps

(***************************************************************************)
(* The constants of a declaration: as many steps as the resolution asks    *)
(* for, at least one and at most the largest float below the integer type. *)
(* Both clamps are written so that NaN is clamped too.                     *)
(***************************************************************************)
Clamped(steps) == IF ~LessEqual(One, steps) THEN One
                  ELSE IF Less(MostSteps, steps) THEN MostSteps ELSE steps

ParamsOver(delta, resolution) ==
  Params(Ceil(Clamped(Over(delta, resolution))) % 2^IntegerWidth, delta)

compressedFloatParams(min, max, resolution) == ParamsOver(Minus(max, min), resolution)

checkCompressedFloatDeclarationFinite(d) ==
  LET delta == Minus(d.max, d.min)
  IN  IsFinite(delta) /\ IsFinite(Over(delta, d.resolution)) /\ IsFinite(Plus(d.min, delta))

compressedFloatConstantsValid(c) ==
  /\ c.maxIntegerValue \in 1..LargestBelow
  /\ c.bits = Length(c.maxIntegerValue)
  /\ Less(0, c.delta) /\ IsFinite(c.delta)

Constants(d) == IF d.kind = "derived" THEN compressedFloatParams(d.min, d.max, d.resolution)
                ELSE [maxIntegerValue |-> d.maxIntegerValue, bits |-> d.bits, delta |-> d.delta]

(***************************************************************************)
(* What the write and measure streams panic on before they look at the     *)
(* value; the read stream refuses a declaration on less.                   *)
(***************************************************************************)
DeclarationTrap(d) ==
  IF d.kind = "derived"
    THEN IF ~compressedFloatDeclarationValid(d) THEN "float params"
         ELSE IF ~checkCompressedFloatDeclarationFinite(d) THEN "float decode"
         ELSE None
    ELSE IF ~compressedFloatConstantsValid(d) THEN "precomputed float" ELSE None

ReaderTakes(d) == IF d.kind = "derived" THEN compressedFloatDeclarationValid(d)
                  ELSE compressedFloatConstantsValid(d)

-----------------------------------------------------------------------------
ToUnit(normalized) == IF ~LessEqual(0, normalized) THEN 0
                      ELSE IF ~LessEqual(normalized, One) THEN One
                      ELSE normalized
Scaled(c, min, x) ==
  Times(ToUnit(Over(Minus(x, min), c.delta)), FromInteger(c.maxIntegerValue))

\* Mutant of Quantize: what half a step carried past the last one stays.
QuantizeUnclamped(c, min, x) == Floor(Plus(Scaled(c, min, x), One \div 2))

(***************************************************************************)
(* A value's integer: its place in the range as a float, a step count, and *)
(* half a step, each rounded; clamped again once it is an integer.         *)
(***************************************************************************)
Quantize(c, min, x) ==
  LET integer == Floor(Plus(Scaled(c, min, x), One \div 2))
  IN  IF integer > c.maxIntegerValue THEN c.maxIntegerValue ELSE integer

WriteField(d, x) ==
  LET c == Constants(d)
  IN  IF DeclarationTrap(d) # None THEN Panics(DeclarationTrap(d))
      ELSE IF ~IsFinite(Plus(d.min, c.delta)) THEN Panics("float decode")
      ELSE IF ~IsFinite(x) THEN Panics("non finite float")
      ELSE Emits(c.bits, Quantize(c, d.min, x))

\* Mutant of MeasureField: constants with no finite top decode are measured.
MeasureFieldAnyTop(d, x) ==
  IF DeclarationTrap(d) # None THEN [trap |-> DeclarationTrap(d), bits |-> 0]
  ELSE IF ~IsFinite(x) THEN [trap |-> "non finite float", bits |-> 0]
  ELSE [trap |-> None, bits |-> Constants(d).bits]

MeasureField(d, x) ==
  IF DeclarationTrap(d) # None THEN [trap |-> DeclarationTrap(d), bits |-> 0]
  ELSE IF d.kind = "precomputed" /\ ~IsFinite(Plus(d.min, d.delta))
         THEN [trap |-> "float decode", bits |-> 0]
  ELSE IF ~IsFinite(x) THEN [trap |-> "non finite float", bits |-> 0]
  ELSE [trap |-> None, bits |-> Constants(d).bits]

\* Mutant of ReadField: integers in the headroom of the field are decoded.
ReadFieldHeadroom(d, integer) ==
  LET c        == Constants(d)
      quotient == Over(FromInteger(integer), FromInteger(c.maxIntegerValue))
      decoded  == Plus(Times(quotient, c.delta), d.min)
  IN  IF ~ReaderTakes(d) THEN Refuses("value_out_of_range")
      ELSE IF ~IsFinite(decoded) THEN Refuses("non_finite_float")
      ELSE Returns(decoded)

(***************************************************************************)
(* The value of an integer: the quotient rounds, the product rounds before *)
(* min is added, and the sum rounds.                                       *)
(***************************************************************************)
ReadField(d, integer) ==
  LET c        == Constants(d)
      quotient == Over(FromInteger(integer), FromInteger(c.maxIntegerValue))
      decoded  == Plus(Times(quotient, c.delta), d.min)
  IN  IF ~ReaderTakes(d) THEN Refuses("value_out_of_range")
      ELSE IF integer > c.maxIntegerValue THEN Refuses("value_out_of_range")
      ELSE IF ~IsFinite(decoded) THEN Refuses("non_finite_float")
      ELSE Returns(decoded)

-----------------------------------------------------------------------------
FloatInit == /\ declaration \in Derived \cup Precomputed
             /\ stage = "declared"
             /\ measured = [trap |-> None, bits |-> 0]
             /\ value = 0
             /\ wire = Emits(0, 0)
             /\ result = Returns(0)

Measure(x) == /\ stage = "declared"
              /\ stage' = "measured"
              /\ value' = x
              /\ measured' = MeasureField(declaration, x)
              /\ UNCHANGED <<declaration, wire, result>>

Serialize == /\ stage = "measured"
             /\ stage' = "written"
             /\ wire' = WriteField(declaration, value)
             /\ UNCHANGED <<declaration, measured, value, result>>

Receive == /\ stage = "written" /\ wire.trap = None
           /\ stage' = "read"
           /\ result' = ReadField(declaration, wire.integer)
           /\ UNCHANGED <<declaration, measured, value, wire>>

(***************************************************************************)
(* A reader that finds any bits at all in the field.                       *)
(***************************************************************************)
Forged(d) == IF ReaderTakes(d) THEN 0..2^Constants(d).bits-1 ELSE {0}

ReceiveAny(integer) == /\ stage = "declared"
                       /\ stage' = "forged"
                       /\ wire' = Emits(Length(integer), integer)
                       /\ result' = ReadField(declaration, integer)
                       /\ UNCHANGED <<declaration, measured, value>>

FloatNext == \/ \E x \in Values : Measure(x)
             \/ Serialize
             \/ Receive
             \/ \E integer \in Forged(declaration) : ReceiveAny(integer)

FloatSpec == FloatInit /\ [][FloatNext]_floatVars

-----------------------------------------------------------------------------
(***************************************************************************)
(* Whatever rounds on the way, a reader takes what the writer sends: it is *)
(* within the width and not past the last step, also where the integers    *)
(* are wider than a float ("the writer emits a code its own reader         *)
(* rejects, or one bit wider than the field", write_stream.go).            *)
(***************************************************************************)
ReaderAcceptsWriter ==
  /\ stage = "written" /\ wire.trap = None => wire.integer < 2^wire.bits
  /\ stage = "read" => result.refusal = None

(***************************************************************************)
(* "On read a successful decode is finite and lies in [min, min + delta]"  *)
(* (stream.go), whatever bits the reader finds and also for a declaration  *)
(* the writer would panic on; no step and the last step are the two ends.  *)
(***************************************************************************)
DecodesBetweenEnds ==
  stage \in {"read", "forged"} /\ result.refusal = None =>
    LET c   == Constants(declaration)
        top == Plus(declaration.min, c.delta)
    IN  /\ IsFinite(result.value)
        /\ LessEqual(declaration.min, result.value) /\ LessEqual(result.value, top)
        /\ wire.integer = 0 => result.value = declaration.min
        /\ wire.integer = c.maxIntegerValue => result.value = top

(***************************************************************************)
(* The constants of a declaration the writer takes are ones it would take  *)
(* precomputed ("wire identical by construction", stream.go), and reach    *)
(* both ends: a value at or past a bound is sent as the step of that end.  *)
(***************************************************************************)
DerivedConstantsServe ==
  stage = "written" /\ wire.trap = None /\ declaration.kind = "derived" =>
    LET c == Constants(declaration)
    IN  /\ WriteField([kind |-> "precomputed", maxIntegerValue |-> c.maxIntegerValue,
                       bits |-> c.bits, delta |-> c.delta, min |-> declaration.min],
                      value) = wire
        /\ value <= declaration.min => wire.integer = 0
        /\ value >= declaration.max => wire.integer = c.maxIntegerValue

(***************************************************************************)
(* "A measure panics exactly where the write would" (measure_stream.go),   *)
(* with the same message, and counts the width the write sends, although   *)
(* the two check a declaration in different functions.                     *)
(***************************************************************************)
MeasureAgrees == stage = "written" => measured = [trap |-> wire.trap, bits |-> wire.bits]

(***************************************************************************)
(* What read_stream.go says of SerializeCompressedFloat32: "On success     *)
(* *value is guaranteed to be in [min,max]".  The range's width rounds,    *)
(* and so the last step decodes past max.                                  *)
(***************************************************************************)
InDeclaredRange ==
  stage = "read" /\ declaration.kind = "derived" /\ result.refusal = None =>
    LessEqual(declaration.min, result.value) /\ LessEqual(result.value, declaration.max)
=============================================================================

------------------------------ MODULE Floats ------------------------------
(***************************************************************************)
(* Binary floating point of a few bits.  A float is an integer count of    *)
(* the smallest subnormal: the finite ones have at most Precision          *)
(* significant bits, Infinity is the first power of two out of their       *)
(* reach, and NaN is a number past it, unordered.  The signs of zero are   *)
(* not told apart.  Every operation rounds its exact result once, to the   *)
(* nearest, ties to the even significand.                                  *)
(***************************************************************************)
EXTENDS Integers, FiniteSets

CONSTANTS Precision, \* significant bits
          UnitBits,  \* 1.0 is 2^UnitBits of the smallest subnormal
          TopBits    \* and Infinity 2^TopBits

ASSUME FloatsAssumption == /\ Precision \in Nat \ {0, 1} /\ UnitBits \in Nat /\ TopBits \in Nat
                           /\ Precision < TopBits /\ UnitBits < TopBits

One == 2^UnitBits
Infinity == 2^TopBits
NaN == 2 * Infinity

Magnitudes == 0..2^Precision-1 \cup
              UNION {{m * 2^e : m \in 2^(Precision-1)..2^Precision-1} : e \in 1..TopBits-Precision}
Finite == Magnitudes \cup {-m : m \in Magnitudes}
Floats == Finite \cup {Infinity, -Infinity, NaN}

IsFinite(x) == -Infinity < x /\ x < Infinity
Less(x, y) == NaN \notin {x, y} /\ x < y
LessEqual(x, y) == NaN \notin {x, y} /\ x <= y

(***************************************************************************)
(* The bits of a natural number, none of them past those of a product of   *)
(* two finite floats (bits.Len, and BitsRequired of a span).               *)
(***************************************************************************)
Length(n) == CHOOSE b \in 0..2*TopBits : (b = 0 \/ 2^(b-1) <= n) /\ n < 2^b

(***************************************************************************)
(* The float nearest to the quotient of a natural by a positive number: so *)
(* many units of its last place, what is left rounded, a half to even.     *)
(***************************************************************************)
Excess(bits) == IF bits > Precision THEN bits - Precision ELSE 0
HalfEven(m, left, unit) ==
  IF left > unit - left \/ (left = unit - left /\ m % 2 = 1) THEN m + 1 ELSE m
InUnits(n, unit, d) == HalfEven(n \div unit, n % unit, unit) * (unit \div d)
OrInfinity(m) == IF m < Infinity THEN m ELSE Infinity
Nearest(n, d) == OrInfinity(InUnits(n, d * 2^Excess(Length(n \div d)), d))

Magnitude(n) == IF n < 0 THEN -n ELSE n
WithSign(n, m) == IF n < 0 THEN -m ELSE m
Round(n, d) == WithSign(n, Nearest(Magnitude(n), d))
FromInteger(i) == Round(i * One, 1)

Plus(x, y) == IF NaN \in {x, y} \/ {x, y} = {Infinity, -Infinity} THEN NaN
              ELSE IF IsFinite(x) /\ IsFinite(y) THEN Round(x + y, 1)
              ELSE IF IsFinite(x) THEN y ELSE x
Minus(x, y) == Plus(x, IF y = NaN THEN NaN ELSE -y)

Times(x, y) == IF NaN \in {x, y} THEN NaN
               ELSE IF IsFinite(x) /\ IsFinite(y) THEN Round(x * y, One)
               ELSE IF 0 \in {x, y} THEN NaN
               ELSE IF (x < 0) = (y < 0) THEN Infinity ELSE -Infinity

(***************************************************************************)
(* A quotient by a divisor that is not negative: the code has no others.   *)
(***************************************************************************)
Over(x, y) == IF x = NaN \/ (~IsFinite(x) /\ ~IsFinite(y)) THEN NaN
              ELSE IF ~IsFinite(x) THEN x
              ELSE IF ~IsFinite(y) THEN 0
              ELSE IF y = 0 THEN IF x = 0 THEN NaN ELSE IF x < 0 THEN -Infinity ELSE Infinity
              ELSE Round(x * One, y)

(***************************************************************************)
(* The integers around a finite float.                                     *)
(***************************************************************************)
Floor(x) == x \div One
Ceil(x) == -((-x) \div One)
=============================================================================

------------------------------- MODULE Wide -------------------------------
(***************************************************************************)
(* Integers of two lanes, Uint128 and Int128: Go has no 128 bit integers,  *)
(* so carries, borrows, the bits that change lane in a shift and the sign  *)
(* are the code's own affair.  A lane is a uint64 in the code; here it is  *)
(* a number of LaneBits bits, and every 64 and 128 of the source is an     *)
(* expression in LaneBits.  Signed and unsigned values share the pattern.  *)
(***************************************************************************)
EXTENDS Integers, Sequences

CONSTANT LaneBits      \* bits in a lane: 64 in the code

ASSUME LaneAssumption == LaneBits \in Nat \ {0}

WideBits == 2 * LaneBits
LaneModulus == 2^LaneBits
Lane == 0..LaneModulus-1
Uint128 == [Lo : Lane, Hi : Lane]

(***************************************************************************)
(* The numbers a lane and a pair stand for, unsigned and two's complement. *)
(***************************************************************************)
int64(lane) == IF lane < LaneModulus \div 2 THEN lane ELSE lane - LaneModulus
Int64 == -(LaneModulus \div 2)..(LaneModulus \div 2) - 1

Unsigned(x) == x.Hi * LaneModulus + x.Lo
Signed(x) == int64(x.Hi) * LaneModulus + x.Lo

Uint128From64(lane) == [Lo |-> lane, Hi |-> 0]
Zero == Uint128From64(0)
One == Uint128From64(1)

-----------------------------------------------------------------------------
\* Mutant of Add: the carry does not reach the high lane.
AddNoCarry(x, y) == [Lo |-> (x.Lo + y.Lo) % LaneModulus,
                     Hi |-> (x.Hi + y.Hi) % LaneModulus]

Add(x, y) == [Lo |-> (x.Lo + y.Lo) % LaneModulus,
              Hi |-> (x.Hi + y.Hi + (x.Lo + y.Lo) \div LaneModulus) % LaneModulus]

Sub(x, y) == LET borrow == IF x.Lo < y.Lo THEN 1 ELSE 0
             IN  [Lo |-> (x.Lo - y.Lo) % LaneModulus,
                  Hi |-> (x.Hi - y.Hi - borrow) % LaneModulus]

(***************************************************************************)
(* The product of the low lanes is exact; the cross products wrap.         *)
(***************************************************************************)
Mul(x, y) ==
  LET low == x.Lo * y.Lo
  IN  [Lo |-> low % LaneModulus,
       Hi |-> (low \div LaneModulus + x.Lo * y.Hi + x.Hi * y.Lo) % LaneModulus]

Neg(x) == Sub(Zero, x)

(***************************************************************************)
(* ^, &, | and ^ of two lanes, bit by bit from the lowest.                 *)
(***************************************************************************)
LaneBit(a, i) == (a \div 2^(i-1)) % 2

LaneOf(bits) ==
  LET low[i \in 0..Len(bits)] == IF i = 0 THEN 0 ELSE low[i-1] + bits[i] * 2^(i-1)
  IN  low[Len(bits)]

LaneAnd(a, b) == LaneOf([i \in 1..LaneBits |-> LaneBit(a, i) * LaneBit(b, i)])
LaneXor(a, b) == LaneOf([i \in 1..LaneBits |-> (LaneBit(a, i) + LaneBit(b, i)) % 2])
LaneOr(a, b) == a + b - LaneAnd(a, b)

Not(x) == [Lo |-> LaneModulus - 1 - x.Lo, Hi |-> LaneModulus - 1 - x.Hi]
And(x, y) == [Lo |-> LaneAnd(x.Lo, y.Lo), Hi |-> LaneAnd(x.Hi, y.Hi)]
Or(x, y) == [Lo |-> LaneOr(x.Lo, y.Lo), Hi |-> LaneOr(x.Hi, y.Hi)]
Xor(x, y) == [Lo |-> LaneXor(x.Lo, y.Lo), Hi |-> LaneXor(x.Hi, y.Hi)]

(***************************************************************************)
(* << and >> of a lane, which give zero from a whole lane on, and of a     *)
(* pair, where the lanes trade places half way.                            *)
(***************************************************************************)
LaneLsh(a, n) == (a * 2^n) % LaneModulus
LaneRsh(a, n) == a \div 2^n

Lsh(x, n) ==
  IF n = 0 THEN x
  ELSE IF n < LaneBits
    THEN [Lo |-> LaneLsh(x.Lo, n), Hi |-> LaneOr(LaneLsh(x.Hi, n), LaneRsh(x.Lo, LaneBits - n))]
  ELSE IF n < WideBits THEN [Lo |-> 0, Hi |-> LaneLsh(x.Lo, n - LaneBits)]
  ELSE Zero

\* Mutant of Rsh: a shift by a whole lane is left to the branch of the shorter ones.
RshHalfway(x, n) ==
  IF n <= LaneBits
    THEN [Lo |-> LaneOr(LaneRsh(x.Lo, n), LaneLsh(x.Hi, LaneBits - n)), Hi |-> x.Hi]
  ELSE IF n < WideBits THEN [Lo |-> LaneRsh(x.Hi, n - LaneBits), Hi |-> 0]
  ELSE Zero

Rsh(x, n) ==
  IF n = 0 THEN x
  ELSE IF n < LaneBits
    THEN [Lo |-> LaneOr(LaneRsh(x.Lo, n), LaneLsh(x.Hi, LaneBits - n)), Hi |-> LaneRsh(x.Hi, n)]
  ELSE IF n < WideBits THEN [Lo |-> LaneRsh(x.Hi, n - LaneBits), Hi |-> 0]
  ELSE Zero

LaneLen(a) == CHOOSE n \in 0..LaneBits : a < 2^n /\ (n > 0 => 2^(n-1) <= a)
WideLen(x) == IF x.Hi # 0 THEN LaneBits + LaneLen(x.Hi) ELSE LaneLen(x.Lo)

Order(a, b) == IF a < b THEN -1 ELSE IF a > b THEN 1 ELSE 0
Cmp(x, y) == IF x.Hi # y.Hi THEN Order(x.Hi, y.Hi) ELSE Order(x.Lo, y.Lo)

-----------------------------------------------------------------------------
(***************************************************************************)
(* What Int128 has of its own: the widening of a signed lane, the order of *)
(* the high lanes as signed numbers, and the shift that fills with the     *)
(* sign.                                                                   *)
(***************************************************************************)
Int128From64(n) == [Lo |-> n % LaneModulus, Hi |-> IF n < 0 THEN LaneModulus - 1 ELSE 0]
IsNegative(x) == LaneRsh(x.Hi, LaneBits - 1) # 0

SignedCmp(x, y) == IF x.Hi # y.Hi THEN Order(int64(x.Hi), int64(y.Hi)) ELSE Order(x.Lo, y.Lo)

SignedRsh(x, n) ==
  IF n >= WideBits THEN IF IsNegative(x) THEN Int128From64(-1) ELSE Zero
  ELSE IF IsNegative(x) /\ n > 0 THEN Or(Rsh(x, n), Lsh(Not(Zero), WideBits - n))
  ELSE Rsh(x, n)
=============================================================================

-------------------------- MODULE WideArithmetic --------------------------
(***************************************************************************)
(* A caller that computes with the two lane integers: an accumulator, and  *)
(* any sequence of operations on it with any operands.                     *)
(***************************************************************************)
EXTENDS Wide

VARIABLES acc,         \* the accumulator, a pair of lanes
          last,        \* the last operation: its name, operand and answer
          division     \* the division that is running

arithmeticVars == <<acc, last, division>>

Idle == [op |-> "none", operand |-> 0, answer |-> 0]
NoDivision == [busy |-> FALSE, op |-> "DivMod", operand |-> Zero,
               x |-> Zero, y |-> Zero, quotient |-> Zero, remainder |-> Zero, i |-> -1]

ArithmeticInit == acc \in Uint128 /\ last = Idle /\ division = NoDivision

Called(op, operand, answer) ==
  /\ last = Idle
  /\ ~division.busy
  /\ last' = [op |-> op, operand |-> operand, answer |-> answer]
  /\ UNCHANGED division

Computes(op, operand, result) == acc' = result /\ Called(op, operand, 0)
Answers(op, operand, answer) == UNCHANGED acc /\ Called(op, operand, answer)

-----------------------------------------------------------------------------
(***************************************************************************)
(* Uint128.DivMod, of the magnitudes when it is Int128's: the divisions    *)
(* the hardware has, or else bit after bit from the highest of x.          *)
(***************************************************************************)
Magnitude(op, x) == IF op = "SignedDivMod" /\ IsNegative(x) THEN Neg(x) ELSE x

\* Mutant of HardwareDivision: a quotient of more than one lane.
HardwareDivisionWide(x, y) == x.Hi <= y.Lo /\ y.Hi = 0

HardwareDivision(x, y) == \/ x.Hi = 0 /\ y.Hi = 0
                          \/ y.Hi = 0 /\ x.Hi < y.Lo

BeginDivision(op, operand) ==
  LET x == Magnitude(op, acc)
      y == Magnitude(op, operand)
      begun == [NoDivision EXCEPT !.busy = TRUE, !.op = op, !.operand = operand,
                                  !.x = x, !.y = y]
  IN  /\ last = Idle
      /\ ~division.busy
      /\ division' =
           IF y = Zero THEN begun
           ELSE IF HardwareDivision(x, y)
             THEN [begun EXCEPT !.quotient = Uint128From64(Unsigned(x) \div y.Lo),
                                !.remainder = Uint128From64(Unsigned(x) % y.Lo)]
           ELSE [begun EXCEPT !.i = WideLen(x) - 1]
      /\ UNCHANGED <<acc, last>>

\* Mutant of Fits: a remainder equal to the divisor is left.
FitsStrictly(remainder, y) == Cmp(remainder, y) > 0

Fits(remainder, y) == Cmp(remainder, y) >= 0

DivisionStep ==
  LET d == division
      shifted == Lsh(d.remainder, 1)
      next == [shifted EXCEPT !.Lo = LaneOr(@, Rsh(d.x, d.i).Lo % 2)]
      subtracts == Fits(next, d.y)
  IN  /\ d.busy /\ d.i >= 0
      /\ division' = [d EXCEPT !.i = @ - 1,
                               !.remainder = IF subtracts THEN Sub(next, d.y) ELSE next,
                               !.quotient = IF subtracts THEN Or(@, Lsh(One, d.i)) ELSE @]
      /\ UNCHANGED <<acc, last>>

(***************************************************************************)
(* The signs, and the caller has both results: the quotient goes to the    *)
(* accumulator.                                                            *)
(***************************************************************************)
EndDivision ==
  LET d == division
      negative(z) == d.op = "SignedDivMod" /\ IsNegative(z)
      signed(z, flip) == IF flip THEN Neg(z) ELSE z
  IN  /\ d.busy /\ d.i < 0
      /\ acc' = signed(d.quotient, negative(acc) # negative(d.operand))
      /\ last' = [op |-> d.op, operand |-> Unsigned(d.operand),
                  answer |-> Unsigned(signed(d.remainder, negative(acc)))]
      /\ division' = NoDivision

(***************************************************************************)
(* The caller takes the answer, and is ready to compute on.                *)
(***************************************************************************)
Take == last # Idle /\ UNCHANGED <<acc, division>> /\ last' = Idle

ArithmeticNext ==
  \/ \E y \in Uint128 : \/ Computes("Add", Unsigned(y), Add(acc, y))
                        \/ Computes("Sub", Unsigned(y), Sub(acc, y))
                        \/ Computes("Mul", Unsigned(y), Mul(acc, y))
                        \/ Computes("And", Unsigned(y), And(acc, y))
                        \/ Computes("Or", Unsigned(y), Or(acc, y))
                        \/ Computes("Xor", Unsigned(y), Xor(acc, y))
                        \/ Answers("Cmp", Unsigned(y), Cmp(acc, y))
                        \/ Answers("SignedCmp", Unsigned(y), SignedCmp(acc, y))
                        \/ \E op \in {"DivMod", "SignedDivMod"} : BeginDivision(op, y)
  \/ Computes("Neg", 0, Neg(acc))
  \/ Computes("Not", 0, Not(acc))
  \/ \E n \in 0..WideBits+1 : \/ Computes("Lsh", n, Lsh(acc, n))
                              \/ Computes("Rsh", n, Rsh(acc, n))
                              \/ Computes("SignedRsh", n, SignedRsh(acc, n))
  \/ \E n \in Lane : \/ Computes("Uint128From64", n, Uint128From64(n))
                     \/ Computes("Int128From64", n, Int128From64(int64(n)))
  \/ Answers("Uint64", 0, acc.Lo)
  \/ Answers("IsNegative", 0, IF IsNegative(acc) THEN 1 ELSE 0)
  \/ Answers("Len", 0, WideLen(acc))
  \/ DivisionStep
  \/ EndDivision
  \/ Take

ArithmeticSpec == ArithmeticInit /\ [][ArithmeticNext]_arithmeticVars

-----------------------------------------------------------------------------
(***************************************************************************)
(* Every value is a pair of lanes: no carry is left above either, and a    *)
(* quotient of the hardware division is one lane.                          *)
(***************************************************************************)
TypeOK == /\ acc \in Uint128
          /\ {division.x, division.y, division.quotient, division.remainder} \subseteq Uint128
          /\ division.i \in -1..WideBits-1

(***************************************************************************)
(* The long division: the bits of x taken so far are the quotient so far   *)
(* times y, and a remainder below y; and though y may be anything up to    *)
(* the whole width, the remainder never has its top bit set when it is     *)
(* shifted up for the next bit of x, so that none is lost.                 *)
(***************************************************************************)
DivisionSoFar ==
  division.busy /\ division.y # Zero =>
    LET todo == 2^(division.i + 1)
        remainder == Unsigned(division.remainder)
    IN  /\ Unsigned(division.x) \div todo
               = (Unsigned(division.quotient) \div todo) * Unsigned(division.y) + remainder
        /\ Unsigned(division.quotient) % todo = 0
        /\ remainder < Unsigned(division.y)
        /\ division.i >= 0 => remainder < 2^(WideBits - 1)

Native == INSTANCE WideSpec WITH number <- Unsigned(acc)

(***************************************************************************)
(* "Two's complement arithmetic that wraps modulo 2^128" (int128.go): over *)
(* any sequence of operations the pair is the number a native 128 bit      *)
(* integer would be, and answers what it would answer.                     *)
(***************************************************************************)
ImplementsNative == Native!Spec
=============================================================================

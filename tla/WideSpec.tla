----------------------------- MODULE WideSpec -----------------------------
(***************************************************************************)
(* What 128 bit integers promise, with no lanes: one number, and every     *)
(* operation the one of native two's complement hardware on it, modulo the *)
(* power of two.  Shifts of the whole width or more give no bits but those *)
(* of the sign.                                                            *)
(***************************************************************************)
EXTENDS Integers

CONSTANT LaneBits

VARIABLES number,      \* the accumulator
          last         \* the last operation: its name, operand and answer

Bits == 2 * LaneBits
Modulus == 2^Bits
Numbers == 0..Modulus-1
Narrow == 0..2^LaneBits-1

SignedOf(n) == IF n < Modulus \div 2 THEN n ELSE n - Modulus
BitOf(n, i) == (n \div 2^i) % 2

Idle == [op |-> "none", operand |-> 0, answer |-> 0]

Init == number \in Numbers /\ last = Idle

Called(op, operand, answer) ==
  last = Idle /\ last' = [op |-> op, operand |-> operand, answer |-> answer]
Take == last # Idle /\ UNCHANGED number /\ last' = Idle

Computes(op, operand, result) == Called(op, operand, 0) /\ number' = result % Modulus
Answers(op, operand, answer) == Called(op, operand, answer) /\ UNCHANGED number

(***************************************************************************)
(* An operation on every bit by itself: result says what becomes of none,  *)
(* one or both of the two bits being set.                                  *)
(***************************************************************************)
BitByBit(op, m, result) ==
  /\ Called(op, m, 0)
  /\ number' \in Numbers
  /\ \A i \in 0..Bits-1 : BitOf(number', i) = result[BitOf(number, i) + BitOf(m, i)]

(***************************************************************************)
(* Division truncates, with the remainder's sign that of the dividend;     *)
(* minimum / -1 wraps.  By zero it gives zeros, as the code chooses.       *)
(***************************************************************************)
Magnitude(n) == IF n < 0 THEN -n ELSE n
Quotient(n, m) == IF m = 0 THEN 0
                  ELSE IF (n < 0) = (m < 0) THEN Magnitude(n) \div Magnitude(m)
                                            ELSE -(Magnitude(n) \div Magnitude(m))
Remainder(n, m) == IF m = 0 THEN 0 ELSE n - m * Quotient(n, m)

Divides(op, operand, n, m) == /\ Called(op, operand, Remainder(n, m) % Modulus)
                              /\ number' = Quotient(n, m) % Modulus

Sign(d) == IF d < 0 THEN -1 ELSE IF d > 0 THEN 1 ELSE 0

Operation ==
  \/ \E m \in Numbers : \/ Computes("Add", m, number + m)
                        \/ Computes("Sub", m, number - m)
                        \/ Computes("Mul", m, number * m)
                        \/ Divides("DivMod", m, number, m)
                        \/ Divides("SignedDivMod", m, SignedOf(number), SignedOf(m))
                        \/ BitByBit("And", m, [set \in 0..2 |-> set \div 2])
                        \/ BitByBit("Or", m, [set \in 0..2 |-> (set + 1) \div 2])
                        \/ BitByBit("Xor", m, [set \in 0..2 |-> set % 2])
                        \/ Answers("Cmp", m, Sign(number - m))
                        \/ Answers("SignedCmp", m, Sign(SignedOf(number) - SignedOf(m)))
  \/ Computes("Neg", 0, -number)
  \/ Computes("Not", 0, -number - 1)
  \/ \E n \in 0..Bits+1 : \/ Computes("Lsh", n, number * 2^n)
                          \/ Computes("Rsh", n, number \div 2^n)
                          \/ Computes("SignedRsh", n, SignedOf(number) \div 2^n)
  \/ \E n \in Narrow : \/ Computes("Uint128From64", n, n)
                       \/ Computes("Int128From64", n,
                                   IF n < 2^(LaneBits-1) THEN n ELSE n - 2^LaneBits)
  \/ Answers("Uint64", 0, number % 2^LaneBits)
  \/ Answers("IsNegative", 0, IF SignedOf(number) < 0 THEN 1 ELSE 0)
  \/ \E n \in 0..Bits : /\ number < 2^n
                        /\ n > 0 => 2^(n-1) <= number
                        /\ Answers("Len", 0, n)

(***************************************************************************)
(* An operation leaves an answer, and the caller takes it.                 *)
(***************************************************************************)
Next == \/ last = Idle /\ last' # Idle /\ Operation
        \/ Take

Spec == Init /\ [][Next]_<<number, last>>
=============================================================================

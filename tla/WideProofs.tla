---------------------------- MODULE WideProofs ----------------------------
(***************************************************************************)
(* Theorems about two lane integers and what is built on them, for every   *)
(* number of bits in a lane.  Every operation is shown to be the pattern   *)
(* of plain arithmetic on the numbers its operands stand for; the caller   *)
(* that computes with them, the division, and the ranged and fixed point   *)
(* values follow from those equations and never look at a lane again.      *)
(***************************************************************************)
EXTENDS WideArithmetic, FixedPoint, TLAPS

N == INSTANCE CodecProofs WITH ByteBits <- 1, WordBytes <- 1

-----------------------------------------------------------------------------
(***************************************************************************)
(* The assumption of the lemmas about numbers.                             *)
(***************************************************************************)
LEMMA Standing == N!GeometryAssumption
BY DEF N!GeometryAssumption

(***************************************************************************)
(* Whole multiples of a width leave the remainder as it is.                *)
(***************************************************************************)
LEMMA Shift ==
  ASSUME NEW k \in Int, NEW n \in Int, NEW w \in Nat \ {0}
  PROVE  /\ (k * w + n) % w = n % w
         /\ (k * w + n) \div w = k + (n \div w)
<1> DEFINE q == n \div w
           r == n % w
<1>1. q \in Int /\ r \in 0..w-1 /\ n = q * w + r
  OBVIOUS
<1> HIDE DEF q, r
<1>2. k * w + n = (k + q) * w + r /\ k + q \in Int
  BY <1>1
<1>3. ((k + q) * w + r) % w = r /\ ((k + q) * w + r) \div w = k + q
  BY <1>1, <1>2, Standing, N!DivModUnique
<1> QED BY <1>2, <1>3 DEF q, r

(***************************************************************************)
(* Division with remainder of any integer.                                 *)
(***************************************************************************)
LEMMA Division ==
  ASSUME NEW n \in Int, NEW w \in Nat \ {0}
  PROVE  /\ n \div w \in Int /\ n % w \in 0..w-1
         /\ n = (n \div w) * w + (n % w)
OBVIOUS

(***************************************************************************)
(* A quotient and a remainder are the ones of the number they make up.     *)
(***************************************************************************)
LEMMA Unique ==
  ASSUME NEW q \in Int, NEW w \in Nat \ {0}, NEW r \in 0..w-1,
         NEW n, n = q * w + r
  PROVE  n % w = r /\ n \div w = q
BY Standing, N!DivModUnique

(***************************************************************************)
(* The sign of a quotient, and a remainder that is the number itself.      *)
(***************************************************************************)
LEMMA Small ==
  ASSUME NEW w \in Nat \ {0}, NEW n \in 0..w-1
  PROVE  n % w = n /\ n \div w = 0
<1>1. n = 0 * w + n
  OBVIOUS
<1> QED BY <1>1, Unique

(***************************************************************************)
(* A number just below zero wraps once.                                    *)
(***************************************************************************)
LEMMA Below ==
  ASSUME NEW w \in Nat \ {0}, NEW n \in -w..-1
  PROVE  n % w = n + w /\ n \div w = -1
<1> DEFINE r == n + w
<1>1. PICK q \in Int : q = -1
  OBVIOUS
<1>2. r \in 0..w-1 /\ n = q * w + r
  BY <1>1
<1> HIDE DEF r
<1>3. n % w = r /\ n \div w = q
  BY <1>2, Unique
<1> QED BY <1>1, <1>3 DEF r

(***************************************************************************)
(* A quotient below the width of the quotient.                             *)
(***************************************************************************)
LEMMA QuotientRange ==
  ASSUME NEW p \in Nat \ {0}, NEW q \in Nat \ {0}, NEW n \in 0..p*q-1
  PROVE  n \div p \in 0..q-1
<1> DEFINE d == n \div p
           e == n % p
<1>1. d \in Int /\ e \in 0..p-1 /\ n = d * p + e
  BY Division
<1> HIDE DEF d, e
<1>2. d < q
  <2> SUFFICES ASSUME q <= d PROVE FALSE
    BY <1>1
  <2>1. q * p <= d * p
    BY <1>1, Standing, N!Products
  <2> QED BY <2>1, <1>1
<1>3. 0 <= d
  <2> SUFFICES ASSUME d <= -1 PROVE FALSE
    BY <1>1
  <2>1. d * p <= (-1) * p
    BY <1>1, Standing, N!Products
  <2> QED BY <2>1, <1>1
<1> QED BY <1>1, <1>2, <1>3 DEF d

(***************************************************************************)
(* Dividing by a product is dividing twice.                                *)
(***************************************************************************)
LEMMA DivTwice ==
  ASSUME NEW n \in Int, NEW p \in Nat \ {0}, NEW q \in Nat \ {0}
  PROVE  n \div (p * q) = (n \div p) \div q
<1> DEFINE d == n \div p
           e == n % p
           f == d \div q
           g == d % q
           t == g * p + e
           w == p * q
<1>1. d \in Int /\ e \in 0..p-1 /\ n = d * p + e
  BY Division
<1> HIDE DEF d, e
<1>2. f \in Int /\ g \in 0..q-1 /\ d = f * q + g
  BY <1>1, Division
<1> HIDE DEF f, g
<1>3. w \in Nat \ {0}
  OBVIOUS
<1>4. t \in 0..w-1
  <2>1. 0 * p <= g * p /\ g * p <= (q - 1) * p
    BY <1>2, Standing, N!Products
  <2>2. (q - 1) * p = w - p
    OBVIOUS
  <2> QED BY <1>1, <1>2, <2>1, <2>2
<1>5. n = f * w + t
  BY <1>1, <1>2
<1> HIDE DEF w, t
<1>6. n \div w = f
  BY <1>2, <1>3, <1>4, <1>5, Unique
<1> QED BY <1>6 DEF f, d, w

(***************************************************************************)
(* The remainder by a square: the quotient's, and the remainder below it.  *)
(***************************************************************************)
LEMMA TwoDigits ==
  ASSUME NEW n \in Int, NEW w \in Nat \ {0}
  PROVE  /\ w * w \in Nat \ {0}
         /\ n % (w * w) = ((n \div w) % w) * w + (n % w)
<1> DEFINE d == n \div w
           e == n % w
           f == d \div w
           g == d % w
           t == g * w + e
           ww == w * w
<1>1. d \in Int /\ e \in 0..w-1 /\ n = d * w + e
  BY Division
<1> HIDE DEF d, e
<1>2. f \in Int /\ g \in 0..w-1 /\ d = f * w + g
  BY <1>1, Division
<1> HIDE DEF f, g
<1>3. ww \in Nat \ {0}
  OBVIOUS
<1>4. t \in 0..ww-1
  <2>1. 0 * w <= g * w /\ g * w <= (w - 1) * w
    BY <1>2, Standing, N!Products
  <2>2. (w - 1) * w = ww - w
    OBVIOUS
  <2> QED BY <1>1, <1>2, <2>1, <2>2
<1>5. n = f * ww + t
  BY <1>1, <1>2
<1> HIDE DEF ww, t
<1>6. n % ww = t
  BY <1>2, <1>3, <1>4, <1>5, Unique
<1> QED BY <1>3, <1>6 DEF g, d, e, t, ww

-----------------------------------------------------------------------------
(***************************************************************************)
(* The width of a lane and of two, and the halves where the sign is.       *)
(***************************************************************************)
Half == 2^(LaneBits - 1)

(***************************************************************************)
(* A lane is twice its half, and two lanes the square of one.              *)
(***************************************************************************)
LEMMA Widths ==
  /\ LaneBits \in Nat \ {0} /\ WideBits \in Nat /\ WideBits - 1 \in Nat
  /\ Half \in Nat \ {0}
  /\ LaneModulus \in Nat \ {0} /\ LaneModulus = Half + Half /\ LaneModulus \div 2 = Half
  /\ 2^WideBits = LaneModulus * LaneModulus
  /\ 2^(WideBits - 1) = Half * LaneModulus
<1>1. LaneBits \in Nat \ {0} /\ LaneBits - 1 \in Nat /\ (LaneBits - 1) + 1 = LaneBits
  BY LaneAssumption
<1>2. Half \in Nat \ {0} /\ LaneModulus = Half + Half
  BY <1>1, Standing, N!Powers, N!PowerDoubles DEF Half, LaneModulus
<1>3. LaneModulus \div 2 = Half
  <2>1. LaneModulus = Half * 2 + 0
    BY <1>2
  <2> HIDE DEF LaneModulus, Half
  <2> QED BY <1>2, <2>1, Unique
<1>4. WideBits = LaneBits + LaneBits /\ WideBits - 1 = (LaneBits - 1) + LaneBits
  BY <1>1 DEF WideBits
<1>5. 2^WideBits = LaneModulus * LaneModulus
  BY <1>1, <1>4, Standing, N!PowerOfSum DEF LaneModulus
<1>6. 2^(WideBits - 1) = Half * LaneModulus
  BY <1>1, <1>4, Standing, N!PowerOfSum DEF LaneModulus, Half
<1> QED BY <1>1, <1>2, <1>3, <1>4, <1>5, <1>6

WideModulus == LaneModulus * LaneModulus
WideHalf == Half * LaneModulus

(***************************************************************************)
(* The same of a pair.                                                     *)
(***************************************************************************)
LEMMA WideWidths ==
  /\ WideModulus \in Nat \ {0} /\ WideHalf \in Nat \ {0}
  /\ WideModulus = WideHalf + WideHalf
  /\ 2^WideBits = WideModulus /\ 2^(WideBits - 1) = WideHalf
  /\ Int128 = -WideHalf..WideHalf - 1
<1> DEFINE b == LaneModulus
           h == Half
<1>1. h \in Nat \ {0} /\ b \in Nat \ {0} /\ b = h + h
  BY Widths
<1> HIDE DEF b, h
<1>2. b * b \in Nat \ {0} /\ h * b \in Nat \ {0} /\ b * b = h * b + h * b
  BY <1>1
<1>3. WideModulus = b * b /\ WideHalf = h * b
  BY DEF WideModulus, WideHalf, b, h
<1>4. 2^WideBits = WideModulus /\ 2^(WideBits - 1) = WideHalf
  BY Widths DEF WideModulus, WideHalf
<1> QED BY <1>2, <1>3, <1>4 DEF Int128

(***************************************************************************)
(* A pair is its lanes, and stands for a number of its width.              *)
(***************************************************************************)
LEMMA Pairs ==
  ASSUME NEW x \in Uint128
  PROVE  /\ x = [Lo |-> x.Lo, Hi |-> x.Hi]
         /\ x.Lo \in Lane /\ x.Hi \in Lane
         /\ Unsigned(x) = x.Hi * LaneModulus + x.Lo
         /\ Unsigned(x) \in 0..WideModulus-1
<1> DEFINE b == LaneModulus
           lo == x.Lo
           hi == x.Hi
<1>1. x = [Lo |-> lo, Hi |-> hi] /\ lo \in Lane /\ hi \in Lane
  BY DEF Uint128
<1>2. b \in Nat \ {0} /\ lo \in 0..b-1 /\ hi \in 0..b-1
  BY <1>1, Widths DEF Lane
<1>3. Unsigned(x) = hi * b + lo
  BY DEF Unsigned
<1> HIDE DEF b, lo, hi
<1>4. hi * b + lo \in 0..b*b-1
  <2>1. 0 * b <= hi * b /\ hi * b <= (b - 1) * b
    BY <1>2, Standing, N!Products
  <2>2. (b - 1) * b = b * b - b
    BY <1>2
  <2> QED BY <1>2, <2>1, <2>2
<1> QED BY <1>1, <1>3, <1>4 DEF b, lo, hi, WideModulus

(***************************************************************************)
(* uint128 is the pattern of a number: the number modulo the width.        *)
(***************************************************************************)
LEMMA Patterns ==
  ASSUME NEW n \in Int
  PROVE  uint128(n) \in Uint128 /\ Unsigned(uint128(n)) = n % WideModulus
<1> DEFINE b == LaneModulus
           lo == n % b
           hi == (n \div b) % b
<1>1. b \in Nat \ {0}
  BY Widths
<1>2. uint128(n) = [Lo |-> lo, Hi |-> hi]
  BY DEF uint128, uint64
<1>3. lo \in 0..b-1 /\ n \div b \in Int
  BY <1>1, Division
<1>4. hi \in 0..b-1
  BY <1>1, <1>3, Division
<1>5. n % (b * b) = hi * b + lo
  BY <1>1, TwoDigits
<1>6. uint128(n) \in Uint128
  BY <1>2, <1>3, <1>4 DEF Uint128, Lane
<1>7. Unsigned(uint128(n)) = hi * b + lo
  <2> HIDE DEF lo, hi
  <2>1. [Lo |-> lo, Hi |-> hi].Lo = lo /\ [Lo |-> lo, Hi |-> hi].Hi = hi
    OBVIOUS
  <2> QED BY <1>2, <2>1, Zenon DEF Unsigned
<1> QED BY <1>5, <1>6, <1>7 DEF WideModulus

(***************************************************************************)
(* A pair is the pattern of its number, and of no other number as small.   *)
(***************************************************************************)
LEMMA PatternOf ==
  ASSUME NEW x \in Uint128
  PROVE  uint128(Unsigned(x)) = x
<1> DEFINE b == LaneModulus
           lo == x.Lo
           hi == x.Hi
           n == Unsigned(x)
<1>1. b \in Nat \ {0} /\ lo \in 0..b-1 /\ hi \in 0..b-1 /\ n = hi * b + lo
  BY Pairs, Widths DEF Lane
<1>0. x = [Lo |-> lo, Hi |-> hi]
  BY Pairs
<1> HIDE DEF b, lo, hi, n
<1>2. n % b = lo /\ n \div b = hi
  BY <1>1, Unique
<1>3. hi % b = hi
  BY <1>1, Small
<1> QED BY <1>0, <1>2, <1>3 DEF uint128, uint64, b, n

(***************************************************************************)
(* Numbers that differ by whole widths have one pattern.                   *)
(***************************************************************************)
LEMMA SamePattern ==
  ASSUME NEW n \in Int, NEW k \in Int
  PROVE  uint128(k * WideModulus + n) = uint128(n)
<1> DEFINE b == LaneModulus
           c == k * b
           m == c * b + n
           d == n \div b
<1>1. b \in Nat \ {0} /\ c \in Int
  BY Widths
<1>2. k * WideModulus + n = m
  <2>1. WideModulus = b * b
    BY DEF WideModulus
  <2> HIDE DEF b
  <2> QED BY <1>1, <2>1
<1> HIDE DEF c
<1>3. m % b = n % b /\ m \div b = c + d /\ d \in Int
  BY <1>1, Shift, Division
<1> HIDE DEF d
<1>4. (c + d) % b = d % b
  <2>1. (k * b + d) % b = d % b
    BY <1>1, <1>3, Shift
  <2> QED BY <2>1 DEF c
<1> QED BY <1>2, <1>3, <1>4 DEF uint128, uint64, d

(***************************************************************************)
(* Two pairs that stand for one number are one pair.                       *)
(***************************************************************************)
LEMMA OnePair ==
  ASSUME NEW x \in Uint128, NEW y \in Uint128, Unsigned(x) = Unsigned(y)
  PROVE  x = y
BY PatternOf

-----------------------------------------------------------------------------
(***************************************************************************)
(* The arithmetic of the code is that of plain numbers, modulo the width.  *)
(* First the pattern of a number that is given by two digits of any size:  *)
(* what is too much for the low lane goes to the high one.                 *)
(***************************************************************************)
LEMMA FromLanes ==
  ASSUME NEW hi \in Int, NEW lo \in Int
  PROVE  uint128(hi * LaneModulus + lo)
           = [Lo |-> lo % LaneModulus, Hi |-> (hi + (lo \div LaneModulus)) % LaneModulus]
<1> DEFINE b == LaneModulus
           n == hi * b + lo
<1>1. b \in Nat \ {0}
  BY Widths
<1> HIDE DEF b
<1>2. n % b = lo % b /\ n \div b = hi + (lo \div b)
  BY <1>1, Shift
<1> HIDE DEF n
<1>3. uint128(n) = [Lo |-> lo % b, Hi |-> (hi + (lo \div b)) % b]
  BY <1>2 DEF uint128, uint64, b
<1> QED BY <1>3 DEF n, b

(***************************************************************************)
(* Add.                                                                    *)
(***************************************************************************)
LEMMA AddIs ==
  ASSUME NEW x \in Uint128, NEW y \in Uint128
  PROVE  Add(x, y) = uint128(Unsigned(x) + Unsigned(y))
<1> DEFINE hi == x.Hi + y.Hi
           lo == x.Lo + y.Lo
<1>1. hi \in Int /\ lo \in Int /\ LaneModulus \in Nat
  BY Pairs, Widths DEF Lane
<1>2. Unsigned(x) + Unsigned(y) = hi * LaneModulus + lo
  <2>1. x.Hi \in Int /\ x.Lo \in Int /\ y.Hi \in Int /\ y.Lo \in Int
    BY Pairs, Widths DEF Lane
  <2> QED BY <1>1, <2>1 DEF Unsigned
<1>3. Add(x, y) = [Lo |-> lo % LaneModulus, Hi |-> (hi + (lo \div LaneModulus)) % LaneModulus]
  BY DEF Add
<1> HIDE DEF hi, lo
<1> QED BY <1>1, <1>2, <1>3, FromLanes

(***************************************************************************)
(* Sub: a borrow is a low lane below zero.                                 *)
(***************************************************************************)
LEMMA SubIs ==
  ASSUME NEW x \in Uint128, NEW y \in Uint128
  PROVE  Sub(x, y) = uint128(Unsigned(x) - Unsigned(y))
<1> DEFINE hi == x.Hi - y.Hi
           lo == x.Lo - y.Lo
           borrow == IF x.Lo < y.Lo THEN 1 ELSE 0
           b == LaneModulus
<1>0. b \in Nat \ {0} /\ x.Lo \in 0..b-1 /\ y.Lo \in 0..b-1 /\ x.Hi \in Int /\ y.Hi \in Int
  BY Pairs, Widths DEF Lane
<1>1. hi \in Int /\ lo \in Int
  BY <1>0
<1>2. Unsigned(x) - Unsigned(y) = hi * b + lo
  BY <1>0 DEF Unsigned
<1>3. lo \div b = -borrow
  <2>1. CASE x.Lo < y.Lo
    <3>1. lo = (-1) * b + (lo + b) /\ lo + b \in 0..b-1
      BY <1>0, <2>1
    <3> HIDE DEF lo, b
    <3>2. lo \div b = -1
      BY <1>0, <3>1, Unique DEF b
    <3> QED BY <3>2, <2>1
  <2>2. CASE ~(x.Lo < y.Lo)
    <3>1. lo \in 0..b-1
      BY <1>0, <2>2
    <3> HIDE DEF lo, b
    <3>2. lo \div b = 0
      BY <1>0, <3>1, Small DEF b
    <3> QED BY <3>2, <2>2
  <2> QED BY <2>1, <2>2
<1>4. Sub(x, y) = [Lo |-> lo % b, Hi |-> (hi - borrow) % b]
  BY DEF Sub
<1>5. borrow \in Int
  OBVIOUS
<1> HIDE DEF hi, lo, b, borrow
<1>6. hi - borrow = hi + (lo \div b)
  BY <1>1, <1>3, <1>5
<1> QED BY <1>1, <1>2, <1>4, <1>6, FromLanes DEF b

(***************************************************************************)
(* Mul: what the code drops are whole widths.                              *)
(***************************************************************************)
LEMMA MulIs ==
  ASSUME NEW x \in Uint128, NEW y \in Uint128
  PROVE  Mul(x, y) = uint128(Unsigned(x) * Unsigned(y))
<1> DEFINE b == LaneModulus
           xh == x.Hi
           xl == x.Lo
           yh == y.Hi
           yl == y.Lo
           lo == xl * yl
           cross == xl * yh + xh * yl
           top == xh * yh
           hi == top * b + cross
           c == lo \div b
<1>0. b \in Nat \ {0} /\ xl \in Int /\ yl \in Int /\ xh \in Int /\ yh \in Int
  BY Pairs, Widths DEF Lane
<1>1. Mul(x, y) = [Lo |-> lo % b, Hi |-> (c + xl * yh + xh * yl) % b]
  BY DEF Mul
<1>2. Unsigned(x) * Unsigned(y) = (xh * b + xl) * (yh * b + yl)
  BY DEF Unsigned
<1> HIDE DEF b, xh, xl, yh, yl
<1>3. lo \in Int /\ cross \in Int /\ top \in Int /\ hi \in Int
  BY <1>0
<1>4. (xh * b + xl) * (yh * b + yl) = hi * b + lo
  BY <1>0
<1>5. xl * yh \in Int /\ xh * yl \in Int
  BY <1>0
<1> HIDE DEF lo, hi, top
<1>6. c \in Int
  BY <1>0, <1>3, Division
<1>7. c + xl * yh + xh * yl = cross + c
  BY <1>5, <1>6
<1> HIDE DEF cross, c
<1>8. hi + c = top * b + (cross + c) /\ cross + c \in Int
  BY <1>0, <1>3, <1>6 DEF hi
<1>9. (hi + c) % b = (cross + c) % b
  <2>1. top \in Int /\ cross + c \in Int /\ b \in Nat \ {0}
    BY <1>0, <1>3, <1>8
  <2>2. (top * b + (cross + c)) % b = (cross + c) % b
    BY ONLY <2>1, Shift
  <2> QED BY <2>2, <1>8
<1> QED BY <1>1, <1>2, <1>3, <1>4, <1>7, <1>9, FromLanes DEF b, c

(***************************************************************************)
(* Zero and One, and the lanes that are widened.                           *)
(***************************************************************************)
LEMMA FromLane ==
  ASSUME NEW n \in Lane
  PROVE  /\ Uint128From64(n) \in Uint128 /\ Unsigned(Uint128From64(n)) = n
         /\ Uint128From64(n) = uint128(n)
<1>1. n \in 0..LaneModulus-1 /\ LaneModulus \in Nat \ {0} /\ 0 \in Lane /\ n \in Int
  BY Widths DEF Lane
<1>2. Uint128From64(n) = [Lo |-> n, Hi |-> 0]
  BY DEF Uint128From64
<1>3. Uint128From64(n) \in Uint128
  BY <1>1, <1>2 DEF Uint128
<1>4. Unsigned(Uint128From64(n)) = 0 * LaneModulus + n
  BY <1>2 DEF Unsigned
<1>5. 0 * LaneModulus + n = n
  BY <1>1
<1> QED BY <1>3, <1>4, <1>5, PatternOf

(***************************************************************************)
(* Zero, and One, which is a lane also where a lane is one bit.            *)
(***************************************************************************)
LEMMA Constant ==
  /\ Zero \in Uint128 /\ Unsigned(Zero) = 0 /\ Zero = uint128(0)
  /\ One \in Uint128 /\ Unsigned(One) = 1 /\ One = uint128(1)
<1>1. 0 \in Lane /\ 1 \in Lane
  BY Widths DEF Lane
<1> QED BY <1>1, FromLane DEF Zero, One

(***************************************************************************)
(* Neg and Not.                                                            *)
(***************************************************************************)
LEMMA NegIs ==
  ASSUME NEW x \in Uint128
  PROVE  Neg(x) = uint128(-Unsigned(x))
<1>1. Neg(x) = uint128(Unsigned(Zero) - Unsigned(x))
  BY Constant, SubIs DEF Neg
<1>2. Unsigned(x) \in Int
  BY Pairs
<1>3. Unsigned(Zero) - Unsigned(x) = -Unsigned(x)
  BY <1>2, Constant
<1> QED BY <1>1, <1>3

(***************************************************************************)
(* Not is one less than Neg.                                               *)
(***************************************************************************)
LEMMA NotIs ==
  ASSUME NEW x \in Uint128
  PROVE  Not(x) = uint128(-Unsigned(x) - 1)
<1> DEFINE b == LaneModulus
           lo == b - 1 - x.Lo
           hi == b - 1 - x.Hi
           n == hi * b + lo
<1>0. b \in Nat \ {0} /\ x.Lo \in 0..b-1 /\ x.Hi \in 0..b-1
  BY Pairs, Widths DEF Lane
<1>1. lo \in Lane /\ hi \in Lane
  BY <1>0 DEF Lane
<1>2. Not(x) = [Lo |-> lo, Hi |-> hi]
  BY DEF Not
<1>3. Not(x) \in Uint128
  BY <1>1, <1>2 DEF Uint128
<1>4. Unsigned(Not(x)) = n
  BY <1>2, Pairs, <1>3
<1>5. n = 1 * WideModulus + (-Unsigned(x) - 1)
  <2>1. Unsigned(x) = x.Hi * b + x.Lo /\ WideModulus = b * b
    BY DEF Unsigned, WideModulus
  <2>2. n = (b - 1 - x.Hi) * b + (b - 1 - x.Lo)
    OBVIOUS
  <2>3. (b - 1 - x.Hi) * b = b * b - b - x.Hi * b
    BY <1>0
  <2>4. x.Hi * b \in Int /\ b * b \in Int
    BY <1>0
  <2> HIDE DEF n, b
  <2> QED BY <1>0, <2>1, <2>2, <2>3, <2>4
<1>6. -Unsigned(x) - 1 \in Int
  BY Pairs
<1> HIDE DEF n
<1> QED BY <1>3, <1>4, <1>5, <1>6, PatternOf, SamePattern

-----------------------------------------------------------------------------
(***************************************************************************)
(* The sign.  A lane and its signed number determine each other.           *)
(***************************************************************************)
LEMMA SignedLane ==
  ASSUME NEW a \in Lane
  PROVE  /\ int64(a) = IF a < Half THEN a ELSE a - LaneModulus
         /\ int64(a) \in Int64
         /\ uint64(int64(a)) = a
<1> DEFINE b == LaneModulus
           h == Half
<1>0. b \in Nat \ {0} /\ h \in Nat \ {0} /\ b = h + h /\ a \in 0..b-1 /\ LaneModulus \div 2 = h
  BY Widths DEF Lane
<1>1. int64(a) = IF a < h THEN a ELSE a - b
  BY <1>0 DEF int64
<1>2. Int64 = -h..h-1
  BY <1>0 DEF Int64
<1> HIDE DEF b, h
<1>3. int64(a) \in -h..h-1
  BY <1>0, <1>1
<1>4. int64(a) % b = a
  <2>1. CASE a < h
    BY <2>1, <1>0, <1>1, Small
  <2>2. CASE ~(a < h)
    <3>1. int64(a) \in -b..-1 /\ int64(a) + b = a
      BY <2>2, <1>0, <1>1
    <3> QED BY <3>1, <1>0, Below
  <2> QED BY <2>1, <2>2
<1> QED BY <1>1, <1>2, <1>3, <1>4 DEF uint64, h, b

(***************************************************************************)
(* A signed lane is the one of its pattern.                                *)
(***************************************************************************)
LEMMA LanePattern ==
  ASSUME NEW n \in Int
  PROVE  /\ uint64(n) \in Lane
         /\ n \in Int64 => int64(uint64(n)) = n
         /\ n \in Lane => uint64(n) = n
<1> DEFINE b == LaneModulus
           h == Half
<1>0. b \in Nat \ {0} /\ h \in Nat \ {0} /\ b = h + h /\ LaneModulus \div 2 = h
  BY Widths
<1>1. uint64(n) = n % b /\ Int64 = -h..h-1 /\ Lane = 0..b-1
  BY <1>0 DEF uint64, Int64, Lane
<1>2. uint64(n) \in Lane
  <2> HIDE DEF b
  <2>1. n % b \in 0..b-1
    BY <1>0, Division
  <2> QED BY <2>1, <1>1
<1>3. n \in Lane => uint64(n) = n
  <2> HIDE DEF b
  <2> QED BY <1>0, <1>1, Small
<1>4. ASSUME n \in Int64 PROVE int64(uint64(n)) = n
  <2>1. CASE n >= 0
    <3>1. n \in Lane /\ n < h
      BY <2>1, <1>0, <1>1, <1>4
    <3> QED BY <3>1, <1>3, SignedLane
  <2>2. CASE ~(n >= 0)
    <3> DEFINE m == n + b
    <3>1. m \in 0..b-1 /\ ~(m < h) /\ n \in -b..-1
      BY <2>2, <1>0, <1>1, <1>4
    <3>2. n % b = m
      <4> HIDE DEF b
      <4> QED BY <1>0, <3>1, Below
    <3>3. m \in Lane /\ uint64(n) = m
      BY <3>1, <3>2, <1>1
    <3>4. int64(m) = m - b
      BY <3>1, <3>3, SignedLane
    <3> HIDE DEF b
    <3> QED BY <3>3, <3>4, <1>0
  <2> QED BY <2>1, <2>2
<1> QED BY <1>2, <1>3, <1>4

(***************************************************************************)
(* The number a pair stands for as an Int128, by the number it stands for  *)
(* as a Uint128: the sign is in the high lane.                             *)
(***************************************************************************)
LEMMA SignedIs ==
  ASSUME NEW x \in Uint128
  PROVE  /\ Signed(x) = IF Unsigned(x) < WideHalf THEN Unsigned(x) ELSE Unsigned(x) - WideModulus
         /\ Signed(x) \in Int128
         /\ Signed(x) < 0 <=> ~(x.Hi < Half)
         /\ uint128(Signed(x)) = x
<1> DEFINE b == LaneModulus
           h == Half
           hi == x.Hi
           lo == x.Lo
           n == hi * b + lo
<1>0. b \in Nat \ {0} /\ h \in Nat \ {0} /\ b = h + h /\ lo \in 0..b-1 /\ hi \in 0..b-1
  BY Pairs, Widths DEF Lane
<1>1. Signed(x) = int64(hi) * b + lo /\ int64(hi) = IF hi < h THEN hi ELSE hi - b
  BY Pairs, SignedLane DEF Signed
<1>2. Unsigned(x) = n /\ WideModulus = b * b /\ WideHalf = h * b /\ n \in 0..b*b-1
  BY Pairs DEF WideModulus, WideHalf
<1>3. WideModulus = WideHalf + WideHalf /\ WideHalf \in Nat /\ Int128 = -WideHalf..WideHalf - 1
  BY WideWidths
<1> HIDE DEF b, h, hi, lo
<1>4. hi < h => n < h * b
  <2>1. hi < h => hi * b <= (h - 1) * b
    BY <1>0, Standing, N!Products
  <2>2. (h - 1) * b = h * b - b
    BY <1>0
  <2>3. hi * b \in Int /\ h * b \in Int
    BY <1>0
  <2> QED BY <2>1, <2>2, <2>3, <1>0
<1>5. ~(hi < h) => n >= h * b
  <2>1. ~(hi < h) => h * b <= hi * b
    BY <1>0, Standing, N!Products
  <2>2. hi * b \in Int /\ h * b \in Int
    BY <1>0
  <2> QED BY <2>1, <2>2, <1>0
<1>6. Signed(x) = IF hi < h THEN n ELSE n - b * b
  <2>1. (hi - b) * b + lo = n - b * b
    BY <1>0
  <2> QED BY <2>1, <1>1
<1>7. n \in Int
  BY <1>0
<1> HIDE DEF n
<1>8. Signed(x) = IF Unsigned(x) < WideHalf THEN Unsigned(x) ELSE Unsigned(x) - WideModulus
  BY <1>2, <1>4, <1>5, <1>6
<1>9. Signed(x) < 0 <=> ~(hi < h)
  BY <1>2, <1>3, <1>4, <1>5, <1>6, <1>7
<1>10. Signed(x) \in Int128
  <2>1. n \in 0..WideModulus-1
    BY <1>2
  <2> QED BY <2>1, <1>2, <1>3, <1>8
<1>11. uint128(Signed(x)) = x
  <2>1. uint128(n) = x
    BY <1>2, PatternOf
  <2>2. uint128((-1) * WideModulus + n) = uint128(n)
    BY <1>7, SamePattern
  <2>3. n - b * b = (-1) * WideModulus + n
    BY <1>0, <1>2, <1>3, <1>7
  <2> QED BY <2>1, <2>2, <2>3, <1>6
<1> QED BY <1>8, <1>9, <1>10, <1>11 DEF hi, h

(***************************************************************************)
(* An Int128 is the number of its pattern.                                 *)
(***************************************************************************)
LEMMA SignedPattern ==
  ASSUME NEW n \in Int128
  PROVE  Signed(uint128(n)) = n /\ uint128(n) \in Uint128
<1> DEFINE w == WideModulus
           h == WideHalf
           x == uint128(n)
           u == Unsigned(x)
<1>1. w \in Nat \ {0} /\ h \in Nat \ {0} /\ w = h + h /\ n \in -h..h-1 /\ n \in Int
  BY WideWidths
<1>2. x \in Uint128 /\ u = n % w
  BY <1>1, Patterns
<1>3. Signed(x) = IF u < h THEN u ELSE u - w
  BY <1>2, SignedIs
<1> HIDE DEF w, h, x, u
<1>4. CASE n >= 0
  <2>1. n \in 0..w-1
    BY <1>1, <1>4
  <2>2. u = n
    BY <2>1, <1>1, <1>2, Small
  <2> QED BY <2>2, <1>1, <1>2, <1>3 DEF x
<1>5. CASE ~(n >= 0)
  <2>1. n \in -w..-1
    BY <1>1, <1>5
  <2>2. u = n + w
    BY <2>1, <1>1, <1>2, Below
  <2> QED BY <2>2, <1>1, <1>2, <1>3, <1>5 DEF x
<1> QED BY <1>4, <1>5

(***************************************************************************)
(* IsNegative looks at the top bit.                                        *)
(***************************************************************************)
LEMMA IsNegativeIs ==
  ASSUME NEW x \in Uint128
  PROVE  IsNegative(x) <=> Signed(x) < 0
<1> DEFINE h == Half
           hi == x.Hi
<1>0. h \in Nat \ {0} /\ hi \in 0..(h+h)-1
  BY Pairs, Widths DEF Lane
<1>1. IsNegative(x) <=> hi \div h # 0
  BY DEF IsNegative, LaneRsh, Half
<1>2. Signed(x) < 0 <=> ~(hi < h)
  BY SignedIs
<1> HIDE DEF h, hi
<1>3. CASE hi < h
  <2>1. hi \div h = 0
    BY <1>0, <1>3, Small
  <2> QED BY <2>1, <1>1, <1>2, <1>3
<1>4. CASE ~(hi < h)
  <2>1. hi = 1 * h + (hi - h) /\ hi - h \in 0..h-1
    BY <1>0, <1>4
  <2>2. hi \div h = 1
    BY <2>1, <1>0, Unique
  <2> QED BY <2>2, <1>1, <1>2, <1>4
<1> QED BY <1>3, <1>4

(***************************************************************************)
(* The order of pairs is that of their numbers.                            *)
(***************************************************************************)
LEMMA Lexical ==
  ASSUME NEW p \in Int, NEW q \in Int, p < q, NEW w \in Nat \ {0},
         NEW a \in 0..w-1, NEW c \in 0..w-1
  PROVE  p * w + a < q * w + c
<1>1. p * w <= (q - 1) * w /\ (q - 1) * w = q * w - w
  BY Standing, N!Products
<1>2. p * w \in Int /\ q * w \in Int
  OBVIOUS
<1> QED BY <1>1, <1>2

(***************************************************************************)
(* Cmp, and the order of Int128.                                           *)
(***************************************************************************)
LEMMA CmpIs ==
  ASSUME NEW x \in Uint128, NEW y \in Uint128
  PROVE  /\ Cmp(x, y) = Order(Unsigned(x), Unsigned(y))
         /\ SignedCmp(x, y) = Order(Signed(x), Signed(y))
<1> DEFINE b == LaneModulus
           xh == x.Hi
           xl == x.Lo
           yh == y.Hi
           yl == y.Lo
           sx == int64(xh)
           sy == int64(yh)
<1>0. b \in Nat \ {0} /\ xl \in 0..b-1 /\ yl \in 0..b-1 /\ xh \in 0..b-1 /\ yh \in 0..b-1
  BY Pairs, Widths DEF Lane
<1>1. sx \in Int /\ sy \in Int /\ (xh # yh => sx # sy)
  BY Pairs, Widths, SignedLane DEF Int64
<1>2. /\ Unsigned(x) = xh * b + xl /\ Unsigned(y) = yh * b + yl
      /\ Signed(x) = sx * b + xl /\ Signed(y) = sy * b + yl
  BY DEF Unsigned, Signed
<1>3. /\ Cmp(x, y) = IF xh # yh THEN Order(xh, yh) ELSE Order(xl, yl)
      /\ SignedCmp(x, y) = IF xh # yh THEN Order(sx, sy) ELSE Order(xl, yl)
  BY DEF Cmp, SignedCmp
<1>8. xh = yh => sx = sy
  OBVIOUS
<1> HIDE DEF b, xh, xl, yh, yl, sx, sy
<1>4. ASSUME NEW p \in Int, NEW q \in Int
      PROVE  /\ p # q => Order(p * b + xl, q * b + yl) = Order(p, q)
             /\ p = q => Order(p * b + xl, q * b + yl) = Order(xl, yl)
  <2>1. p * b \in Int /\ q * b \in Int
    BY <1>0
  <2>2. CASE p < q
    <3>1. p * b + xl < q * b + yl
      BY <2>2, <1>0, Lexical
    <3> QED BY <3>1, <2>1, <2>2, <1>0 DEF Order
  <2>3. CASE q < p
    <3>1. q * b + yl < p * b + xl
      BY <2>3, <1>0, Lexical
    <3> QED BY <3>1, <2>1, <2>3, <1>0 DEF Order
  <2>4. CASE p = q
    BY <2>1, <2>4, <1>0 DEF Order
  <2> QED BY <2>2, <2>3, <2>4
<1>5. Cmp(x, y) = Order(Unsigned(x), Unsigned(y))
  <2>1. xh \in Int /\ yh \in Int
    BY <1>0
  <2> QED BY <2>1, <1>2, <1>3, <1>4
<1>6. SignedCmp(x, y) = Order(Signed(x), Signed(y))
  BY <1>1, <1>2, <1>3, <1>4, <1>8
<1> QED BY <1>5, <1>6

(***************************************************************************)
(* A pair with no bits is zero, and one with no bits above the low lane    *)
(* is that lane.                                                           *)
(***************************************************************************)
LEMMA OneLane ==
  ASSUME NEW x \in Uint128
  PROVE  /\ x.Hi = 0 <=> Unsigned(x) < LaneModulus
         /\ x.Hi = 0 => Unsigned(x) = x.Lo
         /\ x = Zero <=> Unsigned(x) = 0
<1> DEFINE b == LaneModulus
           hi == x.Hi
           lo == x.Lo
<1>0. b \in Nat \ {0} /\ lo \in 0..b-1 /\ hi \in 0..b-1
  BY Pairs, Widths DEF Lane
<1>1. Unsigned(x) = hi * b + lo
  BY DEF Unsigned
<1>4. x = Zero <=> Unsigned(x) = 0
  BY Constant, OnePair
<1> HIDE DEF b, hi, lo
<1>2. hi = 0 => Unsigned(x) = lo
  BY <1>0, <1>1
<1>3. hi # 0 => Unsigned(x) >= b
  <2>1. hi # 0 => 1 * b <= hi * b
    BY <1>0, Standing, N!Products
  <2>2. hi * b \in Int
    BY <1>0
  <2> QED BY <2>1, <2>2, <1>0, <1>1
<1>5. Unsigned(x) \in Int
  BY Pairs
<1> QED BY <1>0, <1>2, <1>3, <1>4, <1>5 DEF b, hi, lo

(***************************************************************************)
(* The widening of a signed lane.                                          *)
(***************************************************************************)
LEMMA Int128From64Is ==
  ASSUME NEW n \in Int64
  PROVE  Int128From64(n) = uint128(n) /\ n \in Int128 /\ n \in Int
<1> DEFINE b == LaneModulus
           h == Half
           d == n \div b
<1>0. b \in Nat \ {0} /\ h \in Nat \ {0} /\ b = h + h /\ n \in -h..h-1 /\ n \in Int
  BY Widths DEF Int64
<1>1. Int128From64(n) = [Lo |-> n % b, Hi |-> IF n < 0 THEN b - 1 ELSE 0]
  BY DEF Int128From64
<1>2. uint128(n) = [Lo |-> n % b, Hi |-> d % b]
  BY DEF uint128, uint64
<1>6. n \in Int128
  <2>1. WideHalf = h * b /\ Int128 = -WideHalf..WideHalf - 1
    BY WideWidths DEF WideHalf
  <2> HIDE DEF h, b
  <2>2. h * 1 <= h * b /\ h * b \in Int
    BY <1>0
  <2> QED BY <2>1, <2>2, <1>0
<1> HIDE DEF b, h, d
<1>3. d % b = IF n < 0 THEN b - 1 ELSE 0
  <2>1. CASE n < 0
    <3>1. n \in -b..-1
      BY <2>1, <1>0
    <3>2. d = -1
      BY <3>1, <1>0, Below DEF d
    <3>3. d \in -b..-1 /\ d + b = b - 1
      BY <3>2, <1>0
    <3>4. d % b = b - 1
      BY <3>3, <1>0, Below
    <3> QED BY <3>4, <2>1
  <2>2. CASE ~(n < 0)
    <3>1. n \in 0..b-1 /\ 0 \in 0..b-1
      BY <2>2, <1>0
    <3>2. d = 0 /\ 0 % b = 0
      BY <3>1, <1>0, Small DEF d
    <3> QED BY <3>2, <2>2
  <2> QED BY <2>1, <2>2
<1> QED BY <1>0, <1>1, <1>2, <1>3, <1>6

-----------------------------------------------------------------------------
(***************************************************************************)
(* Bit by bit.  A lane is the number its bits make up, and of the lanes    *)
(* with those bits there is one.                                           *)
(***************************************************************************)
LaneBitSeq == [1..LaneBits -> {0, 1}]

(***************************************************************************)
(* The lane of given bits.                                                 *)
(***************************************************************************)
LEMMA LaneOfBits ==
  ASSUME NEW bits \in LaneBitSeq
  PROVE  /\ bits \in Seq(N!Bit) /\ Len(bits) = LaneBits
         /\ LaneOf(bits) = N!FromBits(bits)
         /\ LaneOf(bits) \in Lane
         /\ \A i \in 1..LaneBits : LaneBit(LaneOf(bits), i) = bits[i]
<1>1. LaneBits \in Nat
  BY LaneAssumption
<1>2. bits \in Seq(N!Bit) /\ Len(bits) = LaneBits
  BY <1>1 DEF N!Bit, LaneBitSeq
<1>3. LaneOf(bits) = N!FromBits(bits)
  BY DEF LaneOf, N!FromBits
<1> DEFINE v == N!FromBits(bits)
<1>4. v \in 0..2^LaneBits-1 /\ N!ToBits(v, LaneBits) = bits
  BY <1>2, Standing, N!FieldOfValue
<1>5. ASSUME NEW i \in 1..LaneBits PROVE LaneBit(v, i) = bits[i]
  <2> HIDE DEF v
  <2>1. N!ToBits(v, LaneBits)[i] = (v \div 2^(i-1)) % 2
    BY DEF N!ToBits
  <2> QED BY <2>1, <1>4 DEF LaneBit
<1> QED BY <1>2, <1>3, <1>4, <1>5 DEF Lane, LaneModulus

(***************************************************************************)
(* The bits of a lane.                                                     *)
(***************************************************************************)
LEMMA BitsOfLane ==
  ASSUME NEW a \in Lane
  PROVE  /\ \A i \in 1..LaneBits : LaneBit(a, i) \in {0, 1}
         /\ [i \in 1..LaneBits |-> LaneBit(a, i)] \in LaneBitSeq
         /\ LaneOf([i \in 1..LaneBits |-> LaneBit(a, i)]) = a
<1> DEFINE bits == [i \in 1..LaneBits |-> LaneBit(a, i)]
<1>1. LaneBits \in Nat /\ a \in 0..2^LaneBits-1 /\ a \in Int
  BY LaneAssumption, Widths DEF Lane, LaneModulus
<1>2. ASSUME NEW i \in 1..LaneBits PROVE LaneBit(a, i) \in {0, 1}
  <2> DEFINE p == 2^(i-1)
             d == a \div p
  <2>1. i - 1 \in Nat
    BY <1>1
  <2>2. p \in Nat \ {0}
    BY <2>1, Standing, N!Powers
  <2> HIDE DEF p
  <2>3. d \in Int
    BY <1>1, <2>2, Division
  <2> HIDE DEF d
  <2>4. d % 2 \in {0, 1}
    BY <2>3
  <2> QED BY <2>4 DEF LaneBit, d, p
<1>3. bits \in LaneBitSeq
  BY <1>2 DEF LaneBitSeq
<1>4. bits = N!ToBits(a, LaneBits)
  BY DEF N!ToBits, LaneBit
<1>5. N!FromBits(bits) = a
  BY <1>1, <1>4, Standing, N!ValueOfField
<1> HIDE DEF bits
<1>6. LaneOf(bits) = a
  BY <1>3, <1>5, LaneOfBits
<1> QED BY <1>2, <1>3, <1>6 DEF bits

(***************************************************************************)
(* Lanes with the same bits.                                               *)
(***************************************************************************)
LEMMA SameBits ==
  ASSUME NEW a \in Lane, NEW c \in Lane,
         \A i \in 1..LaneBits : LaneBit(a, i) = LaneBit(c, i)
  PROVE  a = c
<1>1. [i \in 1..LaneBits |-> LaneBit(a, i)] = [i \in 1..LaneBits |-> LaneBit(c, i)]
  OBVIOUS
<1> QED BY <1>1, BitsOfLane

(***************************************************************************)
(* And, and exclusive or.                                                  *)
(***************************************************************************)
LEMMA LaneAndIs ==
  ASSUME NEW a \in Lane, NEW c \in Lane
  PROVE  /\ LaneAnd(a, c) \in Lane
         /\ \A i \in 1..LaneBits : LaneBit(LaneAnd(a, c), i) = LaneBit(a, i) * LaneBit(c, i)
<1> DEFINE bits == [i \in 1..LaneBits |-> LaneBit(a, i) * LaneBit(c, i)]
<1>1. ASSUME NEW i \in 1..LaneBits PROVE LaneBit(a, i) * LaneBit(c, i) \in {0, 1}
  <2>1. LaneBit(a, i) \in {0, 1} /\ LaneBit(c, i) \in {0, 1}
    BY BitsOfLane
  <2> QED BY <2>1
<1>2. bits \in LaneBitSeq
  BY <1>1 DEF LaneBitSeq
<1>3. \A i \in 1..LaneBits : bits[i] = LaneBit(a, i) * LaneBit(c, i)
  OBVIOUS
<1>4. LaneAnd(a, c) = LaneOf(bits)
  BY DEF LaneAnd
<1> HIDE DEF bits
<1> QED BY <1>2, <1>3, <1>4, LaneOfBits

(***************************************************************************)
(* Exclusive or: the sum of two bits without its carry.                    *)
(***************************************************************************)
LEMMA LaneXorIs ==
  ASSUME NEW a \in Lane, NEW c \in Lane
  PROVE  /\ LaneXor(a, c) \in Lane
         /\ \A i \in 1..LaneBits :
              LaneBit(LaneXor(a, c), i) = (LaneBit(a, i) + LaneBit(c, i)) % 2
<1> DEFINE bits == [i \in 1..LaneBits |-> (LaneBit(a, i) + LaneBit(c, i)) % 2]
<1>1. ASSUME NEW i \in 1..LaneBits PROVE (LaneBit(a, i) + LaneBit(c, i)) % 2 \in {0, 1}
  <2>1. LaneBit(a, i) \in {0, 1} /\ LaneBit(c, i) \in {0, 1}
    BY BitsOfLane
  <2> QED BY <2>1
<1>2. bits \in LaneBitSeq
  BY <1>1 DEF LaneBitSeq
<1>3. \A i \in 1..LaneBits : bits[i] = (LaneBit(a, i) + LaneBit(c, i)) % 2
  OBVIOUS
<1>4. LaneXor(a, c) = LaneOf(bits)
  BY DEF LaneXor
<1> HIDE DEF bits
<1> QED BY <1>2, <1>3, <1>4, LaneOfBits

(***************************************************************************)
(* The number a lane's bits make up, bit after bit.                        *)
(***************************************************************************)
LEMMA PartialSums ==
  ASSUME NEW s \in LaneBitSeq
  PROVE  /\ N!Sum(s)[0] = 0
         /\ \A k \in 1..LaneBits : N!Sum(s)[k] = N!Sum(s)[k-1] + s[k] * 2^(k-1)
         /\ LaneOf(s) = N!Sum(s)[LaneBits]
<1>1. PICK n \in Nat : n = LaneBits
  BY LaneAssumption
<1>2. s \in Seq(N!Bit) /\ Len(s) = n /\ LaneOf(s) = N!FromBits(s)
  BY <1>1, LaneOfBits
<1>3. N!Sum(s) = [i \in 0..n |-> IF i = 0 THEN 0 ELSE N!Sum(s)[i-1] + s[i] * 2^(i-1)]
  BY <1>2, Standing, N!SumDefined
<1> DEFINE S == N!Sum(s)
<1> HIDE DEF S
<1>4. S = [i \in 0..n |-> IF i = 0 THEN 0 ELSE S[i-1] + s[i] * 2^(i-1)]
  BY <1>3, Zenon DEF S
<1>5. S[0] = 0
  BY ONLY <1>4, n \in Nat
<1>6. ASSUME NEW k \in 1..n PROVE S[k] = S[k-1] + s[k] * 2^(k-1)
  <2>1. k \in 0..n /\ k # 0
    OBVIOUS
  <2> QED BY <2>1, <1>4
<1>7. LaneOf(s) = S[n]
  BY <1>2, Standing, N!SumIsFromBits DEF S
<1> QED BY <1>1, <1>5, <1>6, <1>7 DEF S

(***************************************************************************)
(* Numbers add up as their bits do, where no two bits carry: the sum of    *)
(* two numbers is that of two others if it is so at every bit.             *)
(***************************************************************************)
LEMMA BitSums ==
  ASSUME NEW s \in LaneBitSeq, NEW t \in LaneBitSeq, NEW u \in LaneBitSeq, NEW v \in LaneBitSeq,
         \A i \in 1..LaneBits : s[i] + t[i] = u[i] + v[i]
  PROVE  LaneOf(s) + LaneOf(t) = LaneOf(u) + LaneOf(v)
<1> DEFINE n == LaneBits
           S == N!Sum(s)
           T == N!Sum(t)
           U == N!Sum(u)
           V == N!Sum(v)
           Holds == {k \in Nat : k <= n => /\ S[k] \in Int /\ T[k] \in Int
                                           /\ U[k] \in Int /\ V[k] \in Int
                                           /\ S[k] + T[k] = U[k] + V[k]}
<1>0. n \in Nat
  BY LaneAssumption
<1>1. /\ S[0] = 0 /\ \A k \in 1..n : S[k] = S[k-1] + s[k] * 2^(k-1)
      /\ T[0] = 0 /\ \A k \in 1..n : T[k] = T[k-1] + t[k] * 2^(k-1)
  BY PartialSums
<1>2. /\ U[0] = 0 /\ \A k \in 1..n : U[k] = U[k-1] + u[k] * 2^(k-1)
      /\ V[0] = 0 /\ \A k \in 1..n : V[k] = V[k-1] + v[k] * 2^(k-1)
  BY PartialSums
<1>3. \A i \in 1..n : s[i] \in {0, 1} /\ t[i] \in {0, 1} /\ u[i] \in {0, 1} /\ v[i] \in {0, 1}
  BY DEF LaneBitSeq
<1>4. LaneOf(s) = S[n] /\ LaneOf(t) = T[n] /\ LaneOf(u) = U[n] /\ LaneOf(v) = V[n]
  BY PartialSums
<1> HIDE DEF S, T, U, V
<1>5. 0 \in Holds
  BY <1>1, <1>2
<1>6. ASSUME NEW k \in Nat, k \in Holds PROVE k + 1 \in Holds
  <2> SUFFICES ASSUME k + 1 <= n
               PROVE  /\ S[k+1] \in Int /\ T[k+1] \in Int /\ U[k+1] \in Int /\ V[k+1] \in Int
                      /\ S[k+1] + T[k+1] = U[k+1] + V[k+1]
    OBVIOUS
  <2> DEFINE j == k + 1
             p == 2^k
             sp == s[j] * p
             tp == t[j] * p
             up == u[j] * p
             vp == v[j] * p
  <2>1. j \in 1..n /\ j - 1 = k
    OBVIOUS
  <2>2. p \in Nat
    BY Standing, N!Powers
  <2>3. /\ S[k] \in Int /\ T[k] \in Int /\ U[k] \in Int /\ V[k] \in Int
        /\ S[k] + T[k] = U[k] + V[k]
    BY <1>0, <1>6
  <2>4. /\ S[j] = S[k] + sp /\ T[j] = T[k] + tp
        /\ U[j] = U[k] + up /\ V[j] = V[k] + vp
    BY <1>1, <1>2, <2>1
  <2>5. s[j] \in {0, 1} /\ t[j] \in {0, 1} /\ u[j] \in {0, 1} /\ v[j] \in {0, 1}
        /\ s[j] + t[j] = u[j] + v[j]
    BY <2>1, <1>3
  <2> HIDE DEF j, p
  <2>8. /\ sp = (IF s[j] = 1 THEN p ELSE 0) /\ tp = (IF t[j] = 1 THEN p ELSE 0)
        /\ up = (IF u[j] = 1 THEN p ELSE 0) /\ vp = (IF v[j] = 1 THEN p ELSE 0)
    BY <2>2, <2>5
  <2>6. sp \in Int /\ tp \in Int /\ up \in Int /\ vp \in Int /\ sp + tp = up + vp
    <3> HIDE DEF sp, tp, up, vp
    <3> QED BY ONLY <2>2, <2>5, <2>8
  <2> HIDE DEF sp, tp, up, vp
  <2>7. /\ S[j] \in Int /\ T[j] \in Int /\ U[j] \in Int /\ V[j] \in Int
        /\ S[j] + T[j] = U[j] + V[j]
    BY ONLY <2>3, <2>4, <2>6
  <2> QED BY <2>7 DEF j
<1> HIDE DEF Holds, n
<1>7. Nat \subseteq Holds
  BY <1>5, <1>6, Standing, N!Induction
<1>8. S[n] + T[n] = U[n] + V[n]
  BY <1>0, <1>7 DEF Holds
<1> QED BY <1>4, <1>8

(***************************************************************************)
(* Or: the code's |, by what the sum of two lanes counts twice.            *)
(***************************************************************************)
LEMMA LaneOrIs ==
  ASSUME NEW a \in Lane, NEW c \in Lane
  PROVE  /\ LaneOr(a, c) \in Lane
         /\ \A i \in 1..LaneBits :
              LaneBit(LaneOr(a, c), i)
                = LaneBit(a, i) + LaneBit(c, i) - LaneBit(a, i) * LaneBit(c, i)
<1> DEFINE s == [i \in 1..LaneBits |-> LaneBit(a, i)]
           t == [i \in 1..LaneBits |-> LaneBit(c, i)]
           u == [i \in 1..LaneBits |-> LaneBit(a, i) * LaneBit(c, i)]
           v == [i \in 1..LaneBits |-> LaneBit(a, i) + LaneBit(c, i) - LaneBit(a, i) * LaneBit(c, i)]
<1>1. ASSUME NEW i \in 1..LaneBits
      PROVE  /\ LaneBit(a, i) * LaneBit(c, i) \in {0, 1}
             /\ LaneBit(a, i) + LaneBit(c, i) - LaneBit(a, i) * LaneBit(c, i) \in {0, 1}
             /\ LaneBit(a, i) + LaneBit(c, i)
                  = LaneBit(a, i) * LaneBit(c, i)
                    + (LaneBit(a, i) + LaneBit(c, i) - LaneBit(a, i) * LaneBit(c, i))
  <2>1. LaneBit(a, i) \in {0, 1} /\ LaneBit(c, i) \in {0, 1}
    BY BitsOfLane
  <2> QED BY <2>1
<1>2. u \in LaneBitSeq /\ v \in LaneBitSeq
  BY <1>1 DEF LaneBitSeq
<1>3. s \in LaneBitSeq /\ t \in LaneBitSeq /\ LaneOf(s) = a /\ LaneOf(t) = c
  BY BitsOfLane
<1>4. \A i \in 1..LaneBits : s[i] + t[i] = u[i] + v[i]
  BY <1>1
<1>5. LaneAnd(a, c) = LaneOf(u)
  BY DEF LaneAnd
<1>6. \A i \in 1..LaneBits :
        v[i] = LaneBit(a, i) + LaneBit(c, i) - LaneBit(a, i) * LaneBit(c, i)
  OBVIOUS
<1> HIDE DEF s, t, u, v
<1>8. LaneOf(s) + LaneOf(t) = LaneOf(u) + LaneOf(v)
  BY ONLY <1>2, <1>3, <1>4, BitSums
<1>9. LaneOf(u) \in Int /\ LaneOf(v) \in Lane /\ a \in Int /\ c \in Int /\ LaneOf(v) \in Int
  BY <1>2, LaneOfBits, Widths DEF Lane
<1>10. LaneOr(a, c) = LaneOf(v)
  BY <1>3, <1>5, <1>8, <1>9 DEF LaneOr
<1> QED BY <1>2, <1>6, <1>9, <1>10, LaneOfBits

(***************************************************************************)
(* Powers of two divide each other.                                        *)
(***************************************************************************)
LEMMA PowerSplit ==
  ASSUME NEW m \in Nat, NEW n \in Nat, m <= n
  PROVE  /\ 2^m \in Nat \ {0} /\ 2^(n-m) \in Nat \ {0} /\ 2^n \in Nat \ {0}
         /\ 2^n = 2^m * 2^(n-m)
<1>1. n - m \in Nat /\ m + (n - m) = n
  OBVIOUS
<1>2. 2^(m + (n - m)) = 2^m * 2^(n-m)
  BY <1>1, Standing, N!PowerOfSum
<1>3. 2^m \in Nat \ {0} /\ 2^(n-m) \in Nat \ {0} /\ 2^n \in Nat \ {0}
  BY <1>1, Standing, N!Powers
<1> QED BY <1>1, <1>2, <1>3

(***************************************************************************)
(* Two lanes that have no bit in common: one is below a power of two, the  *)
(* other a multiple of it.  Then | is +, either way around.                *)
(***************************************************************************)
LEMMA OrDisjoint ==
  ASSUME NEW a \in Lane, NEW c \in Lane, NEW k \in Nat, NEW m \in Int,
         a < 2^k, c = m * 2^k
  PROVE  LaneOr(a, c) = a + c /\ LaneOr(c, a) = a + c
<1>0. a \in Nat /\ c \in Nat /\ 0 \in Lane
  BY Widths DEF Lane
<1>1. ASSUME NEW i \in 1..LaneBits PROVE LaneBit(a, i) = 0 \/ LaneBit(c, i) = 0
  <2> DEFINE j == i - 1
             p == 2^j
  <2>1. j \in Nat
    BY LaneAssumption
  <2>2. p \in Nat \ {0}
    BY <2>1, Standing, N!Powers
  <2>3. LaneBit(a, i) = (a \div p) % 2 /\ LaneBit(c, i) = (c \div p) % 2
    BY DEF LaneBit
  <2>4. CASE k <= j
    <3>1. 2^k <= p /\ 2^k \in Nat
      BY <2>1, <2>4, Standing, N!PowerOrder, N!Powers
    <3> HIDE DEF p
    <3>2. a \in 0..p-1
      BY <3>1, <2>2, <1>0
    <3>3. a \div p = 0
      BY <3>2, <2>2, Small
    <3> QED BY <3>3, <2>3
  <2>5. CASE ~(k <= j)
    <3> DEFINE r == k - j - 1
               q == 2^r
               d == m * q
               w == d * 2
    <3>1. r \in Nat /\ j <= k /\ k - j = r + 1
      BY <2>1, <2>5
    <3>2. q \in Nat /\ 2^(k-j) = q + q
      BY <3>1, Standing, N!Powers, N!PowerDoubles
    <3>3. 2^k = p * 2^(k-j)
      BY <2>1, <3>1, PowerSplit
    <3> HIDE DEF p, q, r
    <3>4. d \in Int /\ w \in Int
      BY <3>2
    <3>5. c = w * p + 0
      <4>1. c = m * (p * (q + q))
        BY <3>2, <3>3
      <4>2. w = (m * q) * 2
        OBVIOUS
      <4> HIDE DEF w, d
      <4> QED BY ONLY <4>1, <4>2, <3>2, <3>4, <2>2, m \in Int
    <3> HIDE DEF w
    <3>6. 0 \in 0..p-1
      BY <2>2
    <3>7. c \div p = w
      BY <2>2, <3>4, <3>5, <3>6, Unique
    <3> HIDE DEF d
    <3>8. w = d * 2 + 0 /\ 0 \in 0..2-1
      BY <3>4 DEF w
    <3>9. w % 2 = 0
      BY <3>4, <3>8, Unique
    <3> QED BY <3>7, <3>9, <2>3
  <2> QED BY <2>4, <2>5
<1>2. ASSUME NEW i \in 1..LaneBits PROVE LaneBit(0, i) = 0
  <2>1. i - 1 \in Nat
    BY LaneAssumption
  <2>2. 2^(i-1) \in Nat \ {0}
    BY <2>1, Standing, N!Powers
  <2>3. 0 \div 2^(i-1) = 0 /\ 0 % 2 = 0
    BY <2>2, Small
  <2>4. LaneBit(0, i) = (0 \div 2^(i-1)) % 2
    BY DEF LaneBit
  <2> QED BY ONLY <2>3, <2>4, Zenon
<1>3. ASSUME NEW i \in 1..LaneBits
      PROVE  LaneBit(a, i) * LaneBit(c, i) = 0 /\ LaneBit(c, i) * LaneBit(a, i) = 0
  <2>1. LaneBit(a, i) \in {0, 1} /\ LaneBit(c, i) \in {0, 1}
    BY BitsOfLane
  <2> QED BY <2>1, <1>1
<1>4. LaneAnd(a, c) = 0 /\ LaneAnd(c, a) = 0
  <2>1. /\ LaneAnd(a, c) \in Lane /\ LaneAnd(c, a) \in Lane
        /\ \A i \in 1..LaneBits : LaneBit(LaneAnd(a, c), i) = LaneBit(0, i)
        /\ \A i \in 1..LaneBits : LaneBit(LaneAnd(c, a), i) = LaneBit(0, i)
    BY <1>2, <1>3, LaneAndIs
  <2> QED BY <2>1, <1>0, SameBits
<1> QED BY <1>0, <1>4 DEF LaneOr

(***************************************************************************)
(* A lane or'ed with nothing.                                              *)
(***************************************************************************)
LEMMA OrNothing ==
  ASSUME NEW a \in Lane
  PROVE  LaneOr(a, 0) = a /\ LaneOr(0, a) = a
<1>1. 0 \in Lane /\ a \in Int /\ 2^0 = 1 /\ 0 \in Nat
  BY Widths, Standing, N!Powers DEF Lane
<1>2. 0 < 2^0 /\ a = a * 2^0
  BY <1>1
<1>3. LaneOr(0, a) = 0 + a /\ LaneOr(a, 0) = 0 + a
  BY <1>1, <1>2, OrDisjoint
<1> QED BY <1>1, <1>3

(***************************************************************************)
(* The same of two pairs.                                                  *)
(***************************************************************************)
LEMMA PairsDisjoint ==
  ASSUME NEW x \in Uint128, NEW y \in Uint128, NEW k \in Nat, NEW m \in Int,
         Unsigned(x) < 2^k, Unsigned(y) = m * 2^k
  PROVE  /\ Or(x, y) = uint128(Unsigned(x) + Unsigned(y))
         /\ Or(y, x) = uint128(Unsigned(x) + Unsigned(y))
         /\ Unsigned(x) + Unsigned(y) \in 0..WideModulus-1
<1> DEFINE b == LaneModulus
           p == 2^k
           xh == x.Hi
           xl == x.Lo
           yh == y.Hi
           yl == y.Lo
           z == [Lo |-> xl + yl, Hi |-> xh + yh]
<1>0. /\ b \in Nat \ {0} /\ xl \in 0..b-1 /\ yl \in 0..b-1 /\ xh \in 0..b-1 /\ yh \in 0..b-1
      /\ p \in Nat \ {0}
  BY Pairs, Widths, Standing, N!Powers DEF Lane
<1>1. xl \in Lane /\ yl \in Lane /\ xh \in Lane /\ yh \in Lane
  BY Pairs
<1>2. Unsigned(x) = xh * b + xl /\ Unsigned(y) = yh * b + yl
  BY DEF Unsigned
<1>3. /\ Or(x, y) = [Lo |-> LaneOr(xl, yl), Hi |-> LaneOr(xh, yh)]
      /\ Or(y, x) = [Lo |-> LaneOr(yl, xl), Hi |-> LaneOr(yh, xh)]
  BY DEF Or
<1>4. /\ LaneOr(xl, yl) = xl + yl /\ LaneOr(yl, xl) = xl + yl
      /\ LaneOr(xh, yh) = xh + yh /\ LaneOr(yh, xh) = xh + yh
  <2>1. CASE k <= LaneBits
    <3> DEFINE q == 2^(LaneBits - k)
               j == m - yh * q
    <3>1. q \in Nat \ {0} /\ b = p * q
      BY <2>1, Widths, PowerSplit DEF LaneModulus
    <3>2. p <= b
      <4> HIDE DEF b, p, q
      <4>1. p * 1 <= p * q
        BY <1>0, <3>1
      <4> QED BY <4>1, <1>0, <3>1
    <3>3. xh = 0 /\ xl < p
      <4>1. Unsigned(x) < LaneModulus
        BY <3>2, <1>0, Pairs
      <4> QED BY <4>1, OneLane
    <3>4. yl = j * p /\ j \in Int
      <4>1. yh * b + yl = m * p
        BY <1>2
      <4> HIDE DEF b, p, q, yh, yl
      <4>2. yh * b = (yh * q) * p /\ yh * q \in Int
        BY <1>0, <3>1
      <4> QED BY <4>1, <4>2, <1>0
    <3>5. LaneOr(xl, yl) = xl + yl /\ LaneOr(yl, xl) = xl + yl
      <4> HIDE DEF xl, yl, j
      <4> QED BY <1>1, <3>3, <3>4, OrDisjoint
    <3>6. LaneOr(xh, yh) = yh /\ LaneOr(yh, xh) = yh
      BY <1>1, <3>3, OrNothing
    <3>7. xh + yh = yh
      BY <3>3, <1>0
    <3> QED BY <3>5, <3>6, <3>7
  <2>2. CASE ~(k <= LaneBits)
    <3> DEFINE j == k - LaneBits
               q == 2^j
    <3>1. q \in Nat \ {0} /\ p = b * q /\ j \in Nat
      BY <2>2, Widths, PowerSplit DEF LaneModulus
    <3>2. yh = m * q /\ yl = 0
      <4> DEFINE u == Unsigned(y)
                 n == m * q
      <4>1. u = n * b + 0 /\ n \in Int
        <5>1. u = m * p
          OBVIOUS
        <5> HIDE DEF b, p, q, u
        <5> QED BY <5>1, <1>0, <3>1
      <4>2. u = yh * b + yl
        BY <1>2
      <4> HIDE DEF b, n, yh, yl, u
      <4>6. b \in Nat \ {0} /\ yl \in 0..b-1 /\ yh \in Int /\ 0 \in 0..b-1
        BY <1>0
      <4>3. u % b = yl /\ u \div b = yh
        BY ONLY <4>2, <4>6, Unique
      <4>5. u % b = 0 /\ u \div b = n
        BY ONLY <4>1, <4>6, Unique
      <4> QED BY <4>3, <4>5 DEF n
    <3>3. xh < q
      <4>1. xh * b + xl < p
        BY <1>2
      <4> HIDE DEF b, p, q, xh, xl
      <4>2. q <= xh => q * b <= xh * b
        BY <1>0, <3>1, Standing, N!Products
      <4>3. p = q * b /\ xh * b \in Int
        BY <1>0, <3>1
      <4> QED BY <4>1, <4>2, <4>3, <1>0, <3>1
    <3>4. LaneOr(xh, yh) = xh + yh /\ LaneOr(yh, xh) = xh + yh
      <4> HIDE DEF xh, yh, j
      <4> QED BY <1>1, <3>1, <3>2, <3>3, OrDisjoint
    <3>5. LaneOr(xl, yl) = xl /\ LaneOr(yl, xl) = xl
      BY <1>1, <3>2, OrNothing
    <3>6. xl + yl = xl
      BY <3>2, <1>0
    <3> QED BY <3>4, <3>5, <3>6
  <2> QED BY <2>1, <2>2
<1>5. z \in Uint128
  <2>1. LaneOr(xl, yl) \in Lane /\ LaneOr(xh, yh) \in Lane
    BY <1>1, LaneOrIs
  <2> QED BY <2>1, <1>4 DEF Uint128
<1>6. Unsigned(z) = Unsigned(x) + Unsigned(y)
  <2>1. Unsigned(z) = (xh + yh) * b + (xl + yl)
    BY DEF Unsigned
  <2> HIDE DEF z, xh, xl, yh, yl, b
  <2>2. (xh + yh) * b = xh * b + yh * b /\ xh * b \in Int /\ yh * b \in Int
    BY <1>0
  <2> QED BY <2>1, <2>2, <1>0, <1>2
<1>7. Or(x, y) = z /\ Or(y, x) = z
  BY <1>3, <1>4
<1> HIDE DEF z
<1> QED BY <1>5, <1>6, <1>7, Pairs, PatternOf

-----------------------------------------------------------------------------
(***************************************************************************)
(* Shifts of a pair.  First what a shift of less than a lane does to one   *)
(* lane: the bits that leave it, and those that stay.                      *)
(***************************************************************************)
LEMMA LaneShifts ==
  ASSUME NEW a \in Lane, NEW n \in 0..LaneBits
  PROVE  LET p == 2^n
             q == 2^(LaneBits-n)
         IN  /\ p \in Nat \ {0} /\ q \in Nat \ {0} /\ LaneModulus = p * q
             /\ a \div q \in 0..p-1 /\ a % q \in Nat
             /\ LaneLsh(a, n) = (a % q) * p /\ LaneLsh(a, n) \in Lane
             /\ LaneRsh(a, LaneBits-n) = a \div q /\ LaneRsh(a, LaneBits-n) \in Lane
             /\ a * p = (a \div q) * LaneModulus + LaneLsh(a, n)
<1> DEFINE p == 2^n
           q == 2^(LaneBits-n)
           b == LaneModulus
           u == a \div q
           r == a % q
<1>1. p \in Nat \ {0} /\ q \in Nat \ {0} /\ b = p * q
  BY LaneAssumption, PowerSplit DEF LaneModulus
<1>2. b \in Nat \ {0} /\ a \in 0..b-1
  BY Widths DEF Lane
<1>3. LaneLsh(a, n) = (a * p) % b /\ LaneRsh(a, LaneBits-n) = u
  BY DEF LaneLsh, LaneRsh
<1>8. Lane = 0..b-1
  BY DEF Lane
<1> HIDE DEF p, q, b
<1>4. u \in 0..p-1 /\ r \in 0..q-1 /\ a = u * q + r
  <2>1. a \in 0..q*p-1 /\ a \in Int
    BY <1>1, <1>2
  <2>2. u \in 0..p-1
    BY ONLY <2>1, <1>1, QuotientRange DEF u
  <2>3. r \in 0..q-1 /\ a = u * q + r
    BY ONLY <2>1, <1>1, Division DEF u, r
  <2> QED BY <2>2, <2>3
<1> HIDE DEF u, r
<1>5. r * p \in 0..b-1
  <2>1. 0 * p <= r * p /\ r * p <= (q - 1) * p
    BY <1>1, <1>4, Standing, N!Products
  <2>2. (q - 1) * p = b - p
    BY <1>1
  <2> QED BY <2>1, <2>2, <1>1, <1>2, <1>4
<1>6. a * p = u * b + r * p
  BY <1>1, <1>4
<1>7. (a * p) % b = r * p
  <2> DEFINE m == a * p
             t == r * p
  <2> HIDE DEF m, t
  <2>1. m = u * b + t /\ t \in 0..b-1 /\ u \in Int /\ b \in Nat \ {0}
    BY <1>2, <1>4, <1>5, <1>6 DEF m, t
  <2>2. m % b = t
    BY ONLY <2>1, Unique
  <2> QED BY <2>2 DEF m, t
<1>9. u \in 0..b-1
  <2>1. p * 1 <= p * q
    BY <1>1
  <2> QED BY <2>1, <1>1, <1>2, <1>4
<1>10. r \in Nat
  BY <1>1, <1>4
<1> QED BY <1>1, <1>3, <1>4, <1>5, <1>6, <1>7, <1>8, <1>9, <1>10 DEF p, q, b, u, r

(***************************************************************************)
(* << of a pair is a product with a power of two.                          *)
(***************************************************************************)
LEMMA LshIs ==
  ASSUME NEW x \in Uint128, NEW n \in Nat
  PROVE  Lsh(x, n) = uint128(Unsigned(x) * 2^n)
<1> DEFINE b == LaneModulus
           xh == x.Hi
           xl == x.Lo
           U == Unsigned(x)
           p == 2^n
<1>0. b \in Nat \ {0} /\ xl \in 0..b-1 /\ xh \in 0..b-1 /\ p \in Nat \ {0} /\ U = xh * b + xl /\ U \in Int
  BY Pairs, Widths, Standing, N!Powers DEF Lane
<1>1. xl \in Lane /\ xh \in Lane /\ LaneBits \in Nat \ {0} /\ WideBits = LaneBits + LaneBits
  BY Pairs, LaneAssumption DEF WideBits
<1>2. CASE n = 0
  <2>1. Lsh(x, n) = x /\ p = 1
    BY <1>2, Standing, N!Powers DEF Lsh
  <2>2. U * p = U
    BY <2>1, <1>0
  <2> QED BY <2>1, <2>2, PatternOf
<1>3. CASE n # 0 /\ n < LaneBits
  <2> DEFINE q == 2^(LaneBits-n)
             lo == LaneLsh(xl, n)
             u == LaneRsh(xl, LaneBits-n)
             v == xh \div q
             r == xh % q
             hi == LaneLsh(xh, n)
             s == xh * p + u
  <2>1. Lsh(x, n) = [Lo |-> lo, Hi |-> LaneOr(hi, u)]
    BY <1>3 DEF Lsh
  <2>2. /\ q \in Nat \ {0} /\ b = p * q /\ u \in 0..p-1 /\ lo \in Lane /\ u \in Lane
        /\ xl * p = u * b + lo
    BY <1>1, <1>3, LaneShifts
  <2>3. hi \in Lane /\ hi = r * p /\ xh * p = v * b + hi /\ v \in 0..p-1 /\ r \in Int
    BY <1>1, <1>3, LaneShifts
  <2>4. LaneOr(hi, u) = hi + u /\ LaneOr(hi, u) \in Lane
    <3> HIDE DEF hi, u, r
    <3>1. u < 2^n
      BY <2>2
    <3>2. hi = r * 2^n
      BY <2>3
    <3> QED BY <2>2, <2>3, <3>1, <3>2, LaneOrIs, OrDisjoint
  <2>5. uint128(s * b + lo) = [Lo |-> lo % b, Hi |-> (s + (lo \div b)) % b]
    <3>1. s \in Int /\ lo \in Int
      BY <1>0, <2>2 DEF Lane
    <3> QED BY <3>1, FromLanes
  <2>9. Lane = 0..b-1
    BY DEF Lane
  <2> HIDE DEF b, p, q, lo, u, v, r, hi
  <2>6. lo % b = lo /\ lo \div b = 0
    BY <1>0, <2>2, <2>9, Small
  <2>7. (s + 0) % b = hi + u
    <3> DEFINE t == hi + u
               m == s + 0
    <3>1. m = v * b + t /\ t \in 0..b-1 /\ v \in Int /\ b \in Nat \ {0}
      BY <1>0, <2>2, <2>3, <2>4, <2>9
    <3> HIDE DEF s, t, m
    <3>2. m % b = t
      BY ONLY <3>1, Unique
    <3> QED BY <3>2 DEF t, m
  <2>8. U * p = s * b + lo
    <3>1. U * p = (xh * p) * b + xl * p
      BY <1>0
    <3>2. s * b = (xh * p) * b + u * b /\ u * b \in Int /\ (xh * p) * b \in Int /\ lo \in Int
      BY <1>0, <2>2, <2>9
    <3> DEFINE sb == s * b
               ub == u * b
               xb == (xh * p) * b
               Up == U * p
               xp == xl * p
    <3>3. Up = xb + xp /\ sb = xb + ub /\ xp = ub + lo
      BY <3>1, <3>2, <2>2
    <3>4. xb \in Int /\ ub \in Int /\ lo \in Int
      BY <3>2
    <3> HIDE DEF sb, ub, xb, Up, xp
    <3>5. Up = sb + lo
      BY ONLY <3>3, <3>4
    <3> QED BY <3>5 DEF Up, sb
  <2>10. uint128(s * b + lo) = [Lo |-> lo, Hi |-> hi + u]
    BY ONLY <2>5, <2>6, <2>7, Zenon DEF b
  <2>11. Lsh(x, n) = [Lo |-> lo, Hi |-> hi + u]
    BY ONLY <2>1, <2>4, Zenon
  <2>12. Lsh(x, n) = uint128(U * p)
    BY ONLY <2>8, <2>10, <2>11, Zenon
  <2> QED BY <2>12 DEF p
<1>4. CASE n >= LaneBits /\ n < WideBits
  <2> DEFINE j == n - LaneBits
             q == 2^j
             lo == xl * q
             s == (xh * q) * b + lo
  <2>1. Lsh(x, n) = [Lo |-> 0, Hi |-> lo % b]
    BY <1>1, <1>4 DEF Lsh, LaneLsh
  <2>2. q \in Nat \ {0} /\ p = b * q
    BY <1>1, <1>4, PowerSplit DEF LaneModulus
  <2>3. U * p = s * b + 0 /\ s \in Int /\ lo \in Int
    <3> HIDE DEF b, p, q, U, xh, xl
    <3> QED BY <1>0, <2>2
  <2>4. uint128(s * b + 0) = [Lo |-> 0 % b, Hi |-> (s + (0 \div b)) % b]
    BY <2>3, FromLanes
  <2> HIDE DEF b, q, lo, xh, xl
  <2>5. 0 % b = 0 /\ 0 \div b = 0
    BY <1>0, Small
  <2>6. (s + 0) % b = lo % b
    <3>1. xh * q \in Int
      BY <1>0, <2>2
    <3>2. s % b = lo % b
      BY <3>1, <2>3, <1>0, Shift
    <3>3. s + 0 = s
      BY <2>3
    <3> QED BY <3>2, <3>3
  <2> QED BY <2>1, <2>3, <2>4, <2>5, <2>6
<1>5. CASE n >= WideBits
  <2> DEFINE j == n - WideBits
             q == 2^j
             c == U * q
  <2>1. Lsh(x, n) = Zero
    BY <1>1, <1>5 DEF Lsh
  <2>2. q \in Nat \ {0} /\ p = WideModulus * q
    <3>1. WideBits \in Nat /\ WideBits <= n
      BY <1>1, <1>5
    <3>2. q \in Nat \ {0} /\ p = 2^WideBits * q
      BY <3>1, PowerSplit
    <3> QED BY <3>2, WideWidths
  <2>3. c \in Int /\ U * p = c * WideModulus + 0
    <3>1. WideModulus \in Nat
      BY WideWidths
    <3> HIDE DEF p, q, U
    <3> QED BY <3>1, <1>0, <2>2
  <2>4. uint128(c * WideModulus + 0) = uint128(0)
    BY <2>3, SamePattern
  <2> QED BY <2>1, <2>3, <2>4, Constant
<1> QED BY <1>1, <1>2, <1>3, <1>4, <1>5

(***************************************************************************)
(* >> of a pair is a quotient by a power of two.                           *)
(***************************************************************************)
LEMMA RshIs ==
  ASSUME NEW x \in Uint128, NEW n \in Nat
  PROVE  /\ Rsh(x, n) \in Uint128
         /\ Unsigned(Rsh(x, n)) = Unsigned(x) \div 2^n
<1> DEFINE b == LaneModulus
           xh == x.Hi
           xl == x.Lo
           U == Unsigned(x)
           p == 2^n
<1>0. b \in Nat \ {0} /\ xl \in 0..b-1 /\ xh \in 0..b-1 /\ p \in Nat \ {0} /\ U = xh * b + xl /\ U \in Int
  BY Pairs, Widths, Standing, N!Powers DEF Lane
<1>1. xl \in Lane /\ xh \in Lane /\ LaneBits \in Nat \ {0} /\ WideBits = LaneBits + LaneBits /\ 0 \in Lane
  BY Pairs, LaneAssumption, Widths DEF WideBits, Lane
<1>2. CASE n = 0
  <2>1. Rsh(x, n) = x /\ p = 1
    BY <1>2, Standing, N!Powers DEF Rsh
  <2>2. U \div p = U
    BY <2>1, <1>0
  <2> QED BY <2>1, <2>2
<1>3. CASE n # 0 /\ n < LaneBits
  <2> DEFINE m == LaneBits - n
             q == 2^m
             up == LaneRsh(xl, n)
             down == LaneLsh(xh, m)
             hi == LaneRsh(xh, n)
             c == xh % p
             lo == LaneOr(up, down)
  <2>1. Rsh(x, n) = [Lo |-> lo, Hi |-> hi]
    BY <1>3 DEF Rsh
  <2>0. m \in 0..LaneBits /\ LaneBits - m = n
    BY <1>1, <1>3
  <2>2. /\ q \in Nat \ {0} /\ b = q * p /\ hi = xh \div p /\ hi \in Lane
        /\ down = c * q /\ down \in Lane /\ xh * q = hi * b + down /\ c \in Int
    BY <1>1, <2>0, LaneShifts
  <2>3. up = xl \div p /\ up \in 0..q-1 /\ up \in Lane
    <3>1. /\ xl \div 2^(LaneBits - m) \in 0..2^m-1
          /\ LaneRsh(xl, LaneBits - m) = xl \div 2^(LaneBits - m)
          /\ LaneRsh(xl, LaneBits - m) \in Lane
      <4> HIDE DEF m, xl
      <4> QED BY ONLY <2>0, <1>1, LaneShifts
    <3> HIDE DEF m, xl
    <3> QED BY <3>1, <2>0
  <2>4. lo = up + down /\ lo \in Lane
    <3> HIDE DEF up, down, c
    <3>1. up < 2^m /\ down = c * 2^m
      BY <2>2, <2>3
    <3> QED BY <2>0, <2>2, <2>3, <3>1, LaneOrIs, OrDisjoint
  <2>5. Rsh(x, n) \in Uint128
    BY <2>1, <2>2, <2>4 DEF Uint128
  <2>6. Unsigned(Rsh(x, n)) = hi * b + lo
    BY <2>1 DEF Unsigned
  <2>7. Lane = 0..b-1
    BY DEF Lane
  <2> DEFINE k == xh * q
  <2>8. U \div p = k + up
    <3> HIDE DEF b, p, q, xh, xl, U
    <3>1. U = k * p + xl /\ k \in Int /\ xl \in Int
      BY <1>0, <2>2
    <3> HIDE DEF k, up
    <3>2. (k * p + xl) \div p = k + (xl \div p)
      BY ONLY <3>1, <1>0, Shift
    <3> QED BY <3>1, <3>2, <2>3
  <2> HIDE DEF lo, hi, up, down, k, p, q, b, U
  <2>9. k + up = hi * b + lo
    <3>1. k = hi * b + down
      BY <2>2 DEF k
    <3>2. hi * b \in Int /\ up \in Int /\ down \in Int
      BY <1>0, <2>2, <2>3, <2>7
    <3> QED BY <3>1, <3>2, <2>4
  <2> QED BY <2>5, <2>6, <2>8, <2>9 DEF U, p
<1>4. CASE n >= LaneBits /\ n < WideBits
  <2> DEFINE j == n - LaneBits
             q == 2^j
             d == xh \div q
  <2>1. Rsh(x, n) = [Lo |-> d, Hi |-> 0]
    BY <1>1, <1>4 DEF Rsh, LaneRsh
  <2>2. q \in Nat \ {0} /\ p = b * q
    BY <1>1, <1>4, PowerSplit DEF LaneModulus
  <2>3. d \in Lane
    <3>1. j \in 0..LaneBits
      BY <1>1, <1>4
    <3>2. LaneBits - j \in 0..LaneBits /\ LaneBits - (LaneBits - j) = j
      BY <3>1, <1>1
    <3> QED BY <3>2, <1>1, LaneShifts DEF LaneRsh
  <2>4. Rsh(x, n) = Uint128From64(d)
    BY <2>1 DEF Uint128From64
  <2>5. U \div p = d
    <3>1. U \div b = xh
      <4> HIDE DEF b, xh, xl, U
      <4>1. b \in Nat \ {0} /\ xl \in 0..b-1 /\ xh \in Int /\ U = xh * b + xl
        BY <1>0
      <4> QED BY ONLY <4>1, Unique
    <3>2. U \div (b * q) = (U \div b) \div q
      <4> HIDE DEF b, q, xh, xl, U
      <4> QED BY <1>0, <2>2, DivTwice
    <3> QED BY <3>1, <3>2, <2>2
  <2> QED BY <2>3, <2>4, <2>5, FromLane
<1>5. CASE n >= WideBits
  <2>1. Rsh(x, n) = Zero
    BY <1>1, <1>5 DEF Rsh
  <2>2. WideModulus <= p
    BY <1>1, <1>5, WideWidths, Standing, N!PowerOrder
  <2>3. U \in 0..p-1
    <3>1. U \in 0..WideModulus-1 /\ WideModulus \in Nat
      BY Pairs, WideWidths
    <3> HIDE DEF U, p
    <3> QED BY <3>1, <2>2, <1>0
  <2>4. U \div p = 0
    <3> HIDE DEF U, p
    <3> QED BY <2>3, <1>0, Small
  <2> QED BY <2>1, <2>4, Constant
<1> QED BY <1>1, <1>2, <1>3, <1>4, <1>5

(***************************************************************************)
(* >> of an Int128 rounds down: what fills from above is the sign.         *)
(***************************************************************************)
LEMMA SignedRshIs ==
  ASSUME NEW x \in Uint128, NEW n \in Nat
  PROVE  SignedRsh(x, n) = uint128(Signed(x) \div 2^n)
<1> DEFINE w == WideModulus
           p == 2^n
           U == Unsigned(x)
           S == Signed(x)
           r == U \div p
<1>0. /\ w \in Nat \ {0} /\ p \in Nat \ {0} /\ U \in 0..w-1 /\ S \in Int /\ WideBits \in Nat
      /\ S < 0 <=> S = U - w
      /\ ~(S < 0) <=> S = U
      /\ w = 2^WideBits
  <2>1. S = IF U < WideHalf THEN U ELSE U - w
    BY SignedIs
  <2>2. w \in Nat \ {0} /\ w = WideHalf + WideHalf /\ WideHalf \in Nat /\ U \in 0..w-1 /\ w = 2^WideBits
    BY WideWidths, Pairs
  <2>3. p \in Nat \ {0} /\ WideBits \in Nat
    BY Widths, Standing, N!Powers
  <2> HIDE DEF w, U, S
  <2> QED BY <2>1, <2>2, <2>3
<1>1. IsNegative(x) <=> S < 0
  BY IsNegativeIs
<1>2. Rsh(x, n) \in Uint128 /\ Unsigned(Rsh(x, n)) = r
  BY RshIs
<1>3. CASE n >= WideBits
  <2>1. w <= p
    BY <1>0, <1>3, Standing, N!PowerOrder
  <2>2. CASE S < 0
    <3>1. SignedRsh(x, n) = Int128From64(-1)
      BY <1>1, <1>3, <2>2 DEF SignedRsh
    <3>2. -1 \in Int64
      BY Widths DEF Int64
    <3>3. S \in -p..-1
      <4> HIDE DEF w, p, U, S
      <4> QED BY <1>0, <2>1, <2>2
    <3>4. S \div p = -1
      <4> HIDE DEF p, S
      <4> QED BY <3>3, <1>0, Below
    <3> QED BY <3>1, <3>2, <3>4, Int128From64Is
  <2>3. CASE ~(S < 0)
    <3>1. SignedRsh(x, n) = Zero
      BY <1>1, <1>3, <2>3 DEF SignedRsh
    <3>2. S \in 0..p-1
      <4> HIDE DEF w, p, U, S
      <4> QED BY <1>0, <2>1, <2>3
    <3>3. S \div p = 0
      <4> HIDE DEF p, S
      <4> QED BY <3>2, <1>0, Small
    <3> QED BY <3>1, <3>3, Constant
  <2> QED BY <2>2, <2>3
<1>4. CASE ~(n >= WideBits) /\ S < 0 /\ n > 0
  <2> DEFINE m == WideBits - n
             q == 2^m
             ones == Lsh(Not(Zero), m)
             o == w - q
  <2>1. SignedRsh(x, n) = Or(Rsh(x, n), ones)
    BY <1>1, <1>4 DEF SignedRsh
  <2>2. q \in Nat \ {0} /\ w = p * q /\ m \in Nat
    <3>1. n <= WideBits
      BY <1>0, <1>4
    <3> QED BY <3>1, <1>0, PowerSplit
  <2>3. Not(Zero) \in Uint128 /\ Unsigned(Not(Zero)) = w - 1
    <3>1. Not(Zero) = uint128(-1) /\ -1 \in Int
      <4>1. -Unsigned(Zero) - 1 = -1
        BY Constant
      <4> QED BY <4>1, Constant, NotIs
    <3>2. uint128(-1) \in Uint128 /\ Unsigned(uint128(-1)) = (-1) % w
      BY <3>1, Patterns
    <3>3. (-1) % w = w - 1
      <4> HIDE DEF w
      <4>1. -1 \in -w..-1
        BY <1>0
      <4>2. (-1) % w = -1 + w
        BY <4>1, <1>0, Below
      <4> QED BY <4>2, <1>0
    <3> QED BY <3>1, <3>2, <3>3
  <2>4. ones \in Uint128 /\ Unsigned(ones) = o /\ o = (p - 1) * q
    <3>1. ones = uint128((w - 1) * q)
      BY <2>2, <2>3, LshIs
    <3>2. (w - 1) * q = (q - 1) * w + o /\ o \in 0..w-1 /\ o = (p - 1) * q
      <4> HIDE DEF w, p, q
      <4>1. 1 * q <= p * q
        BY <1>0, <2>2, Standing, N!Products
      <4>2. (w - 1) * q = w * q - q /\ (q - 1) * w = w * q - w /\ w * q \in Int
        BY <1>0, <2>2
      <4>3. (p - 1) * q = p * q - q
        BY <1>0, <2>2
      <4> QED BY <4>1, <4>2, <4>3, <1>0, <2>2
    <3>3. uint128((q - 1) * w + o) = uint128(o)
      <4>1. q - 1 \in Int /\ o \in Int
        BY <2>2, <3>2
      <4> QED BY <4>1, SamePattern
    <3>4. uint128(o) \in Uint128 /\ Unsigned(uint128(o)) = o % w
      <4>1. o \in Int
        BY <3>2
      <4> QED BY <4>1, Patterns
    <3>5. o % w = o
      <4> HIDE DEF w, o
      <4> QED BY <3>2, <1>0, Small
    <3> QED BY <3>1, <3>2, <3>3, <3>4, <3>5
  <2>5. r < q /\ r \in Int
    <3>1. U \in 0..p*q-1
      BY <1>0, <2>2
    <3> HIDE DEF w, p, q, U
    <3> QED BY <3>1, <1>0, <2>2, QuotientRange
  <2>6. Or(Rsh(x, n), ones) = uint128(r + o)
    <3>1. /\ Rsh(x, n) \in Uint128 /\ ones \in Uint128 /\ m \in Nat /\ p - 1 \in Int
          /\ Unsigned(Rsh(x, n)) < 2^m /\ Unsigned(ones) = (p - 1) * 2^m
      BY <1>0, <1>2, <2>2, <2>4, <2>5
    <3> HIDE DEF ones, m, p, r, o
    <3>2. Or(Rsh(x, n), ones) = uint128(Unsigned(Rsh(x, n)) + Unsigned(ones))
      BY ONLY <3>1, PairsDisjoint
    <3> QED BY <3>2, <1>2, <2>4
  <2>7. S \div p = r - q
    <3> DEFINE k == -q
    <3>1. S = k * p + U /\ k \in Int /\ U \in Int
      <4> HIDE DEF w, p, q, U, S
      <4> QED BY <1>0, <1>4, <2>2
    <3> HIDE DEF w, p, k, U, S
    <3>2. (k * p + U) \div p = k + (U \div p)
      BY <3>1, <1>0, Shift
    <3>3. S \div p = k + r
      BY <3>1, <3>2 DEF r
    <3> HIDE DEF r, q
    <3> QED BY <3>3, <2>2, <2>5 DEF k
  <2>8. uint128(1 * w + (r - q)) = uint128(r - q)
    BY <2>2, <2>5, SamePattern
  <2>9. r + o = 1 * w + (r - q)
    <3> HIDE DEF w, r, q
    <3> QED BY <1>0, <2>2, <2>5
  <2> QED BY <2>1, <2>6, <2>7, <2>8, <2>9
<1>5. CASE ~(n >= WideBits) /\ ~(S < 0)
  <2>1. SignedRsh(x, n) = Rsh(x, n)
    BY <1>1, <1>5 DEF SignedRsh
  <2>2. S \div p = r
    BY <1>0, <1>5
  <2>3. uint128(r) = Rsh(x, n)
    BY <1>2, PatternOf
  <2> QED BY <2>1, <2>2, <2>3
<1>6. CASE ~(n >= WideBits) /\ S < 0 /\ ~(n > 0)
  <2>3. n = 0
    BY <1>6
  <2>1. SignedRsh(x, n) = x /\ p = 1
    <3>1. SignedRsh(x, n) = Rsh(x, n)
      BY <1>6 DEF SignedRsh
    <3> QED BY <3>1, <2>3, Standing, N!Powers DEF Rsh
  <2>2. S \div p = S
    <3> HIDE DEF S
    <3> QED BY <2>1, <1>0
  <2> QED BY <2>1, <2>2, SignedIs
<1> QED BY <1>3, <1>4, <1>5, <1>6

-----------------------------------------------------------------------------
(***************************************************************************)
(* How many bits a number has.                                             *)
(***************************************************************************)
IsLength(n, k) == n < 2^k /\ (k > 0 => 2^(k-1) <= n)

(***************************************************************************)
(* A number has one length.                                                *)
(***************************************************************************)
LEMMA OneLength ==
  ASSUME NEW n \in Nat, NEW k \in Nat, NEW m \in Nat, IsLength(n, k), IsLength(n, m)
  PROVE  k = m
<1>1. ASSUME NEW i \in Nat, NEW j \in Nat, IsLength(n, i), IsLength(n, j), i < j PROVE FALSE
  <2>1. n < 2^i /\ 2^(j-1) <= n /\ j - 1 \in Nat /\ i <= j - 1
    BY <1>1 DEF IsLength
  <2>2. 2^i <= 2^(j-1) /\ 2^i \in Nat /\ 2^(j-1) \in Nat
    BY <2>1, Standing, N!Powers, N!PowerOrder
  <2> QED BY <2>1, <2>2
<1> QED BY <1>1

(***************************************************************************)
(* Every number below a power of two has a length up to its exponent.      *)
(***************************************************************************)
LEMMA HasLength ==
  ASSUME NEW n \in Nat, NEW m \in Nat, n < 2^m
  PROVE  \E k \in 0..m : IsLength(n, k)
<1>1. CASE n = 0
  BY <1>1, Standing, N!Powers DEF IsLength
<1>2. CASE n # 0
  <2> DEFINE k == N!BitsRequired(n)
  <2>1. k \in Nat /\ n < 2^k /\ k # 0 /\ 2^(k-1) <= n
    BY <1>2, Standing, N!BitsRequiredFits
  <2> HIDE DEF k
  <2>2. k <= m
    <3> SUFFICES ASSUME m <= k - 1 PROVE FALSE
      BY <2>1
    <3>1. k - 1 \in Nat
      BY <2>1
    <3>2. 2^m <= 2^(k-1) /\ 2^m \in Nat /\ 2^(k-1) \in Nat
      BY <3>1, Standing, N!Powers, N!PowerOrder
    <3> QED BY <2>1, <3>2
  <2> QED BY <2>1, <2>2 DEF IsLength
<1> QED BY <1>1, <1>2

(***************************************************************************)
(* The length of a lane.                                                   *)
(***************************************************************************)
LEMMA LaneLenIs ==
  ASSUME NEW a \in Lane
  PROVE  LaneLen(a) \in 0..LaneBits /\ IsLength(a, LaneLen(a))
<1>1. a \in Nat /\ a < 2^LaneBits /\ LaneBits \in Nat
  BY LaneAssumption, Widths DEF Lane, LaneModulus
<1>2. \E k \in 0..LaneBits : a < 2^k /\ (k > 0 => 2^(k-1) <= a)
  BY <1>1, HasLength DEF IsLength
<1>3. LaneLen(a) = CHOOSE k \in 0..LaneBits : a < 2^k /\ (k > 0 => 2^(k-1) <= a)
  BY DEF LaneLen
<1> QED BY <1>2, <1>3, Zenon DEF IsLength

(***************************************************************************)
(* The length of a pair.                                                   *)
(***************************************************************************)
LEMMA WideLenIs ==
  ASSUME NEW x \in Uint128
  PROVE  WideLen(x) \in 0..WideBits /\ IsLength(Unsigned(x), WideLen(x))
<1> DEFINE b == LaneModulus
           xh == x.Hi
           xl == x.Lo
           U == Unsigned(x)
           n == LaneLen(xh)
<1>0. b \in Nat \ {0} /\ xl \in 0..b-1 /\ xh \in 0..b-1 /\ U = xh * b + xl
  BY Pairs, Widths DEF Lane
<1>1. LaneBits \in Nat /\ WideBits = LaneBits + LaneBits /\ xl \in Lane /\ xh \in Lane
  BY LaneAssumption, Pairs DEF WideBits
<1>2. CASE xh = 0
  <2>1. WideLen(x) = LaneLen(xl) /\ U = xl
    BY <1>2, OneLane DEF WideLen
  <2> QED BY <2>1, <1>1, LaneLenIs
<1>3. CASE xh # 0
  <2>1. WideLen(x) = LaneBits + n
    BY <1>3 DEF WideLen
  <2>2. n \in 0..LaneBits /\ xh < 2^n /\ (n > 0 => 2^(n-1) <= xh)
    BY <1>1, LaneLenIs DEF IsLength
  <2> HIDE DEF n
  <2>3. n # 0
    <3> SUFFICES ASSUME n = 0 PROVE FALSE
      OBVIOUS
    <3>1. xh < 2^0
      BY <2>2, Zenon
    <3>2. xh < 1
      BY <3>1, Standing, N!Powers, Zenon
    <3> QED BY <3>2, <1>0, <1>3
  <2> DEFINE p == 2^n
             q == 2^(n-1)
  <2>4. n - 1 \in Nat /\ LaneBits + n \in Nat /\ (LaneBits + n) - 1 = LaneBits + (n - 1)
    BY <2>2, <2>3, <1>1
  <2>5. p \in Nat \ {0} /\ q \in Nat \ {0} /\ 2^(LaneBits + n) = b * p /\ 2^((LaneBits + n) - 1) = b * q
    <3>1. n \in Nat
      BY <2>2
    <3>2. p \in Nat \ {0} /\ q \in Nat \ {0}
      BY <3>1, <2>4, Standing, N!Powers
    <3>3. 2^(LaneBits + n) = b * p
      BY <3>1, <1>1, Standing, N!PowerOfSum DEF LaneModulus
    <3>4. 2^(LaneBits + (n - 1)) = b * q
      BY <2>4, <1>1, Standing, N!PowerOfSum DEF LaneModulus
    <3> QED BY <3>2, <3>3, <3>4, <2>4
  <2>6. U < b * p /\ b * q <= U
    <3>1. xh < p /\ q <= xh
      BY <2>2, <2>3
    <3> HIDE DEF b, p, q, xh, xl, U
    <3>2. xh * b <= (p - 1) * b /\ q * b <= xh * b
      BY <3>1, <2>5, <1>0, Standing, N!Products
    <3>3. (p - 1) * b = b * p - b /\ q * b = b * q /\ xh * b \in Int /\ b * p \in Int /\ b * q \in Int
      BY <2>5, <1>0
    <3> QED BY <3>2, <3>3, <1>0
  <2> QED BY <2>1, <2>2, <2>4, <2>5, <2>6, <1>1 DEF IsLength
<1> QED BY <1>2, <1>3

-----------------------------------------------------------------------------
(***************************************************************************)
(* The long division, as arithmetic.  A number that fits is the one its    *)
(* pattern stands for.                                                     *)
(***************************************************************************)
LEMMA Fitting ==
  ASSUME NEW n \in 0..WideModulus-1
  PROVE  uint128(n) \in Uint128 /\ Unsigned(uint128(n)) = n
<1>1. WideModulus \in Nat \ {0} /\ n \in Int
  BY WideWidths
<1>2. n % WideModulus = n
  BY <1>1, Small
<1> QED BY <1>1, <1>2, Patterns

(***************************************************************************)
(* The digits of a division done so far: those of the number n above the   *)
(* unit t are the quotient's times the divisor y, and a remainder below y. *)
(***************************************************************************)
Digits(n, q, y, r, t) == n \div t = (q \div t) * y + r /\ q % t = 0 /\ r < y

(***************************************************************************)
(* The next digit of a quotient: the next bit of the number goes below the *)
(* remainder, and the divisor is taken from it or not.                     *)
(***************************************************************************)
LEMMA NextDigit ==
  ASSUME NEW n \in Nat, NEW q \in Nat, NEW y \in Nat, NEW r \in Nat, NEW t \in Nat \ {0},
         NEW tt, tt = t + t, Digits(n, q, y, r, tt),
         NEW s, s = 2 * r + ((n \div t) % 2)
  PROVE  /\ s \in Nat /\ s < y + y
         /\ s >= y => Digits(n, q + t, y, s - y, t)
         /\ s < y => Digits(n, q, y, s, t)
<1> DEFINE h == q \div tt
           a == n \div t
           bit == a % 2
           c == a \div 2
<1>1. a \in Int
  BY Division
<1>2. tt \in Nat \ {0} /\ tt = t * 2 /\ n \in Int /\ q \in Int
  OBVIOUS
<1>3. n \div tt = c
  <2>1. PICK two \in Nat \ {0} : two = 2
    OBVIOUS
  <2>2. n \div (t * two) = (n \div t) \div two
    BY ONLY <1>2, t \in Nat \ {0}, two \in Nat \ {0}, DivTwice
  <2>3. t * two = tt
    BY <2>1, <1>2
  <2> QED BY <2>1, <2>2, <2>3, Zenon
<1>4. h \in Int /\ q = h * tt + 0
  <2>1. q = (q \div tt) * tt + (q % tt) /\ q \div tt \in Int
    BY ONLY <1>2, Division
  <2>2. q % tt = 0
    BY DEF Digits
  <2> QED BY <2>1, <2>2, Zenon
<1>5. c = h * y + r /\ r < y
  BY <1>3 DEF Digits
<1>6. s = 2 * r + bit
  OBVIOUS
<1> HIDE DEF a
<1>7. bit \in 0..1 /\ a = c * 2 + bit /\ c \in Int
  BY <1>1
<1> HIDE DEF h, bit, c
<1>8. s \in Nat /\ s < y + y
  BY <1>5, <1>6, <1>7
<1> DEFINE g == h * 2
<1>9. q = g * t /\ g \in Int /\ a = g * y + s
  <2>1. h * tt = (h * 2) * t
    BY <1>2, <1>4
  <2>2. a = 2 * (h * y) + 2 * r + bit
    BY <1>4, <1>5, <1>7
  <2>3. (h * 2) * y = 2 * (h * y) /\ h * y \in Int /\ h * tt \in Int
    BY <1>2, <1>4
  <2> DEFINE hy == h * y
             gy == (h * 2) * y
  <2>4. a = 2 * hy + 2 * r + bit /\ gy = 2 * hy /\ hy \in Int
    BY <2>2, <2>3
  <2> HIDE DEF hy, gy
  <2>5. a = gy + s
    BY <2>4, <1>6, <1>7
  <2> QED BY <2>1, <2>3, <2>5, <1>4 DEF gy
<1>10. 0 \in 0..t-1
  OBVIOUS
<1> HIDE DEF g
<1>11. ASSUME s >= y PROVE Digits(n, q + t, y, s - y, t)
  <2> DEFINE e == g + 1
             m == q + t
  <2>1. m = e * t + 0 /\ e \in Int
    BY <1>9
  <2>2. e * y = g * y + y /\ g * y \in Int
    BY <1>9
  <2> HIDE DEF m, e
  <2>3. m \div t = e /\ m % t = 0
    BY ONLY <2>1, <1>10, t \in Nat \ {0}, Unique
  <2>4. a = e * y + (s - y)
    BY <2>2, <1>8, <1>9
  <2>5. s - y < y
    BY <1>8
  <2> QED BY <2>3, <2>4, <2>5 DEF Digits, a, m
<1>12. ASSUME s < y PROVE Digits(n, q, y, s, t)
  <2>1. q = g * t + 0
    BY <1>9
  <2>2. q \div t = g /\ q % t = 0
    BY ONLY <2>1, <1>9, <1>10, t \in Nat \ {0}, Unique
  <2> QED BY <2>2, <1>9, <1>12 DEF Digits, a
<1> QED BY <1>8, <1>11, <1>12

(***************************************************************************)
(* A remainder so far is below half the width, if some bit is still to     *)
(* come: it is no more than what the bits taken so far make up.            *)
(***************************************************************************)
LEMMA RemainderHalf ==
  ASSUME NEW n \in 0..WideModulus-1, NEW q \in Nat, NEW y \in Nat, NEW r \in Nat,
         NEW t \in Nat, t >= 2, Digits(n, q, y, r, t)
  PROVE  r < WideHalf
<1> DEFINE d == n \div t
           e == n % t
           h == q \div t
<1>1. WideModulus = WideHalf + WideHalf /\ WideHalf \in Nat /\ n \in Nat /\ n < WideModulus
  BY WideWidths
<1>2. d \in Nat /\ e \in Nat /\ n = d * t + e /\ h \in Nat
  BY <1>1
<1>3. d = h * y + r
  BY DEF Digits
<1> HIDE DEF d, e, h
<1>4. h * y \in Nat
  BY <1>2
<1>5. r <= d
  BY <1>2, <1>3, <1>4
<1>6. 2 * d <= t * d /\ t * d = d * t
  <2>1. CASE d = 0
    BY <2>1
  <2>2. CASE d # 0
    <3>1. d \in Nat \ {0}
      BY <2>2, <1>2
    <3>2. 2 * d <= t * d
      BY <3>1, Standing, N!Products
    <3> QED BY <3>1, <3>2
  <2> QED BY <2>1, <2>2
<1>7. d * t \in Int
  BY <1>2
<1> QED BY <1>1, <1>2, <1>5, <1>6, <1>7

(***************************************************************************)
(* The remainder shifted up, and the next bit of x or'ed in: in a pair     *)
(* that is even a bit fits below.                                          *)
(***************************************************************************)
LEMMA BitBelow ==
  ASSUME NEW r \in Uint128, Unsigned(r) < WideHalf, NEW x \in Uint128, NEW i \in Nat,
         NEW shifted, shifted = Lsh(r, 1),
         NEW next, next = [shifted EXCEPT !.Lo = LaneOr(@, Rsh(x, i).Lo % 2)]
  PROVE  next \in Uint128 /\ Unsigned(next) = 2 * Unsigned(r) + ((Unsigned(x) \div 2^i) % 2)
<1> DEFINE b == LaneModulus
           h == Half
           R == Unsigned(r)
           z == Rsh(x, i)
           bit == z.Lo % 2
           lo == shifted.Lo
           hi == shifted.Hi
           n == Unsigned(x) \div 2^i
<1>0. b \in Nat \ {0} /\ h \in Nat \ {0} /\ b = h + h /\ Lane = 0..b-1
  BY Widths DEF Lane
<1>1. R \in Nat /\ R * 2^1 = 2 * R /\ 2 * R \in 0..WideModulus-1
  <2>1. 2^(0+1) = 2^0 + 2^0 /\ 2^0 = 1
    BY Standing, N!Powers, N!PowerDoubles
  <2>2. 2^1 = 2
    BY <2>1
  <2>3. R \in Nat /\ R < WideHalf /\ WideModulus = WideHalf + WideHalf /\ WideHalf \in Nat
    BY Pairs, WideWidths
  <2> HIDE DEF R
  <2> QED BY <2>2, <2>3
<1>2. shifted \in Uint128 /\ Unsigned(shifted) = 2 * R
  <2>1. shifted = uint128(R * 2^1)
    BY LshIs
  <2> QED BY <2>1, <1>1, Fitting
<1>3. hi \in 0..b-1 /\ lo \in 0..b-1 /\ lo \in Lane /\ hi \in Lane /\ hi * b + lo = 2 * R
      /\ shifted = [Lo |-> lo, Hi |-> hi]
  BY <1>0, <1>2, Pairs
<1>4. z \in Uint128 /\ Unsigned(z) = n
  BY RshIs
<1>5. z.Lo \in 0..b-1 /\ z.Hi \in 0..b-1 /\ n = z.Hi * b + z.Lo
  BY <1>0, <1>4, Pairs
<1>6. bit = n % 2 /\ bit \in 0..1
  <2> DEFINE zl == z.Lo
             zh == z.Hi
             k == zh * h
  <2>1. zl \in Int /\ zh \in Int /\ n = zh * b + zl
    BY <1>5, <1>0
  <2> HIDE DEF zl, zh, n, b, h
  <2>2. n = k * 2 + zl /\ k \in Int
    BY <2>1, <1>0
  <2> HIDE DEF k
  <2>3. (k * 2 + zl) % 2 = zl % 2
    BY <2>1, <2>2, Shift
  <2>4. zl % 2 \in 0..1
    BY <2>1
  <2> QED BY <2>2, <2>3, <2>4 DEF zl
<1>7. next = [Lo |-> LaneOr(lo, bit), Hi |-> hi]
  <2>1. next = [shifted EXCEPT !.Lo = LaneOr(lo, bit)]
    OBVIOUS
  <2> HIDE DEF lo, hi, bit, b
  <2> QED BY <2>1, <1>3
<1>8. LaneOr(lo, bit) = bit + lo /\ LaneOr(lo, bit) \in Lane
  <2> DEFINE m == R - hi * h
  <2> HIDE DEF lo, hi, bit, b, h, R
  <2>1. lo = m * 2 /\ m \in Int
    <3>1. hi * b = (hi * h) * 2 /\ hi * h \in Int
      BY <1>0, <1>3
    <3> DEFINE j == hi * h
    <3>2. hi * b = j * 2 /\ j \in Int /\ m = R - j
      BY <3>1
    <3> HIDE DEF j, m
    <3> QED BY <3>2, <1>1, <1>3
  <2>2. 2^1 = 2
    <3>1. 2^(0+1) = 2^0 + 2^0 /\ 2^0 = 1
      BY Standing, N!Powers, N!PowerDoubles
    <3> QED BY <3>1
  <2> HIDE DEF m
  <2>3. lo = m * 2^1 /\ bit < 2^1 /\ bit \in Lane /\ 1 \in Nat
    BY <2>1, <2>2, <1>0, <1>6
  <2> QED BY <2>1, <2>3, <1>3, OrDisjoint, LaneOrIs
<1>9. next \in Uint128
  BY <1>3, <1>7, <1>8 DEF Uint128
<1>10. Unsigned(next) = hi * b + (bit + lo)
  <2>1. next.Lo = bit + lo /\ next.Hi = hi
    BY <1>7, <1>8
  <2> QED BY <2>1 DEF Unsigned
<1> HIDE DEF n, lo, hi, bit, b, R, h
<1>11. hi * b \in Int
  BY <1>0, <1>3
<1>12. Unsigned(next) = 2 * R + bit
  BY <1>1, <1>3, <1>6, <1>10, <1>11
<1> QED BY <1>6, <1>9, <1>12 DEF R, n

(***************************************************************************)
(* The bit a step of the division sets in the quotient.                    *)
(***************************************************************************)
LEMMA OneBit ==
  ASSUME NEW i \in 0..WideBits-1
  PROVE  /\ 2^i \in Nat \ {0} /\ 2^(i+1) = 2^i + 2^i /\ (i > 0 => 2^i >= 2)
         /\ Lsh(One, i) \in Uint128 /\ Unsigned(Lsh(One, i)) = 2^i
<1> DEFINE t == 2^i
<1>1. i \in Nat /\ WideBits - 1 \in Nat /\ i <= WideBits - 1
  BY Widths
<1>2. t \in Nat \ {0} /\ 2^(i+1) = t + t
  BY <1>1, Standing, N!Powers, N!PowerDoubles
<1>3. ASSUME i > 0 PROVE t >= 2
  <2>1. i < t
    BY <1>1, Standing, N!Powers
  <2> HIDE DEF t
  <2> QED BY <2>1, <1>1, <1>2, <1>3
<1>4. t <= WideHalf
  <2>1. 2^i <= 2^(WideBits - 1)
    BY <1>1, Standing, N!PowerOrder
  <2> QED BY <2>1, WideWidths
<1>5. Lsh(One, i) = uint128(t)
  <2>1. One \in Uint128 /\ Unsigned(One) = 1
    BY Constant
  <2>2. Lsh(One, i) = uint128(Unsigned(One) * 2^i)
    BY <1>1, <2>1, LshIs
  <2>3. Unsigned(One) * 2^i = t
    BY <1>2, <2>1
  <2> HIDE DEF t
  <2> QED BY <2>2, <2>3
<1> HIDE DEF t
<1>6. t \in 0..WideModulus-1
  BY <1>2, <1>4, WideWidths
<1>7. Lsh(One, i) \in Uint128 /\ Unsigned(Lsh(One, i)) = t
  BY <1>5, <1>6, Fitting
<1> QED BY <1>2, <1>3, <1>7 DEF t

(***************************************************************************)
(* One step of the long division: it finds a digit, and the next remainder *)
(* has room for another bit.                                               *)
(***************************************************************************)
LEMMA DivisionDigit ==
  ASSUME NEW x \in Uint128, NEW y \in Uint128, NEW q \in Uint128, NEW r \in Uint128,
         NEW i \in 0..WideBits-1,
         Digits(Unsigned(x), Unsigned(q), Unsigned(y), Unsigned(r), 2^(i+1)),
         Unsigned(r) < WideHalf,
         NEW shifted, shifted = Lsh(r, 1),
         NEW next, next = [shifted EXCEPT !.Lo = LaneOr(@, Rsh(x, i).Lo % 2)],
         NEW q2, q2 = IF Fits(next, y) THEN Or(q, Lsh(One, i)) ELSE q,
         NEW r2, r2 = IF Fits(next, y) THEN Sub(next, y) ELSE next
  PROVE  /\ q2 \in Uint128 /\ r2 \in Uint128
         /\ Digits(Unsigned(x), Unsigned(q2), Unsigned(y), Unsigned(r2), 2^i)
         /\ i > 0 => Unsigned(r2) < WideHalf
<1> DEFINE X == Unsigned(x)
           Y == Unsigned(y)
           Q == Unsigned(q)
           R == Unsigned(r)
           S == Unsigned(next)
           t == 2^i
           bit == Lsh(One, i)
<1>0. i \in Nat
  BY Widths
<1>1. t \in Nat \ {0} /\ 2^(i+1) = t + t /\ (i > 0 => t >= 2)
      /\ bit \in Uint128 /\ Unsigned(bit) = t
  BY OneBit, Zenon
<1>2. X \in 0..WideModulus-1 /\ Y \in 0..WideModulus-1 /\ Q \in 0..WideModulus-1
      /\ R \in 0..WideModulus-1 /\ X \in Nat /\ Y \in Nat /\ Q \in Nat /\ R \in Nat
  BY Pairs
<1>3. next \in Uint128 /\ S = 2 * R + ((X \div t) % 2)
  BY <1>0, BitBelow
<1>4. Fits(next, y) <=> S >= Y
  <2>1. Cmp(next, y) = Order(S, Y) /\ S \in Int
    BY <1>3, CmpIs, Pairs
  <2> HIDE DEF S, Y
  <2> QED BY <2>1, <1>2 DEF Fits, Order
<1>5. Digits(X, Q, Y, R, t + t)
  BY <1>1
<1> HIDE DEF X, Y, Q, R, S, t, bit
<1>6. /\ S \in Nat /\ S < Y + Y
      /\ S >= Y => Digits(X, Q + t, Y, S - Y, t)
      /\ S < Y => Digits(X, Q, Y, S, t)
  BY <1>1, <1>2, <1>3, <1>5, NextDigit
<1>7. CASE S >= Y
  <2>1. q2 = Or(q, bit) /\ r2 = Sub(next, y)
    BY <1>4, <1>7 DEF bit
  <2>2. r2 \in Uint128 /\ Unsigned(r2) = S - Y
    <3>1. Sub(next, y) = uint128(S - Y)
      BY <1>3, SubIs DEF S, Y
    <3>2. S \in 0..WideModulus-1
      BY <1>3, Pairs DEF S
    <3>3. Y \in Nat /\ WideModulus \in Nat
      BY <1>2, WideWidths
    <3>4. S - Y \in 0..WideModulus-1
      BY ONLY <3>2, <3>3, <1>7
    <3> QED BY <2>1, <3>1, <3>4, Fitting
  <2>3. q2 \in Uint128 /\ Unsigned(q2) = Q + t
    <3> DEFINE tt == 2^(i+1)
               m == Q \div tt
    <3>1. tt \in Nat \ {0} /\ i + 1 \in Nat /\ t < tt /\ Q \in Int /\ Q % tt = 0
      BY <1>0, <1>1, <1>2, <1>5 DEF Digits
    <3>2. Q = m * tt + (Q % tt) /\ m \in Int
      BY ONLY <3>1, Division
    <3> HIDE DEF m
    <3>3. Q = m * tt
      <4> HIDE DEF tt
      <4>1. m * tt \in Int
        BY <3>1, <3>2
      <4> QED BY <3>1, <3>2, <4>1
    <3>4. Unsigned(bit) < 2^(i+1) /\ Unsigned(q) = m * 2^(i+1)
      BY <1>1, <3>1, <3>3 DEF Q
    <3>5. Or(q, bit) = uint128(Unsigned(bit) + Unsigned(q))
          /\ Unsigned(bit) + Unsigned(q) \in 0..WideModulus-1
      BY <1>1, <3>1, <3>2, <3>4, PairsDisjoint
    <3>6. Unsigned(bit) + Unsigned(q) = Q + t
      BY <1>1, <1>2 DEF Q
    <3> QED BY <2>1, <3>5, <3>6, Fitting
  <2> DEFINE Q2 == Unsigned(q2)
             R2 == Unsigned(r2)
  <2>4. Digits(X, Q2, Y, R2, t)
    BY <1>6, <1>7, <2>2, <2>3
  <2>5. Q2 \in Nat /\ R2 \in Nat /\ t \in Nat
    BY <2>2, <2>3, <1>1, <1>2, <1>6, <1>7
  <2>6. i > 0 => t >= 2
    BY <1>1
  <2> HIDE DEF Q2, R2
  <2>7. i > 0 => R2 < WideHalf
    BY <2>4, <2>5, <2>6, <1>2, RemainderHalf
  <2> QED BY <2>2, <2>3, <2>4, <2>7 DEF X, Y, Q2, R2, t
<1>8. CASE S < Y
  <2>1. q2 = q /\ r2 = next
    BY <1>4, <1>8, <1>2, <1>6
  <2>2. Digits(X, Q, Y, S, t)
    BY <1>6, <1>8
  <2>3. i > 0 => S < WideHalf
    BY <2>2, <1>1, <1>2, <1>6, RemainderHalf
  <2> QED BY <2>1, <2>2, <2>3, <1>3 DEF X, Y, Q, S, t
<1> QED BY <1>2, <1>6, <1>7, <1>8

(***************************************************************************)
(* The divisions the hardware has: the quotient is one lane, and so is the *)
(* remainder.                                                              *)
(***************************************************************************)
LEMMA HardwareDivides ==
  ASSUME NEW x \in Uint128, NEW y \in Uint128, y # Zero, HardwareDivision(x, y),
         NEW q, q = Uint128From64(Unsigned(x) \div y.Lo),
         NEW r, r = Uint128From64(Unsigned(x) % y.Lo)
  PROVE  /\ q \in Uint128 /\ r \in Uint128
         /\ Digits(Unsigned(x), Unsigned(q), Unsigned(y), Unsigned(r), 1)
<1> DEFINE b == LaneModulus
           X == Unsigned(x)
           Y == Unsigned(y)
           xh == x.Hi
           xl == x.Lo
           yl == y.Lo
<1>1. b \in Nat \ {0} /\ xh \in 0..b-1 /\ xl \in 0..b-1 /\ X = xh * b + xl
  BY Pairs, Widths DEF Lane
<1>2. y.Hi = 0
  BY DEF HardwareDivision
<1>3. Y = yl /\ yl \in 1..b-1
  <2>1. Y = yl /\ Y # 0
    BY <1>2, OneLane
  <2>2. yl \in 0..b-1
    BY Pairs DEF Lane
  <2> HIDE DEF Y, yl, b
  <2> QED BY <1>1, <2>1, <2>2
<1>4. xh < yl
  <2>1. xh = 0 \/ xh < yl
    BY DEF HardwareDivision
  <2> HIDE DEF xh, yl, b
  <2> QED BY <1>1, <1>3, <2>1
<1> HIDE DEF b, X, Y, xh, xl, yl
<1>5. X \in 0..yl*b-1
  <2>1. 0 * b <= xh * b /\ xh * b <= (yl - 1) * b
    BY <1>1, <1>3, <1>4, Standing, N!Products
  <2>2. (yl - 1) * b = yl * b - b /\ yl * b \in Int /\ xh * b \in Int
    BY <1>1, <1>3
  <2> QED BY <1>1, <2>1, <2>2
<1>6. yl \in Nat \ {0}
  BY <1>1, <1>3
<1>7. X \div yl \in 0..b-1
  BY <1>1, <1>5, <1>6, QuotientRange
<1>8. X \in Int
  BY Pairs DEF X
<1>9. X % yl \in 0..yl-1 /\ X = (X \div yl) * yl + (X % yl)
  BY <1>6, <1>8, Division
<1> DEFINE d == X \div yl
           e == X % yl
<1>10. d \in Lane /\ e \in Lane /\ q = Uint128From64(d) /\ r = Uint128From64(e)
  <2>1. q = Uint128From64(d) /\ r = Uint128From64(e)
    BY DEF X, yl
  <2> HIDE DEF d, e
  <2>2. d \in 0..b-1 /\ e \in 0..yl-1
    BY <1>7, <1>9 DEF d, e
  <2> QED BY <1>1, <1>3, <2>1, <2>2 DEF Lane, b
<1>11. X = d * yl + e /\ e < yl /\ d \in Int
  BY <1>9, <1>6, <1>8
<1> HIDE DEF d, e
<1>12. q \in Uint128 /\ r \in Uint128 /\ Unsigned(q) = d /\ Unsigned(r) = e
  BY <1>10, FromLane
<1>13. X \div 1 = X /\ d \div 1 = d /\ d % 1 = 0
  BY <1>8, <1>11
<1>14. Digits(X, d, Y, e, 1)
  BY <1>3, <1>11, <1>13 DEF Digits
<1> QED BY <1>12, <1>14 DEF X, Y

(***************************************************************************)
(* The loop starts at the highest bit of the dividend, with no digit and   *)
(* no remainder.                                                           *)
(***************************************************************************)
LEMMA LoopBegins ==
  ASSUME NEW x \in Uint128, NEW y \in Uint128, y # Zero, NEW i, i = WideLen(x) - 1
  PROVE  /\ i \in -1..WideBits-1
         /\ Digits(Unsigned(x), Unsigned(Zero), Unsigned(y), Unsigned(Zero), 2^(i+1))
         /\ Unsigned(Zero) < WideHalf
<1> DEFINE n == WideLen(x)
           t == 2^n
           X == Unsigned(x)
           Y == Unsigned(y)
<1>1. n \in 0..WideBits /\ X < t
  BY WideLenIs DEF IsLength
<1>2. WideBits \in Nat
  BY Widths
<1>3. i = n - 1
  OBVIOUS
<1>4. X \in Nat /\ Y \in Nat /\ Y # 0
  BY Pairs, OneLane
<1> HIDE DEF n, X, Y
<1>5. i \in -1..WideBits-1 /\ i + 1 = n /\ n \in Nat
  BY <1>1, <1>2, <1>3
<1>6. t \in Nat \ {0}
  BY <1>5, Standing, N!Powers
<1> HIDE DEF t
<1>7. X \in 0..t-1 /\ 0 \in 0..t-1
  BY <1>1, <1>4, <1>6
<1>8. X \div t = 0 /\ 0 \div t = 0 /\ 0 % t = 0
  BY <1>6, <1>7, Small
<1>9. Digits(X, 0, Y, 0, t)
  <2>1. 0 * Y + 0 = 0 /\ 0 < Y
    BY <1>4
  <2> QED BY <1>8, <2>1 DEF Digits
<1>10. t = 2^(i+1)
  BY <1>5 DEF t
<1> QED BY <1>5, <1>9, <1>10, Constant, WideWidths DEF X, Y

-----------------------------------------------------------------------------
(***************************************************************************)
(* The inductive invariant of the caller.  TypeOK alone is not inductive:  *)
(* the digits a step finds are right only if those before it were, the     *)
(* division is one of what the accumulator still holds, and a division by  *)
(* zero finds none.                                                        *)
(***************************************************************************)
DivisionRecord == [busy : BOOLEAN, op : {"DivMod", "SignedDivMod"}, operand : Uint128,
                   x : Uint128, y : Uint128, quotient : Uint128, remainder : Uint128,
                   i : -1..WideBits-1]

DigitsFound(d) ==
  /\ Digits(Unsigned(d.x), Unsigned(d.quotient), Unsigned(d.y), Unsigned(d.remainder),
            2^(d.i+1))
  /\ d.i >= 0 => Unsigned(d.remainder) < WideHalf

DividesWhat(d, a) ==
  d.busy => /\ d.x = Magnitude(d.op, a)
            /\ d.y = Magnitude(d.op, d.operand)
            /\ d.y = Zero => d.i = -1 /\ d.quotient = Zero /\ d.remainder = Zero
            /\ d.y # Zero => DigitsFound(d)

ArithmeticInv == /\ acc \in Uint128
                 /\ division \in DivisionRecord
                 /\ division.busy => last = Idle
                 /\ DividesWhat(division, acc)

(***************************************************************************)
(* A magnitude is a pair, the pattern of the number without its sign.      *)
(***************************************************************************)
LEMMA MagnitudePair ==
  ASSUME NEW op, NEW x \in Uint128
  PROVE  Magnitude(op, x) \in Uint128
<1>1. Unsigned(x) \in Nat
  BY Pairs
<1>2. -Unsigned(x) \in Int
  BY <1>1
<1>3. Neg(x) \in Uint128
  BY <1>2, NegIs, Patterns
<1> QED BY <1>3 DEF Magnitude

(***************************************************************************)
(* A division begins with its invariant, in each of its three ways.        *)
(***************************************************************************)
LEMMA DivisionBegins ==
  ASSUME NEW a \in Uint128, NEW op \in {"DivMod", "SignedDivMod"}, NEW operand \in Uint128,
         NEW x, x = Magnitude(op, a), NEW y, y = Magnitude(op, operand),
         NEW begun, begun = [NoDivision EXCEPT !.busy = TRUE, !.op = op, !.operand = operand,
                                               !.x = x, !.y = y],
         NEW d, d = IF y = Zero THEN begun
                    ELSE IF HardwareDivision(x, y)
                      THEN [begun EXCEPT !.quotient = Uint128From64(Unsigned(x) \div y.Lo),
                                         !.remainder = Uint128From64(Unsigned(x) % y.Lo)]
                    ELSE [begun EXCEPT !.i = WideLen(x) - 1]
  PROVE  d \in DivisionRecord /\ d.busy /\ DividesWhat(d, a)
<1>1. x \in Uint128 /\ y \in Uint128 /\ Zero \in Uint128 /\ -1 \in -1..WideBits-1
  BY MagnitudePair, Constant, Widths
<1>0. TRUE \in BOOLEAN
  OBVIOUS
<1>2. begun = [busy |-> TRUE, op |-> op, operand |-> operand, x |-> x, y |-> y,
               quotient |-> Zero, remainder |-> Zero, i |-> -1]
  BY DEF NoDivision
<1>3. CASE y = Zero
  <2>1. d = begun
    BY <1>3
  <2>2. d = [busy |-> TRUE, op |-> op, operand |-> operand, x |-> x, y |-> y,
             quotient |-> Zero, remainder |-> Zero, i |-> -1]
    BY <1>2, <2>1
  <2>3. /\ d \in DivisionRecord /\ d.busy = TRUE /\ d.op = op /\ d.operand = operand
        /\ d.x = x /\ d.y = y /\ d.quotient = Zero /\ d.remainder = Zero /\ d.i = -1
    BY ONLY <1>1, <1>0, <2>2, op \in {"DivMod", "SignedDivMod"}, operand \in Uint128, Zenon
       DEF DivisionRecord
  <2> QED BY ONLY <1>3, <2>3, x = Magnitude(op, a), y = Magnitude(op, operand) DEF DividesWhat
<1>4. CASE y # Zero /\ HardwareDivision(x, y)
  <2> DEFINE q == Uint128From64(Unsigned(x) \div y.Lo)
             r == Uint128From64(Unsigned(x) % y.Lo)
  <2>1. d = [begun EXCEPT !.quotient = q, !.remainder = r]
    BY <1>4
  <2>2. q \in Uint128 /\ r \in Uint128
        /\ Digits(Unsigned(x), Unsigned(q), Unsigned(y), Unsigned(r), 1)
    BY <1>1, <1>4, HardwareDivides
  <2> HIDE DEF q, r
  <2>3. d = [busy |-> TRUE, op |-> op, operand |-> operand, x |-> x, y |-> y,
             quotient |-> q, remainder |-> r, i |-> -1]
    BY ONLY <1>2, <2>1
  <2>4. 2^(-1 + 1) = 1
    <3>1. -1 + 1 = 0
      OBVIOUS
    <3> QED BY <3>1, Standing, N!Powers, Zenon
  <2>5. /\ d \in DivisionRecord /\ d.busy = TRUE /\ d.op = op /\ d.operand = operand
        /\ d.x = x /\ d.y = y /\ d.quotient = q /\ d.remainder = r /\ d.i = -1
    BY ONLY <1>1, <1>0, <2>2, <2>3, op \in {"DivMod", "SignedDivMod"}, operand \in Uint128,
            Zenon DEF DivisionRecord
  <2>6. DigitsFound(d)
    BY ONLY <2>2, <2>4, <2>5 DEF DigitsFound
  <2> QED BY ONLY <1>4, <2>5, <2>6, x = Magnitude(op, a), y = Magnitude(op, operand)
          DEF DividesWhat
<1>5. CASE y # Zero /\ ~HardwareDivision(x, y)
  <2> DEFINE n == WideLen(x) - 1
  <2>1. d = [begun EXCEPT !.i = n]
    BY <1>5
  <2>2. n \in -1..WideBits-1
        /\ Digits(Unsigned(x), Unsigned(Zero), Unsigned(y), Unsigned(Zero), 2^(n+1))
        /\ Unsigned(Zero) < WideHalf
    BY <1>1, <1>5, LoopBegins
  <2> HIDE DEF n
  <2>3. d = [busy |-> TRUE, op |-> op, operand |-> operand, x |-> x, y |-> y,
             quotient |-> Zero, remainder |-> Zero, i |-> n]
    BY ONLY <1>2, <2>1
  <2>4. /\ d \in DivisionRecord /\ d.busy = TRUE /\ d.op = op /\ d.operand = operand
        /\ d.x = x /\ d.y = y /\ d.quotient = Zero /\ d.remainder = Zero /\ d.i = n
    BY ONLY <1>1, <1>0, <2>2, <2>3, op \in {"DivMod", "SignedDivMod"}, operand \in Uint128,
            Zenon DEF DivisionRecord
  <2>5. DigitsFound(d)
    BY ONLY <2>2, <2>4 DEF DigitsFound
  <2> QED BY ONLY <1>5, <2>4, <2>5, x = Magnitude(op, a), y = Magnitude(op, operand)
          DEF DividesWhat
<1> QED BY <1>3, <1>4, <1>5

(***************************************************************************)
(* A step of the division keeps it.                                        *)
(***************************************************************************)
LEMMA DivisionGoesOn ==
  ASSUME NEW a, NEW d \in DivisionRecord, d.busy, DividesWhat(d, a), d.i >= 0,
         NEW shifted, shifted = Lsh(d.remainder, 1),
         NEW next, next = [shifted EXCEPT !.Lo = LaneOr(@, Rsh(d.x, d.i).Lo % 2)],
         NEW e, e = [d EXCEPT !.i = @ - 1,
                              !.remainder = IF Fits(next, d.y) THEN Sub(next, d.y) ELSE next,
                              !.quotient = IF Fits(next, d.y) THEN Or(@, Lsh(One, d.i)) ELSE @]
  PROVE  e \in DivisionRecord /\ e.busy /\ DividesWhat(e, a)
<1> DEFINE q2 == IF Fits(next, d.y) THEN Or(d.quotient, Lsh(One, d.i)) ELSE d.quotient
           r2 == IF Fits(next, d.y) THEN Sub(next, d.y) ELSE next
           x == d.x
           y == d.y
           q == d.quotient
           r == d.remainder
           i == d.i
<1>1. /\ x \in Uint128 /\ y \in Uint128 /\ q \in Uint128 /\ r \in Uint128
      /\ i \in -1..WideBits-1 /\ d.op \in {"DivMod", "SignedDivMod"} /\ d.operand \in Uint128
  BY DEF DivisionRecord
<1>2. i \in 0..WideBits-1 /\ WideBits \in Nat
  BY <1>1, Widths
<1>3. y # Zero /\ DigitsFound(d) /\ x = Magnitude(d.op, a) /\ y = Magnitude(d.op, d.operand)
  BY DEF DividesWhat
<1>4. /\ Digits(Unsigned(x), Unsigned(q), Unsigned(y), Unsigned(r), 2^(i+1))
      /\ Unsigned(r) < WideHalf
  BY <1>3 DEF DigitsFound
<1>5. e = [d EXCEPT !.i = i - 1, !.remainder = r2, !.quotient = q2]
  OBVIOUS
<1>6. /\ q2 \in Uint128 /\ r2 \in Uint128
      /\ Digits(Unsigned(x), Unsigned(q2), Unsigned(y), Unsigned(r2), 2^i)
      /\ i > 0 => Unsigned(r2) < WideHalf
  BY <1>1, <1>2, <1>4, DivisionDigit
<1> HIDE DEF q2, r2
<1>7. e = [busy |-> d.busy, op |-> d.op, operand |-> d.operand, x |-> x, y |-> y,
           quotient |-> q2, remainder |-> r2, i |-> i - 1]
  <2>1. d = [busy |-> d.busy, op |-> d.op, operand |-> d.operand, x |-> x, y |-> y,
             quotient |-> q, remainder |-> r, i |-> i]
    BY DEF DivisionRecord
  <2> QED BY ONLY <1>5, <2>1
<1> HIDE DEF i, x, y, q, r
<1>8. i - 1 \in -1..WideBits-1 /\ (i - 1) + 1 = i /\ (i - 1 >= 0 => i > 0)
  BY <1>2
<1>9. d.busy \in BOOLEAN
  BY DEF DivisionRecord
<1>10. /\ e \in DivisionRecord /\ e.busy = d.busy /\ e.op = d.op /\ e.operand = d.operand
       /\ e.x = x /\ e.y = y /\ e.quotient = q2 /\ e.remainder = r2 /\ e.i = i - 1
  BY ONLY <1>1, <1>6, <1>7, <1>8, <1>9, Zenon DEF DivisionRecord
<1>11. DigitsFound(e)
  BY ONLY <1>6, <1>8, <1>10 DEF DigitsFound
<1> QED BY ONLY <1>3, <1>10, <1>11, d.busy DEF DividesWhat

(***************************************************************************)
(* What each operation computes is a pair.                                 *)
(***************************************************************************)
LEMMA PairsOfPairs ==
  ASSUME NEW x \in Uint128, NEW y \in Uint128
  PROVE  /\ Add(x, y) \in Uint128 /\ Sub(x, y) \in Uint128 /\ Mul(x, y) \in Uint128
         /\ And(x, y) \in Uint128 /\ Or(x, y) \in Uint128 /\ Xor(x, y) \in Uint128
         /\ Neg(x) \in Uint128 /\ Not(x) \in Uint128
<1> DEFINE X == Unsigned(x)
           Y == Unsigned(y)
<1>1. X \in Int /\ Y \in Int
  BY Pairs
<1>2. /\ Add(x, y) = uint128(X + Y) /\ Sub(x, y) = uint128(X - Y) /\ Mul(x, y) = uint128(X * Y)
      /\ Neg(x) = uint128(-X) /\ Not(x) = uint128(-X - 1)
  BY AddIs, SubIs, MulIs, NegIs, NotIs
<1> HIDE DEF X, Y
<1>3. X + Y \in Int /\ X - Y \in Int /\ X * Y \in Int /\ -X \in Int /\ -X - 1 \in Int
  BY <1>1
<1>4. x.Lo \in Lane /\ x.Hi \in Lane /\ y.Lo \in Lane /\ y.Hi \in Lane
  BY Pairs
<1>5. And(x, y) \in Uint128 /\ Or(x, y) \in Uint128 /\ Xor(x, y) \in Uint128
  BY <1>4, LaneAndIs, LaneOrIs, LaneXorIs DEF And, Or, Xor, Uint128
<1> QED BY <1>2, <1>3, <1>5, Patterns

(***************************************************************************)
(* So is what a shift or a lane makes.                                     *)
(***************************************************************************)
LEMMA PairsOfNumbers ==
  /\ \A x \in Uint128, n \in Nat :
       Lsh(x, n) \in Uint128 /\ Rsh(x, n) \in Uint128 /\ SignedRsh(x, n) \in Uint128
  /\ \A n \in Lane : Uint128From64(n) \in Uint128 /\ Int128From64(int64(n)) \in Uint128
<1>1. ASSUME NEW x \in Uint128, NEW n \in Nat
      PROVE  Lsh(x, n) \in Uint128 /\ Rsh(x, n) \in Uint128 /\ SignedRsh(x, n) \in Uint128
  <2>1. 2^n \in Nat \ {0} /\ Unsigned(x) \in Int /\ Signed(x) \in Int
    <3>1. Signed(x) \in Int128
      BY SignedIs
    <3>2. Signed(x) \in Int
      BY <3>1, WideWidths
    <3> QED BY <3>2, Standing, N!Powers, Pairs
  <2>2. Unsigned(x) * 2^n \in Int /\ Signed(x) \div 2^n \in Int
    BY <2>1
  <2> QED BY <2>2, LshIs, RshIs, SignedRshIs, Patterns
<1>2. ASSUME NEW n \in Lane
      PROVE  Uint128From64(n) \in Uint128 /\ Int128From64(int64(n)) \in Uint128
  <2>1. int64(n) \in Int64
    BY SignedLane
  <2> QED BY <2>1, FromLane, Int128From64Is, Patterns
<1> QED BY <1>1, <1>2

(***************************************************************************)
(* A call keeps the invariant, whatever it answers: no division runs.      *)
(***************************************************************************)
LEMMA CallKeeps ==
  ASSUME ArithmeticInv, NEW op, NEW operand, NEW answer, Called(op, operand, answer),
         acc' \in Uint128
  PROVE  ArithmeticInv'
<1>1. division' = division /\ ~division.busy
  BY DEF Called
<1> QED BY <1>1 DEF ArithmeticInv, DividesWhat

(***************************************************************************)
(* The caller's values and the division it runs, as the code begins.       *)
(***************************************************************************)
LEMMA ArithmeticStarts ==
  ASSUME ArithmeticInit
  PROVE  ArithmeticInv
<1>1. division = NoDivision /\ acc \in Uint128
  BY DEF ArithmeticInit
<1>2. Zero \in Uint128 /\ -1 \in -1..WideBits-1 /\ FALSE \in BOOLEAN
      /\ "DivMod" \in {"DivMod", "SignedDivMod"}
  BY Constant, Widths
<1>3. NoDivision \in DivisionRecord /\ NoDivision.busy = FALSE
  BY ONLY <1>2, Zenon DEF DivisionRecord, NoDivision
<1> QED BY <1>1, <1>3 DEF ArithmeticInv, DividesWhat

(***************************************************************************)
(* The beginning of a division keeps the invariant.                        *)
(***************************************************************************)
LEMMA BeginKeeps ==
  ASSUME ArithmeticInv, NEW op \in {"DivMod", "SignedDivMod"}, NEW y \in Uint128,
         BeginDivision(op, y)
  PROVE  ArithmeticInv'
<1>1. acc \in Uint128 /\ acc' = acc /\ last = Idle /\ last' = last
  BY DEF ArithmeticInv, BeginDivision
<1> DEFINE x == Magnitude(op, acc)
           m == Magnitude(op, y)
           begun == [NoDivision EXCEPT !.busy = TRUE, !.op = op, !.operand = y, !.x = x, !.y = m]
           d == IF m = Zero THEN begun
                ELSE IF HardwareDivision(x, m)
                  THEN [begun EXCEPT !.quotient = Uint128From64(Unsigned(x) \div m.Lo),
                                     !.remainder = Uint128From64(Unsigned(x) % m.Lo)]
                ELSE [begun EXCEPT !.i = WideLen(x) - 1]
<1>2. division' = d
  BY Zenon DEF BeginDivision
<1>3. d \in DivisionRecord /\ DividesWhat(d, acc)
  BY ONLY <1>1, op \in {"DivMod", "SignedDivMod"}, y \in Uint128, DivisionBegins, ZenonT(60)
<1> HIDE DEF d
<1>4. division' \in DivisionRecord /\ DividesWhat(division', acc)
  BY <1>2, <1>3
<1> QED BY <1>1, <1>4 DEF ArithmeticInv, DividesWhat

(***************************************************************************)
(* A step of the long division keeps it.                                   *)
(***************************************************************************)
LEMMA StepKeeps ==
  ASSUME ArithmeticInv, DivisionStep
  PROVE  ArithmeticInv'
<1>1. /\ acc \in Uint128 /\ acc' = acc /\ last' = last /\ division.busy /\ last = Idle
      /\ division \in DivisionRecord /\ DividesWhat(division, acc) /\ division.i >= 0
  BY DEF ArithmeticInv, DivisionStep
<1> DEFINE d == division
           shifted == Lsh(d.remainder, 1)
           next == [shifted EXCEPT !.Lo = LaneOr(@, Rsh(d.x, d.i).Lo % 2)]
           e == [d EXCEPT !.i = @ - 1,
                          !.remainder = IF Fits(next, d.y) THEN Sub(next, d.y) ELSE next,
                          !.quotient = IF Fits(next, d.y) THEN Or(@, Lsh(One, d.i)) ELSE @]
<1>2. division' = e
  BY Zenon DEF DivisionStep
<1>3. e \in DivisionRecord /\ DividesWhat(e, acc)
  BY ONLY <1>1, DivisionGoesOn
<1> HIDE DEF e
<1>4. division' \in DivisionRecord /\ DividesWhat(division', acc)
  BY <1>2, <1>3
<1> QED BY <1>1, <1>4 DEF ArithmeticInv, DividesWhat

(***************************************************************************)
(* The end of a division, which gives the accumulator a pair, keeps it.    *)
(***************************************************************************)
LEMMA EndKeeps ==
  ASSUME ArithmeticInv, EndDivision
  PROVE  ArithmeticInv'
<1>1. division.quotient \in Uint128
  BY DEF ArithmeticInv, DivisionRecord
<1>2. Neg(division.quotient) \in Uint128
  BY <1>1, PairsOfPairs
<1>3. acc' \in Uint128
  BY <1>1, <1>2 DEF EndDivision
<1>4. division' = NoDivision
  BY DEF EndDivision
<1>5. Zero \in Uint128 /\ -1 \in -1..WideBits-1 /\ FALSE \in BOOLEAN
      /\ "DivMod" \in {"DivMod", "SignedDivMod"}
  BY Constant, Widths
<1>6. NoDivision \in DivisionRecord /\ NoDivision.busy = FALSE
  BY ONLY <1>5, Zenon DEF DivisionRecord, NoDivision
<1> QED BY <1>3, <1>4, <1>6 DEF ArithmeticInv, DividesWhat

(***************************************************************************)
(* Every step keeps the invariant.                                         *)
(***************************************************************************)
LEMMA ArithmeticKeeps ==
  ASSUME ArithmeticInv, [ArithmeticNext]_arithmeticVars
  PROVE  ArithmeticInv'
<1>0. acc \in Uint128
  BY DEF ArithmeticInv
<1>1. ASSUME NEW op, NEW operand, NEW pair \in Uint128, Computes(op, operand, pair)
      PROVE  ArithmeticInv'
  <2>1. Called(op, operand, 0) /\ acc' \in Uint128
    BY <1>1 DEF Computes
  <2> QED BY <2>1, CallKeeps
<1>2. ASSUME NEW op, NEW operand, NEW answer, Answers(op, operand, answer)
      PROVE  ArithmeticInv'
  <2>1. Called(op, operand, answer) /\ acc' \in Uint128
    BY <1>0, <1>2 DEF Answers
  <2> QED BY <2>1, CallKeeps
<1>3. ASSUME NEW y \in Uint128,
             \/ Computes("Add", Unsigned(y), Add(acc, y))
             \/ Computes("Sub", Unsigned(y), Sub(acc, y))
             \/ Computes("Mul", Unsigned(y), Mul(acc, y))
             \/ Computes("And", Unsigned(y), And(acc, y))
             \/ Computes("Or", Unsigned(y), Or(acc, y))
             \/ Computes("Xor", Unsigned(y), Xor(acc, y))
      PROVE  ArithmeticInv'
  BY <1>0, <1>1, <1>3, PairsOfPairs
<1>4. ASSUME Computes("Neg", 0, Neg(acc)) \/ Computes("Not", 0, Not(acc))
      PROVE  ArithmeticInv'
  BY <1>0, <1>1, <1>4, PairsOfPairs
<1>5. ASSUME NEW n \in 0..WideBits+1,
             \/ Computes("Lsh", n, Lsh(acc, n))
             \/ Computes("Rsh", n, Rsh(acc, n))
             \/ Computes("SignedRsh", n, SignedRsh(acc, n))
      PROVE  ArithmeticInv'
  <2>1. n \in Nat
    BY Widths
  <2> QED BY <1>0, <1>1, <1>5, <2>1, PairsOfNumbers
<1>6. ASSUME NEW n \in Lane,
             \/ Computes("Uint128From64", n, Uint128From64(n))
             \/ Computes("Int128From64", n, Int128From64(int64(n)))
      PROVE  ArithmeticInv'
  BY <1>1, <1>6, PairsOfNumbers
<1>7. CASE Take
  BY <1>7 DEF Take, ArithmeticInv, DividesWhat
<1>8. CASE UNCHANGED arithmeticVars
  BY <1>8 DEF arithmeticVars, ArithmeticInv, DividesWhat
<1>9. CASE ArithmeticNext
  BY <1>2, <1>3, <1>4, <1>5, <1>6, <1>7, <1>9, BeginKeeps, StepKeeps, EndKeeps
     DEF ArithmeticNext
<1> QED BY <1>8, <1>9

(***************************************************************************)
(* The invariant holds in every behaviour of a caller.                     *)
(***************************************************************************)
THEOREM ArithmeticInvariant == ArithmeticSpec => []ArithmeticInv
BY ArithmeticStarts, ArithmeticKeeps, PTL DEF ArithmeticSpec

(***************************************************************************)
(* The values are pairs of lanes.                                          *)
(***************************************************************************)
THEOREM PairsOfLanes == ArithmeticSpec => []TypeOK
<1>1. ArithmeticInv => TypeOK
  BY DEF ArithmeticInv, DivisionRecord, TypeOK
<1> QED BY <1>1, ArithmeticInvariant, PTL

(***************************************************************************)
(* The digits of the quotient found so far are right, and no bit of the    *)
(* remainder is shifted out (DivMod).                                      *)
(***************************************************************************)
THEOREM LongDivision == ArithmeticSpec => []DivisionSoFar
<1>1. ArithmeticInv => DivisionSoFar
  <2> SUFFICES ASSUME ArithmeticInv, division.busy, division.y # Zero
               PROVE  DivisionSoFar
    BY DEF DivisionSoFar
  <2>1. DigitsFound(division)
    BY DEF ArithmeticInv, DividesWhat
  <2>2. 2^(WideBits - 1) = WideHalf
    BY WideWidths
  <2> QED BY <2>1, <2>2 DEF DigitsFound, Digits, DivisionSoFar
<1> QED BY <1>1, ArithmeticInvariant, PTL

-----------------------------------------------------------------------------
(***************************************************************************)
(* The refinement: the pair implements the native integer.  The bits of a  *)
(* pair are those of its lanes.                                            *)
(***************************************************************************)
LEMMA PairBits ==
  ASSUME NEW x \in Uint128, NEW i \in 0..WideBits-1
  PROVE  Native!BitOf(Unsigned(x), i)
           = IF i < LaneBits THEN LaneBit(x.Lo, i + 1) ELSE LaneBit(x.Hi, (i - LaneBits) + 1)
<1> DEFINE b == LaneModulus
           hi == x.Hi
           lo == x.Lo
           U == Unsigned(x)
           t == 2^i
<1>1. b \in Nat \ {0} /\ hi \in Int /\ lo \in 0..b-1 /\ U = hi * b + lo
  BY Pairs, Widths DEF Lane
<1>2. i \in Nat /\ LaneBits \in Nat /\ WideBits = LaneBits + LaneBits
  BY Widths DEF WideBits
<1>3. Native!BitOf(U, i) = (U \div t) % 2
  BY DEF Native!BitOf
<1>4. CASE i < LaneBits
  <2> DEFINE k == LaneBits - (i + 1)
             c == 2^k
             d == lo \div t
  <2>1. k \in Nat /\ i + 1 \in Nat /\ (i + 1) + k = LaneBits
    BY <1>2, <1>4
  <2>2. t \in Nat \ {0} /\ c \in Nat \ {0} /\ 2^(i+1) = t + t
    BY <1>2, <2>1, Standing, N!Powers, N!PowerDoubles
  <2>3. b = (t + t) * c
    <3>1. 2^((i + 1) + k) = 2^(i + 1) * 2^k
      BY <2>1, Standing, N!PowerOfSum
    <3> QED BY <2>1, <2>2, <3>1 DEF LaneModulus
  <2>4. LaneBit(lo, i + 1) = d % 2
    <3>1. (i + 1) - 1 = i
      BY <1>2
    <3> QED BY <3>1 DEF LaneBit
  <2> DEFINE m == hi * c
             mm == m * 2
  <2> HIDE DEF b, hi, lo, U, t, c, k
  <2>5. m \in Int /\ mm \in Int /\ lo \in Int /\ hi * b = mm * t
    <3>1. m \in Int
      BY <1>1, <2>2
    <3>2. hi * b = (hi * c) * (t + t)
      BY <1>1, <2>2, <2>3
    <3> HIDE DEF m
    <3>3. m * (t + t) = (m * 2) * t
      BY <2>2, <3>1
    <3> QED BY <1>1, <3>1, <3>2, <3>3 DEF m
  <2>6. U = mm * t + lo
    BY <1>1, <2>5
  <2> HIDE DEF mm
  <2>7. (mm * t + lo) \div t = mm + (lo \div t)
    BY <2>2, <2>5, Shift
  <2>8. d \in Int
    BY <2>2, <2>5, Division
  <2> HIDE DEF d, m
  <2>9. (m * 2 + d) % 2 = d % 2
    BY <2>5, <2>8, Shift
  <2>10. U \div t = m * 2 + d
    BY <2>6, <2>7 DEF mm, d
  <2> QED BY <1>3, <1>4, <2>4, <2>9, <2>10 DEF U, lo
<1>5. CASE ~(i < LaneBits)
  <2> DEFINE k == i - LaneBits
             c == 2^k
  <2>1. k \in Nat /\ LaneBits + k = i
    BY <1>2, <1>5
  <2>2. c \in Nat \ {0} /\ t = b * c
    <3>1. 2^(LaneBits + k) = 2^LaneBits * 2^k
      BY <1>2, <2>1, Standing, N!PowerOfSum
    <3> QED BY <2>1, <3>1, Standing, N!Powers DEF LaneModulus
  <2>3. LaneBit(hi, k + 1) = (hi \div c) % 2
    <3>1. (k + 1) - 1 = k
      BY <2>1
    <3> QED BY <3>1 DEF LaneBit
  <2> HIDE DEF b, hi, lo, U, t, c
  <2>4. U \div b = hi /\ U \in Int
    <3>1. U \div b = hi
      BY ONLY <1>1, Unique
    <3>2. U \in Int
      BY <1>1
    <3> QED BY <3>1, <3>2
  <2>5. U \div (b * c) = (U \div b) \div c
    BY <1>1, <2>2, <2>4, DivTwice
  <2> QED BY <1>3, <1>5, <2>2, <2>3, <2>4, <2>5 DEF U, hi
<1> QED BY <1>4, <1>5

(***************************************************************************)
(* The numbers of the native integer are those of a pair.                  *)
(***************************************************************************)
LEMMA NativeNumbers ==
  /\ Native!Bits = WideBits /\ Native!Modulus = WideModulus
  /\ Native!Numbers = 0..WideModulus-1 /\ Native!Narrow = Lane
  /\ \A x \in Uint128 : Unsigned(x) \in Native!Numbers
                        /\ Native!SignedOf(Unsigned(x)) = Signed(x)
<1>1. Native!Bits = WideBits
  BY DEF Native!Bits, WideBits
<1>2. Native!Modulus = WideModulus
  BY <1>1, WideWidths DEF Native!Modulus
<1>3. Native!Numbers = 0..WideModulus-1 /\ Native!Narrow = Lane
  BY <1>2 DEF Native!Numbers, Native!Narrow, Lane, LaneModulus
<1>4. WideModulus \div 2 = WideHalf
  <2> DEFINE w == WideModulus
             h == WideHalf
  <2>1. w = h * 2 + 0 /\ h \in Int /\ 0 \in 0..1 /\ 2 \in Nat \ {0}
    BY WideWidths
  <2> HIDE DEF w, h
  <2>2. w \div 2 = h
    BY <2>1, Unique
  <2> QED BY <2>2 DEF w, h
<1>5. ASSUME NEW x \in Uint128
      PROVE  Unsigned(x) \in Native!Numbers /\ Native!SignedOf(Unsigned(x)) = Signed(x)
  BY <1>2, <1>3, <1>4, Pairs, SignedIs DEF Native!SignedOf
<1> QED BY <1>1, <1>2, <1>3, <1>5

(***************************************************************************)
(* A call of the caller's is a call of the native integer's.               *)
(***************************************************************************)
LEMMA NativeCalls ==
  ASSUME NEW op, NEW operand, NEW answer, Called(op, operand, answer)
  PROVE  Native!Called(op, operand, answer) /\ last = Native!Idle
         /\ (op # "none" => last' # Native!Idle)
<1>1. last = Idle /\ Idle = Native!Idle /\ last' = [op |-> op, operand |-> operand, answer |-> answer]
  BY DEF Called, Idle, Native!Idle
<1>2. ASSUME last' = Native!Idle PROVE op = "none"
  <2>1. last'.op = op /\ Native!Idle.op = "none"
    BY <1>1 DEF Native!Idle
  <2> QED BY <1>2, <2>1
<1> QED BY <1>1, <1>2 DEF Native!Called

(***************************************************************************)
(* What gives the pattern of a number computes that number.                *)
(***************************************************************************)
LEMMA NativeComputes ==
  ASSUME NEW op, NEW operand, NEW n \in Int, Computes(op, operand, uint128(n))
  PROVE  Native!Computes(op, operand, n)
<1>1. Called(op, operand, 0) /\ acc' = uint128(n)
  BY DEF Computes
<1>2. Unsigned(acc)' = n % Native!Modulus
  BY <1>1, Patterns, NativeNumbers DEF Unsigned
<1> QED BY <1>1, <1>2, NativeCalls DEF Native!Computes

(***************************************************************************)
(* And what leaves the pair alone leaves the number.                       *)
(***************************************************************************)
LEMMA NativeAnswers ==
  ASSUME NEW op, NEW operand, NEW answer, Answers(op, operand, answer)
  PROVE  Native!Answers(op, operand, answer)
BY NativeCalls DEF Answers, Native!Answers

(***************************************************************************)
(* One operation of the native integer is a step of it: it leaves an       *)
(* answer.                                                                 *)
(***************************************************************************)
LEMMA NativeSteps ==
  ASSUME NEW op, op # "none", NEW operand, NEW answer, Called(op, operand, answer),
         Native!Operation
  PROVE  Native!Next
BY NativeCalls DEF Native!Next

(***************************************************************************)
(* Sums, differences and products, wrapped.                                *)
(***************************************************************************)
LEMMA NativeArithmetic ==
  ASSUME acc \in Uint128, NEW y \in Uint128,
         \/ Computes("Add", Unsigned(y), Add(acc, y))
         \/ Computes("Sub", Unsigned(y), Sub(acc, y))
         \/ Computes("Mul", Unsigned(y), Mul(acc, y))
  PROVE  Native!Next
<1> DEFINE U == Unsigned(acc)
           m == Unsigned(y)
<1>1. U \in Int /\ m \in Int /\ m \in Native!Numbers
  BY Pairs, NativeNumbers
<1>2. /\ Add(acc, y) = uint128(U + m) /\ Sub(acc, y) = uint128(U - m)
      /\ Mul(acc, y) = uint128(U * m)
  BY AddIs, SubIs, MulIs
<1>3. U + m \in Int /\ U - m \in Int /\ U * m \in Int
  BY <1>1
<1>4. CASE Computes("Add", m, Add(acc, y))
  <2>1. Native!Computes("Add", m, U + m)
    BY <1>2, <1>3, <1>4, NativeComputes
  <2>2. Native!Operation
    BY <1>1, <2>1 DEF Native!Operation
  <2> QED BY <1>4, <2>2, NativeSteps DEF Computes
<1>5. CASE Computes("Sub", m, Sub(acc, y))
  <2>1. Native!Computes("Sub", m, U - m)
    BY <1>2, <1>3, <1>5, NativeComputes
  <2>2. Native!Operation
    BY <1>1, <2>1 DEF Native!Operation
  <2> QED BY <1>5, <2>2, NativeSteps DEF Computes
<1>6. CASE Computes("Mul", m, Mul(acc, y))
  <2>1. Native!Computes("Mul", m, U * m)
    BY <1>2, <1>3, <1>6, NativeComputes
  <2>2. Native!Operation
    BY <1>1, <2>1 DEF Native!Operation
  <2> QED BY <1>6, <2>2, NativeSteps DEF Computes
<1> QED BY <1>4, <1>5, <1>6

(***************************************************************************)
(* The opposite, and the complement.                                       *)
(***************************************************************************)
LEMMA NativeUnary ==
  ASSUME acc \in Uint128, Computes("Neg", 0, Neg(acc)) \/ Computes("Not", 0, Not(acc))
  PROVE  Native!Next
<1> DEFINE U == Unsigned(acc)
<1>1. -U \in Int /\ -U - 1 \in Int
  <2>1. U \in Int
    BY Pairs
  <2> QED BY <2>1
<1>2. Neg(acc) = uint128(-U) /\ Not(acc) = uint128(-U - 1)
  BY NegIs, NotIs
<1>3. CASE Computes("Neg", 0, Neg(acc))
  <2>1. Native!Computes("Neg", 0, -U)
    BY <1>1, <1>2, <1>3, NativeComputes
  <2>2. Native!Operation
    BY <2>1 DEF Native!Operation
  <2> QED BY <1>3, <2>2, NativeSteps DEF Computes
<1>4. CASE Computes("Not", 0, Not(acc))
  <2>1. Native!Computes("Not", 0, -U - 1)
    BY <1>1, <1>2, <1>4, NativeComputes
  <2>2. Native!Operation
    BY <2>1 DEF Native!Operation
  <2> QED BY <1>4, <2>2, NativeSteps DEF Computes
<1> QED BY <1>3, <1>4

(***************************************************************************)
(* Shifts, by any number of bits.                                          *)
(***************************************************************************)
LEMMA NativeShifts ==
  ASSUME acc \in Uint128, NEW n \in 0..WideBits+1,
         \/ Computes("Lsh", n, Lsh(acc, n))
         \/ Computes("Rsh", n, Rsh(acc, n))
         \/ Computes("SignedRsh", n, SignedRsh(acc, n))
  PROVE  Native!Next
<1> DEFINE U == Unsigned(acc)
           S == Signed(acc)
           t == 2^n
<1>1. n \in Nat /\ n \in 0..Native!Bits+1
  BY Widths, NativeNumbers
<1>2. t \in Nat \ {0} /\ U \in 0..WideModulus-1 /\ U \in Int /\ S \in Int
  <2>1. S \in Int128
    BY SignedIs
  <2> QED BY <1>1, <2>1, Standing, N!Powers, Pairs, WideWidths
<1>3. Native!SignedOf(U) = S
  BY NativeNumbers
<1>4. Lsh(acc, n) = uint128(U * t) /\ SignedRsh(acc, n) = uint128(S \div t)
  BY <1>1, LshIs, SignedRshIs
<1>5. Rsh(acc, n) = uint128(U \div t)
  <2>1. Rsh(acc, n) \in Uint128 /\ Unsigned(Rsh(acc, n)) = U \div t
    BY <1>1, RshIs
  <2> QED BY <2>1, PatternOf
<1>6. U * t \in Int /\ U \div t \in Int /\ S \div t \in Int
  BY <1>2
<1>7. CASE Computes("Lsh", n, Lsh(acc, n))
  <2>1. Native!Computes("Lsh", n, U * t)
    BY <1>4, <1>6, <1>7, NativeComputes
  <2>2. Native!Operation
    BY <1>1, <2>1 DEF Native!Operation
  <2> QED BY <1>7, <2>2, NativeSteps DEF Computes
<1>8. CASE Computes("Rsh", n, Rsh(acc, n))
  <2>1. Native!Computes("Rsh", n, U \div t)
    BY <1>5, <1>6, <1>8, NativeComputes
  <2>2. Native!Operation
    BY <1>1, <2>1 DEF Native!Operation
  <2> QED BY <1>8, <2>2, NativeSteps DEF Computes
<1>9. CASE Computes("SignedRsh", n, SignedRsh(acc, n))
  <2>1. Native!Computes("SignedRsh", n, Native!SignedOf(U) \div t)
    <3>1. Native!Computes("SignedRsh", n, S \div t)
      BY <1>4, <1>6, <1>9, NativeComputes
    <3> QED BY <1>3, <3>1, Zenon
  <2>2. Native!Operation
    BY <1>1, <2>1 DEF Native!Operation
  <2> QED BY <1>9, <2>2, NativeSteps DEF Computes
<1> QED BY <1>7, <1>8, <1>9

(***************************************************************************)
(* A lane widened, without its sign or with it.                            *)
(***************************************************************************)
LEMMA NativeWidens ==
  ASSUME NEW n \in Lane,
         \/ Computes("Uint128From64", n, Uint128From64(n))
         \/ Computes("Int128From64", n, Int128From64(int64(n)))
  PROVE  Native!Next
<1>1. n \in Native!Narrow /\ n \in Int
  BY NativeNumbers, Widths DEF Lane
<1>2. CASE Computes("Uint128From64", n, Uint128From64(n))
  <2>1. Native!Computes("Uint128From64", n, n)
    BY <1>1, <1>2, FromLane, NativeComputes
  <2>2. Native!Operation
    BY <1>1, <2>1 DEF Native!Operation
  <2> QED BY <1>2, <2>2, NativeSteps DEF Computes
<1>3. CASE Computes("Int128From64", n, Int128From64(int64(n)))
  <2> DEFINE s == IF n < 2^(LaneBits-1) THEN n ELSE n - 2^LaneBits
  <2>1. int64(n) = s /\ int64(n) \in Int64
    BY SignedLane DEF Half, LaneModulus
  <2>2. Int128From64(int64(n)) = uint128(int64(n)) /\ int64(n) \in Int
    BY <2>1, Int128From64Is
  <2>3. Native!Computes("Int128From64", n, int64(n))
    BY <1>3, <2>2, NativeComputes
  <2>4. Native!Computes("Int128From64", n, s)
    BY <2>1, <2>3, Zenon
  <2>5. Native!Operation
    BY <1>1, <2>4 DEF Native!Operation
  <2> QED BY <1>3, <2>5, NativeSteps DEF Computes
<1> QED BY <1>2, <1>3

(***************************************************************************)
(* What two lanes do bit by bit the pair does.                             *)
(***************************************************************************)
LEMMA LaneByLane ==
  ASSUME NEW x \in Uint128, NEW y \in Uint128, NEW z \in Uint128, NEW f,
         \A i \in 1..LaneBits : LaneBit(z.Lo, i) = f[LaneBit(x.Lo, i) + LaneBit(y.Lo, i)],
         \A i \in 1..LaneBits : LaneBit(z.Hi, i) = f[LaneBit(x.Hi, i) + LaneBit(y.Hi, i)],
         NEW i \in 0..WideBits-1
  PROVE  Native!BitOf(Unsigned(z), i)
           = f[Native!BitOf(Unsigned(x), i) + Native!BitOf(Unsigned(y), i)]
<1>1. i \in Nat /\ LaneBits \in Nat /\ WideBits = LaneBits + LaneBits /\ i < WideBits
  BY Widths DEF WideBits
<1>2. CASE i < LaneBits
  <2>1. i + 1 \in 1..LaneBits
    BY <1>1, <1>2
  <2>2. /\ Native!BitOf(Unsigned(x), i) = LaneBit(x.Lo, i + 1)
        /\ Native!BitOf(Unsigned(y), i) = LaneBit(y.Lo, i + 1)
        /\ Native!BitOf(Unsigned(z), i) = LaneBit(z.Lo, i + 1)
    BY <1>2, PairBits
  <2> QED BY <2>1, <2>2
<1>3. CASE ~(i < LaneBits)
  <2>1. (i - LaneBits) + 1 \in 1..LaneBits
    BY <1>1, <1>3
  <2>2. /\ Native!BitOf(Unsigned(x), i) = LaneBit(x.Hi, (i - LaneBits) + 1)
        /\ Native!BitOf(Unsigned(y), i) = LaneBit(y.Hi, (i - LaneBits) + 1)
        /\ Native!BitOf(Unsigned(z), i) = LaneBit(z.Hi, (i - LaneBits) + 1)
    BY <1>3, PairBits
  <2> QED BY <2>1, <2>2
<1> QED BY <1>2, <1>3

(***************************************************************************)
(* The operations on single bits, as tables of how many are set.           *)
(***************************************************************************)
AndTable == [set \in 0..2 |-> set \div 2]
OrTable == [set \in 0..2 |-> (set + 1) \div 2]
XorTable == [set \in 0..2 |-> set % 2]

(***************************************************************************)
(* A bit of two lanes together is what the table says.                     *)
(***************************************************************************)
LEMMA BitTables ==
  ASSUME NEW a \in Lane, NEW c \in Lane, NEW i \in 1..LaneBits
  PROVE  /\ LaneBit(LaneAnd(a, c), i) = AndTable[LaneBit(a, i) + LaneBit(c, i)]
         /\ LaneBit(LaneOr(a, c), i) = OrTable[LaneBit(a, i) + LaneBit(c, i)]
         /\ LaneBit(LaneXor(a, c), i) = XorTable[LaneBit(a, i) + LaneBit(c, i)]
<1> DEFINE m == LaneBit(a, i)
           n == LaneBit(c, i)
<1>1. m \in {0, 1} /\ n \in {0, 1}
  BY BitsOfLane
<1>2. /\ LaneBit(LaneAnd(a, c), i) = m * n
      /\ LaneBit(LaneOr(a, c), i) = m + n - m * n
      /\ LaneBit(LaneXor(a, c), i) = (m + n) % 2
  BY LaneAndIs, LaneOrIs, LaneXorIs
<1> HIDE DEF m, n
<1>3. m + n \in 0..2
  BY <1>1
<1>4. m * n = (m + n) \div 2 /\ m + n - m * n = ((m + n) + 1) \div 2
  BY <1>1
<1> QED BY <1>2, <1>3, <1>4 DEF m, n, AndTable, OrTable, XorTable

(***************************************************************************)
(* And, or and exclusive or.                                               *)
(***************************************************************************)
LEMMA NativeBits ==
  ASSUME acc \in Uint128, NEW y \in Uint128,
         \/ Computes("And", Unsigned(y), And(acc, y))
         \/ Computes("Or", Unsigned(y), Or(acc, y))
         \/ Computes("Xor", Unsigned(y), Xor(acc, y))
  PROVE  Native!Next
<1> DEFINE m == Unsigned(y)
<1>1. m \in Native!Numbers /\ Native!Bits = WideBits
  BY NativeNumbers
<1>2. acc.Lo \in Lane /\ acc.Hi \in Lane /\ y.Lo \in Lane /\ y.Hi \in Lane
  BY Pairs
<1>3. ASSUME NEW op, NEW z \in Uint128, NEW f, Computes(op, m, z),
             \A i \in 1..LaneBits : LaneBit(z.Lo, i) = f[LaneBit(acc.Lo, i) + LaneBit(y.Lo, i)],
             \A i \in 1..LaneBits : LaneBit(z.Hi, i) = f[LaneBit(acc.Hi, i) + LaneBit(y.Hi, i)]
      PROVE  Native!BitByBit(op, m, f)
  <2>1. Called(op, m, 0) /\ acc' = z
    BY <1>3 DEF Computes
  <2>2. Unsigned(acc)' = Unsigned(z)
    BY <2>1 DEF Unsigned
  <2>3. Unsigned(z) \in Native!Numbers
    BY NativeNumbers
  <2>4. \A i \in 0..Native!Bits-1 :
          Native!BitOf(Unsigned(z), i)
            = f[Native!BitOf(Unsigned(acc), i) + Native!BitOf(m, i)]
    BY <1>1, <1>3, LaneByLane
  <2> QED BY <2>1, <2>2, <2>3, <2>4, NativeCalls DEF Native!BitByBit
<1>4. And(acc, y) \in Uint128 /\ Or(acc, y) \in Uint128 /\ Xor(acc, y) \in Uint128
  BY PairsOfPairs
<1>5. CASE Computes("And", m, And(acc, y))
  <2>1. And(acc, y).Lo = LaneAnd(acc.Lo, y.Lo) /\ And(acc, y).Hi = LaneAnd(acc.Hi, y.Hi)
    BY DEF And
  <2>2. \A i \in 1..LaneBits :
          /\ LaneBit(And(acc, y).Lo, i) = AndTable[LaneBit(acc.Lo, i) + LaneBit(y.Lo, i)]
          /\ LaneBit(And(acc, y).Hi, i) = AndTable[LaneBit(acc.Hi, i) + LaneBit(y.Hi, i)]
    BY <1>2, <2>1, BitTables
  <2>3. Native!BitByBit("And", m, AndTable)
    BY <1>3, <1>4, <1>5, <2>2
  <2>4. Native!Operation
    BY <1>1, <2>3 DEF Native!Operation, AndTable
  <2> QED BY <1>5, <2>4, NativeSteps DEF Computes
<1>6. CASE Computes("Or", m, Or(acc, y))
  <2>1. Or(acc, y).Lo = LaneOr(acc.Lo, y.Lo) /\ Or(acc, y).Hi = LaneOr(acc.Hi, y.Hi)
    BY DEF Or
  <2>2. \A i \in 1..LaneBits :
          /\ LaneBit(Or(acc, y).Lo, i) = OrTable[LaneBit(acc.Lo, i) + LaneBit(y.Lo, i)]
          /\ LaneBit(Or(acc, y).Hi, i) = OrTable[LaneBit(acc.Hi, i) + LaneBit(y.Hi, i)]
    BY <1>2, <2>1, BitTables
  <2>3. Native!BitByBit("Or", m, OrTable)
    BY <1>3, <1>4, <1>6, <2>2
  <2>4. Native!Operation
    BY <1>1, <2>3 DEF Native!Operation, OrTable
  <2> QED BY <1>6, <2>4, NativeSteps DEF Computes
<1>7. CASE Computes("Xor", m, Xor(acc, y))
  <2>1. Xor(acc, y).Lo = LaneXor(acc.Lo, y.Lo) /\ Xor(acc, y).Hi = LaneXor(acc.Hi, y.Hi)
    BY DEF Xor
  <2>2. \A i \in 1..LaneBits :
          /\ LaneBit(Xor(acc, y).Lo, i) = XorTable[LaneBit(acc.Lo, i) + LaneBit(y.Lo, i)]
          /\ LaneBit(Xor(acc, y).Hi, i) = XorTable[LaneBit(acc.Hi, i) + LaneBit(y.Hi, i)]
    BY <1>2, <2>1, BitTables
  <2>3. Native!BitByBit("Xor", m, XorTable)
    BY <1>3, <1>4, <1>7, <2>2
  <2>4. Native!Operation
    BY <1>1, <2>3 DEF Native!Operation, XorTable
  <2> QED BY <1>7, <2>4, NativeSteps DEF Computes
<1> QED BY <1>5, <1>6, <1>7

(***************************************************************************)
(* What the caller asks of a pair: order, length, sign and low lane.       *)
(***************************************************************************)
LEMMA NativeQuestions ==
  ASSUME acc \in Uint128, NEW y \in Uint128,
         \/ Answers("Cmp", Unsigned(y), Cmp(acc, y))
         \/ Answers("SignedCmp", Unsigned(y), SignedCmp(acc, y))
         \/ Answers("Uint64", 0, acc.Lo)
         \/ Answers("IsNegative", 0, IF IsNegative(acc) THEN 1 ELSE 0)
         \/ Answers("Len", 0, WideLen(acc))
  PROVE  Native!Next
<1> DEFINE U == Unsigned(acc)
           m == Unsigned(y)
           S == Native!SignedOf(U)
           sm == Native!SignedOf(m)
<1>1. m \in Native!Numbers /\ U \in Int /\ m \in Int
  BY NativeNumbers, Pairs
<1>2. S = Signed(acc) /\ sm = Signed(y) /\ S \in Int /\ sm \in Int
  <2>1. S = Signed(acc) /\ sm = Signed(y)
    BY NativeNumbers
  <2>2. Signed(acc) \in Int128 /\ Signed(y) \in Int128
    BY SignedIs
  <2> QED BY <2>1, <2>2, WideWidths
<1>3. ASSUME NEW a \in Int, NEW c \in Int PROVE Order(a, c) = Native!Sign(a - c)
  BY DEF Order, Native!Sign
<1>4. CASE Answers("Cmp", m, Cmp(acc, y))
  <2>1. Cmp(acc, y) = Native!Sign(U - m)
    BY <1>1, <1>3, CmpIs
  <2>2. Native!Answers("Cmp", m, Native!Sign(U - m))
    BY <1>4, <2>1, NativeAnswers
  <2>3. Native!Operation
    BY <1>1, <2>2 DEF Native!Operation
  <2> QED BY <1>4, <2>3, NativeSteps DEF Answers
<1>5. CASE Answers("SignedCmp", m, SignedCmp(acc, y))
  <2>1. SignedCmp(acc, y) = Native!Sign(S - sm)
    <3>1. SignedCmp(acc, y) = Order(S, sm)
      BY <1>2, CmpIs
    <3> HIDE DEF S, sm
    <3> QED BY <3>1, <1>2, <1>3
  <2>2. Native!Answers("SignedCmp", m, Native!Sign(S - sm))
    BY <1>5, <2>1, NativeAnswers
  <2>3. Native!Operation
    BY <1>1, <2>2 DEF Native!Operation
  <2> QED BY <1>5, <2>3, NativeSteps DEF Answers
<1>6. CASE Answers("Uint64", 0, acc.Lo)
  <2> DEFINE b == LaneModulus
             lo == acc.Lo
             hi == acc.Hi
  <2>1. b \in Nat \ {0} /\ lo \in 0..b-1 /\ hi \in Int /\ U = hi * b + lo
    BY Pairs, Widths DEF Lane
  <2>2. U % b = lo
    <3> HIDE DEF U, b, lo, hi
    <3> QED BY ONLY <2>1, Unique
  <2>3. Native!Answers("Uint64", 0, U % 2^LaneBits)
    BY <1>6, <2>2, NativeAnswers DEF LaneModulus
  <2>4. Native!Operation
    BY <2>3 DEF Native!Operation
  <2> QED BY <1>6, <2>4, NativeSteps DEF Answers
<1>7. CASE Answers("IsNegative", 0, IF IsNegative(acc) THEN 1 ELSE 0)
  <2>1. IsNegative(acc) <=> S < 0
    BY <1>2, IsNegativeIs
  <2>2. (IF IsNegative(acc) THEN 1 ELSE 0) = IF S < 0 THEN 1 ELSE 0
    BY <2>1
  <2>3. Native!Answers("IsNegative", 0, IF S < 0 THEN 1 ELSE 0)
    BY <1>7, <2>2, NativeAnswers
  <2>4. Native!Operation
    BY <2>3 DEF Native!Operation
  <2> QED BY <1>7, <2>4, NativeSteps DEF Answers
<1>8. CASE Answers("Len", 0, WideLen(acc))
  <2> DEFINE n == WideLen(acc)
  <2>1. n \in 0..Native!Bits /\ U < 2^n /\ (n > 0 => 2^(n-1) <= U)
    BY WideLenIs, NativeNumbers DEF IsLength
  <2>2. Native!Answers("Len", 0, n)
    BY <1>8, NativeAnswers
  <2> HIDE DEF n
  <2>3. Native!Operation
    BY <2>1, <2>2 DEF Native!Operation
  <2> QED BY <1>8, <2>3, NativeSteps DEF Answers
<1> QED BY <1>4, <1>5, <1>6, <1>7, <1>8

-----------------------------------------------------------------------------
(***************************************************************************)
(* The numbers a division is of: of pairs with their signs, or without.    *)
(***************************************************************************)
Value(op, x) == IF op = "SignedDivMod" THEN Signed(x) ELSE Unsigned(x)

(***************************************************************************)
(* The magnitude of a pair is that of its number, the minimum's included.  *)
(***************************************************************************)
LEMMA MagnitudeIs ==
  ASSUME NEW op \in {"DivMod", "SignedDivMod"}, NEW x \in Uint128
  PROVE  /\ Value(op, x) \in Int
         /\ Value(op, x) < 0 <=> op = "SignedDivMod" /\ IsNegative(x)
         /\ Magnitude(op, x) \in Uint128
         /\ Unsigned(Magnitude(op, x)) = Native!Magnitude(Value(op, x))
         /\ Magnitude(op, x) = Zero <=> Value(op, x) = 0
<1> DEFINE U == Unsigned(x)
           S == Signed(x)
           V == Value(op, x)
           w == WideModulus
<1>1. U \in 0..w-1 /\ w \in Nat \ {0} /\ WideHalf \in Nat /\ w = WideHalf + WideHalf /\ U \in Int
  BY Pairs, WideWidths
<1>2. S = (IF U < WideHalf THEN U ELSE U - w) /\ (IsNegative(x) <=> S < 0)
  BY SignedIs, IsNegativeIs
<1>3. V = IF op = "SignedDivMod" THEN S ELSE U
  BY DEF Value
<1>4. Magnitude(op, x) \in Uint128
  BY MagnitudePair
<1>5. Neg(x) = uint128(-U)
  BY NegIs
<1>6. Magnitude(op, x) = IF op = "SignedDivMod" /\ IsNegative(x) THEN Neg(x) ELSE x
  BY DEF Magnitude
<1> HIDE DEF U, S, V, w
<1>7. V \in Int /\ (V < 0 <=> op = "SignedDivMod" /\ IsNegative(x))
  BY <1>1, <1>2, <1>3
<1>8. Unsigned(Magnitude(op, x)) = IF V < 0 THEN -V ELSE V
  <2>1. CASE V < 0
    <3>1. Magnitude(op, x) = uint128(-U) /\ V = U - w /\ WideHalf <= U
      BY <1>1, <1>2, <1>3, <1>5, <1>6, <1>7, <2>1
    <3> DEFINE n == -U
               e == n + w
    <3>2. n \in -w..-1
      BY <1>1, <1>2, <1>3, <1>7, <2>1, <3>1
    <3>3. n % w = e /\ n \in Int
      BY <1>1, <3>2, Below
    <3>4. Unsigned(uint128(n)) = n % w
      BY <3>3, Patterns DEF w
    <3>5. e = -V
      BY <3>1, <1>1
    <3> QED BY <2>1, <3>1, <3>3, <3>4, <3>5
  <2>2. CASE ~(V < 0)
    <3>1. Magnitude(op, x) = x
      BY <1>6, <1>7, <2>2
    <3>2. V = U
      BY <1>1, <1>2, <1>3, <1>7, <2>2
    <3> QED BY <2>2, <3>1, <3>2 DEF U
  <2> QED BY <2>1, <2>2
<1>9. Unsigned(Magnitude(op, x)) = Native!Magnitude(V)
  BY <1>8 DEF Native!Magnitude
<1>10. Magnitude(op, x) = Zero <=> V = 0
  <2>1. Magnitude(op, x) = Zero <=> Unsigned(Magnitude(op, x)) = 0
    BY <1>4, OneLane
  <2> QED BY <2>1, <1>7, <1>8
<1> QED BY <1>4, <1>7, <1>9, <1>10 DEF V

(***************************************************************************)
(* The opposite of zero is zero.                                           *)
(***************************************************************************)
LEMMA MinusZero == \A k \in Int : k = 0 => -k = 0
<1>1. ASSUME NEW k \in Int, k <= 0, 0 <= k PROVE -k = 0
  BY <1>1
<1>2. \A k \in Int : k = 0 => k <= 0 /\ 0 <= k
  OBVIOUS
<1> QED BY <1>1, <1>2, Zenon

(***************************************************************************)
(* A quotient and a remainder of magnitudes, given their signs, are those  *)
(* of a division that truncates.                                           *)
(***************************************************************************)
LEMMA Truncates ==
  ASSUME NEW n \in Int, NEW m \in Int, NEW q \in Nat, NEW r \in Nat,
         m = 0 => q = 0 /\ r = 0,
         m # 0 => /\ Native!Magnitude(n) = q * Native!Magnitude(m) + r
                  /\ r < Native!Magnitude(m)
  PROVE  /\ Native!Quotient(n, m) = IF (n < 0) # (m < 0) THEN -q ELSE q
         /\ Native!Remainder(n, m) = IF m = 0 THEN 0 ELSE IF n < 0 THEN -r ELSE r
<1> DEFINE x == Native!Magnitude(n)
           y == Native!Magnitude(m)
           s == Native!Quotient(n, m)
<1>1. x = (IF n < 0 THEN -n ELSE n) /\ y = (IF m < 0 THEN -m ELSE m)
  BY DEF Native!Magnitude
<1>2. CASE m = 0
  <2>1. s = 0 /\ Native!Remainder(n, m) = 0
    BY <1>2 DEF Native!Quotient, Native!Remainder
  <2>2. q \in Int
    OBVIOUS
  <2>3. q = 0 /\ -q = 0
    BY <1>2, <2>2, MinusZero, Zenon
  <2> HIDE DEF s
  <2> QED BY <1>2, <2>1, <2>3, Zenon DEF s
<1>3. CASE m # 0
  <2>1. x = q * y + r /\ r < y
    BY <1>3
  <2>2. s = (IF (n < 0) = (m < 0) THEN x \div y ELSE -(x \div y))
    BY <1>3 DEF Native!Quotient
  <2>3. Native!Remainder(n, m) = n - m * s
    BY <1>3 DEF Native!Remainder
  <2> HIDE DEF x, y, s
  <2>4. y \in Nat \ {0} /\ q \in Int /\ r \in 0..y-1
    BY <1>1, <1>3, <2>1
  <2>5. x \div y = q
    BY ONLY <2>1, <2>4, Unique
  <2>6. s = IF (n < 0) # (m < 0) THEN -q ELSE q
    BY <2>2, <2>5
  <2> DEFINE p == q * y
  <2>7. p \in Int /\ x = p + r /\ (-q) * y = -p
    BY <2>1, <2>4
  <2>8. m * s = IF n < 0 THEN -p ELSE p
    <3>1. CASE n < 0 /\ m < 0
      <4>1. m * s = -(q * y)
        BY <1>1, <2>4, <2>6, <3>1
      <4> QED BY <3>1, <4>1
    <3>2. CASE n < 0 /\ ~(m < 0)
      <4>1. m * s = -(q * y)
        BY <1>1, <2>4, <2>6, <3>2
      <4> QED BY <3>2, <4>1
    <3>3. CASE ~(n < 0) /\ m < 0
      <4>1. m * s = q * y
        BY <1>1, <2>4, <2>6, <3>3
      <4> QED BY <3>3, <4>1
    <3>4. CASE ~(n < 0) /\ ~(m < 0)
      <4>1. m * s = q * y
        BY <1>1, <2>4, <2>6, <3>4
      <4> QED BY <3>4, <4>1
    <3> QED BY <3>1, <3>2, <3>3, <3>4
  <2> DEFINE e == m * s
  <2>9. e = (IF n < 0 THEN -p ELSE p) /\ Native!Remainder(n, m) = n - e
    BY <2>3, <2>8
  <2> HIDE DEF p, e
  <2>10. Native!Remainder(n, m) = IF n < 0 THEN -r ELSE r
    BY <1>1, <2>7, <2>9
  <2> QED BY <1>3, <2>6, <2>10 DEF s
<1> QED BY <1>2, <1>3

(***************************************************************************)
(* A pair with its sign changed, or not, is the pattern of its number with *)
(* the sign changed, or not.                                               *)
(***************************************************************************)
LEMMA Flipped ==
  ASSUME NEW z \in Uint128, NEW flip \in BOOLEAN, NEW n, n = IF flip THEN -Unsigned(z) ELSE Unsigned(z)
  PROVE  (IF flip THEN Neg(z) ELSE z) = uint128(n) /\ n \in Int
<1>1. Unsigned(z) \in Int
  BY Pairs
<1>2. n \in Int
  BY <1>1
<1>3. CASE flip
  BY <1>2, <1>3, NegIs
<1>4. CASE ~flip
  BY <1>2, <1>4, PatternOf
<1> QED BY <1>2, <1>3, <1>4

(***************************************************************************)
(* The end of a division: quotient and remainder of the numbers divided,   *)
(* with the signs of truncation, and zeros for a division by zero.         *)
(***************************************************************************)
LEMMA NativeDivision ==
  ASSUME ArithmeticInv, EndDivision
  PROVE  Native!Next
<1> DEFINE d == division
           op == d.op
           q == d.quotient
           r == d.remainder
           n == Value(op, acc)
           m == Value(op, d.operand)
           Q == Unsigned(q)
           R == Unsigned(r)
           negative(z) == op = "SignedDivMod" /\ IsNegative(z)
<1>1. /\ d.busy /\ d.i < 0 /\ last = Idle /\ acc \in Uint128 /\ d \in DivisionRecord
      /\ DividesWhat(d, acc)
  BY DEF ArithmeticInv, EndDivision
<1>2. /\ op \in {"DivMod", "SignedDivMod"} /\ q \in Uint128 /\ r \in Uint128
      /\ d.x \in Uint128 /\ d.y \in Uint128 /\ d.operand \in Uint128 /\ d.i \in -1..WideBits-1
  BY <1>1 DEF DivisionRecord
<1>3. d.i = -1
  BY <1>1, <1>2, Widths
<1>4. /\ d.x = Magnitude(op, acc) /\ d.y = Magnitude(op, d.operand)
      /\ d.y = Zero => q = Zero /\ r = Zero
      /\ d.y # Zero => DigitsFound(d)
  BY <1>1 DEF DividesWhat
<1>5. /\ n \in Int /\ (n < 0 <=> negative(acc)) /\ Unsigned(d.x) = Native!Magnitude(n)
      /\ m \in Int /\ (m < 0 <=> negative(d.operand)) /\ Unsigned(d.y) = Native!Magnitude(m)
      /\ (d.y = Zero <=> m = 0)
  BY <1>1, <1>2, <1>4, MagnitudeIs
<1>6. Q \in Nat /\ R \in Nat /\ Unsigned(d.x) \in Nat
  BY <1>2, Pairs
<1>7. m = 0 => Q = 0 /\ R = 0
  BY <1>4, <1>5, Constant
<1>8. m # 0 => Native!Magnitude(n) = Q * Native!Magnitude(m) + R /\ R < Native!Magnitude(m)
  <2> SUFFICES ASSUME m # 0
               PROVE  Native!Magnitude(n) = Q * Native!Magnitude(m) + R /\ R < Native!Magnitude(m)
    OBVIOUS
  <2>1. Digits(Unsigned(d.x), Q, Unsigned(d.y), R, 2^(d.i+1))
    BY <1>4, <1>5 DEF DigitsFound
  <2>2. 2^(d.i+1) = 1
    <3>1. d.i + 1 = 0
      BY <1>3
    <3> QED BY <3>1, Standing, N!Powers, Zenon
  <2>3. Unsigned(d.x) \div 1 = Unsigned(d.x) /\ Q \div 1 = Q
    BY <1>6
  <2> QED BY <1>5, <2>1, <2>2, <2>3 DEF Digits
<1> DEFINE flip == (n < 0) # (m < 0)
           quotient == IF flip THEN -Q ELSE Q
           remainder == IF n < 0 THEN -R ELSE R
<1> HIDE DEF n, m, Q, R
<1>9. /\ Native!Quotient(n, m) = quotient
      /\ Native!Remainder(n, m) = IF m = 0 THEN 0 ELSE remainder
  <2>1. n \in Int /\ m \in Int
    BY <1>5
  <2> QED BY ONLY <2>1, <1>6, <1>7, <1>8, Truncates
<1>10. m = 0 => remainder = 0
  <2>1. R \in Int
    BY <1>6
  <2>2. m = 0 => -R = 0
    BY <1>7, <2>1, MinusZero, Zenon
  <2> QED BY <1>7, <2>2, Zenon
<1>11. Native!Remainder(n, m) = remainder
  BY <1>9, <1>10
<1>12. /\ (IF flip THEN Neg(q) ELSE q) = uint128(quotient) /\ quotient \in Int
       /\ (IF n < 0 THEN Neg(r) ELSE r) = uint128(remainder) /\ remainder \in Int
  <2>1. flip \in BOOLEAN /\ (n < 0) \in BOOLEAN
    OBVIOUS
  <2> QED BY <1>2, <2>1, Flipped DEF Q, R
<1>13. /\ acc' = (IF flip THEN Neg(q) ELSE q)
       /\ last' = [op |-> op, operand |-> Unsigned(d.operand),
                   answer |-> Unsigned(IF n < 0 THEN Neg(r) ELSE r)]
  BY <1>5 DEF EndDivision
<1> DEFINE answer == Native!Remainder(n, m) % Native!Modulus
           operand == Unsigned(d.operand)
<1>14. last' = [op |-> op, operand |-> operand, answer |-> answer]
  <2>1. Unsigned(uint128(remainder)) = remainder % WideModulus
    BY <1>12, Patterns
  <2> QED BY <1>11, <1>12, <1>13, <2>1, NativeNumbers
<1>15. Unsigned(acc)' = Native!Quotient(n, m) % Native!Modulus
  <2>1. acc' = uint128(quotient)
    BY <1>12, <1>13
  <2>2. Unsigned(acc)' = quotient % WideModulus
    BY <1>12, <2>1, Patterns DEF Unsigned
  <2> QED BY <1>9, <2>2, NativeNumbers
<1> HIDE DEF answer
<1>16. Native!Divides(op, operand, n, m)
  <2>1. last = Native!Idle
    BY <1>1 DEF Idle, Native!Idle
  <2>2. Native!Called(op, operand, answer)
    BY <1>14, <2>1 DEF Native!Called
  <2> QED BY <1>15, <2>2 DEF Native!Divides, answer
<1>17. operand \in Native!Numbers /\ Native!SignedOf(Unsigned(acc)) = Signed(acc)
       /\ Native!SignedOf(operand) = Signed(d.operand)
  BY <1>1, <1>2, NativeNumbers
<1>18. Native!Operation
  <2>1. CASE op = "DivMod"
    <3>1. n = Unsigned(acc) /\ m = operand
      BY <2>1 DEF n, m, Value
    <3>2. Native!Divides("DivMod", operand, Unsigned(acc), operand)
      BY <1>16, <2>1, <3>1
    <3> HIDE DEF operand
    <3> QED BY <1>17, <3>2 DEF Native!Operation
  <2>2. CASE op = "SignedDivMod"
    <3>1. n = Native!SignedOf(Unsigned(acc)) /\ m = Native!SignedOf(operand)
      BY <1>17, <2>2 DEF n, m, Value
    <3>2. Native!Divides("SignedDivMod", operand, Native!SignedOf(Unsigned(acc)),
                         Native!SignedOf(operand))
      BY <1>16, <2>2, <3>1
    <3> HIDE DEF operand
    <3> QED BY <1>17, <3>2 DEF Native!Operation
  <2> QED BY <1>2, <2>1, <2>2
<1>19. last = Native!Idle /\ last' # Native!Idle
  <2>1. last'.op = op /\ Native!Idle.op = "none" /\ op # "none"
    BY <1>2, <1>14 DEF Native!Idle
  <2> QED BY <1>1, <2>1 DEF Idle, Native!Idle
<1> QED BY <1>18, <1>19 DEF Native!Next

(***************************************************************************)
(* Every step of the pair is one of the native integer, or none: the steps *)
(* of a division before its end change neither number nor answer.          *)
(***************************************************************************)
LEMMA NativeStep ==
  ASSUME ArithmeticInv, [ArithmeticNext]_arithmeticVars
  PROVE  [Native!Next]_<<Unsigned(acc), last>>
<1>0. acc \in Uint128
  BY DEF ArithmeticInv
<1>1. CASE UNCHANGED <<acc, last>>
  BY <1>1 DEF Unsigned
<1>2. CASE UNCHANGED arithmeticVars
  BY <1>1, <1>2 DEF arithmeticVars
<1>3. ASSUME NEW y \in Uint128, NEW op, BeginDivision(op, y)
      PROVE  UNCHANGED <<acc, last>>
  BY <1>3 DEF BeginDivision
<1>4. CASE DivisionStep
  BY <1>1, <1>4 DEF DivisionStep
<1>5. CASE Take
  <2>1. last # Native!Idle /\ last' = Native!Idle /\ acc' = acc
    BY <1>5 DEF Take, Idle, Native!Idle
  <2>2. Native!Take
    BY <2>1 DEF Native!Take, Unsigned
  <2> QED BY <2>2 DEF Native!Next
<1>6. CASE ArithmeticNext
  BY <1>0, <1>1, <1>3, <1>4, <1>5, <1>6, NativeArithmetic, NativeBits, NativeQuestions,
     NativeUnary, NativeShifts, NativeWidens, NativeDivision, Constant
     DEF ArithmeticNext
<1> QED BY <1>2, <1>6

(***************************************************************************)
(* Any sequence of operations on the pairs of lanes is one on native       *)
(* integers of the whole width, with the same answers.                     *)
(***************************************************************************)
THEOREM TwoLanesAreNative == ArithmeticSpec => ImplementsNative
<1>1. ArithmeticInit => Native!Init
  <2> SUFFICES ASSUME ArithmeticInit PROVE Native!Init
    OBVIOUS
  <2>1. acc \in Uint128 /\ last = Idle
    BY DEF ArithmeticInit
  <2> QED BY <2>1, NativeNumbers DEF Native!Init, Idle, Native!Idle
<1>2. ArithmeticInv /\ [ArithmeticNext]_arithmeticVars => [Native!Next]_<<Unsigned(acc), last>>
  BY NativeStep
<1> QED BY <1>1, <1>2, ArithmeticInvariant, PTL DEF ArithmeticSpec, ImplementsNative, Native!Spec

-----------------------------------------------------------------------------
(***************************************************************************)
(* Ranged and fixed point values.  In one lane and in two the pattern of a *)
(* sum, a difference or a product may be taken before or after.            *)
(***************************************************************************)
LEMMA LaneWraps ==
  ASSUME NEW a \in Int, NEW c \in Int
  PROVE  /\ uint64(uint64(a) + uint64(c)) = uint64(a + c)
         /\ uint64(a + uint64(c)) = uint64(a + c)
         /\ uint64(uint64(a) - uint64(c)) = uint64(a - c)
         /\ uint64(uint64(a) * c) = uint64(a * c)
<1> DEFINE w == LaneModulus
           q == a \div w
           r == a % w
           s == c \div w
           t == c % w
<1>1. w \in Nat \ {0}
  BY Widths
<1>2. q \in Int /\ r \in Int /\ a = q * w + r /\ s \in Int /\ t \in Int /\ c = s * w + t
  <2>1. q \in Int /\ r \in 0..w-1 /\ a = q * w + r
    BY <1>1, Division
  <2>2. s \in Int /\ t \in 0..w-1 /\ c = s * w + t
    BY <1>1, Division
  <2> QED BY <1>1, <2>1, <2>2
<1>3. uint64(a) = r /\ uint64(c) = t
  BY DEF uint64
<1> HIDE DEF q, r, s, t, w
<1>4. q * w \in Int /\ s * w \in Int
  BY <1>1, <1>2
<1>5. a + c = (q + s) * w + (r + t) /\ a + c = s * w + (a + t) /\ a - c = (q - s) * w + (r - t)
  <2>1. (q + s) * w = q * w + s * w /\ (q - s) * w = q * w - s * w
    BY <1>1, <1>2
  <2> DEFINE x == q * w
             y == s * w
  <2>2. (q + s) * w = x + y /\ (q - s) * w = x - y /\ x \in Int /\ y \in Int
        /\ a = x + r /\ c = y + t
    BY <2>1, <1>2, <1>4
  <2> HIDE DEF x, y
  <2> QED BY <2>2, <1>2 DEF y
<1>6. a * c = (q * c) * w + r * c /\ q * c \in Int /\ r * c \in Int
  BY <1>1, <1>2
<1> DEFINE pp == q + s
           mm == q - s
           qq == q * c
           rr == r * c
<1>7. pp \in Int /\ mm \in Int /\ qq \in Int /\ rr \in Int /\ r + t \in Int /\ a + t \in Int
      /\ r - t \in Int
  BY <1>2, <1>6
<1>8. a + c = pp * w + (r + t) /\ a - c = mm * w + (r - t) /\ a * c = qq * w + rr
  BY <1>5, <1>6
<1> HIDE DEF pp, mm, qq, rr
<1> DEFINE rt == r + t
           at == a + t
           dt == r - t
<1>9. rt \in Int /\ at \in Int /\ dt \in Int
  BY <1>7
<1>10. /\ a + c = pp * w + rt /\ a - c = mm * w + dt /\ a * c = qq * w + rr
       /\ a + c = s * w + at
  BY <1>5, <1>8
<1> HIDE DEF rt, at, dt
<1>11. /\ (pp * w + rt) % w = rt % w
       /\ (s * w + at) % w = at % w
       /\ (mm * w + dt) % w = dt % w
       /\ (qq * w + rr) % w = rr % w
  <2>1. \A k \in Int, n \in Int : (k * w + n) % w = n % w
    BY ONLY <1>1, Shift
  <2> QED BY <1>2, <1>7, <1>9, <2>1, Zenon
<1> QED BY <1>3, <1>10, <1>11, Zenon DEF uint64, w, rr, rt, at, dt

(***************************************************************************)
(* The same of pairs.                                                      *)
(***************************************************************************)
LEMMA PairWraps ==
  ASSUME NEW a \in Int, NEW c \in Int
  PROVE  /\ Add(uint128(a), uint128(c)) = uint128(a + c)
         /\ Sub(uint128(a), uint128(c)) = uint128(a - c)
<1> DEFINE w == WideModulus
           q == a \div w
           r == a % w
           s == c \div w
           t == c % w
<1>1. w \in Nat \ {0}
  BY WideWidths
<1>2. q \in Int /\ r \in 0..w-1 /\ a = q * w + r
  BY <1>1, Division
<1>3. s \in Int /\ t \in 0..w-1 /\ c = s * w + t
  BY <1>1, Division
<1>4. /\ uint128(a) \in Uint128 /\ Unsigned(uint128(a)) = r
      /\ uint128(c) \in Uint128 /\ Unsigned(uint128(c)) = t
  BY Patterns
<1>5. Add(uint128(a), uint128(c)) = uint128(r + t) /\ Sub(uint128(a), uint128(c)) = uint128(r - t)
  BY <1>4, AddIs, SubIs
<1> HIDE DEF q, r, s, t, w
<1> DEFINE pp == q + s
           mm == q - s
<1>6. pp \in Int /\ mm \in Int /\ r + t \in Int /\ r - t \in Int
  BY <1>1, <1>2, <1>3
<1>7. a + c = pp * w + (r + t) /\ a - c = mm * w + (r - t)
  <2>1. (q + s) * w = q * w + s * w /\ (q - s) * w = q * w - s * w /\ q * w \in Int /\ s * w \in Int
    BY <1>1, <1>2, <1>3
  <2> DEFINE x == q * w
             y == s * w
  <2>2. pp * w = x + y /\ mm * w = x - y /\ x \in Int /\ y \in Int /\ a = x + r /\ c = y + t
        /\ r \in Int /\ t \in Int
    BY <2>1, <1>1, <1>2, <1>3
  <2> HIDE DEF x, y, pp, mm
  <2> QED BY <2>2
<1> HIDE DEF pp, mm
<1>8. uint128(pp * WideModulus + (r + t)) = uint128(r + t)
      /\ uint128(mm * WideModulus + (r - t)) = uint128(r - t)
  BY <1>6, SamePattern
<1> QED BY <1>5, <1>7, <1>8, Zenon DEF w

(***************************************************************************)
(* A shifted pattern is the pattern of the number shifted.                 *)
(***************************************************************************)
LEMMA ShiftedPattern ==
  ASSUME NEW a \in Int, NEW n \in Nat
  PROVE  /\ 2^n \in Nat \ {0}
         /\ LaneLsh(uint64(a), n) = uint64(a * 2^n)
         /\ Lsh(uint128(a), n) = uint128(a * 2^n)
<1> DEFINE p == 2^n
           w == WideModulus
           q == a \div w
           r == a % w
<1>1. p \in Nat \ {0} /\ w \in Nat \ {0}
  BY Standing, N!Powers, WideWidths
<1>2. LaneLsh(uint64(a), n) = uint64(a * p)
  BY <1>1, LaneWraps DEF LaneLsh, uint64
<1>3. Lsh(uint128(a), n) = uint128(r * p)
  BY Patterns, LshIs
<1>4. q \in Int /\ r \in 0..w-1 /\ a = q * w + r
  BY <1>1, Division
<1> HIDE DEF p, w, q, r
<1> DEFINE qp == q * p
           rp == r * p
<1>5. qp \in Int /\ rp \in Int /\ a * p = qp * w + rp
  BY <1>1, <1>4
<1> HIDE DEF qp, rp
<1>6. uint128(qp * WideModulus + rp) = uint128(rp)
  BY <1>5, SamePattern
<1>7. uint128(a * p) = uint128(rp)
  BY <1>5, <1>6, Zenon DEF w
<1> QED BY <1>1, <1>2, <1>3, <1>7 DEF p, rp

(***************************************************************************)
(* A range shorter than the width, anywhere on the ring of patterns: the   *)
(* wrapped distance from its minimum is no more than its span exactly in   *)
(* the range.                                                              *)
(***************************************************************************)
LEMMA Ring ==
  ASSUME NEW w \in Nat \ {0}, NEW lo \in Int, NEW hi \in Int, NEW raw \in Int,
         lo <= hi, hi - lo < w, raw - lo < w, hi - raw < w
  PROVE  /\ (hi - lo) % w = hi - lo
         /\ (raw - lo) % w <= hi - lo <=> raw \in lo..hi
         /\ raw \in lo..hi => (raw - lo) % w = raw - lo
<1> DEFINE d == raw - lo
           s == hi - lo
<1>1. s \in 0..w-1 /\ d \in Int
  OBVIOUS
<1>2. s % w = s
  BY ONLY <1>1, w \in Nat \ {0}, Small
<1>3. CASE lo <= raw
  <2>1. d \in 0..w-1
    BY <1>3
  <2>2. d % w = d
    BY ONLY <2>1, w \in Nat \ {0}, Small
  <2> QED BY <1>2, <1>3, <2>2
<1>4. CASE raw < lo
  <2>1. d \in -w..-1
    BY <1>4
  <2>2. d % w = d + w
    BY ONLY <2>1, w \in Nat \ {0}, Below
  <2> QED BY <1>2, <1>4, <2>2
<1> QED BY <1>3, <1>4

Kinds == {"int", "int128", "fixed64", "fixed128", "zigzag"}

(***************************************************************************)
(* What a declaration is made of.                                          *)
(***************************************************************************)
LEMMA DeclarationParts ==
  ASSUME NEW d \in Declarations
  PROVE  /\ d.kind \in Kinds
         /\ d.integerBits \in Int /\ d.fractionBits \in Int /\ d.min \in Int /\ d.max \in Int
         /\ d.kind \in {"int", "fixed64", "fixed128"} => d.min \in Int64 /\ d.max \in Int64
         /\ d.kind = "int128" => d.min \in Int128 /\ d.max \in Int128
         /\ d.kind \in {"int", "int128", "zigzag"} => d.fractionBits = 0
         /\ d.kind = "zigzag" => d.min = 0 /\ d.max = 0
<1>0. Int64 \subseteq Int /\ Int128 \subseteq Int /\ Bounds \subseteq Int128
      /\ IntegerBits \subseteq Int /\ FractionBits \subseteq Int /\ 0 \in Int
  BY Widths, WideWidths, BoundsAssumption DEF Int64
<1>1. ASSUME NEW kind \in Kinds, NEW bounds, bounds \subseteq Int, NEW a \in bounds, NEW c \in bounds,
             d = [kind |-> kind, integerBits |-> 0, fractionBits |-> 0, min |-> a, max |-> c]
      PROVE  /\ d.kind = kind /\ d.integerBits \in Int /\ d.fractionBits = 0
             /\ d.min = a /\ d.max = c /\ d.min \in Int /\ d.max \in Int /\ 0 \in Int
  BY <1>1
<1>2. ASSUME NEW kind \in Kinds, d \in Fixed(kind)
      PROVE  /\ d.kind = kind /\ d.integerBits \in Int /\ d.fractionBits \in Int
             /\ d.min \in Int64 /\ d.max \in Int64
  BY <1>0, <1>2 DEF Fixed
<1>3. CASE d \in Ranged("int", Int64)
  <2>1. d.kind = "int" /\ d.integerBits = 0 /\ d.fractionBits = 0 /\ d.min \in Int64 /\ d.max \in Int64
    BY <1>3 DEF Ranged
  <2> QED BY <1>0, <2>1 DEF Kinds
<1>4. CASE d \in Ranged("int128", Bounds)
  <2>1. d.kind = "int128" /\ d.integerBits = 0 /\ d.fractionBits = 0 /\ d.min \in Bounds /\ d.max \in Bounds
    BY <1>4 DEF Ranged
  <2> QED BY <1>0, <2>1 DEF Kinds
<1>5. CASE d \in Fixed("fixed64")
  <2>1. d.kind = "fixed64"
    BY <1>2, <1>5 DEF Kinds
  <2> QED BY <1>0, <1>2, <1>5, <2>1 DEF Kinds
<1>6. CASE d \in Fixed("fixed128")
  <2>1. d.kind = "fixed128"
    BY <1>2, <1>6 DEF Kinds
  <2> QED BY <1>0, <1>2, <1>6, <2>1 DEF Kinds
<1>7. CASE d \in Ranged("zigzag", {0})
  <2>1. d.kind = "zigzag" /\ d.integerBits = 0 /\ d.fractionBits = 0 /\ d.min = 0 /\ d.max = 0
    BY <1>7 DEF Ranged
  <2> QED BY <1>0, <2>1 DEF Kinds
<1> QED BY <1>3, <1>4, <1>5, <1>6, <1>7 DEF Declarations

(***************************************************************************)
(* The whole units a format holds are what the code's capacity says, at    *)
(* every number of integer bits: below, at and above the width of a lane.  *)
(***************************************************************************)
LEMMA CapacityIs ==
  ASSUME NEW n \in Int, n >= 1, NEW a \in Int64, NEW c \in Int64,
         NEW cap, cap = fixedPointCapacity(n, a < 0)
  PROVE  ~(a < cap.min \/ c > cap.max)
           <=> IF a < 0 THEN a >= -(2^(n-1)) /\ c < 2^(n-1) ELSE c < 2^n
<1> DEFINE h == Half
           w == LaneModulus
           p == 2^(n-1)
           r == 2^n
<1>1. /\ h \in Nat \ {0} /\ w \in Nat \ {0} /\ w = h + h /\ LaneBits \in Nat \ {0}
      /\ Int64 = -h..h-1 /\ Lane = 0..w-1
  BY Widths DEF Int64, Lane
<1>2. p \in Nat \ {0} /\ r \in Nat \ {0} /\ r = p + p
  <2>1. n - 1 \in Nat /\ n \in Nat /\ (n - 1) + 1 = n
    OBVIOUS
  <2> QED BY <2>1, Standing, N!Powers, N!PowerDoubles
<1>3. n >= LaneBits => p >= h
  <2> SUFFICES ASSUME n >= LaneBits PROVE p >= h
    OBVIOUS
  <2>1. LaneBits - 1 \in Nat /\ n - 1 \in Nat /\ LaneBits - 1 <= n - 1
    BY <1>1
  <2>2. 2^(LaneBits - 1) <= 2^(n - 1)
    BY <2>1, Standing, N!PowerOrder
  <2> QED BY <1>1, <1>2, <2>2 DEF Half
<1>4. n <= LaneBits => p <= h
  <2> SUFFICES ASSUME n <= LaneBits PROVE p <= h
    OBVIOUS
  <2>1. LaneBits - 1 \in Nat /\ n - 1 \in Nat /\ n - 1 <= LaneBits - 1
    BY <1>1
  <2>2. 2^(n - 1) <= 2^(LaneBits - 1)
    BY <2>1, Standing, N!PowerOrder
  <2> QED BY <1>1, <1>2, <2>2 DEF Half
<1>5. n >= LaneBits - 1 => r >= h
  <2> SUFFICES ASSUME n >= LaneBits - 1 PROVE r >= h
    OBVIOUS
  <2>1. LaneBits - 1 \in Nat /\ n \in Nat /\ LaneBits - 1 <= n
    BY <1>1
  <2>2. 2^(LaneBits - 1) <= 2^n
    BY <2>1, Standing, N!PowerOrder
  <2> QED BY <1>1, <1>2, <2>2 DEF Half
<1>6. n < LaneBits - 1 => r <= h
  <2> SUFFICES ASSUME n < LaneBits - 1 PROVE r <= h
    OBVIOUS
  <2>1. LaneBits - 1 \in Nat /\ n \in Nat /\ n <= LaneBits - 1
    BY <1>1
  <2>2. 2^n <= 2^(LaneBits - 1)
    BY <2>1, Standing, N!PowerOrder
  <2> QED BY <1>1, <1>2, <2>2 DEF Half
<1>7. 2^(LaneBits - 1) = h
  BY DEF Half
<1> HIDE DEF h, w, p, r
<1>8. a \in Int /\ c \in Int /\ -h <= a /\ c < h
  BY <1>1
<1>9. CASE a < 0 /\ n > LaneBits
  <2>1. cap.min = -h /\ cap.max = h - 1
    BY <1>7, <1>9 DEF fixedPointCapacity
  <2> DEFINE lo == cap.min
             hi == cap.max
  <2>2. lo = -h /\ hi = h - 1
    BY <2>1
  <2> HIDE DEF lo, hi
  <2>3. -h \in Int /\ -p \in Int /\ -p <= -h
    BY <1>1, <1>2, <1>3, <1>9
  <2>4. ~(a < lo \/ c > hi) /\ a >= -p /\ c < p
    BY <1>1, <1>2, <1>8, <2>2, <2>3
  <2> QED BY <1>9, <2>4 DEF p, lo, hi
<1>10. CASE a < 0 /\ ~(n > LaneBits)
  <2> DEFINE half == uint64(p)
  <2>1. cap.min = int64(uint64(-half)) /\ cap.max = IF n >= LaneBits THEN h - 1 ELSE half - 1
    BY <1>7, <1>10 DEF fixedPointCapacity, p
  <2>2. half = p
    <3>1. p \in Lane /\ p \in Int
      BY <1>1, <1>2, <1>4, <1>10
    <3> QED BY <3>1, LanePattern
  <2>3. -p \in Int64 /\ -p \in Int
    BY <1>1, <1>2, <1>4, <1>10
  <2>4. int64(uint64(-p)) = -p
    BY <2>3, LanePattern
  <2>5. cap.min = -p /\ cap.max = p - 1
    <3>1. n >= LaneBits => p = h
      BY <1>1, <1>2, <1>3, <1>4, <1>10
    <3> HIDE DEF half
    <3> QED BY <2>1, <2>2, <2>4, <3>1
  <2> DEFINE lo == cap.min
             hi == cap.max
  <2>6. lo = -p /\ hi = p - 1
    BY <2>5
  <2> HIDE DEF lo, hi
  <2>7. -p \in Int
    BY <1>2
  <2>8. ~(a < lo \/ c > hi) <=> a >= -p /\ c < p
    BY <1>2, <1>8, <2>6, <2>7
  <2> QED BY <1>10, <2>8 DEF p, lo, hi
<1>11. CASE ~(a < 0) /\ n >= LaneBits - 1
  <2>1. cap.min = 0 /\ cap.max = h - 1
    BY <1>7, <1>11 DEF fixedPointCapacity
  <2> QED BY <1>1, <1>2, <1>5, <1>8, <1>11, <2>1 DEF r
<1>12. CASE ~(a < 0) /\ ~(n >= LaneBits - 1)
  <2>1. cap.min = 0 /\ cap.max = int64(uint64(r) - 1)
    BY <1>12 DEF fixedPointCapacity, r
  <2>2. r <= h
    BY <1>1, <1>6, <1>12
  <2>3. uint64(r) = r
    <3>1. r \in Lane /\ r \in Int
      BY <1>1, <1>2, <2>2
    <3> QED BY <3>1, LanePattern
  <2>4. int64(r - 1) = r - 1
    <3>1. r - 1 \in Lane /\ r - 1 < h
      BY <1>1, <1>2, <2>2
    <3> QED BY <3>1, SignedLane DEF h
  <2>5. cap.max = r - 1
    BY <2>1, <2>3, <2>4
  <2> QED BY <1>2, <1>8, <1>12, <2>1, <2>5 DEF r
<1> QED BY <1>9, <1>10, <1>11, <1>12

(***************************************************************************)
(* A declaration is refused exactly if it means nothing.                   *)
(***************************************************************************)
LEMMA MisuseIs ==
  ASSUME NEW d \in Declarations, d.kind \in {"fixed64", "fixed128"}, NEW fits \in BOOLEAN
  PROVE  fixedMisuse(d, fits) = None <=> fits /\ d.min <= d.max /\ FormatHolds(d)
<1> DEFINE n == d.integerBits
           a == d.min
           c == d.max
           cap == fixedPointCapacity(n, a < 0)
           beyond == a < cap.min \/ c > cap.max
           bad == n < 1 \/ d.fractionBits < 0 \/ ~fits \/ d.min > d.max
<1>1. n \in Int /\ d.fractionBits \in Int /\ d.min \in Int64 /\ d.max \in Int64
      /\ d.min \in Int /\ d.max \in Int
  BY DeclarationParts
<1>2. fixedMisuse(d, fits) = IF bad THEN "fixed params" ELSE IF beyond THEN "fixed bounds" ELSE None
  BY Zenon DEF fixedMisuse
<1>3. CASE bad
  <2>1. fixedMisuse(d, fits) = "fixed params"
    BY <1>2, <1>3, Zenon
  <2>2. fixedMisuse(d, fits) # None
    BY <2>1 DEF None
  <2>3. ~(fits /\ d.min <= d.max /\ FormatHolds(d))
    BY <1>1, <1>3 DEF FormatHolds
  <2> QED BY <2>2, <2>3
<1>4. CASE ~bad
  <2>1. n >= 1 /\ d.fractionBits >= 0 /\ fits /\ d.min <= d.max
    BY <1>1, <1>4
  <2>2. ~beyond <=> IF a < 0 THEN a >= -(2^(n-1)) /\ c < 2^(n-1) ELSE c < 2^n
    <3>1. cap = fixedPointCapacity(n, a < 0)
      OBVIOUS
    <3>2. n \in Int /\ n >= 1 /\ a \in Int64 /\ c \in Int64
      BY <1>1, <2>1
    <3> HIDE DEF n, a, c, cap
    <3> QED BY <3>1, <3>2, CapacityIs
  <2>3. ~beyond <=> FormatHolds(d)
    BY <2>1, <2>2 DEF FormatHolds
  <2>4. fixedMisuse(d, fits) = None <=> ~beyond
    <3> HIDE DEF bad, beyond
    <3> QED BY <1>2, <1>4 DEF None
  <2> HIDE DEF beyond
  <2> QED BY <2>1, <2>3, <2>4
<1> QED BY <1>3, <1>4

(***************************************************************************)
(* The width of the storage of a value, and the formats that count its     *)
(* pattern rather than its sign.                                           *)
(***************************************************************************)
Ring64Or128(d) == IF IsWide(d) THEN WideModulus ELSE LaneModulus
HalfRing(d) == IF IsWide(d) THEN WideHalf ELSE Half
FixedKinds == {"fixed64", "fixed128"}
CountsPattern(d) == d.kind \in FixedKinds /\ d.min >= 0

(***************************************************************************)
(* The storage of a declaration's values.                                  *)
(***************************************************************************)
LEMMA StorageIs ==
  ASSUME NEW d \in Declarations
  PROVE  /\ HalfRing(d) \in Nat \ {0} /\ Ring64Or128(d) \in Nat \ {0}
         /\ Ring64Or128(d) = HalfRing(d) + HalfRing(d)
         /\ Values(d) = -HalfRing(d)..HalfRing(d)-1
         /\ \A v \in Values(d) :
              Raw(d, v) = IF CountsPattern(d) THEN v % Ring64Or128(d) ELSE v
<1>1. /\ Half \in Nat \ {0} /\ LaneModulus \in Nat \ {0} /\ LaneModulus = Half + Half
      /\ Int64 = -Half..Half-1 /\ 2^LaneBits = LaneModulus
  BY Widths DEF Int64, LaneModulus
<1>2. /\ WideHalf \in Nat \ {0} /\ WideModulus \in Nat \ {0} /\ WideModulus = WideHalf + WideHalf
      /\ Int128 = -WideHalf..WideHalf-1 /\ 2^WideBits = WideModulus
  BY WideWidths
<1>3. CASE IsWide(d)
  <2>1. HalfRing(d) = WideHalf /\ Ring64Or128(d) = WideModulus /\ Values(d) = Int128
    BY <1>3 DEF HalfRing, Ring64Or128, Values
  <2>2. \A v : Raw(d, v) = IF CountsPattern(d) THEN v % 2^WideBits ELSE v
    BY <1>3, Zenon DEF Raw, CountsPattern, FixedKinds
  <2> QED BY <1>2, <2>1, <2>2
<1>4. CASE ~IsWide(d)
  <2>1. HalfRing(d) = Half /\ Ring64Or128(d) = LaneModulus /\ Values(d) = Int64
    BY <1>4 DEF HalfRing, Ring64Or128, Values
  <2>2. \A v : Raw(d, v) = IF CountsPattern(d) THEN v % 2^LaneBits ELSE v
    BY <1>4, Zenon DEF Raw, CountsPattern, FixedKinds
  <2> QED BY <1>1, <2>1, <2>2
<1> QED BY <1>3, <1>4

(***************************************************************************)
(* Whole units times the fraction's unit stay inside the storage.          *)
(***************************************************************************)
LEMMA FormatInside ==
  ASSUME NEW n \in Nat, n >= 1, NEW f \in Nat, NEW m \in Nat, n + f <= m,
         NEW a \in Int, NEW c \in Int, a <= c
  PROVE  \A lo, hi : lo = a * 2^f /\ hi = c * 2^f =>
         /\ lo \in Int /\ hi \in Int /\ lo <= hi
         /\ a >= -(2^(n-1)) /\ c < 2^(n-1) => -(2^(m-1)) <= lo /\ hi < 2^(m-1)
         /\ a >= 0 /\ c < 2^n => 0 <= lo /\ hi < 2^m
<1> SUFFICES ASSUME NEW lo, NEW hi, lo = a * 2^f, hi = c * 2^f
             PROVE  /\ lo \in Int /\ hi \in Int /\ lo <= hi
                    /\ a >= -(2^(n-1)) /\ c < 2^(n-1) => -(2^(m-1)) <= lo /\ hi < 2^(m-1)
                    /\ a >= 0 /\ c < 2^n => 0 <= lo /\ hi < 2^m
  BY Zenon
<1> DEFINE t == 2^f
           p == 2^(n-1)
           r == 2^n
           u == 2^(m-1)
           w == 2^m
<1>1. n - 1 \in Nat /\ m - 1 \in Nat /\ (n - 1) + f \in Nat /\ n + f \in Nat /\ (n - 1) + f <= m - 1
  OBVIOUS
<1>2. t \in Nat \ {0} /\ p \in Nat \ {0} /\ r \in Nat \ {0} /\ u \in Nat \ {0} /\ w \in Nat \ {0}
  BY <1>1, Standing, N!Powers
<1>3. p * t <= u
  <2>1. 2^((n - 1) + f) = p * t
    BY <1>1, Standing, N!PowerOfSum
  <2>2. 2^((n - 1) + f) <= u
    BY <1>1, Standing, N!PowerOrder
  <2> QED BY <2>1, <2>2, Zenon
<1>4. r * t <= w
  <2>1. 2^(n + f) = r * t
    BY <1>1, Standing, N!PowerOfSum
  <2>2. 2^(n + f) <= w
    BY <1>1, Standing, N!PowerOrder
  <2> QED BY <2>1, <2>2, Zenon
<1>5. lo = a * t /\ hi = c * t
  OBVIOUS
<1> HIDE DEF t, p, r, u, w
<1>6. lo \in Int /\ hi \in Int /\ lo <= hi
  <2>1. a * t <= c * t
    BY <1>2, Standing, N!Products
  <2>2. a * t \in Int /\ c * t \in Int
    BY <1>2
  <2> QED BY <1>5, <2>1, <2>2
<1>7. ASSUME a >= -p, c < p PROVE -u <= lo /\ hi < u
  <2>1. -p \in Int /\ p - 1 \in Int /\ -p <= a /\ c <= p - 1
    BY <1>2, <1>7
  <2>2. (-p) * t <= a * t /\ c * t <= (p - 1) * t
    <3> DEFINE x == -p
               y == p - 1
    <3>1. x \in Int /\ y \in Int /\ x <= a /\ c <= y
      BY <2>1
    <3> HIDE DEF x, y
    <3>2. x * t <= a * t /\ c * t <= y * t
      BY <1>2, <3>1, Standing, N!Products
    <3> QED BY <3>2 DEF x, y
  <2> DEFINE g == p * t
  <2>3. (-p) * t = -g /\ (p - 1) * t = g - t /\ g \in Int /\ g <= u
    BY <1>2, <1>3
  <2> HIDE DEF g
  <2>4. -g <= lo /\ hi <= g - t
    BY <1>5, <2>2, <2>3
  <2> QED BY <1>2, <1>6, <2>3, <2>4
<1>8. ASSUME a >= 0, c < r PROVE 0 <= lo /\ hi < w
  <2>1. r - 1 \in Int /\ c <= r - 1
    BY <1>2, <1>8
  <2>2. 0 * t <= a * t /\ c * t <= (r - 1) * t
    <3> DEFINE y == r - 1
    <3>1. y \in Int /\ c <= y /\ 0 \in Int /\ 0 <= a
      BY <2>1, <1>8
    <3> HIDE DEF y
    <3>2. 0 * t <= a * t
      BY <1>2, <1>8, Standing, N!Products
    <3>3. c * t <= y * t
      BY <1>2, <3>1, Standing, N!Products
    <3> QED BY <3>2, <3>3 DEF y
  <2> DEFINE g == r * t
  <2>3. 0 * t = 0 /\ (r - 1) * t = g - t /\ g \in Int /\ g <= w
    BY <1>2, <1>4
  <2> HIDE DEF g
  <2>4. 0 <= lo /\ hi <= g - t
    BY <1>5, <2>2, <2>3
  <2> QED BY <1>2, <1>6, <2>3, <2>4
<1> QED BY <1>6, <1>7, <1>8 DEF p, r, u, w

(***************************************************************************)
(* A declaration that means something has its range inside its storage: as *)
(* patterns if no bound of a format is negative, as signed numbers if not. *)
(***************************************************************************)
LEMMA DeclaredRange ==
  ASSUME NEW d \in Declarations, d.kind # "zigzag", WellDeclared(d)
  PROVE  /\ Lowest(d) \in Int /\ Highest(d) \in Int /\ Lowest(d) <= Highest(d)
         /\ CountsPattern(d) => 0 <= Lowest(d) /\ Highest(d) < Ring64Or128(d)
         /\ ~CountsPattern(d) => -HalfRing(d) <= Lowest(d) /\ Highest(d) < HalfRing(d)
<1> DEFINE lo == Lowest(d)
           hi == Highest(d)
           n == d.integerBits
           f == d.fractionBits
           a == d.min
           c == d.max
<1>1. d.kind \in Kinds /\ n \in Int /\ f \in Int /\ a \in Int /\ c \in Int
  BY DeclarationParts
<1>2. lo = a * 2^f /\ hi = c * 2^f /\ a <= c
  BY DEF Lowest, Highest, WellDeclared
<1>3. CASE d.kind \in {"int", "int128"}
  <2>1. f = 0 /\ ~CountsPattern(d)
    BY <1>3, DeclarationParts DEF CountsPattern, FixedKinds
  <2>2. lo = a /\ hi = c
    <3>1. 2^f = 1
      BY <2>1, Standing, N!Powers, Zenon
    <3>2. a * 1 = a /\ c * 1 = c
      BY <1>1
    <3> QED BY <1>2, <3>1, <3>2, Zenon
  <2>3. a \in -HalfRing(d)..HalfRing(d)-1 /\ c \in -HalfRing(d)..HalfRing(d)-1
    <3>1. a \in Values(d) /\ c \in Values(d)
      BY <1>3, DeclarationParts DEF Values, IsWide
    <3> QED BY <3>1, StorageIs
  <2>4. HalfRing(d) \in Nat
    BY StorageIs
  <2> HIDE DEF lo, hi, a, c
  <2>5. -HalfRing(d) <= lo /\ hi < HalfRing(d)
    BY <2>2, <2>3, <2>4
  <2> QED BY <1>1, <1>2, <2>1, <2>2, <2>5 DEF lo, hi
<1>4. CASE d.kind \in FixedKinds
  <2> DEFINE m == IF IsWide(d) THEN WideBits ELSE LaneBits
  <2>1. FormatHolds(d) /\ n + f <= m
    <3>1. FormatHolds(d)
      BY <1>4 DEF FixedKinds, WellDeclared
    <3>2. WideBits \in Int /\ LaneBits \in Int
      BY Widths
    <3>3. CASE d.kind = "fixed64"
      BY <1>1, <3>1, <3>2, <3>3 DEF WellDeclared, IsWide
    <3>4. CASE d.kind = "fixed128"
      BY <1>1, <3>1, <3>2, <3>4 DEF WellDeclared, IsWide
    <3> QED BY <1>4, <3>3, <3>4 DEF FixedKinds
  <2>2. m \in Nat /\ 2^m = Ring64Or128(d) /\ 2^(m-1) = HalfRing(d)
    BY Widths, WideWidths DEF Ring64Or128, HalfRing, Half, LaneModulus
  <2>3. n >= 1 /\ f >= 0
    BY <2>1 DEF FormatHolds
  <2>4. IF a < 0 THEN a >= -(2^(n-1)) /\ c < 2^(n-1) ELSE c < 2^n
    BY <2>1 DEF FormatHolds
  <2>5. n \in Nat /\ f \in Nat
    BY <1>1, <2>3
  <2>6. CountsPattern(d) <=> a >= 0
    BY <1>4 DEF CountsPattern
  <2>7. n + f <= m
    BY <2>1
  <2> HIDE DEF m, n, f, a, c, lo, hi
  <2>8. /\ lo \in Int /\ hi \in Int /\ lo <= hi
        /\ a >= -(2^(n-1)) /\ c < 2^(n-1) => -(2^(m-1)) <= lo /\ hi < 2^(m-1)
        /\ a >= 0 /\ c < 2^n => 0 <= lo /\ hi < 2^m
    <3>1. a \in Int /\ c \in Int /\ a <= c /\ lo = a * 2^f /\ hi = c * 2^f
      BY ONLY <1>1, <1>2 DEF n, f, a, c, lo, hi
    <3>2. n \in Nat /\ n >= 1 /\ f \in Nat /\ m \in Nat /\ n + f <= m
      BY ONLY <2>2, <2>3, <2>5, <2>7
    <3>3. \A x, y : x = a * 2^f /\ y = c * 2^f =>
            /\ x \in Int /\ y \in Int /\ x <= y
            /\ a >= -(2^(n-1)) /\ c < 2^(n-1) => -(2^(m-1)) <= x /\ y < 2^(m-1)
            /\ a >= 0 /\ c < 2^n => 0 <= x /\ y < 2^m
      <4>1. n >= 1 /\ n + f <= m /\ a <= c
        BY ONLY <3>1, <3>2
      <4>2. n \in Nat /\ f \in Nat /\ m \in Nat /\ a \in Int /\ c \in Int
        BY ONLY <3>1, <3>2
      <4> QED BY ONLY <4>1, <4>2, FormatInside, ZenonT(150)
    <3> QED BY ONLY <3>1, <3>3, Zenon
  <2>9. CASE a < 0
    <3>1. ~CountsPattern(d) /\ a >= -(2^(n-1)) /\ c < 2^(n-1)
      BY <1>1, <2>4, <2>6, <2>9
    <3> QED BY <2>2, <2>8, <3>1 DEF lo, hi
  <2>10. CASE ~(a < 0)
    <3>1. CountsPattern(d) /\ a >= 0 /\ c < 2^n
      BY <1>1, <2>4, <2>6, <2>10
    <3> QED BY <2>2, <2>8, <3>1 DEF lo, hi
  <2> QED BY <2>9, <2>10
<1> QED BY <1>1, <1>3, <1>4 DEF Kinds, FixedKinds

-----------------------------------------------------------------------------
(***************************************************************************)
(* The raw numbers the storage of a declaration holds, and the value that  *)
(* holds one.                                                              *)
(***************************************************************************)
Holdable(d, n) == IF CountsPattern(d) THEN 0 <= n /\ n < Ring64Or128(d)
                                      ELSE -HalfRing(d) <= n /\ n < HalfRing(d)
Store(d, n) == IF IsWide(d) THEN Signed(uint128(n)) ELSE int64(uint64(n))

Centred(r, h, w) == IF r < h THEN r ELSE r - w

(***************************************************************************)
(* A signed number and its pattern tell as much.                           *)
(***************************************************************************)
LEMMA SignAndPattern ==
  ASSUME NEW h \in Nat \ {0}, NEW w \in Nat \ {0}, w = h + h, NEW v \in -h..h-1
  PROVE  /\ v % w \in 0..w-1
         /\ v % w = IF v < 0 THEN v + w ELSE v
         /\ (v % w) % w = v % w
         /\ v = Centred(v % w, h, w)
<1>1. CASE v < 0
  <2>1. v \in -w..-1
    BY <1>1
  <2>2. v % w = v + w
    BY ONLY <2>1, w \in Nat \ {0}, Below
  <2>3. v + w \in 0..w-1
    BY <2>1
  <2>4. (v + w) % w = v + w
    <3> DEFINE n == v + w
    <3> HIDE DEF n
    <3>1. n \in 0..w-1
      BY <2>3 DEF n
    <3>2. n % w = n
      BY ONLY <3>1, w \in Nat \ {0}, Small
    <3> QED BY <3>2 DEF n
  <2> DEFINE r == v % w
  <2>5. r = v + w
    BY <2>2
  <2> HIDE DEF r
  <2>6. v = Centred(r, h, w)
    BY <1>1, <2>5 DEF Centred
  <2>7. v % w \in 0..w-1 /\ v % w = IF v < 0 THEN v + w ELSE v
    BY ONLY <1>1, <2>2, <2>3
  <2>8. (v % w) % w = v % w
    BY ONLY <2>2, <2>4, Zenon
  <2> QED BY ONLY <2>6, <2>7, <2>8, Zenon DEF r
<1>2. CASE ~(v < 0)
  <2>1. v \in 0..w-1
    BY <1>2
  <2>2. v % w = v
    BY ONLY <2>1, w \in Nat \ {0}, Small
  <2>3. v = Centred(v, h, w)
    BY <1>2, <2>1 DEF Centred
  <2>4. v % w \in 0..w-1 /\ v % w = IF v < 0 THEN v + w ELSE v
    BY ONLY <1>2, <2>1, <2>2
  <2>5. (v % w) % w = v % w
    BY ONLY <2>2, Zenon
  <2>6. v = Centred(v % w, h, w)
    BY ONLY <2>2, <2>3, Zenon
  <2> QED BY ONLY <2>4, <2>5, <2>6, Zenon
<1> QED BY <1>1, <1>2

(***************************************************************************)
(* What a value counts as is held by its storage, has the value's pattern, *)
(* and is held by that value alone.                                        *)
(***************************************************************************)
LEMMA RawIsHeld ==
  ASSUME NEW d \in Declarations, NEW v \in Values(d)
  PROVE  /\ Raw(d, v) \in Int /\ Holdable(d, Raw(d, v))
         /\ ~IsWide(d) => uint64(Raw(d, v)) = uint64(v)
         /\ IsWide(d) => uint128(Raw(d, v)) = uint128(v)
         /\ Store(d, Raw(d, v)) = v
<1> DEFINE h == HalfRing(d)
           w == Ring64Or128(d)
           raw == Raw(d, v)
<1>1. /\ h \in Nat \ {0} /\ w \in Nat \ {0} /\ w = h + h /\ v \in -h..h-1
      /\ raw = IF CountsPattern(d) THEN v % w ELSE v
  BY StorageIs
<1>2. v % w \in 0..w-1 /\ (v % w) % w = v % w
  <2> HIDE DEF h, w, raw
  <2> QED BY <1>1, SignAndPattern
<1>3. raw \in Int /\ Holdable(d, raw) /\ raw % w = v % w
  <2>1. CASE CountsPattern(d)
    <3>1. raw = v % w
      BY <1>1, <2>1
    <3> HIDE DEF raw
    <3> QED BY <1>1, <1>2, <2>1, <3>1 DEF Holdable
  <2>2. CASE ~CountsPattern(d)
    <3>1. raw = v
      BY <1>1, <2>2
    <3> HIDE DEF raw
    <3> QED BY <1>1, <1>2, <2>2, <3>1 DEF Holdable
  <2> QED BY <2>1, <2>2
<1> HIDE DEF raw
<1>4. CASE ~IsWide(d)
  <2>1. w = LaneModulus /\ v \in Int64
    BY <1>4 DEF Ring64Or128, Values
  <2>2. uint64(raw) = uint64(v)
    BY <1>3, <2>1, Zenon DEF uint64
  <2>3. v \in Int /\ int64(uint64(v)) = v
    <3>1. v \in Int
      BY <1>1
    <3> QED BY <2>1, <3>1, LanePattern
  <2>4. Store(d, raw) = v
    BY <1>4, <2>2, <2>3, Zenon DEF Store
  <2> QED BY <1>3, <1>4, <2>2, <2>4 DEF raw
<1>5. CASE IsWide(d)
  <2>1. w = WideModulus /\ v \in Int128
    BY <1>5 DEF Ring64Or128, Values
  <2>2. v \in Int /\ Signed(uint128(v)) = v
    <3>1. v \in Int
      BY <1>1
    <3> QED BY <2>1, <3>1, SignedPattern
  <2>3. uint128(raw) = uint128(v)
    <3>1. uint128(raw) \in Uint128 /\ Unsigned(uint128(raw)) = raw % w
      BY <1>3, <2>1, Patterns
    <3>2. uint128(v) \in Uint128 /\ Unsigned(uint128(v)) = v % w
      BY <2>1, <2>2, Patterns
    <3> QED BY <1>3, <3>1, <3>2, OnePair
  <2>4. Store(d, raw) = v
    BY <1>5, <2>2, <2>3, Zenon DEF Store
  <2> QED BY <1>3, <1>5, <2>3, <2>4 DEF raw
<1> QED BY <1>4, <1>5

(***************************************************************************)
(* A raw number the storage holds is what its stored value counts as.      *)
(***************************************************************************)
LEMMA StoreHolds ==
  ASSUME NEW d \in Declarations, NEW n \in Int, Holdable(d, n)
  PROVE  Store(d, n) \in Values(d) /\ Raw(d, Store(d, n)) = n
<1> DEFINE h == HalfRing(d)
           w == Ring64Or128(d)
           s == Store(d, n)
<1>1. /\ h \in Nat \ {0} /\ w \in Nat \ {0} /\ w = h + h
      /\ Values(d) = -h..h-1
      /\ \A v \in Values(d) : Raw(d, v) = IF CountsPattern(d) THEN v % w ELSE v
  BY StorageIs
<1>2. s \in Values(d) /\ s % w = n % w
  <2>1. CASE ~IsWide(d)
    <3>1. s = int64(uint64(n)) /\ w = LaneModulus /\ Values(d) = Int64
      BY <2>1 DEF Store, Ring64Or128, Values
    <3>2. uint64(n) \in Lane
      BY LanePattern
    <3>3. int64(uint64(n)) \in Int64 /\ uint64(int64(uint64(n))) = uint64(n)
      BY <3>2, SignedLane
    <3> QED BY <3>1, <3>3, Zenon DEF uint64
  <2>2. CASE IsWide(d)
    <3>1. s = Signed(uint128(n)) /\ w = WideModulus /\ Values(d) = Int128
      BY <2>2 DEF Store, Ring64Or128, Values
    <3>2. uint128(n) \in Uint128 /\ Unsigned(uint128(n)) = n % w
      BY <3>1, Patterns
    <3>3. s \in Int128 /\ uint128(s) = uint128(n)
      BY <3>1, <3>2, SignedIs
    <3>4. s \in Int
      BY <3>3, WideWidths
    <3>5. Unsigned(uint128(s)) = s % w
      BY <3>1, <3>4, Patterns
    <3> QED BY <3>1, <3>2, <3>3, <3>5, Zenon
  <2> QED BY <2>1, <2>2
<1> HIDE DEF h, w, s
<1>3. CASE CountsPattern(d)
  <2>1. n \in 0..w-1
    BY <1>1, <1>3 DEF Holdable, w
  <2>2. n % w = n
    BY <1>1, <2>1, Small
  <2> QED BY <1>1, <1>2, <1>3, <2>2, Zenon DEF s
<1>4. CASE ~CountsPattern(d)
  <2>1. n \in -h..h-1
    BY <1>1, <1>4 DEF Holdable, h
  <2>2. s \in -h..h-1
    BY <1>1, <1>2
  <2>3. s = n
    <3>1. \A v \in -h..h-1 : v = Centred(v % w, h, w)
      BY ONLY <1>1, SignAndPattern
    <3>2. n = Centred(n % w, h, w)
      BY ONLY <2>1, <3>1, Zenon
    <3>3. s = Centred(s % w, h, w)
      BY ONLY <2>2, <3>1, Zenon
    <3> QED BY ONLY <1>2, <3>2, <3>3, Zenon
  <2>4. Raw(d, s) = s
    BY <1>1, <1>2, <1>4, Zenon
  <2> QED BY <1>2, <2>3, <2>4, Zenon DEF s
<1> QED BY <1>3, <1>4

(***************************************************************************)
(* The range of a declaration is shorter than the ring of patterns, and so *)
(* is the way from either end to any number the storage holds.             *)
(***************************************************************************)
LEMMA RangeOnTheRing ==
  ASSUME NEW d \in Declarations, d.kind # "zigzag", WellDeclared(d)
  PROVE  /\ Lowest(d) \in Int /\ Highest(d) \in Int /\ Lowest(d) <= Highest(d)
         /\ Highest(d) - Lowest(d) \in 0..Ring64Or128(d)-1
         /\ \A n \in Lowest(d)..Highest(d) : Holdable(d, n)
         /\ \A n \in Int : Holdable(d, n) =>
              /\ (n - Lowest(d)) % Ring64Or128(d) <= Highest(d) - Lowest(d)
                   <=> n \in Lowest(d)..Highest(d)
              /\ n \in Lowest(d)..Highest(d) =>
                   (n - Lowest(d)) % Ring64Or128(d) = n - Lowest(d)
<1> DEFINE lo == Lowest(d)
           hi == Highest(d)
           h == HalfRing(d)
           w == Ring64Or128(d)
<1>1. h \in Nat \ {0} /\ w \in Nat \ {0} /\ w = h + h
  BY StorageIs
<1>2. /\ lo \in Int /\ hi \in Int /\ lo <= hi
      /\ CountsPattern(d) => 0 <= lo /\ hi < w
      /\ ~CountsPattern(d) => -h <= lo /\ hi < h
  BY DeclaredRange
<1>3. \A n : Holdable(d, n) <=> IF CountsPattern(d) THEN 0 <= n /\ n < w ELSE -h <= n /\ n < h
  BY Zenon DEF Holdable
<1> HIDE DEF lo, hi, h, w
<1>4. hi - lo \in 0..w-1
  <2>1. CASE CountsPattern(d)
    BY ONLY <1>1, <1>2, <2>1
  <2>2. CASE ~CountsPattern(d)
    BY ONLY <1>1, <1>2, <2>2
  <2> QED BY <2>1, <2>2
<1>5. ASSUME NEW n \in lo..hi PROVE Holdable(d, n)
  <2>1. CASE CountsPattern(d)
    <3>1. 0 <= n /\ n < w
      BY ONLY <1>1, <1>2, <2>1, n \in lo..hi
    <3> QED BY <1>3, <2>1, <3>1, Zenon
  <2>2. CASE ~CountsPattern(d)
    <3>1. -h <= n /\ n < h
      BY ONLY <1>1, <1>2, <2>2, n \in lo..hi
    <3> QED BY <1>3, <2>2, <3>1, Zenon
  <2> QED BY <2>1, <2>2
<1>6. ASSUME NEW n \in Int, Holdable(d, n) PROVE n - lo < w /\ hi - n < w
  <2>1. CASE CountsPattern(d)
    <3>1. 0 <= n /\ n < w
      BY <1>3, <1>6, <2>1, Zenon
    <3> QED BY ONLY <1>1, <1>2, <2>1, <3>1, n \in Int
  <2>2. CASE ~CountsPattern(d)
    <3>1. -h <= n /\ n < h
      BY <1>3, <1>6, <2>2, Zenon
    <3> QED BY ONLY <1>1, <1>2, <2>2, <3>1, n \in Int
  <2> QED BY <2>1, <2>2
<1>7. ASSUME NEW n \in Int, Holdable(d, n)
      PROVE  /\ (n - lo) % w <= hi - lo <=> n \in lo..hi
             /\ n \in lo..hi => (n - lo) % w = n - lo
  <2>1. n - lo < w /\ hi - n < w /\ hi - lo < w
    BY <1>1, <1>2, <1>4, <1>6, <1>7
  <2>2. w \in Nat \ {0} /\ lo \in Int /\ hi \in Int /\ n \in Int /\ lo <= hi
    BY ONLY <1>1, <1>2, n \in Int
  <2> QED BY ONLY <2>1, <2>2, Ring, ZenonT(60)
<1> QED BY <1>2, <1>4, <1>5, <1>7 DEF lo, hi, w

(***************************************************************************)
(* The width of a range in a lane, from the patterns of its ends.          *)
(***************************************************************************)
LEMMA LaneWidth ==
  ASSUME NEW lo \in Int, NEW hi \in Int, hi - lo \in 0..LaneModulus-1
  PROVE  /\ uint64(uint64(hi) - uint64(lo)) = hi - lo
         /\ BitsRequired64(uint64(lo), uint64(hi)) \in 0..LaneBits
         /\ IsLength(hi - lo, BitsRequired64(uint64(lo), uint64(hi)))
<1> DEFINE span == hi - lo
           a == uint64(lo)
           c == uint64(hi)
<1>1. span \in Int /\ span \in Lane /\ span \in Nat
  BY DEF Lane
<1>2. uint64(c - a) = uint64(span)
  BY LaneWraps
<1>3. uint64(span) = span
  BY <1>1, LanePattern
<1>4. (c - a) % LaneModulus = span
  BY <1>2, <1>3 DEF uint64
<1>5. CASE a = c
  <2>1. BitsRequired64(a, c) = 0
    BY <1>5 DEF BitsRequired64
  <2>2. c - a = 0
    <3>1. a \in Lane /\ c \in Lane
      BY LanePattern
    <3>2. a \in Int /\ c \in Int
      BY <3>1, Widths DEF Lane
    <3> HIDE DEF a, c
    <3> QED BY <1>5, <3>2
  <2>3. 0 % LaneModulus = 0
    BY Widths
  <2>4. span = 0
    BY <1>4, <2>2, <2>3, Zenon
  <2>5. IsLength(0, 0)
    BY Standing, N!Powers DEF IsLength
  <2> HIDE DEF span, a, c
  <2> QED BY <1>2, <1>3, <2>1, <2>4, <2>5, LaneAssumption DEF span, a, c
<1>6. CASE a # c
  <2>1. BitsRequired64(a, c) = LaneLen(span)
    BY <1>4, <1>6, Zenon DEF BitsRequired64
  <2>2. LaneLen(span) \in 0..LaneBits /\ IsLength(span, LaneLen(span))
    BY <1>1, LaneLenIs
  <2> HIDE DEF span, a, c
  <2> QED BY <1>2, <1>3, <2>1, <2>2, Zenon DEF span, a, c
<1> QED BY <1>5, <1>6

(***************************************************************************)
(* The width of a range in two lanes, from the patterns of its ends.       *)
(***************************************************************************)
LEMMA PairWidth ==
  ASSUME NEW lo \in Int, NEW hi \in Int, hi - lo \in 0..WideModulus-1
  PROVE  /\ Sub(uint128(hi), uint128(lo)) = uint128(hi - lo)
         /\ uint128(hi - lo) \in Uint128 /\ Unsigned(uint128(hi - lo)) = hi - lo
         /\ BitsRequired128(uint128(lo), uint128(hi)) \in 0..WideBits
         /\ IsLength(hi - lo, BitsRequired128(uint128(lo), uint128(hi)))
<1> DEFINE span == hi - lo
           a == uint128(lo)
           c == uint128(hi)
<1>1. Sub(c, a) = uint128(span)
  BY PairWraps
<1>2. uint128(span) \in Uint128 /\ Unsigned(uint128(span)) = span
  BY Fitting
<1>3. CASE a = c
  <2>1. BitsRequired128(a, c) = 0
    BY <1>3 DEF BitsRequired128
  <2>2. Sub(c, a) = uint128(0)
    <3>1. c \in Uint128 /\ Unsigned(c) \in Int
      <4>1. c \in Uint128
        BY Patterns
      <4> HIDE DEF c
      <4>2. Unsigned(c) \in 0..WideModulus-1
        BY <4>1, Pairs
      <4> QED BY <4>1, <4>2
    <3>2. Sub(c, c) = uint128(Unsigned(c) - Unsigned(c))
      BY <3>1, SubIs
    <3>3. Unsigned(c) - Unsigned(c) = 0
      BY <3>1
    <3> QED BY <1>3, <3>2, <3>3, Zenon
  <2>3. Unsigned(uint128(0)) = 0
    BY Constant
  <2>4. span = 0
    BY <1>1, <1>2, <2>2, <2>3, Zenon
  <2>5. IsLength(0, 0) /\ WideBits \in Nat
    BY Standing, N!Powers, Widths DEF IsLength
  <2> HIDE DEF span, a, c
  <2>6. BitsRequired128(a, c) \in 0..WideBits /\ IsLength(span, BitsRequired128(a, c))
    BY <2>1, <2>4, <2>5
  <2> QED BY <1>1, <1>2, <2>6, Zenon DEF span, a, c
<1>4. CASE a # c
  <2>1. BitsRequired128(a, c) = WideLen(uint128(span))
    BY <1>1, <1>4, Zenon DEF BitsRequired128
  <2>2. WideLen(uint128(span)) \in 0..WideBits
        /\ IsLength(Unsigned(uint128(span)), WideLen(uint128(span)))
    BY <1>2, WideLenIs
  <2> HIDE DEF span, a, c
  <2> QED BY <1>1, <1>2, <2>1, <2>2, Zenon DEF span, a, c
<1> QED BY <1>3, <1>4

-----------------------------------------------------------------------------
Span(d) == Highest(d) - Lowest(d)
StorageBits(d) == IF IsWide(d) THEN WideBits ELSE LaneBits
OutOfRange == Refuses("value_out_of_range")

(***************************************************************************)
(* What a field does, in plain numbers: the writer's panics and its group, *)
(* the width, and what a reader makes of any group of that width.          *)
(***************************************************************************)
WritesTheOffset(d) ==
  \A v \in Values(d) :
    IF WellDeclared(d) /\ Raw(d, v) \in Lowest(d)..Highest(d)
      THEN Write(d, v) = Emits(Width(d), Raw(d, v) - Lowest(d))
      ELSE Write(d, v).trap # None
HasTheWidth(d) == WellDeclared(d) => /\ Width(d) \in 0..StorageBits(d)
                                     /\ IsLength(Span(d), Width(d))
ReadsTheOffset(d) ==
  WellDeclared(d) =>
    \A g \in 0..2^Width(d)-1 :
      Read(d, g) = IF g <= Span(d) THEN Returns(Store(d, Lowest(d) + g)) ELSE OutOfRange
FieldOf(d) == /\ Misdeclared(d) <=> ~WellDeclared(d)
              /\ WritesTheOffset(d) /\ HasTheWidth(d) /\ ReadsTheOffset(d)

(***************************************************************************)
(* A group of the width of a range is a pattern of its storage, and the    *)
(* offset of a number in the range if it is not above the span.            *)
(***************************************************************************)
LEMMA GroupFits ==
  ASSUME NEW bits \in Nat, NEW m \in Nat, bits <= m, NEW g \in 0..2^bits-1
  PROVE  g \in 0..2^m-1 /\ g \in Nat
<1>1. 2^bits <= 2^m /\ 2^bits \in Nat /\ 2^m \in Nat
  BY Standing, N!Powers, N!PowerOrder
<1> DEFINE p == 2^bits
           q == 2^m
<1>2. p <= q /\ p \in Nat /\ q \in Nat /\ g \in 0..p-1
  BY <1>1
<1> HIDE DEF p, q
<1>3. g \in 0..q-1 /\ g \in Nat
  BY <1>2
<1> QED BY <1>3 DEF q

(***************************************************************************)
(* The operations are those of the declaration's kind.                     *)
(***************************************************************************)
LEMMA OfKind ==
  ASSUME NEW d \in Declarations
  PROVE  /\ d.kind = "int" =>
              /\ ~IsWide(d) /\ (Misdeclared(d) <=> d.min > d.max)
              /\ Width(d) = BitsRequired64(uint64(d.min), uint64(d.max))
              /\ \A x : Write(d, x) = WriteInt(d, x) /\ Read(d, x) = ReadInt(d, x)
         /\ d.kind = "int128" =>
              /\ IsWide(d) /\ (Misdeclared(d) <=> SignedCmp(uint128(d.min), uint128(d.max)) > 0)
              /\ Width(d) = BitsRequired128(uint128(d.min), uint128(d.max))
              /\ \A x : Write(d, x) = WriteInt128(d, x) /\ Read(d, x) = ReadInt128(d, x)
         /\ d.kind = "fixed64" =>
              /\ ~IsWide(d) /\ (Misdeclared(d) <=> fixedPointParams64(d).misuse # None)
              /\ Width(d) = fixedPointParams64(d).numBits
              /\ \A x : Write(d, x) = WriteFixed64(d, x) /\ Read(d, x) = ReadFixed64(d, x)
         /\ d.kind = "fixed128" =>
              /\ IsWide(d) /\ (Misdeclared(d) <=> fixedPointParams128(d).misuse # None)
              /\ Width(d) = fixedPointParams128(d).numBits
              /\ \A x : Write(d, x) = WriteFixed128(d, x) /\ Read(d, x) = ReadFixed128(d, x)
         /\ d.kind = "zigzag" =>
              /\ ~IsWide(d) /\ ~Misdeclared(d) /\ Width(d) = LaneBits
              /\ \A x : /\ Write(d, x) = Emits(LaneBits, SignedToUnsigned(x))
                        /\ Read(d, x) = Returns(UnsignedToSigned(x))
<1> DEFINE k == d.kind
<1>1. ASSUME k = "int"
      PROVE  /\ ~IsWide(d) /\ (Misdeclared(d) <=> d.min > d.max)
             /\ Width(d) = BitsRequired64(uint64(d.min), uint64(d.max))
             /\ \A x : Write(d, x) = WriteInt(d, x) /\ Read(d, x) = ReadInt(d, x)
  BY <1>1 DEF IsWide, Misdeclared, Width, Write, Read
<1>2. ASSUME k = "int128"
      PROVE  /\ IsWide(d) /\ (Misdeclared(d) <=> SignedCmp(uint128(d.min), uint128(d.max)) > 0)
             /\ Width(d) = BitsRequired128(uint128(d.min), uint128(d.max))
             /\ \A x : Write(d, x) = WriteInt128(d, x) /\ Read(d, x) = ReadInt128(d, x)
  BY <1>2 DEF IsWide, Misdeclared, Width, Write, Read
<1>3. ASSUME k = "fixed64"
      PROVE  /\ ~IsWide(d) /\ (Misdeclared(d) <=> fixedPointParams64(d).misuse # None)
             /\ Width(d) = fixedPointParams64(d).numBits
             /\ \A x : Write(d, x) = WriteFixed64(d, x) /\ Read(d, x) = ReadFixed64(d, x)
  BY <1>3 DEF IsWide, Misdeclared, Width, Write, Read
<1>4. ASSUME k = "fixed128"
      PROVE  /\ IsWide(d) /\ (Misdeclared(d) <=> fixedPointParams128(d).misuse # None)
             /\ Width(d) = fixedPointParams128(d).numBits
             /\ \A x : Write(d, x) = WriteFixed128(d, x) /\ Read(d, x) = ReadFixed128(d, x)
  BY <1>4 DEF IsWide, Misdeclared, Width, Write, Read
<1>5. ASSUME k = "zigzag"
      PROVE  /\ ~IsWide(d) /\ ~Misdeclared(d) /\ Width(d) = LaneBits
             /\ \A x : /\ Write(d, x) = Emits(LaneBits, SignedToUnsigned(x))
                       /\ Read(d, x) = Returns(UnsignedToSigned(x))
  BY <1>5 DEF IsWide, Misdeclared, Width, Write, Read
<1> HIDE DEF k
<1> QED BY <1>1, <1>2, <1>3, <1>4, <1>5, Zenon DEF k

(***************************************************************************)
(* A range with no fraction is its bounds.                                 *)
(***************************************************************************)
LEMMA Unscaled ==
  ASSUME NEW d \in Declarations, d.kind \in {"int", "int128"}
  PROVE  /\ Lowest(d) = d.min /\ Highest(d) = d.max
         /\ WellDeclared(d) <=> d.min <= d.max
         /\ d.min \in Values(d) /\ d.max \in Values(d) /\ d.min \in Int /\ d.max \in Int
         /\ \A v \in Values(d) : Raw(d, v) = v /\ v \in Int
<1>1. d.fractionBits = 0 /\ d.min \in Int /\ d.max \in Int
  BY DeclarationParts
<1>2. d.min \in Values(d) /\ d.max \in Values(d)
  BY DeclarationParts DEF Values, IsWide
<1>3. ~CountsPattern(d)
  BY DEF CountsPattern, FixedKinds
<1>4. Lowest(d) = d.min /\ Highest(d) = d.max
  <2>1. 2^d.fractionBits = 1
    BY <1>1, Standing, N!Powers, Zenon
  <2>2. d.min * 1 = d.min /\ d.max * 1 = d.max
    BY <1>1
  <2> QED BY <2>1, <2>2, Zenon DEF Lowest, Highest
<1>5. WellDeclared(d) <=> d.min <= d.max
  BY DEF WellDeclared
<1>6. ASSUME NEW v \in Values(d) PROVE Raw(d, v) = v /\ v \in Int
  BY <1>3, StorageIs
<1> QED BY <1>1, <1>2, <1>4, <1>5, <1>6

(***************************************************************************)
(* What a reader adds to the minimum in a lane.                            *)
(***************************************************************************)
LEMMA LaneStores ==
  ASSUME NEW d, ~IsWide(d), NEW lo \in Int, NEW g \in Int
  PROVE  /\ int64(uint64(g + uint64(lo))) = Store(d, lo + g)
         /\ int64(uint64(uint64(lo) + g)) = Store(d, lo + g)
<1>1. uint64(g + uint64(lo)) = uint64(g + lo)
  BY LaneWraps
<1>2. g + lo = lo + g
  OBVIOUS
<1>3. g + uint64(lo) = uint64(lo) + g
  <2>1. uint64(lo) \in Int
    BY LanePattern, Widths DEF Lane
  <2> QED BY <2>1
<1>4. Store(d, lo + g) = int64(uint64(lo + g))
  BY DEF Store
<1> QED BY <1>1, <1>2, <1>3, <1>4, Zenon

(***************************************************************************)
(* SerializeInt and SerializeInt64.                                        *)
(***************************************************************************)
LEMMA IntIs ==
  ASSUME NEW d \in Declarations, d.kind = "int"
  PROVE  FieldOf(d)
<1> DEFINE lo == d.min
           hi == d.max
<1>1. /\ Lowest(d) = lo /\ Highest(d) = hi /\ (WellDeclared(d) <=> lo <= hi)
      /\ lo \in Values(d) /\ hi \in Values(d) /\ lo \in Int /\ hi \in Int
      /\ \A v \in Values(d) : Raw(d, v) = v /\ v \in Int
  BY Unscaled
<1>2. /\ ~IsWide(d) /\ (Misdeclared(d) <=> lo > hi)
      /\ Width(d) = BitsRequired64(uint64(lo), uint64(hi))
      /\ \A x : Write(d, x) = WriteInt(d, x) /\ Read(d, x) = ReadInt(d, x)
  BY OfKind
<1>3. Values(d) = Int64 /\ Ring64Or128(d) = LaneModulus /\ StorageBits(d) = LaneBits
  BY <1>2 DEF Values, Ring64Or128, StorageBits
<1>4. Misdeclared(d) <=> ~WellDeclared(d)
  BY <1>1, <1>2
<1>5. ASSUME WellDeclared(d)
      PROVE  /\ hi - lo \in 0..LaneModulus-1
             /\ \A n \in lo..hi : (n - lo) % LaneModulus = n - lo
             /\ uint64(uint64(hi) - uint64(lo)) = hi - lo
             /\ Width(d) \in 0..LaneBits /\ IsLength(hi - lo, Width(d))
  <2>1. hi - lo \in 0..LaneModulus-1
    <3>1. d.kind # "zigzag"
      OBVIOUS
    <3>2. Highest(d) - Lowest(d) \in 0..Ring64Or128(d)-1
      BY <1>5, <3>1, RangeOnTheRing
    <3> QED BY <1>1, <1>3, <3>2, Zenon
  <2>2. ASSUME NEW n \in lo..hi PROVE (n - lo) % LaneModulus = n - lo
    <3> DEFINE w == LaneModulus
    <3>0. w \in Nat \ {0} /\ hi - lo \in 0..w-1 /\ lo \in Int /\ hi \in Int /\ n \in lo..hi
      BY <1>1, <2>1, Widths
    <3> HIDE DEF w, lo, hi
    <3>1. n - lo \in 0..w-1
      BY ONLY <3>0
    <3>2. w \in Nat \ {0}
      BY <3>0
    <3>3. (n - lo) % w = n - lo
      BY ONLY <3>1, <3>2, Small
    <3> QED BY <3>3 DEF w
  <2>3. /\ uint64(uint64(hi) - uint64(lo)) = hi - lo
        /\ BitsRequired64(uint64(lo), uint64(hi)) \in 0..LaneBits
        /\ IsLength(hi - lo, BitsRequired64(uint64(lo), uint64(hi)))
    BY <1>1, <2>1, LaneWidth
  <2> QED BY <1>2, <2>1, <2>2, <2>3
<1>6. WritesTheOffset(d)
  <2> SUFFICES ASSUME NEW v \in Values(d)
               PROVE  IF WellDeclared(d) /\ v \in lo..hi
                        THEN Write(d, v) = Emits(Width(d), v - lo)
                        ELSE Write(d, v).trap # None
    BY <1>1 DEF WritesTheOffset
  <2>1. Write(d, v) = IF lo > hi THEN Panics("min max")
                      ELSE IF v < lo \/ v > hi THEN Panics("value out of range")
                      ELSE Emits(Width(d), uint64(uint64(v) - uint64(lo)))
    <3>1. WriteInt(d, v) = IF lo > hi THEN Panics("min max")
                           ELSE IF v < lo \/ v > hi THEN Panics("value out of range")
                           ELSE Emits(BitsRequired64(uint64(lo), uint64(hi)),
                                      uint64(uint64(v) - uint64(lo)))
      BY Zenon DEF WriteInt
    <3>2. Write(d, v) = WriteInt(d, v)
      BY <1>2
    <3> HIDE DEF lo, hi
    <3> QED BY <1>2, <3>1, <3>2, Zenon
  <2>2. v \in Int
    BY <1>1
  <2>3. CASE WellDeclared(d) /\ v \in lo..hi
    <3>1. uint64(uint64(v) - uint64(lo)) = uint64(v - lo)
      BY <1>1, <2>2, LaneWraps
    <3>2. uint64(v - lo) = v - lo
      BY <1>5, <2>3 DEF uint64
    <3>3. ~(lo > hi) /\ ~(v < lo \/ v > hi)
      BY <1>1, <2>3
    <3> HIDE DEF lo, hi
    <3> QED BY <2>1, <2>3, <3>1, <3>2, <3>3, Zenon
  <2>4. CASE ~(WellDeclared(d) /\ v \in lo..hi)
    <3>1. lo > hi \/ (v < lo \/ v > hi)
      BY <1>1, <2>2, <2>4
    <3>2. Panics("min max").trap # None /\ Panics("value out of range").trap # None
      BY DEF Panics, None
    <3> HIDE DEF lo, hi
    <3> QED BY <2>1, <2>4, <3>1, <3>2, Zenon
  <2> QED BY <2>3, <2>4
<1>7. HasTheWidth(d)
  BY <1>1, <1>3, <1>5 DEF HasTheWidth, Span
<1>8. ReadsTheOffset(d)
  <2> SUFFICES ASSUME WellDeclared(d), NEW g \in 0..2^Width(d)-1
               PROVE  Read(d, g) = IF g <= hi - lo THEN Returns(Store(d, lo + g)) ELSE OutOfRange
    BY <1>1 DEF ReadsTheOffset, Span
  <2>1. uint64(uint64(hi) - uint64(lo)) = hi - lo /\ Width(d) \in Nat /\ hi - lo \in Int
    BY <1>1, <1>5, LaneAssumption
  <2>2. g \in Int
    BY <2>1, Standing, N!Powers
  <2>3. Read(d, g) = IF g > hi - lo THEN OutOfRange ELSE Returns(int64(uint64(g + uint64(lo))))
    BY <1>2, <2>1 DEF ReadInt, OutOfRange
  <2>4. int64(uint64(g + uint64(lo))) = Store(d, lo + g)
    BY <1>1, <1>2, <2>2, LaneStores
  <2>5. g > hi - lo <=> ~(g <= hi - lo)
    BY <2>1, <2>2
  <2> HIDE DEF lo, hi
  <2> QED BY <2>3, <2>4, <2>5, Zenon
<1> QED BY <1>4, <1>6, <1>7, <1>8 DEF FieldOf

(***************************************************************************)
(* Pairs on the wire: the writer leaves a zero high lane behind, the       *)
(* reader puts one back.                                                   *)
(***************************************************************************)
LEMMA PairsOnTheWire ==
  ASSUME NEW bits \in 0..WideBits, NEW g \in 0..2^bits-1
  PROVE  /\ g \in 0..WideModulus-1 /\ g \in Nat
         /\ uint128(g) \in Uint128 /\ Unsigned(uint128(g)) = g
         /\ writeGroups128(uint128(g), bits) = Emits(bits, g)
         /\ readGroups128(g, bits) = uint128(g)
<1>1. bits \in Nat /\ WideBits \in Nat /\ bits <= WideBits /\ LaneBits \in Nat
      /\ 2^WideBits = WideModulus /\ 2^LaneBits = LaneModulus
  BY Widths, WideWidths DEF LaneModulus
<1>2. g \in 0..WideModulus-1 /\ g \in Nat
  <2>1. g \in 0..2^WideBits-1 /\ g \in Nat
    BY <1>1, GroupFits
  <2> QED BY <1>1, <2>1, Zenon
<1>3. uint128(g) \in Uint128 /\ Unsigned(uint128(g)) = g
  BY <1>2, Fitting
<1>4. bits <= LaneBits => g \in Lane
  <2> SUFFICES ASSUME bits <= LaneBits PROVE g \in Lane
    OBVIOUS
  <2>1. g \in 0..2^LaneBits-1
    BY <1>1, GroupFits
  <2> QED BY <1>1, <2>1, Zenon DEF Lane
<1>5. writeGroups128(uint128(g), bits) = Emits(bits, g)
  <2>1. CASE bits <= LaneBits
    <3>1. g < LaneModulus
      BY <1>4, <2>1, Widths DEF Lane
    <3>2. uint128(g).Lo = g
      <4> DEFINE x == uint128(g)
      <4>1. x \in Uint128 /\ Unsigned(x) < LaneModulus
        BY <1>3, <3>1, Zenon
      <4> HIDE DEF x
      <4>2. Unsigned(x) = x.Lo
        BY <4>1, OneLane
      <4> QED BY <1>3, <4>2, Zenon DEF x
    <3> QED BY <2>1, <3>2, Zenon DEF writeGroups128
  <2>2. CASE ~(bits <= LaneBits)
    BY <1>3, <2>2, Zenon DEF writeGroups128
  <2> QED BY <2>1, <2>2
<1>6. readGroups128(g, bits) = uint128(g)
  <2>1. CASE bits <= LaneBits
    <3>1. Uint128From64(g) = uint128(g)
      BY <1>4, <2>1, FromLane
    <3> QED BY <2>1, <3>1, Zenon DEF readGroups128
  <2>2. CASE ~(bits <= LaneBits)
    BY <2>2, Zenon DEF readGroups128
  <2> QED BY <2>1, <2>2
<1> QED BY <1>2, <1>3, <1>5, <1>6

(***************************************************************************)
(* Order says which of two numbers is above the other.                     *)
(***************************************************************************)
LEMMA Orders ==
  ASSUME NEW a \in Int, NEW c \in Int
  PROVE  (Order(a, c) > 0 <=> a > c) /\ (Order(a, c) < 0 <=> a < c)
BY DEF Order

(***************************************************************************)
(* The comparison with the span and the sum with the minimum of a pair.    *)
(***************************************************************************)
LEMMA PairStores ==
  ASSUME NEW d, IsWide(d), NEW lo \in Int, NEW g \in 0..WideModulus-1,
         NEW span \in 0..WideModulus-1
  PROVE  /\ Cmp(uint128(g), uint128(span)) > 0 <=> ~(g <= span)
         /\ Signed(Add(uint128(g), uint128(lo))) = Store(d, lo + g)
         /\ Signed(Add(uint128(lo), uint128(g))) = Store(d, lo + g)
<1>1. g \in Int /\ span \in Int
  OBVIOUS
<1>2. Cmp(uint128(g), uint128(span)) > 0 <=> ~(g <= span)
  <2> DEFINE x == uint128(g)
             y == uint128(span)
  <2>1. x \in Uint128 /\ Unsigned(x) = g /\ y \in Uint128 /\ Unsigned(y) = span
    BY Fitting
  <2> HIDE DEF x, y
  <2>2. Cmp(x, y) = Order(g, span)
    BY <2>1, CmpIs
  <2>3. Order(g, span) > 0 <=> ~(g <= span)
    BY <1>1, Orders
  <2> QED BY <2>2, <2>3, Zenon DEF x, y
<1>3. Add(uint128(g), uint128(lo)) = uint128(lo + g) /\ Add(uint128(lo), uint128(g)) = uint128(lo + g)
  <2>1. Add(uint128(g), uint128(lo)) = uint128(g + lo) /\ Add(uint128(lo), uint128(g)) = uint128(lo + g)
    BY <1>1, PairWraps
  <2>2. g + lo = lo + g
    BY <1>1
  <2> QED BY <2>1, <2>2, Zenon
<1>4. Store(d, lo + g) = Signed(uint128(lo + g))
  BY DEF Store
<1> QED BY <1>2, <1>3, <1>4, Zenon

(***************************************************************************)
(* The order of two signed patterns.                                       *)
(***************************************************************************)
LEMMA SignedOrder ==
  ASSUME NEW a \in Int128, NEW c \in Int128
  PROVE  /\ a \in Int /\ c \in Int
         /\ SignedCmp(uint128(a), uint128(c)) > 0 <=> a > c
         /\ SignedCmp(uint128(a), uint128(c)) < 0 <=> a < c
<1> DEFINE x == uint128(a)
           y == uint128(c)
<1>1. a \in Int /\ c \in Int
  BY WideWidths
<1>2. x \in Uint128 /\ Signed(x) = a /\ y \in Uint128 /\ Signed(y) = c
  BY SignedPattern
<1> HIDE DEF x, y
<1>3. SignedCmp(x, y) = Order(a, c)
  BY <1>2, CmpIs
<1>4. (Order(a, c) > 0 <=> a > c) /\ (Order(a, c) < 0 <=> a < c)
  BY <1>1, Orders
<1> QED BY <1>1, <1>3, <1>4, Zenon DEF x, y

(***************************************************************************)
(* Offsets in a range of pairs have the width of the range.                *)
(***************************************************************************)
LEMMA OffsetFits ==
  ASSUME NEW span \in Nat, NEW bits \in Nat, IsLength(span, bits), NEW g \in 0..span
  PROVE  g \in 0..2^bits-1
<1> DEFINE p == 2^bits
<1>1. p \in Nat /\ span < p
  BY Standing, N!Powers DEF IsLength
<1> HIDE DEF p
<1>2. g \in 0..p-1
  BY <1>1
<1> QED BY <1>2 DEF p

(***************************************************************************)
(* SerializeInt128.                                                        *)
(***************************************************************************)
LEMMA Int128Is ==
  ASSUME NEW d \in Declarations, d.kind = "int128"
  PROVE  FieldOf(d)
<1> DEFINE lo == d.min
           hi == d.max
           bits == Width(d)
<1>1. /\ Lowest(d) = lo /\ Highest(d) = hi /\ (WellDeclared(d) <=> lo <= hi)
      /\ lo \in Values(d) /\ hi \in Values(d) /\ lo \in Int /\ hi \in Int
      /\ \A v \in Values(d) : Raw(d, v) = v /\ v \in Int
  BY Unscaled
<1>2. /\ IsWide(d) /\ (Misdeclared(d) <=> SignedCmp(uint128(lo), uint128(hi)) > 0)
      /\ bits = BitsRequired128(uint128(lo), uint128(hi))
      /\ \A x : Write(d, x) = WriteInt128(d, x) /\ Read(d, x) = ReadInt128(d, x)
  BY OfKind
<1>3. Values(d) = Int128 /\ Ring64Or128(d) = WideModulus /\ StorageBits(d) = WideBits
  BY <1>2 DEF Values, Ring64Or128, StorageBits
<1>4. SignedCmp(uint128(lo), uint128(hi)) > 0 <=> lo > hi
  BY <1>1, <1>3, SignedOrder
<1>5. Misdeclared(d) <=> ~WellDeclared(d)
  <2> HIDE DEF lo, hi
  <2>1. lo > hi <=> ~(lo <= hi)
    BY <1>1
  <2> QED BY <1>1, <1>2, <1>4, <2>1, Zenon
<1>6. ASSUME WellDeclared(d)
      PROVE  /\ hi - lo \in 0..WideModulus-1
             /\ Sub(uint128(hi), uint128(lo)) = uint128(hi - lo)
             /\ bits \in 0..WideBits /\ IsLength(hi - lo, bits)
  <2>1. hi - lo \in 0..WideModulus-1
    <3>1. d.kind # "zigzag"
      OBVIOUS
    <3>2. Highest(d) - Lowest(d) \in 0..Ring64Or128(d)-1
      BY <1>6, <3>1, RangeOnTheRing
    <3> QED BY <1>1, <1>3, <3>2, Zenon
  <2>2. /\ Sub(uint128(hi), uint128(lo)) = uint128(hi - lo)
        /\ BitsRequired128(uint128(lo), uint128(hi)) \in 0..WideBits
        /\ IsLength(hi - lo, BitsRequired128(uint128(lo), uint128(hi)))
    BY <1>1, <2>1, PairWidth
  <2> HIDE DEF bits
  <2> QED BY <1>2, <2>1, <2>2
<1>7. WritesTheOffset(d)
  <2> SUFFICES ASSUME NEW v \in Values(d)
               PROVE  IF WellDeclared(d) /\ v \in lo..hi
                        THEN Write(d, v) = Emits(Width(d), v - lo)
                        ELSE Write(d, v).trap # None
    BY <1>1 DEF WritesTheOffset
  <2>1. WriteInt128(d, v) =
          IF SignedCmp(uint128(lo), uint128(hi)) > 0 THEN Panics("min max")
          ELSE IF SignedCmp(uint128(v), uint128(lo)) < 0 \/ SignedCmp(uint128(v), uint128(hi)) > 0
            THEN Panics("value out of range")
          ELSE writeGroups128(Sub(uint128(v), uint128(lo)),
                              BitsRequired128(uint128(lo), uint128(hi)))
    BY Zenon DEF WriteInt128
  <2>2. v \in Int /\ v \in Int128 /\ lo \in Int128 /\ hi \in Int128
    BY <1>1, <1>3
  <2>3. Write(d, v) = WriteInt128(d, v)
    BY <1>2
  <2>4. (SignedCmp(uint128(v), uint128(lo)) < 0 <=> v < lo)
        /\ (SignedCmp(uint128(v), uint128(hi)) > 0 <=> v > hi)
    BY <2>2, SignedOrder
  <2> HIDE DEF lo, hi, bits
  <2>5. CASE WellDeclared(d) /\ v \in lo..hi
    <3>1. ~(lo > hi) /\ ~(v < lo) /\ ~(v > hi) /\ v - lo \in 0..hi-lo /\ hi - lo \in Nat
      BY <1>1, <2>5
    <3>2. bits \in 0..WideBits /\ bits \in Nat /\ IsLength(hi - lo, bits)
      BY <1>6, <2>5, Widths
    <3>3. v - lo \in 0..2^bits-1
      BY <3>1, <3>2, OffsetFits
    <3>4. writeGroups128(uint128(v - lo), bits) = Emits(bits, v - lo)
      BY <3>2, <3>3, PairsOnTheWire
    <3>5. Sub(uint128(v), uint128(lo)) = uint128(v - lo)
      BY <1>1, <2>2, PairWraps
    <3>6. Write(d, v) = Emits(bits, v - lo)
      BY <1>2, <1>4, <2>1, <2>3, <2>4, <3>1, <3>4, <3>5, Zenon
    <3> QED BY <2>5, <3>6, Zenon DEF bits
  <2>6. CASE ~(WellDeclared(d) /\ v \in lo..hi)
    <3>1. lo > hi \/ (v < lo \/ v > hi)
      BY <1>1, <2>2, <2>6
    <3>2. Panics("min max").trap # None /\ Panics("value out of range").trap # None
      BY DEF Panics, None
    <3>3. Write(d, v).trap # None
      BY <1>4, <2>1, <2>3, <2>4, <3>1, <3>2, Zenon
    <3> QED BY <2>6, <3>3, Zenon
  <2> QED BY <2>5, <2>6
<1>8. HasTheWidth(d)
  BY <1>1, <1>3, <1>6 DEF HasTheWidth, Span
<1>9. ReadsTheOffset(d)
  <2> SUFFICES ASSUME WellDeclared(d), NEW g \in 0..2^Width(d)-1
               PROVE  Read(d, g) = IF g <= hi - lo THEN Returns(Store(d, lo + g)) ELSE OutOfRange
    BY <1>1 DEF ReadsTheOffset, Span
  <2>1. g \in 0..WideModulus-1 /\ readGroups128(g, bits) = uint128(g)
    BY <1>6, PairsOnTheWire
  <2>2. ReadInt128(d, g) =
          IF Cmp(readGroups128(g, bits), Sub(uint128(hi), uint128(lo))) > 0
            THEN Refuses("value_out_of_range")
            ELSE Returns(Signed(Add(readGroups128(g, bits), uint128(lo))))
    BY Zenon DEF ReadInt128
  <2> HIDE DEF lo, hi, bits
  <2>3. /\ Cmp(uint128(g), uint128(hi - lo)) > 0 <=> ~(g <= hi - lo)
        /\ Signed(Add(uint128(g), uint128(lo))) = Store(d, lo + g)
    <3> DEFINE span == hi - lo
    <3>1. span \in 0..WideModulus-1
      BY <1>6
    <3> HIDE DEF span
    <3>2. /\ Cmp(uint128(g), uint128(span)) > 0 <=> ~(g <= span)
          /\ Signed(Add(uint128(g), uint128(lo))) = Store(d, lo + g)
      BY <1>1, <1>2, <2>1, <3>1, PairStores
    <3> QED BY <3>2 DEF span
  <2>4. Read(d, g) = ReadInt128(d, g)
    BY <1>2
  <2> QED BY <1>6, <2>1, <2>2, <2>3, <2>4, Zenon DEF OutOfRange
<1> QED BY <1>5, <1>7, <1>8, <1>9 DEF FieldOf

(***************************************************************************)
(* The parameters of a fixed point value in a lane.                        *)
(***************************************************************************)
LEMMA Params64Is ==
  ASSUME NEW d \in Declarations, d.kind = "fixed64"
  PROVE  /\ fixedPointParams64(d).misuse # None <=> ~WellDeclared(d)
         /\ WellDeclared(d) =>
              LET params == fixedPointParams64(d)
              IN  /\ params.rawMin = uint64(Lowest(d)) /\ params.rawRange = Span(d)
                  /\ params.numBits \in 0..LaneBits /\ IsLength(Span(d), params.numBits)
<1> DEFINE f == d.fractionBits
           fits == d.integerBits + f <= LaneBits
           misuse == fixedMisuse(d, fits)
           rawMin == LaneLsh(uint64(d.min), f)
           rawMax == LaneLsh(uint64(d.max), f)
           params == fixedPointParams64(d)
<1>1. params = IF misuse # None THEN [misuse |-> misuse]
               ELSE [misuse |-> None, rawMin |-> rawMin, rawRange |-> uint64(rawMax - rawMin),
                     numBits |-> BitsRequired64(rawMin, rawMax)]
  BY Zenon DEF fixedPointParams64
<1>2. misuse = None <=> WellDeclared(d)
  <2>1. fits \in BOOLEAN /\ d.kind \in {"fixed64", "fixed128"}
    OBVIOUS
  <2>2. WellDeclared(d) <=> fits /\ d.min <= d.max /\ FormatHolds(d)
    BY DEF WellDeclared
  <2> HIDE DEF fits
  <2>3. fixedMisuse(d, fits) = None <=> fits /\ d.min <= d.max /\ FormatHolds(d)
    BY <2>1, MisuseIs
  <2> QED BY <2>2, <2>3, Zenon
<1>3. ASSUME ~WellDeclared(d) PROVE params.misuse # None
  <2> HIDE DEF misuse, params, rawMin, rawMax
  <2>1. misuse # None /\ params = [misuse |-> misuse]
    BY <1>1, <1>2, <1>3, Zenon
  <2> QED BY <2>1
<1>4. ASSUME WellDeclared(d)
      PROVE  /\ params.misuse = None
             /\ params.rawMin = uint64(Lowest(d)) /\ params.rawRange = Span(d)
             /\ params.numBits \in 0..LaneBits /\ IsLength(Span(d), params.numBits)
  <2>1. f \in Nat /\ d.min \in Int /\ d.max \in Int
    <3>1. f \in Int /\ d.min \in Int /\ d.max \in Int
      BY DeclarationParts
    <3>2. f >= 0
      BY <1>4 DEF WellDeclared, FormatHolds
    <3> QED BY <3>1, <3>2
  <2>2. rawMin = uint64(Lowest(d)) /\ rawMax = uint64(Highest(d))
    BY <2>1, ShiftedPattern DEF Lowest, Highest
  <2>3. /\ Lowest(d) \in Int /\ Highest(d) \in Int
        /\ Highest(d) - Lowest(d) \in 0..LaneModulus-1
    <3>1. d.kind # "zigzag" /\ ~IsWide(d)
      BY DEF IsWide
    <3>2. Ring64Or128(d) = LaneModulus
      BY <3>1 DEF Ring64Or128
    <3> QED BY <1>4, <3>1, <3>2, RangeOnTheRing
  <2> HIDE DEF misuse, params, rawMin, rawMax
  <2>4. params = [misuse |-> None, rawMin |-> rawMin, rawRange |-> uint64(rawMax - rawMin),
                  numBits |-> BitsRequired64(rawMin, rawMax)]
    BY <1>1, <1>2, <1>4, Zenon
  <2>5. /\ params.misuse = None /\ params.rawMin = rawMin
        /\ params.rawRange = uint64(rawMax - rawMin)
        /\ params.numBits = BitsRequired64(rawMin, rawMax)
    BY ONLY <2>4
  <2> DEFINE lo == Lowest(d)
             hi == Highest(d)
  <2> HIDE DEF lo, hi
  <2>6. lo \in Int /\ hi \in Int /\ hi - lo \in 0..LaneModulus-1
    BY <2>3 DEF lo, hi
  <2>7. /\ uint64(uint64(hi) - uint64(lo)) = hi - lo
        /\ BitsRequired64(uint64(lo), uint64(hi)) \in 0..LaneBits
        /\ IsLength(hi - lo, BitsRequired64(uint64(lo), uint64(hi)))
    BY <2>6, LaneWidth
  <2> QED BY <2>2, <2>5, <2>7, Zenon DEF lo, hi, Span
<1> QED BY <1>3, <1>4, Zenon

(***************************************************************************)
(* SerializeFixed of a value in a lane.                                    *)
(***************************************************************************)
LEMMA Fixed64Is ==
  ASSUME NEW d \in Declarations, d.kind = "fixed64"
  PROVE  FieldOf(d)
<1> DEFINE lo == Lowest(d)
           hi == Highest(d)
           bits == Width(d)
           params == fixedPointParams64(d)
<1>1. /\ params.misuse # None <=> ~WellDeclared(d)
      /\ WellDeclared(d) => /\ params.rawMin = uint64(lo) /\ params.rawRange = Span(d)
                            /\ params.numBits \in 0..LaneBits /\ IsLength(Span(d), params.numBits)
  BY Params64Is
<1>2. /\ ~IsWide(d) /\ (Misdeclared(d) <=> params.misuse # None)
      /\ bits = params.numBits
      /\ \A x : Write(d, x) = WriteFixed64(d, x) /\ Read(d, x) = ReadFixed64(d, x)
  BY OfKind
<1>3. Ring64Or128(d) = LaneModulus /\ StorageBits(d) = LaneBits /\ d.kind # "zigzag"
  BY <1>2 DEF Ring64Or128, StorageBits
<1>4. ASSUME WellDeclared(d)
      PROVE  /\ lo \in Int /\ hi \in Int /\ lo <= hi /\ Span(d) \in Int
             /\ Span(d) = hi - lo
             /\ \A n \in Int : Holdable(d, n) =>
                  /\ (n - lo) % LaneModulus <= Span(d) <=> n \in lo..hi
                  /\ n \in lo..hi => (n - lo) % LaneModulus = n - lo
  <2>1. Span(d) = hi - lo
    BY DEF Span
  <2>2. /\ lo \in Int /\ hi \in Int /\ lo <= hi
        /\ \A n \in Int : Holdable(d, n) =>
              /\ (n - lo) % LaneModulus <= hi - lo <=> n \in lo..hi
              /\ n \in lo..hi => (n - lo) % LaneModulus = n - lo
    BY <1>3, <1>4, RangeOnTheRing
  <2>3. hi - lo \in Int
    BY <2>2
  <2> HIDE DEF lo, hi
  <2> QED BY <2>1, <2>2, <2>3, Zenon
<1>5. WritesTheOffset(d)
  <2> SUFFICES ASSUME NEW v \in Values(d)
               PROVE  IF WellDeclared(d) /\ Raw(d, v) \in lo..hi
                        THEN Write(d, v) = Emits(bits, Raw(d, v) - lo)
                        ELSE Write(d, v).trap # None
    BY DEF WritesTheOffset
  <2> DEFINE raw == Raw(d, v)
             offset == uint64(uint64(v) - params.rawMin)
  <2>1. WriteFixed64(d, v) =
          IF params.misuse # None THEN Panics(params.misuse)
          ELSE IF offset > params.rawRange THEN Panics("value out of range")
          ELSE Emits(params.numBits, offset)
    BY Zenon DEF WriteFixed64
  <2>2. Write(d, v) = WriteFixed64(d, v)
    BY <1>2
  <2>3. raw \in Int /\ Holdable(d, raw) /\ uint64(raw) = uint64(v)
    BY <1>2, RawIsHeld
  <2>4. \A m : Panics(m).trap = m
    BY DEF Panics
  <2> HIDE DEF raw, offset, params, bits, lo, hi
  <2>5. CASE ~WellDeclared(d)
    <3>1. params.misuse # None
      BY <1>1, <2>5
    <3>2. Write(d, v).trap # None
      BY <2>1, <2>2, <2>4, <3>1, Zenon
    <3> QED BY <2>5, <3>2, Zenon
  <2>6. CASE WellDeclared(d)
    <3>1. offset = (raw - lo) % LaneModulus
      <4>1. uint64(uint64(raw) - uint64(lo)) = uint64(raw - lo)
        BY <1>4, <2>3, <2>6, LaneWraps
      <4>2. offset = uint64(uint64(v) - uint64(lo))
        BY <1>1, <2>6, Zenon DEF offset
      <4> QED BY <2>3, <4>1, <4>2, Zenon DEF uint64
    <3>2. /\ offset <= Span(d) <=> raw \in lo..hi
          /\ raw \in lo..hi => offset = raw - lo
      BY <1>4, <2>3, <2>6, <3>1, Zenon
    <3>3. offset > Span(d) <=> ~(offset <= Span(d))
      <4>1. raw - lo \in Int /\ LaneModulus \in Nat \ {0}
        BY <1>4, <2>3, <2>6, Widths
      <4>2. offset \in Int
        <5> DEFINE n == raw - lo
        <5> HIDE DEF n
        <5>1. n \in Int /\ LaneModulus \in Nat \ {0}
          BY <4>1 DEF n
        <5>2. n % LaneModulus \in Int
          BY ONLY <5>1, Division
        <5> QED BY <3>1, <5>2 DEF n
      <4>3. Span(d) \in Int
        BY <1>4, <2>6
      <4> QED BY ONLY <4>2, <4>3
    <3>4. params.misuse = None /\ params.rawRange = Span(d) /\ params.numBits = bits
      BY <1>1, <1>2, <2>6, Zenon
    <3>5. "value out of range" # None
      BY DEF None
    <3>6. CASE raw \in lo..hi
      <4>1. Write(d, v) = Emits(bits, raw - lo)
        BY <2>1, <2>2, <3>2, <3>3, <3>4, <3>6, Zenon
      <4> QED BY <2>6, <3>6, <4>1, Zenon DEF raw
    <3>7. CASE ~(raw \in lo..hi)
      <4>1. Write(d, v).trap # None
        BY <2>1, <2>2, <2>4, <3>2, <3>3, <3>4, <3>5, <3>7, Zenon
      <4> QED BY <3>7, <4>1, Zenon DEF raw
    <3> QED BY <3>6, <3>7
  <2> QED BY <2>5, <2>6
<1>6. HasTheWidth(d)
  BY <1>1, <1>2, <1>3 DEF HasTheWidth
<1>7. ReadsTheOffset(d)
  <2> SUFFICES ASSUME WellDeclared(d), NEW g \in 0..2^Width(d)-1
               PROVE  Read(d, g) = IF g <= Span(d) THEN Returns(Store(d, lo + g)) ELSE OutOfRange
    BY DEF ReadsTheOffset
  <2>1. bits \in Nat
    BY <1>1, <1>2, LaneAssumption
  <2>2. g \in Int
    BY <2>1, Standing, N!Powers
  <2>3. ReadFixed64(d, g) =
          IF g > params.rawRange THEN Refuses("value_out_of_range")
          ELSE Returns(int64(uint64(params.rawMin + g)))
    BY Zenon DEF ReadFixed64
  <2>4. Read(d, g) = ReadFixed64(d, g)
    BY <1>2
  <2>5. int64(uint64(uint64(lo) + g)) = Store(d, lo + g)
    BY <1>2, <1>4, <2>2, LaneStores
  <2>6. g > Span(d) <=> ~(g <= Span(d))
    BY <1>4, <2>2
  <2> HIDE DEF lo, hi, params, bits
  <2> QED BY <1>1, <2>3, <2>4, <2>5, <2>6, Zenon DEF OutOfRange
<1> QED BY <1>1, <1>2, <1>5, <1>6, <1>7 DEF FieldOf

(***************************************************************************)
(* A number moved up by whole bits is longer by as many.                   *)
(***************************************************************************)
LEMMA LongerByFraction ==
  ASSUME NEW n \in Nat \ {0}, NEW k \in Nat, IsLength(n, k), NEW f \in Nat
  PROVE  IsLength(n * 2^f, k + f)
<1> DEFINE t == 2^f
           p == 2^k
           q == 2^(k-1)
           g == 2^(k+f)
           m == k - 1
           e == m + f
<1>1. t \in Nat \ {0} /\ p \in Nat \ {0} /\ p * t = g
  BY Standing, N!Powers, N!PowerOfSum
<1>2. k > 0
  <2>1. n < p
    BY DEF IsLength
  <2>2. k # 0
    <3> SUFFICES ASSUME k = 0 PROVE FALSE
      OBVIOUS
    <3>1. p = 1
      BY Standing, N!Powers, Zenon
    <3> HIDE DEF p
    <3> QED BY <2>1, <3>1
  <2> QED BY <2>2
<1>3. m \in Nat /\ q \in Nat \ {0} /\ 2^e = q * t /\ (k + f) - 1 = e /\ k + f \in Nat
  BY <1>2, Standing, N!Powers, N!PowerOfSum
<1>4. n < p /\ q <= n
  BY <1>2 DEF IsLength
<1> HIDE DEF t, p, q, g, e
<1>5. n * t < g
  <2>1. n <= p - 1 /\ p - 1 \in Int
    BY <1>1, <1>4
  <2> DEFINE y == p - 1
  <2>2. y \in Int /\ n <= y
    BY <2>1
  <2> HIDE DEF y
  <2>3. n * t <= y * t
    BY <1>1, <2>2, Standing, N!Products
  <2>4. y * t = p * t - t
    BY <1>1 DEF y
  <2> DEFINE pt == p * t
             nt == n * t
             yt == y * t
  <2>5. pt \in Int /\ nt \in Int /\ yt \in Int /\ yt = pt - t /\ nt <= yt /\ pt = g
    BY <1>1, <2>2, <2>3, <2>4
  <2> HIDE DEF pt, nt, yt
  <2>6. nt < g
    BY <1>1, <2>5
  <2> QED BY <2>6 DEF nt
<1>6. q * t <= n * t
  BY <1>1, <1>3, <1>4, Standing, N!Products
<1>7. 2^((k + f) - 1) <= n * t
  BY <1>3, <1>6, Zenon
<1> QED BY <1>5, <1>7 DEF IsLength, t, g

(***************************************************************************)
(* A number below a power of two is no longer than its exponent.           *)
(***************************************************************************)
LEMMA NoLonger ==
  ASSUME NEW n \in Nat, NEW k \in Nat, IsLength(n, k), NEW m \in Nat, n < 2^m
  PROVE  k <= m
<1>1. PICK j \in 0..m : IsLength(n, j)
  BY HasLength
<1>2. k = j
  <2>1. j \in Nat
    BY <1>1
  <2> QED BY <1>1, <2>1, OneLength
<1> QED BY <1>1, <1>2

(***************************************************************************)
(* The parameters of a fixed point value in two lanes.                     *)
(***************************************************************************)
LEMMA Params128Is ==
  ASSUME NEW d \in Declarations, d.kind = "fixed128"
  PROVE  /\ fixedPointParams128(d).misuse # None <=> ~WellDeclared(d)
         /\ WellDeclared(d) =>
              LET params == fixedPointParams128(d)
              IN  /\ params.rawMin = uint128(Lowest(d))
                  /\ Span(d) \in 0..WideModulus-1 /\ params.rawRange = uint128(Span(d))
                  /\ params.numBits \in 0..WideBits /\ IsLength(Span(d), params.numBits)
<1> DEFINE f == d.fractionBits
           fits == d.integerBits + f = WideBits
           misuse == fixedMisuse(d, fits)
           rawMin == Lsh(Int128From64(d.min), f)
           rawMax == Lsh(Int128From64(d.max), f)
           units == BitsRequired64(uint64(d.min), uint64(d.max))
           bits == IF d.min = d.max THEN 0 ELSE units + f
           params == fixedPointParams128(d)
<1>1. params = IF misuse # None THEN [misuse |-> misuse]
               ELSE [misuse |-> None, rawMin |-> rawMin, rawRange |-> Sub(rawMax, rawMin),
                     numBits |-> bits]
  BY Zenon DEF fixedPointParams128
<1>2. misuse = None <=> WellDeclared(d)
  <2>1. fits \in BOOLEAN /\ d.kind \in {"fixed64", "fixed128"}
    OBVIOUS
  <2>2. WellDeclared(d) <=> fits /\ d.min <= d.max /\ FormatHolds(d)
    BY DEF WellDeclared
  <2> HIDE DEF fits
  <2>3. fixedMisuse(d, fits) = None <=> fits /\ d.min <= d.max /\ FormatHolds(d)
    BY <2>1, MisuseIs
  <2> QED BY <2>2, <2>3, Zenon
<1>3. ASSUME ~WellDeclared(d) PROVE params.misuse # None
  <2> HIDE DEF misuse, params, rawMin, rawMax, bits
  <2>1. misuse # None /\ params = [misuse |-> misuse]
    BY <1>1, <1>2, <1>3, Zenon
  <2> QED BY <2>1
<1>4. ASSUME WellDeclared(d)
      PROVE  /\ params.misuse = None
             /\ params.rawMin = uint128(Lowest(d))
             /\ Span(d) \in 0..WideModulus-1 /\ params.rawRange = uint128(Span(d))
             /\ params.numBits \in 0..WideBits /\ IsLength(Span(d), params.numBits)
  <2>1. f \in Nat /\ d.min \in Int64 /\ d.max \in Int64 /\ d.min \in Int /\ d.max \in Int
        /\ d.min <= d.max
    <3>1. f \in Int /\ d.min \in Int64 /\ d.max \in Int64 /\ d.min \in Int /\ d.max \in Int
      BY DeclarationParts
    <3>2. f >= 0 /\ d.min <= d.max
      BY <1>4 DEF WellDeclared, FormatHolds
    <3> QED BY <3>1, <3>2
  <2>2. rawMin = uint128(Lowest(d)) /\ rawMax = uint128(Highest(d))
    <3>1. Int128From64(d.min) = uint128(d.min) /\ Int128From64(d.max) = uint128(d.max)
      BY <2>1, Int128From64Is
    <3>2. Lsh(uint128(d.min), f) = uint128(d.min * 2^f) /\ Lsh(uint128(d.max), f) = uint128(d.max * 2^f)
      BY <2>1, ShiftedPattern
    <3> QED BY <3>1, <3>2, Zenon DEF Lowest, Highest
  <2>3. /\ Lowest(d) \in Int /\ Highest(d) \in Int
        /\ Highest(d) - Lowest(d) \in 0..WideModulus-1
    <3>1. d.kind # "zigzag" /\ IsWide(d)
      BY DEF IsWide
    <3>2. Ring64Or128(d) = WideModulus
      BY <3>1 DEF Ring64Or128
    <3> QED BY <1>4, <3>1, <3>2, RangeOnTheRing
  <2>4. Span(d) \in 0..WideModulus-1 /\ Span(d) \in Nat
    BY <2>3 DEF Span
  <2>5. Sub(rawMax, rawMin) = uint128(Span(d))
    <3>1. Sub(uint128(Highest(d)), uint128(Lowest(d))) = uint128(Highest(d) - Lowest(d))
      BY <2>3, PairWraps
    <3> QED BY <2>2, <3>1, Zenon DEF Span
  <2>6. bits \in Nat /\ IsLength(Span(d), bits)
    <3> DEFINE a == d.min
               c == d.max
               m == c - a
    <3>1. a \in Int /\ c \in Int /\ a <= c /\ Span(d) = c * 2^f - a * 2^f /\ m \in 0..LaneModulus-1
      <4>1. d.max - d.min \in 0..LaneModulus-1
        <5> DEFINE h == Half
                   w == LaneModulus
        <5>1. h \in Nat /\ w = h + h /\ a \in -h..h-1 /\ c \in -h..h-1 /\ a <= c
          BY <2>1, Widths DEF Int64
        <5> HIDE DEF h, w, a, c
        <5>2. c - a \in 0..w-1
          BY <5>1
        <5> QED BY <5>2 DEF a, c, w
      <4> QED BY <2>1, <4>1 DEF Span, Lowest, Highest
    <3>2. units \in 0..LaneBits /\ IsLength(m, units)
      BY <2>1, <3>1, LaneWidth
    <3>3. m \in Nat /\ units \in Nat /\ 2^f \in Nat
      BY <2>1, <3>1, <3>2, LaneAssumption, Standing, N!Powers
    <3> DEFINE t == 2^f
    <3>4. Span(d) = c * t - a * t /\ t \in Nat /\ m = c - a
      BY <3>1, <3>3
    <3> HIDE DEF units, t, a, c
    <3>5. Span(d) = m * t
      BY ONLY <3>1, <3>4 DEF m
    <3> HIDE DEF m
    <3>6. CASE a = c
      <4>1. m = 0
        BY <3>1, <3>6 DEF m
      <4>2. Span(d) = 0
        BY ONLY <3>4, <3>5, <4>1
      <4>3. bits = 0
        BY <3>6, Zenon DEF a, c
      <4>4. IsLength(0, 0)
        BY Standing, N!Powers DEF IsLength
      <4> HIDE DEF bits
      <4> QED BY <4>2, <4>3, <4>4
    <3>7. CASE a # c
      <4>1. m \in Nat \ {0}
        BY <3>1, <3>3, <3>7 DEF m
      <4>2. bits = units + f
        BY <3>7, Zenon DEF a, c
      <4>3. IsLength(m * t, units + f)
        BY <2>1, <3>2, <3>3, <4>1, LongerByFraction DEF t
      <4>4. units + f \in Nat
        BY <2>1, <3>3
      <4> HIDE DEF bits
      <4> QED BY <3>5, <4>2, <4>3, <4>4, Zenon
    <3> QED BY <3>6, <3>7
  <2>7. bits \in 0..WideBits
    <3>1. WideBits \in Nat /\ Span(d) < 2^WideBits
      <4>1. WideBits \in Nat /\ 2^WideBits = WideModulus /\ WideModulus \in Nat
        BY Widths, WideWidths
      <4> QED BY <2>4, <4>1
    <3> HIDE DEF bits
    <3>2. bits <= WideBits
      BY <2>4, <2>6, <3>1, NoLonger
    <3> QED BY <2>6, <3>1, <3>2
  <2> HIDE DEF misuse, params, rawMin, rawMax, bits
  <2>8. params = [misuse |-> None, rawMin |-> rawMin, rawRange |-> Sub(rawMax, rawMin),
                  numBits |-> bits]
    BY <1>1, <1>2, <1>4, Zenon
  <2>9. /\ params.misuse = None /\ params.rawMin = rawMin
        /\ params.rawRange = Sub(rawMax, rawMin)
        /\ params.numBits = bits
    BY ONLY <2>8
  <2> QED BY <2>2, <2>4, <2>5, <2>6, <2>7, <2>9, Zenon
<1> QED BY <1>3, <1>4, Zenon

(***************************************************************************)
(* SerializeFixed of a value in two lanes.                                 *)
(***************************************************************************)
LEMMA Fixed128Is ==
  ASSUME NEW d \in Declarations, d.kind = "fixed128"
  PROVE  FieldOf(d)
<1> DEFINE lo == Lowest(d)
           hi == Highest(d)
           span == Span(d)
           bits == Width(d)
           params == fixedPointParams128(d)
<1>1. /\ params.misuse # None <=> ~WellDeclared(d)
      /\ WellDeclared(d) => /\ params.rawMin = uint128(lo)
                            /\ span \in 0..WideModulus-1 /\ params.rawRange = uint128(span)
                            /\ params.numBits \in 0..WideBits /\ IsLength(span, params.numBits)
  BY Params128Is
<1>2. /\ IsWide(d) /\ (Misdeclared(d) <=> params.misuse # None)
      /\ bits = params.numBits
      /\ \A x : Write(d, x) = WriteFixed128(d, x) /\ Read(d, x) = ReadFixed128(d, x)
  BY OfKind
<1>3. Ring64Or128(d) = WideModulus /\ StorageBits(d) = WideBits /\ d.kind # "zigzag"
  BY <1>2 DEF Ring64Or128, StorageBits
<1>4. ASSUME WellDeclared(d)
      PROVE  /\ lo \in Int /\ hi \in Int /\ lo <= hi /\ span = hi - lo
             /\ \A n \in Int : Holdable(d, n) =>
                  /\ (n - lo) % WideModulus <= span <=> n \in lo..hi
                  /\ n \in lo..hi => (n - lo) % WideModulus = n - lo
  <2>1. span = hi - lo
    BY DEF Span
  <2>2. /\ lo \in Int /\ hi \in Int /\ lo <= hi
        /\ \A n \in Int : Holdable(d, n) =>
              /\ (n - lo) % WideModulus <= hi - lo <=> n \in lo..hi
              /\ n \in lo..hi => (n - lo) % WideModulus = n - lo
    BY <1>3, <1>4, RangeOnTheRing
  <2> HIDE DEF lo, hi, span
  <2> QED BY <2>1, <2>2, Zenon
<1>5. WritesTheOffset(d)
  <2> SUFFICES ASSUME NEW v \in Values(d)
               PROVE  IF WellDeclared(d) /\ Raw(d, v) \in lo..hi
                        THEN Write(d, v) = Emits(bits, Raw(d, v) - lo)
                        ELSE Write(d, v).trap # None
    BY DEF WritesTheOffset
  <2> DEFINE raw == Raw(d, v)
             offset == Sub(uint128(v), params.rawMin)
  <2>1. WriteFixed128(d, v) =
          IF params.misuse # None THEN Panics(params.misuse)
          ELSE IF Cmp(offset, params.rawRange) > 0 THEN Panics("value out of range")
          ELSE writeGroups128(offset, params.numBits)
    BY Zenon DEF WriteFixed128
  <2>2. Write(d, v) = WriteFixed128(d, v)
    BY <1>2
  <2>3. raw \in Int /\ Holdable(d, raw) /\ uint128(raw) = uint128(v)
    BY <1>2, RawIsHeld
  <2>4. \A m : Panics(m).trap = m
    BY DEF Panics
  <2> HIDE DEF raw, offset, params, bits, lo, hi, span
  <2>5. CASE ~WellDeclared(d)
    <3>1. params.misuse # None
      BY <1>1, <2>5
    <3>2. Write(d, v).trap # None
      BY <2>1, <2>2, <2>4, <3>1, Zenon
    <3> QED BY <2>5, <3>2, Zenon
  <2>6. CASE WellDeclared(d)
    <3>1. offset = uint128(raw - lo) /\ raw - lo \in Int
      <4>0. raw \in Int /\ lo \in Int
        BY <1>4, <2>3, <2>6
      <4>1. Sub(uint128(raw), uint128(lo)) = uint128(raw - lo) /\ raw - lo \in Int
        BY ONLY <4>0, PairWraps
      <4>2. offset = Sub(uint128(v), uint128(lo))
        BY <1>1, <2>6, Zenon DEF offset
      <4> QED BY <2>3, <4>1, <4>2, Zenon
    <3>2. offset \in Uint128 /\ Unsigned(offset) = (raw - lo) % WideModulus
      <4> DEFINE n == raw - lo
      <4>1. n \in Int /\ offset = uint128(n)
        BY <3>1
      <4> HIDE DEF n
      <4>2. offset \in Uint128 /\ Unsigned(offset) = n % WideModulus
        BY <4>1, Patterns
      <4> QED BY <4>2 DEF n
    <3>3. /\ Unsigned(offset) <= span <=> raw \in lo..hi
          /\ raw \in lo..hi => Unsigned(offset) = raw - lo
      BY <1>4, <2>3, <2>6, <3>2, Zenon
    <3>4. Cmp(offset, params.rawRange) > 0 <=> ~(Unsigned(offset) <= span)
      <4>1. uint128(span) \in Uint128 /\ Unsigned(uint128(span)) = span /\ span \in Int
        BY <1>1, <2>6, Fitting
      <4> DEFINE y == uint128(span)
                 u == Unsigned(offset)
      <4>2. y \in Uint128 /\ Unsigned(y) = span
        BY <4>1
      <4>3. u \in Int
        <5>1. Unsigned(offset) \in 0..WideModulus-1
          BY <3>2, Pairs
        <5> QED BY <5>1
      <4> HIDE DEF y
      <4>4. Cmp(offset, y) = Order(Unsigned(offset), span)
        BY <3>2, <4>2, CmpIs
      <4> HIDE DEF u
      <4>5. Order(u, span) > 0 <=> u > span
        BY <4>1, <4>3, Orders
      <4>6. u > span <=> ~(u <= span)
        BY <4>1, <4>3
      <4>7. params.rawRange = y
        BY <1>1, <2>6 DEF y
      <4> QED BY <4>4, <4>5, <4>6, <4>7, Zenon DEF u
    <3>5. params.misuse = None /\ params.numBits = bits
      BY <1>1, <1>2, <2>6, Zenon
    <3>6. "value out of range" # None
      BY DEF None
    <3>7. CASE raw \in lo..hi
      <4>1. raw - lo \in 0..span /\ span \in Nat
        BY <1>4, <2>6, <3>7
      <4>2. bits \in 0..WideBits /\ bits \in Nat /\ IsLength(span, bits)
        BY <1>1, <1>2, <2>6, Widths
      <4>3. raw - lo \in 0..2^bits-1
        BY <4>1, <4>2, OffsetFits
      <4>4. writeGroups128(uint128(raw - lo), bits) = Emits(bits, raw - lo)
        BY <4>2, <4>3, PairsOnTheWire
      <4>5. Write(d, v) = Emits(bits, raw - lo)
        BY <2>1, <2>2, <3>1, <3>3, <3>4, <3>5, <3>7, <4>4, Zenon
      <4> QED BY <2>6, <3>7, <4>5, Zenon DEF raw
    <3>8. CASE ~(raw \in lo..hi)
      <4>1. Write(d, v).trap # None
        BY <2>1, <2>2, <2>4, <3>3, <3>4, <3>5, <3>6, <3>8, Zenon
      <4> QED BY <3>8, <4>1, Zenon DEF raw
    <3> QED BY <3>7, <3>8
  <2> QED BY <2>5, <2>6
<1>6. HasTheWidth(d)
  BY <1>1, <1>2, <1>3 DEF HasTheWidth
<1>7. ReadsTheOffset(d)
  <2> SUFFICES ASSUME WellDeclared(d), NEW g \in 0..2^Width(d)-1
               PROVE  Read(d, g) = IF g <= span THEN Returns(Store(d, lo + g)) ELSE OutOfRange
    BY DEF ReadsTheOffset
  <2>1. g \in 0..WideModulus-1 /\ readGroups128(g, bits) = uint128(g)
    BY <1>1, <1>2, PairsOnTheWire
  <2>2. ReadFixed128(d, g) =
          IF Cmp(readGroups128(g, params.numBits), params.rawRange) > 0
            THEN Refuses("value_out_of_range")
            ELSE Returns(Signed(Add(params.rawMin, readGroups128(g, params.numBits))))
    BY Zenon DEF ReadFixed128
  <2>3. Read(d, g) = ReadFixed128(d, g)
    BY <1>2
  <2> HIDE DEF lo, hi, params, bits, span
  <2>4. /\ Cmp(uint128(g), uint128(span)) > 0 <=> ~(g <= span)
        /\ Signed(Add(uint128(lo), uint128(g))) = Store(d, lo + g)
    <3>1. lo \in Int /\ span \in 0..WideModulus-1
      BY <1>1, <1>4
    <3> QED BY <1>2, <2>1, <3>1, PairStores
  <2> QED BY <1>1, <1>2, <2>1, <2>2, <2>3, <2>4, Zenon DEF OutOfRange
<1> QED BY <1>1, <1>2, <1>5, <1>6, <1>7 DEF FieldOf

(***************************************************************************)
(* Every kind of range does the same.                                      *)
(***************************************************************************)
LEMMA FieldIs ==
  ASSUME NEW d \in Declarations, d.kind # "zigzag"
  PROVE  FieldOf(d)
BY DeclarationParts, IntIs, Int128Is, Fixed64Is, Fixed128Is DEF Kinds

-----------------------------------------------------------------------------
(***************************************************************************)
(* Exclusive or with no bit, and with every bit.                           *)
(***************************************************************************)
LEMMA XorEnds ==
  ASSUME NEW a \in Lane
  PROVE  /\ LaneXor(a, 0) = a
         /\ LaneXor(a, LaneModulus - 1) = LaneModulus - 1 - a
<1>1. 0 \in Lane /\ LaneModulus - 1 \in Lane /\ LaneModulus - 1 - a \in Lane
  BY Widths DEF Lane
<1> DEFINE ones == LaneModulus - 1
           rest == LaneModulus - 1 - a
<1>2. \A i \in 1..LaneBits : LaneBit(0, i) = 0
  <2> SUFFICES ASSUME NEW i \in 1..LaneBits PROVE LaneBit(0, i) = 0
    OBVIOUS
  <2>1. 2^(i-1) \in Nat \ {0}
    <3>1. i - 1 \in Nat
      OBVIOUS
    <3> QED BY <3>1, Standing, N!Powers
  <2> DEFINE p == 2^(i-1)
  <2>2. p \in Nat \ {0} /\ 0 \in 0..p-1
    BY <2>1
  <2> HIDE DEF p
  <2>3. 0 \div p = 0
    BY <2>2, Small
  <2>4. 0 % 2 = 0
    OBVIOUS
  <2> QED BY <2>3, <2>4, Zenon DEF LaneBit, p
<1>3. LaneXor(a, 0) = a
  <2>1. LaneXor(a, 0) \in Lane /\
        \A i \in 1..LaneBits : LaneBit(LaneXor(a, 0), i) = (LaneBit(a, i) + LaneBit(0, i)) % 2
    BY <1>1, LaneXorIs
  <2>2. ASSUME NEW i \in 1..LaneBits PROVE LaneBit(LaneXor(a, 0), i) = LaneBit(a, i)
    <3>1. LaneBit(LaneXor(a, 0), i) = (LaneBit(a, i) + 0) % 2
      BY <1>2, <2>1
    <3>2. LaneBit(a, i) = 0 \/ LaneBit(a, i) = 1
      <4>1. \A k \in 1..LaneBits : LaneBit(a, k) \in {0, 1}
        BY BitsOfLane
      <4> QED BY <4>1, Zenon
    <3> DEFINE x == LaneBit(a, i)
    <3> HIDE DEF x
    <3>3. (x + 0) % 2 = x
      <4>1. x = 0 \/ x = 1
        BY <3>2 DEF x
      <4> QED BY ONLY <4>1
    <3> QED BY <3>1, <3>3, Zenon DEF x
  <2> QED BY <2>1, <2>2, SameBits
<1>4. ASSUME NEW i \in 1..LaneBits PROVE LaneBit(ones, i) = 1
  <2> DEFINE m == i - 1
             k == LaneBits - i
             p == 2^m
             t == 2^k
  <2>1. m \in Nat /\ k \in Nat /\ LaneBits = (m + k) + 1 /\ m + k \in Nat
    BY LaneAssumption
  <2>2. p \in Nat \ {0} /\ t \in Nat \ {0} /\ 2^(m+k) = p * t /\ 2^((m+k)+1) = 2 * 2^(m+k)
    <3>1. p \in Nat \ {0} /\ t \in Nat \ {0} /\ 2^(m+k) = p * t
      BY <2>1, Standing, N!Powers, N!PowerOfSum
    <3>2. 2^((m+k)+1) = 2^(m+k) + 2^(m+k)
      BY <2>1, Standing, N!PowerDoubles
    <3>3. p * t \in Int
      BY <3>1
    <3> HIDE DEF p, t
    <3> QED BY <3>1, <3>2, <3>3
  <2>3. LaneModulus = 2 * (p * t)
    BY <2>1, <2>2, Zenon DEF LaneModulus
  <2> HIDE DEF m, k, p, t
  <2> DEFINE q == 2 * t - 1
             r == p - 1
             g == t - 1
  <2>4. q \in Int /\ r \in 0..p-1 /\ g \in Int /\ ones = q * p + r
    BY <2>2, <2>3
  <2>5. q = g * 2 + 1 /\ 1 \in 0..2-1 /\ 2 \in Nat \ {0}
    BY <2>2
  <2> HIDE DEF q, r, g, ones
  <2>6. ones \div p = q
    BY <2>2, <2>4, Unique
  <2>7. q % 2 = 1
    BY <2>4, <2>5, Unique
  <2> QED BY <2>6, <2>7, Zenon DEF LaneBit, p, m
<1>5. LaneXor(a, ones) = rest
  <2> DEFINE x == LaneXor(a, ones)
             bits(c) == [i \in 1..LaneBits |-> LaneBit(c, i)]
  <2>1. x \in Lane /\ \A i \in 1..LaneBits : LaneBit(x, i) = (LaneBit(a, i) + LaneBit(ones, i)) % 2
    BY <1>1, LaneXorIs
  <2> HIDE DEF x, ones
  <2>2. \A c \in Lane : bits(c) \in LaneBitSeq /\ LaneOf(bits(c)) = c
    BY BitsOfLane
  <2>3. \A c : \A i \in 1..LaneBits : bits(c)[i] = LaneBit(c, i)
    OBVIOUS
  <2>4. ones \in Lane
    BY <1>1 DEF ones
  <2>5. ASSUME NEW i \in 1..LaneBits
        PROVE  bits(x)[i] + bits(a)[i] = bits(ones)[i] + bits(0)[i]
    <3> DEFINE y == LaneBit(a, i)
    <3>1. y = 0 \/ y = 1
      <4>1. \A k \in 1..LaneBits : LaneBit(a, k) \in {0, 1}
        BY BitsOfLane
      <4> QED BY <4>1, Zenon
    <3>2. LaneBit(x, i) = (y + 1) % 2
      BY <1>4, <2>1, Zenon
    <3> HIDE DEF y
    <3>3. ((y + 1) % 2) + y = 1 + 0
      BY ONLY <3>1
    <3>4. LaneBit(x, i) + LaneBit(a, i) = LaneBit(ones, i) + LaneBit(0, i)
      BY <1>2, <1>4, <3>2, <3>3, Zenon DEF y
    <3> QED BY <2>3, <3>4, Zenon
  <2> HIDE DEF bits
  <2>6. LaneOf(bits(x)) + LaneOf(bits(a)) = LaneOf(bits(ones)) + LaneOf(bits(0))
    <3>1. /\ bits(x) \in LaneBitSeq /\ bits(a) \in LaneBitSeq
          /\ bits(ones) \in LaneBitSeq /\ bits(0) \in LaneBitSeq
      BY <1>1, <2>1, <2>2, <2>4
    <3> QED BY <2>5, <3>1, BitSums
  <2>7. x + a = ones + 0
    BY <1>1, <2>1, <2>2, <2>4, <2>6, Zenon
  <2>8. x = ones - a
    <3>1. x \in Int /\ a \in Int /\ ones \in Int
      BY <2>1, <2>4, Widths DEF Lane
    <3> QED BY ONLY <2>7, <3>1
  <2> QED BY <2>8 DEF x, ones
<1> QED BY <1>3, <1>5

(***************************************************************************)
(* Zig-zag ranks 0, -1, +1, -2, +2 and so on, no two numbers alike.        *)
(***************************************************************************)
LEMMA Ranks ==
  ASSUME NEW a \in Int, NEW c \in Int, ZigZag(a) = ZigZag(c)
  PROVE  a = c
BY DEF ZigZag

(***************************************************************************)
(* The writer's zig-zag: the sign bit spread over the lane turns the       *)
(* doubled number over.                                                    *)
(***************************************************************************)
LEMMA SignedToUnsignedIs ==
  ASSUME NEW v \in Int64
  PROVE  SignedToUnsigned(v) = ZigZag(v) /\ ZigZag(v) \in Lane /\ v \in Int
<1> DEFINE h == Half
           w == LaneModulus
           u == uint64(v)
           doubled == LaneLsh(u, 1)
           sign == LaneRsh(u, LaneBits - 1)
<1>1. h \in Nat \ {0} /\ w \in Nat \ {0} /\ w = h + h /\ v \in -h..h-1 /\ Lane = 0..w-1
      /\ 2^(LaneBits-1) = h
  BY Widths DEF Int64, Lane, Half
<1>2. SignedToUnsigned(v) = LaneXor(doubled, uint64(-sign))
  BY DEF SignedToUnsigned
<1>3. doubled = uint64(v * 2)
  <2>1. 2^1 = 2
    <3>1. 1 = 0 + 1 /\ 2^0 = 1 /\ 2^(0+1) = 2^0 + 2^0
      BY Standing, N!Powers, N!PowerDoubles
    <3> QED BY <3>1
  <2>2. v \in Int /\ 1 \in Nat
    BY <1>1
  <2>3. doubled = uint64(v * 2^1)
    BY <2>2, ShiftedPattern
  <2> QED BY <2>1, <2>3, Zenon
<1>4. sign = u \div h
  BY <1>1, Zenon DEF LaneRsh
<1>5. CASE v < 0
  <2>1. u = v + w
    <3>1. v \in -w..-1
      BY <1>1, <1>5
    <3>2. v % w = v + w
      BY <1>1, <3>1, Below
    <3> QED BY <3>2 DEF uint64
  <2>2. sign = 1
    <3> DEFINE r == v + h
               one == 1
    <3>1. u = one * h + r /\ r \in 0..h-1 /\ one \in Int /\ h \in Nat \ {0}
      BY <1>1, <1>5, <2>1
    <3> HIDE DEF u, r, h, one
    <3>2. u \div h = one
      BY ONLY <3>1, Unique
    <3> QED BY <1>4, <3>2 DEF u, h, one
  <2>3. uint64(-sign) = w - 1
    <3>1. (-1) % w = -1 + w
      <4> DEFINE m == -1
      <4>1. m \in -w..-1
        BY <1>1
      <4> HIDE DEF m
      <4>2. m % w = m + w
        BY <1>1, <4>1, Below
      <4> QED BY <4>2 DEF m
    <3>2. -1 + w = w - 1
      BY <1>1
    <3> QED BY <2>2, <3>1, <3>2, Zenon DEF uint64
  <2>4. doubled = v * 2 + w /\ doubled \in Lane
    <3> DEFINE m == v * 2
    <3>1. m \in -w..-1
      BY <1>1, <1>5
    <3>2. m \in Int /\ m + w \in 0..w-1
      BY <1>1, <3>1
    <3> HIDE DEF m
    <3>3. m % w = m + w
      BY <1>1, <3>1, Below
    <3> QED BY <1>1, <1>3, <3>2, <3>3, Zenon DEF uint64, m
  <2>5. SignedToUnsigned(v) = w - 1 - doubled
    <3> HIDE DEF doubled
    <3>1. LaneXor(doubled, LaneModulus - 1) = LaneModulus - 1 - doubled
      BY <2>4, XorEnds
    <3> QED BY <1>2, <2>3, <3>1, Zenon
  <2>6. ZigZag(v) = -2 * v - 1
    BY <1>5, <1>1 DEF ZigZag
  <2>7. w - 1 - (v * 2 + w) = -2 * v - 1 /\ -2 * v - 1 \in 0..w-1
    BY <1>1, <1>5
  <2>8. v \in Int
    BY <1>1
  <2>9. SignedToUnsigned(v) = w - 1 - (v * 2 + w)
    BY <2>4, <2>5, Zenon
  <2>10. ZigZag(v) \in Lane
    BY <1>1, <2>6, <2>7, Zenon
  <2> QED BY <2>6, <2>7, <2>8, <2>9, <2>10, Zenon
<1>6. CASE ~(v < 0)
  <2>1. u = v
    <3>1. v \in 0..w-1
      BY <1>1, <1>6
    <3>2. v % w = v
      BY <1>1, <3>1, Small
    <3> QED BY <3>2 DEF uint64
  <2>2. sign = 0
    <3>1. v \in 0..h-1
      BY <1>1, <1>6
    <3>2. v \div h = 0
      BY <1>1, <3>1, Small
    <3> QED BY <1>4, <2>1, <3>2, Zenon
  <2>3. uint64(-sign) = 0
    <3> DEFINE s == sign
    <3>1. s \in Int /\ s = 0
      BY <2>2
    <3> HIDE DEF s
    <3>2. -s = 0
      BY <3>1, MinusZero, Zenon
    <3>3. 0 % w = 0
      BY <1>1
    <3> QED BY <3>2, <3>3, Zenon DEF uint64, s
  <2>4. doubled = v * 2 /\ doubled \in Lane
    <3> DEFINE m == v * 2
    <3>1. m \in 0..w-1
      BY <1>1, <1>6
    <3> HIDE DEF m
    <3>2. m % w = m
      BY <1>1, <3>1, Small
    <3> QED BY <1>1, <1>3, <3>1, <3>2, Zenon DEF uint64, m
  <2>5. SignedToUnsigned(v) = doubled
    <3> HIDE DEF doubled
    <3>1. LaneXor(doubled, 0) = doubled
      BY <2>4, XorEnds
    <3> QED BY <1>2, <2>3, <3>1, Zenon
  <2>6. ZigZag(v) = v * 2 /\ v \in Int
    BY <1>1, <1>6 DEF ZigZag
  <2> QED BY <2>4, <2>5, <2>6, Zenon
<1> QED BY <1>1, <1>5, <1>6

(***************************************************************************)
(* The reader's zig-zag: of any lane it makes the number of that rank.     *)
(***************************************************************************)
LEMMA UnsignedToSignedIs ==
  ASSUME NEW u \in Lane
  PROVE  UnsignedToSigned(u) \in Int64 /\ ZigZag(UnsignedToSigned(u)) = u
<1> DEFINE h == Half
           w == LaneModulus
           q == u \div 2
           r == u % 2
<1>1. h \in Nat \ {0} /\ w \in Nat \ {0} /\ w = h + h /\ Int64 = -h..h-1 /\ Lane = 0..w-1
      /\ u \in 0..w-1
  BY Widths DEF Int64, Lane
<1>2. q \in Int /\ r \in 0..1 /\ u = 2 * q + r
  BY <1>1
<1>3. UnsignedToSigned(u) = int64(LaneXor(q, uint64(-r)))
  <2>1. 2^1 = 2
    <3>1. 1 = 0 + 1 /\ 2^0 = 1 /\ 2^(0+1) = 2^0 + 2^0
      BY Standing, N!Powers, N!PowerDoubles
    <3> QED BY <3>1
  <2>2. LaneRsh(u, 1) = q
    BY <2>1, Zenon DEF LaneRsh
  <2> QED BY <2>2, Zenon DEF UnsignedToSigned
<1> HIDE DEF q, r
<1>4. q \in 0..h-1 /\ q \in Lane
  BY <1>1, <1>2
<1>5. CASE r = 0
  <2>1. uint64(-r) = 0
    <3>1. r \in Int
      BY <1>2
    <3>2. -r = 0
      BY <1>5, <3>1, MinusZero, Zenon
    <3>3. 0 % w = 0
      BY <1>1
    <3> QED BY <3>2, <3>3, Zenon DEF uint64
  <2>2. LaneXor(q, 0) = q
    BY <1>4, XorEnds
  <2>3. int64(q) = q
    BY <1>1, <1>4, SignedLane
  <2>4. UnsignedToSigned(u) = q
    BY <1>3, <2>1, <2>2, <2>3, Zenon
  <2>5. ZigZag(q) = 2 * q
    BY <1>4 DEF ZigZag
  <2>6. q \in Int64 /\ 2 * q = u
    BY <1>1, <1>2, <1>4, <1>5
  <2> QED BY <2>4, <2>5, <2>6, Zenon
<1>6. CASE r # 0
  <2>0. r = 1
    BY <1>2, <1>6
  <2>1. uint64(-r) = w - 1
    <3>1. (-1) % w = -1 + w
      <4> DEFINE m == -1
      <4>1. m \in -w..-1
        BY <1>1
      <4> HIDE DEF m
      <4>2. m % w = m + w
        BY <1>1, <4>1, Below
      <4> QED BY <4>2 DEF m
    <3>2. -1 + w = w - 1
      BY <1>1
    <3> QED BY <2>0, <3>1, <3>2, Zenon DEF uint64
  <2>2. LaneXor(q, w - 1) = w - 1 - q
    BY <1>4, XorEnds
  <2> DEFINE x == w - 1 - q
             n == -1 - q
  <2>3. x \in Lane /\ ~(x < h) /\ x - w = n /\ n \in Int64 /\ n < 0 /\ n \in Int
        /\ -2 * n - 1 = 2 * q + 1
    BY <1>1, <1>4
  <2>4. UnsignedToSigned(u) = int64(x)
    BY <1>3, <2>1, <2>2, Zenon
  <2> HIDE DEF x, n
  <2>5. int64(x) = n
    BY <2>3, SignedLane
  <2>6. ZigZag(n) = -2 * n - 1
    BY <2>3 DEF ZigZag
  <2>7. 2 * q + 1 = u
    BY <1>2, <2>0
  <2> QED BY <2>3, <2>4, <2>5, <2>6, <2>7, Zenon
<1> QED BY <1>5, <1>6

-----------------------------------------------------------------------------
(***************************************************************************)
(* What is known of a field at each stage: the wire holds what the writer  *)
(* put there or some group of the declared width, and the result is what   *)
(* the reader made of it.                                                  *)
(***************************************************************************)
FieldInv ==
  /\ declaration \in Declarations
  /\ stage \in {"written", "read"} =>
       value \in Values(declaration) /\ wire = Write(declaration, value)
  /\ stage = "read" => wire.trap = None /\ result = Read(declaration, wire.group)
  /\ stage = "forged" =>
       IF Misdeclared(declaration) THEN result = OutOfRange
       ELSE wire.group \in 0..2^Width(declaration)-1 /\ result = Read(declaration, wire.group)

(***************************************************************************)
(* A field is so from its declaration on.                                  *)
(***************************************************************************)
LEMMA FieldKeeps == FieldInv /\ [Next]_vars => FieldInv'
<1> SUFFICES ASSUME FieldInv, [Next]_vars PROVE FieldInv'
  OBVIOUS
<1> USE DEF FieldInv
<1>1. ASSUME NEW v \in Values(declaration), Serialize(v) PROVE FieldInv'
  <2>1. stage' = "written" /\ value' = v /\ wire' = Write(declaration, v) /\ declaration' = declaration
    BY <1>1 DEF Serialize
  <2> QED BY <2>1
<1>2. CASE Receive
  <2>1. /\ stage = "written" /\ wire.trap = None /\ stage' = "read"
        /\ result' = Read(declaration, wire.group)
        /\ declaration' = declaration /\ value' = value /\ wire' = wire
    BY <1>2 DEF Receive
  <2> QED BY <2>1
<1>3. ASSUME NEW group \in 0..2^WideBits-1, ~Misdeclared(declaration),
             group < 2^Width(declaration), ReceiveAny(group)
      PROVE  FieldInv'
  <2>1. /\ stage' = "forged" /\ wire' = Emits(Width(declaration), group)
        /\ result' = Read(declaration, group) /\ declaration' = declaration
    BY <1>3 DEF ReceiveAny
  <2>2. wire'.group = group
    BY <2>1 DEF Emits
  <2>3. group \in 0..2^Width(declaration)-1
    <3>1. group \in Nat
      BY <1>3, Widths, Standing, N!Powers
    <3>2. Width(declaration) \in Nat
      <4>1. CASE declaration.kind = "zigzag"
        BY <4>1, OfKind, LaneAssumption
      <4>2. CASE declaration.kind # "zigzag"
        <5>1. WellDeclared(declaration) /\ HasTheWidth(declaration)
          BY <1>3, <4>2, FieldIs DEF FieldOf
        <5>2. StorageBits(declaration) \in Nat
          BY Widths DEF StorageBits
        <5> QED BY <5>1, <5>2 DEF HasTheWidth
      <4> QED BY <4>1, <4>2
    <3>3. 2^Width(declaration) \in Nat
      BY <3>2, Standing, N!Powers
    <3> QED BY <1>3, <3>1, <3>3
  <2> QED BY <1>3, <2>1, <2>2, <2>3
<1>4. CASE Refuse
  <2>1. /\ stage' = "forged" /\ Misdeclared(declaration) /\ result' = OutOfRange
        /\ declaration' = declaration
    BY <1>4 DEF Refuse, OutOfRange
  <2> QED BY <2>1
<1>5. CASE UNCHANGED vars
  BY <1>5 DEF vars
<1> QED BY <1>1, <1>2, <1>3, <1>4, <1>5 DEF Next

(***************************************************************************)
(* A zig-zag number is always declared well, and any lane is its wire.     *)
(***************************************************************************)
LEMMA ZigZagIs ==
  ASSUME NEW d \in Declarations, d.kind = "zigzag"
  PROVE  /\ WellDeclared(d) /\ ~Misdeclared(d) /\ Values(d) = Int64
         /\ 0..2^Width(d)-1 = Lane
         /\ \A v \in Int64 : Write(d, v) = Emits(LaneBits, ZigZag(v)) /\ ZigZag(v) \in Lane
         /\ \A g \in Lane : Read(d, g) = Returns(UnsignedToSigned(g))
<1>1. WellDeclared(d)
  <2>1. d.min = 0 /\ d.max = 0
    BY DeclarationParts
  <2> QED BY <2>1 DEF WellDeclared
<1>2. /\ ~IsWide(d) /\ ~Misdeclared(d) /\ Width(d) = LaneBits
      /\ \A x : /\ Write(d, x) = Emits(LaneBits, SignedToUnsigned(x))
                /\ Read(d, x) = Returns(UnsignedToSigned(x))
  BY OfKind
<1>3. 0..2^Width(d)-1 = Lane
  BY <1>2 DEF Lane, LaneModulus
<1>4. Values(d) = Int64
  BY <1>2 DEF Values
<1>5. \A v \in Int64 : SignedToUnsigned(v) = ZigZag(v) /\ ZigZag(v) \in Lane
  BY SignedToUnsignedIs
<1> QED BY <1>1, <1>2, <1>3, <1>4, <1>5, Zenon

(***************************************************************************)
(* Every state a field can be in is as FieldInv says.                      *)
(***************************************************************************)
LEMMA FieldInvariant == Spec => []FieldInv
<1>1. Init => FieldInv
  <2> SUFFICES ASSUME Init PROVE FieldInv
    OBVIOUS
  <2>1. declaration \in Declarations /\ stage = "declared"
    BY DEF Init
  <2> QED BY <2>1 DEF FieldInv
<1> QED BY <1>1, FieldKeeps, PTL DEF Spec

(***************************************************************************)
(* A write panics on a declaration that means nothing and on a value       *)
(* outside its bounds, and on nothing else, in lanes of any width and in   *)
(* every format.                                                           *)
(***************************************************************************)
THEOREM WritesInRange == Spec => []PanicsOutsideTheRange
<1>1. FieldInv => PanicsOutsideTheRange
  <2> SUFFICES ASSUME FieldInv, stage \in {"written", "read"}
               PROVE  wire.trap = None
                        <=> WellDeclared(declaration)
                              /\ InRange(declaration, Raw(declaration, value))
    BY DEF PanicsOutsideTheRange
  <2> DEFINE d == declaration
             v == value
  <2>1. d \in Declarations /\ v \in Values(d) /\ wire = Write(d, v)
    BY DEF FieldInv
  <2>2. \A bits, group : Emits(bits, group).trap = None
    BY DEF Emits
  <2> HIDE DEF d, v
  <2>3. CASE d.kind = "zigzag"
    <3>1. WellDeclared(d) /\ v \in Int64 /\ wire = Emits(LaneBits, ZigZag(v))
      BY <2>1, <2>3, ZigZagIs
    <3>2. InRange(d, Raw(d, v))
      BY <2>3 DEF InRange
    <3> QED BY <2>2, <3>1, <3>2, Zenon DEF d, v
  <2>4. CASE d.kind # "zigzag"
    <3>1. WritesTheOffset(d)
      BY <2>1, <2>4, FieldIs DEF FieldOf
    <3>2. IF WellDeclared(d) /\ Raw(d, v) \in Lowest(d)..Highest(d)
            THEN wire = Emits(Width(d), Raw(d, v) - Lowest(d))
            ELSE wire.trap # None
      BY <2>1, <3>1, Zenon DEF WritesTheOffset
    <3>3. InRange(d, Raw(d, v)) <=> Raw(d, v) \in Lowest(d)..Highest(d)
      BY <2>4, Zenon DEF InRange
    <3>4. wire.trap = None <=> WellDeclared(d) /\ Raw(d, v) \in Lowest(d)..Highest(d)
      BY <2>2, <3>2, Zenon
    <3> QED BY <3>3, <3>4, Zenon DEF d, v
  <2> QED BY <2>3, <2>4
<1> QED BY <1>1, FieldInvariant, PTL

(***************************************************************************)
(* What is written is the distance from the minimum, in the fewest bits    *)
(* that hold the range; a zig-zag number is its rank.                      *)
(***************************************************************************)
THEOREM WritesTheDistance == Spec => []WireIsTheOffset
<1>1. FieldInv => WireIsTheOffset
  <2> DEFINE d == declaration
             v == value
  <2> SUFFICES ASSUME FieldInv, stage = "written", wire.trap = None
               PROVE  IF d.kind = "zigzag" THEN wire = Emits(LaneBits, ZigZag(v))
                      ELSE /\ wire.group = Raw(d, v) - Lowest(d)
                           /\ Span(d) < 2^wire.bits
                           /\ wire.bits > 0 => Span(d) >= 2^(wire.bits - 1)
    BY DEF WireIsTheOffset, Span
  <2>1. d \in Declarations /\ v \in Values(d) /\ wire = Write(d, v)
    BY DEF FieldInv
  <2> HIDE DEF d, v
  <2>2. CASE d.kind = "zigzag"
    <3>1. v \in Int64 /\ wire = Emits(LaneBits, ZigZag(v))
      BY <2>1, <2>2, ZigZagIs
    <3> QED BY <2>2, <3>1
  <2>3. CASE d.kind # "zigzag"
    <3>1. WritesTheOffset(d) /\ HasTheWidth(d)
      BY <2>1, <2>3, FieldIs DEF FieldOf
    <3>2. WellDeclared(d) /\ wire = Emits(Width(d), Raw(d, v) - Lowest(d))
      BY <2>1, <3>1, Zenon DEF WritesTheOffset
    <3>3. wire.bits = Width(d) /\ wire.group = Raw(d, v) - Lowest(d)
      BY <3>2 DEF Emits
    <3>4. IsLength(Span(d), Width(d)) /\ Width(d) \in Nat /\ Span(d) \in Int
      <4>1. StorageBits(d) \in Nat
        BY Widths DEF StorageBits
      <4>2. Span(d) \in Int
        BY <2>1, <2>3, <3>2, DeclaredRange DEF Span
      <4> QED BY <3>1, <3>2, <4>1, <4>2 DEF HasTheWidth
    <3>5. Span(d) < 2^Width(d) /\ (Width(d) > 0 => 2^(Width(d) - 1) <= Span(d))
      BY <3>4 DEF IsLength
    <3>6. Width(d) > 0 => Span(d) >= 2^(Width(d) - 1)
      <4> SUFFICES ASSUME Width(d) > 0 PROVE Span(d) >= 2^(Width(d) - 1)
        OBVIOUS
      <4>1. Width(d) - 1 \in Nat
        BY <3>4
      <4>2. 2^(Width(d) - 1) \in Nat
        BY <4>1, Standing, N!Powers
      <4> QED BY <3>4, <3>5, <4>2
    <3> QED BY <2>3, <3>3, <3>5, <3>6, Zenon
  <2> QED BY <2>2, <2>3
<1> QED BY <1>1, FieldInvariant, PTL

(***************************************************************************)
(* What was written is what is read.                                       *)
(***************************************************************************)
LEMMA ReadsBack ==
  ASSUME NEW d \in Declarations, NEW v \in Values(d), Write(d, v).trap = None
  PROVE  Read(d, Write(d, v).group) = Returns(v)
<1>1. CASE d.kind = "zigzag"
  <2>1. v \in Int64 /\ Write(d, v) = Emits(LaneBits, ZigZag(v)) /\ ZigZag(v) \in Lane
    BY <1>1, ZigZagIs
  <2> DEFINE g == ZigZag(v)
             r == UnsignedToSigned(g)
  <2>2. Write(d, v).group = g
    BY <2>1 DEF Emits
  <2>3. g \in Lane
    BY <2>1
  <2> HIDE DEF g
  <2>4. Read(d, g) = Returns(r)
    BY <1>1, <2>3, ZigZagIs
  <2>5. r \in Int64 /\ ZigZag(r) = g
    BY <2>3, UnsignedToSignedIs
  <2>6. r \in Int /\ v \in Int
    BY <2>1, <2>5, Widths DEF Int64
  <2> HIDE DEF r
  <2>7. r = v
    <3>1. ZigZag(r) = ZigZag(v)
      BY <2>5 DEF g
    <3> QED BY <2>6, <3>1, Ranks
  <2> QED BY <2>2, <2>4, <2>7, Zenon
<1>2. CASE d.kind # "zigzag"
  <2>1. WritesTheOffset(d) /\ HasTheWidth(d) /\ ReadsTheOffset(d)
    BY <1>2, FieldIs DEF FieldOf
  <2> DEFINE raw == Raw(d, v)
             lo == Lowest(d)
             hi == Highest(d)
             g == raw - lo
  <2>2. WellDeclared(d) /\ raw \in lo..hi /\ Write(d, v) = Emits(Width(d), raw - lo)
    BY <2>1, Zenon DEF WritesTheOffset
  <2>3. Write(d, v).group = g
    BY <2>2 DEF Emits
  <2>4. lo \in Int /\ hi \in Int /\ lo <= hi /\ Span(d) = hi - lo
    BY <1>2, <2>2, DeclaredRange DEF Span
  <2>5. Store(d, raw) = v
    BY RawIsHeld
  <2>6. Width(d) \in Nat /\ IsLength(Span(d), Width(d))
    <3>1. StorageBits(d) \in Nat
      BY Widths DEF StorageBits
    <3> QED BY <2>1, <2>2, <3>1 DEF HasTheWidth
  <2> HIDE DEF raw, lo, hi
  <2>7. g \in 0..Span(d) /\ Span(d) \in Nat /\ lo + g = raw /\ g <= Span(d)
    BY <2>2, <2>4
  <2> HIDE DEF g
  <2>8. g \in 0..2^Width(d)-1
    BY <2>6, <2>7, OffsetFits
  <2>9. Read(d, g) = Returns(Store(d, lo + g))
    BY <2>1, <2>2, <2>7, <2>8, Zenon DEF ReadsTheOffset, lo
  <2> QED BY <2>3, <2>5, <2>7, <2>9, Zenon
<1> QED BY <1>1, <1>2

(***************************************************************************)
(* A group of the declared width is read as the value it is the offset of, *)
(* or refused.                                                             *)
(***************************************************************************)
LEMMA ReadsAny ==
  ASSUME NEW d \in Declarations, d.kind # "zigzag", WellDeclared(d), NEW g \in 0..2^Width(d)-1
  PROVE  IF InRange(d, Lowest(d) + g)
           THEN /\ Read(d, g).refusal = None
                /\ Raw(d, Read(d, g).value) = Lowest(d) + g
           ELSE Read(d, g) = OutOfRange
<1> DEFINE lo == Lowest(d)
           hi == Highest(d)
           raw == lo + g
<1>1. HasTheWidth(d) /\ ReadsTheOffset(d)
  BY FieldIs DEF FieldOf
<1>2. lo \in Int /\ hi \in Int /\ lo <= hi /\ Span(d) = hi - lo
      /\ \A n \in lo..hi : Holdable(d, n)
  BY RangeOnTheRing DEF Span
<1>3. g \in Nat
  <2>1. Width(d) \in Nat
    <3>1. StorageBits(d) \in Nat
      BY Widths DEF StorageBits
    <3> QED BY <1>1, <3>1 DEF HasTheWidth
  <2> QED BY <2>1, Standing, N!Powers
<1>4. Read(d, g) = IF g <= Span(d) THEN Returns(Store(d, raw)) ELSE OutOfRange
  BY <1>1, Zenon DEF ReadsTheOffset
<1>5. InRange(d, raw) <=> raw \in lo..hi
  BY Zenon DEF InRange
<1> HIDE DEF lo, hi
<1>6. raw \in Int /\ (raw \in lo..hi <=> g <= Span(d))
  BY <1>2, <1>3
<1> HIDE DEF raw
<1>7. CASE raw \in lo..hi
  <2>1. Raw(d, Store(d, raw)) = raw
    BY <1>2, <1>6, <1>7, StoreHolds
  <2>2. Read(d, g) = Returns(Store(d, raw))
    BY <1>4, <1>6, <1>7, Zenon
  <2>3. Read(d, g).refusal = None /\ Read(d, g).value = Store(d, raw)
    BY <2>2 DEF Returns
  <2>4. Raw(d, Read(d, g).value) = raw
    BY <2>1, <2>3, Zenon
  <2> QED BY <1>5, <1>7, <2>3, <2>4, Zenon DEF raw, lo
<1>8. CASE ~(raw \in lo..hi)
  <2>1. Read(d, g) = OutOfRange
    BY <1>4, <1>6, <1>8, Zenon
  <2> QED BY <1>5, <1>8, <2>1, Zenon DEF raw, lo
<1> QED BY <1>7, <1>8

(***************************************************************************)
(* A reader returns what was written, and of any other bits the value they *)
(* are the offset of, or it refuses them: outside the range, and whatever  *)
(* they are under a declaration that means nothing.                        *)
(***************************************************************************)
THEOREM ReadsInRange == Spec => []ReadsTheRange
<1>1. FieldInv => ReadsTheRange
  <2> SUFFICES ASSUME FieldInv PROVE ReadsTheRange
    OBVIOUS
  <2> DEFINE d == declaration
             g == wire.group
  <2>0. d \in Declarations
    BY DEF FieldInv
  <2>1. ASSUME stage = "read" PROVE result = Returns(value)
    <3>1. value \in Values(d) /\ wire = Write(d, value) /\ wire.trap = None /\ result = Read(d, wire.group)
      BY <2>1 DEF FieldInv
    <3> HIDE DEF d
    <3>2. Read(d, Write(d, value).group) = Returns(value)
      BY <2>0, <3>1, ReadsBack
    <3> QED BY <3>1, <3>2, Zenon
  <2>2. ASSUME stage = "forged"
        PROVE  IF ~WellDeclared(d) THEN result = OutOfRange
               ELSE IF d.kind = "zigzag" THEN g = ZigZag(result.value)
               ELSE IF InRange(d, Lowest(d) + g)
                      THEN result.refusal = None /\ Raw(d, result.value) = Lowest(d) + g
                      ELSE result = OutOfRange
    <3>1. IF Misdeclared(d) THEN result = OutOfRange
          ELSE g \in 0..2^Width(d)-1 /\ result = Read(d, g)
      BY <2>2 DEF FieldInv
    <3> HIDE DEF d, g
    <3>2. CASE d.kind = "zigzag"
      <4>1. WellDeclared(d) /\ g \in Lane /\ result = Read(d, g)
        BY <2>0, <3>1, <3>2, ZigZagIs
      <4>2. result = Returns(UnsignedToSigned(g))
        BY <2>0, <3>2, <4>1, ZigZagIs
      <4>3. result.value = UnsignedToSigned(g)
        BY <4>2 DEF Returns
      <4>4. ZigZag(UnsignedToSigned(g)) = g
        BY <4>1, UnsignedToSignedIs
      <4> QED BY <3>2, <4>1, <4>3, <4>4, Zenon
    <3>3. CASE d.kind # "zigzag"
      <4>1. Misdeclared(d) <=> ~WellDeclared(d)
        BY <2>0, <3>3, FieldIs DEF FieldOf
      <4>2. CASE ~WellDeclared(d)
        BY <3>1, <4>1, <4>2, Zenon
      <4>3. CASE WellDeclared(d)
        <5>1. g \in 0..2^Width(d)-1 /\ result = Read(d, g)
          BY <3>1, <4>1, <4>3
        <5>2. IF InRange(d, Lowest(d) + g)
                THEN Read(d, g).refusal = None /\ Raw(d, Read(d, g).value) = Lowest(d) + g
                ELSE Read(d, g) = OutOfRange
          BY <2>0, <3>3, <4>3, <5>1, ReadsAny
        <5> QED BY <3>3, <4>3, <5>1, <5>2, Zenon
      <4> QED BY <4>2, <4>3
    <3> QED BY <3>2, <3>3
  <2> QED BY <2>1, <2>2, Zenon DEF ReadsTheRange, OutOfRange
<1> QED BY <1>1, FieldInvariant, PTL
=============================================================================

--------------------------- MODULE CodecProofs ---------------------------
(***************************************************************************)
(* What the proofs of the components cite.  First bit positions and words, *)
(* for every number of bits in a byte and of bytes in a word; then powers  *)
(* of two; then the encodings of numbers, for every value and width: a     *)
(* field and its value determine each other, and a range needs the bits    *)
(* BitsRequired gives it.                                                  *)
(***************************************************************************)
EXTENDS Codec, TLAPS, FiniteSetTheorems

-----------------------------------------------------------------------------
(***************************************************************************)
(* Division with remainder, in the form the other lemmas use it.           *)
(***************************************************************************)
LEMMA DivMod ==
  ASSUME NEW n \in Nat, NEW w \in Nat \ {0}
  PROVE  /\ n \div w \in Nat
         /\ n % w \in 0..w-1
         /\ n = (n \div w) * w + (n % w)
OBVIOUS

(***************************************************************************)
(* The remainder and the quotient of any integer by a width.               *)
(***************************************************************************)
LEMMA ModRange ==
  ASSUME NEW n \in Int, NEW w \in Nat \ {0}
  PROVE  n % w \in 0..w-1 /\ n \div w \in Int
OBVIOUS

(***************************************************************************)
(* A quotient and a remainder in range are the quotient and the remainder. *)
(***************************************************************************)
LEMMA DivModUnique ==
  ASSUME NEW q \in Int, NEW w \in Nat \ {0}, NEW r \in 0..w-1
  PROVE  (q * w + r) % w = r /\ (q * w + r) \div w = q
OBVIOUS

(***************************************************************************)
(* Multiplying by a width keeps the order of two numbers.                  *)
(***************************************************************************)
LEMMA Products ==
  ASSUME NEW a \in Int, NEW b \in Int, NEW w \in Nat \ {0}
  PROVE  /\ a * w \in Int
         /\ a <= b <=> a * w <= b * w
         /\ a < b <=> a * w < b * w
OBVIOUS

(***************************************************************************)
(* The remainder of a sum: no wrap, one wrap, whole words.                 *)
(***************************************************************************)
LEMMA ModStay ==
  ASSUME NEW n \in Nat, NEW k \in Nat, NEW w \in Nat \ {0}, (n % w) + k < w
  PROVE  (n + k) % w = (n % w) + k
<1> DEFINE q == n \div w
           r == n % w
<1>1. q \in Nat /\ r \in 0..w-1 /\ n = q * w + r
  BY DivMod
<1>2. r + k < w
  OBVIOUS
<1> HIDE DEF q, r
<1>3. n + k = q * w + (r + k) /\ r + k \in 0..w-1
  BY <1>1, <1>2
<1>4. (n + k) % w = r + k
  BY <1>1, <1>3, DivModUnique
<1> QED BY <1>4 DEF r

(***************************************************************************)
(* The remainder of a sum that reaches the width once.                     *)
(***************************************************************************)
LEMMA ModWrap ==
  ASSUME NEW n \in Nat, NEW k \in Nat, NEW w \in Nat \ {0}, (n % w) + k >= w, k <= w
  PROVE  (n + k) % w = (n % w) + k - w
<1> DEFINE q == n \div w
           r == n % w
<1>1. q \in Nat /\ r \in 0..w-1 /\ n = q * w + r
  BY DivMod
<1>2. r + k >= w
  OBVIOUS
<1> HIDE DEF q, r
<1> DEFINE p == q + 1
           t == r + k - w
<1>3. n + k = p * w + t /\ t \in 0..w-1 /\ p \in Int
  BY <1>1, <1>2
<1> HIDE DEF p, t
<1>4. (p * w + t) % w = t
  BY <1>3, DivModUnique
<1>5. (n + k) % w = t
  BY <1>3, <1>4
<1> QED BY <1>5 DEF r, t

(***************************************************************************)
(* Whole words added to a position do not change its remainder.            *)
(***************************************************************************)
LEMMA ModWords ==
  ASSUME NEW n \in Nat, NEW k \in Nat, NEW w \in Nat \ {0}
  PROVE  (n + k * w) % w = n % w
<1> DEFINE q == n \div w
           r == n % w
<1>1. q \in Nat /\ r \in 0..w-1 /\ n = q * w + r
  BY DivMod
<1> HIDE DEF q, r
<1>3. n + k * w = (q + k) * w + r /\ q + k \in Int
  BY <1>1
<1>4. (n + k * w) % w = r
  BY <1>1, <1>3, DivModUnique
<1> QED BY <1>4 DEF r

-----------------------------------------------------------------------------
(***************************************************************************)
(* A word has at least one bit, and at least the bits of a byte.           *)
(***************************************************************************)
LEMMA WordBitsType == WordBits \in Nat \ {0} /\ ByteBits <= WordBits
<1>1. WordBytes \in Nat \ {0} /\ ByteBits \in Nat \ {0}
  BY GeometryAssumption
<1>2. 1 * ByteBits <= WordBytes * ByteBits /\ WordBytes * ByteBits \in Int
  BY <1>1, Products
<1> QED BY <1>1, <1>2 DEF WordBits

(***************************************************************************)
(* A position is a word address and the bits pending there.                *)
(***************************************************************************)
LEMMA PositionSplit ==
  ASSUME NEW pos \in Nat
  PROVE  /\ Pending(pos) \in 0..WordBits-1
         /\ WordBase(pos) \in 0..pos
         /\ pos = WordBase(pos) + Pending(pos)
         /\ WordBase(pos) = (pos \div WordBits) * WordBits
         /\ pos \div WordBits \in Nat
<1>1. /\ pos \div WordBits \in Nat
      /\ pos % WordBits \in 0..WordBits-1
      /\ pos = (pos \div WordBits) * WordBits + (pos % WordBits)
  BY WordBitsType, DivMod
<1>2. (pos \div WordBits) * WordBits \in Int /\ (pos \div WordBits) * WordBits >= 0
  BY <1>1, WordBitsType
<1> QED BY <1>1, <1>2, WordBitsType DEF Pending, WordBase

(***************************************************************************)
(* A piece that does not fill the pending word leaves the position in it.  *)
(***************************************************************************)
LEMMA PositionStay ==
  ASSUME NEW pos \in Nat, NEW n \in Nat, Pending(pos) + n < WordBits
  PROVE  Pending(pos + n) = Pending(pos) + n /\ WordBase(pos + n) = WordBase(pos)
<1>1. (pos + n) % WordBits = (pos % WordBits) + n
  BY ModStay, WordBitsType DEF Pending
<1>2. pos % WordBits \in Int
  BY DivMod, WordBitsType
<1> QED BY <1>1, <1>2 DEF Pending, WordBase

(***************************************************************************)
(* A piece that fills it moves the position into the next word.            *)
(***************************************************************************)
LEMMA PositionSpill ==
  ASSUME NEW pos \in Nat, NEW n \in 0..WordBits, Pending(pos) + n >= WordBits
  PROVE  /\ Pending(pos + n) = Pending(pos) + n - WordBits
         /\ WordBase(pos + n) = WordBase(pos) + WordBits
<1>1. (pos + n) % WordBits = (pos % WordBits) + n - WordBits
  <2>1. n \in Nat /\ n <= WordBits /\ (pos % WordBits) + n >= WordBits
    BY WordBitsType DEF Pending
  <2> HIDE DEF Pending
  <2> QED BY <2>1, ModWrap, WordBitsType
<1>2. pos % WordBits \in Int
  BY DivMod, WordBitsType
<1> QED BY <1>1, <1>2, WordBitsType DEF Pending, WordBase

(***************************************************************************)
(* A block of whole words leaves the number of pending bits as it is.      *)
(***************************************************************************)
LEMMA PositionWords ==
  ASSUME NEW pos \in Nat, NEW k \in Nat
  PROVE  Pending(pos + k * WordBits) = Pending(pos)
BY ModWords, WordBitsType DEF Pending

(***************************************************************************)
(* In a buffer of whole words the word of a position in it is inside.      *)
(***************************************************************************)
LEMMA WordInside ==
  ASSUME NEW words \in Nat, NEW pos \in 0..words * WordBits, Pending(pos) # 0
  PROVE  WordBase(pos) + WordBits <= words * WordBits
<1> DEFINE q == pos \div WordBits
<1>1. words * WordBits \in Nat /\ pos \in Nat
  BY WordBitsType
<1>2. q \in Nat /\ WordBase(pos) = q * WordBits /\ WordBase(pos) < pos
  <2>1. /\ Pending(pos) \in 0..WordBits-1
        /\ WordBase(pos) \in 0..pos
        /\ pos = WordBase(pos) + Pending(pos)
    BY <1>1, PositionSplit
  <2>2. WordBase(pos) = q * WordBits /\ q \in Nat
    BY <1>1, PositionSplit
  <2> QED BY <2>1, <2>2, <1>1, WordBitsType
<1> HIDE DEF q
<1>3. q * WordBits < words * WordBits
  BY <1>1, <1>2, WordBitsType
<1>4. q + 1 <= words
  BY <1>2, <1>3, Products, WordBitsType
<1>5. (q + 1) * WordBits <= words * WordBits
  BY <1>2, <1>4, Products, WordBitsType
<1>6. (q + 1) * WordBits = q * WordBits + WordBits
  BY <1>2, WordBitsType
<1> QED BY <1>2, <1>5, <1>6

-----------------------------------------------------------------------------
(***************************************************************************)
(* An align ends at the least byte boundary not before the position, which *)
(* is what (bitsWritten + 7) / 8 bytes hold.                               *)
(***************************************************************************)
LEMMA AlignPadValue ==
  ASSUME NEW pos \in Nat
  PROVE  /\ pos % ByteBits \in 0..ByteBits-1
         /\ AlignPad(pos) = IF pos % ByteBits = 0 THEN 0 ELSE ByteBits - (pos % ByteBits)
<1> DEFINE r == pos % ByteBits
<1>1. r \in 0..ByteBits-1 /\ ByteBits \in Nat \ {0}
  BY DivMod, GeometryAssumption
<1> HIDE DEF r
<1>2. CASE r = 0
  <2>1. (1 * ByteBits + 0) % ByteBits = 0
    BY <1>1, DivModUnique
  <2>2. (ByteBits - r) % ByteBits = 0
    BY <2>1, <1>1, <1>2
  <2> QED BY <2>2, <1>1, <1>2 DEF AlignPad, r
<1>3. CASE r # 0
  <2>1. ByteBits - r \in 0..ByteBits-1
    BY <1>1, <1>3
  <2>2. (0 * ByteBits + (ByteBits - r)) % ByteBits = ByteBits - r
    BY <2>1, <1>1, DivModUnique
  <2>3. (ByteBits - r) % ByteBits = ByteBits - r
    BY <2>2, <2>1, <1>1
  <2> QED BY <2>3, <1>1, <1>3 DEF AlignPad, r
<1> QED BY <1>2, <1>3

(***************************************************************************)
(* Rounding a position up to a byte is BytesWritten, in bits.              *)
(***************************************************************************)
LEMMA RoundUpBytes ==
  ASSUME NEW pos \in Nat
  PROVE  /\ AlignPad(pos) \in 0..ByteBits-1
         /\ RoundUp(pos) \in Nat
         /\ (pos + ByteBits - 1) \div ByteBits \in Nat
         /\ RoundUp(pos) = ((pos + ByteBits - 1) \div ByteBits) * ByteBits
<1> DEFINE q == pos \div ByteBits
           r == pos % ByteBits
<1>1. /\ q \in Nat /\ r \in 0..ByteBits-1 /\ pos = q * ByteBits + r
      /\ ByteBits \in Nat \ {0}
  BY DivMod, GeometryAssumption
<1>2. AlignPad(pos) = IF r = 0 THEN 0 ELSE ByteBits - r
  BY AlignPadValue
<1> HIDE DEF q, r
<1>3. AlignPad(pos) \in 0..ByteBits-1 /\ RoundUp(pos) \in Nat
  BY <1>1, <1>2 DEF RoundUp
<1>4. CASE r = 0
  <2>1. pos + ByteBits - 1 = q * ByteBits + (ByteBits - 1) /\ ByteBits - 1 \in 0..ByteBits-1
    BY <1>1, <1>4
  <2>2. (pos + ByteBits - 1) \div ByteBits = q
    BY <2>1, <1>1, DivModUnique
  <2> QED BY <2>2, <1>1, <1>2, <1>3, <1>4 DEF RoundUp
<1>5. CASE r # 0
  <2> DEFINE p == q + 1
             t == r - 1
  <2>1. pos + ByteBits - 1 = p * ByteBits + t /\ t \in 0..ByteBits-1 /\ p \in Nat
    BY <1>1, <1>5
  <2>2. p * ByteBits = pos + (ByteBits - r)
    BY <1>1
  <2> HIDE DEF p, t
  <2>3. (pos + ByteBits - 1) \div ByteBits = p
    BY <2>1, <1>1, DivModUnique
  <2> QED BY <2>1, <2>2, <2>3, <1>1, <1>2, <1>3, <1>5 DEF RoundUp
<1> QED BY <1>4, <1>5

(***************************************************************************)
(* It is the least whole number of bytes that covers the position.         *)
(***************************************************************************)
LEMMA RoundUpLeast ==
  ASSUME NEW pos \in Nat, NEW m \in Nat, pos <= m * ByteBits
  PROVE  RoundUp(pos) <= m * ByteBits
<1> DEFINE k == (pos + ByteBits - 1) \div ByteBits
<1>1. /\ ByteBits \in Nat \ {0}
      /\ k \in Nat
      /\ RoundUp(pos) = k * ByteBits
      /\ RoundUp(pos) = pos + AlignPad(pos)
      /\ AlignPad(pos) \in 0..ByteBits-1
  BY RoundUpBytes, GeometryAssumption DEF RoundUp
<1> HIDE DEF k
<1>2. k * ByteBits < m * ByteBits + ByteBits
  BY <1>1
<1>3. m * ByteBits + ByteBits = (m + 1) * ByteBits
  BY <1>1
<1>4. k < m + 1
  BY <1>1, <1>2, <1>3, Products
<1>5. k * ByteBits <= m * ByteBits
  BY <1>1, <1>4, Products
<1> QED BY <1>1, <1>5

(***************************************************************************)
(* A whole number of bytes, counted in bytes and in bits, and the two      *)
(* coordinates of a position in it.                                        *)
(***************************************************************************)
LEMMA InBytes ==
  ASSUME NEW n \in Nat
  PROVE  /\ n \div ByteBits \in Nat /\ n % ByteBits \in 0..ByteBits-1
         /\ n = (n \div ByteBits) * ByteBits + (n % ByteBits)
         /\ n % ByteBits = 0 => n = (n \div ByteBits) * ByteBits
<1>1. ByteBits \in Nat \ {0}
  BY GeometryAssumption
<1>2. /\ n \div ByteBits \in Nat /\ n % ByteBits \in 0..ByteBits-1
      /\ n = (n \div ByteBits) * ByteBits + (n % ByteBits)
  BY <1>1, DivMod
<1>3. n % ByteBits = 0 => n = (n \div ByteBits) * ByteBits
  BY <1>1, <1>2
<1> QED BY <1>2, <1>3

(***************************************************************************)
(* Rounding up to a byte stays in the word, and in a buffer of words.      *)
(***************************************************************************)
LEMMA WordsOfBytes ==
  ASSUME NEW k \in Nat
  PROVE  k * WordBits = (k * WordBytes) * ByteBits /\ k * WordBytes \in Nat
BY GeometryAssumption DEF WordBits

(***************************************************************************)
(* It stays in the pending word, and in any buffer of whole words the      *)
(* position is in.                                                         *)
(***************************************************************************)
LEMMA RoundUpInside ==
  ASSUME NEW pos \in Nat
  PROVE  /\ Pending(pos) = 0 => RoundUp(pos) = pos
         /\ RoundUp(pos) <= WordBase(pos) + WordBits
         /\ \A words \in Nat : pos <= words * WordBits => RoundUp(pos) <= words * WordBits
<1>1. \A words \in Nat : pos <= words * WordBits => RoundUp(pos) <= words * WordBits
  BY WordsOfBytes, RoundUpLeast
<1> DEFINE q == pos \div WordBits
<1>2. q \in Nat /\ WordBase(pos) = q * WordBits
  BY PositionSplit
<1>3. Pending(pos) \in 0..WordBits-1 /\ pos = WordBase(pos) + Pending(pos)
  BY PositionSplit
<1>4. AlignPad(pos) \in Nat /\ RoundUp(pos) = pos + AlignPad(pos)
  BY RoundUpBytes DEF RoundUp
<1> HIDE DEF q
<1>5. (q + 1) * WordBits = WordBase(pos) + WordBits /\ q + 1 \in Nat
  BY <1>2, WordBitsType
<1>6. RoundUp(pos) <= WordBase(pos) + WordBits
  <2>1. pos <= (q + 1) * WordBits
    BY <1>2, <1>3, <1>5, WordBitsType
  <2> QED BY <2>1, <1>1, <1>5
<1>7. ASSUME Pending(pos) = 0 PROVE RoundUp(pos) = pos
  <2>1. pos = q * WordBits
    BY <1>2, <1>3, <1>7, WordBitsType
  <2>2. RoundUp(pos) <= pos
    BY <2>1, <1>1, <1>2
  <2> QED BY <2>2, <1>4
<1> QED BY <1>1, <1>6, <1>7

(***************************************************************************)
(* The bytes left in the word of an aligned position lead to a word        *)
(* boundary: the head bytes of writeBytes.                                 *)
(***************************************************************************)
LEMMA HeadReachesWord ==
  ASSUME NEW m \in Nat
  PROVE  LET pos  == m * ByteBits
             room == (WordBytes - (Pending(pos) \div ByteBits)) % WordBytes
         IN  room \in Nat /\ Pending(pos + room * ByteBits) = 0
<1> DEFINE p == m \div WordBytes
           j == m % WordBytes
           pos == m * ByteBits
           room == (WordBytes - (Pending(pos) \div ByteBits)) % WordBytes
<1>0. WordBytes \in Nat \ {0} /\ ByteBits \in Nat \ {0} /\ WordBits = WordBytes * ByteBits
  BY GeometryAssumption DEF WordBits
<1>1. p \in Nat /\ j \in 0..WordBytes-1 /\ m = p * WordBytes + j
  BY <1>0, DivMod
<1> HIDE DEF p, j
<1>2. pos = p * WordBits + j * ByteBits
  BY <1>0, <1>1
<1>3. j * ByteBits \in 0..WordBits-1
  <2>1. j * ByteBits < WordBytes * ByteBits /\ 0 * ByteBits <= j * ByteBits
    BY <1>0, <1>1, Products
  <2> QED BY <2>1, <1>0, <1>1, Products
<1> DEFINE jb == j * ByteBits
<1>4. Pending(pos) = jb
  <2> HIDE DEF pos, jb, room
  <2>1. pos = p * WordBits + jb /\ jb \in 0..WordBits-1
    BY <1>2, <1>3 DEF jb
  <2>2. (p * WordBits + jb) % WordBits = jb
    <3>1. p \in Int /\ WordBits \in Nat \ {0} /\ jb \in 0..WordBits-1
      BY <2>1, <1>1, WordBitsType
    <3> QED BY <3>1, DivModUnique
  <2> QED BY <2>1, <2>2 DEF Pending
<1>5. Pending(pos) \div ByteBits = j
  <2>1. (j * ByteBits + 0) \div ByteBits = j
    BY <1>0, <1>1, DivModUnique
  <2> QED BY <2>1, <1>4, <1>3
<1>6. room = (WordBytes - j) % WordBytes
  BY <1>5
<1> HIDE DEF room
<1>7. CASE j = 0
  <2>1. (1 * WordBytes + 0) % WordBytes = 0
    BY <1>0, DivModUnique
  <2>2. room = 0
    BY <2>1, <1>0, <1>6, <1>7
  <2>3. jb = 0
    BY <1>0, <1>7
  <2> HIDE DEF jb
  <2>4. pos + room * ByteBits = pos
    BY <2>2, <1>0
  <2> QED BY <2>2, <2>3, <2>4, <1>4 DEF room
<1>8. CASE j # 0
  <2>1. WordBytes - j \in 0..WordBytes-1
    BY <1>0, <1>1, <1>8
  <2>2. (0 * WordBytes + (WordBytes - j)) % WordBytes = WordBytes - j
    BY <2>1, <1>0, DivModUnique
  <2>3. room = WordBytes - j
    BY <2>1, <2>2, <1>0, <1>1, <1>6
  <2>4. pos + room * ByteBits = (p + 1) * WordBits
    BY <2>3, <1>0, <1>1, <1>2
  <2>5. ((p + 1) * WordBits + 0) % WordBits = 0
    BY <1>1, WordBitsType, DivModUnique
  <2>6. room \in Nat
    BY <2>1, <2>3
  <2> QED BY <2>4, <2>5, <2>6, <1>1, WordBitsType DEF Pending, room
<1> QED BY <1>7, <1>8, <1>1

-----------------------------------------------------------------------------
(***************************************************************************)
(* What the word operations return.                                        *)
(***************************************************************************)
LEMMA ZeroWordType == ZeroWord \in Word
BY DEF ZeroWord, Word, Bit

(***************************************************************************)
(* The value of a piece: the bits of the sequence from k on, masked to the *)
(* width of the piece.                                                     *)
(***************************************************************************)
LEMMA LowBitsOfSequence ==
  ASSUME NEW s \in Seq(Bit), NEW k \in Nat \ {0}, NEW n \in Nat, n <= WordBits,
         k + n - 1 <= Len(s)
  PROVE  /\ LowBits(WordAt(s, k), n) \in Word
         /\ \A i \in 0..n-1 : LowBits(WordAt(s, k), n)[i] = s[k+i]
         /\ \A i \in 0..WordBits-1 : i >= n => LowBits(WordAt(s, k), n)[i] = 0
<1> DEFINE w == WordAt(s, k)
<1>1. w \in Word
  BY WordBitsType DEF WordAt, Word, Bit
<1>2. \A i \in 0..n-1 : i \in 0..WordBits-1 /\ w[i] = s[k+i]
  BY WordBitsType DEF WordAt
<1> HIDE DEF w
<1> QED BY <1>1, <1>2, WordBitsType DEF LowBits, Word, Bit, w

(***************************************************************************)
(* A value or'ed above the pending bits of a clean scratch: the pending    *)
(* bits stay, the value follows them, and what does not fit the word is    *)
(* what the shift right recovers.                                          *)
(***************************************************************************)
LEMMA Fill ==
  ASSUME NEW scratch \in Word, NEW value \in Word,
         NEW sb \in 0..WordBits-1,
         \A i \in 0..WordBits-1 : i >= sb => scratch[i] = 0,
         NEW filled, filled = Or(scratch, Shl(value, sb)),
         NEW carry, carry = Shr(value, WordBits - sb)
  PROVE  /\ filled \in Word
         /\ \A i \in 0..sb-1 : filled[i] = scratch[i]
         /\ \A i \in sb..WordBits-1 : filled[i] = value[i-sb]
         /\ carry \in Word
         /\ \A i \in 0..WordBits-1 :
              carry[i] = IF i < sb THEN value[i + WordBits - sb] ELSE 0
<1> DEFINE shifted == Shl(value, sb)
<1>1. shifted \in Word /\ \A i \in 0..WordBits-1 : shifted[i] = IF i >= sb THEN value[i-sb] ELSE 0
  BY WordBitsType DEF Shl, Word, Bit
<1>2. carry \in Word
  BY WordBitsType DEF Shr, Word, Bit
<1>3. \A i \in 0..WordBits-1 : carry[i] = IF i < sb THEN value[i + WordBits - sb] ELSE 0
  <2> TAKE i \in 0..WordBits-1
  <2>1. carry[i] = IF i + (WordBits - sb) < WordBits THEN value[i + (WordBits - sb)] ELSE 0
    BY DEF Shr
  <2> QED BY <2>1, WordBitsType
<1> HIDE DEF shifted
<1>4. filled \in Word
  BY DEF shifted, Or, Word, Bit
<1>5. \A i \in 0..WordBits-1 : filled[i] = IF scratch[i] = 1 \/ shifted[i] = 1 THEN 1 ELSE 0
  BY DEF shifted, Or
<1>6. \A i \in 0..sb-1 : filled[i] = scratch[i]
  BY <1>1, <1>5, WordBitsType DEF Word, Bit
<1>7. \A i \in sb..WordBits-1 : filled[i] = value[i-sb]
  BY <1>1, <1>5, WordBitsType DEF Word, Bit
<1> QED BY <1>2, <1>3, <1>4, <1>6, <1>7

(***************************************************************************)
(* A sequence is the function that lists its elements.                     *)
(***************************************************************************)
LEMMA SequenceIsFunction ==
  ASSUME NEW S, NEW s \in Seq(S)
  PROVE  s = [i \in 1..Len(s) |-> s[i]]
OBVIOUS

(***************************************************************************)
(* The length and the elements of a concatenation.                         *)
(***************************************************************************)
LEMMA Concatenation ==
  ASSUME NEW S, NEW s \in Seq(S), NEW t \in Seq(S)
  PROVE  /\ s \o t \in Seq(S)
         /\ Len(s \o t) = Len(s) + Len(t)
         /\ \A i \in 1..Len(s) : (s \o t)[i] = s[i]
         /\ \A i \in 1..Len(t) : (s \o t)[Len(s) + i] = t[i]
OBVIOUS

-----------------------------------------------------------------------------
(***************************************************************************)
(* The principles the recursive definitions need, on sets of naturals: a   *)
(* least element, and induction.                                           *)
(***************************************************************************)
LEMMA Least ==
  ASSUME NEW T, T \subseteq Nat, T # {}
  PROVE  \E n \in T : \A m \in T : n <= m
<1> DEFINE R == {ss \in Nat \X Nat : ss[1] < ss[2]}
<1>1. R = OpToRel(<, Nat)
  BY DEF OpToRel
<1>2. IsWellFoundedOn(R, Nat)
  BY <1>1, NatLessThanWellFounded
<1> HIDE DEF R
<1>3. PICK n \in T : \A m \in T : <<m, n>> \notin R
  BY <1>2, WFMin
<1>4. \A m \in T : ~(m < n)
  BY <1>3 DEF R
<1> QED BY <1>4

(***************************************************************************)
(* A set with 0, and with n + 1 whenever with n, has every natural number. *)
(***************************************************************************)
LEMMA Induction ==
  ASSUME NEW S, 0 \in S, \A n \in Nat : n \in S => n + 1 \in S
  PROVE  Nat \subseteq S
<1> DEFINE T == Nat \ S
<1> SUFFICES ASSUME T # {} PROVE FALSE
  OBVIOUS
<1>1. T \subseteq Nat
  OBVIOUS
<1> HIDE DEF T
<1>2. PICK n \in T : \A m \in T : n <= m
  BY <1>1, Least
<1>3. n \in Nat /\ n \notin S
  BY <1>2 DEF T
<1>4. n # 0
  BY <1>3
<1>5. n - 1 \in Nat /\ n - 1 \notin T
  BY <1>2, <1>3, <1>4
<1>6. n - 1 \in S
  BY <1>5 DEF T
<1>7. (n - 1) + 1 \in S
  BY <1>5, <1>6
<1> QED BY <1>3, <1>7

-----------------------------------------------------------------------------
(***************************************************************************)
(* Powers of two, which the provers have no arithmetic for: 2^n counts the *)
(* subsets of 1..n, and n+1 is in half of those of 1..n+1.                 *)
(***************************************************************************)
LEMMA PowerCounts ==
  ASSUME NEW n \in Nat
  PROVE  IsFiniteSet(SUBSET (1..n)) /\ Cardinality(SUBSET (1..n)) = 2^n
<1>1. IsFiniteSet(1..n) /\ Cardinality(1..n) = n
  BY FS_Interval
<1> QED BY <1>1, FS_SUBSET

(***************************************************************************)
(* Powers of two are numbers, and the next is twice the one before: the    *)
(* sets of numbers up to n + 1 are those without n + 1 and those with it,  *)
(* and there are as many of each.                                          *)
(***************************************************************************)
LEMMA PowerDoubles ==
  ASSUME NEW n \in Nat
  PROVE  2^n \in Nat /\ 2^(n+1) = 2^n + 2^n
<1> DEFINE P == SUBSET (1..n)
           U == SUBSET (1..n+1)
           Q == {B \in U : n + 1 \in B}
<1>1. IsFiniteSet(P) /\ Cardinality(P) = 2^n /\ Cardinality(P) \in Nat
  BY PowerCounts, FS_CardinalityType
<1>2. IsFiniteSet(U) /\ Cardinality(U) = 2^(n+1)
  <2>1. n + 1 \in Nat
    OBVIOUS
  <2> QED BY <2>1, PowerCounts
<1>3. n + 1 \notin 1..n /\ 1..n+1 = (1..n) \cup {n + 1}
  OBVIOUS
<1>4. U = P \cup Q /\ P \cap Q = {}
  BY <1>3
<1>5. ExistsBijection(P, Q)
  <2> DEFINE f == [B \in P |-> B \cup {n + 1}]
  <2>1. \A B \in P : B \cup {n + 1} \in Q
    BY <1>3
  <2>2. f \in [P -> Q]
    BY <2>1
  <2>3. \A A, B \in P : A \cup {n + 1} = B \cup {n + 1} => A = B
    BY <1>3
  <2>4. \A A, B \in P : f[A] = f[B] => A = B
    BY <2>3
  <2>5. \A C \in Q : \E B \in P : f[B] = C
    <3> TAKE C \in Q
    <3>1. C \ {n + 1} \in P /\ (C \ {n + 1}) \cup {n + 1} = C
      BY <1>3
    <3> QED BY <3>1
  <2> HIDE DEF f, P, Q
  <2> QED BY <2>2, <2>4, <2>5 DEF ExistsBijection, Bijection, Injection, Surjection, IsInjective
<1>6. IsFiniteSet(Q) /\ Cardinality(Q) = Cardinality(P)
  BY <1>1, <1>5, FS_Bijection
<1> HIDE DEF P, Q, U
<1>7. Cardinality(U) = Cardinality(P) + Cardinality(Q) - Cardinality(P \cap Q)
  BY <1>1, <1>4, <1>6, FS_Union
<1>8. Cardinality(P \cap Q) = 0
  BY <1>4, FS_EmptySet
<1> QED BY <1>1, <1>2, <1>6, <1>7, <1>8

(***************************************************************************)
(* A power of two is larger than its exponent, and so at least one.        *)
(***************************************************************************)
LEMMA Powers ==
  /\ 2^0 = 1
  /\ \A n \in Nat : 2^n \in Nat \ {0} /\ n < 2^n
<1> DEFINE S == {n \in Nat : n < 2^n}
<1>1. 2^0 = 1
  OBVIOUS
<1>2. 0 \in S
  BY <1>1
<1>3. ASSUME NEW n \in Nat, n \in S PROVE n + 1 \in S
  BY <1>3, PowerDoubles
<1> HIDE DEF S
<1>4. Nat \subseteq S
  BY <1>2, <1>3, Induction
<1>5. \A n \in Nat : n < 2^n /\ 2^n \in Nat
  BY <1>4, PowerDoubles DEF S
<1> QED BY <1>1, <1>5

(***************************************************************************)
(* The power of a sum, and the order of powers.                            *)
(***************************************************************************)
LEMMA PowerOfSum ==
  ASSUME NEW m \in Nat, NEW n \in Nat
  PROVE  2^(m+n) = 2^m * 2^n
<1> DEFINE S == {k \in Nat : 2^(m+k) = 2^m * 2^k}
<1>1. 0 \in S
  <2>1. m + 0 = m /\ 2^m \in Nat /\ 2^0 = 1
    BY Powers
  <2>2. 2^m * 1 = 2^m
    BY <2>1
  <2> QED BY <2>1, <2>2
<1>2. ASSUME NEW k \in Nat, k \in S PROVE k + 1 \in S
  <2>1. 2^(m+k) = 2^m * 2^k
    BY <1>2
  <2>2. /\ 2^(k+1) = 2^k + 2^k /\ 2^((m+k)+1) = 2^(m+k) + 2^(m+k)
        /\ m + (k + 1) = (m + k) + 1
    BY PowerDoubles
  <2>3. 2^m \in Nat /\ 2^k \in Nat
    BY Powers
  <2> DEFINE a == 2^m
             b == 2^k
  <2>4. a * (b + b) = a * b + a * b
    BY <2>3
  <2> QED BY <2>1, <2>2, <2>4
<1> HIDE DEF S
<1>3. Nat \subseteq S
  BY <1>1, <1>2, Induction
<1> QED BY <1>3 DEF S

(***************************************************************************)
(* A larger exponent gives no smaller power.                               *)
(***************************************************************************)
LEMMA PowerOrder ==
  ASSUME NEW m \in Nat, NEW n \in Nat, m <= n
  PROVE  2^m <= 2^n
<1> DEFINE k == n - m
           a == 2^m
           b == 2^k
<1>1. k \in Nat /\ m + k = n
  OBVIOUS
<1> HIDE DEF k
<1>2. 2^n = a * b
  BY <1>1, PowerOfSum
<1>3. a \in Nat /\ b \in Nat \ {0}
  BY <1>1, Powers
<1> HIDE DEF a, b
<1>4. a * 1 <= a * b /\ a * 1 = a
  BY <1>3
<1> QED BY <1>2, <1>4 DEF a

-----------------------------------------------------------------------------
(***************************************************************************)
(* BitsRequired is defined for every span, and gives the least width the   *)
(* span fits.                                                              *)
(***************************************************************************)
LEMMA BitsRequiredFits ==
  ASSUME NEW span \in Nat
  PROVE  /\ BitsRequired(span) \in Nat
         /\ span < 2^BitsRequired(span)
         /\ span # 0 => BitsRequired(span) # 0 /\ 2^(BitsRequired(span) - 1) <= span
<1>1. CASE span = 0
  BY <1>1, Powers DEF BitsRequired
<1>2. CASE span # 0
  <2> DEFINE T == {n \in Nat : span < 2^n}
  <2>1. span \in T
    BY Powers
  <2>2. PICK n \in T : \A m \in T : n <= m
    BY <2>1, Least
  <2>3. n \in Nat /\ span < 2^n /\ n <= span
    BY <2>1, <2>2
  <2>4. n # 0
    <3> SUFFICES ASSUME n = 0 PROVE FALSE
      OBVIOUS
    <3>1. span < 2^0
      BY <2>3, Zenon
    <3>2. span < 1
      BY <3>1, Powers, Zenon
    <3> QED BY <3>2, <1>2
  <2>5. n - 1 \in Nat /\ n - 1 \notin T
    BY <2>2, <2>3, <2>4
  <2>6. 2^(n-1) <= span
    BY <2>5, Powers
  <2>7. \E k \in 1..span : 2^(k-1) <= span /\ span < 2^k
    BY <2>3, <2>4, <2>6
  <2> DEFINE b == CHOOSE k \in 1..span : 2^(k-1) <= span /\ span < 2^k
  <2>8. b \in 1..span /\ 2^(b-1) <= span /\ span < 2^b
    BY <2>7, Zenon
  <2>9. BitsRequired(span) = b
    BY <1>2 DEF BitsRequired
  <2> HIDE DEF b
  <2> QED BY <2>8, <2>9
<1> QED BY <1>1, <1>2

-----------------------------------------------------------------------------
(***************************************************************************)
(* The value FromBits sums up, prefix by prefix.                           *)
(***************************************************************************)
Sum(s) == CHOOSE value : value = [i \in 0..Len(s) |->
                                    IF i = 0 THEN 0 ELSE value[i-1] + s[i] * 2^(i-1)]

(***************************************************************************)
(* FromBits is the last of the sums.                                       *)
(***************************************************************************)
LEMMA SumIsFromBits ==
  ASSUME NEW s
  PROVE  FromBits(s) = Sum(s)[Len(s)]
BY DEF FromBits, Sum

(***************************************************************************)
(* The sum is defined for every length.                                    *)
(***************************************************************************)
LEMMA SumDefined ==
  ASSUME NEW s, NEW n \in Nat, Len(s) = n
  PROVE  Sum(s) = [i \in 0..n |-> IF i = 0 THEN 0 ELSE Sum(s)[i-1] + s[i] * 2^(i-1)]
<1> DEFINE Sums(f, k) == f = [i \in 0..k |-> IF i = 0 THEN 0 ELSE f[i-1] + s[i] * 2^(i-1)]
           S == {k \in Nat : \E f : Sums(f, k)}
<1>1. 0 \in S
  <2> DEFINE f == [i \in 0..0 |-> 0]
  <2>1. Sums(f, 0)
    OBVIOUS
  <2> QED BY <2>1
<1>2. ASSUME NEW k \in Nat, k \in S PROVE k + 1 \in S
  <2>1. PICK f : Sums(f, k)
    BY <1>2
  <2> DEFINE g == [i \in 0..k+1 |-> IF i <= k THEN f[i] ELSE f[k] + s[k+1] * 2^k]
  <2>2. ASSUME NEW i \in 0..k+1
        PROVE  g[i] = IF i = 0 THEN 0 ELSE g[i-1] + s[i] * 2^(i-1)
    <3>1. CASE i = 0
      BY <3>1, <2>1
    <3>2. CASE i \in 1..k
      <4>1. g[i] = f[i] /\ g[i-1] = f[i-1] /\ i # 0
        BY <3>2
      <4>2. f[i] = f[i-1] + s[i] * 2^(i-1)
        BY <3>2, <2>1
      <4> QED BY <4>1, <4>2
    <3>3. CASE i = k + 1
      <4>1. g[i] = f[k] + s[k+1] * 2^k /\ g[i-1] = f[k] /\ i # 0 /\ i - 1 = k
        BY <3>3
      <4> QED BY <4>1, <3>3
    <3> QED BY <3>1, <3>2, <3>3
  <2>3. Sums(g, k+1)
    BY <2>2
  <2> HIDE DEF g, Sums
  <2> QED BY <2>3
<1> HIDE DEF S
<1>3. Nat \subseteq S
  BY <1>1, <1>2, Induction
<1>4. \E f : Sums(f, n)
  BY <1>3 DEF S
<1>5. \E value : value = [i \in 0..Len(s) |->
                            IF i = 0 THEN 0 ELSE value[i-1] + s[i] * 2^(i-1)]
  BY <1>4
<1>6. Sum(s) = [i \in 0..Len(s) |->
                  IF i = 0 THEN 0 ELSE Sum(s)[i-1] + s[i] * 2^(i-1)]
  BY <1>5, Zenon DEF Sum
<1> QED BY <1>6

(***************************************************************************)
(* A bit put above a number below 2^i: the bits below it stay.             *)
(***************************************************************************)
LEMMA BitAbove ==
  ASSUME NEW i \in Nat, NEW v \in 0..2^i-1, NEW b \in Bit
  PROVE  /\ v + b * 2^i \in 0..2^(i+1)-1
         /\ ((v + b * 2^i) \div 2^i) % 2 = b
         /\ \A j \in 0..i-1 : ((v + b * 2^i) \div 2^j) % 2 = (v \div 2^j) % 2
<1> DEFINE r == 2^i
           w == v + b * r
<1>1. r \in Nat \ {0} /\ 2^(i+1) = r + r /\ v \in 0..r-1 /\ v \in Nat /\ b \in {0, 1}
  BY Powers, PowerDoubles DEF Bit
<1> HIDE DEF r
<1>2. w \in 0..r+r-1 /\ w \in Nat
  BY <1>1
<1>3. (w \div r) % 2 = b
  <2>1. b * r + v = w /\ (b * r + v) \div r = b
    BY <1>1, DivModUnique
  <2> QED BY <2>1, <1>1
<1>4. ASSUME NEW j \in 0..i-1 PROVE (w \div 2^j) % 2 = (v \div 2^j) % 2
  <2> DEFINE k == i - j - 1
             p == 2^j
             q == 2^k
             d == v \div p
             e == v % p
  <2>1. k \in Nat /\ j \in Nat /\ i = j + (k + 1)
    OBVIOUS
  <2>2. p \in Nat \ {0} /\ q \in Nat
    BY <2>1, Powers
  <2>3. r = p * (q + q)
    <3>1. 2^(k+1) = q + q
      BY <2>1, PowerDoubles
    <3>2. 2^(j + (k+1)) = p * 2^(k+1)
      BY <2>1, PowerOfSum
    <3> QED BY <3>1, <3>2, <2>1 DEF r
  <2>4. d \in Nat /\ e \in 0..p-1 /\ v = d * p + e
    BY <2>2, <1>1, DivMod
  <2> HIDE DEF k, p, q, d, e
  <2> DEFINE t == d + (b * q) * 2
  <2>5. b * q \in Nat /\ t \in Nat
    BY <1>1, <2>2, <2>4
  <2>6. w = t * p + e
    <3>1. CASE b = 0
      BY <3>1, <1>1, <2>2, <2>3, <2>4
    <3>2. CASE b = 1
      <4>1. w = d * p + e + p * (q + q)
        BY <3>2, <1>1, <2>3, <2>4
      <4>2. t = d + (q + q)
        BY <3>2, <2>2
      <4>3. t * p = d * p + p * (q + q)
        BY <4>2, <2>2, <2>4
      <4>4. d * p \in Nat /\ p * (q + q) \in Nat /\ e \in Nat
        BY <2>2, <2>4
      <4> HIDE DEF t, w
      <4> QED BY ONLY <4>1, <4>3, <4>4
    <3> QED BY <3>1, <3>2, <1>1
  <2> HIDE DEF t
  <2>7. w \div p = t
    <3>1. t \in Int /\ p \in Nat \ {0} /\ e \in 0..p-1
      BY <2>2, <2>4, <2>5
    <3>2. (t * p + e) \div p = t
      BY <3>1, DivModUnique
    <3> HIDE DEF w
    <3> QED BY <3>2, <2>6, Zenon
  <2>8. t % 2 = d % 2
    BY <2>4, <2>5, ModWords DEF t
  <2> QED BY <2>7, <2>8 DEF p, d
<1> QED BY <1>1, <1>2, <1>3, <1>4 DEF r

(***************************************************************************)
(* The value of a field fits its width, and its bits are the field's.      *)
(***************************************************************************)
LEMMA SumFacts ==
  ASSUME NEW s \in Seq(Bit), NEW i \in 0..Len(s)
  PROVE  /\ Sum(s)[i] \in 0..2^i-1
         /\ \A j \in 1..i : (Sum(s)[i] \div 2^(j-1)) % 2 = s[j]
<1> DEFINE n == Len(s)
           Holds(k) == /\ Sum(s)[k] \in 0..2^k-1
                       /\ \A j \in 1..k : (Sum(s)[k] \div 2^(j-1)) % 2 = s[j]
           S == {k \in Nat : k <= n => Holds(k)}
<1>1. n \in Nat /\ \A k \in 1..n : s[k] \in Bit
  OBVIOUS
<1>2. Sum(s) = [k \in 0..n |-> IF k = 0 THEN 0 ELSE Sum(s)[k-1] + s[k] * 2^(k-1)]
  BY <1>1, SumDefined
<1> HIDE DEF n
<1>3. 0 \in S
  <2>1. Sum(s)[0] = 0
    BY <1>1, <1>2
  <2> QED BY <2>1, Powers
<1>4. ASSUME NEW k \in Nat, k \in S PROVE k + 1 \in S
  <2> SUFFICES ASSUME k + 1 <= n PROVE Holds(k + 1)
    OBVIOUS
  <2> DEFINE v == Sum(s)[k]
             b == s[k+1]
  <2>1. Holds(k)
    BY <1>1, <1>4
  <2>2. b \in Bit /\ v \in 0..2^k-1
    BY <2>1, <1>1
  <2>3. Sum(s)[k+1] = v + b * 2^k
    <3>1. k + 1 \in 0..n /\ k + 1 # 0 /\ (k + 1) - 1 = k
      BY <1>1
    <3> QED BY <3>1, <1>2
  <2> HIDE DEF v, b
  <2>4. /\ v + b * 2^k \in 0..2^(k+1)-1
        /\ ((v + b * 2^k) \div 2^k) % 2 = b
        /\ \A j \in 0..k-1 : ((v + b * 2^k) \div 2^j) % 2 = (v \div 2^j) % 2
    BY <2>2, BitAbove
  <2>5. ASSUME NEW j \in 1..k+1 PROVE (Sum(s)[k+1] \div 2^(j-1)) % 2 = s[j]
    <3>1. CASE j = k + 1
      <4>1. j - 1 = k
        BY <3>1
      <4> QED BY <4>1, <3>1, <2>3, <2>4 DEF b
    <3>2. CASE j # k + 1
      <4>1. j \in 1..k /\ j - 1 \in 0..k-1
        BY <3>2
      <4>2. (v \div 2^(j-1)) % 2 = s[j]
        BY <4>1, <2>1 DEF v
      <4> QED BY <4>1, <4>2, <2>3, <2>4
    <3> QED BY <3>1, <3>2
  <2> QED BY <2>3, <2>4, <2>5
<1> HIDE DEF S, Holds
<1>5. Nat \subseteq S
  BY <1>3, <1>4, Induction
<1>6. i \in Nat /\ i <= n
  BY <1>1 DEF n
<1>7. Holds(i)
  BY <1>5, <1>6 DEF S
<1> QED BY <1>7 DEF Holds

(***************************************************************************)
(* What is read from a field is the number whose field it is: writing it   *)
(* again gives the same bits.                                              *)
(***************************************************************************)
THEOREM FieldOfValue ==
  ASSUME NEW s \in Seq(Bit)
  PROVE  /\ FromBits(s) \in 0..2^Len(s)-1
         /\ ToBits(FromBits(s), Len(s)) = s
<1> DEFINE n == Len(s)
           v == Sum(s)[n]
<1>1. n \in 0..Len(s) /\ n \in Nat
  OBVIOUS
<1>2. v \in 0..2^n-1 /\ \A j \in 1..n : (v \div 2^(j-1)) % 2 = s[j]
  BY <1>1, SumFacts
<1>3. FromBits(s) = v
  BY SumIsFromBits
<1>4. s = [j \in 1..n |-> s[j]]
  BY SequenceIsFunction
<1> HIDE DEF n, v
<1>5. ToBits(v, n) = s
  BY <1>2, <1>4 DEF ToBits
<1> QED BY <1>2, <1>3, <1>5 DEF n

(***************************************************************************)
(* A field is as many bits as its width.                                   *)
(***************************************************************************)
LEMMA FieldType ==
  ASSUME NEW v \in Int, NEW n \in Nat
  PROVE  ToBits(v, n) \in Seq(Bit) /\ Len(ToBits(v, n)) = n
<1>1. ASSUME NEW i \in 1..n PROVE (v \div 2^(i-1)) % 2 \in Bit
  <2>1. i - 1 \in Nat
    OBVIOUS
  <2>2. 2^(i-1) \in Nat \ {0}
    BY <2>1, Powers
  <2>3. v \div 2^(i-1) \in Int
    BY <2>2, ModRange
  <2>4. (v \div 2^(i-1)) % 2 \in 0..2-1
    BY <2>3, ModRange
  <2> QED BY <2>4 DEF Bit
<1>2. ToBits(v, n) \in [1..n -> Bit]
  BY <1>1 DEF ToBits
<1> QED BY <1>2

(***************************************************************************)
(* A number that fits its width is what is read from its field.            *)
(***************************************************************************)
THEOREM ValueOfField ==
  ASSUME NEW n \in Nat, NEW v \in 0..2^n-1
  PROVE  FromBits(ToBits(v, n)) = v
<1> DEFINE s == ToBits(v, n)
           S == {k \in Nat : k <= n => Sum(s)[k] = v % 2^k}
<1>1. 2^n \in Nat \ {0} /\ v \in Nat /\ v < 2^n
  BY Powers
<1>2. s \in Seq(Bit) /\ Len(s) = n
  BY <1>1, FieldType
<1>3. Sum(s) = [k \in 0..n |-> IF k = 0 THEN 0 ELSE Sum(s)[k-1] + s[k] * 2^(k-1)]
  BY <1>2, SumDefined
<1>4. \A k \in 1..n : s[k] = (v \div 2^(k-1)) % 2
  BY DEF ToBits
<1> HIDE DEF s
<1>5. 0 \in S
  <2>1. Sum(s)[0] = 0
    BY <1>3
  <2>2. v % 2^0 = 0
    <3>1. v % 1 = 0
      BY <1>1
    <3> QED BY <3>1, Powers
  <2> QED BY <2>1, <2>2
<1>6. ASSUME NEW k \in Nat, k \in S PROVE k + 1 \in S
  <2> SUFFICES ASSUME k + 1 <= n PROVE Sum(s)[k+1] = v % 2^(k+1)
    OBVIOUS
  <2> DEFINE r == 2^k
             q == v \div r
             e == v % r
             h == q \div 2
             b == q % 2
             w == r + r
             t == b * r + e
  <2>1. Sum(s)[k+1] = e + b * r
    <3>1. k + 1 \in 0..n /\ k + 1 \in 1..n /\ k + 1 # 0 /\ (k + 1) - 1 = k
      BY <1>1
    <3>2. Sum(s)[k+1] = Sum(s)[k] + s[k+1] * 2^k
      BY <3>1, <1>3
    <3>3. Sum(s)[k] = e
      BY <1>6
    <3>4. s[k+1] = b
      BY <3>1, <1>4
    <3> QED BY <3>2, <3>3, <3>4
  <2>2. r \in Nat \ {0} /\ 2^(k+1) = w
    BY Powers, PowerDoubles
  <2>3. q \in Nat /\ e \in 0..r-1 /\ v = q * r + e
    BY <2>2, <1>1, DivMod
  <2> HIDE DEF r, q, e
  <2>4. h \in Nat /\ b \in 0..2-1 /\ q = h * 2 + b
    BY <2>3, DivMod
  <2> HIDE DEF h, b
  <2>5. w \in Nat \ {0} /\ t \in 0..w-1 /\ t = e + b * r
    <3>1. CASE b = 0
      BY <3>1, <2>2, <2>3
    <3>2. CASE b = 1
      BY <3>2, <2>2, <2>3
    <3> QED BY <3>1, <3>2, <2>4
  <2>6. v = h * w + t
    <3>1. q * r = (h * 2) * r + b * r
      BY <2>2, <2>3, <2>4
    <3>2. (h * 2) * r = h * w
      BY <2>2, <2>4
    <3>3. b * r \in Int /\ h * w \in Int /\ q * r \in Int
      BY <2>2, <2>3, <2>4
    <3> DEFINE br == b * r
               hw == h * w
               qr == q * r
    <3>4. qr = hw + br /\ v = qr + e /\ t = br + e /\ br \in Int /\ hw \in Int /\ e \in Int
      BY <3>1, <3>2, <3>3, <2>3
    <3> HIDE DEF br, hw, qr, t
    <3>5. v = hw + t
      BY ONLY <3>4
    <3> QED BY <3>5 DEF hw
  <2> HIDE DEF w, t
  <2>7. v % w = t
    <3>1. h \in Int /\ w \in Nat \ {0} /\ t \in 0..w-1
      BY <2>4, <2>5
    <3>2. (h * w + t) % w = t
      BY <3>1, DivModUnique
    <3> QED BY <3>2, <2>6, Zenon
  <2> QED BY <2>1, <2>2, <2>5, <2>7
<1> HIDE DEF S
<1>7. Nat \subseteq S
  BY <1>5, <1>6, Induction
<1>8. Sum(s)[n] = v % 2^n
  BY <1>7 DEF S
<1>9. v % 2^n = v
  <2> DEFINE r == 2^n
  <2>1. 0 \in Int /\ r \in Nat \ {0} /\ v \in 0..r-1
    BY <1>1
  <2> HIDE DEF r
  <2>2. (0 * r + v) % r = v
    BY <2>1, DivModUnique
  <2>3. 0 * r + v = v
    BY <2>1
  <2>4. v % r = v
    BY <2>2, <2>3, Zenon
  <2> QED BY <2>4 DEF r
<1> QED BY <1>2, <1>8, <1>9, SumIsFromBits DEF s

-----------------------------------------------------------------------------
(***************************************************************************)
(* The elements of a sequence over a set are in it.                        *)
(***************************************************************************)
LEMMA ElementsOf ==
  ASSUME NEW S, NEW s \in Seq(S)
  PROVE  Len(s) \in Nat /\ \A b \in 1..Len(s) : s[b] \in S
OBVIOUS
=============================================================================

-------------------------- MODULE BitReaderProofs --------------------------
(***************************************************************************)
(* The bit reader never loads outside the packet's array or its tail, and  *)
(* implements ReaderSpec, for every geometry and every set of packets and  *)
(* slacks.                                                                 *)
(***************************************************************************)
EXTENDS BitReader, CodecProofs, SequenceTheorems

-----------------------------------------------------------------------------
(***************************************************************************)
(* The widths: a half word holds a byte, and a word two halves.            *)
(***************************************************************************)
LEMMA HalfFacts ==
  /\ ByteBits \in Nat \ {0} /\ HalfBits \in Nat \ {0} /\ WordBits \in Nat \ {0}
  /\ WordBits = HalfBits + HalfBits /\ ByteBits <= HalfBits
  /\ windowBytes \in Nat /\ window64Bytes \in Nat /\ TailBytes \in Nat
  /\ windowBytes <= window64Bytes
  /\ window64Bytes = windowBytes + HalfBytes
  /\ TailBytes = window64Bytes + window64Bytes
  /\ windowBytes * ByteBits = WordBits
  /\ window64Bytes * ByteBits = WordBits + HalfBits
<1>1. /\ ByteBits \in Nat \ {0} /\ WordBytes \in Nat \ {0} /\ HalfBytes \in Nat \ {0}
      /\ WordBytes = HalfBytes + HalfBytes
  BY GeometryAssumption, HalfAssumption
<1>2. /\ HalfBytes * ByteBits \in Nat \ {0} /\ 1 * ByteBits <= HalfBytes * ByteBits
      /\ ByteBits <= HalfBytes * ByteBits
  BY <1>1, Products
<1>3. WordBytes * ByteBits = HalfBytes * ByteBits + HalfBytes * ByteBits
  BY <1>1
<1>4. (WordBytes + HalfBytes) * ByteBits = WordBytes * ByteBits + HalfBytes * ByteBits
  BY <1>1
<1> DEFINE h == HalfBytes * ByteBits
           w == WordBytes * ByteBits
<1>5. /\ h \in Nat \ {0} /\ ByteBits <= h /\ w = h + h
      /\ (WordBytes + HalfBytes) * ByteBits = w + h
  BY <1>2, <1>3, <1>4
<1>6. HalfBits = h /\ WordBits = w
  BY DEF HalfBits, WordBits
<1> HIDE DEF h, w
<1>7. /\ WordBits \in Nat \ {0} /\ WordBits = HalfBits + HalfBits
      /\ HalfBits \in Nat \ {0} /\ ByteBits <= HalfBits
  BY <1>5, <1>6
<1>8. windowBytes * ByteBits = WordBits /\ window64Bytes * ByteBits = WordBits + HalfBits
  BY <1>5, <1>6 DEF windowBytes, window64Bytes, w
<1> QED BY <1>1, <1>7, <1>8 DEF windowBytes, window64Bytes, TailBytes

(***************************************************************************)
(* The packet, the slack and the tail are whole bytes, and the position is *)
(* in the packet.                                                          *)
(***************************************************************************)
LEMMA ReaderFacts ==
  ASSUME TypeOK
  PROVE  /\ data \in Seq(Bit) /\ slack \in Seq(Bit) /\ tail \in Seq(Bit)
         /\ ByteLen(data) \in Nat /\ Len(data) = ByteLen(data) * ByteBits
         /\ ByteLen(slack) \in Nat /\ Len(slack) = ByteLen(slack) * ByteBits
         /\ ByteLen(tail) = TailBytes /\ Len(tail) = TailBytes * ByteBits
         /\ bitsRead \in Nat /\ bitsRead <= Len(data)
         /\ byteIndex \in Nat /\ shift \in 0..ByteBits-1
         /\ bitsRead = byteIndex * ByteBits + shift
         /\ byteIndex <= ByteLen(data)
<1>1. /\ data \in Seq(Bit) /\ Len(data) % ByteBits = 0
      /\ slack \in Seq(Bit) /\ Len(slack) % ByteBits = 0
  BY PacketsAssumption, SlacksAssumption DEF TypeOK, WholeBytes
<1>2. Len(data) \in Nat /\ Len(slack) \in Nat
  BY <1>1
<1>3. /\ ByteLen(data) \in Nat /\ Len(data) = ByteLen(data) * ByteBits
      /\ ByteLen(slack) \in Nat /\ Len(slack) = ByteLen(slack) * ByteBits
  BY <1>1, <1>2, InBytes DEF ByteLen
<1>4. TailBytes * ByteBits \in Nat /\ TailBytes \in Nat /\ ByteBits \in Nat \ {0}
  BY HalfFacts
<1>5. tail \in [1..TailBytes * ByteBits -> Bit]
  BY DEF TypeOK
<1>6. tail \in Seq(Bit) /\ Len(tail) = TailBytes * ByteBits
  <2> DEFINE n == TailBytes * ByteBits
  <2>1. n \in Nat /\ tail \in [1..n -> Bit]
    BY <1>4, <1>5
  <2> HIDE DEF n
  <2>2. tail \in Seq(Bit) /\ Len(tail) = n
    BY <2>1
  <2> QED BY <2>2 DEF n
<1>7. ByteLen(tail) = TailBytes
  <2>1. (TailBytes * ByteBits + 0) \div ByteBits = TailBytes
    BY <1>4, DivModUnique
  <2>2. (TailBytes * ByteBits) \div ByteBits = TailBytes
    BY <2>1, <1>4
  <2> QED BY <2>2, <1>6 DEF ByteLen
<1>8. bitsRead \in Nat /\ bitsRead <= Len(data)
  BY <1>2 DEF TypeOK
<1>9. /\ byteIndex \in Nat /\ shift \in 0..ByteBits-1
      /\ bitsRead = byteIndex * ByteBits + shift
  BY <1>8, InBytes DEF byteIndex, shift
<1>10. byteIndex <= ByteLen(data)
  <2>1. byteIndex * ByteBits \in Nat /\ byteIndex * ByteBits <= ByteLen(data) * ByteBits
    BY <1>3, <1>4, <1>8, <1>9
  <2> QED BY <2>1, <1>3, <1>4, <1>9, Products
<1> QED BY <1>1, <1>3, <1>6, <1>7, <1>8, <1>9, <1>10

(***************************************************************************)
(* The packet and the slack behind it.                                     *)
(***************************************************************************)
LEMMA PaddedFacts ==
  ASSUME TypeOK
  PROVE  /\ padded \in Seq(Bit)
         /\ ByteLen(padded) = ByteLen(data) + ByteLen(slack)
         /\ Len(padded) = ByteLen(padded) * ByteBits
         /\ \A i \in 1..Len(data) : padded[i] = data[i]
<1>1. /\ data \in Seq(Bit) /\ slack \in Seq(Bit) /\ ByteBits \in Nat \ {0}
      /\ ByteLen(data) \in Nat /\ Len(data) = ByteLen(data) * ByteBits
      /\ ByteLen(slack) \in Nat /\ Len(slack) = ByteLen(slack) * ByteBits
  BY ReaderFacts, HalfFacts
<1>2. /\ data \o slack \in Seq(Bit)
      /\ Len(data \o slack) = Len(data) + Len(slack)
      /\ \A i \in 1..Len(data) : (data \o slack)[i] = data[i]
  <2>1. data \in Seq(Bit) /\ slack \in Seq(Bit)
    BY <1>1
  <2> QED BY <2>1, Concatenation
<1> DEFINE n == ByteLen(data) + ByteLen(slack)
<1>3. n \in Nat /\ Len(data) + Len(slack) = n * ByteBits + 0
  BY <1>1
<1>4. n * ByteBits + 0 = n * ByteBits /\ (n * ByteBits + 0) \div ByteBits = n
  <2>1. n \in Int /\ ByteBits \in Nat \ {0} /\ 0 \in 0..ByteBits-1
    BY <1>1, <1>3
  <2> HIDE DEF n
  <2> QED BY <2>1, DivModUnique
<1>5. ByteLen(padded) = n /\ Len(padded) = n * ByteBits
  BY <1>2, <1>3, <1>4 DEF ByteLen, padded
<1> QED BY <1>2, <1>5 DEF padded

(***************************************************************************)
(* A window starts inside its source and ends there, and where it overlaps *)
(* the packet it holds the packet's bits.  In the tail: the slack is less  *)
(* than the window, so the tail is this packet's; the packet ends less     *)
(* than a window after the window's start, so the window starts in the     *)
(* tail, at most a wide window from its start.                             *)
(***************************************************************************)
LEMMA Window ==
  ASSUME IInv, NEW reach \in {windowBytes, window64Bytes}
  PROVE  /\ InSource(reach)
         /\ Source(reach) \in Seq(Bit)
         /\ Index(reach) \in Nat
         /\ (Index(reach) + reach) * ByteBits <= Len(Source(reach))
         /\ \A j \in Nat : /\ j < reach * ByteBits
                           /\ byteIndex * ByteBits + 1 + j <= Len(data)
                           => Source(reach)[Index(reach) * ByteBits + 1 + j]
                                = data[byteIndex * ByteBits + 1 + j]
<1>1. TypeOK /\ TailCurrent
  BY DEF IInv
<1>2. /\ reach \in Nat /\ reach <= window64Bytes /\ ByteBits \in Nat \ {0}
      /\ window64Bytes \in Nat /\ TailBytes = window64Bytes + window64Bytes
  BY HalfFacts
<1>3. /\ data \in Seq(Bit) /\ tail \in Seq(Bit)
      /\ ByteLen(data) \in Nat /\ Len(data) = ByteLen(data) * ByteBits
      /\ ByteLen(slack) \in Nat
      /\ ByteLen(tail) = TailBytes /\ Len(tail) = TailBytes * ByteBits
      /\ byteIndex \in Nat /\ byteIndex <= ByteLen(data)
  BY <1>1, ReaderFacts
<1>4. /\ padded \in Seq(Bit) /\ ByteLen(padded) = ByteLen(data) + ByteLen(slack)
      /\ Len(padded) = ByteLen(padded) * ByteBits
      /\ \A i \in 1..Len(data) : padded[i] = data[i]
  BY <1>1, PaddedFacts
<1>5. \A a, b \in Nat : a <= b => a * ByteBits <= b * ByteBits
  BY <1>2, Products
<1>6. \A a \in Nat : a * ByteBits \in Nat
  BY <1>2
<1>7. CASE ~FromTail(reach)
  <2>1. /\ Source(reach) = padded /\ Index(reach) = byteIndex
        /\ byteIndex + reach <= ByteLen(padded)
    BY <1>2, <1>3, <1>4, <1>7 DEF Source, Index, FromTail
  <2>2. InSource(reach)
    BY <2>1, <1>3 DEF InSource
  <2>3. (byteIndex + reach) * ByteBits <= Len(padded)
    <3>1. byteIndex + reach \in Nat /\ ByteLen(padded) \in Nat
      BY <1>2, <1>3, <1>4
    <3>2. (byteIndex + reach) * ByteBits <= ByteLen(padded) * ByteBits
      BY <3>1, <2>1, <1>5
    <3> QED BY <3>2, <1>4
  <2>4. ASSUME NEW j \in Nat, byteIndex * ByteBits + 1 + j <= Len(data)
        PROVE  padded[byteIndex * ByteBits + 1 + j] = data[byteIndex * ByteBits + 1 + j]
    <3>1. byteIndex * ByteBits \in Nat /\ Len(data) \in Nat
      BY <1>3, <1>6
    <3>2. byteIndex * ByteBits + 1 + j \in 1..Len(data)
      BY <3>1, <2>4
    <3> QED BY <3>2, <1>4
  <2> QED BY <2>1, <2>2, <2>3, <2>4, <1>3, <1>4
<1>8. CASE FromTail(reach)
  <2> DEFINE at == byteIndex - tailBase
  <2>1. /\ Source(reach) = tail /\ Index(reach) = at
        /\ byteIndex + reach > ByteLen(data) + ByteLen(slack)
    BY <1>4, <1>8 DEF Source, Index, FromTail
  <2>2. ByteLen(slack) < window64Bytes
    BY <2>1, <1>2, <1>3
  <2>3. tail = TailOf(data) /\ tailBase = TailBase(data)
    BY <2>2, <1>1 DEF Slackless, TailCurrent
  <2>4. tailBase = IF ByteLen(data) >= window64Bytes THEN ByteLen(data) - window64Bytes ELSE 0
    BY <2>3, <1>2, <1>3 DEF TailBase, Larger
  <2>5. tailBase \in Nat /\ at \in Nat /\ at + reach <= TailBytes /\ tailBase + at = byteIndex
    <3>1. /\ ByteLen(data) \in Nat /\ ByteLen(slack) \in Nat
          /\ byteIndex \in Nat /\ byteIndex <= ByteLen(data)
      BY <1>3
    <3>2. tailBase \in Nat /\ tailBase <= byteIndex /\ byteIndex - tailBase <= window64Bytes
      BY ONLY <3>1, <2>1, <2>4, <1>2
    <3> QED BY ONLY <3>1, <3>2, <1>2
  <2>6. InSource(reach)
    BY <2>1, <2>5, <1>3 DEF InSource
  <2> HIDE DEF at
  <2>7. (at + reach) * ByteBits <= Len(tail)
    BY <2>5, <1>2, <1>3, <1>5
  <2>8. ASSUME NEW j \in Nat, j < reach * ByteBits,
               byteIndex * ByteBits + 1 + j <= Len(data)
        PROVE  tail[at * ByteBits + 1 + j] = data[byteIndex * ByteBits + 1 + j]
    <3> DEFINE x == at * ByteBits
               t == tailBase * ByteBits
               r == reach * ByteBits
               k == x + 1 + j
    <3>1. x \in Nat /\ t \in Nat /\ r \in Nat /\ byteIndex * ByteBits = t + x
      BY <2>5, <1>2
    <3>2. (at + reach) * ByteBits = x + r
      BY <2>5, <1>2
    <3>3. k \in 1..TailBytes * ByteBits
      <4>1. Len(tail) \in Nat /\ Len(tail) = TailBytes * ByteBits
        BY <1>3
      <4> DEFINE n == TailBytes * ByteBits
      <4>2. n \in Nat /\ x + r <= n
        BY <4>1, <3>2, <2>7
      <4>3. j \in Nat /\ j < r
        BY <2>8
      <4> HIDE DEF x, r, n
      <4>4. k \in 1..n
        BY ONLY <4>2, <4>3, <3>1
      <4> QED BY <4>4 DEF n
    <3>4. /\ byteIndex * ByteBits + 1 + j = t + k
          /\ t + k <= Len(data)
      <4> HIDE DEF x, r, t
      <4> QED BY <3>1, <2>8
    <3>5. tail[k] = IF t + k <= Len(data) THEN data[t + k] ELSE 0
      BY <3>3, <2>3 DEF TailOf
    <3> QED BY <3>4, <3>5
  <2> QED BY <2>1, <2>5, <2>6, <2>7, <2>8, <1>3
<1> QED BY <1>7, <1>8

-----------------------------------------------------------------------------
(***************************************************************************)
(* The bit i places after the position, in the window of its byte.         *)
(***************************************************************************)
LEMMA WindowBit ==
  ASSUME IInv, NEW reach \in {windowBytes, window64Bytes},
         NEW i \in Nat, shift + i < reach * ByteBits, bitsRead + 1 + i <= Len(data)
  PROVE  /\ Index(reach) * ByteBits \in Nat
         /\ Index(reach) * ByteBits + 1 + (shift + i) <= Len(Source(reach))
         /\ Source(reach)[Index(reach) * ByteBits + 1 + (shift + i)] = data[bitsRead + 1 + i]
<1> DEFINE src == Source(reach)
           at == Index(reach)
           j == shift + i
           x == at * ByteBits
           y == byteIndex * ByteBits
           r == reach * ByteBits
<1>1. /\ src \in Seq(Bit) /\ at \in Nat /\ (at + reach) * ByteBits <= Len(src)
      /\ \A k \in Nat : k < r /\ y + 1 + k <= Len(data) => src[x + 1 + k] = data[y + 1 + k]
  BY Window
<1>2. reach \in Nat /\ ByteBits \in Nat \ {0}
  BY HalfFacts
<1>3. x \in Nat /\ r \in Nat /\ (at + reach) * ByteBits = x + r
  BY <1>1, <1>2
<1>4. /\ shift \in Nat /\ y \in Nat /\ bitsRead = y + shift /\ Len(data) \in Nat
      /\ Len(src) \in Nat
  <2>1. /\ shift \in 0..ByteBits-1 /\ byteIndex \in Nat /\ data \in Seq(Bit)
        /\ bitsRead = byteIndex * ByteBits + shift
    BY ReaderFacts DEF IInv
  <2>2. shift \in Nat /\ y \in Nat
    BY <2>1, <1>2
  <2> QED BY <2>1, <2>2, <1>1
<1>5. j < r /\ bitsRead + 1 + i <= Len(data)
  OBVIOUS
<1> HIDE DEF src, x, y, r, at
<1>6. /\ j \in Nat /\ y + 1 + j = bitsRead + 1 + i
      /\ y + 1 + j <= Len(data) /\ x + 1 + j <= Len(src)
  BY ONLY <1>1, <1>3, <1>4, <1>5, i \in Nat
<1>7. src[x + 1 + j] = data[bitsRead + 1 + i]
  BY <1>1, <1>5, <1>6
<1> QED BY <1>3, <1>6, <1>7 DEF src, x, at

(***************************************************************************)
(* The value a read of n bits should return: the next n bits of the        *)
(* packet, then zeros.                                                     *)
(***************************************************************************)
NextBits(n) == [i \in 0..WordBits-1 |-> IF i < n THEN data[bitsRead + 1 + i] ELSE 0]

(***************************************************************************)
(* It is what readBits returns.                                            *)
(***************************************************************************)
LEMMA NarrowValue ==
  ASSUME IInv, NEW bits \in 0..HalfBits, Fits(bits)
  PROVE  readBits(bits) = NextBits(bits)
<1> DEFINE src == Source(windowBytes)
           x == Index(windowBytes) * ByteBits
<1>1. /\ HalfBits \in Nat /\ WordBits = HalfBits + HalfBits
      /\ ByteBits \in Nat \ {0} /\ ByteBits <= HalfBits
      /\ windowBytes * ByteBits = WordBits
  BY HalfFacts
<1>2. /\ shift \in 0..ByteBits-1 /\ bitsRead \in Nat /\ data \in Seq(Bit)
      /\ bitsRead + bits <= Len(data)
  BY ReaderFacts DEF IInv, Fits
<1>3. ASSUME NEW i \in 0..WordBits-1, i < bits
      PROVE  /\ i + shift < WordBits /\ i + shift \in 0..WordBits-1
             /\ x \in Nat /\ x + 1 + (i + shift) <= Len(src)
             /\ src[x + 1 + (i + shift)] = data[bitsRead + 1 + i]
  <2>1. /\ i \in Nat /\ shift + i < WordBits /\ i + shift = shift + i
        /\ shift + i \in 0..WordBits-1 /\ bitsRead + 1 + i <= Len(data)
    BY <1>1, <1>2, <1>3
  <2> QED BY <2>1, <1>1, WindowBit DEF x, src
<1> DEFINE W == LoadWord(src, Index(windowBytes))
<1>4. \A k \in 0..WordBits-1 : W[k] = IF (x + 1) + k <= Len(src) THEN src[(x + 1) + k] ELSE 0
  BY DEF LoadWord, WordAt
<1> HIDE DEF src, x, W
<1>5. ASSUME NEW i \in 0..WordBits-1
      PROVE  (IF i < bits THEN Shr(W, shift)[i] ELSE 0)
               = IF i < bits THEN data[bitsRead + 1 + i] ELSE 0
  <2> SUFFICES ASSUME i < bits PROVE Shr(W, shift)[i] = data[bitsRead + 1 + i]
    OBVIOUS
  <2>1. Shr(W, shift)[i] = W[i + shift]
    BY <1>3 DEF Shr
  <2>2. (x + 1) + (i + shift) = x + 1 + (i + shift)
    OBVIOUS
  <2> QED BY <2>1, <2>2, <1>3, <1>4
<1>6. readBits(bits) = [i \in 0..WordBits-1 |-> IF i < bits THEN Shr(W, shift)[i] ELSE 0]
  BY DEF readBits, LowBits, W, src
<1> QED BY <1>5, <1>6 DEF NextBits

(***************************************************************************)
(* It is what readBits64 returns, at twice the width.  The bits past       *)
(* the first word are or'ed in from the half word behind it, and there are *)
(* fewer than a byte of them.                                              *)
(***************************************************************************)
LEMMA WideValue ==
  ASSUME IInv, NEW bits \in 0..WordBits, Fits(bits)
  PROVE  readBits64(bits) = NextBits(bits)
<1> DEFINE src == Source(window64Bytes)
           at == Index(window64Bytes)
           x == at * ByteBits
           W == LoadWord(src, at)
           H == LoadHalf(src, at + windowBytes)
           R == Shr(W, shift)
           L == Shl(H, WordBits - shift)
<1>1. /\ HalfBits \in Nat /\ WordBits = HalfBits + HalfBits
      /\ ByteBits \in Nat \ {0} /\ ByteBits <= HalfBits
      /\ windowBytes * ByteBits = WordBits /\ windowBytes \in Nat
      /\ window64Bytes * ByteBits = WordBits + HalfBits
  BY HalfFacts
<1>2. /\ shift \in 0..ByteBits-1 /\ bitsRead \in Nat /\ data \in Seq(Bit)
      /\ bitsRead + bits <= Len(data)
  BY ReaderFacts DEF IInv, Fits
<1>3. ASSUME NEW i \in 0..WordBits-1, i < bits
      PROVE  /\ x \in Nat /\ x + 1 + (i + shift) <= Len(src)
             /\ src[x + 1 + (i + shift)] = data[bitsRead + 1 + i]
             /\ data[bitsRead + 1 + i] \in Bit
  <2>1. /\ i \in Nat /\ shift + i < WordBits + HalfBits /\ i + shift = shift + i
        /\ bitsRead + 1 + i \in 1..Len(data)
    BY <1>1, <1>2, <1>3
  <2>2. data[bitsRead + 1 + i] \in Bit
    BY <2>1, <1>2
  <2>3. /\ x \in Nat /\ x + 1 + (shift + i) <= Len(src)
        /\ src[x + 1 + (shift + i)] = data[bitsRead + 1 + i]
    BY <2>1, <1>1, <1>2, WindowBit DEF x, at, src
  <2> QED BY <2>1, <2>2, <2>3
<1>4. \A k \in 0..WordBits-1 : W[k] = IF x + 1 + k <= Len(src) THEN src[x + 1 + k] ELSE 0
  BY DEF LoadWord, WordAt
<1>5. at \in Nat /\ (at + windowBytes) * ByteBits = x + WordBits
  <2>1. at \in Nat
    BY Window DEF at
  <2> HIDE DEF at
  <2> QED BY <2>1, <1>1
<1>6. \A k \in 0..WordBits-1 :
        H[k] = IF k < HalfBits
                 THEN IF x + WordBits + 1 + k <= Len(src) THEN src[x + WordBits + 1 + k] ELSE 0
                 ELSE 0
  <2> HIDE DEF src, at, x
  <2> QED BY <1>5 DEF LoadHalf, LoadWord, LowBits, WordAt
<1>7. \A i \in 0..WordBits-1 : /\ R[i] = IF i + shift < WordBits THEN W[i + shift] ELSE 0
                               /\ L[i] = IF i >= WordBits - shift
                                           THEN H[i - (WordBits - shift)] ELSE 0
  BY DEF Shr, Shl
<1> HIDE DEF src, at, x, W, H, R, L
<1>8. ASSUME NEW i \in 0..WordBits-1, i < bits
      PROVE  Or(R, L)[i] = data[bitsRead + 1 + i]
  <2>1. Or(R, L)[i] = IF R[i] = 1 \/ L[i] = 1 THEN 1 ELSE 0
    BY DEF Or
  <2>2. CASE i + shift < WordBits
    <3>1. i + shift \in 0..WordBits-1 /\ ~(i >= WordBits - shift)
      BY <2>2, <1>1, <1>2
    <3>2. R[i] = data[bitsRead + 1 + i] /\ L[i] = 0
      BY <3>1, <2>2, <1>3, <1>4, <1>7, <1>8
    <3>3. data[bitsRead + 1 + i] \in {0, 1}
      BY <1>3, <1>8 DEF Bit
    <3> QED BY <3>2, <3>3, <2>1
  <2>3. CASE i + shift >= WordBits
    <3> DEFINE k == i - (WordBits - shift)
    <3>1. /\ k \in 0..WordBits-1 /\ k < HalfBits
          /\ i >= WordBits - shift /\ ~(i + shift < WordBits)
      BY <2>3, <1>1, <1>2
    <3>2. x + WordBits + 1 + k = x + 1 + (i + shift)
      BY <1>1, <1>2, <1>3, <1>8
    <3>3. R[i] = 0 /\ L[i] = H[k]
      BY <3>1, <1>7
    <3>4. H[k] = data[bitsRead + 1 + i]
      BY <3>1, <3>2, <1>3, <1>6, <1>8
    <3>5. data[bitsRead + 1 + i] \in {0, 1}
      BY <1>3, <1>8 DEF Bit
    <3>6. R[i] = 0 /\ L[i] = data[bitsRead + 1 + i]
      BY <3>3, <3>4
    <3> QED BY <3>5, <3>6, <2>1
  <2>4. i + shift < WordBits \/ i + shift >= WordBits
    BY <1>1, <1>2
  <2> QED BY <2>2, <2>3, <2>4
<1>9. readBits64(bits) = [i \in 0..WordBits-1 |-> IF i < bits THEN Or(R, L)[i] ELSE 0]
  BY DEF readBits64, LowBits, R, L, W, H, src, at
<1> QED BY <1>8, <1>9 DEF NextBits

-----------------------------------------------------------------------------
(***************************************************************************)
(* The next n bits of the packet, as the abstract reader names them.       *)
(***************************************************************************)
LEMMA UpcomingBits ==
  ASSUME TypeOK, NEW n \in Nat, bitsRead + n <= Len(data)
  PROVE  /\ Abs!Upcoming(n) \in Seq(Bit) /\ Len(Abs!Upcoming(n)) = n
         /\ \A i \in 1..n : Abs!Upcoming(n)[i] = data[bitsRead + i]
         /\ bitsRead + n \in 0..Len(data)
<1>1. data \in Seq(Bit) /\ bitsRead \in Nat /\ Len(data) \in Nat
  BY ReaderFacts
<1> DEFINE a == bitsRead + 1
           b == bitsRead + n
<1>2. a \in 1..Len(data)+1 /\ b \in a-1..Len(data) /\ b \in 0..Len(data)
  BY <1>1
<1>3. /\ SubSeq(data, a, b) \in Seq(Bit)
      /\ Len(SubSeq(data, a, b)) = IF a <= b THEN b - a + 1 ELSE 0
      /\ \A i \in 1..b-a+1 : SubSeq(data, a, b)[i] = data[a+i-1]
  <2> HIDE DEF a, b
  <2>1. a \in Int /\ b \in Int /\ \A i \in a..b : data[i] \in Bit
    BY <1>1, <1>2
  <2> QED BY ONLY <2>1, SubSeqProperties
<1>4. b - a + 1 = n /\ (a <= b <=> n # 0) /\ \A i \in 1..n : a + i - 1 = bitsRead + i
  BY <1>1
<1>5. Abs!Upcoming(n) = SubSeq(data, a, b)
  BY DEF Abs!Upcoming
<1> HIDE DEF a
<1>6. Len(SubSeq(data, a, b)) = n
  BY <1>3, <1>4
<1>7. \A i \in 1..n : SubSeq(data, a, b)[i] = data[bitsRead + i]
  BY <1>3, <1>4
<1> QED BY <1>2, <1>3, <1>5, <1>6, <1>7 DEF b

(***************************************************************************)
(* A value with the next n bits in its low bits, as a sequence of bits.    *)
(***************************************************************************)
LEMMA ExtendedValue ==
  ASSUME TypeOK, NEW n \in 0..WordBits, bitsRead + n <= Len(data),
         NEW v, v = [i \in 1..WordBits |-> NextBits(n)[i-1]]
  PROVE  v = Abs!Extended(Abs!Upcoming(n)) /\ v \in Seq(Bit)
<1> DEFINE u == Abs!Upcoming(n)
           z == Abs!Zeros(WordBits - n)
<1>1. WordBits \in Nat /\ n \in Nat /\ bitsRead \in Nat
  BY HalfFacts, ReaderFacts
<1>2. /\ u \in Seq(Bit) /\ Len(u) = n
      /\ \A i \in 1..n : u[i] = data[bitsRead + i]
  BY <1>1, UpcomingBits
<1>3. /\ z \in Seq(Bit) /\ Len(z) = WordBits - n
      /\ \A i \in 1..WordBits - n : z[i] = 0
  BY <1>1 DEF Abs!Zeros, Bit
<1>4. Abs!Extended(u) = u \o z
  BY <1>2 DEF Abs!Extended, Abs!WordBits, WordBits
<1> HIDE DEF u, z
<1>5. /\ u \o z \in Seq(Bit) /\ Len(u \o z) = Len(u) + Len(z)
      /\ \A i \in 1..Len(u) : (u \o z)[i] = u[i]
      /\ \A i \in 1..Len(z) : (u \o z)[Len(u) + i] = z[i]
  <2>1. u \in Seq(Bit) /\ z \in Seq(Bit)
    BY <1>2, <1>3
  <2> QED BY <2>1, Concatenation
<1>6. Len(u \o z) = WordBits
  BY <1>1, <1>2, <1>3, <1>5
<1>7. ASSUME NEW i \in 1..WordBits PROVE NextBits(n)[i-1] = (u \o z)[i]
  <2>1. i - 1 \in 0..WordBits-1 /\ bitsRead + 1 + (i - 1) = bitsRead + i
    BY <1>1
  <2>2. NextBits(n)[i-1] = IF i - 1 < n THEN data[bitsRead + i] ELSE 0
    BY <2>1 DEF NextBits
  <2>3. CASE i <= n
    <3>1. i \in 1..n /\ i - 1 < n
      BY <2>3, <1>1
    <3> QED BY <3>1, <2>2, <1>2, <1>5
  <2>4. CASE ~(i <= n)
    <3> DEFINE k == i - n
    <3>1. k \in 1..WordBits - n /\ n + k = i /\ ~(i - 1 < n)
      BY <2>4, <1>1
    <3>2. (u \o z)[n + k] = z[k]
      BY <3>1, <1>2, <1>3, <1>5
    <3> QED BY <3>1, <3>2, <2>2, <1>3
  <2> QED BY <2>3, <2>4
<1>8. u \o z = [i \in 1..WordBits |-> (u \o z)[i]]
  BY <1>5, <1>6, SequenceIsFunction
<1>9. v = u \o z
  BY <1>7, <1>8
<1> QED BY <1>4, <1>5, <1>9 DEF u

-----------------------------------------------------------------------------
(***************************************************************************)
(* A read through a window that has its value in it returns the next bits. *)
(***************************************************************************)
LEMMA LoadStep ==
  ASSUME IInv, NEW n \in 0..WordBits, NEW reach \in {windowBytes, window64Bytes},
         Load(reach, NextBits(n), n)
  PROVE  IInv' /\ Abs!Read(n)
<1>1. /\ TypeOK /\ TailCurrent
      /\ bitsRead + n <= Len(data) /\ bitsRead' = bitsRead + n
      /\ result' = [i \in 1..WordBits |-> NextBits(n)[i-1]]
      /\ UNCHANGED <<data, slack, tail, tailBase>>
  BY DEF IInv, Load, Fits
<1>2. last' = "read"
  BY Window DEF Load
<1>3. result' = Abs!Extended(Abs!Upcoming(n)) /\ result' \in Seq(Bit)
  BY <1>1, ExtendedValue
<1>4. bitsRead' \in 0..Len(data)
  BY <1>1, HalfFacts, UpcomingBits
<1>5. TypeOK' /\ TailCurrent' /\ LoadsInside'
  BY <1>1, <1>2, <1>3, <1>4 DEF TypeOK, TailCurrent, LoadsInside
<1>6. Abs!Read(n)
  BY <1>1, <1>2, <1>3 DEF Abs!Read, Abs!Fits
<1> QED BY <1>5, <1>6 DEF IInv

(***************************************************************************)
(* The reads of both widths, over the stream's range of each.              *)
(***************************************************************************)
LEMMA ReadStep ==
  ASSUME IInv
  PROVE  /\ \A bits \in 0..HalfBits : ReadBits(bits) => IInv' /\ Abs!Read(bits)
         /\ \A bits \in 0..WordBits : ReadBits64(bits) => IInv' /\ Abs!Read(bits)
<1>1. ASSUME NEW bits \in 0..HalfBits, ReadBits(bits) PROVE IInv' /\ Abs!Read(bits)
  <2>1. Load(windowBytes, readBits(bits), bits) /\ Fits(bits)
    BY <1>1 DEF ReadBits, Load
  <2>2. bits \in 0..WordBits
    BY HalfFacts
  <2>3. Load(windowBytes, NextBits(bits), bits)
    BY <2>1, NarrowValue, Zenon
  <2> QED BY <2>2, <2>3, LoadStep
<1>2. ASSUME NEW bits \in 0..WordBits, ReadBits64(bits) PROVE IInv' /\ Abs!Read(bits)
  <2>1. Load(window64Bytes, readBits64(bits), bits) /\ Fits(bits)
    BY <1>2 DEF ReadBits64, Load
  <2>2. Load(window64Bytes, NextBits(bits), bits)
    BY <2>1, WideValue, Zenon
  <2> QED BY <2>2, LoadStep
<1> QED BY <1>1, <1>2

(***************************************************************************)
(* A call that ends without reading leaves everything but its outcome.     *)
(***************************************************************************)
LEMMA EndStep ==
  ASSUME IInv
  PROVE  /\ \A n : ReadPastEnd(n) => IInv' /\ Abs!Refuse(n)
         /\ Misuse => IInv' /\ Abs!Misuse
<1>1. ASSUME NEW outcome \in {"overflow", "misuse"}, End(outcome) PROVE IInv'
  <2>1. /\ TypeOK /\ TailCurrent /\ <<>> \in Seq(Bit)
        /\ result' = <<>> /\ last' = outcome
        /\ UNCHANGED <<data, slack, bitsRead, tail, tailBase>>
    BY <1>1 DEF IInv, End
  <2>2. TypeOK' /\ TailCurrent' /\ LoadsInside'
    BY <2>1 DEF TypeOK, TailCurrent, LoadsInside
  <2> QED BY <2>2 DEF IInv
<1>2. ASSUME NEW n, ReadPastEnd(n) PROVE IInv' /\ Abs!Refuse(n)
  BY <1>1, <1>2 DEF ReadPastEnd, Fits, End, Abs!Refuse, Abs!Fits
<1>3. ASSUME Misuse PROVE IInv' /\ Abs!Misuse
  BY <1>1, <1>3 DEF Misuse, End, Abs!Misuse
<1> QED BY <1>2, <1>3

(***************************************************************************)
(* The bits a read of n bits returns are zeros if and only if those it     *)
(* skips are.                                                              *)
(***************************************************************************)
LEMMA ZeroValue ==
  ASSUME TypeOK, NEW n \in 0..WordBits, bitsRead + n <= Len(data)
  PROVE  NextBits(n) = ZeroWord <=> Abs!Upcoming(n) = Abs!Zeros(Len(Abs!Upcoming(n)))
<1> DEFINE u == Abs!Upcoming(n)
<1>1. WordBits \in Nat /\ n \in Nat /\ bitsRead \in Nat
  BY HalfFacts, ReaderFacts
<1>2. u \in Seq(Bit) /\ Len(u) = n /\ \A i \in 1..n : u[i] = data[bitsRead + i]
  BY <1>1, UpcomingBits
<1> HIDE DEF u
<1>3. NextBits(n) = ZeroWord <=> \A i \in 1..n : data[bitsRead + i] = 0
  <2>1. ASSUME NextBits(n) = ZeroWord, NEW i \in 1..n PROVE data[bitsRead + i] = 0
    <3>1. /\ i - 1 \in 0..WordBits-1 /\ i - 1 < n
          /\ bitsRead + 1 + (i - 1) = bitsRead + i
      BY <1>1
    <3>2. NextBits(n)[i-1] = data[bitsRead + i]
      BY <3>1 DEF NextBits
    <3> QED BY <3>1, <3>2, <2>1 DEF ZeroWord
  <2>2. ASSUME \A i \in 1..n : data[bitsRead + i] = 0 PROVE NextBits(n) = ZeroWord
    <3>1. ASSUME NEW k \in 0..WordBits-1
          PROVE  (IF k < n THEN data[bitsRead + 1 + k] ELSE 0) = 0
      <4>1. CASE k < n
        <5>1. k + 1 \in 1..n /\ bitsRead + 1 + k = bitsRead + (k + 1)
          BY <4>1, <1>1
        <5> QED BY <5>1, <4>1, <2>2
      <4> QED BY <4>1
    <3> QED BY <3>1 DEF NextBits, ZeroWord
  <2> QED BY <2>1, <2>2
<1>4. u = Abs!Zeros(n) <=> \A i \in 1..n : data[bitsRead + i] = 0
  <2>1. u = [i \in 1..n |-> u[i]]
    BY <1>2, SequenceIsFunction
  <2> QED BY <2>1, <1>2 DEF Abs!Zeros
<1> QED BY <1>2, <1>3, <1>4 DEF u

(***************************************************************************)
(* An align inside the packet is always inside the packet, as it is whole  *)
(* bytes.                                                                  *)
(***************************************************************************)
LEMMA AlignFits ==
  ASSUME TypeOK
  PROVE  /\ AlignPad(bitsRead) \in 0..HalfBits
         /\ AlignPad(bitsRead) = IF shift = 0 THEN 0 ELSE ByteBits - shift
         /\ RoundUp(bitsRead) = bitsRead + AlignPad(bitsRead)
         /\ bitsRead + AlignPad(bitsRead) <= Len(data)
<1>1. /\ bitsRead \in Nat /\ ByteLen(data) \in Nat /\ bitsRead <= ByteLen(data) * ByteBits
      /\ Len(data) = ByteLen(data) * ByteBits
  BY ReaderFacts
<1>2. RoundUp(bitsRead) <= Len(data)
  BY <1>1, RoundUpLeast
<1>3. /\ AlignPad(bitsRead) \in 0..ByteBits-1
      /\ AlignPad(bitsRead) = IF shift = 0 THEN 0 ELSE ByteBits - shift
  BY <1>1, RoundUpBytes, AlignPadValue DEF shift
<1>4. ByteBits \in Nat /\ HalfBits \in Nat /\ ByteBits <= HalfBits
  BY HalfFacts
<1>5. AlignPad(bitsRead) \in 0..HalfBits
  BY ONLY <1>3, <1>4
<1> QED BY <1>2, <1>3, <1>5 DEF RoundUp

(***************************************************************************)
(* ReadAlign moves to the next byte, and is false on bits that are not     *)
(* zeros.                                                                  *)
(***************************************************************************)
LEMMA AlignStep ==
  ASSUME IInv, ReadAlign
  PROVE  IInv' /\ Abs!Align
<1> DEFINE n == AlignPad(bitsRead)
<1>1. /\ TypeOK /\ TailCurrent
      /\ result' = <<>> /\ UNCHANGED <<data, slack, tail, tailBase>>
  BY DEF IInv, ReadAlign
<1>2. /\ n \in 0..HalfBits /\ n = IF shift = 0 THEN 0 ELSE ByteBits - shift
      /\ RoundUp(bitsRead) = bitsRead + n /\ bitsRead + n <= Len(data)
  BY <1>1, AlignFits
<1>3. n \in Nat /\ n \in 0..WordBits /\ bitsRead \in Nat
  <2>1. bitsRead \in Nat
    BY <1>1, ReaderFacts
  <2>2. HalfBits \in Nat /\ WordBits = HalfBits + HalfBits
    BY HalfFacts
  <2> HIDE DEF n
  <2> QED BY ONLY <2>1, <2>2, <1>2
<1>4. bitsRead + n \in 0..Len(data) /\ Len(Abs!Upcoming(n)) = n
  BY <1>1, <1>2, <1>3, UpcomingBits
<1> HIDE DEF n
<1>5. /\ bitsRead' = bitsRead + n
      /\ last' = IF Abs!Upcoming(n) = Abs!Zeros(Len(Abs!Upcoming(n))) THEN "read" ELSE "refused"
  <2>1. CASE shift = 0
    <3>1. n = 0 /\ bitsRead' = bitsRead /\ last' = "read"
      BY <2>1, <1>2 DEF ReadAlign
    <3>2. NextBits(n) = ZeroWord
      BY <3>1, HalfFacts DEF NextBits, ZeroWord
    <3> QED BY <3>1, <3>2, <1>1, <1>2, <1>3, ZeroValue
  <2>2. CASE shift # 0
    <3>1. n = ByteBits - shift /\ Fits(n) /\ InSource(windowBytes)
      BY <2>2, <1>2, Window DEF Fits
    <3>2. /\ bitsRead' = bitsRead + n
          /\ last' = IF readBits(n) = ZeroWord THEN "read" ELSE "refused"
      BY <3>1, <2>2 DEF ReadAlign
    <3>3. readBits(n) = NextBits(n)
      BY <3>1, <1>2, NarrowValue
    <3> QED BY <3>2, <3>3, <1>1, <1>2, <1>3, ZeroValue
  <2> QED BY <2>1, <2>2
<1>6. TypeOK' /\ TailCurrent' /\ LoadsInside'
  <2>1. bitsRead' \in 0..Len(data) /\ <<>> \in Seq(Bit) /\ last' \in {"read", "refused"}
    BY <1>4, <1>5
  <2> QED BY <2>1, <1>1 DEF TypeOK, TailCurrent, LoadsInside
<1>7. Abs!Align
  <2>1. Abs!AlignPad(bitsRead) = n /\ Abs!RoundUp(bitsRead) = bitsRead + n
    BY <1>2 DEF Abs!AlignPad, AlignPad, Abs!RoundUp, RoundUp, n
  <2> QED BY <2>1, <1>1, <1>5 DEF Abs!Align
<1> QED BY <1>6, <1>7 DEF IInv

(***************************************************************************)
(* ReadBytes slices the next n bytes of the packet out of it.              *)
(***************************************************************************)
LEMMA ReadBytesStep ==
  ASSUME IInv, NEW n \in Counts, ReadBytes(n)
  PROVE  IInv' /\ Abs!ReadRun(n)
<1> DEFINE k == n * ByteBits
<1>1. /\ TypeOK /\ TailCurrent
      /\ shift = 0 /\ bitsRead + k <= Len(data) /\ bitsRead' = bitsRead + k
      /\ result' = SubSeq(data, byteIndex * ByteBits + 1, (byteIndex + n) * ByteBits)
      /\ last' = "read" /\ UNCHANGED <<data, slack, tail, tailBase>>
  BY DEF IInv, ReadBytes, Fits
<1>2. /\ byteIndex \in Nat /\ bitsRead \in Nat /\ ByteBits \in Nat \ {0}
      /\ bitsRead = byteIndex * ByteBits + shift
  BY <1>1, ReaderFacts, HalfFacts
<1>3. n \in Nat /\ k \in Nat /\ byteIndex * ByteBits = bitsRead
  BY <1>1, <1>2, CountsAssumption
<1>4. (byteIndex + n) * ByteBits = bitsRead + k
  <2>1. (byteIndex + n) * ByteBits = byteIndex * ByteBits + n * ByteBits
    BY ONLY <1>2, <1>3
  <2> QED BY <2>1, <1>3
<1> HIDE DEF k
<1>5. result' = Abs!Upcoming(k)
  BY <1>1, <1>3, <1>4 DEF Abs!Upcoming
<1>6. Abs!Upcoming(k) \in Seq(Bit) /\ bitsRead + k \in 0..Len(data)
  BY <1>1, <1>3, UpcomingBits
<1>7. TypeOK' /\ TailCurrent' /\ LoadsInside'
  BY <1>1, <1>5, <1>6 DEF TypeOK, TailCurrent, LoadsInside
<1>8. Abs!ReadRun(n)
  BY <1>1, <1>5 DEF Abs!ReadRun, Abs!Fits, shift, k
<1> QED BY <1>7, <1>8 DEF IInv

(***************************************************************************)
(* The tail of a packet, and a position at its start.                      *)
(***************************************************************************)
LEMMA TailType ==
  ASSUME NEW p \in Packets
  PROVE  /\ TailOf(p) \in [1..TailBytes * ByteBits -> Bit]
         /\ TailBase(p) \in Nat
         /\ 0 \in 0..Len(p)
<1>1. p \in Seq(Bit) /\ Len(p) \in Nat /\ ByteLen(p) \in Nat
  <2>1. p \in Seq(Bit) /\ Len(p) \in Nat
    BY PacketsAssumption DEF WholeBytes
  <2> QED BY <2>1, InBytes DEF ByteLen
<1>2. window64Bytes \in Nat /\ ByteBits \in Nat
  BY HalfFacts
<1>3. TailBase(p) \in Nat
  BY <1>1, <1>2 DEF TailBase, Larger
<1>4. TailBase(p) * ByteBits \in Nat
  BY <1>2, <1>3
<1>5. \A i \in 1..TailBytes * ByteBits :
        TailBase(p) * ByteBits + i <= Len(p) => p[TailBase(p) * ByteBits + i] \in Bit
  <2> TAKE i \in 1..TailBytes * ByteBits
  <2> DEFINE k == TailBase(p) * ByteBits
  <2>1. i \in Nat \ {0}
    BY HalfFacts
  <2>2. k \in Nat
    BY <1>4
  <2> HIDE DEF k
  <2>3. k + i <= Len(p) => k + i \in 1..Len(p)
    BY <2>1, <2>2, <1>1
  <2>4. k + i <= Len(p) => p[k + i] \in Bit
    BY <2>3, <1>1
  <2> QED BY <2>4 DEF k
<1>6. TailOf(p) \in [1..TailBytes * ByteBits -> Bit]
  BY <1>5 DEF TailOf, Bit
<1> QED BY <1>1, <1>3, <1>6

(***************************************************************************)
(* Reset with too little slack fills the tail from the new packet; with    *)
(* enough it leaves an earlier packet's tail, which no window then needs.  *)
(***************************************************************************)
LEMMA ResetStep ==
  ASSUME IInv, NEW p \in Packets, NEW s \in Slacks, Reset(p, s)
  PROVE  IInv' /\ Abs!Reset
<1>1. /\ TypeOK /\ data' = p /\ slack' = s /\ bitsRead' = 0
      /\ result' = <<>> /\ last' = "reset"
      /\ Slackless(s) => tail' = TailOf(p) /\ tailBase' = TailBase(p)
      /\ ~Slackless(s) => UNCHANGED <<tail, tailBase>>
  BY DEF IInv, Reset
<1>2. TailOf(p) \in [1..TailBytes * ByteBits -> Bit] /\ TailBase(p) \in Nat /\ 0 \in 0..Len(p)
  BY TailType
<1>3. TypeOK'
  BY <1>1, <1>2 DEF TypeOK
<1>4. TailCurrent' /\ LoadsInside'
  BY <1>1 DEF TailCurrent, LoadsInside
<1>5. Abs!Reset
  BY <1>1 DEF Abs!Reset
<1> QED BY <1>3, <1>4, <1>5 DEF IInv

(***************************************************************************)
(* A new reader's tail is its packet's, or empty.                          *)
(***************************************************************************)
LEMMA InitReader == Init => IInv /\ Abs!Init
<1> SUFFICES ASSUME Init PROVE IInv /\ Abs!Init
  OBVIOUS
<1>1. /\ data \in Packets /\ slack \in Slacks /\ bitsRead = 0
      /\ result = <<>> /\ last = "reset"
      /\ Slackless(slack) => tail = TailOf(data) /\ tailBase = TailBase(data)
      /\ ~Slackless(slack) => tail = Zeros(TailBytes * ByteBits) /\ tailBase = 0
  BY DEF Init
<1>2. /\ TailOf(data) \in [1..TailBytes * ByteBits -> Bit] /\ TailBase(data) \in Nat
      /\ 0 \in 0..Len(data)
  BY <1>1, TailType
<1>3. Zeros(TailBytes * ByteBits) \in [1..TailBytes * ByteBits -> Bit]
  BY DEF Zeros, Bit
<1>4. TypeOK
  BY <1>1, <1>2, <1>3 DEF TypeOK
<1>5. TailCurrent /\ LoadsInside
  BY <1>1 DEF TailCurrent, LoadsInside
<1>6. Abs!Init
  BY <1>1 DEF Abs!Init
<1> QED BY <1>4, <1>5, <1>6 DEF IInv

(***************************************************************************)
(* Every step keeps the invariant and is a step of ReaderSpec.             *)
(***************************************************************************)
LEMMA StepReader == IInv /\ [Next]_vars => IInv' /\ [Abs!Next]_Abs!abstractVars
<1> SUFFICES ASSUME IInv, [Next]_vars PROVE IInv' /\ [Abs!Next]_Abs!abstractVars
  OBVIOUS
<1>1. CASE \E bits \in 0..HalfBits : ReadBits(bits)
  <2>1. PICK bits \in 0..HalfBits : ReadBits(bits)
    BY <1>1
  <2>2. bits \in 0..WordBits
    BY HalfFacts
  <2>3. IInv' /\ Abs!Read(bits)
    BY <2>1, ReadStep
  <2> QED BY <2>2, <2>3 DEF Abs!Next
<1>2. CASE \E bits \in 0..WordBits : ReadBits64(bits)
  BY <1>2, ReadStep DEF Abs!Next
<1>3. CASE \E bits \in 0..WordBits : ReadPastEnd(bits)
  BY <1>3, EndStep DEF Abs!Next
<1>4. CASE ReadAlign
  BY <1>4, AlignStep DEF Abs!Next
<1>5. CASE \E n \in Counts : ReadBytes(n)
  BY <1>5, ReadBytesStep DEF Abs!Next
<1>6. CASE \E n \in Counts : BytesPastEnd(n)
  BY <1>6, EndStep DEF BytesPastEnd, Abs!Next
<1>7. CASE Misuse
  BY <1>7, EndStep DEF Abs!Next
<1>8. CASE \E p \in Packets, s \in Slacks : Reset(p, s)
  BY <1>8, ResetStep DEF Abs!Next
<1>9. CASE UNCHANGED vars
  <2>1. UNCHANGED <<data, slack, bitsRead, tail, tailBase, result, last>>
    BY <1>9 DEF vars
  <2>2. TypeOK' /\ TailCurrent' /\ LoadsInside'
    BY <2>1 DEF IInv, TypeOK, TailCurrent, LoadsInside
  <2> QED BY <2>1, <2>2 DEF IInv, Abs!abstractVars
<1> QED BY <1>1, <1>2, <1>3, <1>4, <1>5, <1>6, <1>7, <1>8, <1>9 DEF Next

(***************************************************************************)
(* The inductive invariant: the types, and the tail of a packet without    *)
(* slack is that packet's.                                                 *)
(***************************************************************************)
THEOREM InductiveInvariant == Spec => []IInv
<1>1. Init => IInv
  BY InitReader
<1>2. IInv /\ [Next]_vars => IInv'
  BY StepReader
<1> QED BY <1>1, <1>2, PTL DEF Spec

(***************************************************************************)
(* No slice expression of a load panics, at any length of packet and of    *)
(* slack, after any packets read before.                                   *)
(***************************************************************************)
THEOREM LoadsStayInside == Spec => []LoadsInside
<1>1. IInv => LoadsInside
  BY DEF IInv
<1> QED BY <1>1, InductiveInvariant, PTL

(***************************************************************************)
(* The reader returns the packet's bits and nothing else: neither slack,   *)
(* padding nor an earlier packet's tail reaches what a read returns.       *)
(***************************************************************************)
THEOREM Implementation == Spec => ImplementsReader
<1>1. Init => Abs!Init
  BY InitReader
<1>2. IInv /\ [Next]_vars => [Abs!Next]_Abs!abstractVars
  BY StepReader
<1> QED BY <1>1, <1>2, InductiveInvariant, PTL DEF Spec, ImplementsReader, Abs!Spec
=============================================================================

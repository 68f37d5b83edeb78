-------------------------- MODULE BitWriterProofs --------------------------
(***************************************************************************)
(* The bit writer keeps its counters and its scratch together and          *)
(* implements WireSpec, for every geometry, every set of buffers, fields   *)
(* and runs.                                                               *)
(***************************************************************************)
EXTENDS BitWriter, CodecProofs

-----------------------------------------------------------------------------
(***************************************************************************)
(* A field fits a word, and a run is whole bytes.                          *)
(***************************************************************************)
LEMMA FieldFacts ==
  ASSUME NEW f \in Fields
  PROVE  f \in Seq(Bit) /\ Len(f) \in 1..WordBits
<1>1. Len(f) \in 1..MaxBits /\ f \in Seq(Bit) /\ MaxBits \in ByteBits..WordBits
  BY WriterFieldsAssumption, WriterWidthAssumption
<1>2. ByteBits \in Nat /\ WordBits \in Nat
  BY WordBitsType, GeometryAssumption
<1> QED BY <1>1, <1>2

(***************************************************************************)
(* The length of a sequence of whole bytes in bytes, and in bits.          *)
(***************************************************************************)
LEMMA WholeBytes ==
  ASSUME NEW r \in Seq(Bit), Len(r) % ByteBits = 0
  PROVE  Len(r) \div ByteBits \in Nat /\ Len(r) = (Len(r) \div ByteBits) * ByteBits
<1> DEFINE n == Len(r)
<1>1. n \in Nat /\ ByteBits \in Nat \ {0} /\ n % ByteBits = 0
  BY GeometryAssumption
<1> HIDE DEF n
<1>2. n \div ByteBits \in Nat /\ n = (n \div ByteBits) * ByteBits + (n % ByteBits)
  BY <1>1, DivMod
<1>3. n = (n \div ByteBits) * ByteBits
  BY <1>1, <1>2
<1> QED BY <1>2, <1>3 DEF n

(***************************************************************************)
(* What the invariant says of the variables, in the form the steps use it: *)
(* outside of a flush the counters are the split of the position that      *)
(* tryWriteBits64 computes in the stream.                                  *)
(***************************************************************************)
LEMMA StateFacts ==
  ASSUME IInv
  PROVE  /\ \E words \in Nat : words \in Buffers /\ numBits = words * WordBits
         /\ numBits \in Nat /\ bitsWritten \in Nat /\ bitsWritten <= numBits
         /\ data \in [0..numBits-1 -> Bit \cup {Old}]
         /\ scratch \in Word
         /\ wordIndex \in Nat /\ wordIndex * WordBits \in Nat
         /\ scratchBits \in 0..WordBits-1
         /\ WordBits \in Nat \ {0}
         /\ start \in Nat /\ start <= bitsWritten
         /\ last # "flushed" =>
              /\ bitsWritten = wordIndex * WordBits + scratchBits
              /\ Pending(bitsWritten) = scratchBits
              /\ WordBase(bitsWritten) = wordIndex * WordBits
<1>1. /\ numBits \in {n * WordBits : n \in Buffers}
      /\ bitsWritten \in 0..numBits
      /\ data \in [0..numBits-1 -> Bit \cup {Old}] /\ scratch \in Word
      /\ wordIndex \in 0..numBits /\ scratchBits \in 0..WordBits-1
      /\ start \in 0..bitsWritten
  BY DEF IInv, TypeOK
<1>2. \E words \in Nat : words \in Buffers /\ numBits = words * WordBits
  BY <1>1, WriterBuffersAssumption
<1>3. /\ numBits \in Nat /\ bitsWritten \in Nat /\ bitsWritten <= numBits
      /\ wordIndex \in Nat /\ start \in Nat /\ start <= bitsWritten
  BY <1>1, <1>2, WordBitsType
<1>4. wordIndex * WordBits \in Nat
  BY <1>3, WordBitsType
<1>5. ASSUME last # "flushed"
      PROVE  /\ bitsWritten = wordIndex * WordBits + scratchBits
             /\ Pending(bitsWritten) = scratchBits
             /\ WordBase(bitsWritten) = wordIndex * WordBits
  <2>1. bitsWritten = wordIndex * WordBits + scratchBits
    BY <1>5 DEF IInv, CountersAgree
  <2>2. (wordIndex * WordBits + scratchBits) % WordBits = scratchBits
    <3>1. wordIndex \in Int /\ scratchBits \in 0..WordBits-1 /\ WordBits \in Nat \ {0}
      BY <1>1, <1>3, WordBitsType
    <3> QED BY ONLY <3>1, DivModUnique
  <2>3. Pending(bitsWritten) = scratchBits
    BY <2>1, <2>2 DEF Pending
  <2>4. WordBase(bitsWritten) = bitsWritten - Pending(bitsWritten)
    BY DEF WordBase, Pending
  <2> DEFINE base == wordIndex * WordBits
  <2>5. base \in Nat /\ bitsWritten = base + scratchBits
    BY <1>4, <2>1
  <2> HIDE DEF base
  <2>6. WordBase(bitsWritten) = base
    BY <1>1, <2>3, <2>4, <2>5
  <2> QED BY <2>1, <2>3, <2>6 DEF base
<1> QED BY <1>1, <1>2, <1>3, <1>4, <1>5, WordBitsType

(***************************************************************************)
(* The numbers of the state, without the split.                            *)
(***************************************************************************)
LEMMA StateNumbers ==
  ASSUME IInv
  PROVE  /\ numBits \in Nat /\ bitsWritten \in Nat /\ bitsWritten <= numBits
         /\ wordIndex \in Nat /\ scratchBits \in 0..WordBits-1
         /\ start \in Nat /\ start <= bitsWritten /\ WordBits \in Nat \ {0}
BY StateFacts, Zenon

(***************************************************************************)
(* No more words are stored than the buffer has, flushed ones included.    *)
(***************************************************************************)
LEMMA WordsInside ==
  ASSUME IInv
  PROVE  wordIndex * WordBits <= numBits
<1> DEFINE base == wordIndex * WordBits
<1>1. PICK words \in Nat : numBits = words * WordBits
  BY StateFacts
<1>2. /\ numBits \in Nat /\ bitsWritten \in Nat /\ bitsWritten <= numBits
      /\ wordIndex \in Nat /\ base \in Nat /\ WordBits \in Nat \ {0}
      /\ scratchBits \in 0..WordBits-1
  BY StateFacts
<1>3. base <= bitsWritten + WordBits - 1
  <2>1. CASE last = "flushed"
    BY <2>1, <1>2 DEF IInv, CountersAgree
  <2>2. CASE last # "flushed"
    <3>1. bitsWritten = base + scratchBits
      BY <2>2, StateFacts
    <3> HIDE DEF base
    <3> QED BY <3>1, <1>2
  <2> QED BY <2>1, <2>2
<1>4. base < numBits + WordBits
  <2> HIDE DEF base
  <2> QED BY <1>2, <1>3
<1>5. (words + 1) * WordBits = numBits + WordBits
  BY <1>1, <1>2
<1>6. wordIndex < words + 1
  BY <1>1, <1>2, <1>4, <1>5, Products
<1>7. wordIndex * WordBits <= words * WordBits
  BY <1>1, <1>2, <1>6, Products
<1> QED BY <1>1, <1>7

-----------------------------------------------------------------------------
(***************************************************************************)
(* writeBits appends the low bits of its value, keeps every bit written    *)
(* before, and keeps the counters, the scratch and the buffer as the       *)
(* invariant wants them: with the spill into a new word or without.        *)
(***************************************************************************)
LEMMA PutEffect ==
  ASSUME IInv, last # "flushed", last' # "flushed", numBits' = numBits,
         NEW value \in Word, NEW n \in 1..WordBits,
         \A i \in 0..WordBits-1 : i >= n => value[i] = 0,
         Room(n), writeBits(value, n)
  PROVE  /\ bitsWritten' = bitsWritten + n
         /\ bitsWritten' \in 0..numBits
         /\ data' \in [0..numBits-1 -> Bit \cup {Old}]
         /\ scratch' \in Word
         /\ scratchBits' \in 0..WordBits-1
         /\ wordIndex' \in Nat
         /\ CountersAgree' /\ PastEndZero' /\ WordsStored'
         /\ \A p \in 0..bitsWritten-1 : BitAt(p)' = BitAt(p)
         /\ \A p \in bitsWritten..bitsWritten+n-1 : BitAt(p)' = value[p - bitsWritten]
<1> DEFINE bw == bitsWritten
           sb == scratchBits
           base == wordIndex * WordBits
           filled == Or(scratch, Shl(value, sb))
           carry == Shr(value, WordBits - sb)
<1>1. /\ numBits \in Nat /\ bw \in Nat /\ data \in [0..numBits-1 -> Bit \cup {Old}]
      /\ scratch \in Word /\ sb \in 0..WordBits-1 /\ base \in Nat /\ bw = base + sb
      /\ WordBits \in Nat \ {0} /\ wordIndex \in Nat
  BY StateFacts
<1>2. /\ bitsWritten' = bw + n /\ bw + n <= numBits
      /\ scratch' = IF sb + n >= WordBits THEN carry ELSE filled
      /\ data' = IF sb + n >= WordBits THEN StoreWord(data, base, filled) ELSE data
      /\ wordIndex' = IF sb + n >= WordBits THEN wordIndex + 1 ELSE wordIndex
      /\ scratchBits' = IF sb + n >= WordBits THEN sb + n - WordBits ELSE sb + n
  BY DEF writeBits, Room
<1>3. /\ \A i \in sb..WordBits-1 : scratch[i] = 0
      /\ \A p \in bw..numBits-1 : data[p] \in {0, Old}
      /\ \A p \in 0..base-1 : data[p] \in Bit
  BY DEF IInv, CountersAgree, PastEndZero, WordsStored
<1>4. /\ filled \in Word /\ carry \in Word
      /\ \A i \in 0..sb-1 : filled[i] = scratch[i]
      /\ \A i \in sb..WordBits-1 : filled[i] = value[i-sb]
      /\ \A i \in 0..WordBits-1 : carry[i] = IF i < sb THEN value[i + WordBits - sb] ELSE 0
  <2> HIDE DEF sb
  <2>1. scratch \in Word /\ value \in Word /\ sb \in 0..WordBits-1
    BY <1>1
  <2>2. \A i \in 0..WordBits-1 : i >= sb => scratch[i] = 0
    BY <1>1, <1>3
  <2>3. filled = Or(scratch, Shl(value, sb)) /\ carry = Shr(value, WordBits - sb)
    OBVIOUS
  <2> HIDE DEF filled, carry
  <2> QED BY <2>1, <2>2, <2>3, Fill, SMTT(30)
<1>5. \A p : BitAt(p) = IF p < base THEN data[p] ELSE scratch[p - base]
  BY DEF BitAt
<1>6. /\ CountersAgree' <=> /\ wordIndex' * WordBits + scratchBits' = bitsWritten'
                           /\ \A i \in scratchBits'..WordBits-1 : scratch'[i] = 0
      /\ PastEndZero' <=> \A p \in bitsWritten'..numBits-1 : data'[p] \in {0, Old}
      /\ WordsStored' <=> \A p \in 0..wordIndex' * WordBits - 1 : data'[p] \in Bit
      /\ \A p : BitAt(p)' = IF p < wordIndex' * WordBits
                              THEN data'[p] ELSE scratch'[p - wordIndex' * WordBits]
  BY DEF CountersAgree, PastEndZero, WordsStored, BitAt
<1>7. bitsWritten' \in 0..numBits
  BY <1>1, <1>2
<1>8. CASE sb + n < WordBits
  <2>1. /\ wordIndex' = wordIndex /\ scratchBits' = sb + n
        /\ scratch' = filled /\ data' = data
    BY <1>1, <1>2, <1>8
  <2>2. wordIndex' * WordBits = base
    BY <2>1
  <2>3. /\ CountersAgree' <=> /\ base + (sb + n) = bw + n
                              /\ \A i \in sb + n..WordBits-1 : filled[i] = 0
        /\ PastEndZero' <=> \A p \in bw + n..numBits-1 : data[p] \in {0, Old}
        /\ WordsStored' <=> \A p \in 0..base-1 : data[p] \in Bit
        /\ \A p : BitAt(p)' = IF p < base THEN data[p] ELSE filled[p - base]
    BY <2>1, <2>2, <1>2, <1>6
  <2>4. wordIndex' \in Nat
    BY <2>1, <1>1
  <2> HIDE DEF sb, base, filled, carry, bw
  <2>5. CountersAgree'
    <3>1. ASSUME NEW i \in sb + n..WordBits-1 PROVE filled[i] = 0
      <4>1. filled[i] = value[i - sb]
        BY <1>1, <1>4
      <4>2. i - sb \in 0..WordBits-1 /\ i - sb >= n
        BY <1>1
      <4> QED BY <4>1, <4>2
    <3>2. base + (sb + n) = bw + n
      BY <1>1
    <3> QED BY <3>1, <3>2, <2>3
  <2>6. PastEndZero' /\ WordsStored'
    BY <1>1, <1>3, <2>3
  <2>7. \A p \in 0..bw-1 : BitAt(p)' = BitAt(p)
    <3> TAKE p \in 0..bw-1
    <3>1. CASE p < base
      BY <3>1, <1>5, <2>3
    <3>2. CASE ~(p < base)
      <4>1. p - base \in 0..sb-1
        BY <3>2, <1>1
      <4> QED BY <4>1, <3>2, <1>4, <1>5, <2>3
    <3> QED BY <3>1, <3>2
  <2>8. \A p \in bw..bw+n-1 : BitAt(p)' = value[p - bw]
    <3> TAKE p \in bw..bw+n-1
    <3>1. BitAt(p)' = filled[p - base]
      BY <1>1, <2>3
    <3>2. p - base \in sb..WordBits-1 /\ (p - base) - sb = p - bw
      BY <1>1, <1>8
    <3>3. filled[p - base] = value[(p - base) - sb]
      BY <3>2, <1>4
    <3> QED BY <3>1, <3>2, <3>3
  <2>9. scratchBits' \in 0..WordBits-1
    BY <1>1, <1>8, <2>1
  <2> QED BY <1>1, <1>2, <1>4, <1>7, <2>1, <2>4, <2>5, <2>6, <2>7, <2>8, <2>9 DEF bw
<1>9. CASE sb + n >= WordBits
  <2>1. /\ wordIndex' = wordIndex + 1 /\ scratchBits' = sb + n - WordBits
        /\ scratch' = carry /\ data' = StoreWord(data, base, filled)
    BY <1>1, <1>2, <1>9
  <2>2. wordIndex' * WordBits = base + WordBits
    BY <1>1, <2>1
  <2>3. /\ CountersAgree' <=> /\ (base + WordBits) + (sb + n - WordBits) = bw + n
                              /\ \A i \in sb + n - WordBits..WordBits-1 : carry[i] = 0
        /\ PastEndZero' <=> \A p \in bw + n..numBits-1 : data'[p] \in {0, Old}
        /\ WordsStored' <=> \A p \in 0..base + WordBits - 1 : data'[p] \in Bit
        /\ \A p : BitAt(p)' = IF p < base + WordBits THEN data'[p]
                                                     ELSE carry[p - (base + WordBits)]
    <3>1. scratchBits' = sb + n - WordBits /\ scratch' = carry /\ bitsWritten' = bw + n
      BY <2>1, <1>2
    <3>2. CountersAgree' <=> /\ (base + WordBits) + (sb + n - WordBits) = bw + n
                             /\ \A i \in sb + n - WordBits..WordBits-1 : carry[i] = 0
      <4>1. CountersAgree' <=> /\ wordIndex' * WordBits + scratchBits' = bitsWritten'
                               /\ \A i \in scratchBits'..WordBits-1 : scratch'[i] = 0
        BY <1>6
      <4> HIDE DEF carry, base, sb, bw
      <4> QED BY <4>1, <3>1, <2>2
    <3>3. PastEndZero' <=> \A p \in bw + n..numBits-1 : data'[p] \in {0, Old}
      BY <3>1, <1>6
    <3>4. WordsStored' <=> \A p \in 0..base + WordBits - 1 : data'[p] \in Bit
      <4>1. WordsStored' <=> \A p \in 0..wordIndex' * WordBits - 1 : data'[p] \in Bit
        BY <1>6
      <4> HIDE DEF base
      <4>2. wordIndex' * WordBits - 1 = base + WordBits - 1
        BY <2>1, <2>2, <1>1
      <4> QED BY <4>1, <4>2, Zenon
    <3>5. \A p : BitAt(p)' = IF p < base + WordBits THEN data'[p]
                                                    ELSE carry[p - (base + WordBits)]
      <4>1. \A p : BitAt(p)' = IF p < wordIndex' * WordBits
                                THEN data'[p] ELSE scratch'[p - wordIndex' * WordBits]
        BY <1>6
      <4> HIDE DEF carry, base
      <4> QED BY <4>1, <3>1, <2>2
    <3> QED BY <3>2, <3>3, <3>4, <3>5
  <2>4. wordIndex' \in Nat
    BY <2>1, <1>1
  <2> HIDE DEF sb, base, filled, carry, bw
  <2>5. base + WordBits <= bw + n /\ scratchBits' \in 0..WordBits-1
    BY <1>1, <1>9, <2>1
  <2>6. /\ data' \in [0..numBits-1 -> Bit \cup {Old}]
        /\ \A p \in 0..numBits-1 :
             data'[p] = IF p \in base..base+WordBits-1 THEN filled[p - base] ELSE data[p]
    <3>1. base \in Nat
      BY <1>1
    <3>2. data \in [0..numBits-1 -> Bit \cup {Old}] /\ numBits \in Nat /\ filled \in Word
      BY <1>1, <1>4
    <3>3. StoreWord(data, base, filled) =
            [a \in 0..numBits-1 |->
               IF a \in base..base+WordBits-1 THEN filled[a - base] ELSE data[a]]
      BY <3>2 DEF StoreWord
    <3>4. \A a \in 0..numBits-1 : a \in base..base+WordBits-1 => filled[a - base] \in Bit
      BY <3>1, <3>2, WordBitsType DEF Word
    <3> QED BY <2>1, <3>2, <3>3, <3>4
  <2>7. CountersAgree'
    <3>1. ASSUME NEW i \in sb + n - WordBits..WordBits-1 PROVE carry[i] = 0
      <4>1. i \in 0..WordBits-1
        BY <1>1, <1>9
      <4>2. i < sb => i + WordBits - sb \in 0..WordBits-1 /\ i + WordBits - sb >= n
        BY <4>1, <1>1
      <4> QED BY <4>1, <4>2, <1>4
    <3>2. (base + WordBits) + (sb + n - WordBits) = bw + n
      BY <1>1
    <3> QED BY <3>1, <3>2, <2>3
  <2>8. PastEndZero'
    <3> SUFFICES ASSUME NEW p \in bw + n..numBits-1 PROVE data'[p] \in {0, Old}
      BY <2>3
    <3>1. p \in 0..numBits-1 /\ p \in bw..numBits-1 /\ p \notin base..base+WordBits-1
      BY <1>1, <2>5
    <3> QED BY <3>1, <2>6, <1>3
  <2>9. WordsStored'
    <3> SUFFICES ASSUME NEW p \in 0..base + WordBits - 1 PROVE data'[p] \in Bit
      BY <2>3
    <3>1. p \in 0..numBits-1
      BY <1>1, <1>2, <2>5
    <3>2. CASE p < base
      BY <3>1, <3>2, <2>6, <1>1, <1>3
    <3>3. CASE p >= base
      <4>1. p \in base..base+WordBits-1 /\ p - base \in 0..WordBits-1
        BY <3>3, <1>1
      <4> QED BY <4>1, <3>1, <2>6, <1>4 DEF Word
    <3> QED BY <3>2, <3>3, <1>1
  <2>10. \A p \in 0..bw-1 : BitAt(p)' = BitAt(p)
    <3> TAKE p \in 0..bw-1
    <3>1. p \in 0..numBits-1 /\ p < base + WordBits
      BY <1>1, <1>2
    <3>2. BitAt(p)' = data'[p]
      BY <3>1, <2>3
    <3>3. CASE p < base
      BY <3>1, <3>2, <3>3, <2>6, <1>1, <1>5
    <3>4. CASE p >= base
      <4>1. p \in base..base+WordBits-1 /\ p - base \in 0..sb-1
        BY <3>4, <1>1
      <4>2. data'[p] = filled[p - base]
        BY <4>1, <3>1, <2>6
      <4>3. filled[p - base] = scratch[p - base]
        BY <4>1, <1>4
      <4>4. BitAt(p) = scratch[p - base]
        <5>1. ~(p < base)
          BY <3>4, <1>1
        <5> QED BY <5>1, <1>5
      <4> QED BY <4>2, <4>3, <4>4, <3>2
    <3> QED BY <3>3, <3>4, <1>1
  <2>11. \A p \in bw..bw+n-1 : BitAt(p)' = value[p - bw]
    <3> TAKE p \in bw..bw+n-1
    <3>1. CASE p < base + WordBits
      <4>1. /\ p \in 0..numBits-1 /\ p \in base..base+WordBits-1
            /\ p - base \in sb..WordBits-1 /\ (p - base) - sb = p - bw
        BY <3>1, <1>1, <1>2
      <4>2. BitAt(p)' = data'[p]
        BY <3>1, <2>3
      <4>3. data'[p] = filled[p - base]
        BY <4>1, <2>6
      <4>4. filled[p - base] = value[p - bw]
        BY <4>1, <1>4
      <4> QED BY <4>2, <4>3, <4>4
    <3>2. CASE p >= base + WordBits
      <4> DEFINE j == p - (base + WordBits)
      <4>1. /\ ~(p < base + WordBits) /\ j \in 0..WordBits-1 /\ j < sb
            /\ j + WordBits - sb = p - bw
        BY <3>2, <1>1
      <4>2. BitAt(p)' = carry[j]
        BY <4>1, <2>3
      <4> HIDE DEF j
      <4>3. carry[j] = value[p - bw]
        BY <4>1, <1>4
      <4> QED BY <4>2, <4>3
    <3> QED BY <3>1, <3>2, <1>1
  <2> QED BY <1>2, <1>4, <1>7, <2>1, <2>4, <2>5, <2>6, <2>7, <2>8, <2>9, <2>10, <2>11 DEF bw
<1> QED BY <1>1, <1>8, <1>9

(***************************************************************************)
(* The copy of whole words, with nothing pending, appends them to the      *)
(* words stored.                                                           *)
(***************************************************************************)
LEMMA CopyEffect ==
  ASSUME IInv, last # "flushed", last' # "flushed",
         UNCHANGED <<numBits, scratch, scratchBits>>,
         scratchBits = 0,
         NEW words \in Nat, NEW s \in Seq(Bit), Len(s) = words * WordBits,
         bitsWritten + Len(s) <= numBits,
         data' = CopyBits(data, wordIndex * WordBits, s),
         bitsWritten' = bitsWritten + Len(s),
         wordIndex' = wordIndex + words
  PROVE  /\ bitsWritten' \in 0..numBits
         /\ data' \in [0..numBits-1 -> Bit \cup {Old}]
         /\ wordIndex' \in Nat
         /\ CountersAgree' /\ PastEndZero' /\ WordsStored'
         /\ \A p \in 0..bitsWritten-1 : BitAt(p)' = BitAt(p)
         /\ \A p \in bitsWritten..bitsWritten+Len(s)-1 :
              BitAt(p)' = s[(p - bitsWritten) + 1]
<1> DEFINE bw == bitsWritten
           n == Len(s)
<1>1. /\ numBits \in Nat /\ bw \in Nat /\ data \in [0..numBits-1 -> Bit \cup {Old}]
      /\ scratch \in Word /\ WordBits \in Nat \ {0} /\ wordIndex \in Nat
      /\ wordIndex * WordBits \in Nat /\ bw = wordIndex * WordBits + scratchBits
  BY StateFacts
<1>2. n \in Nat /\ bw + n <= numBits /\ bitsWritten' = bw + n
  OBVIOUS
<1>3. wordIndex * WordBits = bw
  <2> DEFINE base == wordIndex * WordBits
  <2>1. base \in Nat /\ bw = base + scratchBits /\ scratchBits = 0
    BY <1>1
  <2> HIDE DEF base
  <2>2. base = bw
    BY <2>1
  <2> QED BY <2>2 DEF base
<1>4. wordIndex' * WordBits = bw + n
  <2>1. (wordIndex + words) * WordBits = wordIndex * WordBits + words * WordBits
    BY <1>1
  <2> QED BY <2>1, <1>3
<1>5. /\ \A i \in 0..WordBits-1 : scratch[i] = 0
      /\ \A p \in bw..numBits-1 : data[p] \in {0, Old}
      /\ \A p \in 0..bw-1 : data[p] \in Bit
  BY <1>1, <1>3 DEF IInv, CountersAgree, PastEndZero, WordsStored
<1>6. /\ data' \in [0..numBits-1 -> Bit \cup {Old}]
      /\ \A p \in 0..numBits-1 :
           data'[p] = IF p \in bw..bw+n-1 THEN s[(p - bw) + 1] ELSE data[p]
  <2>1. data' = CopyBits(data, bw, s)
    BY <1>3
  <2>2. numBits \in Nat /\ data \in [0..numBits-1 -> Bit \cup {Old}] /\ bw \in Nat
    BY <1>1
  <2> HIDE DEF bw
  <2>3. CopyBits(data, bw, s) =
          [a \in 0..numBits-1 |-> IF a \in bw..bw+Len(s)-1 THEN s[a-bw+1] ELSE data[a]]
    BY <2>2 DEF CopyBits
  <2>4. \A a \in 0..numBits-1 : a \in bw..bw+Len(s)-1 => a-bw+1 \in 1..Len(s)
    BY <2>2, <1>2
  <2>5. \A a \in 0..numBits-1 : a \in bw..bw+Len(s)-1 => s[a-bw+1] \in Bit
    BY <2>4
  <2> QED BY <2>1, <2>2, <2>3, <2>5
<1>7. \A p : BitAt(p) = IF p < bw THEN data[p] ELSE scratch[p - bw]
  BY <1>3 DEF BitAt
<1>8. \A p : BitAt(p)' = IF p < bw + n THEN data'[p] ELSE scratch'[p - (bw + n)]
  BY <1>4 DEF BitAt
<1>9. CountersAgree'
  <2>1. CountersAgree' <=> /\ wordIndex' * WordBits + scratchBits' = bitsWritten'
                           /\ \A i \in scratchBits'..WordBits-1 : scratch'[i] = 0
    BY DEF CountersAgree
  <2>2. (bw + n) + 0 = bw + n
    BY <1>1, <1>2
  <2> QED BY <2>1, <2>2, <1>2, <1>4, <1>5
<1>10. /\ PastEndZero' <=> \A p \in bw + n..numBits-1 : data'[p] \in {0, Old}
       /\ WordsStored' <=> \A p \in 0..(bw + n)-1 : data'[p] \in Bit
  BY <1>2, <1>4 DEF PastEndZero, WordsStored
<1>11. \A p \in bw..bw+n-1 : s[(p - bw) + 1] \in Bit
  BY <1>1, <1>2
<1>12. wordIndex' \in Nat
  BY <1>1
<1> HIDE DEF bw, n
<1>13. bitsWritten' \in 0..numBits
  BY <1>1, <1>2
<1>14. PastEndZero'
  BY <1>1, <1>2, <1>5, <1>6, <1>10
<1>15. WordsStored'
  <2> SUFFICES \A p \in 0..(bw + n) - 1 : data'[p] \in Bit
    BY <1>10, Zenon
  <2> TAKE p \in 0..(bw + n) - 1
  <2>1. p \in 0..numBits-1
    BY <1>1, <1>2
  <2>2. p < bw => p \in 0..bw-1 /\ p \notin bw..bw+n-1
    BY <1>1
  <2>3. p >= bw => p \in bw..bw+n-1
    BY <1>1, <1>2
  <2>4. p < bw \/ p >= bw
    BY <1>1
  <2> QED BY <2>1, <2>2, <2>3, <2>4, <1>5, <1>6, <1>11
<1>16. \A p \in 0..bw-1 : BitAt(p)' = BitAt(p)
  <2> TAKE p \in 0..bw-1
  <2>1. p \in 0..numBits-1 /\ p < bw /\ p < bw + n /\ p \notin bw..bw+n-1
    BY <1>1, <1>2
  <2> QED BY <2>1, <1>6, <1>7, <1>8
<1>17. \A p \in bw..bw+n-1 : BitAt(p)' = s[(p - bw) + 1]
  <2> TAKE p \in bw..bw+n-1
  <2>1. p \in 0..numBits-1 /\ p < bw + n
    BY <1>1, <1>2
  <2> QED BY <2>1, <1>6, <1>8
<1> QED BY <1>6, <1>9, <1>12, <1>13, <1>14, <1>15, <1>16, <1>17 DEF bw, n

-----------------------------------------------------------------------------
(***************************************************************************)
(* The parts of the run: the head, if there are words after it, ends at a  *)
(* word boundary, and the words end in the run.                            *)
(***************************************************************************)
LEMMA RunFacts ==
  ASSUME IInv, last = "writing"
  PROVE  /\ run \in Seq(Bit) /\ RunBytes \in Nat /\ Len(run) = RunBytes * ByteBits
         /\ Done \in Nat /\ Done <= RunBytes /\ bitsWritten = start + Done * ByteBits
         /\ start + Len(run) <= numBits
         /\ HeadBytes \in Nat /\ HeadBytes <= RunBytes /\ NumWords \in Nat
         /\ HeadBytes + NumWords * WordBytes <= RunBytes
         /\ NumWords > 0 => Pending(start + HeadBytes * ByteBits) = 0
<1>1. /\ run \in Runs /\ start % ByteBits = 0
      /\ start + Len(run) <= numBits
      /\ Done <= RunBytes /\ bitsWritten = start + Done * ByteBits
  BY DEF IInv, RunSoFar
<1>2. run \in Seq(Bit) /\ Len(run) % ByteBits = 0
  BY <1>1, WriterRunsAssumption
<1>3. RunBytes \in Nat /\ Len(run) = RunBytes * ByteBits
  BY <1>2, WholeBytes DEF RunBytes
<1>4. start \in Nat /\ start <= bitsWritten /\ bitsWritten \in Nat
  BY StateFacts
<1>5. ByteBits \in Nat \ {0} /\ WordBytes \in Nat \ {0}
  BY GeometryAssumption
<1>6. Done \in Nat
  <2> DEFINE d == bitsWritten - start
  <2>1. d \in Nat
    BY <1>4
  <2> HIDE DEF d
  <2>2. d \div ByteBits \in Nat
    BY <2>1, <1>5, DivMod
  <2> QED BY <2>2 DEF d, Done
<1> DEFINE m == start \div ByteBits
           room == (WordBytes - ((start % WordBits) \div ByteBits)) % WordBytes
<1>7. m \in Nat /\ start = m * ByteBits
  <2>1. m \in Nat /\ start = m * ByteBits + (start % ByteBits)
    BY <1>4, <1>5, DivMod
  <2> HIDE DEF m
  <2> QED BY <2>1, <1>1, <1>4, <1>5
<1>8. room \in Nat /\ Pending(start + room * ByteBits) = 0
  <2> HIDE DEF m
  <2>1. LET pos == m * ByteBits
            left == (WordBytes - (Pending(pos) \div ByteBits)) % WordBytes
        IN  left \in Nat /\ Pending(pos + left * ByteBits) = 0
    BY <1>7, HeadReachesWord
  <2>2. room = (WordBytes - (Pending(m * ByteBits) \div ByteBits)) % WordBytes
    BY <1>7 DEF Pending
  <2> HIDE DEF room
  <2> QED BY <2>1, <2>2, <1>7
<1>9. HeadBytes = IF room <= RunBytes THEN room ELSE RunBytes
  BY DEF HeadBytes
<1> HIDE DEF m, room
<1>10. HeadBytes \in Nat /\ HeadBytes <= RunBytes
  BY <1>3, <1>8, <1>9
<1> DEFINE rest == RunBytes - HeadBytes
<1>11. rest \in Nat
  BY <1>3, <1>10
<1>12. NumWords = rest \div WordBytes
  BY DEF NumWords
<1> HIDE DEF rest
<1>13. /\ NumWords \in Nat /\ rest % WordBytes \in 0..WordBytes-1
       /\ rest = NumWords * WordBytes + (rest % WordBytes)
  BY <1>5, <1>11, <1>12, DivMod
<1>14. NumWords * WordBytes \in Nat /\ NumWords * WordBytes <= rest
  <2>1. NumWords * WordBytes \in Nat
    BY <1>5, <1>13
  <2> QED BY <2>1, <1>5, <1>11, <1>13
<1>15. HeadBytes + NumWords * WordBytes <= RunBytes
  BY <1>3, <1>10, <1>14 DEF rest
<1>16. ASSUME NumWords > 0 PROVE Pending(start + HeadBytes * ByteBits) = 0
  <2>1. rest > 0
    <3>1. 0 * WordBytes < NumWords * WordBytes
      BY <1>5, <1>13, <1>16, Products
    <3> QED BY <3>1, <1>5, <1>11, <1>14
  <2>2. HeadBytes = room
    BY <2>1, <1>3, <1>8, <1>9, <1>10 DEF rest
  <2> QED BY <2>2, <1>8
<1> QED BY <1>1, <1>2, <1>3, <1>6, <1>10, <1>13, <1>15, <1>16

(***************************************************************************)
(* The bytes done, after a step to the byte d of the run.                  *)
(***************************************************************************)
LEMMA DoneAt ==
  ASSUME IInv, start' = start, NEW d \in Nat, bitsWritten' = start + d * ByteBits
  PROVE  Done' = d
<1>1. start \in Nat /\ ByteBits \in Nat \ {0}
  BY StateFacts, GeometryAssumption
<1>2. (d * ByteBits + 0) \div ByteBits = d
  BY <1>1, DivModUnique
<1>3. bitsWritten' - start' = d * ByteBits + 0
  BY <1>1
<1> QED BY <1>2, <1>3 DEF Done

(***************************************************************************)
(* A step that appends bytes of the run where they belong keeps what the   *)
(* invariant says of the run.                                              *)
(***************************************************************************)
LEMMA RunGrows ==
  ASSUME IInv, last = "writing", UNCHANGED <<numBits, run, start, last>>,
         NEW d \in Nat, Done < d, d <= RunBytes,
         d <= HeadBytes \/ d >= HeadBytes + NumWords * WordBytes,
         bitsWritten' = start + d * ByteBits,
         \A p \in 0..bitsWritten-1 : BitAt(p)' = BitAt(p),
         \A p \in bitsWritten..start + d * ByteBits - 1 : BitAt(p)' = run[p - start + 1]
  PROVE  RunSoFar'
<1>1. /\ start \in Nat /\ Done \in Nat /\ bitsWritten = start + Done * ByteBits
      /\ ByteBits \in Nat \ {0} /\ d * ByteBits \in Nat /\ Done * ByteBits \in Nat
  <2>1. /\ start \in Nat /\ Done \in Nat /\ bitsWritten = start + Done * ByteBits
        /\ ByteBits \in Nat \ {0}
    BY RunFacts, StateFacts, GeometryAssumption
  <2>2. \A k \in Nat : k * ByteBits \in Nat
    BY <2>1
  <2> QED BY <2>1, <2>2
<1>2. /\ run \in Runs /\ start % ByteBits = 0 /\ start + Len(run) <= numBits
      /\ \A i \in 1..Done * ByteBits : BitAt(start + i - 1) = run[i]
  BY DEF IInv, RunSoFar
<1>3. Done' = d
  BY DoneAt
<1>4. /\ RunBytes' = RunBytes /\ HeadBytes' = HeadBytes /\ NumWords' = NumWords
  BY DEF RunBytes, HeadBytes, NumWords
<1>5. ASSUME NEW i \in 1..d * ByteBits PROVE BitAt(start + i - 1)' = run[i]
  <2> DEFINE p == start + i - 1
             old == Done * ByteBits
             new == d * ByteBits
  <2>1. /\ old \in Nat /\ new \in Nat /\ bitsWritten = start + old /\ i \in 1..new
    BY <1>1
  <2>2. \A q \in bitsWritten..start + new - 1 : BitAt(q)' = run[q - start + 1]
    OBVIOUS
  <2>3. \A j \in 1..old : BitAt(start + j - 1) = run[j]
    BY <1>2
  <2> HIDE DEF old, new
  <2>4. CASE i <= old
    <3>1. i \in 1..old /\ p \in 0..bitsWritten-1
      BY <2>1, <2>4, <1>1
    <3> QED BY <3>1, <2>3
  <2>5. CASE i > old
    <3>1. p \in bitsWritten..start + new - 1 /\ p - start + 1 = i
      BY <2>1, <2>5, <1>1
    <3> QED BY <3>1, <2>2
  <2> QED BY <2>1, <2>4, <2>5
<1>6. \A i \in 1..Done' * ByteBits : BitAt(start + i - 1)' = run[i]
  BY <1>3, <1>5
<1> QED BY <1>2, <1>3, <1>4, <1>6 DEF RunSoFar

-----------------------------------------------------------------------------
(***************************************************************************)
(* The invariant is inductive.                                             *)
(***************************************************************************)
LEMMA InitIInv == Init => IInv
<1> SUFFICES ASSUME Init PROVE IInv
  OBVIOUS
<1>1. PICK words \in Buffers : numBits = words * WordBits
  BY DEF Init
<1>2. words \in Nat /\ numBits \in Nat /\ WordBits \in Nat \ {0}
  BY <1>1, WriterBuffersAssumption, WordBitsType
<1>3. /\ bitsWritten = 0 /\ wordIndex = 0 /\ scratchBits = 0 /\ scratch = ZeroWord
      /\ run = <<>> /\ start = 0 /\ last = "reset"
      /\ data = [a \in 0..numBits-1 |-> Old]
  BY DEF Init
<1>4. TypeOK
  BY <1>1, <1>2, <1>3, ZeroWordType DEF TypeOK
<1>5. 0 * WordBits = 0
  BY <1>2
<1>6. CountersAgree
  BY <1>3, <1>5 DEF CountersAgree, ZeroWord
<1>7. PastEndZero
  BY <1>2, <1>3 DEF PastEndZero
<1>8. WordsStored
  BY <1>3, <1>5 DEF WordsStored
<1>9. RunSoFar
  BY <1>3 DEF RunSoFar
<1> QED BY <1>3, <1>4, <1>6, <1>7, <1>8, <1>9 DEF IInv

(***************************************************************************)
(* Words that fit a buffer are no more than its bits.                      *)
(***************************************************************************)
LEMMA IndexInside ==
  ASSUME NEW i \in Nat, NEW n \in Nat, i * WordBits <= n
  PROVE  i \in 0..n
<1>1. WordBits \in Nat \ {0}
  BY WordBitsType
<1>2. 1 * i <= WordBits * i
  <2>1. CASE i = 0
    BY <2>1, <1>1
  <2>2. CASE i # 0
    BY <2>2, <1>1, Products
  <2> QED BY <2>1, <2>2
<1>3. WordBits * i = i * WordBits
  BY <1>1
<1> QED BY <1>1, <1>2, <1>3

(***************************************************************************)
(* The types after a step that writes, given what the effects of writing   *)
(* bits and of copying words say.                                          *)
(***************************************************************************)
LEMMA TypeKept ==
  ASSUME IInv, last' \in {"writing", "returned"}, UNCHANGED <<numBits, run>>,
         bitsWritten' \in 0..numBits, start' \in 0..bitsWritten',
         data' \in [0..numBits-1 -> Bit \cup {Old}],
         scratch' \in Word, scratchBits' \in 0..WordBits-1,
         wordIndex' \in Nat, CountersAgree'
  PROVE  TypeOK'
<1>1. numBits \in Nat /\ WordBits \in Nat \ {0} /\ wordIndex' * WordBits \in Nat
  BY StateNumbers
<1>2. wordIndex' * WordBits + scratchBits' = bitsWritten'
  BY DEF CountersAgree
<1>3. wordIndex' * WordBits <= numBits
  <2>1. scratchBits' \in Nat /\ bitsWritten' \in Nat /\ bitsWritten' <= numBits
    BY <1>1
  <2> QED BY ONLY <1>1, <1>2, <2>1
<1>4. wordIndex' \in 0..numBits
  BY <1>1, <1>3, IndexInside
<1> QED BY <1>4 DEF IInv, TypeOK

(***************************************************************************)
(* A number or an align written keeps the invariant, and appends the low   *)
(* bits of its value to the bits written.                                  *)
(***************************************************************************)
LEMMA PutIInv ==
  ASSUME IInv, MayWrite, last' = "returned", UNCHANGED <<numBits, run, start>>,
         NEW value \in Word, NEW n \in 1..WordBits,
         \A i \in 0..WordBits-1 : i >= n => value[i] = 0,
         Room(n), writeBits(value, n)
  PROVE  /\ IInv'
         /\ bitsWritten' = bitsWritten + n
         /\ \A p \in 0..bitsWritten-1 : BitAt(p)' = BitAt(p)
         /\ \A p \in bitsWritten..bitsWritten+n-1 : BitAt(p)' = value[p - bitsWritten]
<1>1. last # "flushed" /\ last # "writing" /\ last' # "flushed" /\ last' # "writing"
  BY DEF MayWrite
<1>2. /\ bitsWritten' = bitsWritten + n
      /\ bitsWritten' \in 0..numBits
      /\ data' \in [0..numBits-1 -> Bit \cup {Old}]
      /\ scratch' \in Word /\ scratchBits' \in 0..WordBits-1 /\ wordIndex' \in Nat
      /\ CountersAgree' /\ PastEndZero' /\ WordsStored'
      /\ \A p \in 0..bitsWritten-1 : BitAt(p)' = BitAt(p)
      /\ \A p \in bitsWritten..bitsWritten+n-1 : BitAt(p)' = value[p - bitsWritten]
  BY <1>1, PutEffect
<1>3. start' \in 0..bitsWritten'
  BY <1>2, StateFacts
<1>4. TypeOK'
  BY <1>2, <1>3, TypeKept
<1>5. RunSoFar'
  BY <1>1 DEF IInv, RunSoFar
<1> QED BY <1>1, <1>2, <1>4, <1>5 DEF IInv

(***************************************************************************)
(* The word of a field, and of an align, has nothing above its bits.       *)
(***************************************************************************)
LEMMA FieldWord ==
  ASSUME NEW f \in Seq(Bit), Len(f) <= WordBits
  PROVE  /\ WordAt(f, 1) \in Word
         /\ \A i \in 0..Len(f)-1 : WordAt(f, 1)[i] = f[i+1]
         /\ \A i \in 0..WordBits-1 : i >= Len(f) => WordAt(f, 1)[i] = 0
<1>1. WordBits \in Nat \ {0} /\ Len(f) \in Nat
  BY WordBitsType
<1>2. \A i \in 0..WordBits-1 : i < Len(f) => f[1+i] \in Bit
  BY <1>1
<1>3. WordAt(f, 1) \in Word
  BY <1>1, <1>2 DEF WordAt, Word, Bit
<1> QED BY <1>1, <1>3 DEF WordAt

(***************************************************************************)
(* WriteBits writes its field.                                             *)
(***************************************************************************)
LEMMA WriteBitsIInv ==
  ASSUME IInv, NEW f \in Fields, WriteBits(f)
  PROVE  /\ IInv'
         /\ bitsWritten' = bitsWritten + Len(f)
         /\ \A p \in 0..bitsWritten-1 : BitAt(p)' = BitAt(p)
         /\ \A p \in bitsWritten..bitsWritten+Len(f)-1 :
              BitAt(p)' = f[(p - bitsWritten) + 1]
<1> DEFINE n == Len(f)
           value == WordAt(f, 1)
<1>1. f \in Seq(Bit) /\ n \in 1..WordBits
  BY FieldFacts
<1>2. /\ value \in Word
      /\ \A i \in 0..n-1 : value[i] = f[i+1]
      /\ \A i \in 0..WordBits-1 : i >= n => value[i] = 0
  BY <1>1, FieldWord
<1>3. /\ MayWrite /\ Room(n) /\ writeBits(value, n)
      /\ last' = "returned" /\ UNCHANGED <<numBits, run, start>>
  BY DEF WriteBits
<1> HIDE DEF n, value
<1>4. /\ IInv'
      /\ bitsWritten' = bitsWritten + n
      /\ \A p \in 0..bitsWritten-1 : BitAt(p)' = BitAt(p)
      /\ \A p \in bitsWritten..bitsWritten+n-1 : BitAt(p)' = value[p - bitsWritten]
  BY <1>1, <1>2, <1>3, PutIInv
<1>5. \A p \in bitsWritten..bitsWritten+n-1 : p - bitsWritten \in 0..n-1
  <2>1. bitsWritten \in Nat /\ n \in Nat
    BY <1>1, StateNumbers
  <2> QED BY ONLY <2>1
<1>6. \A p \in bitsWritten..bitsWritten+n-1 : BitAt(p)' = f[(p - bitsWritten) + 1]
  BY <1>2, <1>4, <1>5
<1> QED BY <1>4, <1>6 DEF n

(***************************************************************************)
(* WriteAlign writes the zeros that AlignPad counts, and always has room   *)
(* for them: the buffer is whole words.                                    *)
(***************************************************************************)
LEMMA WriteAlignIInv ==
  ASSUME IInv, WriteAlign
  PROVE  /\ IInv'
         /\ bitsWritten' = bitsWritten + AlignPad(bitsWritten)
         /\ \A p \in 0..bitsWritten-1 : BitAt(p)' = BitAt(p)
         /\ \A p \in bitsWritten..bitsWritten+AlignPad(bitsWritten)-1 : BitAt(p)' = 0
<1>1. MayWrite /\ last' = "returned" /\ UNCHANGED <<numBits, run, start>>
  BY DEF WriteAlign
<1>2. /\ bitsWritten \in Nat /\ bitsWritten % ByteBits \in 0..ByteBits-1
      /\ AlignPad(bitsWritten) = IF bitsWritten % ByteBits = 0 THEN 0
                                 ELSE ByteBits - (bitsWritten % ByteBits)
  BY StateFacts, AlignPadValue
<1>3. CASE Aligned
  <2>1. AlignPad(bitsWritten) = 0
    BY <1>2, <1>3 DEF Aligned
  <2>2. UNCHANGED <<data, scratch, counters>>
    BY <1>3 DEF WriteAlign
  <2>3. /\ last # "flushed" /\ last # "writing"
        /\ UNCHANGED <<data, scratch, bitsWritten, wordIndex, scratchBits>>
    BY <1>1, <2>2 DEF MayWrite, counters
  <2>4. \A p : BitAt(p)' = BitAt(p)
    BY <2>3 DEF BitAt
  <2>5. IInv'
    BY <1>1, <2>3 DEF IInv, TypeOK, CountersAgree, PastEndZero, WordsStored, RunSoFar
  <2> QED BY <1>2, <2>1, <2>3, <2>4, <2>5
<1>4. CASE ~Aligned
  <2> DEFINE n == ByteBits - (bitsWritten % ByteBits)
  <2>1. n \in 1..WordBits
    BY <1>2, WordBitsType, GeometryAssumption
  <2>2. AlignPad(bitsWritten) = n
    BY <1>2, <1>4 DEF Aligned
  <2>3. Room(n) /\ writeBits(ZeroWord, n)
    BY <1>4 DEF WriteAlign
  <2>4. ZeroWord \in Word /\ \A i \in 0..WordBits-1 : ZeroWord[i] = 0
    BY ZeroWordType DEF ZeroWord
  <2> HIDE DEF n
  <2>5. /\ IInv'
        /\ bitsWritten' = bitsWritten + n
        /\ \A p \in 0..bitsWritten-1 : BitAt(p)' = BitAt(p)
        /\ \A p \in bitsWritten..bitsWritten+n-1 : BitAt(p)' = ZeroWord[p - bitsWritten]
    BY <1>1, <2>1, <2>3, <2>4, PutIInv
  <2>6. \A p \in bitsWritten..bitsWritten+n-1 : p - bitsWritten \in 0..WordBits-1
    BY <1>2, <2>1, WordBitsType
  <2> QED BY <2>2, <2>4, <2>5, <2>6
<1> QED BY <1>3, <1>4

(***************************************************************************)
(* A byte of the head or the tail keeps the invariant and the bits written *)
(* before it.                                                              *)
(***************************************************************************)
LEMMA WriteByteIInv ==
  ASSUME IInv, WriteByte
  PROVE  IInv' /\ \A p \in 0..bitsWritten-1 : BitAt(p)' = BitAt(p)
<1> DEFINE n == ByteBits
           k == Done * ByteBits + 1
           value == LowBits(WordAt(run, k), n)
           d == Done + 1
<1>1. /\ last = "writing" /\ last' = "writing" /\ Done < RunBytes
      /\ Done < HeadBytes \/ Done >= HeadBytes + NumWords * WordBytes
      /\ writeBits(value, n) /\ UNCHANGED <<numBits, run, start, last>>
  BY DEF WriteByte
<1>2. /\ run \in Seq(Bit) /\ RunBytes \in Nat /\ Len(run) = RunBytes * ByteBits
      /\ Done \in Nat /\ bitsWritten = start + Done * ByteBits
      /\ start + Len(run) <= numBits
      /\ HeadBytes \in Nat /\ NumWords \in Nat
  BY <1>1, RunFacts
<1>3. /\ n \in 1..WordBits /\ n \in Nat \ {0} /\ n <= WordBits /\ WordBytes \in Nat \ {0}
      /\ start \in Nat /\ bitsWritten \in Nat /\ numBits \in Nat
  BY WordBitsType, GeometryAssumption, StateNumbers
<1>4. /\ d \in Nat /\ Done < d /\ d <= RunBytes
      /\ d * ByteBits = Done * ByteBits + n
      /\ Done * ByteBits \in Nat /\ d * ByteBits <= Len(run)
  <2>1. d \in Nat /\ Done < d /\ d <= RunBytes
    BY <1>1, <1>2
  <2>2. d * ByteBits = Done * ByteBits + n /\ Done * ByteBits \in Nat
    BY <1>2, <1>3
  <2>3. d * ByteBits <= RunBytes * ByteBits
    BY <2>1, <1>2, <1>3, Products
  <2> QED BY <2>1, <2>2, <2>3, <1>2
<1>5. d <= HeadBytes \/ d >= HeadBytes + NumWords * WordBytes
  <2>1. NumWords * WordBytes \in Nat
    BY <1>2, <1>3
  <2> QED BY <2>1, <1>1, <1>2
<1>6. /\ value \in Word
      /\ \A i \in 0..n-1 : value[i] = run[k+i]
      /\ \A i \in 0..WordBits-1 : i >= n => value[i] = 0
  <2>1. k \in Nat \ {0} /\ k + n - 1 <= Len(run) /\ n \in Nat /\ n <= WordBits
    BY <1>2, <1>3, <1>4
  <2> HIDE DEF k, n
  <2> QED BY <2>1, <1>2, LowBitsOfSequence
<1>7. Room(n)
  BY <1>2, <1>3, <1>4 DEF Room
<1> HIDE DEF n, value, d
<1>8. /\ bitsWritten' = bitsWritten + n
      /\ bitsWritten' \in 0..numBits
      /\ data' \in [0..numBits-1 -> Bit \cup {Old}]
      /\ scratch' \in Word /\ scratchBits' \in 0..WordBits-1 /\ wordIndex' \in Nat
      /\ CountersAgree' /\ PastEndZero' /\ WordsStored'
      /\ \A p \in 0..bitsWritten-1 : BitAt(p)' = BitAt(p)
      /\ \A p \in bitsWritten..bitsWritten+n-1 : BitAt(p)' = value[p - bitsWritten]
  BY <1>1, <1>3, <1>6, <1>7, PutEffect
<1>9. bitsWritten' = start + d * ByteBits
  <2> DEFINE old == Done * ByteBits
             new == d * ByteBits
  <2>1. bitsWritten' = bitsWritten + n /\ bitsWritten = start + old
    BY <1>2, <1>8
  <2>2. new = old + n /\ old \in Nat /\ n \in Nat /\ start \in Nat
    BY <1>3, <1>4
  <2> HIDE DEF old, new
  <2> QED BY ONLY <2>1, <2>2 DEF new
<1>10. ASSUME NEW p \in bitsWritten..start + d * ByteBits - 1
       PROVE  BitAt(p)' = run[p - start + 1]
  <2> DEFINE old == Done * ByteBits
  <2>1. old \in Nat /\ bitsWritten = start + old /\ k = old + 1
    BY <1>2, <1>4
  <2>2. p \in bitsWritten..bitsWritten + n - 1
    <3> DEFINE new == d * ByteBits
    <3>1. start + new = bitsWritten + n
      BY <1>8, <1>9
    <3>2. new \in Nat /\ start \in Nat /\ n \in Nat /\ bitsWritten \in Nat
      BY <1>3, <1>4
    <3>3. p \in bitsWritten..start + new - 1
      OBVIOUS
    <3> HIDE DEF new
    <3> QED BY ONLY <3>1, <3>2, <3>3
  <2> HIDE DEF old, k
  <2>3. p - bitsWritten \in 0..n-1 /\ k + (p - bitsWritten) = p - start + 1
    BY <2>1, <2>2, <1>3
  <2> QED BY <2>2, <2>3, <1>6, <1>8
<1>11. RunSoFar'
  BY <1>1, <1>4, <1>5, <1>8, <1>9, <1>10, RunGrows
<1>12. TypeOK'
  <2>1. start' \in 0..bitsWritten'
    <3>1. start' = start /\ bitsWritten' = bitsWritten + n
      BY <1>1, <1>8
    <3> QED BY <3>1, <1>3, StateNumbers
  <2> QED BY <2>1, <1>1, <1>8, TypeKept
<1> QED BY <1>1, <1>8, <1>11, <1>12 DEF IInv

(***************************************************************************)
(* So does the copy of the words: it starts at the boundary the head was   *)
(* written up to, with nothing pending.                                    *)
(***************************************************************************)
LEMMA CopyClean ==
  ASSUME IInv, last = "writing", Done = HeadBytes, NumWords > 0
  PROVE  /\ scratchBits = 0 /\ scratch = ZeroWord
         /\ bitsWritten = wordIndex * WordBits
<1>1. scratchBits = 0
  BY RunFacts, StateFacts
<1>2. scratch = ZeroWord
  <2>1. scratch \in Word /\ \A i \in 0..WordBits-1 : scratch[i] = 0
    BY <1>1, StateFacts DEF IInv, CountersAgree
  <2> QED BY <2>1 DEF Word, ZeroWord
<1>3. wordIndex * WordBits \in Nat /\ bitsWritten = wordIndex * WordBits + scratchBits
  BY StateFacts
<1>4. bitsWritten = wordIndex * WordBits
  BY ONLY <1>1, <1>3
<1> QED BY <1>1, <1>2, <1>4

(***************************************************************************)
(* The block copy of WriteBytes: it starts on a word with nothing pending, *)
(* so the whole words it stores are words of the run, and it moves         *)
(* wordIndex past them.                                                    *)
(***************************************************************************)
LEMMA CopyWordsIInv ==
  ASSUME IInv, CopyWords
  PROVE  IInv' /\ \A p \in 0..bitsWritten-1 : BitAt(p)' = BitAt(p)
<1> DEFINE n == NumWords * WordBits
           k == Done * ByteBits
           s == SubSeq(run, k + 1, k + n)
           d == HeadBytes + NumWords * WordBytes
<1>1. /\ last = "writing" /\ last' = "writing" /\ Done = HeadBytes /\ NumWords > 0
      /\ data' = CopyBits(data, wordIndex * WordBits, s)
      /\ bitsWritten' = bitsWritten + n
      /\ wordIndex' = wordIndex + NumWords
      /\ UNCHANGED <<scratch, numBits, scratchBits, run, start, last>>
  BY DEF CopyWords
<1>2. /\ run \in Seq(Bit) /\ RunBytes \in Nat /\ Len(run) = RunBytes * ByteBits
      /\ Done \in Nat /\ bitsWritten = start + k
      /\ start + Len(run) <= numBits
      /\ HeadBytes \in Nat /\ NumWords \in Nat /\ d <= RunBytes
  BY <1>1, RunFacts
<1>3. /\ ByteBits \in Nat \ {0} /\ WordBytes \in Nat \ {0} /\ WordBits \in Nat \ {0}
      /\ start \in Nat /\ bitsWritten \in Nat /\ numBits \in Nat
  BY WordBitsType, GeometryAssumption, StateNumbers
<1>4. /\ d \in Nat /\ Done < d /\ n = (NumWords * WordBytes) * ByteBits
      /\ n \in Nat /\ k \in Nat /\ d * ByteBits = k + n /\ d * ByteBits <= Len(run)
  <2> DEFINE m == NumWords * WordBytes
  <2>1. m \in Nat /\ m > 0
    BY <1>1, <1>2, <1>3, Products
  <2>2. n = m * ByteBits /\ n \in Nat
    BY <1>2, WordsOfBytes, <1>3
  <2> HIDE DEF m
  <2>3. d = Done + m /\ d \in Nat /\ Done < d
    BY <2>1, <1>1, <1>2 DEF m
  <2> HIDE DEF d
  <2>4. d * ByteBits = k + n /\ k \in Nat
    <3>1. (Done + m) * ByteBits = Done * ByteBits + m * ByteBits
      BY <2>1, <1>2, <1>3
    <3>2. Done * ByteBits \in Nat
      BY <1>2, <1>3
    <3> QED BY <3>1, <3>2, <2>2, <2>3
  <2>5. d * ByteBits <= RunBytes * ByteBits
    BY <2>3, <1>2, <1>3, Products
  <2> QED BY <2>2, <2>3, <2>4, <2>5, <1>2 DEF m
<1>5. scratchBits = 0
  BY <1>1, CopyClean
<1> HIDE DEF n, k, d
<1>6. s \in Seq(Bit) /\ Len(s) = n /\ \A i \in 1..n : s[i] = run[k + i]
  <2>1. run \in Seq(Bit) /\ k \in Nat /\ n \in Nat /\ k + n <= Len(run)
    BY <1>2, <1>4
  <2> QED BY ONLY <2>1
<1>7. bitsWritten + Len(s) <= numBits
  BY <1>2, <1>3, <1>4, <1>6
<1> HIDE DEF s
<1>8. /\ bitsWritten' \in 0..numBits
      /\ data' \in [0..numBits-1 -> Bit \cup {Old}] /\ wordIndex' \in Nat
      /\ CountersAgree' /\ PastEndZero' /\ WordsStored'
      /\ \A p \in 0..bitsWritten-1 : BitAt(p)' = BitAt(p)
      /\ \A p \in bitsWritten..bitsWritten+Len(s)-1 :
           BitAt(p)' = s[(p - bitsWritten) + 1]
  <2>1. last # "flushed" /\ last' # "flushed" /\ Len(s) = NumWords * WordBits
    BY <1>1, <1>6 DEF n
  <2>2. bitsWritten' = bitsWritten + Len(s)
    BY <1>1, <1>6
  <2>3. /\ UNCHANGED <<numBits, scratch, scratchBits>> /\ NumWords \in Nat /\ s \in Seq(Bit)
        /\ data' = CopyBits(data, wordIndex * WordBits, s)
        /\ wordIndex' = wordIndex + NumWords
    BY <1>1, <1>2, <1>6
  <2> QED BY <2>1, <2>2, <2>3, <1>5, <1>7, CopyEffect
<1>9. bitsWritten' = start + d * ByteBits
  BY <1>1, <1>2, <1>3, <1>4
<1>10. ASSUME NEW p \in bitsWritten..start + d * ByteBits - 1
       PROVE  BitAt(p)' = run[p - start + 1]
  <2>1. /\ p \in bitsWritten..bitsWritten + Len(s) - 1 /\ (p - bitsWritten) + 1 \in 1..n
        /\ k + ((p - bitsWritten) + 1) = p - start + 1
    BY <1>2, <1>3, <1>4, <1>6
  <2> QED BY <2>1, <1>6, <1>8
<1>11. RunSoFar'
  <2>1. d <= HeadBytes \/ d >= HeadBytes + NumWords * WordBytes
    BY <1>4 DEF d
  <2> QED BY <2>1, <1>1, <1>2, <1>4, <1>8, <1>9, <1>10, RunGrows
<1>12. TypeOK'
  <2>1. start' \in 0..bitsWritten'
    BY <1>1, <1>3, <1>4, <1>9
  <2>2. scratch' \in Word /\ scratchBits' \in 0..WordBits-1
    BY <1>1, StateFacts
  <2> QED BY <2>1, <2>2, <1>1, <1>8, TypeKept
<1> QED BY <1>1, <1>8, <1>11, <1>12 DEF IInv

(***************************************************************************)
(* The steps that write nothing: WriteBytes starts or returns, or a call   *)
(* panics.                                                                 *)
(***************************************************************************)
LEMMA BufferUnchanged ==
  ASSUME IInv, last # "flushed", last' # "flushed",
         UNCHANGED <<data, scratch, numBits, counters>>
  PROVE  /\ CountersAgree' /\ PastEndZero' /\ WordsStored'
         /\ \A p : BitAt(p)' = BitAt(p)
<1>1. UNCHANGED <<data, scratch, numBits, bitsWritten, wordIndex, scratchBits>>
  BY DEF counters
<1> QED BY <1>1 DEF IInv, CountersAgree, PastEndZero, WordsStored, BitAt

(***************************************************************************)
(* The steps of a call that store nothing: the start of a byte run, the    *)
(* return from it, and the panics.                                         *)
(***************************************************************************)
LEMMA CallStepIInv ==
  ASSUME IInv,
         \/ \E r \in Runs : WriteBytes(r)
         \/ Return
         \/ \E outcome \in {"overflow", "misuse"} : Panic(outcome)
  PROVE  IInv'
<1>1. /\ UNCHANGED <<data, scratch, numBits, counters>>
      /\ last # "flushed" /\ last' \in {"writing", "returned", "overflow", "misuse"}
  BY DEF WriteBytes, Return, Panic, MayWrite
<1>2. CountersAgree' /\ PastEndZero' /\ WordsStored' /\ \A p : BitAt(p)' = BitAt(p)
  BY <1>1, BufferUnchanged
<1>3. UNCHANGED <<bitsWritten, wordIndex, scratchBits>>
  BY <1>1 DEF counters
<1>4. /\ bitsWritten \in Nat /\ start \in Nat /\ start <= bitsWritten
      /\ ByteBits \in Nat \ {0}
  BY StateFacts, GeometryAssumption
<1>5. CASE \E r \in Runs : WriteBytes(r)
  <2>1. PICK r \in Runs : WriteBytes(r)
    BY <1>5
  <2>2. /\ Aligned /\ Room(Len(r)) /\ run' = r /\ start' = bitsWritten
        /\ last' = "writing"
    BY <2>1 DEF WriteBytes
  <2>3. TypeOK'
    BY <1>1, <1>3, <1>4, <2>2 DEF IInv, TypeOK
  <2>4. Done' = 0
    <3>1. (0 * ByteBits + 0) \div ByteBits = 0
      BY <1>4, DivModUnique
    <3>2. bitsWritten' - start' = 0 * ByteBits + 0
      BY <1>3, <1>4, <2>2
    <3> QED BY <3>1, <3>2 DEF Done
  <2>5. 0 * ByteBits = 0
    BY <1>4
  <2>6. RunBytes' \in Nat /\ HeadBytes' \in Nat
    <3> DEFINE bytes == Len(r) \div ByteBits
               room == (WordBytes - ((bitsWritten % WordBits) \div ByteBits)) % WordBytes
    <3>1. bytes \in Nat
      BY WriterRunsAssumption, WholeBytes
    <3>2. room \in Nat
      <4> DEFINE a == bitsWritten % WordBits
                 b == a \div ByteBits
                 c == WordBytes - b
      <4>1. a \in Int
        BY <1>4, WordBitsType, ModRange
      <4> HIDE DEF a
      <4>2. b \in Int
        BY <4>1, <1>4, ModRange
      <4> HIDE DEF b
      <4>3. c \in Int /\ WordBytes \in Nat \ {0}
        BY <4>2, GeometryAssumption
      <4> HIDE DEF c
      <4>4. c % WordBytes \in Nat
        BY <4>3, ModRange
      <4> QED BY <4>4 DEF a, b, c
    <3> HIDE DEF bytes, room
    <3>3. RunBytes' = bytes
      BY <2>2 DEF RunBytes, bytes
    <3>4. HeadBytes' = IF room <= bytes THEN room ELSE bytes
      BY <2>2, <3>3 DEF HeadBytes, room
    <3> QED BY <3>1, <3>2, <3>3, <3>4
  <2>7. RunSoFar'
    <3>1. start' % ByteBits = 0 /\ start' + Len(run') <= numBits'
      BY <1>1, <2>2 DEF Aligned, Room
    <3>2. Done' <= RunBytes' /\ Done' <= HeadBytes' /\ bitsWritten' = start' + Done' * ByteBits
      BY <1>3, <1>4, <2>2, <2>4, <2>5, <2>6
    <3>3. \A i \in 1..Done' * ByteBits : (BitAt(start + i - 1) = run[i])'
      BY <2>4, <2>5
    <3> QED BY <2>2, <3>1, <3>2, <3>3 DEF RunSoFar
  <2> QED BY <1>1, <1>2, <2>2, <2>3, <2>7 DEF IInv
<1>6. CASE Return
  <2>1. run' = <<>> /\ start' = 0 /\ last' = "returned"
    BY <1>6 DEF Return
  <2>2. TypeOK'
    BY <1>1, <1>3, <1>4, <2>1 DEF IInv, TypeOK
  <2> QED BY <1>2, <2>1, <2>2 DEF IInv, RunSoFar
<1>7. CASE \E outcome \in {"overflow", "misuse"} : Panic(outcome)
  <2>1. /\ UNCHANGED <<run, start>> /\ last # "writing"
        /\ last' \in {"overflow", "misuse"}
    BY <1>7 DEF Panic, MayWrite
  <2>2. TypeOK'
    BY <1>1, <1>3, <2>1 DEF IInv, TypeOK
  <2> QED BY <1>2, <2>1, <2>2 DEF IInv, RunSoFar
<1> QED BY <1>5, <1>6, <1>7

(***************************************************************************)
(* A flush stores the pending word, if there is one, and nothing else: no  *)
(* bit written before changes, and what follows them in the word are zeros.*)
(***************************************************************************)
LEMMA FlushIInv ==
  ASSUME IInv, FlushBits
  PROVE  IInv' /\ \A p \in 0..bitsWritten-1 : BitAt(p)' = BitAt(p)
<1> DEFINE bw == bitsWritten
           sb == scratchBits
           base == wordIndex * WordBits
<1>1. /\ numBits \in Nat /\ bw \in Nat /\ bw <= numBits
      /\ data \in [0..numBits-1 -> Bit \cup {Old}]
      /\ scratch \in Word /\ sb \in 0..WordBits-1 /\ base \in Nat
      /\ WordBits \in Nat \ {0} /\ wordIndex \in Nat
      /\ start \in Nat /\ start <= bw
  BY StateFacts
<1>2. /\ last # "writing" /\ last' = "flushed"
      /\ UNCHANGED <<numBits, bitsWritten, run, start>>
  BY DEF FlushBits
<1>3. /\ \A i \in sb..WordBits-1 : scratch[i] = 0
      /\ \A p \in bw..numBits-1 : data[p] \in {0, Old}
      /\ \A p \in 0..base-1 : data[p] \in Bit
  BY DEF IInv, CountersAgree, PastEndZero, WordsStored
<1>4. RunSoFar'
  BY <1>2 DEF IInv, RunSoFar
<1>5. CASE sb = 0
  <2>1. UNCHANGED <<data, scratch, scratchBits, wordIndex>>
    BY <1>5 DEF FlushBits
  <2>2. base \in bw..bw + WordBits - 1
    <3>1. CASE last = "flushed"
      BY <3>1 DEF IInv, CountersAgree
    <3>2. CASE last # "flushed"
      <4>1. bw = base + sb
        BY <3>2, StateFacts
      <4> HIDE DEF base, bw, sb
      <4>2. base = bw
        BY ONLY <4>1, <1>1, <1>5
      <4> QED BY ONLY <4>2, <1>1
    <3> QED BY <3>1, <3>2
  <2>3. CountersAgree'
    BY <1>2, <1>3, <2>1, <2>2 DEF CountersAgree
  <2>4. TypeOK'
    BY <1>2, <2>1 DEF IInv, TypeOK
  <2>5. PastEndZero' /\ WordsStored' /\ \A p : BitAt(p)' = BitAt(p)
    BY <1>2, <2>1 DEF IInv, PastEndZero, WordsStored, BitAt
  <2> QED BY <1>4, <1>5, <2>1, <2>3, <2>4, <2>5 DEF IInv
<1>6. CASE sb # 0
  <2>1. /\ data' = StoreWord(data, base, scratch) /\ scratch' = ZeroWord
        /\ scratchBits' = 0 /\ wordIndex' = wordIndex + 1
    BY <1>6 DEF FlushBits
  <2>2. last # "flushed"
    BY <1>6 DEF IInv
  <2>3. bw = base + sb /\ base + WordBits <= numBits
    <3>1. PICK words \in Nat : numBits = words * WordBits
      BY StateFacts
    <3>2. /\ bw = base + sb /\ Pending(bitsWritten) = sb
          /\ WordBase(bitsWritten) = base
      BY <2>2, StateFacts
    <3>3. bitsWritten \in 0..words * WordBits
      BY <3>1, <1>1
    <3>4. WordBase(bitsWritten) + WordBits <= words * WordBits
      BY <3>2, <3>3, <1>6, WordInside
    <3> QED BY <3>1, <3>2, <3>4
  <2>4. wordIndex' * WordBits = base + WordBits
    BY <1>1, <2>1
  <2>5. /\ data' \in [0..numBits-1 -> Bit \cup {Old}]
        /\ \A p \in 0..numBits-1 :
             data'[p] = IF p \in base..base+WordBits-1 THEN scratch[p - base] ELSE data[p]
    <3>1. data' = StoreWord(data, base, scratch)
      BY <2>1
    <3> HIDE DEF base
    <3>2. StoreWord(data, base, scratch) =
            [a \in 0..numBits-1 |-> IF a \in base..base+WordBits-1 THEN scratch[a-base] ELSE data[a]]
      BY <1>1 DEF StoreWord
    <3>3. \A a \in base..base+WordBits-1 : scratch[a-base] \in Bit
      BY <1>1 DEF Word
    <3> QED BY <3>1, <3>2, <3>3, <1>1
  <2>6. /\ CountersAgree' <=> /\ wordIndex' * WordBits \in bitsWritten'..bitsWritten' + WordBits - 1
                              /\ \A i \in scratchBits'..WordBits-1 : scratch'[i] = 0
        /\ PastEndZero' <=> \A p \in bw..numBits-1 : data'[p] \in {0, Old}
        /\ WordsStored' <=> \A p \in 0..wordIndex' * WordBits - 1 : data'[p] \in Bit
    BY <1>2 DEF CountersAgree, PastEndZero, WordsStored
  <2>7. /\ \A p : BitAt(p) = IF p < base THEN data[p] ELSE scratch[p - base]
        /\ \A p : BitAt(p)' = IF p < wordIndex' * WordBits
                               THEN data'[p] ELSE scratch'[p - wordIndex' * WordBits]
    BY DEF BitAt
  <2>8. wordIndex' \in 0..numBits
    <3>1. wordIndex' \in Nat /\ wordIndex' * WordBits <= numBits
      BY <1>1, <2>1, <2>3, <2>4
    <3> QED BY <3>1, <1>1, IndexInside
  <2>9. TypeOK'
    BY <1>1, <1>2, <2>1, <2>5, <2>8, ZeroWordType DEF IInv, TypeOK
  <2> HIDE DEF base, bw, sb
  <2>10. base + WordBits \in bw..bw + WordBits - 1
    BY ONLY <1>1, <1>6, <2>3
  <2>11. CountersAgree'
    <3>1. \A i \in 0..WordBits-1 : ZeroWord[i] = 0
      BY DEF ZeroWord
    <3> QED BY <3>1, <1>2, <2>1, <2>4, <2>6, <2>10 DEF bw
  <2>12. PastEndZero'
    <3> SUFFICES \A p \in bw..numBits-1 : data'[p] \in {0, Old}
      BY <2>6
    <3> TAKE p \in bw..numBits-1
    <3>1. p \in 0..numBits-1
      BY <1>1
    <3>2. p \in base..base+WordBits-1 => p - base \in sb..WordBits-1
      BY <1>1, <2>3
    <3> QED BY <3>1, <3>2, <1>3, <2>5
  <2>13. ASSUME NEW p \in 0..base + WordBits - 1
         PROVE  p \in 0..numBits-1 /\ data'[p] = BitAt(p) /\ data'[p] \in Bit
    <3>1. p \in 0..numBits-1
      BY <1>1, <2>3
    <3>2. CASE p < base
      <4>1. p \in 0..base-1 /\ p \notin base..base+WordBits-1
        BY <3>2, <1>1
      <4> QED BY <3>1, <3>2, <4>1, <1>3, <2>5, <2>7
    <3>3. CASE ~(p < base)
      <4>1. p \in base..base+WordBits-1 /\ p - base \in 0..WordBits-1
        BY <3>3, <1>1
      <4>2. scratch[p - base] \in Bit
        BY <4>1, <1>1 DEF Word
      <4> QED BY <3>1, <3>3, <4>1, <4>2, <2>5, <2>7
    <3> QED BY <3>2, <3>3
  <2>14. WordsStored'
    <3>1. \A p \in 0..base + WordBits - 1 : data'[p] \in Bit
      BY <2>13
    <3>2. wordIndex' * WordBits - 1 = base + WordBits - 1
      BY ONLY <1>1, <2>4
    <3> QED BY <3>1, <3>2, <2>6, Zenon
  <2>15. \A p \in 0..bitsWritten-1 : BitAt(p)' = BitAt(p)
    <3> TAKE p \in 0..bitsWritten-1
    <3>1. p \in 0..base + WordBits - 1 /\ p < base + WordBits
      BY <1>1, <2>3 DEF bw
    <3>2. BitAt(p)' = data'[p]
      BY <3>1, <2>4, <2>7
    <3> QED BY <3>1, <3>2, <2>13
  <2> QED BY <1>4, <2>1, <2>9, <2>11, <2>12, <2>14, <2>15 DEF IInv
<1> QED BY <1>5, <1>6

(***************************************************************************)
(* A reset, to a buffer of any size, establishes the invariant anew.       *)
(***************************************************************************)
LEMMA ResetIInv ==
  ASSUME IInv, NEW words \in Buffers, Reset(words)
  PROVE  IInv'
<1>1. /\ numBits' = words * WordBits /\ data' = [a \in 0..numBits'-1 |-> Old]
      /\ scratch' = ZeroWord /\ last' = "reset" /\ last # "writing"
      /\ bitsWritten' = 0 /\ wordIndex' = 0 /\ scratchBits' = 0
      /\ UNCHANGED <<run, start>>
  BY DEF Reset
<1>2. numBits' \in Nat /\ WordBits \in Nat \ {0} /\ 0 * WordBits = 0
  BY <1>1, WriterBuffersAssumption, WordBitsType
<1>3. run = <<>> /\ start = 0
  BY <1>1 DEF IInv, RunSoFar
<1>4. TypeOK'
  BY <1>1, <1>2, <1>3, ZeroWordType DEF TypeOK
<1>5. CountersAgree'
  BY <1>1, <1>2 DEF CountersAgree, ZeroWord
<1>6. PastEndZero'
  BY <1>1, <1>2 DEF PastEndZero
<1>7. WordsStored'
  BY <1>1, <1>2 DEF WordsStored
<1>8. RunSoFar'
  BY <1>1, <1>3 DEF RunSoFar
<1> QED BY <1>1, <1>4, <1>5, <1>6, <1>7, <1>8 DEF IInv

(***************************************************************************)
(* Every step of the writer keeps the invariant.                           *)
(***************************************************************************)
LEMMA StepIInv == IInv /\ [Next]_vars => IInv'
<1> SUFFICES ASSUME IInv, [Next]_vars PROVE IInv'
  OBVIOUS
<1>1. CASE \E f \in Fields : WriteBits(f)
  BY <1>1, WriteBitsIInv
<1>2. CASE WriteAlign
  BY <1>2, WriteAlignIInv
<1>3. CASE (\E r \in Runs : WriteBytes(r)) \/ Return
  BY <1>3, CallStepIInv
<1>4. CASE \/ \E f \in Fields : WriteBitsOverflow(f)
           \/ \E r \in Runs : WriteBytesOverflow(r)
           \/ Misuse
  <2>1. \E outcome \in {"overflow", "misuse"} : Panic(outcome)
    BY <1>4 DEF WriteBitsOverflow, WriteBytesOverflow, Misuse
  <2> QED BY <2>1, CallStepIInv
<1>5. CASE WriteByte
  BY <1>5, WriteByteIInv
<1>6. CASE CopyWords
  BY <1>6, CopyWordsIInv
<1>7. CASE FlushBits
  BY <1>7, FlushIInv
<1>8. CASE \E words \in Buffers : Reset(words)
  BY <1>8, ResetIInv
<1>9. CASE UNCHANGED vars
  <2>1. UNCHANGED <<data, scratch, numBits, bitsWritten, wordIndex, scratchBits, run, start, last>>
    BY <1>9 DEF vars, counters
  <2>2. TypeOK' /\ CountersAgree' /\ PastEndZero' /\ WordsStored'
    BY <2>1 DEF IInv, TypeOK, CountersAgree, PastEndZero, WordsStored
  <2>3. RunSoFar'
    BY <2>1 DEF IInv, RunSoFar, Done, RunBytes, HeadBytes, NumWords, BitAt
  <2> QED BY <2>1, <2>2, <2>3 DEF IInv
<1> QED BY <1>1, <1>2, <1>3, <1>4, <1>5, <1>6, <1>7, <1>8, <1>9 DEF Next

(***************************************************************************)
(* The inductive invariant holds in every state of the bit writer.         *)
(***************************************************************************)
THEOREM InductiveInvariant == Spec => []IInv
BY InitIInv, StepIInv, PTL DEF Spec

(***************************************************************************)
(* Whatever the calls, the three counters agree until a flush ends the     *)
(* write, and the scratch holds nothing above the bits it counts.          *)
(***************************************************************************)
THEOREM CountersStayTogether == Spec => []CountersAgree
<1>1. IInv => CountersAgree
  BY DEF IInv
<1> QED BY <1>1, InductiveInvariant, PTL

(***************************************************************************)
(* WriteBytes copies words only when the scratch is empty and the position *)
(* is where the next word goes.                                            *)
(***************************************************************************)
THEOREM CopiesStartClean == Spec => []CopyStartsClean
<1>1. IInv => CopyStartsClean
  BY CopyClean DEF CopyStartsClean
<1> QED BY <1>1, InductiveInvariant, PTL

(***************************************************************************)
(* Past the written data the buffer holds zeros or what it held before.    *)
(***************************************************************************)
THEOREM PastEndStaysZero == Spec => []PastEndZero
<1>1. IInv => PastEndZero
  BY DEF IInv
<1> QED BY <1>1, InductiveInvariant, PTL

-----------------------------------------------------------------------------
(***************************************************************************)
(* The writer implements WireSpec: every step of it is a step of WireSpec  *)
(* on the wire and the packet, or changes neither.                         *)
(***************************************************************************)
LEMMA WireFacts ==
  ASSUME IInv
  PROVE  /\ Committed \in Nat /\ Committed <= bitsWritten
         /\ Wire \in Seq(Bit) /\ Len(Wire) = Committed
         /\ \A i \in 1..Committed : Wire[i] = BitAt(i-1)
         /\ \A p \in 0..bitsWritten-1 : BitAt(p) \in Bit
<1> DEFINE base == wordIndex * WordBits
<1>1. /\ bitsWritten \in Nat /\ scratch \in Word /\ WordBits \in Nat \ {0}
      /\ base \in Nat /\ scratchBits \in 0..WordBits-1
      /\ start \in Nat /\ start <= bitsWritten
  BY StateFacts
<1>2. Committed \in Nat /\ Committed <= bitsWritten
  BY <1>1 DEF Committed
<1>3. bitsWritten <= base + scratchBits
  <2>1. CASE last = "flushed"
    <3>1. base \in bitsWritten..bitsWritten + WordBits - 1
      BY <2>1 DEF IInv, CountersAgree
    <3> HIDE DEF base
    <3> QED BY <3>1, <1>1
  <2>2. CASE last # "flushed"
    <3>1. bitsWritten = base + scratchBits
      BY <2>2, StateFacts
    <3> HIDE DEF base
    <3> QED BY <3>1, <1>1
  <2> QED BY <2>1, <2>2
<1>4. \A p : BitAt(p) = IF p < base THEN data[p] ELSE scratch[p - base]
  BY DEF BitAt
<1>5. \A p \in 0..base-1 : data[p] \in Bit
  BY DEF IInv, WordsStored
<1> HIDE DEF base
<1>6. ASSUME NEW p \in 0..bitsWritten-1 PROVE BitAt(p) \in Bit
  <2>1. CASE p < base
    <3>1. p \in 0..base-1
      BY <2>1, <1>1
    <3> QED BY <3>1, <2>1, <1>4, <1>5
  <2>2. CASE ~(p < base)
    <3>1. p - base \in 0..WordBits-1
      BY <2>2, <1>1, <1>3
    <3> QED BY <3>1, <2>2, <1>1, <1>4 DEF Word
  <2> QED BY <2>1, <2>2
<1>7. \A i \in 1..Committed : BitAt(i-1) \in Bit
  BY <1>1, <1>2, <1>6
<1>8. Wire \in Seq(Bit) /\ Len(Wire) = Committed /\ \A i \in 1..Committed : Wire[i] = BitAt(i-1)
  BY <1>2, <1>7 DEF Wire
<1> QED BY <1>2, <1>6, <1>8

(***************************************************************************)
(* A step that leaves the bits of the wire alone and puts those of s after *)
(* them appends s to the wire.                                             *)
(***************************************************************************)
LEMMA WireAppends ==
  ASSUME IInv, NEW s \in Seq(Bit), NEW c, c = Committed, Committed' = c + Len(s),
         \A p \in 0..c-1 : BitAt(p)' = BitAt(p),
         \A p \in c..(c + Len(s)) - 1 : BitAt(p)' = s[(p - c) + 1]
  PROVE  Wire' = Wire \o s
<1>1. /\ c \in Nat /\ Wire \in Seq(Bit) /\ Len(Wire) = c
      /\ \A i \in 1..c : Wire[i] = BitAt(i-1)
  BY WireFacts
<1> DEFINE W == Wire
           n == c + Len(s)
<1>2. /\ W \in Seq(Bit) /\ Len(W) = c /\ W \o s \in Seq(Bit) /\ Len(W \o s) = n
      /\ \A i \in 1..c : (W \o s)[i] = W[i]
      /\ \A i \in 1..Len(s) : (W \o s)[c + i] = s[i]
  <2>1. W \in Seq(Bit) /\ Len(W) = c
    BY <1>1
  <2> HIDE DEF W
  <2>2. /\ W \o s \in Seq(Bit) /\ Len(W \o s) = Len(W) + Len(s)
        /\ \A i \in 1..Len(W) : (W \o s)[i] = W[i]
        /\ \A i \in 1..Len(s) : (W \o s)[Len(W) + i] = s[i]
    BY <2>1, Concatenation
  <2> QED BY <2>1, <2>2
<1>3. Len(s) \in Nat /\ n \in Nat
  BY <1>1
<1>4. Wire' = [i \in 1..n |-> BitAt(i-1)']
  BY DEF Wire
<1>5. \A i \in 1..c : W[i] = BitAt(i-1)
  BY <1>1
<1> HIDE DEF W, n
<1>6. \A i \in 1..n : BitAt(i-1)' = (W \o s)[i]
  <2> TAKE i \in 1..n
  <2>1. CASE i <= c
    <3>1. i \in 1..c /\ i - 1 \in 0..c-1
      BY <2>1, <1>1, <1>3
    <3> QED BY <3>1, <1>2, <1>5
  <2>2. CASE i > c
    <3> DEFINE j == i - c
    <3>1. /\ j \in 1..Len(s) /\ c + j = i
          /\ i - 1 \in c..(c + Len(s)) - 1 /\ ((i - 1) - c) + 1 = j
      BY <2>2, <1>1, <1>3 DEF n
    <3>2. BitAt(i-1)' = s[((i - 1) - c) + 1]
      BY <3>1, Zenon
    <3>3. (W \o s)[i] = s[j]
      BY <3>1, <1>2
    <3> QED BY <3>1, <3>2, <3>3
  <2>3. i <= c \/ i > c
    BY <1>1, <1>3
  <2> QED BY <2>1, <2>2, <2>3, Zenon
<1>7. W \o s = [i \in 1..n |-> (W \o s)[i]]
  <2>1. W \o s = [i \in 1..Len(W \o s) |-> (W \o s)[i]]
    BY <1>2, SequenceIsFunction
  <2> QED BY <2>1, <1>2
<1> QED BY <1>4, <1>6, <1>7 DEF W

(***************************************************************************)
(* A step that neither moves the committed position nor changes a bit      *)
(* written leaves the wire alone.                                          *)
(***************************************************************************)
LEMMA WireSame ==
  ASSUME IInv, Committed' = Committed,
         \A p \in 0..bitsWritten-1 : BitAt(p)' = BitAt(p)
  PROVE  Wire' = Wire
<1>1. Committed \in Nat /\ Committed <= bitsWritten /\ bitsWritten \in Nat
  BY WireFacts, StateFacts
<1>2. \A i \in 1..Committed : BitAt(i-1)' = BitAt(i-1)
  <2> TAKE i \in 1..Committed
  <2>1. i - 1 \in 0..bitsWritten-1
    BY <1>1
  <2> QED BY <2>1
<1> QED BY <1>2 DEF Wire

(***************************************************************************)
(* What WireSpec writes for each operation, and when it says it fits.      *)
(***************************************************************************)
LEMMA EmptyConcatenation ==
  ASSUME NEW S, NEW s \in Seq(S)
  PROVE  s \o <<>> = s /\ <<>> \o s = s
OBVIOUS

(***************************************************************************)
(* The encodings of WireSpec: a field is itself, an align is the zeros up  *)
(* to the byte, and a byte run on a byte is itself.                        *)
(***************************************************************************)
LEMMA EncodingOf ==
  ASSUME NEW pos \in Nat
  PROVE  /\ \A f \in Fields : Abs!Encoding(BitsOp(f), pos) = f
         /\ Abs!Encoding(AlignOp, pos) = Zeros(AlignPad(pos))
         /\ \A r \in Runs : pos % ByteBits = 0 => Abs!Encoding(BytesOp(r), pos) = r
<1>1. Abs!Zeros(0) = <<>>
  BY DEF Abs!Zeros
<1>2. \A n : Abs!Zeros(n) = Zeros(n) /\ Abs!AlignPad(n) = AlignPad(n)
  BY DEF Abs!Zeros, Zeros, Abs!AlignPad, AlignPad
<1>3. ASSUME NEW f \in Fields PROVE Abs!Encoding(BitsOp(f), pos) = f
  <2>1. Abs!Encoding(BitsOp(f), pos) = f \o <<>> \o <<>>
    BY <1>1 DEF Abs!Encoding, Abs!PadBits, BitsOp
  <2> QED BY <2>1, FieldFacts, EmptyConcatenation
<1>4. Abs!Encoding(AlignOp, pos) = Zeros(AlignPad(pos))
  <2>1. Len(<<>>) = 0 /\ pos + 0 = pos
    OBVIOUS
  <2>2. Abs!Encoding(AlignOp, pos) = <<>> \o Zeros(AlignPad(pos)) \o <<>>
    BY <2>1, <1>2 DEF Abs!Encoding, Abs!PadBits, AlignOp
  <2>3. AlignPad(pos) \in Nat
    BY RoundUpBytes, GeometryAssumption
  <2>4. Zeros(AlignPad(pos)) \in Seq(Bit)
    BY <2>3 DEF Zeros, Bit
  <2> QED BY <2>2, <2>4, EmptyConcatenation
<1>5. ASSUME NEW r \in Runs, pos % ByteBits = 0 PROVE Abs!Encoding(BytesOp(r), pos) = r
  <2>1. Len(<<>>) = 0 /\ pos + 0 = pos
    OBVIOUS
  <2>2. AlignPad(pos) = 0
    BY <1>5, AlignPadValue
  <2>3. Abs!Encoding(BytesOp(r), pos) = <<>> \o <<>> \o r
    BY <2>1, <2>2, <1>1, <1>2 DEF Abs!Encoding, Abs!PadBits, BytesOp
  <2>4. <<>> \o <<>> = <<>>
    OBVIOUS
  <2> QED BY <2>3, <2>4, WriterRunsAssumption, EmptyConcatenation
<1> QED BY <1>3, <1>4, <1>5

(***************************************************************************)
(* A fresh writer is a fresh wire.                                         *)
(***************************************************************************)
LEMMA InitWire == Init => Abs!Init
<1> SUFFICES ASSUME Init PROVE Abs!Init
  OBVIOUS
<1>1. Committed = 0 /\ last = "reset"
  BY DEF Init, Committed
<1>2. Wire = <<>>
  BY <1>1 DEF Wire
<1>3. Packet = <<>>
  BY <1>1 DEF Packet
<1>4. numBits \in Abs!Capacities
  BY DEF Init, Abs!Capacities, Abs!WordBits, WordBits
<1> QED BY <1>1, <1>2, <1>3, <1>4 DEF Abs!Init, Abs!NoPacket

(***************************************************************************)
(* WriteBits and WriteAlign put their encoding on the wire in one step.    *)
(***************************************************************************)
LEMMA AcceptWire ==
  ASSUME IInv, NEW op \in Operations, last' = "returned", numBits' = numBits,
         NEW s \in Seq(Bit), s = Abs!Encoding(op, Committed),
         Wire' = Wire \o s, Committed + Len(s) <= numBits
  PROVE  Abs!Next
<1>1. Len(Wire) = Committed
  BY WireFacts
<1>2. Abs!Fits(op)
  BY <1>1 DEF Abs!Fits
<1>3. Packet' = <<>>
  BY DEF Packet
<1>4. Abs!Accept(op)
  BY <1>1, <1>2, <1>3 DEF Abs!Accept, Abs!NoPacket
<1> QED BY <1>4 DEF Abs!Next

(***************************************************************************)
(* WriteBits appends its field to the wire.                                *)
(***************************************************************************)
LEMMA WriteBitsWire ==
  ASSUME IInv, NEW f \in Fields, WriteBits(f)
  PROVE  Abs!Next
<1>1. /\ MayWrite /\ Room(Len(f)) /\ last' = "returned" /\ numBits' = numBits
  BY DEF WriteBits
<1>2. f \in Seq(Bit) /\ BitsOp(f) \in Operations
  BY FieldFacts DEF Operations
<1>3. /\ bitsWritten' = bitsWritten + Len(f)
      /\ \A p \in 0..bitsWritten-1 : BitAt(p)' = BitAt(p)
      /\ \A p \in bitsWritten..bitsWritten+Len(f)-1 :
           BitAt(p)' = f[(p - bitsWritten) + 1]
  BY WriteBitsIInv
<1>4. Committed = bitsWritten /\ Committed' = bitsWritten' /\ bitsWritten \in Nat
  BY <1>1, StateFacts DEF Committed, MayWrite
<1>5. \A p \in bitsWritten..(bitsWritten + Len(f)) - 1 :
        BitAt(p)' = f[(p - bitsWritten) + 1]
  <2>1. (bitsWritten + Len(f)) - 1 = bitsWritten + Len(f) - 1
    BY <1>2, <1>4
  <2> QED BY <2>1, <1>3
<1>6. Wire' = Wire \o f
  BY <1>2, <1>3, <1>4, <1>5, WireAppends
<1>7. f = Abs!Encoding(BitsOp(f), Committed) /\ Committed + Len(f) <= numBits
  BY <1>1, <1>4, EncodingOf DEF Room
<1> QED BY <1>1, <1>2, <1>6, <1>7, AcceptWire

(***************************************************************************)
(* WriteAlign appends the zeros up to the next byte.                       *)
(***************************************************************************)
LEMMA WriteAlignWire ==
  ASSUME IInv, WriteAlign
  PROVE  Abs!Next
<1> DEFINE pad == AlignPad(bitsWritten)
           z == Zeros(pad)
<1>1. MayWrite /\ last' = "returned" /\ numBits' = numBits
  BY DEF WriteAlign
<1>2. Committed = bitsWritten /\ Committed' = bitsWritten' /\ bitsWritten \in Nat
  BY <1>1, StateFacts DEF Committed, MayWrite
<1>3. pad \in Nat
  BY <1>2, RoundUpBytes, GeometryAssumption
<1>4. z \in Seq(Bit) /\ Len(z) = pad /\ \A i \in 1..pad : z[i] = 0
  BY <1>3 DEF Zeros, Bit
<1>5. /\ IInv'
      /\ bitsWritten' = bitsWritten + pad
      /\ \A p \in 0..bitsWritten-1 : BitAt(p)' = BitAt(p)
      /\ \A p \in bitsWritten..bitsWritten+pad-1 : BitAt(p)' = 0
  BY WriteAlignIInv
<1>6. bitsWritten + pad <= numBits
  <2>1. bitsWritten' \in 0..numBits'
    BY <1>5 DEF IInv, TypeOK
  <2> QED BY <2>1, <1>1, <1>5
<1> HIDE DEF z, pad
<1>7. ASSUME NEW p \in bitsWritten..(bitsWritten + Len(z)) - 1
      PROVE  BitAt(p)' = z[(p - bitsWritten) + 1]
  <2>1. p \in bitsWritten..bitsWritten+pad-1 /\ (p - bitsWritten) + 1 \in 1..pad
    BY <1>2, <1>3, <1>4
  <2> QED BY <2>1, <1>4, <1>5
<1>8. Committed' = bitsWritten + Len(z)
  BY <1>2, <1>4, <1>5
<1>9. Wire' = Wire \o z
  BY <1>2, <1>4, <1>5, <1>7, <1>8, WireAppends
<1>10. z = Abs!Encoding(AlignOp, Committed) /\ AlignOp \in Operations
  BY <1>2, EncodingOf DEF Operations, z, pad
<1>11. Committed + Len(z) <= numBits
  BY <1>2, <1>4, <1>6
<1> QED BY <1>1, <1>4, <1>9, <1>10, <1>11, AcceptWire

(***************************************************************************)
(* WriteBytes puts its run on the wire when it returns; until then the     *)
(* wire ends where the run starts.                                         *)
(***************************************************************************)
LEMMA ReturnWire ==
  ASSUME IInv, Return
  PROVE  Abs!Next
<1>1. /\ last = "writing" /\ Done = RunBytes /\ last' = "returned"
      /\ UNCHANGED <<data, scratch, numBits, bitsWritten, wordIndex, scratchBits>>
  BY DEF Return, counters
<1>2. /\ run \in Seq(Bit) /\ Len(run) = RunBytes * ByteBits
      /\ bitsWritten = start + Done * ByteBits /\ start + Len(run) <= numBits
  BY <1>1, RunFacts
<1>3. bitsWritten = start + Len(run)
  BY <1>1, <1>2
<1>4. /\ run \in Runs /\ start % ByteBits = 0
      /\ \A i \in 1..Done * ByteBits : BitAt(start + i - 1) = run[i]
  BY <1>1 DEF IInv, RunSoFar
<1>5. start \in Nat /\ Len(run) \in Nat /\ Committed = start /\ Committed' = bitsWritten
  BY <1>1, <1>2, StateFacts DEF Committed
<1>6. \A p : BitAt(p)' = BitAt(p)
  BY <1>1 DEF BitAt
<1>7. ASSUME NEW c, c = start,
             NEW p \in c..(c + Len(run)) - 1
      PROVE  BitAt(p)' = run[(p - c) + 1]
  <2> DEFINE i == (p - c) + 1
  <2>1. i \in 1..Len(run) /\ start + i - 1 = p
    BY <1>5, <1>7
  <2>2. \A j \in 1..Len(run) : BitAt(start + j - 1) = run[j]
    BY <1>1, <1>2, <1>4
  <2> HIDE DEF i
  <2>3. BitAt(start + i - 1) = run[i]
    BY <2>1, <2>2
  <2> QED BY <2>1, <2>3, <1>6 DEF i
<1>8. Wire' = Wire \o run
  <2> DEFINE c == Committed
  <2>1. c = start /\ Committed' = c + Len(run)
    BY <1>3, <1>5
  <2>2. \A p \in c..(c + Len(run)) - 1 : BitAt(p)' = run[(p - c) + 1]
    BY <2>1, <1>7
  <2> QED BY <2>1, <2>2, <1>2, <1>6, WireAppends
<1>9. run = Abs!Encoding(BytesOp(run), Committed) /\ BytesOp(run) \in Operations
  BY <1>4, <1>5, EncodingOf DEF Operations
<1>10. Committed + Len(run) <= numBits
  BY <1>2, <1>5
<1> QED BY <1>1, <1>2, <1>8, <1>9, <1>10, AcceptWire

(***************************************************************************)
(* The stores inside WriteBytes are not seen before it returns: what was   *)
(* committed when it began stays as it was.                                *)
(***************************************************************************)
LEMMA WritingWire ==
  ASSUME IInv, WriteByte \/ CopyWords
  PROVE  UNCHANGED Abs!abstractVars
<1>1. last = "writing" /\ UNCHANGED <<numBits, start, last>>
  BY DEF WriteByte, CopyWords
<1>2. \A p \in 0..bitsWritten-1 : BitAt(p)' = BitAt(p)
  BY WriteByteIInv, CopyWordsIInv
<1>3. Committed' = Committed
  BY <1>1 DEF Committed
<1>4. Wire' = Wire
  BY <1>2, <1>3, WireSame
<1>5. Packet' = Packet
  BY <1>1 DEF Packet
<1> QED BY <1>1, <1>4, <1>5 DEF Abs!abstractVars

(***************************************************************************)
(* A call that starts, or panics before it has written anything.           *)
(***************************************************************************)
LEMMA CallStartsWire ==
  ASSUME IInv,
         \/ \E r \in Runs : WriteBytes(r) \/ WriteBytesOverflow(r)
         \/ \E f \in Fields : WriteBitsOverflow(f)
         \/ Misuse
  PROVE  Abs!Next
<1>1. /\ MayWrite /\ last' \in {"writing", "overflow", "misuse"}
      /\ UNCHANGED <<data, scratch, numBits, bitsWritten, wordIndex, scratchBits>>
      /\ last' = "writing" => start' = bitsWritten
  BY DEF WriteBytes, WriteBytesOverflow, WriteBitsOverflow, Misuse, Panic, counters
<1>2. last # "writing" /\ Committed = bitsWritten /\ Committed' = bitsWritten
  BY <1>1 DEF MayWrite, Committed
<1>3. \A p : BitAt(p)' = BitAt(p)
  BY <1>1 DEF BitAt
<1>4. Wire' = Wire
  BY <1>2, <1>3, WireSame
<1>5. Packet' = <<>>
  BY <1>1 DEF Packet
<1>6. Len(Wire) = bitsWritten /\ bitsWritten \in Nat
  BY <1>2, WireFacts, StateFacts
<1>7. ASSUME NEW op \in Operations, last' = "overflow",
             ~Room(Len(Abs!Encoding(op, bitsWritten)))
      PROVE  Abs!Next
  <2>1. ~Abs!Fits(op)
    BY <1>6, <1>7 DEF Abs!Fits, Room
  <2>2. Abs!Overflow(op)
    BY <2>1, <1>1, <1>2, <1>4, <1>5, <1>7 DEF Abs!Overflow, Abs!NoPacket
  <2> QED BY <2>2 DEF Abs!Next
<1>8. CASE \E r \in Runs : WriteBytes(r)
  <2>1. last' = "writing"
    BY <1>8 DEF WriteBytes
  <2>2. Abs!Start
    BY <2>1, <1>1, <1>2, <1>4, <1>5 DEF Abs!Start, Abs!NoPacket
  <2> QED BY <2>2 DEF Abs!Next
<1>9. CASE \E r \in Runs : WriteBytesOverflow(r)
  <2>1. PICK r \in Runs : WriteBytesOverflow(r)
    BY <1>9
  <2>2. Aligned /\ ~Room(Len(r)) /\ last' = "overflow"
    BY <2>1 DEF WriteBytesOverflow, Panic
  <2>3. Abs!Encoding(BytesOp(r), bitsWritten) = r /\ BytesOp(r) \in Operations
    BY <2>2, <1>6, EncodingOf DEF Operations, Aligned
  <2> QED BY <2>2, <2>3, <1>7
<1>10. CASE \E f \in Fields : WriteBitsOverflow(f)
  <2>1. PICK f \in Fields : WriteBitsOverflow(f)
    BY <1>10
  <2>2. ~Room(Len(f)) /\ last' = "overflow"
    BY <2>1 DEF WriteBitsOverflow, Panic
  <2>3. Abs!Encoding(BitsOp(f), bitsWritten) = f /\ BitsOp(f) \in Operations
    BY <1>6, EncodingOf DEF Operations
  <2> QED BY <2>2, <2>3, <1>7
<1>11. CASE Misuse
  <2>1. last' = "misuse"
    BY <1>11 DEF Misuse, Panic
  <2>2. Abs!Misuse
    BY <2>1, <1>1, <1>2, <1>4, <1>5 DEF Abs!Misuse, Abs!NoPacket
  <2> QED BY <2>2 DEF Abs!Next
<1> QED BY <1>8, <1>9, <1>10, <1>11

(***************************************************************************)
(* A flush makes Data the wire padded with zeros to a byte: every bit of   *)
(* the words stored is a bit, and past the position a bit that is not old  *)
(* is a zero.                                                              *)
(***************************************************************************)
LEMMA FlushWire ==
  ASSUME IInv, FlushBits
  PROVE  Abs!Next
<1> DEFINE bw == bitsWritten
           base == wordIndex' * WordBits
           pad == AlignPad(bw)
           z == Zeros(pad)
           W == Wire
<1>1. /\ last # "writing" /\ last' = "flushed"
      /\ UNCHANGED <<numBits, bitsWritten, run, start>>
  BY DEF FlushBits
<1>2. IInv' /\ \A p \in 0..bw-1 : BitAt(p)' = BitAt(p)
  BY FlushIInv
<1>3. bw \in Nat /\ numBits \in Nat /\ Committed = bw /\ Committed' = bw
  BY <1>1, StateFacts DEF Committed
<1>4. Wire' = Wire
  BY <1>2, <1>3, WireSame
<1>5. /\ base \in bw..bw + WordBits - 1
      /\ \A p \in 0..base-1 : data'[p] \in Bit
      /\ \A p \in bw..numBits-1 : data'[p] \in {0, Old}
      /\ \A p : BitAt(p)' = IF p < base THEN data'[p] ELSE scratch'[p - base]
      /\ wordIndex' \in Nat
  BY <1>1, <1>2 DEF IInv, TypeOK, CountersAgree, WordsStored, PastEndZero, BitAt
<1>6. base <= numBits
  <2>1. (wordIndex * WordBits <= numBits)'
    BY <1>2, WordsInside, PTL
  <2> QED BY <2>1, <1>1
<1>7. RoundUp(bw) <= base /\ pad \in Nat /\ RoundUp(bw) = bw + pad
  <2>1. /\ base = (wordIndex' * WordBytes) * ByteBits
        /\ wordIndex' * WordBytes \in Nat
    BY <1>5, WordsOfBytes
  <2>2. bw <= base
    <3> HIDE DEF base, bw
    <3> QED BY ONLY <1>5
  <2>3. RoundUp(bw) <= (wordIndex' * WordBytes) * ByteBits
    BY <2>1, <2>2, <1>3, RoundUpLeast
  <2> QED BY <2>1, <2>3, <1>3, RoundUpBytes, GeometryAssumption DEF RoundUp
<1>8. Packet' = [i \in 1..RoundUp(bw) |-> data'[i-1]]
  <2>1. RoundUp(bw) = BytesWritten * ByteBits
    BY <1>3, RoundUpBytes DEF BytesWritten
  <2>2. Packet' = Data'
    BY <1>1 DEF Packet
  <2>3. BytesWritten' = BytesWritten
    BY <1>1 DEF BytesWritten
  <2> QED BY <2>1, <2>2, <2>3 DEF Data
<1>9. /\ W \in Seq(Bit) /\ Len(W) = bw /\ \A i \in 1..bw : W[i] = BitAt(i-1)
  BY <1>3, WireFacts
<1>10. /\ z \in Seq(Bit) /\ Len(z) = pad /\ \A i \in 1..pad : z[i] = 0
  BY <1>7 DEF Zeros, Bit
<1>11. /\ W \o z \in Seq(Bit) /\ Len(W \o z) = bw + pad
       /\ \A i \in 1..bw : (W \o z)[i] = W[i]
       /\ \A i \in 1..pad : (W \o z)[bw + i] = z[i]
  <2> HIDE DEF W, z, bw, pad
  <2>1. /\ W \o z \in Seq(Bit) /\ Len(W \o z) = Len(W) + Len(z)
        /\ \A i \in 1..Len(W) : (W \o z)[i] = W[i]
        /\ \A i \in 1..Len(z) : (W \o z)[Len(W) + i] = z[i]
    <3>1. W \in Seq(Bit) /\ z \in Seq(Bit)
      BY <1>9, <1>10
    <3> QED BY <3>1, Concatenation
  <2> QED BY <2>1, <1>9, <1>10
<1> HIDE DEF W, z, pad, base, bw
<1>12. \A i \in 1..RoundUp(bw) : data'[i-1] = (W \o z)[i]
  <2> TAKE i \in 1..RoundUp(bw)
  <2>0. base \in Nat /\ base <= numBits
    BY <1>3, <1>5, <1>6, WordBitsType
  <2>1. i - 1 \in 0..base-1 /\ i \in 1..bw + pad
    BY <2>0, <1>3, <1>7
  <2>2. CASE i <= bw
    <3>1. i \in 1..bw /\ i - 1 \in 0..bw-1 /\ i - 1 < base
      BY <2>0, <2>1, <2>2, <1>3
    <3>2. BitAt(i-1)' = data'[i-1]
      BY <3>1, <1>5
    <3>3. BitAt(i-1)' = BitAt(i-1)
      BY <3>1, <1>2 DEF bw
    <3> QED BY <3>1, <3>2, <3>3, <1>9, <1>11
  <2>3. CASE i > bw
    <3> DEFINE j == i - bw
    <3>1. j \in 1..pad /\ bw + j = i /\ i - 1 \in bw..numBits-1
      BY <2>0, <2>1, <2>3, <1>3, <1>7
    <3>2. (W \o z)[i] = 0
      BY <3>1, <1>10, <1>11
    <3>3. data'[i-1] = 0
      BY <3>1, <2>1, <1>5, WriterOldAssumption
    <3> QED BY <3>2, <3>3
  <2>4. i <= bw \/ i > bw
    BY <2>1, <1>3, <1>7
  <2> QED BY <2>2, <2>3, <2>4, Zenon
<1>13. Packet' = W \o z
  <2>1. W \o z = [i \in 1..Len(W \o z) |-> (W \o z)[i]]
    BY <1>11, SequenceIsFunction
  <2> QED BY <2>1, <1>7, <1>8, <1>11, <1>12
<1>14. W \o z = Wire \o Abs!Zeros(Abs!AlignPad(Len(Wire)))
  BY <1>9 DEF W, z, pad, Abs!Zeros, Abs!AlignPad, Zeros, AlignPad
<1>15. Abs!Flush
  BY <1>1, <1>4, <1>13, <1>14 DEF Abs!Flush
<1> QED BY <1>15 DEF Abs!Next

(***************************************************************************)
(* Reset empties the wire.                                                 *)
(***************************************************************************)
LEMMA ResetWire ==
  ASSUME IInv, NEW words \in Buffers, Reset(words)
  PROVE  Abs!Next
<1>1. /\ last # "writing" /\ last' = "reset" /\ bitsWritten' = 0
      /\ numBits' = words * WordBits
  BY DEF Reset
<1>2. Committed' = 0
  BY <1>1 DEF Committed
<1>3. Wire' = <<>> /\ Packet' = <<>>
  BY <1>1, <1>2 DEF Wire, Packet
<1>4. numBits' \in Abs!Capacities
  BY <1>1 DEF Abs!Capacities, Abs!WordBits, WordBits
<1>5. Abs!Reset
  BY <1>1, <1>3, <1>4 DEF Abs!Reset, Abs!NoPacket
<1> QED BY <1>5 DEF Abs!Next

(***************************************************************************)
(* Every step of the writer is a step of WireSpec or changes none of its   *)
(* variables.                                                              *)
(***************************************************************************)
LEMMA StepWire ==
  IInv /\ [Next]_vars => [Abs!Next]_Abs!abstractVars
<1> SUFFICES ASSUME IInv, [Next]_vars PROVE [Abs!Next]_Abs!abstractVars
  OBVIOUS
<1>1. CASE \E f \in Fields : WriteBits(f)
  BY <1>1, WriteBitsWire
<1>2. CASE WriteAlign
  BY <1>2, WriteAlignWire
<1>3. CASE \/ \E r \in Runs : WriteBytes(r) \/ WriteBytesOverflow(r)
           \/ \E f \in Fields : WriteBitsOverflow(f)
           \/ Misuse
  BY <1>3, CallStartsWire
<1>4. CASE WriteByte \/ CopyWords
  BY <1>4, WritingWire
<1>5. CASE Return
  BY <1>5, ReturnWire
<1>6. CASE FlushBits
  BY <1>6, FlushWire
<1>7. CASE \E words \in Buffers : Reset(words)
  BY <1>7, ResetWire
<1>8. CASE UNCHANGED vars
  BY <1>8 DEF vars, counters, Abs!abstractVars, Wire, Packet, Data, Committed, BitAt,
              BytesWritten
<1> QED BY <1>1, <1>2, <1>3, <1>4, <1>5, <1>6, <1>7, <1>8 DEF Next

(***************************************************************************)
(* The writer implements WireSpec: the wire is what the calls that         *)
(* returned encoded, one after the other, and Data after a flush is the    *)
(* wire padded to a byte.  The write stream implements the same            *)
(* specification, so the two produce the same bits for the same calls.     *)
(***************************************************************************)
THEOREM Implementation == Spec => ImplementsWire
<1>1. Init => Abs!Init
  BY InitWire
<1>2. IInv /\ [Next]_vars => [Abs!Next]_Abs!abstractVars
  BY StepWire
<1> QED BY <1>1, <1>2, InductiveInvariant, PTL DEF Spec, ImplementsWire, Abs!Spec
=============================================================================

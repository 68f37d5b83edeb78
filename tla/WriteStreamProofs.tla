------------------------- MODULE WriteStreamProofs -------------------------
(***************************************************************************)
(* The write stream keeps its invariants and implements WireSpec, for      *)
(* every geometry, every set of buffers and every set of values.  At the   *)
(* end, what the compressed floats are that it writes and the other        *)
(* streams measure and read, for every format of floats and integers.      *)
(***************************************************************************)
EXTENDS WriteStream, CompressedFloat, CodecProofs

-----------------------------------------------------------------------------
(***************************************************************************)
(* What the pieces of an operation rest on: every piece of its field is    *)
(* at most a word, and its byte run is whole bytes.                        *)
(***************************************************************************)
OpOK(op) == /\ op.field \in Seq(Bit)
            /\ op.bytes \in Seq(Bit)
            /\ op.split \subseteq 1..Len(op.field)
            /\ Len(op.field) \in op.split \cup {0}
            /\ \A c \in op.split : \E a \in op.split \cup {0} : a < c /\ c - a <= WordBits
            /\ ~op.aligned => op.bytes = <<>>
            /\ RunBytes(op) \in Nat
            /\ Len(op.bytes) = RunBytes(op) * ByteBits

(***************************************************************************)
(* A run whose length is a multiple of the byte is RunBytes bytes long.    *)
(***************************************************************************)
LEMMA WholeBytes ==
  ASSUME NEW op, op.bytes \in Seq(Bit), Len(op.bytes) % ByteBits = 0
  PROVE  RunBytes(op) \in Nat /\ Len(op.bytes) = RunBytes(op) * ByteBits
<1> DEFINE n == Len(op.bytes)
<1>1. n \in Nat /\ ByteBits \in Nat \ {0}
  BY GeometryAssumption
<1>2. n % ByteBits = 0
  OBVIOUS
<1> HIDE DEF n
<1>3. n \div ByteBits \in Nat /\ n = (n \div ByteBits) * ByteBits + (n % ByteBits)
  BY <1>1, DivMod
<1>4. n = (n \div ByteBits) * ByteBits
  BY <1>1, <1>2, <1>3
<1> QED BY <1>3, <1>4 DEF RunBytes, n

(***************************************************************************)
(* An operation without a run has none.                                    *)
(***************************************************************************)
LEMMA NoBytes ==
  ASSUME NEW op, op.bytes = <<>>
  PROVE  op.bytes \in Seq(Bit) /\ RunBytes(op) = 0 /\ Len(op.bytes) = RunBytes(op) * ByteBits
<1>1. ByteBits \in Nat \ {0}
  BY GeometryAssumption
<1>2. (0 * ByteBits + 0) \div ByteBits = 0
  BY <1>1, DivModUnique
<1>3. Len(op.bytes) = 0
  OBVIOUS
<1> QED BY <1>1, <1>2, <1>3 DEF RunBytes

(***************************************************************************)
(* Numbers, aligns, byte arrays and strings are made of such pieces and    *)
(* check their room as a whole.                                            *)
(***************************************************************************)
LEMMA CheckedOpsOK == \A op \in CheckedOps : OpOK(op) /\ op.whole
<1>1. ASSUME NEW f \in Fields PROVE OpOK(FieldOp(f)) /\ FieldOp(f).whole
  <2>1. f \in Seq(Bit) /\ Len(f) \in Nat /\ Len(f) <= 2 * WordBits
    BY FieldsAssumption
  <2> DEFINE op == FieldOp(f)
  <2>2. /\ op.field = f /\ op.split = {WordBits, Len(f)} \cap 1..Len(f)
        /\ op.aligned = FALSE /\ op.bytes = <<>> /\ op.whole = TRUE
    BY DEF FieldOp, Op
  <2>3. op.bytes \in Seq(Bit) /\ RunBytes(op) = 0 /\ Len(op.bytes) = RunBytes(op) * ByteBits
    BY <2>2, NoBytes
  <2> HIDE DEF op
  <2>4. Len(op.field) \in op.split \cup {0}
    BY <2>1, <2>2
  <2>5. ASSUME NEW c \in op.split
        PROVE  \E a \in op.split \cup {0} : a < c /\ c - a <= WordBits
    <3>1. CASE c <= WordBits
      BY <3>1, <2>1, <2>2
    <3>2. CASE c > WordBits
      <4>1. WordBits \in op.split /\ c = Len(f)
        BY <3>2, <2>1, <2>2, WordBitsType
      <4> QED BY <4>1, <3>2, <2>1, WordBitsType
    <3> QED BY <3>1, <3>2, <2>1, <2>2, WordBitsType
  <2>6. (~op.aligned => op.bytes = <<>>) /\ op.whole
    BY <2>2, Zenon
  <2>7. /\ op.field \in Seq(Bit) /\ op.split \subseteq 1..Len(op.field)
        /\ RunBytes(op) \in Nat
    BY <2>1, <2>2, <2>3
  <2>8. OpOK(op)
    BY <2>3, <2>4, <2>5, <2>6, <2>7, Zenon DEF OpOK
  <2> QED BY <2>6, <2>8, Zenon DEF op
<1>2. ASSUME NEW r \in Runs PROVE OpOK(BytesOp(r)) /\ BytesOp(r).whole
  <2> DEFINE op == BytesOp(r)
  <2>1. /\ op.field = <<>> /\ op.split = {} /\ op.aligned = TRUE
        /\ op.bytes = r /\ op.whole = TRUE
    BY DEF BytesOp, Op
  <2>2. r \in Seq(Bit) /\ Len(r) % ByteBits = 0
    BY RunsAssumption
  <2> HIDE DEF op
  <2>3. RunBytes(op) \in Nat /\ Len(op.bytes) = RunBytes(op) * ByteBits
    BY <2>1, <2>2, WholeBytes
  <2>4. (~op.aligned => op.bytes = <<>>) /\ op.whole
    BY <2>1, Zenon
  <2>5. /\ op.field \in Seq(Bit) /\ op.bytes \in Seq(Bit)
        /\ op.split \subseteq 1..Len(op.field)
        /\ Len(op.field) \in op.split \cup {0}
    BY <2>1, <2>2
  <2>6. OpOK(op)
    BY <2>1, <2>3, <2>4, <2>5, Zenon DEF OpOK
  <2> QED BY <2>4, <2>6, Zenon DEF op
<1>3. ASSUME NEW t \in Texts PROVE OpOK(TextOp(t)) /\ TextOp(t).whole
  <2> DEFINE op == TextOp(t)
  <2>1. /\ op.field = t.field /\ op.split = {Len(t.field)} \cap 1..Len(t.field)
        /\ op.aligned = TRUE /\ op.bytes = t.run /\ op.whole = TRUE
    BY DEF TextOp, Op
  <2>2. /\ t.field \in Seq(Bit) /\ Len(t.field) \in Nat /\ Len(t.field) <= WordBits
        /\ t.run \in Seq(Bit) /\ Len(t.run) % ByteBits = 0
    BY TextsAssumption, RunsAssumption
  <2> HIDE DEF op
  <2>3. RunBytes(op) \in Nat /\ Len(op.bytes) = RunBytes(op) * ByteBits
    BY <2>1, <2>2, WholeBytes
  <2>4. Len(op.field) \in op.split \cup {0}
    BY <2>1, <2>2
  <2>5. \A c \in op.split : 0 < c /\ c - 0 <= WordBits
    BY <2>1, <2>2, WordBitsType
  <2>6. (~op.aligned => op.bytes = <<>>) /\ op.whole
    BY <2>1, Zenon
  <2>7. /\ op.field \in Seq(Bit) /\ op.bytes \in Seq(Bit)
        /\ op.split \subseteq 1..Len(op.field)
        /\ 0 \in op.split \cup {0}
    BY <2>1, <2>2
  <2>8. OpOK(op)
    BY <2>3, <2>4, <2>5, <2>6, <2>7, Zenon DEF OpOK
  <2> QED BY <2>6, <2>8, Zenon DEF op
<1>4. OpOK(AlignOp) /\ AlignOp.whole
  <2> DEFINE op == AlignOp
  <2>1. /\ op.field = <<>> /\ op.split = {} /\ op.aligned = TRUE
        /\ op.bytes = <<>> /\ op.whole = TRUE
    BY DEF AlignOp, Op
  <2> HIDE DEF op
  <2>2. op.bytes \in Seq(Bit) /\ RunBytes(op) = 0 /\ Len(op.bytes) = RunBytes(op) * ByteBits
    BY <2>1, NoBytes
  <2>3. (~op.aligned => op.bytes = <<>>) /\ op.whole
    BY <2>1, Zenon
  <2>4. /\ op.field \in Seq(Bit)
        /\ op.split \subseteq 1..Len(op.field)
        /\ Len(op.field) \in op.split \cup {0}
        /\ RunBytes(op) \in Nat
    BY <2>1, <2>2
  <2>5. OpOK(op)
    BY <2>1, <2>2, <2>3, <2>4, Zenon DEF OpOK
  <2> QED BY <2>3, <2>5, Zenon DEF op
<1> QED BY <1>1, <1>2, <1>3, <1>4 DEF CheckedOps

(***************************************************************************)
(* int_relative is made of such pieces and checks its room piece by piece. *)
(***************************************************************************)
LEMMA RelOpsOK ==
  \A op \in RelOps : OpOK(op) /\ ~op.whole /\ ~op.aligned /\ op.bytes = <<>>
<1> SUFFICES ASSUME NEW tier \in Tiers, NEW p \in Bits01(PayloadBits(tier))
             PROVE  LET op == RelOp(tier, p)
                    IN  OpOK(op) /\ ~op.whole /\ ~op.aligned /\ op.bytes = <<>>
  BY DEF RelOps
<1> DEFINE flags == Flags(tier)
           code  == flags \o p
           op    == RelOp(tier, p)
<1>1. flags \in Seq(Bit) /\ Len(flags) \in Nat
  BY RelAssumption DEF Flags, Zeros, Bit, Tiers
<1>2. PayloadBits(tier) \in 0..WordBits
  BY RelAssumption, WordBitsType DEF PayloadBits, Tiers
<1>3. p \in Seq(Bit) /\ Len(p) = PayloadBits(tier)
  BY <1>2 DEF Bits01
<1> HIDE DEF flags
<1>4. code \in Seq(Bit) /\ Len(code) = Len(flags) + Len(p) /\ Len(code) \in Nat
  BY <1>1, <1>3
<1>5. /\ op.field = code
      /\ op.split = 1..Len(flags) \cup ({Len(code)} \cap 1..Len(code))
      /\ op.aligned = FALSE /\ op.bytes = <<>> /\ op.whole = FALSE
  BY DEF RelOp, Op, flags
<1> HIDE DEF op, code
<1>6. op.bytes \in Seq(Bit) /\ RunBytes(op) = 0 /\ Len(op.bytes) = RunBytes(op) * ByteBits
  BY <1>5, NoBytes
<1>7. op.split \subseteq 1..Len(op.field) /\ Len(op.field) \in op.split \cup {0}
  BY <1>1, <1>2, <1>3, <1>4, <1>5
<1>8. ASSUME NEW c \in op.split
      PROVE  \E a \in op.split \cup {0} : a < c /\ c - a <= WordBits
  <2>1. CASE c \in 1..Len(flags)
    <3>1. c - 1 \in op.split \cup {0}
      BY <2>1, <1>1, <1>5
    <3>2. c - 1 < c /\ c - (c - 1) <= WordBits
      BY <2>1, <1>1, WordBitsType
    <3> QED BY <3>1, <3>2, Zenon
  <2>2. CASE c = Len(code) /\ c \notin 1..Len(flags)
    <3>1. Len(flags) \in op.split \cup {0}
      BY <1>1, <1>5
    <3>2. c \in 1..Len(code)
      BY <1>4, <1>5, <2>2
    <3>3. Len(flags) < c
      BY <3>2, <2>2, <1>1, <1>4
    <3>4. c - Len(flags) <= WordBits
      BY <2>2, <1>1, <1>2, <1>3, <1>4, WordBitsType
    <3> QED BY <3>1, <3>3, <3>4, Zenon
  <2> QED BY <2>1, <2>2, <1>5
<1>9. op.field \in Seq(Bit) /\ RunBytes(op) \in Nat /\ ~op.whole /\ ~op.aligned
  BY <1>4, <1>5, <1>6
<1>10. OpOK(op)
  BY <1>5, <1>6, <1>7, <1>8, <1>9, Zenon DEF OpOK
<1> QED BY <1>5, <1>9, <1>10, Zenon DEF op

-----------------------------------------------------------------------------
(***************************************************************************)
(* The pieces of an operation at a position.                               *)
(***************************************************************************)
LEMMA EncodingFacts ==
  ASSUME NEW op, OpOK(op), NEW pos \in Nat
  PROVE  /\ PadBits(op, pos) \in 0..ByteBits-1
         /\ Len(op.field) \in Nat
         /\ RunStart(op, pos) = Len(op.field) + PadBits(op, pos)
         /\ RunStart(op, pos) \in Nat
         /\ Encoding(op, pos) \in Seq(Bit)
         /\ Len(Encoding(op, pos)) = RunStart(op, pos) + RunBytes(op) * ByteBits
         /\ ~op.aligned /\ op.bytes = <<>> =>
              Len(Encoding(op, pos)) = Len(op.field) /\ Encoding(op, pos) = op.field
<1>1. /\ op.field \in Seq(Bit) /\ op.bytes \in Seq(Bit) /\ Len(op.field) \in Nat
      /\ Len(op.bytes) = RunBytes(op) * ByteBits
  BY DEF OpOK
<1>2. AlignPad(pos + Len(op.field)) \in 0..ByteBits-1
  <2>1. pos + Len(op.field) \in Nat
    BY <1>1
  <2> QED BY <2>1, RoundUpBytes
<1>3. PadBits(op, pos) \in 0..ByteBits-1
  BY <1>2, GeometryAssumption DEF PadBits
<1> DEFINE pad == PadBits(op, pos)
<1>4. Zeros(pad) \in Seq(Bit) /\ Len(Zeros(pad)) = pad
  BY <1>3 DEF Zeros, Bit
<1>5. /\ Encoding(op, pos) \in Seq(Bit)
      /\ Len(Encoding(op, pos)) = Len(op.field) + pad + Len(op.bytes)
  <2> DEFINE z == Zeros(pad)
  <2>1. z \in Seq(Bit) /\ Len(z) = pad
    BY <1>4
  <2> HIDE DEF z
  <2>2. /\ op.field \o z \in Seq(Bit)
        /\ Len(op.field \o z) = Len(op.field) + pad
    BY <2>1, <1>1
  <2>0. op.bytes \in Seq(Bit)
    BY <1>1
  <2> DEFINE prefix == op.field \o z
  <2>3. prefix \in Seq(Bit) /\ Len(prefix) = Len(op.field) + pad
    BY <2>2
  <2> HIDE DEF prefix
  <2>4. /\ prefix \o op.bytes \in Seq(Bit)
        /\ Len(prefix \o op.bytes) = Len(prefix) + Len(op.bytes)
    BY <2>3, <2>0, Concatenation, Zenon
  <2> QED BY <2>3, <2>4 DEF Encoding, z, prefix
<1>6. ASSUME ~op.aligned, op.bytes = <<>>
      PROVE  Len(Encoding(op, pos)) = Len(op.field) /\ Encoding(op, pos) = op.field
  <2>1. pad = 0
    BY <1>6 DEF PadBits
  <2> DEFINE z == Zeros(pad)
  <2>2. z = <<>>
    BY <2>1 DEF Zeros
  <2> HIDE DEF z
  <2>3. op.field \o z \o op.bytes = op.field
    BY <2>2, <1>6, <1>1
  <2> QED BY <2>3 DEF Encoding, z
<1>7. RunStart(op, pos) = Len(op.field) + pad
  BY DEF RunStart
<1> HIDE DEF pad
<1>8. RunStart(op, pos) \in Nat
  BY <1>1, <1>3, <1>7, GeometryAssumption DEF pad
<1>9. Len(Encoding(op, pos)) = RunStart(op, pos) + RunBytes(op) * ByteBits
  BY <1>1, <1>5, <1>7, <1>8
<1> QED BY <1>1, <1>3, <1>5, <1>6, <1>7, <1>8, <1>9 DEF pad

(***************************************************************************)
(* The head, the block and the tail of a byte run make up the run, and the *)
(* block starts at a word boundary.                                        *)
(***************************************************************************)
LEMMA RunFacts ==
  ASSUME NEW op, OpOK(op), NEW pos \in Nat
  PROVE  LET h == HeadBytes(op, pos)
             w == BlockWords(op, pos)
             n == RunBytes(op)
         IN  /\ h \in 0..n /\ w \in Nat /\ n \in Nat
             /\ n - h - w * WordBytes \in Nat
             /\ BlockFrom(op, pos) = RunStart(op, pos) + h * ByteBits
             /\ BlockTo(op, pos) = BlockFrom(op, pos) + w * WordBits
             /\ BlockFrom(op, pos) \in Nat /\ BlockTo(op, pos) \in Nat
             /\ RunStart(op, pos) <= BlockFrom(op, pos)
             /\ BlockFrom(op, pos) <= BlockTo(op, pos)
             /\ BlockTo(op, pos) + (n - h - w * WordBytes) * ByteBits
                  = Len(Encoding(op, pos))
             /\ w > 0 <=> BlockFrom(op, pos) < BlockTo(op, pos)
             /\ w > 0 => Pending(pos + BlockFrom(op, pos)) = 0
<1> DEFINE h == HeadBytes(op, pos)
           w == BlockWords(op, pos)
           n == RunBytes(op)
           rs == RunStart(op, pos)
           room == (WordBytes - (Pending(pos + rs) \div ByteBits)) % WordBytes
<1>0. /\ WordBytes \in Nat \ {0} /\ ByteBits \in Nat \ {0}
      /\ WordBits \in Nat \ {0} /\ WordBits = WordBytes * ByteBits
  BY GeometryAssumption, WordBitsType DEF WordBits
<1>1. n \in Nat /\ rs \in Nat /\ Len(Encoding(op, pos)) = rs + n * ByteBits
  BY EncodingFacts DEF OpOK
<1>2. room \in 0..WordBytes-1
  <2> HIDE DEF rs
  <2>1. pos + rs \in Nat
    BY <1>1
  <2>2. Pending(pos + rs) \in Nat
    BY <2>1, PositionSplit
  <2> DEFINE x == Pending(pos + rs) \div ByteBits
  <2>3. x \in Int
    BY <2>2, <1>0, ModRange
  <2> HIDE DEF x
  <2>4. WordBytes - x \in Int
    BY <2>3, <1>0
  <2>5. (WordBytes - x) % WordBytes \in 0..WordBytes-1
    BY <2>4, <1>0, ModRange
  <2> QED BY <2>5 DEF x
<1>3. h = IF room <= n THEN room ELSE n
  BY DEF HeadBytes
<1> HIDE DEF room
<1>4. h \in 0..n
  BY <1>1, <1>2, <1>3, <1>0
<1> HIDE DEF h
<1>5. w = (n - h) \div WordBytes
  BY DEF BlockWords, h
<1> HIDE DEF w, n, rs
<1>6. w \in Nat /\ w * WordBytes <= n - h
  <2>1. n - h \in Nat
    BY <1>1, <1>4
  <2> DEFINE k == n - h
             r == k % WordBytes
  <2>2. k \in Nat
    BY <2>1
  <2>3. w = k \div WordBytes
    BY <1>5
  <2> HIDE DEF k
  <2>4. w \in Nat /\ r \in 0..WordBytes-1 /\ k = w * WordBytes + r
    BY <2>2, <2>3, <1>0, DivMod
  <2> HIDE DEF r
  <2>5. w * WordBytes <= k
    BY <2>4, <1>0, <2>2
  <2> QED BY <2>4, <2>5 DEF k
<1>7. w * WordBytes \in Nat /\ n - h - w * WordBytes \in Nat
  BY <1>0, <1>1, <1>4, <1>6
<1>8. /\ BlockFrom(op, pos) = rs + h * ByteBits
      /\ BlockTo(op, pos) = BlockFrom(op, pos) + w * WordBits
  BY DEF BlockFrom, BlockTo, h, w, rs
<1>9. h * ByteBits \in Nat /\ w * WordBits \in Nat
  BY <1>0, <1>1, <1>4, <1>6
<1>10. BlockTo(op, pos) + (n - h - w * WordBytes) * ByteBits = Len(Encoding(op, pos))
  <2>1. (n - h - w * WordBytes) * ByteBits
          = n * ByteBits - h * ByteBits - (w * WordBytes) * ByteBits
    BY <1>0, <1>1, <1>4, <1>6
  <2>2. (w * WordBytes) * ByteBits = w * WordBits
    BY <1>6, WordsOfBytes
  <2>3. n * ByteBits \in Int
    BY <1>0, <1>1
  <2> QED BY <2>1, <2>2, <2>3, <1>1, <1>8, <1>9
<1>11. w > 0 <=> BlockFrom(op, pos) < BlockTo(op, pos)
  <2>1. w > 0 <=> 0 * WordBits < w * WordBits
    BY <1>0, <1>6, Products
  <2> QED BY <2>1, <1>0, <1>1, <1>8, <1>9
<1>12. ASSUME w > 0 PROVE Pending(pos + BlockFrom(op, pos)) = 0
  <2>1. h = room
    <3>1. 1 * WordBytes <= w * WordBytes
      BY <1>0, <1>6, <1>12, Products
    <3>2. h < n
      BY <3>1, <1>0, <1>1, <1>4, <1>6
    <3> QED BY <3>2, <1>2, <1>3, <1>1
  <2>2. op.aligned
    <3>1. n > 0
      BY <1>0, <1>1, <1>4, <1>6, <1>7, <1>12, Products
    <3>2. n * ByteBits > 0 * ByteBits
      BY <3>1, <1>0, <1>1, Products
    <3>3. Len(op.bytes) > 0
      BY <3>2, <1>0 DEF OpOK, n
    <3> QED BY <3>3 DEF OpOK
  <2>3. \E m \in Nat : pos + rs = m * ByteBits
    <3>1. pos + Len(op.field) \in Nat
      BY EncodingFacts
    <3>2. rs = Len(op.field) + AlignPad(pos + Len(op.field))
      BY <2>2 DEF RunStart, PadBits, rs
    <3>3. pos + rs = RoundUp(pos + Len(op.field))
      <4>1. AlignPad(pos + Len(op.field)) \in Nat /\ Len(op.field) \in Nat
        <5>1. AlignPad(pos + Len(op.field)) \in 0..ByteBits-1
          BY <3>1, RoundUpBytes
        <5>2. Len(op.field) \in Nat
          BY EncodingFacts
        <5> QED BY <5>1, <5>2, <1>0
      <4> QED BY <4>1, <3>2 DEF RoundUp
    <3> QED BY <3>1, <3>3, RoundUpBytes
  <2>4. PICK m \in Nat : pos + rs = m * ByteBits
    BY <2>3
  <2>5. room \in Nat /\ Pending(pos + rs + room * ByteBits) = 0
    BY <2>4, HeadReachesWord DEF room
  <2>6. pos + BlockFrom(op, pos) = pos + rs + room * ByteBits
    BY <2>1, <1>0, <1>1, <1>8, <1>9, <2>5
  <2> QED BY <2>5, <2>6
<1>13. /\ BlockFrom(op, pos) \in Nat /\ BlockTo(op, pos) \in Nat
       /\ rs <= BlockFrom(op, pos) /\ BlockFrom(op, pos) <= BlockTo(op, pos)
  BY <1>1, <1>8, <1>9
<1> QED BY <1>1, <1>4, <1>6, <1>7, <1>8, <1>10, <1>11, <1>12, <1>13, Zenon DEF h, w, n, rs

(***************************************************************************)
(* A piece that is not the block copy is at most a word wide, whatever the *)
(* position: the shifts of tryWriteBits64 stay in range.                   *)
(***************************************************************************)
LEMMA CutFacts ==
  ASSUME NEW op, OpOK(op), NEW pos \in Nat
  PROVE  /\ Cuts(op, pos) \subseteq 1..Len(Encoding(op, pos))
         /\ \A a \in Cuts(op, pos) \cup {0}, c \in Cuts(op, pos) :
              a < c /\ (\A d \in Cuts(op, pos) : d > a => c <= d) =>
                \/ c - a <= WordBits
                \/ /\ a = BlockFrom(op, pos) /\ c = BlockTo(op, pos)
                   /\ BlockWords(op, pos) > 0
<1> DEFINE h == HeadBytes(op, pos)
           w == BlockWords(op, pos)
           t == RunBytes(op) - h - w * WordBytes
           rs == RunStart(op, pos)
           from == BlockFrom(op, pos)
           to == BlockTo(op, pos)
           len == Len(Encoding(op, pos))
           cuts == Cuts(op, pos)
           heads == {rs + i * ByteBits : i \in 1..h}
           tails == {to + i * ByteBits : i \in 1..t}
<1>1. cuts = op.split \cup ({rs, to} \cap 1..len) \cup heads \cup tails
  BY DEF Cuts
<1>2. /\ ByteBits \in Nat \ {0} /\ WordBits \in Nat \ {0} /\ ByteBits <= WordBits
      /\ Len(op.field) \in Nat /\ rs \in Nat
      /\ rs = Len(op.field) + PadBits(op, pos) /\ PadBits(op, pos) \in 0..ByteBits-1
  BY EncodingFacts, WordBitsType, GeometryAssumption
<1>3. /\ h \in Nat /\ t \in Nat /\ w \in Nat /\ from \in Nat /\ to \in Nat
      /\ from = rs + h * ByteBits
      /\ rs <= from /\ from <= to /\ to + t * ByteBits = len
      /\ w > 0 <=> from < to
  BY RunFacts
<1>4. op.split \subseteq 1..Len(op.field) /\ Len(op.field) \in op.split \cup {0}
  BY DEF OpOK
<1> HIDE DEF h, w, t, rs, from, to, len, cuts
(* The byte boundaries of a run of k bytes from a position. *)
<1>5. ASSUME NEW base \in Nat, NEW k \in Nat, NEW i \in 1..k
      PROVE  /\ base + i * ByteBits \in base + ByteBits..base + k * ByteBits
             /\ i = 1 => (base + i * ByteBits) - ByteBits = base
             /\ i # 1 => (base + i * ByteBits) - ByteBits = base + (i - 1) * ByteBits
  <2>1. 1 * ByteBits <= i * ByteBits /\ i * ByteBits <= k * ByteBits /\ i * ByteBits \in Int
    BY <1>2, Products
  <2>2. k * ByteBits \in Int /\ (i - 1) * ByteBits = i * ByteBits - ByteBits
    BY <1>2
  <2>3. i = 1 => i * ByteBits = ByteBits
    BY <1>2
  <2> QED BY <2>1, <2>2, <2>3, <1>2
<1>6. ASSUME NEW c \in heads
      PROVE  c \in rs + ByteBits..from /\ (c - ByteBits = rs \/ c - ByteBits \in heads)
  <2>1. PICK i \in 1..h : c = rs + i * ByteBits
    OBVIOUS
  <2> DEFINE x == rs + i * ByteBits
             y == rs + (i - 1) * ByteBits
             top == rs + h * ByteBits
  <2>2. i # 1 => y \in heads
    <3>1. i # 1 => i - 1 \in 1..h
      BY <1>3
    <3> QED BY <3>1
  <2> HIDE DEF heads, tails
  <2>3. x \in rs + ByteBits..top /\ (i = 1 => x - ByteBits = rs) /\ (i # 1 => x - ByteBits = y)
    <3>1. rs \in Nat /\ h \in Nat /\ i \in 1..h
      BY <1>2, <1>3
    <3> QED BY <3>1, <1>5, Zenon
  <2>4. c = x /\ top = from
    BY <2>1, <1>3
  <2> HIDE DEF x, y, top
  <2> QED BY <2>2, <2>3, <2>4
<1>7. ASSUME NEW c \in tails
      PROVE  c \in to + ByteBits..len /\ (c - ByteBits = to \/ c - ByteBits \in tails)
  <2>1. PICK i \in 1..t : c = to + i * ByteBits
    OBVIOUS
  <2>2. i # 1 => to + (i - 1) * ByteBits \in tails
    <3>1. i # 1 => i - 1 \in 1..t
      BY <1>3
    <3> QED BY <3>1
  <2> HIDE DEF tails
  <2>3. /\ c \in to + ByteBits..to + t * ByteBits
        /\ i = 1 => c - ByteBits = to
        /\ i # 1 => c - ByteBits = to + (i - 1) * ByteBits
    BY <2>1, <1>2, <1>3, <1>5
  <2> QED BY <2>2, <2>3, <1>3
<1>8. from = rs \/ from \in heads
  <2>1. h = 0 => h * ByteBits = 0
    BY <1>2
  <2>2. h # 0 => h \in 1..h
    BY <1>3
  <2> QED BY <2>1, <2>2, <1>2, <1>3
(* The boundaries in their order. *)
<1>9. /\ Len(op.field) \in Nat /\ rs \in Nat /\ from \in Nat /\ to \in Nat /\ len \in Nat
      /\ Len(op.field) <= rs /\ rs <= from /\ from <= to /\ to <= len
  <2>1. t * ByteBits \in Nat
    BY <1>2, <1>3
  <2>2. Len(op.field) <= rs
    BY <1>2
  <2>3. to <= len /\ len \in Nat
    BY <2>1, <1>3
  <2> QED BY <2>2, <2>3, <1>2, <1>3
<1> HIDE DEF heads, tails
<1>10. cuts \subseteq 1..len
  <2>1. rs <= len /\ from <= len /\ Len(op.field) <= len
    BY <1>9
  <2>2. op.split \subseteq 1..len
    BY <2>1, <1>4, <1>9
  <2>3. heads \subseteq 1..len
    <3> SUFFICES ASSUME NEW c \in heads PROVE c \in 1..len
      OBVIOUS
    <3>1. c \in rs + ByteBits..from
      BY <1>6
    <3>2. /\ rs \in Nat /\ ByteBits \in Nat \ {0} /\ from \in Nat /\ len \in Nat
          /\ from <= len
      BY <1>2, <1>9
    <3> QED BY <3>1, <3>2
  <2>4. tails \subseteq 1..len
    <3> SUFFICES ASSUME NEW c \in tails PROVE c \in 1..len
      OBVIOUS
    <3>1. c \in to + ByteBits..len
      BY <1>7
    <3>2. to \in Nat /\ ByteBits \in Nat \ {0} /\ len \in Nat
      BY <1>2, <1>9
    <3> QED BY <3>1, <3>2
  <2> QED BY <2>2, <2>3, <2>4, <1>1
<1>11. rs \in cuts \cup {0} /\ to \in cuts \cup {0} /\ from \in cuts \cup {0}
  <2>1. rs \in 0..len /\ to \in 0..len
    BY <1>9
  <2>2. rs \in cuts \cup {0} /\ to \in cuts \cup {0}
    BY <2>1, <1>1
  <2> QED BY <2>2, <1>1, <1>8
<1>12. ASSUME NEW d \in cuts PROVE d <= from \/ d >= to
  <2>1. CASE d \in op.split
    <3>1. d \in 1..Len(op.field)
      BY <2>1, <1>4
    <3> QED BY <3>1, <1>9
  <2>2. CASE d \in heads
    <3>1. d \in rs + ByteBits..from
      BY <2>2, <1>6
    <3> QED BY <3>1, <1>2, <1>9
  <2>3. CASE d \in tails
    <3>1. d \in to + ByteBits..len
      BY <2>3, <1>7
    <3> QED BY <3>1, <1>2, <1>9
  <2>4. CASE d = rs \/ d = to
    BY <2>4, <1>9
  <2> QED BY <2>1, <2>2, <2>3, <2>4, <1>1
<1>13. ASSUME NEW a \in cuts \cup {0}, NEW c \in cuts, a < c,
              \A d \in cuts : d > a => c <= d
       PROVE  c - a <= WordBits \/ (a = from /\ c = to /\ w > 0)
  <2>1. a \in Nat /\ c \in Nat /\ c > 0
    BY <1>9, <1>10
  <2>2. SUFFICES ASSUME c - a > WordBits
                 PROVE  a = from /\ c = to /\ w > 0
    BY <2>1, <1>2
  <2>3. ASSUME NEW b \in cuts \cup {0}, b < c PROVE b <= a
    <3>1. b \in Nat
      BY <1>9, <1>10
    <3> QED BY <3>1, <2>1, <2>3, <1>13
  <2>4. ASSUME NEW b \in cuts \cup {0}, b < c, c - b <= WordBits PROVE FALSE
    <3>1. b <= a /\ b \in Nat
      BY <2>3, <2>4, <1>9, <1>10
    <3> QED BY <3>1, <2>1, <2>2, <2>4, <1>2
  <2>5. c \notin op.split
    <3>1. SUFFICES ASSUME c \in op.split PROVE FALSE
      OBVIOUS
    <3>2. PICK b \in op.split \cup {0} : b < c /\ c - b <= WordBits
      BY <3>1 DEF OpOK
    <3>3. b \in cuts \cup {0}
      BY <1>1
    <3> QED BY <3>2, <3>3, <2>4
  <2>6. c # rs
    <3>1. SUFFICES ASSUME c = rs PROVE FALSE
      OBVIOUS
    <3>2. Len(op.field) \in cuts \cup {0} /\ Len(op.field) # c
      BY <2>1, <2>5, <1>1, <1>4
    <3>3. Len(op.field) < c /\ c - Len(op.field) <= WordBits
      BY <3>1, <3>2, <1>2
    <3> QED BY <3>2, <3>3, <2>4
  <2>7. c \notin heads
    <3>1. SUFFICES ASSUME c \in heads PROVE FALSE
      OBVIOUS
    <3>2. c - ByteBits \in cuts \cup {0}
      BY <3>1, <1>1, <1>6, <1>11
    <3>3. c - ByteBits < c /\ c - (c - ByteBits) <= WordBits
      BY <2>1, <1>2
    <3> QED BY <3>2, <3>3, <2>4
  <2>8. c \notin tails
    <3>1. SUFFICES ASSUME c \in tails PROVE FALSE
      OBVIOUS
    <3>2. c - ByteBits \in cuts \cup {0}
      BY <3>1, <1>1, <1>7, <1>11
    <3>3. c - ByteBits < c /\ c - (c - ByteBits) <= WordBits
      BY <2>1, <1>2
    <3> QED BY <3>2, <3>3, <2>4
  <2>9. c = to
    BY <2>5, <2>6, <2>7, <2>8, <1>1
  <2>10. from < to
    BY <2>6, <2>7, <2>9, <1>3, <1>8
  <2>11. from <= a
    BY <2>3, <2>9, <2>10, <1>11
  <2>12. a <= from
    <3>1. a = 0 => a <= from
      BY <1>3
    <3>2. a \in cuts => a <= from
      BY <1>12, <2>1, <2>9, <1>3, <1>13
    <3> QED BY <3>1, <3>2
  <2> QED BY <2>1, <2>9, <2>10, <2>11, <2>12, <1>3
<1> QED BY <1>10, <1>13 DEF w, from, to, len, cuts

-----------------------------------------------------------------------------
(***************************************************************************)
(* What the invariant says of the variables, in the form the steps use it. *)
(***************************************************************************)
LEMMA StateFacts ==
  ASSUME IInv
  PROVE  /\ \E words \in Nat : words \in Buffers /\ numBits = words * WordBits
         /\ numBits \in Nat /\ bitsWritten \in Nat /\ bitsWritten <= numBits
         /\ data \in [0..numBits-1 -> Bit \cup {Old}]
         /\ scratch \in Word
         /\ Pending(bitsWritten) \in 0..WordBits-1
         /\ WordBase(bitsWritten) \in 0..bitsWritten
         /\ bitsWritten = WordBase(bitsWritten) + Pending(bitsWritten)
         /\ WordBits \in Nat \ {0}
         /\ call.start \in Nat /\ call.start <= bitsWritten
         /\ OpOK(call.op)
         /\ call.op \in CheckedOps \/ call.op \in RelOps
         /\ At \in Nat /\ bitsWritten = call.start + At
<1>1. /\ numBits \in {n * WordBits : n \in Buffers}
      /\ bitsWritten \in 0..numBits
      /\ data \in [0..numBits-1 -> Bit \cup {Old}] /\ scratch \in Word
      /\ call.start \in 0..bitsWritten
      /\ call.op \in CheckedOps \cup RelOps
  BY DEF IInv, TypeOK
<1>2. \E words \in Nat : words \in Buffers /\ numBits = words * WordBits
  BY <1>1, BuffersAssumption
<1>3. numBits \in Nat /\ bitsWritten \in Nat /\ bitsWritten <= numBits
  BY <1>1, <1>2, WordBitsType
<1>4. OpOK(call.op)
  BY <1>1, CheckedOpsOK, RelOpsOK, Zenon
<1>5. /\ Pending(bitsWritten) \in 0..WordBits-1
      /\ WordBase(bitsWritten) \in 0..bitsWritten
      /\ bitsWritten = WordBase(bitsWritten) + Pending(bitsWritten)
  BY <1>3, PositionSplit
<1>6. /\ At \in Nat /\ bitsWritten = call.start + At
      /\ call.start \in Nat /\ call.start <= bitsWritten
  BY <1>1, <1>3 DEF At
<1>7. call.op \in CheckedOps \/ call.op \in RelOps
  BY <1>1
<1> QED BY <1>1, <1>2, <1>3, <1>4, <1>5, <1>6, <1>7, WordBitsType

(***************************************************************************)
(* tryWriteBits64 appends the low bits of its value, keeps every bit       *)
(* written before, and keeps the scratch clean and the rest of the buffer  *)
(* as it was: with the spill into a new word or without.                   *)
(***************************************************************************)
LEMMA PutEffect ==
  ASSUME IInv, numBits' = numBits,
         NEW word \in Word, NEW n \in 1..WordBits,
         \A i \in 0..WordBits-1 : i >= n => word[i] = 0,
         tryWriteBits64(word, n)
  PROVE  /\ bitsWritten' = bitsWritten + n
         /\ bitsWritten' \in 0..numBits
         /\ data' \in [0..numBits-1 -> Bit \cup {Old}]
         /\ scratch' \in Word
         /\ ScratchClean' /\ PastEndZero' /\ WordsWritten'
         /\ \A p \in 0..bitsWritten-1 : BitAt(p)' = BitAt(p)
         /\ \A p \in bitsWritten..bitsWritten+n-1 : BitAt(p)' = word[p - bitsWritten]
<1> DEFINE bw == bitsWritten
           sb == Pending(bw)
           base == WordBase(bw)
           filled == Or(scratch, Shl(word, sb))
           carry == Shr(word, WordBits - sb)
<1>1. /\ numBits \in Nat /\ bw \in Nat /\ data \in [0..numBits-1 -> Bit \cup {Old}]
      /\ scratch \in Word /\ sb \in 0..WordBits-1 /\ base \in 0..bw /\ bw = base + sb
      /\ WordBits \in Nat \ {0}
  BY StateFacts
<1>2. /\ bitsWritten' = bw + n /\ bw + n <= numBits
      /\ scratch' = IF sb + n >= WordBits THEN carry ELSE filled
      /\ data' = IF sb + n >= WordBits THEN StoreWord(data, base, filled) ELSE data
  BY DEF tryWriteBits64, Room
<1>3. /\ \A i \in 0..WordBits-1 : i >= sb => scratch[i] = 0
      /\ \A p \in bw..numBits-1 : data[p] \in {0, Old}
      /\ \A p \in 0..base-1 : data[p] \in Bit
  BY DEF IInv, ScratchClean, PastEndZero, WordsWritten
<1>4. /\ filled \in Word /\ carry \in Word
      /\ \A i \in 0..sb-1 : filled[i] = scratch[i]
      /\ \A i \in sb..WordBits-1 : filled[i] = word[i-sb]
      /\ \A i \in 0..WordBits-1 : carry[i] = IF i < sb THEN word[i + WordBits - sb] ELSE 0
  <2> HIDE DEF sb
  <2>1. scratch \in Word /\ word \in Word /\ sb \in 0..WordBits-1
    BY <1>1
  <2>2. \A i \in 0..WordBits-1 : i >= sb => scratch[i] = 0
    BY <1>3
  <2>3. filled = Or(scratch, Shl(word, sb)) /\ carry = Shr(word, WordBits - sb)
    OBVIOUS
  <2> HIDE DEF filled, carry
  <2> QED BY <2>1, <2>2, <2>3, Fill, SMTT(30)
<1>5. \A p : /\ BitAt(p) = IF p < base THEN data[p] ELSE scratch[p - base]
             /\ BitAt(p)' = IF p < WordBase(bw + n) THEN data'[p]
                                                     ELSE scratch'[p - WordBase(bw + n)]
  BY <1>2 DEF BitAt
<1>6. /\ ScratchClean' <=> \A i \in 0..WordBits-1 : i >= Pending(bw + n) => scratch'[i] = 0
      /\ PastEndZero' <=> \A p \in bw + n..numBits-1 : data'[p] \in {0, Old}
      /\ WordsWritten' <=> \A p \in 0..WordBase(bw + n)-1 : data'[p] \in Bit
  BY <1>2 DEF ScratchClean, PastEndZero, WordsWritten
<1>7. bitsWritten' \in 0..numBits
  BY <1>1, <1>2
<1>8. CASE sb + n < WordBits
  <2>1. Pending(bw + n) = sb + n /\ WordBase(bw + n) = base
    BY <1>1, <1>8, PositionStay
  <2>2. scratch' = filled /\ data' = data
    BY <1>1, <1>2, <1>8
  <2> HIDE DEF sb, base, filled, carry, bw
  <2>3. ScratchClean'
    <3> SUFFICES ASSUME NEW i \in 0..WordBits-1, i >= sb + n PROVE filled[i] = 0
      BY <1>6, <2>1, <2>2
    <3>1. filled[i] = word[i - sb]
      BY <1>1, <1>4
    <3>2. i - sb \in 0..WordBits-1 /\ i - sb >= n
      BY <1>1
    <3> QED BY <3>1, <3>2
  <2>4. PastEndZero' /\ WordsWritten'
    BY <1>1, <1>3, <1>6, <2>1, <2>2
  <2>5. \A p \in 0..bw-1 : BitAt(p)' = BitAt(p)
    BY <1>1, <1>4, <1>5, <2>1, <2>2
  <2>6. \A p \in bw..bw+n-1 : BitAt(p)' = word[p - bw]
    <3> TAKE p \in bw..bw+n-1
    <3>1. BitAt(p)' = filled[p - base]
      BY <1>1, <1>5, <2>1, <2>2
    <3>2. p - base \in sb..WordBits-1 /\ (p - base) - sb = p - bw
      BY <1>1, <1>8
    <3>3. filled[p - base] = word[(p - base) - sb]
      BY <3>2, <1>4
    <3> QED BY <3>1, <3>2, <3>3
  <2> QED BY <1>1, <1>2, <1>4, <1>7, <2>2, <2>3, <2>4, <2>5, <2>6 DEF bw
<1>9. CASE sb + n >= WordBits
  <2>1. Pending(bw + n) = sb + n - WordBits /\ WordBase(bw + n) = base + WordBits
    <3>1. n \in 0..WordBits
      OBVIOUS
    <3> QED BY <3>1, <1>1, <1>9, PositionSpill
  <2>2. scratch' = carry /\ data' = StoreWord(data, base, filled)
    BY <1>2, <1>9
  <2>3. base + WordBits <= bw + n
    BY <1>1, <1>9
  <2> HIDE DEF sb, base, filled, carry, bw
  <2>4. /\ data' \in [0..numBits-1 -> Bit \cup {Old}]
        /\ \A p \in 0..numBits-1 :
             data'[p] = IF p \in base..base+WordBits-1 THEN filled[p - base] ELSE data[p]
    <3>1. base \in Nat
      BY <1>1
    <3>2. data \in [0..numBits-1 -> Bit \cup {Old}] /\ numBits \in Nat /\ filled \in Word
      BY <1>1, <1>4
    <3>3. StoreWord(data, base, filled) =
            [a \in 0..numBits-1 |->
               IF a \in base..base+WordBits-1 THEN filled[a - base] ELSE data[a]]
      BY <3>2 DEF StoreWord
    <3>4. \A a \in 0..numBits-1 : a \in base..base+WordBits-1 => filled[a - base] \in Bit
      BY <3>1, <3>2, WordBitsType DEF Word
    <3> QED BY <2>2, <3>2, <3>3, <3>4
  <2>5. ScratchClean'
    <3> SUFFICES ASSUME NEW i \in 0..WordBits-1, i >= sb + n - WordBits
                 PROVE  carry[i] = 0
      BY <1>6, <2>1, <2>2
    <3>1. i < sb => i + WordBits - sb \in 0..WordBits-1 /\ i + WordBits - sb >= n
      BY <1>1
    <3> QED BY <3>1, <1>4
  <2>6. PastEndZero'
    <3> SUFFICES ASSUME NEW p \in bw + n..numBits-1 PROVE data'[p] \in {0, Old}
      BY <1>6
    <3>1. p \in 0..numBits-1 /\ p \in bw..numBits-1 /\ p \notin base..base+WordBits-1
      BY <1>1, <2>3
    <3> QED BY <3>1, <2>4, <1>3
  <2>7. WordsWritten'
    <3> SUFFICES ASSUME NEW p \in 0..base + WordBits - 1 PROVE data'[p] \in Bit
      BY <1>6, <2>1, <1>1
    <3>1. p \in 0..numBits-1
      BY <1>1, <1>2, <2>3
    <3>2. CASE p < base
      BY <3>1, <3>2, <2>4, <1>1, <1>3
    <3>3. CASE p >= base
      <4>1. p \in base..base+WordBits-1 /\ p - base \in 0..WordBits-1
        BY <3>3, <1>1
      <4> QED BY <4>1, <3>1, <2>4, <1>4 DEF Word
    <3> QED BY <3>2, <3>3, <1>1
  <2>8. \A p \in 0..bw-1 : BitAt(p)' = BitAt(p)
    <3> TAKE p \in 0..bw-1
    <3>1. p \in 0..numBits-1 /\ p < base + WordBits
      BY <1>1, <1>2
    <3>2. BitAt(p)' = data'[p]
      BY <3>1, <1>5, <2>1
    <3>3. CASE p < base
      BY <3>1, <3>2, <3>3, <2>4, <1>1, <1>5
    <3>4. CASE p >= base
      <4>1. p \in base..base+WordBits-1 /\ p - base \in 0..sb-1
        BY <3>4, <1>1
      <4> QED BY <4>1, <3>1, <3>2, <3>4, <2>4, <1>1, <1>4, <1>5
    <3> QED BY <3>3, <3>4, <1>1
  <2>9. \A p \in bw..bw+n-1 : BitAt(p)' = word[p - bw]
    <3> TAKE p \in bw..bw+n-1
    <3>1. CASE p < base + WordBits
      <4>1. /\ p \in 0..numBits-1 /\ p \in base..base+WordBits-1
            /\ p - base \in sb..WordBits-1 /\ (p - base) - sb = p - bw
        BY <3>1, <1>1, <1>2
      <4>2. BitAt(p)' = data'[p]
        BY <3>1, <1>5, <2>1
      <4>3. data'[p] = filled[p - base]
        BY <4>1, <2>4
      <4>4. filled[p - base] = word[p - bw]
        BY <4>1, <1>4
      <4> QED BY <4>2, <4>3, <4>4
    <3>2. CASE p >= base + WordBits
      <4> DEFINE j == p - (base + WordBits)
      <4>1. /\ ~(p < base + WordBits) /\ j \in 0..WordBits-1 /\ j < sb
            /\ j + WordBits - sb = p - bw
        BY <3>2, <1>1
      <4>2. BitAt(p)' = scratch'[j]
        BY <4>1, <1>5, <2>1
      <4> HIDE DEF j
      <4>3. carry[j] = word[p - bw]
        BY <4>1, <1>4
      <4> QED BY <4>2, <4>3, <2>2
    <3> QED BY <3>1, <3>2, <1>1
  <2> QED BY <1>2, <1>4, <1>7, <2>2, <2>4, <2>5, <2>6, <2>7, <2>8, <2>9 DEF bw
<1> QED BY <1>1, <1>8, <1>9

(***************************************************************************)
(* The block copy, at a word boundary and of whole words, appends its bits *)
(* to the buffer and leaves the empty scratch pending.                     *)
(***************************************************************************)
LEMMA CopyEffect ==
  ASSUME IInv, numBits' = numBits, scratch' = scratch,
         Pending(bitsWritten) = 0,
         NEW words \in Nat, NEW s \in Seq(Bit), Len(s) = words * WordBits,
         bitsWritten + Len(s) <= numBits,
         data' = CopyBits(data, bitsWritten, s),
         bitsWritten' = bitsWritten + Len(s)
  PROVE  /\ bitsWritten' \in 0..numBits
         /\ data' \in [0..numBits-1 -> Bit \cup {Old}]
         /\ ScratchClean' /\ PastEndZero' /\ WordsWritten'
         /\ \A p \in 0..bitsWritten-1 : BitAt(p)' = BitAt(p)
         /\ \A p \in bitsWritten..bitsWritten+Len(s)-1 :
              BitAt(p)' = s[(p - bitsWritten) + 1]
<1> DEFINE bw == bitsWritten
           n == Len(s)
<1>1. /\ numBits \in Nat /\ bw \in Nat /\ data \in [0..numBits-1 -> Bit \cup {Old}]
      /\ scratch \in Word /\ WordBits \in Nat \ {0}
  BY StateFacts
<1>2. n \in Nat /\ bw + n <= numBits /\ bitsWritten' = bw + n
  OBVIOUS
<1>3. /\ \A i \in 0..WordBits-1 : scratch[i] = 0
      /\ \A p \in bw..numBits-1 : data[p] \in {0, Old}
      /\ \A p \in 0..bw-1 : data[p] \in Bit
      /\ WordBase(bw) = bw
  <2>1. bw = WordBase(bw) + Pending(bw) /\ WordBase(bw) \in 0..bw
    BY StateFacts
  <2>2. WordBase(bw) = bw
    BY <2>1, <1>1
  <2> QED BY <2>2, <1>1 DEF IInv, ScratchClean, PastEndZero, WordsWritten
<1>4. Pending(bw + n) = 0 /\ WordBase(bw + n) = bw + n
  <2>1. Pending(bw + n) = 0
    BY <1>1, PositionWords
  <2>2. bw + n \in Nat
    BY <1>1, <1>2
  <2>3. bw + n = WordBase(bw + n) + Pending(bw + n) /\ WordBase(bw + n) \in 0..bw + n
    BY <2>2, PositionSplit
  <2> QED BY <2>1, <2>2, <2>3
<1>5. /\ data' \in [0..numBits-1 -> Bit \cup {Old}]
      /\ \A p \in 0..numBits-1 :
           data'[p] = IF p \in bw..bw+n-1 THEN s[(p - bw) + 1] ELSE data[p]
  <2>1. data' = CopyBits(data, bw, s)
    OBVIOUS
  <2>2. numBits \in Nat /\ data \in [0..numBits-1 -> Bit \cup {Old}] /\ bw \in Nat
    BY <1>1
  <2> HIDE DEF bw
  <2>3. CopyBits(data, bw, s) =
          [a \in 0..numBits-1 |-> IF a \in bw..bw+Len(s)-1 THEN s[a-bw+1] ELSE data[a]]
    BY <2>2 DEF CopyBits
  <2>4. \A a \in 0..numBits-1 : a \in bw..bw+Len(s)-1 => a-bw+1 \in 1..Len(s)
    BY <2>2, <1>2
  <2>5. \A a \in 0..numBits-1 : a \in bw..bw+Len(s)-1 => s[a-bw+1] \in Bit
    BY <2>4
  <2> QED BY <2>1, <2>2, <2>3, <2>5
<1>6. \A p : /\ BitAt(p) = IF p < bw THEN data[p] ELSE scratch[p - bw]
             /\ BitAt(p)' = IF p < bw + n THEN data'[p] ELSE scratch'[p - (bw + n)]
  BY <1>2, <1>3, <1>4 DEF BitAt
<1>7. /\ ScratchClean' <=> \A i \in 0..WordBits-1 : i >= Pending(bw + n) => scratch'[i] = 0
      /\ PastEndZero' <=> \A p \in bw + n..numBits-1 : data'[p] \in {0, Old}
      /\ WordsWritten' <=> \A p \in 0..WordBase(bw + n)-1 : data'[p] \in Bit
  BY <1>2 DEF ScratchClean, PastEndZero, WordsWritten
<1>8. \A p \in bw..bw+n-1 : s[(p - bw) + 1] \in Bit
  BY <1>1, <1>2
<1> HIDE DEF bw, n
<1>9. bitsWritten' \in 0..numBits
  BY <1>1, <1>2
<1>10. ScratchClean'
  BY <1>3, <1>7
<1>11. PastEndZero'
  BY <1>1, <1>2, <1>3, <1>5, <1>7
<1>12. WordsWritten'
  <2> SUFFICES \A p \in 0..(bw + n) - 1 : data'[p] \in Bit
    BY <1>4, <1>7, Zenon
  <2> TAKE p \in 0..(bw + n) - 1
  <2>1. p \in 0..numBits-1
    BY <1>1, <1>2
  <2>2. p < bw => p \in 0..bw-1 /\ p \notin bw..bw+n-1
    BY <1>1
  <2>3. p >= bw => p \in bw..bw+n-1
    BY <1>1, <1>2
  <2>4. p < bw \/ p >= bw
    BY <1>1
  <2> QED BY <2>1, <2>2, <2>3, <2>4, <1>3, <1>5, <1>8
<1>13. \A p \in 0..bw-1 : BitAt(p)' = BitAt(p)
  <2> TAKE p \in 0..bw-1
  <2>1. p \in 0..numBits-1 /\ p < bw /\ p < bw + n /\ p \notin bw..bw+n-1
    BY <1>1, <1>2
  <2> QED BY <2>1, <1>5, <1>6
<1>14. \A p \in bw..bw+n-1 : BitAt(p)' = s[(p - bw) + 1]
  <2> TAKE p \in bw..bw+n-1
  <2>1. p \in 0..numBits-1 /\ p < bw + n
    BY <1>1, <1>2
  <2> QED BY <2>1, <1>5, <1>6
<1> QED BY <1>5, <1>9, <1>10, <1>11, <1>12, <1>13, <1>14 DEF bw, n

-----------------------------------------------------------------------------
(***************************************************************************)
(* The invariant is inductive.                                             *)
(***************************************************************************)
LEMMA InitIInv == Init => IInv
<1> SUFFICES ASSUME Init PROVE IInv
  OBVIOUS
<1>1. PICK words \in Buffers : numBits = words * WordBits
  BY DEF Init
<1>2. words \in Nat /\ numBits \in Nat /\ WordBits \in Nat \ {0}
  BY <1>1, BuffersAssumption, WordBitsType
<1>3. /\ bitsWritten = 0 /\ scratch = ZeroWord /\ call = Idle /\ last = "reset"
      /\ data = [a \in 0..numBits-1 |-> Old]
  BY DEF Init
<1>4. TypeOK
  <2>1. AlignOp \in CheckedOps
    BY DEF CheckedOps
  <2> QED BY <1>1, <1>2, <1>3, <2>1, ZeroWordType DEF TypeOK, Idle
<1>5. ScratchClean
  BY <1>3 DEF ScratchClean, ZeroWord
<1>6. PastEndZero
  BY <1>2, <1>3 DEF PastEndZero
<1>7. WordsWritten
  <2>1. WordBase(bitsWritten) \in 0..bitsWritten
    BY <1>3, PositionSplit
  <2> QED BY <2>1, <1>3 DEF WordsWritten
<1>8. CallSoFar /\ FlushedBytes
  BY <1>3, Zenon DEF CallSoFar, FlushedBytes, Idle
<1> QED BY <1>4, <1>5, <1>6, <1>7, <1>8 DEF IInv

(***************************************************************************)
(* Steps that leave the buffer, the scratch and the position alone.        *)
(***************************************************************************)
LEMMA BufferUnchanged ==
  ASSUME IInv, UNCHANGED <<data, scratch, numBits, bitsWritten>>
  PROVE  /\ ScratchClean' /\ PastEndZero' /\ WordsWritten'
         /\ \A p : BitAt(p)' = BitAt(p)
BY DEF IInv, ScratchClean, PastEndZero, WordsWritten, BitAt

(***************************************************************************)
(* A piece written by tryWriteBits64 keeps the invariant and the bits      *)
(* written before it.                                                      *)
(***************************************************************************)
LEMMA WritePieceIInv ==
  ASSUME IInv, WritePiece
  PROVE  IInv' /\ \A p \in 0..bitsWritten-1 : BitAt(p)' = BitAt(p)
<1>1. PICK c \in Cuts(call.op, call.start) :
        NextCut(c) /\ ~IsBlock(c) /\ tryWriteBits64(Value(c), c - At)
  BY DEF WritePiece
<1>2. call.busy /\ UNCHANGED <<numBits, call, last>>
  BY DEF WritePiece
<1> DEFINE n == c - At
           op == call.op
           pos == call.start
<1>3. /\ OpOK(op) /\ pos \in Nat /\ At \in Nat /\ bitsWritten = pos + At
      /\ bitsWritten \in Nat /\ numBits \in Nat /\ WordBits \in Nat \ {0}
  BY StateFacts
<1>4. /\ At \in Cuts(op, pos) \cup {0} /\ last = "writing"
      /\ op.whole => pos + Len(Encoded) <= numBits
      /\ \A i \in 1..At : BitAt(pos + i - 1) = Encoded[i]
  BY <1>2 DEF IInv, CallSoFar
<1>5. /\ Encoded = Encoding(op, pos) /\ Encoded \in Seq(Bit) /\ Len(Encoded) \in Nat
      /\ c \in 1..Len(Encoded) /\ c > At
      /\ \A d \in Cuts(op, pos) : d > At => c <= d
  BY <1>1, <1>3, CutFacts, EncodingFacts DEF Encoded, NextCut
<1>6. n \in 1..WordBits
  <2>1. n <= WordBits
    <3>1. ~(At = BlockFrom(op, pos) /\ c = BlockTo(op, pos))
      BY <1>1 DEF IsBlock
    <3>2. /\ At \in Cuts(op, pos) \cup {0} /\ c \in Cuts(op, pos) /\ At < c
          /\ OpOK(op) /\ pos \in Nat
      BY <1>3, <1>4, <1>5
    <3>3. \A d \in Cuts(op, pos) : d > At => c <= d
      BY <1>5
    <3> HIDE DEF op, pos
    <3>4. c - At <= WordBits \/ (At = BlockFrom(op, pos) /\ c = BlockTo(op, pos))
      BY <3>2, <3>3, CutFacts, Zenon
    <3> QED BY <3>1, <3>4
  <2> QED BY <2>1, <1>3, <1>5
<1>7. /\ Value(c) \in Word
      /\ \A i \in 0..n-1 : Value(c)[i] = Encoded[At + 1 + i]
      /\ \A i \in 0..WordBits-1 : i >= n => Value(c)[i] = 0
  <2>1. At + 1 \in Nat \ {0} /\ n \in Nat /\ n <= WordBits /\ (At + 1) + n - 1 <= Len(Encoded)
    BY <1>3, <1>5, <1>6
  <2> HIDE DEF n
  <2>2. Value(c) = LowBits(WordAt(Encoded, At + 1), n)
    BY DEF Value, n
  <2> QED BY <2>1, <2>2, <1>5, LowBitsOfSequence
<1>8. tryWriteBits64(Value(c), n)
  BY <1>1
<1> HIDE DEF n
<1>9. /\ bitsWritten' = bitsWritten + n
      /\ bitsWritten' \in 0..numBits
      /\ data' \in [0..numBits-1 -> Bit \cup {Old}] /\ scratch' \in Word
      /\ ScratchClean' /\ PastEndZero' /\ WordsWritten'
      /\ \A p \in 0..bitsWritten-1 : BitAt(p)' = BitAt(p)
      /\ \A p \in bitsWritten..bitsWritten+n-1 : BitAt(p)' = Value(c)[p - bitsWritten]
  BY <1>2, <1>6, <1>7, <1>8, PutEffect
<1>positions. /\ pos \in Nat /\ At \in Nat /\ c \in Nat /\ At < c /\ bitsWritten = pos + At
       /\ bitsWritten' = bitsWritten + n
  <2>1. bitsWritten' = bitsWritten + n
    BY <1>9
  <2> QED BY <2>1, <1>3, <1>5
<1>10. TypeOK'
  <2>1. pos \in 0..bitsWritten'
    <3> HIDE DEF op, pos
    <3> QED BY <1>positions DEF n
  <2> QED BY <2>1, <1>2, <1>9 DEF IInv, TypeOK
<1>11. CallSoFar'
  <2>1. At' = c /\ Encoded' = Encoded
    <3>1. call' = call
      BY <1>2
    <3>2. Encoded' = Encoded
      BY <3>1 DEF Encoded
    <3>3. At' = bitsWritten' - pos
      BY <3>1 DEF At
    <3>4. bitsWritten' - pos = c
      <4> HIDE DEF op, pos
      <4> QED BY <1>positions DEF n
    <3> QED BY <3>2, <3>3, <3>4
  <2>2. ASSUME NEW i \in 1..c PROVE BitAt(pos + i - 1)' = Encoded[i]
    <3> DEFINE p == pos + i - 1
    <3>1. CASE i <= At
      <4>1. i \in 1..At /\ p \in 0..bitsWritten-1
        <5> HIDE DEF op, pos
        <5> QED BY <3>1, <1>positions
      <4> QED BY <4>1, <1>2, <1>4, <1>9
    <3>2. CASE i > At
      <4>1. /\ p \in bitsWritten..bitsWritten+n-1 /\ p - bitsWritten \in 0..n-1
            /\ At + 1 + (p - bitsWritten) = i
        <5> HIDE DEF op, pos
        <5> QED BY <3>2, <1>positions DEF n
      <4> QED BY <4>1, <1>2, <1>7, <1>9
    <3> QED BY <3>1, <3>2, <1>3
  <2> QED BY <2>1, <2>2, <1>1, <1>2, <1>4, <1>5 DEF CallSoFar
<1>12. FlushedBytes'
  BY <1>2, <1>4 DEF FlushedBytes
<1> QED BY <1>9, <1>10, <1>11, <1>12 DEF IInv

(***************************************************************************)
(* So does the block copy of writeBytesStream.                             *)
(***************************************************************************)
LEMMA CopyBlockIInv ==
  ASSUME IInv, CopyBlock
  PROVE  IInv' /\ \A p \in 0..bitsWritten-1 : BitAt(p)' = BitAt(p)
<1>1. PICK c \in Cuts(call.op, call.start) :
        /\ NextCut(c) /\ IsBlock(c)
        /\ data' = CopyBits(data, bitsWritten, SubSeq(Encoded, At + 1, c))
        /\ bitsWritten' = bitsWritten + (c - At)
  BY DEF CopyBlock
<1>2. call.busy /\ UNCHANGED <<scratch, numBits, call, last>>
  BY DEF CopyBlock
<1> DEFINE op == call.op
           pos == call.start
           s == SubSeq(Encoded, At + 1, c)
           words == BlockWords(op, pos)
<1>3. /\ OpOK(op) /\ pos \in Nat /\ At \in Nat /\ bitsWritten = pos + At
      /\ bitsWritten \in Nat /\ numBits \in Nat /\ WordBits \in Nat \ {0}
      /\ op \in CheckedOps \/ op \in RelOps
      /\ scratch \in Word
  BY StateFacts
<1>4. /\ At \in Cuts(op, pos) \cup {0} /\ last = "writing"
      /\ op.whole => pos + Len(Encoded) <= numBits
      /\ \A i \in 1..At : BitAt(pos + i - 1) = Encoded[i]
  BY <1>2 DEF IInv, CallSoFar
<1>5. /\ Encoded = Encoding(op, pos) /\ Encoded \in Seq(Bit) /\ Len(Encoded) \in Nat
      /\ c \in 1..Len(Encoded) /\ c > At
  BY <1>1, <1>3, CutFacts, EncodingFacts DEF Encoded, NextCut
<1>6. /\ words \in Nat /\ words > 0 /\ Pending(bitsWritten) = 0
      /\ c - At = words * WordBits
      /\ RunBytes(op) # 0
  <2>1. At = BlockFrom(op, pos) /\ c = BlockTo(op, pos)
    BY <1>1 DEF IsBlock
  <2>2. /\ words \in Nat /\ c = At + words * WordBits
        /\ words > 0 <=> At < c
        /\ words > 0 => Pending(pos + At) = 0
        /\ HeadBytes(op, pos) \in 0..RunBytes(op) /\ RunBytes(op) \in Nat
        /\ RunBytes(op) - HeadBytes(op, pos) - words * WordBytes \in Nat
    BY <2>1, <1>3, RunFacts
  <2>3. words > 0 /\ words \in Nat /\ Pending(bitsWritten) = 0
    BY <2>2, <1>3, <1>5
  <2> HIDE DEF words
  <2>4. c - At = words * WordBits
    BY <2>2, <2>3, <1>3, <1>5
  <2>5. RunBytes(op) # 0
    <3>1. 0 * WordBytes < words * WordBytes /\ words * WordBytes \in Int
      BY <2>3, GeometryAssumption, Products
    <3> QED BY <3>1, <2>2, GeometryAssumption
  <2> QED BY <2>3, <2>4, <2>5
<1>7. op.whole
  <2>1. op \notin RelOps
    BY <1>6, RelOpsOK, NoBytes
  <2> QED BY <2>1, <1>3, CheckedOpsOK
<1>8. s \in Seq(Bit) /\ Len(s) = c - At /\ \A i \in 1..Len(s) : s[i] = Encoded[At + i]
  BY <1>3, <1>5
<1>9. bitsWritten + Len(s) <= numBits /\ Len(s) = words * WordBits
  <2>1. Len(s) = c - At /\ c \in Nat /\ c <= Len(Encoded) /\ Len(Encoded) \in Nat
    BY <1>5, <1>8
  <2>2. pos + Len(Encoded) <= numBits
    BY <1>4, <1>7
  <2>3. c - At = words * WordBits
    BY <1>6
  <2> HIDE DEF s, words, pos, op
  <2> QED BY <1>3, <2>1, <2>2, <2>3
<1> HIDE DEF s, words
<1>10. /\ bitsWritten' = bitsWritten + Len(s)
       /\ bitsWritten' \in 0..numBits
       /\ data' \in [0..numBits-1 -> Bit \cup {Old}]
       /\ ScratchClean' /\ PastEndZero' /\ WordsWritten'
       /\ \A p \in 0..bitsWritten-1 : BitAt(p)' = BitAt(p)
       /\ \A p \in bitsWritten..bitsWritten+Len(s)-1 :
            BitAt(p)' = s[(p - bitsWritten) + 1]
  <2>1. data' = CopyBits(data, bitsWritten, s) /\ bitsWritten' = bitsWritten + Len(s)
    BY <1>1, <1>8 DEF s
  <2> QED BY <2>1, <1>2, <1>6, <1>8, <1>9, CopyEffect
<1>positions. /\ pos \in Nat /\ At \in Nat /\ c \in Nat /\ At < c /\ bitsWritten = pos + At
       /\ Len(s) = c - At /\ bitsWritten' = bitsWritten + Len(s)
  <2>1. bitsWritten' = bitsWritten + Len(s)
    BY <1>10
  <2>2. Len(s) = c - At
    BY <1>8
  <2> QED BY <2>1, <2>2, <1>3, <1>5
<1>11. TypeOK'
  <2>1. pos \in 0..bitsWritten'
    <3> HIDE DEF op, pos
    <3> QED BY <1>positions
  <2> QED BY <2>1, <1>2, <1>10 DEF IInv, TypeOK
<1>12. CallSoFar'
  <2>1. At' = c /\ Encoded' = Encoded
    <3>1. call' = call
      BY <1>2
    <3>2. Encoded' = Encoded
      BY <3>1 DEF Encoded
    <3>3. At' = bitsWritten' - pos
      BY <3>1 DEF At
    <3>4. bitsWritten' - pos = c
      <4> HIDE DEF op, pos
      <4> QED BY <1>positions
    <3> QED BY <3>2, <3>3, <3>4
  <2>2. ASSUME NEW i \in 1..c PROVE BitAt(pos + i - 1)' = Encoded[i]
    <3> DEFINE p == pos + i - 1
    <3>1. CASE i <= At
      <4>1. i \in 1..At /\ p \in 0..bitsWritten-1
        BY <3>1, <1>3, <1>5
      <4> QED BY <4>1, <1>2, <1>4, <1>10
    <3>2. CASE i > At
      <4>1. /\ p \in bitsWritten..bitsWritten+Len(s)-1 /\ (p - bitsWritten) + 1 \in 1..Len(s)
            /\ At + ((p - bitsWritten) + 1) = i
        <5>1. Len(s) = c - At /\ i \in Nat /\ i <= c /\ c \in Nat
          BY <1>5, <1>8
        <5>2. p = (pos + i) - 1
          BY <1>3, <5>1
        <5>3. /\ pos \in Nat /\ At \in Nat /\ bitsWritten = pos + At /\ bitsWritten \in Nat
              /\ i > At
          BY <3>2, <1>3
        <5> HIDE DEF p, pos, op
        <5>4. p \in Nat /\ p >= bitsWritten /\ p <= bitsWritten + Len(s) - 1
          BY <5>1, <5>2, <5>3
        <5> QED BY <5>1, <5>2, <5>3, <5>4
      <4> QED BY <4>1, <1>2, <1>8, <1>10
    <3> QED BY <3>1, <3>2, <1>3
  <2> QED BY <2>1, <2>2, <1>1, <1>2, <1>4, <1>5 DEF CallSoFar
<1>13. FlushedBytes'
  BY <1>2, <1>4 DEF FlushedBytes
<1> QED BY <1>10, <1>11, <1>12, <1>13 DEF IInv

(***************************************************************************)
(* A step that ends with no call running.                                  *)
(***************************************************************************)
LEMMA IdleStep ==
  ASSUME call' = Idle, last' # "writing"
  PROVE  CallSoFar'
<1>1. call'.busy = FALSE
  BY DEF Idle
<1> QED BY <1>1, Zenon DEF CallSoFar

(***************************************************************************)
(* With no call running the call record is the idle one.                   *)
(***************************************************************************)
LEMMA IdleState ==
  ASSUME IInv, ~call.busy
  PROVE  call = Idle /\ last # "writing"
BY DEF IInv, CallSoFar

(***************************************************************************)
(* A flush keeps the invariant: it stores the pending word and nothing     *)
(* else.                                                                   *)
(***************************************************************************)
LEMMA FlushIInv ==
  ASSUME IInv, Flush
  PROVE  IInv'
<1> DEFINE bw == bitsWritten
           sb == Pending(bw)
           base == WordBase(bw)
<1>1. /\ numBits \in Nat /\ bw \in Nat /\ bw <= numBits
      /\ data \in [0..numBits-1 -> Bit \cup {Old}]
      /\ scratch \in Word /\ sb \in 0..WordBits-1 /\ base \in 0..bw /\ bw = base + sb
      /\ WordBits \in Nat \ {0}
      /\ \E words \in Nat : numBits = words * WordBits
  BY StateFacts
<1>2. /\ ~call.busy /\ last' = "flushed"
      /\ UNCHANGED <<scratch, numBits, bitsWritten, call>>
      /\ data' = IF sb # 0 THEN StoreWord(data, base, scratch) ELSE data
  BY DEF Flush
<1>3. /\ \A i \in 0..WordBits-1 : i >= sb => scratch[i] = 0
      /\ \A p \in bw..numBits-1 : data[p] \in {0, Old}
      /\ \A p \in 0..base-1 : data[p] \in Bit
  BY DEF IInv, ScratchClean, PastEndZero, WordsWritten
<1>4. /\ RoundUp(bw) \in Nat /\ bw <= RoundUp(bw) /\ RoundUp(bw) <= base + WordBits
      /\ sb = 0 => RoundUp(bw) = bw
      /\ sb # 0 => base + WordBits <= numBits
  <2>1. sb # 0 => base + WordBits <= numBits
    <3>1. PICK words \in Nat : numBits = words * WordBits
      BY <1>1
    <3>2. bw \in 0..words * WordBits
      BY <3>1, <1>1
    <3>3. sb # 0 => base + WordBits <= words * WordBits
      BY <3>2, WordInside
    <3> QED BY <3>1, <3>3
  <2>2. AlignPad(bw) \in Nat
    BY <1>1, RoundUpBytes
  <2> QED BY <2>1, <2>2, <1>1, RoundUpInside DEF RoundUp
<1>5. /\ data' \in [0..numBits-1 -> Bit \cup {Old}]
      /\ \A p \in 0..numBits-1 :
           data'[p] = IF sb # 0 /\ p \in base..base+WordBits-1 THEN scratch[p - base] ELSE data[p]
  <2>1. base \in Nat
    BY <1>1
  <2> HIDE DEF sb, base
  <2>2. StoreWord(data, base, scratch) =
          [a \in 0..numBits-1 |-> IF a \in base..base+WordBits-1 THEN scratch[a-base] ELSE data[a]]
    BY <1>1 DEF StoreWord
  <2>3. \A a \in base..base+WordBits-1 : scratch[a-base] \in Bit
    BY <2>1, <1>1 DEF Word
  <2> QED BY <2>1, <2>2, <2>3, <1>1, <1>2
<1>6. \A p : /\ BitAt(p) = IF p < base THEN data[p] ELSE scratch[p - base]
             /\ BitAt(p)' = IF p < base THEN data'[p] ELSE scratch[p - base]
  BY <1>2 DEF BitAt
<1>7. ScratchClean'
  BY <1>2, <1>3 DEF ScratchClean
<1>8. /\ PastEndZero' <=> \A p \in bw..numBits-1 : data'[p] \in {0, Old}
      /\ WordsWritten' <=> \A p \in 0..base-1 : data'[p] \in Bit
      /\ FlushedBytes' <=> \A p \in 0..RoundUp(bw)-1 :
                             data'[p] = IF p < bw THEN BitAt(p)' ELSE 0
  BY <1>2 DEF PastEndZero, WordsWritten, FlushedBytes
<1> HIDE DEF sb, base, bw
<1>9. PastEndZero'
  <2> SUFFICES \A p \in bw..numBits-1 : data'[p] \in {0, Old}
    BY <1>8
  <2> TAKE p \in bw..numBits-1
  <2>1. p \in 0..numBits-1
    BY <1>1
  <2>2. p \in base..base+WordBits-1 => p - base \in 0..WordBits-1 /\ p - base >= sb
    BY <1>1
  <2> QED BY <2>1, <2>2, <1>3, <1>5
<1>10. WordsWritten'
  <2> SUFFICES \A p \in 0..base-1 : data'[p] \in Bit
    BY <1>8
  <2> TAKE p \in 0..base-1
  <2>1. p \in 0..numBits-1 /\ p \notin base..base+WordBits-1
    BY <1>1
  <2> QED BY <2>1, <1>3, <1>5
<1>11. FlushedBytes'
  <2> SUFFICES \A p \in 0..RoundUp(bw)-1 : data'[p] = IF p < bw THEN BitAt(p)' ELSE 0
    BY <1>8
  <2> TAKE p \in 0..RoundUp(bw)-1
  <2>1. CASE p < base
    BY <2>1, <1>1, <1>6
  <2>2. CASE p >= base
    <3>1. /\ sb # 0 /\ p \in 0..numBits-1 /\ p \in base..base+WordBits-1
          /\ p - base \in 0..WordBits-1 /\ (p >= bw => p - base >= sb)
      BY <2>2, <1>1, <1>4
    <3>2. data'[p] = scratch[p - base]
      BY <3>1, <1>5
    <3>3. p < bw => BitAt(p)' = scratch[p - base]
      BY <2>2, <3>1, <1>1, <1>6
    <3> QED BY <3>1, <3>2, <3>3, <1>1, <1>3
  <2> QED BY <2>1, <2>2, <1>1, <1>4
<1>12. TypeOK'
  BY <1>2, <1>5 DEF IInv, TypeOK
<1>13. CallSoFar'
  BY <1>2, IdleState, IdleStep
<1> QED BY <1>7, <1>9, <1>10, <1>11, <1>12, <1>13 DEF IInv

(***************************************************************************)
(* A reset, to a buffer of any size, establishes the invariant anew.       *)
(***************************************************************************)
LEMMA ResetIInv ==
  ASSUME IInv, NEW words \in Buffers, Reset(words)
  PROVE  IInv'
<1>1. /\ numBits' = words * WordBits /\ data' = [a \in 0..numBits'-1 |-> Old]
      /\ scratch' = ZeroWord /\ bitsWritten' = 0 /\ last' = "reset"
      /\ call' = call /\ ~call.busy
  BY DEF Reset
<1>2. numBits' \in Nat
  BY <1>1, BuffersAssumption, WordBitsType
<1>3. TypeOK'
  <2>2. call.start = 0
    BY <1>1 DEF IInv, CallSoFar, Idle
  <2> QED BY <1>1, <1>2, <2>2, ZeroWordType DEF IInv, TypeOK
<1>4. ScratchClean'
  BY <1>1 DEF ScratchClean, ZeroWord
<1>5. PastEndZero'
  BY <1>1, <1>2 DEF PastEndZero
<1>6. WordsWritten'
  <2>1. WordBase(0) \in 0..0
    BY PositionSplit
  <2>2. WordBase(bitsWritten') = 0
    BY <2>1, <1>1
  <2> QED BY <2>2 DEF WordsWritten
<1>7. CallSoFar' /\ FlushedBytes'
  BY <1>1, IdleState, IdleStep DEF FlushedBytes
<1> QED BY <1>3, <1>4, <1>5, <1>6, <1>7 DEF IInv

(***************************************************************************)
(* The steps that leave the buffer and the position alone: a call starts,  *)
(* returns or panics.                                                      *)
(***************************************************************************)
LEMMA CallStepIInv ==
  ASSUME IInv,
         \/ \E op \in CheckedOps \cup RelOps : Begin(op)
         \/ \E op \in CheckedOps : Overflow(op)
         \/ Misuse \/ PieceOverflow \/ Return
  PROVE  IInv'
<1>1. UNCHANGED <<data, scratch, numBits, bitsWritten>>
  BY DEF Begin, Overflow, Misuse, PieceOverflow, Return
<1>2. ScratchClean' /\ PastEndZero' /\ WordsWritten'
  BY <1>1, BufferUnchanged
<1>3. /\ bitsWritten \in Nat /\ numBits \in Nat
      /\ bitsWritten \in 0..bitsWritten /\ 0 \in 0..bitsWritten
  BY StateFacts
<1>4. last' \in {"writing", "returned", "overflow", "misuse"}
  BY DEF Begin, Overflow, Misuse, PieceOverflow, Return
<1>5. FlushedBytes'
  BY <1>4 DEF FlushedBytes
<1>6. CASE \E op \in CheckedOps \cup RelOps : Begin(op)
  <2>1. PICK op \in CheckedOps \cup RelOps : Begin(op)
    BY <1>6
  <2>2. /\ call' = [busy |-> TRUE, op |-> op, start |-> bitsWritten]
        /\ last' = "writing"
        /\ op.whole => bitsWritten + Len(Encoding(op, bitsWritten)) <= numBits
    BY <2>1 DEF Begin, Running, Room
  <2>3. TypeOK'
    BY <2>2, <1>1, <1>3 DEF IInv, TypeOK
  <2>4. call'.busy /\ call'.op = op /\ call'.start = bitsWritten
    BY <2>2
  <2>5. At' = 0
    BY <2>4, <1>1, <1>3 DEF At
  <2>6. Encoded' = Encoding(op, bitsWritten)
    BY <2>4 DEF Encoded
  <2>7. /\ At' \in Cuts(call'.op, call'.start) \cup {0}
        /\ call'.op.whole => call'.start + Len(Encoded') <= numBits'
        /\ \A i \in 1..At' : BitAt(call.start + i - 1)' = (Encoded')[i]
    BY <2>2, <2>4, <2>5, <2>6, <1>1
  <2>8. CallSoFar'
    BY <2>2, <2>4, <2>7, Zenon DEF CallSoFar
  <2> QED BY <1>2, <1>5, <2>3, <2>8 DEF IInv
<1>7. CASE \/ \E op \in CheckedOps : Overflow(op)
           \/ Misuse \/ PieceOverflow \/ Return
  <2>1. call' = Idle /\ last' # "writing"
    BY <1>7, IdleState DEF Overflow, Misuse, PieceOverflow, Return
  <2>2. Idle \in [busy : BOOLEAN, op : CheckedOps \cup RelOps, start : 0..bitsWritten]
    BY <1>3 DEF Idle, CheckedOps
  <2>3. TypeOK'
    BY <2>1, <2>2, <1>1, <1>4 DEF IInv, TypeOK
  <2> QED BY <1>2, <1>5, <2>1, <2>3, IdleStep DEF IInv
<1> QED BY <1>6, <1>7

(***************************************************************************)
(* Every step of the stream keeps the invariant.                           *)
(***************************************************************************)
LEMMA StepIInv == IInv /\ [Next]_vars => IInv'
<1> SUFFICES ASSUME IInv, [Next]_vars PROVE IInv'
  OBVIOUS
<1>1. CASE \/ \E op \in CheckedOps \cup RelOps : Begin(op)
           \/ \E op \in CheckedOps : Overflow(op)
           \/ Misuse \/ PieceOverflow \/ Return
  BY <1>1, CallStepIInv
<1>2. CASE WritePiece
  BY <1>2, WritePieceIInv
<1>3. CASE CopyBlock
  BY <1>3, CopyBlockIInv
<1>4. CASE Flush
  BY <1>4, FlushIInv
<1>5. CASE \E words \in Buffers : Reset(words)
  BY <1>5, ResetIInv
<1>6. CASE UNCHANGED vars
  BY <1>6 DEF vars, IInv, TypeOK, ScratchClean, PastEndZero, WordsWritten,
              CallSoFar, FlushedBytes, BitAt, At, Encoded
<1> QED BY <1>1, <1>2, <1>3, <1>4, <1>5, <1>6 DEF Next

(***************************************************************************)
(* The inductive invariant holds in every state of the write stream.       *)
(***************************************************************************)
THEOREM InductiveInvariant == Spec => []IInv
BY InitIInv, StepIInv, PTL DEF Spec

(***************************************************************************)
(* The variables keep their types, and with them the position stays in the *)
(* buffer.                                                                 *)
(***************************************************************************)
THEOREM TypeCorrect == Spec => []TypeOK
<1>1. IInv => TypeOK
  BY DEF IInv
<1> QED BY <1>1, InductiveInvariant, PTL

(***************************************************************************)
(* No bit of one value is ever left above the pending ones for the next to *)
(* be or'ed with.                                                          *)
(***************************************************************************)
THEOREM ScratchStaysClean == Spec => []ScratchClean
<1>1. IInv => ScratchClean
  BY DEF IInv
<1> QED BY <1>1, InductiveInvariant, PTL

(***************************************************************************)
(* Past the written data the buffer holds zeros or what it held before.    *)
(***************************************************************************)
THEOREM PastEndStaysZero == Spec => []PastEndZero
<1>1. IInv => PastEndZero
  BY DEF IInv
<1> QED BY <1>1, InductiveInvariant, PTL

(***************************************************************************)
(* A block copy only ever runs at a word boundary with nothing pending.    *)
(***************************************************************************)
THEOREM BlockCopiesAligned == Spec => []BlockCopyAligned
<1>1. ASSUME IInv PROVE BlockCopyAligned
  <2> SUFFICES ASSUME At = BlockFrom(call.op, call.start),
                      BlockWords(call.op, call.start) > 0
               PROVE  Pending(bitsWritten) = 0 /\ scratch = ZeroWord
    BY DEF BlockCopyAligned
  <2>1. /\ OpOK(call.op) /\ call.start \in Nat /\ bitsWritten = call.start + At
        /\ scratch \in Word
    BY <1>1, StateFacts
  <2>2. Pending(bitsWritten) = 0
    BY <2>1, RunFacts
  <2>3. \A i \in 0..WordBits-1 : scratch[i] = 0
    BY <1>1, <2>2, WordBitsType DEF IInv, ScratchClean
  <2>4. scratch = ZeroWord
    BY <2>1, <2>3 DEF Word, ZeroWord
  <2> QED BY <2>2, <2>4
<1> QED BY <1>1, InductiveInvariant, PTL

(***************************************************************************)
(* Every word stored is inside the buffer, and an align always fits.       *)
(***************************************************************************)
THEOREM StoresInside == Spec => []PendingWordFits
<1>1. ASSUME IInv PROVE PendingWordFits
  <2>1. PICK words \in Nat : numBits = words * WordBits
    BY <1>1, StateFacts
  <2>2. bitsWritten \in 0..words * WordBits /\ bitsWritten \in Nat
    BY <1>1, <2>1, StateFacts
  <2>3. Pending(bitsWritten) # 0 => WordBase(bitsWritten) + WordBits <= numBits
    BY <2>1, <2>2, WordInside
  <2>4. RoundUp(bitsWritten) <= numBits
    BY <2>1, <2>2, RoundUpInside
  <2> QED BY <2>3, <2>4 DEF PendingWordFits
<1> QED BY <1>1, InductiveInvariant, PTL

-----------------------------------------------------------------------------
(***************************************************************************)
(* The stream implements WireSpec: every step of it is a step of WireSpec  *)
(* on the wire and the packet, or changes neither.                         *)
(***************************************************************************)
LEMMA WireFacts ==
  ASSUME IInv
  PROVE  /\ Committed \in Nat /\ Committed <= bitsWritten
         /\ Wire \in Seq(Bit) /\ Len(Wire) = Committed
         /\ \A p \in 0..bitsWritten-1 : BitAt(p) \in Bit
<1>1. /\ numBits \in Nat /\ bitsWritten \in Nat
      /\ scratch \in Word /\ Pending(bitsWritten) \in 0..WordBits-1
      /\ WordBase(bitsWritten) \in 0..bitsWritten
      /\ bitsWritten = WordBase(bitsWritten) + Pending(bitsWritten)
      /\ call.start \in Nat /\ call.start <= bitsWritten /\ WordBits \in Nat \ {0}
  BY StateFacts
<1>2. Committed \in Nat /\ Committed <= bitsWritten
  BY <1>1 DEF Committed
<1>3. ASSUME NEW p \in 0..bitsWritten-1 PROVE BitAt(p) \in Bit
  <2>1. CASE p < WordBase(bitsWritten)
    <3>1. p \in 0..WordBase(bitsWritten)-1
      BY <2>1, <1>1
    <3> QED BY <3>1, <2>1 DEF IInv, WordsWritten, BitAt
  <2>2. CASE p >= WordBase(bitsWritten)
    <3>1. p - WordBase(bitsWritten) \in 0..WordBits-1 /\ ~(p < WordBase(bitsWritten))
      BY <2>2, <1>1
    <3> QED BY <3>1, <1>1 DEF Word, BitAt
  <2> QED BY <2>1, <2>2, <1>1
<1>4. Wire \in Seq(Bit) /\ Len(Wire) = Committed
  <2>1. \A i \in 1..Committed : BitAt(i-1) \in Bit
    BY <1>1, <1>2, <1>3
  <2> QED BY <2>1, <1>2 DEF Wire
<1> QED BY <1>2, <1>3, <1>4

(***************************************************************************)
(* A step that neither moves the committed position nor changes a bit      *)
(* written leaves the wire alone.                                          *)
(***************************************************************************)
LEMMA WireSame ==
  ASSUME IInv, Committed' = Committed,
         \A p \in 0..bitsWritten-1 : BitAt(p)' = BitAt(p)
  PROVE  Wire' = Wire
<1>1. Committed \in Nat /\ Committed <= bitsWritten /\ bitsWritten \in Nat
  BY WireFacts, StateFacts
<1>2. \A i \in 1..Committed : BitAt(i-1)' = BitAt(i-1)
  <2> TAKE i \in 1..Committed
  <2>1. i - 1 \in 0..bitsWritten-1
    BY <1>1
  <2> QED BY <2>1
<1> QED BY <1>2 DEF Wire

(***************************************************************************)
(* A call that ends leaves on the wire what it has written.                *)
(***************************************************************************)
LEMMA WireGrows ==
  ASSUME IInv, IInv', call.busy, call' = Idle, UNCHANGED <<data, scratch, bitsWritten>>
  PROVE  Wire' = Wire \o SubSeq(Encoded, 1, At)
<1> DEFINE pos == call.start
           e == SubSeq(Encoded, 1, At)
<1>1. /\ pos \in Nat /\ At \in Nat /\ bitsWritten = pos + At /\ bitsWritten \in Nat
      /\ OpOK(call.op)
  BY StateFacts
<1>2. Committed = pos /\ Committed' = bitsWritten
  BY DEF Committed, Idle
<1>3. \A p : BitAt(p)' = BitAt(p)
  BY DEF BitAt
<1>4. /\ Encoded \in Seq(Bit) /\ At \in 0..Len(Encoded)
      /\ \A i \in 1..At : BitAt(pos + i - 1) = Encoded[i]
  <2>1. At \in Cuts(call.op, call.start) \cup {0}
    BY DEF IInv, CallSoFar
  <2> QED BY <2>1, <1>1, CutFacts, EncodingFacts DEF IInv, CallSoFar, Encoded
<1>5. e \in Seq(Bit) /\ Len(e) = At /\ \A i \in 1..At : e[i] = Encoded[i]
  BY <1>1, <1>4
<1>6. Wire \in Seq(Bit) /\ Len(Wire) = pos /\ Wire' = [i \in 1..bitsWritten |-> BitAt(i-1)]
  BY <1>2, <1>3, WireFacts DEF Wire
<1> HIDE DEF e, pos
<1>7. \A i \in 1..bitsWritten : BitAt(i-1) = (Wire \o e)[i]
  <2> TAKE i \in 1..bitsWritten
  <2>1. CASE i <= pos
    <3>1. i \in 1..Committed /\ Wire[i] = BitAt(i-1)
      BY <2>1, <1>1, <1>2 DEF Wire
    <3> QED BY <3>1, <2>1, <1>1, <1>5, <1>6
  <2>2. CASE i > pos
    <3> DEFINE j == i - pos
    <3>1. j \in 1..At /\ pos + j - 1 = i - 1
      BY <2>2, <1>1
    <3>2. BitAt(i-1) = e[j]
      BY <3>1, <1>4, <1>5
    <3>3. (Wire \o e)[i] = e[j]
      BY <3>1, <2>2, <1>1, <1>5, <1>6
    <3> QED BY <3>2, <3>3
  <2>3. i <= pos \/ i > pos
    BY <1>1
  <2> QED BY <2>1, <2>2, <2>3
<1>8. Wire \o e \in Seq(Bit) /\ Len(Wire \o e) = bitsWritten
  <2>1. Wire \o e \in Seq(Bit) /\ Len(Wire \o e) = Len(Wire) + Len(e)
    BY <1>5, <1>6, Concatenation
  <2> QED BY <2>1, <1>1, <1>5, <1>6
<1>9. Wire \o e = [i \in 1..bitsWritten |-> BitAt(i-1)]
  <2>1. Wire \o e = [i \in 1..bitsWritten |-> (Wire \o e)[i]]
    BY <1>8, SequenceIsFunction
  <2> QED BY <2>1, <1>7
<1> QED BY <1>6, <1>9 DEF e

(***************************************************************************)
(* WireSpec and the stream give an operation the same encoding, and its    *)
(* Fits is the stream's check of the room for the whole operation.         *)
(***************************************************************************)
LEMMA SameEncoding ==
  \A op, pos : Abs!Encoding(op, pos) = Encoding(op, pos)
BY DEF Abs!Encoding, Abs!PadBits, Abs!AlignPad, Abs!Zeros,
       Encoding, PadBits, AlignPad, Zeros

(***************************************************************************)
(* WireSpec's Fits is the check of the stream.                             *)
(***************************************************************************)
LEMMA SameRoom ==
  ASSUME IInv, NEW op
  PROVE  Abs!Fits(op) <=> Committed + Len(Encoding(op, Committed)) <= numBits
<1>1. Len(Wire) = Committed
  BY WireFacts
<1> QED BY <1>1, SameEncoding DEF Abs!Fits

(***************************************************************************)
(* The initial states, and the steps that leave what was written alone.    *)
(***************************************************************************)
LEMMA InitWire == Init => Abs!Init
<1> SUFFICES ASSUME Init PROVE Abs!Init
  OBVIOUS
<1>1. Committed = 0 /\ last = "reset"
  BY DEF Init, Idle, Committed
<1>2. Wire = <<>>
  BY <1>1 DEF Wire
<1>3. Packet = <<>>
  BY <1>1 DEF Packet
<1>4. numBits \in Abs!Capacities
  BY DEF Init, Abs!Capacities, Abs!WordBits, WordBits
<1> QED BY <1>1, <1>2, <1>3, <1>4 DEF Abs!Init, Abs!NoPacket

(***************************************************************************)
(* A call that starts, or panics before it has written anything, is a      *)
(* Start, an Overflow or a Misuse of WireSpec.                             *)
(***************************************************************************)
LEMMA CallStartsWire ==
  ASSUME IInv,
         \/ \E op \in CheckedOps \cup RelOps : Begin(op)
         \/ \E op \in CheckedOps : Overflow(op)
         \/ Misuse
  PROVE  Abs!Next
<1>1. /\ ~call.busy /\ last' \in {"writing", "overflow", "misuse"}
      /\ UNCHANGED <<data, scratch, numBits, bitsWritten>>
  BY DEF Begin, Overflow, Misuse
<1>2. last # "writing"
  BY <1>1, IdleState
<1>3. Committed = bitsWritten /\ Committed' = bitsWritten
  <2>1. call' = call \/ call' = [busy |-> TRUE, op |-> call'.op, start |-> bitsWritten]
    BY DEF Begin, Overflow, Misuse, Running
  <2> QED BY <2>1, <1>1 DEF Committed
<1>4. Wire' = Wire
  BY <1>1, <1>3, WireSame, BufferUnchanged
<1>5. Packet' = <<>>
  BY <1>1 DEF Packet
<1>6. CASE \E op \in CheckedOps \cup RelOps : Begin(op)
  <2>1. last' = "writing"
    BY <1>6 DEF Begin
  <2>2. Abs!Start
    BY <2>1, <1>1, <1>2, <1>4, <1>5 DEF Abs!Start, Abs!NoPacket
  <2> QED BY <2>2 DEF Abs!Next
<1>7. CASE \E op \in CheckedOps : Overflow(op)
  <2>1. PICK op \in CheckedOps : Overflow(op)
    BY <1>7
  <2>2. last' = "overflow" /\ ~(bitsWritten + Len(Encoding(op, bitsWritten)) <= numBits)
    BY <2>1 DEF Overflow, Room
  <2>3. ~Abs!Fits(op)
    BY <2>2, <1>3, SameRoom
  <2>4. Abs!Overflow(op)
    BY <2>2, <2>3, <1>1, <1>2, <1>4, <1>5 DEF Abs!Overflow, Abs!NoPacket
  <2> QED BY <2>4 DEF Abs!Next
<1>8. CASE Misuse
  <2>1. last' = "misuse"
    BY <1>8 DEF Misuse
  <2>2. Abs!Misuse
    BY <2>1, <1>1, <1>2, <1>4, <1>5 DEF Abs!Misuse, Abs!NoPacket
  <2> QED BY <2>2 DEF Abs!Next
<1> QED BY <1>6, <1>7, <1>8

(***************************************************************************)
(* A piece of a call is a step WireSpec does not see.                      *)
(***************************************************************************)
LEMMA PieceWire ==
  ASSUME IInv, WritePiece \/ CopyBlock
  PROVE  UNCHANGED Abs!abstractVars
<1>1. call.busy /\ UNCHANGED <<numBits, call, last>>
  BY DEF WritePiece, CopyBlock
<1>2. last = "writing"
  BY <1>1 DEF IInv, CallSoFar
<1>3. \A p \in 0..bitsWritten-1 : BitAt(p)' = BitAt(p)
  BY WritePieceIInv, CopyBlockIInv
<1>4. Committed' = Committed
  BY <1>1 DEF Committed
<1>5. Wire' = Wire
  BY <1>3, <1>4, WireSame
<1>6. Packet' = Packet
  BY <1>1, <1>2 DEF Packet
<1> QED BY <1>1, <1>5, <1>6 DEF Abs!abstractVars

(***************************************************************************)
(* A call that returns has put the whole of its encoding on the wire; one  *)
(* that panics part way, some of its field and only because the whole of   *)
(* it has no room.                                                         *)
(***************************************************************************)
LEMMA ReturnWire ==
  ASSUME IInv, IInv', Return
  PROVE  Abs!Next
<1> DEFINE op == call.op
<1>1. /\ call.busy /\ call' = Idle /\ last' = "returned" /\ At = Len(Encoded)
      /\ UNCHANGED <<data, scratch, numBits, bitsWritten>>
  BY DEF Return
<1>2. /\ last = "writing" /\ Committed = call.start
  BY <1>1 DEF IInv, CallSoFar, Committed
<1>3. /\ OpOK(op) /\ call.start \in Nat /\ bitsWritten = call.start + At
      /\ bitsWritten <= numBits /\ op \in CheckedOps \cup RelOps
  BY StateFacts
<1>4. Encoded \in Seq(Bit) /\ Encoded = Encoding(op, Committed)
  BY <1>2, <1>3, EncodingFacts DEF Encoded
<1>5. Wire' = Wire \o SubSeq(Encoded, 1, At)
  BY <1>1, WireGrows
<1>6. SubSeq(Encoded, 1, At) = Encoded
  BY <1>1, <1>4
<1>7. Wire' = Wire \o Abs!Encoding(op, Len(Wire))
  BY <1>4, <1>5, <1>6, SameEncoding, WireFacts
<1>8. Abs!Fits(op)
  BY <1>1, <1>2, <1>3, <1>4, SameRoom
<1>9. Packet' = <<>>
  BY <1>1 DEF Packet
<1>10. Abs!Accept(op)
  BY <1>1, <1>7, <1>8, <1>9 DEF Abs!Accept, Abs!NoPacket
<1> QED BY <1>3, <1>10 DEF Abs!Next

(***************************************************************************)
(* A call that panics part way leaves some of its field on the wire, and   *)
(* only because the whole of it had no room.                               *)
(***************************************************************************)
LEMMA PieceOverflowWire ==
  ASSUME IInv, IInv', PieceOverflow
  PROVE  Abs!Next
<1> DEFINE op == call.op
           n == At
<1>1. PICK c \in Cuts(op, call.start) : NextCut(c) /\ ~Room(c - At)
  BY DEF PieceOverflow
<1>2. /\ call.busy /\ ~op.whole /\ call' = Idle /\ last' = "overflow"
      /\ UNCHANGED <<data, scratch, numBits, bitsWritten>>
  BY DEF PieceOverflow
<1>3. /\ last = "writing" /\ Committed = call.start
  BY <1>2 DEF IInv, CallSoFar, Committed
<1>4. /\ OpOK(op) /\ call.start \in Nat /\ bitsWritten = call.start + n
      /\ bitsWritten \in Nat /\ numBits \in Nat /\ n \in Nat
      /\ bitsWritten <= numBits
      /\ op \in CheckedOps \/ op \in RelOps
  BY StateFacts
<1>5. op \in RelOps
  BY <1>2, <1>4, CheckedOpsOK, StateFacts, Zenon
<1>6. /\ Encoded = op.field /\ Encoded \in Seq(Bit) /\ Len(Encoded) \in Nat
      /\ Encoded = Encoding(op, Committed)
  BY <1>3, <1>4, <1>5, RelOpsOK, EncodingFacts DEF Encoded
<1>7. /\ c \in 1..Len(Encoded) /\ c > n /\ ~(bitsWritten + (c - n) <= numBits)
  BY <1>1, <1>4, CutFacts DEF NextCut, Room, Encoded
<1>8. ~Abs!Fits(op)
  BY <1>3, <1>4, <1>6, <1>7, SameRoom
<1>9. n \in 0..Len(op.field)-1 /\ Len(Wire) + n <= numBits
  <2>1. Len(Wire) = call.start
    BY <1>3, WireFacts
  <2>2. n \in Nat /\ call.start + n <= numBits
    <3>1. bitsWritten = call.start + At /\ bitsWritten <= numBits /\ At \in Nat
      BY StateFacts
    <3>2. call.start + At <= numBits
      BY ONLY <3>1
    <3> QED BY <3>1, <3>2
  <2> HIDE DEF n
  <2>3. c \in 1..Len(op.field) /\ c > n /\ Len(op.field) \in Nat
    BY <1>6, <1>7
  <2>4. n \in 0..Len(op.field)-1
    BY <2>2, <2>3
  <2> QED BY <2>1, <2>2, <2>4
<1>10. Wire' = Wire \o SubSeq(op.field, 1, n)
  BY <1>2, <1>6, WireGrows
<1>11. Packet' = Packet
  BY <1>2, <1>3 DEF Packet
<1>12. Abs!PartialOverflow(op)
  BY <1>2, <1>3, <1>8, <1>9, <1>10, <1>11 DEF Abs!PartialOverflow
<1> QED BY <1>5, <1>12 DEF Abs!Next

(***************************************************************************)
(* A flush makes Data the wire padded with zeros to a byte; a reset starts *)
(* an empty one.                                                           *)
(***************************************************************************)
LEMMA FlushWire ==
  ASSUME IInv, IInv', Flush
  PROVE  Abs!Next
<1> DEFINE bw == bitsWritten
           pad == AlignPad(bw)
           z == Zeros(pad)
           W == Wire
<1>1. /\ ~call.busy /\ last' = "flushed"
      /\ UNCHANGED <<scratch, numBits, bitsWritten, call>>
  BY DEF Flush
<1>2. last # "writing"
  BY <1>1, IdleState
<1>3. bw \in Nat /\ numBits \in Nat /\ Committed = bw /\ Committed' = bw
  BY <1>1, StateFacts DEF Committed
<1>4. FlushedBytes' /\ \A p : BitAt(p)' = BitAt(p) \/ p < WordBase(bw)
  BY <1>1 DEF IInv, BitAt
<1>5. \A p \in 0..bw-1 : BitAt(p)' = BitAt(p)
  <2> TAKE p \in 0..bw-1
  <2>1. CASE p < WordBase(bw)
    <3>1. data'[p] = data[p]
      <4>1. data \in [0..numBits-1 -> Bit \cup {Old}] /\ bw <= numBits
        BY StateFacts
      <4>2. p \in 0..numBits-1 /\ p \notin WordBase(bw)..WordBase(bw)+WordBits-1
        BY <4>1, <2>1, <1>3, PositionSplit, WordBitsType
      <4>3. data' = data \/ data' = [a \in 0..numBits-1 |->
                IF a \in WordBase(bw)..WordBase(bw)+WordBits-1
                  THEN scratch[a-WordBase(bw)] ELSE data[a]]
        BY <4>1 DEF Flush, StoreWord
      <4> QED BY <4>2, <4>3
    <3> QED BY <3>1, <2>1, <1>1 DEF BitAt
  <2>2. CASE ~(p < WordBase(bw))
    BY <2>2, <1>1 DEF BitAt
  <2> QED BY <2>1, <2>2
<1>6. Wire' = Wire
  BY <1>3, <1>5, WireSame
<1>7. Packet' = [i \in 1..RoundUp(bw) |-> data'[i-1]]
  <2>1. RoundUp(bw) = BytesProcessed * ByteBits
    BY <1>3, RoundUpBytes DEF BytesProcessed
  <2>2. Packet' = Data'
    BY <1>1 DEF Packet
  <2>3. BytesProcessed' = BytesProcessed
    BY <1>1 DEF BytesProcessed
  <2> QED BY <2>1, <2>2, <2>3 DEF Data
<1>8. /\ pad \in Nat /\ RoundUp(bw) = bw + pad
  BY <1>3, RoundUpBytes, GeometryAssumption DEF RoundUp
<1>9. /\ W \in Seq(Bit) /\ Len(W) = bw /\ \A i \in 1..bw : W[i] = BitAt(i-1)
  BY <1>3, WireFacts DEF Wire
<1>10. /\ z \in Seq(Bit) /\ Len(z) = pad /\ \A i \in 1..pad : z[i] = 0
  BY <1>8 DEF Zeros, Bit
<1>11. /\ W \o z \in Seq(Bit) /\ Len(W \o z) = bw + pad
       /\ \A i \in 1..bw : (W \o z)[i] = W[i]
       /\ \A i \in 1..pad : (W \o z)[bw + i] = z[i]
  <2> HIDE DEF W, z, bw, pad
  <2>1. /\ W \o z \in Seq(Bit) /\ Len(W \o z) = Len(W) + Len(z)
        /\ \A i \in 1..Len(W) : (W \o z)[i] = W[i]
        /\ \A i \in 1..Len(z) : (W \o z)[Len(W) + i] = z[i]
    <3>1. W \in Seq(Bit) /\ z \in Seq(Bit)
      BY <1>9, <1>10
    <3> QED BY <3>1, Concatenation
  <2> QED BY <2>1, <1>9, <1>10
<1>12. \A p \in 0..RoundUp(bw)-1 : data'[p] = IF p < bw THEN BitAt(p)' ELSE 0
  BY <1>1, <1>4 DEF FlushedBytes
<1> HIDE DEF W, z, pad, bw
<1>13. \A i \in 1..RoundUp(bw) : data'[i-1] = (W \o z)[i]
  <2> TAKE i \in 1..RoundUp(bw)
  <2>1. i - 1 \in 0..RoundUp(bw)-1
    BY <1>3, <1>8
  <2>2. CASE i <= bw
    <3>1. i \in 1..bw /\ i - 1 \in 0..bw-1
      BY <2>2, <1>3
    <3> QED BY <3>1, <2>1, <1>3, <1>5, <1>9, <1>11, <1>12
  <2>3. CASE i > bw
    <3> DEFINE j == i - bw
    <3>1. j \in 1..pad /\ bw + j = i
      BY <2>3, <1>3, <1>8
    <3>2. (W \o z)[i] = 0
      BY <3>1, <1>10, <1>11
    <3>3. data'[i-1] = 0
      <4>1. ~(i - 1 < bw)
        BY <2>3, <1>3, <1>8
      <4> QED BY <4>1, <2>1, <1>12
    <3> QED BY <3>2, <3>3
  <2>4. i <= bw \/ i > bw
    BY <1>3, <1>8
  <2> QED BY <2>2, <2>3, <2>4, Zenon
<1>14. Packet' = W \o z
  <2>1. W \o z = [i \in 1..Len(W \o z) |-> (W \o z)[i]]
    BY <1>11, SequenceIsFunction
  <2> QED BY <2>1, <1>7, <1>8, <1>11, <1>13
<1>15. W \o z = Wire \o Abs!Zeros(Abs!AlignPad(Len(Wire)))
  BY <1>9 DEF W, z, pad, Abs!Zeros, Abs!AlignPad, Zeros, AlignPad
<1>16. Abs!Flush
  BY <1>1, <1>2, <1>6, <1>14, <1>15 DEF Abs!Flush
<1> QED BY <1>16 DEF Abs!Next

(***************************************************************************)
(* A reset starts an empty wire.                                           *)
(***************************************************************************)
LEMMA ResetWire ==
  ASSUME IInv, NEW words \in Buffers, Reset(words)
  PROVE  Abs!Next
<1>1. /\ ~call.busy /\ call' = call /\ last' = "reset" /\ bitsWritten' = 0
      /\ numBits' = words * WordBits
  BY DEF Reset
<1>2. last # "writing"
  BY <1>1, IdleState
<1>3. Committed' = 0
  BY <1>1 DEF Committed
<1>4. Wire' = <<>> /\ Packet' = <<>>
  BY <1>1, <1>3 DEF Wire, Packet
<1>5. numBits' \in Abs!Capacities
  BY <1>1 DEF Abs!Capacities, Abs!WordBits, WordBits
<1>6. Abs!Reset
  BY <1>1, <1>2, <1>4, <1>5 DEF Abs!Reset, Abs!NoPacket
<1> QED BY <1>6 DEF Abs!Next

(***************************************************************************)
(* Every step of the stream is a step of WireSpec or changes none of its   *)
(* variables.                                                              *)
(***************************************************************************)
LEMMA StepWire ==
  IInv /\ IInv' /\ [Next]_vars => [Abs!Next]_Abs!abstractVars
<1> SUFFICES ASSUME IInv, IInv', [Next]_vars PROVE [Abs!Next]_Abs!abstractVars
  OBVIOUS
<1>1. CASE \/ \E op \in CheckedOps \cup RelOps : Begin(op)
           \/ \E op \in CheckedOps : Overflow(op)
           \/ Misuse
  BY <1>1, CallStartsWire
<1>2. CASE WritePiece \/ CopyBlock
  BY <1>2, PieceWire
<1>3. CASE PieceOverflow
  BY <1>3, PieceOverflowWire
<1>4. CASE Return
  BY <1>4, ReturnWire
<1>5. CASE Flush
  BY <1>5, FlushWire
<1>6. CASE \E words \in Buffers : Reset(words)
  BY <1>6, ResetWire
<1>7. CASE UNCHANGED vars
  BY <1>7 DEF vars, Abs!abstractVars, Wire, Packet, Data, Committed, BitAt, BytesProcessed
<1> QED BY <1>1, <1>2, <1>3, <1>4, <1>5, <1>6, <1>7 DEF Next

(***************************************************************************)
(* The stream implements WireSpec: the calls that returned are on the wire *)
(* one after the other and nothing else is, but for the part of an         *)
(* int_relative that had no room; a flush hands over exactly the wire.     *)
(***************************************************************************)
THEOREM Implementation == Spec => ImplementsWire
<1>1. Init => Abs!Init
  BY InitWire
<1>2. IInv /\ IInv' /\ [Next]_vars => [Abs!Next]_Abs!abstractVars
  BY StepWire
<1> QED BY <1>1, <1>2, InductiveInvariant, PTL DEF Spec, ImplementsWire, Abs!Spec

-----------------------------------------------------------------------------
(***************************************************************************)
(* Compressed floats: what rounding does to naturals first.  A natural in  *)
(* units, what is left rounded, a half to even.                            *)
(***************************************************************************)
InWhole(n, unit) == HalfEven(n \div unit, n % unit, unit)

(***************************************************************************)
(* A count of units is one of the two around the natural.                  *)
(***************************************************************************)
LEMMA WholeAround ==
  ASSUME NEW n \in Nat, NEW u \in Nat \ {0}
  PROVE  InWhole(n, u) \in Nat /\ n \div u <= InWhole(n, u) /\ InWhole(n, u) <= (n \div u) + 1
<1> DEFINE q == n \div u
           r == n % u
<1>1. q \in Nat /\ r \in 0..u-1
  BY DivMod
<1>2. InWhole(n, u) = HalfEven(q, r, u)
  BY DEF InWhole
<1> HIDE DEF q, r
<1>3. HalfEven(q, r, u) \in {q, q + 1}
  BY DEF HalfEven
<1> SUFFICES InWhole(n, u) \in Nat /\ q <= InWhole(n, u) /\ InWhole(n, u) <= q + 1
  BY DEF q
<1> QED BY <1>1, <1>2, <1>3

(***************************************************************************)
(* Whole units stay as they are.                                           *)
(***************************************************************************)
LEMMA WholeExact ==
  ASSUME NEW k \in Nat, NEW u \in Nat \ {0}
  PROVE  InWhole(k * u, u) = k
<1>1. k \in Int /\ 0 \in 0..u-1
  OBVIOUS
<1>2. (k * u + 0) % u = 0 /\ (k * u + 0) \div u = k
  BY <1>1, DivModUnique
<1>3. k * u + 0 = k * u
  OBVIOUS
<1>4. (k * u) % u = 0 /\ (k * u) \div u = k
  BY <1>2, <1>3
<1>5. InWhole(k * u, u) = HalfEven(k, 0, u)
  BY <1>4 DEF InWhole
<1>6. ~(0 > u - 0) /\ 0 # u - 0
  OBVIOUS
<1>7. HalfEven(k, 0, u) = k
  BY <1>6, Zenon DEF HalfEven
<1> QED BY <1>5, <1>7

(***************************************************************************)
(* More is not rounded to less.                                            *)
(***************************************************************************)
LEMMA WholeMonotone ==
  ASSUME NEW n \in Nat, NEW m \in Nat, NEW u \in Nat \ {0}, n <= m
  PROVE  InWhole(n, u) <= InWhole(m, u)
<1> DEFINE q == n \div u
           r == n % u
           p == m \div u
           s == m % u
           odd == p % 2
<1>1. /\ q \in Nat /\ r \in 0..u-1 /\ n = q * u + r
      /\ p \in Nat /\ s \in 0..u-1 /\ m = p * u + s
  BY DivMod
<1>2. InWhole(n, u) = HalfEven(q, r, u) /\ InWhole(m, u) = HalfEven(p, s, u)
  BY DEF InWhole
<1>3. /\ q <= InWhole(n, u) /\ InWhole(n, u) <= q + 1 /\ InWhole(n, u) \in Nat
      /\ p <= InWhole(m, u) /\ InWhole(m, u) <= p + 1 /\ InWhole(m, u) \in Nat
  BY WholeAround
<1> HIDE DEF q, r, p, s
<1>4. q <= p
  <2> SUFFICES ASSUME p + 1 <= q PROVE FALSE
    BY <1>1
  <2>1. (p + 1) * u <= q * u
    BY <1>1, Products
  <2>2. (p + 1) * u = p * u + u
    BY <1>1
  <2> QED BY <2>1, <2>2, <1>1
<1>5. CASE q < p
  BY <1>3, <1>5, <1>1
<1>6. CASE q = p
  <2>1. r <= s
    BY <1>1, <1>6
  <2>2. HalfEven(p, s, u) = IF s > u - s \/ (s = u - s /\ odd = 1) THEN p + 1 ELSE p
    BY Zenon DEF HalfEven
  <2>3. HalfEven(q, r, u) = IF r > u - r \/ (r = u - r /\ odd = 1) THEN p + 1 ELSE p
    BY <1>6, Zenon DEF HalfEven
  <2> HIDE DEF odd
  <2> QED BY <1>1, <1>2, <2>1, <2>2, <2>3
<1> QED BY <1>1, <1>4, <1>5, <1>6

(***************************************************************************)
(* What the precision, the unit and the largest exponent are.              *)
(***************************************************************************)
LEMMA FloatFormat ==
  /\ Precision \in Nat /\ Precision >= 2 /\ UnitBits \in Nat /\ TopBits \in Nat
  /\ Precision < TopBits /\ UnitBits < TopBits
  /\ 2^Precision \in Nat \ {0} /\ 2^(Precision-1) \in Nat \ {0}
  /\ 2^Precision = 2^(Precision-1) + 2^(Precision-1)
  /\ One \in Nat \ {0} /\ Infinity \in Nat \ {0} /\ One < Infinity
<1>1. /\ Precision \in Nat /\ Precision >= 2 /\ UnitBits \in Nat /\ TopBits \in Nat
      /\ Precision < TopBits /\ UnitBits < TopBits
  BY FloatsAssumption
<1>2. Precision - 1 \in Nat /\ (Precision - 1) + 1 = Precision
  BY <1>1
<1>3. 2^Precision = 2^(Precision-1) + 2^(Precision-1)
  BY <1>2, PowerDoubles
<1>4. 2^Precision \in Nat \ {0} /\ 2^(Precision-1) \in Nat \ {0}
  BY <1>1, <1>2, Powers
<1>5. One \in Nat \ {0} /\ Infinity \in Nat \ {0}
  BY <1>1, Powers DEF One, Infinity
<1>6. UnitBits + 1 \in Nat /\ UnitBits + 1 <= TopBits
  BY <1>1
<1>7. 2^(UnitBits + 1) = One + One /\ 2^(UnitBits + 1) <= Infinity
  BY <1>1, <1>6, PowerDoubles, PowerOrder DEF One, Infinity
<1> QED BY <1>1, <1>3, <1>4, <1>5, <1>7

(***************************************************************************)
(* Every number an operation rounds is less than this.                     *)
(***************************************************************************)
Reach == 2^(2*TopBits)

(***************************************************************************)
(* It is the square of Infinity.                                           *)
(***************************************************************************)
LEMMA ReachIs == Reach \in Nat \ {0} /\ Reach = Infinity * Infinity /\ Infinity + Infinity <= Reach
<1>1. TopBits \in Nat /\ TopBits >= 3 /\ 2 * TopBits = TopBits + TopBits
  BY FloatFormat
<1>2. Reach = Infinity * Infinity
  BY <1>1, PowerOfSum DEF Reach, Infinity
<1>3. Infinity \in Nat /\ TopBits < Infinity
  BY <1>1, Powers DEF Infinity
<1>4. Infinity >= 2
  BY <1>1, <1>3
<1> DEFINE f == Infinity
<1> HIDE DEF f
<1>5. f \in Nat /\ f >= 2
  BY <1>3, <1>4 DEF f
<1>6. f * f \in Nat \ {0} /\ f + f <= f * f
  <2>1. 2 * f <= f * f
    BY <1>5
  <2> QED BY <2>1, <1>5
<1> QED BY <1>2, <1>6 DEF f

(***************************************************************************)
(* The length of a natural is the least power of two above it.             *)
(***************************************************************************)
LEMMA LengthIs ==
  ASSUME NEW n \in Nat, n < Reach
  PROVE  /\ Length(n) \in Nat /\ n < 2^Length(n)
         /\ Length(n) > 0 => 2^(Length(n)-1) <= n
<1> DEFINE k == BitsRequired(n)
<1>1. k \in Nat /\ n < 2^k /\ (n # 0 => k # 0 /\ 2^(k-1) <= n)
  BY BitsRequiredFits
<1>2. n = 0 => k = 0
  BY DEF BitsRequired
<1> HIDE DEF k
<1>3. k # 0 => 2^(k-1) <= n
  BY <1>1, <1>2
<1>4. k <= 2 * TopBits
  <2> SUFFICES ASSUME k >= 2 * TopBits + 1 PROVE FALSE
    BY <1>1, FloatFormat
  <2>1. 2 * TopBits \in Nat /\ k - 1 \in Nat /\ 2 * TopBits <= k - 1
    BY <1>1, FloatFormat
  <2>2. Reach <= 2^(k-1)
    BY <2>1, PowerOrder DEF Reach
  <2>3. 2^(k-1) <= n
    BY <2>1, <1>3
  <2>4. 2^(k-1) \in Nat /\ Reach \in Nat
    BY <2>1, Powers, ReachIs
  <2> QED BY <2>2, <2>3, <2>4
<1> DEFINE Is(b) == (b = 0 \/ 2^(b-1) <= n) /\ n < 2^b
           all == 0..2*TopBits
<1>5. k \in all /\ Is(k)
  BY <1>1, <1>3, <1>4, FloatFormat
<1>6. Length(n) = CHOOSE b \in all : Is(b)
  BY Zenon DEF Length
<1>7. all \subseteq Nat
  OBVIOUS
<1> HIDE DEF Is, all
<1>8. Length(n) \in all /\ Is(Length(n))
  BY <1>5, <1>6, Zenon
<1>9. Length(n) \in Nat
  BY <1>7, <1>8
<1> QED BY <1>8, <1>9 DEF Is

(***************************************************************************)
(* How many bits a quotient has too many for a significand.                *)
(***************************************************************************)
Place(n, d) == Excess(Length(n \div d))

(***************************************************************************)
(* The nearest float is the count of units of the last place, which has    *)
(* a significand's bits, and no fewer unless nothing was in excess.        *)
(***************************************************************************)
LEMMA NearestIs ==
  ASSUME NEW n \in Nat, NEW d \in Nat \ {0}, n < Reach
  PROVE  /\ Place(n, d) \in Nat
         /\ d * 2^Place(n, d) \in Nat \ {0}
         /\ Nearest(n, d) = OrInfinity(InWhole(n, d * 2^Place(n, d)) * 2^Place(n, d))
         /\ n < 2^Precision * (d * 2^Place(n, d))
         /\ Place(n, d) > 0 => 2^(Precision-1) * (d * 2^Place(n, d)) <= n
<1> DEFINE q == n \div d
           k == Length(q)
           e == Place(n, d)
           t == 2^e
           u == d * t
<1>1. q \in Nat /\ q < Reach /\ q * d <= n /\ n < (q + 1) * d
  <2>1. q \in Nat /\ n % d \in 0..d-1 /\ n = q * d + (n % d)
    BY DivMod
  <2> DEFINE r == n % d
  <2> HIDE DEF q, r
  <2>2. q \in Nat /\ r \in 0..d-1 /\ n = q * d + r
    BY <2>1 DEF r
  <2>3. (q + 1) * d = q * d + d
    BY <2>2
  <2>4. q * 1 <= q * d /\ q * 1 = q
    BY <2>2
  <2> QED BY <2>2, <2>3, <2>4, ReachIs
<1> HIDE DEF q
<1>2. k \in Nat /\ q < 2^k /\ (k > 0 => 2^(k-1) <= q)
  BY <1>1, LengthIs
<1>3. e = IF k > Precision THEN k - Precision ELSE 0
  BY Zenon DEF Place, Excess, q
<1> HIDE DEF k, e
<1>4. e \in Nat /\ k <= Precision + e /\ (e > 0 => k = Precision + e)
  BY <1>2, <1>3, FloatFormat
<1>5. t \in Nat \ {0}
  BY <1>4, Powers
<1>6. 2^(Precision + e) = 2^Precision * t
  BY <1>4, FloatFormat, PowerOfSum
<1>7. 2^k <= 2^(Precision + e)
  BY <1>2, <1>4, FloatFormat, PowerOrder
<1>8. e > 0 => 2^(k-1) = 2^(Precision-1) * t
  <2> SUFFICES ASSUME e > 0 PROVE 2^(k-1) = 2^(Precision-1) * t
    OBVIOUS
  <2>1. k - 1 = (Precision - 1) + e /\ Precision - 1 \in Nat
    BY <1>2, <1>4, FloatFormat
  <2>2. 2^((Precision - 1) + e) = 2^(Precision-1) * t
    BY <1>4, <2>1, PowerOfSum
  <2> QED BY <2>1, <2>2
<1> DEFINE a == 2^Precision
           b == 2^(Precision-1)
           c == 2^k
<1>9. a \in Nat /\ b \in Nat /\ c \in Nat
  BY <1>2, FloatFormat, Powers
<1>10. c <= a * t /\ q < c
  BY <1>2, <1>6, <1>7
<1>11. e > 0 => b * t <= q
  BY <1>2, <1>4, <1>8, FloatFormat
<1>12. u \div d = t
  <2>1. t \in Int /\ 0 \in 0..d-1
    BY <1>5
  <2>2. (t * d + 0) \div d = t
    BY <2>1, DivModUnique
  <2> HIDE DEF t
  <2>3. t * d + 0 = d * t
    BY <1>5
  <2> QED BY <2>2, <2>3, Zenon
<1>13. Nearest(n, d) = OrInfinity(InWhole(n, u) * (u \div d))
  BY Zenon DEF Nearest, InUnits, InWhole, Place, e
<1> HIDE DEF a, b, c, t
<1>14. u \in Nat \ {0}
  BY <1>5
<1>15. n < a * u
  <2>1. q + 1 <= a * t
    BY <1>1, <1>5, <1>9, <1>10
  <2>2. (q + 1) * d <= (a * t) * d
    BY <2>1, <1>1, <1>5, <1>9, Products
  <2>3. (a * t) * d = a * u
    BY <1>5, <1>9
  <2>4. (q + 1) * d \in Nat /\ a * u \in Nat
    BY <1>1, <1>9, <1>14
  <2> QED BY <1>1, <2>2, <2>3, <2>4
<1>16. e > 0 => b * u <= n
  <2> SUFFICES ASSUME e > 0 PROVE b * u <= n
    OBVIOUS
  <2>1. b * t \in Int /\ b * t <= q
    BY <1>5, <1>9, <1>11
  <2>2. (b * t) * d <= q * d
    BY <2>1, <1>1, Products
  <2>3. (b * t) * d = b * u
    BY <1>5, <1>9
  <2>4. q * d \in Nat /\ b * u \in Nat
    BY <1>1, <1>9, <1>14
  <2> QED BY <1>1, <2>2, <2>3, <2>4
<1>17. Nearest(n, d) = OrInfinity(InWhole(n, u) * t)
  BY <1>12, <1>13, Zenon
<1> HIDE DEF u
<1>18. e \in Nat /\ u \in Nat \ {0} /\ Nearest(n, d) = OrInfinity(InWhole(n, u) * t)
       /\ n < a * u /\ (e > 0 => b * u <= n)
  BY <1>4, <1>14, <1>15, <1>16, <1>17
<1> QED BY <1>18, Zenon DEF a, b, t, u, e

(***************************************************************************)
(* The significand, with the bit a carry may bring.                        *)
(***************************************************************************)
LEMMA Significand ==
  ASSUME NEW n \in Nat, NEW u \in Nat \ {0}, n < 2^Precision * u
  PROVE  /\ InWhole(n, u) \in Nat /\ InWhole(n, u) <= 2^Precision
         /\ 2^(Precision-1) * u <= n => 2^(Precision-1) <= InWhole(n, u)
<1> DEFINE a == 2^Precision
           b == 2^(Precision-1)
<1>1. a \in Nat /\ b \in Nat
  BY FloatFormat
<1> HIDE DEF a, b
<1>2. n < a * u
  BY DEF a
<1>3. InWhole(n, u) \in Nat
  BY WholeAround
<1>4. a * u \in Nat /\ b * u \in Nat
  BY <1>1
<1>5. InWhole(a * u, u) = a /\ InWhole(b * u, u) = b
  BY <1>1, WholeExact
<1>6. n <= a * u
  BY <1>2, <1>4
<1>7. InWhole(n, u) <= a
  BY <1>4, <1>5, <1>6, WholeMonotone
<1>8. b * u <= n => b <= InWhole(n, u)
  BY <1>4, <1>5, WholeMonotone
<1> QED BY <1>3, <1>7, <1>8 DEF a, b

(***************************************************************************)
(* What overflows is Infinity, which is more than any float.               *)
(***************************************************************************)
LEMMA OrInfinityMonotone ==
  ASSUME NEW n \in Nat, NEW m \in Nat, n <= m
  PROVE  OrInfinity(n) \in Nat /\ OrInfinity(n) <= OrInfinity(m)
BY FloatFormat DEF OrInfinity

(***************************************************************************)
(* Nothing is below a significand of its place, and so what is of a higher *)
(* place is not rounded to less than what is of a lower one.               *)
(***************************************************************************)
LEMMA NearestMonotone ==
  ASSUME NEW n \in Nat, NEW m \in Nat, NEW d \in Nat \ {0}, n <= m, m < Reach
  PROVE  Nearest(n, d) \in Nat /\ Nearest(n, d) <= Nearest(m, d)
<1> DEFINE e == Place(n, d)
           f == Place(m, d)
           a == 2^Precision
           b == 2^(Precision-1)
           s == 2^e
           t == 2^f
           u == d * s
           v == d * t
           h == InWhole(n, u)
           k == InWhole(m, v)
<1>1. a \in Nat \ {0} /\ b \in Nat \ {0} /\ a = b + b
  BY FloatFormat
<1>2. n < Reach
  BY ReachIs
<1>3. /\ e \in Nat /\ u \in Nat \ {0} /\ Nearest(n, d) = OrInfinity(h * s)
      /\ n < a * u /\ (e > 0 => b * u <= n)
  BY <1>2, NearestIs
<1>4. /\ f \in Nat /\ v \in Nat \ {0} /\ Nearest(m, d) = OrInfinity(k * t)
      /\ m < a * v /\ (f > 0 => b * v <= m)
  BY NearestIs
<1>5. s \in Nat \ {0} /\ t \in Nat \ {0}
  BY <1>3, <1>4, Powers
<1>6. h \in Nat /\ h <= a
  BY <1>3, Significand
<1>7. k \in Nat /\ (f > 0 => b <= k)
  BY <1>4, Significand
<1>8. e < f => s + s <= t
  <2> SUFFICES ASSUME e < f PROVE s + s <= t
    OBVIOUS
  <2>1. e + 1 \in Nat /\ e + 1 <= f
    BY <1>3, <1>4
  <2> QED BY <2>1, <1>3, <1>4, PowerDoubles, PowerOrder
<1>9. f < e => t + t <= s
  <2> SUFFICES ASSUME f < e PROVE t + t <= s
    OBVIOUS
  <2>1. f + 1 \in Nat /\ f + 1 <= e
    BY <1>3, <1>4
  <2> QED BY <2>1, <1>3, <1>4, PowerDoubles, PowerOrder
<1>10. e = f => h <= k
  BY <1>3, WholeMonotone
<1>11. e = f => s = t
  OBVIOUS
<1> HIDE DEF e, f, a, b, s, t, h, k
<1>12. h * s \in Nat /\ k * t \in Nat
  BY <1>5, <1>6, <1>7
<1>13. CASE e = f
  <2>1. h * s <= k * s
    BY <1>13, <1>5, <1>6, <1>7, <1>10, Products
  <2>2. h * s <= k * t
    BY <2>1, <1>11, <1>13
  <2> QED BY <2>2, <1>12, <1>3, <1>4, OrInfinityMonotone
<1>14. CASE e < f
  <2>1. h * s <= a * s
    BY <1>1, <1>5, <1>6, Products
  <2>2. a * s = b * (s + s)
    BY <1>1, <1>5
  <2>3. b * (s + s) <= b * t
    BY <1>1, <1>5, <1>8, <1>14
  <2>4. b * t <= k * t
    BY <1>1, <1>3, <1>4, <1>5, <1>7, <1>14, Products
  <2>5. a * s \in Nat /\ b * t \in Nat /\ b * (s + s) \in Nat
    BY <1>1, <1>5
  <2>6. h * s <= k * t
    BY <2>1, <2>2, <2>3, <2>4, <2>5, <1>12
  <2> QED BY <2>6, <1>12, <1>3, <1>4, OrInfinityMonotone
<1>15. CASE f < e
  <2>1. b * u <= n /\ m < a * v
    BY <1>3, <1>4, <1>15
  <2>2. d * (t + t) <= d * s
    BY <1>5, <1>9, <1>15
  <2>3. d * (t + t) = v + v
    BY <1>5
  <2>4. v + v <= u
    BY <2>2, <2>3
  <2> HIDE DEF u, v
  <2>5. b * (v + v) <= b * u
    BY <1>1, <1>3, <1>4, <2>4
  <2>6. b * (v + v) = a * v
    BY <1>1, <1>4
  <2>7. a * v \in Nat /\ b * u \in Nat
    BY <1>1, <1>3, <1>4
  <2>8. FALSE
    BY <2>1, <2>5, <2>6, <2>7
  <2> QED BY <2>8
<1> QED BY <1>3, <1>4, <1>13, <1>14, <1>15

(***************************************************************************)
(* The finite magnitudes: a significand of the precision, times a power of *)
(* two.  A rounding gives one of them, or Infinity, and leaves each as it  *)
(* is.                                                                     *)
(***************************************************************************)
Exponents == 0..TopBits-Precision
Significands == 0..2^Precision-1
Scales == {m \in Nat : \E s \in Significands, j \in Exponents : m = s * 2^j}

(***************************************************************************)
(* A significand times a power of two is one of them.                      *)
(***************************************************************************)
LEMMA ScaleOf ==
  ASSUME NEW s \in Significands, NEW j \in Exponents
  PROVE  s * 2^j \in Scales
<1>1. s \in Nat /\ j \in Nat
  BY FloatFormat DEF Significands, Exponents
<1>2. 2^j \in Nat
  BY <1>1, Powers
<1>3. s * 2^j \in Nat
  BY <1>1, <1>2
<1> QED BY <1>3 DEF Scales

(***************************************************************************)
(* And is below Infinity.                                                  *)
(***************************************************************************)
LEMMA ScalesBelow ==
  ASSUME NEW s \in Significands, NEW j \in Exponents
  PROVE  s * 2^j \in Nat /\ s * 2^j < Infinity
<1> DEFINE a == 2^Precision
           t == 2^j
           w == 2^(TopBits - Precision)
<1>1. j \in Nat /\ TopBits - Precision \in Nat /\ j <= TopBits - Precision
  BY FloatFormat DEF Exponents
<1>2. t \in Nat \ {0} /\ w \in Nat \ {0} /\ t <= w
  BY <1>1, Powers, PowerOrder
<1>3. a * w = Infinity
  <2>1. Precision + (TopBits - Precision) = TopBits
    BY FloatFormat
  <2> QED BY <1>1, <2>1, FloatFormat, PowerOfSum DEF Infinity
<1>4. a \in Nat /\ s \in Nat /\ s < a
  BY FloatFormat DEF Significands
<1> HIDE DEF a, t, w
<1>5. s * t < a * t
  BY <1>2, <1>4, Products
<1>6. a * t <= a * w
  BY <1>2, <1>4
<1>7. s * t \in Nat /\ a * t \in Nat /\ a * w \in Nat
  BY <1>2, <1>4
<1>8. s * t < Infinity
  BY <1>3, <1>5, <1>6, <1>7
<1> QED BY <1>7, <1>8 DEF t

(***************************************************************************)
(* So the finite magnitudes are naturals below Infinity.                   *)
(***************************************************************************)
LEMMA ScaleType == \A m \in Scales : m \in Nat /\ m < Infinity
BY ScalesBelow DEF Scales

(***************************************************************************)
(* The powers of two below Infinity are finite magnitudes.                 *)
(***************************************************************************)
LEMMA PowersAreScales ==
  ASSUME NEW k \in Nat, k < TopBits
  PROVE  2^k \in Scales
<1>1. CASE k <= TopBits - Precision
  <2>1. k \in Exponents /\ 1 \in Significands
    BY <1>1, FloatFormat DEF Exponents, Significands
  <2>2. 2^k \in Nat
    BY Powers
  <2>3. 2^k = 1 * 2^k
    BY <2>2
  <2> QED BY <2>1, <2>3, ScaleOf
<1>2. CASE k > TopBits - Precision
  <2> DEFINE w == TopBits - Precision
             i == k - w
  <2>1. w \in Nat /\ w \in Exponents /\ i \in Nat /\ i <= Precision - 1 /\ i + w = k
    BY <1>2, FloatFormat DEF Exponents
  <2> HIDE DEF w, i
  <2>2. 2^k = 2^i * 2^w
    BY <2>1, PowerOfSum
  <2>3. 2^i \in Nat /\ 2^i <= 2^(Precision-1)
    BY <2>1, FloatFormat, Powers, PowerOrder
  <2>4. 2^i \in Significands
    BY <2>3, FloatFormat DEF Significands
  <2> QED BY <2>1, <2>2, <2>4, ScaleOf
<1> QED BY <1>1, <1>2, FloatFormat

(***************************************************************************)
(* A finite magnitude is the float nearest to it.                          *)
(***************************************************************************)
LEMMA NearestExact ==
  ASSUME NEW m \in Scales, NEW d \in Nat \ {0}, m * d < Reach
  PROVE  Nearest(m * d, d) = m
<1>1. PICK s \in Significands, j \in Exponents : m = s * 2^j
  BY DEF Scales
<1> DEFINE n == m * d
           e == Place(n, d)
           a == 2^Precision
           b == 2^(Precision-1)
           t == 2^e
           x == 2^j
           u == d * t
<1>2. m \in Nat /\ m < Infinity
  BY ScaleType
<1>3. n \in Nat
  BY <1>2
<1>4. /\ e \in Nat /\ u \in Nat \ {0} /\ Nearest(n, d) = OrInfinity(InWhole(n, u) * t)
      /\ n < a * u /\ (e > 0 => b * u <= n)
  BY <1>3, NearestIs
<1>5. a \in Nat \ {0} /\ b \in Nat \ {0} /\ a = b + b /\ s \in Nat /\ s < a /\ j \in Nat
  BY FloatFormat DEF Significands, Exponents
<1>6. t \in Nat \ {0} /\ x \in Nat \ {0}
  BY <1>4, <1>5, Powers
<1>7. j < e => x + x <= t
  <2> SUFFICES ASSUME j < e PROVE x + x <= t
    OBVIOUS
  <2>1. j + 1 \in Nat /\ j + 1 <= e
    BY <1>4, <1>5
  <2> QED BY <2>1, <1>4, <1>5, PowerDoubles, PowerOrder
<1>8. e <= j => x = 2^(j-e) * t
  <2> SUFFICES ASSUME e <= j PROVE x = 2^(j-e) * t
    OBVIOUS
  <2>1. j - e \in Nat /\ (j - e) + e = j
    BY <1>4, <1>5
  <2>2. 2^((j-e) + e) = 2^(j-e) * t
    BY <1>4, <2>1, PowerOfSum
  <2> QED BY <2>1, <2>2, Zenon
<1>9. m = s * x
  BY <1>1
<1> HIDE DEF e, a, b, x
<1>10. e <= j
  <2> SUFFICES ASSUME j < e PROVE FALSE
    BY <1>4, <1>5
  <2>1. b * u <= n
    BY <1>4, <1>5
  <2> HIDE DEF t, u
  <2>2. u = d * t
    BY DEF u
  <2>3. b * (x + x) <= b * t
    BY <1>5, <1>6, <1>7
  <2>4. b * (x + x) = a * x
    BY <1>5, <1>6
  <2>5. s * x < a * x
    BY <1>5, <1>6, Products
  <2>6. b * t \in Nat /\ a * x \in Nat
    BY <1>5, <1>6
  <2>7. m < b * t
    BY <1>2, <1>9, <2>3, <2>4, <2>5, <2>6
  <2>8. m * d < (b * t) * d
    BY <2>6, <2>7, <1>2, Products
  <2>9. (b * t) * d = b * u
    BY <2>2, <1>5, <1>6
  <2>10. (b * t) * d \in Nat /\ n \in Nat
    BY <2>6, <1>3
  <2> QED BY <2>1, <2>8, <2>9, <2>10
<1> DEFINE c == 2^(j-e)
           k == s * c
<1>11. c \in Nat
  BY <1>4, <1>5, <1>10, Powers
<1>12. x = c * t
  BY <1>8, <1>10
<1> HIDE DEF t, c
<1>13. k \in Nat /\ m = k * t
  BY <1>5, <1>6, <1>9, <1>11, <1>12
<1> HIDE DEF k
<1>14. n = k * u
  BY <1>6, <1>13
<1>15. InWhole(n, u) = k
  BY <1>4, <1>13, <1>14, WholeExact
<1>16. Nearest(n, d) = OrInfinity(m)
  BY <1>4, <1>13, <1>15
<1>17. OrInfinity(m) = m
  BY <1>2 DEF OrInfinity
<1> QED BY <1>16, <1>17

(***************************************************************************)
(* And what is nearest to anything is a finite magnitude or Infinity.      *)
(***************************************************************************)
LEMMA NearestRepresentable ==
  ASSUME NEW n \in Nat, NEW d \in Nat \ {0}, n < Reach
  PROVE  Nearest(n, d) \in Scales \cup {Infinity}
<1> DEFINE e == Place(n, d)
           a == 2^Precision
           b == 2^(Precision-1)
           t == 2^e
           u == d * t
           h == InWhole(n, u)
<1>1. /\ e \in Nat /\ u \in Nat \ {0} /\ Nearest(n, d) = OrInfinity(h * t)
      /\ n < a * u /\ (e > 0 => b * u <= n)
  BY NearestIs
<1>2. h \in Nat /\ h <= a /\ (e > 0 => b <= h)
  BY <1>1, Significand
<1>3. a \in Nat \ {0} /\ b \in Nat \ {0} /\ a = b + b
  BY FloatFormat
<1>4. t \in Nat \ {0}
  BY <1>1, Powers
<1>5. a * t = 2^(Precision + e)
  BY <1>1, FloatFormat, PowerOfSum
<1>6. e > TopBits - Precision => Infinity <= b * t
  <2> SUFFICES ASSUME e > TopBits - Precision PROVE Infinity <= b * t
    OBVIOUS
  <2>1. (Precision - 1) + e \in Nat /\ TopBits <= (Precision - 1) + e /\ Precision - 1 \in Nat
    BY <1>1, FloatFormat
  <2>2. 2^((Precision - 1) + e) = b * t
    BY <1>1, <2>1, PowerOfSum
  <2> QED BY <2>1, <2>2, FloatFormat, PowerOrder DEF Infinity
<1>7. a * t < Infinity => Precision + e < TopBits
  <2> SUFFICES ASSUME TopBits <= Precision + e PROVE ~(a * t < Infinity)
    BY <1>1, FloatFormat
  <2>1. Infinity <= 2^(Precision + e)
    BY <1>1, FloatFormat, PowerOrder DEF Infinity
  <2>2. a * t \in Nat
    BY <1>3, <1>4
  <2> QED BY <2>1, <2>2, <1>5, FloatFormat
<1> SUFFICES ASSUME h * t < Infinity PROVE h * t \in Scales
  BY <1>1 DEF OrInfinity
<1>8. CASE h = a
  <2>1. 2^(Precision + e) \in Scales
    BY <1>1, <1>7, <1>8, FloatFormat, PowersAreScales
  <2> QED BY <2>1, <1>5, <1>8
<1>9. CASE h # a
  <2>1. h \in Significands
    BY <1>2, <1>3, <1>9 DEF Significands
  <2>2. e <= TopBits - Precision
    <3> SUFFICES ASSUME e > TopBits - Precision PROVE FALSE
      BY <1>1, FloatFormat
    <3>1. e > 0 /\ Infinity <= b * t
      BY <1>1, <1>6, FloatFormat
    <3> HIDE DEF e, t, h, b, a
    <3>2. b * t <= h * t
      BY <1>2, <1>3, <1>4, <3>1, Products
    <3>3. b * t \in Nat /\ h * t \in Nat
      BY <1>2, <1>3, <1>4
    <3> QED BY <3>1, <3>2, <3>3, FloatFormat
  <2>3. e \in Exponents
    BY <1>1, <2>2, FloatFormat DEF Exponents
  <2> QED BY <2>1, <2>3, ScaleOf
<1> QED BY <1>8, <1>9

(***************************************************************************)
(* With signs: the floats that are numbers, and what an operation may      *)
(* round.  Rounding keeps order, and leaves a finite float as it is.       *)
(***************************************************************************)
FiniteFloats == Scales \cup {-m : m \in Scales}
Rounded == FiniteFloats \cup {Infinity, -Infinity}
Roundable == {n \in Int : -Reach < n /\ n < Reach}

(***************************************************************************)
(* The finite floats lie between the infinities, and have negatives.       *)
(***************************************************************************)
LEMMA FiniteRange == \A x \in FiniteFloats : x \in Int /\ -Infinity < x /\ x < Infinity /\ -x \in FiniteFloats
<1>1. ASSUME NEW x \in Scales PROVE x \in Int /\ -Infinity < x /\ x < Infinity /\ -x \in FiniteFloats
  BY ScaleType, FloatFormat DEF FiniteFloats
<1>2. ASSUME NEW x \in Scales PROVE -x \in Int /\ -Infinity < -x /\ -x < Infinity /\ -(-x) = x
  BY ScaleType, FloatFormat
<1> QED BY <1>1, <1>2 DEF FiniteFloats

(***************************************************************************)
(* Rounding is that of the magnitude, with the sign put back.              *)
(***************************************************************************)
LEMMA RoundIs ==
  ASSUME NEW n \in Roundable, NEW d \in Nat \ {0}
  PROVE  /\ Magnitude(n) \in Nat /\ Magnitude(n) < Reach
         /\ n >= 0 => Round(n, d) = Nearest(n, d)
         /\ n < 0 => -n \in Nat /\ -n < Reach /\ Round(n, d) = -Nearest(-n, d)
<1>1. n \in Int /\ -Reach < n /\ n < Reach
  BY DEF Roundable
<1> QED BY <1>1, ReachIs DEF Round, Magnitude, WithSign

(***************************************************************************)
(* Rounding gives a float, or an infinity.                                 *)
(***************************************************************************)
LEMMA RoundType ==
  ASSUME NEW n \in Roundable, NEW d \in Nat \ {0}
  PROVE  Round(n, d) \in Rounded /\ Round(n, d) \in Int
<1>1. n \in Int /\ Infinity \in Nat
  BY FloatFormat DEF Roundable
<1>2. CASE n >= 0
  <2>1. n \in Nat /\ n < Reach
    BY <1>1, <1>2 DEF Roundable
  <2>2. Nearest(n, d) \in Scales \cup {Infinity}
    BY <2>1, NearestRepresentable
  <2>3. Round(n, d) = Nearest(n, d)
    BY <1>2, RoundIs
  <2> QED BY <2>2, <2>3, <1>1, ScaleType DEF Rounded, FiniteFloats
<1>3. CASE n < 0
  <2>1. -n \in Nat /\ -n < Reach /\ Round(n, d) = -Nearest(-n, d)
    BY <1>3, RoundIs
  <2>2. Nearest(-n, d) \in Scales \cup {Infinity}
    BY <2>1, NearestRepresentable
  <2> QED BY <2>1, <2>2, <1>1, ScaleType DEF Rounded, FiniteFloats
<1> QED BY <1>1, <1>2, <1>3

(***************************************************************************)
(* Rounding keeps order, across zero too.                                  *)
(***************************************************************************)
LEMMA RoundMonotone ==
  ASSUME NEW n \in Roundable, NEW m \in Roundable, NEW d \in Nat \ {0}, n <= m
  PROVE  Round(n, d) <= Round(m, d)
<1>1. n \in Int /\ m \in Int /\ m < Reach
  BY DEF Roundable
<1>2. CASE n >= 0
  <2>1. n \in Nat /\ m \in Nat /\ m >= 0
    BY <1>1, <1>2
  <2>2. Round(n, d) = Nearest(n, d) /\ Round(m, d) = Nearest(m, d)
    BY <1>2, <2>1, RoundIs
  <2> QED BY <1>1, <2>1, <2>2, NearestMonotone
<1>3. CASE m < 0
  <2>1. n < 0
    BY <1>1, <1>3
  <2>2. /\ -n \in Nat /\ -n < Reach /\ Round(n, d) = -Nearest(-n, d)
        /\ -m \in Nat /\ -m < Reach /\ Round(m, d) = -Nearest(-m, d)
    BY <1>3, <2>1, RoundIs
  <2>3. -m <= -n
    BY <1>1
  <2>4. Nearest(-m, d) \in Nat /\ Nearest(-m, d) <= Nearest(-n, d) /\ Nearest(-n, d) \in Nat
    BY <2>2, <2>3, NearestMonotone
  <2> QED BY <2>2, <2>4
<1>4. CASE n < 0 /\ m >= 0
  <2>1. -n \in Nat /\ -n < Reach /\ Round(n, d) = -Nearest(-n, d)
    BY <1>4, RoundIs
  <2>2. m \in Nat /\ Round(m, d) = Nearest(m, d)
    BY <1>1, <1>4, RoundIs
  <2>3. Nearest(-n, d) \in Nat /\ Nearest(m, d) \in Nat
    BY <1>1, <2>1, <2>2, NearestMonotone
  <2> QED BY <2>1, <2>2, <2>3
<1> QED BY <1>1, <1>2, <1>3, <1>4

(***************************************************************************)
(* A finite float is what it is rounded to.                                *)
(***************************************************************************)
LEMMA RoundExact ==
  ASSUME NEW x \in FiniteFloats, NEW d \in Nat \ {0}, x * d \in Roundable
  PROVE  Round(x * d, d) = x
<1>1. CASE x \in Scales
  <2>1. x \in Nat /\ x * d >= 0 /\ x * d < Reach
    BY <1>1, ScaleType DEF Roundable
  <2>2. Round(x * d, d) = Nearest(x * d, d)
    BY <2>1, RoundIs
  <2> QED BY <1>1, <2>1, <2>2, NearestExact
<1>2. CASE x \notin Scales
  <2>1. PICK m \in Scales : x = -m
    BY <1>2 DEF FiniteFloats
  <2>2. m \in Nat
    BY ScaleType
  <2>3. m # 0
    BY <1>2, <2>1
  <2>4. x * d = -(m * d) /\ m * d \in Nat /\ m * d > 0
    BY <2>1, <2>2, <2>3
  <2>5. x * d < 0 /\ -(x * d) = m * d
    BY <2>4
  <2>6. m * d < Reach /\ Round(x * d, d) = -Nearest(m * d, d)
    BY <2>5, RoundIs
  <2> QED BY <2>1, <2>6, NearestExact
<1> QED BY <1>1, <1>2

(***************************************************************************)
(* The floats of the model are these, and NaN.                             *)
(***************************************************************************)
LEMMA FloatsAre == Floats \subseteq Rounded \cup {NaN}
<1>1. ASSUME NEW m \in 0..2^Precision-1 PROVE m \in Scales
  <2>1. m \in Significands /\ 0 \in Exponents /\ m \in Nat
    BY FloatFormat DEF Significands, Exponents
  <2>2. m * 2^0 = m
    BY <2>1, Powers
  <2>3. m * 2^0 \in Scales
    BY <2>1, ScaleOf
  <2> QED BY <2>2, <2>3
<1>2. ASSUME NEW e \in 1..TopBits-Precision, NEW m \in 2^(Precision-1)..2^Precision-1
      PROVE  m * 2^e \in Scales
  <2>1. m \in Significands /\ e \in Exponents
    BY FloatFormat DEF Significands, Exponents
  <2> QED BY <2>1, ScaleOf
<1>3. Magnitudes \subseteq Scales
  BY <1>1, <1>2 DEF Magnitudes
<1> QED BY <1>3 DEF Floats, Finite, FiniteFloats, Rounded

(***************************************************************************)
(* NaN is none of the numbers.                                             *)
(***************************************************************************)
LEMMA NaNApart == NaN \in Int /\ NaN > Infinity /\ NaN \notin Rounded /\ ~IsFinite(NaN)
<1>1. NaN \in Int /\ NaN > Infinity
  BY FloatFormat DEF NaN
<1>2. NaN \notin FiniteFloats
  BY <1>1, FiniteRange, FloatFormat
<1> QED BY <1>1, <1>2, FloatFormat DEF Rounded, IsFinite

(***************************************************************************)
(* What the code asks of a float's bits is whether it is a finite float.   *)
(***************************************************************************)
LEMMA FiniteIs == \A x \in Rounded : x \in Int /\ -Infinity <= x /\ x <= Infinity
                                     /\ (IsFinite(x) <=> x \in FiniteFloats)
BY FiniteRange, FloatFormat DEF Rounded, IsFinite

(***************************************************************************)
(* The same of any float, NaN included.                                    *)
(***************************************************************************)
LEMMA FiniteOnly == \A x \in Floats : IsFinite(x) <=> x \in FiniteFloats
<1>1. NaN \notin FiniteFloats
  BY NaNApart DEF Rounded
<1> QED BY <1>1, FloatsAre, NaNApart, FiniteIs

(***************************************************************************)
(* Zero, one and a half are floats.                                        *)
(***************************************************************************)
LEMMA SmallFloats ==
  /\ 0 \in FiniteFloats /\ One \in FiniteFloats
  /\ One \div 2 \in FiniteFloats /\ 0 <= One \div 2 /\ One \div 2 < One
<1>1. 0 \in Scales
  <2>1. 0 \in Significands /\ 0 \in Exponents
    BY FloatFormat DEF Significands, Exponents
  <2>2. 0 * 2^0 = 0
    BY Powers
  <2>3. 0 * 2^0 \in Scales
    BY <2>1, ScaleOf
  <2> QED BY <2>2, <2>3
<1>2. One \in Scales
  BY FloatFormat, PowersAreScales DEF One
<1>3. One \div 2 \in Scales
  <2>1. CASE UnitBits = 0
    <3>1. One = 1
      BY <2>1, Powers DEF One
    <3>2. One \div 2 = 0
      BY <3>1
    <3> QED BY <1>1, <3>2
  <2>2. CASE UnitBits # 0
    <3>1. UnitBits - 1 \in Nat /\ UnitBits - 1 < TopBits /\ (UnitBits - 1) + 1 = UnitBits
      BY <2>2, FloatFormat
    <3> DEFINE c == 2^(UnitBits - 1)
    <3>2. c \in Nat /\ 2^((UnitBits - 1) + 1) = c + c
      BY <3>1, PowerDoubles
    <3>3. One = c + c
      BY <3>1, <3>2, Zenon DEF One
    <3>4. c \in Scales
      BY <3>1, PowersAreScales
    <3> HIDE DEF c
    <3>5. One \div 2 = c
      BY <3>2, <3>3
    <3> QED BY <3>4, <3>5
  <2> QED BY <2>1, <2>2
<1>4. 0 <= One \div 2 /\ One \div 2 < One
  BY FloatFormat
<1> QED BY <1>1, <1>2, <1>3, <1>4 DEF FiniteFloats

(***************************************************************************)
(* What products and sums of finite floats are rounded from.               *)
(***************************************************************************)
LEMMA ProductReach ==
  ASSUME NEW x \in Int, NEW y \in Nat, -Infinity < x, x < Infinity, y <= Infinity
  PROVE  x * y \in Roundable
<1> DEFINE f == Infinity
<1>1. f \in Nat \ {0} /\ Reach = f * f
  BY FloatFormat, ReachIs
<1>2. -f < x /\ x < f /\ y <= f
  OBVIOUS
<1> HIDE DEF f
<1>3. x * y <= (f - 1) * y /\ (1 - f) * y <= x * y
  <2>1. x <= f - 1 /\ 1 - f <= x
    BY <1>1, <1>2
  <2> QED BY <2>1, <1>1
<1>4. (f - 1) * y <= (f - 1) * f
  BY <1>1, <1>2
<1>5. (f - 1) * f = f * f - f /\ (1 - f) * y = -((f - 1) * y)
  BY <1>1
<1>6. x * y \in Int /\ (f - 1) * y \in Int /\ f * f \in Int
  BY <1>1
<1>7. -(f * f) < x * y /\ x * y < f * f
  BY <1>1, <1>3, <1>4, <1>5, <1>6
<1> QED BY <1>1, <1>6, <1>7 DEF Roundable

(***************************************************************************)
(* A sum with a finite float can be rounded.                               *)
(***************************************************************************)
LEMMA SumReach ==
  ASSUME NEW x \in Int, NEW y \in Int, -Infinity <= x, x <= Infinity, -Infinity < y, y < Infinity
  PROVE  x + y \in Roundable
BY FloatFormat, ReachIs DEF Roundable

(***************************************************************************)
(* A finite float is rounded to itself.                                    *)
(***************************************************************************)
LEMMA RoundOne ==
  ASSUME NEW x \in FiniteFloats
  PROVE  x \in Roundable /\ Round(x, 1) = x
<1>1. x \in Int /\ -Infinity < x /\ x < Infinity
  BY FiniteRange
<1>2. x \in Roundable /\ x * 1 = x
  BY <1>1, FloatFormat, ReachIs DEF Roundable
<1>3. Round(x * 1, 1) = x
  BY <1>2, RoundExact
<1> QED BY <1>2, <1>3

(***************************************************************************)
(* A quotient of two floats of which the second is at least the first.     *)
(***************************************************************************)
LEMMA Quotients ==
  ASSUME NEW x \in FiniteFloats, NEW y \in FiniteFloats, y > 0
  PROVE  /\ Over(x, y) \in Rounded
         /\ 0 <= x => 0 <= Over(x, y)
         /\ x <= 0 => Over(x, y) <= 0
         /\ x <= y => Over(x, y) <= One
         /\ y <= x => One <= Over(x, y)
<1>1. x \in Int /\ -Infinity < x /\ x < Infinity /\ y \in Nat \ {0} /\ y < Infinity
  BY FiniteRange
<1>2. One \in Nat \ {0} /\ One <= Infinity
  BY FloatFormat
<1>3. Over(x, y) = Round(x * One, y)
  <2>1. x # NaN /\ IsFinite(x) /\ IsFinite(y) /\ y # 0
    BY <1>1, NaNApart, FloatFormat DEF IsFinite
  <2> QED BY <2>1, Zenon DEF Over
<1>4. x * One \in Roundable
  BY <1>1, <1>2, ProductReach
<1>5. y * One \in Roundable /\ One * y = y * One
  BY <1>1, <1>2, FloatFormat, ProductReach
<1>6. Round(y * One, y) = One
  <2>1. One * y \in Roundable
    BY <1>5
  <2>2. Round(One * y, y) = One
    BY <2>1, <1>1, SmallFloats, RoundExact
  <2> QED BY <1>5, <2>2
<1>7. 0 \in Roundable /\ 0 * y = 0
  BY <1>1, RoundOne, SmallFloats
<1>8. Round(0, y) = 0
  <2>1. Round(0 * y, y) = 0
    BY <1>1, <1>7, SmallFloats, RoundExact
  <2> QED BY <1>7, <2>1
<1> DEFINE m == x * One
           w == y * One
<1>9. (0 <= x => 0 <= m) /\ (x <= 0 => m <= 0) /\ (x <= y => m <= w) /\ (y <= x => w <= m)
  BY <1>1, <1>2
<1>10. m \in Roundable /\ w \in Roundable /\ Round(w, y) = One /\ Over(x, y) = Round(m, y)
  BY <1>3, <1>4, <1>5, <1>6
<1> HIDE DEF m, w
<1>11. Round(m, y) \in Rounded
  BY <1>1, <1>10, RoundType
<1>12. 0 <= x => 0 <= Over(x, y)
  BY <1>1, <1>7, <1>8, <1>9, <1>10, RoundMonotone
<1>13. x <= 0 => Over(x, y) <= 0
  BY <1>1, <1>7, <1>8, <1>9, <1>10, RoundMonotone
<1>14. x <= y => Over(x, y) <= One
  BY <1>1, <1>9, <1>10, RoundMonotone
<1>15. y <= x => One <= Over(x, y)
  BY <1>1, <1>9, <1>10, RoundMonotone
<1> QED BY <1>10, <1>11, <1>12, <1>13, <1>14, <1>15

(***************************************************************************)
(* A part of a float: none of it, all of it, or something between.         *)
(***************************************************************************)
LEMMA Parts ==
  ASSUME NEW p \in FiniteFloats, 0 <= p, p <= One, NEW z \in FiniteFloats, 0 <= z
  PROVE  /\ Times(p, z) \in FiniteFloats
         /\ 0 <= Times(p, z) /\ Times(p, z) <= z
         /\ p = 0 => Times(p, z) = 0
         /\ p = One => Times(p, z) = z
<1>1. p \in Int /\ -Infinity < p /\ p < Infinity /\ z \in Nat /\ z < Infinity
  BY FiniteRange
<1>2. One \in Nat \ {0} /\ One < Infinity
  BY FloatFormat
<1>3. Times(p, z) = Round(p * z, One)
  <2>1. NaN \notin {p, z} /\ IsFinite(p) /\ IsFinite(z)
    BY <1>1, NaNApart, FloatFormat DEF IsFinite
  <2> QED BY <2>1, Zenon DEF Times
<1> DEFINE m == p * z
           w == z * One
<1>4. m \in Roundable /\ w \in Roundable
  BY <1>1, <1>2, FloatFormat, ProductReach
<1>5. Round(w, One) = z
  BY <1>2, <1>4, RoundExact
<1>6. 0 \in Roundable /\ Round(0, One) = 0
  <2>1. 0 \in Roundable /\ 0 * One = 0
    BY <1>2, RoundOne, SmallFloats
  <2>2. Round(0 * One, One) = 0
    BY <1>2, <2>1, SmallFloats, RoundExact
  <2> QED BY <2>1, <2>2
<1>7. 0 <= m /\ m <= w /\ (p = 0 => m = 0) /\ (p = One => m = w)
  <2>1. p * z <= One * z
    BY <1>1, <1>2
  <2> QED BY <2>1, <1>1, <1>2
<1>8. Times(p, z) = Round(m, One)
  BY <1>3
<1> HIDE DEF m, w
<1>9. Round(m, One) \in Rounded /\ Round(m, One) \in Int
  BY <1>2, <1>4, RoundType
<1>10. 0 <= Round(m, One) /\ Round(m, One) <= z
  BY <1>2, <1>4, <1>5, <1>6, <1>7, RoundMonotone
<1>11. Round(m, One) \in FiniteFloats
  BY <1>1, <1>9, <1>10, FloatFormat DEF Rounded
<1> QED BY <1>5, <1>6, <1>7, <1>8, <1>10, <1>11

(***************************************************************************)
(* A sum keeps order.                                                      *)
(***************************************************************************)
LEMMA PlusIs ==
  ASSUME NEW x \in FiniteFloats, NEW y \in FiniteFloats
  PROVE  /\ x + y \in Roundable
         /\ Plus(x, y) = Round(x + y, 1)
         /\ Plus(x, y) \in Rounded
<1>1. x \in Int /\ -Infinity < x /\ x < Infinity /\ y \in Int /\ -Infinity < y /\ y < Infinity
  BY FiniteRange
<1>2. x + y \in Roundable
  BY <1>1, FloatFormat, SumReach
<1>3. NaN \notin {x, y} /\ {x, y} # {Infinity, -Infinity} /\ IsFinite(x) /\ IsFinite(y)
  BY <1>1, NaNApart, FloatFormat DEF IsFinite
<1>4. Plus(x, y) = Round(x + y, 1)
  BY <1>3, Zenon DEF Plus
<1> QED BY <1>2, <1>4, RoundType

(***************************************************************************)
(* Part of a range added to its minimum stays between the ends, and none   *)
(* or all of it is one of the ends.                                        *)
(***************************************************************************)
LEMMA Sums ==
  ASSUME NEW s \in FiniteFloats, NEW z \in FiniteFloats, NEW m \in FiniteFloats, 0 <= s, s <= z
  PROVE  /\ Plus(s, m) \in Rounded
         /\ m <= Plus(s, m) /\ Plus(s, m) <= Plus(m, z)
         /\ s = 0 => Plus(s, m) = m
         /\ s = z => Plus(s, m) = Plus(m, z)
<1>1. s \in Int /\ z \in Int /\ m \in Int
  BY FiniteRange
<1>2. /\ s + m \in Roundable /\ Plus(s, m) = Round(s + m, 1) /\ Plus(s, m) \in Rounded
      /\ m + z \in Roundable /\ Plus(m, z) = Round(m + z, 1)
  BY PlusIs
<1>3. m \in Roundable /\ Round(m, 1) = m
  BY RoundOne
<1> DEFINE a == s + m
           b == m + z
<1>4. m <= a /\ a <= b /\ (s = 0 => a = m) /\ (s = z => a = b)
  BY <1>1
<1>5. a \in Roundable /\ b \in Roundable /\ Plus(s, m) = Round(a, 1) /\ Plus(m, z) = Round(b, 1)
  BY <1>2
<1> HIDE DEF a, b
<1>6. Round(m, 1) <= Round(a, 1) /\ Round(a, 1) <= Round(b, 1)
  BY <1>3, <1>4, <1>5, RoundMonotone
<1> QED BY <1>2, <1>3, <1>4, <1>5, <1>6

(***************************************************************************)
(* The integers: wider than a significand, and all of them finite floats.  *)
(***************************************************************************)
LEMMA IntegerFormat ==
  /\ IntegerWidth \in Nat /\ 2^IntegerWidth \in Nat \ {0}
  /\ LargestBelow \in Nat \ {0} /\ LargestBelow < 2^IntegerWidth
  /\ LargestBelow * One \in Scales
<1> DEFINE a == 2^Precision
           k == IntegerWidth - Precision
           t == 2^k
<1>1. /\ IntegerWidth \in Nat /\ k \in Nat /\ k + UnitBits \in Exponents
      /\ Precision + k = IntegerWidth
  BY FloatFormat, CompressedFloatAssumption DEF Exponents
<1>2. 2^IntegerWidth \in Nat \ {0} /\ t \in Nat \ {0}
  BY <1>1, Powers
<1> HIDE DEF k
<1>3. 2^(Precision + k) = a * t /\ 2^(k + UnitBits) = t * One
  BY <1>1, FloatFormat, PowerOfSum DEF One
<1>4. a * t = 2^IntegerWidth
  BY <1>1, <1>3
<1>5. LargestBelow = (a - 1) * t
  BY DEF LargestBelow, k
<1>6. a \in Nat /\ a >= 2 /\ a - 1 \in Significands
  BY FloatFormat DEF Significands
<1>7. (a - 1) * 2^(k + UnitBits) \in Scales
  BY <1>1, <1>6, ScaleOf
<1> HIDE DEF a, t
<1>8. (a - 1) * t \in Nat \ {0} /\ (a - 1) * t < a * t
  BY <1>2, <1>6
<1>9. ((a - 1) * t) * One = (a - 1) * (t * One)
  BY <1>2, <1>6, FloatFormat
<1> QED BY <1>1, <1>2, <1>3, <1>4, <1>5, <1>7, <1>8, <1>9

(***************************************************************************)
(* An integer up to the largest float below its type becomes a finite      *)
(* float, and a larger one no smaller float.                               *)
(***************************************************************************)
LEMMA StepIs ==
  ASSUME NEW n \in 0..LargestBelow, NEW i \in 0..n
  PROVE  /\ FromInteger(i) \in FiniteFloats /\ 0 <= FromInteger(i)
         /\ FromInteger(i) <= FromInteger(n)
         /\ i = 0 => FromInteger(i) = 0
         /\ i # 0 => One <= FromInteger(i)
<1> DEFINE top == LargestBelow * One
           a == i * One
           b == n * One
<1>1. i \in Nat /\ n \in Nat /\ i <= n /\ n <= LargestBelow /\ LargestBelow \in Nat
  BY IntegerFormat
<1>2. One \in Nat \ {0}
  BY FloatFormat
<1>3. top \in FiniteFloats
  BY IntegerFormat DEF FiniteFloats
<1>4. /\ a \in Nat /\ b \in Nat /\ top \in Nat /\ a <= b /\ b <= top
      /\ (i = 0 => a = 0) /\ (i # 0 => One <= a)
  <2>1. i * One <= n * One /\ n * One <= LargestBelow * One
    BY <1>1, <1>2, Products
  <2>2. i # 0 => 1 * One <= i * One
    BY <1>1, <1>2, Products
  <2> QED BY <2>1, <2>2, <1>1, <1>2
<1>5. top < Infinity
  BY <1>3, FiniteRange
<1>6. FromInteger(i) = Round(a, 1) /\ FromInteger(n) = Round(b, 1)
  BY DEF FromInteger
<1> HIDE DEF top, a, b
<1>7. a \in Roundable /\ b \in Roundable
  BY <1>4, <1>5, FloatFormat, ReachIs DEF Roundable
<1>8. /\ top \in Roundable /\ Round(top, 1) = top
      /\ 0 \in Roundable /\ Round(0, 1) = 0
      /\ One \in Roundable /\ Round(One, 1) = One
  BY <1>3, SmallFloats, RoundOne
<1>9. Round(a, 1) \in Rounded /\ Round(a, 1) \in Int
  BY <1>7, RoundType
<1>10. 0 <= Round(a, 1) /\ Round(a, 1) <= Round(b, 1)
  BY <1>4, <1>7, <1>8, RoundMonotone
<1>11. Round(a, 1) <= top
  <2>1. a <= top
    BY <1>4
  <2>2. Round(a, 1) <= Round(top, 1)
    BY <2>1, <1>7, <1>8, RoundMonotone
  <2> QED BY <2>2, <1>8
<1>12. i # 0 => One <= Round(a, 1)
  <2> SUFFICES ASSUME i # 0 PROVE One <= Round(a, 1)
    OBVIOUS
  <2>1. Round(One, 1) <= Round(a, 1)
    BY <1>4, <1>7, <1>8, RoundMonotone
  <2> QED BY <2>1, <1>8
<1>13. Round(a, 1) \in FiniteFloats
  BY <1>4, <1>5, <1>9, <1>10, <1>11, FloatFormat DEF Rounded
<1>14. i = 0 => Round(a, 1) = 0
  BY <1>4, <1>8
<1> QED BY <1>6, <1>10, <1>12, <1>13, <1>14

(***************************************************************************)
(* A count that is a float becomes it.                                     *)
(***************************************************************************)
LEMMA StepExact ==
  ASSUME NEW n \in Nat, n * One \in FiniteFloats
  PROVE  FromInteger(n) = n * One
BY RoundOne DEF FromInteger

(***************************************************************************)
(* The clamps of a step count, NaN and infinity included.                  *)
(***************************************************************************)
LEMMA ClampedIs ==
  ASSUME NEW s \in Rounded \cup {NaN}
  PROVE  Clamped(s) \in Scales /\ One <= Clamped(s) /\ Clamped(s) <= LargestBelow * One
<1>1. LargestBelow * One \in FiniteFloats /\ LargestBelow * One \in Scales /\ LargestBelow \in Nat \ {0}
  BY IntegerFormat DEF FiniteFloats
<1>2. MostSteps = LargestBelow * One
  BY <1>1, StepExact DEF MostSteps
<1>3. One \in Nat \ {0} /\ One \in Scales
  BY FloatFormat, PowersAreScales DEF One
<1> DEFINE top == LargestBelow * One
<1>4. top \in Nat /\ One <= top /\ top < Infinity
  <2>1. 1 * One <= LargestBelow * One
    BY <1>1, <1>3, Products
  <2> QED BY <2>1, <1>1, <1>3, ScaleType
<1>5. Clamped(s) = IF ~LessEqual(One, s) THEN One ELSE IF Less(top, s) THEN top ELSE s
  BY <1>2, Zenon DEF Clamped
<1> HIDE DEF top
<1>6. CASE ~LessEqual(One, s)
  BY <1>3, <1>4, <1>5, <1>6, <1>1 DEF top
<1>7. CASE LessEqual(One, s) /\ Less(top, s)
  BY <1>3, <1>4, <1>5, <1>7, <1>1 DEF top
<1>8. CASE LessEqual(One, s) /\ ~Less(top, s)
  <2>1. s # NaN /\ One <= s
    BY <1>8 DEF LessEqual
  <2>2. s \in Rounded /\ s \in Int
    BY <2>1, FiniteIs
  <2>3. NaN # top
    BY <1>4, NaNApart, FloatFormat
  <2>4. s <= top
    BY <1>8, <2>1, <2>2, <2>3, <1>4 DEF Less
  <2>5. s \in Scales
    <3>1. s # Infinity /\ s # -Infinity
      BY <2>1, <2>2, <2>4, <1>3, <1>4, FloatFormat
    <3>2. s \in Scales \/ \E m \in Scales : s = -m
      BY <2>2, <3>1 DEF Rounded, FiniteFloats
    <3> QED BY <3>2, <2>1, <1>3, ScaleType
  <2>6. Clamped(s) = s
    BY <1>5, <1>8
  <2> QED BY <2>1, <2>4, <2>5, <2>6 DEF top
<1> QED BY <1>6, <1>7, <1>8

(***************************************************************************)
(* Rounding a quotient up gives the least multiple that covers it.         *)
(***************************************************************************)
LEMMA CeilIs ==
  ASSUME NEW x \in Nat, NEW c \in Nat \ {0}
  PROVE  LET n == -((-x) \div c) IN n \in Nat /\ x <= n * c /\ (n - 1) * c < x
<1> DEFINE q == (-x) \div c
           r == (-x) % c
<1>1. -x \in Int /\ q \in Int /\ r \in 0..c-1 /\ -x = q * c + r
  BY ModRange
<1> HIDE DEF q, r
<1>2. q <= 0
  <2> SUFFICES ASSUME q >= 1 PROVE FALSE
    BY <1>1
  <2>1. 1 * c <= q * c
    BY <1>1, Products
  <2> QED BY <2>1, <1>1
<1>3. -q \in Nat
  BY <1>1, <1>2
<1>4. (-q) * c = -(q * c) /\ (-q - 1) * c = -(q * c) - c /\ q * c \in Int
  BY <1>1
<1>5. x <= (-q) * c /\ (-q - 1) * c < x
  BY <1>1, <1>4
<1> QED BY <1>3, <1>5 DEF q

(***************************************************************************)
(* The count of steps of the clamped float is in range, covers the steps,  *)
(* and is a float: either the steps were whole, or they had few enough     *)
(* bits below one that the count is a small one.                           *)
(***************************************************************************)
LEMMA StepsAre ==
  ASSUME NEW x \in Scales, One <= x, x <= LargestBelow * One
  PROVE  /\ Ceil(x) \in 1..LargestBelow
         /\ Ceil(x) * One \in Scales
         /\ x <= Ceil(x) * One
<1>1. PICK s \in Significands, j \in Exponents : x = s * 2^j
  BY DEF Scales
<1> DEFINE n == -((-x) \div One)
           t == 2^j
           a == 2^Precision
<1>2. /\ x \in Nat /\ One \in Nat \ {0} /\ s \in Nat /\ s < a /\ a \in Nat /\ j \in Nat
      /\ t \in Nat \ {0} /\ LargestBelow \in Nat \ {0}
  BY ScaleType, FloatFormat, IntegerFormat, Powers DEF Significands, Exponents
<1>3. n \in Nat /\ x <= n * One /\ (n - 1) * One < x
  BY <1>2, CeilIs
<1>4. Ceil(x) = n
  BY DEF Ceil
<1> HIDE DEF n, t, a
<1>5. n \in 1..LargestBelow
  <2>1. n # 0
    BY <1>2, <1>3
  <2>2. n - 1 < LargestBelow
    <3>1. (n - 1) * One < LargestBelow * One
      BY <1>2, <1>3
    <3> QED BY <3>1, <1>2, <1>3, Products
  <2> QED BY <2>1, <2>2, <1>2, <1>3
<1>6. CASE j >= UnitBits
  <2> DEFINE c == 2^(j - UnitBits)
             k == s * c
  <2>1. j - UnitBits \in Nat /\ UnitBits \in Nat /\ (j - UnitBits) + UnitBits = j
    BY <1>2, <1>6, FloatFormat
  <2>2. c \in Nat
    BY <2>1, Powers
  <2>3. 2^((j - UnitBits) + UnitBits) = c * One
    BY <2>1, PowerOfSum DEF One
  <2>4. t = c * One
    BY <2>1, <2>3 DEF t
  <2> HIDE DEF c
  <2>5. x = k * One /\ k \in Nat
    BY <1>1, <1>2, <2>2, <2>4 DEF t
  <2> HIDE DEF k
  <2>6. n = k
    <3>1. k <= n
      BY <1>2, <1>3, <2>5, Products
    <3>2. n - 1 < k
      BY <1>2, <1>3, <2>5, Products
    <3> QED BY <3>1, <3>2, <1>3, <2>5
  <2>7. n * One = x
    BY <2>5, <2>6
  <2> QED BY <1>3, <1>4, <1>5, <2>7
<1>7. CASE j < UnitBits
  <2>1. x < a * One
    <3>1. t <= One
      BY <1>2, <1>7, FloatFormat, PowerOrder DEF t, One
    <3>2. s * t <= s * One
      BY <3>1, <1>2
    <3>3. s * One < a * One
      BY <1>2, Products
    <3>4. s * t \in Nat /\ s * One \in Nat /\ a * One \in Nat
      BY <1>2
    <3> QED BY <1>1, <3>2, <3>3, <3>4 DEF t
  <2>2. n - 1 < a
    <3>1. (n - 1) * One < a * One
      <4>1. (n - 1) * One \in Int /\ a * One \in Int
        BY <1>2, <1>3
      <4> QED BY <4>1, <1>2, <1>3, <2>1
    <3> QED BY <3>1, <1>2, <1>3, Products
  <2>3. n <= a
    BY <1>2, <1>3, <2>2
  <2>4. CASE n < a
    <3>1. n \in Significands /\ UnitBits \in Exponents
      BY <1>2, <1>3, <2>4, FloatFormat, CompressedFloatAssumption DEF Significands, Exponents, a
    <3>2. n * One \in Scales
      BY <3>1, ScaleOf DEF One
    <3> QED BY <3>2, <1>3, <1>4, <1>5
  <2>5. CASE n = a
    <3>1. Precision + UnitBits \in Nat /\ Precision + UnitBits < TopBits
      BY FloatFormat, CompressedFloatAssumption
    <3>2. 2^(Precision + UnitBits) = a * One
      BY FloatFormat, PowerOfSum DEF a, One
    <3>3. n * One \in Scales
      BY <2>5, <3>1, <3>2, PowersAreScales
    <3> QED BY <3>3, <1>3, <1>4, <1>5
  <2> QED BY <2>3, <2>4, <2>5, <1>2, <1>3
<1> QED BY <1>2, <1>6, <1>7, FloatFormat

(***************************************************************************)
(* The width of a declared range is a positive float, infinite unless both *)
(* bounds are finite.                                                      *)
(***************************************************************************)
LEMMA RangeIs ==
  ASSUME NEW a \in Rounded, NEW b \in Rounded, a < b
  PROVE  /\ Minus(b, a) \in FiniteFloats \cup {Infinity}
         /\ Minus(b, a) > 0
         /\ Minus(b, a) \in FiniteFloats =>
              a \in FiniteFloats /\ b \in FiniteFloats /\ Minus(b, a) = Plus(b, -a)
<1>1. Infinity \in Nat \ {0} /\ NaN > Infinity /\ NaN \in Int
  BY FloatFormat, NaNApart
<1>2. a \in Int /\ b \in Int /\ -Infinity <= a /\ a <= Infinity /\ -Infinity <= b /\ b <= Infinity
  BY FiniteIs
<1>3. a # NaN /\ b # NaN /\ -a # NaN /\ a # Infinity /\ b # -Infinity
  BY <1>1, <1>2
<1>4. Minus(b, a) = Plus(b, -a)
  BY <1>3, Zenon DEF Minus
<1>5. CASE a \in FiniteFloats /\ b \in FiniteFloats
  <2>1. -a \in FiniteFloats
    BY <1>5, FiniteRange
  <2>2. /\ b + (-a) \in Roundable /\ Plus(b, -a) = Round(b + (-a), 1) /\ Plus(b, -a) \in Rounded
    BY <1>5, <2>1, PlusIs
  <2>3. 1 \in FiniteFloats
    <3>1. 0 \in Nat /\ 0 < TopBits
      BY FloatFormat
    <3>2. 2^0 \in Scales
      BY <3>1, PowersAreScales
    <3>3. 1 \in Scales
      BY <3>2, Powers
    <3> QED BY <3>3 DEF FiniteFloats
  <2>4. 1 \in Roundable /\ Round(1, 1) = 1
    BY <2>3, RoundOne
  <2>5. 1 <= b + (-a)
    BY <1>2
  <2>6. 1 <= Round(b + (-a), 1)
    BY <2>2, <2>4, <2>5, RoundMonotone
  <2>7. Plus(b, -a) # -Infinity
    BY <2>2, <2>6, <1>1, FiniteIs
  <2>8. Plus(b, -a) > 0
    BY <2>2, <2>6, FiniteIs
  <2> QED BY <2>2, <2>7, <2>8, <1>4, <1>5 DEF Rounded
<1>6. CASE ~(a \in FiniteFloats /\ b \in FiniteFloats)
  <2>1. a = -Infinity \/ b = Infinity
    BY <1>3, <1>6 DEF Rounded
  <2>2. Infinity \notin FiniteFloats
    BY FiniteRange, <1>1
  <2>3. CASE b = Infinity
    <3>1. ~IsFinite(b) /\ NaN \notin {b, -a} /\ {b, -a} # {Infinity, -Infinity}
      BY <2>3, <1>1, <1>2, <1>3 DEF IsFinite
    <3>2. Plus(b, -a) = b
      BY <3>1, Zenon DEF Plus
    <3> QED BY <3>2, <2>2, <2>3, <1>1, <1>4
  <2>4. CASE a = -Infinity /\ b # Infinity
    <3>1. -a = Infinity
      BY <2>4, <1>1
    <3>2. IsFinite(b) /\ ~IsFinite(-a) /\ NaN \notin {b, -a} /\ {b, -a} # {Infinity, -Infinity}
      BY <2>4, <3>1, <1>1, <1>2, <1>3 DEF IsFinite
    <3>3. Plus(b, -a) = -a
      BY <3>2, Zenon DEF Plus
    <3> QED BY <3>1, <3>3, <2>2, <1>1, <1>4
  <2> QED BY <2>1, <2>3, <2>4
<1> QED BY <1>5, <1>6

(***************************************************************************)
(* And its quotient by a positive resolution is a float, or NaN.           *)
(***************************************************************************)
LEMMA StepsOver ==
  ASSUME NEW z \in FiniteFloats \cup {Infinity}, NEW r \in Rounded, r > 0
  PROVE  Over(z, r) \in Rounded \cup {NaN}
<1>1. Infinity \in Nat \ {0} /\ NaN > Infinity /\ NaN \in Int
  BY FloatFormat, NaNApart
<1>2. z \in Rounded /\ 0 \in Rounded
  BY SmallFloats DEF Rounded
<1>3. z # NaN
  BY <1>2, NaNApart
<1>4. CASE ~IsFinite(z) \/ ~IsFinite(r)
  <2>1. Over(z, r) \in {NaN, z, 0}
    BY <1>3, <1>4, Zenon DEF Over
  <2> QED BY <2>1, <1>2
<1>5. CASE IsFinite(z) /\ IsFinite(r)
  <2>1. z \in FiniteFloats /\ r \in FiniteFloats
    BY <1>2, <1>5, FiniteIs
  <2> QED BY <2>1, Quotients
<1> QED BY <1>4, <1>5

(***************************************************************************)
(* What the constants of a declaration are when its check passes, derived  *)
(* on the call or precomputed.                                             *)
(***************************************************************************)
Serves(c) == /\ c.maxIntegerValue \in 1..LargestBelow
             /\ c.bits = Length(c.maxIntegerValue)
             /\ c.delta \in FiniteFloats \cup {Infinity}
             /\ c.delta > 0

(***************************************************************************)
(* What declarations and values are made of are floats.                    *)
(***************************************************************************)
LEMMA BoundsAre == \A x \in Bounds \cup Resolutions \cup Deltas \cup Values :
                      x \in Floats /\ (x # NaN => x \in Rounded)
BY CompressedFloatAssumption, FloatsAre

(***************************************************************************)
(* The constants compressedFloatParams derives are fit for use whenever    *)
(* the declaration is valid, and the count of steps is a float.            *)
(***************************************************************************)
LEMMA DerivedServes ==
  ASSUME NEW d \in Derived, compressedFloatDeclarationValid(d)
  PROVE  /\ Serves(Constants(d))
         /\ Constants(d).maxIntegerValue * One \in FiniteFloats
         /\ Constants(d).delta = Minus(d.max, d.min)
         /\ d.min \in Rounded /\ d.max \in Rounded /\ d.min < d.max
<1> DEFINE c == Constants(d)
           z == Minus(d.max, d.min)
           s == Over(z, d.resolution)
           x == Clamped(s)
           n == Ceil(x)
<1>1. d.min \in Bounds /\ d.max \in Bounds /\ d.resolution \in Resolutions /\ d.kind = "derived"
  BY DEF Derived
<1>2. d.min # NaN /\ d.max # NaN /\ d.min < d.max /\ d.resolution # NaN /\ d.resolution > 0
  <2>1. /\ NaN \notin {d.min, d.max} /\ d.min < d.max
        /\ NaN \notin {0, d.resolution} /\ 0 < d.resolution
    BY Zenon DEF compressedFloatDeclarationValid, Less
  <2>2. d.resolution \in Int
    BY <1>1, <2>1, BoundsAre, FiniteIs
  <2> QED BY <2>1, <2>2
<1>3. d.min \in Rounded /\ d.max \in Rounded /\ d.resolution \in Rounded
  BY <1>1, <1>2, BoundsAre
<1>4. z \in FiniteFloats \cup {Infinity} /\ z > 0
  BY <1>2, <1>3, RangeIs
<1>5. c = Params(n % 2^IntegerWidth, z)
  BY <1>1 DEF Constants, compressedFloatParams, ParamsOver
<1> HIDE DEF z
<1>6. s \in Rounded \cup {NaN}
  BY <1>2, <1>3, <1>4, StepsOver
<1> HIDE DEF s
<1>7. x \in Scales /\ One <= x /\ x <= LargestBelow * One
  BY <1>6, ClampedIs
<1> HIDE DEF x
<1>8. n \in 1..LargestBelow /\ n * One \in Scales
  BY <1>7, StepsAre
<1> HIDE DEF n
<1>9. n % 2^IntegerWidth = n
  <2> DEFINE w == 2^IntegerWidth
  <2>1. w \in Nat \ {0} /\ n \in 0..w-1
    BY <1>8, IntegerFormat
  <2> HIDE DEF w
  <2>2. 0 \in Int /\ (0 * w + n) % w = n /\ 0 * w + n = n
    BY <2>1, DivModUnique
  <2> QED BY <2>2 DEF w
<1>10. c = [maxIntegerValue |-> n, bits |-> Length(n), delta |-> z]
  BY <1>5, <1>9 DEF Params
<1> HIDE DEF c
<1>11. c.maxIntegerValue = n /\ c.bits = Length(n) /\ c.delta = z
  BY ONLY <1>10
<1>12. Serves(c)
  BY <1>4, <1>8, <1>11 DEF Serves
<1>13. c.maxIntegerValue * One \in FiniteFloats
  BY <1>8, <1>11 DEF FiniteFloats
<1> QED BY <1>2, <1>3, <1>11, <1>12, <1>13 DEF c, z

(***************************************************************************)
(* Precomputed constants are fit for use if they pass the check.           *)
(***************************************************************************)
LEMMA PrecomputedServes ==
  ASSUME NEW d \in Precomputed, compressedFloatConstantsValid(d)
  PROVE  /\ Serves(Constants(d)) /\ Constants(d).delta \in FiniteFloats
         /\ Constants(d).delta = d.delta /\ d.min \in Bounds
<1>1. d.kind = "precomputed" /\ d.delta \in Deltas /\ d.min \in Bounds
  BY DEF Precomputed
<1>2. Constants(d) = [maxIntegerValue |-> d.maxIntegerValue, bits |-> d.bits, delta |-> d.delta]
  BY <1>1 DEF Constants
<1>3. /\ Constants(d).maxIntegerValue = d.maxIntegerValue /\ Constants(d).bits = d.bits
      /\ Constants(d).delta = d.delta
  BY ONLY <1>2
<1>4. /\ d.maxIntegerValue \in 1..LargestBelow /\ d.bits = Length(d.maxIntegerValue)
      /\ NaN \notin {0, d.delta} /\ 0 < d.delta /\ IsFinite(d.delta)
  BY Zenon DEF compressedFloatConstantsValid, Less
<1>5. d.delta \in Floats /\ d.delta \in FiniteFloats
  BY <1>1, <1>4, BoundsAre, FiniteOnly
<1>6. d.delta > 0
  BY <1>4, <1>5, FiniteRange
<1> QED BY <1>1, <1>3, <1>4, <1>5, <1>6 DEF Serves

(***************************************************************************)
(* The constants a reader goes by, of either kind of declaration.          *)
(***************************************************************************)
LEMMA ReaderServes ==
  ASSUME NEW d \in Derived \cup Precomputed, ReaderTakes(d)
  PROVE  /\ Serves(Constants(d)) /\ d.min \in Floats
         /\ d.kind = "derived" /\ Constants(d).delta \in FiniteFloats => d.min \in FiniteFloats
<1>1. CASE d \in Derived
  <2>1. d.kind = "derived" /\ d.min \in Bounds
    BY <1>1 DEF Derived
  <2>2. compressedFloatDeclarationValid(d)
    BY <2>1 DEF ReaderTakes
  <2>3. /\ Serves(Constants(d)) /\ Constants(d).delta = Minus(d.max, d.min)
        /\ d.min \in Rounded /\ d.max \in Rounded /\ d.min < d.max
    BY <1>1, <2>2, DerivedServes
  <2>4. Minus(d.max, d.min) \in FiniteFloats => d.min \in FiniteFloats
    BY <2>3, RangeIs
  <2> QED BY <2>1, <2>3, <2>4, BoundsAre
<1>2. CASE d \in Precomputed
  <2>1. d.kind = "precomputed"
    BY <1>2 DEF Precomputed
  <2>2. compressedFloatConstantsValid(d)
    BY <2>1 DEF ReaderTakes
  <2> QED BY <1>2, <2>1, <2>2, PrecomputedServes, BoundsAre
<1> QED BY <1>1, <1>2

(***************************************************************************)
(* What the reader makes of a step of such constants.                      *)
(***************************************************************************)
Decode(c, min, i) ==
  Plus(Times(Over(FromInteger(i), FromInteger(c.maxIntegerValue)), c.delta), min)

(***************************************************************************)
(* The quotient of a step is between none and one of the range.            *)
(***************************************************************************)
LEMMA QuotientOfSteps ==
  ASSUME NEW c, Serves(c), NEW i \in 0..c.maxIntegerValue
  PROVE  LET q == Over(FromInteger(i), FromInteger(c.maxIntegerValue))
         IN  /\ q \in FiniteFloats /\ 0 <= q /\ q <= One
             /\ i = 0 => q = 0
             /\ i = c.maxIntegerValue => q = One
<1> DEFINE n == c.maxIntegerValue
           x == FromInteger(i)
           y == FromInteger(n)
           q == Over(x, y)
<1>1. n \in 1..LargestBelow /\ n \in 0..LargestBelow /\ n # 0 /\ n \in 0..n /\ i \in 0..n
  BY IntegerFormat DEF Serves
<1> HIDE DEF n
<1>2. x \in FiniteFloats /\ 0 <= x /\ x <= y /\ (i = 0 => x = 0)
  BY <1>1, StepIs
<1>3. y \in FiniteFloats /\ One <= y
  BY <1>1, StepIs
<1>4. x \in Int /\ y \in Int /\ y > 0 /\ One \in Nat /\ One < Infinity
  BY <1>2, <1>3, FiniteRange, FloatFormat
<1>5. i = n => y <= x
  BY <1>4
<1> HIDE DEF x, y
<1>6. /\ q \in Rounded /\ 0 <= q /\ q <= One
      /\ (x <= 0 => q <= 0) /\ (y <= x => One <= q)
  BY <1>2, <1>3, <1>4, Quotients
<1>7. q \in Int
  BY <1>6, FiniteIs
<1> HIDE DEF q
<1>8. q \in FiniteFloats
  BY <1>4, <1>6, <1>7, FloatFormat DEF Rounded
<1>9. i = 0 => q = 0
  BY <1>2, <1>4, <1>6, <1>7
<1>10. i = n => q = One
  BY <1>4, <1>5, <1>6, <1>7
<1> QED BY <1>6, <1>8, <1>9, <1>10 DEF n, x, y, q

(***************************************************************************)
(* What a step decodes to lies between the ends, and the first and the     *)
(* last step decode to the ends.                                           *)
(***************************************************************************)
LEMMA Decoded ==
  ASSUME NEW c, Serves(c), c.delta \in FiniteFloats, NEW m \in FiniteFloats,
         NEW i \in 0..c.maxIntegerValue
  PROVE  /\ Decode(c, m, i) \in Rounded
         /\ m <= Decode(c, m, i) /\ Decode(c, m, i) <= Plus(m, c.delta)
         /\ i = 0 => Decode(c, m, i) = m
         /\ i = c.maxIntegerValue => Decode(c, m, i) = Plus(m, c.delta)
<1> DEFINE z == c.delta
           q == Over(FromInteger(i), FromInteger(c.maxIntegerValue))
           s == Times(q, z)
<1>1. q \in FiniteFloats /\ 0 <= q /\ q <= One /\ (i = 0 => q = 0) /\ (i = c.maxIntegerValue => q = One)
  BY QuotientOfSteps
<1>2. z \in FiniteFloats /\ z > 0 /\ z \in Int
  BY FiniteRange DEF Serves
<1>3. Decode(c, m, i) = Plus(s, m)
  BY DEF Decode
<1> HIDE DEF z, q
<1>4. /\ s \in FiniteFloats /\ 0 <= s /\ s <= z
      /\ (q = 0 => s = 0) /\ (q = One => s = z)
  BY <1>1, <1>2, Parts
<1> HIDE DEF s
<1>5. /\ Plus(s, m) \in Rounded /\ m <= Plus(s, m) /\ Plus(s, m) <= Plus(m, z)
      /\ (s = 0 => Plus(s, m) = m) /\ (s = z => Plus(s, m) = Plus(m, z))
  BY <1>2, <1>4, Sums
<1> QED BY <1>1, <1>3, <1>4, <1>5 DEF z

(***************************************************************************)
(* A range that is not finite decodes to nothing finite.                   *)
(***************************************************************************)
LEMMA DecodedOfNone ==
  ASSUME NEW c, Serves(c), NEW m \in Floats, NEW i \in 0..c.maxIntegerValue,
         c.delta \notin FiniteFloats \/ m \notin FiniteFloats
  PROVE  ~IsFinite(Decode(c, m, i))
<1> DEFINE z == c.delta
           q == Over(FromInteger(i), FromInteger(c.maxIntegerValue))
           s == Times(q, z)
<1>1. q \in FiniteFloats /\ 0 <= q /\ q <= One
  BY QuotientOfSteps
<1>2. z \in FiniteFloats \cup {Infinity} /\ z > 0
  BY DEF Serves
<1>3. Decode(c, m, i) = Plus(s, m)
  BY DEF Decode
<1>4. Infinity \in Nat \ {0} /\ NaN > Infinity /\ NaN \in Int
  BY FloatFormat, NaNApart
<1>5. ~IsFinite(Infinity) /\ ~IsFinite(-Infinity) /\ ~IsFinite(NaN)
  BY <1>4 DEF IsFinite
<1>6. m \in FiniteFloats \/ m \in {Infinity, -Infinity, NaN}
  BY FloatsAre DEF Rounded
<1>7. c.delta \notin FiniteFloats <=> z \notin FiniteFloats
  OBVIOUS
<1> HIDE DEF z, q
<1>8. CASE z \notin FiniteFloats
  <2>1. z = Infinity
    BY <1>2, <1>8
  <2>2. q \in Int /\ q # NaN /\ -Infinity < q /\ q < Infinity
    BY <1>1, <1>4, FiniteRange
  <2>3. IsFinite(q) /\ ~IsFinite(z) /\ NaN \notin {q, z}
    BY <2>1, <2>2, <1>4 DEF IsFinite
  <2>4. (q < 0) = (z < 0)
    BY <2>1, <2>2, <1>1, <1>4
  <2>5. s \in {NaN, Infinity}
    BY <2>3, <2>4, Zenon DEF Times
  <2> HIDE DEF s
  <2>6. ~IsFinite(s)
    BY <2>5, <1>5
  <2>7. Plus(s, m) \in {NaN, s}
    BY <2>6, Zenon DEF Plus
  <2>8. Plus(s, m) \in {NaN, Infinity}
    BY <2>5, <2>7
  <2> QED BY <2>8, <1>3, <1>5
<1>9. CASE z \in FiniteFloats
  <2>1. m \in {Infinity, -Infinity, NaN}
    BY <1>6, <1>7, <1>9
  <2>2. z \in Int
    BY <1>9, FiniteRange
  <2>3. s \in FiniteFloats
    BY <1>1, <1>2, <1>9, <2>2, Parts
  <2> HIDE DEF s
  <2>4. IsFinite(s)
    BY <2>3, FiniteIs DEF Rounded
  <2>5. ~IsFinite(m)
    BY <2>1, <1>5
  <2>6. Plus(s, m) \in {NaN, m}
    BY <2>4, <2>5, Zenon DEF Plus
  <2>7. Plus(s, m) \in {Infinity, -Infinity, NaN}
    BY <2>1, <2>6
  <2> QED BY <2>7, <1>3, <1>5
<1> QED BY <1>8, <1>9

(***************************************************************************)
(* A read of a step, and one past the last.                                *)
(***************************************************************************)
LEMMA ReadFieldIs ==
  ASSUME NEW d, NEW i
  PROVE  LET c == Constants(d)
         IN  ReadField(d, i) =
               IF ~ReaderTakes(d) THEN Refuses("value_out_of_range")
               ELSE IF i > c.maxIntegerValue THEN Refuses("value_out_of_range")
               ELSE IF ~IsFinite(Decode(c, d.min, i)) THEN Refuses("non_finite_float")
               ELSE Returns(Decode(c, d.min, i))
BY Zenon DEF ReadField, Decode

(***************************************************************************)
(* A refusal and an answer are told apart by the reason.                   *)
(***************************************************************************)
LEMMA Answers == /\ \A reason : Refuses(reason).refusal = reason
                 /\ \A x : Returns(x).refusal = None /\ Returns(x).value = x
BY DEF Refuses, Returns

(***************************************************************************)
(* A value's integer is a step, the first for a value at or below the      *)
(* minimum, and the last for one at or above the maximum if the number of  *)
(* steps is itself a float.                                                *)
(***************************************************************************)
LEMMA PlaceInRange ==
  ASSUME NEW x \in FiniteFloats, NEW m \in FiniteFloats, NEW z \in FiniteFloats, z > 0
  PROVE  LET p == ToUnit(Over(Minus(x, m), z))
         IN  /\ p \in FiniteFloats /\ 0 <= p /\ p <= One
             /\ x <= m => p = 0
             /\ z <= Minus(x, m) => p = One
<1> DEFINE y == Minus(x, m)
           o == Over(y, z)
           p == ToUnit(o)
<1>1. x \in Int /\ m \in Int /\ -m \in FiniteFloats /\ z \in Int
  BY FiniteRange
<1>2. y = Plus(x, -m) /\ -m # NaN /\ m # NaN
  <2>1. m # NaN
    BY NaNApart DEF Rounded
  <2> QED BY <2>1, <1>1, NaNApart DEF Minus, Rounded
<1>3. x + (-m) \in Roundable /\ y = Round(x + (-m), 1) /\ y \in Rounded
  BY <1>1, <1>2, PlusIs
<1>4. x <= m => y <= 0
  <2> SUFFICES ASSUME x <= m PROVE y <= 0
    OBVIOUS
  <2>1. 0 \in Roundable /\ Round(0, 1) = 0 /\ x + (-m) <= 0
    BY <1>1, RoundOne, SmallFloats
  <2> QED BY <2>1, <1>3, RoundMonotone
<1>5. Infinity \in Nat \ {0} /\ One \in Nat \ {0} /\ One < Infinity /\ NaN > Infinity /\ NaN \in Int
  BY FloatFormat, NaNApart
<1> HIDE DEF y
<1>6. y \in Int
  BY <1>3, FiniteIs
<1>7. o \in Rounded /\ (y <= 0 => o <= 0) /\ (z <= y => One <= o)
  <2>1. CASE y \in FiniteFloats
    BY <2>1, Quotients
  <2>2. CASE y \notin FiniteFloats
    <3>1. y \in {Infinity, -Infinity}
      BY <1>3, <2>2 DEF Rounded
    <3>2. y # NaN /\ ~IsFinite(y) /\ IsFinite(z)
      BY <3>1, <1>5, FiniteRange DEF IsFinite
    <3>3. o = y
      BY <3>2, Zenon DEF Over
    <3>4. z < Infinity
      BY FiniteRange
    <3> QED BY <3>1, <3>3, <3>4, <1>1, <1>3, <1>5
  <2> QED BY <2>1, <2>2
<1> HIDE DEF o
<1>8. o \in Int /\ o # NaN /\ 0 # NaN /\ One # NaN
  BY <1>5, <1>7, FiniteIs, NaNApart
<1>9. p = IF ~(0 <= o) THEN 0 ELSE IF ~(o <= One) THEN One ELSE o
  BY <1>8, Zenon DEF ToUnit, LessEqual
<1> HIDE DEF p
<1>10. p \in FiniteFloats
  <2>1. 0 <= o /\ o <= One => o \in FiniteFloats
    BY <1>5, <1>7, <1>8 DEF Rounded
  <2> QED BY <2>1, <1>9, SmallFloats
<1>11. 0 <= p /\ p <= One
  BY <1>5, <1>8, <1>9
<1>12. x <= m => p = 0
  BY <1>1, <1>4, <1>5, <1>7, <1>8, <1>9
<1>13. z <= y => p = One
  BY <1>5, <1>7, <1>8, <1>9
<1> QED BY <1>10, <1>11, <1>12, <1>13 DEF p, o, y

(***************************************************************************)
(* The integer of a value is a step, whatever half a step carries to; the  *)
(* ends of the range have the first step and the last.                     *)
(***************************************************************************)
LEMMA QuantizeIs ==
  ASSUME NEW c, Serves(c), c.delta \in FiniteFloats,
         NEW m \in FiniteFloats, NEW x \in FiniteFloats
  PROVE  /\ Quantize(c, m, x) \in 0..c.maxIntegerValue
         /\ x <= m => Quantize(c, m, x) = 0
         /\ c.maxIntegerValue * One \in FiniteFloats /\ c.delta <= Minus(x, m)
              => Quantize(c, m, x) = c.maxIntegerValue
<1> DEFINE n == c.maxIntegerValue
           z == c.delta
           p == ToUnit(Over(Minus(x, m), z))
           y == FromInteger(n)
           s == Times(p, y)
           half == One \div 2
           w == Plus(s, half)
           i == Floor(w)
           far == z <= Minus(x, m)
<1>1. n \in 1..LargestBelow /\ n \in 0..LargestBelow /\ n # 0 /\ n \in 0..n /\ n \in Nat
  BY IntegerFormat DEF Serves
<1>2. z \in FiniteFloats /\ z > 0
  BY DEF Serves
<1>3. Quantize(c, m, x) = IF i > n THEN n ELSE i
  BY Zenon DEF Quantize, Scaled
<1>4. p \in FiniteFloats /\ 0 <= p /\ p <= One /\ (x <= m => p = 0) /\ (far => p = One)
  BY <1>2, PlaceInRange
<1>5. n * One \in FiniteFloats => y = n * One
  BY <1>1, StepExact
<1>6. far <=> c.delta <= Minus(x, m)
  OBVIOUS
<1>7. n = c.maxIntegerValue
  OBVIOUS
<1> HIDE DEF n, z, p, far
<1>8. y \in FiniteFloats /\ 0 <= y
  BY <1>1, StepIs
<1> HIDE DEF y
<1>9. s \in FiniteFloats /\ 0 <= s /\ (p = 0 => s = 0) /\ (p = One => s = y)
  BY <1>4, <1>8, Parts
<1> HIDE DEF s
<1>10. half \in FiniteFloats /\ 0 <= half /\ half < One
  BY SmallFloats
<1> HIDE DEF half
<1>11. s + half \in Roundable /\ w = Round(s + half, 1) /\ w \in Rounded
  BY <1>9, <1>10, PlusIs
<1>12. s \in Int /\ half \in Int /\ w \in Int /\ One \in Nat \ {0}
  BY <1>9, <1>10, <1>11, FiniteRange, FiniteIs, FloatFormat
<1>13. s <= w
  <2>1. s \in Roundable /\ Round(s, 1) = s /\ s <= s + half
    BY <1>9, <1>10, <1>12, RoundOne
  <2> QED BY <2>1, <1>11, RoundMonotone
<1>14. s = 0 => w = half
  <2> SUFFICES ASSUME s = 0 PROVE w = half
    OBVIOUS
  <2>1. s + half = half
    BY <1>12
  <2>2. Round(half, 1) = half
    BY <1>10, RoundOne
  <2> QED BY <2>1, <2>2, <1>11
<1> HIDE DEF w
<1> DEFINE r == w % One
<1>15. i \in Int /\ r \in 0..One-1 /\ w = i * One + r
  <2>1. w \in Nat
    BY <1>9, <1>12, <1>13
  <2> QED BY <2>1, <1>12, DivMod DEF Floor
<1> HIDE DEF i, r
<1>16. i >= 0
  <2> SUFFICES ASSUME i + 1 <= 0 PROVE FALSE
    BY <1>15
  <2>1. (i + 1) * One <= 0 * One
    BY <1>12, <1>15, Products
  <2>2. (i + 1) * One = i * One + One /\ 0 * One = 0
    BY <1>12, <1>15
  <2> QED BY <2>1, <2>2, <1>9, <1>12, <1>13, <1>15
<1>17. Quantize(c, m, x) \in 0..n
  BY <1>1, <1>3, <1>15, <1>16
<1>18. x <= m => Quantize(c, m, x) = 0
  <2> SUFFICES ASSUME x <= m PROVE Quantize(c, m, x) = 0
    OBVIOUS
  <2>1. w = half
    BY <1>4, <1>9, <1>14
  <2>2. i = 0
    <3> SUFFICES ASSUME i >= 1 PROVE FALSE
      BY <1>15, <1>16
    <3>1. 1 * One <= i * One
      BY <1>12, <1>15, Products
    <3> QED BY <3>1, <2>1, <1>10, <1>12, <1>15
  <2> QED BY <2>2, <1>1, <1>3
<1>19. n * One \in FiniteFloats /\ far => Quantize(c, m, x) = n
  <2> SUFFICES ASSUME n * One \in FiniteFloats, far PROVE Quantize(c, m, x) = n
    OBVIOUS
  <2>1. s = n * One
    BY <1>4, <1>5, <1>9
  <2>2. i >= n
    <3> SUFFICES ASSUME i + 1 <= n PROVE FALSE
      BY <1>1, <1>15
    <3>1. (i + 1) * One <= n * One
      BY <1>1, <1>12, <1>15, Products
    <3>2. (i + 1) * One = i * One + One
      BY <1>12, <1>15
    <3> QED BY <3>1, <3>2, <2>1, <1>12, <1>13, <1>15
  <2> QED BY <2>2, <1>1, <1>3, <1>15
<1> QED BY <1>6, <1>7, <1>17, <1>18, <1>19

(***************************************************************************)
(* What a write that does not panic knows of its declaration and value.    *)
(***************************************************************************)
LEMMA WriteFieldIs ==
  ASSUME NEW d, NEW x
  PROVE  LET c == Constants(d)
         IN  WriteField(d, x) =
               IF DeclarationTrap(d) # None THEN Panics(DeclarationTrap(d))
               ELSE IF ~IsFinite(Plus(d.min, c.delta)) THEN Panics("float decode")
               ELSE IF ~IsFinite(x) THEN Panics("non finite float")
               ELSE Emits(c.bits, Quantize(c, d.min, x))
BY Zenon DEF WriteField

(***************************************************************************)
(* What is sent, and the message of a panic.                               *)
(***************************************************************************)
LEMMA OnTheWire ==
  /\ \A message : Panics(message).trap = message /\ Panics(message).bits = 0
  /\ \A k, i : Emits(k, i).trap = None /\ Emits(k, i).bits = k /\ Emits(k, i).integer = i
BY DEF Panics, Emits

(***************************************************************************)
(* A writer that takes a declaration takes it on no less than the reader.  *)
(***************************************************************************)
LEMMA TrapsOnDeclarations ==
  ASSUME NEW d \in Derived \cup Precomputed, DeclarationTrap(d) = None
  PROVE  /\ ReaderTakes(d)
         /\ d.kind = "derived" => checkCompressedFloatDeclarationFinite(d)
<1>1. CASE d.kind = "derived"
  <2>1. compressedFloatDeclarationValid(d) /\ checkCompressedFloatDeclarationFinite(d)
    BY <1>1 DEF DeclarationTrap, None
  <2> QED BY <2>1, <1>1 DEF ReaderTakes
<1>2. CASE d.kind # "derived"
  <2>1. compressedFloatConstantsValid(d)
    BY <1>2 DEF DeclarationTrap, None
  <2> QED BY <2>1, <1>2 DEF ReaderTakes
<1> QED BY <1>1, <1>2

(***************************************************************************)
(* A write that does not panic sends a step, in a range that is finite at  *)
(* both ends.                                                              *)
(***************************************************************************)
LEMMA WriterServes ==
  ASSUME NEW d \in Derived \cup Precomputed, NEW x \in Values, WriteField(d, x).trap = None
  PROVE  LET c == Constants(d)
         IN  /\ DeclarationTrap(d) = None /\ ReaderTakes(d) /\ Serves(c)
             /\ c.delta \in FiniteFloats /\ d.min \in FiniteFloats /\ x \in FiniteFloats
             /\ IsFinite(Plus(d.min, c.delta))
             /\ WriteField(d, x) = Emits(c.bits, Quantize(c, d.min, x))
<1> DEFINE c == Constants(d)
           t == DeclarationTrap(d)
           top == Plus(d.min, c.delta)
           w == Emits(c.bits, Quantize(c, d.min, x))
<1>1. WriteField(d, x) = IF t # None THEN Panics(t)
                         ELSE IF ~IsFinite(top) THEN Panics("float decode")
                         ELSE IF ~IsFinite(x) THEN Panics("non finite float") ELSE w
  BY WriteFieldIs
<1> HIDE DEF t, w
<1>2. None # "float decode" /\ None # "non finite float"
  BY DEF None
<1>3. t = None /\ IsFinite(top) /\ IsFinite(x) /\ WriteField(d, x) = w
  BY <1>1, <1>2, OnTheWire
<1>4. ReaderTakes(d) /\ (d.kind = "derived" => checkCompressedFloatDeclarationFinite(d))
  BY <1>3, TrapsOnDeclarations DEF t
<1>5. Serves(c) /\ d.min \in Floats
  BY <1>4, ReaderServes
<1>6. c.delta \in FiniteFloats
  <2>1. CASE d \in Derived
    <3>1. d.kind = "derived"
      BY <2>1 DEF Derived
    <3>2. compressedFloatDeclarationValid(d) /\ IsFinite(Minus(d.max, d.min))
      BY <1>4, <3>1 DEF ReaderTakes, checkCompressedFloatDeclarationFinite
    <3>3. c.delta = Minus(d.max, d.min)
      BY <2>1, <3>2, DerivedServes
    <3>4. c.delta \in Rounded
      BY <1>5 DEF Serves, Rounded
    <3> QED BY <3>2, <3>3, <3>4, FiniteIs
  <2>2. CASE d \in Precomputed
    <3>1. d.kind = "precomputed"
      BY <2>2 DEF Precomputed
    <3>2. compressedFloatConstantsValid(d)
      BY <1>4, <3>1 DEF ReaderTakes
    <3> QED BY <2>2, <3>2, PrecomputedServes
  <2> QED BY <2>1, <2>2
<1>7. d.min \in FiniteFloats
  <2> SUFFICES ASSUME ~IsFinite(d.min) PROVE FALSE
    BY <1>5, FiniteOnly
  <2>1. IsFinite(c.delta)
    BY <1>6, FiniteIs DEF Rounded
  <2>2. top \in {NaN, d.min}
    BY <2>1, Zenon DEF Plus
  <2> QED BY <2>2, <1>3, NaNApart
<1>8. x \in FiniteFloats
  BY <1>3, BoundsAre, FiniteOnly
<1> QED BY <1>3, <1>4, <1>5, <1>6, <1>7, <1>8 DEF t, w

(***************************************************************************)
(* The inductive invariant: at every stage, width, wire and result are     *)
(* what the three streams make of the declaration and the value.           *)
(***************************************************************************)
FloatInv ==
  /\ declaration \in Derived \cup Precomputed
  /\ stage \in {"declared", "measured", "written", "read", "forged"}
  /\ stage \in {"measured", "written", "read"} =>
       value \in Values /\ measured = MeasureField(declaration, value)
  /\ stage \in {"written", "read"} => wire = WriteField(declaration, value)
  /\ stage = "read" => wire.trap = None
  /\ stage = "forged" => wire.integer \in Forged(declaration)
  /\ stage \in {"read", "forged"} => result = ReadField(declaration, wire.integer)

(***************************************************************************)
(* Every step of the field keeps the invariant.                            *)
(***************************************************************************)
LEMMA FloatKeeps == FloatInv /\ [FloatNext]_floatVars => FloatInv'
<1> SUFFICES ASSUME FloatInv, [FloatNext]_floatVars PROVE FloatInv'
  OBVIOUS
<1>1. CASE UNCHANGED floatVars
  BY <1>1, Zenon DEF FloatInv, floatVars
<1>2. ASSUME NEW x \in Values, Measure(x) PROVE FloatInv'
  <2>1. /\ stage = "declared" /\ stage' = "measured" /\ value' = x
        /\ measured' = MeasureField(declaration, x)
        /\ declaration' = declaration /\ wire' = wire /\ result' = result
    BY <1>2, Zenon DEF Measure
  <2>2. measured' = MeasureField(declaration', value')
    BY <2>1, Zenon
  <2> QED BY <2>1, <2>2 DEF FloatInv
<1>3. CASE Serialize
  <2>1. /\ stage = "measured" /\ stage' = "written" /\ wire' = WriteField(declaration, value)
        /\ declaration' = declaration /\ measured' = measured /\ value' = value /\ result' = result
    BY <1>3, Zenon DEF Serialize
  <2>2. value \in Values /\ measured = MeasureField(declaration, value)
    BY <2>1 DEF FloatInv
  <2>3. measured' = MeasureField(declaration', value') /\ wire' = WriteField(declaration', value')
    BY <2>1, <2>2, Zenon
  <2> QED BY <2>1, <2>2, <2>3 DEF FloatInv
<1>4. CASE Receive
  <2>1. /\ stage = "written" /\ wire.trap = None /\ stage' = "read"
        /\ result' = ReadField(declaration, wire.integer)
        /\ declaration' = declaration /\ measured' = measured /\ value' = value /\ wire' = wire
    BY <1>4, Zenon DEF Receive
  <2>2. /\ value \in Values /\ measured = MeasureField(declaration, value)
        /\ wire = WriteField(declaration, value)
    BY <2>1 DEF FloatInv
  <2>3. /\ measured' = MeasureField(declaration', value') /\ wire' = WriteField(declaration', value')
        /\ result' = ReadField(declaration', wire'.integer) /\ wire'.trap = None
    BY <2>1, <2>2, Zenon
  <2> QED BY <2>1, <2>2, <2>3 DEF FloatInv
<1>5. ASSUME NEW i \in Forged(declaration), ReceiveAny(i) PROVE FloatInv'
  <2>1. /\ stage' = "forged" /\ wire' = Emits(Length(i), i)
        /\ result' = ReadField(declaration, i) /\ declaration' = declaration
    BY <1>5, Zenon DEF ReceiveAny
  <2>2. wire'.integer = i
    BY <2>1, OnTheWire
  <2>3. /\ result' = ReadField(declaration', wire'.integer)
        /\ wire'.integer \in Forged(declaration')
    BY <2>1, <2>2, Zenon
  <2> QED BY <2>1, <2>3 DEF FloatInv
<1> QED BY <1>1, <1>2, <1>3, <1>4, <1>5 DEF FloatNext

(***************************************************************************)
(* The invariant holds in every state.                                     *)
(***************************************************************************)
LEMMA FloatInvariant == FloatSpec => []FloatInv
<1>1. FloatInit => FloatInv
  BY DEF FloatInit, FloatInv
<1> QED BY <1>1, FloatKeeps, PTL DEF FloatSpec

(***************************************************************************)
(* "A measure panics exactly where the write would" (measure_stream.go),   *)
(* for every declaration and value, although it looks at the top of a      *)
(* derived range in another place.                                         *)
(***************************************************************************)
THEOREM MeasuresAsItWrites == FloatSpec => []MeasureAgrees
<1>1. FloatInv => MeasureAgrees
  <2> SUFFICES ASSUME FloatInv, stage = "written"
               PROVE  measured = [trap |-> wire.trap, bits |-> wire.bits]
    BY DEF MeasureAgrees
  <2> DEFINE d == declaration
             x == value
             c == Constants(d)
             t == DeclarationTrap(d)
             top == Plus(d.min, c.delta)
             w == Emits(c.bits, Quantize(c, d.min, x))
  <2>1. /\ d \in Derived \cup Precomputed
        /\ measured = MeasureField(d, x) /\ wire = WriteField(d, x)
    BY DEF FloatInv
  <2> HIDE DEF d, x
  <2>2. wire = IF t # None THEN Panics(t)
               ELSE IF ~IsFinite(top) THEN Panics("float decode")
               ELSE IF ~IsFinite(x) THEN Panics("non finite float") ELSE w
    BY <2>1, WriteFieldIs
  <2>3. measured = IF t # None THEN [trap |-> t, bits |-> 0]
                   ELSE IF d.kind = "precomputed" /\ ~IsFinite(Plus(d.min, d.delta))
                          THEN [trap |-> "float decode", bits |-> 0]
                   ELSE IF ~IsFinite(x) THEN [trap |-> "non finite float", bits |-> 0]
                   ELSE [trap |-> None, bits |-> c.bits]
    BY <2>1, Zenon DEF MeasureField
  <2>4. t = None => (~IsFinite(top) <=> d.kind = "precomputed" /\ ~IsFinite(Plus(d.min, d.delta)))
    <3> SUFFICES ASSUME t = None
                 PROVE  ~IsFinite(top) <=> d.kind = "precomputed" /\ ~IsFinite(Plus(d.min, d.delta))
      OBVIOUS
    <3>1. ReaderTakes(d) /\ (d.kind = "derived" => checkCompressedFloatDeclarationFinite(d))
      BY <2>1, TrapsOnDeclarations
    <3>2. CASE d \in Derived
      <4>1. d.kind = "derived"
        BY <3>2 DEF Derived
      <4>2. compressedFloatDeclarationValid(d)
        BY <3>1, <4>1 DEF ReaderTakes
      <4>3. c.delta = Minus(d.max, d.min)
        BY <3>2, <4>2, DerivedServes
      <4>4. IsFinite(top)
        BY <3>1, <4>1, <4>3 DEF checkCompressedFloatDeclarationFinite
      <4> QED BY <4>1, <4>4
    <3>3. CASE d \in Precomputed
      <4>1. d.kind = "precomputed"
        BY <3>3 DEF Precomputed
      <4>2. compressedFloatConstantsValid(d)
        BY <3>1, <4>1 DEF ReaderTakes
      <4>3. c.delta = d.delta
        BY <3>3, <4>2, PrecomputedServes
      <4> QED BY <4>1, <4>3
    <3> QED BY <2>1, <3>2, <3>3
  <2> HIDE DEF t, top, w
  <2>5. w.trap = None /\ w.bits = c.bits
    BY OnTheWire DEF w
  <2> QED BY <2>2, <2>3, <2>4, <2>5, OnTheWire
<1> QED BY <1>1, FloatInvariant, PTL

(***************************************************************************)
(* A step fits the width of the steps.                                     *)
(***************************************************************************)
LEMMA WidthHolds ==
  ASSUME NEW c, Serves(c), NEW i \in 0..c.maxIntegerValue
  PROVE  i < 2^c.bits
<1> DEFINE n == c.maxIntegerValue
<1>1. n \in 1..LargestBelow /\ c.bits = Length(n) /\ i \in 0..n
  BY DEF Serves
<1> HIDE DEF n
<1>2. n \in Nat /\ n <= LargestBelow /\ LargestBelow \in Nat
  BY <1>1, IntegerFormat
<1>3. LargestBelow * 1 <= LargestBelow * One /\ LargestBelow * One < Infinity
  BY <1>2, IntegerFormat, ScaleType, FloatFormat
<1>4. n < Reach
  BY <1>2, <1>3, FloatFormat, ReachIs
<1>5. Length(n) \in Nat /\ n < 2^Length(n)
  BY <1>2, <1>4, LengthIs
<1>6. 2^Length(n) \in Nat
  BY <1>5, Powers
<1> QED BY <1>1, <1>2, <1>5, <1>6

(***************************************************************************)
(* "The writer emits a code its own reader rejects, or one bit wider than  *)
(* the field" (write_stream.go) does not happen, whatever the format of    *)
(* the floats, the width of the integers, the declaration and the value.   *)
(***************************************************************************)
THEOREM AcceptsWhatIsWritten == FloatSpec => []ReaderAcceptsWriter
<1>1. FloatInv => ReaderAcceptsWriter
  <2> SUFFICES ASSUME FloatInv, stage \in {"written", "read"}, wire.trap = None
               PROVE  /\ wire.integer < 2^wire.bits
                      /\ stage = "read" => result.refusal = None
    BY DEF ReaderAcceptsWriter, FloatInv
  <2> DEFINE d == declaration
             c == Constants(d)
             i == Quantize(c, d.min, value)
  <2>1. d \in Derived \cup Precomputed /\ value \in Values /\ wire = WriteField(d, value)
    BY DEF FloatInv
  <2>2. /\ ReaderTakes(d) /\ Serves(c) /\ c.delta \in FiniteFloats /\ d.min \in FiniteFloats
        /\ value \in FiniteFloats /\ IsFinite(Plus(d.min, c.delta)) /\ wire = Emits(c.bits, i)
    BY <2>1, WriterServes
  <2>3. stage = "read" => result = ReadField(d, wire.integer)
    BY DEF FloatInv
  <2> HIDE DEF d
  <2>4. i \in 0..c.maxIntegerValue
    BY <2>2, QuantizeIs
  <2> HIDE DEF c, i
  <2>5. wire.integer = i /\ wire.bits = c.bits
    BY <2>2, OnTheWire
  <2>6. i < 2^c.bits
    BY <2>2, <2>4, WidthHolds
  <2> DEFINE x == Decode(c, d.min, i)
             top == Plus(d.min, c.delta)
  <2>7. x \in Rounded /\ d.min <= x /\ x <= top
    BY <2>2, <2>4, Decoded
  <2>8. top \in FiniteFloats
    BY <2>2, PlusIs, FiniteIs
  <2> HIDE DEF x, top
  <2>9. IsFinite(x)
    <3>1. x \in Int /\ d.min \in Int /\ -Infinity < d.min /\ top \in Int /\ top < Infinity
      BY <2>2, <2>7, <2>8, FiniteIs, FiniteRange
    <3> QED BY <3>1, <2>7, FloatFormat DEF IsFinite
  <2>10. ReadField(d, i) = Returns(x)
    <3>1. c.maxIntegerValue \in Int /\ ~(i > c.maxIntegerValue)
      BY <2>2, <2>4, IntegerFormat DEF Serves
    <3>2. ReadField(d, i) = IF ~ReaderTakes(d) THEN Refuses("value_out_of_range")
                            ELSE IF i > c.maxIntegerValue THEN Refuses("value_out_of_range")
                            ELSE IF ~IsFinite(x) THEN Refuses("non_finite_float") ELSE Returns(x)
      BY ReadFieldIs DEF c, x
    <3> QED BY <2>2, <2>9, <3>1, <3>2
  <2>11. stage = "read" => result.refusal = None
    BY <2>3, <2>5, <2>10, Answers
  <2> QED BY <2>5, <2>6, <2>11
<1> QED BY <1>1, FloatInvariant, PTL

(***************************************************************************)
(* "On read a successful decode is finite and lies in [min, min + delta]"  *)
(* (stream.go), for any bits and any declaration, with the two ends where  *)
(* they are declared.                                                      *)
(***************************************************************************)
THEOREM DecodesInside == FloatSpec => []DecodesBetweenEnds
<1>1. FloatInv => DecodesBetweenEnds
  <2> DEFINE d == declaration
             c == Constants(d)
             i == wire.integer
             n == c.maxIntegerValue
             top == Plus(d.min, c.delta)
             x == Decode(c, d.min, i)
  <2> SUFFICES ASSUME FloatInv, stage \in {"read", "forged"}, result.refusal = None
               PROVE  /\ IsFinite(result.value)
                      /\ LessEqual(d.min, result.value) /\ LessEqual(result.value, top)
                      /\ i = 0 => result.value = d.min
                      /\ i = n => result.value = top
    BY Zenon DEF DecodesBetweenEnds
  <2>1. d \in Derived \cup Precomputed /\ result = ReadField(d, i)
    BY DEF FloatInv
  <2>2. result = IF ~ReaderTakes(d) THEN Refuses("value_out_of_range")
                 ELSE IF i > n THEN Refuses("value_out_of_range")
                 ELSE IF ~IsFinite(x) THEN Refuses("non_finite_float") ELSE Returns(x)
    BY <2>1, ReadFieldIs
  <2>3. None # "value_out_of_range" /\ None # "non_finite_float"
    BY DEF None
  <2>4. stage = "read" => value \in Values /\ wire = WriteField(d, value) /\ wire.trap = None
    BY DEF FloatInv
  <2>5. stage = "forged" => i \in Forged(d)
    BY DEF FloatInv
  <2> HIDE DEF x
  <2>6. ReaderTakes(d) /\ ~(i > n) /\ IsFinite(x) /\ result = Returns(x)
    BY <2>2, <2>3, Answers
  <2>7. result.value = x
    BY <2>6, Answers
  <2>8. /\ Serves(c) /\ d.min \in Floats /\ n \in Nat
    BY <2>1, <2>6, ReaderServes, IntegerFormat DEF Serves
  <2>9. i \in 0..n
    <3>1. CASE stage = "read"
      <4>1. wire = Emits(c.bits, Quantize(c, d.min, value)) /\ c.delta \in FiniteFloats
            /\ d.min \in FiniteFloats /\ value \in FiniteFloats
        BY <3>1, <2>1, <2>4, WriterServes
      <4>2. i = Quantize(c, d.min, value)
        BY <4>1, OnTheWire
      <4> QED BY <4>1, <4>2, <2>8, QuantizeIs
    <3>2. CASE stage = "forged"
      <4>1. i \in 0..2^c.bits-1
        BY <3>2, <2>5, <2>6 DEF Forged
      <4> QED BY <4>1, <2>6, <2>8
    <3> QED BY <3>1, <3>2
  <2>10. c.delta \in FiniteFloats /\ d.min \in FiniteFloats
    BY <2>6, <2>8, <2>9, DecodedOfNone DEF x
  <2>11. /\ x \in Rounded /\ d.min <= x /\ x <= top
         /\ (i = 0 => x = d.min) /\ (i = n => x = top)
    BY <2>8, <2>9, <2>10, Decoded DEF x
  <2>12. top \in Rounded
    BY <2>10, PlusIs
  <2>13. d.min # NaN /\ x # NaN /\ top # NaN
    BY <2>10, <2>11, <2>12, NaNApart DEF Rounded
  <2> HIDE DEF top, n, i, c, d
  <2>14. LessEqual(d.min, x) /\ LessEqual(x, top)
    BY <2>11, <2>13 DEF LessEqual
  <2> QED BY <2>6, <2>7, <2>11, <2>14
<1> QED BY <1>1, FloatInvariant, PTL

(***************************************************************************)
(* Derived constants are the ones a writer takes as precomputed, "wire     *)
(* identical by construction" (stream.go), and a value at or past an end   *)
(* of the range is sent as that end.                                       *)
(***************************************************************************)
THEOREM DerivedServeAsPrecomputed == FloatSpec => []DerivedConstantsServe
<1>1. FloatInv => DerivedConstantsServe
  <2> DEFINE d == declaration
             x == value
             c == Constants(d)
             n == c.maxIntegerValue
             given == [kind |-> "precomputed", maxIntegerValue |-> n,
                       bits |-> c.bits, delta |-> c.delta, min |-> d.min]
  <2> SUFFICES ASSUME FloatInv, stage = "written", wire.trap = None, d.kind = "derived"
               PROVE  /\ WriteField(given, x) = wire
                      /\ x <= d.min => wire.integer = 0
                      /\ x >= d.max => wire.integer = n
    BY Zenon DEF DerivedConstantsServe
  <2> DEFINE i == Quantize(c, d.min, x)
  <2>1. d \in Derived \cup Precomputed /\ x \in Values /\ wire = WriteField(d, x)
    BY DEF FloatInv
  <2>2. /\ DeclarationTrap(d) = None /\ ReaderTakes(d) /\ Serves(c)
        /\ c.delta \in FiniteFloats /\ d.min \in FiniteFloats /\ x \in FiniteFloats
        /\ IsFinite(Plus(d.min, c.delta)) /\ wire = Emits(c.bits, i)
    BY <2>1, WriterServes
  <2>3. wire.integer = i
    BY <2>2, OnTheWire
  <2>4. d \in Derived
    BY <2>1 DEF Precomputed
  <2>5. compressedFloatDeclarationValid(d)
    BY <2>2 DEF ReaderTakes
  <2>6. /\ n * One \in FiniteFloats /\ c.delta = Minus(d.max, d.min)
        /\ d.min \in Rounded /\ d.max \in Rounded /\ d.min < d.max
    BY <2>4, <2>5, DerivedServes
  <2>7. d.max \in FiniteFloats /\ Minus(d.max, d.min) = Plus(d.max, -d.min)
    BY <2>2, <2>6, RangeIs
  <2>8. x >= d.max => c.delta <= Minus(x, d.min)
    <3> SUFFICES ASSUME x >= d.max PROVE c.delta <= Minus(x, d.min)
      OBVIOUS
    <3>1. -d.min \in FiniteFloats /\ d.min \in Int /\ x \in Int /\ d.max \in Int
      BY <2>2, <2>7, FiniteRange
    <3>2. d.min # NaN
      BY <2>6, NaNApart
    <3>3. Minus(x, d.min) = Plus(x, -d.min)
      BY <3>2, Zenon DEF Minus
    <3>4. /\ x + (-d.min) \in Roundable /\ Plus(x, -d.min) = Round(x + (-d.min), 1)
          /\ d.max + (-d.min) \in Roundable /\ Plus(d.max, -d.min) = Round(d.max + (-d.min), 1)
      BY <2>2, <2>7, <3>1, PlusIs
    <3>5. d.max + (-d.min) <= x + (-d.min)
      BY <3>1
    <3>6. Plus(d.max, -d.min) <= Plus(x, -d.min)
      BY <3>4, <3>5, RoundMonotone
    <3> QED BY <2>6, <2>7, <3>3, <3>6
  <2>9. (x <= d.min => i = 0) /\ (x >= d.max => i = n)
    BY <2>2, <2>6, <2>8, QuantizeIs
  <2>10. WriteField(given, x) = wire
    <3> DEFINE again == [maxIntegerValue |-> n, bits |-> c.bits, delta |-> c.delta]
    <3>1. /\ given.kind = "precomputed" /\ given.maxIntegerValue = n /\ given.bits = c.bits
          /\ given.delta = c.delta /\ given.min = d.min
      BY Zenon
    <3>2. again.maxIntegerValue = n /\ again.bits = c.bits /\ again.delta = c.delta
      BY Zenon
    <3> HIDE DEF given
    <3>3. Constants(given) = again
      BY <3>1 DEF Constants
    <3>4. n \in 1..LargestBelow /\ c.bits = Length(n) /\ c.delta > 0
      BY <2>2 DEF Serves
    <3>5. c.delta \in Int /\ c.delta # NaN /\ 0 # NaN /\ IsFinite(c.delta)
      BY <2>2, FiniteIs, NaNApart, FloatFormat DEF Rounded
    <3>6. Less(0, c.delta)
      BY <3>4, <3>5 DEF Less
    <3>7. compressedFloatConstantsValid(given)
      BY <3>1, <3>4, <3>5, <3>6, Zenon DEF compressedFloatConstantsValid
    <3>8. DeclarationTrap(given) = None
      BY <3>1, <3>7 DEF DeclarationTrap
    <3>9. Quantize(again, d.min, x) = i
      BY <3>2, Zenon DEF Quantize, Scaled
    <3>10. IsFinite(x)
      BY <2>2, FiniteIs DEF Rounded
    <3> HIDE DEF again, n, c, i
    <3>11. WriteField(given, x) =
             IF DeclarationTrap(given) # None THEN Panics(DeclarationTrap(given))
             ELSE IF ~IsFinite(Plus(given.min, Constants(given).delta)) THEN Panics("float decode")
             ELSE IF ~IsFinite(x) THEN Panics("non finite float")
             ELSE Emits(Constants(given).bits, Quantize(Constants(given), given.min, x))
      BY WriteFieldIs
    <3>12. WriteField(given, x) =
             IF ~IsFinite(Plus(d.min, c.delta)) THEN Panics("float decode")
             ELSE IF ~IsFinite(x) THEN Panics("non finite float")
             ELSE Emits(c.bits, i)
      BY <3>1, <3>2, <3>3, <3>8, <3>9, <3>11, Zenon
    <3> QED BY <2>2, <3>10, <3>12
  <2> QED BY <2>3, <2>9, <2>10
<1> QED BY <1>1, FloatInvariant, PTL
=============================================================================

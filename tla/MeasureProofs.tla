--------------------------- MODULE MeasureProofs ---------------------------
(***************************************************************************)
(* The measure stream, for every object, every place in a byte it lands at *)
(* and bytes and buckets of any size.  Each operation is compared with the *)
(* write stream's own on its own; the sums follow.                         *)
(***************************************************************************)
EXTENDS Measure, CodecProofs

RP == INSTANCE ReadStreamProofs WITH Packets <- {<<>>}, Later <- {}, Widths <- {}, Spans <- {},
        Counts <- {}, Sizes <- {}, Previous <- {}, Depth <- 0, NonFinite <- {}, FloatBits <- 0,
        Follow <- [b \in {0} |-> 0], Continuation <- {}, data <- <<>>, bitsRead <- 0, err <- 0,
        returned <- 0, depth <- 0, echo <- <<>>, complete <- FALSE,
        helper <- 0, flag <- 0, pc <- 0, rounds <- 0

-----------------------------------------------------------------------------
(***************************************************************************)
(* What the lemmas on int_relative assume of a read stream's constants,    *)
(* here.                                                                   *)
(***************************************************************************)
LEMMA Standing ==
  /\ {} \subseteq Nat /\ {} \subseteq Nat \ {0} /\ {} \subseteq Int /\ 0 \in Nat
  /\ \A p \in {<<>>} \cup {} : p \in Seq(RP!Bit) /\ Len(p) % ByteBits = 0
  /\ [b \in {0} |-> 0] \in [DOMAIN [b \in {0} |-> 0] -> Nat]
  /\ DOMAIN [b \in {0} |-> 0] \subseteq Nat
  /\ 0 \in DOMAIN [b \in {0} |-> 0] /\ [b \in {0} |-> 0][0] = 0
  /\ {} \subseteq Nat \ DOMAIN [b \in {0} |-> 0]
<1>1. \A p \in {<<>>} \cup {} : p = <<>>
  OBVIOUS
<1>2. <<>> \in Seq(RP!Bit) /\ Len(<<>>) = 0
  OBVIOUS
<1>3. 0 % ByteBits = 0
  BY GeometryAssumption
<1>4. \A p \in {<<>>} \cup {} : p \in Seq(RP!Bit) /\ Len(p) % ByteBits = 0
  BY <1>1, <1>2, <1>3
<1>5. {} \subseteq Nat /\ {} \subseteq Nat \ {0} /\ {} \subseteq Int /\ 0 \in Nat
  OBVIOUS
<1>6. /\ [b \in {0} |-> 0] \in [DOMAIN [b \in {0} |-> 0] -> Nat]
      /\ DOMAIN [b \in {0} |-> 0] \subseteq Nat
      /\ 0 \in DOMAIN [b \in {0} |-> 0] /\ [b \in {0} |-> 0][0] = 0
      /\ {} \subseteq Nat \ DOMAIN [b \in {0} |-> 0]
  OBVIOUS
<1> QED BY <1>4, <1>5, <1>6

(***************************************************************************)
(* The definitions the instance repeats are the same.                      *)
(***************************************************************************)
LEMMA SameCodes ==
  /\ RP!BoundedMax = BoundedMax
  /\ \A bucket : RP!Span(bucket) = Span(bucket)
  /\ \A v, n : RP!ToBits(v, n) = ToBits(v, n)
  /\ \A span : RP!BitsRequired(span) = BitsRequired(span)
  /\ \A n : RP!Zeros(n) = Zeros(n)
  /\ \A previous, v : RP!IntRelativeCode(previous, v) = IntRelativeCode(previous, v)
<1>1. RP!BoundedMax = BoundedMax /\ \A bucket : RP!Span(bucket) = Span(bucket)
  BY DEF RP!BoundedMax, BoundedMax, RP!Span, Span
<1>2. \A v, n : RP!ToBits(v, n) = ToBits(v, n)
  BY DEF RP!ToBits, ToBits
<1>3. \A span : RP!BitsRequired(span) = BitsRequired(span)
  BY DEF RP!BitsRequired, BitsRequired
<1>4. \A n : RP!Zeros(n) = Zeros(n)
  BY DEF RP!Zeros, Zeros
<1>5. \A previous, v : RP!IntRelativeCode(previous, v) = IntRelativeCode(previous, v)
  BY <1>1, <1>2, <1>3, <1>4 DEF RP!IntRelativeCode, IntRelativeCode
<1> QED BY <1>1, <1>2, <1>3, <1>4, <1>5

(***************************************************************************)
(* The buckets follow one another, as for the read stream.                 *)
(***************************************************************************)
LEMMA BucketFacts ==
  /\ Len(Buckets) \in Nat
  /\ \A b \in 1..Len(Buckets) : Buckets[b].min \in Nat /\ Span(Buckets[b]) \in Nat
BY RP!BucketFacts, Standing, SameCodes, GeometryAssumption, BucketsAssumption, DomainAssumption

(***************************************************************************)
(* The code of a difference is that of its tier.                           *)
(***************************************************************************)
LEMMA TierCodes ==
  ASSUME NEW previous \in Int, NEW current \in Int, previous < current
  PROVE  /\ current - previous = 1 => IntRelativeCode(previous, current) = << 1 >>
         /\ \A b \in 1..Len(Buckets) :
              current - previous \in Buckets[b].min..Buckets[b].max =>
                IntRelativeCode(previous, current) =
                  Zeros(b) \o << 1 >> \o ToBits(current - previous - Buckets[b].min,
                                              BitsRequired(Span(Buckets[b])))
         /\ current - previous > BoundedMax =>
              IntRelativeCode(previous, current) =
                Zeros(Len(Buckets) + 1) \o ToBits(current, AbsoluteBits)
BY RP!TierCodes, Standing, SameCodes, GeometryAssumption, BucketsAssumption, DomainAssumption

(***************************************************************************)
(* Every difference is in one tier, or past them all.                      *)
(***************************************************************************)
LEMMA TierOfDifference ==
  ASSUME NEW difference \in Nat, difference > 1
  PROVE  \/ /\ difference > BoundedMax
            /\ {b \in 1..Len(Buckets) : difference > Buckets[b].max} = 1..Len(Buckets)
         \/ \E b \in 1..Len(Buckets) :
              /\ difference \in Buckets[b].min..Buckets[b].max
              /\ {c \in 1..Len(Buckets) : difference > Buckets[c].max} = 1..b-1
BY RP!TierOfDifference, Standing, SameCodes, GeometryAssumption, BucketsAssumption,
   DomainAssumption

-----------------------------------------------------------------------------
(***************************************************************************)
(* What an operation owes: at every phase the write stream panics with the *)
(* message of the measure or not at all, and takes no more bits than are   *)
(* measured, and as many, but for the bits an align may skip.              *)
(***************************************************************************)
Slack(measure, isAlign) == IF isAlign /\ measure.trap = None THEN WorstAlign ELSE 0

Agrees(measure, write, isAlign) ==
  /\ measure.bits \in Nat
  /\ \A phase \in Phases :
       /\ write[phase].trap = measure.trap
       /\ write[phase].bits \in Nat
       /\ write[phase].bits <= measure.bits
       /\ measure.bits <= write[phase].bits + Slack(measure, isAlign)

(***************************************************************************)
(* The worst align is as bad as an align gets.                             *)
(***************************************************************************)
LEMMA WorstAlignIsWorst ==
  /\ WorstAlign \in Nat
  /\ \A pos \in Nat : AlignPad(pos) \in Nat /\ AlignPad(pos) <= WorstAlign
<1>1. WorstAlign \in Nat
  BY GeometryAssumption DEF WorstAlign
<1>2. ASSUME NEW pos \in Nat PROVE AlignPad(pos) \in Nat /\ AlignPad(pos) <= WorstAlign
  <2>1. AlignPad(pos) \in 0..ByteBits-1
    BY RoundUpBytes
  <2> QED BY <2>1, GeometryAssumption DEF WorstAlign
<1> QED BY <1>1, <1>2

(***************************************************************************)
(* An operation that takes the same bits everywhere, or panics.            *)
(***************************************************************************)
LEMMA SameAgrees ==
  ASSUME NEW o, o.bits \in Nat
  PROVE  Agrees(o, Anywhere(o), FALSE)
<1> DEFINE f == Anywhere(o)
<1>1. \A phase \in Phases : f[phase] = o
  BY DEF Anywhere
<1>2. Slack(o, FALSE) = 0 /\ o.bits <= o.bits /\ o.bits <= o.bits + 0
  BY DEF Slack
<1> HIDE DEF f
<1>3. \A phase \in Phases :
        /\ f[phase].trap = o.trap /\ f[phase].bits \in Nat
        /\ f[phase].bits <= o.bits /\ o.bits <= f[phase].bits + Slack(o, FALSE)
  BY <1>1, <1>2
<1> QED BY <1>3 DEF Agrees, f

(***************************************************************************)
(* A panic takes no bits.                                                  *)
(***************************************************************************)
LEMMA PanicsBits ==
  ASSUME NEW message
  PROVE  Panics(message).bits = 0 /\ Panics(message).trap = message
BY DEF Panics

(***************************************************************************)
(* What takes bits does not panic.                                         *)
(***************************************************************************)
LEMMA TakesBits ==
  ASSUME NEW n
  PROVE  Takes(n).bits = n /\ Takes(n).trap = None
BY DEF Takes

(***************************************************************************)
(* Both streams panic with the same message.                               *)
(***************************************************************************)
LEMMA PanicsAgree ==
  ASSUME NEW message
  PROVE  Agrees(Panics(message), Anywhere(Panics(message)), FALSE)
<1> DEFINE o == Panics(message)
<1>1. o.bits \in Nat
  <2>1. o.bits = 0
    BY PanicsBits
  <2> QED BY <2>1
<1> HIDE DEF o
<1>2. Agrees(o, Anywhere(o), FALSE)
  BY <1>1, SameAgrees
<1> QED BY <1>2 DEF o

(***************************************************************************)
(* Both streams take the same bits, wherever they are.                     *)
(***************************************************************************)
LEMMA TakesAgree ==
  ASSUME NEW n \in Nat
  PROVE  Agrees(Takes(n), Anywhere(Takes(n)), FALSE)
<1> DEFINE o == Takes(n)
<1>1. o.bits = n
  BY TakesBits
<1> HIDE DEF o
<1>2. Agrees(o, Anywhere(o), FALSE)
  BY <1>1, SameAgrees
<1> QED BY <1>2 DEF o

(***************************************************************************)
(* Raw fields: the write stream takes the bits it is told to.              *)
(***************************************************************************)
LEMMA FieldAgrees ==
  ASSUME NEW value \in Nat, NEW bits \in Int
  PROVE  Agrees(MeasureField(value, bits), Anywhere(WriteField(value, bits)), FALSE)
<1>1. CASE bits < 1 \/ bits > MaxFieldBits \/ value > 2^bits - 1
  <2>1. PICK message : /\ WriteField(value, bits) = Panics(message)
                       /\ MeasureField(value, bits) = Panics(message)
    BY <1>1 DEF WriteField, MeasureField
  <2> QED BY <2>1, PanicsAgree
<1>2. CASE ~(bits < 1 \/ bits > MaxFieldBits \/ value > 2^bits - 1)
  <2>1. bits \in Nat
    BY <1>2
  <2>2. Len(ToBits(value, bits)) = bits
    BY <2>1, FieldType
  <2>3. WriteField(value, bits) = Takes(bits) /\ MeasureField(value, bits) = Takes(bits)
    BY <1>2, <2>2 DEF WriteField, MeasureField
  <2> QED BY <2>1, <2>3, TakesAgree
<1> QED BY <1>1, <1>2

(***************************************************************************)
(* Ranged integers: the bits of the range, whatever the value.             *)
(***************************************************************************)
LEMMA RangedAgrees ==
  ASSUME NEW value \in Int, NEW min \in Int, NEW max \in Int
  PROVE  Agrees(MeasureRanged(value, min, max), Anywhere(WriteRanged(value, min, max)), FALSE)
<1>1. CASE min > max \/ value < min \/ value > max
  <2>1. PICK message : /\ WriteRanged(value, min, max) = Panics(message)
                       /\ MeasureRanged(value, min, max) = Panics(message)
    BY <1>1 DEF WriteRanged, MeasureRanged
  <2> QED BY <2>1, PanicsAgree
<1>2. CASE ~(min > max \/ value < min \/ value > max)
  <2> DEFINE n == BitsRequired(max - min)
  <2>1. n \in Nat
    <3>1. max - min \in Nat
      BY <1>2
    <3> QED BY <3>1, BitsRequiredFits
  <2>2. Len(ToBits(value - min, n)) = n
    BY <2>1, FieldType
  <2>3. WriteRanged(value, min, max) = Takes(n) /\ MeasureRanged(value, min, max) = Takes(n)
    BY <1>2, <2>2 DEF WriteRanged, MeasureRanged
  <2> HIDE DEF n
  <2> QED BY <2>1, <2>3, TakesAgree
<1> QED BY <1>1, <1>2

(***************************************************************************)
(* Floats: their bits, if they are finite.                                 *)
(***************************************************************************)
LEMMA FloatAgrees ==
  ASSUME NEW finite
  PROVE  Agrees(MeasureFloat(finite), Anywhere(WriteFloat(finite)), FALSE)
<1>1. CASE finite
  <2>1. WriteFloat(finite) = Takes(FloatBits) /\ MeasureFloat(finite) = Takes(FloatBits)
    BY <1>1 DEF WriteFloat, MeasureFloat
  <2> QED BY <2>1, TakesAgree, ArgumentsAssumption
<1>2. CASE ~finite
  <2>1. PICK message : WriteFloat(finite) = Panics(message) /\ MeasureFloat(finite) = Panics(message)
    BY <1>2 DEF WriteFloat, MeasureFloat
  <2> QED BY <2>1, PanicsAgree
<1> QED BY <1>1, <1>2

(***************************************************************************)
(* Aligns, and bytes behind one.                                           *)
(***************************************************************************)
LEMMA BytesAgrees ==
  ASSUME NEW count \in Nat
  PROVE  Agrees(MeasureBytes(count), WriteBytes(count), TRUE)
<1> DEFINE c == count * ByteBits
           m == WorstAlign + c
<1>1. c \in Nat
  <2>1. c \in Int /\ 0 * ByteBits <= count * ByteBits
    BY Products, GeometryAssumption
  <2> QED BY <2>1, GeometryAssumption
<1>2. MeasureBytes(count) = Takes(m)
  BY DEF MeasureBytes
<1>3. \A phase \in Phases : WriteBytes(count)[phase] = Takes(AlignPad(phase) + c)
  BY DEF WriteBytes
<1> HIDE DEF c
<1>4. Slack(Takes(m), TRUE) = WorstAlign /\ m \in Nat /\ Takes(m).bits = m
  BY <1>1, TakesBits, WorstAlignIsWorst DEF Slack
<1>5. ASSUME NEW phase \in Phases
      PROVE  /\ AlignPad(phase) + c \in Nat /\ AlignPad(phase) + c <= m
             /\ m <= (AlignPad(phase) + c) + WorstAlign
  <2>1. phase \in Nat
    BY GeometryAssumption DEF Phases
  <2>2. AlignPad(phase) \in Nat /\ AlignPad(phase) <= WorstAlign /\ WorstAlign \in Nat
    BY <2>1, WorstAlignIsWorst
  <2> QED BY <2>2, <1>1
<1> HIDE DEF m
<1> DEFINE f == WriteBytes(count)
<1>6. /\ \A phase \in Phases : /\ f[phase].trap = None
                                /\ f[phase].bits = AlignPad(phase) + c
      /\ Takes(m).trap = None /\ Takes(m).bits = m
  BY <1>3, TakesBits
<1> HIDE DEF f
<1>7. Agrees(Takes(m), f, TRUE)
  BY <1>4, <1>5, <1>6 DEF Agrees
<1> QED BY <1>2, <1>7 DEF f

(***************************************************************************)
(* An align: the worst is counted, and what is skipped is at most that.    *)
(***************************************************************************)
LEMMA AlignAgrees == Agrees(MeasureAlign, WriteAlign, TRUE)
<1>1. \A phase \in Phases : WriteAlign[phase] = Takes(AlignPad(phase))
  BY DEF WriteAlign
<1>2. /\ Slack(Takes(WorstAlign), TRUE) = WorstAlign /\ WorstAlign \in Nat
      /\ Takes(WorstAlign).bits = WorstAlign /\ MeasureAlign = Takes(WorstAlign)
  BY TakesBits, WorstAlignIsWorst DEF Slack, MeasureAlign
<1>3. ASSUME NEW phase \in Phases
      PROVE  /\ AlignPad(phase) \in Nat /\ AlignPad(phase) <= WorstAlign
             /\ WorstAlign <= AlignPad(phase) + WorstAlign
  <2>1. phase \in Nat
    BY GeometryAssumption DEF Phases
  <2>2. AlignPad(phase) \in Nat /\ AlignPad(phase) <= WorstAlign /\ WorstAlign \in Nat
    BY <2>1, WorstAlignIsWorst
  <2> QED BY <2>2
<1> QED BY <1>1, <1>2, <1>3, TakesBits DEF Agrees

(***************************************************************************)
(* Strings: the align follows the length, so the position it is at is the  *)
(* phase and the bits of the length.                                       *)
(***************************************************************************)
LEMMA StringAgrees ==
  ASSUME NEW text, text.length \in Nat, NEW size \in Int
  PROVE  Agrees(MeasureString(text, size), WriteString(text, size), TRUE)
<1> DEFINE f == WriteString(text, size)
           l == BitsRequired(size - 1)
           c == text.length * ByteBits
           panics == \/ size < 1 \/ text.length >= size
                     \/ text.form = "nul" \/ text.form = "ill"
<1>1. CASE panics
  <2>1. PICK message : /\ MeasureString(text, size) = Panics(message)
                       /\ \A phase \in Phases : f[phase] = Panics(message)
    <3>1. CASE size < 1
      BY <3>1 DEF WriteString, MeasureString
    <3>2. CASE ~(size < 1) /\ text.length >= size
      BY <3>2 DEF WriteString, MeasureString
    <3>3. CASE ~(size < 1) /\ ~(text.length >= size) /\ text.form = "nul"
      BY <3>3 DEF WriteString, MeasureString
    <3>4. CASE ~(size < 1) /\ ~(text.length >= size) /\ text.form # "nul" /\ text.form = "ill"
      BY <3>4 DEF WriteString, MeasureString
    <3> QED BY <1>1, <3>1, <3>2, <3>3, <3>4
  <2> HIDE DEF f
  <2>2. Panics(message).bits = 0 /\ Panics(message).trap = message
    BY PanicsBits
  <2>3. Slack(Panics(message), TRUE) \in Nat
    BY WorstAlignIsWorst DEF Slack
  <2> DEFINE p == Panics(message)
             slack == Slack(p, TRUE)
  <2>4. /\ p.bits = 0 /\ p.trap = message /\ slack \in Nat
        /\ \A phase \in Phases : f[phase].bits = 0 /\ f[phase].trap = message
    BY <2>1, <2>2, <2>3
  <2> HIDE DEF p, slack
  <2>5. /\ p.bits \in Nat
        /\ \A phase \in Phases :
             /\ f[phase].trap = p.trap /\ f[phase].bits \in Nat
             /\ f[phase].bits <= p.bits /\ p.bits <= f[phase].bits + slack
    BY <2>4
  <2>6. Agrees(p, f, TRUE)
    BY <2>5 DEF Agrees, slack
  <2> QED BY <2>1, <2>6 DEF f, p
<1>2. CASE ~panics
  <2> DEFINE m == l + WorstAlign + c
             at(phase) == l + AlignPad(phase + l) + c
  <2>1. MeasureString(text, size) = Takes(m)
    BY <1>2 DEF MeasureString
  <2>2. \A phase \in Phases : f[phase] = Takes(at(phase))
    BY <1>2 DEF WriteString
  <2>3. l \in Nat
    <3>1. size - 1 \in Nat
      BY <1>2
    <3> QED BY <3>1, BitsRequiredFits
  <2>4. c \in Nat
    <3>1. c \in Int /\ 0 * ByteBits <= text.length * ByteBits
      BY Products, GeometryAssumption
    <3> QED BY <3>1, GeometryAssumption
  <2> HIDE DEF f, l, c
  <2>5. m \in Nat /\ Slack(Takes(m), TRUE) = WorstAlign
    BY <2>3, <2>4, TakesBits, WorstAlignIsWorst DEF Slack
  <2>6. ASSUME NEW phase \in Phases
        PROVE  at(phase) \in Nat /\ at(phase) <= m /\ m <= at(phase) + WorstAlign
    <3>1. phase + l \in Nat
      BY <2>3, GeometryAssumption DEF Phases
    <3>2. AlignPad(phase + l) \in Nat /\ AlignPad(phase + l) <= WorstAlign /\ WorstAlign \in Nat
      BY <3>1, WorstAlignIsWorst
    <3> DEFINE a == AlignPad(phase + l)
    <3> HIDE DEF a
    <3>3. a \in Nat /\ a <= WorstAlign /\ WorstAlign \in Nat
      BY <3>2 DEF a
    <3>4. at(phase) = l + a + c
      BY DEF a
    <3> QED BY <3>3, <3>4, <2>3, <2>4
  <2> HIDE DEF m, at
  <2>7. /\ \A phase \in Phases : f[phase].trap = None /\ f[phase].bits = at(phase)
        /\ Takes(m).trap = None /\ Takes(m).bits = m
    BY <2>2, TakesBits
  <2>8. Agrees(Takes(m), f, TRUE)
    BY <2>5, <2>6, <2>7 DEF Agrees
  <2> QED BY <2>1, <2>8 DEF f
<1> QED BY <1>1, <1>2

(***************************************************************************)
(* The bits of two pieces in a row.                                        *)
(***************************************************************************)
LEMMA ConcatLen ==
  ASSUME NEW s \in Seq(Bit), NEW t \in Seq(Bit)
  PROVE  s \o t \in Seq(Bit) /\ Len(s \o t) = Len(s) + Len(t)
OBVIOUS

(***************************************************************************)
(* int_relative: the measure counts the buckets the difference is too      *)
(* large for and the one that takes it, the writer writes their flags.     *)
(***************************************************************************)
LEMMA IntRelativeAgrees ==
  ASSUME NEW previous \in Int, NEW current \in Int
  PROVE  Agrees(MeasureIntRelative(previous, current),
                Anywhere(WriteIntRelative(previous, current)), FALSE)
<1> DEFINE d == current - previous
           n == Len(Buckets)
           passed == {b \in 1..n : d > Buckets[b].max}
           tier == Cardinality(passed) + 1
           code == IntRelativeCode(previous, current)
<1>1. CASE previous < 0 \/ previous >= current
  <2>1. PICK message : /\ WriteIntRelative(previous, current) = Panics(message)
                       /\ MeasureIntRelative(previous, current) = Panics(message)
    BY <1>1 DEF WriteIntRelative, MeasureIntRelative
  <2> QED BY <2>1, PanicsAgree
<1>2. CASE ~(previous < 0 \/ previous >= current)
  <2>1. WriteIntRelative(previous, current) = Takes(Len(code))
    BY <1>2 DEF WriteIntRelative
  <2>2. MeasureIntRelative(previous, current) =
          IF d = 1 THEN Takes(1)
          ELSE IF tier > n THEN Takes(1 + n + AbsoluteBits)
          ELSE Takes(1 + tier + BitsRequired(Span(Buckets[tier])))
    BY <1>2 DEF MeasureIntRelative
  <2>3. previous < current /\ d \in Nat /\ d >= 1 /\ n \in Nat
    BY <1>2, BucketFacts
  <2>4. /\ d = 1 => code = <<1>>
        /\ \A b \in 1..n : d \in Buckets[b].min..Buckets[b].max =>
             code = Zeros(b) \o <<1>> \o ToBits(d - Buckets[b].min, BitsRequired(Span(Buckets[b])))
        /\ d > BoundedMax => code = Zeros(n + 1) \o ToBits(current, AbsoluteBits)
    BY <2>3, TierCodes
  <2>5. \A k \in Nat : Zeros(k) \in Seq(Bit) /\ Len(Zeros(k)) = k
    BY DEF Zeros, Bit
  <2> HIDE DEF d, n, code
  <2>6. ASSUME NEW k, k = Len(code), k \in Nat, MeasureIntRelative(previous, current) = Takes(k)
        PROVE  Agrees(MeasureIntRelative(previous, current),
                      Anywhere(WriteIntRelative(previous, current)), FALSE)
    <3>1. WriteIntRelative(previous, current) = Takes(k)
      BY <2>1, <2>6
    <3> QED BY <3>1, <2>6, TakesAgree
  <2>7. CASE d = 1
    <3>1. Len(code) = 1
      BY <2>4, <2>7
    <3>2. MeasureIntRelative(previous, current) = Takes(1)
      BY <2>2, <2>7
    <3> QED BY <3>1, <3>2, <2>6
  <2>8. CASE d # 1 /\ d > BoundedMax /\ passed = 1..n
    <3> DEFINE t == ToBits(current, AbsoluteBits)
               z == Zeros(n + 1)
    <3>1. tier = n + 1
      <4>1. Cardinality(1..n) = n
        BY <2>3, FS_Interval
      <4> QED BY <4>1, <2>8
    <3>2. MeasureIntRelative(previous, current) = Takes(1 + n + AbsoluteBits)
      BY <2>2, <2>3, <2>8, <3>1
    <3>3. t \in Seq(Bit) /\ Len(t) = AbsoluteBits /\ z \in Seq(Bit) /\ Len(z) = n + 1
      BY <2>3, <2>5, FieldType, DomainAssumption
    <3>4. code = z \o t
      BY <2>4, <2>8
    <3> HIDE DEF t, z
    <3>5. Len(code) = Len(z) + Len(t)
      BY <3>3, <3>4, ConcatLen
    <3>6. 1 + n + AbsoluteBits = Len(code) /\ 1 + n + AbsoluteBits \in Nat
      BY <3>3, <3>5, <2>3, DomainAssumption
    <3> DEFINE k == 1 + n + AbsoluteBits
    <3> HIDE DEF k
    <3>7. k = Len(code) /\ k \in Nat /\ MeasureIntRelative(previous, current) = Takes(k)
      BY <3>2, <3>6 DEF k
    <3> QED BY <3>7, <2>6
  <2>9. ASSUME NEW b \in 1..n, d # 1, d \in Buckets[b].min..Buckets[b].max, passed = 1..b-1
        PROVE  Agrees(MeasureIntRelative(previous, current),
                      Anywhere(WriteIntRelative(previous, current)), FALSE)
    <3> DEFINE w == BitsRequired(Span(Buckets[b]))
               t == ToBits(d - Buckets[b].min, w)
               z == Zeros(b)
               one == <<1>>
    <3>1. tier = b
      <4> DEFINE m == b - 1
      <4>1. 1 \in Int /\ m \in Int /\ m + 1 = b /\ (IF 1 > m THEN 0 ELSE m - 1 + 1) = m
        BY <2>3
      <4>2. passed = 1..m
        BY <2>9
      <4> HIDE DEF m, passed
      <4>3. Cardinality(1..m) = m
        BY <4>1, FS_Interval
      <4> QED BY <4>1, <4>2, <4>3
    <3>2. MeasureIntRelative(previous, current) = Takes(1 + b + w)
      BY <2>2, <2>3, <2>9, <3>1
    <3>3. b \in Nat /\ w \in Nat /\ d - Buckets[b].min \in Int
      <4>1. Buckets[b].min \in Nat /\ Span(Buckets[b]) \in Nat
        BY BucketFacts DEF n
      <4> QED BY <4>1, <2>3, BitsRequiredFits
    <3> HIDE DEF w
    <3>4. t \in Seq(Bit) /\ Len(t) = w
      BY <3>3, FieldType
    <3>5. z \in Seq(Bit) /\ Len(z) = b /\ one \in Seq(Bit) /\ Len(one) = 1
      BY <3>3, <2>5 DEF Bit
    <3>6. code = z \o one \o t
      BY <2>4, <2>9 DEF w
    <3> HIDE DEF t, z, one
    <3>7. z \o one \in Seq(Bit) /\ Len(z \o one) = b + 1
      BY <3>5, ConcatLen
    <3>8. Len(code) = (b + 1) + w
      BY <3>4, <3>6, <3>7, ConcatLen
    <3> DEFINE k == 1 + b + w
    <3>9. k = Len(code) /\ k \in Nat
      BY <3>3, <3>8
    <3> HIDE DEF k
    <3>10. MeasureIntRelative(previous, current) = Takes(k)
      BY <3>2 DEF k
    <3> QED BY <3>9, <3>10, <2>6
  <2>10. CASE d # 1
    <3>1. d > 1
      BY <2>3, <2>10
    <3>2. \/ d > BoundedMax /\ passed = 1..n
          \/ \E b \in 1..n : d \in Buckets[b].min..Buckets[b].max /\ passed = 1..b-1
      BY <3>1, <2>3, TierOfDifference DEF n
    <3> QED BY <3>2, <2>8, <2>9, <2>10
  <2> QED BY <2>7, <2>10
<1> QED BY <1>1, <1>2

-----------------------------------------------------------------------------
(***************************************************************************)
(* The sums: one call adds to them what its operation owes.                *)
(***************************************************************************)
MInv == TypeOK /\ Enough /\ OnlyAlignsEstimated /\ SameTrap

(***************************************************************************)
(* A call of an operation that owes no more than it may keeps the sums and *)
(* the panics in agreement.                                                *)
(***************************************************************************)
LEMMA CallKeeps ==
  ASSUME MInv, NEW measure, NEW write, NEW isAlign \in BOOLEAN,
         Agrees(measure, write, isAlign), Call(measure, write, isAlign)
  PROVE  MInv'
<1> DEFINE p(start) == (start + written[start]) % ByteBits
           slack == Slack(measure, isAlign)
<1>1. /\ bitsWritten \in Nat /\ written \in [Phases -> Nat]
      /\ calls \in Nat /\ MaxCalls \in Nat /\ aligns \in Nat /\ aligns <= calls
      /\ \A start \in Phases : /\ written[start] \in Nat /\ written[start] <= bitsWritten
                               /\ bitsWritten - written[start] <= aligns * WorstAlign
  BY ArgumentsAssumption DEF MInv, TypeOK, Enough, OnlyAlignsEstimated
<1>2. /\ calls < MaxCalls /\ calls' = calls + 1
      /\ bitsWritten' = bitsWritten + measure.bits
      /\ written' = [start \in Phases |-> written[start] + write[p(start)].bits]
      /\ aligns' = IF isAlign /\ measure.trap = None THEN aligns + 1 ELSE aligns
      /\ trap' = [measure |-> measure.trap, write |-> write[written[0] % ByteBits].trap]
  BY DEF Call
<1>3. /\ measure.bits \in Nat
      /\ \A phase \in Phases :
           /\ write[phase].trap = measure.trap
           /\ write[phase].bits \in Nat
           /\ write[phase].bits <= measure.bits
           /\ measure.bits <= write[phase].bits + slack
  BY DEF Agrees
<1>4. \A start \in Phases : p(start) \in Phases
  <2> SUFFICES ASSUME NEW start \in Phases PROVE p(start) \in Phases
    OBVIOUS
  <2>1. start + written[start] \in Int
    BY <1>1, GeometryAssumption DEF Phases
  <2> QED BY <2>1, ModRange, GeometryAssumption DEF Phases
<1>5. slack \in Nat /\ aligns' * WorstAlign = aligns * WorstAlign + slack
      /\ aligns * WorstAlign \in Int
  <2>1. (aligns + 1) * WorstAlign = aligns * WorstAlign + WorstAlign /\ WorstAlign \in Nat
        /\ aligns * WorstAlign \in Int
    BY <1>1, WorstAlignIsWorst
  <2>2. CASE isAlign /\ measure.trap = None
    BY <2>1, <2>2, <1>2 DEF Slack
  <2>3. CASE ~(isAlign /\ measure.trap = None)
    BY <2>1, <2>3, <1>2 DEF Slack
  <2> QED BY <2>2, <2>3
<1> HIDE DEF p, slack
<1> DEFINE total == aligns * WorstAlign
           total2 == aligns' * WorstAlign
<1>6. total \in Int /\ total2 = total + slack /\ slack \in Nat
  BY <1>5
<1> HIDE DEF total, total2
<1>7. ASSUME NEW start \in Phases
      PROVE  /\ written'[start] \in Nat /\ written'[start] <= bitsWritten'
             /\ bitsWritten' - written'[start] <= total2
  <2> DEFINE w == written[start]
             b == write[p(start)].bits
             m == measure.bits
  <2>1. written'[start] = w + b /\ bitsWritten' = bitsWritten + m
    BY <1>2
  <2>2. w \in Nat /\ w <= bitsWritten /\ bitsWritten - w <= total /\ bitsWritten \in Nat
    BY <1>1 DEF total
  <2>3. b \in Nat /\ m \in Nat /\ b <= m /\ m <= b + slack
    BY <1>3, <1>4
  <2> HIDE DEF w, b, m
  <2> QED BY <2>1, <2>2, <2>3, <1>6
<1>8. written' \in [Phases -> Nat]
  <2>1. DOMAIN written' = Phases /\ written' = [start \in Phases |-> written'[start]]
    BY <1>2
  <2> QED BY <2>1, <1>7
<1>9. trap'.measure = trap'.write
  <2>1. 0 \in Phases /\ written[0] % ByteBits \in Phases
    <3>1. 0 \in Phases
      BY GeometryAssumption DEF Phases
    <3>2. written[0] \in Int
      BY <3>1, <1>1
    <3> QED BY <3>1, <3>2, ModRange, GeometryAssumption DEF Phases
  <2> QED BY <2>1, <1>2, <1>3
<1>10. /\ bitsWritten' \in Nat /\ calls' \in 0..MaxCalls /\ calls' > 0 /\ calls' # 0
       /\ aligns' \in 0..calls'
  BY <1>1, <1>2, <1>3
<1>11. TypeOK'
  BY <1>8, <1>10 DEF TypeOK
<1>12. Enough' /\ OnlyAlignsEstimated'
  BY <1>7 DEF Enough, OnlyAlignsEstimated, total2, Phases, WorstAlign
<1> QED BY <1>9, <1>11, <1>12 DEF MInv, SameTrap

(***************************************************************************)
(* Streams nothing is measured or written on yet.                          *)
(***************************************************************************)
LEMMA FreshStreams == Init => MInv
<1> SUFFICES ASSUME Init PROVE MInv
  OBVIOUS
<1> USE DEF Init
<1>1. WorstAlign \in Nat /\ 0 * WorstAlign = 0
  BY WorstAlignIsWorst
<1>2. \A start \in Phases : written[start] = 0
  OBVIOUS
<1>3. written \in [Phases -> Nat]
  OBVIOUS
<1>4. TypeOK
  BY <1>3, ArgumentsAssumption DEF TypeOK
<1>5. Enough /\ OnlyAlignsEstimated
  BY <1>1, <1>2 DEF Enough, OnlyAlignsEstimated
<1> QED BY <1>4, <1>5 DEF MInv, SameTrap

(***************************************************************************)
(* A reset leaves the streams as they were at first.                       *)
(***************************************************************************)
LEMMA ResetStreams == (Init => MInv)'
BY FreshStreams, PTL

(***************************************************************************)
(* Every call, and a reset, keeps the invariant.                           *)
(***************************************************************************)
LEMMA StepMInv ==
  ASSUME MInv, [Next]_vars
  PROVE  MInv'
<1>1. ASSUME NEW f \in Fields, SerializeBits(f.value, f.bits) PROVE MInv'
  <2>1. f.value \in Nat /\ f.bits \in Int
    BY ArgumentsAssumption
  <2> QED BY <1>1, <2>1, FieldAgrees, CallKeeps DEF SerializeBits
<1>2. ASSUME NEW r \in Ranges, SerializeInt(r.value, r.min, r.max) PROVE MInv'
  <2>1. r.value \in Int /\ r.min \in Int /\ r.max \in Int
    BY ArgumentsAssumption
  <2> QED BY <1>2, <2>1, RangedAgrees, CallKeeps DEF SerializeInt
<1>3. ASSUME NEW finite \in BOOLEAN, SerializeFloat(finite) PROVE MInv'
  BY <1>3, FloatAgrees, CallKeeps DEF SerializeFloat
<1>4. ASSUME SerializeAlign PROVE MInv'
  BY <1>4, AlignAgrees, CallKeeps DEF SerializeAlign
<1>5. ASSUME NEW count \in Counts, SerializeBytes(count) PROVE MInv'
  <2>1. count \in Nat
    BY ArgumentsAssumption
  <2> QED BY <1>5, <2>1, BytesAgrees, CallKeeps DEF SerializeBytes
<1>6. ASSUME NEW text \in Texts, NEW size \in Sizes, SerializeString(text, size) PROVE MInv'
  <2>1. text.length \in Nat /\ size \in Int
    BY ArgumentsAssumption
  <2> QED BY <1>6, <2>1, StringAgrees, CallKeeps DEF SerializeString
<1>7. ASSUME NEW r \in Relatives, SerializeIntRelative(r.previous, r.current) PROVE MInv'
  <2>1. r.previous \in Int /\ r.current \in Int
    BY ArgumentsAssumption
  <2> QED BY <1>7, <2>1, IntRelativeAgrees, CallKeeps DEF SerializeIntRelative
<1>8. ASSUME SerializeEnd PROVE MInv'
  <2>1. Agrees(Takes(0), Anywhere(Takes(0)), FALSE)
    BY TakesAgree
  <2> QED BY <1>8, <2>1, CallKeeps DEF SerializeEnd
<1>9. ASSUME Reset PROVE MInv'
  <2>1. Init'
    BY <1>9 DEF Reset, Init
  <2> QED BY <2>1, ResetStreams
<1>10. ASSUME UNCHANGED vars PROVE MInv'
  BY <1>10 DEF vars, MInv, TypeOK, Enough, OnlyAlignsEstimated, SameTrap
<1> QED BY <1>1, <1>2, <1>3, <1>4, <1>5, <1>6, <1>7, <1>8, <1>9, <1>10 DEF Next

-----------------------------------------------------------------------------
(***************************************************************************)
(* The invariant holds in every state.                                     *)
(***************************************************************************)
LEMMA Measured == Spec => []MInv
<1>1. Init => MInv
  BY FreshStreams
<1>2. MInv /\ [Next]_vars => MInv'
  BY StepMInv
<1> QED BY <1>1, <1>2, PTL DEF Spec

(***************************************************************************)
(* The counts are numbers, and nothing is measured before the first call.  *)
(***************************************************************************)
THEOREM TypeCorrect == Spec => []TypeOK
<1>1. MInv => TypeOK
  BY DEF MInv
<1> QED BY <1>1, Measured, PTL

(***************************************************************************)
(* "The estimate is guaranteed to be conservative" (MeasureStream), for    *)
(* every sequence of calls and every place in a byte the object lands at.  *)
(***************************************************************************)
THEOREM MeasureIsEnough == Spec => []Enough
<1>1. MInv => Enough
  BY DEF MInv
<1> QED BY <1>1, Measured, PTL

(***************************************************************************)
(* The excess is at most a byte less a bit for each align, so an object    *)
(* that never aligns is measured to the bit.                               *)
(***************************************************************************)
THEOREM ExactButForAligns == Spec => []OnlyAlignsEstimated
<1>1. MInv => OnlyAlignsEstimated
  BY DEF MInv
<1> QED BY <1>1, Measured, PTL

(***************************************************************************)
(* A measure panics where the write does, with the same message.           *)
(***************************************************************************)
THEOREM ChecksAsTheWriteDoes == Spec => []SameTrap
<1>1. MInv => SameTrap
  BY DEF MInv
<1> QED BY <1>1, Measured, PTL
=============================================================================

------------------------- MODULE ReadStreamProofs -------------------------
(***************************************************************************)
(* The read stream and the loops on it, for every packet, every caller and *)
(* every nesting of objects.  First the tiers of int_relative, whose code  *)
(* is in the one of its difference; then the latch, for which it does not  *)
(* matter what a decoder makes of the bits; then the decoders, each of     *)
(* which reads the code a writer has for the value it accepts; last the    *)
(* loops.                                                                  *)
(***************************************************************************)
EXTENDS SentinelLoop, CodecProofs, SequenceTheorems

-----------------------------------------------------------------------------
(***************************************************************************)
(* The buckets of int_relative follow one another: their largest           *)
(* differences grow.                                                       *)
(***************************************************************************)
LEMMA BucketFacts ==
  /\ Len(Buckets) \in Nat
  /\ \A b \in 1..Len(Buckets) :
       /\ Buckets[b].min \in Nat /\ Buckets[b].max \in Nat
       /\ 2 <= Buckets[b].min /\ Buckets[b].min <= Buckets[b].max
       /\ Span(Buckets[b]) \in Nat
  /\ \A b, c \in 1..Len(Buckets) : b < c => Buckets[b].max < Buckets[c].min
<1> DEFINE n == Len(Buckets)
           min(b) == Buckets[b].min
           max(b) == Buckets[b].max
<1>1. n \in Nat /\ \A b \in 1..n : min(b) \in Nat /\ max(b) \in Nat
  <2>1. Buckets \in Seq([min : Nat, max : Nat])
    BY BucketsAssumption
  <2>2. n \in Nat /\ \A b \in 1..n : Buckets[b] \in [min : Nat, max : Nat]
    BY <2>1, ElementsOf
  <2> QED BY <2>2
<1>2. \A b \in 1..n : min(b) <= max(b) /\ min(b) = IF b = 1 THEN 2 ELSE max(b-1) + 1
  BY BucketsAssumption
<1> HIDE DEF n, min, max
<1> DEFINE S == {k \in Nat : \A b \in 1..n : b + k + 1 <= n => max(b) < min(b + k + 1)}
           T == {k \in Nat : k + 1 <= n => 2 <= min(k + 1)}
<1>3. 0 \in S
  <2> SUFFICES ASSUME NEW b \in 1..n, b + 0 + 1 <= n PROVE max(b) < min(b + 0 + 1)
    OBVIOUS
  <2>1. b + 0 + 1 = b + 1 /\ b + 1 \in 1..n /\ b + 1 # 1 /\ (b + 1) - 1 = b
    BY <1>1
  <2>2. min(b + 1) = max(b) + 1
    BY <2>1, <1>2
  <2> QED BY <2>1, <2>2, <1>1
<1>4. ASSUME NEW k \in Nat, k \in S PROVE k + 1 \in S
  <2> SUFFICES ASSUME NEW b \in 1..n, b + (k + 1) + 1 <= n
               PROVE  max(b) < min(b + (k + 1) + 1)
    OBVIOUS
  <2> DEFINE c == b + k + 1
  <2>1. /\ c \in 1..n /\ c + 1 \in 1..n /\ c + 1 # 1 /\ (c + 1) - 1 = c
        /\ b + (k + 1) + 1 = c + 1
    BY <1>1
  <2>2. max(b) < min(c)
    BY <2>1, <1>4
  <2> HIDE DEF c
  <2>3. min(c + 1) = max(c) + 1 /\ min(c) <= max(c)
    BY <2>1, <1>2
  <2> QED BY <2>1, <2>2, <2>3, <1>1
<1>5. 0 \in T
  BY <1>1, <1>2
<1>6. ASSUME NEW k \in Nat, k \in T PROVE k + 1 \in T
  <2> SUFFICES ASSUME (k + 1) + 1 <= n PROVE 2 <= min((k + 1) + 1)
    OBVIOUS
  <2> DEFINE c == k + 1
  <2>1. c \in 1..n /\ c + 1 \in 1..n /\ c + 1 # 1 /\ (c + 1) - 1 = c
    BY <1>1
  <2>2. 2 <= min(c)
    BY <2>1, <1>6, <1>1
  <2> HIDE DEF c
  <2>3. min(c + 1) = max(c) + 1 /\ min(c) <= max(c)
    BY <2>1, <1>2
  <2>4. 2 <= min(c + 1)
    BY <2>1, <2>2, <2>3, <1>1
  <2> QED BY <2>4 DEF c
<1> HIDE DEF S, T
<1>7. Nat \subseteq S /\ Nat \subseteq T
  BY <1>3, <1>4, <1>5, <1>6, Induction
<1>8. ASSUME NEW b \in 1..n, NEW c \in 1..n, b < c PROVE max(b) < min(c)
  <2> DEFINE k == c - b - 1
  <2>1. k \in Nat /\ b + k + 1 = c
    BY <1>1, <1>8
  <2> HIDE DEF k
  <2>2. b + k + 1 <= n => max(b) < min(b + k + 1)
    BY <2>1, <1>7 DEF S
  <2> QED BY <2>1, <2>2, <1>1
<1>9. ASSUME NEW b \in 1..n PROVE 2 <= min(b)
  <2> DEFINE k == b - 1
  <2>1. k \in Nat /\ k + 1 = b
    BY <1>1
  <2> HIDE DEF k
  <2>2. k + 1 <= n => 2 <= min(k + 1)
    BY <2>1, <1>7 DEF T
  <2> QED BY <2>1, <2>2, <1>1
<1>10. \A b \in 1..n : max(b) - min(b) \in Nat
  BY <1>1, <1>2
<1> QED BY <1>1, <1>2, <1>8, <1>9, <1>10 DEF n, min, max, Span

(***************************************************************************)
(* The code of a difference, by the one tier it is in: one, a bucket, or   *)
(* more than every bucket takes.                                           *)
(***************************************************************************)
THEOREM TierCodes ==
  ASSUME NEW previous \in Int, NEW current \in Int, previous < current
  PROVE  /\ current - previous = 1 => IntRelativeCode(previous, current) = <<1>>
         /\ \A b \in 1..Len(Buckets) :
              current - previous \in Buckets[b].min..Buckets[b].max =>
                IntRelativeCode(previous, current) =
                  Zeros(b) \o <<1>> \o ToBits(current - previous - Buckets[b].min,
                                              BitsRequired(Span(Buckets[b])))
         /\ current - previous > BoundedMax =>
              IntRelativeCode(previous, current) =
                Zeros(Len(Buckets) + 1) \o ToBits(current, AbsoluteBits)
<1> DEFINE difference == current - previous
           n == Len(Buckets)
           tiers == {b \in 1..n : difference <= Buckets[b].max}
           first == CHOOSE b \in tiers : \A c \in tiers : b <= c
<1>1. /\ n \in Nat
      /\ \A b \in 1..n : /\ Buckets[b].min \in Nat /\ Buckets[b].max \in Nat
                         /\ 2 <= Buckets[b].min /\ Buckets[b].min <= Buckets[b].max
      /\ \A b, c \in 1..n : b < c => Buckets[b].max < Buckets[c].min
  BY BucketFacts
<1>2. difference \in Nat
  OBVIOUS
<1>3. IntRelativeCode(previous, current) =
        IF difference = 1 THEN <<1>>
        ELSE IF tiers = {} THEN Zeros(n + 1) \o ToBits(current, AbsoluteBits)
        ELSE Zeros(first) \o <<1>>
               \o ToBits(difference - Buckets[first].min, BitsRequired(Span(Buckets[first])))
  BY DEF IntRelativeCode
<1> HIDE DEF difference, n
<1>4. ASSUME NEW b \in 1..n, difference \in Buckets[b].min..Buckets[b].max
      PROVE  difference # 1 /\ tiers # {} /\ first = b
  <2>1. difference # 1
    BY <1>1, <1>2, <1>4
  <2>2. b \in tiers
    BY <1>1, <1>2, <1>4
  <2>3. ASSUME NEW c \in tiers PROVE b <= c
    <3>1. c \in 1..n /\ difference <= Buckets[c].max
      BY <2>3
    <3>2. CASE c < b
      <4>1. Buckets[c].max < Buckets[b].min
        BY <3>1, <3>2, <1>1
      <4> QED BY <4>1, <3>1, <1>1, <1>2, <1>4
    <3> QED BY <3>1, <3>2, <1>1
  <2>4. \E k \in tiers : \A c \in tiers : k <= c
    BY <2>2, <2>3
  <2>5. first \in tiers /\ \A c \in tiers : first <= c
    BY <2>4, Zenon
  <2>6. tiers \subseteq 1..n
    OBVIOUS
  <2> HIDE DEF first, tiers
  <2>7. first <= b /\ b <= first /\ first \in Int /\ b \in Int
    BY <2>2, <2>3, <2>5, <2>6, <1>1
  <2>8. first = b
    BY ONLY <2>7
  <2> QED BY <2>1, <2>2, <2>8
<1>5. ASSUME difference > BoundedMax PROVE difference # 1 /\ tiers = {}
  <2>1. CASE n = 0
    <3>1. Buckets = <<>>
      BY <2>1, BucketsAssumption DEF n
    <3> QED BY <3>1, <2>1, <1>2, <1>5 DEF BoundedMax
  <2>2. CASE n # 0
    <3>1. n \in 1..n /\ Buckets # <<>>
      BY <2>2, <1>1 DEF n
    <3>2. BoundedMax = Buckets[n].max
      BY <3>1 DEF BoundedMax, n
    <3>3. 2 <= Buckets[n].max /\ Buckets[n].max \in Nat
      BY <3>1, <1>1
    <3>4. ASSUME NEW b \in 1..n PROVE Buckets[b].max <= Buckets[n].max
      <4>1. CASE b = n
        BY <4>1, <3>3
      <4>2. CASE b # n
        <5>1. b < n
          BY <4>2, <1>1
        <5>2. Buckets[b].max < Buckets[n].min
          BY <5>1, <3>1, <1>1
        <5> QED BY <5>2, <3>1, <1>1
      <4> QED BY <4>1, <4>2
    <3> QED BY <3>2, <3>3, <3>4, <1>1, <1>2, <1>5
  <2> QED BY <2>1, <2>2
<1> HIDE DEF first, tiers
<1>6. difference = 1 => IntRelativeCode(previous, current) = <<1>>
  BY <1>3
<1>7. ASSUME NEW b \in 1..n, difference \in Buckets[b].min..Buckets[b].max
      PROVE  IntRelativeCode(previous, current) =
               Zeros(b) \o <<1>> \o ToBits(difference - Buckets[b].min,
                                           BitsRequired(Span(Buckets[b])))
  BY <1>3, <1>4, <1>7, Zenon
<1>8. ASSUME difference > BoundedMax
      PROVE  IntRelativeCode(previous, current) =
               Zeros(n + 1) \o ToBits(current, AbsoluteBits)
  BY <1>3, <1>5, <1>8, Zenon
<1> QED BY <1>6, <1>7, <1>8 DEF difference, n

(***************************************************************************)
(* A difference above one is in a bucket or above them all, and those it   *)
(* is too large for are the ones before its own: as many as the flags the  *)
(* measure stream counts before it.                                        *)
(***************************************************************************)
LEMMA TierOfDifference ==
  ASSUME NEW difference \in Nat, difference > 1
  PROVE  \/ /\ difference > BoundedMax
            /\ {b \in 1..Len(Buckets) : difference > Buckets[b].max} = 1..Len(Buckets)
         \/ \E b \in 1..Len(Buckets) :
              /\ difference \in Buckets[b].min..Buckets[b].max
              /\ {c \in 1..Len(Buckets) : difference > Buckets[c].max} = 1..b-1
<1> DEFINE n == Len(Buckets)
           tiers == {b \in 1..n : difference <= Buckets[b].max}
<1>1. /\ n \in Nat
      /\ \A b \in 1..n : /\ Buckets[b].min \in Nat /\ Buckets[b].max \in Nat
                         /\ 2 <= Buckets[b].min /\ Buckets[b].min <= Buckets[b].max
      /\ \A b, c \in 1..n : b < c => Buckets[b].max < Buckets[c].min
  BY BucketFacts
<1>2. \A b \in 1..n : Buckets[b].min = IF b = 1 THEN 2 ELSE Buckets[b-1].max + 1
  BY BucketsAssumption
<1>3. CASE tiers = {}
  <2>1. \A b \in 1..n : difference > Buckets[b].max
    BY <1>1, <1>3
  <2>2. difference > BoundedMax
    <3>1. CASE Buckets = <<>>
      BY <3>1 DEF BoundedMax
    <3>2. CASE Buckets # <<>>
      <4>1. n # 0
        BY <3>2, BucketsAssumption
      <4>2. n \in 1..n
        BY <4>1, <1>1
      <4>3. BoundedMax = Buckets[n].max
        BY <3>2 DEF BoundedMax
      <4> QED BY <4>2, <4>3, <2>1
    <3> QED BY <3>1, <3>2
  <2> QED BY <2>1, <2>2
<1>4. CASE tiers # {}
  <2>1. tiers \subseteq Nat
    BY <1>1
  <2>2. PICK b \in tiers : \A c \in tiers : b <= c
    <3> HIDE DEF tiers
    <3> QED BY <2>1, <1>4, Least
  <2>3. b \in 1..n /\ difference <= Buckets[b].max
    BY <2>2
  <2> HIDE DEF n
  <2>4. Buckets[b].min <= difference
    <3>1. CASE b = 1
      BY <3>1, <2>3, <1>2
    <3>2. CASE b # 1
      <4>1. b - 1 \in 1..n /\ b - 1 < b
        BY <3>2, <2>3, <1>1
      <4>2. b - 1 \notin tiers
        BY <4>1, <2>2, <2>3, <1>1
      <4>3. difference > Buckets[b-1].max
        BY <4>1, <4>2, <1>1
      <4> QED BY <4>1, <4>3, <3>2, <2>3, <1>1, <1>2
    <3> QED BY <3>1, <3>2
  <2>5. ASSUME NEW c \in 1..n PROVE difference > Buckets[c].max <=> c < b
    <3>1. CASE c < b
      <4>1. Buckets[c].max < Buckets[b].min
        BY <3>1, <2>3, <1>1
      <4> QED BY <4>1, <3>1, <2>3, <2>4, <1>1
    <3>2. CASE c >= b
      <4>1. Buckets[b].max <= Buckets[c].max
        <5>1. CASE c = b
          BY <5>1, <2>3, <1>1
        <5>2. CASE c # b
          <6>1. b < c
            BY <5>2, <3>2, <2>3, <1>1
          <6>2. Buckets[b].max < Buckets[c].min
            BY <6>1, <2>3, <1>1
          <6> QED BY <6>2, <2>3, <1>1
        <5> QED BY <5>1, <5>2
      <4> QED BY <4>1, <3>2, <2>3, <1>1
    <3> QED BY <3>1, <3>2, <2>3, <1>1
  <2>6. {c \in 1..n : difference > Buckets[c].max} = 1..b-1
    BY <2>3, <2>5, <1>1
  <2>7. difference \in Buckets[b].min..Buckets[b].max
    BY <2>3, <2>4, <1>1
  <2> QED BY <2>3, <2>6, <2>7 DEF n
<1> QED BY <1>3, <1>4

(***************************************************************************)
(* The code of a number above another is a sequence of bits.               *)
(***************************************************************************)
LEMMA IntRelativeType ==
  ASSUME NEW previous \in Int, NEW current \in Int, previous < current
  PROVE  IntRelativeCode(previous, current) \in Seq(Bit)
<1> DEFINE code == IntRelativeCode(previous, current)
           difference == current - previous
<1>1. difference \in Nat /\ difference >= 1
  OBVIOUS
<1>2. \A n \in Nat : Zeros(n) \in Seq(Bit)
  BY DEF Zeros, Bit
<1>3. << 1 >> \in Seq(Bit)
  BY DEF Bit
<1>4. CASE difference = 1
  BY <1>4, <1>3, TierCodes
<1>5. CASE difference > BoundedMax
  <2> DEFINE z == Zeros(Len(Buckets) + 1)
             t == ToBits(current, AbsoluteBits)
  <2>1. code = z \o t
    BY <1>5, TierCodes
  <2>2. z \in Seq(Bit)
    BY <1>2, BucketFacts
  <2>3. t \in Seq(Bit)
    BY FieldType, DomainAssumption
  <2> HIDE DEF z, t
  <2> QED BY <2>1, <2>2, <2>3
<1>6. ASSUME NEW b \in 1..Len(Buckets), difference \in Buckets[b].min..Buckets[b].max
      PROVE  code \in Seq(Bit)
  <2> DEFINE z == Zeros(b)
             off == difference - Buckets[b].min
             w == BitsRequired(Span(Buckets[b]))
             t == ToBits(off, w)
             one == << 1 >>
  <2>1. code = z \o one \o t
    BY <1>6, TierCodes
  <2>2. z \in Seq(Bit) /\ one \in Seq(Bit)
    BY <1>2, <1>3
  <2>3. Buckets[b].min \in Nat /\ Span(Buckets[b]) \in Nat
    BY BucketFacts
  <2>4. off \in Int
    BY <2>3
  <2>5. w \in Nat
    <3> HIDE DEF w
    <3> QED BY <2>3, BitsRequiredFits DEF w
  <2> HIDE DEF off, w
  <2>6. t \in Seq(Bit)
    BY <2>4, <2>5, FieldType
  <2> HIDE DEF z, one, t
  <2> QED BY <2>1, <2>2, <2>6
<1>7. CASE difference > 1
  <2> HIDE DEF difference
  <2>1. \/ difference > BoundedMax
        \/ \E b \in 1..Len(Buckets) : difference \in Buckets[b].min..Buckets[b].max
    BY <1>1, <1>7, TierOfDifference
  <2> QED BY <2>1, <1>5, <1>6
<1> QED BY <1>1, <1>4, <1>7

-----------------------------------------------------------------------------

(***************************************************************************)
(* What any call of the caller does to the latch: it returns what is       *)
(* latched when it is done, and a reason latched before stays, with the    *)
(* position and the values read so far.                                    *)
(***************************************************************************)
Latches == /\ returned' = err'
           /\ err # None => err' = err /\ UNCHANGED <<bitsRead, echo>>

(***************************************************************************)
(* A read, whatever its decoder gives.                                     *)
(***************************************************************************)
LEMMA SerializeLatches ==
  ASSUME NEW o, Serialize(o)
  PROVE  Latches
<1>1. CASE err # None
  BY <1>1 DEF Serialize, Latches
<1>2. CASE err = None
  BY <1>2 DEF Serialize, Latches, fail
<1> QED BY <1>1, <1>2

(***************************************************************************)
(* The calls that read.                                                    *)
(***************************************************************************)
Reads == \/ \E n \in Widths : SerializeBits(n)
         \/ \E span \in Spans : SerializeInt(span)
         \/ SerializeFloat
         \/ SerializeAlign
         \/ \E count \in Counts : SerializeBytes(count)
         \/ \E size \in Sizes : SerializeString(size)
         \/ \E previous \in Previous : SerializeIntRelative(previous)
         \/ SerializeEnd

(***************************************************************************)
(* Every call that reads leaves a latched reason alone.                    *)
(***************************************************************************)
LEMMA ReadsLatch == ASSUME Reads PROVE Latches
<1>1. CASE \E n \in Widths : SerializeBits(n)
  BY <1>1, SerializeLatches DEF SerializeBits
<1>2. CASE \E span \in Spans : SerializeInt(span)
  BY <1>2, SerializeLatches DEF SerializeInt
<1>3. CASE SerializeFloat
  BY <1>3, SerializeLatches DEF SerializeFloat
<1>4. CASE SerializeAlign
  BY <1>4, SerializeLatches DEF SerializeAlign
<1>5. CASE \E count \in Counts : SerializeBytes(count)
  BY <1>5, SerializeLatches DEF SerializeBytes
<1>6. CASE \E size \in Sizes : SerializeString(size)
  BY <1>6, SerializeLatches DEF SerializeString
<1>7. CASE \E previous \in Previous : SerializeIntRelative(previous)
  BY <1>7, SerializeLatches DEF SerializeIntRelative
<1>8. CASE SerializeEnd
  BY <1>8, SerializeLatches DEF SerializeEnd
<1> QED BY <1>1, <1>2, <1>3, <1>4, <1>5, <1>6, <1>7, <1>8 DEF Reads

(***************************************************************************)
(* The ways a caller refuses: a declaration that means nothing, Fail and   *)
(* Reject, and the two ends of an object.                                  *)
(***************************************************************************)
Refusing == \/ BadDeclaration
            \/ \E reason \in {"rejected", "past_end", None, OwnError} : Fail(reason)
            \/ EnterObject
            \/ \E e \in {None, "invalid_utf8", OwnError} : LeaveObject(e)

(***************************************************************************)
(* So does every way a caller refuses.                                     *)
(***************************************************************************)
LEMMA RefusingLatches == ASSUME ReturnsTheLatch, Refusing PROVE Latches
<1>1. CASE BadDeclaration
  BY <1>1 DEF BadDeclaration, fail, Latches
<1>2. CASE \E reason \in {"rejected", "past_end", None, OwnError} : Fail(reason)
  BY <1>2 DEF Fail, fail, Latches
<1>3. CASE EnterObject
  BY <1>3 DEF EnterObject, ReturnsTheLatch, Latches
<1>4. CASE \E e \in {None, "invalid_utf8", OwnError} : LeaveObject(e)
  <2>1. PICK e \in {None, "invalid_utf8", OwnError} : LeaveObject(e)
    BY <1>4
  <2>2. CASE e = None \/ err # None
    BY <2>1, <2>2 DEF LeaveObject, Latches
  <2>3. CASE ~(e = None \/ err # None)
    BY <2>1, <2>3 DEF LeaveObject, fail, Latches
  <2> QED BY <2>2, <2>3
<1> QED BY <1>1, <1>2, <1>3, <1>4 DEF Refusing

(***************************************************************************)
(* A step of the stream reads, refuses, or resets the stream onto another  *)
(* packet outside of every object.                                         *)
(***************************************************************************)
LEMMA StepLatches ==
  ASSUME ReturnsTheLatch, [Next]_vars
  PROVE  Latches \/ (err' = None /\ returned' = None /\ bitsRead' = 0 /\ depth = 0)
<1>1. CASE Reads
  BY <1>1, ReadsLatch
<1>2. CASE Refusing
  BY <1>2, RefusingLatches
<1>3. CASE \E packet \in Later : Reset(packet)
  BY <1>3 DEF Reset
<1>4. CASE UNCHANGED vars
  BY <1>4 DEF vars, ReturnsTheLatch, Latches
<1> QED BY <1>1, <1>2, <1>3, <1>4 DEF Next, Reads, Refusing

-----------------------------------------------------------------------------
(***************************************************************************)
(* Every call of the read stream returns what is latched.                  *)
(***************************************************************************)
THEOREM ReturnsWhatIsLatched == Spec => []ReturnsTheLatch
<1>1. Init => ReturnsTheLatch
  BY DEF Init, ReturnsTheLatch
<1>2. ReturnsTheLatch /\ [Next]_vars => ReturnsTheLatch'
  BY StepLatches DEF ReturnsTheLatch, Latches
<1> QED BY <1>1, <1>2, PTL DEF Spec

(***************************************************************************)
(* The first refusal stands until a Reset, with the position and the       *)
(* values of the calls before it, whatever objects enclose it and whatever *)
(* the caller refuses later.                                               *)
(***************************************************************************)
THEOREM FirstRefusalStands == Spec => RefusalStands
<1> DEFINE Stands == err # None => \/ err' = None /\ bitsRead' = 0 /\ depth = 0
                                   \/ err' = err /\ UNCHANGED <<bitsRead, echo>>
<1>1. ReturnsTheLatch /\ [Next]_vars => Stands
  BY StepLatches DEF Latches
<1>2. ReturnsTheLatch /\ [Next]_vars => [Stands]_vars
  BY <1>1
<1> QED BY <1>2, ReturnsWhatIsLatched, PTL DEF Spec, RefusalStands

-----------------------------------------------------------------------------
(***************************************************************************)
(* A piece of the packet by its length and its elements.                   *)
(***************************************************************************)
LEMMA PieceFacts ==
  ASSUME data \in Seq(Bit), NEW at \in Nat, NEW n \in Nat, at + n <= Len(data)
  PROVE  /\ BitsAt(at, n) \in Seq(Bit)
         /\ Len(BitsAt(at, n)) = n
         /\ \A i \in 1..n : BitsAt(at, n)[i] = data[at+i]
<1> DEFINE a == at + 1
           b == at + n
<1>1. /\ a \in Int /\ b \in Int /\ b - a + 1 = n
      /\ (IF a <= b THEN b - a + 1 ELSE 0) = n
      /\ \A i \in 1..n : a + i - 1 = at + i
  OBVIOUS
<1>2. \A i \in a..b : data[i] \in Bit
  <2> SUFFICES ASSUME NEW i \in a..b PROVE data[i] \in Bit
    OBVIOUS
  <2>1. i \in 1..Len(data)
    OBVIOUS
  <2> QED BY <2>1, ElementOfSeq
<1> HIDE DEF a, b
<1>3. /\ SubSeq(data, a, b) \in Seq(Bit)
      /\ Len(SubSeq(data, a, b)) = IF a <= b THEN b - a + 1 ELSE 0
      /\ \A i \in 1..b-a+1 : SubSeq(data, a, b)[i] = data[a+i-1]
  BY <1>1, <1>2, SubSeqProperties
<1>4. BitsAt(at, n) = SubSeq(data, a, b)
  BY DEF BitsAt, a, b
<1> QED BY <1>1, <1>3, <1>4

(***************************************************************************)
(* A sequence with the length and the bits of a piece is the piece.        *)
(***************************************************************************)
LEMMA PieceIs ==
  ASSUME data \in Seq(Bit), NEW at \in Nat, NEW n \in Nat, at + n <= Len(data),
         NEW s \in Seq(Bit), Len(s) = n, \A i \in 1..n : s[i] = data[at+i]
  PROVE  BitsAt(at, n) = s
<1>1. /\ BitsAt(at, n) \in Seq(Bit) /\ Len(BitsAt(at, n)) = n
      /\ \A i \in 1..n : BitsAt(at, n)[i] = data[at+i]
  BY PieceFacts
<1> DEFINE t == BitsAt(at, n)
<1> HIDE DEF t
<1>2. Len(t) = Len(s) /\ \A i \in 1..Len(t) : t[i] = s[i]
  BY <1>1 DEF t
<1>3. t \in Seq(Bit)
  BY <1>1 DEF t
<1> QED BY <1>2, <1>3, SeqEqual DEF t

(***************************************************************************)
(* Two pieces in a row are one.                                            *)
(***************************************************************************)
LEMMA PieceJoin ==
  ASSUME data \in Seq(Bit), NEW at \in Nat, NEW m \in Nat, NEW n \in Nat,
         at + m + n <= Len(data)
  PROVE  BitsAt(at, m) \o BitsAt(at + m, n) = BitsAt(at, m + n)
<1> DEFINE s == BitsAt(at, m)
           t == BitsAt(at + m, n)
           u == s \o t
           k == m + n
<1>1. /\ s \in Seq(Bit) /\ Len(s) = m /\ \A i \in 1..m : s[i] = data[at+i]
  BY PieceFacts
<1>2. /\ t \in Seq(Bit) /\ Len(t) = n /\ \A i \in 1..n : t[i] = data[(at+m)+i]
  BY PieceFacts
<1> HIDE DEF s, t
<1>3. /\ u \in Seq(Bit) /\ Len(u) = Len(s) + Len(t)
      /\ \A i \in 1..Len(s) + Len(t) : u[i] = IF i <= Len(s) THEN s[i] ELSE t[i - Len(s)]
  BY <1>1, <1>2, ConcatProperties
<1>4. k \in Nat /\ at + k <= Len(data) /\ Len(u) = k
  BY <1>1, <1>2, <1>3
<1>5. \A i \in 1..k : u[i] = IF i <= m THEN s[i] ELSE t[i - m]
  BY <1>1, <1>2, <1>3
<1> HIDE DEF u
<1>6. ASSUME NEW i \in 1..k PROVE u[i] = data[at+i]
  <2>1. CASE i <= m
    BY <2>1, <1>1, <1>5
  <2>2. CASE i > m
    <3> DEFINE j == i - m
    <3>1. j \in 1..n /\ (at + m) + j = at + i
      BY <2>2
    <3>2. u[i] = t[j]
      BY <2>2, <1>5
    <3> HIDE DEF j
    <3>3. t[j] = data[(at+m)+j]
      BY <3>1, <1>2
    <3> QED BY <3>1, <3>2, <3>3
  <2>3. i <= m \/ i > m
    OBVIOUS
  <2> QED BY <2>1, <2>2, <2>3
<1> HIDE DEF k
<1>7. BitsAt(at, k) = u
  BY <1>3, <1>4, <1>6, PieceIs
<1> QED BY <1>7 DEF u, k, s, t

(***************************************************************************)
(* A piece of no bits is empty.                                            *)
(***************************************************************************)
LEMMA PieceEmpty ==
  ASSUME NEW at \in Nat
  PROVE  BitsAt(at, 0) = <<>>
BY SubSeqEmpty DEF BitsAt

-----------------------------------------------------------------------------
(***************************************************************************)
(* What every decoder keeps: it ends where it began or further on in the   *)
(* packet; the code of what it accepts is the piece it read, so a writer   *)
(* has no other for that value; and it says why when it refuses.           *)
(***************************************************************************)
Sound(o, at) == /\ o.at \in at..Len(data)
                /\ o.reason \in Refusals \cup {None}
                /\ o.code = IF Accepted(o) THEN BitsAt(at, o.at - at) ELSE <<>>

\* Where a decoder can be called.
Position(at) == /\ data \in Seq(Bit) /\ Len(data) \in Nat /\ Len(data) % ByteBits = 0
                /\ at \in 0..Len(data)

(***************************************************************************)
(* What refuses, and what accepts the very bits it read, is sound.         *)
(***************************************************************************)
LEMMA RefusesSound ==
  ASSUME NEW at, Position(at), NEW e \in at..Len(data), NEW reason \in Refusals
  PROVE  Sound(Refuses(reason, e), at) /\ ~Accepted(Refuses(reason, e))
<1>1. reason # None
  BY DEF Refusals, None
<1> QED BY <1>1 DEF Sound, Refuses, Accepted

(***************************************************************************)
(* What is accepted with the very bits read is sound.                      *)
(***************************************************************************)
LEMMA AcceptsSound ==
  ASSUME NEW at, Position(at), NEW n \in Nat, at + n <= Len(data), NEW code, NEW value,
         code = BitsAt(at, n)
  PROVE  /\ Sound(Accepts(at + n, code, value), at)
         /\ Accepted(Accepts(at + n, code, value))
<1>1. at \in Nat /\ at + n \in at..Len(data) /\ (at + n) - at = n
  BY DEF Position
<1> QED BY <1>1 DEF Sound, Accepts, Accepted

(***************************************************************************)
(* A raw field.                                                            *)
(***************************************************************************)
LEMMA FieldSound ==
  ASSUME NEW at, Position(at), NEW n \in Nat
  PROVE  /\ Sound(Field(at, n), at)
         /\ Accepted(Field(at, n)) => /\ at + n <= Len(data)
                                      /\ Field(at, n).at = at + n
                                      /\ Field(at, n).value = FromBits(BitsAt(at, n))
<1>1. at \in Nat /\ Len(data) \in Nat /\ at \in at..Len(data)
  BY DEF Position
<1>2. CASE at + n > Len(data)
  <2>1. Field(at, n) = Refuses("past_end", at)
    BY <1>2 DEF Field, numBits
  <2>2. "past_end" \in Refusals
    BY DEF Refusals
  <2> QED BY <2>1, <2>2, <1>1, RefusesSound
<1>3. CASE ~(at + n > Len(data))
  <2>1. Field(at, n) = Accepts(at + n, BitsAt(at, n), FromBits(BitsAt(at, n)))
    BY <1>3 DEF Field, numBits
  <2>2. at + n <= Len(data)
    BY <1>1, <1>3
  <2>3. /\ Accepts(at + n, BitsAt(at, n), FromBits(BitsAt(at, n))).at = at + n
        /\ Accepts(at + n, BitsAt(at, n), FromBits(BitsAt(at, n))).value
             = FromBits(BitsAt(at, n))
    BY DEF Accepts
  <2> QED BY <2>1, <2>2, <2>3, AcceptsSound
<1> QED BY <1>2, <1>3

(***************************************************************************)
(* A ranged integer: the value of its bits has no other bits.              *)
(***************************************************************************)
LEMMA RangedSound ==
  ASSUME NEW at, Position(at), NEW span \in Nat
  PROVE  /\ Sound(Ranged(at, span), at)
         /\ Accepted(Ranged(at, span)) =>
              /\ at + BitsRequired(span) <= Len(data)
              /\ Ranged(at, span).at = at + BitsRequired(span)
              /\ Ranged(at, span).value \in 0..span
              /\ Ranged(at, span).code = ToBits(Ranged(at, span).value, BitsRequired(span))
<1> DEFINE n == BitsRequired(span)
           v == FromBits(BitsAt(at, n))
<1>1. at \in Nat /\ Len(data) \in Nat /\ at \in at..Len(data) /\ data \in Seq(Bit)
  BY DEF Position
<1>2. n \in Nat
  BY BitsRequiredFits
<1>3. Ranged(at, span) = IF at + n > Len(data) THEN Refuses("past_end", at)
                         ELSE IF v > span THEN Refuses("value_out_of_range", at + n)
                         ELSE Accepts(at + n, ToBits(v, n), v)
  BY DEF Ranged, numBits
<1>4. "past_end" \in Refusals /\ "value_out_of_range" \in Refusals
  BY DEF Refusals
<1> HIDE DEF n, v
<1>5. CASE at + n > Len(data)
  <2>1. Ranged(at, span) = Refuses("past_end", at)
    BY <1>3, <1>5
  <2> QED BY <2>1, <1>1, <1>4, RefusesSound
<1>6. CASE ~(at + n > Len(data))
  <2>1. at + n <= Len(data) /\ at + n \in at..Len(data)
    BY <1>1, <1>2, <1>6
  <2>2. BitsAt(at, n) \in Seq(Bit) /\ Len(BitsAt(at, n)) = n
    BY <2>1, <1>1, <1>2, PieceFacts
  <2>3. v \in 0..2^n-1 /\ ToBits(v, n) = BitsAt(at, n)
    BY <2>2, FieldOfValue DEF v
  <2>4. CASE v > span
    <3>1. Ranged(at, span) = Refuses("value_out_of_range", at + n)
      BY <1>3, <1>6, <2>4
    <3> QED BY <3>1, <2>1, <1>4, RefusesSound
  <2>5. CASE ~(v > span)
    <3>1. Ranged(at, span) = Accepts(at + n, ToBits(v, n), v)
      BY <1>3, <1>6, <2>5
    <3>2. 2^n \in Nat /\ v \in 0..span
      BY Powers, <1>2, <2>3, <2>5
    <3>3. /\ Accepts(at + n, ToBits(v, n), v).at = at + n
          /\ Accepts(at + n, ToBits(v, n), v).value = v
          /\ Accepts(at + n, ToBits(v, n), v).code = ToBits(v, n)
      BY DEF Accepts
    <3>4. Sound(Accepts(at + n, ToBits(v, n), v), at)
      BY <2>1, <2>3, <1>2, AcceptsSound
    <3> QED BY <3>1, <3>2, <3>3, <3>4, <2>1 DEF n
  <2> QED BY <2>4, <2>5
<1> QED BY <1>5, <1>6

(***************************************************************************)
(* A float: one that is not finite is refused, and nothing else is added.  *)
(***************************************************************************)
LEMMA FloatSound ==
  ASSUME NEW at, Position(at)
  PROVE  Sound(Float(at), at)
<1> DEFINE o == Field(at, FloatBits)
<1>1. Sound(o, at)
  BY FieldSound, DeclarationsAssumption
<1>2. Float(at) = IF Accepted(o) /\ o.code \in NonFinite
                    THEN Refuses("non_finite_float", o.at) ELSE o
  BY DEF Float
<1>3. o.at \in at..Len(data)
  BY <1>1 DEF Sound
<1>4. "non_finite_float" \in Refusals
  BY DEF Refusals
<1> HIDE DEF o
<1> QED BY <1>1, <1>2, <1>3, <1>4, RefusesSound

(***************************************************************************)
(* What is all zeros is the padding of its length.                         *)
(***************************************************************************)
LEMMA ZeroPiece ==
  ASSUME data \in Seq(Bit), NEW at \in Nat, NEW n \in Nat, at + n <= Len(data),
         AllZero(BitsAt(at, n))
  PROVE  BitsAt(at, n) = Zeros(n)
<1>1. /\ BitsAt(at, n) \in Seq(Bit) /\ Len(BitsAt(at, n)) = n
      /\ \A i \in 1..n : BitsAt(at, n)[i] = data[at+i]
  BY PieceFacts
<1>2. Zeros(n) \in Seq(Bit) /\ Len(Zeros(n)) = n /\ \A i \in 1..n : Zeros(n)[i] = 0
  BY DEF Zeros, Bit
<1> DEFINE s == BitsAt(at, n)
           z == Zeros(n)
<1>3. \A i \in 1..n : s[i] = 0
  <2>1. DOMAIN s = 1..n
    BY <1>1, LenProperties
  <2>2. \A i \in DOMAIN s : s[i] = 0
    BY DEF AllZero
  <2> QED BY <2>1, <2>2
<1>4. s \in Seq(Bit) /\ Len(s) = n /\ z \in Seq(Bit) /\ Len(z) = n /\ \A i \in 1..n : z[i] = 0
  BY <1>1, <1>2
<1> HIDE DEF s, z
<1>5. s = z
  BY <1>3, <1>4, SeqEqual
<1> QED BY <1>5 DEF s, z

(***************************************************************************)
(* An align: only zeros are accepted, and they are what a writer pads with.*)
(***************************************************************************)
LEMMA AlignSound ==
  ASSUME NEW at, Position(at)
  PROVE  /\ Sound(Align(at), at)
         /\ Accepted(Align(at)) => Align(at).at = at + AlignPad(at)
<1> DEFINE n == AlignPad(at)
<1>1. /\ at \in Nat /\ Len(data) \in Nat /\ at \in at..Len(data) /\ data \in Seq(Bit)
  BY DEF Position
<1>2. n \in Nat
  BY <1>1, RoundUpBytes, GeometryAssumption
<1>3. Align(at) = IF at + n > Len(data) THEN Refuses("past_end", at)
                  ELSE IF ~AllZero(BitsAt(at, n)) THEN Refuses("nonzero_padding", at + n)
                  ELSE Accepts(at + n, Zeros(n), 0)
  BY DEF Align, numBits
<1>4. "past_end" \in Refusals /\ "nonzero_padding" \in Refusals
  BY DEF Refusals
<1> HIDE DEF n
<1>5. CASE at + n > Len(data)
  <2>1. Align(at) = Refuses("past_end", at)
    BY <1>3, <1>5
  <2> QED BY <2>1, <1>1, <1>4, RefusesSound
<1>6. CASE ~(at + n > Len(data))
  <2>1. at + n <= Len(data) /\ at + n \in at..Len(data)
    BY <1>1, <1>2, <1>6
  <2>2. CASE ~AllZero(BitsAt(at, n))
    <3>1. Align(at) = Refuses("nonzero_padding", at + n)
      BY <1>3, <1>6, <2>2
    <3> QED BY <3>1, <2>1, <1>4, RefusesSound
  <2>3. CASE AllZero(BitsAt(at, n))
    <3>1. Align(at) = Accepts(at + n, Zeros(n), 0)
      BY <1>3, <1>6, <2>3
    <3>2. Zeros(n) = BitsAt(at, n)
      BY <2>1, <2>3, <1>1, <1>2, ZeroPiece
    <3>3. Accepts(at + n, Zeros(n), 0).at = at + n
      BY DEF Accepts
    <3> QED BY <3>1, <3>2, <3>3, <2>1, <1>2, AcceptsSound DEF n
  <2> QED BY <2>2, <2>3
<1> QED BY <1>5, <1>6

(***************************************************************************)
(* Bytes: an align, and as many whole bytes as were asked for, if they are *)
(* all there.                                                              *)
(***************************************************************************)
LEMMA BytesSound ==
  ASSUME NEW at, Position(at), NEW count \in Nat
  PROVE  Sound(Bytes(at, count), at)
<1> DEFINE pad == Align(at)
           k == pad.at
           c == count * ByteBits
           value == [i \in 1..count |-> ByteAt(k, i)]
<1>1. /\ at \in Nat /\ Len(data) \in Nat /\ data \in Seq(Bit)
  BY DEF Position
<1>2. Sound(pad, at) /\ (Accepted(pad) => k = at + AlignPad(at))
  BY AlignSound
<1>3. k \in at..Len(data)
  BY <1>2 DEF Sound
<1>4. Bytes(at, count) =
        IF ~Accepted(pad) THEN pad
        ELSE IF count > (Len(data) - k) \div ByteBits THEN Refuses("past_end", k)
        ELSE Accepts(k + c, pad.code \o BitsAt(k, c), value)
  BY DEF Bytes, numBits, Remaining
<1>5. "past_end" \in Refusals
  BY DEF Refusals
<1>6. CASE ~Accepted(pad)
  <2>1. Bytes(at, count) = pad
    BY <1>4, <1>6
  <2> QED BY <2>1, <1>2
<1>7. CASE Accepted(pad) /\ count > (Len(data) - k) \div ByteBits
  <2>1. Bytes(at, count) = Refuses("past_end", k)
    BY <1>4, <1>7
  <2> HIDE DEF pad, k
  <2> QED BY <2>1, <1>3, <1>5, RefusesSound
<1>8. CASE Accepted(pad) /\ ~(count > (Len(data) - k) \div ByteBits)
  <2>1. Bytes(at, count) = Accepts(k + c, pad.code \o BitsAt(k, c), value)
    BY <1>4, <1>8
  <2> DEFINE m == k - at
  <2>2. pad.code = BitsAt(at, m)
    BY <1>2, <1>8 DEF Sound
  <2> HIDE DEF pad, k, value
  <2>3. m \in Nat /\ k = at + m
    BY <1>1, <1>3
  <2>4. c \in Nat /\ c <= Len(data) - k
    <3> DEFINE r == Len(data) - k
    <3>1. r \in Nat
      BY <1>1, <1>3
    <3> HIDE DEF r
    <3>2. /\ r \div ByteBits \in Nat /\ r % ByteBits \in 0..ByteBits-1
          /\ r = (r \div ByteBits) * ByteBits + (r % ByteBits)
      BY <3>1, InBytes
    <3>3. count <= r \div ByteBits
      BY <3>2, <1>8 DEF r
    <3>4. count * ByteBits <= (r \div ByteBits) * ByteBits /\ c \in Int /\ (r \div ByteBits) * ByteBits \in Int
      BY <3>2, <3>3, Products, GeometryAssumption
    <3>5. 0 * ByteBits <= count * ByteBits
      BY Products, GeometryAssumption
    <3>6. c \in Nat
      BY <3>4, <3>5, GeometryAssumption
    <3> HIDE DEF c
    <3> DEFINE q == (r \div ByteBits) * ByteBits
    <3>7. c <= q /\ q \in Int /\ r = q + (r % ByteBits) /\ r % ByteBits \in Nat
      BY <3>2, <3>4, GeometryAssumption DEF c
    <3> HIDE DEF q
    <3>8. c <= r
      BY <3>6, <3>7, <3>1
    <3> QED BY <3>6, <3>8 DEF r
  <2> HIDE DEF c, m
  <2>5. at + m + c <= Len(data) /\ m + c \in Nat /\ at + (m + c) <= Len(data)
        /\ k + c = at + (m + c)
    BY <1>1, <2>3, <2>4
  <2>6. BitsAt(at, m) \o BitsAt(k, c) = BitsAt(at, m + c)
    BY <2>3, <2>4, <2>5, <1>1, PieceJoin
  <2> DEFINE code == pad.code \o BitsAt(k, c)
  <2>7. code = BitsAt(at, m + c)
    BY <2>2, <2>6
  <2> HIDE DEF code
  <2>8. Sound(Accepts(at + (m + c), code, value), at)
    BY <2>5, <2>7, AcceptsSound
  <2> QED BY <2>1, <2>5, <2>8 DEF code
<1> QED BY <1>6, <1>7, <1>8

(***************************************************************************)
(* A string: its length, which leaves a position its bytes are read from.  *)
(***************************************************************************)
LEMMA StringSound ==
  ASSUME NEW at, Position(at), NEW size \in Nat \ {0}
  PROVE  Sound(String(at, size), at)
<1> DEFINE length == Ranged(at, size - 1)
           run == Bytes(length.at, length.value)
<1>1. /\ at \in Nat /\ Len(data) \in Nat /\ data \in Seq(Bit) /\ size - 1 \in Nat
  BY DEF Position
<1>2. Sound(length, at) /\ (Accepted(length) => length.value \in 0..(size - 1))
  BY <1>1, RangedSound
<1>3. String(at, size) =
        IF ~Accepted(length) THEN length
        ELSE IF ~Accepted(run) THEN run
        ELSE IF HasNul(run.value) THEN Refuses("embedded_nul", run.at)
        ELSE IF ~WellFormed(run.value) THEN Refuses("invalid_utf8", run.at)
        ELSE Accepts(run.at, length.code \o run.code, run.value)
  BY DEF String
<1>4. "embedded_nul" \in Refusals /\ "invalid_utf8" \in Refusals
  BY DEF Refusals
<1>5. CASE ~Accepted(length)
  <2>1. String(at, size) = length
    BY <1>3, <1>5
  <2> QED BY <2>1, <1>2
<1>6. CASE Accepted(length)
  <2> DEFINE k == length.at
             m == k - at
             e == run.at
  <2>1. /\ k \in at..Len(data) /\ m \in Nat /\ at + m = k /\ length.code = BitsAt(at, m)
        /\ Position(k) /\ length.value \in Nat
    BY <1>1, <1>2, <1>6 DEF Sound, Position
  <2>2. Sound(run, k)
    BY <2>1, BytesSound
  <2> DEFINE n == e - k
  <2> HIDE DEF length, run, k, m
  <2>3. /\ e \in k..Len(data)
        /\ run.code = IF Accepted(run) THEN BitsAt(k, n) ELSE <<>>
        /\ run.reason \in Refusals \cup {None}
    BY <2>2 DEF Sound
  <2> HIDE DEF e
  <2>8. /\ e \in at..Len(data) /\ n \in Nat /\ k + n = e
        /\ at + m + n <= Len(data) /\ m + n \in Nat
        /\ at + (m + n) = e /\ at + (m + n) <= Len(data)
    BY <1>1, <2>1, <2>3
  <2> HIDE DEF n
  <2>4. CASE ~Accepted(run)
    <3>1. String(at, size) = run
      BY <1>3, <1>6, <2>4
    <3> QED BY <3>1, <2>3, <2>8, <2>4 DEF Sound, e
  <2>5. CASE Accepted(run) /\ HasNul(run.value)
    <3>1. String(at, size) = Refuses("embedded_nul", e)
      BY <1>3, <1>6, <2>5 DEF e
    <3> QED BY <3>1, <2>8, <1>4, RefusesSound
  <2>6. CASE Accepted(run) /\ ~HasNul(run.value) /\ ~WellFormed(run.value)
    <3>1. String(at, size) = Refuses("invalid_utf8", e)
      BY <1>3, <1>6, <2>6 DEF e
    <3> QED BY <3>1, <2>8, <1>4, RefusesSound
  <2>7. CASE Accepted(run) /\ ~HasNul(run.value) /\ WellFormed(run.value)
    <3> DEFINE code == length.code \o run.code
    <3>1. String(at, size) = Accepts(e, code, run.value)
      BY <1>3, <1>6, <2>7 DEF e
    <3>2. BitsAt(at, m) \o BitsAt(at + m, n) = BitsAt(at, m + n)
      <4>1. /\ data \in Seq(Bit) /\ at \in Nat /\ m \in Nat /\ n \in Nat
            /\ at + m + n <= Len(data)
        BY <1>1, <2>1, <2>8
      <4> QED BY ONLY <4>1, PieceJoin
    <3>3. code = BitsAt(at, m + n)
      BY <3>2, <2>1, <2>3, <2>7
    <3> HIDE DEF code
    <3>4. Sound(Accepts(at + (m + n), code, run.value), at)
      BY <2>8, <3>3, AcceptsSound
    <3> QED BY <3>1, <3>4, <2>8
  <2> QED BY <2>4, <2>5, <2>6, <2>7
<1> QED BY <1>5, <1>6

-----------------------------------------------------------------------------
(***************************************************************************)
(* The check of a rebuilt value: it is sound when the writer has, for the  *)
(* values it lets through, the bits that were read.                        *)
(***************************************************************************)
LEMMA ResultSound ==
  ASSUME NEW at, Position(at), NEW n \in Nat, at + n <= Len(data),
         NEW previous \in Int, NEW rebuilt \in Int,
         rebuilt <= IntRelativeMax /\ previous < rebuilt =>
           IntRelativeCode(previous, rebuilt) = BitsAt(at, n)
  PROVE  Sound(intRelativeResult(previous, at + n, rebuilt), at)
<1>1. at \in Nat /\ at + n \in at..Len(data)
  BY DEF Position
<1>2. "value_out_of_range" \in Refusals /\ IntRelativeMax \in Int
  BY Powers, DomainAssumption DEF Refusals
<1>3. CASE rebuilt > IntRelativeMax \/ rebuilt <= previous
  <2>1. intRelativeResult(previous, at + n, rebuilt) = Refuses("value_out_of_range", at + n)
    BY <1>3 DEF intRelativeResult
  <2> QED BY <2>1, <1>1, <1>2, RefusesSound
<1>4. CASE ~(rebuilt > IntRelativeMax \/ rebuilt <= previous)
  <2> DEFINE code == IntRelativeCode(previous, rebuilt)
  <2>1. intRelativeResult(previous, at + n, rebuilt) = Accepts(at + n, code, rebuilt)
    BY <1>4 DEF intRelativeResult
  <2>2. code = BitsAt(at, n)
    BY <1>2, <1>4
  <2> HIDE DEF code
  <2> QED BY <2>1, <2>2, AcceptsSound
<1> QED BY <1>3, <1>4

(***************************************************************************)
(* The largest difference a bucket takes is a number.                      *)
(***************************************************************************)
LEMMA BoundedMaxType == BoundedMax \in Nat
<1>1. CASE Buckets = <<>>
  BY <1>1 DEF BoundedMax
<1>2. CASE Buckets # <<>>
  <2>1. Len(Buckets) \in 1..Len(Buckets)
    BY <1>2, BucketsAssumption
  <2>2. Buckets[Len(Buckets)].max \in Nat
    BY <2>1, BucketFacts
  <2> QED BY <1>2, <2>2 DEF BoundedMax
<1> QED BY <1>1, <1>2

(***************************************************************************)
(* The flags of int_relative: zeros, and zeros up to one that is set.      *)
(***************************************************************************)
LEMMA ClearFlags ==
  ASSUME data \in Seq(Bit), NEW at \in Nat, NEW n \in Nat, at + n <= Len(data),
         \A i \in 1..n : data[at+i] # 1
  PROVE  BitsAt(at, n) = Zeros(n)
<1>1. Zeros(n) \in Seq(Bit) /\ Len(Zeros(n)) = n /\ \A i \in 1..n : Zeros(n)[i] = 0
  BY DEF Zeros, Bit
<1>2. ASSUME NEW i \in 1..n PROVE data[at+i] = 0
  <2>1. at + i \in 1..Len(data)
    OBVIOUS
  <2>2. data[at+i] \in Bit
    BY <2>1, ElementOfSeq
  <2> QED BY <2>2 DEF Bit
<1> DEFINE z == Zeros(n)
<1>3. z \in Seq(Bit) /\ Len(z) = n /\ \A i \in 1..n : z[i] = data[at+i]
  BY <1>1, <1>2
<1> HIDE DEF z
<1> QED BY <1>3, PieceIs DEF z

(***************************************************************************)
(* The flags up to the first that is set are the code of its tier.         *)
(***************************************************************************)
LEMMA FirstFlag ==
  ASSUME data \in Seq(Bit), NEW at \in Nat, NEW n \in Nat, at + n + 1 <= Len(data),
         \A i \in 1..n : data[at+i] # 1, data[at+n+1] = 1
  PROVE  /\ BitsAt(at, n + 1) = Zeros(n) \o <<1>>
         /\ n = 0 => BitsAt(at, n + 1) = <<1>>
<1> DEFINE one == <<1>>
<1>1. BitsAt(at, n) = Zeros(n)
  <2>1. at + n <= Len(data)
    OBVIOUS
  <2> QED BY <2>1, ClearFlags
<1>2. one \in Seq(Bit) /\ Len(one) = 1 /\ one[1] = 1
  BY DEF Bit
<1> DEFINE k == at + n
<1>3. k \in Nat /\ k + 1 <= Len(data) /\ 1 \in Nat /\ at + n + 1 <= Len(data) /\ k + 1 = at + n + 1
  OBVIOUS
<1> HIDE DEF one, k
<1>4. BitsAt(k, 1) = one
  <2>1. \A i \in 1..1 : one[i] = data[k+i]
    BY <1>2, <1>3
  <2> QED BY <2>1, <1>2, <1>3, PieceIs
<1>5. BitsAt(at, n) \o BitsAt(k, 1) = BitsAt(at, n + 1)
  BY <1>3, PieceJoin DEF k
<1>6. n = 0 => BitsAt(at, n + 1) = BitsAt(k, 1)
  BY DEF k
<1> QED BY <1>1, <1>4, <1>5, <1>6 DEF one

(***************************************************************************)
(* A bucket: the offset is in the range of the bucket, so the difference   *)
(* is in the bucket and its code is the flags and the offset.              *)
(***************************************************************************)
LEMMA BoundedSound ==
  ASSUME NEW at, Position(at), NEW previous \in Int, NEW b \in 1..Len(Buckets),
         at + b + 1 <= Len(data), BitsAt(at, b + 1) = Zeros(b) \o << 1 >>
  PROVE  Sound(Bounded(previous, at + (b + 1), Buckets[b]), at)
<1> DEFINE k == at + (b + 1)
           lo == Buckets[b].min
           hi == Buckets[b].max
           span == Span(Buckets[b])
           w == BitsRequired(span)
           offset == Ranged(k, span)
           rebuilt == previous + lo + offset.value
<1>1. /\ at \in Nat /\ Len(data) \in Nat /\ data \in Seq(Bit) /\ b \in Nat /\ b + 1 \in Nat
      /\ k \in at..Len(data) /\ k \in Nat /\ Position(k)
  BY BucketFacts DEF Position
<1>2. lo \in Nat /\ hi \in Nat /\ 2 <= lo /\ lo <= hi /\ span \in Nat /\ span = hi - lo
  BY BucketFacts DEF Span
<1>3. w \in Nat
  BY <1>2, BitsRequiredFits
<1>4. /\ Sound(offset, k)
      /\ Accepted(offset) => /\ k + w <= Len(data) /\ offset.at = k + w
                             /\ offset.value \in 0..span
                             /\ offset.code = ToBits(offset.value, w)
  BY <1>1, <1>2, RangedSound
<1>5. Bounded(previous, k, Buckets[b]) =
        IF ~Accepted(offset) THEN offset ELSE intRelativeResult(previous, offset.at, rebuilt)
  BY DEF Bounded
<1>6. CASE ~Accepted(offset)
  <2>1. Bounded(previous, k, Buckets[b]) = offset
    BY <1>5, <1>6
  <2>2. offset.at \in k..Len(data) /\ offset.reason \in Refusals \cup {None} /\ offset.code = <<>>
    BY <1>4, <1>6 DEF Sound
  <2> HIDE DEF offset, k
  <2>3. offset.at \in at..Len(data)
    BY <2>2, <1>1
  <2>4. Sound(offset, at)
    BY <2>2, <2>3, <1>6 DEF Sound
  <2> QED BY <2>1, <2>4 DEF k
<1>7. CASE Accepted(offset)
  <2>1. Bounded(previous, k, Buckets[b]) = intRelativeResult(previous, k + w, rebuilt)
    BY <1>4, <1>5, <1>7
  <2>2. offset.code = BitsAt(k, w)
    <3>1. offset.code = BitsAt(k, offset.at - k) /\ offset.at = k + w
      BY <1>4, <1>7 DEF Sound
    <3>2. (k + w) - k = w
      BY <1>1, <1>3
    <3> QED BY <3>1, <3>2
  <2> DEFINE v == offset.value
             n == (b + 1) + w
  <2>3. v \in 0..span /\ offset.code = ToBits(v, w) /\ k + w <= Len(data)
    BY <1>4, <1>7
  <2> HIDE DEF offset, w, span, lo, hi, v
  <2>4. /\ rebuilt \in Int /\ previous < rebuilt /\ rebuilt - previous \in lo..hi
        /\ rebuilt - previous - lo = v
    <3>1. rebuilt = previous + lo + v
      BY DEF v
    <3>2. /\ previous \in Int /\ lo \in Nat /\ hi \in Nat /\ 2 <= lo
          /\ span = hi - lo /\ v \in 0..span
      BY <1>2, <2>3
    <3> HIDE DEF rebuilt
    <3> QED BY ONLY <3>1, <3>2
  <2>5. IntRelativeCode(previous, rebuilt) = Zeros(b) \o <<1>> \o ToBits(v, w)
    <3>1. rebuilt - previous \in Buckets[b].min..Buckets[b].max =>
            IntRelativeCode(previous, rebuilt) =
              Zeros(b) \o <<1>> \o ToBits(rebuilt - previous - Buckets[b].min,
                                          BitsRequired(Span(Buckets[b])))
      BY <2>4, TierCodes
    <3> HIDE DEF rebuilt
    <3> QED BY <3>1, <2>4 DEF lo, hi, w, span
  <2> HIDE DEF rebuilt
  <2>6. IntRelativeCode(previous, rebuilt) = BitsAt(at, b + 1) \o BitsAt(k, w)
    BY <2>2, <2>3, <2>5
  <2>7. /\ data \in Seq(Bit) /\ at \in Nat /\ b + 1 \in Nat /\ w \in Nat
        /\ at + (b + 1) + w <= Len(data)
    BY <1>1, <1>3, <2>3
  <2>8. BitsAt(at, b + 1) \o BitsAt(k, w) = BitsAt(at, n)
    BY ONLY <2>7, PieceJoin DEF k, n
  <2>9. n \in Nat /\ at + n <= Len(data) /\ k + w = at + n
    BY <2>7
  <2>10. IntRelativeCode(previous, rebuilt) = BitsAt(at, n)
    BY <2>6, <2>8
  <2> HIDE DEF n
  <2>11. Sound(intRelativeResult(previous, at + n, rebuilt), at)
    BY <2>4, <2>9, <2>10, ResultSound
  <2> QED BY <2>1, <2>9, <2>11
<1> QED BY <1>6, <1>7

(***************************************************************************)
(* The last tier: a value a bucket or the first tier takes is refused, so  *)
(* the code of one that is not is the flags and the value.                 *)
(***************************************************************************)
LEMMA AbsoluteSound ==
  ASSUME NEW at, Position(at), NEW previous \in Int, NEW flags,
         flags = Len(Buckets) + 1, at + flags <= Len(data),
         BitsAt(at, flags) = Zeros(flags)
  PROVE  Sound(Absolute(previous, at + flags), at)
<1> DEFINE k == at + flags
           w == AbsoluteBits
           group == Field(k, w)
           v == group.value
<1>1. /\ at \in Nat /\ Len(data) \in Nat /\ data \in Seq(Bit) /\ flags \in Nat
      /\ k \in at..Len(data) /\ k \in Nat /\ Position(k)
  BY BucketFacts DEF Position
<1>2. w \in Nat
  BY DomainAssumption
<1>3. /\ Sound(group, k)
      /\ Accepted(group) => /\ k + w <= Len(data) /\ group.at = k + w
                            /\ v = FromBits(BitsAt(k, w))
  BY <1>1, <1>2, FieldSound
<1>4. Absolute(previous, k) =
        IF ~Accepted(group) THEN group
        ELSE IF v <= IntRelativeMax /\ v > previous /\ v - previous <= BoundedMax
          THEN Refuses("non_canonical", group.at)
          ELSE intRelativeResult(previous, group.at, v)
  BY DEF Absolute
<1>5. CASE ~Accepted(group)
  <2>1. Absolute(previous, k) = group
    BY <1>4, <1>5
  <2>2. group.at \in k..Len(data) /\ group.reason \in Refusals \cup {None} /\ group.code = <<>>
    BY <1>3, <1>5 DEF Sound
  <2> HIDE DEF group, k
  <2>3. group.at \in at..Len(data)
    BY <2>2, <1>1
  <2>4. Sound(group, at)
    BY <2>2, <2>3, <1>5 DEF Sound
  <2> QED BY <2>1, <2>4 DEF k
<1>6. CASE Accepted(group)
  <2>1. k + w <= Len(data) /\ group.at = k + w
    BY <1>3, <1>6
  <2>2. BitsAt(k, w) \in Seq(Bit) /\ Len(BitsAt(k, w)) = w
    BY <2>1, <1>1, <1>2, PieceFacts
  <2>3. FromBits(BitsAt(k, w)) \in 0..2^w-1 /\ ToBits(FromBits(BitsAt(k, w)), w) = BitsAt(k, w)
    BY <2>2, FieldOfValue
  <2>4. v \in Int /\ ToBits(v, w) = BitsAt(k, w)
    <3>1. 2^w \in Int
      BY <1>2, Powers
    <3> QED BY <3>1, <2>3, <1>3, <1>6
  <2> HIDE DEF group, v
  <2>5. CASE v <= IntRelativeMax /\ v > previous /\ v - previous <= BoundedMax
    <3>1. Absolute(previous, k) = Refuses("non_canonical", k + w)
      BY <1>4, <1>6, <2>1, <2>5
    <3>2. k + w \in at..Len(data) /\ "non_canonical" \in Refusals
      BY <1>1, <1>2, <2>1 DEF Refusals
    <3> HIDE DEF k, w
    <3> QED BY <3>1, <3>2, RefusesSound DEF k
  <2>6. CASE ~(v <= IntRelativeMax /\ v > previous /\ v - previous <= BoundedMax)
    <3> DEFINE n == flags + w
    <3>1. Absolute(previous, k) = intRelativeResult(previous, k + w, v)
      BY <1>4, <1>6, <2>1, <2>6
    <3>2. /\ data \in Seq(Bit) /\ at \in Nat /\ flags \in Nat /\ w \in Nat
          /\ at + flags + w <= Len(data)
      BY <1>1, <1>2, <2>1
    <3>3. BitsAt(at, flags) \o BitsAt(k, w) = BitsAt(at, n)
      BY ONLY <3>2, PieceJoin DEF k, n
    <3>4. n \in Nat /\ at + n <= Len(data) /\ k + w = at + n
      BY <3>2
    <3>5. ASSUME v <= IntRelativeMax, previous < v
          PROVE  IntRelativeCode(previous, v) = BitsAt(at, n)
      <4>1. v - previous > BoundedMax
        BY <2>4, <2>6, <3>5, BoundedMaxType
      <4>2. IntRelativeCode(previous, v) = Zeros(flags) \o ToBits(v, w)
        BY <4>1, <3>5, <2>4, TierCodes
      <4> QED BY <4>2, <2>4, <3>3
    <3> HIDE DEF n
    <3>6. Sound(intRelativeResult(previous, at + n, v), at)
      BY <2>4, <3>4, <3>5, ResultSound
    <3> QED BY <3>1, <3>4, <3>6
  <2> QED BY <2>5, <2>6
<1> QED BY <1>5, <1>6

(***************************************************************************)
(* int_relative: the flags before the first that is set are clear, and the *)
(* tier it opens is read with the bits that follow.                        *)
(***************************************************************************)
LEMMA IntRelativeSound ==
  ASSUME NEW at, Position(at), NEW previous \in Int
  PROVE  Sound(IntRelative(at, previous), at)
<1> DEFINE N == Len(data)
           flags == Len(Buckets) + 1
           set == {i \in 1..flags : at + i <= N /\ data[at+i] = 1}
           first == CHOOSE i \in set : \A j \in set : i <= j
<1>1. at \in Nat /\ N \in Nat /\ N \in at..N /\ data \in Seq(Bit) /\ flags \in Nat
  BY BucketFacts DEF Position
<1>2. IntRelative(at, previous) =
        IF set = {}
          THEN IF N - at < flags THEN Refuses("past_end", N) ELSE Absolute(previous, at + flags)
          ELSE IF first = 1 THEN intRelativeResult(previous, at + 1, previous + 1)
                            ELSE Bounded(previous, at + first, Buckets[first-1])
  BY DEF IntRelative, numBits, Remaining
<1>3. "past_end" \in Refusals
  BY DEF Refusals
<1> HIDE DEF first
<1>4. CASE set = {} /\ N - at < flags
  <2>1. IntRelative(at, previous) = Refuses("past_end", N)
    BY <1>2, <1>4
  <2> HIDE DEF N
  <2> QED BY <2>1, <1>1, <1>3, RefusesSound DEF N
<1>5. CASE set = {} /\ ~(N - at < flags)
  <2>1. IntRelative(at, previous) = Absolute(previous, at + flags)
    BY <1>2, <1>5
  <2>2. at + flags <= N
    BY <1>1, <1>5
  <2>3. \A i \in 1..flags : data[at+i] # 1
    <3> SUFFICES ASSUME NEW i \in 1..flags, data[at+i] = 1 PROVE FALSE
      OBVIOUS
    <3>1. at + i <= N
      BY <1>1, <2>2
    <3>2. i \in set
      BY <3>1
    <3> QED BY <3>2, <1>5
  <2>4. BitsAt(at, flags) = Zeros(flags)
    BY <1>1, <2>2, <2>3, ClearFlags
  <2> HIDE DEF set
  <2> QED BY <2>1, <2>2, <2>4, AbsoluteSound
<1>6. CASE set # {}
  <2>1. set \subseteq Nat
    BY <1>1
  <2>2. \E i \in set : \A j \in set : i <= j
    BY <2>1, <1>6, Least
  <2>3. first \in set /\ \A j \in set : first <= j
    BY <2>2, Zenon DEF first
  <2> DEFINE n == first - 1
  <2>4. /\ first \in 1..flags /\ at + first <= N /\ data[at+first] = 1
        /\ n \in Nat /\ n + 1 = first /\ at + n + 1 = at + first /\ at + n + 1 <= N
    BY <2>3, <1>1
  <2>5. \A i \in 1..n : data[at+i] # 1
    <3> SUFFICES ASSUME NEW i \in 1..n, data[at+i] = 1 PROVE FALSE
      OBVIOUS
    <3>1. i \in 1..flags /\ at + i <= N /\ i < first
      BY <1>1, <2>4
    <3>2. i \in set
      BY <3>1
    <3>3. first <= i
      BY <3>2, <2>3
    <3> QED BY <3>1, <3>3, <2>4
  <2> HIDE DEF set, n
  <2>6. /\ BitsAt(at, n + 1) = Zeros(n) \o <<1>>
        /\ n = 0 => BitsAt(at, n + 1) = <<1>>
    BY <1>1, <2>4, <2>5, FirstFlag
  <2>7. CASE first = 1
    <3> DEFINE rebuilt == previous + 1
    <3>1. IntRelative(at, previous) = intRelativeResult(previous, at + 1, rebuilt)
      BY <1>2, <1>6, <2>7
    <3>2. n = 0 /\ n + 1 = 1 /\ rebuilt \in Int /\ previous < rebuilt /\ rebuilt - previous = 1
      BY <2>4, <2>7
    <3> HIDE DEF rebuilt
    <3>3. IntRelativeCode(previous, rebuilt) = <<1>>
      BY <3>2, TierCodes
    <3>4. IntRelativeCode(previous, rebuilt) = BitsAt(at, 1) /\ at + 1 <= N
      BY <3>2, <3>3, <2>4, <2>6, <2>7
    <3>5. Sound(intRelativeResult(previous, at + 1, rebuilt), at)
      BY <3>2, <3>4, ResultSound
    <3> QED BY <3>1, <3>5
  <2>8. CASE first # 1
    <3>1. IntRelative(at, previous) = Bounded(previous, at + (n + 1), Buckets[n])
      BY <1>2, <1>6, <2>4, <2>8 DEF n
    <3>2. n \in 1..Len(Buckets)
      BY <2>4, <2>8, BucketFacts
    <3> QED BY <3>1, <3>2, <2>4, <2>6, BoundedSound
  <2> QED BY <2>7, <2>8
<1> QED BY <1>4, <1>5, <1>6

(***************************************************************************)
(* The end: what remains of a packet of whole bytes, when it is less than  *)
(* a byte, is what a writer pads with.                                     *)
(***************************************************************************)
LEMMA EndSound ==
  ASSUME NEW at, Position(at)
  PROVE  /\ Sound(End(at), at)
         /\ Accepted(End(at)) => End(at).at = Len(data)
<1> DEFINE N == Len(data)
           n == N - at
<1>1. at \in Nat /\ N \in Nat /\ N \in at..N /\ n \in Nat /\ at + n = N /\ at \in at..N /\ data \in Seq(Bit)
  BY DEF Position
<1>2. "trailing_data" \in Refusals /\ "nonzero_padding" \in Refusals
  BY DEF Refusals
<1>3. End(at) = IF n >= ByteBits THEN Refuses("trailing_data", at)
                ELSE IF ~AllZero(BitsAt(at, n)) THEN Refuses("nonzero_padding", N)
                ELSE Accepts(N, Zeros(AlignPad(at)), 0)
  BY DEF End, Remaining, numBits
<1> HIDE DEF n
<1>4. CASE n >= ByteBits
  <2>1. End(at) = Refuses("trailing_data", at)
    BY <1>3, <1>4
  <2> QED BY <2>1, <1>1, <1>2, RefusesSound
<1>5. CASE ~(n >= ByteBits) /\ ~AllZero(BitsAt(at, n))
  <2>1. End(at) = Refuses("nonzero_padding", N)
    BY <1>3, <1>5
  <2> QED BY <2>1, <1>1, <1>2, RefusesSound
<1>6. CASE ~(n >= ByteBits) /\ AllZero(BitsAt(at, n))
  <2>1. End(at) = Accepts(at + n, Zeros(AlignPad(at)), 0)
    BY <1>1, <1>3, <1>6
  <2>2. AlignPad(at) = n
    <3> DEFINE m == N \div ByteBits
               k == (at + ByteBits - 1) \div ByteBits
               p == AlignPad(at)
    <3>1. N % ByteBits = 0
      BY DEF Position
    <3>2. m \in Nat /\ N = m * ByteBits
      BY <3>1, <1>1, InBytes
    <3>3. k \in Nat /\ RoundUp(at) = k * ByteBits /\ p \in 0..ByteBits-1 /\ RoundUp(at) = at + p
      BY <1>1, RoundUpBytes DEF RoundUp
    <3>4. RoundUp(at) <= m * ByteBits
      BY <1>1, <3>2, RoundUpLeast
    <3> HIDE DEF m, k, p, N
    <3>5. k <= m
      <4>1. k * ByteBits <= m * ByteBits
        BY <3>3, <3>4
      <4> QED BY <4>1, <3>2, <3>3, Products, GeometryAssumption
    <3>6. CASE k < m
      <4>1. (k + 1) * ByteBits <= m * ByteBits
        BY <3>6, <3>2, <3>3, Products, GeometryAssumption
      <4>2. (k + 1) * ByteBits = k * ByteBits + ByteBits
        BY <3>3, GeometryAssumption
      <4>3. at + p + ByteBits <= at + n
        BY <4>1, <4>2, <3>2, <3>3, <1>1
      <4> QED BY <4>3, <3>3, <1>1, <1>6, GeometryAssumption
    <3>7. CASE k = m
      BY <3>7, <3>2, <3>3, <1>1, GeometryAssumption DEF p
    <3> QED BY <3>5, <3>6, <3>7, <3>2, <3>3
  <2>3. Zeros(n) = BitsAt(at, n)
    BY <1>1, <1>6, ZeroPiece
  <2> DEFINE code == Zeros(AlignPad(at))
  <2>4. code = BitsAt(at, n)
    BY <2>2, <2>3
  <2> HIDE DEF code
  <2>5. Sound(Accepts(at + n, code, 0), at) /\ Accepts(at + n, code, 0).at = at + n
    BY <1>1, <2>4, AcceptsSound DEF Accepts
  <2> QED BY <2>1, <2>5, <1>1 DEF code
<1> QED BY <1>4, <1>5, <1>6

-----------------------------------------------------------------------------
(***************************************************************************)
(* The other way round: what a writer writes is read.  A code is carried   *)
(* at a position when the packet, as far as it goes, has the bits of it    *)
(* there; a decoder takes it when it accepts the value of a code that is   *)
(* all there, and finds the end of the packet in one that is cut.          *)
(***************************************************************************)
Carries(at, code) == \A i \in 1..Len(code) : at + i <= Len(data) => data[at+i] = code[i]

Takes(o, at, code, value) ==
  IF at + Len(code) <= Len(data) THEN o = Accepts(at + Len(code), code, value)
                                 ELSE o.reason = "past_end"

(***************************************************************************)
(* A code that is all there is the piece of its length.                    *)
(***************************************************************************)
LEMMA CarriedPiece ==
  ASSUME NEW at, Position(at), NEW code \in Seq(Bit), Carries(at, code),
         at + Len(code) <= Len(data)
  PROVE  BitsAt(at, Len(code)) = code
<1> DEFINE n == Len(code)
<1>1. data \in Seq(Bit) /\ at \in Nat /\ n \in Nat /\ at + n <= Len(data) /\ Len(data) \in Nat
  BY DEF Position
<1>2. ASSUME NEW i \in 1..n PROVE code[i] = data[at+i]
  <2>1. at + i <= Len(data)
    BY <1>1
  <2> QED BY <2>1 DEF Carries
<1> HIDE DEF n
<1>3. Len(code) = n
  BY DEF n
<1> QED BY <1>1, <1>2, <1>3, PieceIs DEF n

(***************************************************************************)
(* A code of two parts is carried in two parts.                            *)
(***************************************************************************)
LEMMA CarriesParts ==
  ASSUME NEW at \in Nat, NEW c \in Seq(Bit), NEW d \in Seq(Bit), Carries(at, c \o d)
  PROVE  /\ Carries(at, c) /\ Carries(at + Len(c), d)
         /\ Len(c \o d) = Len(c) + Len(d) /\ c \o d \in Seq(Bit)
<1> DEFINE m == Len(c)
           n == Len(d)
           s == c \o d
<1>1. /\ s \in Seq(Bit) /\ Len(s) = m + n /\ m \in Nat /\ n \in Nat
      /\ \A i \in 1..m + n : s[i] = IF i <= m THEN c[i] ELSE d[i - m]
  BY ConcatProperties
<1>2. \A i \in 1..m + n : at + i <= Len(data) => data[at+i] = s[i]
  BY <1>1 DEF Carries
<1> HIDE DEF s
<1>3. ASSUME NEW i \in 1..m, at + i <= Len(data) PROVE data[at+i] = c[i]
  <2>1. i \in 1..m + n /\ i <= m
    BY <1>1
  <2> QED BY <2>1, <1>1, <1>2, <1>3
<1>4. ASSUME NEW i \in 1..n, (at + m) + i <= Len(data) PROVE data[(at+m)+i] = d[i]
  <2> DEFINE j == m + i
  <2>1. j \in 1..m + n /\ ~(j <= m) /\ j - m = i /\ at + j = (at + m) + i
    BY <1>1
  <2>2. s[j] = d[j - m]
    BY <2>1, <1>1
  <2> HIDE DEF j
  <2>3. data[at+j] = s[j]
    BY <2>1, <1>2, <1>4
  <2> QED BY <2>1, <2>2, <2>3
<1> QED BY <1>1, <1>3, <1>4 DEF Carries, s

(***************************************************************************)
(* A raw field is read.                                                    *)
(***************************************************************************)
LEMMA FieldReads ==
  ASSUME NEW at, Position(at), NEW n \in Nat, NEW v \in 0..2^n-1, Carries(at, ToBits(v, n))
  PROVE  Takes(Field(at, n), at, ToBits(v, n), v)
<1> DEFINE code == ToBits(v, n)
<1>1. code \in Seq(Bit) /\ Len(code) = n
  <2>1. v \in Int
    BY Powers
  <2> QED BY <2>1, FieldType
<1>2. FromBits(code) = v
  BY ValueOfField
<1> HIDE DEF code
<1>3. CASE at + n > Len(data)
  <2>1. Field(at, n).reason = "past_end"
    BY <1>3 DEF Field, numBits, Refuses
  <2>2. ~(at + Len(code) <= Len(data))
    BY <1>1, <1>3 DEF Position
  <2> QED BY <2>1, <2>2 DEF Takes, code
<1>4. CASE ~(at + n > Len(data))
  <2>1. at + Len(code) <= Len(data)
    BY <1>1, <1>4 DEF Position
  <2>2. BitsAt(at, n) = code
    BY <1>1, <2>1, CarriedPiece DEF code
  <2>3. Field(at, n) = Accepts(at + n, code, v)
    BY <1>2, <1>4, <2>2 DEF Field, numBits
  <2> QED BY <1>1, <2>1, <2>3 DEF Takes, code
<1> QED BY <1>3, <1>4

(***************************************************************************)
(* A ranged integer is read.                                               *)
(***************************************************************************)
LEMMA RangedReads ==
  ASSUME NEW at, Position(at), NEW span \in Nat, NEW v \in 0..span,
         Carries(at, ToBits(v, BitsRequired(span)))
  PROVE  Takes(Ranged(at, span), at, ToBits(v, BitsRequired(span)), v)
<1> DEFINE n == BitsRequired(span)
           code == ToBits(v, n)
<1>1. n \in Nat /\ span < 2^n
  BY BitsRequiredFits
<1>2. code \in Seq(Bit) /\ Len(code) = n
  BY <1>1, FieldType
<1>3. FromBits(code) = v
  <2>1. 2^n \in Nat
    BY <1>1, Powers
  <2>2. v \in 0..2^n-1
    BY <2>1, <1>1
  <2> QED BY <2>2, <1>1, ValueOfField
<1>4. Ranged(at, span) = IF at + n > Len(data) THEN Refuses("past_end", at)
                         ELSE IF FromBits(BitsAt(at, n)) > span
                           THEN Refuses("value_out_of_range", at + n)
                         ELSE Accepts(at + n, ToBits(FromBits(BitsAt(at, n)), n),
                                      FromBits(BitsAt(at, n)))
  BY DEF Ranged, numBits
<1>5. code = ToBits(v, n)
  OBVIOUS
<1>6. Carries(at, code)
  OBVIOUS
<1> HIDE DEF code, n
<1>7. CASE at + n > Len(data)
  <2>1. Ranged(at, span).reason = "past_end"
    BY <1>4, <1>7 DEF Refuses
  <2>2. ~(at + Len(code) <= Len(data))
    BY <1>1, <1>2, <1>7 DEF Position
  <2> QED BY <2>1, <2>2 DEF Takes, code, n
<1>8. CASE ~(at + n > Len(data))
  <2>1. at + Len(code) <= Len(data)
    BY <1>1, <1>2, <1>8 DEF Position
  <2>2. BitsAt(at, n) = code
    BY <1>2, <1>6, <2>1, CarriedPiece
  <2>3. ~(v > span)
    OBVIOUS
  <2>4. Ranged(at, span) = Accepts(at + n, code, v)
    BY <1>3, <1>4, <1>5, <1>8, <2>2, <2>3
  <2> QED BY <1>2, <2>1, <2>4 DEF Takes, code, n
<1> QED BY <1>7, <1>8

(***************************************************************************)
(* The zeros of an align are read.                                         *)
(***************************************************************************)
LEMMA AlignReads ==
  ASSUME NEW at, Position(at), Carries(at, Zeros(AlignPad(at)))
  PROVE  Takes(Align(at), at, Zeros(AlignPad(at)), 0)
<1> DEFINE n == AlignPad(at)
           code == Zeros(n)
<1>1. at \in Nat /\ Len(data) \in Nat
  BY DEF Position
<1>2. n \in Nat
  BY <1>1, RoundUpBytes, GeometryAssumption
<1>3. Align(at) = IF at + n > Len(data) THEN Refuses("past_end", at)
                  ELSE IF ~AllZero(BitsAt(at, n)) THEN Refuses("nonzero_padding", at + n)
                  ELSE Accepts(at + n, Zeros(n), 0)
  BY DEF Align, numBits
<1>4. code \in Seq(Bit) /\ Len(code) = n /\ AllZero(code) /\ code = Zeros(n)
  <2> HIDE DEF n
  <2> QED BY <1>2 DEF Zeros, Bit, AllZero
<1>5. Carries(at, code)
  OBVIOUS
<1> HIDE DEF code, n
<1>6. CASE at + n > Len(data)
  <2>1. Align(at).reason = "past_end"
    BY <1>3, <1>6 DEF Refuses
  <2>2. ~(at + Len(code) <= Len(data))
    BY <1>1, <1>2, <1>4, <1>6
  <2> QED BY <2>1, <2>2 DEF Takes, code, n
<1>7. CASE ~(at + n > Len(data))
  <2>1. at + Len(code) <= Len(data)
    BY <1>1, <1>2, <1>4, <1>7
  <2>2. BitsAt(at, n) = code
    BY <1>4, <1>5, <2>1, CarriedPiece
  <2>3. Align(at) = Accepts(at + n, code, 0)
    BY <1>3, <1>4, <1>7, <2>2
  <2> QED BY <1>4, <2>1, <2>3 DEF Takes, code, n
<1> QED BY <1>6, <1>7

(***************************************************************************)
(* The bits of a run of bytes, low bit first.                              *)
(***************************************************************************)
Octet == 0..2^ByteBits-1

RunOf(v) == [b \in 1..Len(v) * ByteBits |->
               ToBits(v[((b-1) \div ByteBits) + 1], ByteBits)[((b-1) % ByteBits) + 1]]

(***************************************************************************)
(* Where the bits of a byte are in a run.                                  *)
(***************************************************************************)
LEMMA InRun ==
  ASSUME NEW n \in Nat, NEW b \in 1..n * ByteBits
  PROVE  /\ (b-1) \div ByteBits \in 0..n-1 /\ (b-1) % ByteBits \in 0..ByteBits-1
         /\ b = ((b-1) \div ByteBits) * ByteBits + ((b-1) % ByteBits) + 1
<1> DEFINE p == n * ByteBits
           c == b - 1
           q == c \div ByteBits
           r == c % ByteBits
<1>1. p \in Int /\ b \in 1..p
  BY Products, GeometryAssumption
<1> HIDE DEF p
<1>2. c \in Nat /\ c < p /\ b = c + 1
  BY <1>1
<1> HIDE DEF c
<1>3. q \in Nat /\ r \in 0..ByteBits-1 /\ c = q * ByteBits + r
  BY <1>2, InBytes
<1> DEFINE k == q * ByteBits
<1>4. k \in Int
  BY <1>3, Products, GeometryAssumption
<1> HIDE DEF q, r
<1>5. k < p
  <2> HIDE DEF k
  <2> QED BY <1>1, <1>2, <1>3, <1>4, GeometryAssumption DEF k
<1>6. q < n
  BY <1>3, <1>5, Products, GeometryAssumption DEF p, k
<1>7. q \in 0..n-1
  BY <1>3, <1>6
<1> HIDE DEF k
<1>8. b = k + r + 1
  BY <1>2, <1>3, <1>4, GeometryAssumption DEF k
<1> QED BY <1>3, <1>7, <1>8 DEF c, q, r, k

(***************************************************************************)
(* The other way: the bit j of the byte i.                                 *)
(***************************************************************************)
LEMMA OfRun ==
  ASSUME NEW n \in Nat, NEW i \in 1..n, NEW j \in 1..ByteBits
  PROVE  LET b == (i-1) * ByteBits + j
         IN  /\ b \in 1..n * ByteBits
             /\ (b-1) \div ByteBits = i - 1 /\ (b-1) % ByteBits = j - 1
<1> DEFINE k == (i-1) * ByteBits
           b == k + j
           p == n * ByteBits
           h == i - 1
           s == j - 1
<1>1. ByteBits \in Nat \ {0} /\ h \in Nat /\ s \in 0..ByteBits-1 /\ h + 1 <= n
  BY GeometryAssumption
<1>2. k \in Int /\ p \in Int /\ 0 * ByteBits <= k /\ (h + 1) * ByteBits <= p
  BY <1>1, Products
<1>3. (h + 1) * ByteBits = k + ByteBits
  BY <1>1
<1>4. (h * ByteBits + s) % ByteBits = s /\ (h * ByteBits + s) \div ByteBits = h
  <2> HIDE DEF h, s
  <2> QED BY <1>1, DivModUnique
<1>5. 0 * ByteBits = 0
  BY <1>1
<1> HIDE DEF k, p
<1>6. b \in 1..p
  BY <1>1, <1>2, <1>3, <1>5
<1>7. b - 1 = h * ByteBits + s
  BY <1>1, <1>2 DEF k
<1> HIDE DEF b, h, s
<1>8. (b-1) \div ByteBits = h /\ (b-1) % ByteBits = s
  BY <1>4, <1>7
<1> QED BY <1>6, <1>8 DEF b, h, s, k, p

(***************************************************************************)
(* A run has the bits of its bytes, one byte after the other.              *)
(***************************************************************************)
LEMMA RunType ==
  ASSUME NEW v \in Seq(Octet)
  PROVE  /\ RunOf(v) \in Seq(Bit) /\ Len(RunOf(v)) = Len(v) * ByteBits
         /\ Len(v) * ByteBits \in Nat
         /\ \A i \in 1..Len(v), j \in 1..ByteBits :
              RunOf(v)[(i-1) * ByteBits + j] = ToBits(v[i], ByteBits)[j]
<1> DEFINE n == Len(v)
           p == n * ByteBits
           s == RunOf(v)
<1>1. n \in Nat /\ \A i \in 1..n : v[i] \in Octet
  BY ElementsOf
<1>2. p \in Nat
  BY <1>1, Products, GeometryAssumption
<1>3. \A i \in 1..n : ToBits(v[i], ByteBits) \in Seq(Bit) /\ Len(ToBits(v[i], ByteBits)) = ByteBits
  <2> SUFFICES ASSUME NEW i \in 1..n
               PROVE  ToBits(v[i], ByteBits) \in Seq(Bit) /\ Len(ToBits(v[i], ByteBits)) = ByteBits
    OBVIOUS
  <2>1. v[i] \in Int /\ ByteBits \in Nat
    BY <1>1, Powers, GeometryAssumption DEF Octet
  <2> QED BY <2>1, FieldType
<1>4. s = [b \in 1..p |-> ToBits(v[((b-1) \div ByteBits) + 1], ByteBits)[((b-1) % ByteBits) + 1]]
  BY DEF RunOf
<1> HIDE DEF s, p, n
<1>5. ASSUME NEW b \in 1..p PROVE s[b] \in Bit
  <2> DEFINE i == ((b-1) \div ByteBits) + 1
             j == ((b-1) % ByteBits) + 1
  <2>1. i \in 1..n /\ j \in 1..ByteBits
    <3>1. (b-1) \div ByteBits \in 0..n-1 /\ (b-1) % ByteBits \in 0..ByteBits-1
      BY <1>1, <1>5, InRun DEF p
    <3> QED BY <3>1, <1>1, GeometryAssumption
  <2>2. s[b] = ToBits(v[i], ByteBits)[j]
    BY <1>4, <1>5
  <2> HIDE DEF i, j
  <2> DEFINE t == ToBits(v[i], ByteBits)
  <2>3. t \in Seq(Bit) /\ Len(t) = ByteBits
    BY <1>3, <2>1
  <2> HIDE DEF t
  <2>4. t[j] \in Bit
    BY <2>1, <2>3, ElementOfSeq
  <2> QED BY <2>2, <2>4 DEF t
<1>6. s \in Seq(Bit) /\ Len(s) = p
  <2>1. s \in [1..p -> Bit]
    BY <1>4, <1>5
  <2> QED BY <2>1, <1>2, SeqDef, LenProperties
<1>7. ASSUME NEW i \in 1..n, NEW j \in 1..ByteBits
      PROVE  s[(i-1) * ByteBits + j] = ToBits(v[i], ByteBits)[j]
  <2> DEFINE b == (i-1) * ByteBits + j
  <2>1. b \in 1..p /\ (b-1) \div ByteBits = i - 1 /\ (b-1) % ByteBits = j - 1
    BY <1>1, <1>7, OfRun DEF p
  <2>2. (i - 1) + 1 = i /\ (j - 1) + 1 = j
    OBVIOUS
  <2> HIDE DEF b
  <2>3. s[b] = ToBits(v[i], ByteBits)[j]
    BY <1>4, <2>1, <2>2
  <2> QED BY <2>3 DEF b
<1> QED BY <1>2, <1>6, <1>7 DEF s, p, n

(***************************************************************************)
(* A byte of the packet is the bits it has in a piece of whole bytes.      *)
(***************************************************************************)
LEMMA ByteInPiece ==
  ASSUME data \in Seq(Bit), NEW at \in Nat, NEW n \in Nat, at + n * ByteBits <= Len(data),
         NEW i \in 1..n
  PROVE  LET k == at + (i - 1) * ByteBits
         IN  /\ k \in Nat /\ k + ByteBits <= Len(data)
             /\ BitsAt(k, ByteBits) \in Seq(Bit) /\ Len(BitsAt(k, ByteBits)) = ByteBits
             /\ \A j \in 1..ByteBits :
                  BitsAt(k, ByteBits)[j] = BitsAt(at, n * ByteBits)[(i-1) * ByteBits + j]
<1> DEFINE c == (i-1) * ByteBits
           p == n * ByteBits
           k == at + c
<1>1. ByteBits \in Nat \ {0} /\ i - 1 \in Nat /\ (i - 1) + 1 <= n
  BY GeometryAssumption
<1>2. c \in Int /\ p \in Int /\ 0 * ByteBits <= c /\ ((i-1) + 1) * ByteBits <= p
  BY <1>1, Products
<1>3. ((i-1) + 1) * ByteBits = c + ByteBits /\ 0 * ByteBits = 0
  BY <1>1
<1>4. at + p <= Len(data) /\ Len(data) \in Nat
  BY LenProperties
<1> HIDE DEF c, p
<1>5. k \in Nat /\ k + ByteBits <= Len(data) /\ p \in Nat /\ c \in Nat
  BY <1>1, <1>2, <1>3, <1>4
<1> HIDE DEF k
<1>6. /\ BitsAt(k, ByteBits) \in Seq(Bit) /\ Len(BitsAt(k, ByteBits)) = ByteBits
      /\ \A j \in 1..ByteBits : BitsAt(k, ByteBits)[j] = data[k+j]
  BY <1>1, <1>5, PieceFacts
<1>7. \A j \in 1..p : BitsAt(at, p)[j] = data[at+j]
  BY <1>4, <1>5, PieceFacts
<1>8. ASSUME NEW j \in 1..ByteBits PROVE BitsAt(k, ByteBits)[j] = BitsAt(at, p)[c + j]
  <2>1. c + j \in 1..p /\ k + j = at + (c + j)
    BY <1>1, <1>2, <1>3, <1>5 DEF k
  <2> QED BY <2>1, <1>6, <1>7
<1> QED BY <1>5, <1>6, <1>8 DEF k, c, p

(***************************************************************************)
(* The bytes of a piece that is the run of some bytes are these.           *)
(***************************************************************************)
LEMMA RunReads ==
  ASSUME data \in Seq(Bit), NEW at \in Nat, NEW v \in Seq(Octet),
         at + Len(v) * ByteBits <= Len(data), BitsAt(at, Len(v) * ByteBits) = RunOf(v)
  PROVE  [i \in 1..Len(v) |-> ByteAt(at, i)] = v
<1> DEFINE n == Len(v)
<1>1. n \in Nat /\ (\A i \in 1..n : v[i] \in Octet) /\ v = [i \in 1..n |-> v[i]]
  BY ElementsOf, SequenceIsFunction
<1>2. ASSUME NEW i \in 1..n PROVE ByteAt(at, i) = v[i]
  <2> DEFINE k == at + (i - 1) * ByteBits
             s == BitsAt(k, ByteBits)
             t == ToBits(v[i], ByteBits)
  <2>1. /\ s \in Seq(Bit) /\ Len(s) = ByteBits
        /\ \A j \in 1..ByteBits : s[j] = BitsAt(at, n * ByteBits)[(i-1) * ByteBits + j]
    BY <1>1, <1>2, ByteInPiece
  <2>2. \A j \in 1..ByteBits : s[j] = t[j]
    BY <2>1, <1>2, RunType
  <2>3. t \in Seq(Bit) /\ Len(t) = ByteBits /\ FromBits(t) = v[i]
    <3>1. v[i] \in 0..2^ByteBits-1 /\ v[i] \in Int /\ ByteBits \in Nat
      BY <1>1, <1>2, Powers, GeometryAssumption DEF Octet
    <3> QED BY <3>1, FieldType, ValueOfField
  <2>4. ByteAt(at, i) = FromBits(s)
    BY DEF ByteAt
  <2> HIDE DEF s, t
  <2>5. s = t
    BY <2>1, <2>2, <2>3, SeqEqual
  <2> QED BY <2>3, <2>4, <2>5
<1> HIDE DEF n
<1>3. [i \in 1..n |-> ByteAt(at, i)] = [i \in 1..n |-> v[i]]
  BY <1>2
<1> QED BY <1>1, <1>3 DEF n

(***************************************************************************)
(* The bytes of any piece of whole bytes have the piece for their run.     *)
(***************************************************************************)
LEMMA RunTold ==
  ASSUME data \in Seq(Bit), NEW at \in Nat, NEW n \in Nat, at + n * ByteBits <= Len(data)
  PROVE  LET v == [i \in 1..n |-> ByteAt(at, i)]
         IN  v \in Seq(Octet) /\ Len(v) = n /\ RunOf(v) = BitsAt(at, n * ByteBits)
<1> DEFINE v == [i \in 1..n |-> ByteAt(at, i)]
           p == n * ByteBits
<1>1. ASSUME NEW i \in 1..n
      PROVE  /\ ByteAt(at, i) \in Octet
             /\ \A j \in 1..ByteBits :
                  ToBits(ByteAt(at, i), ByteBits)[j] = BitsAt(at, p)[(i-1) * ByteBits + j]
  <2> DEFINE s == BitsAt(at + (i - 1) * ByteBits, ByteBits)
  <2>1. /\ s \in Seq(Bit) /\ Len(s) = ByteBits
        /\ \A j \in 1..ByteBits : s[j] = BitsAt(at, p)[(i-1) * ByteBits + j]
    BY <1>1, ByteInPiece
  <2>2. ByteAt(at, i) = FromBits(s)
    BY DEF ByteAt
  <2> HIDE DEF s, p
  <2>3. FromBits(s) \in 0..2^ByteBits-1 /\ ToBits(FromBits(s), ByteBits) = s
    BY <2>1, FieldOfValue
  <2> QED BY <2>1, <2>2, <2>3 DEF Octet
<1>2. v \in Seq(Octet) /\ Len(v) = n
  <2>1. v \in [1..n -> Octet]
    BY <1>1
  <2> HIDE DEF v
  <2> QED BY <2>1, SeqDef, LenProperties
<1>3. /\ RunOf(v) \in Seq(Bit) /\ Len(RunOf(v)) = p /\ p \in Nat
      /\ \A i \in 1..n, j \in 1..ByteBits :
           RunOf(v)[(i-1) * ByteBits + j] = ToBits(v[i], ByteBits)[j]
  <2> HIDE DEF v
  <2> QED BY <1>2, RunType
<1> DEFINE s == RunOf(v)
<1>4. \A i \in 1..n, j \in 1..ByteBits : s[(i-1) * ByteBits + j] = BitsAt(at, p)[(i-1) * ByteBits + j]
  <2> SUFFICES ASSUME NEW i \in 1..n, NEW j \in 1..ByteBits
               PROVE  s[(i-1) * ByteBits + j] = BitsAt(at, p)[(i-1) * ByteBits + j]
    OBVIOUS
  <2>1. v[i] = ByteAt(at, i)
    OBVIOUS
  <2>2. ToBits(ByteAt(at, i), ByteBits)[j] = BitsAt(at, p)[(i-1) * ByteBits + j]
    BY <1>1
  <2> HIDE DEF v, p
  <2>3. s[(i-1) * ByteBits + j] = ToBits(v[i], ByteBits)[j]
    BY <1>3
  <2> QED BY <2>1, <2>2, <2>3
<1>5. at + p <= Len(data)
  OBVIOUS
<1>6. \A i \in 1..p : BitsAt(at, p)[i] = data[at+i]
  <2> HIDE DEF p
  <2> QED BY <1>3, <1>5, PieceFacts
<1> HIDE DEF v, s
<1>7. ASSUME NEW b \in 1..p PROVE s[b] = data[at+b]
  <2> DEFINE i == ((b-1) \div ByteBits) + 1
             j == ((b-1) % ByteBits) + 1
  <2>1. i \in 1..n /\ j \in 1..ByteBits /\ b = (i-1) * ByteBits + j
    <3> DEFINE q == (b-1) \div ByteBits
               r == (b-1) % ByteBits
    <3>1. q \in 0..n-1 /\ r \in 0..ByteBits-1 /\ b = q * ByteBits + r + 1
      BY <1>7, InRun
    <3> HIDE DEF q, r
    <3>2. (q + 1) \in 1..n /\ (r + 1) \in 1..ByteBits /\ (q + 1) - 1 = q
      BY <3>1, GeometryAssumption
    <3>3. q * ByteBits \in Int
      BY <3>1, Products, GeometryAssumption
    <3>4. b = q * ByteBits + (r + 1)
      BY <3>1, <3>3, GeometryAssumption
    <3> QED BY <3>2, <3>4 DEF q, r
  <2> HIDE DEF i, j
  <2> QED BY <2>1, <1>4, <1>6
<1> HIDE DEF p
<1>8. s = BitsAt(at, p)
  BY <1>3, <1>5, <1>7, PieceIs DEF s
<1> QED BY <1>2, <1>8 DEF v, s, p

(***************************************************************************)
(* A number of bytes is more than the whole bytes of some bits when its    *)
(* bits are more than these.                                               *)
(***************************************************************************)
LEMMA WholeBytes ==
  ASSUME NEW n \in Nat, NEW r \in Nat
  PROVE  n * ByteBits \in Nat /\ (n > r \div ByteBits <=> n * ByteBits > r)
<1> DEFINE q == r \div ByteBits
           m == r % ByteBits
           p == n * ByteBits
           k == q * ByteBits
<1>1. ByteBits \in Nat \ {0} /\ q \in Nat /\ m \in 0..ByteBits-1 /\ r = k + m
  BY InBytes, GeometryAssumption
<1> HIDE DEF q
<1>2. /\ p \in Int /\ k \in Int /\ (n <= q <=> p <= k) /\ (q + 1 <= n <=> (q + 1) * ByteBits <= p)
      /\ 0 * ByteBits <= p
  BY <1>1, Products
<1>3. (q + 1) * ByteBits = k + ByteBits /\ 0 * ByteBits = 0
  BY <1>1
<1> HIDE DEF m, p, k
<1>4. p \in Nat
  BY <1>2, <1>3
<1>5. CASE n <= q
  BY <1>1, <1>2, <1>4, <1>5 DEF q
<1>6. CASE ~(n <= q)
  <2>1. q + 1 <= n
    BY <1>1, <1>6
  <2>2. k + ByteBits <= p
    BY <2>1, <1>2, <1>3
  <2>3. p > r
    BY <2>2, <1>1, <1>2
  <2> QED BY <2>1, <2>3, <1>1, <1>4 DEF q, p
<1> QED BY <1>4, <1>5, <1>6 DEF p

(***************************************************************************)
(* The bytes of an array are read.                                         *)
(***************************************************************************)
LEMMA BytesReads ==
  ASSUME NEW at, Position(at), NEW v \in Seq(Octet),
         Carries(at, Zeros(AlignPad(at)) \o RunOf(v))
  PROVE  Takes(Bytes(at, Len(v)), at, Zeros(AlignPad(at)) \o RunOf(v), v)
<1> DEFINE z == Zeros(AlignPad(at))
           s == RunOf(v)
           n == Len(v)
           p == n * ByteBits
           m == Len(z)
           k == at + m
           code == z \o s
           pad == Align(at)
           value == [i \in 1..n |-> ByteAt(k, i)]
<1>1. at \in Nat /\ Len(data) \in Nat /\ data \in Seq(Bit) /\ n \in Nat
  BY ElementsOf DEF Position
<1>2. s \in Seq(Bit) /\ Len(s) = p /\ p \in Nat
  BY RunType
<1>3. z \in Seq(Bit) /\ m \in Nat
  <2>1. AlignPad(at) \in Nat
    BY <1>1, RoundUpBytes, GeometryAssumption
  <2> QED BY <2>1 DEF Zeros, Bit
<1>4. Carries(at, code)
  OBVIOUS
<1> HIDE DEF z, s, p
<1>5. Carries(at, z) /\ Carries(k, s) /\ Len(code) = m + p /\ code \in Seq(Bit)
  <2>1. /\ Carries(at, z) /\ Carries(at + Len(z), s)
        /\ Len(z \o s) = Len(z) + Len(s) /\ z \o s \in Seq(Bit)
    BY <1>1, <1>2, <1>3, <1>4, CarriesParts
  <2> QED BY <2>1, <1>2
<1>6. Takes(pad, at, z, 0)
  BY <1>5, AlignReads DEF z
<1>7. Bytes(at, n) =
        IF ~Accepted(pad) THEN pad
        ELSE IF n > (Len(data) - pad.at) \div ByteBits THEN Refuses("past_end", pad.at)
        ELSE Accepts(pad.at + n * ByteBits, pad.code \o BitsAt(pad.at, n * ByteBits),
                     [i \in 1..n |-> ByteAt(pad.at, i)])
  BY DEF Bytes, numBits, Remaining
<1> HIDE DEF m, p, pad, code
<1>8. CASE ~(at + m <= Len(data))
  <2>1. pad.reason = "past_end"
    BY <1>6, <1>8 DEF Takes, m
  <2>2. Bytes(at, n) = pad
    BY <2>1, <1>7 DEF Accepted, None
  <2>3. ~(at + Len(code) <= Len(data))
    BY <1>1, <1>2, <1>3, <1>5, <1>8
  <2> QED BY <2>1, <2>2, <2>3 DEF Takes, code, z, s
<1>9. CASE at + m <= Len(data)
  <2>1. pad = Accepts(k, z, 0)
    BY <1>6, <1>9 DEF Takes, m
  <2>2. Accepted(pad) /\ pad.at = k /\ pad.code = z
    BY <2>1 DEF Accepts, Accepted
  <2>3. Bytes(at, n) = IF n > (Len(data) - k) \div ByteBits THEN Refuses("past_end", k)
                       ELSE Accepts(k + p, z \o BitsAt(k, p), value)
    BY <1>7, <2>2 DEF p
  <2>4. k \in Nat /\ Len(data) - k \in Nat
    BY <1>1, <1>3, <1>9
  <2>5. n > (Len(data) - k) \div ByteBits <=> p > Len(data) - k
    BY <1>1, <2>4, WholeBytes DEF p
  <2> HIDE DEF value
  <2>6. CASE p > Len(data) - k
    <3>1. Bytes(at, n).reason = "past_end"
      BY <2>3, <2>5, <2>6 DEF Refuses
    <3>2. ~(at + Len(code) <= Len(data))
      BY <1>1, <1>2, <1>3, <1>5, <2>6
    <3> QED BY <3>1, <3>2 DEF Takes, code, z, s
  <2>7. CASE ~(p > Len(data) - k)
    <3>1. k + p <= Len(data) /\ k \in 0..Len(data)
      BY <1>1, <1>2, <2>4, <2>7
    <3>2. Position(k)
      BY <3>1 DEF Position
    <3> HIDE DEF k
    <3>3. BitsAt(k, p) = s
      BY <1>2, <1>5, <3>1, <3>2, CarriedPiece
    <3>4. value = v
      BY <1>1, <2>4, <3>1, <3>3, RunReads DEF value, p, s
    <3>5. Bytes(at, n) = Accepts(k + p, z \o s, v)
      BY <2>3, <2>5, <2>7, <3>3, <3>4
    <3>6. k + p = at + Len(code) /\ at + Len(code) <= Len(data)
      BY <1>1, <1>2, <1>3, <1>5, <3>1 DEF k
    <3> QED BY <3>5, <3>6 DEF Takes, code, z, s
  <2> QED BY <2>6, <2>7
<1> QED BY <1>8, <1>9

(***************************************************************************)
(* What is accepted as an array has the bits a writer writes for it.       *)
(***************************************************************************)
LEMMA BytesTells ==
  ASSUME NEW at, Position(at), NEW n \in Nat, Accepted(Bytes(at, n))
  PROVE  /\ Bytes(at, n).value \in Seq(Octet) /\ Len(Bytes(at, n).value) = n
         /\ Bytes(at, n).code = Zeros(AlignPad(at)) \o RunOf(Bytes(at, n).value)
<1> DEFINE pad == Align(at)
           k == pad.at
           p == n * ByteBits
           value == [i \in 1..n |-> ByteAt(k, i)]
<1>1. /\ at \in Nat /\ Len(data) \in Nat /\ data \in Seq(Bit)
  BY DEF Position
<1>2. Sound(pad, at)
  BY AlignSound
<1>3. k \in at..Len(data)
  BY <1>2 DEF Sound
<1>4. Bytes(at, n) =
        IF ~Accepted(pad) THEN pad
        ELSE IF n > (Len(data) - k) \div ByteBits THEN Refuses("past_end", k)
        ELSE Accepts(k + p, pad.code \o BitsAt(k, p), value)
  BY DEF Bytes, numBits, Remaining
<1>5. ~Accepted(Refuses("past_end", k))
  BY DEF Accepted, Refuses, None
<1>6. Accepted(pad) /\ ~(n > (Len(data) - k) \div ByteBits)
  BY <1>4, <1>5
<1>7. pad.code = Zeros(AlignPad(at))
  <2>1. pad = IF at + AlignPad(at) > Len(data) THEN Refuses("past_end", at)
              ELSE IF ~AllZero(BitsAt(at, AlignPad(at)))
                THEN Refuses("nonzero_padding", at + AlignPad(at))
              ELSE Accepts(at + AlignPad(at), Zeros(AlignPad(at)), 0)
    BY DEF Align, numBits
  <2>2. /\ ~Accepted(Refuses("past_end", at))
        /\ ~Accepted(Refuses("nonzero_padding", at + AlignPad(at)))
    BY DEF Accepted, Refuses, None
  <2>3. pad = Accepts(at + AlignPad(at), Zeros(AlignPad(at)), 0)
    BY <2>1, <2>2, <1>6
  <2> QED BY <2>3 DEF Accepts
<1> HIDE DEF pad, k, p
<1>8. k \in Nat /\ Len(data) - k \in Nat
  BY <1>1, <1>3
<1>9. p \in Nat /\ ~(p > Len(data) - k)
  BY <1>6, <1>8, WholeBytes DEF p
<1>10. k + p <= Len(data)
  BY <1>1, <1>8, <1>9
<1>11. value \in Seq(Octet) /\ Len(value) = n /\ RunOf(value) = BitsAt(k, p)
  BY <1>1, <1>8, <1>10, RunTold DEF p
<1> HIDE DEF value
<1>12. Bytes(at, n) = Accepts(k + p, pad.code \o BitsAt(k, p), value)
  BY <1>4, <1>6
<1> QED BY <1>7, <1>11, <1>12 DEF Accepts

(***************************************************************************)
(* The code of a string at a position: its length, the padding where that  *)
(* ends, and its bytes.                                                    *)
(***************************************************************************)
StringCode(at, size, text) ==
  LET w == BitsRequired(size - 1)
  IN  ToBits(Len(text), w) \o (Zeros(AlignPad(at + w)) \o RunOf(text))

(***************************************************************************)
(* A text the writer lets through is read.                                 *)
(***************************************************************************)
LEMMA StringReads ==
  ASSUME NEW at, Position(at), NEW size \in Nat \ {0}, NEW text \in Seq(Octet),
         Len(text) < size, ~HasNul(text), WellFormed(text),
         Carries(at, StringCode(at, size, text))
  PROVE  Takes(String(at, size), at, StringCode(at, size, text), text)
<1> DEFINE w == BitsRequired(size - 1)
           n == Len(text)
           f == ToBits(n, w)
           k == at + w
           rest == Zeros(AlignPad(k)) \o RunOf(text)
           code == f \o rest
           length == Ranged(at, size - 1)
           run == Bytes(length.at, length.value)
<1>1. /\ at \in Nat /\ Len(data) \in Nat /\ data \in Seq(Bit) /\ size - 1 \in Nat
      /\ n \in 0..(size - 1) /\ n \in Nat /\ n \in Int
  BY ElementsOf DEF Position
<1>2. w \in Nat
  BY <1>1, BitsRequiredFits
<1>3. f \in Seq(Bit) /\ Len(f) = w
  BY <1>1, <1>2, FieldType
<1>4. rest \in Seq(Bit) /\ Len(rest) \in Nat
  <2>0. k \in Nat
    BY <1>1, <1>2
  <2> HIDE DEF k
  <2>1. AlignPad(k) \in Nat
    <3>1. AlignPad(k) \in 0..ByteBits-1
      BY <2>0, RoundUpBytes
    <3> QED BY <3>1, GeometryAssumption
  <2>2. Zeros(AlignPad(k)) \in Seq(Bit)
    BY <2>1 DEF Zeros, Bit
  <2>3. RunOf(text) \in Seq(Bit)
    BY RunType
  <2> QED BY <2>2, <2>3, ConcatProperties, LenProperties
<1>5. StringCode(at, size, text) = code
  BY DEF StringCode
<1>6. String(at, size) =
        IF ~Accepted(length) THEN length
        ELSE IF ~Accepted(run) THEN run
        ELSE IF HasNul(run.value) THEN Refuses("embedded_nul", run.at)
        ELSE IF ~WellFormed(run.value) THEN Refuses("invalid_utf8", run.at)
        ELSE Accepts(run.at, length.code \o run.code, run.value)
  BY DEF String
<1> HIDE DEF f, rest
<1>7. Carries(at, f) /\ Carries(k, rest) /\ Len(code) = w + Len(rest)
  <2>1. Carries(at, f \o rest) /\ at \in Nat /\ f \in Seq(Bit) /\ rest \in Seq(Bit)
    BY <1>1, <1>3, <1>4, <1>5
  <2>2. /\ Carries(at, f) /\ Carries(at + Len(f), rest)
        /\ Len(f \o rest) = Len(f) + Len(rest)
    BY ONLY <2>1, CarriesParts
  <2> QED BY <2>2, <1>3
<1>8. Takes(length, at, f, n)
  BY <1>1, <1>7, RangedReads DEF f
<1> HIDE DEF w, k, length, run, code, n
<1>9. CASE ~(at + w <= Len(data))
  <2>1. length.reason = "past_end"
    BY <1>3, <1>8, <1>9 DEF Takes
  <2>2. String(at, size) = length
    BY <2>1, <1>6 DEF Accepted, None
  <2>3. ~(at + Len(code) <= Len(data))
    BY <1>1, <1>2, <1>4, <1>7, <1>9
  <2> QED BY <1>5, <2>1, <2>2, <2>3 DEF Takes
<1>10. CASE at + w <= Len(data)
  <2>1. length = Accepts(k, f, n)
    BY <1>3, <1>8, <1>10 DEF Takes, k
  <2>2. Accepted(length) /\ length.at = k /\ length.code = f /\ length.value = n
    BY <2>1 DEF Accepts, Accepted
  <2>3. run = Bytes(k, n)
    BY <2>2 DEF run
  <2>4. Position(k)
    <3>1. k \in 0..Len(data)
      BY <1>1, <1>2, <1>10 DEF k
    <3> QED BY <3>1 DEF Position
  <2>5. Takes(run, k, rest, text)
    <3>1. Takes(Bytes(k, Len(text)), k, rest, text)
      BY <2>4, <1>7, BytesReads DEF rest
    <3> QED BY <3>1, <2>3 DEF n
  <2>6. at + Len(code) = k + Len(rest)
    BY <1>1, <1>2, <1>4, <1>7 DEF k
  <2>7. CASE ~(k + Len(rest) <= Len(data))
    <3>1. run.reason = "past_end"
      BY <2>5, <2>7 DEF Takes
    <3>2. String(at, size) = run
      BY <3>1, <1>6, <2>2 DEF Accepted, None
    <3> QED BY <1>5, <2>6, <2>7, <3>1, <3>2 DEF Takes
  <2>8. CASE k + Len(rest) <= Len(data)
    <3>1. run = Accepts(k + Len(rest), rest, text)
      BY <2>5, <2>8 DEF Takes
    <3>2. /\ Accepted(run) /\ run.at = k + Len(rest) /\ run.code = rest
          /\ run.value = text
      BY <3>1 DEF Accepts, Accepted
    <3>3. String(at, size) = Accepts(k + Len(rest), f \o rest, text)
      BY <1>6, <2>2, <3>2
    <3> QED BY <1>5, <2>6, <2>8, <3>3 DEF Takes, code
  <2> QED BY <2>7, <2>8
<1> QED BY <1>9, <1>10

(***************************************************************************)
(* What is accepted as a text has the bits a writer writes for it.         *)
(***************************************************************************)
LEMMA StringTells ==
  ASSUME NEW at, Position(at), NEW size \in Nat \ {0}, Accepted(String(at, size))
  PROVE  /\ String(at, size).value \in Seq(Octet)
         /\ String(at, size).code = StringCode(at, size, String(at, size).value)
<1> DEFINE length == Ranged(at, size - 1)
           run == Bytes(length.at, length.value)
           w == BitsRequired(size - 1)
<1>1. size - 1 \in Nat /\ at \in Nat /\ Len(data) \in Nat
  BY DEF Position
<1>2. String(at, size) =
        IF ~Accepted(length) THEN length
        ELSE IF ~Accepted(run) THEN run
        ELSE IF HasNul(run.value) THEN Refuses("embedded_nul", run.at)
        ELSE IF ~WellFormed(run.value) THEN Refuses("invalid_utf8", run.at)
        ELSE Accepts(run.at, length.code \o run.code, run.value)
  BY DEF String
<1>3. \A at2 : ~Accepted(Refuses("embedded_nul", at2)) /\ ~Accepted(Refuses("invalid_utf8", at2))
  BY DEF Accepted, Refuses, None
<1>4. /\ Accepted(length) /\ Accepted(run)
      /\ String(at, size) = Accepts(run.at, length.code \o run.code, run.value)
  BY <1>2, <1>3
<1>5. /\ at + w <= Len(data) /\ length.at = at + w /\ length.value \in 0..(size - 1)
      /\ length.code = ToBits(length.value, w)
  BY <1>1, <1>4, RangedSound
<1>6. w \in Nat
  BY <1>1, BitsRequiredFits
<1> HIDE DEF length, w
<1>7. Position(at + w) /\ length.value \in Nat
  BY <1>1, <1>5, <1>6 DEF Position
<1>8. run = Bytes(at + w, length.value)
  BY <1>5
<1> HIDE DEF run
<1>9. /\ run.value \in Seq(Octet) /\ Len(run.value) = length.value
      /\ run.code = Zeros(AlignPad(at + w)) \o RunOf(run.value)
  BY <1>4, <1>7, <1>8, BytesTells
<1>10. /\ String(at, size).value = run.value
       /\ String(at, size).code = length.code \o run.code
  <2> DEFINE code == length.code \o run.code
             value == run.value
             end == run.at
             o == Accepts(end, code, value)
  <2>1. String(at, size) = o
    BY <1>4
  <2> HIDE DEF code, value, end
  <2>2. o.value = value /\ o.code = code
    BY DEF Accepts
  <2> QED BY <2>1, <2>2 DEF code, value
<1> QED BY <1>5, <1>9, <1>10 DEF StringCode, w

(***************************************************************************)
(* A field that is accepted has the bits a writer writes for its value.    *)
(***************************************************************************)
LEMMA FieldTells ==
  ASSUME NEW at, Position(at), NEW n \in Nat, Accepted(Field(at, n))
  PROVE  /\ Field(at, n).value \in 0..2^n-1
         /\ Field(at, n).code = ToBits(Field(at, n).value, n)
<1> DEFINE s == BitsAt(at, n)
<1>1. at \in Nat /\ Len(data) \in Nat /\ data \in Seq(Bit)
  BY DEF Position
<1>2. ~Accepted(Refuses("past_end", at))
  BY DEF Accepted, Refuses, None
<1>3. ~(at + n > Len(data)) /\ Field(at, n) = Accepts(at + n, s, FromBits(s))
  BY <1>2 DEF Field, numBits
<1>4. s \in Seq(Bit) /\ Len(s) = n
  BY <1>1, <1>3, PieceFacts
<1> HIDE DEF s
<1>5. FromBits(s) \in 0..2^n-1 /\ ToBits(FromBits(s), n) = s
  BY <1>4, FieldOfValue
<1> QED BY <1>3, <1>5 DEF Accepts

(***************************************************************************)
(* Where a code has its zeros, a packet that goes as far has no flag set.  *)
(***************************************************************************)
LEMMA NoFlagInZeros ==
  ASSUME NEW at \in Nat, NEW n \in Nat, Carries(at, Zeros(n)), NEW i \in 1..n,
         at + i <= Len(data)
  PROVE  data[at+i] = 0
<1>1. Len(Zeros(n)) = n /\ Zeros(n)[i] = 0
  BY DEF Zeros
<1> QED BY <1>1 DEF Carries

(***************************************************************************)
(* The check of the rebuilt value lets a value of the writer through.      *)
(***************************************************************************)
LEMMA ResultReads ==
  ASSUME NEW at, NEW previous \in Nat, NEW v \in previous+1..IntRelativeMax
  PROVE  intRelativeResult(previous, at, v) = Accepts(at, IntRelativeCode(previous, v), v)
<1>1. IntRelativeMax \in Int
  BY Powers, DomainAssumption
<1>2. ~(v > IntRelativeMax \/ v <= previous)
  BY <1>1
<1> QED BY <1>2 DEF intRelativeResult

(***************************************************************************)
(* The next number.                                                        *)
(***************************************************************************)
LEMMA NextReads ==
  ASSUME NEW at, Position(at), NEW previous \in Nat, NEW v \in previous+1..IntRelativeMax,
         v - previous = 1, Carries(at, IntRelativeCode(previous, v))
  PROVE  Takes(IntRelative(at, previous), at, IntRelativeCode(previous, v), v)
<1> DEFINE N == Len(data)
           flags == Len(Buckets) + 1
           set == {i \in 1..flags : at + i <= N /\ data[at+i] = 1}
           first == CHOOSE i \in set : \A j \in set : i <= j
           one == << 1 >>
           code == IntRelativeCode(previous, v)
<1>1. at \in 0..N /\ N \in Nat /\ flags \in Nat \ {0} /\ previous \in Int /\ v \in Int /\ previous < v
  <2>1. IntRelativeMax \in Int
    BY Powers, DomainAssumption
  <2> QED BY <2>1, BucketFacts DEF Position
<1>2. code = one /\ Len(one) = 1 /\ one[1] = 1
  BY <1>1, TierCodes
<1>3. IntRelative(at, previous) =
        IF set = {}
          THEN IF N - at < flags THEN Refuses("past_end", N) ELSE Absolute(previous, at + flags)
          ELSE IF first = 1 THEN intRelativeResult(previous, at + 1, previous + 1)
                            ELSE Bounded(previous, at + first, Buckets[first-1])
  BY DEF IntRelative, numBits, Remaining
<1>4. at + 1 <= N => data[at+1] = 1
  <2>1. Carries(at, one)
    BY <1>2
  <2> QED BY <2>1, <1>2 DEF Carries
<1> HIDE DEF first, one, code, flags, N
<1>5. CASE at + 1 <= N
  <2>1. 1 \in set /\ \A j \in set : 1 <= j
    BY <1>1, <1>4, <1>5
  <2>2. \E i \in set : \A j \in set : i <= j
    BY <2>1
  <2>3. first \in set /\ \A j \in set : first <= j
    BY <2>2, Zenon DEF first
  <2>4. first = 1
    <3>1. first <= 1 /\ 1 <= first /\ first \in 1..flags
      BY <2>1, <2>3
    <3> QED BY <3>1, <1>1
  <2>5. set # {}
    BY <2>1
  <2> HIDE DEF set
  <2>6. IntRelative(at, previous) = intRelativeResult(previous, at + 1, previous + 1)
    BY <1>3, <2>4, <2>5
  <2>7. previous + 1 = v
    BY <1>1
  <2>8. IntRelative(at, previous) = Accepts(at + 1, code, v)
    BY <2>6, <2>7, ResultReads DEF code
  <2> QED BY <1>2, <1>5, <2>8 DEF Takes, code, N
<1>6. CASE ~(at + 1 <= N)
  <2>1. set = {} /\ N - at < flags
    BY <1>1, <1>6
  <2>2. IntRelative(at, previous).reason = "past_end"
    BY <1>3, <2>1 DEF Refuses
  <2> QED BY <1>2, <1>6, <2>2 DEF Takes, code, N
<1> QED BY <1>5, <1>6

(***************************************************************************)
(* A number in a bucket.                                                   *)
(***************************************************************************)
LEMMA BucketReads ==
  ASSUME NEW at, Position(at), NEW previous \in Nat, NEW v \in previous+1..IntRelativeMax,
         NEW b \in 1..Len(Buckets), v - previous \in Buckets[b].min..Buckets[b].max,
         Carries(at, IntRelativeCode(previous, v))
  PROVE  Takes(IntRelative(at, previous), at, IntRelativeCode(previous, v), v)
<1> DEFINE N == Len(data)
           flags == Len(Buckets) + 1
           set == {i \in 1..flags : at + i <= N /\ data[at+i] = 1}
           first == CHOOSE i \in set : \A j \in set : i <= j
           lo == Buckets[b].min
           span == Span(Buckets[b])
           w == BitsRequired(span)
           v0 == v - previous - lo
           z == Zeros(b)
           one == << 1 >>
           off == ToBits(v0, w)
           head == z \o one
           code == IntRelativeCode(previous, v)
           k == at + (b + 1)
<1>1. /\ at \in 0..N /\ at \in Nat /\ N \in Nat /\ flags \in Nat \ {0} /\ b \in Nat /\ b + 1 \in 2..flags
      /\ previous \in Int /\ v \in Int /\ previous < v
  <2>1. IntRelativeMax \in Int
    BY Powers, DomainAssumption
  <2>2. Len(Buckets) \in Nat
    BY BucketFacts
  <2>3. at \in 0..N /\ N \in Nat
    BY DEF Position
  <2> HIDE DEF N
  <2> QED BY <2>1, <2>2, <2>3
<1>2. lo \in Nat /\ Buckets[b].max \in Nat /\ span \in Nat /\ span = Buckets[b].max - lo
  BY BucketFacts DEF Span
<1>3. v0 \in 0..span /\ v0 \in Int /\ previous + lo + v0 = v
  <2> DEFINE hi == Buckets[b].max
  <2>1. /\ v - previous \in lo..hi /\ lo \in Nat /\ hi \in Nat /\ span = hi - lo
        /\ v \in Int /\ previous \in Int
    BY <1>1, <1>2
  <2> HIDE DEF lo, span, hi
  <2> QED BY ONLY <2>1
<1>4. w \in Nat /\ off \in Seq(Bit) /\ Len(off) = w
  <2>1. w \in Nat
    BY <1>2, BitsRequiredFits
  <2> HIDE DEF w, v0
  <2> QED BY <1>3, <2>1, FieldType
<1>5. code = head \o off
  BY <1>1, TierCodes
<1>6. z \in Seq(Bit) /\ Len(z) = b /\ one \in Seq(Bit) /\ Len(one) = 1 /\ one[1] = 1
  BY <1>1 DEF Zeros, Bit
<1>7. IntRelative(at, previous) =
        IF set = {}
          THEN IF N - at < flags THEN Refuses("past_end", N) ELSE Absolute(previous, at + flags)
          ELSE IF first = 1 THEN intRelativeResult(previous, at + 1, previous + 1)
                            ELSE Bounded(previous, at + first, Buckets[first-1])
  BY DEF IntRelative, numBits, Remaining
<1>8. Carries(at, code)
  OBVIOUS
<1> HIDE DEF z, one, off, head, code
<1>9. head \in Seq(Bit) /\ Len(head) = b + 1 /\ Len(code) = (b + 1) + w
  <2>1. head \in Seq(Bit) /\ Len(head) = b + 1
    <3>1. Len(z \o one) = Len(z) + Len(one) /\ z \o one \in Seq(Bit)
      BY <1>6, ConcatProperties
    <3> QED BY <3>1, <1>6 DEF head
  <2>2. Len(head \o off) = Len(head) + Len(off)
    BY <2>1, <1>4, ConcatProperties
  <2> QED BY <2>1, <2>2, <1>4, <1>5
<1>10. Carries(at, head) /\ Carries(k, off)
  <2>1. Carries(at, head \o off) /\ at \in Nat /\ head \in Seq(Bit) /\ off \in Seq(Bit)
    BY <1>1, <1>4, <1>5, <1>8, <1>9
  <2>2. Carries(at, head) /\ Carries(at + Len(head), off)
    BY ONLY <2>1, CarriesParts
  <2> QED BY <2>2, <1>9
<1>11. Carries(at, z) /\ Carries(at + b, one)
  <2>1. Carries(at, z \o one) /\ at \in Nat /\ z \in Seq(Bit) /\ one \in Seq(Bit)
    BY <1>1, <1>6, <1>10 DEF head
  <2>2. Carries(at, z) /\ Carries(at + Len(z), one)
    BY ONLY <2>1, CarriesParts
  <2> QED BY <2>2, <1>6
<1>12. \A i \in 1..b : at + i <= N => data[at+i] = 0
  BY <1>1, <1>11, NoFlagInZeros DEF z
<1>13. k <= N => data[k] = 1
  <2>1. k = (at + b) + 1
    BY <1>1
  <2> QED BY <2>1, <1>6, <1>11 DEF Carries
<1> HIDE DEF first, flags, N, lo, span, w, v0
<1>14. CASE ~(k <= N)
  <2>1. ASSUME NEW i \in set PROVE FALSE
    <3>1. i \in 1..flags /\ at + i <= N /\ data[at+i] = 1
      BY <2>1
    <3>2. i \in 1..b
      BY <3>1, <1>1, <1>14
    <3> QED BY <3>1, <3>2, <1>12
  <2>2. set = {}
    BY <2>1
  <2> HIDE DEF set
  <2>3. N - at < flags
    BY <1>1, <1>14
  <2>4. IntRelative(at, previous).reason = "past_end"
    BY <1>7, <2>2, <2>3 DEF Refuses
  <2>5. ~(at + Len(code) <= N)
    <3>1. w \in Nat /\ at \in Nat /\ b \in Nat /\ N \in Nat /\ Len(code) = (b + 1) + w
      BY <1>1, <1>4, <1>9
    <3> QED BY ONLY <3>1, <1>14
  <2> QED BY <2>4, <2>5 DEF Takes, code, N
<1>15. CASE k <= N
  <2>1. b + 1 \in set
    BY <1>1, <1>13, <1>15
  <2>2. \A j \in set : b + 1 <= j
    <3> SUFFICES ASSUME NEW j \in set, ~(b + 1 <= j) PROVE FALSE
      OBVIOUS
    <3>1. j \in 1..flags /\ at + j <= N /\ data[at+j] = 1
      OBVIOUS
    <3>2. j \in 1..b
      BY <3>1, <1>1
    <3> QED BY <3>1, <3>2, <1>12
  <2>3. \E i \in set : \A j \in set : i <= j
    BY <2>1, <2>2
  <2>4. first \in set /\ \A j \in set : first <= j
    BY <2>3, Zenon DEF first
  <2>5. first = b + 1
    <3>1. first <= b + 1 /\ b + 1 <= first /\ first \in 1..flags
      BY <2>1, <2>2, <2>4
    <3> QED BY <3>1, <1>1
  <2>6. set # {}
    BY <2>1
  <2> HIDE DEF set
  <2>7. IntRelative(at, previous) = Bounded(previous, k, Buckets[b])
    <3>1. first # 1 /\ first - 1 = b /\ at + first = k
      BY <2>5, <1>1
    <3> QED BY <3>1, <1>7, <2>6
  <2> DEFINE offset == Ranged(k, span)
  <2>8. Bounded(previous, k, Buckets[b]) =
          IF ~Accepted(offset) THEN offset
          ELSE intRelativeResult(previous, offset.at, previous + lo + offset.value)
    BY DEF Bounded, span, lo
  <2>9. Position(k)
    <3>1. k \in 0..N
      BY <1>1, <1>15
    <3> QED BY <3>1 DEF Position, N
  <2> HIDE DEF k
  <2>10. Takes(offset, k, off, v0)
    BY <1>2, <1>3, <1>10, <2>9, RangedReads DEF off, w
  <2>11. at + Len(code) = k + w
    BY <1>1, <1>4, <1>9 DEF k
  <2> HIDE DEF offset
  <2>12. CASE ~(k + w <= N)
    <3>1. offset.reason = "past_end"
      BY <1>4, <2>10, <2>12 DEF Takes, N
    <3>2. IntRelative(at, previous) = offset
      BY <2>7, <2>8, <3>1 DEF Accepted, None
    <3> QED BY <2>11, <2>12, <3>1, <3>2 DEF Takes, code, N
  <2>13. CASE k + w <= N
    <3>1. offset = Accepts(k + w, off, v0)
      BY <1>4, <2>10, <2>13 DEF Takes, N
    <3>2. Accepted(offset) /\ offset.at = k + w /\ offset.value = v0
      BY <3>1 DEF Accepted, Accepts
    <3>3. IntRelative(at, previous) = intRelativeResult(previous, k + w, previous + lo + v0)
      BY <2>7, <2>8, <3>2
    <3>4. IntRelative(at, previous) = Accepts(k + w, code, v)
      BY <1>3, <3>3, ResultReads DEF code
    <3> QED BY <2>11, <2>13, <3>4 DEF Takes, code, N
  <2> QED BY <2>12, <2>13
<1> QED BY <1>14, <1>15

(***************************************************************************)
(* A number beyond every bucket.                                           *)
(***************************************************************************)
LEMMA FarReads ==
  ASSUME NEW at, Position(at), NEW previous \in Nat, NEW v \in previous+1..IntRelativeMax,
         v - previous > BoundedMax, Carries(at, IntRelativeCode(previous, v))
  PROVE  Takes(IntRelative(at, previous), at, IntRelativeCode(previous, v), v)
<1> DEFINE N == Len(data)
           flags == Len(Buckets) + 1
           set == {i \in 1..flags : at + i <= N /\ data[at+i] = 1}
           first == CHOOSE i \in set : \A j \in set : i <= j
           w == AbsoluteBits
           z == Zeros(flags)
           off == ToBits(v, w)
           code == IntRelativeCode(previous, v)
           k == at + flags
           group == Field(k, w)
<1>1. /\ at \in 0..N /\ at \in Nat /\ N \in Nat /\ flags \in Nat
      /\ previous \in Int /\ v \in Int /\ previous < v
  <2>1. IntRelativeMax \in Int
    BY Powers, DomainAssumption
  <2>2. Len(Buckets) \in Nat
    BY BucketFacts
  <2>3. at \in 0..N /\ N \in Nat
    BY DEF Position
  <2> HIDE DEF N
  <2> QED BY <2>1, <2>2, <2>3
<1>2. w \in Nat /\ v \in 0..2^w-1
  <2>1. w \in Nat /\ IntRelativeMax \in 1..2^w-1 /\ 2^w \in Nat
    BY Powers, DomainAssumption
  <2> HIDE DEF w
  <2> QED BY <2>1
<1>3. off \in Seq(Bit) /\ Len(off) = w
  BY <1>1, <1>2, FieldType
<1>4. code = z \o off
  BY <1>1, TierCodes
<1>5. z \in Seq(Bit) /\ Len(z) = flags
  BY <1>1 DEF Zeros, Bit
<1>6. IntRelative(at, previous) =
        IF set = {}
          THEN IF N - at < flags THEN Refuses("past_end", N) ELSE Absolute(previous, k)
          ELSE IF first = 1 THEN intRelativeResult(previous, at + 1, previous + 1)
                            ELSE Bounded(previous, at + first, Buckets[first-1])
  BY DEF IntRelative, numBits, Remaining
<1>7. Carries(at, code)
  OBVIOUS
<1> HIDE DEF z, off, code
<1>8. Carries(at, z) /\ Carries(k, off) /\ Len(code) = flags + w
  <2>1. Carries(at, z \o off) /\ at \in Nat /\ z \in Seq(Bit) /\ off \in Seq(Bit)
    BY <1>1, <1>3, <1>4, <1>5, <1>7
  <2>2. Carries(at, z) /\ Carries(at + Len(z), off) /\ Len(z \o off) = Len(z) + Len(off)
    BY ONLY <2>1, CarriesParts
  <2> QED BY <2>2, <1>3, <1>4, <1>5
<1>9. \A i \in 1..flags : at + i <= N => data[at+i] = 0
  BY <1>1, <1>8, NoFlagInZeros DEF z
<1> HIDE DEF first, flags, N
<1>10. set = {}
  <2> SUFFICES ASSUME NEW i \in set PROVE FALSE
    OBVIOUS
  <2>1. i \in 1..flags /\ at + i <= N /\ data[at+i] = 1
    OBVIOUS
  <2> QED BY <2>1, <1>9
<1> HIDE DEF set, w
<1>11. at + Len(code) = k + w
  BY <1>1, <1>2, <1>8
<1>12. CASE N - at < flags
  <2>1. IntRelative(at, previous).reason = "past_end"
    BY <1>6, <1>10, <1>12 DEF Refuses
  <2>2. ~(at + Len(code) <= N)
    BY <1>1, <1>2, <1>11, <1>12
  <2> QED BY <2>1, <2>2 DEF Takes, code, N
<1>13. CASE ~(N - at < flags)
  <2>1. IntRelative(at, previous) = Absolute(previous, k)
    BY <1>6, <1>10, <1>13
  <2>2. Position(k)
    <3>1. k \in 0..N
      BY <1>1, <1>13
    <3> QED BY <3>1 DEF Position, N
  <2>3. Absolute(previous, k) =
          IF ~Accepted(group) THEN group
          ELSE IF /\ group.value <= IntRelativeMax /\ group.value > previous
                  /\ group.value - previous <= BoundedMax
            THEN Refuses("non_canonical", group.at)
            ELSE intRelativeResult(previous, group.at, group.value)
    BY DEF Absolute, w
  <2> HIDE DEF k
  <2>4. Takes(group, k, off, v)
    BY <1>2, <1>8, <2>2, FieldReads DEF off
  <2> HIDE DEF group
  <2>5. CASE ~(k + w <= N)
    <3>1. group.reason = "past_end"
      BY <1>3, <2>4, <2>5 DEF Takes, N
    <3>2. IntRelative(at, previous) = group
      BY <2>1, <2>3, <3>1 DEF Accepted, None
    <3> QED BY <1>11, <2>5, <3>1, <3>2 DEF Takes, code, N
  <2>6. CASE k + w <= N
    <3>1. group = Accepts(k + w, off, v)
      BY <1>3, <2>4, <2>6 DEF Takes, N
    <3>2. Accepted(group) /\ group.at = k + w /\ group.value = v
      BY <3>1 DEF Accepted, Accepts
    <3>3. ~(v - previous <= BoundedMax)
      BY <1>1, BoundedMaxType
    <3>4. IntRelative(at, previous) = intRelativeResult(previous, k + w, v)
      BY <2>1, <2>3, <3>2, <3>3
    <3>5. IntRelative(at, previous) = Accepts(k + w, code, v)
      BY <3>4, ResultReads DEF code
    <3> QED BY <1>11, <2>6, <3>5 DEF Takes, code, N
  <2> QED BY <2>5, <2>6
<1> QED BY <1>12, <1>13

(***************************************************************************)
(* A number above the one before it is read, whatever its tier.            *)
(***************************************************************************)
LEMMA IntRelativeReads ==
  ASSUME NEW at, Position(at), NEW previous \in Nat, NEW v \in previous+1..IntRelativeMax,
         Carries(at, IntRelativeCode(previous, v))
  PROVE  Takes(IntRelative(at, previous), at, IntRelativeCode(previous, v), v)
<1>1. v - previous \in Nat \ {0}
  <2>1. IntRelativeMax \in Int
    BY Powers, DomainAssumption
  <2> QED BY <2>1
<1>2. CASE v - previous = 1
  BY <1>2, NextReads
<1>3. CASE v - previous > 1
  <2> DEFINE difference == v - previous
  <2>1. difference \in Nat /\ difference > 1
    BY <1>1, <1>3
  <2> HIDE DEF difference
  <2>2. \/ difference > BoundedMax
        \/ \E b \in 1..Len(Buckets) : difference \in Buckets[b].min..Buckets[b].max
    BY <2>1, TierOfDifference
  <2> QED BY <2>2, BucketReads, FarReads DEF difference
<1> QED BY <1>1, <1>2, <1>3

(***************************************************************************)
(* A number that is accepted is above the one before it, and has the bits  *)
(* a writer writes for it.                                                 *)
(***************************************************************************)
LEMMA IntRelativeTells ==
  ASSUME NEW at, NEW previous, Accepted(IntRelative(at, previous))
  PROVE  IntRelative(at, previous).code =
           IntRelativeCode(previous, IntRelative(at, previous).value)
<1> DEFINE Tells(o) == Accepted(o) => o.code = IntRelativeCode(previous, o.value)
<1>1. ASSUME NEW at2, NEW v PROVE Tells(intRelativeResult(previous, at2, v))
  <2>1. Tells(Accepts(at2, IntRelativeCode(previous, v), v))
    BY DEF Accepts
  <2>2. Tells(Refuses("value_out_of_range", at2))
    BY DEF Refuses, Accepted, None
  <2> QED BY <2>1, <2>2 DEF intRelativeResult
<1>2. \A reason, at2 : reason # None => ~Accepted(Refuses(reason, at2))
  BY DEF Refuses, Accepted
<1>3. "past_end" # None /\ "non_canonical" # None
  BY DEF None
<1>4. ASSUME NEW at2, NEW bucket PROVE Tells(Bounded(previous, at2, bucket))
  BY <1>1 DEF Bounded
<1>5. ASSUME NEW at2 PROVE Tells(Absolute(previous, at2))
  BY <1>1, <1>2, <1>3 DEF Absolute
<1> HIDE DEF Tells
<1>6. Tells(Refuses("past_end", numBits))
  BY <1>2, <1>3 DEF Tells
<1>7. Tells(IntRelative(at, previous))
  BY <1>1, <1>4, <1>5, <1>6 DEF IntRelative
<1> QED BY <1>7 DEF Tells

-----------------------------------------------------------------------------
(***************************************************************************)
(* Where the stream stands a decoder can be called.                        *)
(***************************************************************************)
LEMMA AtPosition ==
  ASSUME TypeOK
  PROVE  Position(bitsRead)
<1>1. data \in Packets \cup Later /\ bitsRead \in 0..Len(data)
  BY DEF TypeOK
<1>2. data \in Seq(Bit) /\ Len(data) % ByteBits = 0
  BY <1>1, PacketsAssumption
<1>3. Len(data) \in Nat
  BY <1>2, LenProperties
<1> QED BY <1>1, <1>2, <1>3 DEF Position

(***************************************************************************)
(* What the calls keep of everything but complete: nothing moves back, the *)
(* values read go on being the bits they were read from, and a stream that *)
(* has not refused has not refused before.                                 *)
(***************************************************************************)
Keeps == /\ UNCHANGED data
         /\ bitsRead' \in bitsRead..Len(data)
         /\ err' \in Refusals \cup {None}
         /\ returned' \in Refusals \cup {None}
         /\ depth' \in 0..Depth
         /\ echo' \in Seq(Bit)
         /\ Canonical'
         /\ err' = None => err = None

(***************************************************************************)
(* A call of a sound decoder.                                              *)
(***************************************************************************)
LEMMA SerializeKeeps ==
  ASSUME IInv, NEW o, Sound(o, bitsRead), Serialize(o)
  PROVE  /\ Keeps
         /\ err' = None => Accepted(o) /\ bitsRead' = o.at
<1>1. /\ data \in Seq(Bit) /\ Len(data) \in Nat /\ bitsRead \in 0..Len(data) /\ bitsRead \in Nat
      /\ err \in Refusals \cup {None} /\ returned \in Refusals \cup {None}
      /\ depth \in 0..Depth /\ echo \in Seq(Bit)
  BY AtPosition DEF IInv, TypeOK, Position
<1>2. data' = data /\ depth' = depth
  BY DEF Serialize
<1>3. CASE err # None
  <2>1. returned' = err /\ bitsRead' = bitsRead /\ err' = err /\ echo' = echo
    BY <1>3 DEF Serialize
  <2> QED BY <1>1, <1>2, <1>3, <2>1 DEF Keeps, Canonical
<1>4. CASE err = None
  <2>1. /\ bitsRead' = o.at
        /\ IF Accepted(o) THEN returned' = None /\ err' = err
                          ELSE err' = o.reason /\ returned' = err'
        /\ echo' = echo \o o.code
    BY <1>4 DEF Serialize, fail
  <2>2. /\ o.at \in bitsRead..Len(data) /\ o.reason \in Refusals \cup {None}
        /\ o.code = IF Accepted(o) THEN BitsAt(bitsRead, o.at - bitsRead) ELSE <<>>
    BY DEF Sound
  <2>3. CASE ~Accepted(o)
    <3>1. o.reason # None /\ echo' = echo
      BY <1>1, <2>1, <2>2, <2>3, ConcatEmptySeq DEF Accepted
    <3> QED BY <1>1, <1>2, <2>1, <2>2, <2>3, <3>1 DEF Keeps, Canonical
  <2>4. CASE Accepted(o)
    <3> DEFINE n == o.at - bitsRead
    <3>1. n \in Nat /\ bitsRead + n = o.at /\ 0 + bitsRead + n <= Len(data) /\ 0 \in Nat /\ bitsRead \in Nat
      BY <1>1, <2>2
    <3>2. echo = BitsAt(0, bitsRead)
      BY <1>1, <1>4 DEF IInv, Canonical, BitsAt
    <3> HIDE DEF n
    <3>3. BitsAt(0, bitsRead) \o BitsAt(0 + bitsRead, n) = BitsAt(0, bitsRead + n)
      BY <3>1, <1>1, PieceJoin
    <3>4. 0 + bitsRead = bitsRead /\ 0 + (bitsRead + n) <= Len(data) /\ bitsRead + n \in Nat
      BY <3>1, <1>1
    <3>5. echo' = BitsAt(0, bitsRead + n)
      BY <2>1, <2>2, <2>4, <3>2, <3>3, <3>4 DEF n
    <3>6. echo' \in Seq(Bit)
      BY <3>1, <3>4, <3>5, <1>1, PieceFacts
    <3>7. echo' = SubSeq(data', 1, bitsRead')
      BY <1>1, <1>2, <2>1, <3>1, <3>5 DEF BitsAt
    <3> QED BY <1>1, <1>2, <1>4, <2>1, <2>2, <2>4, <3>6, <3>7 DEF Keeps, Canonical
  <2> QED BY <2>3, <2>4
<1> QED BY <1>3, <1>4

(***************************************************************************)
(* A call that keeps all this and does not accept the end of the packet    *)
(* keeps the invariant.                                                    *)
(***************************************************************************)
LEMMA KeepsIInv ==
  ASSUME IInv, Keeps, UNCHANGED complete
  PROVE  IInv'
<1>1. Len(data) \in Nat /\ bitsRead \in 0..Len(data)
  BY AtPosition DEF IInv, Position
<1>2. bitsRead' \in bitsRead..Len(data) /\ data' = data
  BY DEF Keeps
<1>3. bitsRead' \in 0..Len(data')
  BY <1>1, <1>2
<1>4. TypeOK'
  BY <1>2, <1>3 DEF Keeps, IInv, TypeOK
<1>5. ReadToTheEnd'
  <2> SUFFICES ASSUME complete', err' = None PROVE bitsRead' = Len(data')
    BY DEF ReadToTheEnd
  <2>1. bitsRead = Len(data)
    BY DEF IInv, ReadToTheEnd, Keeps
  <2> QED BY <2>1, <1>1, <1>2
<1> QED BY <1>4, <1>5 DEF Keeps, IInv

(***************************************************************************)
(* Every read.                                                             *)
(***************************************************************************)
LEMMA ReadsKeep ==
  ASSUME IInv, Reads
  PROVE  IInv' /\ Keeps
<1>1. Position(bitsRead)
  BY AtPosition DEF IInv
<1>2. ASSUME NEW n \in Widths, SerializeBits(n) PROVE Keeps /\ UNCHANGED complete
  BY <1>1, <1>2, FieldSound, SerializeKeeps, DeclarationsAssumption DEF SerializeBits
<1>3. ASSUME NEW span \in Spans, SerializeInt(span) PROVE Keeps /\ UNCHANGED complete
  BY <1>1, <1>3, RangedSound, SerializeKeeps, DeclarationsAssumption DEF SerializeInt
<1>4. ASSUME SerializeFloat PROVE Keeps /\ UNCHANGED complete
  BY <1>1, <1>4, FloatSound, SerializeKeeps DEF SerializeFloat
<1>5. ASSUME SerializeAlign PROVE Keeps /\ UNCHANGED complete
  BY <1>1, <1>5, AlignSound, SerializeKeeps DEF SerializeAlign
<1>6. ASSUME NEW count \in Counts, SerializeBytes(count) PROVE Keeps /\ UNCHANGED complete
  BY <1>1, <1>6, BytesSound, SerializeKeeps, DeclarationsAssumption DEF SerializeBytes
<1>7. ASSUME NEW size \in Sizes, SerializeString(size) PROVE Keeps /\ UNCHANGED complete
  BY <1>1, <1>7, StringSound, SerializeKeeps, DeclarationsAssumption DEF SerializeString
<1>8. ASSUME NEW previous \in Previous, SerializeIntRelative(previous)
      PROVE  Keeps /\ UNCHANGED complete
  BY <1>1, <1>8, IntRelativeSound, SerializeKeeps, DeclarationsAssumption
     DEF SerializeIntRelative
<1>9. CASE SerializeEnd
  <2>1. Sound(End(bitsRead), bitsRead) /\ (Accepted(End(bitsRead)) => End(bitsRead).at = Len(data))
    BY <1>1, EndSound
  <2>2. Keeps /\ (err' = None => Accepted(End(bitsRead)) /\ bitsRead' = End(bitsRead).at)
    BY <1>9, <2>1, SerializeKeeps DEF SerializeEnd
  <2>3. /\ complete' \in BOOLEAN
        /\ err' = None => bitsRead' = Len(data')
    BY <1>9, <2>1, <2>2 DEF SerializeEnd, Keeps, IInv, TypeOK
  <2>4. bitsRead' \in 0..Len(data')
    BY <1>1, <2>2 DEF Keeps, Position
  <2>5. TypeOK'
    BY <2>2, <2>3, <2>4 DEF Keeps, IInv, TypeOK
  <2> QED BY <2>2, <2>3, <2>5 DEF Keeps, IInv, ReadToTheEnd
<1> QED BY <1>2, <1>3, <1>4, <1>5, <1>6, <1>7, <1>8, <1>9, KeepsIInv DEF Reads

(***************************************************************************)
(* What the caller refuses with, what it passes on and what it calls it.   *)
(***************************************************************************)
LEMMA ClosedRefusalType ==
  ASSUME NEW reason
  PROVE  closedRefusal(reason) \in Refusals
BY DEF closedRefusal, Refusals

(***************************************************************************)
(* The refusals of the caller, and the objects it enters and leaves, move  *)
(* nothing and clear nothing.                                              *)
(***************************************************************************)
LEMMA RefusingKeeps ==
  ASSUME IInv, ReturnsTheLatch, Refusing
  PROVE  IInv' /\ Keeps
<1>1. /\ Len(data) \in Nat /\ bitsRead \in 0..Len(data)
      /\ bitsRead \in bitsRead..Len(data)
  BY AtPosition DEF IInv, Position
<1>2. /\ err \in Refusals \cup {None} /\ returned \in Refusals \cup {None}
      /\ depth \in 0..Depth /\ depth \in Nat /\ Depth \in Nat /\ echo \in Seq(Bit)
  BY DeclarationsAssumption DEF IInv, TypeOK
<1>3. "value_out_of_range" \in Refusals /\ \A r \in Refusals : r # None
  BY DEF Refusals, None
<1>4. ASSUME UNCHANGED <<data, bitsRead, echo>>, err' \in Refusals \cup {None},
             returned' = err', depth' \in 0..Depth, err' = None => err = None
      PROVE  Keeps
  BY <1>1, <1>2, <1>4 DEF Keeps, IInv, Canonical
<1>5. ASSUME NEW reason \in Refusals, fail(reason)
      PROVE  err' \in Refusals \cup {None} /\ returned' = err' /\ (err' = None => err = None)
  BY <1>2, <1>3, <1>5 DEF fail
<1>6. CASE BadDeclaration
  <2>1. Keeps
    BY <1>2, <1>3, <1>4, <1>5, <1>6 DEF BadDeclaration
  <2> QED BY <2>1, <1>6, KeepsIInv DEF BadDeclaration
<1>7. CASE \E reason \in {"rejected", "past_end", None, OwnError} : Fail(reason)
  <2>1. PICK reason \in {"rejected", "past_end", None, OwnError} : Fail(reason)
    BY <1>7
  <2>2. fail(closedRefusal(reason)) /\ UNCHANGED <<data, bitsRead, depth, echo, complete>>
    BY <2>1 DEF Fail
  <2>3. Keeps
    BY <2>2, <1>2, <1>4, <1>5, ClosedRefusalType
  <2> QED BY <2>2, <2>3, KeepsIInv
<1>8. CASE EnterObject
  <2>1. UNCHANGED <<data, bitsRead, err, echo, complete>> /\ returned' = err'
    BY <1>8 DEF EnterObject, ReturnsTheLatch
  <2>2. depth' \in 0..Depth
    BY <1>8, <1>2 DEF EnterObject
  <2>3. Keeps
    BY <2>1, <2>2, <1>2, <1>4
  <2> QED BY <2>1, <2>3, KeepsIInv
<1>9. CASE \E e \in {None, "invalid_utf8", OwnError} : LeaveObject(e)
  <2>1. PICK e \in {None, "invalid_utf8", OwnError} : LeaveObject(e)
    BY <1>9
  <2>2. /\ UNCHANGED <<data, bitsRead, echo, complete>>
        /\ err' \in Refusals \cup {None} /\ returned' = err' /\ (err' = None => err = None)
    <3>1. CASE e = None \/ err # None
      BY <2>1, <3>1, <1>2 DEF LeaveObject
    <3>2. CASE ~(e = None \/ err # None)
      BY <2>1, <3>2, <1>5, ClosedRefusalType DEF LeaveObject
    <3> QED BY <3>1, <3>2
  <2>3. depth' \in 0..Depth
    BY <2>1, <1>2 DEF LeaveObject
  <2>4. Keeps
    BY <2>2, <2>3, <1>4
  <2> QED BY <2>2, <2>4, KeepsIInv
<1> QED BY <1>6, <1>7, <1>8, <1>9 DEF Refusing

(***************************************************************************)
(* A packet at its start: nothing is read, and nothing is echoed.          *)
(***************************************************************************)
LEMMA StartIInv ==
  ASSUME data \in Packets \cup Later, bitsRead = 0, err = None, returned = None,
         depth \in 0..Depth, echo = <<>>, complete = FALSE
  PROVE  IInv
<1>1. Len(data) \in Nat
  BY PacketsAssumption, LenProperties
<1>2. TypeOK
  <2>1. <<>> \in Seq(Bit)
    BY EmptySeq
  <2>2. bitsRead \in 0..Len(data)
    BY <1>1
  <2>3. complete \in BOOLEAN /\ echo \in Seq(Bit)
    BY <2>1, Zenon
  <2> QED BY <2>2, <2>3, Zenon DEF TypeOK
<1>3. SubSeq(data, 1, 0) = <<>>
  BY SubSeqEmpty
<1> QED BY <1>2, <1>3 DEF IInv, Canonical, ReadToTheEnd

(***************************************************************************)
(* Every step of the stream keeps the invariant.                           *)
(***************************************************************************)
LEMMA StepIInv ==
  ASSUME IInv, ReturnsTheLatch, [Next]_vars
  PROVE  IInv'
<1>1. CASE Reads
  BY <1>1, ReadsKeep
<1>2. CASE Refusing
  BY <1>2, RefusingKeeps
<1>3. CASE \E packet \in Later : Reset(packet)
  <2>1. /\ data' \in Packets \cup Later /\ bitsRead' = 0 /\ err' = None /\ returned' = None
        /\ depth' \in 0..Depth /\ echo' = <<>> /\ complete' = FALSE
    BY <1>3 DEF Reset, IInv, TypeOK
  <2>2. Len(data') \in Nat
    BY <2>1, PacketsAssumption, LenProperties
  <2>3. TypeOK'
    <3>1. <<>> \in Seq(Bit)
      BY EmptySeq
    <3>2. bitsRead' \in 0..Len(data')
      BY <2>1, <2>2
    <3>3. complete' \in BOOLEAN /\ echo' \in Seq(Bit)
      BY <2>1, <3>1, Zenon
    <3> QED BY <2>1, <3>2, <3>3, Zenon DEF TypeOK
  <2>4. SubSeq(data', 1, 0) = <<>>
    BY SubSeqEmpty
  <2> QED BY <2>1, <2>3, <2>4 DEF IInv, Canonical, ReadToTheEnd
<1>4. CASE UNCHANGED vars
  BY <1>4 DEF vars, IInv, TypeOK, Canonical, ReadToTheEnd
<1> QED BY <1>1, <1>2, <1>3, <1>4 DEF Next, Reads, Refusing

(***************************************************************************)
(* The read stream keeps its invariant, on every packet and under every    *)
(* order of calls: what it has read without refusing is what a writer      *)
(* writes for the values it returned, and a packet it accepted to its end  *)
(* has no bit left.                                                        *)
(***************************************************************************)
THEOREM InductiveInvariant == Spec => []IInv
<1>1. Init => IInv
  <2>1. 0 \in 0..Depth
    BY DeclarationsAssumption
  <2> QED BY <2>1, StartIInv DEF Init
<1>2. IInv /\ ReturnsTheLatch /\ [Next]_vars => IInv'
  BY StepIInv
<1> QED BY <1>1, <1>2, ReturnsWhatIsLatched, PTL DEF Spec

(***************************************************************************)
(* No value has a second encoding: as long as nothing is refused, the bits *)
(* read are the bits a writer writes for the values read.                  *)
(***************************************************************************)
THEOREM NoSecondEncoding == Spec => []Canonical
<1>1. IInv => Canonical
  BY DEF IInv
<1> QED BY <1>1, InductiveInvariant, PTL

(***************************************************************************)
(* SerializeEnd: a packet accepted to its end is, to the last bit, what a  *)
(* writer writes for the values read from it.                              *)
(***************************************************************************)
THEOREM OnePacket == Spec => []OneEncoding
<1>1. IInv => OneEncoding
  <2> SUFFICES ASSUME IInv, complete, err = None
               PROVE  echo = data /\ bitsRead = Len(data)
    BY DEF OneEncoding
  <2>1. bitsRead = Len(data) /\ echo = SubSeq(data, 1, bitsRead)
    BY DEF IInv, ReadToTheEnd, Canonical
  <2>2. data \in Seq(Bit)
    BY AtPosition DEF IInv, Position
  <2> QED BY <2>1, <2>2, SubSeqFull
<1> QED BY <1>1, InductiveInvariant, PTL

-----------------------------------------------------------------------------
(***************************************************************************)
(* The loops of Continue and Until.  What holds between the rounds: every  *)
(* body begun has cost a bit of the packet, and none is begun on a stream  *)
(* that refused.                                                           *)
(***************************************************************************)
LoopInv == /\ IInv /\ ReturnsTheLatch
           /\ rounds \in Nat
           /\ BoundedByPacket

(***************************************************************************)
(* The head of the loop: it goes on only if a bit was read.                *)
(***************************************************************************)
LEMMA ConditionKeeps ==
  ASSUME LoopInv, Condition
  PROVE  LoopInv'
<1>1. /\ IInv /\ ReturnsTheLatch /\ rounds \in Nat /\ rounds <= bitsRead
  BY DEF LoopInv, BoundedByPacket
<1>2. Serialize(Bool) /\ UNCHANGED complete
  BY DEF Condition
<1>3. Position(bitsRead)
  BY <1>1, AtPosition DEF IInv
<1>4. /\ Sound(Bool, bitsRead)
      /\ Accepted(Bool) => Bool.at = bitsRead + 1
  BY <1>3, FieldSound DEF Bool
<1>5. Keeps /\ (err' = None => Accepted(Bool) /\ bitsRead' = Bool.at)
  BY <1>1, <1>2, <1>4, SerializeKeeps
<1>6. IInv'
  BY <1>1, <1>2, <1>5, KeepsIInv
<1>7. returned' = err'
  BY <1>2, SerializeLatches DEF Latches
<1>8. bitsRead \in Nat /\ bitsRead' \in Nat /\ bitsRead <= bitsRead'
  BY <1>3, <1>5 DEF Position, Keeps
<1>9. rounds' \in Nat /\ rounds' <= bitsRead' /\ (pc' = "body" => err' = None)
  <2>1. CASE pc' = "body" /\ rounds' = Counted(rounds) /\ returned' = None
    <3>1. Counted(rounds) \in Nat /\ Counted(rounds) <= rounds + 1
      BY <1>1 DEF Counted
    <3>2. err' = None /\ bitsRead' = bitsRead + 1
      BY <2>1, <1>4, <1>5, <1>7
    <3> QED BY <2>1, <3>1, <3>2, <1>1, <1>8
  <2>2. CASE pc' = "exit" /\ rounds' = rounds
    BY <2>2, <1>1, <1>8
  <2> QED BY <2>1, <2>2 DEF Condition, GoesOn
<1> QED BY <1>6, <1>7, <1>9 DEF LoopInv, ReturnsTheLatch, BoundedByPacket

(***************************************************************************)
(* The body: an element never moves the stream back, and the head follows. *)
(***************************************************************************)
LEMMA BodyKeeps ==
  ASSUME LoopInv, Body
  PROVE  LoopInv'
<1>1. /\ IInv /\ ReturnsTheLatch /\ rounds \in Nat /\ rounds <= bitsRead
  BY DEF LoopInv, BoundedByPacket
<1>2. Reads \/ Refusing
  BY DEF Body, Element, Reads, Refusing
<1>3. IInv' /\ Keeps
  BY <1>1, <1>2, ReadsKeep, RefusingKeeps
<1>4. returned' = err'
  BY <1>1, <1>2, ReadsLatch, RefusingLatches DEF Latches
<1>5. bitsRead \in Nat /\ bitsRead' \in Nat /\ bitsRead <= bitsRead'
  BY <1>1, <1>3, AtPosition DEF IInv, Position, Keeps
<1>6. rounds' = rounds /\ pc' # "body"
  BY DEF Body
<1> QED BY <1>1, <1>3, <1>4, <1>5, <1>6 DEF LoopInv, ReturnsTheLatch, BoundedByPacket

(***************************************************************************)
(* "... bounded by the size of the packet" (Continue): a loop begins no    *)
(* more bodies than bits were read, whatever its elements are and even if  *)
(* they take none, and it begins none for a flag that did not come from    *)
(* the packet.                                                             *)
(***************************************************************************)
THEOREM LoopsAreBounded == LoopSpec => []BoundedByPacket
<1>1. LoopInit => LoopInv
  <2> SUFFICES ASSUME LoopInit PROVE LoopInv
    OBVIOUS
  <2>1. Init /\ rounds = 0 /\ pc = "head"
    BY DEF LoopInit
  <2>2. IInv
    <3>1. 0 \in 0..Depth
      BY DeclarationsAssumption
    <3> QED BY <2>1, <3>1, StartIInv DEF Init
  <2> QED BY <2>1, <2>2 DEF LoopInv, Init, ReturnsTheLatch, BoundedByPacket
<1>2. LoopInv /\ [LoopNext]_loopVars => LoopInv'
  <2> SUFFICES ASSUME LoopInv, [LoopNext]_loopVars PROVE LoopInv'
    OBVIOUS
  <2>1. CASE Condition
    BY <2>1, ConditionKeeps
  <2>2. CASE Body
    BY <2>2, BodyKeeps
  <2>3. CASE UNCHANGED loopVars
    BY <2>3 DEF loopVars, vars, LoopInv, IInv, TypeOK, Canonical, ReadToTheEnd,
                ReturnsTheLatch, BoundedByPacket
  <2> QED BY <2>1, <2>2, <2>3 DEF LoopNext
<1>3. LoopInv => BoundedByPacket
  BY DEF LoopInv
<1> QED BY <1>1, <1>2, <1>3, PTL DEF LoopSpec
=============================================================================

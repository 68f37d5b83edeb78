--------------------------- MODULE MessageProofs ---------------------------
(***************************************************************************)
(* One serialize function on both ends, for every schema, every object and *)
(* every packet the network makes of what was sent.  First the text that   *)
(* CopyString cuts; then what each field does at a position, by the lemmas *)
(* on the decoders of the read stream; last the positions of the fields in *)
(* the packet, which the sender makes and the receiver follows.            *)
(***************************************************************************)
EXTENDS Message, CodecProofs, SequenceTheorems

RP == INSTANCE ReadStreamProofs WITH Packets <- {<<>>}, Later <- {}, Widths <- {}, Spans <- {},
        Counts <- {}, Sizes <- {}, Previous <- {}, Depth <- 0, NonFinite <- {}, FloatBits <- 0,
        helper <- 0, flag <- 0, pc <- 0, rounds <- 0

-----------------------------------------------------------------------------
(***************************************************************************)
(* A beginning of a text, by its length and its bytes.                     *)
(***************************************************************************)
LEMMA Beginning ==
  ASSUME NEW S, NEW s \in Seq(S), NEW n \in 0..Len(s)
  PROVE  /\ SubSeq(s, 1, n) \in Seq(S) /\ Len(SubSeq(s, 1, n)) = n
         /\ DOMAIN SubSeq(s, 1, n) = 1..n
         /\ \A i \in 1..n : SubSeq(s, 1, n)[i] = s[i]
<1>1. Len(s) \in Nat /\ (\A i \in 1..Len(s) : s[i] \in S)
  BY ElementsOf
<1>2. n \in Int /\ 1 \in Int /\ n - 1 + 1 = n /\ (\A i \in 1..n : s[i] \in S)
  BY <1>1
<1>3. /\ SubSeq(s, 1, n) \in Seq(S)
      /\ Len(SubSeq(s, 1, n)) = IF 1 <= n THEN n - 1 + 1 ELSE 0
      /\ \A i \in 1..n-1+1 : SubSeq(s, 1, n)[i] = s[1+i-1]
  BY <1>2, SubSeqProperties
<1>4. Len(SubSeq(s, 1, n)) = n
  BY <1>1, <1>3
<1>5. \A i \in 1..n : SubSeq(s, 1, n)[i] = s[i]
  BY <1>2, <1>3
<1> QED BY <1>3, <1>4, <1>5, LenProperties

(***************************************************************************)
(* The form of a text by the set of places where a character starts.       *)
(***************************************************************************)
LEMMA FormByStarts ==
  ASSUME NEW s, NEW S, S = {i \in DOMAIN s : s[i] \in DOMAIN Follow}
  PROVE  WellFormed(s) <=> /\ \A i \in DOMAIN s \ S : s[i] \in Continuation
                           /\ \A i \in S : i + Follow[s[i]] <= Len(s)
                           /\ \A i \in DOMAIN s :
                                i \notin S <=> \E j \in S : j < i /\ i <= j + Follow[s[j]]
BY DEF WellFormed

(***************************************************************************)
(* What is left of well-formed text that is cut where a character starts,  *)
(* or not at all, or to nothing, is well formed.                           *)
(***************************************************************************)
LEMMA CutBetweenCharacters ==
  ASSUME NEW s \in Seq(Byte), NEW n \in 0..Len(s), WellFormed(s),
         n = 0 \/ n = Len(s) \/ s[n+1] \notin Continuation
  PROVE  WellFormed(SubSeq(s, 1, n))
<1> DEFINE t == SubSeq(s, 1, n)
           N == Len(s)
           S == {i \in DOMAIN s : s[i] \in DOMAIN Follow}
           T == {i \in DOMAIN t : t[i] \in DOMAIN Follow}
<1>1. N \in Nat /\ n \in 0..N /\ DOMAIN s = 1..N
  BY LenProperties
<1>2. DOMAIN t = 1..n /\ Len(t) = n /\ \A i \in 1..n : t[i] = s[i]
  BY Beginning
<1>3. \A i : i \in S <=> i \in DOMAIN s /\ s[i] \in DOMAIN Follow
  OBVIOUS
<1>4. \A i : i \in T <=> i \in DOMAIN t /\ t[i] \in DOMAIN Follow
  OBVIOUS
<1> HIDE DEF S, N
<1>5. /\ \A i \in DOMAIN s \ S : s[i] \in Continuation
      /\ \A i \in S : i + Follow[s[i]] <= Len(s)
      /\ \A i \in DOMAIN s : i \notin S <=> \E j \in S : j < i /\ i <= j + Follow[s[j]]
  BY FormByStarts DEF S
<1>6. WellFormed(t) <=> /\ \A i \in DOMAIN t \ T : t[i] \in Continuation
                        /\ \A i \in T : i + Follow[t[i]] <= Len(t)
                        /\ \A i \in DOMAIN t :
                             i \notin T <=> \E j \in T : j < i /\ i <= j + Follow[t[j]]
  <2> HIDE DEF t
  <2> QED BY FormByStarts
<1> HIDE DEF t, T
<1>7. \A i \in S : i \in 1..N /\ Follow[s[i]] \in Nat
  BY <1>1, <1>3, TextAssumption
<1>8. \A i : i \in T <=> i \in 1..n /\ i \in S
  <2> SUFFICES ASSUME NEW i PROVE i \in T <=> i \in 1..n /\ i \in S
    OBVIOUS
  <2>1. i \in 1..n => i \in 1..N /\ t[i] = s[i]
    BY <1>1, <1>2
  <2> QED BY <2>1, <1>1, <1>2, <1>3, <1>4
<1>9. n # 0 /\ n < N => n + 1 \in S
  <2> SUFFICES ASSUME n # 0, n < N PROVE n + 1 \in S
    OBVIOUS
  <2>1. n \in 0..N /\ N \in Nat /\ n < N
    BY <1>1
  <2>2. n + 1 \in 1..N /\ n # N
    BY ONLY <2>1
  <2>3. s[n+1] \notin Continuation
    BY <2>2 DEF N
  <2> QED BY <2>2, <2>3, <1>1, <1>5
<1>10. ASSUME NEW i \in DOMAIN t \ T PROVE t[i] \in Continuation
  <2>1. i \in 1..n /\ i \in DOMAIN s /\ i \notin S /\ t[i] = s[i]
    BY <1>1, <1>2, <1>8
  <2> QED BY <2>1, <1>5
<1>11. ASSUME NEW i \in T PROVE i + Follow[t[i]] <= Len(t)
  <2>1. i \in 1..n /\ i \in S /\ t[i] = s[i] /\ n # 0
    BY <1>1, <1>2, <1>8
  <2>2. i + Follow[s[i]] <= N /\ Follow[s[i]] \in Nat
    BY <2>1, <1>5, <1>7 DEF N
  <2> SUFFICES ASSUME ~(i + Follow[s[i]] <= n) PROVE FALSE
    BY <2>1, <1>2
  <2>3. n < N /\ i < n + 1 /\ n + 1 <= i + Follow[s[i]] /\ n + 1 \in 1..N
    BY <2>1, <2>2, <1>1
  <2>4. n + 1 \notin S
    BY <2>1, <2>3, <1>1, <1>5
  <2> QED BY <2>1, <2>3, <2>4, <1>9
<1>12. ASSUME NEW i \in DOMAIN t
       PROVE  i \notin T <=> \E j \in T : j < i /\ i <= j + Follow[t[j]]
  <2>1. i \in 1..n /\ i \in DOMAIN s /\ (i \in T <=> i \in S)
    BY <1>1, <1>2, <1>8
  <2>2. ASSUME NEW j \in S, j < i PROVE j \in T /\ t[j] = s[j]
    <3>1. j \in 1..n
      BY <2>1, <2>2, <1>1, <1>7
    <3> QED BY <3>1, <2>2, <1>2, <1>8
  <2>3. \A j \in T : j \in S /\ t[j] = s[j]
    BY <1>2, <1>8
  <2>4. i \notin S <=> \E j \in S : j < i /\ i <= j + Follow[s[j]]
    BY <2>1, <1>5
  <2> QED BY <2>1, <2>2, <2>3, <2>4
<1> QED BY <1>6, <1>10, <1>11, <1>12 DEF t

(***************************************************************************)
(* What CopyString copies, by the number of bytes.                         *)
(***************************************************************************)
LEMMA CopyStringLength ==
  ASSUME NEW source \in Seq(Byte), NEW size \in Nat \ {0}
  PROVE  \E n \in 0..Len(source) :
           /\ CopyString(source, size) = SubSeq(source, 1, n)
           /\ n < size
           /\ \A i \in 1..n : source[i] # NUL
           /\ n = 0 \/ n = Len(source) \/ source[n+1] \notin Continuation
           /\ \A m \in n+1..Len(source) :
                \/ m >= size
                \/ \E i \in 1..m : source[i] = NUL
                \/ m < Len(source) /\ source[m+1] \in Continuation
<1> DEFINE N == Len(source)
           nuls == {i \in DOMAIN source : source[i] = NUL}
           firstNul == CHOOSE i \in nuls : \A j \in nuls : i <= j
           length == IF nuls = {} THEN N ELSE firstNul - 1
           kept == {n \in 0..size-1 : n = 0 \/ source[n+1] \notin Continuation}
           most == CHOOSE n \in kept : \A m \in kept : m <= n
           Cut(n) == /\ CopyString(source, size) = SubSeq(source, 1, n)
                     /\ n < size
                     /\ \A i \in 1..n : source[i] # NUL
                     /\ n = 0 \/ n = N \/ source[n+1] \notin Continuation
                     /\ \A m \in n+1..N : \/ m >= size
                                          \/ \E i \in 1..m : source[i] = NUL
                                          \/ m < N /\ source[m+1] \in Continuation
<1>1. N \in Nat /\ DOMAIN source = 1..N
  BY LenProperties
<1>2. CopyString(source, size) = IF length <= size - 1 THEN SubSeq(source, 1, length)
                                 ELSE SubSeq(source, 1, most)
  BY DEF CopyString
<1> HIDE DEF firstNul, most
<1>3. /\ length \in 0..N
      /\ \A i \in 1..length : source[i] # NUL
      /\ length < N => source[length+1] = NUL
  <2>1. CASE nuls = {}
    BY <1>1, <2>1
  <2>2. CASE nuls # {}
    <3>1. nuls \subseteq Nat
      BY <1>1
    <3>2. \E i \in nuls : \A j \in nuls : i <= j
      <4> HIDE DEF nuls
      <4> QED BY <3>1, <2>2, Least
    <3>3. firstNul \in nuls /\ \A j \in nuls : firstNul <= j
      BY <3>2, Zenon DEF firstNul
    <3>4. firstNul \in 1..N /\ source[firstNul] = NUL
      BY <3>3, <1>1
    <3>5. length = firstNul - 1 /\ length + 1 = firstNul /\ length \in 0..N
      BY <2>2, <3>4, <1>1
    <3>6. ASSUME NEW i \in 1..length PROVE source[i] # NUL
      <4>1. i \in 1..N /\ i < firstNul
        BY <3>4, <3>5, <1>1
      <4>2. i \notin nuls
        BY <4>1, <3>3, <3>4
      <4> QED BY <4>1, <4>2, <1>1
    <3> QED BY <3>4, <3>5, <3>6
  <2> QED BY <2>1, <2>2
<1>4. NUL \notin Continuation
  BY TextAssumption DEF NUL
<1> HIDE DEF length
<1>5. CASE length <= size - 1
  <2>1. CopyString(source, size) = SubSeq(source, 1, length) /\ length < size
    BY <1>1, <1>2, <1>3, <1>5
  <2>2. length = N \/ source[length+1] \notin Continuation
    <3>1. length \in 0..N /\ N \in Nat /\ (length < N => source[length+1] = NUL)
      BY <1>1, <1>3
    <3> HIDE DEF N
    <3>2. length = N \/ length < N
      BY ONLY <3>1
    <3> QED BY <3>1, <3>2, <1>4
  <2>3. ASSUME NEW m \in length+1..N PROVE \E i \in 1..m : source[i] = NUL
    <3>1. length < N /\ length + 1 \in 1..m
      BY <1>1, <1>3, <2>3
    <3> QED BY <3>1, <1>3
  <2>4. Cut(length)
    BY <1>3, <2>1, <2>2, <2>3
  <2> QED BY <2>4, <1>3
<1>6. CASE ~(length <= size - 1)
  <2>1. size - 1 \in Nat /\ size <= N
    BY <1>1, <1>3, <1>6
  <2>2. \E n \in kept : \A m \in kept : m <= n
    <3> DEFINE left == {k \in 0..size-1 : (size - 1) - k \in kept}
    <3>1. 0 \in kept
      BY <2>1
    <3>2. size - 1 \in left
      BY <2>1, <3>1
    <3>3. left \subseteq Nat
      BY <2>1
    <3>4. PICK k \in left : \A l \in left : k <= l
      <4> HIDE DEF left
      <4> QED BY <3>2, <3>3, Least
    <3>5. k \in 0..size-1 /\ (size - 1) - k \in kept
      BY <3>4
    <3>6. ASSUME NEW m \in kept PROVE m <= (size - 1) - k
      <4>1. m \in 0..size-1
        OBVIOUS
      <4>2. (size - 1) - m \in 0..size-1 /\ (size - 1) - ((size - 1) - m) = m
        BY <4>1, <2>1
      <4>3. (size - 1) - m \in left
        BY <4>2
      <4>4. k <= (size - 1) - m
        BY <4>3, <3>4
      <4> QED BY <4>1, <4>4, <3>5, <2>1
    <3> QED BY <3>5, <3>6
  <2>3. most \in kept /\ \A m \in kept : m <= most
    BY <2>2, Zenon DEF most
  <2>4. CopyString(source, size) = SubSeq(source, 1, most)
    BY <1>2, <1>6
  <2>5. most \in 0..size-1 /\ (most = 0 \/ source[most+1] \notin Continuation) /\ most < size
        /\ most < length /\ most \in 0..N
    BY <2>1, <2>3, <1>1, <1>3, <1>6
  <2>6. \A i \in 1..most : source[i] # NUL
    BY <2>5, <1>1, <1>3
  <2>7. ASSUME NEW m \in most+1..N, ~(m >= size) PROVE m < N /\ source[m+1] \in Continuation
    <3>1. m \in 0..size-1 /\ m < N /\ ~(m <= most) /\ m # 0
      BY <2>1, <2>5, <2>7, <1>1
    <3>2. m \notin kept
      BY <3>1, <2>3
    <3> QED BY <3>1, <3>2
  <2>8. Cut(most)
    BY <2>4, <2>5, <2>6, <2>7
  <2> QED BY <2>5, <2>8
<1> QED BY <1>5, <1>6

-----------------------------------------------------------------------------
(***************************************************************************)
(* What the lemmas on the read stream assume of its constants, here.       *)
(***************************************************************************)
LEMMA Standing ==
  /\ {} \subseteq Nat /\ {} \subseteq Nat \ {0} /\ {} \subseteq Int /\ 0 \in Nat
  /\ \A p \in {<<>>} \cup {} : p \in Seq(RP!Bit) /\ Len(p) % ByteBits = 0
<1>1. \A p \in {<<>>} \cup {} : p = <<>>
  OBVIOUS
<1>2. <<>> \in Seq(RP!Bit) /\ Len(<<>>) = 0
  OBVIOUS
<1>3. 0 % ByteBits = 0
  BY GeometryAssumption
<1>4. \A p \in {<<>>} \cup {} : p \in Seq(RP!Bit) /\ Len(p) % ByteBits = 0
  BY <1>1, <1>2, <1>3
<1>5. {} \subseteq Nat /\ {} \subseteq Nat \ {0} /\ {} \subseteq Int /\ 0 \in Nat
  OBVIOUS
<1> QED BY <1>4, <1>5

(***************************************************************************)
(* The definitions the instances repeat are the same: the encodings,       *)
(***************************************************************************)
LEMMA SameCodes ==
  /\ \A v, n : RP!ToBits(v, n) = ToBits(v, n)
  /\ \A s : RP!FromBits(s) = FromBits(s)
  /\ \A span : RP!BitsRequired(span) = BitsRequired(span)
  /\ \A n : RP!Zeros(n) = Zeros(n) /\ W!Zeros(n) = Zeros(n)
  /\ \A at : RP!AlignPad(at) = AlignPad(at) /\ W!AlignPad(at) = AlignPad(at)
  /\ \A previous, v : RP!IntRelativeCode(previous, v) = IntRelativeCode(previous, v)
  /\ RP!Bit = Bit /\ RP!Octet = Byte
<1>1. \A v, n : RP!ToBits(v, n) = ToBits(v, n)
  BY DEF RP!ToBits, ToBits
<1>2. \A s : RP!FromBits(s) = FromBits(s)
  BY DEF RP!FromBits, FromBits
<1>3. \A span : RP!BitsRequired(span) = BitsRequired(span)
  BY DEF RP!BitsRequired, BitsRequired
<1>4. \A n : RP!Zeros(n) = Zeros(n) /\ W!Zeros(n) = Zeros(n)
  BY DEF RP!Zeros, Zeros, W!Zeros
<1>5. \A at : RP!AlignPad(at) = AlignPad(at) /\ W!AlignPad(at) = AlignPad(at)
  BY DEF RP!AlignPad, AlignPad, W!AlignPad
<1>6. \A previous, v : RP!IntRelativeCode(previous, v) = IntRelativeCode(previous, v)
  BY <1>1, <1>3, <1>4 DEF RP!IntRelativeCode, IntRelativeCode, RP!Span, Span
<1>7. RP!Bit = Bit /\ RP!Octet = Byte
  BY DEF RP!Bit, Bit, RP!Octet, Byte
<1> QED BY <1>1, <1>2, <1>3, <1>4, <1>5, <1>6, <1>7

(***************************************************************************)
(* the ways a decoder ends,                                                *)
(***************************************************************************)
LEMMA SameOutcomes ==
  /\ R!None = RP!None /\ R!Refusals = RP!Refusals
  /\ \A at, code, v : R!Accepts(at, code, v) = RP!Accepts(at, code, v)
  /\ \A reason, at : R!Refuses(reason, at) = RP!Refuses(reason, at)
  /\ \A o : R!Accepted(o) <=> RP!Accepted(o)
  /\ \A at, n : R!BitsAt(at, n) = RP!BitsAt(at, n)
  /\ R!numBits = RP!numBits
  /\ \A at : R!Remaining(at) = RP!Remaining(at)
  /\ \A s : R!FromBits(s) = RP!FromBits(s)
  /\ \A s : R!AllZero(s) <=> RP!AllZero(s)
<1>1. R!None = RP!None /\ R!Refusals = RP!Refusals
  BY DEF R!None, RP!None, R!Refusals, RP!Refusals
<1>2. \A at, code, v : R!Accepts(at, code, v) = RP!Accepts(at, code, v)
  BY <1>1 DEF R!Accepts, RP!Accepts
<1>3. \A reason, at : R!Refuses(reason, at) = RP!Refuses(reason, at)
  BY DEF R!Refuses, RP!Refuses
<1>4. \A o : R!Accepted(o) <=> RP!Accepted(o)
  BY <1>1 DEF R!Accepted, RP!Accepted
<1>5. \A at, n : R!BitsAt(at, n) = RP!BitsAt(at, n)
  BY DEF R!BitsAt, RP!BitsAt
<1>6. R!numBits = RP!numBits
  BY DEF R!numBits, RP!numBits
<1>7. \A at : R!Remaining(at) = RP!Remaining(at)
  BY <1>6 DEF R!Remaining, RP!Remaining
<1>8. \A s : R!FromBits(s) = RP!FromBits(s)
  BY DEF R!FromBits, RP!FromBits
<1>9. \A s : R!AllZero(s) <=> RP!AllZero(s)
  BY DEF R!AllZero, RP!AllZero
<1> QED BY <1>1, <1>2, <1>3, <1>4, <1>5, <1>6, <1>7, <1>8, <1>9

(***************************************************************************)
(* and the decoders.                                                       *)
(***************************************************************************)
LEMMA SameDecoders ==
  /\ \A at, n : R!Field(at, n) = RP!Field(at, n)
  /\ \A at, span : R!Ranged(at, span) = RP!Ranged(at, span)
  /\ \A at, previous : R!IntRelative(at, previous) = RP!IntRelative(at, previous)
  /\ \A at, count : R!Bytes(at, count) = RP!Bytes(at, count)
  /\ \A at, size : R!String(at, size) = RP!String(at, size)
  /\ \A at : R!End(at) = RP!End(at)
<1>1. \A v, n : R!ToBits(v, n) = RP!ToBits(v, n)
  BY DEF R!ToBits, RP!ToBits
<1>2. \A span : R!BitsRequired(span) = RP!BitsRequired(span)
  BY DEF R!BitsRequired, RP!BitsRequired
<1>3. (\A n : R!Zeros(n) = RP!Zeros(n)) /\ (\A at : R!AlignPad(at) = RP!AlignPad(at))
  BY DEF R!Zeros, RP!Zeros, R!AlignPad, RP!AlignPad
<1>4. \A bucket : R!Span(bucket) = RP!Span(bucket)
  BY DEF R!Span, RP!Span
<1>5. \A at, n : R!Field(at, n) = RP!Field(at, n)
  BY SameOutcomes DEF R!Field, RP!Field
<1>6. \A at, span : R!Ranged(at, span) = RP!Ranged(at, span)
  BY <1>1, <1>2, SameOutcomes DEF R!Ranged, RP!Ranged
<1>7. \A at : R!Align(at) = RP!Align(at)
  BY <1>3, SameOutcomes DEF R!Align, RP!Align
<1>8. \A at, i : R!ByteAt(at, i) = RP!ByteAt(at, i)
  BY SameOutcomes DEF R!ByteAt, RP!ByteAt
<1>9. \A at, count : R!Bytes(at, count) = RP!Bytes(at, count)
  BY <1>7, <1>8, SameOutcomes DEF R!Bytes, RP!Bytes
<1>10. \A text : /\ R!HasNul(text) <=> RP!HasNul(text)
                 /\ R!WellFormed(text) <=> RP!WellFormed(text)
  BY DEF R!HasNul, RP!HasNul, R!NUL, RP!NUL, R!WellFormed, RP!WellFormed
<1>11. \A at, size : R!String(at, size) = RP!String(at, size)
  BY <1>6, <1>9, <1>10, SameOutcomes DEF R!String, RP!String
<1>12. \A previous, v : R!IntRelativeCode(previous, v) = RP!IntRelativeCode(previous, v)
  BY <1>1, <1>2, <1>3, <1>4 DEF R!IntRelativeCode, RP!IntRelativeCode
<1>13. \A previous, at, v : R!intRelativeResult(previous, at, v) = RP!intRelativeResult(previous, at, v)
  BY <1>12, SameOutcomes DEF R!intRelativeResult, RP!intRelativeResult
<1>14. \A previous, at, bucket : R!Bounded(previous, at, bucket) = RP!Bounded(previous, at, bucket)
  BY <1>4, <1>6, <1>13, SameOutcomes DEF R!Bounded, RP!Bounded
<1>15. R!BoundedMax = RP!BoundedMax
  BY DEF R!BoundedMax, RP!BoundedMax
<1>16. \A previous, at : R!Absolute(previous, at) = RP!Absolute(previous, at)
  BY <1>5, <1>13, <1>15, SameOutcomes DEF R!Absolute, RP!Absolute
<1>17. \A at, previous : R!IntRelative(at, previous) = RP!IntRelative(at, previous)
  BY <1>13, <1>14, <1>16, SameOutcomes DEF R!IntRelative, RP!IntRelative
<1>18. \A at : R!End(at) = RP!End(at)
  BY <1>3, SameOutcomes DEF R!End, RP!End
<1> QED BY <1>5, <1>6, <1>9, <1>11, <1>17, <1>18

-----------------------------------------------------------------------------
(***************************************************************************)
(* What a field of a schema can depend on.                                 *)
(***************************************************************************)
LEMMA SchemaFacts ==
  ASSUME schema \in Schemas
  PROVE  /\ Len(schema) \in Nat /\ DOMAIN schema = 1..Len(schema)
         /\ \A i \in 1..Len(schema) :
              /\ schema[i].op \in {"bits", "int", "relative", "bytes", "string"}
              /\ schema[i].size \in Nat
              /\ schema[i].when \in 0..i-1
              /\ schema[i].when # 0 => /\ schema[i].when \in 1..i-1
                                       /\ Numbers(schema[schema[i].when].op)
                                       /\ schema[schema[i].when].when = 0
              /\ schema[i].op = "relative" =>
                   /\ schema[i].after \in 1..i-1
                   /\ Numbers(schema[schema[i].after].op)
                   /\ schema[schema[i].after].when \in {0, schema[i].when}
              /\ schema[i].op = "string" => schema[i].size \in Nat \ {0}
<1> DEFINE Field == [op : {"bits", "int", "relative", "bytes", "string"},
                     size : Nat, when : Nat, after : Nat]
<1>1. schema \in Seq(Field) /\ Len(schema) \in Nat /\ DOMAIN schema = 1..Len(schema)
  BY SchemasAssumption, LenProperties
<1>2. ASSUME NEW i \in 1..Len(schema)
      PROVE  /\ schema[i].op \in {"bits", "int", "relative", "bytes", "string"}
             /\ schema[i].size \in Nat /\ schema[i].when \in Nat
  <2>1. schema[i] \in Field
    <3> HIDE DEF Field
    <3> QED BY <1>1, ElementsOf
  <2> QED BY <2>1
<1>3. \A i \in DOMAIN schema :
         /\ schema[i].when # 0 => /\ schema[i].when < i /\ Numbers(schema[schema[i].when].op)
                                  /\ schema[schema[i].when].when = 0
         /\ schema[i].op = "relative" =>
              /\ schema[i].after \in 1..i-1 /\ Numbers(schema[schema[i].after].op)
              /\ schema[schema[i].after].when \in {0, schema[i].when}
         /\ schema[i].op = "string" => schema[i].size # 0
  BY SchemasAssumption
<1>4. ASSUME NEW i \in 1..Len(schema)
      PROVE  schema[i].when \in 0..i-1 /\ (schema[i].when # 0 => schema[i].when \in 1..i-1)
  <2> DEFINE w == schema[i].when
  <2>1. w \in Nat
    BY <1>2
  <2>2. w # 0 => w < i
    BY <1>1, <1>3, Zenon
  <2>3. i \in Nat \ {0}
    BY <1>1
  <2> HIDE DEF w
  <2>4. w \in 0..i-1 /\ (w # 0 => w \in 1..i-1)
    BY <2>1, <2>2, <2>3
  <2> QED BY <2>4 DEF w
<1> QED BY <1>1, <1>2, <1>3, <1>4

(***************************************************************************)
(* What the sender's caller has: of every field it sends, a choice; of     *)
(* every number it sends, a number that is not below zero.                 *)
(***************************************************************************)
Value == Int \cup Seq(Int)

GivenOK ==
  /\ given \in Seq(Value) /\ Len(given) <= Len(schema)
  /\ \A i \in 1..Len(given) : Present(i, given) =>
       given[i] \in Choices(schema[i]) /\ (Numbers(schema[i].op) => given[i] \in Nat)

(***************************************************************************)
(* A choice, by the kind of field.                                         *)
(***************************************************************************)
LEMMA ChoicesAre ==
  ASSUME NEW f
  PROVE  /\ f.op = "bits" => Choices(f) = 0..2^f.size-1
         /\ f.op = "int" => Choices(f) = 0..f.size
         /\ f.op = "relative" => Choices(f) = given[f.after]+1..IntRelativeMax
         /\ f.op = "bytes" => Choices(f) = [1..f.size -> Byte]
         /\ f.op = "string" => Choices(f) = Sources
BY DEF Choices

(***************************************************************************)
(* The object has the numbers and the bytes its caller has.                *)
(***************************************************************************)
LEMMA ObjectIs ==
  ASSUME NEW S, given \in Seq(S)
  PROVE  /\ DOMAIN given = 1..Len(given) /\ DOMAIN Object = 1..Len(given)
         /\ \A i \in 1..Len(given) :
              /\ schema[i].op # "string" => Object[i] = given[i]
              /\ Present(i, given) /\ schema[i].op = "string" =>
                   Object[i] = CopyString(given[i], schema[i].size)
<1>1. DOMAIN given = 1..Len(given)
  BY LenProperties
<1>2. \A i \in DOMAIN given : Object[i] = Sent(i)
  BY DEF Object
<1>3. DOMAIN Object = DOMAIN given
  BY DEF Object
<1> QED BY <1>1, <1>2, <1>3 DEF Sent

(***************************************************************************)
(* So a field is in the object when its caller sends it.                   *)
(***************************************************************************)
LEMMA ObjectPresent ==
  ASSUME schema \in Schemas, GivenOK, NEW i \in 1..Len(given)
  PROVE  Present(i, Object) <=> Present(i, given)
<1>1. i \in 1..Len(schema) /\ i \in Nat /\ Len(given) \in Nat
  BY SchemaFacts, LenProperties DEF GivenOK
<1>2. CASE schema[i].when = 0
  BY <1>2 DEF Present
<1>3. CASE schema[i].when # 0
  <2> DEFINE w == schema[i].when
  <2>1. w \in 1..i-1 /\ Numbers(schema[w].op)
    BY <1>1, <1>3, SchemaFacts
  <2>2. w \in 1..Len(given) /\ schema[w].op # "string"
    BY <1>1, <2>1 DEF Numbers
  <2>3. Object[w] = given[w]
    <3> HIDE DEF w
    <3> QED BY <2>2, ObjectIs DEF GivenOK
  <2> QED BY <2>3 DEF Present
<1> QED BY <1>2, <1>3

(***************************************************************************)
(* What is sent of a field, by its kind; the number a number is relative   *)
(* to is sent too.                                                         *)
(***************************************************************************)
LEMMA GivenFacts ==
  ASSUME schema \in Schemas, GivenOK, NEW i \in 1..Len(given), Present(i, given)
  PROVE  LET f == schema[i] v == given[i]
         IN  /\ i \in 1..Len(schema)
             /\ f.op \in {"bits", "int", "relative", "bytes", "string"} /\ f.size \in Nat
             /\ f.op = "bits" => v \in 0..2^f.size-1 /\ Object[i] = v
             /\ f.op = "int" => v \in 0..f.size /\ Object[i] = v
             /\ f.op = "relative" => /\ f.after \in 1..i-1 /\ given[f.after] \in Nat
                                     /\ Present(f.after, given)
                                     /\ v \in given[f.after]+1..IntRelativeMax /\ Object[i] = v
             /\ f.op = "bytes" => v \in Seq(Byte) /\ Len(v) = f.size /\ Object[i] = v
             /\ f.op = "string" => /\ v \in Seq(Byte) /\ f.size \in Nat \ {0}
                                   /\ Object[i] = CopyString(v, f.size)
<1> DEFINE f == schema[i]
           v == given[i]
<1>1. /\ i \in 1..Len(schema) /\ i \in Nat /\ Len(given) \in Nat
      /\ given \in Seq(Value)
  BY SchemaFacts, LenProperties DEF GivenOK
<1>2. /\ f.op \in {"bits", "int", "relative", "bytes", "string"} /\ f.size \in Nat
      /\ f.op = "string" => f.size \in Nat \ {0}
  BY <1>1, SchemaFacts
<1>3. v \in Choices(f)
  BY DEF GivenOK
<1>4. (f.op # "string" => Object[i] = v) /\ (f.op = "string" => Object[i] = CopyString(v, f.size))
  BY <1>1, ObjectIs
<1>5. ASSUME f.op = "relative"
      PROVE  f.after \in 1..i-1 /\ given[f.after] \in Nat /\ Present(f.after, given)
  <2> DEFINE a == f.after
  <2>1. a \in 1..i-1 /\ Numbers(schema[a].op) /\ schema[a].when \in {0, f.when}
    BY <1>1, <1>5, SchemaFacts
  <2>2. Present(a, given)
    BY <2>1 DEF Present
  <2>3. a \in 1..Len(given)
    BY <1>1, <2>1
  <2> HIDE DEF a
  <2>4. given[a] \in Nat
    BY <2>1, <2>2, <2>3 DEF GivenOK
  <2> QED BY <2>1, <2>2, <2>4 DEF a
<1>6. ASSUME f.op = "bytes" PROVE v \in Seq(Byte) /\ Len(v) = f.size
  <2>1. v \in [1..f.size -> Byte]
    BY <1>3, <1>6, ChoicesAre
  <2> HIDE DEF f, v
  <2> QED BY <2>1, <1>2, SeqDef, LenProperties
<1>7. f.op = "string" => v \in Seq(Byte)
  BY <1>3, ChoicesAre, SourcesAssumption
<1>8. /\ f.op = "bits" => v \in 0..2^f.size-1
      /\ f.op = "int" => v \in 0..f.size
      /\ f.op = "relative" => v \in given[f.after]+1..IntRelativeMax
  BY <1>3, ChoicesAre
<1> HIDE DEF f, v
<1>9. /\ f.op = "bits" => Object[i] = v
      /\ f.op = "int" => Object[i] = v
      /\ f.op = "relative" => Object[i] = v
      /\ f.op = "bytes" => Object[i] = v
  BY <1>4
<1> QED BY <1>1, <1>2, <1>4, <1>5, <1>6, <1>7, <1>8, <1>9 DEF f, v

(***************************************************************************)
(* A string that is sent is one a reader takes, if it is not misuse.       *)
(***************************************************************************)
LEMMA SourceText ==
  ASSUME NEW source \in Seq(Byte), NEW size \in Nat \ {0}
  PROVE  /\ CopyString(source, size) \in Seq(Byte) /\ Len(CopyString(source, size)) < size
         /\ ~HasNul(CopyString(source, size))
         /\ WellFormed(source) => WellFormed(CopyString(source, size))
<1> DEFINE text == CopyString(source, size)
<1>1. PICK n \in 0..Len(source) :
           /\ text = SubSeq(source, 1, n)
           /\ n < size
           /\ \A i \in 1..n : source[i] # NUL
           /\ n = 0 \/ n = Len(source) \/ source[n+1] \notin Continuation
  BY CopyStringLength
<1> HIDE DEF text
<1>2. text \in Seq(Byte) /\ Len(text) = n /\ DOMAIN text = 1..n /\ \A i \in 1..n : text[i] = source[i]
  BY <1>1, Beginning
<1>3. ~HasNul(text)
  BY <1>1, <1>2 DEF HasNul
<1>4. WellFormed(source) => WellFormed(text)
  BY <1>1, CutBetweenCharacters
<1> QED BY <1>1, <1>2, <1>3, <1>4 DEF text

-----------------------------------------------------------------------------
(***************************************************************************)
(* The bits of a field at a position.                                      *)
(***************************************************************************)
Code(i, at) == W!Encoding(Operation(schema[i], given[i]), at)

(***************************************************************************)
(* The runs of bytes of the two ends are the same.                         *)
(***************************************************************************)
LEMMA SameRuns ==
  /\ \A bytes : RP!RunOf(bytes) = Run(bytes)
  /\ \A at, size, text : RP!StringCode(at, size, text) =
       ToBits(Len(text), BitsRequired(size - 1))
         \o (Zeros(AlignPad(at + BitsRequired(size - 1))) \o Run(text))
  /\ \A text : /\ RP!HasNul(text) <=> HasNul(text)
               /\ RP!WellFormed(text) <=> WellFormed(text)
<1>1. \A bytes : RP!RunOf(bytes) = Run(bytes)
  BY SameCodes DEF RP!RunOf, Run
<1>2. \A text : /\ RP!HasNul(text) <=> HasNul(text)
                /\ RP!WellFormed(text) <=> WellFormed(text)
  BY DEF HasNul, RP!HasNul, NUL, RP!NUL, WellFormed, RP!WellFormed
<1> QED BY <1>1, <1>2, SameCodes DEF RP!StringCode

(***************************************************************************)
(* The zeros before a byte boundary, and a run of bytes.                   *)
(***************************************************************************)
LEMMA PartTypes ==
  /\ \A at \in Nat : AlignPad(at) \in Nat /\ AlignPad(at) < ByteBits
  /\ \A n \in Nat : /\ Zeros(n) \in Seq(Bit) /\ Len(Zeros(n)) = n
                    /\ \A i \in 1..n : Zeros(n)[i] = 0
  /\ \A bytes \in Seq(Byte) : Run(bytes) \in Seq(Bit)
<1>1. ASSUME NEW at \in Nat PROVE AlignPad(at) \in Nat /\ AlignPad(at) < ByteBits
  <2>1. AlignPad(at) \in 0..ByteBits-1
    BY RoundUpBytes
  <2> QED BY <2>1, GeometryAssumption
<1>2. \A n \in Nat : /\ Zeros(n) \in Seq(Bit) /\ Len(Zeros(n)) = n
                     /\ \A i \in 1..n : Zeros(n)[i] = 0
  BY DEF Zeros, Bit
<1>3. ASSUME NEW bytes \in Seq(Byte) PROVE Run(bytes) \in Seq(Bit)
  <2>1. RP!RunOf(bytes) \in Seq(RP!Bit)
    <3>1. bytes \in Seq(RP!Octet)
      BY SameCodes
    <3> QED BY <3>1, RP!RunType, Standing, GeometryAssumption, BucketsAssumption,
               DomainAssumption, TextAssumption
  <2> QED BY <2>1, SameCodes, SameRuns
<1> QED BY <1>1, <1>2, <1>3

(***************************************************************************)
(* What the operations of the writer encode.                               *)
(***************************************************************************)
LEMMA EncodingIs ==
  ASSUME NEW field \in Seq(Bit), NEW at \in Nat
  PROVE  /\ W!Encoding([field |-> field, aligned |-> FALSE, bytes |-> <<>>], at) = field
         /\ \A bytes \in Seq(Bit) :
              W!Encoding([field |-> field, aligned |-> TRUE, bytes |-> bytes], at) =
                field \o (Zeros(AlignPad(at + Len(field))) \o bytes)
<1>1. Zeros(0) = <<>>
  BY PartTypes, EmptySeq
<1>2. ASSUME NEW op, op = [field |-> field, aligned |-> FALSE, bytes |-> <<>>]
      PROVE  W!Encoding(op, at) = field
  <2>1. W!PadBits(op, at) = 0
    BY <1>2 DEF W!PadBits
  <2>2. W!Encoding(op, at) = field \o <<>> \o <<>>
    BY <1>1, <1>2, <2>1, SameCodes DEF W!Encoding
  <2> QED BY <2>2, ConcatEmptySeq
<1>3. ASSUME NEW bytes \in Seq(Bit), NEW op,
             op = [field |-> field, aligned |-> TRUE, bytes |-> bytes]
      PROVE  W!Encoding(op, at) = field \o (Zeros(AlignPad(at + Len(field))) \o bytes)
  <2> DEFINE z == Zeros(AlignPad(at + Len(field)))
  <2>1. W!PadBits(op, at) = AlignPad(at + Len(field))
    BY <1>3, SameCodes DEF W!PadBits
  <2>2. W!Encoding(op, at) = (field \o z) \o bytes
    BY <1>3, <2>1, SameCodes DEF W!Encoding
  <2>3. z \in Seq(Bit)
    <3>1. at + Len(field) \in Nat
      BY LenProperties
    <3> QED BY <3>1, PartTypes
  <2> HIDE DEF z
  <2>4. (field \o z) \o bytes = field \o (z \o bytes)
    BY <2>3, ConcatAssociative
  <2> QED BY <2>2, <2>4 DEF z
<1> QED BY <1>2, <1>3

(***************************************************************************)
(* So the bits of a field are, by its kind: as many as it has, as many as  *)
(* its range needs, the code of a number above another, and an align with  *)
(* the bytes, after their number if it is a string.                        *)
(***************************************************************************)
LEMMA CodeIs ==
  ASSUME schema \in Schemas, GivenOK, NEW i \in 1..Len(given), Present(i, given),
         NEW at \in Nat
  PROVE  LET f == schema[i] v == given[i]
         IN  /\ Code(i, at) \in Seq(Bit)
             /\ f.op = "bits" => Code(i, at) = ToBits(v, f.size)
             /\ f.op = "int" => Code(i, at) = ToBits(v, BitsRequired(f.size))
             /\ f.op = "relative" => Code(i, at) = IntRelativeCode(given[f.after], v)
             /\ f.op = "bytes" => Code(i, at) = Zeros(AlignPad(at)) \o Run(v)
             /\ f.op = "string" => Code(i, at) = RP!StringCode(at, f.size, Object[i])
<1> DEFINE f == schema[i]
           v == given[i]
           code == Code(i, at)
<1> USE DEF Code
<1>1. CASE f.op = "bits"
  <2> DEFINE field == ToBits(v, f.size)
  <2>1. field \in Seq(Bit)
    <3>1. v \in Int /\ f.size \in Nat
      BY <1>1, GivenFacts, Powers
    <3> HIDE DEF f, v
    <3> QED BY <3>1, FieldType
  <2>2. Operation(f, v) = [field |-> field, aligned |-> FALSE, bytes |-> <<>>]
    BY <1>1 DEF Operation
  <2> HIDE DEF field
  <2>3. code = field
    BY <2>1, <2>2, EncodingIs
  <2> QED BY <2>1, <2>3, <1>1 DEF field
<1>2. CASE f.op = "int"
  <2> DEFINE field == ToBits(v, BitsRequired(f.size))
  <2>1. field \in Seq(Bit)
    <3>1. v \in Int /\ f.size \in Nat
      BY <1>2, GivenFacts
    <3> HIDE DEF f, v
    <3> QED BY <3>1, FieldType, BitsRequiredFits
  <2>2. Operation(f, v) = [field |-> field, aligned |-> FALSE, bytes |-> <<>>]
    BY <1>2 DEF Operation
  <2> HIDE DEF field
  <2>3. code = field
    BY <2>1, <2>2, EncodingIs
  <2> QED BY <2>1, <2>3, <1>2 DEF field
<1>3. CASE f.op = "relative"
  <2> DEFINE field == IntRelativeCode(given[f.after], v)
  <2>1. field \in Seq(Bit)
    <3>1. given[f.after] \in Nat /\ v \in given[f.after]+1..IntRelativeMax
      BY <1>3, GivenFacts
    <3>2. PICK p : p = given[f.after]
      OBVIOUS
    <3> HIDE DEF f, v
    <3>3. p \in Int /\ v \in Int /\ p < v
      BY <3>1, <3>2, DomainAssumption, Powers
    <3>4. RP!IntRelativeCode(p, v) \in Seq(RP!Bit)
      BY <3>3, RP!IntRelativeType, Standing, GeometryAssumption, BucketsAssumption,
         DomainAssumption, TextAssumption
    <3> QED BY <3>2, <3>4, SameCodes
  <2>2. Operation(f, v) = [field |-> field, aligned |-> FALSE, bytes |-> <<>>]
    BY <1>3 DEF Operation
  <2> HIDE DEF field
  <2>3. code = field
    BY <2>1, <2>2, EncodingIs
  <2> QED BY <2>1, <2>3, <1>3 DEF field
<1>4. CASE f.op = "bytes"
  <2> DEFINE bytes == Run(v)
  <2>1. bytes \in Seq(Bit)
    BY <1>4, GivenFacts, PartTypes
  <2>2. Operation(f, v) = [field |-> <<>>, aligned |-> TRUE, bytes |-> bytes]
    BY <1>4 DEF Operation
  <2> HIDE DEF bytes
  <2>3. <<>> \in Seq(Bit) /\ at + Len(<<>>) = at
    OBVIOUS
  <2>4. code = <<>> \o (Zeros(AlignPad(at)) \o bytes)
    <3> DEFINE empty == <<>>
    <3> HIDE DEF empty
    <3>1. empty \in Seq(Bit) /\ at + Len(empty) = at
      BY <2>3 DEF empty
    <3>2. W!Encoding([field |-> empty, aligned |-> TRUE, bytes |-> bytes], at) =
            empty \o (Zeros(AlignPad(at + Len(empty))) \o bytes)
      BY <2>1, <3>1, EncodingIs
    <3>3. code = W!Encoding([field |-> empty, aligned |-> TRUE, bytes |-> bytes], at)
      BY <2>2 DEF empty
    <3> QED BY <3>1, <3>2, <3>3 DEF empty
  <2> DEFINE rest == Zeros(AlignPad(at)) \o bytes
  <2>5. rest \in Seq(Bit)
    BY <2>1, PartTypes, ConcatProperties
  <2> HIDE DEF rest
  <2>6. code = rest
    BY <2>4, <2>5, ConcatEmptySeq DEF rest
  <2> QED BY <2>5, <2>6, <1>4 DEF rest, bytes
<1>5. CASE f.op = "string"
  <2> DEFINE text == CopyString(v, f.size)
             w == BitsRequired(f.size - 1)
             field == ToBits(Len(text), w)
             bytes == Run(text)
  <2>1. v \in Seq(Byte) /\ f.size \in Nat \ {0} /\ Object[i] = text
    BY <1>5, GivenFacts
  <2>2. text \in Seq(Byte) /\ Len(text) \in Nat
    <3> HIDE DEF f, v
    <3> QED BY <2>1, SourceText, LenProperties
  <2>3. w \in Nat
    <3>1. f.size - 1 \in Nat
      BY <2>1
    <3> HIDE DEF f
    <3> QED BY <3>1, BitsRequiredFits
  <2>4. Operation(f, v) = [field |-> field, aligned |-> TRUE, bytes |-> bytes]
    BY <1>5 DEF Operation
  <2> HIDE DEF text, w
  <2>5. field \in Seq(Bit) /\ Len(field) = w /\ bytes \in Seq(Bit)
    <3>1. Len(text) \in Int
      BY <2>2
    <3>2. field \in Seq(Bit) /\ Len(field) = w
      BY <3>1, <2>3, FieldType
    <3>3. bytes \in Seq(Bit)
      BY <2>2, PartTypes
    <3> QED BY <3>2, <3>3
  <2> HIDE DEF field, bytes
  <2>6. code = field \o (Zeros(AlignPad(at + Len(field))) \o bytes)
    <3>1. W!Encoding([field |-> field, aligned |-> TRUE, bytes |-> bytes], at) =
            field \o (Zeros(AlignPad(at + Len(field))) \o bytes)
      BY <2>5, EncodingIs
    <3> QED BY <3>1, <2>4
  <2> DEFINE rest == Zeros(AlignPad(at + w)) \o bytes
  <2>7. rest \in Seq(Bit)
    <3>1. at + w \in Nat
      BY <2>3
    <3>2. AlignPad(at + w) \in Nat
      BY <3>1, PartTypes
    <3> QED BY <3>2, <2>5, PartTypes, ConcatProperties
  <2>8. code = field \o rest
    BY <2>5, <2>6
  <2> HIDE DEF rest
  <2>9. code \in Seq(Bit)
    BY <2>5, <2>7, <2>8, ConcatProperties
  <2>10. RP!StringCode(at, f.size, text) = code
    BY <2>8, SameRuns DEF field, rest, bytes, w
  <2> QED BY <2>1, <2>9, <2>10, <1>5
<1>6. f.op \in {"bits", "int", "relative", "bytes", "string"}
  BY GivenFacts
<1> HIDE DEF code, f, v, Code
<1> QED BY <1>1, <1>2, <1>3, <1>4, <1>5, <1>6 DEF code, f, v

-----------------------------------------------------------------------------
(***************************************************************************)
(* The read method of a field, by its kind.                                *)
(***************************************************************************)
LEMMA DecodeIs ==
  ASSUME NEW f
  PROVE  /\ f.op = "bits" => Decode(f) = RP!Field(bitsRead, f.size)
         /\ f.op = "int" => Decode(f) = RP!Ranged(bitsRead, f.size)
         /\ f.op = "relative" => Decode(f) = RP!IntRelative(bitsRead, vals[f.after])
         /\ f.op = "bytes" => Decode(f) = RP!Bytes(bitsRead, f.size)
         /\ f.op = "string" => Decode(f) = RP!String(bitsRead, f.size)
BY SameDecoders DEF Decode

(***************************************************************************)
(* What the receiver relies on when it gets to a field: that it has the    *)
(* number the field is relative to, and that a string is text.             *)
(***************************************************************************)
Ready(i) == /\ schema[i].op = "relative" => vals[schema[i].after] = given[schema[i].after]
            /\ schema[i].op = "string" => WellFormed(Object[i])

(***************************************************************************)
(* The read method of a field takes what its write method encodes.         *)
(***************************************************************************)
LEMMA DecodeReads ==
  ASSUME schema \in Schemas, GivenOK, NEW i \in 1..Len(given), Present(i, given), Ready(i),
         RP!Position(bitsRead), RP!Carries(bitsRead, Code(i, bitsRead))
  PROVE  RP!Takes(Decode(schema[i]), bitsRead, Code(i, bitsRead), Object[i])
<1> DEFINE f == schema[i]
           v == given[i]
           object == Object[i]
           at == bitsRead
           code == Code(i, at)
           decoded == Decode(f)
<1>1. at \in Nat
  BY DEF RP!Position
<1>2. /\ f.op \in {"bits", "int", "relative", "bytes", "string"} /\ f.size \in Nat
      /\ f.op = "bits" => v \in 0..2^f.size-1 /\ object = v
      /\ f.op = "int" => v \in 0..f.size /\ object = v
      /\ f.op = "relative" => /\ given[f.after] \in Nat
                              /\ v \in given[f.after]+1..IntRelativeMax /\ object = v
      /\ f.op = "bytes" => v \in Seq(Byte) /\ Len(v) = f.size /\ object = v
      /\ f.op = "string" => /\ v \in Seq(Byte) /\ f.size \in Nat \ {0}
                            /\ object = CopyString(v, f.size)
  BY GivenFacts
<1>3. /\ f.op = "bits" => code = ToBits(v, f.size)
      /\ f.op = "int" => code = ToBits(v, BitsRequired(f.size))
      /\ f.op = "relative" => code = IntRelativeCode(given[f.after], v)
      /\ f.op = "bytes" => code = Zeros(AlignPad(at)) \o Run(v)
      /\ f.op = "string" => code = RP!StringCode(at, f.size, object)
  BY <1>1, CodeIs
<1>4. /\ f.op = "bits" => decoded = RP!Field(at, f.size)
      /\ f.op = "int" => decoded = RP!Ranged(at, f.size)
      /\ f.op = "relative" => decoded = RP!IntRelative(at, vals[f.after])
      /\ f.op = "bytes" => decoded = RP!Bytes(at, f.size)
      /\ f.op = "string" => decoded = RP!String(at, f.size)
  BY DecodeIs
<1>5. /\ f.op = "relative" => vals[f.after] = given[f.after]
      /\ f.op = "string" => WellFormed(object)
  BY DEF Ready
<1>6. RP!Position(at) /\ RP!Carries(at, code)
  OBVIOUS
<1> SUFFICES RP!Takes(decoded, at, code, object)
  OBVIOUS
<1> HIDE DEF f, v, object, code, decoded
<1>7. CASE f.op = "bits"
  <2>1. /\ RP!ToBits(v, f.size) = code /\ v \in 0..2^f.size-1 /\ f.size \in Nat
        /\ RP!Field(at, f.size) = decoded /\ object = v
    BY <1>2, <1>3, <1>4, <1>7, SameCodes
  <2>2. RP!Takes(RP!Field(at, f.size), at, RP!ToBits(v, f.size), v)
    BY <1>6, <2>1, RP!FieldReads, Standing, GeometryAssumption, BucketsAssumption,
       DomainAssumption, TextAssumption
  <2> QED BY <2>1, <2>2
<1>8. CASE f.op = "int"
  <2>1. /\ RP!ToBits(v, RP!BitsRequired(f.size)) = code /\ v \in 0..f.size /\ f.size \in Nat
        /\ RP!Ranged(at, f.size) = decoded /\ object = v
    BY <1>2, <1>3, <1>4, <1>8, SameCodes
  <2>2. RP!Takes(RP!Ranged(at, f.size), at, RP!ToBits(v, RP!BitsRequired(f.size)), v)
    BY <1>6, <2>1, RP!RangedReads, Standing, GeometryAssumption, BucketsAssumption,
       DomainAssumption, TextAssumption
  <2> QED BY <2>1, <2>2
<1>9. CASE f.op = "relative"
  <2> DEFINE p == given[f.after]
  <2>1. /\ RP!IntRelativeCode(p, v) = code /\ p \in Nat /\ v \in p+1..IntRelativeMax
        /\ RP!IntRelative(at, p) = decoded /\ object = v
    BY <1>2, <1>3, <1>4, <1>5, <1>9, SameCodes
  <2> HIDE DEF p
  <2>2. RP!Takes(RP!IntRelative(at, p), at, RP!IntRelativeCode(p, v), v)
    BY <1>6, <2>1, RP!IntRelativeReads, Standing, GeometryAssumption, BucketsAssumption,
       DomainAssumption, TextAssumption
  <2> QED BY <2>1, <2>2
<1>10. CASE f.op = "bytes"
  <2>1. /\ RP!Zeros(RP!AlignPad(at)) \o RP!RunOf(v) = code /\ v \in Seq(RP!Octet)
        /\ RP!Bytes(at, Len(v)) = decoded /\ object = v
    BY <1>2, <1>3, <1>4, <1>10, SameCodes, SameRuns
  <2>2. RP!Takes(RP!Bytes(at, Len(v)), at, RP!Zeros(RP!AlignPad(at)) \o RP!RunOf(v), v)
    BY <1>6, <2>1, RP!BytesReads, Standing, GeometryAssumption, BucketsAssumption,
       DomainAssumption, TextAssumption
  <2> QED BY <2>1, <2>2
<1>11. CASE f.op = "string"
  <2>1. /\ RP!StringCode(at, f.size, object) = code /\ f.size \in Nat \ {0}
        /\ RP!String(at, f.size) = decoded
    BY <1>2, <1>3, <1>4, <1>11
  <2>2. /\ object \in Seq(Byte) /\ Len(object) < f.size /\ ~HasNul(object)
    BY <1>2, <1>11, SourceText
  <2>3. /\ object \in Seq(RP!Octet) /\ Len(object) < f.size
        /\ ~RP!HasNul(object) /\ RP!WellFormed(object)
    BY <1>5, <1>11, <2>2, SameCodes, SameRuns
  <2>4. RP!Takes(RP!String(at, f.size), at, RP!StringCode(at, f.size, object), object)
    BY <1>6, <2>1, <2>3, RP!StringReads, Standing, GeometryAssumption, BucketsAssumption,
       DomainAssumption, TextAssumption
  <2> QED BY <2>1, <2>4
<1> QED BY <1>2, <1>7, <1>8, <1>9, <1>10, <1>11

(***************************************************************************)
(* And if it accepts that value, the bits it read are what the write       *)
(* method encodes: no other bits there have it.                            *)
(***************************************************************************)
LEMMA DecodeTells ==
  ASSUME schema \in Schemas, GivenOK, NEW i \in 1..Len(given), Present(i, given), Ready(i),
         RP!Position(bitsRead),
         RP!Accepted(Decode(schema[i])), Decode(schema[i]).value = Object[i]
  PROVE  /\ RP!Sound(Decode(schema[i]), bitsRead)
         /\ Decode(schema[i]).code = Code(i, bitsRead)
<1> DEFINE f == schema[i]
           v == given[i]
           object == Object[i]
           at == bitsRead
           code == Code(i, at)
           decoded == Decode(f)
<1>1. at \in Nat
  BY DEF RP!Position
<1>2. /\ f.op \in {"bits", "int", "relative", "bytes", "string"} /\ f.size \in Nat
      /\ f.op = "bits" => object = v
      /\ f.op = "int" => object = v
      /\ f.op = "relative" => given[f.after] \in Nat /\ object = v
      /\ f.op = "bytes" => object = v
      /\ f.op = "string" => f.size \in Nat \ {0}
  BY GivenFacts
<1>3. /\ f.op = "bits" => code = ToBits(v, f.size)
      /\ f.op = "int" => code = ToBits(v, BitsRequired(f.size))
      /\ f.op = "relative" => code = IntRelativeCode(given[f.after], v)
      /\ f.op = "bytes" => code = Zeros(AlignPad(at)) \o Run(v)
      /\ f.op = "string" => code = RP!StringCode(at, f.size, object)
  BY <1>1, CodeIs
<1>4. /\ f.op = "bits" => decoded = RP!Field(at, f.size)
      /\ f.op = "int" => decoded = RP!Ranged(at, f.size)
      /\ f.op = "relative" => decoded = RP!IntRelative(at, vals[f.after])
      /\ f.op = "bytes" => decoded = RP!Bytes(at, f.size)
      /\ f.op = "string" => decoded = RP!String(at, f.size)
  BY DecodeIs
<1>5. f.op = "relative" => vals[f.after] = given[f.after]
  BY DEF Ready
<1>6. RP!Position(at) /\ RP!Accepted(decoded) /\ decoded.value = object
  OBVIOUS
<1> SUFFICES RP!Sound(decoded, at) /\ decoded.code = code
  OBVIOUS
<1> HIDE DEF f, v, object, code, decoded
<1>7. CASE f.op = "bits"
  <2>1. RP!Sound(RP!Field(at, f.size), at)
    BY <1>2, <1>6, RP!FieldSound, Standing, GeometryAssumption, BucketsAssumption,
       DomainAssumption, TextAssumption
  <2>2. RP!Accepted(RP!Field(at, f.size)) /\ RP!Field(at, f.size).value = v
    BY <1>2, <1>4, <1>6, <1>7
  <2>3. RP!Field(at, f.size).code = RP!ToBits(v, f.size)
    BY <1>2, <1>6, <2>2, RP!FieldTells, Standing, GeometryAssumption, BucketsAssumption,
       DomainAssumption, TextAssumption
  <2> QED BY <1>3, <1>4, <1>7, <2>1, <2>3, SameCodes
<1>8. CASE f.op = "int"
  <2>1. RP!Accepted(RP!Ranged(at, f.size)) /\ RP!Ranged(at, f.size).value = v
    BY <1>2, <1>4, <1>6, <1>8
  <2>2. /\ RP!Sound(RP!Ranged(at, f.size), at)
        /\ RP!Ranged(at, f.size).code = RP!ToBits(v, RP!BitsRequired(f.size))
    BY <1>2, <1>6, <2>1, RP!RangedSound, Standing, GeometryAssumption, BucketsAssumption,
       DomainAssumption, TextAssumption
  <2> QED BY <1>3, <1>4, <1>8, <2>2, SameCodes
<1>9. CASE f.op = "relative"
  <2> DEFINE p == given[f.after]
  <2>1. p \in Nat /\ p \in Int /\ decoded = RP!IntRelative(at, p) /\ object = v
        /\ code = IntRelativeCode(p, v)
    BY <1>2, <1>3, <1>4, <1>5, <1>9
  <2> HIDE DEF p
  <2>2. RP!Accepted(RP!IntRelative(at, p)) /\ RP!IntRelative(at, p).value = v
    BY <2>1, <1>6
  <2>3. RP!Sound(RP!IntRelative(at, p), at)
    BY <1>6, <2>1, RP!IntRelativeSound, Standing, GeometryAssumption, BucketsAssumption,
       DomainAssumption, TextAssumption
  <2>4. RP!IntRelative(at, p).code = RP!IntRelativeCode(p, v)
    BY <1>6, <2>2, RP!IntRelativeTells, Standing, GeometryAssumption, BucketsAssumption,
       DomainAssumption, TextAssumption
  <2> QED BY <2>1, <2>3, <2>4, SameCodes
<1>10. CASE f.op = "bytes"
  <2>1. RP!Accepted(RP!Bytes(at, f.size)) /\ RP!Bytes(at, f.size).value = v
    BY <1>2, <1>4, <1>6, <1>10
  <2>2. RP!Sound(RP!Bytes(at, f.size), at)
    BY <1>2, <1>6, RP!BytesSound, Standing, GeometryAssumption, BucketsAssumption,
       DomainAssumption, TextAssumption
  <2>3. RP!Bytes(at, f.size).code = RP!Zeros(RP!AlignPad(at)) \o RP!RunOf(v)
    BY <1>2, <1>6, <2>1, RP!BytesTells, Standing, GeometryAssumption, BucketsAssumption,
       DomainAssumption, TextAssumption
  <2> QED BY <1>3, <1>4, <1>10, <2>2, <2>3, SameCodes, SameRuns
<1>11. CASE f.op = "string"
  <2>1. /\ RP!Accepted(RP!String(at, f.size)) /\ RP!String(at, f.size).value = object
        /\ f.size \in Nat \ {0}
    BY <1>2, <1>4, <1>6, <1>11
  <2>2. RP!Sound(RP!String(at, f.size), at)
    BY <1>6, <2>1, RP!StringSound, Standing, GeometryAssumption, BucketsAssumption,
       DomainAssumption, TextAssumption
  <2>3. RP!String(at, f.size).code = RP!StringCode(at, f.size, object)
    BY <1>6, <2>1, RP!StringTells, Standing, GeometryAssumption, BucketsAssumption,
       DomainAssumption, TextAssumption
  <2> QED BY <1>3, <1>4, <1>11, <2>2, <2>3
<1> QED BY <1>2, <1>7, <1>8, <1>9, <1>10, <1>11

-----------------------------------------------------------------------------
(***************************************************************************)
(* What the sender keeps: its caller's values are choices, and unless it   *)
(* panicked every string is text and each field starts where the one       *)
(* before it ends; a packet is the wire and the zeros a flush adds.        *)
(***************************************************************************)
Encoded(i, at) == IF Present(i, given) THEN Code(i, at) ELSE <<>>

Laid(start) ==
  /\ start \in [0..Len(given) -> Nat] /\ start[0] = 0 /\ start[Len(given)] = Len(wire)
  /\ \A i \in 1..Len(given) :
       /\ start[i] = start[i-1] + Len(Encoded(i, start[i-1])) /\ start[i] <= Len(wire)
       /\ \A j \in 1..Len(Encoded(i, start[i-1])) :
            wire[start[i-1]+j] = Encoded(i, start[i-1])[j]

SentText(i) == Present(i, given) /\ schema[i].op = "string" =>
                 WellFormed(CopyString(given[i], schema[i].size))

SenderInv ==
  /\ schema \in Schemas /\ GivenOK /\ wire \in Seq(Bit)
  /\ last \in {"reset", "returned", "misuse", "flushed"}
  /\ last # "misuse" => (\E start : Laid(start)) /\ \A i \in 1..Len(given) : SentText(i)
  /\ last = "flushed" => /\ Len(given) = Len(schema)
                         /\ packet = wire \o Zeros(AlignPad(Len(wire)))

(***************************************************************************)
(* A choice is a number, not below zero, or a run of bytes.                *)
(***************************************************************************)
LEMMA ChoiceType ==
  ASSUME schema \in Schemas, GivenOK, NEW n \in 1..Len(schema), n = Len(given) + 1,
         Present(n, given), NEW v \in Choices(schema[n])
  PROVE  v \in Value /\ (Numbers(schema[n].op) => v \in Nat)
<1> DEFINE f == schema[n]
<1>1. /\ f.op \in {"bits", "int", "relative", "bytes", "string"} /\ f.size \in Nat
      /\ Len(given) \in Nat
  BY SchemaFacts, LenProperties DEF GivenOK
<1>2. ASSUME f.op = "relative" PROVE v \in Nat
  <2> DEFINE a == f.after
  <2>1. a \in 1..n-1 /\ Numbers(schema[a].op) /\ schema[a].when \in {0, f.when}
    BY <1>2, SchemaFacts
  <2>2. Present(a, given)
    BY <2>1 DEF Present
  <2>3. a \in 1..Len(given)
    BY <1>1, <2>1
  <2> HIDE DEF a
  <2>4. given[a] \in Nat
    BY <2>1, <2>2, <2>3 DEF GivenOK
  <2>5. v \in given[a]+1..IntRelativeMax
    BY <1>2, ChoicesAre DEF a
  <2> QED BY <2>4, <2>5, DomainAssumption
<1>3. ASSUME f.op = "bits" PROVE v \in Nat
  <2>1. v \in 0..2^f.size-1 /\ 2^f.size \in Nat
    BY <1>1, <1>3, ChoicesAre, Powers
  <2> QED BY <2>1
<1>4. ASSUME f.op = "int" PROVE v \in Nat
  <2>1. v \in 0..f.size
    BY <1>4, ChoicesAre
  <2> QED BY <1>1, <2>1
<1>5. ASSUME f.op = "bytes" PROVE v \in Seq(Int)
  <2>1. v \in [1..f.size -> Byte]
    BY <1>5, ChoicesAre
  <2>2. Byte \subseteq Int
    BY DEF Byte
  <2> HIDE DEF f
  <2>3. v \in [1..f.size -> Int]
    BY <2>1, <2>2
  <2> QED BY <2>3, <1>1, SeqDef
<1>6. ASSUME f.op = "string" PROVE v \in Seq(Int)
  <2>1. v \in Seq(Byte) /\ Byte \subseteq Int
    BY <1>6, ChoicesAre, SourcesAssumption DEF Byte
  <2>2. Len(v) \in Nat /\ DOMAIN v = 1..Len(v) /\ v = [i \in 1..Len(v) |-> v[i]]
    BY <2>1, LenProperties
  <2>3. \A i \in 1..Len(v) : v[i] \in Int
    BY <2>1, ElementsOf
  <2>4. v \in [1..Len(v) -> Int]
    BY <2>2, <2>3
  <2> QED BY <2>2, <2>4, SeqDef
<1>7. f.op \in {"bits", "int", "relative"} => v \in Nat
  BY <1>2, <1>3, <1>4
<1> QED BY <1>1, <1>5, <1>6, <1>7 DEF Value, Numbers

(***************************************************************************)
(* One value more leaves what was given, and the bits of it, alone.        *)
(***************************************************************************)
LEMMA AppendKeeps ==
  ASSUME schema \in Schemas, GivenOK, NEW n, n = Len(given), n < Len(schema), NEW v \in Value,
         given' = Append(given, v), schema' = schema,
         Present(n + 1, given) =>
           /\ v \in Choices(schema[n + 1])
           /\ Numbers(schema[n + 1].op) => v \in Nat
  PROVE  /\ GivenOK' /\ Len(given') = n + 1 /\ given'[n + 1] = v
         /\ n \in Nat
         /\ Present(n + 1, given)' <=> Present(n + 1, given)
         /\ \A i \in 1..n :
              /\ given'[i] = given[i] /\ (Present(i, given)' <=> Present(i, given))
              /\ \A at : Encoded(i, at)' = Encoded(i, at)
<1>1. /\ n \in Nat /\ given \in Seq(Value) /\ n + 1 \in 1..Len(schema) /\ Len(schema) \in Nat
      /\ n + 1 \in Nat
  BY SchemaFacts, LenProperties DEF GivenOK
<1>2. /\ given' \in Seq(Value) /\ Len(given') = n + 1 /\ given'[n+1] = v
      /\ \A i \in 1..n : given'[i] = given[i]
  BY <1>1, AppendProperties
<1>3. \A i \in 1..n+1 : schema[i].when # 0 => schema[i].when \in 1..n
  <2> SUFFICES ASSUME NEW i \in 1..n+1, schema[i].when # 0 PROVE schema[i].when \in 1..n
    OBVIOUS
  <2> DEFINE w == schema[i].when
  <2>1. i \in 1..Len(schema) /\ i \in Nat
    BY <1>1
  <2>2. w \in 1..i-1
    BY <2>1, SchemaFacts
  <2> HIDE DEF w
  <2>3. w \in 1..n
    BY <1>1, <2>1, <2>2
  <2> QED BY <2>3 DEF w
<1>4. ASSUME NEW i \in 1..n+1 PROVE Present(i, given)' <=> Present(i, given)
  BY <1>2, <1>3, Zenon DEF Present
<1>5. ASSUME NEW i \in 1..n, schema[i].op = "relative"
      PROVE  schema[i].after \in 1..n /\ given'[schema[i].after] = given[schema[i].after]
  <2> DEFINE a == schema[i].after
  <2>1. i \in 1..Len(schema) /\ i \in Nat
    BY <1>1
  <2>2. a \in 1..i-1
    BY <2>1, <1>5, SchemaFacts
  <2> HIDE DEF a
  <2>3. a \in 1..n
    BY <1>1, <2>1, <2>2
  <2> QED BY <2>3, <1>2 DEF a
<1>6. ASSUME NEW i \in 1..n, NEW at PROVE Encoded(i, at)' = Encoded(i, at)
  <2>1. schema[i].op \in {"bits", "int", "relative", "bytes", "string"}
    BY <1>1, SchemaFacts
  <2>2. Operation(schema[i], given[i])' = Operation(schema[i], given[i])
    BY <1>2, <1>5, <2>1 DEF Operation
  <2>3. Code(i, at)' = Code(i, at)
    BY <2>2 DEF Code
  <2> QED BY <2>3, <1>4 DEF Encoded
<1>7. ASSUME NEW i \in 1..n, Present(i, given)'
      PROVE  given'[i] \in Choices(schema[i])' /\ (Numbers(schema'[i].op) => given'[i] \in Nat)
  <2>1. given[i] \in Choices(schema[i]) /\ (Numbers(schema[i].op) => given[i] \in Nat)
    BY <1>4, <1>7 DEF GivenOK
  <2>2. Choices(schema[i])' = Choices(schema[i])
    <3>1. schema[i].op \in {"bits", "int", "relative", "bytes", "string"}
      BY <1>1, SchemaFacts
    <3> QED BY <1>5, <3>1 DEF Choices
  <2> QED BY <2>1, <2>2, <1>2
<1>8. ASSUME Present(n + 1, given)'
      PROVE  given'[n+1] \in Choices(schema[n+1])' /\ (Numbers(schema'[n+1].op) => given'[n+1] \in Nat)
  <2>1. v \in Choices(schema[n+1]) /\ (Numbers(schema[n+1].op) => v \in Nat)
    BY <1>1, <1>4, <1>8
  <2>2. schema[n+1].op = "relative" =>
          given'[schema[n+1].after] = given[schema[n+1].after]
    <3> DEFINE k == n + 1
    <3>1. schema[k].op = "relative" => schema[k].after \in 1..k-1
      BY <1>1, SchemaFacts
    <3>2. k - 1 = n
      BY <1>1
    <3> QED BY ONLY <3>1, <3>2, <1>2
  <2>3. Choices(schema[n+1])' = Choices(schema[n+1])
    <3>1. schema[n+1].op \in {"bits", "int", "relative", "bytes", "string"}
      BY <1>1, SchemaFacts
    <3> QED BY <2>2, <3>1 DEF Choices
  <2> QED BY <2>1, <2>3, <1>2
<1>9. \A i \in 1..n+1 : i \in 1..n \/ i = n + 1
  BY <1>1
<1>10. GivenOK'
  <2>1. Len(given') <= Len(schema')
    BY <1>1, <1>2
  <2>2. \A i \in 1..n+1 : Present(i, given)' =>
          given'[i] \in Choices(schema[i])' /\ (Numbers(schema'[i].op) => given'[i] \in Nat)
    BY <1>7, <1>8, <1>9
  <2> QED BY <1>2, <2>1, <2>2 DEF GivenOK
<1>11. Present(n + 1, given)' <=> Present(n + 1, given)
  BY <1>1, <1>4
<1> QED BY <1>1, <1>2, <1>4, <1>6, <1>10, <1>11

(***************************************************************************)
(* What is sent stays as it is when neither the object nor the wire        *)
(* changes.                                                                *)
(***************************************************************************)
LEMMA SenderRests ==
  ASSUME schema \in Schemas, GivenOK, UNCHANGED <<schema, given, wire>>
  PROVE  /\ GivenOK' /\ \A start : Laid(start)' <=> Laid(start)
         /\ \A i \in 1..Len(given) : SentText(i)' <=> SentText(i)
<1>1. schema' = schema /\ given' = given /\ wire' = wire
  OBVIOUS
<1>2. ASSUME NEW i \in 1..Len(given) PROVE Present(i, given)' <=> Present(i, given)
  BY <1>1 DEF Present
<1>3. ASSUME NEW i \in 1..Len(given)
      PROVE  schema[i].op \in {"bits", "int", "relative", "bytes", "string"}
  <2>1. i \in 1..Len(schema)
    BY SchemaFacts, LenProperties DEF GivenOK
  <2> QED BY <2>1, SchemaFacts
<1>4. ASSUME NEW i \in 1..Len(given), NEW at PROVE Encoded(i, at)' = Encoded(i, at)
  <2>1. Operation(schema[i], given[i])' = Operation(schema[i], given[i])
    BY <1>1, <1>3 DEF Operation
  <2> QED BY <2>1, <1>2 DEF Encoded, Code
<1>5. ASSUME NEW start PROVE Laid(start)' <=> Laid(start)
  BY <1>1, <1>4 DEF Laid
<1>6. GivenOK'
  <2>1. ASSUME NEW i \in 1..Len(given) PROVE Choices(schema[i])' = Choices(schema[i])
    BY <1>1, <1>3 DEF Choices
  <2> QED BY <1>1, <1>2, <2>1 DEF GivenOK
<1>7. \A i \in 1..Len(given) : SentText(i)' <=> SentText(i)
  BY <1>1, <1>2 DEF SentText
<1> QED BY <1>5, <1>6, <1>7

(***************************************************************************)
(* A field more, with its bits at the end of the wire, starts where the    *)
(* wire ended.                                                             *)
(***************************************************************************)
LEMMA LaidGrows ==
  ASSUME NEW n \in Nat, n = Len(given), Len(given') = n + 1,
         \A i \in 1..n : \A at : Encoded(i, at)' = Encoded(i, at),
         wire \in Seq(Bit), NEW m, m = Len(wire), NEW more \in Seq(Bit),
         Encoded(n + 1, m)' = more, wire' = wire \o more, NEW start, Laid(start)
  PROVE  \E grown : Laid(grown)'
<1> DEFINE grown == [k \in 0..n+1 |-> IF k <= n THEN start[k] ELSE m + Len(more)]
<1>1. m \in Nat /\ Len(more) \in Nat
  BY LenProperties
<1>2. /\ wire' \in Seq(Bit) /\ Len(wire') = m + Len(more)
      /\ \A j \in 1..m : wire'[j] = wire[j]
      /\ \A j \in 1..Len(more) : wire'[m+j] = more[j]
  <2>1. /\ wire' \in Seq(Bit) /\ Len(wire') = m + Len(more)
        /\ \A j \in 1..m + Len(more) : wire'[j] = IF j <= m THEN wire[j] ELSE more[j - m]
    BY ConcatProperties
  <2>2. \A j \in 1..m : j \in 1..m + Len(more) /\ j <= m
    BY <1>1
  <2>3. \A j \in 1..Len(more) : m + j \in 1..m + Len(more) /\ ~(m + j <= m) /\ (m + j) - m = j
    BY <1>1
  <2> QED BY <2>1, <2>2, <2>3
<1>3. /\ start \in [0..n -> Nat] /\ start[0] = 0 /\ start[n] = m
      /\ \A i \in 1..n :
           /\ start[i] = start[i-1] + Len(Encoded(i, start[i-1])) /\ start[i] <= m
           /\ \A j \in 1..Len(Encoded(i, start[i-1])) :
                wire[start[i-1]+j] = Encoded(i, start[i-1])[j]
  BY DEF Laid
<1>4. /\ grown \in [0..n+1 -> Nat]
      /\ \A k \in 0..n : grown[k] = start[k]
      /\ grown[n+1] = m + Len(more)
  BY <1>1, <1>3
<1> HIDE DEF grown
<1>5. ASSUME NEW i \in 1..n
      PROVE  /\ grown[i] = grown[i-1] + Len(Encoded(i, grown[i-1])') /\ grown[i] <= m + Len(more)
             /\ \A j \in 1..Len(Encoded(i, grown[i-1])') :
                  wire'[grown[i-1]+j] = Encoded(i, grown[i-1])'[j]
  <2> DEFINE from == start[i-1]
             code == Encoded(i, from)
  <2>1. i \in 0..n /\ i - 1 \in 0..n
    OBVIOUS
  <2>2. grown[i] = start[i] /\ grown[i-1] = from /\ from \in Nat /\ start[i] \in Nat
    BY <2>1, <1>3, <1>4
  <2>3. Encoded(i, grown[i-1])' = code
    BY <2>2
  <2>4. /\ start[i] = from + Len(code) /\ start[i] <= m
        /\ \A j \in 1..Len(code) : wire[from+j] = code[j]
    BY <1>3
  <2> HIDE DEF code, from
  <2>5. ASSUME NEW j \in 1..Len(code) PROVE wire'[from+j] = code[j]
    <3>1. from + j \in 1..m
      <4>1. Len(code) = start[i] - from \/ Len(code) \notin Int
        BY <2>2, <2>4
      <4> QED BY <4>1, <2>2, <2>4, <1>1
    <3> QED BY <3>1, <2>4, <1>2
  <2> QED BY <2>2, <2>3, <2>4, <2>5, <1>1
<1>6. Encoded(n + 1, grown[n])' = more
  BY <1>3, <1>4
<1>7. Laid(grown)'
  <2>1. ASSUME NEW i \in 1..n+1
        PROVE  /\ grown[i] = grown[i-1] + Len(Encoded(i, grown[i-1])') /\ grown[i] <= Len(wire')
               /\ \A j \in 1..Len(Encoded(i, grown[i-1])') :
                    wire'[grown[i-1]+j] = Encoded(i, grown[i-1])'[j]
    <3>1. CASE i \in 1..n
      BY <3>1, <1>2, <1>5
    <3>2. CASE i = n + 1
      <4>1. i - 1 = n /\ grown[n] = m
        BY <3>2, <1>3, <1>4
      <4>2. Encoded(i, grown[i-1])' = more
        BY <4>1, <3>2, <1>6
      <4>3. /\ \A j \in 1..Len(more) : wire'[m+j] = more[j]
            /\ grown[i] = m + Len(more) /\ Len(wire') = m + Len(more)
            /\ m + Len(more) <= m + Len(more)
        BY <3>2, <1>1, <1>2, <1>4
      <4> QED BY ONLY <4>1, <4>2, <4>3
    <3>3. i \in 1..n \/ i = n + 1
      OBVIOUS
    <3> QED BY <3>1, <3>2, <3>3
  <2>2. grown[0] = 0 /\ grown[n+1] = Len(wire')
    BY <1>2, <1>3, <1>4
  <2> QED BY <2>1, <2>2, <1>4 DEF Laid
<1> QED BY <1>7

(***************************************************************************)
(* The bits of a field are bits.                                           *)
(***************************************************************************)
LEMMA CodeType ==
  schema \in Schemas /\ GivenOK =>
    \A i \in 1..Len(given), at \in Nat : Present(i, given) => Code(i, at) \in Seq(Bit)
BY CodeIs

(***************************************************************************)
(* A field that is written, or skipped.                                    *)
(***************************************************************************)
LEMMA FieldKeeps ==
  ASSUME SenderInv, WriteNext
  PROVE  SenderInv'
<1> SUFFICES ASSUME NEW n, n = Len(given) PROVE SenderInv'
  OBVIOUS
<1>1. /\ schema \in Schemas /\ GivenOK /\ wire \in Seq(Bit) /\ given \in Seq(Value)
      /\ Len(schema) \in Nat /\ n \in Nat /\ n < Len(schema)
      /\ n + 1 \in 1..Len(schema) /\ n + 1 \in Nat /\ last # "misuse"
  <2>1. /\ schema \in Schemas /\ GivenOK /\ wire \in Seq(Bit) /\ given \in Seq(Value)
        /\ n < Len(schema) /\ last # "misuse"
    BY DEF SenderInv, GivenOK, WriteNext, WriteField
  <2>2. Len(schema) \in Nat /\ n \in Nat
    BY <2>1, SchemaFacts, LenProperties
  <2> QED BY <2>1, <2>2
<1>2. PICK start : Laid(start)
  BY <1>1 DEF SenderInv
<1>3. ASSUME NEW v \in Value, given' = Append(given, v), schema' = schema,
             Present(n + 1, given) =>
               /\ v \in Choices(schema[n + 1])
               /\ Numbers(schema[n + 1].op) => v \in Nat
      PROVE  /\ GivenOK' /\ Len(given') = n + 1 /\ given'[n + 1] = v
             /\ Present(n + 1, given)' <=> Present(n + 1, given)
             /\ \A i \in 1..n :
                  /\ given'[i] = given[i] /\ (Present(i, given)' <=> Present(i, given))
                  /\ \A at : Encoded(i, at)' = Encoded(i, at)
             /\ \A i \in 1..n : SentText(i)'
  <2>1. /\ GivenOK' /\ Len(given') = n + 1 /\ given'[n + 1] = v
        /\ Present(n + 1, given)' <=> Present(n + 1, given)
        /\ \A i \in 1..n :
             /\ given'[i] = given[i] /\ (Present(i, given)' <=> Present(i, given))
             /\ \A at : Encoded(i, at)' = Encoded(i, at)
    BY <1>1, <1>3, AppendKeeps
  <2>2. \A i \in 1..n : SentText(i)
    BY <1>1 DEF SenderInv
  <2>3. \A i \in 1..n : SentText(i)'
    BY <1>3, <2>1, <2>2 DEF SentText
  <2> QED BY <2>1, <2>3
<1>4. ASSUME NEW more \in Seq(Bit), GivenOK', Len(given') = n + 1, schema' = schema,
             \A i \in 1..n : \A at : Encoded(i, at)' = Encoded(i, at),
             \A i \in 1..n : SentText(i)', SentText(n + 1)',
             \A m : m = Len(wire) => Encoded(n + 1, m)' = more,
             wire' = wire \o more, last' \in {"reset", "returned"}
      PROVE  SenderInv'
  <2>1. PICK m : m = Len(wire)
    OBVIOUS
  <2>2. Encoded(n + 1, m)' = more
    BY <1>4, <2>1
  <2>3. \E grown : Laid(grown)'
    BY <1>1, <1>2, <1>4, <2>1, <2>2, LaidGrows
  <2>4. wire' \in Seq(Bit)
    BY <1>1, <1>4, ConcatProperties
  <2>5. \A i \in 1..n+1 : SentText(i)'
    <3>1. \A i \in 1..n+1 : i \in 1..n \/ i = n + 1
      BY <1>1
    <3> QED BY <3>1, <1>4
  <2> QED BY <1>1, <1>4, <2>3, <2>4, <2>5 DEF SenderInv
<1>5. CASE Present(n + 1, given)
  <2>1. PICK v \in Choices(schema[n+1]) : WriteField(v)
    BY <1>5 DEF WriteNext
  <2>2. v \in Value /\ (Numbers(schema[n+1].op) => v \in Nat)
    BY <1>1, <1>5, ChoiceType
  <2>3. given' = Append(given, v) /\ schema' = schema
    BY <2>1 DEF WriteField
  <2>4. /\ GivenOK' /\ Len(given') = n + 1 /\ given'[n + 1] = v
        /\ Present(n + 1, given)'
        /\ \A i \in 1..n :
             /\ given'[i] = given[i] /\ (Present(i, given)' <=> Present(i, given))
             /\ \A at : Encoded(i, at)' = Encoded(i, at)
        /\ \A i \in 1..n : SentText(i)'
    BY <1>3, <1>5, <2>1, <2>2, <2>3
  <2>5. CASE schema[n+1].op = "string" /\ ~WellFormed(CopyString(v, schema[n+1].size))
    <3>1. W!Misuse
      BY <2>1, <2>5 DEF WriteField
    <3>2. last' = "misuse" /\ wire' = wire
      BY <3>1 DEF W!Misuse
    <3> QED BY <1>1, <2>3, <2>4, <3>2 DEF SenderInv
  <2>6. CASE ~(schema[n+1].op = "string" /\ ~WellFormed(CopyString(v, schema[n+1].size)))
    <3>1. W!Accept(Operation(schema[n+1], v))
      BY <2>1, <2>6 DEF WriteField
    <3>2. PICK m : m = Len(wire)
      OBVIOUS
    <3>3. PICK more : more = W!Encoding(Operation(schema[n+1], v), m)
      OBVIOUS
    <3>4. last' = "returned" /\ wire' = wire \o more
      BY <3>1, <3>2, <3>3 DEF W!Accept
    <3>5. Code(n + 1, m)' = more
      <4>1. schema[n+1].op \in {"bits", "int", "relative", "bytes", "string"}
        BY <1>1, SchemaFacts
      <4>2. schema[n+1].op = "relative" =>
              given'[schema[n+1].after] = given[schema[n+1].after]
        <5> DEFINE k == n + 1
        <5>1. schema[k].op = "relative" => schema[k].after \in 1..k-1
          BY <1>1, SchemaFacts
        <5>2. k - 1 = n
          BY <1>1
        <5> QED BY ONLY <5>1, <5>2, <2>4
      <4>3. Operation(schema[n+1], given[n+1])' = Operation(schema[n+1], v)
        BY <2>3, <2>4, <4>1, <4>2 DEF Operation
      <4> QED BY <3>3, <4>3 DEF Code
    <3>6. more \in Seq(Bit)
      <4>1. (schema \in Schemas /\ GivenOK =>
               \A i \in 1..Len(given), at \in Nat :
                 Present(i, given) => Code(i, at) \in Seq(Bit))'
        BY CodeType, PTL
      <4>2. n + 1 \in 1..Len(given') /\ m \in Nat /\ schema' \in Schemas
        BY <1>1, <2>3, <2>4, <3>2, LenProperties
      <4>3. Code(n + 1, m)' \in Seq(Bit)
        BY <2>4, <4>1, <4>2
      <4> QED BY <3>5, <4>3
    <3>7. \A k : k = Len(wire) => Encoded(n + 1, k)' = more
      BY <2>4, <3>2, <3>5 DEF Encoded
    <3>8. SentText(n + 1)'
      BY <2>3, <2>4, <2>6 DEF SentText
    <3> QED BY <1>4, <2>3, <2>4, <3>4, <3>6, <3>7, <3>8
  <2> QED BY <2>5, <2>6
<1>6. CASE ~Present(n + 1, given)
  <2>1. SkipField
    BY <1>6 DEF WriteNext
  <2>2. PICK v : v = Old(n + 1)
    OBVIOUS
  <2>3. v \in Value
    <3>1. <<-1>> \in Seq(Int) /\ -1 \in Int
      OBVIOUS
    <3> QED BY <2>2, <3>1 DEF Old, Value
  <2>4. given' = Append(given, v) /\ schema' = schema /\ wire' = wire /\ last' = last
    BY <2>1, <2>2 DEF SkipField, sender
  <2>5. /\ GivenOK' /\ Len(given') = n + 1 /\ ~Present(n + 1, given)'
        /\ \A i \in 1..n : \A at : Encoded(i, at)' = Encoded(i, at)
        /\ \A i \in 1..n : SentText(i)'
    BY <1>3, <1>6, <2>3, <2>4
  <2> DEFINE more == <<>>
  <2>6. more \in Seq(Bit) /\ wire' = wire \o more
    BY <1>1, <2>4, ConcatEmptySeq
  <2>7. (\A k : k = Len(wire) => Encoded(n + 1, k)' = more) /\ SentText(n + 1)'
    BY <2>5 DEF Encoded, SentText
  <2>8. last' \in {"reset", "returned"}
    <3>1. last # "flushed"
      BY <1>1 DEF SenderInv
    <3> QED BY <1>1, <2>4, <3>1 DEF SenderInv
  <2> HIDE DEF more
  <2> QED BY <1>4, <2>4, <2>5, <2>6, <2>7, <2>8
<1> QED BY <1>5, <1>6

(***************************************************************************)
(* Whatever the sender does, or the network and the receiver do, keeps     *)
(* what the sender keeps.                                                  *)
(***************************************************************************)
LEMMA SenderKeeps ==
  ASSUME SenderInv, [Next]_vars
  PROVE  SenderInv'
<1>1. ASSUME UNCHANGED <<schema, given, sender>> PROVE SenderInv'
  <2>1. schema' = schema /\ given' = given /\ wire' = wire /\ last' = last /\ packet' = packet
    BY <1>1 DEF sender
  <2>2. /\ GivenOK' /\ \A start : Laid(start)' <=> Laid(start)
        /\ \A i \in 1..Len(given) : SentText(i)' <=> SentText(i)
    BY <2>1, SenderRests DEF SenderInv
  <2> QED BY <2>1, <2>2 DEF SenderInv
<1>2. CASE WriteNext
  BY <1>2, FieldKeeps
<1>3. CASE Flush
  <2>1. /\ schema' = schema /\ given' = given /\ wire' = wire /\ last' = "flushed"
        /\ packet' = wire \o W!Zeros(W!AlignPad(Len(wire)))
        /\ Len(given) = Len(schema) /\ last # "misuse"
    BY <1>3 DEF Flush, W!Flush, ends
  <2>2. packet' = wire \o Zeros(AlignPad(Len(wire)))
    BY <2>1, SameCodes
  <2>3. /\ GivenOK' /\ \A start : Laid(start)' <=> Laid(start)
        /\ \A i \in 1..Len(given) : SentText(i)' <=> SentText(i)
    BY <2>1, SenderRests DEF SenderInv
  <2> QED BY <2>1, <2>2, <2>3 DEF SenderInv
<1>4. CASE DeliverIntact
  BY <1>1, <1>4 DEF DeliverIntact, Deliver
<1>5. CASE Truncate
  BY <1>1, <1>5 DEF Truncate, Deliver
<1>6. CASE Extend
  BY <1>1, <1>6 DEF Extend, Deliver
<1>7. CASE Flip
  BY <1>1, <1>7 DEF Flip, Deliver
<1>8. CASE ReadField
  BY <1>1, <1>8 DEF ReadField
<1>9. CASE ReadEnd
  BY <1>1, <1>9 DEF ReadEnd
<1>10. CASE ReturnEarly
  BY <1>1, <1>10 DEF ReturnEarly
<1>11. CASE UNCHANGED vars
  BY <1>1, <1>11 DEF vars, ends
<1> QED BY <1>2, <1>3, <1>4, <1>5, <1>6, <1>7, <1>8, <1>9, <1>10, <1>11 DEF Next

(***************************************************************************)
(* What the sender has at the start.                                       *)
(***************************************************************************)
LEMMA SenderStarts ==
  ASSUME Init
  PROVE  SenderInv
<1>1. schema \in Schemas /\ given = <<>> /\ wire = <<>> /\ last = "reset"
  BY DEF Init, W!Init
<1>2. given \in Seq(Value) /\ Len(given) = 0 /\ wire \in Seq(Bit) /\ Len(wire) = 0
  BY <1>1
<1>3. Len(schema) \in Nat
  BY <1>1, SchemaFacts
<1>4. GivenOK
  BY <1>2, <1>3 DEF GivenOK
<1>5. Laid([k \in 0..0 |-> 0])
  BY <1>2 DEF Laid
<1>6. \A i \in 1..Len(given) : SentText(i)
  BY <1>2
<1> QED BY <1>1, <1>2, <1>4, <1>5, <1>6 DEF SenderInv

(***************************************************************************)
(* So the fields of an object lie one behind the other in what is sent,    *)
(* in the order in which the function visits them, as long as the write    *)
(* methods have not panicked.                                              *)
(***************************************************************************)
THEOREM FieldsLieInOrder == Spec => []SenderInv
<1>1. Init => SenderInv
  BY SenderStarts
<1>2. SenderInv /\ [Next]_vars => SenderInv'
  BY SenderKeeps
<1> QED BY <1>1, <1>2, PTL DEF Spec

(***************************************************************************)
(* What is sent of a string is what fits.                                  *)
(***************************************************************************)
LEMMA GivenFits ==
  ASSUME SenderInv
  PROVE  LongestThatFits
<1> SUFFICES ASSUME NEW i \in DOMAIN given, schema[i].op = "string", Present(i, given)
             PROVE  LET source == given[i]
                        text   == Object[i]
                    IN  /\ Len(text) < schema[i].size
                        /\ text = SubSeq(source, 1, Len(text)) /\ ~HasNul(text)
                        /\ WellFormed(source) => WellFormed(text)
                        /\ \A n \in Len(text)+1..Len(source) :
                             \/ n >= schema[i].size
                             \/ HasNul(SubSeq(source, 1, n))
                             \/ n < Len(source) /\ source[n+1] \in Continuation
  BY DEF LongestThatFits
<1> DEFINE source == given[i]
           text == Object[i]
           size == schema[i].size
<1>1. i \in 1..Len(given)
  BY LenProperties DEF SenderInv, GivenOK
<1>2. source \in Seq(Byte) /\ size \in Nat \ {0} /\ text = CopyString(source, size)
  BY <1>1, GivenFacts DEF SenderInv
<1> HIDE DEF source, text, size
<1>3. PICK m \in 0..Len(source) :
           /\ CopyString(source, size) = SubSeq(source, 1, m)
           /\ m < size
           /\ \A n \in m+1..Len(source) :
                \/ n >= size
                \/ \E j \in 1..n : source[j] = NUL
                \/ n < Len(source) /\ source[n+1] \in Continuation
  BY <1>2, CopyStringLength
<1>4. Len(text) = m
  BY <1>2, <1>3, Beginning
<1>5. ~HasNul(text) /\ (WellFormed(source) => WellFormed(text))
  BY <1>2, SourceText
<1>6. ASSUME NEW n \in m+1..Len(source), \E j \in 1..n : source[j] = NUL
      PROVE  HasNul(SubSeq(source, 1, n))
  <2>1. n \in 0..Len(source)
    BY <1>2, LenProperties
  <2>2. DOMAIN SubSeq(source, 1, n) = 1..n /\ \A j \in 1..n : SubSeq(source, 1, n)[j] = source[j]
    BY <2>1, <1>2, Beginning
  <2> QED BY <1>6, <2>2 DEF HasNul
<1> QED BY <1>2, <1>3, <1>4, <1>5, <1>6 DEF source, text, size

(***************************************************************************)
(* "The longest prefix of source that fits a string buffer of destSize     *)
(* bytes, terminator included, without ending inside a character", of      *)
(* every string of every object.                                           *)
(***************************************************************************)
THEOREM CopiesTheLongest == Spec => []LongestThatFits
<1>1. SenderInv => LongestThatFits
  BY GivenFits
<1> QED BY <1>1, FieldsLieInOrder, PTL

-----------------------------------------------------------------------------
(***************************************************************************)
(* What the receiver keeps.  The packet is what the network made of the    *)
(* one sent; unless its bits are wrong, the receiver is at the position    *)
(* where its next field starts, with the values of those before it, or has *)
(* refused for the one reason there is; and if they are, it is there if    *)
(* the values so far are right after all.                                  *)
(***************************************************************************)
Agrees(i) == Present(i, Object) => vals[i] = Object[i]
SoFar == err = R!None /\ \A i \in 1..Len(schema) : i < next => Agrees(i)

\* The receiver is where field n+1 starts, or the end.
Stands(n) == bitsRead \in 0..Len(data) /\ \A start : Laid(start) => bitsRead = start[n]

PrefixTo(k) ==
  \A i \in 1..Len(schema) : vals[i] = IF i < k /\ Present(i, Object) THEN Object[i] ELSE Old(i)

Received ==
  /\ data \in Seq(Bit) /\ Len(data) % ByteBits = 0
  /\ fate = "intact" => data = packet
  /\ fate = "truncated" => /\ Len(data) + ByteBits <= Len(packet)
                           /\ \A k \in 1..Len(data) : data[k] = packet[k]
  /\ fate = "extended" => /\ Len(data) = Len(packet) + ByteBits
                          /\ \A k \in 1..Len(packet) : data[k] = packet[k]
  /\ fate = "flipped" => Len(data) = Len(packet) /\ data # packet

Followed ==
  IF err = R!None
    THEN SoFar /\ IF Finished THEN fate = "intact" /\ complete ELSE Stands(next - 1)
    ELSE \/ fate = "truncated" /\ err = "past_end"
         \/ fate = "extended" /\ err = "trailing_data" /\ Finished

Told == SoFar => ~Finished /\ Stands(next - 1) /\ \A k \in 1..bitsRead : data[k] = wire[k]

ReceiverInv ==
  /\ fate \in {"none", "intact", "truncated", "extended", "flipped"}
  /\ next \in 1..Len(schema)+2 /\ DOMAIN vals = 1..Len(schema)
  /\ deliveries = 0 => fate = "none" /\ \A i \in 1..Len(schema) : vals[i] = Old(i)
  /\ deliveries \in Nat
  /\ fate = "none" => Finished
  /\ fate # "none" => last = "flushed" /\ Received
  /\ fate \in {"intact", "truncated", "extended"} => Followed
  /\ fate \in {"truncated", "extended"} => /\ \E k \in 1..Len(schema)+1 : PrefixTo(k)
                                           /\ err = R!None => PrefixTo(next)
  /\ fate = "flipped" => Told

MessageInv == SenderInv /\ ReceiverInv

(***************************************************************************)
(* So many bytes are whole bytes.                                          *)
(***************************************************************************)
LEMMA SoManyBytes ==
  ASSUME NEW q \in Int
  PROVE  (q * ByteBits) % ByteBits = 0
<1>1. ByteBits \in Nat \ {0} /\ 0 \in 0..ByteBits-1
  BY GeometryAssumption
<1>2. (q * ByteBits + 0) % ByteBits = 0
  BY <1>1, DivModUnique
<1>3. q * ByteBits \in Int
  BY <1>1
<1> DEFINE n == q * ByteBits
<1>4. n \in Int /\ (n + 0) % ByteBits = 0
  BY <1>2, <1>3
<1> HIDE DEF n
<1>5. n % ByteBits = 0
  BY <1>4
<1> QED BY <1>5 DEF n

(***************************************************************************)
(* A packet is the wire, to a whole byte, and then zeros.                  *)
(***************************************************************************)
LEMMA PacketFacts ==
  ASSUME SenderInv, last = "flushed"
  PROVE  /\ packet \in Seq(Bit) /\ Len(packet) % ByteBits = 0
         /\ Len(wire) \in Nat /\ Len(packet) \in Nat
         /\ Len(wire) <= Len(packet) /\ Len(packet) < Len(wire) + ByteBits
         /\ Len(packet) = Len(wire) + AlignPad(Len(wire))
         /\ \A k \in 1..Len(wire) : packet[k] = wire[k]
         /\ \A k \in Len(wire)+1..Len(packet) : packet[k] = 0
<1> DEFINE m == Len(wire)
           p == AlignPad(m)
           z == Zeros(p)
<1>1. m \in Nat /\ wire \in Seq(Bit) /\ packet = wire \o z
  BY LenProperties DEF SenderInv
<1>2. p \in Nat /\ p < ByteBits
  BY <1>1, PartTypes
<1>3. z \in Seq(Bit) /\ Len(z) = p /\ \A i \in 1..p : z[i] = 0
  BY <1>2, PartTypes
<1>4. (m + p) % ByteBits = 0
  <2> DEFINE q == (m + ByteBits - 1) \div ByteBits
  <2>1. q \in Int /\ RoundUp(m) = q * ByteBits
    BY <1>1, RoundUpBytes
  <2> HIDE DEF q
  <2>2. RoundUp(m) % ByteBits = 0
    BY <2>1, SoManyBytes
  <2> QED BY <2>2 DEF RoundUp
<1> HIDE DEF z, p, m
<1>5. m = Len(wire)
  BY DEF m
<1>6. /\ packet \in Seq(Bit) /\ Len(packet) = m + p
      /\ \A k \in 1..m + p : packet[k] = IF k <= m THEN wire[k] ELSE z[k - m]
  BY <1>1, <1>3, <1>5, ConcatProperties
<1>7. \A k \in 1..m : packet[k] = wire[k]
  BY <1>1, <1>2, <1>6
<1>8. ASSUME NEW k \in m+1..m+p PROVE packet[k] = 0
  <2>1. k \in 1..m + p /\ ~(k <= m) /\ k - m \in 1..p
    BY <1>1, <1>2
  <2> QED BY <2>1, <1>3, <1>6
<1>9. m + p \in Nat /\ m <= m + p /\ m + p < m + ByteBits
  BY <1>1, <1>2, GeometryAssumption
<1> QED BY <1>1, <1>4, <1>6, <1>7, <1>8, <1>9 DEF p, m

(***************************************************************************)
(* As far as it goes, a packet that is cut short, or has a byte more, or   *)
(* neither, has the bits of the wire; and only the first can be shorter.   *)
(***************************************************************************)
LEMMA ReceivedFacts ==
  ASSUME SenderInv, last = "flushed", Received
  PROVE  /\ data \in Seq(RP!Bit) /\ Len(data) \in Nat /\ Len(data) % ByteBits = 0
         /\ fate \in {"intact", "truncated", "extended"} =>
              \A k \in 1..Len(wire) : k <= Len(data) => data[k] = wire[k]
         /\ fate = "truncated" => Len(data) < Len(wire)
         /\ fate \in {"intact", "extended", "flipped"} => Len(wire) <= Len(data)
<1>1. /\ data \in Seq(Bit) /\ Len(data) % ByteBits = 0 /\ Len(data) \in Nat /\ ByteBits \in Nat
  BY LenProperties, GeometryAssumption DEF Received
<1>2. /\ Len(wire) \in Nat /\ Len(packet) \in Nat
      /\ Len(wire) <= Len(packet) /\ Len(packet) < Len(wire) + ByteBits
      /\ \A k \in 1..Len(wire) : packet[k] = wire[k]
  BY PacketFacts
<1>3. CASE fate = "intact"
  <2>1. data = packet
    BY <1>3 DEF Received
  <2> QED BY <1>1, <1>2, <1>3, <2>1, SameCodes
<1>4. CASE fate = "truncated"
  <2>1. /\ Len(data) + ByteBits <= Len(packet)
        /\ \A k \in 1..Len(data) : data[k] = packet[k]
    BY <1>4 DEF Received
  <2>2. Len(data) < Len(wire)
    BY <1>1, <1>2, <2>1
  <2> QED BY <1>1, <1>2, <1>4, <2>1, <2>2, SameCodes
<1>5. CASE fate = "extended"
  <2>1. /\ Len(data) = Len(packet) + ByteBits
        /\ \A k \in 1..Len(packet) : data[k] = packet[k]
    BY <1>5 DEF Received
  <2>2. Len(wire) <= Len(data)
    BY <1>1, <1>2, <2>1
  <2> QED BY <1>1, <1>2, <1>5, <2>1, <2>2, SameCodes
<1>6. CASE fate = "flipped"
  <2>1. Len(data) = Len(packet)
    BY <1>6 DEF Received
  <2> QED BY <1>1, <1>2, <1>6, <2>1, SameCodes
<1>7. CASE fate \notin {"intact", "truncated", "extended", "flipped"}
  BY <1>1, <1>7, SameCodes
<1> QED BY <1>3, <1>4, <1>5, <1>6, <1>7

(***************************************************************************)
(* A receiver with the right values so far reads a field when the sender   *)
(* wrote it, and has what its read method relies on.                       *)
(***************************************************************************)
LEMMA AtField ==
  ASSUME SenderInv, last = "flushed", SoFar, next \in 1..Len(schema)
  PROVE  /\ Present(next, vals) <=> Present(next, given)
         /\ Present(next, Object) <=> Present(next, given)
         /\ Present(next, given) => Ready(next)
<1> DEFINE i == next
           f == schema[i]
<1>1. /\ schema \in Schemas /\ GivenOK /\ Len(given) = Len(schema) /\ last # "misuse"
      /\ i \in 1..Len(given) /\ i \in Nat /\ Len(schema) \in Nat
  BY SchemaFacts DEF SenderInv
<1>2. \A j \in 1..i-1 : Present(j, given) =>
        vals[j] = Object[j] /\ (schema[j].op # "string" => vals[j] = given[j])
  <2> SUFFICES ASSUME NEW j \in 1..i-1, Present(j, given)
               PROVE  vals[j] = Object[j] /\ (schema[j].op # "string" => vals[j] = given[j])
    OBVIOUS
  <2>1. j \in 1..Len(given) /\ j \in 1..Len(schema) /\ j < next
    BY <1>1
  <2>2. Present(j, Object)
    BY <1>1, <2>1, ObjectPresent
  <2>3. vals[j] = Object[j]
    BY <2>1, <2>2 DEF SoFar, Agrees
  <2>4. schema[j].op # "string" => Object[j] = given[j]
    BY <1>1, <2>1, ObjectIs DEF GivenOK
  <2> QED BY <2>3, <2>4
<1>3. Present(i, vals) <=> Present(i, given)
  <2>1. CASE f.when = 0
    BY <2>1 DEF Present
  <2>2. CASE f.when # 0
    <3> DEFINE w == f.when
    <3>1. w \in 1..i-1 /\ Numbers(schema[w].op) /\ schema[w].when = 0
      BY <2>2, <1>1, SchemaFacts
    <3>2. schema[w].op # "string" /\ Present(w, given)
      BY <3>1 DEF Present, Numbers
    <3>3. vals[w] = given[w]
      <4> HIDE DEF w, i
      <4> QED BY <3>1, <3>2, <1>2
    <3> QED BY <3>3 DEF Present
  <2> QED BY <2>1, <2>2
<1>4. Present(i, Object) <=> Present(i, given)
  BY <1>1, ObjectPresent
<1>5. ASSUME Present(i, given) PROVE Ready(i)
  <2>1. ASSUME f.op = "relative" PROVE vals[f.after] = given[f.after]
    <3> DEFINE a == f.after
    <3>1. a \in 1..i-1 /\ Present(a, given)
      BY <1>1, <1>5, <2>1, GivenFacts
    <3>2. Numbers(schema[a].op)
      BY <1>1, <2>1, SchemaFacts
    <3>3. schema[a].op # "string"
      BY <3>2 DEF Numbers
    <3> HIDE DEF a, i
    <3>4. vals[a] = given[a]
      BY <3>1, <3>3, <1>2
    <3> QED BY <3>4 DEF a
  <2>2. ASSUME f.op = "string" PROVE WellFormed(Object[i])
    <3>1. SentText(i)
      BY <1>1 DEF SenderInv
    <3>2. Object[i] = CopyString(given[i], f.size)
      BY <1>1, <1>5, <2>2, GivenFacts
    <3> QED BY <3>1, <3>2, <1>5, <2>2 DEF SentText
  <2> QED BY <2>1, <2>2 DEF Ready
<1> QED BY <1>3, <1>4, <1>5

(***************************************************************************)
(* Where a field that was written lies.                                    *)
(***************************************************************************)
LEMMA FieldLies ==
  ASSUME SenderInv, last = "flushed", NEW i \in 1..Len(schema), Present(i, given),
         NEW at \in Nat, NEW start, Laid(start), start[i-1] = at
  PROVE  /\ Code(i, at) \in Seq(Bit) /\ Len(Code(i, at)) \in Nat
         /\ start[i] = at + Len(Code(i, at)) /\ start[i] <= Len(wire)
         /\ \A j \in 1..Len(Code(i, at)) : at + j \in 1..start[i] /\ wire[at+j] = Code(i, at)[j]
<1>1. /\ schema \in Schemas /\ GivenOK /\ i \in 1..Len(given)
  BY DEF SenderInv
<1>2. Code(i, at) \in Seq(Bit) /\ Len(Code(i, at)) \in Nat
  <2>1. Code(i, at) \in Seq(Bit)
    BY <1>1, CodeIs
  <2> QED BY <2>1, LenProperties
<1>3. Encoded(i, at) = Code(i, at)
  BY DEF Encoded
<1>4. /\ start[i] = start[i-1] + Len(Encoded(i, start[i-1])) /\ start[i] <= Len(wire)
      /\ \A j \in 1..Len(Encoded(i, start[i-1])) :
            wire[start[i-1]+j] = Encoded(i, start[i-1])[j]
  BY <1>1 DEF Laid
<1>5. /\ start[i] = at + Len(Code(i, at)) /\ start[i] <= Len(wire)
      /\ \A j \in 1..Len(Code(i, at)) : wire[at+j] = Code(i, at)[j]
  BY <1>3, <1>4
<1>6. \A j \in 1..Len(Code(i, at)) : at + j \in 1..start[i]
  <2> DEFINE n == Len(Code(i, at))
  <2>1. n \in Nat /\ start[i] = at + n
    BY <1>2, <1>5
  <2> HIDE DEF n
  <2>2. \A j \in 1..n : at + j \in 1..start[i]
    BY ONLY <2>1, at \in Nat
  <2> QED BY <2>2 DEF n
<1> QED BY <1>2, <1>5, <1>6

(***************************************************************************)
(* A field of a packet with the bits of the wire is read, to the start of  *)
(* the next one, or the packet is cut before its end.                      *)
(***************************************************************************)
LEMMA FieldTaken ==
  ASSUME SenderInv, last = "flushed", Received, fate \in {"intact", "truncated", "extended"},
         SoFar, next \in 1..Len(schema), Stands(next - 1), Present(next, given)
  PROVE  LET o == Decode(schema[next])
         IN  \/ /\ R!Accepted(o) /\ o.value = Object[next] /\ o.at \in 0..Len(data)
                /\ \A start : Laid(start) => o.at = start[next]
             \/ fate = "truncated" /\ o.reason = "past_end"
<1> DEFINE i == next
           at == bitsRead
           o == Decode(schema[i])
           code == Code(i, at)
<1>1. PICK start : Laid(start)
  BY DEF SenderInv
<1>2. /\ at \in 0..Len(data) /\ at \in Nat /\ start[i-1] = at /\ i \in 1..Len(schema)
      /\ \A s : Laid(s) => s[i-1] = at
  BY <1>1, ReceivedFacts DEF Stands
<1>3. /\ data \in Seq(RP!Bit) /\ Len(data) \in Nat /\ Len(data) % ByteBits = 0
      /\ \A k \in 1..Len(wire) : k <= Len(data) => data[k] = wire[k]
      /\ fate # "truncated" => Len(wire) <= Len(data)
  BY ReceivedFacts
<1>4. RP!Position(at)
  BY <1>2, <1>3 DEF RP!Position
<1>5. schema \in Schemas /\ GivenOK /\ i \in 1..Len(given) /\ Ready(i) /\ Len(wire) \in Nat
  BY AtField, LenProperties DEF SenderInv
<1>6. ASSUME NEW s, Laid(s)
      PROVE  /\ code \in Seq(Bit) /\ Len(code) \in Nat
             /\ s[i] = at + Len(code) /\ s[i] <= Len(wire)
             /\ \A j \in 1..Len(code) : at + j \in 1..s[i] /\ wire[at+j] = code[j]
  BY <1>2, <1>6, FieldLies
<1> HIDE DEF at, code
<1>7. RP!Carries(at, code)
  <2> SUFFICES ASSUME NEW j \in 1..Len(code), at + j <= Len(data) PROVE data[at+j] = code[j]
    BY DEF RP!Carries
  <2>1. at + j \in 1..start[i] /\ wire[at+j] = code[j] /\ start[i] <= Len(wire) /\ start[i] \in Int
    BY <1>1, <1>2, <1>6
  <2>2. at + j \in 1..Len(wire)
    BY <2>1, <1>5
  <2> QED BY <2>1, <2>2, <1>3
<1>8. RP!Takes(o, at, code, Object[i])
  BY <1>4, <1>5, <1>7, DecodeReads DEF at, code
<1>9. CASE at + Len(code) <= Len(data)
  <2>1. o = RP!Accepts(at + Len(code), code, Object[i])
    BY <1>8, <1>9 DEF RP!Takes
  <2>2. o.reason = RP!None /\ o.at = at + Len(code) /\ o.value = Object[i]
    BY <2>1 DEF RP!Accepts
  <2>3. R!Accepted(o)
    BY <2>2, SameOutcomes DEF R!Accepted
  <2>4. o.at \in 0..Len(data)
    BY <2>2, <1>1, <1>2, <1>3, <1>6, <1>9
  <2>5. \A s : Laid(s) => o.at = s[i]
    BY <2>2, <1>6
  <2> QED BY <2>2, <2>3, <2>4, <2>5
<1>10. CASE ~(at + Len(code) <= Len(data))
  <2>1. o.reason = "past_end"
    BY <1>8, <1>10 DEF RP!Takes
  <2>2. fate = "truncated"
    <3>1. at + Len(code) <= Len(wire) /\ at + Len(code) \in Nat
      BY <1>1, <1>2, <1>6
    <3> QED BY <3>1, <1>3, <1>5, <1>10
  <2> QED BY <2>1, <2>2
<1> QED BY <1>9, <1>10

(***************************************************************************)
(* A field of any packet that is read with the right value has the right   *)
(* bits.                                                                   *)
(***************************************************************************)
LEMMA FieldTold ==
  ASSUME SenderInv, last = "flushed", Received,
         SoFar, next \in 1..Len(schema), Stands(next - 1), Present(next, given),
         \A k \in 1..bitsRead : data[k] = wire[k],
         R!Accepted(Decode(schema[next])), Decode(schema[next]).value = Object[next]
  PROVE  LET o == Decode(schema[next])
         IN  /\ o.at \in 0..Len(data) /\ \A start : Laid(start) => o.at = start[next]
             /\ \A k \in 1..o.at : data[k] = wire[k]
<1> DEFINE i == next
           at == bitsRead
           o == Decode(schema[i])
           code == Code(i, at)
<1>1. PICK start : Laid(start)
  BY DEF SenderInv
<1>2. /\ at \in 0..Len(data) /\ at \in Nat /\ start[i-1] = at /\ i \in 1..Len(schema)
      /\ \A s : Laid(s) => s[i-1] = at
  BY <1>1, ReceivedFacts DEF Stands
<1>3. data \in Seq(RP!Bit) /\ Len(data) \in Nat /\ Len(data) % ByteBits = 0
  BY ReceivedFacts
<1>4. RP!Position(at)
  BY <1>2, <1>3 DEF RP!Position
<1>5. schema \in Schemas /\ GivenOK /\ i \in 1..Len(given) /\ Ready(i)
  BY AtField DEF SenderInv
<1>6. ASSUME NEW s, Laid(s)
      PROVE  /\ code \in Seq(Bit) /\ Len(code) \in Nat
             /\ s[i] = at + Len(code) /\ s[i] <= Len(wire)
             /\ \A j \in 1..Len(code) : at + j \in 1..s[i] /\ wire[at+j] = code[j]
  <2>1. PICK place : place = at
    OBVIOUS
  <2>2. place \in Nat /\ Laid(s) /\ s[i-1] = place /\ i \in 1..Len(schema)
    BY <2>1, <1>2, <1>6
  <2> HIDE DEF at, code
  <2>3. /\ Code(i, place) \in Seq(Bit) /\ Len(Code(i, place)) \in Nat
        /\ s[i] = place + Len(Code(i, place)) /\ s[i] <= Len(wire)
        /\ \A j \in 1..Len(Code(i, place)) :
             place + j \in 1..s[i] /\ wire[place+j] = Code(i, place)[j]
    BY <2>2, FieldLies
  <2> QED BY <2>1, <2>3 DEF code
<1>7. RP!Accepted(o) /\ o.value = Object[i]
  BY SameOutcomes
<1>8. RP!Sound(o, at) /\ o.code = code
  BY <1>4, <1>5, <1>7, DecodeTells
<1> HIDE DEF at, code, o
<1>9. o.at \in at..Len(data) /\ code = RP!BitsAt(at, o.at - at)
  BY <1>7, <1>8 DEF RP!Sound
<1> DEFINE n == o.at - at
<1>10. n \in Nat /\ at + n = o.at /\ at + n <= Len(data) /\ data \in Seq(RP!Bit)
  BY <1>2, <1>3, <1>9
<1> HIDE DEF n
<1>11. /\ Len(RP!BitsAt(at, n)) = n
       /\ \A j \in 1..n : RP!BitsAt(at, n)[j] = data[at+j]
  BY <1>2, <1>10, RP!PieceFacts, Standing, GeometryAssumption, BucketsAssumption,
     DomainAssumption, TextAssumption
<1>12. Len(code) = n /\ \A j \in 1..n : code[j] = data[at+j]
  BY <1>9, <1>11 DEF n
<1>13. ASSUME NEW k \in 1..o.at PROVE data[k] = wire[k]
  <2>1. CASE k <= at
    <3>1. k \in 1..at
      BY <2>1, <1>2
    <3> QED BY <3>1 DEF at
  <2>2. CASE ~(k <= at)
    <3> DEFINE j == k - at
    <3>1. j \in 1..n /\ at + j = k
      BY <2>2, <1>2, <1>10
    <3> HIDE DEF j
    <3> QED BY <3>1, <1>1, <1>6, <1>12
  <2> QED BY <2>1, <2>2
<1>14. o.at \in 0..Len(data)
  <2>1. Len(data) \in Nat /\ at \in Nat /\ o.at \in at..Len(data)
    BY <1>2, <1>3, <1>9
  <2> QED BY ONLY <2>1
<1>15. ASSUME NEW s, Laid(s) PROVE o.at = s[i]
  <2>1. s[i] = at + Len(code)
    BY <1>6, <1>15
  <2> QED BY <2>1, <1>10, <1>12
<1> QED BY <1>13, <1>14, <1>15 DEF o

(***************************************************************************)
(* The end of the packet: it is accepted if the packet is the one that was *)
(* sent, there is data after it if a byte was added, it is not reached if  *)
(* the packet was cut; and nothing else of the same length is accepted if  *)
(* it has the bits of the wire.                                            *)
(***************************************************************************)
LEMMA EndIs ==
  ASSUME data \in Seq(Bit), NEW n \in Nat, n = Len(data) - bitsRead, bitsRead \in 0..Len(data)
  PROVE  /\ n >= ByteBits => R!End(bitsRead).reason = "trailing_data"
         /\ n < ByteBits /\ (\A k \in bitsRead+1..Len(data) : data[k] = 0) =>
              R!Accepted(R!End(bitsRead))
         /\ R!Accepted(R!End(bitsRead)) =>
              \A k \in bitsRead+1..Len(data) : data[k] = 0
<1> DEFINE at == bitsRead
           bits == RP!BitsAt(at, n)
           o == R!End(at)
<1>1. at \in Nat /\ at + n = Len(data) /\ at + n <= Len(data) /\ Len(data) \in Nat
  BY LenProperties
<1>2. data \in Seq(RP!Bit)
  BY SameCodes
<1>3. /\ bits \in Seq(RP!Bit) /\ Len(bits) = n
      /\ \A j \in 1..n : bits[j] = data[at+j]
  BY <1>1, <1>2, RP!PieceFacts, Standing, GeometryAssumption, BucketsAssumption,
     DomainAssumption, TextAssumption
<1>4. R!Remaining(at) = n /\ R!BitsAt(at, n) = bits
  BY SameOutcomes DEF R!Remaining, R!numBits
<1>5. o = IF n >= ByteBits THEN R!Refuses("trailing_data", at)
          ELSE IF ~R!AllZero(bits) THEN R!Refuses("nonzero_padding", R!numBits)
          ELSE R!Accepts(R!numBits, R!Zeros(R!AlignPad(at)), 0)
  BY <1>4 DEF R!End
<1> HIDE DEF at, bits, o
<1>6. R!AllZero(bits) <=> \A k \in at+1..Len(data) : data[k] = 0
  <2>1. DOMAIN bits = 1..n
    BY <1>3, LenProperties
  <2>2. R!AllZero(bits) <=> \A j \in 1..n : data[at+j] = 0
    BY <1>3, <2>1 DEF R!AllZero
  <2>3. \A j \in 1..n : at + j \in at+1..Len(data)
    BY <1>1
  <2>4. \A k \in at+1..Len(data) : k - at \in 1..n /\ at + (k - at) = k
    BY <1>1
  <2>5. ASSUME \A j \in 1..n : data[at+j] = 0, NEW k \in at+1..Len(data) PROVE data[k] = 0
    <3> DEFINE j == k - at
    <3>1. j \in 1..n /\ at + j = k
      BY <2>4
    <3> HIDE DEF j
    <3> QED BY <3>1, <2>5
  <2>6. ASSUME \A k \in at+1..Len(data) : data[k] = 0, NEW j \in 1..n PROVE data[at+j] = 0
    BY <2>3, <2>6
  <2> QED BY <2>2, <2>5, <2>6
<1>7. n >= ByteBits => o.reason = "trailing_data"
  BY <1>5 DEF R!Refuses
<1>8. n < ByteBits /\ R!AllZero(bits) => R!Accepted(o)
  <2>1. n < ByteBits => ~(n >= ByteBits)
    BY GeometryAssumption
  <2> QED BY <2>1, <1>5 DEF R!Accepts, R!Accepted
<1>9. R!Accepted(o) => R!AllZero(bits)
  BY <1>5 DEF R!Refuses, R!Accepted, R!None
<1> QED BY <1>6, <1>7, <1>8, <1>9 DEF at, o

(***************************************************************************)
(* So the end is found by a receiver that stands at the end of the wire.   *)
(***************************************************************************)
LEMMA EndTaken ==
  ASSUME SenderInv, last = "flushed", Received, Stands(Len(schema))
  PROVE  /\ fate # "truncated"
         /\ fate = "intact" => R!Accepted(R!End(bitsRead))
         /\ fate = "extended" => R!End(bitsRead).reason = "trailing_data"
         /\ fate = "flipped" /\ (\A k \in 1..bitsRead : data[k] = wire[k]) =>
              ~R!Accepted(R!End(bitsRead))
<1>1. PICK start : Laid(start)
  BY DEF SenderInv
<1>2. bitsRead = Len(wire) /\ bitsRead \in 0..Len(data)
  BY <1>1 DEF Stands, Laid, SenderInv
<1>3. /\ Len(wire) \in Nat /\ Len(packet) \in Nat /\ packet \in Seq(Bit)
      /\ Len(wire) <= Len(packet) /\ Len(packet) < Len(wire) + ByteBits
      /\ \A k \in 1..Len(wire) : packet[k] = wire[k]
      /\ \A k \in Len(wire)+1..Len(packet) : packet[k] = 0
  BY PacketFacts
<1>4. data \in Seq(Bit) /\ Len(data) \in Nat /\ (fate = "truncated" => Len(data) < Len(wire))
  BY ReceivedFacts, SameCodes
<1> DEFINE n == Len(data) - bitsRead
<1>5. n \in Nat /\ ByteBits \in Nat
  BY <1>2, <1>4, GeometryAssumption
<1>6. /\ n >= ByteBits => R!End(bitsRead).reason = "trailing_data"
      /\ n < ByteBits /\ (\A k \in bitsRead+1..Len(data) : data[k] = 0) =>
           R!Accepted(R!End(bitsRead))
      /\ R!Accepted(R!End(bitsRead)) => \A k \in bitsRead+1..Len(data) : data[k] = 0
  BY <1>2, <1>4, <1>5, EndIs
<1>7. fate # "truncated"
  BY <1>2, <1>4
<1>8. ASSUME fate = "intact" PROVE R!Accepted(R!End(bitsRead))
  <2>1. data = packet
    BY <1>8 DEF Received
  <2>2. n < ByteBits
    BY <2>1, <1>2, <1>3, <1>5
  <2> QED BY <2>1, <2>2, <1>2, <1>3, <1>6
<1>9. ASSUME fate = "extended" PROVE R!End(bitsRead).reason = "trailing_data"
  <2>1. Len(data) = Len(packet) + ByteBits
    BY <1>9 DEF Received
  <2>2. n >= ByteBits
    BY <2>1, <1>2, <1>3, <1>5
  <2> QED BY <2>2, <1>6
<1>10. ASSUME fate = "flipped", \A k \in 1..bitsRead : data[k] = wire[k],
              R!Accepted(R!End(bitsRead))
       PROVE  FALSE
  <2>1. Len(data) = Len(packet) /\ data # packet
    BY <1>10 DEF Received
  <2>2. \A k \in bitsRead+1..Len(data) : data[k] = 0
    BY <1>6, <1>10
  <2>3. ASSUME NEW k \in 1..Len(data) PROVE data[k] = packet[k]
    <3>1. CASE k <= bitsRead
      <4>1. k \in 1..bitsRead /\ k \in 1..Len(wire)
        BY <3>1, <1>2, <1>4
      <4> QED BY <4>1, <1>3, <1>10
    <3>2. CASE ~(k <= bitsRead)
      <4>1. k \in bitsRead+1..Len(data) /\ k \in Len(wire)+1..Len(packet)
        BY <3>2, <2>1, <1>2, <1>3, <1>4
      <4> QED BY <4>1, <2>2, <1>3
    <3> QED BY <3>1, <3>2
  <2>4. data = packet
    BY <2>1, <2>3, <1>3, <1>4, SeqEqual
  <2> QED BY <2>1, <2>4
<1> QED BY <1>7, <1>8, <1>9, <1>10

(***************************************************************************)
(* The object, and what a field depends on, while the caller's values      *)
(* stay.                                                                   *)
(***************************************************************************)
LEMMA ObjectRests ==
  ASSUME UNCHANGED <<schema, given>>
  PROVE  /\ Object' = Object
         /\ \A i : Old(i)' = Old(i)
         /\ \A i : /\ Present(i, Object)' <=> Present(i, Object)
                   /\ Present(i, given)' <=> Present(i, given)
<1>1. schema' = schema /\ given' = given
  OBVIOUS
<1>2. \A i : Sent(i)' = Sent(i)
  BY <1>1 DEF Sent, Present
<1>3. Object' = Object
  BY <1>1, <1>2 DEF Object
<1>4. \A i : Old(i)' = Old(i)
  BY <1>1 DEF Old
<1>5. \A i : /\ Present(i, Object)' <=> Present(i, Object)
             /\ Present(i, given)' <=> Present(i, given)
  BY <1>1, <1>3 DEF Present
<1> QED BY <1>3, <1>4, <1>5

(***************************************************************************)
(* A call of the read stream, and what is stored.                          *)
(***************************************************************************)
LEMMA SerializeIs ==
  ASSUME NEW o, R!Serialize(o)
  PROVE  /\ data' = data
         /\ err # R!None => err' = err /\ bitsRead' = bitsRead
         /\ err = R!None /\ R!Accepted(o) => err' = R!None /\ bitsRead' = o.at
         /\ err = R!None /\ ~R!Accepted(o) => err' = o.reason /\ err' # R!None
BY DEF R!Serialize, R!fail, R!Accepted

(***************************************************************************)
(* A stream that has refused keeps its reason, and its caller what it has, *)
(* to the end of the function.                                             *)
(***************************************************************************)
LEMMA RefusedKeeps ==
  ASSUME MessageInv, fate # "none", err # R!None, err' = err,
         UNCHANGED <<schema, given, sender, fate, deliveries, data>>,
         DOMAIN vals' = DOMAIN vals, \A i \in 1..Len(schema) : vals'[i] = vals[i],
         next' \in 1..Len(schema)+2, Finished => next' = next
  PROVE  ReceiverInv'
<1>1. /\ schema' = schema /\ given' = given /\ fate' = fate /\ deliveries' = deliveries
      /\ data' = data /\ packet' = packet /\ last' = last
  BY DEF sender
<1>2. Received' <=> Received
  BY <1>1 DEF Received
<1>3. ~SoFar' /\ ~SoFar
  BY DEF SoFar, R!None
<1>4. Finished => Finished'
  BY <1>1 DEF Finished
<1>5. Followed => Followed'
  BY <1>1, <1>4 DEF Followed, R!None
<1>6. ASSUME NEW k PROVE PrefixTo(k) => PrefixTo(k)'
  <2>1. \A i : /\ Present(i, Object)' <=> Present(i, Object)
               /\ Old(i)' = Old(i)
    BY <1>1, ObjectRests
  <2>2. Object' = Object
    BY <1>1, ObjectRests
  <2> QED BY <1>1, <2>1, <2>2 DEF PrefixTo
<1>7. Told'
  BY <1>3 DEF Told
<1>8. ReceiverInv
  BY DEF MessageInv
<1>9. \A k : PrefixTo(k) => PrefixTo(k)'
  BY <1>6
<1>10. /\ fate' \in {"none", "intact", "truncated", "extended", "flipped"}
       /\ next' \in 1..Len(schema')+2 /\ DOMAIN vals' = 1..Len(schema')
       /\ deliveries' # 0 /\ deliveries' \in Nat /\ fate' # "none"
       /\ last' = "flushed" /\ Received'
  BY <1>1, <1>2, <1>8 DEF ReceiverInv
<1>11. fate' \in {"intact", "truncated", "extended"} => Followed'
  BY <1>1, <1>5, <1>8 DEF ReceiverInv
<1>12. fate' \in {"truncated", "extended"} => \E k \in 1..Len(schema')+1 : PrefixTo(k)'
  BY <1>1, <1>8, <1>9 DEF ReceiverInv
<1>13. err' # R!None'
  BY DEF R!None
<1> QED BY <1>7, <1>10, <1>11, <1>12, <1>13 DEF ReceiverInv

(***************************************************************************)
(* A packet handed over: nothing is read of it.                            *)
(***************************************************************************)
LEMMA DeliverKeeps ==
  ASSUME MessageInv, NEW how, NEW p, Deliver(how, p),
         how \in {"intact", "truncated", "extended", "flipped"},
         p \in Seq(Bit), Len(p) % ByteBits = 0,
         how # "intact" => deliveries = 0,
         how = "intact" => p = packet,
         how = "truncated" => /\ Len(p) + ByteBits <= Len(packet)
                              /\ \A k \in 1..Len(p) : p[k] = packet[k],
         how = "extended" => /\ Len(p) = Len(packet) + ByteBits
                             /\ \A k \in 1..Len(packet) : p[k] = packet[k],
         how = "flipped" => Len(p) = Len(packet) /\ p # packet
  PROVE  ReceiverInv'
<1>1. /\ schema' = schema /\ given' = given /\ wire' = wire /\ last' = last /\ packet' = packet
      /\ vals' = vals /\ fate' = how /\ next' = 1 /\ deliveries' = deliveries + 1
      /\ data' = p /\ bitsRead' = 0 /\ err' = R!None /\ last = "flushed"
  BY DEF Deliver, sender, R!Reset
<1>2. /\ ReceiverInv /\ schema \in Schemas /\ GivenOK /\ Len(schema) \in Nat /\ Len(p) \in Nat
  BY SchemaFacts, LenProperties DEF MessageInv, SenderInv
<1>3. Received'
  BY <1>1 DEF Received
<1>4. ~Finished' /\ next' \in 1..Len(schema')+2
  BY <1>1, <1>2 DEF Finished
<1>5. Stands(0)'
  <2>1. \A start : Laid(start)' => start[0] = 0
    BY DEF Laid
  <2> QED BY <1>1, <1>2, <2>1 DEF Stands
<1>6. \A i \in 1..Len(schema) : ~(i < next')
  BY <1>1, <1>2
<1>7. SoFar' /\ Stands(next - 1)'
  <2>1. next' - 1 = 0
    BY <1>1
  <2>2. Stands(next - 1)'
    BY <1>5, <2>1 DEF Stands
  <2>3. R!None' = R!None
    BY DEF R!None
  <2> QED BY <1>1, <1>6, <2>2, <2>3 DEF SoFar
<1>8. Followed'
  BY <1>1, <1>4, <1>7 DEF Followed, R!None
<1>9. Told'
  <2>1. \A k \in 1..bitsRead' : data'[k] = wire'[k]
    BY <1>1
  <2> QED BY <1>4, <1>7, <2>1 DEF Told
<1>10. ASSUME how \in {"truncated", "extended"} PROVE PrefixTo(1)' /\ PrefixTo(next)'
  <2>1. \A i \in 1..Len(schema) : vals[i] = Old(i)
    BY <1>2, <1>10 DEF ReceiverInv
  <2>2. \A i : Old(i)' = Old(i)
    BY <1>1, ObjectRests
  <2>3. \A i \in 1..Len(schema') : vals'[i] = Old(i)' /\ ~(i < 1)
    BY <1>1, <2>1, <2>2
  <2> QED BY <1>1, <2>3 DEF PrefixTo
<1>11. /\ deliveries' # 0 /\ deliveries' \in Nat /\ DOMAIN vals' = 1..Len(schema')
       /\ fate' \in {"none", "intact", "truncated", "extended", "flipped"} /\ fate' # "none"
       /\ last' = "flushed" /\ 1 \in 1..Len(schema')+1
  BY <1>1, <1>2 DEF ReceiverInv
<1> QED BY <1>1, <1>3, <1>4, <1>8, <1>9, <1>10, <1>11 DEF ReceiverInv

(***************************************************************************)
(* A step of the receiver on a packet: what is left to show.               *)
(***************************************************************************)
LEMMA ReadKeeps ==
  ASSUME MessageInv, fate # "none",
         UNCHANGED <<schema, given, sender, fate, deliveries, data>>,
         DOMAIN vals' = DOMAIN vals, next' \in 1..Len(schema)+2,
         fate \in {"intact", "truncated", "extended"} => Followed',
         fate \in {"truncated", "extended"} =>
           /\ \E k \in 1..Len(schema)+1 : PrefixTo(k)'
           /\ err' = R!None => PrefixTo(next)',
         fate = "flipped" => Told'
  PROVE  ReceiverInv'
<1>1. /\ schema' = schema /\ given' = given /\ fate' = fate /\ deliveries' = deliveries
      /\ data' = data /\ packet' = packet /\ last' = last
  BY DEF sender
<1>2. Received' <=> Received
  BY <1>1 DEF Received
<1>3. ReceiverInv
  BY DEF MessageInv
<1>4. /\ fate' \in {"none", "intact", "truncated", "extended", "flipped"}
      /\ next' \in 1..Len(schema')+2 /\ DOMAIN vals' = 1..Len(schema')
      /\ deliveries' # 0 /\ deliveries' \in Nat /\ fate' # "none"
      /\ last' = "flushed" /\ Received'
  BY <1>1, <1>2, <1>3 DEF ReceiverInv
<1>5. /\ fate' \in {"intact", "truncated", "extended"} => Followed'
      /\ fate' \in {"truncated", "extended"} => /\ \E k \in 1..Len(schema')+1 : PrefixTo(k)'
                                                /\ err' = R!None' => PrefixTo(next)'
      /\ fate' = "flipped" => Told'
  BY <1>1 DEF R!None
<1> QED BY <1>4, <1>5 DEF ReceiverInv

(***************************************************************************)
(* A read of a field on a stream that has not refused.                     *)
(***************************************************************************)
LEMMA ReadFieldIs ==
  ASSUME MessageInv, ReadField, err = R!None
  PROVE  /\ UNCHANGED <<schema, given, sender, fate, deliveries, data, complete>>
         /\ next \in 1..Len(schema) /\ next' = next + 1 /\ DOMAIN vals' = DOMAIN vals
         /\ \A j \in 1..Len(schema) : j # next => vals'[j] = vals[j]
         /\ ~Present(next, vals) =>
              err' = err /\ bitsRead' = bitsRead /\ vals'[next] = vals[next]
         /\ Present(next, vals) =>
              LET o == Decode(schema[next])
              IN  IF R!Accepted(o)
                    THEN err' = R!None /\ bitsRead' = o.at /\ vals'[next] = o.value
                    ELSE err' = o.reason /\ err' # R!None /\ vals'[next] = vals[next]
<1> DEFINE o == Decode(schema[next])
<1>1. /\ schema \in Schemas /\ DOMAIN vals = 1..Len(schema) /\ DOMAIN schema = 1..Len(schema)
  BY SchemaFacts DEF MessageInv, SenderInv, ReceiverInv
<1>2. /\ next \in 1..Len(schema) /\ next' = next + 1
      /\ UNCHANGED <<schema, given, fate, deliveries, sender>>
  BY <1>1 DEF ReadField
<1>3. ASSUME Present(next, vals)
      PROVE  R!Serialize(o) /\ complete' = complete /\ Store(next, o)
  BY <1>3 DEF ReadField
<1>4. ASSUME ~Present(next, vals)
      PROVE  vals' = vals /\ bitsRead' = bitsRead /\ err' = err /\ data' = data
             /\ complete' = complete
  BY <1>4 DEF ReadField, receiver
<1> HIDE DEF o
<1>5. ASSUME Present(next, vals)
      PROVE  /\ data' = data /\ complete' = complete
             /\ IF R!Accepted(o)
                  THEN err' = R!None /\ bitsRead' = o.at /\ vals'[next] = o.value
                  ELSE err' = o.reason /\ err' # R!None /\ vals'[next] = vals[next]
             /\ DOMAIN vals' = DOMAIN vals
             /\ \A j \in 1..Len(schema) : j # next => vals'[j] = vals[j]
  <2>1. /\ data' = data
        /\ R!Accepted(o) => err' = R!None /\ bitsRead' = o.at
        /\ ~R!Accepted(o) => err' = o.reason /\ err' # R!None
    BY <1>3, <1>5, SerializeIs
  <2>2. vals' = [vals EXCEPT ![next] = IF R!Accepted(o) THEN o.value ELSE vals[next]]
    BY <1>3, <1>5 DEF Store
  <2>3. /\ vals'[next] = IF R!Accepted(o) THEN o.value ELSE vals[next]
        /\ DOMAIN vals' = DOMAIN vals
        /\ \A j \in 1..Len(schema) : j # next => vals'[j] = vals[j]
    BY <1>1, <1>2, <2>2
  <2> QED BY <1>3, <1>5, <2>1, <2>3
<1> QED BY <1>2, <1>4, <1>5 DEF o

(***************************************************************************)
(* A receiver that went on to the next field with the right value is where *)
(* that field starts, with a prefix of the values.                         *)
(***************************************************************************)
LEMMA Advances ==
  ASSUME MessageInv, fate # "none", SoFar, next \in 1..Len(schema), next' = next + 1,
         UNCHANGED <<schema, given, sender, data>>, err' = R!None,
         \A j \in 1..Len(schema) : j # next => vals'[j] = vals[j],
         vals'[next] = IF Present(next, Object) THEN Object[next] ELSE vals[next],
         bitsRead' \in 0..Len(data), \A start : Laid(start) => bitsRead' = start[next]
  PROVE  /\ SoFar' /\ ~Finished' /\ Stands(next - 1)'
         /\ PrefixTo(next) => PrefixTo(next)'
         /\ next' \in 1..Len(schema)+1
<1> SUFFICES ASSUME NEW i, i = next
             PROVE  /\ SoFar' /\ ~Finished' /\ Stands(next - 1)'
                    /\ PrefixTo(next) => PrefixTo(next)'
                    /\ next' \in 1..Len(schema)+1
  OBVIOUS
<1>1. /\ schema' = schema /\ given' = given /\ data' = data /\ wire' = wire /\ next' = i + 1
      /\ i \in 1..Len(schema) /\ schema \in Schemas /\ GivenOK /\ Len(schema) \in Nat
  BY SchemaFacts DEF sender, MessageInv, SenderInv
<1>2. /\ Object' = Object
      /\ \A j : Old(j)' = Old(j)
      /\ \A j : Present(j, Object)' <=> Present(j, Object)
  BY <1>1, ObjectRests
<1>3. \A start : Laid(start)' <=> Laid(start)
  BY <1>1, SenderRests
<1>4. ~Finished' /\ next' \in 1..Len(schema)+1 /\ next' - 1 = i
  BY <1>1 DEF Finished
<1>5. \A j \in 1..Len(schema) : j < i + 1 => j < i \/ j = i
  BY <1>1
<1>6. SoFar'
  <2>1. ASSUME NEW j \in 1..Len(schema), j < next' PROVE Agrees(j)'
    <3>1. CASE j < i
      <4>1. j # next
        BY <3>1, <1>1
      <4>2. Agrees(j)
        BY <3>1 DEF SoFar
      <4>3. vals'[j] = vals[j]
        BY <4>1
      <4> QED BY <4>2, <4>3, <1>2 DEF Agrees
    <3>2. CASE j = i
      BY <3>2, <1>2 DEF Agrees
    <3> QED BY <2>1, <3>1, <3>2, <1>1, <1>5
  <2>2. R!None' = R!None
    BY DEF R!None
  <2> QED BY <1>1, <2>1, <2>2 DEF SoFar
<1>7. Stands(next - 1)'
  <2>1. \A start : Laid(start)' => bitsRead' = start[i]
    BY <1>3
  <2> QED BY <1>1, <1>4, <2>1 DEF Stands
<1>8. ASSUME PrefixTo(next) PROVE PrefixTo(next)'
  <2> SUFFICES ASSUME NEW j \in 1..Len(schema)
               PROVE  vals'[j] = IF j < i + 1 /\ Present(j, Object) THEN Object[j] ELSE Old(j)
    BY <1>1, <1>2 DEF PrefixTo
  <2>1. vals[j] = IF j < i /\ Present(j, Object) THEN Object[j] ELSE Old(j)
    BY <1>8 DEF PrefixTo
  <2>2. CASE j # i
    <3>1. j < i + 1 <=> j < i
      BY <2>2, <1>1
    <3> QED BY <2>1, <2>2, <3>1
  <2>3. CASE j = i
    <3>1. j < i + 1 /\ ~(j < i)
      BY <2>3, <1>1
    <3> QED BY <2>1, <2>3, <3>1
  <2> QED BY <2>2, <2>3
<1> QED BY <1>4, <1>6, <1>7, <1>8

(***************************************************************************)
(* A field that was not sent starts where the next one does.               *)
(***************************************************************************)
LEMMA NothingLies ==
  ASSUME SenderInv, last = "flushed", NEW i \in 1..Len(schema), ~Present(i, given),
         NEW start, Laid(start)
  PROVE  start[i] = start[i-1]
<1>1. i \in 1..Len(given) /\ Len(given) \in Nat
  BY SchemaFacts DEF SenderInv
<1>2. start[i] = start[i-1] + Len(Encoded(i, start[i-1])) /\ start \in [0..Len(given) -> Nat]
  BY <1>1 DEF Laid
<1>3. Encoded(i, start[i-1]) = <<>>
  BY DEF Encoded
<1>4. start[i-1] \in Nat
  <2>1. i - 1 \in 0..Len(given)
    BY <1>1
  <2> QED BY <1>2, <2>1
<1> QED BY <1>2, <1>3, <1>4

(***************************************************************************)
(* A field that is read keeps what the receiver keeps.                     *)
(***************************************************************************)
LEMMA ReadFieldKeeps ==
  ASSUME MessageInv, ReadField
  PROVE  ReceiverInv'
<1> SUFFICES ASSUME NEW i, i = next PROVE ReceiverInv'
  OBVIOUS
<1>1. /\ SenderInv /\ ReceiverInv /\ schema \in Schemas /\ GivenOK
      /\ Len(schema) \in Nat /\ DOMAIN schema = 1..Len(schema) /\ DOMAIN vals = 1..Len(schema)
      /\ DOMAIN vals = 1..Len(schema)
  BY SchemaFacts DEF MessageInv, SenderInv, ReceiverInv
<1>2. /\ i \in 1..Len(schema) /\ next' = i + 1 /\ i + 1 \in 1..Len(schema)+2
      /\ UNCHANGED <<schema, given, sender, fate, deliveries>> /\ ~Finished
  BY <1>1 DEF ReadField, Finished
<1>3. fate # "none" /\ last = "flushed" /\ Received
  BY <1>1, <1>2 DEF ReceiverInv
<1>4. CASE err # R!None
  <2>1. CASE Present(next, vals)
    <3> DEFINE o == Decode(schema[next])
    <3>1. R!Serialize(o) /\ Store(next, o)
      BY <2>1 DEF ReadField
    <3>2. err' = err /\ data' = data
      <4> HIDE DEF o
      <4> QED BY <3>1, <1>4, SerializeIs
    <3>3. vals' = [vals EXCEPT ![next] = vals[next]]
      BY <3>1, <1>4 DEF Store
    <3>4. DOMAIN vals' = DOMAIN vals /\ \A j \in 1..Len(schema) : vals'[j] = vals[j]
      BY <3>3, <1>1
    <3> QED BY <3>2, <3>4, <1>2, <1>3, <1>4, RefusedKeeps
  <2>2. CASE ~Present(next, vals)
    <3>1. vals' = vals /\ err' = err /\ data' = data
      BY <2>2 DEF ReadField, receiver
    <3> QED BY <3>1, <1>2, <1>3, <1>4, RefusedKeeps
  <2> QED BY <2>1, <2>2
<1>5. CASE err = R!None
  <2> DEFINE o == Decode(schema[next])
  <2>1. /\ UNCHANGED <<schema, given, sender, fate, deliveries, data, complete>>
        /\ DOMAIN vals' = DOMAIN vals
        /\ \A j \in 1..Len(schema) : j # next => vals'[j] = vals[j]
        /\ ~Present(next, vals) =>
             err' = err /\ bitsRead' = bitsRead /\ vals'[next] = vals[next]
        /\ Present(next, vals) =>
             IF R!Accepted(o)
               THEN err' = R!None /\ bitsRead' = o.at /\ vals'[next] = o.value
               ELSE err' = o.reason /\ err' # R!None /\ vals'[next] = vals[next]
    BY <1>5, ReadFieldIs
  <2> HIDE DEF o
  <2>2. ASSUME SoFar
        PROVE  /\ Present(next, vals) <=> Present(next, given)
               /\ Present(next, Object) <=> Present(next, given)
    BY <2>2, <1>1, <1>2, <1>3, AtField
  <2>3. ASSUME SoFar, Stands(next - 1), ~Present(next, given)
        PROVE  /\ bitsRead' \in 0..Len(data) /\ \A start : Laid(start) => bitsRead' = start[i]
               /\ err' = R!None /\ vals'[next] = vals[next] /\ bitsRead' = bitsRead
    <3>1. \A start : Laid(start) => bitsRead = start[i-1] /\ start[i] = start[i-1]
      BY <2>3, <1>1, <1>2, <1>3, NothingLies DEF Stands
    <3>2. err' = err /\ bitsRead' = bitsRead /\ vals'[next] = vals[next]
      BY <2>1, <2>2, <2>3
    <3> QED BY <3>1, <3>2, <2>3, <1>5 DEF Stands
  <2>4. CASE fate \in {"intact", "truncated", "extended"}
    <3>1. SoFar /\ Stands(next - 1) /\ (fate \in {"truncated", "extended"} => PrefixTo(next))
      BY <1>1, <1>2, <1>5, <2>4 DEF ReceiverInv, Followed
    <3>2. ASSUME err' = R!None, bitsRead' \in 0..Len(data),
                 \A start : Laid(start) => bitsRead' = start[next],
                 vals'[next] = IF Present(next, Object) THEN Object[next] ELSE vals[next]
          PROVE  ReceiverInv'
      <4>1. /\ SoFar' /\ ~Finished' /\ Stands(next - 1)'
            /\ PrefixTo(next) => PrefixTo(next)'
            /\ next' \in 1..Len(schema)+1
        BY <3>1, <3>2, <2>1, <1>2, <1>3, Advances
      <4>2. Followed'
        BY <4>1, <3>2 DEF Followed, R!None
      <4>3. fate \in {"truncated", "extended"} =>
              /\ \E k \in 1..Len(schema)+1 : PrefixTo(k)'
              /\ err' = R!None => PrefixTo(next)'
        <5>1. ASSUME NEW k, k = next', PrefixTo(next)' PROVE PrefixTo(k)'
          BY <5>1 DEF PrefixTo
        <5> QED BY <5>1, <4>1, <3>1
      <4> QED BY <4>2, <4>3, <2>1, <2>4, <1>2, <1>3, ReadKeeps
    <3>3. CASE ~Present(next, given)
      <4>1. ~Present(next, Object)
        BY <3>1, <3>3, <2>2
      <4> QED BY <4>1, <3>1, <3>2, <3>3, <2>3, <1>2
    <3>4. CASE Present(next, given) /\ R!Accepted(o)
      <4>1. /\ o.value = Object[next] /\ o.at \in 0..Len(data)
            /\ \A start : Laid(start) => o.at = start[next]
        <5>1. ~(o.reason = "past_end")
          BY <3>4 DEF R!Accepted, R!None
        <5> QED BY <5>1, <3>1, <3>4, <2>4, <1>1, <1>2, <1>3, FieldTaken DEF o
      <4>2. Present(next, vals) /\ Present(next, Object)
        BY <3>1, <3>4, <2>2
      <4>3. err' = R!None /\ bitsRead' = o.at /\ vals'[next] = Object[next]
        BY <4>1, <4>2, <3>4, <2>1
      <4> QED BY <4>1, <4>2, <4>3, <3>2
    <3>5. CASE Present(next, given) /\ ~R!Accepted(o)
      <4>1. fate = "truncated" /\ o.reason = "past_end"
        BY <3>1, <3>5, <2>4, <1>1, <1>2, <1>3, FieldTaken DEF o
      <4>2. Present(next, vals)
        BY <3>1, <3>5, <2>2
      <4>3. err' = "past_end" /\ vals'[next] = vals[next]
        BY <4>1, <4>2, <3>5, <2>1
      <4>4. Followed'
        BY <4>1, <4>3, <1>2 DEF Followed, R!None
      <4>5. PrefixTo(i)'
        <5>1. PrefixTo(i)
          BY <3>1, <4>1
        <5>2. \A j \in 1..Len(schema) : vals'[j] = vals[j]
          BY <4>3, <2>1
        <5>3. /\ Object' = Object
              /\ \A j : Old(j)' = Old(j)
              /\ \A j : Present(j, Object)' <=> Present(j, Object)
          BY <1>2, ObjectRests
        <5> QED BY <5>1, <5>2, <5>3, <1>2 DEF PrefixTo
      <4>6. i \in 1..Len(schema)+1 /\ err' # R!None
        BY <4>3, <1>1, <1>2 DEF R!None
      <4> QED BY <4>1, <4>4, <4>5, <4>6, <2>1, <1>2, <1>3, ReadKeeps
    <3> QED BY <3>3, <3>4, <3>5
  <2>5. CASE fate = "flipped"
    <3>1. ASSUME SoFar'
          PROVE  ~Finished' /\ Stands(next - 1)' /\ \A k \in 1..bitsRead' : data'[k] = wire'[k]
      <4>1. /\ Object' = Object
            /\ \A j : Present(j, Object)' <=> Present(j, Object)
        BY <1>2, ObjectRests
      <4>2. err' = R!None /\ \A j \in 1..Len(schema) : j < i + 1 => Agrees(j)'
        <5>1. R!None' = R!None
          BY DEF R!None
        <5> QED BY <3>1, <5>1, <1>2 DEF SoFar
      <4>3. SoFar
        <5>1. ASSUME NEW j \in 1..Len(schema), j < i PROVE Agrees(j)
          <6>1. j < i + 1 /\ j # next
            BY <5>1, <1>2
          <6>2. vals'[j] = vals[j] /\ Agrees(j)'
            BY <6>1, <4>2, <2>1
          <6> QED BY <6>2, <4>1 DEF Agrees
        <5> QED BY <5>1, <1>5 DEF SoFar
      <4>4. Stands(next - 1) /\ \A k \in 1..bitsRead : data[k] = wire[k]
        BY <4>3, <2>5, <1>1 DEF ReceiverInv, Told
      <4>5. Agrees(i)'
        BY <4>2, <1>2
      <4>6. /\ bitsRead' \in 0..Len(data) /\ \A start : Laid(start) => bitsRead' = start[next]
            /\ vals'[next] = IF Present(next, Object) THEN Object[next] ELSE vals[next]
            /\ \A k \in 1..bitsRead' : data[k] = wire[k]
        <5>1. CASE ~Present(next, given)
          <6>1. ~Present(next, Object)
            BY <4>3, <5>1, <2>2
          <6>2. bitsRead' = bitsRead
            BY <4>3, <4>4, <5>1, <2>3
          <6> QED BY <6>1, <6>2, <4>3, <4>4, <5>1, <2>3
        <5>2. CASE Present(next, given)
          <6>1. Present(next, vals) /\ Present(next, Object)
            BY <4>3, <5>2, <2>2
          <6>2. R!Accepted(o) /\ bitsRead' = o.at /\ vals'[next] = o.value
            BY <6>1, <4>2, <2>1
          <6>3. o.value = Object[next]
            BY <6>1, <6>2, <4>1, <4>5 DEF Agrees
          <6>4. /\ o.at \in 0..Len(data) /\ \A start : Laid(start) => o.at = start[next]
                /\ \A k \in 1..o.at : data[k] = wire[k]
            BY <6>2, <6>3, <5>2, <4>3, <4>4, <1>1, <1>2, <1>3, FieldTold DEF o
          <6> QED BY <6>1, <6>2, <6>3, <6>4
        <5> QED BY <5>1, <5>2
      <4>7. SoFar' /\ ~Finished' /\ Stands(next - 1)'
        BY <4>2, <4>3, <4>6, <2>1, <1>2, <1>3, Advances
      <4>8. data' = data /\ wire' = wire
        BY <2>1 DEF sender
      <4> QED BY <4>6, <4>7, <4>8
    <3>2. Told'
      BY <3>1 DEF Told
    <3> QED BY <3>2, <2>1, <2>5, <1>2, <1>3, ReadKeeps
  <2>6. fate \in {"intact", "truncated", "extended", "flipped"}
    BY <1>1, <1>3 DEF ReceiverInv
  <2> QED BY <2>4, <2>5, <2>6
<1> QED BY <1>4, <1>5

(***************************************************************************)
(* So does the end, and a return before it.                                *)
(***************************************************************************)
LEMMA ReadEndKeeps ==
  ASSUME MessageInv, ReadEnd
  PROVE  ReceiverInv'
<1> DEFINE o == R!End(bitsRead)
<1>1. SenderInv /\ ReceiverInv /\ schema \in Schemas /\ Len(schema) \in Nat
  BY SchemaFacts DEF MessageInv, SenderInv
<1>2. /\ next = Len(schema) + 1 /\ next' = next + 1 /\ vals' = vals
      /\ UNCHANGED <<schema, given, sender, fate, deliveries>>
      /\ R!Serialize(o) /\ complete' = (complete \/ (err = R!None /\ R!Accepted(o)))
  BY DEF ReadEnd, R!SerializeEnd
<1> HIDE DEF o
<1>3. /\ next' = Len(schema) + 2 /\ next' \in 1..Len(schema)+2 /\ ~Finished
      /\ next - 1 = Len(schema)
      /\ \A j \in 1..Len(schema) : j < next /\ j < next'
      /\ Len(schema) + 1 \in 1..Len(schema)+1
  BY <1>1, <1>2 DEF Finished
<1>4. Finished'
  BY <1>2, <1>3 DEF Finished
<1>5. fate # "none" /\ last = "flushed" /\ Received
  BY <1>1, <1>3 DEF ReceiverInv
<1>6. data' = data
  BY <1>2, SerializeIs
<1>7. /\ Object' = Object
      /\ \A j : Old(j)' = Old(j)
      /\ \A j : Present(j, Object)' <=> Present(j, Object)
  BY <1>2, ObjectRests
<1>8. CASE err # R!None
  <2>1. err' = err
    BY <1>2, <1>8, SerializeIs
  <2> QED BY <2>1, <1>2, <1>3, <1>5, <1>6, <1>8, RefusedKeeps
<1>9. CASE err = R!None
  <2>1. /\ R!Accepted(o) => err' = R!None /\ complete'
        /\ ~R!Accepted(o) => err' = o.reason /\ err' # R!None
    BY <1>2, <1>9, SerializeIs
  <2>2. CASE fate \in {"intact", "truncated", "extended"}
    <3>1. SoFar /\ Stands(next - 1) /\ (fate \in {"truncated", "extended"} => PrefixTo(next))
      BY <1>1, <1>3, <1>9, <2>2 DEF ReceiverInv, Followed
    <3>2. /\ fate # "truncated"
          /\ fate = "intact" => R!Accepted(o)
          /\ fate = "extended" => o.reason = "trailing_data"
      <4>1. Stands(Len(schema))
        BY <3>1, <1>3
      <4> QED BY <4>1, <1>1, <1>5, EndTaken DEF o
    <3>3. CASE fate = "intact"
      <4>1. err' = R!None /\ complete'
        BY <3>2, <3>3, <2>1
      <4>2. SoFar'
        <5>1. \A j \in 1..Len(schema) : Agrees(j)'
          BY <3>1, <1>2, <1>3, <1>7 DEF SoFar, Agrees
        <5>2. R!None' = R!None
          BY DEF R!None
        <5> QED BY <4>1, <5>1, <5>2, <1>2 DEF SoFar
      <4>3. Followed'
        BY <4>1, <4>2, <3>3, <1>2, <1>4 DEF Followed, R!None
      <4> QED BY <4>3, <3>3, <1>2, <1>3, <1>5, <1>6, ReadKeeps
    <3>4. CASE fate = "extended"
      <4>1. err' = "trailing_data" /\ err' # R!None
        BY <3>2, <3>4, <2>1 DEF R!Accepted, R!None
      <4>2. Followed'
        BY <4>1, <3>4, <1>2, <1>4 DEF Followed, R!None
      <4>3. PrefixTo(Len(schema) + 1)
        BY <3>1, <3>4, <1>2
      <4>4. \A k : PrefixTo(k) => PrefixTo(k)'
        BY <1>2, <1>7 DEF PrefixTo
      <4>5. \E k \in 1..Len(schema)+1 : PrefixTo(k)'
        <5>1. PICK k : k = Len(schema) + 1
          OBVIOUS
        <5> QED BY <5>1, <4>3, <4>4, <1>3
      <4> QED BY <4>1, <4>2, <4>5, <3>4, <1>2, <1>3, <1>5, <1>6, ReadKeeps
    <3> QED BY <3>2, <3>3, <3>4, <2>2
  <2>3. CASE fate = "flipped"
    <3>1. ASSUME SoFar' PROVE FALSE
      <4>1. err' = R!None /\ \A j \in 1..Len(schema) : Agrees(j)'
        <5>1. R!None' = R!None
          BY DEF R!None
        <5> QED BY <3>1, <5>1, <1>2, <1>3 DEF SoFar
      <4>2. SoFar
        BY <4>1, <1>2, <1>7, <1>9 DEF SoFar, Agrees
      <4>3. Stands(next - 1) /\ \A k \in 1..bitsRead : data[k] = wire[k]
        BY <4>2, <2>3, <1>1 DEF ReceiverInv, Told
      <4>4. Stands(Len(schema))
        BY <4>3, <1>3
      <4>5. ~R!Accepted(o)
        BY <4>3, <4>4, <2>3, <1>1, <1>5, EndTaken DEF o
      <4> QED BY <4>1, <4>5, <2>1
    <3>2. Told'
      BY <3>1 DEF Told
    <3> QED BY <3>2, <2>3, <1>2, <1>3, <1>5, <1>6, ReadKeeps
  <2>4. fate \in {"intact", "truncated", "extended", "flipped"}
    BY <1>1, <1>5 DEF ReceiverInv
  <2> QED BY <2>2, <2>3, <2>4
<1> QED BY <1>8, <1>9

(***************************************************************************)
(* A return as soon as there is an error.                                  *)
(***************************************************************************)
LEMMA ReturnEarlyKeeps ==
  ASSUME MessageInv, ReturnEarly
  PROVE  ReceiverInv'
<1>1. /\ err # R!None /\ ~Finished /\ next' = Len(schema) + 2 /\ vals' = vals
      /\ UNCHANGED <<schema, given, sender, fate, deliveries>> /\ err' = err /\ data' = data
  BY DEF ReturnEarly, receiver
<1>2. Len(schema) \in Nat
  BY SchemaFacts DEF MessageInv, SenderInv
<1>3. next' \in 1..Len(schema)+2 /\ fate # "none"
  BY <1>1, <1>2 DEF MessageInv, ReceiverInv
<1> QED BY <1>1, <1>3, RefusedKeeps

(***************************************************************************)
(* What the network makes of a packet is what a receiver can follow, or    *)
(* can tell.                                                               *)
(***************************************************************************)
LEMMA NetworkKeeps ==
  ASSUME MessageInv, DeliverIntact \/ Truncate \/ Extend \/ Flip
  PROVE  ReceiverInv'
<1>1. SenderInv /\ last = "flushed"
  BY DEF MessageInv, DeliverIntact, Truncate, Extend, Flip, Deliver
<1>2. packet \in Seq(Bit) /\ Len(packet) % ByteBits = 0 /\ Len(packet) \in Nat
  BY <1>1, PacketFacts
<1>3. ByteBits \in Nat \ {0}
  BY GeometryAssumption
<1>4. CASE DeliverIntact
  <2>1. PICK p : p = packet
    OBVIOUS
  <2>2. Deliver("intact", p)
    BY <2>1, <1>4 DEF DeliverIntact
  <2> QED BY <2>1, <2>2, <1>2, DeliverKeeps
<1>5. CASE Truncate
  <2>1. PICK n \in 0..Len(packet) \div ByteBits - 1 :
          Deliver("truncated", SubSeq(packet, 1, n * ByteBits))
    BY <1>5 DEF Truncate
  <2>2. PICK p : p = SubSeq(packet, 1, n * ByteBits)
    OBVIOUS
  <2> DEFINE size == n * ByteBits
             q == Len(packet) \div ByteBits
  <2>3. q \in Nat /\ Len(packet) = q * ByteBits + (Len(packet) % ByteBits)
    BY <1>2, <1>3, DivMod
  <2>4. n \in Nat /\ n + 1 <= q /\ n + 1 \in Nat
    BY <2>1, <2>3
  <2>5. size \in Nat /\ size + ByteBits = (n + 1) * ByteBits
    BY <2>4, <1>3
  <2>6. (n + 1) * ByteBits <= q * ByteBits
    <3> HIDE DEF q
    <3> QED BY <2>3, <2>4, <1>3, Products
  <2>7. size % ByteBits = 0
    BY <2>4, SoManyBytes
  <2>8. size \in Nat /\ size + ByteBits <= Len(packet) /\ size \in 0..Len(packet)
    <3>1. q * ByteBits = Len(packet)
      <4> DEFINE whole == q * ByteBits
      <4>1. Len(packet) = whole + 0 /\ whole \in Nat
        BY <2>3, <1>2, <1>3
      <4> HIDE DEF whole
      <4> QED BY <4>1, <1>2 DEF whole
    <3> HIDE DEF q, size
    <3> QED BY <3>1, <2>5, <2>6, <1>2, <1>3
  <2> HIDE DEF size, q
  <2>9. p = SubSeq(packet, 1, size)
    BY <2>2 DEF size
  <2>10. p \in Seq(Bit) /\ Len(p) = size /\ \A k \in 1..size : p[k] = packet[k]
    BY <2>8, <2>9, <1>2, Beginning
  <2>11. Deliver("truncated", p) /\ deliveries = 0
    BY <2>1, <2>2, <1>5 DEF Truncate
  <2> QED BY <2>7, <2>8, <2>10, <2>11, DeliverKeeps
<1>6. CASE Extend
  <2>1. PICK more \in [1..ByteBits -> Bit] : Deliver("extended", packet \o more)
    BY <1>6 DEF Extend
  <2>2. PICK p : p = packet \o more
    OBVIOUS
  <2>3. more \in Seq(Bit) /\ Len(more) = ByteBits
    BY <1>3, SeqDef, LenProperties
  <2>4. /\ p \in Seq(Bit) /\ Len(p) = Len(packet) + ByteBits
        /\ \A k \in 1..Len(packet) + ByteBits :
             p[k] = IF k <= Len(packet) THEN packet[k] ELSE more[k - Len(packet)]
    BY <2>2, <2>3, <1>2, ConcatProperties
  <2>5. \A k \in 1..Len(packet) : p[k] = packet[k]
    BY <2>4, <1>2, <1>3
  <2>6. Len(p) % ByteBits = 0
    <3>1. PICK n \in Nat : n = Len(packet)
      BY <1>2
    <3>2. (n + 1 * ByteBits) % ByteBits = n % ByteBits
      BY ONLY <1>3, ModWords, n \in Nat, 1 \in Nat
    <3>3. 1 * ByteBits = ByteBits
      BY <1>3
    <3>4. (n + ByteBits) % ByteBits = n % ByteBits
      BY ONLY <3>2, <3>3
    <3> QED BY <3>1, <3>4, <2>4, <1>2
  <2>7. Deliver("extended", p) /\ deliveries = 0
    BY <2>1, <2>2, <1>6 DEF Extend
  <2> QED BY <2>4, <2>5, <2>6, <2>7, DeliverKeeps
<1>7. CASE Flip
  <2>1. PICK b \in DOMAIN packet : Deliver("flipped", [packet EXCEPT ![b] = 1 - packet[b]])
    BY <1>7 DEF Flip
  <2>2. PICK p : p = [packet EXCEPT ![b] = 1 - packet[b]]
    OBVIOUS
  <2>3. /\ DOMAIN packet = 1..Len(packet) /\ packet = [k \in 1..Len(packet) |-> packet[k]]
        /\ \A k \in 1..Len(packet) : packet[k] \in Bit
    BY <1>2, LenProperties, ElementsOf
  <2>4. 1 - packet[b] \in Bit /\ 1 - packet[b] # packet[b]
    BY <2>3 DEF Bit
  <2>5. p \in [1..Len(packet) -> Bit]
    BY <2>2, <2>3, <2>4
  <2>6. p \in Seq(Bit) /\ Len(p) = Len(packet)
    BY <2>5, <1>2, SeqDef, LenProperties
  <2>7. p # packet
    <3>1. p[b] = 1 - packet[b]
      BY <2>2, <2>3
    <3> QED BY <3>1, <2>4
  <2>8. Deliver("flipped", p) /\ deliveries = 0
    BY <2>1, <2>2, <1>7 DEF Flip
  <2> QED BY <2>6, <2>7, <2>8, <1>2, DeliverKeeps
<1> QED BY <1>4, <1>5, <1>6, <1>7

(***************************************************************************)
(* A receiver that has no packet yet, while the sender is at work.         *)
(***************************************************************************)
LEMMA WaitingKeeps ==
  ASSUME MessageInv, UNCHANGED <<schema, vals, next, fate, deliveries>>, fate = "none"
  PROVE  ReceiverInv'
<1>1. ReceiverInv
  BY DEF MessageInv
<1>2. /\ schema' = schema /\ vals' = vals /\ next' = next /\ fate' = fate
      /\ deliveries' = deliveries
  OBVIOUS
<1>3. \A i : Old(i)' = Old(i)
  BY <1>2 DEF Old
<1>4. Finished => Finished'
  BY <1>2 DEF Finished
<1> QED BY <1>1, <1>2, <1>3, <1>4 DEF ReceiverInv

(***************************************************************************)
(* Every step keeps what both ends keep.                                   *)
(***************************************************************************)
LEMMA MessageKeeps ==
  ASSUME MessageInv, [Next]_vars
  PROVE  MessageInv'
<1>1. SenderInv'
  BY SenderKeeps DEF MessageInv
<1>2. SenderInv /\ ReceiverInv
  BY DEF MessageInv
<1>3. CASE WriteNext
  <2>1. last # "flushed"
    <3>1. Len(given) < Len(schema)
      BY <1>3 DEF WriteNext
    <3> QED BY <3>1, <1>2, SchemaFacts DEF SenderInv
  <2>2. UNCHANGED <<schema, vals, next, fate, deliveries>>
    BY <1>3 DEF WriteNext, WriteField, SkipField
  <2>3. fate = "none"
    BY <2>1, <1>2 DEF ReceiverInv
  <2>4. ReceiverInv'
    BY <2>2, <2>3, WaitingKeeps
  <2> QED BY <2>4, <1>1 DEF MessageInv
<1>4. CASE Flush
  <2>1. last # "flushed" /\ UNCHANGED <<schema, vals, next, fate, deliveries>>
    BY <1>4 DEF Flush, ends
  <2>2. fate = "none"
    BY <2>1, <1>2 DEF ReceiverInv
  <2>3. ReceiverInv'
    BY <2>1, <2>2, WaitingKeeps
  <2> QED BY <2>3, <1>1 DEF MessageInv
<1>5. CASE DeliverIntact \/ Truncate \/ Extend \/ Flip
  BY <1>1, <1>5, NetworkKeeps DEF MessageInv
<1>6. CASE ReadField
  BY <1>1, <1>6, ReadFieldKeeps DEF MessageInv
<1>7. CASE ReadEnd
  BY <1>1, <1>7, ReadEndKeeps DEF MessageInv
<1>8. CASE ReturnEarly
  BY <1>1, <1>8, ReturnEarlyKeeps DEF MessageInv
<1>9. CASE UNCHANGED vars
  <2>1. /\ UNCHANGED <<schema, given, wire, sender>> /\ vals' = vals /\ next' = next
        /\ fate' = fate /\ deliveries' = deliveries /\ data' = data /\ bitsRead' = bitsRead
        /\ err' = err /\ complete' = complete /\ last' = last /\ packet' = packet
    BY <1>9 DEF vars, ends, sender, receiver
  <2>2. schema' = schema /\ given' = given /\ wire' = wire
    BY <2>1
  <2>3. /\ Object' = Object
        /\ \A j : Old(j)' = Old(j)
        /\ \A j : Present(j, Object)' <=> Present(j, Object)
    BY <2>2, ObjectRests
  <2>4. \A start : Laid(start)' <=> Laid(start)
    BY <1>2, <2>2, SenderRests DEF SenderInv
  <2>5. (Finished' <=> Finished) /\ (Received' <=> Received) /\ R!None' = R!None
    BY <2>1 DEF Finished, Received, R!None
  <2>6. SoFar' <=> SoFar
    BY <2>1, <2>3, <2>5 DEF SoFar, Agrees
  <2>7. Stands(next - 1)' <=> Stands(next - 1)
    BY <2>1, <2>4 DEF Stands
  <2>8. (Followed' <=> Followed) /\ (Told' <=> Told)
    BY <2>1, <2>2, <2>5, <2>6, <2>7 DEF Followed, Told
  <2>9. (\A k : PrefixTo(k)' <=> PrefixTo(k)) /\ (PrefixTo(next)' <=> PrefixTo(next))
    BY <2>1, <2>2, <2>3 DEF PrefixTo
  <2>10. ReceiverInv'
    BY <1>2, <2>1, <2>3, <2>5, <2>8, <2>9 DEF ReceiverInv
  <2> QED BY <2>10, <1>1 DEF MessageInv
<1> QED BY <1>3, <1>4, <1>5, <1>6, <1>7, <1>8, <1>9 DEF Next

(***************************************************************************)
(* What both ends have at the start.                                       *)
(***************************************************************************)
LEMMA MessageStarts ==
  ASSUME Init
  PROVE  MessageInv
<1>1. SenderInv
  BY SenderStarts
<1>2. /\ vals = [i \in DOMAIN schema |-> Old(i)] /\ next = Len(schema) + 2
      /\ fate = "none" /\ deliveries = 0
  BY DEF Init
<1>3. Len(schema) \in Nat /\ DOMAIN schema = 1..Len(schema)
  BY <1>1, SchemaFacts DEF SenderInv
<1>4. DOMAIN vals = 1..Len(schema) /\ \A i \in 1..Len(schema) : vals[i] = Old(i)
  BY <1>2, <1>3
<1>5. next \in 1..Len(schema)+2 /\ Finished
  BY <1>2, <1>3 DEF Finished
<1> QED BY <1>1, <1>2, <1>4, <1>5 DEF MessageInv, ReceiverInv

(***************************************************************************)
(* The receiver keeps its place in the packet, or has refused for the one  *)
(* reason there is, whatever the network does.                             *)
(***************************************************************************)
THEOREM ReceiverKeepsItsPlace == Spec => []MessageInv
<1>1. Init => MessageInv
  BY MessageStarts
<1>2. MessageInv /\ [Next]_vars => MessageInv'
  BY MessageKeeps
<1> QED BY <1>1, <1>2, PTL DEF Spec

(***************************************************************************)
(* A packet that arrives as it was sent is accepted to its end, with the   *)
(* sender's values in the receiver's variables, whatever was in them or    *)
(* was read before: what one end writes the other reads.                   *)
(***************************************************************************)
THEOREM WhatIsSentArrives == Spec => []Arrives
<1>1. MessageInv => Arrives
  <2> SUFFICES ASSUME MessageInv, Finished, fate = "intact"
               PROVE  /\ err = R!None /\ complete
                      /\ \A i \in DOMAIN schema : Present(i, Object) => vals[i] = Object[i]
    BY DEF Arrives
  <2>1. /\ Followed /\ DOMAIN schema = 1..Len(schema) /\ Len(schema) \in Nat
        /\ next = Len(schema) + 2
    BY SchemaFacts DEF MessageInv, ReceiverInv, SenderInv, Finished
  <2>2. err = R!None /\ complete /\ SoFar
    BY <2>1 DEF Followed
  <2>3. ASSUME NEW i \in DOMAIN schema PROVE Agrees(i)
    <3>1. i \in 1..Len(schema) /\ i < next
      BY <2>1
    <3> QED BY <3>1, <2>2 DEF SoFar
  <2> QED BY <2>2, <2>3 DEF Agrees
<1> QED BY <1>1, ReceiverKeepsItsPlace, PTL

(***************************************************************************)
(* A packet cut short is past the end, one with a byte more has trailing   *)
(* data, and one with a bit flipped is refused or has another value: no    *)
(* bit of a packet is without meaning.                                     *)
(***************************************************************************)
THEOREM NoDamageIsTakenForTheObject == Spec => []DamageShows
<1>1. MessageInv => DamageShows
  <2> SUFFICES ASSUME MessageInv, Finished PROVE DamageShows
    BY DEF DamageShows
  <2>1. ReceiverInv /\ DOMAIN schema = 1..Len(schema)
    BY SchemaFacts DEF MessageInv, SenderInv
  <2>2. fate = "truncated" => err = "past_end"
    BY <2>1 DEF ReceiverInv, Followed
  <2>3. fate = "extended" => err = "trailing_data"
    BY <2>1 DEF ReceiverInv, Followed
  <2>4. ASSUME fate = "flipped", err = R!None
        PROVE  \E i \in DOMAIN schema : Present(i, Object) /\ vals[i] # Object[i]
    <3>1. ~SoFar
      BY <2>1, <2>4 DEF ReceiverInv, Told
    <3> QED BY <3>1, <2>1, <2>4 DEF SoFar, Agrees
  <2> QED BY <2>2, <2>3, <2>4 DEF DamageShows
<1> QED BY <1>1, ReceiverKeepsItsPlace, PTL

(***************************************************************************)
(* "On failure *value is left unmodified": of an object refused part way   *)
(* the variables before the refusal are the sender's, and those after it   *)
(* what they were, although the function goes on.                          *)
(***************************************************************************)
THEOREM ARefusalLeavesTheRest == Spec => []OnlyAPrefix
<1>1. MessageInv => OnlyAPrefix
  <2> SUFFICES ASSUME MessageInv, fate \in {"truncated", "extended"} PROVE OnlyAPrefix
    BY DEF OnlyAPrefix
  <2>1. DOMAIN schema = 1..Len(schema)
    BY SchemaFacts DEF MessageInv, SenderInv
  <2>2. \E k \in 1..Len(schema)+1 : PrefixTo(k)
    BY DEF MessageInv, ReceiverInv
  <2> QED BY <2>1, <2>2 DEF PrefixTo, OnlyAPrefix
<1> QED BY <1>1, ReceiverKeepsItsPlace, PTL
=============================================================================

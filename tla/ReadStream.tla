---------------------------- MODULE ReadStream ----------------------------
(***************************************************************************)
(* The read stream: what it makes of any packet at all.  A read decodes    *)
(* and checks; the first reason to refuse is latched, and every later call *)
(* on the stream returns it and does nothing.  Objects nest, and may       *)
(* refuse what was read for reasons of their own.                          *)
(*                                                                         *)
(* The bits come from BitReader, which is shown on its own to return the   *)
(* bits of the packet: here a read takes them from the packet directly.    *)
(***************************************************************************)
EXTENDS Tiers, Text

CONSTANTS Packets,    \* the packets, bit by bit: whole bytes
          Later,      \* those that are read with the same stream after another
          Widths,     \* the widths of raw fields
          Spans,      \* the spans of ranged integers
          NonFinite,  \* the bits of the floats that are not finite
          FloatBits,  \* the width of a float
          Counts,     \* the lengths of byte arrays
          Sizes,      \* the buffer sizes of strings
          Previous,   \* the numbers an int_relative is relative to
          Depth       \* how deep objects nest

ASSUME PacketsAssumption ==
  \A p \in Packets \cup Later : p \in Seq(Bit) /\ Len(p) % ByteBits = 0
ASSUME DeclarationsAssumption ==
  /\ Widths \subseteq Nat /\ Spans \subseteq Nat /\ Counts \subseteq Nat
  /\ Sizes \subseteq Nat \ {0}   \* others are declarations that are refused
  /\ Previous \subseteq Int
  /\ FloatBits \in Nat /\ Depth \in Nat

Refusals == {"past_end", "value_out_of_range", "nonzero_padding", "trailing_data",
             "non_finite_float", "invalid_utf8", "embedded_nul", "non_canonical",
             "rejected"}
None == "none"
OwnError == "own"     \* an error of the caller that is no Refusal of the list

VARIABLES data,      \* the packet
          bitsRead,  \* the position
          err,       \* the latched reason
          returned,  \* what the last call returned
          depth,     \* the objects being read
          echo,      \* what a writer writes for the values read so far
          complete   \* SerializeEnd has accepted the packet

vars == <<data, bitsRead, err, returned, depth, echo, complete>>

-----------------------------------------------------------------------------
(***************************************************************************)
(* A decoder at a position ends at one, with a reason if it refuses and    *)
(* with the value, and the code the writer has for it, if it does not.     *)
(***************************************************************************)
Accepts(at, code, value) == [reason |-> None, at |-> at, code |-> code, value |-> value]
Refuses(reason, at) == [reason |-> reason, at |-> at, code |-> <<>>, value |-> 0]
Accepted(o) == o.reason = None

numBits == Len(data)
Remaining(at) == numBits - at
BitsAt(at, n) == SubSeq(data, at + 1, at + n)
AllZero(s) == \A i \in DOMAIN s : s[i] = 0

\* Mutant of Field: the end of the packet not checked, and zeros read past it.
FieldAnywhere(at, n) ==
  LET bits == [i \in 1..n |-> IF at + i <= numBits THEN data[at+i] ELSE 0]
  IN  Accepts(at + n, bits, FromBits(bits))

Field(at, n) == IF at + n > numBits THEN Refuses("past_end", at)
                                    ELSE Accepts(at + n, BitsAt(at, n), FromBits(BitsAt(at, n)))

Ranged(at, span) ==
  LET n == BitsRequired(span)
      unsigned == FromBits(BitsAt(at, n))
  IN  IF at + n > numBits THEN Refuses("past_end", at)
      ELSE IF unsigned > span THEN Refuses("value_out_of_range", at + n)
      ELSE Accepts(at + n, ToBits(unsigned, n), unsigned)

Float(at) == LET o == Field(at, FloatBits)
             IN  IF Accepted(o) /\ o.code \in NonFinite
                   THEN Refuses("non_finite_float", o.at) ELSE o

Align(at) == LET n == AlignPad(at)
             IN  IF at + n > numBits THEN Refuses("past_end", at)
                 ELSE IF ~AllZero(BitsAt(at, n)) THEN Refuses("nonzero_padding", at + n)
                 ELSE Accepts(at + n, Zeros(n), 0)

ByteAt(at, i) == FromBits(BitsAt(at + (i - 1) * ByteBits, ByteBits))

Bytes(at, count) ==
  LET pad == Align(at)
      end == pad.at + count * ByteBits
  IN  IF ~Accepted(pad) THEN pad
      ELSE IF count > Remaining(pad.at) \div ByteBits THEN Refuses("past_end", pad.at)
      ELSE Accepts(end, pad.code \o BitsAt(pad.at, count * ByteBits),
                   [i \in 1..count |-> ByteAt(pad.at, i)])

(***************************************************************************)
(* A string: its length, an align, its bytes; a NUL is looked for in all   *)
(* of the text before its form is checked.                                 *)
(***************************************************************************)
String(at, size) ==
  LET length == Ranged(at, size - 1)
      run == Bytes(length.at, length.value)
  IN  IF ~Accepted(length) THEN length
      ELSE IF ~Accepted(run) THEN run
      ELSE IF HasNul(run.value) THEN Refuses("embedded_nul", run.at)
      ELSE IF ~WellFormed(run.value) THEN Refuses("invalid_utf8", run.at)
      ELSE Accepts(run.at, length.code \o run.code, run.value)

(***************************************************************************)
(* int_relative: the flags up to the first that is set, then the value of  *)
(* that tier, rebuilt and checked whatever the tier.                       *)
(***************************************************************************)
intRelativeResult(previous, at, rebuilt) ==
  IF rebuilt > IntRelativeMax \/ rebuilt <= previous
    THEN Refuses("value_out_of_range", at)
    ELSE Accepts(at, IntRelativeCode(previous, rebuilt), rebuilt)

Bounded(previous, at, bucket) ==
  LET offset == Ranged(at, Span(bucket))
  IN  IF ~Accepted(offset) THEN offset
      ELSE intRelativeResult(previous, offset.at,
                             previous + bucket.min + offset.value)

\* Mutant of Absolute: a difference that a bucket takes is accepted.
AbsoluteAny(previous, at) ==
  LET group == Field(at, AbsoluteBits)
  IN  IF ~Accepted(group) THEN group
      ELSE intRelativeResult(previous, group.at, group.value)

Absolute(previous, at) ==
  LET group == Field(at, AbsoluteBits)
      v == group.value
  IN  IF ~Accepted(group) THEN group
      ELSE IF v <= IntRelativeMax /\ v > previous /\ v - previous <= BoundedMax
        THEN Refuses("non_canonical", group.at)
        ELSE intRelativeResult(previous, group.at, v)

IntRelative(at, previous) ==
  LET flags == Len(Buckets) + 1
      set == {i \in 1..flags : at + i <= numBits /\ data[at+i] = 1}
      first == CHOOSE i \in set : \A j \in set : i <= j
  IN  IF set = {}
        THEN IF Remaining(at) < flags THEN Refuses("past_end", numBits)
                                      ELSE Absolute(previous, at + flags)
        ELSE IF first = 1 THEN intRelativeResult(previous, at + 1, previous + 1)
                          ELSE Bounded(previous, at + first, Buckets[first-1])

\* Mutant of End: a whole byte may remain.
EndOffByOne(at) ==
  IF Remaining(at) > ByteBits THEN Refuses("trailing_data", at)
  ELSE IF ~AllZero(BitsAt(at, Remaining(at))) THEN Refuses("nonzero_padding", numBits)
  ELSE Accepts(numBits, Zeros(AlignPad(at)), 0)

(***************************************************************************)
(* The end: less than a byte may remain, and it must be zeros.             *)
(***************************************************************************)
End(at) == IF Remaining(at) >= ByteBits THEN Refuses("trailing_data", at)
           ELSE IF ~AllZero(BitsAt(at, Remaining(at))) THEN Refuses("nonzero_padding", numBits)
           ELSE Accepts(numBits, Zeros(AlignPad(at)), 0)

-----------------------------------------------------------------------------
Init == /\ data \in Packets
        /\ bitsRead = 0
        /\ err = None /\ returned = None
        /\ depth = 0
        /\ echo = <<>>
        /\ complete = FALSE

\* Mutant of fail: the last reason stays.
failLast(reason) == /\ err' = reason
                    /\ returned' = err'

(***************************************************************************)
(* fail: the first reason stays.                                           *)
(***************************************************************************)
fail(reason) == /\ err' = IF err = None THEN reason ELSE err
                /\ returned' = err'

(***************************************************************************)
(* A call of a decoder, and one with a declaration that is refused before  *)
(* anything else is looked at.                                             *)
(***************************************************************************)
Serialize(o) ==
  /\ IF err # None
       THEN returned' = err /\ UNCHANGED <<bitsRead, err, echo>>
       ELSE /\ bitsRead' = o.at
            /\ IF Accepted(o) THEN returned' = None /\ UNCHANGED err ELSE fail(o.reason)
            /\ echo' = echo \o o.code
  /\ UNCHANGED <<data, depth>>

SerializeBits(n) == Serialize(Field(bitsRead, n)) /\ UNCHANGED complete
SerializeInt(span) == Serialize(Ranged(bitsRead, span)) /\ UNCHANGED complete
SerializeFloat == Serialize(Float(bitsRead)) /\ UNCHANGED complete
SerializeAlign == Serialize(Align(bitsRead)) /\ UNCHANGED complete
SerializeBytes(count) == Serialize(Bytes(bitsRead, count)) /\ UNCHANGED complete
SerializeString(size) == Serialize(String(bitsRead, size)) /\ UNCHANGED complete
SerializeIntRelative(previous) ==
  Serialize(IntRelative(bitsRead, previous)) /\ UNCHANGED complete

SerializeEnd == /\ Serialize(End(bitsRead))
                /\ complete' = (complete \/ (err = None /\ Accepted(End(bitsRead))))

BadDeclaration == /\ fail("value_out_of_range")
                  /\ UNCHANGED <<data, bitsRead, depth, echo, complete>>

(***************************************************************************)
(* Fail and Reject: the caller refuses.  A reason outside the list, none   *)
(* included, is the caller refusing without saying why.                    *)
(***************************************************************************)
closedRefusal(reason) == IF reason \in Refusals THEN reason ELSE "rejected"

Fail(reason) == /\ fail(closedRefusal(reason))
                /\ UNCHANGED <<data, bitsRead, depth, echo, complete>>

(***************************************************************************)
(* SerializeObject calls the object's Serialize unless the stream already  *)
(* refused; the object returns nil, what the stream returned to it, or an  *)
(* error of its own, which is a refusal if nothing was refused before.     *)
(***************************************************************************)
EnterObject == /\ depth < Depth
               /\ IF err # None THEN returned' = err /\ UNCHANGED depth
                                ELSE depth' = depth + 1 /\ UNCHANGED returned
               /\ UNCHANGED <<data, bitsRead, err, echo, complete>>

\* Mutant of LeaveObject: the error of the object is returned, whatever is latched.
LeaveObjectWithItsOwn(e) == /\ depth > 0
                            /\ depth' = depth - 1
                            /\ returned' = IF e = None THEN err ELSE closedRefusal(e)
                            /\ err' = IF err = None THEN returned' ELSE err
                            /\ UNCHANGED <<data, bitsRead, echo, complete>>

LeaveObject(e) == /\ depth > 0
                  /\ depth' = depth - 1
                  /\ IF e = None \/ err # None
                       THEN returned' = err /\ UNCHANGED err
                       ELSE fail(closedRefusal(e))
                  /\ UNCHANGED <<data, bitsRead, echo, complete>>

\* Mutant of Reset: the reason latched before stays.
ResetKeepingTheLatch(packet) == /\ depth = 0
                                /\ data' = packet
                                /\ bitsRead' = 0
                                /\ echo' = <<>>
                                /\ complete' = FALSE
                                /\ UNCHANGED <<depth, err, returned>>

Reset(packet) == /\ depth = 0
                 /\ data' = packet
                 /\ bitsRead' = 0
                 /\ err' = None /\ returned' = None
                 /\ echo' = <<>>
                 /\ complete' = FALSE
                 /\ UNCHANGED depth

Next == \/ \E n \in Widths : SerializeBits(n)
        \/ \E span \in Spans : SerializeInt(span)
        \/ SerializeFloat
        \/ SerializeAlign
        \/ \E count \in Counts : SerializeBytes(count)
        \/ \E size \in Sizes : SerializeString(size)
        \/ \E previous \in Previous : SerializeIntRelative(previous)
        \/ SerializeEnd
        \/ BadDeclaration
        \/ \E reason \in {"rejected", "past_end", None, OwnError} : Fail(reason)
        \/ EnterObject
        \/ \E e \in {None, "invalid_utf8", OwnError} : LeaveObject(e)
        \/ \E packet \in Later : Reset(packet)

Spec == Init /\ [][Next]_vars

-----------------------------------------------------------------------------
(***************************************************************************)
(* The type of every variable of the stream.                               *)
(***************************************************************************)
TypeOK == /\ data \in Packets \cup Later
          /\ bitsRead \in 0..Len(data)
          /\ err \in Refusals \cup {None}
          /\ returned \in Refusals \cup {None}
          /\ depth \in 0..Depth
          /\ echo \in Seq(Bit)
          /\ complete \in BOOLEAN

(***************************************************************************)
(* As long as nothing is refused, a writer given the values read writes    *)
(* the very bits they were read from, in whatever order and nesting they   *)
(* were read: no value read has a second encoding.                         *)
(***************************************************************************)
Canonical == err = None => echo = SubSeq(data, 1, bitsRead)

(***************************************************************************)
(* What the calls of the stream keep: a packet accepted to its end has no  *)
(* bit left to read, and what was read of it is what a writer writes.      *)
(***************************************************************************)
ReadToTheEnd == complete /\ err = None => bitsRead = Len(data)

IInv == TypeOK /\ Canonical /\ ReadToTheEnd

(***************************************************************************)
(* "One value has exactly one byte sequence" (SerializeEnd): a packet      *)
(* accepted to its end is, to the last bit, what a writer writes for it.   *)
(***************************************************************************)
OneEncoding == complete /\ err = None => echo = data /\ bitsRead = Len(data)

(***************************************************************************)
(* Every call returns what is latched, so a serialize function that only   *)
(* looks at Err at the end sees what one that checks every call sees, and  *)
(* a refused stream never returns none.                                    *)
(***************************************************************************)
ReturnsTheLatch == returned = err

(***************************************************************************)
(* "A failed stream reports its FIRST refusal": until a Reset no call, no  *)
(* enclosing object and no Fail of the caller replaces the reason or moves *)
(* the stream on.                                                          *)
(***************************************************************************)
RefusalStands ==
  [][err # None => \/ err' = None /\ bitsRead' = 0 /\ depth = 0
                   \/ err' = err /\ UNCHANGED <<bitsRead, echo>>]_vars
=============================================================================

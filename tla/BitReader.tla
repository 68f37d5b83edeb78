----------------------------- MODULE BitReader -----------------------------
(***************************************************************************)
(* The bit reader of bitpacker.go.  A read loads one window of memory at   *)
(* the current byte, shifts it and masks it.  The window may reach past    *)
(* the packet: into the slack behind it when the backing array has enough, *)
(* else it is loaded from the tail, a zero padded copy of the last bytes   *)
(* that Reset makes for packets without slack and leaves as it was for     *)
(* packets with it.  A load that runs past its source panics.              *)
(***************************************************************************)
EXTENDS Bits

CONSTANTS HalfBytes,  \* bytes in half a word: 4 in the code
          Packets,    \* the packets given to Reset, bit by bit
          Slacks,     \* what lies in memory between a packet's end and its cap
          Counts      \* the lengths in bytes of the runs read

WholeBytes(s) == s \in Seq(Bit) /\ Len(s) % ByteBits = 0

ASSUME HalfAssumption == HalfBytes \in Nat \ {0} /\ 2 * HalfBytes = WordBytes
ASSUME PacketsAssumption == \A p \in Packets : WholeBytes(p)
ASSUME SlacksAssumption == \A s \in Slacks : WholeBytes(s)
ASSUME CountsAssumption == Counts \subseteq Nat

VARIABLES data,      \* the packet
          slack,     \* the rest of the backing array
          bitsRead,  \* the position
          tail,      \* the tail window
          tailBase,  \* the byte of the packet the tail starts at
          result,    \* what the last call returned
          last       \* how the last call ended

vars == <<data, slack, bitsRead, tail, tailBase, result, last>>

windowBytes == WordBytes
window64Bytes == WordBytes + HalfBytes

\* Mutant of TailBytes: no room for the second half of the last wide window.
TailBytesShort == window64Bytes + windowBytes

TailBytes == window64Bytes + windowBytes + HalfBytes

HalfBits == HalfBytes * ByteBits
padded == data \o slack
ByteLen(s) == Len(s) \div ByteBits
Larger(a, b) == IF a >= b THEN a ELSE b
Fits(bits) == bitsRead + bits <= Len(data)

-----------------------------------------------------------------------------
(***************************************************************************)
(* fillTail, for the packet p: its bytes from base on, then zeros.         *)
(***************************************************************************)
TailBase(p) == Larger(ByteLen(p) - window64Bytes, 0)
TailOf(p) == [i \in 1..TailBytes * ByteBits |->
                IF TailBase(p) * ByteBits + i <= Len(p)
                  THEN p[TailBase(p) * ByteBits + i] ELSE 0]

\* Mutant of Slackless: the reach of the narrow window for both.
SlacklessNarrow(s) == ByteLen(s) < windowBytes

Slackless(s) == ByteLen(s) < window64Bytes

Init == /\ data \in Packets /\ slack \in Slacks
        /\ tail = IF Slackless(slack) THEN TailOf(data) ELSE Zeros(TailBytes * ByteBits)
        /\ tailBase = IF Slackless(slack) THEN TailBase(data) ELSE 0
        /\ bitsRead = 0
        /\ result = <<>>
        /\ last = "reset"

Reset(p, s) == /\ data' = p /\ slack' = s
               /\ bitsRead' = 0
               /\ IF Slackless(s)
                    THEN tail' = TailOf(p) /\ tailBase' = TailBase(p)
                    ELSE UNCHANGED <<tail, tailBase>>
               /\ result' = <<>>
               /\ last' = "reset"

(***************************************************************************)
(* The source a window of reach bytes is loaded from, and the byte of the  *)
(* source it is loaded at.                                                 *)
(***************************************************************************)
byteIndex == bitsRead \div ByteBits
shift == bitsRead % ByteBits
FromTail(reach) == byteIndex + reach > ByteLen(padded)
Source(reach) == IF FromTail(reach) THEN tail ELSE padded
Index(reach) == IF FromTail(reach) THEN byteIndex - tailBase ELSE byteIndex
InSource(reach) == /\ Index(reach) >= 0
                   /\ Index(reach) + reach <= ByteLen(Source(reach))

LoadWord(s, byte) == WordAt(s, byte * ByteBits + 1)
LoadHalf(s, byte) == LowBits(LoadWord(s, byte), HalfBits)

readBits(bits) ==
  LowBits(Shr(LoadWord(Source(windowBytes), Index(windowBytes)), shift), bits)

readBits64(bits) ==
  LET src == Source(window64Bytes)
      at  == Index(window64Bytes)
  IN  LowBits(Or(Shr(LoadWord(src, at), shift),
                 Shl(LoadHalf(src, at + windowBytes), WordBits - shift)), bits)

\* Mutant of Load: the end of the packet not checked.
LoadAnywhere(reach, word, bits) ==
  /\ bitsRead' = bitsRead + bits
  /\ result' = [i \in 1..WordBits |-> word[i-1]]
  /\ last' = IF InSource(reach) THEN "read" ELSE "crash"
  /\ UNCHANGED <<data, slack, tail, tailBase>>

(***************************************************************************)
(* A read through a window of reach bytes; the slice expression of a load  *)
(* outside its source panics.                                              *)
(***************************************************************************)
Load(reach, word, bits) ==
  /\ Fits(bits)
  /\ bitsRead' = bitsRead + bits
  /\ result' = [i \in 1..WordBits |-> word[i-1]]
  /\ last' = IF InSource(reach) THEN "read" ELSE "crash"
  /\ UNCHANGED <<data, slack, tail, tailBase>>

End(outcome) == /\ result' = <<>>
                /\ last' = outcome
                /\ UNCHANGED <<data, slack, bitsRead, tail, tailBase>>

(***************************************************************************)
(* ReadBits(bits), for a width in 1..32, and the read stream's check of    *)
(* the end followed by readBits(bits), for one in 0..32, or by             *)
(* readBits64(bits), for one in 0..64.                                     *)
(***************************************************************************)
ReadBits(bits) == Load(windowBytes, readBits(bits), bits)
ReadBits64(bits) == Load(window64Bytes, readBits64(bits), bits)
ReadPastEnd(bits) == ~Fits(bits) /\ End("overflow")

(***************************************************************************)
(* ReadAlign reads the bits up to the byte with ReadBits, and is false if  *)
(* they are not zeros.                                                     *)
(***************************************************************************)
ReadAlign ==
  LET bits == ByteBits - shift
  IN  /\ \/ /\ shift = 0
            /\ last' = "read"
            /\ UNCHANGED bitsRead
         \/ /\ shift # 0
            /\ bitsRead' = bitsRead + bits
            /\ last' = IF ~Fits(bits) \/ ~InSource(windowBytes) THEN "crash"
                       ELSE IF readBits(bits) = ZeroWord THEN "read" ELSE "refused"
      /\ result' = <<>>
      /\ UNCHANGED <<data, slack, tail, tailBase>>

(***************************************************************************)
(* ReadBytes(n): a slice of the packet itself, with no window.             *)
(***************************************************************************)
ReadBytes(n) == /\ shift = 0
                /\ Fits(n * ByteBits)
                /\ result' = SubSeq(data, byteIndex * ByteBits + 1, (byteIndex + n) * ByteBits)
                /\ bitsRead' = bitsRead + n * ByteBits
                /\ last' = "read"
                /\ UNCHANGED <<data, slack, tail, tailBase>>

BytesPastEnd(n) == shift = 0 /\ ReadPastEnd(n * ByteBits)

(***************************************************************************)
(* A width out of range, or ReadBytes off a byte boundary.                 *)
(***************************************************************************)
Misuse == End("misuse")

Next == \/ \E bits \in 0..HalfBits : ReadBits(bits)
        \/ \E bits \in 0..WordBits : ReadBits64(bits) \/ ReadPastEnd(bits)
        \/ ReadAlign
        \/ \E n \in Counts : ReadBytes(n) \/ BytesPastEnd(n)
        \/ Misuse
        \/ \E p \in Packets, s \in Slacks : Reset(p, s)

Spec == Init /\ [][Next]_vars

-----------------------------------------------------------------------------
(***************************************************************************)
(* The type of every variable of the reader.                               *)
(***************************************************************************)
TypeOK == /\ data \in Packets /\ slack \in Slacks
          /\ bitsRead \in 0..Len(data)
          /\ tail \in [1..TailBytes * ByteBits -> Bit]
          /\ tailBase \in Nat
          /\ result \in Seq(Bit)
          /\ last \in {"reset", "read", "refused", "overflow", "misuse", "crash"}

(***************************************************************************)
(* "The widest window a legal read can ask for starts at the very last     *)
(* byte index": no load runs past its source, at any length of packet and  *)
(* of slack, though a read of no bits may start where the packet ends.     *)
(***************************************************************************)
LoadsInside == last # "crash"

(***************************************************************************)
(* The inductive invariant: a reader whose packet has too little slack for *)
(* the wide window has the tail of that packet, not of an earlier one.     *)
(***************************************************************************)
TailCurrent == Slackless(slack) => tail = TailOf(data) /\ tailBase = TailBase(data)

IInv == TypeOK /\ TailCurrent /\ LoadsInside

Abs == INSTANCE ReaderSpec
         WITH Widths   <- 0..WordBits,
              packet   <- data,
              position <- bitsRead

(***************************************************************************)
(* The reader implements ReaderSpec: "bits past the end of the data cannot *)
(* reach the output of a read", be they slack, padding or what an earlier  *)
(* packet left in the tail.                                                *)
(***************************************************************************)
ImplementsReader == Abs!Spec
=============================================================================

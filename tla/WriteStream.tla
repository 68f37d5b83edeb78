---------------------------- MODULE WriteStream ----------------------------
(***************************************************************************)
(* The write stream: bits collect in a scratch word and are stored to the  *)
(* buffer a whole word at a time.  A call of the stream runs in steps, one *)
(* per call it makes of tryWriteBits or tryWriteBits64 and one for the     *)
(* block copy of a byte run, because a call can panic between two of them  *)
(* and the caller can recover and go on with the stream as it was left.    *)
(*                                                                         *)
(* The pieces of a call are given by the positions in its encoding where   *)
(* one ends and the next begins, so the values written (numbers, floats,   *)
(* text) are just the bits they encode to.                                 *)
(***************************************************************************)
EXTENDS Bits, FiniteSets

CONSTANTS Buffers,      \* the sizes, in words, of the buffers given to Reset
          Fields,       \* the encodings of the values written as one field
          Runs,         \* the encodings of byte runs
          Texts,        \* the encodings of strings: a length field and a run
          RelWidths,    \* int_relative: the payload bits of its bucket tiers
          AbsoluteBits, \* int_relative: the bits of its last tier, 32 in the code
          Old           \* what a buffer holds where nothing was written yet

Bits01(n) == [1..n -> Bit]

ASSUME BuffersAssumption == Buffers \subseteq Nat
ASSUME FieldsAssumption ==
  \A f \in Fields : /\ f \in Seq(Bit)
                    /\ Len(f) <= 2 * WordBits
ASSUME RunsAssumption ==
  \A r \in Runs : /\ r \in Seq(Bit)
                  /\ Len(r) % ByteBits = 0
ASSUME TextsAssumption ==
  \A t \in Texts : /\ t.field \in Seq(Bit)
                   /\ Len(t.field) <= WordBits
                   /\ t.run \in Runs
ASSUME RelAssumption == /\ RelWidths \in Seq(0..WordBits)
                        /\ AbsoluteBits \in 1..WordBits
ASSUME OldAssumption == Old \notin Bit

VARIABLES data,         \* the buffer, bit by bit
          scratch,      \* the pending word
          numBits,      \* the bits of the buffer
          bitsWritten,  \* the position
          call,         \* the call that is running
          last          \* what the stream is doing, or how the last call ended

vars == <<data, scratch, numBits, bitsWritten, call, last>>

-----------------------------------------------------------------------------
(***************************************************************************)
(* The operations.  split holds the positions in the field where a piece   *)
(* of it ends; whole says that the room for all of the operation is        *)
(* checked before any of it is written.  A field wider than a word goes    *)
(* out as its low word and the rest (writeGroups128).                      *)
(***************************************************************************)
Op(field, split, aligned, bytes, whole) ==
  [field |-> field, split |-> split, aligned |-> aligned, bytes |-> bytes,
   whole |-> whole]

FieldOp(f) == Op(f, {WordBits, Len(f)} \cap 1..Len(f), FALSE, <<>>, TRUE)
AlignOp    == Op(<<>>, {}, TRUE, <<>>, TRUE)
BytesOp(r) == Op(<<>>, {}, TRUE, r, TRUE)
TextOp(t)  == Op(t.field, {Len(t.field)} \cap 1..Len(t.field), TRUE, t.run, TRUE)

(***************************************************************************)
(* int_relative: a flag per tier, one bit each, until the tier the         *)
(* difference is in; the payload of that tier, or the absolute value after *)
(* the flags of all the tiers.                                             *)
(***************************************************************************)
Tiers == 1..Len(RelWidths) + 1
Flags(tier) == IF tier <= Len(RelWidths)
                 THEN [i \in 1..tier |-> IF i = tier THEN 1 ELSE 0]
                 ELSE Zeros(Len(RelWidths))
PayloadBits(tier) == IF tier <= Len(RelWidths) THEN RelWidths[tier] ELSE AbsoluteBits

RelOp(tier, payload) ==
  LET code == Flags(tier) \o payload
  IN  Op(code, 1..Len(Flags(tier)) \cup ({Len(code)} \cap 1..Len(code)),
         FALSE, <<>>, FALSE)

CheckedOps == {FieldOp(f) : f \in Fields} \cup {AlignOp}
                \cup {BytesOp(r) : r \in Runs} \cup {TextOp(t) : t \in Texts}
RelOps == UNION {{RelOp(tier, p) : p \in Bits01(PayloadBits(tier))} : tier \in Tiers}

(***************************************************************************)
(* The encoding of an operation at a position, and the pieces of its byte  *)
(* run: the head bytes up to a word boundary, the whole words that are     *)
(* copied in a block, and the tail bytes.                                  *)
(***************************************************************************)
PadBits(op, pos) == IF op.aligned THEN AlignPad(pos + Len(op.field)) ELSE 0
Encoding(op, pos) == op.field \o Zeros(PadBits(op, pos)) \o op.bytes

RunStart(op, pos) == Len(op.field) + PadBits(op, pos)
RunBytes(op) == Len(op.bytes) \div ByteBits

\* Mutant of HeadBytes: counted from before the length and the align.
HeadBytesTooEarly(op, pos) ==
  LET room == (WordBytes - (Pending(pos) \div ByteBits)) % WordBytes
  IN  IF room <= RunBytes(op) THEN room ELSE RunBytes(op)

HeadBytes(op, pos) ==
  LET room == (WordBytes - (Pending(pos + RunStart(op, pos)) \div ByteBits)) % WordBytes
  IN  IF room <= RunBytes(op) THEN room ELSE RunBytes(op)
BlockWords(op, pos) == (RunBytes(op) - HeadBytes(op, pos)) \div WordBytes

BlockFrom(op, pos) == RunStart(op, pos) + HeadBytes(op, pos) * ByteBits
BlockTo(op, pos) == BlockFrom(op, pos) + BlockWords(op, pos) * WordBits

(***************************************************************************)
(* Where the pieces end.                                                   *)
(***************************************************************************)
Cuts(op, pos) ==
  op.split
    \cup ({RunStart(op, pos), BlockTo(op, pos)} \cap 1..Len(Encoding(op, pos)))
    \cup {RunStart(op, pos) + i * ByteBits : i \in 1..HeadBytes(op, pos)}
    \cup {BlockTo(op, pos) + i * ByteBits :
            i \in 1..(RunBytes(op) - HeadBytes(op, pos) - BlockWords(op, pos) * WordBytes)}

-----------------------------------------------------------------------------
Idle == [busy |-> FALSE, op |-> AlignOp, start |-> 0]
Running(op) == [busy |-> TRUE, op |-> op, start |-> bitsWritten]

At == bitsWritten - call.start
Encoded == Encoding(call.op, call.start)

(***************************************************************************)
(* The end of the next piece, and its value, masked to its width.          *)
(***************************************************************************)
NextCut(c) == /\ c \in Cuts(call.op, call.start)
              /\ c > At
              /\ \A d \in Cuts(call.op, call.start) : d > At => c <= d

\* Mutant of Value: not masked to the width of the piece.
ValueUnmasked(c) == WordAt(Encoded, At + 1)

Value(c) == LowBits(WordAt(Encoded, At + 1), c - At)

Room(bits) == bitsWritten + bits <= numBits

Init == /\ numBits \in {n * WordBits : n \in Buffers}
        /\ data = [a \in 0..numBits-1 |-> Old]
        /\ scratch = ZeroWord
        /\ bitsWritten = 0
        /\ call = Idle
        /\ last = "reset"

(***************************************************************************)
(* A call that passes its checks starts.  Every operation but int_relative *)
(* checks the room for the whole of it first.                              *)
(***************************************************************************)
Begin(op) == /\ ~call.busy
             /\ op.whole => Room(Len(Encoding(op, bitsWritten)))
             /\ call' = Running(op)
             /\ last' = "writing"
             /\ UNCHANGED <<data, scratch, numBits, bitsWritten>>

Overflow(op) == /\ ~call.busy
                /\ ~Room(Len(Encoding(op, bitsWritten)))
                /\ last' = "overflow"
                /\ UNCHANGED <<data, scratch, numBits, bitsWritten, call>>

(***************************************************************************)
(* A value outside its range or width, a bad declaration, text that is not *)
(* well formed: the argument checks of every operation come first.         *)
(***************************************************************************)
Misuse == /\ ~call.busy
          /\ last' = "misuse"
          /\ UNCHANGED <<data, scratch, numBits, bitsWritten, call>>

\* Mutants of tryWriteBits64: the room not checked; the scratch kept by a spill.
tryWriteBits64Anywhere(value, bits) ==
  LET sb == Pending(bitsWritten)
      filled == Or(scratch, Shl(value, sb))
      spill == sb + bits >= WordBits
  IN  /\ scratch' = IF spill THEN Shr(value, WordBits - sb) ELSE filled
      /\ data' = IF spill THEN StoreWord(data, WordBase(bitsWritten), filled) ELSE data
      /\ bitsWritten' = bitsWritten + bits

tryWriteBits64Keeping(value, bits) ==
  LET sb == Pending(bitsWritten)
      filled == Or(scratch, Shl(value, sb))
  IN  /\ Room(bits)
      /\ scratch' = filled
      /\ data' = IF sb + bits >= WordBits
                   THEN StoreWord(data, WordBase(bitsWritten), filled) ELSE data
      /\ bitsWritten' = bitsWritten + bits

(***************************************************************************)
(* tryWriteBits64(value, bits), which tryWriteBits repeats for 32 bits.    *)
(***************************************************************************)
tryWriteBits64(value, bits) ==
  LET sb == Pending(bitsWritten)
      filled == Or(scratch, Shl(value, sb))
      spill == sb + bits >= WordBits
  IN  /\ Room(bits)
      /\ scratch' = IF spill THEN Shr(value, WordBits - sb) ELSE filled
      /\ data' = IF spill THEN StoreWord(data, WordBase(bitsWritten), filled) ELSE data
      /\ bitsWritten' = bitsWritten + bits

IsBlock(c) == /\ c = BlockTo(call.op, call.start)
              /\ At = BlockFrom(call.op, call.start)

WritePiece == /\ call.busy
              /\ \E c \in Cuts(call.op, call.start) :
                   /\ NextCut(c)
                   /\ ~IsBlock(c)
                   /\ tryWriteBits64(Value(c), c - At)
              /\ UNCHANGED <<numBits, call, last>>

CopyBlock == /\ call.busy
             /\ \E c \in Cuts(call.op, call.start) :
                  /\ NextCut(c)
                  /\ IsBlock(c)
                  /\ data' = CopyBits(data, bitsWritten, SubSeq(Encoded, At + 1, c))
                  /\ bitsWritten' = bitsWritten + (c - At)
             /\ UNCHANGED <<scratch, numBits, call, last>>

(***************************************************************************)
(* writeBits panics where a piece of an int_relative does not fit.         *)
(***************************************************************************)
PieceOverflow == /\ call.busy
                 /\ ~call.op.whole
                 /\ \E c \in Cuts(call.op, call.start) : NextCut(c) /\ ~Room(c - At)
                 /\ call' = Idle
                 /\ last' = "overflow"
                 /\ UNCHANGED <<data, scratch, numBits, bitsWritten>>

Return == /\ call.busy
          /\ At = Len(Encoded)
          /\ call' = Idle
          /\ last' = "returned"
          /\ UNCHANGED <<data, scratch, numBits, bitsWritten>>

\* Mutant of Flush: a last word of one byte is taken for none.
FlushOffByOne == /\ ~call.busy
                 /\ data' = IF Pending(bitsWritten) > ByteBits
                              THEN StoreWord(data, WordBase(bitsWritten), scratch)
                              ELSE data
                 /\ last' = "flushed"
                 /\ UNCHANGED <<scratch, numBits, bitsWritten, call>>

Flush == /\ ~call.busy
         /\ data' = IF Pending(bitsWritten) # 0
                      THEN StoreWord(data, WordBase(bitsWritten), scratch)
                      ELSE data
         /\ last' = "flushed"
         /\ UNCHANGED <<scratch, numBits, bitsWritten, call>>

\* Mutants of Reset: a buffer of any number of bytes; the scratch not cleared.
ResetAnySize(words) == /\ ~call.busy
                       /\ numBits' = words * WordBits + ByteBits
                       /\ data' = [a \in 0..numBits'-1 |-> Old]
                       /\ scratch' = ZeroWord
                       /\ bitsWritten' = 0
                       /\ last' = "reset"
                       /\ UNCHANGED call

ResetKeepingScratch(words) == /\ ~call.busy
                              /\ numBits' = words * WordBits
                              /\ data' = [a \in 0..numBits'-1 |-> Old]
                              /\ bitsWritten' = 0
                              /\ last' = "reset"
                              /\ UNCHANGED <<scratch, call>>

Reset(words) == /\ ~call.busy
                /\ numBits' = words * WordBits
                /\ data' = [a \in 0..numBits'-1 |-> Old]
                /\ scratch' = ZeroWord
                /\ bitsWritten' = 0
                /\ last' = "reset"
                /\ UNCHANGED call

Next == \/ \E op \in CheckedOps \cup RelOps : Begin(op)
        \/ \E op \in CheckedOps : Overflow(op)
        \/ Misuse
        \/ WritePiece
        \/ CopyBlock
        \/ PieceOverflow
        \/ Return
        \/ Flush
        \/ \E words \in Buffers : Reset(words)

Spec == Init /\ [][Next]_vars

-----------------------------------------------------------------------------
(***************************************************************************)
(* The bits written so far: those in whole words are in the buffer, the    *)
(* rest in the scratch.                                                    *)
(***************************************************************************)
BitAt(p) == IF p < WordBase(bitsWritten) THEN data[p]
                                         ELSE scratch[p - WordBase(bitsWritten)]

BytesProcessed == (bitsWritten + ByteBits - 1) \div ByteBits
Data == [i \in 1..BytesProcessed * ByteBits |-> data[i-1]]

(***************************************************************************)
(* The values of the variables of WireSpec.                                *)
(***************************************************************************)
Committed == IF call.busy THEN call.start ELSE bitsWritten
Wire == [i \in 1..Committed |-> BitAt(i-1)]
Packet == IF last = "flushed" THEN Data ELSE <<>>

(***************************************************************************)
(* The type of every variable of the stream.                               *)
(***************************************************************************)
TypeOK == /\ numBits \in {n * WordBits : n \in Buffers}
          /\ data \in [0..numBits-1 -> Bit \cup {Old}]
          /\ scratch \in Word
          /\ bitsWritten \in 0..numBits
          /\ call \in [busy : BOOLEAN, op : CheckedOps \cup RelOps, start : 0..bitsWritten]
          /\ last \in {"reset", "writing", "returned", "overflow", "misuse", "flushed"}

(***************************************************************************)
(* The scratch holds the pending bits and zeros above them: it is only     *)
(* ever or'ed into, so a bit left there by an earlier spill would come out *)
(* in a later value (the comment of WriteStream.scratch).                  *)
(***************************************************************************)
ScratchClean == \A i \in 0..WordBits-1 : i >= Pending(bitsWritten) => scratch[i] = 0

(***************************************************************************)
(* "Bytes past the end of the written data are only ever written as zeros" *)
(* (bitpacker.go), though every store is of a whole word and the buffer    *)
(* may be a used one.                                                      *)
(***************************************************************************)
PastEndZero == \A p \in bitsWritten..numBits-1 : data[p] \in {0, Old}

(***************************************************************************)
(* When a block copy is next, the position is a word boundary and the      *)
(* scratch is empty (writeBytesStream): nothing pending is passed over.    *)
(***************************************************************************)
BlockCopyAligned ==
  call.busy /\ At = BlockFrom(call.op, call.start) /\ BlockWords(call.op, call.start) > 0
    => Pending(bitsWritten) = 0 /\ scratch = ZeroWord

(***************************************************************************)
(* The word a spill or a flush stores is inside the buffer, and an align   *)
(* always finds its room: both because a buffer is whole words.            *)
(***************************************************************************)
PendingWordFits ==
  /\ Pending(bitsWritten) # 0 => WordBase(bitsWritten) + WordBits <= numBits
  /\ RoundUp(bitsWritten) <= numBits

(***************************************************************************)
(* A running call has written the part of its encoding up to the position, *)
(* and has stopped between two pieces; if its room was checked, the rest   *)
(* fits.                                                                   *)
(***************************************************************************)
CallSoFar ==
  /\ call.busy <=> last = "writing"
  /\ ~call.busy => call = Idle
  /\ call.busy =>
       /\ At \in Cuts(call.op, call.start) \cup {0}
       /\ call.op.whole => call.start + Len(Encoded) <= numBits
       /\ \A i \in 1..At : BitAt(call.start + i - 1) = Encoded[i]

(***************************************************************************)
(* After a flush the bytes Data returns are the bits written and zeros up  *)
(* to the byte; nothing the buffer held before is among them.              *)
(***************************************************************************)
FlushedBytes ==
  last = "flushed" =>
    \A p \in 0..RoundUp(bitsWritten)-1 :
      data[p] = IF p < bitsWritten THEN BitAt(p) ELSE 0

(***************************************************************************)
(* The inductive invariant: with the whole words of the buffer written.    *)
(***************************************************************************)
WordsWritten == \A p \in 0..WordBase(bitsWritten)-1 : data[p] \in Bit

IInv == /\ TypeOK
        /\ ScratchClean
        /\ PastEndZero
        /\ WordsWritten
        /\ CallSoFar
        /\ FlushedBytes

Abs == INSTANCE WireSpec
         WITH Checked   <- CheckedOps,
              Unchecked <- RelOps,
              capacity  <- numBits,
              wire      <- Wire,
              packet    <- Packet

(***************************************************************************)
(* The stream implements WireSpec: whatever the widths, spills, block      *)
(* copies and panics so far, what has been written is the encodings of the *)
(* calls that returned, one after the other, and Data returns them after a *)
(* Flush.                                                                  *)
(***************************************************************************)
ImplementsWire == Abs!Spec

(***************************************************************************)
(* "An operation that does not fit the room left ... panics at the call,   *)
(* before any bit of the operation is written" (WriteStream): a caller     *)
(* that recovers finds the stream as it was before the call.  The code of  *)
(* int_relative does not keep this: it checks the room for each of its     *)
(* flags as it comes to it.                                                *)
(***************************************************************************)
PanicsBeforeWriting == [][last' = "overflow" => Committed' = Committed]_vars
=============================================================================

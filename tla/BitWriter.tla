----------------------------- MODULE BitWriter -----------------------------
(***************************************************************************)
(* The bit writer of bitpacker.go: the pending bits are in the scratch, it *)
(* counts them in scratchBits and the words stored so far in wordIndex,    *)
(* next to the position bitsWritten.  WriteBits and WriteAlign are one     *)
(* step each; WriteBytes is a step per byte of its head and tail and one   *)
(* for the words it copies.                                                *)
(*                                                                         *)
(* "FlushBits ends the write": the callers modelled write nothing more     *)
(* until the next Reset, though they may flush again.                      *)
(***************************************************************************)
EXTENDS Bits

CONSTANTS Buffers,   \* the sizes, in words, of the buffers given to Reset
          Fields,    \* the values given to WriteBits, as their low bits
          Runs,      \* the byte runs given to WriteBytes, bit by bit
          MaxBits,   \* the widest field WriteBits takes: 32 in the code
          Old        \* what a buffer holds where nothing was written yet

ASSUME WriterBuffersAssumption == Buffers \subseteq Nat
ASSUME WriterWidthAssumption == MaxBits \in ByteBits..WordBits
ASSUME WriterFieldsAssumption ==
  \A f \in Fields : f \in Seq(Bit) /\ Len(f) \in 1..MaxBits
ASSUME WriterRunsAssumption ==
  \A r \in Runs : r \in Seq(Bit) /\ Len(r) % ByteBits = 0
ASSUME WriterOldAssumption == Old \notin Bit

VARIABLES data,         \* the buffer, bit by bit
          scratch,      \* the pending word
          numBits,      \* the bits of the buffer
          bitsWritten,  \* the position
          wordIndex,    \* the words stored
          scratchBits,  \* the bits pending in the scratch
          run, start,   \* the argument of WriteBytes, and where it began
          last          \* what the writer is doing, or how the last call ended

counters == <<bitsWritten, wordIndex, scratchBits>>
vars == <<data, scratch, numBits, counters, run, start, last>>

-----------------------------------------------------------------------------
(***************************************************************************)
(* The operations, as WireSpec has them.                                   *)
(***************************************************************************)
BitsOp(f)  == [field |-> f, aligned |-> FALSE, bytes |-> <<>>]
AlignOp    == [field |-> <<>>, aligned |-> TRUE, bytes |-> <<>>]
BytesOp(r) == [field |-> <<>>, aligned |-> TRUE, bytes |-> r]
Operations == {BitsOp(f) : f \in Fields} \cup {AlignOp} \cup {BytesOp(r) : r \in Runs}

Aligned == bitsWritten % ByteBits = 0
Room(bits) == bitsWritten + bits <= numBits

(***************************************************************************)
(* The parts of the run: head bytes up to a word boundary, words, tail.    *)
(***************************************************************************)
RunBytes == Len(run) \div ByteBits

\* Mutant of HeadBytes: the bytes before the position, not those after it.
HeadBytesBehind == LET room == (start % WordBits) \div ByteBits
                   IN  IF room <= RunBytes THEN room ELSE RunBytes

HeadBytes == LET room == (WordBytes - ((start % WordBits) \div ByteBits)) % WordBytes
             IN  IF room <= RunBytes THEN room ELSE RunBytes
NumWords == (RunBytes - HeadBytes) \div WordBytes
Done == (bitsWritten - start) \div ByteBits

Init == /\ numBits \in {n * WordBits : n \in Buffers}
        /\ data = [a \in 0..numBits-1 |-> Old]
        /\ scratch = ZeroWord
        /\ bitsWritten = 0 /\ wordIndex = 0 /\ scratchBits = 0
        /\ run = <<>> /\ start = 0
        /\ last = "reset"

\* Mutant of writeBits: the scratch is kept by a spill.
writeBitsKeeping(value, bits) ==
  LET filled == Or(scratch, Shl(value, scratchBits))
      spill == scratchBits + bits >= WordBits
  IN  /\ scratch' = filled
      /\ data' = IF spill THEN StoreWord(data, wordIndex * WordBits, filled) ELSE data
      /\ wordIndex' = IF spill THEN wordIndex + 1 ELSE wordIndex
      /\ scratchBits' = IF spill THEN scratchBits + bits - WordBits
                                 ELSE scratchBits + bits
      /\ bitsWritten' = bitsWritten + bits

(***************************************************************************)
(* writeBits(value, bits), the unchecked path: value is already masked.    *)
(***************************************************************************)
writeBits(value, bits) ==
  LET filled == Or(scratch, Shl(value, scratchBits))
      spill == scratchBits + bits >= WordBits
  IN  /\ scratch' = IF spill THEN Shr(value, WordBits - scratchBits) ELSE filled
      /\ data' = IF spill THEN StoreWord(data, wordIndex * WordBits, filled) ELSE data
      /\ wordIndex' = IF spill THEN wordIndex + 1 ELSE wordIndex
      /\ scratchBits' = IF spill THEN scratchBits + bits - WordBits
                                 ELSE scratchBits + bits
      /\ bitsWritten' = bitsWritten + bits

MayWrite == last \notin {"writing", "flushed"}

\* Mutant of WriteBits: the room not checked.
WriteBitsAnywhere(f) == /\ MayWrite
                        /\ writeBits(WordAt(f, 1), Len(f))
                        /\ last' = "returned"
                        /\ UNCHANGED <<numBits, run, start>>

WriteBits(f) == /\ MayWrite
                /\ Room(Len(f))
                /\ writeBits(WordAt(f, 1), Len(f))
                /\ last' = "returned"
                /\ UNCHANGED <<numBits, run, start>>

(***************************************************************************)
(* WriteAlign writes its zeros with WriteBits, and nothing when aligned.   *)
(***************************************************************************)
WriteAlign == /\ MayWrite
              /\ \/ /\ Aligned
                    /\ UNCHANGED <<data, scratch, counters>>
                 \/ /\ ~Aligned
                    /\ Room(ByteBits - (bitsWritten % ByteBits))
                    /\ writeBits(ZeroWord, ByteBits - (bitsWritten % ByteBits))
              /\ last' = "returned"
              /\ UNCHANGED <<numBits, run, start>>

(***************************************************************************)
(* The panics, before anything is written: no room, or a width, a value or *)
(* a position that the operation does not take.                            *)
(***************************************************************************)
Panic(outcome) == /\ MayWrite
                  /\ last' = outcome
                  /\ UNCHANGED <<data, scratch, numBits, counters, run, start>>

WriteBitsOverflow(f) == ~Room(Len(f)) /\ Panic("overflow")
WriteBytesOverflow(r) == Aligned /\ ~Room(Len(r)) /\ Panic("overflow")
Misuse == Panic("misuse")

(***************************************************************************)
(* WriteBytes, past its checks: a byte of the head or the tail, the words  *)
(* in between, and the return.                                             *)
(***************************************************************************)
WriteBytes(r) == /\ MayWrite
                 /\ Aligned
                 /\ Room(Len(r))
                 /\ run' = r /\ start' = bitsWritten
                 /\ last' = "writing"
                 /\ UNCHANGED <<data, scratch, numBits, counters>>

WriteByte == /\ last = "writing"
             /\ Done < RunBytes
             /\ Done < HeadBytes \/ Done >= HeadBytes + NumWords * WordBytes
             /\ writeBits(LowBits(WordAt(run, Done * ByteBits + 1), ByteBits), ByteBits)
             /\ UNCHANGED <<numBits, run, start, last>>

\* Mutant of CopyWords: the words copied are not counted.
CopyWordsUncounted ==
  /\ last = "writing"
  /\ Done = HeadBytes
  /\ NumWords > 0
  /\ data' = CopyBits(data, wordIndex * WordBits,
                      SubSeq(run, Done * ByteBits + 1, Done * ByteBits + NumWords * WordBits))
  /\ bitsWritten' = bitsWritten + NumWords * WordBits
  /\ UNCHANGED <<wordIndex, scratch, numBits, scratchBits, run, start, last>>

CopyWords ==
  /\ last = "writing"
  /\ Done = HeadBytes
  /\ NumWords > 0
  /\ data' = CopyBits(data, wordIndex * WordBits,
                      SubSeq(run, Done * ByteBits + 1, Done * ByteBits + NumWords * WordBits))
  /\ bitsWritten' = bitsWritten + NumWords * WordBits
  /\ wordIndex' = wordIndex + NumWords
  /\ UNCHANGED <<scratch, numBits, scratchBits, run, start, last>>

Return == /\ last = "writing"
          /\ Done = RunBytes
          /\ last' = "returned"
          /\ run' = <<>> /\ start' = 0
          /\ UNCHANGED <<data, scratch, numBits, counters>>

\* Mutant of FlushBits: a last word of one byte is taken for none.
FlushBitsOffByOne == /\ last # "writing"
                     /\ IF scratchBits > ByteBits
                          THEN /\ data' = StoreWord(data, wordIndex * WordBits, scratch)
                               /\ scratch' = ZeroWord
                               /\ scratchBits' = 0
                               /\ wordIndex' = wordIndex + 1
                          ELSE UNCHANGED <<data, scratch, scratchBits, wordIndex>>
                     /\ last' = "flushed"
                     /\ UNCHANGED <<numBits, bitsWritten, run, start>>

FlushBits == /\ last # "writing"
             /\ IF scratchBits # 0
                  THEN /\ data' = StoreWord(data, wordIndex * WordBits, scratch)
                       /\ scratch' = ZeroWord
                       /\ scratchBits' = 0
                       /\ wordIndex' = wordIndex + 1
                  ELSE UNCHANGED <<data, scratch, scratchBits, wordIndex>>
             /\ last' = "flushed"
             /\ UNCHANGED <<numBits, bitsWritten, run, start>>

Reset(words) == /\ last # "writing"
                /\ numBits' = words * WordBits
                /\ data' = [a \in 0..numBits'-1 |-> Old]
                /\ scratch' = ZeroWord
                /\ bitsWritten' = 0 /\ wordIndex' = 0 /\ scratchBits' = 0
                /\ last' = "reset"
                /\ UNCHANGED <<run, start>>

Next == \/ \E f \in Fields : WriteBits(f) \/ WriteBitsOverflow(f)
        \/ WriteAlign
        \/ \E r \in Runs : WriteBytes(r) \/ WriteBytesOverflow(r)
        \/ Misuse
        \/ WriteByte
        \/ CopyWords
        \/ Return
        \/ FlushBits
        \/ \E words \in Buffers : Reset(words)

Spec == Init /\ [][Next]_vars

-----------------------------------------------------------------------------
(***************************************************************************)
(* The bits written: in the words stored, and then in the scratch.         *)
(***************************************************************************)
BitAt(p) == IF p < wordIndex * WordBits THEN data[p]
                                        ELSE scratch[p - wordIndex * WordBits]

BytesWritten == (bitsWritten + ByteBits - 1) \div ByteBits
Data == [i \in 1..BytesWritten * ByteBits |-> data[i-1]]

Committed == IF last = "writing" THEN start ELSE bitsWritten
Wire == [i \in 1..Committed |-> BitAt(i-1)]
Packet == IF last = "flushed" THEN Data ELSE <<>>

(***************************************************************************)
(* The type of every variable of the writer.                               *)
(***************************************************************************)
TypeOK == /\ numBits \in {n * WordBits : n \in Buffers}
          /\ data \in [0..numBits-1 -> Bit \cup {Old}]
          /\ scratch \in Word
          /\ bitsWritten \in 0..numBits
          /\ wordIndex \in 0..numBits
          /\ scratchBits \in 0..WordBits-1
          /\ run \in Runs \cup {<<>>} /\ start \in 0..bitsWritten
          /\ last \in {"reset", "writing", "returned", "overflow", "misuse", "flushed"}

(***************************************************************************)
(* The three counters agree until a flush ends the write, and the scratch  *)
(* holds nothing above the bits it counts: a WriteBits after WriteBytes    *)
(* goes where the copied words ended.                                      *)
(***************************************************************************)
CountersAgree ==
  /\ IF last = "flushed"
       THEN wordIndex * WordBits \in bitsWritten..bitsWritten + WordBits - 1
       ELSE wordIndex * WordBits + scratchBits = bitsWritten
  /\ \A i \in scratchBits..WordBits-1 : scratch[i] = 0

(***************************************************************************)
(* "The head bytes flushed the scratch exactly at the qword boundary, so   *)
(* the scratch is zero here and the aligned middle is a straight copy."    *)
(***************************************************************************)
CopyStartsClean ==
  last = "writing" /\ Done = HeadBytes /\ NumWords > 0
    => scratchBits = 0 /\ scratch = ZeroWord /\ bitsWritten = wordIndex * WordBits

(***************************************************************************)
(* "Bytes past the end of the written data are only ever written as zeros" *)
(* also by the flush, which stores a whole word.                           *)
(***************************************************************************)
PastEndZero == \A p \in bitsWritten..numBits-1 : data[p] \in {0, Old}

(***************************************************************************)
(* While WriteBytes runs, it is at a byte of its run, either in or at the  *)
(* end of the head or past the words, and the bytes done are written from  *)
(* where it began.  At any other time there is no run.                     *)
(***************************************************************************)
RunSoFar ==
  IF last = "writing"
    THEN /\ run \in Runs
         /\ start % ByteBits = 0
         /\ start + Len(run) <= numBits
         /\ Done <= RunBytes /\ bitsWritten = start + Done * ByteBits
         /\ Done <= HeadBytes \/ Done >= HeadBytes + NumWords * WordBytes
         /\ \A i \in 1..Done * ByteBits : BitAt(start + i - 1) = run[i]
    ELSE run = <<>> /\ start = 0

(***************************************************************************)
(* The inductive invariant: with every word stored, the flushed one among  *)
(* them, holding nothing but bits, and the flush leaving nothing pending.  *)
(***************************************************************************)
WordsStored == \A p \in 0..wordIndex * WordBits - 1 : data[p] \in Bit

IInv == /\ TypeOK
        /\ CountersAgree
        /\ PastEndZero
        /\ WordsStored
        /\ RunSoFar
        /\ last = "flushed" => scratchBits = 0

Abs == INSTANCE WireSpec
         WITH Checked   <- Operations,
              Unchecked <- {},
              capacity  <- numBits,
              wire      <- Wire,
              packet    <- Packet

(***************************************************************************)
(* The writer implements WireSpec, as WriteStream does: the two produce    *)
(* the same bits for the same calls, though one keeps counters and the     *)
(* other recomputes them from its position.                                *)
(***************************************************************************)
ImplementsWire == Abs!Spec
=============================================================================

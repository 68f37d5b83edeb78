----------------------------- MODULE WireSpec -----------------------------
(***************************************************************************)
(* What a writer of bits promises its caller, with no word, no scratch and *)
(* no memory: the wire is the concatenation of what the completed calls    *)
(* encoded, a call that does not fit leaves it alone, and the packet a     *)
(* flush hands over is the wire padded with zeros to a whole byte.         *)
(* BitWriter and WriteStream are both shown to implement it, which is what *)
(* write_stream.go means by "the bit stream produced is bit-for-bit        *)
(* identical to BitWriter's".                                              *)
(*                                                                         *)
(* An operation is a field of bits and, when it is aligned, zeros up to a  *)
(* byte boundary and then a run of whole bytes: a number is a field and    *)
(* not aligned, an align has neither field nor bytes, a byte array has no  *)
(* field, and a string has its length as the field.                        *)
(***************************************************************************)
EXTENDS Bits

CONSTANTS Buffers,     \* the sizes, in words, of the buffers a writer is given
          Checked,     \* the operations that check their room as a whole
          Unchecked    \* those that check it piece by piece

VARIABLES capacity,    \* the bits the current buffer holds
          wire,        \* the bits written since the last Reset
          last,        \* what the writer is doing, or how the last call ended
          packet       \* what Data returns between a flush and the next call

abstractVars == <<capacity, wire, last, packet>>

NoPacket == <<>>
Capacities == {n * WordBits : n \in Buffers}

PadBits(op, pos) == IF op.aligned THEN AlignPad(pos + Len(op.field)) ELSE 0
Encoding(op, pos) == op.field \o Zeros(PadBits(op, pos)) \o op.bytes

Fits(op) == Len(wire) + Len(Encoding(op, Len(wire))) <= capacity

Init == /\ capacity \in Capacities
        /\ wire = <<>>
        /\ last = "reset"
        /\ packet = NoPacket

(***************************************************************************)
(* A call starts, if it takes more than one step, and ends by returning    *)
(* with its encoding on the wire.                                          *)
(***************************************************************************)
Start == /\ last # "writing"
         /\ last' = "writing"
         /\ packet' = NoPacket
         /\ UNCHANGED <<capacity, wire>>

Accept(op) == /\ last' = "returned"
              /\ Fits(op)
              /\ wire' = wire \o Encoding(op, Len(wire))
              /\ packet' = NoPacket
              /\ UNCHANGED capacity

(***************************************************************************)
(* The call panics before it writes: for want of room, or for arguments    *)
(* the operation does not take.                                            *)
(***************************************************************************)
Overflow(op) == /\ last # "writing"
                /\ last' = "overflow"
                /\ ~Fits(op)
                /\ packet' = NoPacket
                /\ UNCHANGED <<capacity, wire>>

Misuse == /\ last # "writing"
          /\ last' = "misuse"
          /\ packet' = NoPacket
          /\ UNCHANGED <<capacity, wire>>

(***************************************************************************)
(* The call panics part way: only an operation that checks piece by piece, *)
(* and only if the whole of it does not fit.  Some of its field stays.     *)
(***************************************************************************)
PartialOverflow(op) == /\ last = "writing"
                       /\ last' = "overflow"
                       /\ ~Fits(op)
                       /\ \E n \in 0..Len(op.field) - 1 :
                            /\ Len(wire) + n <= capacity
                            /\ wire' = wire \o SubSeq(op.field, 1, n)
                       /\ UNCHANGED <<capacity, packet>>

Flush == /\ last # "writing"
         /\ last' = "flushed"
         /\ packet' = wire \o Zeros(AlignPad(Len(wire)))
         /\ UNCHANGED <<capacity, wire>>

Reset == /\ last # "writing"
         /\ capacity' \in Capacities
         /\ wire' = <<>>
         /\ last' = "reset"
         /\ packet' = NoPacket

Next == \/ Start
        \/ \E op \in Checked \cup Unchecked : Accept(op)
        \/ \E op \in Checked : Overflow(op)
        \/ Misuse
        \/ \E op \in Unchecked : PartialOverflow(op)
        \/ Flush
        \/ Reset

Spec == Init /\ [][Next]_abstractVars
=============================================================================

---------------------------- MODULE ReaderSpec ----------------------------
(***************************************************************************)
(* What a reader of bits promises: a read returns the next bits of the     *)
(* packet and nothing else, whatever lies in memory behind the packet and  *)
(* whatever the reader was used for before; a read past the end returns    *)
(* nothing and does not move.                                              *)
(***************************************************************************)
EXTENDS Bits

CONSTANTS Packets,  \* the packets a reader is given
          Widths,   \* the widths of the fields that are read
          Counts    \* the lengths of the byte runs that are read

VARIABLES packet,   \* the bits of the packet
          position, \* the bits read
          result,   \* the bits the last call returned
          last      \* how the last call ended

abstractVars == <<packet, position, result, last>>

Upcoming(n) == SubSeq(packet, position + 1, position + n)
Fits(n) == position + n <= Len(packet)
Extended(s) == s \o Zeros(WordBits - Len(s))

Init == /\ packet \in Packets
        /\ position = 0
        /\ result = <<>>
        /\ last = "reset"

Read(n) == /\ Fits(n)
           /\ result' = Extended(Upcoming(n))
           /\ position' = position + n
           /\ last' = "read"
           /\ UNCHANGED packet

ReadRun(n) == /\ position % ByteBits = 0
              /\ Fits(n * ByteBits)
              /\ result' = Upcoming(n * ByteBits)
              /\ position' = position + n * ByteBits
              /\ last' = "read"
              /\ UNCHANGED packet

Refuse(n) == /\ ~Fits(n)
             /\ result' = <<>>
             /\ last' = "overflow"
             /\ UNCHANGED <<packet, position>>

Misuse == /\ result' = <<>>
          /\ last' = "misuse"
          /\ UNCHANGED <<packet, position>>

(***************************************************************************)
(* An align always fits, and is refused if it does not skip zeros.         *)
(***************************************************************************)
Align == LET skipped == Upcoming(AlignPad(position))
         IN  /\ position' = RoundUp(position)
             /\ result' = <<>>
             /\ last' = IF skipped = Zeros(Len(skipped)) THEN "read" ELSE "refused"
             /\ UNCHANGED packet

Reset == /\ packet' \in Packets
         /\ position' = 0
         /\ result' = <<>>
         /\ last' = "reset"

Next == \/ \E n \in Widths : Read(n) \/ Refuse(n)
        \/ \E n \in Counts : ReadRun(n) \/ Refuse(n * ByteBits)
        \/ Align
        \/ Misuse
        \/ Reset

Spec == Init /\ [][Next]_abstractVars
=============================================================================

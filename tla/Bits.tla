------------------------------- MODULE Bits -------------------------------
(***************************************************************************)
(* The geometry of a bit stream and the word operations its code is        *)
(* written in.  The code has bytes of 8 bits and qwords of 8 bytes, so its *)
(* words are 64 bits wide; both numbers are parameters here, and every     *)
(* 64, 63, 8 and 7 of the source is an expression in them.                 *)
(*                                                                         *)
(* A word is a function from bit numbers (0 is the least significant) to   *)
(* bits.  Memory is addressed by the bit: little endian words and bytes    *)
(* filled from the low end make bit j of byte i the bit at address         *)
(* ByteBits*i + j, and a word stored at byte k the bits from ByteBits*k.   *)
(***************************************************************************)
EXTENDS Integers, Sequences

CONSTANTS ByteBits,    \* bits in a byte: 8 in the code
          WordBytes    \* bytes in a word: 8 in the code

ASSUME GeometryAssumption == /\ ByteBits \in Nat \ {0}
                             /\ WordBytes \in Nat \ {0}

WordBits == WordBytes * ByteBits

Bit == {0, 1}
Word == [0..WordBits-1 -> Bit]
ZeroWord == [i \in 0..WordBits-1 |-> 0]

(***************************************************************************)
(* |, <<, >> and the mask of the low n bits, on a word.                    *)
(***************************************************************************)
Or(u, v) == [i \in 0..WordBits-1 |-> IF u[i] = 1 \/ v[i] = 1 THEN 1 ELSE 0]
Shl(u, n) == [i \in 0..WordBits-1 |-> IF i >= n THEN u[i-n] ELSE 0]
Shr(u, n) == [i \in 0..WordBits-1 |-> IF i + n < WordBits THEN u[i+n] ELSE 0]
LowBits(u, n) == [i \in 0..WordBits-1 |-> IF i < n THEN u[i] ELSE 0]

(***************************************************************************)
(* The word whose low bits are the elements of s from its position k on.   *)
(***************************************************************************)
WordAt(s, k) == [i \in 0..WordBits-1 |-> IF k + i <= Len(s) THEN s[k+i] ELSE 0]

(***************************************************************************)
(* Position arithmetic: the number of bits pending in the current word at  *)
(* bit position pos, the address that word is stored at, the bits an align *)
(* skips there, and pos rounded up to a whole byte.                        *)
(***************************************************************************)
Pending(pos) == pos % WordBits
WordBase(pos) == pos - (pos % WordBits)
AlignPad(pos) == (ByteBits - (pos % ByteBits)) % ByteBits
RoundUp(pos) == pos + AlignPad(pos)

(***************************************************************************)
(* A store of one word, and a copy of the bits s, to the memory mem.       *)
(***************************************************************************)
StoreWord(mem, addr, word) ==
  [a \in DOMAIN mem |-> IF a \in addr..addr+WordBits-1 THEN word[a-addr] ELSE mem[a]]

CopyBits(mem, addr, s) ==
  [a \in DOMAIN mem |-> IF a \in addr..addr+Len(s)-1 THEN s[a-addr+1] ELSE mem[a]]

Zeros(n) == [i \in 1..n |-> 0]

=============================================================================

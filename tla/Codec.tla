------------------------------- MODULE Codec -------------------------------
(***************************************************************************)
(* The encodings of numbers: fields of as many bits as a range needs, low  *)
(* bit first.                                                              *)
(***************************************************************************)
EXTENDS Bits

(***************************************************************************)
(* BitsRequired of a range, by its span max - min: bits.Len of it.         *)
(***************************************************************************)
BitsRequired(span) ==
  IF span = 0 THEN 0 ELSE CHOOSE n \in 1..span : 2^(n-1) <= span /\ span < 2^n

ToBits(v, n) == [i \in 1..n |-> (v \div 2^(i-1)) % 2]

FromBits(s) ==
  LET value[i \in 0..Len(s)] == IF i = 0 THEN 0 ELSE value[i-1] + s[i] * 2^(i-1)
  IN  value[Len(s)]
=============================================================================

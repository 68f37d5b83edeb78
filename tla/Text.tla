------------------------------- MODULE Text -------------------------------
(***************************************************************************)
(* Text by its bytes: a byte starts a character and says how many          *)
(* continuation bytes it takes, or is such a byte; zero is NUL.  This is   *)
(* all that the code asks of UTF-8, besides leaving its form to unicode/   *)
(* utf8.                                                                   *)
(***************************************************************************)
EXTENDS Naturals, Sequences

CONSTANTS Follow,      \* of a byte that starts a character, how many follow it
          Continuation \* the bytes that follow

ASSUME TextAssumption == /\ Follow \in [DOMAIN Follow -> Nat] /\ DOMAIN Follow \subseteq Nat
                         /\ 0 \in DOMAIN Follow /\ Follow[0] = 0
                         /\ Continuation \subseteq Nat \ DOMAIN Follow

NUL == 0
HasNul(text) == \E i \in DOMAIN text : text[i] = NUL

WellFormed(text) ==
  LET Starts == {i \in DOMAIN text : text[i] \in DOMAIN Follow}
  IN  /\ \A i \in DOMAIN text \ Starts : text[i] \in Continuation
      /\ \A i \in Starts : i + Follow[text[i]] <= Len(text)
      /\ \A i \in DOMAIN text :
           i \notin Starts <=> \E j \in Starts : j < i /\ i <= j + Follow[text[j]]

\* Mutant of CopyString: it looks at the last byte kept, not at the first one left out.
CopyStringLastKept(source, destSize) ==
  LET nuls   == {i \in DOMAIN source : source[i] = NUL}
      length == IF nuls = {} THEN Len(source) ELSE (CHOOSE i \in nuls : \A j \in nuls : i <= j) - 1
      kept   == {n \in 0..destSize-1 : n = 0 \/ source[n] \notin Continuation}
  IN  IF length <= destSize - 1 THEN SubSeq(source, 1, length)
      ELSE SubSeq(source, 1, CHOOSE n \in kept : \A m \in kept : m <= n)

(***************************************************************************)
(* The bytes before the first NUL, or as many as the destination holds     *)
(* less those at the end of a character the first byte left out continues. *)
(***************************************************************************)
CopyString(source, destSize) ==
  LET nuls   == {i \in DOMAIN source : source[i] = NUL}
      length == IF nuls = {} THEN Len(source) ELSE (CHOOSE i \in nuls : \A j \in nuls : i <= j) - 1
      kept   == {n \in 0..destSize-1 : n = 0 \/ source[n+1] \notin Continuation}
  IN  IF length <= destSize - 1 THEN SubSeq(source, 1, length)
      ELSE SubSeq(source, 1, CHOOSE n \in kept : \A m \in kept : m <= n)
=============================================================================

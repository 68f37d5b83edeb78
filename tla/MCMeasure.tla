----------------------------- MODULE MCMeasure -----------------------------
(***************************************************************************)
(* Measuring with bytes of four bits: the arguments of every operation on  *)
(* both sides of each of its checks.                                       *)
(***************************************************************************)
EXTENDS Measure

MCBuckets == <<[min |-> 2, max |-> 4], [min |-> 5, max |-> 8]>>
MCFields == {[value |-> v, bits |-> n] : v \in {0, 1, 8}, n \in {0, 1, 3, 4, 5}}
MCRanges == {[value |-> v, min |-> a, max |-> b] : v \in {-1, 0, 3}, a \in {-1, 0}, b \in {-1, 0, 2, 3}}
MCTexts == {[length |-> n, form |-> f] : n \in {0, 1, 3}, f \in {"well", "nul", "ill"}}
MCRelatives == {[previous |-> p, current |-> c] :
                  p \in {-1, 0, 3}, c \in {0, 1, 3, 4, 5, 8, 9, 12}}
=============================================================================

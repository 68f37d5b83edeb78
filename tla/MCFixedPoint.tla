--------------------------- MODULE MCFixedPoint ---------------------------
(***************************************************************************)
(* Lanes of three bits: all bounds in one lane, and in two those around    *)
(* the ends of the type, of a lane, and zero; all formats around the width *)
(* of a lane and of two.                                                   *)
(***************************************************************************)
EXTENDS FixedPoint

MCBounds == {-32, -31, -9, -4, -1, 0, 3, 7, 8, 31}
MCIntegerBits == 0..7
MCFractionBits == -1..6
=============================================================================

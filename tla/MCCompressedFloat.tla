------------------------- MODULE MCCompressedFloat -------------------------
(***************************************************************************)
(* Floats of three significant bits and integers of five, so that half of  *)
(* the step counts are no floats; 1.0 is 2^8 of                            *)
(* the smallest subnormal and 128.0 infinite.                              *)
(***************************************************************************)
EXTENDS CompressedFloat

MCBounds == {NaN, Infinity, -Infinity, 7 * 2^12, -7 * 2^12, -5 * 2^8, -10, -1, 0, 7, 2^8, 5 * 2^9}
MCResolutions == {NaN, Infinity, 0, -1, 1, 20, 80, 3 * 2^6, 2^8, 7 * 2^7}
MCDeltas == {NaN, Infinity, 0, -1, 1, 14, 3 * 2^7, 5 * 2^11, 7 * 2^12}
MCValues == {x \in Floats : x % 2^9 = 0 \/ x \in {1, -1, 14, 5 * 2^6, 160, 7 * 2^5}}
=============================================================================

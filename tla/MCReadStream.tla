--------------------------- MODULE MCReadStream ---------------------------
(***************************************************************************)
(* ReadStream on every packet of up to five bytes of two bits.             *)
(***************************************************************************)
EXTENDS ReadStream, TLC

MCPackets == UNION {[1..n * ByteBits -> Bit] : n \in 0..5}
MCLater == {<<>>, <<1, 0, 0, 0>>}

(***************************************************************************)
(* A bucket with an offset no range has, in 2..4; values up to 8 in four   *)
(* bits; floats that are not finite when their exponent is all ones; the   *)
(* bytes NUL, a letter, one that starts a character of two and one that    *)
(* follows it.                                                             *)
(***************************************************************************)
MCBuckets == <<[min |-> 2, max |-> 4]>>
MCNonFinite == {<<0, 1, 1>>, <<1, 1, 1>>}
MCFollow == 0 :> 0 @@ 1 :> 0 @@ 2 :> 1
=============================================================================

---------------------------- MODULE MCBitReader ----------------------------
(***************************************************************************)
(* BitReader on words of two bytes of two bits: a window of two bytes for  *)
(* fields of up to two bits, and one of three for fields of up to four.    *)
(***************************************************************************)
EXTENDS BitReader

(***************************************************************************)
(* Packets of none to five bytes, with bits that tell every position from  *)
(* its neighbours and from padding.                                        *)
(***************************************************************************)
MCPackets == {<<>>, <<1, 1>>, <<0, 1, 1, 0>>, <<1, 0, 1, 1, 0, 1>>,
              <<1, 1, 0, 0, 1, 0, 0, 1>>, <<0, 1, 1, 1, 0, 1, 0, 0, 1, 1>>}

(***************************************************************************)
(* Slack short of both windows, of the wide one only, and enough: ones, as *)
(* zeros could not be told from the padding of the tail.                   *)
(***************************************************************************)
MCSlacks == {[i \in 1..n * ByteBits |-> 1] : n \in 0..4}
=============================================================================

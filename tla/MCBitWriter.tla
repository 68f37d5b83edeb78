---------------------------- MODULE MCBitWriter ----------------------------
(***************************************************************************)
(* BitWriter on words of three bytes of two bits, with fields of up to     *)
(* half a word as in the code, so that a spill leaves no, one or two bits. *)
(***************************************************************************)
EXTENDS BitWriter

MCFields == {<<1>>, <<0, 1>>, <<1, 1>>, <<1, 0, 1>>}

(***************************************************************************)
(* Runs of none to seven bytes: only a head, head and tail, one word with  *)
(* a head and a tail, and two.                                             *)
(***************************************************************************)
MCRuns == {<<>>, <<1, 0>>, <<0, 1, 1, 1>>, <<1, 1, 0, 1, 0, 1>>,
           <<0, 1, 0, 1, 1, 1, 1, 0, 1, 1>>,
           <<1, 1, 0, 1, 1, 1, 1, 0, 1, 1, 0, 1, 1, 0>>}
=============================================================================

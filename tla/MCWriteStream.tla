--------------------------- MODULE MCWriteStream ---------------------------
(***************************************************************************)
(* WriteStream on words of two bytes of two bits.                          *)
(***************************************************************************)
EXTENDS WriteStream

(***************************************************************************)
(* Values that fit a word, fill it, and need the second of two groups; an  *)
(* empty one (a range of a single value).                                  *)
(***************************************************************************)
MCFields == {<<>>, <<1>>, <<1, 0, 1>>, <<1, 1, 0, 1>>,
             <<1, 0, 0, 1, 1>>, <<0, 1, 1, 0, 1, 1, 0>>}

(***************************************************************************)
(* Runs of none to five bytes: only a head, head and tail, one block and   *)
(* two.                                                                    *)
(***************************************************************************)
MCRuns == {<<>>, <<1, 0>>, <<0, 1, 1, 1>>, <<1, 1, 0, 1, 0, 1>>,
           <<1, 0, 1, 1, 0, 1, 1, 1>>, <<0, 1, 0, 1, 1, 1, 1, 0, 1, 1>>}

MCTexts == {[field |-> <<0, 0, 0>>, run |-> <<>>],
            [field |-> <<1, 0, 0>>, run |-> <<1, 0>>],
            [field |-> <<1, 1, 0>>, run |-> <<1, 1, 0, 1, 0, 1>>]}

MCRelWidths == <<0, 2>>
=============================================================================

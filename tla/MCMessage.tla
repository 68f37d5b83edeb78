----------------------------- MODULE MCMessage -----------------------------
(***************************************************************************)
(* Bytes of two bits: NUL, a letter, the first of a character of three     *)
(* bytes, and one that follows it.  Two schemas of every kind of field,    *)
(* with an optional one and an int_relative on a value just read, and one  *)
(* of a string that holds one byte.                                        *)
(***************************************************************************)
EXTENDS Message, TLC

F(op, size, when, after) == [op |-> op, size |-> size, when |-> when, after |-> after]

MCSchemas == {<<F("int", 2, 0, 0), F("bits", 1, 0, 0), F("relative", 0, 2, 1),
                F("bytes", 1, 0, 0), F("int", 0, 0, 0)>>,
              <<F("bits", 1, 0, 0), F("string", 4, 1, 0), F("relative", 0, 0, 1)>>,
              <<F("string", 2, 0, 0), F("int", 2, 0, 0)>>}
MCSources == UNION {[1..n -> Byte] : n \in 0..4}
MCFollow == 0 :> 0 @@ 1 :> 0 @@ 2 :> 2
MCBuckets == <<[min |-> 2, max |-> 4]>>
=============================================================================

--------------------------- MODULE SentinelLoop ---------------------------
(***************************************************************************)
(* A loop driven by a bit of the packet: "for Continue(stream, &more)" and *)
(* "for Until(stream, &done)" of stream.go, on the read stream.  The body  *)
(* reads an element, of any kind and possibly of no bits at all, and looks *)
(* at no error; the loop itself must end, on every packet.                 *)
(***************************************************************************)
EXTENDS ReadStream

VARIABLES helper,  \* the helper the loop uses
          flag,    \* the caller's variable, more or done
          pc,      \* where the caller is
          rounds   \* the bodies begun, counted to one more than the bits of the packet

loopVars == <<vars, helper, flag, pc, rounds>>

LoopInit == /\ Init
            /\ helper \in {"Continue", "Until"}
            /\ flag = (helper = "Continue")
            /\ pc = "head"
            /\ rounds = 0

(***************************************************************************)
(* SerializeBool leaves the caller's variable alone when it refuses; the   *)
(* helper asks for its error before it looks at the variable.              *)
(***************************************************************************)
Bool == Field(bitsRead, 1)
Read == IF err = None /\ Accepted(Bool) THEN Bool.code = <<1>> ELSE flag

\* Mutant of GoesOn: the variable is looked at and the error is not.
GoesOnUnchecked(refused, value) == value = (helper = "Continue")

GoesOn(refused, value) == ~refused /\ value = (helper = "Continue")

\* The bound of the history counter: past it no property tells rounds apart.
Counted(n) == IF n <= numBits THEN n + 1 ELSE n

Condition == /\ pc = "head"
             /\ Serialize(Bool)
             /\ flag' = Read
             /\ IF GoesOn(returned' # None, Read)
                  THEN pc' = "body" /\ rounds' = Counted(rounds)
                  ELSE pc' = "exit" /\ UNCHANGED rounds
             /\ UNCHANGED <<complete, helper>>

Element == \/ \E n \in Widths : SerializeBits(n)
           \/ \E span \in Spans : SerializeInt(span)
           \/ SerializeAlign
           \/ \E previous \in Previous : SerializeIntRelative(previous)
           \/ BadDeclaration
           \/ Fail("rejected")

Body == /\ pc = "body"
        /\ Element
        /\ pc' = "head"
        /\ UNCHANGED <<helper, flag, rounds>>

LoopNext == Condition \/ Body

(***************************************************************************)
(* Nothing but the caller runs the loop, and it is not stopped.            *)
(***************************************************************************)
LoopSpec == LoopInit /\ [][LoopNext]_loopVars /\ WF_loopVars(LoopNext)

-----------------------------------------------------------------------------
(***************************************************************************)
(* "Loops of this form always terminate on truncated or malicious data"    *)
(* (Continue), however long the packet says the sequence is.               *)
(***************************************************************************)
Terminates == <>(pc = "exit")

(***************************************************************************)
(* "... bounded by the size of the packet", even when an element takes no  *)
(* bits; and no element is read for a flag that did not come from it.      *)
(***************************************************************************)
BoundedByPacket == rounds <= bitsRead /\ (pc = "body" => err = None)
=============================================================================

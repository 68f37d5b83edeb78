-------------------------- MODULE MCSentinelLoop --------------------------
(***************************************************************************)
(* Loops over every packet of up to four bytes of two bits.                *)
(***************************************************************************)
EXTENDS SentinelLoop, TLC

MCPackets == UNION {[1..n * ByteBits -> Bit] : n \in 0..4}
MCBuckets == <<[min |-> 2, max |-> 4]>>
MCFollow == 0 :> 0 @@ 1 :> 0
=============================================================================

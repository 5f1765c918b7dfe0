------------------------ MODULE MCProtoSlidingMask ------------------------
(* The mask of NumBits bits over RangeSize indices, for TLC.  NumBits is   *)
(* less than half of the range, so that indices exist beyond either end;   *)
(* and both are small enough for the whole state space.                    *)
EXTENDS ProtoSlidingMask
=============================================================================

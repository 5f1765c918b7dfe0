-------------------------- MODULE MCProtoDispatcher --------------------------
(* Instances of ProtoDispatcher: the owner o and up to one more controlling *)
(* thread c, one or two descriptors, one timeout.                           *)
EXTENDS ProtoDispatcher, TLC

CONSTANTS o, c, s1, s2, d

Alone == {o}
Both == {o, c}

OneStream == {s1}
TwoStreams == {s1, s2}

OneDeadline == {d}

=============================================================================

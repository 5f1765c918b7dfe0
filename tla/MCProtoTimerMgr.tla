-------------------------- MODULE MCProtoTimerMgr --------------------------
(* Instances of ProtoTimerMgr for TLC. *)
EXTENDS ProtoTimerMgr, TLC

Double == {<<2, 1>>}
NoFactors == {}
OnceOrForever == {0, -1}
OnceTwiceOrForever == {0, 1, -1}
Symmetry == Permutations(Timers)

\* Two states that differ in dead data only are one: what a timer at rest
\* holds is overwritten when it is activated, pulse_mark when the pulse is,
\* and the system timer's values when it is installed.
Live == {t \in Timers : IsActive(mgr, t)}
View ==
    << now, mgr.short, mgr.long, [x \in ToSet(mgr.short \o mgr.long) |-> mgr.timeout[x]],
       IF IsActive(mgr, Pulse) THEN mgr.pulseMark ELSE 0,
       [t \in Live |-> <<interval[t], repeat[t], repeatCount[t], due[t], byPulse[t]>>],
       phase, invoked, loopNow,
       IF sys.scheduled THEN <<sys.timeout, sys.delayEnd>> ELSE <<>> >>
=============================================================================

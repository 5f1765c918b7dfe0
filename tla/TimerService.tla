--------------------------- MODULE TimerService ---------------------------
(***************************************************************************)
(* What the users of ProtoTimer rely on, without lists, pulse or clock: a  *)
(* timer that was activated with a repeat count n expires at most n + 1    *)
(* times (n = -1: again and again), one that is not active does not        *)
(* expire, listeners are called one at a time, and a listener may stop or  *)
(* restart any timer, its own included.                                    *)
(***************************************************************************)
EXTENDS Integers

CONSTANTS Timers, NoTimer, Repeats

VARIABLES
    active,   \* the timers that are counting down
    left,     \* left[t]: expiries still to come after the next one
    repeats,  \* repeats[t]: what left[t] starts from
    calling,  \* a listener is being called ...
    expired   \* ... for this timer, unless it was stopped or restarted since

vars == <<active, left, repeats, calling, expired>>

Init ==
    /\ active = {}
    /\ left = [t \in Timers |-> 0]
    /\ repeats = [t \in Timers |-> 0]
    /\ calling = FALSE
    /\ expired = NoTimer

Forget(t) == expired' = IF expired = t THEN NoTimer ELSE expired

Start(t, n) ==
    /\ t \notin active
    /\ active' = active \cup {t}
    /\ repeats' = [repeats EXCEPT ![t] = n]
    /\ left' = [left EXCEPT ![t] = n]
    /\ UNCHANGED <<calling, expired>>

Stop(t) ==
    /\ t \in active
    /\ active' = active \ {t}
    /\ Forget(t)
    /\ UNCHANGED <<left, repeats, calling>>

Restart(t) ==
    /\ t \in active
    /\ left' = [left EXCEPT ![t] = repeats[t]]
    /\ Forget(t)
    /\ UNCHANGED <<active, repeats, calling>>

\* The time that remains is changed, and no more.
Stretch(t) ==
    /\ t \in active
    /\ Forget(t)
    /\ UNCHANGED <<active, left, repeats, calling>>

Expire(t) ==
    /\ ~calling
    /\ t \in active
    /\ calling' = TRUE
    /\ expired' = t
    /\ UNCHANGED <<active, left, repeats>>

Return ==
    /\ calling
    /\ calling' = FALSE
    /\ expired' = NoTimer
    /\ IF expired # NoTimer
       THEN /\ active' = IF left[expired] = 0 THEN active \ {expired} ELSE active
            /\ left' = IF left[expired] > 0
                       THEN [left EXCEPT ![expired] = @ - 1] ELSE left
       ELSE UNCHANGED <<active, left>>
    /\ UNCHANGED repeats

Next ==
    \/ \E t \in Timers :
        \/ \E n \in Repeats : Start(t, n)
        \/ Stop(t) \/ Restart(t) \/ Stretch(t) \/ Expire(t)
    \/ Return

Spec == Init /\ [][Next]_vars
=============================================================================

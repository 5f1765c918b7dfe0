--------------------------- MODULE ProtoTimerMgr ---------------------------
(***************************************************************************)
(* The timer manager of Protolib: ProtoTimer and ProtoTimerMgr             *)
(* (src/unpacked/protolib/src/common/protoTimer.cpp and its header).       *)
(*                                                                         *)
(* Active timers sit in one of two lists sorted by timeout.  A timer whose *)
(* interval is below PrecisionThreshold goes to the short list, in real    *)
(* time.  The others go to the long list, whose timeouts are counted in    *)
(* pulses: pulse_timer, itself a short timer, advances pulse_mark by one   *)
(* pulse at each of its timeouts and moves the long timers that came       *)
(* within the threshold to the short list.                                 *)
(*                                                                         *)
(* Time is counted in ticks.  One tick is longer than the two tolerances   *)
(* of the code (1 usec in OnSystemTimeout, 10 msec in ReactivateTimer), so *)
(* that "delta < 1.0e-06" is delta <= 0 and "delta < -0.01" is delta < 0.  *)
(* The clock may advance between any two actions, so a callback may take   *)
(* long and OnSystemTimeout may run late; it stands still inside one       *)
(* operation.                                                              *)
(*                                                                         *)
(* A listener's callback is user code: between FireTimer and              *)
(* CallbackReturn every user operation may be taken on every timer,        *)
(* including the one being fired.                                          *)
(***************************************************************************)
EXTENDS Integers, Sequences, SequencesExt

CONSTANTS
    Timers,              \* the user's ProtoTimer instances
    Pulse,               \* pulse_timer
    NoTimer,             \* the NULL of invoked_timer
    PulseInterval,       \* 1.0 second, in ticks
    PrecisionThreshold,  \* PRECISION_TIME_THRESHOLD, in ticks
    Intervals,           \* the intervals the user sets
    Repeats,             \* the repeat counts the user sets; -1 is for ever
    Factors,             \* the factors <<n, d>> = n/d the user scales by
    Horizon,             \* bound: user operations happen up to this time
    MaxTime,             \* bound: the clock stops here
    MaxLag               \* bound: how late the first timer's service may be

ASSUME PulseAssumption ==
    /\ Pulse \notin Timers
    /\ NoTimer \notin Timers \cup {Pulse}
ASSUME TimeAssumption ==
    /\ PulseInterval \in Nat \ {0}
    /\ PrecisionThreshold \in Nat
    /\ PulseInterval < PrecisionThreshold
    /\ Intervals \subseteq Nat   \* SetInterval makes 0 of what is negative, a tick of 0
    /\ Repeats \subseteq Nat \cup {-1}
    /\ Factors \subseteq (Nat \ {0}) \X (Nat \ {0})
    /\ Horizon \in Nat
    /\ MaxTime \in Nat
    /\ MaxLag \in Nat

VARIABLES
    now,         \* the system clock
    mgr,         \* the lists: [short, long, timeout, pulseMark]
    interval,    \* interval[t]
    repeat,      \* repeat[t]
    repeatCount, \* repeat_count[t]
    phase,       \* where OnSystemTimeout is
    invoked,     \* invoked_timer
    loopNow,     \* "now" in OnSystemTimeout
    sys,         \* the one system timer: [scheduled, timeout, delayEnd]
    due,         \* history: no firing of t is promised before due[t]
    byPulse      \* history: the pulse timed t since it was last started

timers == <<interval, repeat, repeatCount>>
history == <<due, byPulse>>
vars == <<now, mgr, timers, phase, invoked, loopNow, sys, history>>

AllTimers == Timers \cup {Pulse}

Mgr == [short : Seq(AllTimers), long : Seq(Timers),
        timeout : [AllTimers -> Int], pulseMark : Int]

MaxOf(a, b) == IF a < b THEN b ELSE a

-----------------------------------------------------------------------------
(* The two lists.                                                          *)

\* Mutant of Position: the timer is appended, whatever its timeout.
PositionAtTail(s, x, timeout) == Len(s) + 1

\* Where the search from the head stops: before the first entry that is not
\* earlier than x.  The search from the tail, which the code tries after ten
\* entries, stops at the same place of a sorted list.
Position(s, x, timeout) ==
    CHOOSE i \in 1..(Len(s) + 1) :
        /\ \A j \in 1..(i - 1) : timeout[s[j]] < timeout[x]
        /\ i <= Len(s) => timeout[x] <= timeout[s[i]]

InsertSorted(s, x, timeout) == InsertAt(s, Position(s, x, timeout), x)

Unlink(s, x) == RemoveAt(s, CHOOSE i \in 1..Len(s) : s[i] = x)

InsertShortTimer(m, x, at) ==
    LET timeout == [m.timeout EXCEPT ![x] = at]
    IN  [m EXCEPT !.timeout = timeout, !.short = InsertSorted(m.short, x, timeout)]

InsertLongTimer(m, x, at) ==
    LET timeout == [m.timeout EXCEPT ![x] = at]
    IN  [m EXCEPT !.timeout = timeout, !.long = InsertSorted(m.long, x, timeout)]

RemoveShortTimer(m, x) == [m EXCEPT !.short = Unlink(m.short, x)]

RemoveLongTimer(m, x) == [m EXCEPT !.long = Unlink(m.long, x)]

IsPrecise(m, x) == x \in ToSet(m.short)

IsActive(m, x) == x \in ToSet(m.short) \cup ToSet(m.long)

\* ProtoTimer::GetTimeRemaining, which never goes below zero.
GetTimeRemaining(m, x, t) == MaxOf(m.timeout[x] - t, 0)

-----------------------------------------------------------------------------
(* ProtoTimerMgr's operations on the lists, at time t.                     *)

\* Mutant of ActivatePulse: the pulse is linked in the long list.
ActivatePulseAsLong(m, t) ==
    IF IsActive(m, Pulse) THEN m
    ELSE InsertLongTimer([m EXCEPT !.pulseMark = t], Pulse, t + PulseInterval)

\* A long timer needs the pulse: it is started if it is not running.
ActivatePulse(m, t) ==
    IF IsActive(m, Pulse) THEN m
    ELSE InsertShortTimer([m EXCEPT !.pulseMark = t], Pulse, t + PulseInterval)

\* Mutant of GetPulseTime: the pulse that is running is not counted.
GetPulseTimeShort(m, t) == m.pulseMark - GetTimeRemaining(m, Pulse, t)

GetPulseTime(m, t) == m.pulseMark + (PulseInterval - GetTimeRemaining(m, Pulse, t))

ActivateLongTimer(m, x, i, t) ==
    LET p == ActivatePulse(m, t)
    IN  InsertLongTimer(p, x, GetPulseTime(p, t) + i)

ActivateTimer(m, x, i, t) ==
    IF i < PrecisionThreshold
    THEN InsertShortTimer(m, x, t + i)
    ELSE ActivateLongTimer(m, x, i, t)

\* Mutant of ReactivateTimer: the next period starts where the last one did.
ReactivateTimerInPlace(m, x, i, t, latched) ==
    IF i < PrecisionThreshold
    THEN InsertShortTimer(m, x, m.timeout[x])
    ELSE ActivateLongTimer(m, x, i, t)

\* A repeating timer keeps its period, unless it is already past its next
\* timeout at the time "latched" the loop works with.
ReactivateTimer(m, x, i, t, latched) ==
    IF i < PrecisionThreshold
    THEN LET next == m.timeout[x] + i
         IN  InsertShortTimer(m, x, IF next < latched THEN t ELSE next)
    ELSE ActivateLongTimer(m, x, i, t)

\* Mutant of DeactivateTimer: the pulse is left running.
DeactivateTimerOnly(m, x) ==
    IF IsPrecise(m, x) THEN RemoveShortTimer(m, x) ELSE RemoveLongTimer(m, x)

\* The pulse goes with the last long timer.
DeactivateTimer(m, x) ==
    IF IsPrecise(m, x) THEN RemoveShortTimer(m, x)
    ELSE LET r == RemoveLongTimer(m, x)
         IN  IF r.long = <<>> /\ IsPrecise(r, Pulse)
             THEN RemoveShortTimer(r, Pulse) ELSE r

\* Mutant of Update: a system timer that is set stays as it is.
UpdateOnce(m, s, t) ==
    IF m.short = <<>> THEN [s EXCEPT !.scheduled = FALSE]
    ELSE IF s.scheduled THEN s
    ELSE LET first == m.timeout[Head(m.short)]
         IN  [scheduled |-> TRUE, timeout |-> first,
              delayEnd |-> t + GetTimeRemaining(m, Head(m.short), t)]

\* Update: the system timer follows the head of the short list.
Update(m, s, t) ==
    IF m.short = <<>> THEN [s EXCEPT !.scheduled = FALSE]
    ELSE LET first == m.timeout[Head(m.short)]
         IN  IF s.scheduled /\ s.timeout = first THEN s
             ELSE [scheduled |-> TRUE, timeout |-> first,
                   delayEnd |-> t + GetTimeRemaining(m, Head(m.short), t)]

updatePending == phase # "idle"

UpdateUnlessPending(m) == IF updatePending THEN sys ELSE Update(m, sys, now)

Scaled(factor, x) == (factor[1] * x) \div factor[2]

-----------------------------------------------------------------------------
TypeOK ==
    /\ now \in 0..MaxTime
    /\ mgr \in Mgr
    /\ interval \in [Timers -> Nat]
    /\ repeat \in [Timers -> Nat \cup {-1}]
    /\ repeatCount \in [Timers -> Nat \cup {-1}]
    /\ phase \in {"idle", "loop", "pulse", "callback"}
    /\ invoked \in AllTimers \cup {NoTimer}
    /\ loopNow \in 0..MaxTime
    /\ sys \in [scheduled : BOOLEAN, timeout : Int, delayEnd : Int]
    /\ due \in [Timers -> Nat]
    /\ byPulse \in [Timers -> BOOLEAN]

Init ==
    /\ now = 0
    /\ mgr = [short |-> <<>>, long |-> <<>>,
              timeout |-> [x \in AllTimers |-> 0], pulseMark |-> 0]
    /\ interval = [t \in Timers |-> PulseInterval]
    /\ repeat = [t \in Timers |-> 0]
    /\ repeatCount = [t \in Timers |-> 0]
    /\ phase = "idle"
    /\ invoked = NoTimer
    /\ loopNow = 0
    /\ sys = [scheduled |-> FALSE, timeout |-> 0, delayEnd |-> 0]
    /\ due = [t \in Timers |-> 0]
    /\ byPulse = [t \in Timers |-> FALSE]

Tick ==
    /\ now < MaxTime
    /\ mgr.short # <<>> => now < mgr.timeout[Head(mgr.short)] + MaxLag
    /\ now' = now + 1
    /\ UNCHANGED <<mgr, timers, phase, invoked, loopNow, sys, history>>

-----------------------------------------------------------------------------
(* What user code does, outside OnSystemTimeout or in a callback.          *)

UserMayRun == phase \in {"idle", "callback"} /\ now <= Horizon

\* t starts counting down i ticks in the lists m.
Arm(t, i, m) ==
    /\ mgr' = ActivateTimer(m, t, i, now)
    /\ due' = [due EXCEPT ![t] = now + i]
    /\ byPulse' = [byPulse EXCEPT ![t] = i >= PrecisionThreshold]
    /\ sys' = UpdateUnlessPending(mgr')

\* Mutant of ForgetInvoked: the loop keeps its pointer.
KeepInvoked(t) == invoked' = invoked

ForgetInvoked(t) == invoked' = IF invoked = t THEN NoTimer ELSE invoked

\* SetInterval, SetRepeat and ActivateTimer of a timer at rest.
Activate(t, i, r) ==
    /\ UserMayRun
    /\ ~IsActive(mgr, t)
    /\ interval' = [interval EXCEPT ![t] = i]
    /\ repeat' = [repeat EXCEPT ![t] = r]
    /\ repeatCount' = [repeatCount EXCEPT ![t] = r]
    /\ Arm(t, i, mgr)
    /\ UNCHANGED <<now, phase, invoked, loopNow>>

\* Deactivate, which a timer's destructor calls as well.
Deactivate(t) ==
    /\ UserMayRun
    /\ IsActive(mgr, t)
    /\ mgr' = DeactivateTimer(mgr, t)
    /\ ForgetInvoked(t)
    /\ sys' = UpdateUnlessPending(mgr')
    /\ UNCHANGED <<now, timers, phase, loopNow, history>>

SetInterval(t, i) ==
    /\ UserMayRun
    /\ IsActive(mgr, t)
    /\ interval' = [interval EXCEPT ![t] = i]
    /\ UNCHANGED <<now, mgr, repeat, repeatCount, phase, invoked, loopNow, sys, history>>

\* Reschedule: the timer starts anew, with all its repeats.
Reschedule(t) ==
    /\ UserMayRun
    /\ IsActive(mgr, t)
    /\ Arm(t, interval[t], DeactivateTimer(mgr, t))
    /\ repeatCount' = [repeatCount EXCEPT ![t] = repeat[t]]
    /\ ForgetInvoked(t)
    /\ UNCHANGED <<now, interval, repeat, phase, loopNow>>

\* Scale: the time that remains and the interval are stretched alike; the
\* repeat count stays.  A timer that is due only gets its new interval.
Scale(t, factor) ==
    LET remaining == GetTimeRemaining(mgr, t, now)
    IN
    /\ UserMayRun
    /\ IsActive(mgr, t)
    /\ Scaled(factor, interval[t]) \in 0..MaxTime
    /\ interval' = [interval EXCEPT ![t] = Scaled(factor, interval[t])]
    /\ IF remaining > 0
       THEN /\ Scaled(factor, remaining) \in 1..MaxTime
            /\ Arm(t, Scaled(factor, remaining), DeactivateTimer(mgr, t))
            /\ ForgetInvoked(t)
       ELSE UNCHANGED <<mgr, sys, history, invoked>>
    /\ UNCHANGED <<now, repeat, repeatCount, phase, loopNow>>

User(t) ==
    \/ \E i \in Intervals, r \in Repeats : Activate(t, i, r)
    \/ Deactivate(t)
    \/ \E i \in Intervals : SetInterval(t, i)
    \/ Reschedule(t)
    \/ \E factor \in Factors : Scale(t, factor)

-----------------------------------------------------------------------------
(* OnSystemTimeout.                                                        *)

EnterLoop ==
    /\ phase = "idle"
    /\ phase' = "loop"
    /\ loopNow' = now
    /\ sys' = [sys EXCEPT !.scheduled = FALSE]
    /\ UNCHANGED <<now, mgr, timers, invoked, history>>

\* The system timer that Update installed has run out.
SystemTimeout == sys.scheduled /\ sys.delayEnd <= now /\ EnterLoop

\* ProtoDispatcher::Dispatch calls OnSystemTimeout after any input or output.
DispatchTimeouts == (sys.scheduled => now < sys.delayEnd) /\ EnterLoop

HeadIsDue == mgr.short # <<>> /\ mgr.timeout[Head(mgr.short)] <= loopNow

\* The listener of the first timer is called ...
FireTimer ==
    /\ phase = "loop"
    /\ HeadIsDue
    /\ Head(mgr.short) # Pulse
    /\ invoked' = Head(mgr.short)
    /\ phase' = "callback"
    /\ UNCHANGED <<now, mgr, timers, loopNow, sys, history>>

\* ... and returns: unless it was deactivated or rescheduled meanwhile, the
\* timer leaves the list or starts its next period.
CallbackReturn ==
    /\ phase = "callback"
    /\ IF invoked \in Timers /\ IsActive(mgr, invoked)
       THEN LET t == invoked
                rest == RemoveShortTimer(mgr, t)
            IN  IF repeatCount[t] # 0
                THEN /\ mgr' = ReactivateTimer(rest, t, interval[t], now, loopNow)
                     /\ repeatCount' = IF repeatCount[t] > 0
                                       THEN [repeatCount EXCEPT ![t] = @ - 1]
                                       ELSE repeatCount
                     /\ due' = [due EXCEPT ![t] = @ + interval[t]]
                     /\ byPulse' = [byPulse EXCEPT ![t] = @ \/ interval[t] >= PrecisionThreshold]
                ELSE /\ mgr' = rest
                     /\ UNCHANGED <<repeatCount, history>>
       ELSE UNCHANGED <<mgr, repeatCount, history>>
    /\ invoked' = NoTimer
    /\ phase' = "loop"
    /\ UNCHANGED <<now, interval, repeat, loopNow, sys>>

\* OnPulseTimeout: one pulse later, ...
FirePulse ==
    /\ phase = "loop"
    /\ HeadIsDue
    /\ Head(mgr.short) = Pulse
    /\ invoked' = Pulse
    /\ mgr' = [mgr EXCEPT !.pulseMark = @ + PulseInterval]
    /\ phase' = "pulse"
    /\ UNCHANGED <<now, timers, loopNow, sys, history>>

\* Mutant of HeadIsNear: only timers due within this pulse are moved.
HeadIsWithinPulse ==
    /\ mgr.long # <<>>
    /\ mgr.timeout[Head(mgr.long)] - mgr.pulseMark < PulseInterval

HeadIsNear ==
    /\ mgr.long # <<>>
    /\ mgr.timeout[Head(mgr.long)] - mgr.pulseMark < PrecisionThreshold

\* ... each long timer that came near is moved to the short list ...
PulseMove ==
    LET x == Head(mgr.long)
        delta == mgr.timeout[x] - mgr.pulseMark
    IN
    /\ phase = "pulse"
    /\ HeadIsNear
    /\ mgr' = InsertShortTimer(RemoveLongTimer(mgr, x), x, now + delta)
    /\ UNCHANGED <<now, timers, phase, invoked, loopNow, sys, history>>

\* ... and the pulse stops if none is left, or starts its next period.
PulseReturn ==
    LET rest == RemoveShortTimer(mgr, Pulse)
    IN
    /\ phase = "pulse"
    /\ ~HeadIsNear
    /\ mgr' = IF mgr.long = <<>> THEN rest
              ELSE ReactivateTimer(rest, Pulse, PulseInterval, now, loopNow)
    /\ invoked' = NoTimer
    /\ phase' = "loop"
    /\ UNCHANGED <<now, timers, loopNow, sys, history>>

\* Mutant of LeaveLoop: the system timer is not updated at the end.
LeaveLoopWithoutUpdate ==
    /\ phase = "loop"
    /\ ~HeadIsDue
    /\ phase' = "idle"
    /\ loopNow' = 0
    /\ UNCHANGED <<now, mgr, timers, invoked, sys, history>>

\* Mutant of LeaveLoop: the walk goes on while there are timers.
LeaveLoopWhenEmpty ==
    /\ phase = "loop"
    /\ mgr.short = <<>>
    /\ phase' = "idle"
    /\ sys' = Update(mgr, sys, now)
    /\ loopNow' = 0
    /\ UNCHANGED <<now, mgr, timers, invoked, history>>

LeaveLoop ==
    /\ phase = "loop"
    /\ ~HeadIsDue
    /\ phase' = "idle"
    /\ sys' = Update(mgr, sys, now)
    /\ loopNow' = 0
    /\ UNCHANGED <<now, mgr, timers, invoked, history>>

Dispatch ==
    \/ SystemTimeout \/ DispatchTimeouts
    \/ FireTimer \/ CallbackReturn
    \/ FirePulse \/ PulseMove \/ PulseReturn
    \/ LeaveLoop

Next == Tick \/ (\E t \in Timers : User(t)) \/ Dispatch

Spec == Init /\ [][Next]_vars

-----------------------------------------------------------------------------
(* Safety.                                                                 *)

SortedBy(s, timeout) ==
    \A i, j \in 1..Len(s) : i < j => timeout[s[i]] <= timeout[s[j]]

ListsOf(m) ==
    /\ IsInjective(m.short)
    /\ IsInjective(m.long)
    /\ ToSet(m.short) \cap ToSet(m.long) = {}
    /\ SortedBy(m.short, m.timeout)
    /\ SortedBy(m.long, m.timeout)

\* Whatever callbacks do to any timer while OnSystemTimeout walks the list,
\* no timer is ever linked twice (in one list or in both), and both lists
\* stay sorted: the head that the loop looks at is the first to be due.
ListsOK == ListsOf(mgr)

\* pulse_timer runs exactly as long as a long timer needs it, however the
\* last long timer went away (deactivated, rescheduled, moved).
PulseRuns ==
    IF phase = "pulse" THEN IsActive(mgr, Pulse) /\ invoked = Pulse
    ELSE IsActive(mgr, Pulse) <=> mgr.long # <<>>

\* The timer invoked_timer points to is linked in the short list: the loop
\* never touches one that its own callback removed.
InvokedIsLinked == invoked # NoTimer => IsPrecise(mgr, invoked)

\* The manager never sleeps past a timer: outside OnSystemTimeout the system
\* timer is set for the first active timer, or late ones at once.
NoLostWakeup ==
    phase = "idle" /\ mgr.short # <<>> =>
        LET first == mgr.timeout[Head(mgr.short)]
        IN  /\ sys.scheduled
            /\ sys.timeout = first
            /\ sys.delayEnd <= MaxOf(first, now)

\* A long timer is far from its timeout: one that came within the threshold
\* has been moved to the short list, where it is timed precisely.
LongIsFar ==
    phase # "pulse" =>
        \A x \in ToSet(mgr.long) :
            mgr.timeout[x] - mgr.pulseMark >= PrecisionThreshold

\* A timer that was only ever timed in the short list never fires before the
\* interval (and every earlier period of a repeating timer) has passed.
ShortNeverEarly ==
    phase = "callback" /\ invoked # NoTimer /\ ~byPulse[invoked] => due[invoked] <= now

\* Why: such a timer waits in the short list for its full interval.
ShortPromise ==
    \A t \in Timers : IsActive(mgr, t) /\ ~byPulse[t] =>
        IsPrecise(mgr, t) /\ due[t] <= mgr.timeout[t]

\* What each phase of OnSystemTimeout knows, and the system timer at any time.
LoopState ==
    /\ loopNow <= now
    /\ phase \in {"idle", "loop"} => invoked = NoTimer
    /\ phase = "callback" =>
           invoked # Pulse /\ (invoked # NoTimer => mgr.timeout[invoked] <= loopNow)
    /\ sys.scheduled => sys.delayEnd <= MaxOf(sys.timeout, now)

\* The inductive invariant behind the invariants above.
IInv ==
    /\ TypeOK
    /\ ListsOK /\ PulseRuns /\ InvokedIsLinked
    /\ NoLostWakeup
    /\ ShortPromise
    /\ LoopState

\* A timer the pulse timed may fire early, because GetPulseTime takes a pulse that
\* is overdue for one that is due, but by no more than the service was late.
BoundedEarliness ==
    phase = "callback" /\ invoked # NoTimer => due[invoked] <= now + MaxLag

-----------------------------------------------------------------------------
(* The abstract service, and progress.                                     *)

ActiveTimers == {t \in Timers : IsActive(mgr, t)}

Service == INSTANCE TimerService WITH
    active <- ActiveTimers,
    left <- repeatCount,
    repeats <- repeat,
    calling <- phase = "callback",
    expired <- IF invoked = Pulse THEN NoTimer ELSE invoked

\* The manager implements the timer service: across list moves, pulses, late
\* loops and callbacks that stop or restart timers, each activation expires
\* at most repeat + 1 times and never after it was stopped.
ImplementsTimerService == Service!Spec

\* The clock goes on, an installed system timer fires, OnSystemTimeout runs
\* to its end and listeners return.
Fairness ==
    /\ WF_vars(Tick)
    /\ WF_vars(SystemTimeout)
    /\ WF_vars(FireTimer \/ CallbackReturn \/ FirePulse \/ PulseMove \/ PulseReturn \/ LeaveLoop)

FairSpec == Spec /\ Fairness

\* Every timer that is activated expires, unless the user stops it: none is
\* forgotten in the long list and no wake-up is missed.
EveryTimerExpires ==
    \A t \in Timers :
        now <= Horizon /\ t \in ActiveTimers ~> t \notin ActiveTimers \/ invoked = t

\* A timer that is due again whenever it has fired: only a negative interval is 0.
FiresForEver(t) == t \in ActiveTimers /\ interval[t] = 0 /\ repeat[t] = -1

\* OnSystemTimeout comes to an end and control returns to the dispatcher, unless a
\* timer that repeats for ever has no interval at all.
LoopEnds == phase # "idle" ~> phase = "idle" \/ \E t \in Timers : FiresForEver(t)

=============================================================================

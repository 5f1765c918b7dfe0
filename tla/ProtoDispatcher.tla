--------------------------- MODULE ProtoDispatcher ---------------------------
(***************************************************************************)
(* A ProtoDispatcher that runs in a thread of its own (StartThread), and   *)
(* the threads that control it (src/unpacked/protolib/src/common/          *)
(* protoDispatcher.cpp and its header; UNIX, USE_SELECT).                  *)
(*                                                                         *)
(* The dispatcher's thread holds suspend_mutex whenever it runs callbacks. *)
(* It gives it up around Wait(), which it enters holding signal_mutex.  A  *)
(* controlling thread gets suspend_mutex with SuspendThread(), so it knows *)
(* the thread to be around Wait(); SignalThread() also breaks the Wait()   *)
(* (an eventfd or pipe among the descriptors of select) and takes          *)
(* signal_mutex, so it knows the thread to be outside Wait().  Both nest.  *)
(*                                                                         *)
(* A controlling thread is modelled at the grain of the mutexes: each Lock,*)
(* each Unlock and each access to shared data is a step of its own.  The   *)
(* break is a flag: all that was written is read at once.                  *)
(*                                                                         *)
(* Callers keep to the documented discipline: each SuspendThread and       *)
(* SignalThread is mirrored, and Stop is called by the thread that started *)
(* the dispatcher, while no other thread is calling it.                    *)
(***************************************************************************)
EXTENDS Integers

CONSTANTS
    Controllers,  \* the threads that control the dispatcher
    Owner,        \* the one that starts and stops it
    Thread,       \* the dispatcher's thread
    NoThread,     \* NULL
    Streams,      \* descriptors
    Deadlines,    \* what the next timeout may be, abstractly
    NoDeadline,   \* no timer is active
    MaxDepth,     \* bound: how deep a caller nests Suspend- and SignalThread
    Restarts,     \* whether StartThread is called again after Stop
    MaxLoad,      \* bound: calls, arrivals and changes by callbacks ...
    Cost          \* ... each of which costs this much; 0 for no bound

ASSUME ThreadAssumption ==
    /\ Owner \in Controllers
    /\ Thread \notin Controllers
    /\ NoThread \notin Controllers \cup {Thread}
    /\ NoDeadline \notin Deadlines
ASSUME BoundAssumption ==
    /\ MaxDepth \in Nat
    /\ MaxLoad \in Nat
    /\ Cost \in {0, 1}
    /\ Restarts \in BOOLEAN

VARIABLES
    threadId,      \* thread_id # NULL
    started,       \* thread_started
    run,           \* run
    suspendMutex,  \* who holds suspend_mutex
    signalMutex,   \* who holds signal_mutex
    master,        \* thread_master
    suspendCount,  \* suspend_count
    signalCount,   \* signal_count
    break,         \* something was written to the break descriptor
    promptSet,     \* prompt_set
    table,         \* the descriptors of stream_table
    deadline,      \* what ProtoTimerMgr::GetTimeRemaining stands on
    ready,         \* environment: the descriptors with input
    latched,       \* timer_delay
    inputSet,      \* input_set, without the break descriptor
    breakSeen,     \* the break descriptor's bit in input_set
    status,        \* wait_status
    tpc,           \* where the dispatcher's thread is
    op,            \* op[c]: the function c called last
    pc,            \* pc[c]: where in it c is
    suspends,      \* suspends[c]: SuspendThread calls c still has to mirror
    signals,       \* signals[c]: SignalThread calls c still has to mirror
    load           \* bound: the load still allowed

lifeVars == <<threadId, started, run>>
suspendVars == <<suspendMutex, master, suspendCount>>
signalVars == <<signalMutex, signalCount>>
workVars == <<promptSet, table, deadline>>
waitVars == <<latched, inputSet, breakSeen, status>>
callVars == <<op, pc, suspends, signals>>
vars == <<lifeVars, suspendVars, signalVars, break, workVars, ready, waitVars,
          tpc, callVars, load>>

Ops == {"Suspend", "Resume", "Signal", "Unsignal", "Prompt", "Timer", "Notify", "Stop"}

TypeOK ==
    /\ threadId \in BOOLEAN /\ started \in BOOLEAN /\ run \in BOOLEAN
    /\ suspendMutex \in Controllers \cup {Thread, NoThread}
    /\ signalMutex \in Controllers \cup {Thread, NoThread}
    /\ master \in Controllers \cup {NoThread}
    /\ suspendCount \in Nat /\ signalCount \in Nat
    /\ break \in BOOLEAN /\ promptSet \in BOOLEAN
    /\ table \subseteq Streams /\ ready \subseteq Streams /\ inputSet \subseteq Streams
    /\ deadline \in Deadlines \cup {NoDeadline}
    /\ latched \in Deadlines \cup {NoDeadline}
    /\ breakSeen \in BOOLEAN
    /\ status \in {"events", "timeout", "error"}
    /\ tpc \in {"none", "created", "started", "top", "latched", "building", "select",
                "woken", "prompt", "dispatch", "callback", "timeouts", "exit", "done"}
    /\ op \in [Controllers -> Ops]
    /\ pc \in [Controllers -> {"out", "suspend", "change", "break", "lockSignal",
                               "signaled", "unsignal", "resume", "resumeOuter", "join"}]
    /\ suspends \in [Controllers -> Nat] /\ signals \in [Controllers -> Nat]
    /\ load \in Int

Init ==
    /\ threadId = FALSE /\ started = FALSE /\ run = FALSE
    /\ suspendMutex = NoThread /\ signalMutex = NoThread
    /\ master = NoThread
    /\ suspendCount = 0 /\ signalCount = 0
    /\ break = FALSE /\ promptSet = FALSE
    /\ table = {} /\ ready = {} /\ inputSet = {}
    /\ deadline = NoDeadline /\ latched = NoDeadline
    /\ breakSeen = FALSE /\ status = "error"
    /\ tpc = "none"
    /\ op = [c \in Controllers |-> "Resume"]
    /\ pc = [c \in Controllers |-> "out"]
    /\ suspends = [c \in Controllers |-> 0]
    /\ signals = [c \in Controllers |-> 0]
    /\ load = MaxLoad

Spend == load' = load - Cost /\ load' >= 0

GoTo(c, label) == pc' = [pc EXCEPT ![c] = label]

-----------------------------------------------------------------------------
(* The controlling threads.                                                *)

\* The whole of StartThread happens under suspend_mutex: the new thread and
\* the other controlling threads can but wait for it.
StartThread(c) ==
    /\ c = Owner
    /\ ~threadId
    /\ pc[c] = "out"
    /\ started => Restarts
    /\ threadId' = TRUE
    /\ tpc' = "created"
    /\ suspendMutex' = NoThread /\ signalMutex' = NoThread
    /\ break' = FALSE
    /\ UNCHANGED <<started, run, master, suspendCount, signalCount, workVars, ready,
                   waitVars, callVars, load>>

Stopping == op[Owner] = "Stop" /\ pc[Owner] # "out"

Mirrored(c) == pc[c] = "out" /\ suspends[c] = 0 /\ signals[c] = 0

Enter(c, o, label) ==
    /\ pc[c] = "out"
    /\ threadId
    /\ ~Stopping
    /\ op' = [op EXCEPT ![c] = o]
    /\ GoTo(c, label)
    /\ UNCHANGED <<lifeVars, suspendVars, signalVars, break, workVars, ready, waitVars, tpc>>

\* A call that begins with SuspendThread, as SignalThread and its users do.
Call(c, o) ==
    /\ o \in {"Suspend", "Signal"} => suspends[c] + signals[c] < MaxDepth
    /\ o = "Stop" => c = Owner /\ \A d \in Controllers : Mirrored(d)
    /\ Enter(c, o, "suspend")
    /\ Spend
    /\ UNCHANGED <<suspends, signals>>

CallResume(c) ==
    /\ suspends[c] > 0
    /\ Enter(c, "Resume", "resume")
    /\ suspends' = [suspends EXCEPT ![c] = @ - 1]
    /\ UNCHANGED <<signals, load>>

CallUnsignal(c) ==
    /\ signals[c] > 0
    /\ Enter(c, "Unsignal", "unsignal")
    /\ signals' = [signals EXCEPT ![c] = @ - 1]
    /\ UNCHANGED <<suspends, load>>

\* SuspendThread.
Suspend(c) ==
    /\ pc[c] = "suspend"
    /\ IF master = c
       THEN /\ suspendCount' = suspendCount + 1
            /\ UNCHANGED <<suspendMutex, master>>
       ELSE /\ started
            /\ suspendMutex = NoThread
            /\ suspendMutex' = c
            /\ master' = c
            /\ suspendCount' = 1
    /\ GoTo(c, CASE op[c] = "Suspend" -> "out"
                 [] op[c] \in {"Prompt", "Timer"} -> "change"
                 [] OTHER -> "break")
    /\ suspends' = IF op[c] = "Suspend" THEN [suspends EXCEPT ![c] = @ + 1] ELSE suspends
    /\ UNCHANGED <<lifeVars, signalVars, break, workVars, ready, waitVars, tpc, op, signals, load>>

\* Mutant of SetPrompt: the thread is suspended, but not signaled.
SetPromptQuietly(c) ==
    /\ pc[c] = "change"
    /\ op[c] = "Prompt"
    /\ promptSet' = TRUE
    /\ GoTo(c, "resumeOuter")
    /\ UNCHANGED <<lifeVars, suspendVars, signalVars, break, table, deadline, ready,
                   waitVars, tpc, op, suspends, signals, load>>

\* PromptThread sets the prompt, then signals.
SetPrompt(c) ==
    /\ pc[c] = "change"
    /\ op[c] = "Prompt"
    /\ promptSet' = TRUE
    /\ suspendCount' = suspendCount + 1
    /\ GoTo(c, "break")
    /\ UNCHANGED <<lifeVars, suspendMutex, master, signalVars, break, table, deadline, ready,
                   waitVars, tpc, op, suspends, signals, load>>

\* Mutant of SetTimer: the thread is suspended, but not signaled.
SetTimerQuietly(c) ==
    /\ pc[c] = "change"
    /\ op[c] = "Timer"
    /\ deadline' \in Deadlines \cup {NoDeadline}
    /\ GoTo(c, "resumeOuter")
    /\ UNCHANGED <<lifeVars, suspendVars, signalVars, break, promptSet, table, ready,
                   waitVars, tpc, op, suspends, signals, load>>

\* ActivateTimer and DeactivateTimer: ProtoTimerMgr::Update signals only when
\* the first timeout is another one.
SetTimer(c) ==
    /\ pc[c] = "change"
    /\ op[c] = "Timer"
    /\ deadline' \in Deadlines \cup {NoDeadline}
    /\ IF deadline' # deadline
       THEN suspendCount' = suspendCount + 1 /\ GoTo(c, "break")
       ELSE suspendCount' = suspendCount /\ GoTo(c, "resumeOuter")
    /\ UNCHANGED <<lifeVars, suspendMutex, master, signalVars, break, promptSet, table, ready,
                   waitVars, tpc, op, suspends, signals, load>>

\* What SignalThread's caller does next.
GoOnSignaled(c) ==
    /\ GoTo(c, CASE op[c] = "Signal" -> "out"
                 [] op[c] \in {"Prompt", "Timer"} -> "unsignal"
                 [] OTHER -> "signaled")
    /\ signals' = IF op[c] = "Signal" THEN [signals EXCEPT ![c] = @ + 1] ELSE signals

\* SignalThread, once it has suspended the thread: a nested call only counts,
\* the first one breaks the thread's Wait ...
CountSignal(c) ==
    /\ pc[c] = "break"
    /\ signalCount > 0
    /\ signalCount' = signalCount + 1
    /\ GoOnSignaled(c)
    /\ UNCHANGED <<lifeVars, suspendVars, signalMutex, break, workVars, ready, waitVars, tpc,
                   op, suspends, load>>

\* Mutant of SetBreak: nothing is written.
SetNoBreak(c) ==
    /\ pc[c] = "break"
    /\ signalCount = 0
    /\ GoTo(c, "lockSignal")
    /\ UNCHANGED <<lifeVars, suspendVars, signalVars, break, workVars, ready, waitVars, tpc,
                   op, suspends, signals, load>>

SetBreak(c) ==
    /\ pc[c] = "break"
    /\ signalCount = 0
    /\ break' = TRUE
    /\ GoTo(c, "lockSignal")
    /\ UNCHANGED <<lifeVars, suspendVars, signalVars, workVars, ready, waitVars, tpc,
                   op, suspends, signals, load>>

\* Mutant of LockSignal: the first signal is not counted.
LockSignalUncounted(c) ==
    /\ pc[c] = "lockSignal"
    /\ signalMutex = NoThread
    /\ signalMutex' = c
    /\ GoOnSignaled(c)
    /\ UNCHANGED <<lifeVars, suspendVars, signalCount, break, workVars, ready, waitVars, tpc,
                   op, suspends, load>>

\* ... and locks signal_mutex, for which the thread has to leave its Wait.
LockSignal(c) ==
    /\ pc[c] = "lockSignal"
    /\ signalMutex = NoThread
    /\ signalMutex' = c
    /\ signalCount' = 1
    /\ GoOnSignaled(c)
    /\ UNCHANGED <<lifeVars, suspendVars, break, workVars, ready, waitVars, tpc,
                   op, suspends, load>>

\* Installing and removing a descriptor's notification: removing it clears
\* its bit in the sets of a select that has already returned.
Install(s) == table' = table \cup {s} /\ UNCHANGED inputSet

\* Mutant of Remove: without FD_CLR.
RemoveFromTable(s) == table' = table \ {s} /\ UNCHANGED inputSet

Remove(s) == table' = table \ {s} /\ inputSet' = inputSet \ {s}

UpdateNotification(c) ==
    /\ pc[c] = "signaled"
    /\ op[c] = "Notify"
    /\ \E s \in Streams : Install(s) \/ Remove(s)
    /\ GoTo(c, "unsignal")
    /\ UNCHANGED <<lifeVars, suspendVars, signalVars, break, promptSet, deadline, ready,
                   latched, breakSeen, status, tpc, op, suspends, signals, load>>

\* Mutant of StopRunning: run stays set.
StopLeavesRun(c) ==
    /\ pc[c] = "signaled"
    /\ op[c] = "Stop"
    /\ GoTo(c, "unsignal")
    /\ UNCHANGED <<lifeVars, suspendVars, signalVars, break, workVars, ready, waitVars,
                   tpc, op, suspends, signals, load>>

\* Stop, while the thread is signaled ...
StopRunning(c) ==
    /\ pc[c] = "signaled"
    /\ op[c] = "Stop"
    /\ run' = FALSE
    /\ GoTo(c, "unsignal")
    /\ UNCHANGED <<threadId, started, suspendVars, signalVars, break, workVars, ready, waitVars,
                   tpc, op, suspends, signals, load>>

\* UnsignalThread, up to its ResumeThread.
Unsignal(c) ==
    /\ pc[c] = "unsignal"
    /\ IF master = c
       THEN /\ signalCount' = signalCount - 1
            /\ signalMutex' = IF signalCount = 1 THEN NoThread ELSE signalMutex
       ELSE UNCHANGED signalVars
    /\ GoTo(c, "resume")
    /\ UNCHANGED <<lifeVars, suspendVars, break, workVars, ready, waitVars, tpc,
                   op, suspends, signals, load>>

\* Mutant of Resume: the first ResumeThread gives suspend_mutex up.
ResumeAtOnce(c) ==
    /\ pc[c] \in {"resume", "resumeOuter"}
    /\ IF master # c THEN UNCHANGED suspendVars
       ELSE suspendCount' = 0 /\ master' = NoThread /\ suspendMutex' = NoThread
    /\ GoTo(c, CASE pc[c] = "resume" /\ op[c] \in {"Prompt", "Timer"} -> "resumeOuter"
                 [] op[c] = "Stop" -> "join"
                 [] OTHER -> "out")
    /\ UNCHANGED <<lifeVars, signalVars, break, workVars, ready, waitVars, tpc,
                   op, suspends, signals, load>>

\* ResumeThread; PromptThread and ActivateTimer call it once more.
Resume(c) ==
    /\ pc[c] \in {"resume", "resumeOuter"}
    /\ IF master # c THEN UNCHANGED suspendVars
       ELSE IF suspendCount > 1
       THEN suspendCount' = suspendCount - 1 /\ UNCHANGED <<suspendMutex, master>>
       ELSE suspendCount' = 0 /\ master' = NoThread /\ suspendMutex' = NoThread
    /\ GoTo(c, CASE pc[c] = "resume" /\ op[c] \in {"Prompt", "Timer"} -> "resumeOuter"
                 [] op[c] = "Stop" -> "join"
                 [] OTHER -> "out")
    /\ UNCHANGED <<lifeVars, signalVars, break, workVars, ready, waitVars, tpc,
                   op, suspends, signals, load>>

\* ... and DestroyThread, which waits for the thread to end.  thread_started
\* stays set.
Join(c) ==
    /\ pc[c] = "join"
    /\ tpc = "done"
    /\ threadId' = FALSE
    /\ tpc' = "none"
    /\ break' = FALSE
    /\ GoTo(c, "out")
    /\ UNCHANGED <<started, run, suspendVars, signalVars, workVars, ready, waitVars,
                   op, suspends, signals, load>>

CallStep(c) ==
    \/ Suspend(c)
    \/ SetPrompt(c) \/ SetTimer(c)
    \/ CountSignal(c) \/ SetBreak(c) \/ LockSignal(c)
    \/ UpdateNotification(c) \/ StopRunning(c)
    \/ Unsignal(c) \/ Resume(c) \/ Join(c)

Controller(c) ==
    \/ StartThread(c)
    \/ \E o \in Ops \ {"Resume", "Unsignal"} : Call(c, o)
    \/ CallResume(c) \/ CallUnsignal(c)
    \/ CallStep(c)

-----------------------------------------------------------------------------
(* The dispatcher's thread: DoThreadStart and Run.                         *)

\* Steps of the thread that leave the controlling threads' own state alone.
ThreadGoes(from, to) ==
    /\ tpc = from
    /\ tpc' = to
    /\ UNCHANGED <<threadId, master, suspendCount, signalCount, callVars>>

DoThreadStart ==
    /\ ThreadGoes("created", "started")
    /\ suspendMutex = NoThread
    /\ suspendMutex' = Thread
    /\ started' = TRUE
    /\ UNCHANGED <<run, signalMutex, break, workVars, ready, waitVars, load>>

Run ==
    /\ ThreadGoes("started", "top")
    /\ run' = TRUE
    /\ UNCHANGED <<started, suspendMutex, signalMutex, break, workVars, ready, waitVars, load>>

\* The next timeout is latched before the suspend window opens.
LatchTimeout ==
    /\ ThreadGoes("top", "latched")
    /\ latched' = deadline
    /\ UNCHANGED <<started, run, suspendMutex, signalMutex, break, workVars, ready,
                   inputSet, breakSeen, status, load>>

\* Mutant of OpenWindow: signal_mutex is not taken.
OpenWindowUnlocked ==
    /\ ThreadGoes("latched", "building")
    /\ suspendMutex' = NoThread
    /\ UNCHANGED <<started, run, signalMutex, break, workVars, ready, waitVars, load>>

OpenWindow ==
    /\ ThreadGoes("latched", "building")
    /\ signalMutex = NoThread
    /\ signalMutex' = Thread
    /\ suspendMutex' = NoThread
    /\ UNCHANGED <<started, run, break, workVars, ready, waitVars, load>>

\* Mutant of BuildSets: select gets what the last one left.
KeepSets ==
    /\ ThreadGoes("building", "select")
    /\ UNCHANGED <<started, run, suspendMutex, signalMutex, break, workVars, ready, waitVars, load>>

\* Wait: the descriptor sets are built anew, then select blocks ...
BuildSets ==
    /\ ThreadGoes("building", "select")
    /\ inputSet' = table
    /\ UNCHANGED <<started, run, suspendMutex, signalMutex, break, workVars, ready,
                   latched, breakSeen, status, load>>

Wakes == break \/ ready \cap inputSet # {}

\* ... until there is an event, the latched timeout has passed or a UNIX
\* signal came in; then signal_mutex is given up.
ReturnFromWait ==
    /\ ThreadGoes("select", "woken")
    /\ signalMutex' = NoThread
    /\ UNCHANGED <<started, run, suspendMutex, break, workVars, ready, latched>>

WaitEvents ==
    /\ Wakes
    /\ inputSet' = ready \cap inputSet
    /\ breakSeen' = break
    /\ status' = "events"
    /\ ReturnFromWait
    /\ UNCHANGED load

WaitTimeout ==
    /\ latched # NoDeadline
    /\ ~Wakes
    /\ inputSet' = {}
    /\ breakSeen' = FALSE
    /\ status' = "timeout"
    /\ ReturnFromWait
    /\ UNCHANGED load

WaitInterrupted ==
    /\ status' = "error"
    /\ ReturnFromWait
    /\ Spend
    /\ UNCHANGED <<inputSet, breakSeen>>

\* Mutant of CloseWindow: suspend_mutex is not waited for.
CloseWindowUnlocked ==
    /\ ThreadGoes("woken", IF promptSet THEN "prompt" ELSE "dispatch")
    /\ UNCHANGED <<started, run, suspendMutex, signalMutex, break, workVars, ready, waitVars, load>>

\* Here the thread rests while it is suspended or signaled.
CloseWindow ==
    /\ ThreadGoes("woken", IF promptSet THEN "prompt" ELSE "dispatch")
    /\ suspendMutex = NoThread
    /\ suspendMutex' = Thread
    /\ UNCHANGED <<started, run, signalMutex, break, workVars, ready, waitVars, load>>

PromptReturns ==
    /\ ThreadGoes("prompt", "dispatch")
    /\ promptSet' = FALSE
    /\ UNCHANGED <<started, run, suspendMutex, signalMutex, break, table, deadline, ready,
                   waitVars, load>>

\* Dispatch: each descriptor of the table with an event is notified once, and
\* its callback takes the input.
Notify ==
    /\ status = "events"
    /\ ThreadGoes("dispatch", "callback")
    /\ \E s \in table \cap inputSet :
          /\ inputSet' = inputSet \ {s}
          /\ ready' = ready \ {s}
    /\ UNCHANGED <<started, run, suspendMutex, signalMutex, break, workVars,
                   latched, breakSeen, status, load>>

NotifyReturns ==
    /\ ThreadGoes("callback", "dispatch")
    /\ UNCHANGED <<started, run, suspendMutex, signalMutex, break, workVars, ready, waitVars, load>>

\* Then the break is reset, if select saw it, and the timers have their turn.
ResetBreak ==
    /\ status = "events" => table \cap inputSet = {}
    /\ status # "error"
    /\ ThreadGoes("dispatch", "timeouts")
    /\ break' = (break /\ ~(status = "events" /\ breakSeen))
    /\ UNCHANGED <<started, run, suspendMutex, signalMutex, workVars, ready, waitVars, load>>

AtLoopEnd == IF run THEN "top" ELSE "exit"

\* OnSystemTimeout; ProtoTimerMgr describes it in full.
TimeoutsReturn ==
    /\ ThreadGoes("timeouts", AtLoopEnd)
    /\ deadline' \in IF status = "timeout" /\ deadline = latched THEN {NoDeadline}
                     ELSE {deadline, NoDeadline}
    /\ UNCHANGED <<started, run, suspendMutex, signalMutex, break, promptSet, table, ready,
                   waitVars, load>>

\* A select that failed is not dispatched at all.
DispatchError ==
    /\ status = "error"
    /\ ThreadGoes("dispatch", AtLoopEnd)
    /\ UNCHANGED <<started, run, suspendMutex, signalMutex, break, workVars, ready, waitVars, load>>

ThreadExit ==
    /\ ThreadGoes("exit", "done")
    /\ suspendMutex' = NoThread
    /\ UNCHANGED <<started, run, signalMutex, break, workVars, ready, waitVars, load>>

ThreadStep ==
    \/ DoThreadStart \/ Run \/ LatchTimeout \/ OpenWindow \/ BuildSets
    \/ WaitEvents \/ WaitTimeout
    \/ CloseWindow \/ PromptReturns \/ Notify \/ NotifyReturns
    \/ ResetBreak \/ TimeoutsReturn \/ DispatchError \/ ThreadExit

\* What callbacks do in the dispatcher's thread, where SuspendThread and
\* SignalThread are void.
InCallback == tpc \in {"prompt", "callback", "timeouts"}

CallbackStep ==
    /\ InCallback
    /\ Spend
    /\ \/ /\ \E s \in Streams : Install(s) \/ Remove(s)
          /\ UNCHANGED deadline
       \/ /\ deadline' \in Deadlines \cup {NoDeadline}
          /\ UNCHANGED <<table, inputSet>>
    /\ UNCHANGED <<lifeVars, suspendVars, signalVars, break, promptSet, ready,
                   latched, breakSeen, status, tpc, callVars>>

Arrive(s) ==
    /\ s \notin ready
    /\ ready' = ready \cup {s}
    /\ Spend
    /\ UNCHANGED <<lifeVars, suspendVars, signalVars, break, workVars, waitVars, tpc, callVars>>

\* After the last Stop.
Terminated ==
    /\ started /\ ~threadId /\ ~Restarts
    /\ UNCHANGED vars

Next ==
    \/ \E c \in Controllers : Controller(c)
    \/ ThreadStep \/ WaitInterrupted \/ CallbackStep
    \/ \E s \in Streams : Arrive(s)
    \/ Terminated

Spec == Init /\ [][Next]_vars

-----------------------------------------------------------------------------
(* Safety.                                                                 *)

\* SuspendThread "makes sure the thread is asleep (i.e. waiting) or stopped":
\* the thread runs neither callbacks nor any other code on the timers, the
\* stream table and the prompt while another thread is its master.
SuspendedMeansAsleep ==
    master # NoThread =>
        tpc \in {"created", "building", "select", "woken", "done"}

\* After SignalThread the thread is outside Wait: the stream table is not
\* changed while the thread builds its sets from it or sleeps on them.
SignaledMeansOutsideWait ==
    signalCount > 0 => tpc \notin {"latched", "building", "select"}

\* How many suspensions and signals of c its call in progress accounts for.
CallSuspends(c) ==
    CASE pc[c] \in {"out", "suspend", "join"} -> 0
      [] pc[c] \in {"change", "signaled", "resumeOuter"} -> 1
      [] OTHER -> IF op[c] \in {"Prompt", "Timer"} THEN 2 ELSE 1

CallSignals(c) == IF pc[c] \in {"signaled", "unsignal"} THEN 1 ELSE 0

Suspensions(c) == suspends[c] + signals[c] + CallSuspends(c)
Signals(c) == signals[c] + CallSignals(c)

\* The reentrant locks: at any time the mutexes and counts say which thread is
\* in the middle of how many calls, so the mutexes are given up by the
\* outermost ResumeThread and UnsignalThread and by no other.
LocksAreCounted ==
    \A c \in Controllers :
        /\ master = c <=> Suspensions(c) > 0
        /\ master = c => suspendMutex = c /\ suspendCount = Suspensions(c)
        /\ signalMutex = c <=> Signals(c) > 0
        /\ signalMutex = c => signalCount = Signals(c) /\ master = c

\* The dispatcher's thread, which holds suspend_mutex at that moment, never
\* blocks on signal_mutex: the two mutexes are no deadlock.
ThreadNeverBlocksOnSignal == tpc = "latched" => signalMutex = NoThread

\* When the thread sleeps in select and nobody holds it, it waits for what
\* there is to wait for: the descriptors in the table and the first timeout
\* are those it knows, and no prompt is waiting, or the break is set.
NothingUnnoticed ==
    tpc = "select" /\ suspendMutex = NoThread /\ ~break =>
        inputSet = table /\ latched = deadline /\ ~promptSet

\* A descriptor that was removed, whoever removed it and however late, gets no
\* event of the select before: its bit is gone before it may be reused.
NoStaleEvent ==
    tpc \in {"woken", "prompt", "dispatch", "callback", "timeouts"} /\ status = "events" =>
        inputSet \subseteq table

-----------------------------------------------------------------------------
(* Progress, once the load ends: every thread runs, and callers mirror what *)
(* they have suspended or signaled.                                         *)

Fairness ==
    /\ WF_vars(ThreadStep)
    /\ \A c \in Controllers :
          /\ WF_vars(CallStep(c))
          /\ WF_vars(CallResume(c) \/ CallUnsignal(c))

FairSpec == Spec /\ Fairness

\* Every call that was made returns: no deadlock and no lost wake-up among the
\* two mutexes, the spin on thread_started, the break and select.
CallsReturn == \A c \in Controllers : pc[c] # "out" ~> pc[c] = "out"

\* Stop ends the thread and returns.
StopReturns == op[Owner] = "Stop" /\ pc[Owner] # "out" ~> ~threadId

\* A prompt is handled, unless the thread is stopped first.
PromptIsServed == promptSet /\ run ~> ~promptSet \/ ~run

\* Input on an installed descriptor is taken, however the thread learnt of
\* the descriptor, unless it is removed or the thread is stopped.
InputIsServed ==
    \A s \in Streams :
        run /\ s \in table \cap ready ~> s \notin table \cap ready \/ ~run

=============================================================================

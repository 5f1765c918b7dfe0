-------------------------- MODULE DispatchController --------------------------
(***************************************************************************)
(* ProtoDispatcher::Controller: the thread of a ProtoDispatcher waits for  *)
(* events and another thread, the controller (the GUI thread of a          *)
(* wxProtoApp), dispatches them (src/unpacked/protolib/src/common/         *)
(* protoDispatcher.cpp, include/protoDispatcher.h, src/wx/wxProtoApp.cpp). *)
(*                                                                         *)
(* The two take turns with lock_a and lock_b.  In each turn the thread     *)
(* holds one of them and the controller the other; the thread gives its    *)
(* own up, posts a cue and asks for the controller's, the controller takes *)
(* the thread's and gives its own up once it has dispatched.  use_lock_a   *)
(* says which is whose; the thread writes it, both read it.  suspend_mutex *)
(* and signal_mutex are those of ProtoDispatcher, which the controller     *)
(* also uses to change what the thread waits for, and to stop it.          *)
(***************************************************************************)
EXTENDS Integers

CONSTANTS
    Thread,     \* the dispatcher's thread
    Gui,        \* the controller's thread
    NoThread,   \* nobody
    MaxBacklog  \* bound: Waits that were not dispatched, which pile up once Stop was called

ASSUME ThreadAssumption ==
    Thread # Gui /\ NoThread \notin {Thread, Gui}
ASSUME BoundAssumption == MaxBacklog \in Nat \ {0}

VARIABLES
    mutex,        \* who holds each mutex
    useLockA,     \* use_lock_a
    controlled,   \* controller # NULL
    run,          \* run
    break,        \* something was written to the break descriptor
    breakSeen,    \* the last Wait returned with the break among its events
    undispatched, \* Waits whose events were not dispatched yet, less the dispatches without a Wait
    posted,       \* cues in the controller's event queue
    tpc,          \* where the thread is
    op,           \* what the controller does: "dispatch", "update" or "stop"
    cpc,          \* where in it the controller is
    branch        \* the value of use_lock_a that OnDispatch read

turnVars == <<useLockA, posted>>
eventVars == <<break, breakSeen, undispatched>>
guiVars == <<op, cpc, branch>>
vars == <<mutex, turnVars, controlled, run, eventVars, tpc, guiVars>>

Mutexes == {"lock_a", "lock_b", "suspend", "signal"}

TypeOK ==
    /\ mutex \in [Mutexes -> {Thread, Gui, NoThread}]
    /\ useLockA \in BOOLEAN /\ controlled \in BOOLEAN /\ run \in BOOLEAN
    /\ break \in BOOLEAN /\ breakSeen \in BOOLEAN /\ branch \in BOOLEAN
    /\ undispatched \in Nat /\ posted \in Nat
    /\ tpc \in {"none", "created", "starting", "top", "leave", "wait", "woken", "regain",
                "check", "relinquish", "call", "cue", "await", "flip", "retake", "own",
                "loop", "done", "crashed"}
    /\ op \in {"dispatch", "update", "stop"}
    /\ cpc \in {"idle", "suspend", "dispatch", "choose", "take", "give", "forget", "break",
                "signal", "unsignal", "resume", "stop", "join", "stopped"}

\* The controller's constructor locks lock_a.
Init ==
    /\ mutex = [m \in Mutexes |-> IF m = "lock_a" THEN Gui ELSE NoThread]
    /\ useLockA = TRUE /\ controlled = FALSE /\ run = FALSE
    /\ break = FALSE /\ breakSeen = FALSE
    /\ undispatched = 0 /\ posted = 0
    /\ tpc = "none"
    /\ op = "update" /\ cpc = "idle" /\ branch = TRUE

\* pthread_mutex_unlock does not ask who holds the mutex.
Lock(t, m) == mutex[m] = NoThread /\ mutex' = [mutex EXCEPT ![m] = t]
Unlock(m) == mutex' = [mutex EXCEPT ![m] = NoThread]

\* The lock the controller holds when its turn begins, and the thread's.
GuiLock(useA) == IF useA THEN "lock_a" ELSE "lock_b"
ThreadLock(useA) == IF useA THEN "lock_b" ELSE "lock_a"

Stopping == op = "stop"

-----------------------------------------------------------------------------
(* The thread.                                                             *)

Go(from, to) == tpc = from /\ tpc' = to

\* StartThread, by the controller's thread: the new one can but wait for it.
StartThread ==
    /\ Go("none", "created")
    /\ controlled' = TRUE
    /\ UNCHANGED <<mutex, turnVars, run, eventVars, guiVars>>

\* DoThreadStart.
LockFirst ==
    /\ Go("created", "starting")
    /\ Lock(Thread, "lock_b")
    /\ UNCHANGED <<turnVars, controlled, run, eventVars, guiVars>>

DoThreadStart ==
    /\ Go("starting", "top")
    /\ Lock(Thread, "suspend")
    /\ run' = TRUE
    /\ UNCHANGED <<turnVars, controlled, eventVars, guiVars>>

\* Run, around Wait.
EnterWindow ==
    /\ \/ Go("top", "leave") /\ Lock(Thread, "signal")
       \/ Go("leave", "wait") /\ Unlock("suspend")
    /\ UNCHANGED <<turnVars, controlled, run, eventVars, guiVars>>

Wait ==
    /\ Go("wait", "woken")
    /\ undispatched < MaxBacklog
    /\ breakSeen' = break
    /\ undispatched' = undispatched + 1
    /\ UNCHANGED <<mutex, turnVars, controlled, run, break, guiVars>>

LeaveWindow ==
    /\ \/ Go("woken", "regain") /\ Unlock("signal")
       \/ Go("regain", "check") /\ Lock(Thread, "suspend")
    /\ UNCHANGED <<turnVars, controlled, run, eventVars, guiVars>>

CheckController ==
    /\ IF controlled THEN Go("check", "relinquish") ELSE Go("check", "own")
    /\ UNCHANGED <<mutex, turnVars, controlled, run, eventVars, guiVars>>

Relinquish ==
    /\ Go("relinquish", "call")
    /\ Unlock("suspend")
    /\ UNCHANGED <<turnVars, controlled, run, eventVars, guiVars>>

\* Dispatch, by whoever runs it: the break is read if this Wait saw it, and a
\* callback may signal the thread.
Dispatch ==
    /\ undispatched' = undispatched - 1
    /\ break' \in {TRUE, break /\ ~breakSeen}
    /\ UNCHANGED breakSeen

DispatchOwn ==
    /\ Go("own", "loop")
    /\ Dispatch
    /\ UNCHANGED <<mutex, turnVars, controlled, run, guiVars>>

\* DoDispatch.  The controller pointer is read again for the call: after Stop
\* it is NULL.
CallThroughNull ==
    /\ ~controlled
    /\ Go("call", "crashed")
    /\ UNCHANGED <<mutex, turnVars, controlled, run, eventVars, guiVars>>

OpenTurn ==
    /\ controlled
    /\ Go("call", "cue")
    /\ Unlock(ThreadLock(useLockA))
    /\ UNCHANGED <<turnVars, controlled, run, eventVars, guiVars>>

SignalDispatchReady ==
    /\ Go("cue", "await")
    /\ posted' = posted + 1
    /\ UNCHANGED <<mutex, useLockA, controlled, run, eventVars, guiVars>>

\* Mutant of AwaitTurn: takes its own lock back.
AwaitOwnLock ==
    /\ Go("await", "flip")
    /\ Lock(Thread, ThreadLock(useLockA))
    /\ UNCHANGED <<turnVars, controlled, run, eventVars, guiVars>>

AwaitTurn ==
    /\ Go("await", "flip")
    /\ Lock(Thread, GuiLock(useLockA))
    /\ UNCHANGED <<turnVars, controlled, run, eventVars, guiVars>>

\* Mutant of FlipLocks: the locks keep their roles.
KeepLocks ==
    /\ Go("flip", "retake")
    /\ UNCHANGED <<mutex, turnVars, controlled, run, eventVars, guiVars>>

FlipLocks ==
    /\ Go("flip", "retake")
    /\ useLockA' = ~useLockA
    /\ UNCHANGED <<mutex, posted, controlled, run, eventVars, guiVars>>

Retake ==
    /\ Go("retake", "loop")
    /\ Lock(Thread, "suspend")
    /\ UNCHANGED <<turnVars, controlled, run, eventVars, guiVars>>

Loop ==
    /\ IF run THEN Go("loop", "top") /\ UNCHANGED mutex
              ELSE Go("loop", "done") /\ Unlock("suspend")
    /\ UNCHANGED <<turnVars, controlled, run, eventVars, guiVars>>

ThreadStep ==
    \/ LockFirst \/ DoThreadStart \/ EnterWindow \/ LeaveWindow
    \/ CheckController \/ Relinquish \/ DispatchOwn
    \/ CallThroughNull \/ OpenTurn \/ SignalDispatchReady \/ AwaitTurn \/ FlipLocks \/ Retake
    \/ Loop

-----------------------------------------------------------------------------
(* The controller.                                                         *)

GuiGo(from, to) == cpc = from /\ cpc' = to

\* The controller's event loop: a cue (OnDispatch), a handler that changes
\* what the thread waits for (SignalThread ... UnsignalThread), or the end.
Begin(o, label) ==
    /\ GuiGo("idle", label)
    /\ tpc # "none"
    /\ op' = o
    /\ UNCHANGED <<mutex, useLockA, controlled, run, eventVars, tpc, branch>>

TakeCue == posted > 0 /\ Begin("dispatch", "suspend") /\ posted' = posted - 1
Update == Begin("update", "suspend") /\ UNCHANGED posted
Stop == Begin("stop", "stop") /\ UNCHANGED posted

\* Stop calls OnThreadStop before it signals the thread.
OnThreadStop ==
    /\ GuiGo("stop", "forget")
    /\ Unlock(GuiLock(useLockA))
    /\ UNCHANGED <<turnVars, controlled, run, eventVars, tpc, op, branch>>

ForgetController ==
    /\ GuiGo("forget", "suspend")
    /\ controlled' = FALSE
    /\ UNCHANGED <<mutex, turnVars, run, eventVars, tpc, op, branch>>

\* SuspendThread, which spins until the thread has started.
SuspendThread ==
    /\ GuiGo("suspend", IF op = "dispatch" THEN "dispatch" ELSE "break")
    /\ tpc \notin {"created", "starting"}
    /\ Lock(Gui, "suspend")
    /\ UNCHANGED <<turnVars, controlled, run, eventVars, tpc, op, branch>>

\* OnDispatch.
OnDispatch ==
    /\ GuiGo("dispatch", "choose")
    /\ Dispatch
    /\ UNCHANGED <<mutex, turnVars, controlled, run, tpc, op, branch>>

ChooseLocks ==
    /\ GuiGo("choose", "take")
    /\ branch' = useLockA
    /\ UNCHANGED <<mutex, turnVars, controlled, run, eventVars, tpc, op>>

\* Mutant of TakeThreadLock: goes on without the thread's lock.
TakeNoLock ==
    /\ GuiGo("take", "give")
    /\ UNCHANGED <<mutex, turnVars, controlled, run, eventVars, tpc, op, branch>>

TakeThreadLock ==
    /\ GuiGo("take", "give")
    /\ Lock(Gui, ThreadLock(branch))
    /\ UNCHANGED <<turnVars, controlled, run, eventVars, tpc, op, branch>>

\* Mutant of GiveOwnLock: gives the lock up that it has just taken.
GiveThreadLock ==
    /\ GuiGo("give", "resume")
    /\ Unlock(ThreadLock(branch))
    /\ UNCHANGED <<turnVars, controlled, run, eventVars, tpc, op, branch>>

GiveOwnLock ==
    /\ GuiGo("give", "resume")
    /\ Unlock(GuiLock(branch))
    /\ UNCHANGED <<turnVars, controlled, run, eventVars, tpc, op, branch>>

\* SignalThread and UnsignalThread; Stop ends the thread's loop in between.
SetBreak ==
    /\ GuiGo("break", "signal")
    /\ break' = TRUE
    /\ UNCHANGED <<mutex, turnVars, controlled, run, breakSeen, undispatched, tpc, op, branch>>

LockSignal ==
    /\ GuiGo("signal", "unsignal")
    /\ Lock(Gui, "signal")
    /\ run' = (run /\ ~Stopping)
    /\ UNCHANGED <<turnVars, controlled, eventVars, tpc, op, branch>>

UnlockSignal ==
    /\ GuiGo("unsignal", "resume")
    /\ Unlock("signal")
    /\ UNCHANGED <<turnVars, controlled, run, eventVars, tpc, op, branch>>

ResumeThread ==
    /\ GuiGo("resume", IF Stopping THEN "join" ELSE "idle")
    /\ Unlock("suspend")
    /\ UNCHANGED <<turnVars, controlled, run, eventVars, tpc, op, branch>>

Join ==
    /\ GuiGo("join", "stopped")
    /\ tpc = "done"
    /\ UNCHANGED <<mutex, turnVars, controlled, run, eventVars, tpc, op, branch>>

CallStep ==
    \/ OnThreadStop \/ ForgetController \/ SuspendThread
    \/ OnDispatch \/ ChooseLocks \/ TakeThreadLock \/ GiveOwnLock
    \/ SetBreak \/ LockSignal \/ UnlockSignal \/ ResumeThread \/ Join

Next == StartThread \/ ThreadStep \/ Wait \/ CallStep \/ TakeCue \/ Update \/ Stop

Spec == Init /\ [][Next]_vars

\* Both threads run, and select returns when the break is set.  Between two
\* handlers the event loop sleeps longer than a waiter needs to get a mutex
\* that is free, and it serves its queue however many handlers come first.
FairSpec ==
    /\ Spec
    /\ SF_vars(ThreadStep)
    /\ WF_vars(break /\ Wait)
    /\ WF_vars(CallStep)
    /\ SF_vars(TakeCue)

-----------------------------------------------------------------------------

\* protoDispatcher.cpp:2718-2760: what one Wait found is dispatched once,
\* before the thread waits again, by the controller, while the thread stands
\* still in DoDispatch: the descriptor sets are never those of another Wait.
OneDispatchPerWait ==
    ~Stopping =>
        /\ undispatched \in {0, 1}
        /\ tpc \in {"top", "leave", "wait"} => undispatched = 0
        /\ op = "dispatch" /\ cpc = "dispatch" => undispatched = 1 /\ tpc \in {"await"}

\* protoDispatcher.cpp:2721-2757: each side unlocks a mutex only while it holds
\* it (for another's the effect is undefined), so both agree on use_lock_a
\* although nothing but the turns protects it.
UnlocksItsOwn ==
    ~Stopping =>
        /\ tpc = "call" => mutex[ThreadLock(useLockA)] = Thread
        /\ cpc = "give" => branch = useLockA /\ mutex[GuiLock(branch)] = Gui

\* The turn the thread has opened ends and it waits again, and what the
\* controller calls returns: no deadlock among the four mutexes, until Stop.
TurnEnds == tpc = "call" ~> tpc = "top" \/ Stopping
HandlersReturn == cpc # "idle" ~> cpc = "idle" \/ Stopping
================================================================================

--------------------- MODULE DispatchController_proofs ---------------------
(***************************************************************************)
(* Proofs about DispatchController: until Stop is called the two locks     *)
(* make the thread and the controller take turns.                          *)
(***************************************************************************)
EXTENDS DispatchController, TLAPS

\* Who is where holds suspend_mutex and signal_mutex, and what a Wait found is
\* there to be dispatched.
Holders ==
    /\ mutex["suspend"] = Thread <=> tpc \in {"top", "leave", "check", "relinquish", "own", "loop"}
    /\ mutex["suspend"] = Gui <=>
           cpc \in {"dispatch", "choose", "take", "give", "break", "signal", "unsignal", "resume"}
    /\ mutex["signal"] = Thread <=> tpc \in {"leave", "wait", "woken"}
    /\ mutex["signal"] = Gui <=> cpc = "unsignal"
    /\ tpc \in {"woken", "regain", "check", "own", "relinquish", "call"} => undispatched >= 1

\* The place the controller is at fits what it does; Stop is the last thing.
CallShape ==
    /\ cpc \in {"dispatch", "choose", "take", "give"} => op = "dispatch"
    /\ cpc \in {"break", "signal", "unsignal"} => op # "dispatch"
    /\ cpc \in {"stop", "forget", "join", "stopped"} => Stopping
    /\ Stopping => cpc # "idle"

Dispatching == op = "dispatch" /\ cpc # "idle"

\* How far the turn is that the thread has opened: the cue is in the queue, the
\* controller is about to dispatch, has dispatched, has taken the thread's
\* lock, or has given its own up.
Opened ==
    \/ /\ posted = 1 /\ ~Dispatching /\ undispatched = 1
       /\ mutex[ThreadLock(useLockA)] = NoThread /\ mutex[GuiLock(useLockA)] = Gui
    \/ /\ posted = 0 /\ Dispatching /\ cpc \in {"suspend", "dispatch"} /\ undispatched = 1
       /\ mutex[ThreadLock(useLockA)] = NoThread /\ mutex[GuiLock(useLockA)] = Gui
    \/ /\ posted = 0 /\ Dispatching /\ cpc \in {"choose", "take"} /\ undispatched = 0
       /\ mutex[ThreadLock(useLockA)] = NoThread /\ mutex[GuiLock(useLockA)] = Gui
       /\ cpc = "take" => branch = useLockA
    \/ /\ posted = 0 /\ Dispatching /\ cpc = "give" /\ undispatched = 0 /\ branch = useLockA
       /\ mutex[ThreadLock(useLockA)] = Gui /\ mutex[GuiLock(useLockA)] = Gui
    \/ /\ posted = 0 /\ (Dispatching => cpc = "resume") /\ undispatched = 0
       /\ mutex[ThreadLock(useLockA)] = Gui /\ mutex[GuiLock(useLockA)] = NoThread

\* Who holds lock_a and lock_b, and whose turn it is, by the thread's place.
Turn ==
    /\ tpc \notin {"own", "crashed", "done"}
    /\ controlled <=> tpc # "none"
    /\ tpc \notin {"none", "created", "starting"} => run
    /\ tpc \in {"none", "created"} =>
           /\ useLockA /\ mutex["lock_a"] = Gui /\ mutex["lock_b"] = NoThread
    /\ tpc \in {"starting", "top", "leave", "wait", "woken", "regain", "check", "relinquish",
                "call", "retake", "loop"} =>
           mutex[ThreadLock(useLockA)] = Thread /\ mutex[GuiLock(useLockA)] = Gui
    /\ tpc = "cue" => mutex[ThreadLock(useLockA)] = NoThread /\ mutex[GuiLock(useLockA)] = Gui
    /\ tpc = "await" => Opened
    /\ tpc = "flip" => mutex[ThreadLock(useLockA)] = Gui /\ mutex[GuiLock(useLockA)] = Thread
    /\ tpc # "await" => posted = 0 /\ (Dispatching => cpc = "resume")
    /\ Dispatching => tpc \in {"await", "flip", "retake"}
    /\ tpc \in {"none", "created", "starting", "top", "leave", "wait", "flip", "retake", "loop"} =>
           undispatched = 0
    /\ tpc \in {"woken", "regain", "check", "relinquish", "call", "cue"} => undispatched = 1

IInv ==
    /\ TypeOK
    /\ Holders
    /\ CallShape
    /\ ~Stopping => Turn

-----------------------------------------------------------------------------

\* The inductive invariant holds initially.
LEMMA InitIInv == Init => IInv
<1> SUFFICES ASSUME Init PROVE IInv
  OBVIOUS
<1>1. TypeOK
  BY ThreadAssumption DEF Init, TypeOK, Mutexes
<1>2. Holders
  BY ThreadAssumption DEF Init, Holders, Mutexes
<1>3. CallShape
  BY DEF Init, CallShape, Stopping
<1>4. Turn
  BY ThreadAssumption DEF Init, Turn, Mutexes, Dispatching
<1> QED
  BY <1>1, <1>2, <1>3, <1>4 DEF IInv

\* Every step keeps it: one step of the proof for each action.
LEMMA NextIInv == IInv /\ [Next]_vars => IInv'
<1> SUFFICES ASSUME IInv, [Next]_vars PROVE IInv'
  OBVIOUS
<1> USE ThreadAssumption, BoundAssumption DEF IInv
<1>1. CASE LockFirst
  <2>1. TypeOK'
    BY <1>1 DEF LockFirst, turnVars, eventVars, guiVars, Go, Lock, TypeOK, Mutexes
  <2>2. Holders'
    BY <1>1 DEF LockFirst, turnVars, eventVars, guiVars, Go, Lock, Holders, TypeOK, Mutexes
  <2>3. CallShape'
    BY <1>1 DEF LockFirst, turnVars, eventVars, guiVars, Go, Lock, CallShape, Stopping
  <2>4. (~Stopping => Turn)'
    BY <1>1 DEF LockFirst, turnVars, eventVars, guiVars, Go, Lock, Turn, Opened,
        Dispatching, Stopping, GuiLock, ThreadLock, Holders, CallShape, TypeOK, Mutexes
  <2> QED
    BY <2>1, <2>2, <2>3, <2>4
<1>2. CASE DoThreadStart
  <2>1. TypeOK'
    BY <1>2 DEF DoThreadStart, turnVars, eventVars, guiVars, Go, Lock, TypeOK, Mutexes
  <2>2. Holders'
    BY <1>2 DEF DoThreadStart, turnVars, eventVars, guiVars, Go, Lock, Holders, TypeOK,
        Mutexes
  <2>3. CallShape'
    BY <1>2 DEF DoThreadStart, turnVars, eventVars, guiVars, Go, Lock, CallShape, Stopping
  <2>4. (~Stopping => Turn)'
    BY <1>2 DEF DoThreadStart, turnVars, eventVars, guiVars, Go, Lock, Turn, Opened,
        Dispatching, Stopping, GuiLock, ThreadLock, Holders, CallShape, TypeOK, Mutexes
  <2> QED
    BY <2>1, <2>2, <2>3, <2>4
<1>3. CASE EnterWindow
  <2>1. TypeOK'
    BY <1>3 DEF EnterWindow, turnVars, eventVars, guiVars, Go, Lock, Unlock, TypeOK, Mutexes
  <2>2. Holders'
    BY <1>3 DEF EnterWindow, turnVars, eventVars, guiVars, Go, Lock, Unlock, Holders,
        TypeOK, Mutexes
  <2>3. CallShape'
    BY <1>3 DEF EnterWindow, turnVars, eventVars, guiVars, Go, Lock, Unlock, CallShape,
        Stopping
  <2>4. (~Stopping => Turn)'
    BY <1>3 DEF EnterWindow, turnVars, eventVars, guiVars, Go, Lock, Unlock, Turn, Opened,
        Dispatching, Stopping, GuiLock, ThreadLock, Holders, CallShape, TypeOK, Mutexes
  <2> QED
    BY <2>1, <2>2, <2>3, <2>4
<1>4. CASE LeaveWindow
  <2>1. TypeOK'
    BY <1>4 DEF LeaveWindow, turnVars, eventVars, guiVars, Go, Lock, Unlock, TypeOK, Mutexes
  <2>2. Holders'
    BY <1>4 DEF LeaveWindow, turnVars, eventVars, guiVars, Go, Lock, Unlock, Holders,
        TypeOK, Mutexes
  <2>3. CallShape'
    BY <1>4 DEF LeaveWindow, turnVars, eventVars, guiVars, Go, Lock, Unlock, CallShape,
        Stopping
  <2>4. (~Stopping => Turn)'
    BY <1>4 DEF LeaveWindow, turnVars, eventVars, guiVars, Go, Lock, Unlock, Turn, Opened,
        Dispatching, Stopping, GuiLock, ThreadLock, Holders, CallShape, TypeOK, Mutexes
  <2> QED
    BY <2>1, <2>2, <2>3, <2>4
<1>5. CASE CheckController
  <2>1. TypeOK'
    BY <1>5 DEF CheckController, turnVars, eventVars, guiVars, Go, TypeOK
  <2>2. Holders'
    BY <1>5 DEF CheckController, turnVars, eventVars, guiVars, Go, Holders, TypeOK
  <2>3. CallShape'
    BY <1>5 DEF CheckController, turnVars, eventVars, guiVars, Go, CallShape, Stopping
  <2>4. (~Stopping => Turn)'
    BY <1>5 DEF CheckController, turnVars, eventVars, guiVars, Go, Turn, Opened,
        Dispatching, Stopping, GuiLock, ThreadLock, Holders, CallShape, TypeOK, Mutexes
  <2> QED
    BY <2>1, <2>2, <2>3, <2>4
<1>6. CASE Relinquish
  <2>1. TypeOK'
    BY <1>6 DEF Relinquish, turnVars, eventVars, guiVars, Go, Unlock, TypeOK, Mutexes
  <2>2. Holders'
    BY <1>6 DEF Relinquish, turnVars, eventVars, guiVars, Go, Unlock, Holders, TypeOK,
        Mutexes
  <2>3. CallShape'
    BY <1>6 DEF Relinquish, turnVars, eventVars, guiVars, Go, Unlock, CallShape, Stopping
  <2>4. (~Stopping => Turn)'
    BY <1>6 DEF Relinquish, turnVars, eventVars, guiVars, Go, Unlock, Turn, Opened,
        Dispatching, Stopping, GuiLock, ThreadLock, Holders, CallShape, TypeOK, Mutexes
  <2> QED
    BY <2>1, <2>2, <2>3, <2>4
<1>7. CASE DispatchOwn
  <2>1. TypeOK'
    <3>1. break' \in BOOLEAN
      BY <1>7, Zenon DEF DispatchOwn, Dispatch, TypeOK
    <3>2. undispatched >= 1
      BY <1>7 DEF DispatchOwn, Go, Holders
    <3>3. undispatched' \in Nat
      BY <1>7, <3>2 DEF DispatchOwn, Dispatch, TypeOK
    <3> QED
      BY <1>7, <3>1, <3>3 DEF DispatchOwn, turnVars, guiVars, Go, Dispatch, TypeOK
  <2>2. Holders'
    BY <1>7 DEF DispatchOwn, turnVars, guiVars, Go, Dispatch, Holders, TypeOK
  <2>3. CallShape'
    BY <1>7 DEF DispatchOwn, turnVars, guiVars, Go, Dispatch, CallShape, Stopping
  <2>4. (~Stopping => Turn)'
    BY <1>7 DEF DispatchOwn, turnVars, guiVars, Go, Dispatch, Turn, Opened, Dispatching,
        Stopping, GuiLock, ThreadLock, Holders, CallShape, TypeOK, Mutexes
  <2> QED
    BY <2>1, <2>2, <2>3, <2>4
<1>8. CASE CallThroughNull
  <2>1. TypeOK'
    BY <1>8 DEF CallThroughNull, turnVars, eventVars, guiVars, Go, TypeOK
  <2>2. Holders'
    BY <1>8 DEF CallThroughNull, turnVars, eventVars, guiVars, Go, Holders, TypeOK
  <2>3. CallShape'
    BY <1>8 DEF CallThroughNull, turnVars, eventVars, guiVars, Go, CallShape, Stopping
  <2>4. (~Stopping => Turn)'
    BY <1>8 DEF CallThroughNull, turnVars, eventVars, guiVars, Go, Turn, Opened,
        Dispatching, Stopping, GuiLock, ThreadLock, Holders, CallShape, TypeOK, Mutexes
  <2> QED
    BY <2>1, <2>2, <2>3, <2>4
<1>9. CASE OpenTurn
  <2>1. TypeOK'
    BY <1>9 DEF OpenTurn, turnVars, eventVars, guiVars, Go, Unlock, ThreadLock, TypeOK,
        Mutexes
  <2>2. Holders'
    BY <1>9 DEF OpenTurn, turnVars, eventVars, guiVars, Go, Unlock, ThreadLock, Holders,
        TypeOK, Mutexes
  <2>3. CallShape'
    BY <1>9 DEF OpenTurn, turnVars, eventVars, guiVars, Go, Unlock, ThreadLock, CallShape,
        Stopping
  <2>4. (~Stopping => Turn)'
    BY <1>9 DEF OpenTurn, turnVars, eventVars, guiVars, Go, Unlock, ThreadLock, Turn,
        Opened, Dispatching, Stopping, GuiLock, Holders, CallShape, TypeOK, Mutexes
  <2> QED
    BY <2>1, <2>2, <2>3, <2>4
<1>10. CASE SignalDispatchReady
  <2>1. TypeOK'
    BY <1>10 DEF SignalDispatchReady, eventVars, guiVars, Go, TypeOK
  <2>2. Holders'
    BY <1>10 DEF SignalDispatchReady, eventVars, guiVars, Go, Holders, TypeOK
  <2>3. CallShape'
    BY <1>10 DEF SignalDispatchReady, eventVars, guiVars, Go, CallShape, Stopping
  <2>4. (~Stopping => Turn)'
    BY <1>10 DEF SignalDispatchReady, eventVars, guiVars, Go, Turn, Opened, Dispatching,
        Stopping, GuiLock, ThreadLock, Holders, CallShape, TypeOK, Mutexes
  <2> QED
    BY <2>1, <2>2, <2>3, <2>4
<1>11. CASE AwaitTurn
  <2>1. TypeOK'
    BY <1>11 DEF AwaitTurn, turnVars, eventVars, guiVars, Go, Lock, GuiLock, TypeOK, Mutexes
  <2>2. Holders'
    BY <1>11 DEF AwaitTurn, turnVars, eventVars, guiVars, Go, Lock, GuiLock, Holders,
        TypeOK, Mutexes
  <2>3. CallShape'
    BY <1>11 DEF AwaitTurn, turnVars, eventVars, guiVars, Go, Lock, GuiLock, CallShape,
        Stopping
  <2>4. (~Stopping => Turn)'
    BY <1>11 DEF AwaitTurn, turnVars, eventVars, guiVars, Go, Lock, GuiLock, Turn, Opened,
        Dispatching, Stopping, ThreadLock, Holders, CallShape, TypeOK, Mutexes
  <2> QED
    BY <2>1, <2>2, <2>3, <2>4
<1>12. CASE FlipLocks
  <2>1. TypeOK'
    BY <1>12 DEF FlipLocks, eventVars, guiVars, Go, TypeOK
  <2>2. Holders'
    BY <1>12 DEF FlipLocks, eventVars, guiVars, Go, Holders, TypeOK
  <2>3. CallShape'
    BY <1>12 DEF FlipLocks, eventVars, guiVars, Go, CallShape, Stopping
  <2>4. (~Stopping => Turn)'
    BY <1>12 DEF FlipLocks, eventVars, guiVars, Go, Turn, Opened, Dispatching, Stopping,
        GuiLock, ThreadLock, Holders, CallShape, TypeOK, Mutexes
  <2> QED
    BY <2>1, <2>2, <2>3, <2>4
<1>13. CASE Retake
  <2>1. TypeOK'
    BY <1>13 DEF Retake, turnVars, eventVars, guiVars, Go, Lock, TypeOK, Mutexes
  <2>2. Holders'
    BY <1>13 DEF Retake, turnVars, eventVars, guiVars, Go, Lock, Holders, TypeOK, Mutexes
  <2>3. CallShape'
    BY <1>13 DEF Retake, turnVars, eventVars, guiVars, Go, Lock, CallShape, Stopping
  <2>4. (~Stopping => Turn)'
    BY <1>13 DEF Retake, turnVars, eventVars, guiVars, Go, Lock, Turn, Opened, Dispatching,
        Stopping, GuiLock, ThreadLock, Holders, CallShape, TypeOK, Mutexes
  <2> QED
    BY <2>1, <2>2, <2>3, <2>4
<1>14. CASE Loop
  <2>1. TypeOK'
    BY <1>14 DEF Loop, turnVars, eventVars, guiVars, Go, Unlock, TypeOK, Mutexes
  <2>2. Holders'
    BY <1>14 DEF Loop, turnVars, eventVars, guiVars, Go, Unlock, Holders, TypeOK, Mutexes
  <2>3. CallShape'
    BY <1>14 DEF Loop, turnVars, eventVars, guiVars, Go, Unlock, CallShape, Stopping
  <2>4. (~Stopping => Turn)'
    BY <1>14 DEF Loop, turnVars, eventVars, guiVars, Go, Unlock, Turn, Opened, Dispatching,
        Stopping, GuiLock, ThreadLock, Holders, CallShape, TypeOK, Mutexes
  <2> QED
    BY <2>1, <2>2, <2>3, <2>4
<1>15. CASE OnThreadStop
  <2>1. TypeOK'
    BY <1>15 DEF OnThreadStop, turnVars, eventVars, GuiGo, Unlock, GuiLock, TypeOK, Mutexes
  <2>2. Holders'
    BY <1>15 DEF OnThreadStop, turnVars, eventVars, GuiGo, Unlock, GuiLock, Holders, TypeOK,
        Mutexes
  <2>3. CallShape'
    BY <1>15 DEF OnThreadStop, turnVars, eventVars, GuiGo, Unlock, GuiLock, CallShape,
        Stopping
  <2>4. (~Stopping => Turn)'
    BY <1>15 DEF OnThreadStop, turnVars, eventVars, GuiGo, Unlock, GuiLock, Turn, Opened,
        Dispatching, Stopping, ThreadLock, Holders, CallShape, TypeOK, Mutexes
  <2> QED
    BY <2>1, <2>2, <2>3, <2>4
<1>16. CASE ForgetController
  <2>1. TypeOK'
    BY <1>16 DEF ForgetController, turnVars, eventVars, GuiGo, TypeOK
  <2>2. Holders'
    BY <1>16 DEF ForgetController, turnVars, eventVars, GuiGo, Holders, TypeOK
  <2>3. CallShape'
    BY <1>16 DEF ForgetController, turnVars, eventVars, GuiGo, CallShape, Stopping
  <2>4. (~Stopping => Turn)'
    BY <1>16 DEF ForgetController, turnVars, eventVars, GuiGo, Turn, Opened, Dispatching,
        Stopping, GuiLock, ThreadLock, Holders, CallShape, TypeOK, Mutexes
  <2> QED
    BY <2>1, <2>2, <2>3, <2>4
<1>17. CASE SuspendThread
  <2>1. TypeOK'
    BY <1>17 DEF SuspendThread, turnVars, eventVars, GuiGo, Lock, TypeOK, Mutexes
  <2>2. Holders'
    BY <1>17 DEF SuspendThread, turnVars, eventVars, GuiGo, Lock, Holders, TypeOK, Mutexes
  <2>3. CallShape'
    BY <1>17 DEF SuspendThread, turnVars, eventVars, GuiGo, Lock, CallShape, Stopping
  <2>4. (~Stopping => Turn)'
    BY <1>17 DEF SuspendThread, turnVars, eventVars, GuiGo, Lock, Turn, Opened, Dispatching,
        Stopping, GuiLock, ThreadLock, Holders, CallShape, TypeOK, Mutexes
  <2> QED
    BY <2>1, <2>2, <2>3, <2>4
<1>18. CASE OnDispatch
  <2>1. TypeOK'
    <3>1. break' \in BOOLEAN
      BY <1>18, Zenon DEF OnDispatch, Dispatch, TypeOK
    <3>2. undispatched >= 1
      BY <1>18 DEF OnDispatch, GuiGo, CallShape, Stopping, Turn, Opened, Dispatching
    <3>3. undispatched' \in Nat
      BY <1>18, <3>2 DEF OnDispatch, Dispatch, TypeOK
    <3> QED
      BY <1>18, <3>1, <3>3 DEF OnDispatch, turnVars, GuiGo, Dispatch, TypeOK
  <2>2. Holders'
    BY <1>18 DEF OnDispatch, turnVars, GuiGo, Dispatch, Holders, TypeOK, CallShape,
        Stopping, Turn, Dispatching
  <2>3. CallShape'
    BY <1>18 DEF OnDispatch, turnVars, GuiGo, Dispatch, CallShape, Stopping
  <2>4. (~Stopping => Turn)'
    BY <1>18 DEF OnDispatch, turnVars, GuiGo, Dispatch, Turn, Opened, Dispatching, Stopping,
        GuiLock, ThreadLock, Holders, CallShape, TypeOK, Mutexes
  <2> QED
    BY <2>1, <2>2, <2>3, <2>4
<1>19. CASE ChooseLocks
  <2>1. TypeOK'
    BY <1>19 DEF ChooseLocks, turnVars, eventVars, GuiGo, TypeOK
  <2>2. Holders'
    BY <1>19 DEF ChooseLocks, turnVars, eventVars, GuiGo, Holders, TypeOK
  <2>3. CallShape'
    BY <1>19 DEF ChooseLocks, turnVars, eventVars, GuiGo, CallShape, Stopping
  <2>4. (~Stopping => Turn)'
    BY <1>19 DEF ChooseLocks, turnVars, eventVars, GuiGo, Turn, Opened, Dispatching,
        Stopping, GuiLock, ThreadLock, Holders, CallShape, TypeOK, Mutexes
  <2> QED
    BY <2>1, <2>2, <2>3, <2>4
<1>20. CASE TakeThreadLock
  <2>1. TypeOK'
    BY <1>20 DEF TakeThreadLock, turnVars, eventVars, GuiGo, Lock, ThreadLock, TypeOK,
        Mutexes
  <2>2. Holders'
    BY <1>20 DEF TakeThreadLock, turnVars, eventVars, GuiGo, Lock, ThreadLock, Holders,
        TypeOK, Mutexes
  <2>3. CallShape'
    BY <1>20 DEF TakeThreadLock, turnVars, eventVars, GuiGo, Lock, ThreadLock, CallShape,
        Stopping
  <2>4. (~Stopping => Turn)'
    BY <1>20 DEF TakeThreadLock, turnVars, eventVars, GuiGo, Lock, ThreadLock, Turn, Opened,
        Dispatching, Stopping, GuiLock, Holders, CallShape, TypeOK, Mutexes
  <2> QED
    BY <2>1, <2>2, <2>3, <2>4
<1>21. CASE GiveOwnLock
  <2>1. TypeOK'
    BY <1>21 DEF GiveOwnLock, turnVars, eventVars, GuiGo, Unlock, GuiLock, TypeOK, Mutexes
  <2>2. Holders'
    BY <1>21 DEF GiveOwnLock, turnVars, eventVars, GuiGo, Unlock, GuiLock, Holders, TypeOK,
        Mutexes
  <2>3. CallShape'
    BY <1>21 DEF GiveOwnLock, turnVars, eventVars, GuiGo, Unlock, GuiLock, CallShape,
        Stopping
  <2>4. (~Stopping => Turn)'
    BY <1>21 DEF GiveOwnLock, turnVars, eventVars, GuiGo, Unlock, GuiLock, Turn, Opened,
        Dispatching, Stopping, ThreadLock, Holders, CallShape, TypeOK, Mutexes
  <2> QED
    BY <2>1, <2>2, <2>3, <2>4
<1>22. CASE SetBreak
  <2>1. TypeOK'
    BY <1>22 DEF SetBreak, turnVars, GuiGo, TypeOK
  <2>2. Holders'
    BY <1>22 DEF SetBreak, turnVars, GuiGo, Holders, TypeOK
  <2>3. CallShape'
    BY <1>22 DEF SetBreak, turnVars, GuiGo, CallShape, Stopping
  <2>4. (~Stopping => Turn)'
    BY <1>22 DEF SetBreak, turnVars, GuiGo, Turn, Opened, Dispatching, Stopping, GuiLock,
        ThreadLock, Holders, CallShape, TypeOK, Mutexes
  <2> QED
    BY <2>1, <2>2, <2>3, <2>4
<1>23. CASE LockSignal
  <2>1. TypeOK'
    BY <1>23 DEF LockSignal, turnVars, eventVars, GuiGo, Lock, Stopping, TypeOK, Mutexes
  <2>2. Holders'
    BY <1>23 DEF LockSignal, turnVars, eventVars, GuiGo, Lock, Stopping, Holders, TypeOK,
        Mutexes
  <2>3. CallShape'
    BY <1>23 DEF LockSignal, turnVars, eventVars, GuiGo, Lock, Stopping, CallShape
  <2>4. (~Stopping => Turn)'
    BY <1>23 DEF LockSignal, turnVars, eventVars, GuiGo, Lock, Stopping, Turn, Opened,
        Dispatching, GuiLock, ThreadLock, Holders, CallShape, TypeOK, Mutexes
  <2> QED
    BY <2>1, <2>2, <2>3, <2>4
<1>24. CASE UnlockSignal
  <2>1. TypeOK'
    BY <1>24 DEF UnlockSignal, turnVars, eventVars, GuiGo, Unlock, TypeOK, Mutexes
  <2>2. Holders'
    BY <1>24 DEF UnlockSignal, turnVars, eventVars, GuiGo, Unlock, Holders, TypeOK, Mutexes
  <2>3. CallShape'
    BY <1>24 DEF UnlockSignal, turnVars, eventVars, GuiGo, Unlock, CallShape, Stopping
  <2>4. (~Stopping => Turn)'
    BY <1>24 DEF UnlockSignal, turnVars, eventVars, GuiGo, Unlock, Turn, Opened,
        Dispatching, Stopping, GuiLock, ThreadLock, Holders, CallShape, TypeOK, Mutexes
  <2> QED
    BY <2>1, <2>2, <2>3, <2>4
<1>25. CASE ResumeThread
  <2>1. TypeOK'
    BY <1>25 DEF ResumeThread, turnVars, eventVars, GuiGo, Unlock, Stopping, TypeOK, Mutexes
  <2>2. Holders'
    BY <1>25 DEF ResumeThread, turnVars, eventVars, GuiGo, Unlock, Stopping, Holders,
        TypeOK, Mutexes
  <2>3. CallShape'
    BY <1>25 DEF ResumeThread, turnVars, eventVars, GuiGo, Unlock, Stopping, CallShape
  <2>4. (~Stopping => Turn)'
    BY <1>25 DEF ResumeThread, turnVars, eventVars, GuiGo, Unlock, Stopping, Turn, Opened,
        Dispatching, GuiLock, ThreadLock, Holders, CallShape, TypeOK, Mutexes
  <2> QED
    BY <2>1, <2>2, <2>3, <2>4
<1>26. CASE Join
  <2>1. TypeOK'
    BY <1>26 DEF Join, turnVars, eventVars, GuiGo, TypeOK
  <2>2. Holders'
    BY <1>26 DEF Join, turnVars, eventVars, GuiGo, Holders, TypeOK
  <2>3. CallShape'
    BY <1>26 DEF Join, turnVars, eventVars, GuiGo, CallShape, Stopping
  <2>4. (~Stopping => Turn)'
    BY <1>26 DEF Join, turnVars, eventVars, GuiGo, Turn, Opened, Dispatching, Stopping,
        GuiLock, ThreadLock, Holders, CallShape, TypeOK, Mutexes
  <2> QED
    BY <2>1, <2>2, <2>3, <2>4
<1>27. CASE StartThread
  <2>1. TypeOK'
    BY <1>27 DEF StartThread, turnVars, eventVars, guiVars, Go, TypeOK
  <2>2. Holders'
    BY <1>27 DEF StartThread, turnVars, eventVars, guiVars, Go, Holders, TypeOK
  <2>3. CallShape'
    BY <1>27 DEF StartThread, turnVars, eventVars, guiVars, Go, CallShape, Stopping
  <2>4. (~Stopping => Turn)'
    BY <1>27 DEF StartThread, turnVars, eventVars, guiVars, Go, Turn, Opened, Dispatching,
        Stopping, GuiLock, ThreadLock, Holders, CallShape, TypeOK, Mutexes
  <2> QED
    BY <2>1, <2>2, <2>3, <2>4
<1>28. CASE Wait
  <2>1. TypeOK'
    BY <1>28 DEF Wait, turnVars, guiVars, Go, TypeOK
  <2>2. Holders'
    BY <1>28 DEF Wait, turnVars, guiVars, Go, Holders, TypeOK
  <2>3. CallShape'
    BY <1>28 DEF Wait, turnVars, guiVars, Go, CallShape, Stopping
  <2>4. (~Stopping => Turn)'
    BY <1>28 DEF Wait, turnVars, guiVars, Go, Turn, Opened, Dispatching, Stopping, GuiLock,
        ThreadLock, Holders, CallShape, TypeOK, Mutexes
  <2> QED
    BY <2>1, <2>2, <2>3, <2>4
<1>29. CASE TakeCue
  <2>1. TypeOK'
    BY <1>29 DEF TakeCue, Begin, eventVars, GuiGo, TypeOK
  <2>2. Holders'
    BY <1>29 DEF TakeCue, Begin, eventVars, GuiGo, Holders, TypeOK
  <2>3. CallShape'
    BY <1>29 DEF TakeCue, Begin, eventVars, GuiGo, CallShape, Stopping
  <2>4. (~Stopping => Turn)'
    BY <1>29 DEF TakeCue, Begin, eventVars, GuiGo, Turn, Opened, Dispatching, Stopping,
        GuiLock, ThreadLock, Holders, CallShape, TypeOK, Mutexes
  <2> QED
    BY <2>1, <2>2, <2>3, <2>4
<1>30. CASE Update
  <2>1. TypeOK'
    BY <1>30 DEF Update, Begin, eventVars, GuiGo, TypeOK
  <2>2. Holders'
    BY <1>30 DEF Update, Begin, eventVars, GuiGo, Holders, TypeOK
  <2>3. CallShape'
    BY <1>30 DEF Update, Begin, eventVars, GuiGo, CallShape, Stopping
  <2>4. (~Stopping => Turn)'
    BY <1>30 DEF Update, Begin, eventVars, GuiGo, Turn, Opened, Dispatching, Stopping,
        GuiLock, ThreadLock, Holders, CallShape, TypeOK, Mutexes
  <2> QED
    BY <2>1, <2>2, <2>3, <2>4
<1>31. CASE Stop
  <2>1. TypeOK'
    BY <1>31 DEF Stop, Begin, eventVars, GuiGo, TypeOK
  <2>2. Holders'
    BY <1>31 DEF Stop, Begin, eventVars, GuiGo, Holders, TypeOK
  <2>3. CallShape'
    BY <1>31 DEF Stop, Begin, eventVars, GuiGo, CallShape, Stopping
  <2>4. (~Stopping => Turn)'
    BY <1>31 DEF Stop, Begin, eventVars, GuiGo, Turn, Opened, Dispatching, Stopping,
        GuiLock, ThreadLock, Holders, CallShape, TypeOK, Mutexes
  <2> QED
    BY <2>1, <2>2, <2>3, <2>4
<1>32. CASE UNCHANGED vars
  BY <1>32 DEF vars, turnVars, eventVars, guiVars, TypeOK, Holders, CallShape, Stopping,
      Turn, Opened, Dispatching
<1> QED
  BY <1>1, <1>2, <1>3, <1>4, <1>5, <1>6, <1>7, <1>8, <1>9, <1>10, <1>11, <1>12, <1>13,
      <1>14, <1>15, <1>16, <1>17, <1>18, <1>19, <1>20, <1>21, <1>22, <1>23, <1>24, <1>25,
      <1>26, <1>27, <1>28, <1>29, <1>30, <1>31, <1>32 DEF Next, ThreadStep, CallStep
LEMMA InvIInv == Spec => []IInv
<1>1. Init => IInv
  BY InitIInv
<1>2. IInv /\ [Next]_vars => IInv'
  BY NextIInv
<1> QED
  BY <1>1, <1>2, PTL DEF Spec

\* Type correctness.
THEOREM TypeCorrect == Spec => []TypeOK
<1>1. IInv => TypeOK
  BY DEF IInv
<1> QED
  BY InvIInv, <1>1, PTL

\* What one Wait of the thread found is dispatched once, before it waits again
\* and while it stands still in DoDispatch.
THEOREM DispatchedOncePerWait == Spec => []OneDispatchPerWait
<1>1. IInv => OneDispatchPerWait
  BY DEF IInv, OneDispatchPerWait, Turn, Opened, Dispatching, TypeOK
<1> QED
  BY InvIInv, <1>1, PTL

\* Each side unlocks only what it holds, and both agree on use_lock_a, which
\* nothing but the turns protects.
THEOREM UnlocksOnlyItsOwn == Spec => []UnlocksItsOwn
<1>1. IInv => UnlocksItsOwn
  BY DEF IInv, UnlocksItsOwn, Turn, Opened, Dispatching, TypeOK, CallShape
<1> QED
  BY InvIInv, <1>1, PTL

=============================================================================

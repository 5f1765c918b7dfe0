------------------------ MODULE ProtoDispatcher_proofs ------------------------
(***************************************************************************)
(* Proofs about ProtoDispatcher, for any number of controlling threads and *)
(* any nesting of their calls, with and without restarts.                  *)
(***************************************************************************)
EXTENDS ProtoDispatcher, TLAPS

Holding == {"started", "top", "latched", "prompt", "dispatch", "callback", "timeouts", "exit"}

\* What the dispatcher's thread holds follows from where it is.
ThreadLocks ==
    /\ suspendMutex = Thread <=> tpc \in Holding
    /\ signalMutex = Thread <=> tpc \in {"building", "select"}
    /\ master = NoThread => suspendMutex \in {Thread, NoThread} /\ suspendCount = 0
    /\ signalMutex \in {Thread, NoThread} => signalCount = 0
    /\ tpc = "none" <=> ~threadId

\* The function a controlling thread is in fits the place it is at.
CallShape ==
    \A c \in Controllers :
        /\ pc[c] = "change" => op[c] \in {"Prompt", "Timer"}
        /\ pc[c] = "break" => op[c] \notin {"Suspend", "Resume", "Unsignal"}
        /\ pc[c] = "suspend" => op[c] \notin {"Resume", "Unsignal"}
        /\ pc[c] = "lockSignal" => op[c] \notin {"Suspend", "Resume", "Unsignal"} /\ signals[c] = 0
        /\ pc[c] = "signaled" => op[c] \in {"Notify", "Stop"}
        /\ pc[c] = "unsignal" => op[c] \notin {"Suspend", "Resume", "Signal"}
        /\ pc[c] = "resume" => op[c] \notin {"Suspend", "Signal"}
        /\ pc[c] = "resumeOuter" => op[c] \in {"Prompt", "Timer"}
        /\ pc[c] = "join" => op[c] = "Stop"
        /\ op[c] = "Stop" => c = Owner

\* While Stop is in progress no other call is, and once run is off it stays in
\* progress until the thread has ended.
StopIsAlone ==
    /\ Stopping => /\ suspends[Owner] = 0 /\ signals[Owner] = 0
                   /\ \A c \in Controllers \ {Owner} : Mirrored(c)
    /\ ~threadId => \A c \in Controllers : Mirrored(c)
    /\ ~run => \/ tpc \in {"none", "created", "started"}
               \/ Stopping /\ pc[Owner] \in {"unsignal", "resume", "join"}
    /\ tpc \in {"exit", "done"} => ~run /\ Stopping /\ pc[Owner] = "join"

AboutToBreak == \E c \in Controllers : master = c /\ pc[c] = "break"

\* A prompt or a new deadline that the thread may not have seen comes with a
\* break that is set, or is about to be.
ChangesBreak ==
    /\ promptSet => \/ break \/ AboutToBreak
                    \/ tpc \in {"woken", "prompt"}
    /\ promptSet => tpc \notin {"none", "dispatch", "callback", "timeouts", "exit", "done"}
    /\ tpc \in {"latched", "building", "select"} =>
           latched = deadline \/ break \/ AboutToBreak
    /\ tpc = "select" => inputSet = table
    /\ signalMutex \in Controllers => break \/ tpc = "woken"
    /\ \A c \in Controllers : pc[c] = "lockSignal" => break \/ tpc = "woken"

IInv ==
    /\ TypeOK
    /\ ThreadLocks
    /\ LocksAreCounted
    /\ CallShape
    /\ StopIsAlone
    /\ ChangesBreak
    /\ NoStaleEvent

-----------------------------------------------------------------------------
(* The mutexes and the calls.                                              *)

\* A controlling thread that is in a suspension owns suspend_mutex, the
\* dispatcher's thread is around its Wait, and no other call is as far.
LEMMA Owning ==
    ASSUME IInv, NEW c \in Controllers, Suspensions(c) > 0
    PROVE  /\ master = c /\ suspendMutex = c /\ suspendCount = Suspensions(c)
           /\ suspendCount \in Nat
           /\ tpc \in {"created", "building", "select", "woken"}
           /\ threadId
           /\ \A d \in Controllers \ {c} : Suspensions(d) = 0 /\ Signals(d) = 0
<1>1. /\ master = c /\ suspendMutex = c /\ suspendCount = Suspensions(c)
      /\ suspendCount \in Nat
  BY DEF IInv, TypeOK, LocksAreCounted
<1>2. threadId
  BY DEF IInv, StopIsAlone, Mirrored, Suspensions, CallSuspends
<1>3. tpc \in {"created", "building", "select", "woken"}
  <2>1. tpc \in {"created", "building", "select", "woken", "done"}
    BY <1>1, <1>2, ThreadAssumption DEF IInv, TypeOK, ThreadLocks, Holding
  <2>2. ASSUME tpc = "done" PROVE Suspensions(c) = 0
    BY <2>2 DEF IInv, StopIsAlone, Mirrored, Suspensions, CallSuspends
  <2> QED
    BY <2>1, <2>2
<1>4. ASSUME NEW d \in Controllers \ {c} PROVE Suspensions(d) = 0 /\ Signals(d) = 0
  <2>1. /\ suspends[d] \in Nat /\ signals[d] \in Nat
        /\ CallSuspends(d) \in Nat /\ CallSignals(d) \in Nat
    BY DEF IInv, TypeOK, CallSuspends, CallSignals
  <2>2. master # d /\ signalMutex # d
    BY <1>1 DEF IInv, LocksAreCounted
  <2> QED
    BY <2>1, <2>2 DEF IInv, LocksAreCounted, Suspensions, Signals
<1> QED
  BY <1>1, <1>2, <1>3, <1>4

\* A signal is part of a suspension.
LEMMA SignalsNest ==
    ASSUME TypeOK, NEW c \in Controllers
    PROVE  Suspensions(c) \in Nat /\ Signals(c) \in Nat /\ Signals(c) <= Suspensions(c)
BY DEF TypeOK, Suspensions, Signals, CallSuspends, CallSignals

LEMMA InitIInv == Init => IInv
<1> SUFFICES ASSUME Init PROVE IInv
  OBVIOUS
<1>1. TypeOK
  <2>1. /\ threadId \in BOOLEAN /\ started \in BOOLEAN /\ run \in BOOLEAN
        /\ break \in BOOLEAN /\ promptSet \in BOOLEAN /\ breakSeen \in BOOLEAN
    BY Zenon DEF Init
  <2> QED
    BY <2>1, BoundAssumption DEF Init, TypeOK, Ops
<1>2. ThreadLocks /\ LocksAreCounted
  BY ThreadAssumption
     DEF Init, ThreadLocks, Holding, LocksAreCounted, Suspensions, Signals, CallSuspends, CallSignals
<1>3. CallShape /\ StopIsAlone
  <2>1. CallShape
    BY DEF Init, CallShape
  <2>2. \A c \in Controllers : Mirrored(c)
    BY DEF Init, Mirrored
  <2>3. ~Stopping /\ tpc = "none"
    BY ThreadAssumption DEF Init, Stopping
  <2> QED
    BY <2>1, <2>2, <2>3 DEF StopIsAlone
<1>4. ChangesBreak /\ NoStaleEvent
  BY ThreadAssumption DEF Init, ChangesBreak, AboutToBreak, NoStaleEvent
<1> QED
  BY <1>1, <1>2, <1>3, <1>4 DEF IInv

\* While the dispatcher's thread is not suspended, no call is in a suspension.
LEMMA ThreadHolds ==
    ASSUME IInv, suspendMutex \notin Controllers
    PROVE  /\ master = NoThread /\ signalMutex \notin Controllers
           /\ \A c \in Controllers : /\ Suspensions(c) = 0 /\ Signals(c) = 0
                                     /\ pc[c] \in {"out", "suspend", "join"}
<1>1. master = NoThread /\ \A c \in Controllers : master # c
  BY ThreadAssumption DEF IInv, TypeOK, LocksAreCounted
<1>2. signalMutex \notin Controllers
  BY <1>1 DEF IInv, LocksAreCounted
<1>3. ASSUME NEW c \in Controllers PROVE Suspensions(c) = 0 /\ Signals(c) = 0
  <2>1. Suspensions(c) \in Nat /\ Signals(c) \in Nat /\ Signals(c) <= Suspensions(c)
    BY SignalsNest DEF IInv
  <2>2. ~(Suspensions(c) > 0)
    BY <1>1 DEF IInv, LocksAreCounted
  <2> QED
    BY <2>1, <2>2
<1>4. ASSUME NEW c \in Controllers PROVE pc[c] \in {"out", "suspend", "join"}
  <2>1. Suspensions(c) = 0 /\ suspends[c] \in Nat /\ signals[c] \in Nat
    BY <1>3 DEF IInv, TypeOK
  <2> QED
    BY <2>1 DEF IInv, TypeOK, Suspensions, CallSuspends
<1> QED
  BY <1>1, <1>2, <1>3, <1>4

-----------------------------------------------------------------------------
(* The steps of the controlling threads.                                   *)

LEMMA StartThreadIInv ==
    ASSUME IInv, NEW c \in Controllers, StartThread(c)
    PROVE  IInv'
<1> USE ThreadAssumption, BoundAssumption
<1>0. \A x \in Controllers : /\ Mirrored(x) /\ master # x /\ signalMutex # x
                             /\ Suspensions(x) = 0 /\ Signals(x) = 0
  BY DEF StartThread, IInv, StopIsAlone, Mirrored, LocksAreCounted, Suspensions, Signals,
         CallSuspends, CallSignals
<1>a. master = NoThread /\ signalMutex \notin Controllers
  BY <1>0 DEF IInv, TypeOK
<1>1. TypeOK'
  BY <1>0, <1>a DEF IInv, TypeOK, StartThread, workVars, waitVars, callVars
<1>2. ThreadLocks'
  BY <1>0, <1>a DEF IInv, TypeOK, ThreadLocks, Holding, StartThread
<1>3. LocksAreCounted'
  BY <1>0, <1>a DEF IInv, TypeOK, LocksAreCounted, Suspensions, Signals, CallSuspends,
          CallSignals, StartThread, callVars
<1>4. CallShape'
  BY <1>0, <1>a DEF IInv, TypeOK, CallShape, StartThread, callVars
<1>5. StopIsAlone'
  BY <1>0, <1>a DEF IInv, TypeOK, CallShape, StopIsAlone, Stopping, Mirrored,
          StartThread, callVars
<1>6. ChangesBreak'
  BY <1>0, <1>a DEF IInv, TypeOK, ChangesBreak, AboutToBreak, StartThread, workVars,
          waitVars, callVars, ThreadLocks, Mirrored
<1>7. NoStaleEvent'
  BY <1>0, <1>a DEF IInv, TypeOK, NoStaleEvent, StartThread, workVars, waitVars
<1> QED
  BY <1>1, <1>2, <1>3, <1>4, <1>5, <1>6, <1>7 DEF IInv

LEMMA CallIInv ==
    ASSUME IInv, NEW c \in Controllers, NEW o \in Ops \ {"Resume", "Unsignal"}, Call(c, o)
    PROVE  IInv'
<1> USE ThreadAssumption, BoundAssumption
<1>1. TypeOK'
  BY DEF IInv, TypeOK, Call, Enter, Spend, Mirrored, GoTo, lifeVars, suspendVars,
          signalVars, workVars, waitVars
<1>2. ThreadLocks'
  BY DEF IInv, TypeOK, ThreadLocks, Holding, Call, Enter, Mirrored, GoTo, lifeVars,
          suspendVars, signalVars
<1>3. LocksAreCounted'
  BY DEF IInv, TypeOK, LocksAreCounted, Suspensions, Signals, CallSuspends, CallSignals,
          Call, Enter, Mirrored, GoTo, suspendVars, signalVars
<1>4. CallShape'
  BY DEF IInv, TypeOK, CallShape, Call, Enter, Mirrored, GoTo
<1>5. StopIsAlone'
  BY DEF IInv, TypeOK, CallShape, StopIsAlone, Stopping, Mirrored, Call, Enter, GoTo,
          lifeVars
<1>6. ChangesBreak'
  BY DEF IInv, TypeOK, ChangesBreak, AboutToBreak, Call, Enter, Mirrored, GoTo,
          suspendVars, signalVars, workVars, waitVars
<1>7. NoStaleEvent'
  BY DEF IInv, TypeOK, NoStaleEvent, Call, Enter, Mirrored, GoTo, workVars, waitVars
<1> QED
  BY <1>1, <1>2, <1>3, <1>4, <1>5, <1>6, <1>7 DEF IInv

LEMMA CallResumeIInv ==
    ASSUME IInv, NEW c \in Controllers, CallResume(c)
    PROVE  IInv'
<1> USE ThreadAssumption, BoundAssumption
<1>1. TypeOK'
  <2>1. suspends[c] - 1 \in Nat /\ "Resume" \in Ops
    BY DEF CallResume, IInv, TypeOK, Ops
  <2> QED
    BY <2>1 DEF IInv, TypeOK, CallResume, Enter, GoTo, lifeVars, suspendVars,
          signalVars, workVars, waitVars
<1>2. ThreadLocks'
  BY DEF IInv, TypeOK, ThreadLocks, Holding, CallResume, Enter, GoTo, lifeVars,
          suspendVars, signalVars
<1>3. LocksAreCounted'
  BY DEF IInv, TypeOK, LocksAreCounted, Suspensions, Signals, CallSuspends, CallSignals,
          CallResume, Enter, GoTo, suspendVars, signalVars
<1>4. CallShape'
  BY DEF IInv, TypeOK, CallShape, CallResume, Enter, GoTo
<1>5. StopIsAlone'
  BY DEF IInv, TypeOK, CallShape, StopIsAlone, Stopping, Mirrored, CallResume, Enter,
          GoTo, lifeVars
<1>6. ChangesBreak'
  BY DEF IInv, TypeOK, ChangesBreak, AboutToBreak, CallResume, Enter, GoTo, suspendVars,
          signalVars, workVars, waitVars
<1>7. NoStaleEvent'
  BY DEF IInv, TypeOK, NoStaleEvent, CallResume, Enter, GoTo, workVars, waitVars
<1> QED
  BY <1>1, <1>2, <1>3, <1>4, <1>5, <1>6, <1>7 DEF IInv

LEMMA CallUnsignalIInv ==
    ASSUME IInv, NEW c \in Controllers, CallUnsignal(c)
    PROVE  IInv'
<1> USE ThreadAssumption, BoundAssumption
<1>1. TypeOK'
  <2>1. signals[c] - 1 \in Nat /\ "Unsignal" \in Ops
    BY DEF CallUnsignal, IInv, TypeOK, Ops
  <2> QED
    BY <2>1 DEF IInv, TypeOK, CallUnsignal, Enter, GoTo, lifeVars, suspendVars,
          signalVars, workVars, waitVars
<1>2. ThreadLocks'
  BY DEF IInv, TypeOK, ThreadLocks, Holding, CallUnsignal, Enter, GoTo, lifeVars,
          suspendVars, signalVars
<1>3. LocksAreCounted'
  BY DEF IInv, TypeOK, LocksAreCounted, Suspensions, Signals, CallSuspends, CallSignals,
          CallUnsignal, Enter, GoTo, suspendVars, signalVars
<1>4. CallShape'
  BY DEF IInv, TypeOK, CallShape, CallUnsignal, Enter, GoTo
<1>5. StopIsAlone'
  BY DEF IInv, TypeOK, CallShape, StopIsAlone, Stopping, Mirrored, CallUnsignal, Enter,
          GoTo, lifeVars
<1>6. ChangesBreak'
  BY DEF IInv, TypeOK, ChangesBreak, AboutToBreak, CallUnsignal, Enter, GoTo,
          suspendVars, signalVars, workVars, waitVars
<1>7. NoStaleEvent'
  BY DEF IInv, TypeOK, NoStaleEvent, CallUnsignal, Enter, GoTo, workVars, waitVars
<1> QED
  BY <1>1, <1>2, <1>3, <1>4, <1>5, <1>6, <1>7 DEF IInv

LEMMA SuspendIInv ==
    ASSUME IInv, NEW c \in Controllers, Suspend(c)
    PROVE  IInv'
<1> USE ThreadAssumption, BoundAssumption
<1>0. PICK label \in {"out", "change", "break"} :
         /\ pc' = [pc EXCEPT ![c] = label]
         /\ label = "out" <=> op[c] = "Suspend"
         /\ label = "change" <=> op[c] \in {"Prompt", "Timer"}
  BY DEF Suspend, GoTo
<1>a. pc[c] = "suspend" /\ ~AboutToBreak
  BY ThreadHolds DEF Suspend, AboutToBreak, IInv, TypeOK
<1>1. TypeOK'
  BY <1>0, <1>a DEF IInv, TypeOK, Suspend, GoTo, lifeVars, signalVars, workVars,
          waitVars
<1>2. ThreadLocks'
  BY <1>0, <1>a DEF IInv, TypeOK, ThreadLocks, Holding, Suspend, GoTo, lifeVars,
          signalVars
<1>3. LocksAreCounted'
  BY <1>0, <1>a DEF IInv, TypeOK, LocksAreCounted, Suspensions, Signals, CallSuspends,
          CallSignals, Suspend, GoTo, signalVars
<1>4. CallShape'
  BY <1>0, <1>a DEF IInv, TypeOK, CallShape, Suspend, GoTo
<1>5. StopIsAlone'
  BY <1>0, <1>a DEF IInv, TypeOK, CallShape, StopIsAlone, Stopping, Mirrored, Suspend,
          GoTo, lifeVars
<1>6. ChangesBreak'
  BY <1>0, <1>a DEF IInv, TypeOK, ChangesBreak, AboutToBreak, Suspend, GoTo, signalVars,
          workVars, waitVars
<1>7. NoStaleEvent'
  BY <1>0, <1>a DEF IInv, TypeOK, NoStaleEvent, Suspend, GoTo, workVars, waitVars
<1> QED
  BY <1>1, <1>2, <1>3, <1>4, <1>5, <1>6, <1>7 DEF IInv

LEMMA SetPromptIInv ==
    ASSUME IInv, NEW c \in Controllers, SetPrompt(c)
    PROVE  IInv'
<1> USE ThreadAssumption, BoundAssumption
<1>0. /\ master = c /\ suspendMutex = c /\ suspendCount = Suspensions(c) /\ suspendCount \in Nat
      /\ tpc \in {"created", "building", "select", "woken"} /\ threadId
      /\ \A d \in Controllers \ {c} : Suspensions(d) = 0 /\ Signals(d) = 0
  <2>1. Suspensions(c) > 0
    BY DEF SetPrompt, IInv, TypeOK, Suspensions, CallSuspends
  <2> QED
    BY <2>1, Owning
<1>1. TypeOK'
  BY <1>0 DEF IInv, TypeOK, SetPrompt, GoTo, lifeVars, signalVars, waitVars
<1>2. ThreadLocks'
  BY <1>0 DEF IInv, TypeOK, ThreadLocks, Holding, SetPrompt, GoTo, lifeVars, signalVars
<1>3. LocksAreCounted'
  BY <1>0 DEF IInv, TypeOK, LocksAreCounted, Suspensions, Signals, CallSuspends,
          CallSignals, SetPrompt, GoTo, signalVars
<1>4. CallShape'
  BY <1>0 DEF IInv, TypeOK, CallShape, SetPrompt, GoTo
<1>5. StopIsAlone'
  BY <1>0 DEF IInv, TypeOK, CallShape, StopIsAlone, Stopping, Mirrored, SetPrompt, GoTo,
          lifeVars
<1>6. ChangesBreak'
  BY <1>0 DEF IInv, TypeOK, ChangesBreak, AboutToBreak, SetPrompt, GoTo, signalVars,
          waitVars
<1>7. NoStaleEvent'
  BY <1>0 DEF IInv, TypeOK, NoStaleEvent, SetPrompt, GoTo, waitVars
<1> QED
  BY <1>1, <1>2, <1>3, <1>4, <1>5, <1>6, <1>7 DEF IInv

LEMMA SetTimerIInv ==
    ASSUME IInv, NEW c \in Controllers, SetTimer(c)
    PROVE  IInv'
<1> USE ThreadAssumption, BoundAssumption
<1>0. /\ master = c /\ suspendMutex = c /\ suspendCount = Suspensions(c) /\ suspendCount \in Nat
      /\ tpc \in {"created", "building", "select", "woken"} /\ threadId
      /\ \A d \in Controllers \ {c} : Suspensions(d) = 0 /\ Signals(d) = 0
  <2>1. Suspensions(c) > 0
    BY DEF SetTimer, IInv, TypeOK, Suspensions, CallSuspends
  <2> QED
    BY <2>1, Owning
<1>1. TypeOK'
  BY <1>0 DEF IInv, TypeOK, SetTimer, GoTo, lifeVars, signalVars, waitVars
<1>2. ThreadLocks'
  BY <1>0 DEF IInv, TypeOK, ThreadLocks, Holding, SetTimer, GoTo, lifeVars, signalVars
<1>3. LocksAreCounted'
  BY <1>0 DEF IInv, TypeOK, LocksAreCounted, Suspensions, Signals, CallSuspends,
          CallSignals, SetTimer, GoTo, signalVars
<1>4. CallShape'
  BY <1>0 DEF IInv, TypeOK, CallShape, SetTimer, GoTo
<1>5. StopIsAlone'
  BY <1>0 DEF IInv, TypeOK, CallShape, StopIsAlone, Stopping, Mirrored, SetTimer, GoTo,
          lifeVars
<1>6. ChangesBreak'
  BY <1>0 DEF IInv, TypeOK, ChangesBreak, AboutToBreak, SetTimer, GoTo, signalVars,
          waitVars
<1>7. NoStaleEvent'
  BY <1>0 DEF IInv, TypeOK, NoStaleEvent, SetTimer, GoTo, waitVars
<1> QED
  BY <1>1, <1>2, <1>3, <1>4, <1>5, <1>6, <1>7 DEF IInv

LEMMA CountSignalIInv ==
    ASSUME IInv, NEW c \in Controllers, CountSignal(c)
    PROVE  IInv'
<1> USE ThreadAssumption, BoundAssumption
<1>0. /\ master = c /\ suspendMutex = c /\ suspendCount = Suspensions(c) /\ suspendCount \in Nat
      /\ tpc \in {"created", "building", "select", "woken"} /\ threadId
      /\ \A d \in Controllers \ {c} : Suspensions(d) = 0 /\ Signals(d) = 0
  <2>1. Suspensions(c) > 0
    BY DEF CountSignal, IInv, TypeOK, Suspensions, CallSuspends
  <2> QED
    BY <2>1, Owning
<1>a. signalMutex = c /\ signalCount = Signals(c) /\ signalCount \in Nat
  BY <1>0 DEF CountSignal, IInv, TypeOK, ThreadLocks, LocksAreCounted
<1>b. PICK label \in {"out", "unsignal", "signaled"} :
         /\ pc' = [pc EXCEPT ![c] = label]
         /\ label = "out" <=> op[c] = "Signal"
         /\ label = "unsignal" <=> op[c] \in {"Prompt", "Timer"}
         /\ signals' = IF label = "out" THEN [signals EXCEPT ![c] = @ + 1] ELSE signals
  BY DEF CountSignal, GoOnSignaled, GoTo
<1>c. /\ pc[c] = "break" /\ signalCount' = signalCount + 1
      /\ UNCHANGED <<lifeVars, suspendVars, signalMutex, break, workVars, ready, waitVars, tpc,
                     op, suspends, load>>
  BY DEF CountSignal
<1>1. TypeOK'
  BY <1>0, <1>a, <1>b, <1>c DEF IInv, TypeOK, lifeVars, suspendVars, workVars, waitVars
<1>2. ThreadLocks'
  BY <1>0, <1>a, <1>b, <1>c DEF IInv, TypeOK, ThreadLocks, Holding, lifeVars,
          suspendVars
<1>3. LocksAreCounted'
  <2>1. Suspensions(c)' = Suspensions(c) /\ Signals(c)' = Signals(c) + 1
    BY <1>0, <1>b, <1>c DEF IInv, TypeOK, CallShape, Suspensions, Signals, CallSuspends, CallSignals
  <2>2. \A x \in Controllers \ {c} : Suspensions(x)' = Suspensions(x) /\ Signals(x)' = Signals(x)
    BY <1>b, <1>c DEF IInv, TypeOK, Suspensions, Signals, CallSuspends, CallSignals
  <2> QED
    BY <1>0, <1>a, <1>c, <2>1, <2>2 DEF IInv, LocksAreCounted, suspendVars
<1>4. CallShape'
  BY <1>0, <1>a, <1>b, <1>c DEF IInv, TypeOK, CallShape, Ops
<1>5. StopIsAlone'
  BY <1>0, <1>a, <1>b, <1>c DEF IInv, TypeOK, CallShape, StopIsAlone, Stopping,
          Mirrored, lifeVars
<1>6. ChangesBreak'
  BY <1>0, <1>a, <1>b, <1>c DEF IInv, TypeOK, ChangesBreak, AboutToBreak, suspendVars,
          workVars, waitVars
<1>7. NoStaleEvent'
  BY <1>0, <1>a, <1>b, <1>c DEF IInv, TypeOK, NoStaleEvent, workVars, waitVars
<1> QED
  BY <1>1, <1>2, <1>3, <1>4, <1>5, <1>6, <1>7 DEF IInv

LEMMA SetBreakIInv ==
    ASSUME IInv, NEW c \in Controllers, SetBreak(c)
    PROVE  IInv'
<1> USE ThreadAssumption, BoundAssumption
<1>0. /\ master = c /\ suspendMutex = c /\ suspendCount = Suspensions(c) /\ suspendCount \in Nat
      /\ tpc \in {"created", "building", "select", "woken"} /\ threadId
      /\ \A d \in Controllers \ {c} : Suspensions(d) = 0 /\ Signals(d) = 0
  <2>1. Suspensions(c) > 0
    BY DEF SetBreak, IInv, TypeOK, Suspensions, CallSuspends
  <2> QED
    BY <2>1, Owning
<1>1. TypeOK'
  BY <1>0 DEF IInv, TypeOK, SetBreak, GoTo, lifeVars, suspendVars, signalVars, workVars,
          waitVars
<1>2. ThreadLocks'
  BY <1>0 DEF IInv, TypeOK, ThreadLocks, Holding, SetBreak, GoTo, lifeVars, suspendVars,
          signalVars
<1>3. LocksAreCounted'
  BY <1>0 DEF IInv, TypeOK, LocksAreCounted, Suspensions, Signals, CallSuspends,
          CallSignals, SetBreak, GoTo, suspendVars, signalVars
<1>4. CallShape'
  <2>1. signals[c] = 0
    <3>1. signalMutex \notin Controllers
      BY <1>0 DEF SetBreak, IInv, TypeOK, LocksAreCounted
    <3>2. ~(Signals(c) > 0)
      BY <3>1 DEF IInv, LocksAreCounted
    <3> QED
      BY <3>2 DEF IInv, TypeOK, Signals, CallSignals
  <2> QED
    BY <2>1 DEF IInv, TypeOK, CallShape, SetBreak, GoTo
<1>5. StopIsAlone'
  BY <1>0 DEF IInv, TypeOK, CallShape, StopIsAlone, Stopping, Mirrored, SetBreak, GoTo,
          lifeVars
<1>6. ChangesBreak'
  BY <1>0 DEF IInv, TypeOK, ChangesBreak, AboutToBreak, SetBreak, GoTo, suspendVars,
          signalVars, workVars, waitVars
<1>7. NoStaleEvent'
  BY <1>0 DEF IInv, TypeOK, NoStaleEvent, SetBreak, GoTo, workVars, waitVars
<1> QED
  BY <1>1, <1>2, <1>3, <1>4, <1>5, <1>6, <1>7 DEF IInv

LEMMA LockSignalIInv ==
    ASSUME IInv, NEW c \in Controllers, LockSignal(c)
    PROVE  IInv'
<1> USE ThreadAssumption, BoundAssumption
<1>0. /\ master = c /\ suspendMutex = c /\ suspendCount = Suspensions(c) /\ suspendCount \in Nat
      /\ tpc \in {"created", "building", "select", "woken"} /\ threadId
      /\ \A d \in Controllers \ {c} : Suspensions(d) = 0 /\ Signals(d) = 0
  <2>1. Suspensions(c) > 0
    BY DEF LockSignal, IInv, TypeOK, Suspensions, CallSuspends
  <2> QED
    BY <2>1, Owning
<1>a. signalMutex = NoThread /\ Signals(c) = 0
  BY SignalsNest DEF LockSignal, IInv, LocksAreCounted
<1>b. PICK label \in {"out", "unsignal", "signaled"} :
         /\ pc' = [pc EXCEPT ![c] = label]
         /\ label = "out" <=> op[c] = "Signal"
         /\ label = "unsignal" <=> op[c] \in {"Prompt", "Timer"}
         /\ signals' = IF label = "out" THEN [signals EXCEPT ![c] = @ + 1] ELSE signals
  BY DEF LockSignal, GoOnSignaled, GoTo
<1>c. /\ pc[c] = "lockSignal" /\ signalMutex' = c /\ signalCount' = 1
      /\ UNCHANGED <<lifeVars, suspendVars, break, workVars, ready, waitVars, tpc,
                     op, suspends, load>>
  BY DEF LockSignal
<1>1. TypeOK'
  BY <1>0, <1>a, <1>b, <1>c DEF IInv, TypeOK, lifeVars, suspendVars, workVars, waitVars
<1>2. ThreadLocks'
  BY <1>0, <1>a, <1>b, <1>c DEF IInv, TypeOK, ThreadLocks, Holding, lifeVars,
          suspendVars
<1>3. LocksAreCounted'
  <2>1. Suspensions(c)' = Suspensions(c) /\ Signals(c)' = Signals(c) + 1
    BY <1>0, <1>b, <1>c DEF IInv, TypeOK, CallShape, Suspensions, Signals, CallSuspends, CallSignals
  <2>2. \A x \in Controllers \ {c} : Suspensions(x)' = Suspensions(x) /\ Signals(x)' = Signals(x)
    BY <1>b, <1>c DEF IInv, TypeOK, Suspensions, Signals, CallSuspends, CallSignals
  <2> QED
    BY <1>0, <1>a, <1>c, <2>1, <2>2 DEF IInv, LocksAreCounted, suspendVars
<1>4. CallShape'
  BY <1>0, <1>a, <1>b, <1>c DEF IInv, TypeOK, CallShape, Ops
<1>5. StopIsAlone'
  BY <1>0, <1>a, <1>b, <1>c DEF IInv, TypeOK, CallShape, StopIsAlone, Stopping,
          Mirrored, lifeVars
<1>6. ChangesBreak'
  BY <1>0, <1>a, <1>b, <1>c DEF IInv, TypeOK, ChangesBreak, AboutToBreak, suspendVars,
          workVars, waitVars
<1>7. NoStaleEvent'
  BY <1>0, <1>a, <1>b, <1>c DEF IInv, TypeOK, NoStaleEvent, workVars, waitVars
<1> QED
  BY <1>1, <1>2, <1>3, <1>4, <1>5, <1>6, <1>7 DEF IInv

LEMMA UpdateNotificationIInv ==
    ASSUME IInv, NEW c \in Controllers, UpdateNotification(c)
    PROVE  IInv'
<1> USE ThreadAssumption, BoundAssumption
<1>0. /\ master = c /\ suspendMutex = c /\ suspendCount = Suspensions(c) /\ suspendCount \in Nat
      /\ tpc \in {"created", "building", "select", "woken"} /\ threadId
      /\ \A d \in Controllers \ {c} : Suspensions(d) = 0 /\ Signals(d) = 0
  <2>1. Suspensions(c) > 0
    BY DEF UpdateNotification, IInv, TypeOK, Suspensions, CallSuspends
  <2> QED
    BY <2>1, Owning
<1>a. signalMutex = c /\ signalCount = Signals(c) /\ Signals(c) \in Nat \ {0}
  <2>1. Signals(c) \in Nat /\ Signals(c) > 0
    BY DEF UpdateNotification, IInv, TypeOK, Signals, CallSignals
  <2> QED
    BY <2>1 DEF IInv, LocksAreCounted
<1>1. TypeOK'
  BY <1>0, <1>a DEF IInv, TypeOK, UpdateNotification, GoTo, Install, Remove, lifeVars,
          suspendVars, signalVars
<1>2. ThreadLocks'
  BY <1>0, <1>a DEF IInv, TypeOK, ThreadLocks, Holding, UpdateNotification, GoTo,
          Install, Remove, lifeVars, suspendVars, signalVars
<1>3. LocksAreCounted'
  BY <1>0, <1>a DEF IInv, TypeOK, LocksAreCounted, Suspensions, Signals, CallSuspends,
          CallSignals, UpdateNotification, GoTo, Install, Remove, suspendVars,
          signalVars
<1>4. CallShape'
  BY <1>0, <1>a DEF IInv, TypeOK, CallShape, UpdateNotification, GoTo, Install, Remove
<1>5. StopIsAlone'
  BY <1>0, <1>a DEF IInv, TypeOK, CallShape, StopIsAlone, Stopping, Mirrored,
          UpdateNotification, GoTo, Install, Remove, lifeVars
<1>6. ChangesBreak'
  BY <1>0, <1>a DEF IInv, TypeOK, ChangesBreak, AboutToBreak, UpdateNotification, GoTo,
          Install, Remove, suspendVars, signalVars, ThreadLocks
<1>7. NoStaleEvent'
  BY <1>0, <1>a DEF IInv, TypeOK, NoStaleEvent, UpdateNotification, GoTo, Install,
          Remove
<1> QED
  BY <1>1, <1>2, <1>3, <1>4, <1>5, <1>6, <1>7 DEF IInv

LEMMA StopRunningIInv ==
    ASSUME IInv, NEW c \in Controllers, StopRunning(c)
    PROVE  IInv'
<1> USE ThreadAssumption, BoundAssumption
<1>0. /\ master = c /\ suspendMutex = c /\ suspendCount = Suspensions(c) /\ suspendCount \in Nat
      /\ tpc \in {"created", "building", "select", "woken"} /\ threadId
      /\ \A d \in Controllers \ {c} : Suspensions(d) = 0 /\ Signals(d) = 0
  <2>1. Suspensions(c) > 0
    BY DEF StopRunning, IInv, TypeOK, Suspensions, CallSuspends
  <2> QED
    BY <2>1, Owning
<1>a. signalMutex = c /\ signalCount = Signals(c) /\ Signals(c) \in Nat \ {0}
  <2>1. Signals(c) \in Nat /\ Signals(c) > 0
    BY DEF StopRunning, IInv, TypeOK, Signals, CallSignals
  <2> QED
    BY <2>1 DEF IInv, LocksAreCounted
<1>1. TypeOK'
  <2>1. run' \in BOOLEAN
    BY Zenon DEF StopRunning
  <2> QED
    BY <1>0, <2>1 DEF IInv, TypeOK, StopRunning, GoTo, suspendVars, signalVars,
          workVars, waitVars
<1>2. ThreadLocks'
  BY <1>0, <1>a DEF IInv, TypeOK, ThreadLocks, Holding, StopRunning, GoTo, suspendVars,
          signalVars
<1>3. LocksAreCounted'
  BY <1>0, <1>a DEF IInv, TypeOK, LocksAreCounted, Suspensions, Signals, CallSuspends,
          CallSignals, StopRunning, GoTo, suspendVars, signalVars
<1>4. CallShape'
  BY <1>0, <1>a DEF IInv, TypeOK, CallShape, StopRunning, GoTo
<1>5. StopIsAlone'
  BY <1>0, <1>a DEF IInv, TypeOK, CallShape, StopIsAlone, Stopping, Mirrored,
          StopRunning, GoTo
<1>6. ChangesBreak'
  BY <1>0, <1>a DEF IInv, TypeOK, ChangesBreak, AboutToBreak, StopRunning, GoTo,
          suspendVars, signalVars, workVars, waitVars
<1>7. NoStaleEvent'
  BY <1>0, <1>a DEF IInv, TypeOK, NoStaleEvent, StopRunning, GoTo, workVars, waitVars
<1> QED
  BY <1>1, <1>2, <1>3, <1>4, <1>5, <1>6, <1>7 DEF IInv

LEMMA UnsignalIInv ==
    ASSUME IInv, NEW c \in Controllers, Unsignal(c)
    PROVE  IInv'
<1> USE ThreadAssumption, BoundAssumption
<1>0. /\ master = c /\ suspendMutex = c /\ suspendCount = Suspensions(c) /\ suspendCount \in Nat
      /\ tpc \in {"created", "building", "select", "woken"} /\ threadId
      /\ \A d \in Controllers \ {c} : Suspensions(d) = 0 /\ Signals(d) = 0
  <2>1. Suspensions(c) > 0
    BY DEF Unsignal, IInv, TypeOK, Suspensions, CallSuspends
  <2> QED
    BY <2>1, Owning
<1>a. signalMutex = c /\ signalCount = Signals(c) /\ Signals(c) \in Nat \ {0}
  <2>1. Signals(c) \in Nat /\ Signals(c) > 0
    BY DEF Unsignal, IInv, TypeOK, Signals, CallSignals
  <2> QED
    BY <2>1 DEF IInv, LocksAreCounted
<1>1. TypeOK'
  BY <1>0, <1>a DEF IInv, TypeOK, Unsignal, GoTo, lifeVars, suspendVars, signalVars,
          workVars, waitVars
<1>2. ThreadLocks'
  BY <1>0, <1>a DEF IInv, TypeOK, ThreadLocks, Holding, Unsignal, GoTo, lifeVars,
          suspendVars, signalVars
<1>3. LocksAreCounted'
  BY <1>0, <1>a DEF IInv, TypeOK, LocksAreCounted, Suspensions, Signals, CallSuspends,
          CallSignals, Unsignal, GoTo, suspendVars, signalVars
<1>4. CallShape'
  BY <1>0, <1>a DEF IInv, TypeOK, CallShape, Unsignal, GoTo
<1>5. StopIsAlone'
  BY <1>0, <1>a DEF IInv, TypeOK, CallShape, StopIsAlone, Stopping, Mirrored, Unsignal,
          GoTo, lifeVars
<1>6. ChangesBreak'
  BY <1>0, <1>a DEF IInv, TypeOK, ChangesBreak, AboutToBreak, Unsignal, GoTo,
          suspendVars, signalVars, workVars, waitVars
<1>7. NoStaleEvent'
  BY <1>0, <1>a DEF IInv, TypeOK, NoStaleEvent, Unsignal, GoTo, workVars, waitVars
<1> QED
  BY <1>1, <1>2, <1>3, <1>4, <1>5, <1>6, <1>7 DEF IInv

LEMMA ResumeIInv ==
    ASSUME IInv, NEW c \in Controllers, Resume(c)
    PROVE  IInv'
<1> USE ThreadAssumption, BoundAssumption
<1>0. /\ master = c /\ suspendMutex = c /\ suspendCount = Suspensions(c) /\ suspendCount \in Nat
      /\ tpc \in {"created", "building", "select", "woken"} /\ threadId
      /\ \A d \in Controllers \ {c} : Suspensions(d) = 0 /\ Signals(d) = 0
  <2>1. Suspensions(c) > 0
    BY DEF Resume, IInv, TypeOK, Suspensions, CallSuspends
  <2> QED
    BY <2>1, Owning
<1>a. PICK label \in {"resumeOuter", "join", "out"} :
         /\ pc' = [pc EXCEPT ![c] = label]
         /\ label = "resumeOuter" <=> pc[c] = "resume" /\ op[c] \in {"Prompt", "Timer"}
         /\ label = "join" <=> op[c] = "Stop"
  BY <1>0 DEF Resume, GoTo
<1>b. /\ pc[c] \in {"resume", "resumeOuter"}
      /\ \/ suspendCount > 1 /\ suspendCount' = suspendCount - 1 /\ UNCHANGED <<suspendMutex, master>>
         \/ suspendCount = 1 /\ suspendCount' = 0 /\ master' = NoThread /\ suspendMutex' = NoThread
      /\ UNCHANGED <<lifeVars, signalVars, break, workVars, ready, waitVars, tpc,
                     op, suspends, signals, load>>
  <2>1. Suspensions(c) > 0
    BY DEF Resume, IInv, TypeOK, Suspensions, CallSuspends
  <2> QED
    BY <1>0, <2>1 DEF Resume, suspendVars
<1>1. TypeOK'
  BY <1>0, <1>a, <1>b DEF IInv, TypeOK, lifeVars, signalVars, workVars, waitVars
<1>2. ThreadLocks'
  BY <1>0, <1>a, <1>b DEF IInv, TypeOK, ThreadLocks, Holding, lifeVars, signalVars
<1>3. LocksAreCounted'
  <2>1. Suspensions(c)' = Suspensions(c) - 1 /\ Signals(c)' = Signals(c)
    BY <1>0, <1>a, <1>b DEF IInv, TypeOK, CallShape, Suspensions, Signals, CallSuspends, CallSignals
  <2>2. \A x \in Controllers \ {c} : Suspensions(x)' = Suspensions(x) /\ Signals(x)' = Signals(x)
    BY <1>a, <1>b DEF IInv, TypeOK, Suspensions, Signals, CallSuspends, CallSignals
  <2>3. \A x \in Controllers :
           /\ Suspensions(x) \in Nat /\ Signals(x) \in Nat
           /\ Suspensions(x)' \in Nat /\ Signals(x)' \in Nat /\ Signals(x)' <= Suspensions(x)'
    BY <1>1 DEF IInv, TypeOK, Suspensions, Signals, CallSuspends, CallSignals
  <2> QED
    BY <1>0, <1>b, <2>1, <2>2, <2>3 DEF IInv, LocksAreCounted, signalVars
<1>4. CallShape'
  BY <1>0, <1>a, <1>b DEF IInv, TypeOK, CallShape
<1>5. StopIsAlone'
  BY <1>0, <1>a, <1>b DEF IInv, TypeOK, CallShape, StopIsAlone, Stopping, Mirrored,
          lifeVars
<1>6. ChangesBreak'
  BY <1>0, <1>a, <1>b DEF IInv, TypeOK, ChangesBreak, AboutToBreak, signalVars,
          workVars, waitVars
<1>7. NoStaleEvent'
  BY <1>0, <1>a, <1>b DEF IInv, TypeOK, NoStaleEvent, workVars, waitVars
<1> QED
  BY <1>1, <1>2, <1>3, <1>4, <1>5, <1>6, <1>7 DEF IInv

LEMMA JoinIInv ==
    ASSUME IInv, NEW c \in Controllers, Join(c)
    PROVE  IInv'
<1> USE ThreadAssumption, BoundAssumption
<1>0. \A x \in Controllers : /\ pc[x] \in {"out", "join"} /\ master # x /\ signalMutex # x
                             /\ Suspensions(x) = 0 /\ Signals(x) = 0
  BY DEF Join, IInv, StopIsAlone, Mirrored, LocksAreCounted, Suspensions, Signals,
         CallSuspends, CallSignals
<1>a. master = NoThread /\ signalMutex \notin Controllers
  BY <1>0 DEF IInv, TypeOK
<1>1. TypeOK'
  <2>1. threadId' \in BOOLEAN /\ break' \in BOOLEAN
    BY Zenon DEF Join
  <2> QED
    BY <1>0, <2>1 DEF IInv, TypeOK, Join, GoTo, suspendVars, signalVars, workVars,
          waitVars
<1>2. ThreadLocks'
  BY <1>0, <1>a DEF IInv, TypeOK, ThreadLocks, Holding, Join, GoTo, suspendVars,
          signalVars
<1>3. LocksAreCounted'
  BY <1>0, <1>a DEF IInv, TypeOK, LocksAreCounted, Suspensions, Signals, CallSuspends,
          CallSignals, Join, GoTo, suspendVars, signalVars
<1>4. CallShape'
  BY <1>0, <1>a DEF IInv, TypeOK, CallShape, Join, GoTo
<1>5. StopIsAlone'
  BY <1>0, <1>a DEF IInv, TypeOK, CallShape, StopIsAlone, Stopping, Mirrored, Join, GoTo
<1>6. ChangesBreak'
  BY <1>0, <1>a DEF IInv, TypeOK, ChangesBreak, AboutToBreak, Join, GoTo, suspendVars,
          signalVars, workVars, waitVars
<1>7. NoStaleEvent'
  BY <1>0, <1>a DEF IInv, TypeOK, NoStaleEvent, Join, GoTo, workVars, waitVars
<1> QED
  BY <1>1, <1>2, <1>3, <1>4, <1>5, <1>6, <1>7 DEF IInv

-----------------------------------------------------------------------------
(* The steps of the dispatcher's thread and of its environment.            *)

LEMMA DoThreadStartIInv == ASSUME IInv, DoThreadStart PROVE IInv'
<1> USE ThreadAssumption, BoundAssumption
<1>1. TypeOK'
  BY DEF IInv, TypeOK, DoThreadStart, ThreadGoes, workVars, waitVars, callVars
<1>2. ThreadLocks'
  BY DEF IInv, TypeOK, ThreadLocks, Holding, DoThreadStart, ThreadGoes
<1>3. LocksAreCounted'
  BY DEF IInv, TypeOK, LocksAreCounted, Suspensions, Signals, CallSuspends, CallSignals,
          DoThreadStart, ThreadGoes, callVars
<1>4. CallShape'
  BY DEF IInv, TypeOK, CallShape, DoThreadStart, ThreadGoes, callVars
<1>5. StopIsAlone'
  BY DEF IInv, TypeOK, CallShape, StopIsAlone, Stopping, Mirrored, DoThreadStart,
          ThreadGoes, callVars
<1>6. ChangesBreak'
  BY DEF IInv, TypeOK, ChangesBreak, AboutToBreak, DoThreadStart, ThreadGoes, workVars,
          waitVars, callVars
<1>7. NoStaleEvent'
  BY DEF IInv, TypeOK, NoStaleEvent, DoThreadStart, ThreadGoes, workVars, waitVars
<1> QED
  BY <1>1, <1>2, <1>3, <1>4, <1>5, <1>6, <1>7 DEF IInv

LEMMA RunIInv == ASSUME IInv, Run PROVE IInv'
<1> USE ThreadAssumption, BoundAssumption
<1>1. TypeOK'
  BY DEF IInv, TypeOK, Run, ThreadGoes, workVars, waitVars, callVars
<1>2. ThreadLocks'
  BY DEF IInv, TypeOK, ThreadLocks, Holding, Run, ThreadGoes
<1>3. LocksAreCounted'
  BY DEF IInv, TypeOK, LocksAreCounted, Suspensions, Signals, CallSuspends, CallSignals,
          Run, ThreadGoes, callVars
<1>4. CallShape'
  BY DEF IInv, TypeOK, CallShape, Run, ThreadGoes, callVars
<1>5. StopIsAlone'
  BY DEF IInv, TypeOK, CallShape, StopIsAlone, Stopping, Mirrored, Run, ThreadGoes,
          callVars
<1>6. ChangesBreak'
  BY DEF IInv, TypeOK, ChangesBreak, AboutToBreak, Run, ThreadGoes, workVars, waitVars,
          callVars
<1>7. NoStaleEvent'
  BY DEF IInv, TypeOK, NoStaleEvent, Run, ThreadGoes, workVars, waitVars
<1> QED
  BY <1>1, <1>2, <1>3, <1>4, <1>5, <1>6, <1>7 DEF IInv

LEMMA LatchTimeoutIInv == ASSUME IInv, LatchTimeout PROVE IInv'
<1> USE ThreadAssumption, BoundAssumption
<1>1. TypeOK'
  BY DEF IInv, TypeOK, LatchTimeout, ThreadGoes, workVars, callVars
<1>2. ThreadLocks'
  BY DEF IInv, TypeOK, ThreadLocks, Holding, LatchTimeout, ThreadGoes
<1>3. LocksAreCounted'
  BY DEF IInv, TypeOK, LocksAreCounted, Suspensions, Signals, CallSuspends, CallSignals,
          LatchTimeout, ThreadGoes, callVars
<1>4. CallShape'
  BY DEF IInv, TypeOK, CallShape, LatchTimeout, ThreadGoes, callVars
<1>5. StopIsAlone'
  BY DEF IInv, TypeOK, CallShape, StopIsAlone, Stopping, Mirrored, LatchTimeout,
          ThreadGoes, callVars
<1>6. ChangesBreak'
  BY DEF IInv, TypeOK, ChangesBreak, AboutToBreak, LatchTimeout, ThreadGoes, workVars,
          callVars
<1>7. NoStaleEvent'
  BY DEF IInv, TypeOK, NoStaleEvent, LatchTimeout, ThreadGoes, workVars
<1> QED
  BY <1>1, <1>2, <1>3, <1>4, <1>5, <1>6, <1>7 DEF IInv

LEMMA OpenWindowIInv == ASSUME IInv, OpenWindow PROVE IInv'
<1> USE ThreadAssumption, BoundAssumption
<1>0. /\ master = NoThread /\ signalMutex \notin Controllers
      /\ \A x \in Controllers : /\ Suspensions(x) = 0 /\ Signals(x) = 0
                                /\ pc[x] \in {"out", "suspend", "join"}
  BY ThreadHolds DEF IInv, ThreadLocks, Holding, OpenWindow, ThreadGoes
<1>1. TypeOK'
  BY <1>0 DEF IInv, TypeOK, OpenWindow, ThreadGoes, workVars, waitVars, callVars
<1>2. ThreadLocks'
  BY <1>0 DEF IInv, TypeOK, ThreadLocks, Holding, OpenWindow, ThreadGoes
<1>3. LocksAreCounted'
  BY <1>0 DEF IInv, TypeOK, LocksAreCounted, Suspensions, Signals, CallSuspends,
          CallSignals, OpenWindow, ThreadGoes, callVars
<1>4. CallShape'
  BY <1>0 DEF IInv, TypeOK, CallShape, OpenWindow, ThreadGoes, callVars
<1>5. StopIsAlone'
  BY <1>0 DEF IInv, TypeOK, CallShape, StopIsAlone, Stopping, Mirrored, OpenWindow,
          ThreadGoes, callVars
<1>6. ChangesBreak'
  BY <1>0 DEF IInv, TypeOK, ChangesBreak, AboutToBreak, OpenWindow, ThreadGoes,
          workVars, waitVars, callVars
<1>7. NoStaleEvent'
  BY <1>0 DEF IInv, TypeOK, NoStaleEvent, OpenWindow, ThreadGoes, workVars, waitVars
<1> QED
  BY <1>1, <1>2, <1>3, <1>4, <1>5, <1>6, <1>7 DEF IInv

LEMMA BuildSetsIInv == ASSUME IInv, BuildSets PROVE IInv'
<1> USE ThreadAssumption, BoundAssumption
<1>1. TypeOK'
  BY DEF IInv, TypeOK, BuildSets, ThreadGoes, workVars, callVars
<1>2. ThreadLocks'
  BY DEF IInv, TypeOK, ThreadLocks, Holding, BuildSets, ThreadGoes
<1>3. LocksAreCounted'
  BY DEF IInv, TypeOK, LocksAreCounted, Suspensions, Signals, CallSuspends, CallSignals,
          BuildSets, ThreadGoes, callVars
<1>4. CallShape'
  BY DEF IInv, TypeOK, CallShape, BuildSets, ThreadGoes, callVars
<1>5. StopIsAlone'
  BY DEF IInv, TypeOK, CallShape, StopIsAlone, Stopping, Mirrored, BuildSets,
          ThreadGoes, callVars
<1>6. ChangesBreak'
  BY DEF IInv, TypeOK, ChangesBreak, AboutToBreak, BuildSets, ThreadGoes, workVars,
          callVars
<1>7. NoStaleEvent'
  BY DEF IInv, TypeOK, NoStaleEvent, BuildSets, ThreadGoes, workVars
<1> QED
  BY <1>1, <1>2, <1>3, <1>4, <1>5, <1>6, <1>7 DEF IInv

LEMMA WaitEventsIInv == ASSUME IInv, WaitEvents PROVE IInv'
<1> USE ThreadAssumption, BoundAssumption
<1>0. signalMutex = Thread /\ \A x \in Controllers : Signals(x) = 0
  BY SignalsNest DEF IInv, ThreadLocks, LocksAreCounted, WaitEvents, ReturnFromWait, ThreadGoes
<1>1. TypeOK'
  BY <1>0 DEF IInv, TypeOK, WaitEvents, ReturnFromWait, ThreadGoes, workVars, callVars
<1>2. ThreadLocks'
  BY <1>0 DEF IInv, TypeOK, ThreadLocks, Holding, WaitEvents, ReturnFromWait, ThreadGoes
<1>3. LocksAreCounted'
  BY <1>0 DEF IInv, TypeOK, LocksAreCounted, Suspensions, Signals, CallSuspends,
          CallSignals, WaitEvents, ReturnFromWait, ThreadGoes, callVars
<1>4. CallShape'
  BY <1>0 DEF IInv, TypeOK, CallShape, WaitEvents, ReturnFromWait, ThreadGoes, callVars
<1>5. StopIsAlone'
  BY <1>0 DEF IInv, TypeOK, CallShape, StopIsAlone, Stopping, Mirrored, WaitEvents,
          ReturnFromWait, ThreadGoes, callVars
<1>6. ChangesBreak'
  BY <1>0 DEF IInv, TypeOK, ChangesBreak, AboutToBreak, WaitEvents, ReturnFromWait,
          ThreadGoes, workVars, callVars
<1>7. NoStaleEvent'
  BY DEF IInv, TypeOK, NoStaleEvent, WaitEvents, ReturnFromWait, ThreadGoes, workVars,
          ChangesBreak
<1> QED
  BY <1>1, <1>2, <1>3, <1>4, <1>5, <1>6, <1>7 DEF IInv

LEMMA WaitTimeoutIInv == ASSUME IInv, WaitTimeout PROVE IInv'
<1> USE ThreadAssumption, BoundAssumption
<1>0. signalMutex = Thread /\ \A x \in Controllers : Signals(x) = 0
  BY SignalsNest DEF IInv, ThreadLocks, LocksAreCounted, WaitTimeout, ReturnFromWait, ThreadGoes
<1>1. TypeOK'
  BY <1>0 DEF IInv, TypeOK, WaitTimeout, ReturnFromWait, ThreadGoes, workVars, callVars
<1>2. ThreadLocks'
  BY <1>0 DEF IInv, TypeOK, ThreadLocks, Holding, WaitTimeout, ReturnFromWait,
          ThreadGoes
<1>3. LocksAreCounted'
  BY <1>0 DEF IInv, TypeOK, LocksAreCounted, Suspensions, Signals, CallSuspends,
          CallSignals, WaitTimeout, ReturnFromWait, ThreadGoes, callVars
<1>4. CallShape'
  BY <1>0 DEF IInv, TypeOK, CallShape, WaitTimeout, ReturnFromWait, ThreadGoes, callVars
<1>5. StopIsAlone'
  BY <1>0 DEF IInv, TypeOK, CallShape, StopIsAlone, Stopping, Mirrored, WaitTimeout,
          ReturnFromWait, ThreadGoes, callVars
<1>6. ChangesBreak'
  BY <1>0 DEF IInv, TypeOK, ChangesBreak, AboutToBreak, WaitTimeout, ReturnFromWait,
          ThreadGoes, workVars, callVars
<1>7. NoStaleEvent'
  BY <1>0 DEF IInv, TypeOK, NoStaleEvent, WaitTimeout, ReturnFromWait, ThreadGoes,
          workVars
<1> QED
  BY <1>1, <1>2, <1>3, <1>4, <1>5, <1>6, <1>7 DEF IInv

LEMMA WaitInterruptedIInv == ASSUME IInv, WaitInterrupted PROVE IInv'
<1> USE ThreadAssumption, BoundAssumption
<1>0. signalMutex = Thread /\ \A x \in Controllers : Signals(x) = 0
  BY SignalsNest DEF IInv, ThreadLocks, LocksAreCounted, WaitInterrupted, ReturnFromWait, ThreadGoes
<1>1. TypeOK'
  BY <1>0 DEF IInv, TypeOK, WaitInterrupted, Spend, ReturnFromWait, ThreadGoes,
          workVars, callVars
<1>2. ThreadLocks'
  BY <1>0 DEF IInv, TypeOK, ThreadLocks, Holding, WaitInterrupted, ReturnFromWait,
          ThreadGoes
<1>3. LocksAreCounted'
  BY <1>0 DEF IInv, TypeOK, LocksAreCounted, Suspensions, Signals, CallSuspends,
          CallSignals, WaitInterrupted, ReturnFromWait, ThreadGoes, callVars
<1>4. CallShape'
  BY <1>0 DEF IInv, TypeOK, CallShape, WaitInterrupted, ReturnFromWait, ThreadGoes,
          callVars
<1>5. StopIsAlone'
  BY <1>0 DEF IInv, TypeOK, CallShape, StopIsAlone, Stopping, Mirrored, WaitInterrupted,
          ReturnFromWait, ThreadGoes, callVars
<1>6. ChangesBreak'
  BY <1>0 DEF IInv, TypeOK, ChangesBreak, AboutToBreak, WaitInterrupted, ReturnFromWait,
          ThreadGoes, workVars, callVars
<1>7. NoStaleEvent'
  BY <1>0 DEF IInv, TypeOK, NoStaleEvent, WaitInterrupted, ReturnFromWait, ThreadGoes,
          workVars
<1> QED
  BY <1>1, <1>2, <1>3, <1>4, <1>5, <1>6, <1>7 DEF IInv

LEMMA CloseWindowIInv == ASSUME IInv, CloseWindow PROVE IInv'
<1> USE ThreadAssumption, BoundAssumption
<1>0. /\ master = NoThread /\ signalMutex \notin Controllers
      /\ \A x \in Controllers : /\ Suspensions(x) = 0 /\ Signals(x) = 0
                                /\ pc[x] \in {"out", "suspend", "join"}
  BY ThreadHolds DEF IInv, ThreadLocks, Holding, CloseWindow, ThreadGoes
<1>1. TypeOK'
  BY <1>0 DEF IInv, TypeOK, CloseWindow, ThreadGoes, workVars, waitVars, callVars
<1>2. ThreadLocks'
  BY <1>0 DEF IInv, TypeOK, ThreadLocks, Holding, CloseWindow, ThreadGoes
<1>3. LocksAreCounted'
  BY <1>0 DEF IInv, TypeOK, LocksAreCounted, Suspensions, Signals, CallSuspends,
          CallSignals, CloseWindow, ThreadGoes, callVars
<1>4. CallShape'
  BY <1>0 DEF IInv, TypeOK, CallShape, CloseWindow, ThreadGoes, callVars
<1>5. StopIsAlone'
  BY <1>0 DEF IInv, TypeOK, CallShape, StopIsAlone, Stopping, Mirrored, CloseWindow,
          ThreadGoes, callVars
<1>6. ChangesBreak'
  BY <1>0 DEF IInv, TypeOK, ChangesBreak, AboutToBreak, CloseWindow, ThreadGoes,
          workVars, waitVars, callVars
<1>7. NoStaleEvent'
  BY <1>0 DEF IInv, TypeOK, NoStaleEvent, CloseWindow, ThreadGoes, workVars, waitVars
<1> QED
  BY <1>1, <1>2, <1>3, <1>4, <1>5, <1>6, <1>7 DEF IInv

LEMMA PromptReturnsIInv == ASSUME IInv, PromptReturns PROVE IInv'
<1> USE ThreadAssumption, BoundAssumption
<1>1. TypeOK'
  <2>1. promptSet' \in BOOLEAN
    BY Zenon DEF PromptReturns
  <2> QED
    BY <2>1 DEF IInv, TypeOK, PromptReturns, ThreadGoes, waitVars, callVars
<1>2. ThreadLocks'
  BY DEF IInv, TypeOK, ThreadLocks, Holding, PromptReturns, ThreadGoes
<1>3. LocksAreCounted'
  BY DEF IInv, TypeOK, LocksAreCounted, Suspensions, Signals, CallSuspends, CallSignals,
          PromptReturns, ThreadGoes, callVars
<1>4. CallShape'
  BY DEF IInv, TypeOK, CallShape, PromptReturns, ThreadGoes, callVars
<1>5. StopIsAlone'
  BY DEF IInv, TypeOK, CallShape, StopIsAlone, Stopping, Mirrored, PromptReturns,
          ThreadGoes, callVars
<1>6. ChangesBreak'
  BY DEF IInv, TypeOK, ChangesBreak, AboutToBreak, PromptReturns, ThreadGoes, waitVars,
          callVars
<1>7. NoStaleEvent'
  BY DEF IInv, TypeOK, NoStaleEvent, PromptReturns, ThreadGoes, waitVars
<1> QED
  BY <1>1, <1>2, <1>3, <1>4, <1>5, <1>6, <1>7 DEF IInv

LEMMA NotifyIInv == ASSUME IInv, Notify PROVE IInv'
<1> USE ThreadAssumption, BoundAssumption
<1>1. TypeOK'
  BY DEF IInv, TypeOK, Notify, ThreadGoes, workVars, callVars
<1>2. ThreadLocks'
  BY DEF IInv, TypeOK, ThreadLocks, Holding, Notify, ThreadGoes
<1>3. LocksAreCounted'
  BY DEF IInv, TypeOK, LocksAreCounted, Suspensions, Signals, CallSuspends, CallSignals,
          Notify, ThreadGoes, callVars
<1>4. CallShape'
  BY DEF IInv, TypeOK, CallShape, Notify, ThreadGoes, callVars
<1>5. StopIsAlone'
  BY DEF IInv, TypeOK, CallShape, StopIsAlone, Stopping, Mirrored, Notify, ThreadGoes,
          callVars
<1>6. ChangesBreak'
  BY DEF IInv, TypeOK, ChangesBreak, AboutToBreak, Notify, ThreadGoes, workVars,
          callVars
<1>7. NoStaleEvent'
  BY DEF IInv, TypeOK, NoStaleEvent, Notify, ThreadGoes, workVars
<1> QED
  BY <1>1, <1>2, <1>3, <1>4, <1>5, <1>6, <1>7 DEF IInv

LEMMA NotifyReturnsIInv == ASSUME IInv, NotifyReturns PROVE IInv'
<1> USE ThreadAssumption, BoundAssumption
<1>1. TypeOK'
  BY DEF IInv, TypeOK, NotifyReturns, ThreadGoes, workVars, waitVars, callVars
<1>2. ThreadLocks'
  BY DEF IInv, TypeOK, ThreadLocks, Holding, NotifyReturns, ThreadGoes
<1>3. LocksAreCounted'
  BY DEF IInv, TypeOK, LocksAreCounted, Suspensions, Signals, CallSuspends, CallSignals,
          NotifyReturns, ThreadGoes, callVars
<1>4. CallShape'
  BY DEF IInv, TypeOK, CallShape, NotifyReturns, ThreadGoes, callVars
<1>5. StopIsAlone'
  BY DEF IInv, TypeOK, CallShape, StopIsAlone, Stopping, Mirrored, NotifyReturns,
          ThreadGoes, callVars
<1>6. ChangesBreak'
  BY DEF IInv, TypeOK, ChangesBreak, AboutToBreak, NotifyReturns, ThreadGoes, workVars,
          waitVars, callVars
<1>7. NoStaleEvent'
  BY DEF IInv, TypeOK, NoStaleEvent, NotifyReturns, ThreadGoes, workVars, waitVars
<1> QED
  BY <1>1, <1>2, <1>3, <1>4, <1>5, <1>6, <1>7 DEF IInv

LEMMA ResetBreakIInv == ASSUME IInv, ResetBreak PROVE IInv'
<1> USE ThreadAssumption, BoundAssumption
<1>0. /\ master = NoThread /\ signalMutex \notin Controllers
      /\ \A x \in Controllers : /\ Suspensions(x) = 0 /\ Signals(x) = 0
                                /\ pc[x] \in {"out", "suspend", "join"}
  BY ThreadHolds DEF IInv, ThreadLocks, Holding, ResetBreak, ThreadGoes
<1>1. TypeOK'
  BY <1>0 DEF IInv, TypeOK, ResetBreak, ThreadGoes, workVars, waitVars, callVars
<1>2. ThreadLocks'
  BY <1>0 DEF IInv, TypeOK, ThreadLocks, Holding, ResetBreak, ThreadGoes
<1>3. LocksAreCounted'
  BY <1>0 DEF IInv, TypeOK, LocksAreCounted, Suspensions, Signals, CallSuspends,
          CallSignals, ResetBreak, ThreadGoes, callVars
<1>4. CallShape'
  BY <1>0 DEF IInv, TypeOK, CallShape, ResetBreak, ThreadGoes, callVars
<1>5. StopIsAlone'
  BY <1>0 DEF IInv, TypeOK, CallShape, StopIsAlone, Stopping, Mirrored, ResetBreak,
          ThreadGoes, callVars
<1>6. ChangesBreak'
  BY <1>0 DEF IInv, TypeOK, ChangesBreak, AboutToBreak, ResetBreak, ThreadGoes,
          workVars, waitVars, callVars
<1>7. NoStaleEvent'
  BY <1>0 DEF IInv, TypeOK, NoStaleEvent, ResetBreak, ThreadGoes, workVars, waitVars
<1> QED
  BY <1>1, <1>2, <1>3, <1>4, <1>5, <1>6, <1>7 DEF IInv

LEMMA TimeoutsReturnIInv == ASSUME IInv, TimeoutsReturn PROVE IInv'
<1> USE ThreadAssumption, BoundAssumption
<1>0. /\ master = NoThread /\ signalMutex \notin Controllers
      /\ \A x \in Controllers : /\ Suspensions(x) = 0 /\ Signals(x) = 0
                                /\ pc[x] \in {"out", "suspend", "join"}
  BY ThreadHolds DEF IInv, ThreadLocks, Holding, TimeoutsReturn, ThreadGoes
<1>1. TypeOK'
  BY <1>0 DEF IInv, TypeOK, TimeoutsReturn, ThreadGoes, AtLoopEnd, waitVars, callVars
<1>2. ThreadLocks'
  BY <1>0 DEF IInv, TypeOK, ThreadLocks, Holding, TimeoutsReturn, ThreadGoes, AtLoopEnd
<1>3. LocksAreCounted'
  BY <1>0 DEF IInv, TypeOK, LocksAreCounted, Suspensions, Signals, CallSuspends,
          CallSignals, TimeoutsReturn, ThreadGoes, AtLoopEnd, callVars
<1>4. CallShape'
  BY <1>0 DEF IInv, TypeOK, CallShape, TimeoutsReturn, ThreadGoes, AtLoopEnd, callVars
<1>5. StopIsAlone'
  BY <1>0 DEF IInv, TypeOK, CallShape, StopIsAlone, Stopping, Mirrored, TimeoutsReturn,
          ThreadGoes, AtLoopEnd, callVars
<1>6. ChangesBreak'
  BY <1>0 DEF IInv, TypeOK, ChangesBreak, AboutToBreak, TimeoutsReturn, ThreadGoes,
          AtLoopEnd, waitVars, callVars
<1>7. NoStaleEvent'
  BY <1>0 DEF IInv, TypeOK, NoStaleEvent, TimeoutsReturn, ThreadGoes, AtLoopEnd,
          waitVars
<1> QED
  BY <1>1, <1>2, <1>3, <1>4, <1>5, <1>6, <1>7 DEF IInv

LEMMA DispatchErrorIInv == ASSUME IInv, DispatchError PROVE IInv'
<1> USE ThreadAssumption, BoundAssumption
<1>0. /\ master = NoThread /\ signalMutex \notin Controllers
      /\ \A x \in Controllers : /\ Suspensions(x) = 0 /\ Signals(x) = 0
                                /\ pc[x] \in {"out", "suspend", "join"}
  BY ThreadHolds DEF IInv, ThreadLocks, Holding, DispatchError, ThreadGoes
<1>1. TypeOK'
  BY <1>0 DEF IInv, TypeOK, DispatchError, ThreadGoes, AtLoopEnd, workVars, waitVars,
          callVars
<1>2. ThreadLocks'
  BY <1>0 DEF IInv, TypeOK, ThreadLocks, Holding, DispatchError, ThreadGoes, AtLoopEnd
<1>3. LocksAreCounted'
  BY <1>0 DEF IInv, TypeOK, LocksAreCounted, Suspensions, Signals, CallSuspends,
          CallSignals, DispatchError, ThreadGoes, AtLoopEnd, callVars
<1>4. CallShape'
  BY <1>0 DEF IInv, TypeOK, CallShape, DispatchError, ThreadGoes, AtLoopEnd, callVars
<1>5. StopIsAlone'
  BY <1>0 DEF IInv, TypeOK, CallShape, StopIsAlone, Stopping, Mirrored, DispatchError,
          ThreadGoes, AtLoopEnd, callVars
<1>6. ChangesBreak'
  BY <1>0 DEF IInv, TypeOK, ChangesBreak, AboutToBreak, DispatchError, ThreadGoes,
          AtLoopEnd, workVars, waitVars, callVars
<1>7. NoStaleEvent'
  BY <1>0 DEF IInv, TypeOK, NoStaleEvent, DispatchError, ThreadGoes, AtLoopEnd,
          workVars, waitVars
<1> QED
  BY <1>1, <1>2, <1>3, <1>4, <1>5, <1>6, <1>7 DEF IInv

LEMMA ThreadExitIInv == ASSUME IInv, ThreadExit PROVE IInv'
<1> USE ThreadAssumption, BoundAssumption
<1>0. /\ master = NoThread /\ signalMutex \notin Controllers
      /\ \A x \in Controllers : /\ Suspensions(x) = 0 /\ Signals(x) = 0
                                /\ pc[x] \in {"out", "suspend", "join"}
  BY ThreadHolds DEF IInv, ThreadLocks, Holding, ThreadExit, ThreadGoes
<1>1. TypeOK'
  BY <1>0 DEF IInv, TypeOK, ThreadExit, ThreadGoes, workVars, waitVars, callVars
<1>2. ThreadLocks'
  BY <1>0 DEF IInv, TypeOK, ThreadLocks, Holding, ThreadExit, ThreadGoes
<1>3. LocksAreCounted'
  BY <1>0 DEF IInv, TypeOK, LocksAreCounted, Suspensions, Signals, CallSuspends,
          CallSignals, ThreadExit, ThreadGoes, callVars
<1>4. CallShape'
  BY <1>0 DEF IInv, TypeOK, CallShape, ThreadExit, ThreadGoes, callVars
<1>5. StopIsAlone'
  BY <1>0 DEF IInv, TypeOK, CallShape, StopIsAlone, Stopping, Mirrored, ThreadExit,
          ThreadGoes, callVars
<1>6. ChangesBreak'
  BY <1>0 DEF IInv, TypeOK, ChangesBreak, AboutToBreak, ThreadExit, ThreadGoes,
          workVars, waitVars, callVars
<1>7. NoStaleEvent'
  BY <1>0 DEF IInv, TypeOK, NoStaleEvent, ThreadExit, ThreadGoes, workVars, waitVars
<1> QED
  BY <1>1, <1>2, <1>3, <1>4, <1>5, <1>6, <1>7 DEF IInv

LEMMA CallbackStepIInv == ASSUME IInv, CallbackStep PROVE IInv'
<1> USE ThreadAssumption, BoundAssumption
<1>1. TypeOK'
  BY DEF IInv, TypeOK, CallbackStep, Spend, Install, Remove, InCallback, lifeVars,
          suspendVars, signalVars, callVars
<1>2. ThreadLocks'
  BY DEF IInv, TypeOK, ThreadLocks, Holding, CallbackStep, Install, Remove, InCallback,
          lifeVars, suspendVars, signalVars
<1>3. LocksAreCounted'
  BY DEF IInv, TypeOK, LocksAreCounted, Suspensions, Signals, CallSuspends, CallSignals,
          CallbackStep, Install, Remove, InCallback, suspendVars, signalVars, callVars
<1>4. CallShape'
  BY DEF IInv, TypeOK, CallShape, CallbackStep, Install, Remove, InCallback, callVars
<1>5. StopIsAlone'
  BY DEF IInv, TypeOK, CallShape, StopIsAlone, Stopping, Mirrored, CallbackStep,
          Install, Remove, InCallback, lifeVars, callVars
<1>6. ChangesBreak'
  BY DEF IInv, TypeOK, ChangesBreak, AboutToBreak, CallbackStep, Install, Remove,
          InCallback, suspendVars, signalVars, callVars
<1>7. NoStaleEvent'
  BY DEF IInv, TypeOK, NoStaleEvent, CallbackStep, Install, Remove, InCallback
<1> QED
  BY <1>1, <1>2, <1>3, <1>4, <1>5, <1>6, <1>7 DEF IInv

LEMMA ArriveIInv ==
    ASSUME IInv, NEW s \in Streams, Arrive(s)
    PROVE  IInv'
<1> USE ThreadAssumption, BoundAssumption
<1>1. TypeOK'
  BY DEF IInv, TypeOK, Arrive, Spend, lifeVars, suspendVars, signalVars, workVars,
          waitVars, callVars
<1>2. ThreadLocks'
  BY DEF IInv, TypeOK, ThreadLocks, Holding, Arrive, lifeVars, suspendVars, signalVars
<1>3. LocksAreCounted'
  BY DEF IInv, TypeOK, LocksAreCounted, Suspensions, Signals, CallSuspends, CallSignals,
          Arrive, suspendVars, signalVars, callVars
<1>4. CallShape'
  BY DEF IInv, TypeOK, CallShape, Arrive, callVars
<1>5. StopIsAlone'
  BY DEF IInv, TypeOK, CallShape, StopIsAlone, Stopping, Mirrored, Arrive, lifeVars,
          callVars
<1>6. ChangesBreak'
  BY DEF IInv, TypeOK, ChangesBreak, AboutToBreak, Arrive, suspendVars, signalVars,
          workVars, waitVars, callVars
<1>7. NoStaleEvent'
  BY DEF IInv, TypeOK, NoStaleEvent, Arrive, workVars, waitVars
<1> QED
  BY <1>1, <1>2, <1>3, <1>4, <1>5, <1>6, <1>7 DEF IInv

-----------------------------------------------------------------------------
(* The theorems.                                                           *)

LEMMA NextIInv == IInv /\ [Next]_vars => IInv'
<1> SUFFICES ASSUME IInv, [Next]_vars PROVE IInv'
  OBVIOUS
<1>1. ASSUME NEW c \in Controllers, CallStep(c) PROVE IInv'
  BY <1>1, SuspendIInv, SetPromptIInv, SetTimerIInv, CountSignalIInv, SetBreakIInv, LockSignalIInv,
     UpdateNotificationIInv, StopRunningIInv, UnsignalIInv, ResumeIInv, JoinIInv
     DEF CallStep
<1>2. ASSUME NEW c \in Controllers, Controller(c) PROVE IInv'
  BY <1>1, <1>2, StartThreadIInv, CallIInv, CallResumeIInv, CallUnsignalIInv DEF Controller
<1>3. CASE ThreadStep
  BY <1>3, DoThreadStartIInv, RunIInv, LatchTimeoutIInv, OpenWindowIInv, BuildSetsIInv,
     WaitEventsIInv, WaitTimeoutIInv, CloseWindowIInv, PromptReturnsIInv, NotifyIInv,
     NotifyReturnsIInv, ResetBreakIInv, TimeoutsReturnIInv, DispatchErrorIInv, ThreadExitIInv
     DEF ThreadStep
<1>4. CASE WaitInterrupted \/ CallbackStep \/ \E s \in Streams : Arrive(s)
  BY <1>4, WaitInterruptedIInv, CallbackStepIInv, ArriveIInv
<1>5. CASE UNCHANGED vars
  BY <1>5 DEF vars, lifeVars, suspendVars, signalVars, workVars, waitVars, callVars,
              IInv, TypeOK, ThreadLocks, LocksAreCounted, Suspensions, Signals, CallSuspends,
              CallSignals, CallShape, StopIsAlone, Stopping, Mirrored, ChangesBreak, AboutToBreak,
              NoStaleEvent
<1> QED
  BY <1>2, <1>3, <1>4, <1>5 DEF Next, Terminated

THEOREM Invariance == Spec => []IInv
<1>1. IInv /\ [Next]_vars => IInv'
  BY NextIInv
<1> QED
  BY <1>1, InitIInv, PTL DEF Spec

\* Every variable keeps its type, with any number of threads.
THEOREM TypeCorrect == Spec => []TypeOK
<1>1. IInv => TypeOK
  BY DEF IInv
<1> QED
  BY <1>1, Invariance, PTL

\* Two threads never run the dispatcher's code at once: while a controlling
\* thread has suspended the dispatcher, its own thread is around its Wait.
THEOREM SuspensionIsExclusive == Spec => []SuspendedMeansAsleep
<1>1. ASSUME IInv, NEW c \in Controllers, master = c
      PROVE  tpc \in {"created", "building", "select", "woken", "done"}
  <2>1. Suspensions(c) > 0
    BY <1>1 DEF IInv, LocksAreCounted
  <2> QED
    BY <1>1, <2>1, Owning
<1>2. IInv => SuspendedMeansAsleep
  BY <1>1 DEF SuspendedMeansAsleep, IInv, TypeOK
<1> QED
  BY <1>2, Invariance, PTL

\* While a controlling thread has signaled the dispatcher, its thread is not in
\* Wait, and does not get there.
THEOREM SignalKeepsOutOfWait == Spec => []SignaledMeansOutsideWait
<1>1. ASSUME IInv, signalCount > 0 PROVE tpc \notin {"latched", "building", "select"}
  <2>1. PICK c \in Controllers : signalMutex = c /\ master = c /\ suspendMutex = c
    BY <1>1 DEF IInv, TypeOK, ThreadLocks, LocksAreCounted
  <2> QED
    BY <1>1, <2>1, ThreadAssumption DEF IInv, ThreadLocks, Holding
<1>2. IInv => SignaledMeansOutsideWait
  BY <1>1 DEF SignaledMeansOutsideWait
<1> QED
  BY <1>2, Invariance, PTL

\* The reentrant locks are given up by the outermost call and by no other.
THEOREM LockCounts == Spec => []LocksAreCounted
<1>1. IInv => LocksAreCounted
  BY DEF IInv
<1> QED
  BY <1>1, Invariance, PTL

\* The thread, which holds suspend_mutex, never waits for signal_mutex.
THEOREM NoLockCycle == Spec => []ThreadNeverBlocksOnSignal
<1>1. IInv => ThreadNeverBlocksOnSignal
  BY ThreadHolds, ThreadAssumption
     DEF IInv, TypeOK, ThreadLocks, Holding, ThreadNeverBlocksOnSignal
<1> QED
  BY <1>1, Invariance, PTL

\* No change that another thread made goes unnoticed by a thread that sleeps.
THEOREM NoChangeIsLost == Spec => []NothingUnnoticed
<1>1. IInv => NothingUnnoticed
  <2> SUFFICES ASSUME IInv, tpc = "select", suspendMutex = NoThread, ~break
               PROVE  inputSet = table /\ latched = deadline /\ ~promptSet
    BY DEF NothingUnnoticed
  <2>1. ~AboutToBreak
    BY ThreadHolds, ThreadAssumption DEF AboutToBreak
  <2> QED
    BY <2>1 DEF IInv, ChangesBreak
<1> QED
  BY <1>1, Invariance, PTL

\* A removed descriptor is never dispatched for an event of the select before.
THEOREM NoEventIsStale == Spec => []NoStaleEvent
<1>1. IInv => NoStaleEvent
  BY DEF IInv
<1> QED
  BY <1>1, Invariance, PTL

=============================================================================

------------------------------- MODULE MgenFlow -------------------------------
(***************************************************************************)
(* The flows of MGEN that send over one UDP transport, and the transport's *)
(* queue of pending flows (src/unpacked/src-mgen-5.02c/src/common/         *)
(* mgenFlow.cpp, and MgenTransport in mgenTransport.cpp).                  *)
(*                                                                         *)
(* Three sources of calls meet in one thread: the events of the script     *)
(* (ON, MOD, OFF), the flows' timers, and the socket's output event, whose *)
(* handler SendPendingMessage serves the pending flows in turn.  A handler *)
(* is a step; each turn of SendPendingMessage's loop is one, and no other  *)
(* handler runs before the loop ends.  A send is accepted, blocked         *)
(* (EWOULDBLOCK) or fails, as the socket likes.                            *)
(*                                                                         *)
(* The script keeps to the order ValidateEvent asks for.  Flows do not     *)
(* change their source port, so they stay with the transport, and a flow's *)
(* old_transport plays no part.                                            *)
(***************************************************************************)
EXTENDS Integers, MgenPendingList

CONSTANTS
    Setups,       \* what the flows may be, each [queue, unlimited, count, fails]
    MaxRefusals,  \* bound: sends of flows with a rate that are refused, in all
    MaxPending    \* bound: pending messages of a flow without a rate, or at an ON or MOD

\* queue: queue_limit; unlimited: the pattern's UnlimitedRate(); count: the COUNT
\* option, 0 for none; fails: whether sends may fail other than by blocking.
ASSUME SetupAssumption ==
    /\ Setups \subseteq
           [Flow -> [queue : Int, unlimited : BOOLEAN, count : Nat, fails : BOOLEAN]]
    /\ MaxRefusals \in Nat /\ MaxPending \in Nat

VARIABLES
    setup,     \* what each flow is
    flow,      \* the members of each flow
    list,      \* the transport's pending list
    tr,        \* the transport's other members
    phase,     \* "loop": in SendPendingMessage
    refusals   \* history: sends of flows with a rate that were refused

vars == <<setup, flow, list, tr, phase, refusals>>

\* The last event was ON or MOD (on), flow_transport is set (bound), tx_timer is
\* active, pending_messages, message_limit, off_pending and socket_error.
FlowMembers == [on : BOOLEAN, bound : BOOLEAN, timer : BOOLEAN, pending : Nat,
                limit : Nat, offPending : BOOLEAN, error : BOOLEAN]
NewFlow == [on |-> FALSE, bound |-> FALSE, timer |-> FALSE, pending |-> 0,
            limit |-> 0, offPending |-> FALSE, error |-> FALSE]

\* The socket is open, reference_count, output notification, messages_sent.
TransportMembers == [open : BOOLEAN, refs : Nat, output : BOOLEAN, sent : Nat]
NewTransport == [open |-> FALSE, refs |-> 0, output |-> FALSE, sent |-> 0]

TypeOK ==
    /\ setup \in Setups
    /\ flow \in [Flow -> FlowMembers]
    /\ list \in PendingLists
    /\ tr \in TransportMembers
    /\ phase \in {"idle", "loop"}
    /\ refusals \in Nat

Init ==
    /\ setup \in Setups
    /\ flow = [f \in Flow |-> NewFlow]
    /\ list = EmptyList
    /\ tr = NewTransport
    /\ phase = "idle" /\ refusals = 0

-----------------------------------------------------------------------------
(* The handlers work on a state of flows, list and transport.              *)

State == [flow |-> flow, list |-> list, tr |-> tr]

Become(s) == flow' = s.flow /\ list' = s.list /\ tr' = s.tr

StartOutput(s) == [s EXCEPT !.tr.output = TRUE]
SetTimer(s, f, active) == [s EXCEPT !.flow[f].timer = active]
Queue(s, f) == [s EXCEPT !.list = AppendFlow(@, f)]

\* One more pending message: the flow is on the transport's list.
AddPending(s, f) == Queue([s EXCEPT !.flow[f].pending = @ + 1], f)

\* With a queue, the limit is reached.
QueueFull(s, f) == setup[f].queue > 0 /\ s.flow[f].pending >= setup[f].queue

\* MgenSocketTransport::Open and Close: the socket is closed with its last reference.
Open(t) == [t EXCEPT !.open = TRUE, !.refs = @ + 1]

\* Mutant of Close: the socket is closed whoever else uses it.
CloseSocket(t) == [t EXCEPT !.refs = 0, !.open = FALSE, !.output = FALSE]

Close(t) ==
    IF t.refs = 0 THEN t
    ELSE IF t.refs = 1 THEN [t EXCEPT !.refs = 0, !.open = FALSE, !.output = FALSE]
    ELSE [t EXCEPT !.refs = @ - 1]

StopFlow(s, f) ==
    LET stopped == [s.flow EXCEPT ![f] = [NewFlow EXCEPT !.on = s.flow[f].on,
                                                          !.error = s.flow[f].error]]
    IN  IF s.flow[f].bound
        THEN [flow |-> stopped, list |-> RemoveFlow(s.list, f),
              tr |-> Close([s.tr EXCEPT !.sent = 0])]
        ELSE [s EXCEPT !.flow = stopped]

\* The flow has no transport, or the transport has sent its COUNT of messages.
Finished(s, f) ==
    \/ ~s.flow[f].bound
    \/ s.flow[f].limit > 0 /\ s.tr.sent >= s.flow[f].limit

\* messages_sent is compared with the counts only.
CountSent(n) == IF \E f \in Flow : n < setup[f].count THEN n + 1 ELSE n

\* SendMessage's way out if the message was sent.
Accepted(s, f) ==
    LET sent == [s EXCEPT !.tr.sent = CountSent(@),
                          !.flow[f].pending = IF @ > 0 THEN @ - 1 ELSE 0]
    IN  IF setup[f].unlimited /\ s.flow[f].timer /\ s.flow[f].error
        THEN StartOutput([sent EXCEPT !.flow[f] = [@ EXCEPT !.error = FALSE, !.timer = FALSE]])
        ELSE sent

\* Mutant of Refused: the flow is not put on the list.
RefusedUnlisted(s, f, outcome) ==
    IF setup[f].queue = 0 /\ ~setup[f].unlimited THEN s
    ELSE StartOutput([s EXCEPT !.flow[f].pending = @ + 1])

\* Without a rate, a socket that fails is tried again with the timer.
SocketError(s, f) ==
    [s EXCEPT !.tr.output = FALSE, !.flow[f] = [@ EXCEPT !.error = TRUE, !.timer = TRUE]]

\* SendMessage's way out if it was not: with a queue, or without a rate, it is
\* pending, again if it was before.
Refused(s, f, outcome) ==
    LET added   == AddPending(s, f)
        limited == IF QueueFull(added, f) THEN SetTimer(added, f, FALSE) ELSE added
    IN  IF setup[f].queue = 0 /\ ~setup[f].unlimited THEN s
        ELSE IF outcome = "BLOCKED" THEN StartOutput(limited)
        ELSE IF setup[f].unlimited
        THEN SocketError(limited, f)
        ELSE limited

\* MgenFlow::SendMessage sends, or gives up before it.
Sends(s, f) == ~(s.flow[f].offPending /\ setup[f].unlimited) /\ ~Finished(s, f)

GiveUp(s, f) == IF setup[f].unlimited THEN StopFlow(s, f) ELSE SetTimer(s, f, FALSE)

SendMessage(s, f, outcome) ==
    IF ~Sends(s, f) THEN GiveUp(s, f)
    ELSE IF outcome = "OK" THEN Accepted(s, f)
    ELSE Refused(s, f, outcome)

\* What MgenUdpTransport::SendMessage may answer, within the bounds.
Outcomes(f) ==
    {"OK"} \cup
    (IF IF setup[f].unlimited THEN flow[f].pending < MaxPending ELSE refusals < MaxRefusals
     THEN {"BLOCKED"} \cup (IF setup[f].fails THEN {"FAILED"} ELSE {})
     ELSE {})

CountRefusal(f, outcome) ==
    refusals' = IF outcome # "OK" /\ ~setup[f].unlimited THEN refusals + 1 ELSE refusals

-----------------------------------------------------------------------------
(* The script's events (MgenFlow::Update).                                 *)

\* COUNT among an event's options (DoGenericEvent).
TakeCount(s, f) ==
    IF setup[f].count = 0 THEN s
    ELSE [s EXCEPT !.tr.sent = 0, !.flow[f].limit = setup[f].count]

\* The pending messages are dropped, with the flow's place on the list.
Drop(s, f) == [s EXCEPT !.flow[f].pending = 0, !.list = RemoveFlow(@, f)]

Start(s, f) ==
    [s EXCEPT !.flow[f] = [@ EXCEPT !.on = TRUE, !.bound = TRUE, !.offPending = FALSE,
                                    !.timer = TRUE]]

\* ON; with an OFF pending the flow's reference is still counted, and what is
\* pending is dropped if the destination is another.  The timer may be active then,
\* because Restarts does not look at off_pending; Update asserts that it is not, and the
\* model goes on like a build without assertions.
On(f, moved) ==
    /\ phase = "idle" /\ ~flow[f].on /\ flow[f].pending <= MaxPending
    /\ LET s == IF ~flow[f].offPending THEN [State EXCEPT !.tr = Open(@)]
                ELSE IF flow[f].pending > 0 /\ moved THEN Drop(State, f)
                ELSE State
       IN  Become(TakeCount(Start(s, f), f))
    /\ UNCHANGED <<setup, phase, refusals>>

\* The destination changes: the reference is given up and taken again.  The flow
\* stays on the list, although nothing is pending any more.
Move(s, f) == [s EXCEPT !.flow[f].pending = 0, !.tr = Open(Close(@))]

\* MOD of the rate or, with DoModEvent, of the destination.
Mod(f, moved) ==
    /\ phase = "idle" /\ flow[f].on /\ flow[f].bound /\ flow[f].pending <= MaxPending
    /\ LET s == IF moved THEN Move(State, f) ELSE State
       IN  Become(SetTimer(TakeCount(s, f), f, TRUE))
    /\ UNCHANGED <<setup, phase, refusals>>

\* MOD to a rate of 0.
Pause(f) ==
    /\ phase = "idle" /\ flow[f].on /\ flow[f].bound
    /\ Become(StopFlow(State, f))
    /\ UNCHANGED <<setup, phase, refusals>>

\* Mutant of StopWhenSent: nobody asks for the socket's output event.
StopWhenSentQuietly(s, f) == SetTimer(s, f, FALSE)

\* The flow waits for the transport, which sends its pending messages.
StopWhenSent(s, f) == SetTimer(StartOutput(s), f, FALSE)

\* OFF: pending messages are sent first, unless the socket has an error.
Off(f) ==
    /\ phase = "idle" /\ flow[f].on
    /\ LET s == [State EXCEPT !.flow[f].on = FALSE]
           w == Queue([s EXCEPT !.flow[f].offPending = TRUE], f)
       IN  Become(IF flow[f].bound /\ flow[f].pending > 0
                  THEN IF flow[f].error THEN StopFlow(w, f) ELSE StopWhenSent(w, f)
                  ELSE StopFlow(s, f))
    /\ UNCHANGED <<setup, phase, refusals>>

-----------------------------------------------------------------------------
(* The flow's timer (MgenFlow::OnTxTimeout).                               *)

TimerFires(f) == phase = "idle" /\ flow[f].timer

TxFinished(f) ==
    /\ TimerFires(f) /\ Finished(State, f)
    /\ Become(StopFlow(State, f))
    /\ UNCHANGED <<setup, phase, refusals>>

TxOff(f) ==
    /\ TimerFires(f) /\ ~Finished(State, f) /\ flow[f].offPending
    /\ Become(IF ~flow[f].error /\ flow[f].pending > 0
              THEN StopWhenSent(Queue(State, f), f)
              ELSE StopFlow(State, f))
    /\ UNCHANGED <<setup, phase, refusals>>

\* Others wait for the transport: with a queue the message waits too, without one
\* it is dropped.
TxWaits(f) == HasPendingFlows(list) /\ ~setup[f].unlimited /\ ~flow[f].error

TxQueue(f) ==
    /\ TimerFires(f) /\ ~Finished(State, f) /\ ~flow[f].offPending /\ TxWaits(f)
    /\ LET s == StartOutput(IF setup[f].queue > 0 THEN AddPending(State, f) ELSE State)
       IN  Become(SetTimer(s, f, ~QueueFull(s, f)))
    /\ UNCHANGED <<setup, phase, refusals>>

\* Without a rate the transport's output events take over, unless the send failed.
TxSend(f, outcome) ==
    /\ TimerFires(f) /\ ~Finished(State, f) /\ ~flow[f].offPending /\ ~TxWaits(f)
    /\ outcome \in Outcomes(f)
    /\ LET s == SendMessage(State, f, outcome)
       IN  Become(IF setup[f].unlimited /\ ~s.flow[f].error
                  THEN SetTimer(StartOutput(Queue(s, f)), f, FALSE)
                  ELSE SetTimer(s, f, TRUE))
    /\ CountRefusal(f, outcome)
    /\ UNCHANGED <<setup, phase>>

TxTimeout(f) ==
    TxFinished(f) \/ TxOff(f) \/ TxQueue(f) \/ \E outcome \in Outcomes(f) : TxSend(f, outcome)

-----------------------------------------------------------------------------
(* The socket's output event (MgenTransport::SendPendingMessage).          *)

OutputReady ==
    /\ phase = "idle" /\ tr.open /\ tr.output
    /\ phase' = "loop"
    /\ UNCHANGED <<setup, flow, list, tr, refusals>>

\* Mutant of Restarts: only flows below their limit go on.
RestartsBelowLimit(s, f) == setup[f].queue > 1 /\ s.flow[f].pending < setup[f].queue - 1

\* The flow's timer is started again.
Restarts(s, f) ==
    /\ ~setup[f].unlimited
    /\ \/ setup[f].queue > 0 /\ s.flow[f].pending < setup[f].queue
       \/ setup[f].queue < 0 /\ s.flow[f].pending = 0
       \/ setup[f].queue = 0

\* The end of a turn: a flow with nothing left leaves the list.
Serve(s, f) ==
    LET r == IF Restarts(s, f) THEN SetTimer(s, f, TRUE) ELSE s
    IN  [r EXCEPT !.list = IF r.flow[f].pending = 0 /\ ~setup[f].unlimited
                           THEN RemoveFromPendingList(@) ELSE NextPendingFlow(@)]

\* A turn whose SendMessage is refused, or gives up, ends the loop.
Turn(outcome) ==
    LET f     == list.current
        sends == flow[f].pending > 0 \/ setup[f].unlimited
        s     == IF sends THEN SendMessage(State, f, outcome) ELSE State
        ended == sends /\ (~Sends(State, f) \/ outcome # "OK")
    IN  /\ phase = "loop" /\ tr.open /\ f # NoFlow
        /\ outcome \in Outcomes(f)
        /\ Become(IF ended THEN s ELSE Serve(s, f))
        /\ phase' = IF ended THEN "idle" ELSE "loop"
        /\ IF sends THEN CountRefusal(f, outcome) ELSE UNCHANGED refusals
        /\ UNCHANGED setup

LoopEnds ==
    /\ phase = "loop" /\ (~tr.open \/ list.current = NoFlow)
    /\ phase' = "idle"
    /\ tr' = IF HasPendingFlows(list) THEN tr ELSE [tr EXCEPT !.output = FALSE]
    /\ UNCHANGED <<setup, flow, list, refusals>>

ScriptEvent ==
    \E f \in Flow : Pause(f) \/ Off(f) \/ \E moved \in BOOLEAN : On(f, moved) \/ Mod(f, moved)

Next ==
    \/ ScriptEvent
    \/ \E f \in Flow : TxTimeout(f)
    \/ OutputReady
    \/ \E outcome \in {"OK", "BLOCKED", "FAILED"} : Turn(outcome)
    \/ LoopEnds

Spec == Init /\ [][Next]_vars

\* A script ends.  The event loop serves due timers and ready sockets in every round.
\* A socket that is tried again and again, by a timer or because it was reported ready,
\* accepts a message again and again, and is full again and again when messages are
\* sent without a rate.
FairSpec ==
    /\ Spec
    /\ <>[][~ScriptEvent]_vars
    /\ \A f \in Flow : SF_vars(TxFinished(f) \/ TxOff(f) \/ TxQueue(f) \/ TxSend(f, "OK"))
    /\ WF_vars(OutputReady) /\ WF_vars(LoopEnds)
    /\ SF_vars(Turn("OK")) /\ SF_vars(Turn("BLOCKED"))

-----------------------------------------------------------------------------
(* Properties.                                                             *)

\* The pending list stays a list whatever adds and removes flows: timers, OFF and
\* ON events, and SendPendingMessage in the middle of its walk (AppendFlow,
\* RemoveFlow, RemoveFromPendingList).
ListOK == WellLinked(list)

\* A flow with pending messages is on the list of the transport that will send them:
\* no message is pending that nobody will ever look at (SendMessage, StopFlow).
PendingIsListed == \A f \in Flow : flow[f].pending > 0 => flow[f].bound /\ Listed(list, f)

\* The socket is open as long as a flow uses it, and the references are those of the
\* flows that do (Open, Close and DecrementReferenceCount in DoOnEvent, DoModEvent
\* and StopFlow).
ReferencesAreUsers ==
    /\ tr.refs = Cardinality({f \in Flow : flow[f].bound})
    /\ tr.open <=> tr.refs > 0

\* After OFF a flow stops, once its pending messages are sent, unless it is on again
\* before (mgen-tech.xml: "Any pending messages for a flow will be sent before the
\* flow will be shutdown by a scheduled OFF event").
OffStopsFlow ==
    \A f \in Flow : (~flow[f].on /\ flow[f].bound) ~> (flow[f].on \/ ~flow[f].bound)

\* A flow without a rate turned output notification off because its send failed, and
\* was stopped before another send succeeded (SendMessage's socket error, StopFlow).
\* Nobody is left to turn it on again for the flows that wait for the transport.
LeftOff == ~tr.output /\ \E u \in Flow : flow[u].error /\ ~flow[u].bound

\* OffStopsFlow, unless such a flow leaves output notification off for ever: sends that
\* fail keep no flow from stopping as long as the flow that turned output notification
\* off goes on and tries again (OnTxTimeout, SendMessage).
OffStopsUnlessLeftOff ==
    \A f \in Flow :
        (~flow[f].on /\ flow[f].bound) ~> (flow[f].on \/ ~flow[f].bound \/ []LeftOff)

\* A timer that was stopped because the queue is full is started again, unless the
\* flow is stopped (SendPendingMessage: "Restart flow timer if we're below the
\* queue limit"), with the same exception.
TimerComesBackUnlessLeftOff ==
    \A f \in Flow :
        (flow[f].on /\ flow[f].bound /\ ~flow[f].timer /\ ~setup[f].unlimited)
            ~> (flow[f].timer \/ ~flow[f].on \/ ~flow[f].bound \/ []LeftOff)
=============================================================================

--------------------------- MODULE MgenTcpTransport ---------------------------
(***************************************************************************)
(* A TCP connection of MGEN: how a message becomes fragments, buffers and  *)
(* bytes on the sending transport, and how the receiving transport finds   *)
(* the fragments in the bytes again (src/unpacked/src-mgen-5.02c/src/      *)
(* common/mgenTransport.cpp, MgenTcpTransport).                            *)
(*                                                                         *)
(* Both ends are non-blocking and driven by socket events: a send takes    *)
(* what there is room for, or nothing, and is continued when the socket    *)
(* reports output; a read returns any part of what was asked for.  Each    *)
(* turn of the code's send and receive loops is a step.  The content of a  *)
(* message is its number; a byte is known by its fragment and its place    *)
(* there.  The first two bytes of a fragment hold its length, its last     *)
(* four its checksum, if checksums are enabled.  The connection may break  *)
(* at any time, and is opened anew with new sockets.                       *)
(***************************************************************************)
EXTENDS Integers, Sequences, SequencesExt

CONSTANTS
    TxBufferSize,    \* TX_BUFFER_SIZE
    MaxFragSize,     \* MAX_FRAG_SIZE
    MinFragSize,     \* MIN_FRAG_SIZE
    ChecksumSize,    \* the bytes of a checksum, 4 in the code
    Base,            \* the values of a byte, 256 in the code
    ChecksumEnable,  \* whether the sender writes checksums
    Sizes,           \* the sizes of messages
    Splits,          \* where reads may end: inside a "length", again inside a "checksum"
    Capacity,        \* bound: bytes under way, the socket buffers of both ends
    MaxMessages,     \* bound: messages
    MaxBreaks        \* bound: broken connections

MsgLenSize == 2

ASSUME SizeAssumption ==
    /\ {TxBufferSize, MaxFragSize, MinFragSize, ChecksumSize, Base, Capacity} \subseteq Nat \ {0}
    /\ ChecksumSize + MsgLenSize <= MinFragSize
    /\ 2 * MinFragSize <= TxBufferSize
    /\ 2 * TxBufferSize <= MaxFragSize
    /\ MaxFragSize < Base * Base
    /\ Sizes \subseteq Nat
    /\ \A s \in Sizes : s >= MinFragSize
ASSUME OptionAssumption ==
    /\ ChecksumEnable \in BOOLEAN
    /\ Splits \subseteq {"length", "checksum"}
    /\ MaxMessages \in Nat /\ MaxBreaks \in Nat

VARIABLES
    phase,     \* the loop the sender is in: "idle", "send" (SendMessage) or "event" (OnEvent)
    tx,        \* the tx_ members
    output,    \* output notification is on
    alive,     \* the connection stands
    wire,      \* the bytes under way
    rx,        \* the rx_ members
    messages,  \* history: messages taken
    breaks,    \* history: broken connections
    begun,     \* history: the fragments packed on this connection
    received,  \* history: the RECV and RERR events logged on this connection
    logged     \* history: the SEND events logged on this connection

txVars == <<phase, tx, output>>
history == <<messages, breaks, begun, received, logged>>
vars == <<txVars, alive, wire, rx, history>>

\* tx_msg's number and mgen_msg_len, its msg_len (the fragment's), tx_msg_offset,
\* tx_buffer_pending and tx_fragment_pending.
TxMembers == [msg : Nat, size : Nat, len : Nat, offset : Nat, buffer : Nat, fragment : Nat]
ClearTx == [msg |-> 0, size |-> 0, len |-> 0, offset |-> 0, buffer |-> 0, fragment |-> 0]

\* A fragment: its message, its place there, its length and whether it ends it.
Fragments == [msg : Nat, at : Nat, len : Nat, last : BOOLEAN]
Bytes == [frag : Fragments, at : Nat]

\* rx_msg's length (0: not known), rx_msg_index, the bytes put into the checksum,
\* the bytes in rx_checksum_buffer and (history) the bytes that were read.
RxMembers == [len : Nat, index : Nat, summed : Int, kept : Nat, bytes : Seq(Bytes)]
ClearRx == [len |-> 0, index |-> 0, summed |-> 0, kept |-> 0, bytes |-> <<>>]

TypeOK ==
    /\ phase \in {"idle", "send", "event"}
    /\ tx \in TxMembers
    /\ output \in BOOLEAN /\ alive \in BOOLEAN
    /\ wire \in Seq(Bytes)
    /\ rx \in RxMembers
    /\ messages \in Nat /\ breaks \in Nat
    /\ begun \in Seq(Fragments)
    /\ received \in Seq([frag : Fragments, len : Nat, error : BOOLEAN])
    /\ logged \in Seq(Nat)

Init ==
    /\ phase = "idle" /\ tx = ClearTx /\ output = FALSE
    /\ alive = TRUE /\ wire = <<>> /\ rx = ClearRx
    /\ messages = 0 /\ breaks = 0
    /\ begun = <<>> /\ received = <<>> /\ logged = <<>>

-----------------------------------------------------------------------------
(* The sender: a message is cut into fragments, a fragment into buffers.   *)

Remaining(t) == t.size - t.offset

\* Mutant of GetNextTxFragmentSize: the rest may be any size.
TxFragmentSizeGreedy(t) ==
    IF Remaining(t) > MaxFragSize THEN MaxFragSize ELSE Remaining(t)

GetNextTxFragmentSize(t) ==
    IF Remaining(t) <= MaxFragSize THEN Remaining(t)
    ELSE IF Remaining(t) < MaxFragSize + MinFragSize THEN MaxFragSize - MinFragSize
    ELSE MaxFragSize

\* What Pack puts into the buffer of a fragment's beginning.
FirstBufferSize(len) ==
    IF len <= TxBufferSize THEN len
    ELSE IF ChecksumEnable /\ len - TxBufferSize < ChecksumSize
         THEN TxBufferSize - ChecksumSize
    ELSE TxBufferSize

\* Mutant of NextBufferSize: no room is kept for the checksum.
NextBufferFull(pending) == IF pending > TxBufferSize THEN TxBufferSize ELSE pending

\* What SetupNextTxBuffer takes of the rest of a fragment.
NextBufferSize(pending) ==
    IF ~ChecksumEnable
    THEN IF pending <= TxBufferSize THEN pending ELSE TxBufferSize
    ELSE IF pending <= TxBufferSize - ChecksumSize THEN pending
    ELSE IF pending - TxBufferSize < ChecksumSize THEN pending - ChecksumSize
    ELSE TxBufferSize

\* GetNextTxFragment: with nothing left it returns 0, and msg_len is 0.
GetNextTxFragment(t) ==
    LET len == GetNextTxFragmentSize(t)
    IN  IF len = 0 THEN [t EXCEPT !.len = 0, !.fragment = 0]
        ELSE [t EXCEPT !.len = len, !.fragment = len, !.buffer = FirstBufferSize(len),
                       !.offset = @ + FirstBufferSize(len)]

SetupNextTxBuffer(t) ==
    [t EXCEPT !.buffer = NextBufferSize(t.fragment), !.offset = @ + NextBufferSize(t.fragment)]

\* The first lines of GetNextTxBuffer, and the like in SendMessage.
Account(t, n) == [t EXCEPT !.buffer = @ - n, !.fragment = @ - n]

\* The fragment that is in the buffers, by the header that was packed.
FragmentOf(t, at) ==
    [msg |-> t.msg, at |-> at, len |-> t.len, last |-> at + t.len = t.size]

Begin(t) == begun' = Append(begun, FragmentOf(t, tx.offset))

\* The n bytes that the socket takes next.
Hand(n) ==
    LET first == tx.len - tx.fragment
    IN  wire' = wire \o [i \in 1..n |-> [frag |-> Last(begun), at |-> first + i - 1]]

\* MgenTcpTransport::SendMessage, up to its loop: MSG_SEND_BLOCKED, and nothing
\* happens, while another message is being sent.
SendMessage(size) ==
    /\ phase = "idle" /\ alive
    /\ messages < MaxMessages
    /\ tx.offset = 0
    /\ messages' = messages + 1
    /\ LET t == GetNextTxFragment([ClearTx EXCEPT !.msg = messages', !.size = size])
       IN  tx' = t /\ begun' = Append(begun, FragmentOf(t, 0))
    /\ phase' = "send"
    /\ UNCHANGED <<output, alive, wire, rx, breaks, received, logged>>

\* OnEvent(SEND): the buffer is tried again.  (With nothing in the buffers the
\* event only sends pending messages of the flows.)
OutputReady ==
    /\ phase = "idle" /\ alive /\ output /\ Len(wire) < Capacity
    /\ phase' = "event"
    /\ UNCHANGED <<tx, output, alive, wire, rx, history>>

\* Mutant of SendBlocks: nobody asks for output notification.
SendBlocksQuietly ==
    /\ phase # "idle" /\ alive /\ Len(wire) = Capacity
    /\ phase' = "idle"
    /\ output' = FALSE
    /\ UNCHANGED <<tx, alive, wire, rx, history>>

\* Socket Send takes nothing: wait for the socket.
SendBlocks ==
    /\ phase # "idle" /\ alive /\ Len(wire) = Capacity
    /\ phase' = "idle"
    /\ output' = TRUE
    /\ UNCHANGED <<tx, alive, wire, rx, history>>

\* Socket Send fails: SendMessage gives the message up, OnEvent waits for the
\* error event.  The connection is dead by then.
SendFails ==
    /\ phase # "idle" /\ ~alive
    /\ phase' = "idle"
    /\ IF phase = "send" THEN tx' = ClearTx /\ output' = FALSE ELSE UNCHANGED <<tx, output>>
    /\ UNCHANGED <<alive, wire, rx, history>>

\* The message is sent: log it, clear the state, leave the loop.
MessageDone ==
    /\ logged' = Append(logged, tx.msg)
    /\ tx' = ClearTx
    /\ output' = FALSE
    /\ phase' = "idle"
    /\ UNCHANGED begun

\* Socket Send takes n bytes: go on in the buffer, or with the next buffer of
\* the fragment, or the next fragment of the message, or finish it.
SendBytes(n) ==
    LET t == Account(tx, n)
        next == GetNextTxFragment(t)
    IN  /\ phase # "idle" /\ alive
        /\ n \in 1..tx.buffer /\ Len(wire) + n <= Capacity
        /\ Hand(n)
        /\ \/ /\ t.buffer > 0
              /\ tx' = t /\ UNCHANGED <<phase, output, begun, logged>>
           \/ /\ t.buffer = 0 /\ t.fragment > 0
              /\ tx' = SetupNextTxBuffer(t) /\ UNCHANGED <<phase, output, begun, logged>>
           \/ /\ t.buffer = 0 /\ t.fragment = 0 /\ next.fragment > 0
              /\ tx' = next /\ Begin(next) /\ UNCHANGED <<phase, output, logged>>
           \/ /\ t.buffer = 0 /\ t.fragment = 0 /\ next.fragment = 0
              /\ MessageDone
        /\ UNCHANGED <<alive, rx, messages, breaks, received>>

-----------------------------------------------------------------------------
(* The receiver.                                                           *)

\* GetRxNumBytes: the length first, then the rest, up to the end of the buffer.
\* The rest is unsigned: a length below the index asks for the whole buffer.
GetRxNumBytes(r) ==
    LET rest == r.len - r.index
        room == TxBufferSize - (r.index % TxBufferSize)
    IN  IF r.len = 0 THEN MsgLenSize
        ELSE IF rest < 0 \/ rest > room THEN room
        ELSE rest

\* The values a byte may have: those of a length, or any.
Values(byte) ==
    CASE byte.at = 0 -> {byte.frag.len \div Base}
      [] byte.at = 1 -> {byte.frag.len % Base}
      [] OTHER -> 0..(Base - 1)

\* The first two bytes of the buffer of this read, which is cleared before it.
LengthIn(index, read) ==
    CASE index = 0 -> {h * Base + l : h \in Values(read[1]), l \in Values(read[2])}
      [] index = 1 -> Values(read[1])
      [] OTHER -> {0}

\* OnRecvMsg's length: taken when it is not known and two bytes were read.
TakeLength(r, read) ==
    IF r.len = 0 /\ r.index >= MsgLenSize
    THEN {[r EXCEPT !.len = l] : l \in LengthIn(rx.index, read)}
    ELSE {r}

\* Mutant of CalcRxChecksum: a checksum of which a part was read is copied anew.
ChecksumInOneRead(r, n) ==
    IF r.index = r.len
    THEN [r EXCEPT !.summed = @ + n - ChecksumSize, !.kept = IF n < ChecksumSize THEN n ELSE ChecksumSize]
    ELSE [r EXCEPT !.summed = @ + n]

\* CalcRxChecksum: the bytes before the checksum are summed up, those of the
\* checksum are kept.  A second part of it that is not the last one is taken with
\* the first, which is no longer in the buffer: what is summed then is undefined.
CalcRxChecksum(r, n) ==
    LET part == r.index + ChecksumSize - r.len
    IN  IF r.index = r.len
        THEN IF n > ChecksumSize
             THEN [r EXCEPT !.summed = @ + n - ChecksumSize, !.kept = ChecksumSize]
             ELSE [r EXCEPT !.kept = @ + n]
        ELSE IF part > 0 /\ r.len # 0
             THEN [r EXCEPT !.summed = @ + n - part, !.kept = @ + part]
             ELSE [r EXCEPT !.summed = @ + n]

\* Without "length" in Splits the length is read at once; without "checksum" at
\* most one read ends inside the checksum.
SplitAllowed(n) ==
    LET next == [rx EXCEPT !.index = @ + n]
        left == rx.len - next.index
    IN  IF rx.len = 0
        THEN "length" \in Splits \/ n = MsgLenSize
        ELSE \/ "checksum" \in Splits
             \/ left <= 0 \/ left >= ChecksumSize
             \/ rx.kept = 0 /\ GetRxNumBytes(next) = left

\* What is logged of the fragment: an error if the checksum does not match.
Logged(r) ==
    [frag |-> r.bytes[1].frag, len |-> r.len,
     error |-> /\ ChecksumEnable
               /\ \/ r.len # r.bytes[1].frag.len
                  \/ r.summed # r.len - ChecksumSize
                  \/ r.kept # ChecksumSize
                  \/ \E i \in 1..r.len : r.bytes[i] # [frag |-> r.bytes[1].frag, at |-> i - 1]]

ResetRxMsgState == ClearRx

\* A turn of OnEvent(RECV): a read of n bytes, and OnRecvMsg.
Recv(n) ==
    /\ n \in 1..GetRxNumBytes(rx) /\ n <= Len(wire)
    /\ SplitAllowed(n)
    /\ LET read == SubSeq(wire, 1, n)
           r == [rx EXCEPT !.index = @ + n, !.bytes = @ \o read]
       IN  \E t \in TakeLength(r, read) :
               LET c == CalcRxChecksum(t, n)
               IN  IF c.index = c.len
                   THEN received' = Append(received, Logged(c)) /\ rx' = ResetRxMsgState
                   ELSE received' = received /\ rx' = c
    /\ wire' = SubSeq(wire, n + 1, Len(wire))
    /\ UNCHANGED <<txVars, alive, messages, breaks, begun, logged>>

-----------------------------------------------------------------------------
(* The connection.                                                         *)

\* The connection breaks; some of the bytes under way may still arrive.
Break ==
    /\ alive /\ breaks < MaxBreaks
    /\ alive' = FALSE
    /\ breaks' = breaks + 1
    /\ \E n \in 0..Len(wire) : wire' = SubSeq(wire, 1, n)
    /\ UNCHANGED <<txVars, rx, messages, begun, received, logged>>

\* Mutant of ResetTxMsgState: the rest of the message stays.
KeepTx == tx

ResetTxMsgState == ClearTx

\* OnEvent(ERROR_ or DISCONNECT) on both ends, ShutdownTransport, and the next
\* flow's Open, Connect and Accept, with the transports that are closed now.
Reconnect ==
    /\ ~alive /\ phase = "idle"
    /\ alive' = TRUE
    /\ tx' = ResetTxMsgState /\ output' = FALSE
    /\ wire' = <<>> /\ rx' = ResetRxMsgState
    /\ begun' = <<>> /\ received' = <<>> /\ logged' = <<>>
    /\ UNCHANGED <<phase, messages, breaks>>

SendStep == (\E n \in 1..TxBufferSize : SendBytes(n)) \/ SendFails
RecvStep == \E n \in 1..MaxFragSize : Recv(n)

Next ==
    \/ \E size \in Sizes : SendMessage(size)
    \/ OutputReady \/ SendBlocks \/ SendStep
    \/ RecvStep
    \/ Break \/ Reconnect

Spec == Init /\ [][Next]_vars

\* The event loop of either end goes on, and reports a socket that is ready.
FairSpec ==
    /\ Spec
    /\ WF_vars(OutputReady) /\ WF_vars(SendBlocks) /\ WF_vars(SendStep)
    /\ WF_vars(RecvStep) /\ WF_vars(Reconnect)

-----------------------------------------------------------------------------
(* Properties.                                                             *)

\* What is logged on the receiving side are the fragments of the sending side, each
\* once, whole, in order and without error, up to where the connection broke
\* (OnRecvMsg, CalcRxChecksum against GetNextTxFragment, GetNextTxBuffer).
ReceivedInOrder ==
    /\ Len(received) <= Len(begun)
    /\ \A i \in 1..Len(received) :
           received[i] = [frag |-> begun[i], len |-> begun[i].len, error |-> FALSE]

\* The fragments of a message are as long as the message, one after the other, and
\* no fragment is shorter than MIN_FRAG_SIZE (mgenTransport.cpp, GetNextTxFragmentSize:
\* "We don't want the last fragment to be less than the minimum fragment size").  SEND
\* is logged of messages whose last fragment was begun.
FragmentsTile ==
  /\ \A j \in 1..Len(logged) : \E i \in 1..Len(begun) : begun[i].msg = logged[j] /\ begun[i].last
  /\ \A i \in 1..Len(begun) :
        /\ MinFragSize <= begun[i].len /\ begun[i].len <= MaxFragSize
        /\ IF i = 1 \/ begun[i - 1].last
           THEN begun[i].at = 0
           ELSE /\ begun[i].msg = begun[i - 1].msg
                /\ begun[i].at = begun[i - 1].at + begun[i - 1].len

\* The end of a fragment that waits for its last buffer has room for the checksum:
\* CalcTxChecksum's "Not enough room for checksum!" is never met, and nothing is
\* handed over beyond the fragment (GetNextTxFragment, SetupNextTxBuffer).
ChecksumHasRoom ==
    /\ tx.buffer <= tx.fragment
    /\ ChecksumEnable /\ tx.buffer < tx.fragment => tx.fragment - tx.buffer >= ChecksumSize

\* A message that was taken is being sent, with the socket asked for output unless
\* one of the loops runs, until it is logged: SendMessage and OnEvent never leave the
\* rest of a message behind.
RestIsWaitedFor ==
    phase = "idle" /\ tx.offset > 0 => output /\ tx.buffer > 0

\* What was begun is received, or the connection breaks: a blocked socket, a short
\* read or a buffer that is filled at a boundary never stop a message for good.
EveryFragmentArrives ==
    \A k \in 1..(2 * MaxMessages) :
        Len(begun) = k ~> Len(received) >= k \/ ~alive
=============================================================================

---------------------------- MODULE PacketRelay ----------------------------
(***************************************************************************)
(* What a network relies on in a node that relays multicast, without       *)
(* windows, identifiers of 16 bits, flows or their pruning: the node knows *)
(* each packet that is under way by its stream and its number there, and   *)
(* what it has done about it on each interface is done once.  Which        *)
(* interfaces a copy is meant for, and through which of them it is sent,   *)
(* is left to the relay algorithms; off means that nothing is sent.        *)
(***************************************************************************)
EXTENDS Naturals

CONSTANTS
    Ifaces,   \* interfaces
    NoIface,
    Streams   \* sequences that packets are numbered in

VARIABLES
    enabled,  \* the node relays
    works,    \* works[i]: it can remember packets for interface i
    sent,     \* how many packets each stream has had
    packets   \* those under way, with what became of each on each interface

vars == <<enabled, works, sent, packets>>

\* A packet that was heard on "from" is never sent back there.
Packet(stream, number, from) ==
    [stream |-> stream, number |-> number,
     fate |-> [i \in Ifaces |-> IF i = from THEN "skipped" ELSE "none"]]

\* A copy of the packet is meant for dsts, and may be sent through "chosen".
Handled(p, dsts, chosen) ==
    [p EXCEPT !.fate = [i \in Ifaces |->
        IF i \notin dsts \/ @[i] # "none" THEN @[i]
        ELSE IF ~works[i] THEN "missed"
        ELSE IF i \in chosen THEN "sent" ELSE "skipped"]]

\* The stream has another packet, of its source or renumbered from another; those
\* that it leaves behind are no longer under way.
Begin(stream, from) ==
    /\ sent' = [sent EXCEPT ![stream] = @ + 1]
    /\ \E dsts \in SUBSET Ifaces : \E chosen \in SUBSET dsts :
          /\ chosen # {} => enabled
          /\ LET new == Handled(Packet(stream, sent'[stream], from), dsts, chosen)
             IN  new \in packets' /\ packets' \subseteq packets \cup {new}
    /\ UNCHANGED <<enabled, works>>

\* Another copy of a packet under way arrives.
Repeat(p) ==
    /\ \E dsts \in SUBSET Ifaces : \E chosen \in SUBSET dsts :
          /\ chosen # {} => enabled
          /\ packets' = (packets \ {p}) \cup {Handled(p, dsts, chosen)}
    /\ UNCHANGED <<enabled, works, sent>>

\* Packets are no longer under way.
End ==
    /\ packets' \in SUBSET packets
    /\ UNCHANGED <<enabled, works, sent>>

Switch ==
    /\ enabled' \in BOOLEAN
    /\ UNCHANGED <<works, sent, packets>>

Init ==
    /\ enabled = TRUE
    /\ works \in [Ifaces -> BOOLEAN]
    /\ sent = [s \in Streams |-> 0]
    /\ packets = {}

Next ==
    \/ \E s \in Streams, from \in Ifaces \cup {NoIface} : Begin(s, from)
    \/ \E p \in packets : Repeat(p)
    \/ End
    \/ Switch

Spec == Init /\ [][Next]_vars
=============================================================================

-------------------------------- MODULE Smf --------------------------------
(***************************************************************************)
(* One nrlsmf node (smf.cpp): it hears multicast packets on its interfaces *)
(* and decides through which of them it forwards each one.  A packet is    *)
(* forwarded at most once through an interface, which has a                *)
(* SmfDuplicateTree for that; flows that are idle are pruned from it.      *)
(*                                                                         *)
(* The network is external.  Copies of a packet reach the node in any      *)
(* number and order, on the interfaces where its source or a neighbour     *)
(* transmits, for as long as the packet is under way: until Lifetime       *)
(* prunes have passed or Spread later packets of its stream exist.         *)
(***************************************************************************)
EXTENDS SmfDuplicateTree

CONSTANTS
    Ifaces,      \* interfaces
    NoIface,
    Macs,        \* MAC addresses of neighbours
    Streams,     \* [pair, tagger, spi, by]: packets numbered in one sequence
    Node,        \* the "by" of a stream that this node has resequenced
    NoTagger,
    NoSpi,
    Heard,       \* where the source of a stream is heard
    Manet,       \* interfaces where neighbours forward what they hear
    Configs,     \* command lines: resequence and associates by interface, with a
                 \* bound on the packets of each stream (quota)
    FirstIds,    \* where the sequence of a source may start
    Seeds,       \* what rand may give the sequence of a new flow
    Spread,      \* how far a packet may fall behind
    Lifetime,    \* how long a packet may be under way
    MaxTime      \* bound: current_update_time

VARIABLES
    config,               \* iface_array: resequence, and associates by interface
    relay_enabled, relay_selected,
    selectors, neighbors, \* selector_list, neighbor_list
    trees,                \* duplicate_tree of each interface
    seqMgr,               \* ip4_seq_mgr (ip6_seq_mgr is another of its kind)
    current_update_time,
    air,                  \* the packets under way
    sent,                 \* how many packets each stream has had
    first                 \* the sequence number its source starts with

net == <<air, sent, first>>
control == <<relay_enabled, relay_selected, selectors, neighbors>>
vars == <<config, control, trees, seqMgr, current_update_time, net>>

-----------------------------------------------------------------------------
(* Streams and packets.  fate[i] of a packet is what became of it on       *)
(* interface i: "none" so far, "sent" through it, "skipped" (the tree has  *)
(* it, but another rule kept it back), "again" if it was taken for new     *)
(* although the tree has had it before, and "missed" if its first copy was *)
(* taken for a duplicate.                                                  *)

IsIPSec(stream) == stream.spi # NoSpi

\* Its packets carry an identifier that is left alone: an IPSec sequence
\* number, or an SMF_DPD option.
IsMarked(stream) == IsIPSec(stream) \/ stream.tagger # NoTagger

\* What the packets of a pair of addresses are after IncrementSequence.
Resequenced(pair) == [pair |-> pair, tagger |-> NoTagger, spi |-> NoSpi, by |-> Node]

AllStreams == Streams \cup {Resequenced(s.pair) : s \in Streams}

ASSUME SmfAssumption ==
    /\ NoIface \notin Ifaces
    /\ \A s \in Streams : s.by # Node /\ Heard[s] \subseteq Ifaces
    /\ FirstIds \subseteq Indices /\ Seeds \subseteq Indices
    /\ {Spread, Lifetime, MaxTime} \subseteq Nat
    /\ \A c \in Configs :
          /\ c.resequence \subseteq Ifaces
          /\ \A i \in Ifaces : \A a \in c.associates[i] : a.to \in Ifaces
          /\ \A s \in AllStreams : c.quota[s] \in Nat

\* AddAssociate takes an interface twice ("TBD"); nrlsmf asks FindAssociate first.
ASSUME AssociatedOnce ==
    \A c \in Configs : \A i \in Ifaces : \A a, b \in c.associates[i] : a.to = b.to => a = b

Packet(stream, number, id, from) ==
    [stream |-> stream, number |-> number, id |-> id, born |-> current_update_time,
     from |-> from, fate |-> [i \in Ifaces |-> IF i = from THEN "skipped" ELSE "none"]]

UnderWay(packets, newest) ==
    {p \in packets : newest[p.stream] - p.number <= Spread}

\* Interface::IsDuplicatePkt: srcAddr and dstAddr; the copy of srcAddr
\* overwrites taggerId, and keyBytes starts over.
FlowKey(stream) == <<stream.pair>>

\* IsDuplicateIPSecPkt: srcAddr, dstAddr and the SPI.
IPSecKey(stream) == <<stream.pair, stream.spi>>

KeyOf(stream) == IF IsIPSec(stream) THEN IPSecKey(stream) ELSE FlowKey(stream)

Keys == {FlowKey(s) : s \in AllStreams} \cup {KeyOf(s) : s \in AllStreams}

Pairs == {s.pair : s \in Streams}

TypeOK ==
    /\ config \in Configs
    /\ {relay_enabled, relay_selected} \subseteq BOOLEAN
    /\ selectors \subseteq Macs /\ neighbors \subseteq Macs
    /\ \A i \in Ifaces :
          /\ IsInjective(trees[i].flow_list) /\ ToSet(trees[i].flow_list) \subseteq Keys
          /\ \A k \in Keys : IsSet(trees[i].window[k]) <=> k \in ToSet(trees[i].flow_list)
    /\ IsInjective(seqMgr.flow_list) /\ ToSet(seqMgr.flow_list) \subseteq Pairs
    /\ \A p \in air : p.stream \in AllStreams /\ p.id \in Indices /\ p.number \in 1..sent[p.stream]

-----------------------------------------------------------------------------
(* SmfSequenceMgr.                                                         *)

EmptySeqMgr ==
    [flow_list |-> <<>>, sequence |-> [p \in Pairs |-> 0], update_time |-> [p \in Pairs |-> 0]]

\* What IncrementSequence returns; "start" is what rand gives a new flow.
NextSequence(mgr, pair, start) ==
    IF pair \in ToSet(mgr.flow_list) THEN mgr.sequence[pair] ELSE start

IncrementSequence(mgr, time, pair, start) ==
    [flow_list |-> ToHead(mgr.flow_list, pair),
     sequence |-> [mgr.sequence EXCEPT ![pair] = (NextSequence(mgr, pair, start) + 1) % RangeSize],
     update_time |-> [mgr.update_time EXCEPT ![pair] = time]]

PruneSequences(mgr, time) ==
    LET kept == Pruned(mgr.flow_list, mgr.update_time, time)
    IN  [flow_list |-> kept,
         sequence |-> [p \in Pairs |-> IF p \in ToSet(kept) THEN mgr.sequence[p] ELSE 0],
         update_time |-> [p \in Pairs |-> IF p \in ToSet(kept) THEN mgr.update_time[p] ELSE 0]]

-----------------------------------------------------------------------------
(* ProcessPacket.                                                          *)

\* The relay algorithm's decision, before duplicates are looked for.
Forwards(type, mac) ==
    CASE type = "CF" -> relay_enabled
      [] type = "E_CDS" -> relay_enabled /\ relay_selected
      [] type = "S_MPR" -> relay_enabled /\ mac \in selectors
      [] OTHER -> FALSE   \* MPR_CDS and NS_MPR are not implemented

\* With S_MPR the first copy from any neighbour decides.
UpdatesTree(type, mac) == Forwards(type, mac) \/ (type = "S_MPR" /\ mac \in neighbors)

\* Mutant of MarkedAtSource: a resequenced packet is not noted.
NotMarkedAtSource(packet, src) == trees

\* The tree of an interface that resequences learns every packet it hears.
MarkedAtSource(packet, src) ==
    IF src \in config.resequence
    THEN [trees EXCEPT ![src] = After(@, current_update_time, FlowKey(packet.stream), packet.id)]
    ELSE trees

\* The loop over the associates of the interface it was heard on.  No interface is
\* associated twice, so the order of the loop does not matter.
Relayed(packet, src, mac, ttl, table, newest) ==
    LET key == KeyOf(packet.stream)
        updated == {a \in config.associates[src] : UpdatesTree(a.type, mac)}
        dsts == {a.to : a \in updated}
        sending == {a.to : a \in {b \in updated : Forwards(b.type, mac) /\ ttl > 1}}
        duplicate == {i \in dsts : IsDuplicate(table[i], key, packet.id)}
        late == newest[packet.stream] - packet.number >= NumBits
        Fate(i) ==
            IF i \in duplicate
            THEN IF packet.fate[i] = "none" /\ ~late THEN "missed" ELSE packet.fate[i]
            ELSE IF packet.fate[i] # "none" THEN "again"
            ELSE IF i \in sending THEN "sent" ELSE "skipped"
    IN  /\ trees' = [i \in Ifaces |->
              IF i \in dsts THEN After(table[i], current_update_time, key, packet.id) ELSE table[i]]
        /\ air' = UnderWay((air \ {packet}) \cup
              {[packet EXCEPT !.fate = [i \in Ifaces |-> IF i \in dsts THEN Fate(i) ELSE @[i]]]}, newest)

\* A packet that is resequenced is a new one from here on.
ProcessAndResequence(packet, src, mac, ttl, start) ==
    LET pair == packet.stream.pair
        stream == Resequenced(pair)
        renumbered == Packet(stream, sent[stream] + 1, NextSequence(seqMgr, pair, start), src)
    IN  /\ src \in config.resequence /\ ~IsMarked(packet.stream)
        /\ sent[stream] < config.quota[stream]
        /\ seqMgr' = IncrementSequence(seqMgr, current_update_time, pair, start)
        /\ sent' = [sent EXCEPT ![stream] = @ + 1]
        /\ Relayed(renumbered, src, mac, ttl, MarkedAtSource(renumbered, src), sent')

ProcessAsIs(packet, src, mac, ttl) ==
    /\ src \notin config.resequence \/ IsMarked(packet.stream)
    /\ Relayed(packet, src, mac, ttl, MarkedAtSource(packet, src), sent)
    /\ UNCHANGED <<seqMgr, sent>>

HeardOn(packet) ==
    (IF packet.stream.by = Node THEN {} ELSE Heard[packet.stream])
        \cup {i \in Manet : packet.fate[i] \in {"sent", "again"}}

ProcessPacket(packet, src, mac, ttl) ==
    /\ src \in HeardOn(packet)
    /\ \/ \E start \in Seeds : ProcessAndResequence(packet, src, mac, ttl, start)
       \/ ProcessAsIs(packet, src, mac, ttl)
    /\ UNCHANGED <<config, control, current_update_time, first>>

-----------------------------------------------------------------------------
(* The node's other handlers, and the sources.                             *)

OnPruneTimeout ==
    /\ current_update_time < MaxTime
    /\ seqMgr' = PruneSequences(seqMgr, current_update_time)
    /\ trees' = [i \in Ifaces |-> Prune(trees[i], current_update_time)]
    /\ current_update_time' = current_update_time + 1
    /\ air' = {p \in air : current_update_time' - p.born <= Lifetime}
    /\ UNCHANGED <<config, control, sent, first>>

SetRelayEnabled(state) ==
    /\ relay_enabled' = state
    /\ UNCHANGED <<config, relay_selected, selectors, neighbors, trees, seqMgr, current_update_time, net>>

SetRelaySelected(state) ==
    /\ relay_selected' = state
    /\ UNCHANGED <<config, relay_enabled, selectors, neighbors, trees, seqMgr, current_update_time, net>>

SetSelectorList(macs) ==
    /\ selectors' = macs
    /\ UNCHANGED <<config, relay_enabled, relay_selected, neighbors, trees, seqMgr, current_update_time, net>>

SetNeighborList(macs) ==
    /\ neighbors' = macs
    /\ UNCHANGED <<config, relay_enabled, relay_selected, selectors, trees, seqMgr, current_update_time, net>>

\* A source sends its next packet (one that this node listens to).
Originate(stream) ==
    /\ \E i \in Heard[stream] : config.associates[i] # {}
    /\ sent[stream] < config.quota[stream]
    /\ sent' = [sent EXCEPT ![stream] = @ + 1]
    /\ air' = UnderWay(air \cup
          {Packet(stream, sent'[stream], (first[stream] + sent[stream]) % RangeSize, NoIface)}, sent')
    /\ UNCHANGED <<config, control, trees, seqMgr, current_update_time, first>>

Init ==
    /\ config \in Configs
    /\ relay_enabled = TRUE /\ relay_selected = TRUE
    /\ selectors = {} /\ neighbors = {}
    /\ \E inits \in BOOLEAN : trees = [i \in Ifaces |-> EmptyTree(Keys, inits)]
    /\ seqMgr = EmptySeqMgr
    /\ current_update_time = 0
    /\ air = {}
    /\ sent = [s \in AllStreams |-> 0]
    /\ first \in [Streams -> FirstIds]

Next ==
    \/ \E p \in air, src \in Ifaces, mac \in Macs, ttl \in {1, 2} : ProcessPacket(p, src, mac, ttl)
    \/ OnPruneTimeout
    \/ \E state \in BOOLEAN : SetRelayEnabled(state) \/ SetRelaySelected(state)
    \/ \E macs \in SUBSET Macs : SetSelectorList(macs) \/ SetNeighborList(macs)
    \/ \E s \in Streams : Originate(s)

Spec == Init /\ [][Next]_vars

-----------------------------------------------------------------------------
NewestFirst(list, update_time) ==
    \A m, n \in DOMAIN list : m < n => update_time[list[m]] >= update_time[list[n]]

(* However its copies arrive, whatever the relay algorithm and whatever    *)
(* its lists and switches become in between, a packet goes through an      *)
(* interface at most once while it is under way, and never once the tree   *)
(* of that interface has had it (SmfDuplicateTree::IsDuplicate and Prune). *)
ForwardedOnce == \A p \in air, i \in Ifaces : p.fate[i] # "again"

(* Detection has no false positives: the first copy of a packet that is    *)
(* less than a window behind the last one of its stream is never taken for *)
(* a duplicate, across wrap-around, gaps, prunes and other flows.  (Unless *)
(* Flow::Init is compiled to return false: then every packet is.)          *)
FreshIsForwarded == \A p \in air, i \in Ifaces : trees[i].inits => p.fate[i] # "missed"

(* A packet that was resequenced never goes back out of the interface it   *)
(* arrived on, when a neighbour that forwards it is heard elsewhere.       *)
NoEcho == \A p \in air : p.from # NoIface => p.fate[p.from] = "skipped"

(* The lists of flows and of sequences are sorted with the most current at *)
(* the head, whatever is prepended, bubbled up and pruned: Prune, which    *)
(* stops at the first entry that is not stale, leaves no stale one.        *)
ListIsSorted ==
    /\ \A i \in Ifaces : NewestFirst(trees[i].flow_list, trees[i].update_time)
    /\ NewestFirst(seqMgr.flow_list, seqMgr.update_time)

-----------------------------------------------------------------------------
(* The abstract relay.                                                     *)

\* A packet without its identifier and its age.
Named(packet) == [stream |-> packet.stream, number |-> packet.number, fate |-> packet.fate]

Service == INSTANCE PacketRelay WITH
    Streams <- AllStreams,
    enabled <- relay_enabled,
    works <- [i \in Ifaces |-> trees[i].inits],
    packets <- {Named(p) : p \in air}

\* Windows of a few identifiers, kept by flow and pruned, do what a relay does that
\* remembers every packet under way by name: each copy is treated by what became
\* of this packet before, and by nothing else.
ImplementsPacketRelay == Service!Spec

-----------------------------------------------------------------------------
(* The networks and command lines for which the three properties above are *)
(* proved.                                                                 *)

Outs(c, i) == {a.to : a \in c.associates[i]}

\* The streams that get new numbers wherever they are heard, and the others.
Renumbered(c) == {s \in Streams : c.quota[s] > 0 /\ ~IsMarked(s) /\ Heard[s] \subseteq c.resequence}
AsIs(c) == {s \in Streams \ Renumbered(c) : c.quota[s] > 0}

\* The streams whose packets are forwarded.
Carried(c) == AsIs(c) \cup {Resequenced(s.pair) : s \in Renumbered(c)}

\* A stream is resequenced everywhere or nowhere, no two share a key, and none has
\* so many packets that an index of the range comes back into an old window.
StreamsApart(c) ==
    /\ \A s \in AsIs(c) : (Heard[s] \cup Manet) \cap c.resequence = {}
    /\ \A s, t \in Carried(c) : KeyOf(s) = KeyOf(t) => s = t
    /\ \A s \in Carried(c) : c.quota[s] + WindowPastMax <= RangeSize + 1

\* An interface that resequences forwards with CF, and what a MANET interface
\* repeats of it goes nowhere else.
EchoesStay(c) ==
    \A i \in c.resequence :
        /\ i \notin Manet
        /\ \A a \in c.associates[i] : a.type = "CF"
        /\ \A j \in Outs(c, i) \cap Manet : Outs(c, j) \subseteq Outs(c, i) \cup {i}

\* A packet is under way for less than a window, and no longer than its flow is kept.
Orderly ==
    /\ Spread < NumBits /\ Lifetime <= AgeMax + 1
    /\ \A c \in Configs : StreamsApart(c) /\ EchoesStay(c)
=============================================================================

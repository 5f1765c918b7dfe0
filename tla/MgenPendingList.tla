---------------------------- MODULE MgenPendingList ----------------------------
(***************************************************************************)
(* The list of the flows that wait for a transport of MGEN: a doubly       *)
(* linked list whose links are members of the flows, with a pointer to the *)
(* flow that is served next (MgenTransport::AppendFlow, RemoveFlow and     *)
(* RemoveFromPendingList in src/unpacked/src-mgen-5.02c/src/common/        *)
(* mgenTransport.cpp).  A list is a record of the three pointers and of    *)
(* the links of all flows; NoFlow is the null pointer.                     *)
(***************************************************************************)
EXTENDS Naturals, FiniteSets

CONSTANTS Flow, NoFlow

ASSUME FlowAssumption == IsFiniteSet(Flow) /\ NoFlow \notin Flow

Pointer == Flow \cup {NoFlow}

PendingLists == [head : Pointer, tail : Pointer, current : Pointer,
                 next : [Flow -> Pointer], prev : [Flow -> Pointer]]

EmptyList ==
    [head |-> NoFlow, tail |-> NoFlow, current |-> NoFlow,
     next |-> [f \in Flow |-> NoFlow], prev |-> [f \in Flow |-> NoFlow]]

HasPendingFlows(l) == l.head # NoFlow

\* links[f] = g, unless f is null.
Link(links, f, g) == [x \in Flow |-> IF x = f THEN g ELSE links[x]]

\* Mutant of AppendFlow: the tail is not asked whether it is the flow.
AppendUnlessLinked(l, f) ==
    IF ~HasPendingFlows(l)
    THEN [l EXCEPT !.head = f, !.tail = f, !.current = f, !.next = Link(@, f, NoFlow)]
    ELSE IF l.next[f] = NoFlow
    THEN [l EXCEPT !.next = Link(Link(@, l.tail, f), f, NoFlow),
                   !.prev = Link(@, f, l.tail), !.tail = f]
    ELSE l

\* A flow that has a next one, or is the tail, is on the list already.
AppendFlow(l, f) ==
    IF ~HasPendingFlows(l)
    THEN [l EXCEPT !.head = f, !.tail = f, !.current = f, !.next = Link(@, f, NoFlow)]
    ELSE IF l.next[f] = NoFlow /\ l.tail # f
    THEN [l EXCEPT !.next = Link(Link(@, l.tail, f), f, NoFlow),
                   !.prev = Link(@, f, l.tail), !.tail = f]
    ELSE l

\* The head is removed; the tail is left as it is, even if it was the only flow.
RemoveHead(l, f) ==
    [head    |-> l.next[f],
     tail    |-> l.tail,
     current |-> IF l.current = f THEN l.next[f] ELSE l.current,
     next    |-> Link(l.next, f, NoFlow),
     prev    |-> Link(Link(l.prev, l.next[f], NoFlow), f, NoFlow)]

\* A flow after p is removed; if it was the tail the first flow is served next.
RemoveAfter(l, p, f) ==
    [head    |-> l.head,
     tail    |-> IF l.tail = f THEN p ELSE l.tail,
     current |-> IF l.tail = f THEN l.head
                 ELSE IF l.current = f THEN l.next[f] ELSE l.current,
     next    |-> Link(Link(l.next, p, l.next[f]), f, NoFlow),
     prev    |-> Link(Link(l.prev, l.next[f], l.prev[f]), f, NoFlow)]

\* The walk from the head finds the flow after the one that links to it.
RemoveFlow(l, f) ==
    IF l.head = f THEN RemoveHead(l, f)
    ELSE IF \E p \in Flow : l.next[p] = f
    THEN RemoveAfter(l, CHOOSE p \in Flow : l.next[p] = f, f)
    ELSE l

\* The current flow is removed, and the next one, or the head, is current.
RemoveFromPendingList(l) ==
    LET c    == l.current
        head == IF l.prev[c] # NoFlow THEN l.head ELSE l.next[c]
    IN  [head    |-> head,
         tail    |-> IF l.next[c] # NoFlow THEN l.tail ELSE l.prev[c],
         current |-> IF l.next[c] # NoFlow THEN l.next[c] ELSE head,
         next    |-> Link(Link(l.next, l.prev[c], l.next[c]), c, NoFlow),
         prev    |-> Link(Link(l.prev, l.next[c], l.prev[c]), c, NoFlow)]

\* The last lines of SendPendingMessage's loop: the next flow, or the head again.
NextPendingFlow(l) ==
    [l EXCEPT !.current = IF l.next[@] # NoFlow THEN l.next[@] ELSE l.head]

-----------------------------------------------------------------------------
\* The pointers hold the n flows of s, in this order and each once.
Holds(l, n, s) ==
    /\ \A i, j \in 1..n : s[i] = s[j] => i = j
    /\ l.head = IF n = 0 THEN NoFlow ELSE s[1]
    /\ n > 0 => l.tail = s[n]
    /\ \A i \in 1..n : /\ l.next[s[i]] = IF i = n THEN NoFlow ELSE s[i + 1]
                       /\ l.prev[s[i]] = IF i = 1 THEN NoFlow ELSE s[i - 1]
    /\ \A f \in Flow : (\A i \in 1..n : s[i] # f) => l.next[f] = NoFlow /\ l.prev[f] = NoFlow
    /\ IF n = 0 THEN l.current = NoFlow ELSE \E i \in 1..n : l.current = s[i]

\* The pointers form a list: from the head every flow that is linked is reached once,
\* forwards and backwards, up to the tail, and the current flow is one of them.
WellLinked(l) == \E n \in 0..Cardinality(Flow) : \E s \in [1..n -> Flow] : Holds(l, n, s)

\* The flow is on the list.
Listed(l, f) == l.head = f \/ l.prev[f] # NoFlow
=============================================================================

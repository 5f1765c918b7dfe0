--------------------------- MODULE MgenFlow_proofs ---------------------------
(***************************************************************************)
(* For any number of flows, of any kinds: the pending list stays a list,   *)
(* pending messages are never forgotten, and the socket is open as long as *)
(* a flow uses it.                                                         *)
(*                                                                         *)
(* First the operations on a transport's pending list, which keep it a     *)
(* list and do to the flows on it what their names say: a proof gives the  *)
(* sequence the pointers hold after the operation.  Then the handlers,     *)
(* built of operators on a state [flow, list, tr]; each of them is shown   *)
(* to keep a state Good.                                                   *)
(***************************************************************************)
EXTENDS MgenFlow, FiniteSetTheorems, TLAPS

-----------------------------------------------------------------------------
(* The pending list.                                                       *)

\* Some sequence is held by the pointers.
IsList(l) ==
    /\ l \in PendingLists
    /\ \E n \in Nat : \E s \in [1..n -> Flow] : Holds(l, n, s)

LEMMA NoFlowIsNone == NoFlow \notin Flow
BY FlowAssumption

\* No flow is held twice, so there are not more of them than flows.
LEMMA ListIsWellLinked == ASSUME NEW l, IsList(l) PROVE WellLinked(l)
<1>0. PICK n \in Nat : \E s \in [1..n -> Flow] : Holds(l, n, s)
    BY DEF IsList
<1>1. PICK s \in [1..n -> Flow] : Holds(l, n, s)
    BY <1>0
<1>2. s \in Injection(1..n, Flow)
    BY <1>1 DEF Holds, Injection, IsInjective
<1>3. Cardinality(1..n) = n
    BY FS_Interval
<1>4. n <= Cardinality(Flow) /\ Cardinality(Flow) \in Nat
    BY <1>2, <1>3, FS_Injection, FS_CardinalityType, FlowAssumption
<1> QED
    BY <1>1, <1>4 DEF WellLinked

\* What is held is listed, and has the place its links say.
LEMMA Held ==
    ASSUME NEW l \in PendingLists, NEW n \in Nat, NEW s \in [1..n -> Flow], Holds(l, n, s)
    PROVE  /\ \A f \in Flow : Listed(l, f) <=> \E i \in 1..n : s[i] = f
           /\ HasPendingFlows(l) <=> n > 0
           /\ l.current # NoFlow <=> n > 0
           /\ l.current # NoFlow => \E i \in 1..n : s[i] = l.current
<1>1. n = 0 => l.head = NoFlow /\ l.current = NoFlow
    BY DEF Holds
<1>2. n > 0 => l.head = s[1] /\ 1 \in 1..n /\ s[1] \in Flow
    BY DEF Holds
<1>3. n > 0 => \E i \in 1..n : l.current = s[i]
    BY DEF Holds
<1>4. ASSUME NEW f \in Flow
      PROVE  Listed(l, f) <=> \E i \in 1..n : s[i] = f
    <2>1. ASSUME NEW i \in 1..n, s[i] = f PROVE Listed(l, f)
        <3>1. CASE i = 1
            BY <2>1, <3>1, <1>2 DEF Listed
        <3>2. CASE i # 1
            <4>1. i - 1 \in 1..n
                BY <3>2
            <4>2. l.prev[f] = s[i - 1] /\ s[i - 1] \in Flow
                BY <2>1, <3>2, <4>1 DEF Holds
            <4> QED
                BY <4>2, NoFlowIsNone DEF Listed
        <3> QED
            BY <3>1, <3>2
    <2>2. ASSUME \A i \in 1..n : s[i] # f PROVE ~Listed(l, f)
        <3>1. l.prev[f] = NoFlow
            BY <2>2 DEF Holds
        <3>2. l.head # f
            BY <1>1, <1>2, <2>2, NoFlowIsNone
        <3> QED
            BY <3>1, <3>2 DEF Listed
    <2> QED
        BY <2>1, <2>2
<1> QED
    BY <1>1, <1>2, <1>3, <1>4, NoFlowIsNone DEF HasPendingFlows

LEMMA EmptyIsList == IsList(EmptyList) /\ \A f \in Flow : ~Listed(EmptyList, f)
<1>1. EmptyList \in PendingLists
    BY DEF EmptyList, PendingLists, Pointer
<1> DEFINE s == [i \in 1..0 |-> NoFlow]
<1>2. s \in [1..0 -> Flow]
    OBVIOUS
<1>3. Holds(EmptyList, 0, s)
    BY DEF Holds, EmptyList
<1> QED
    BY <1>1, <1>2, <1>3, NoFlowIsNone DEF IsList, Listed, EmptyList

\* AppendFlow puts the flow at the end, unless it is on the list.
LEMMA AppendIsList ==
    ASSUME NEW l, IsList(l), NEW f \in Flow
    PROVE  /\ IsList(AppendFlow(l, f))
           /\ \A g \in Flow : Listed(AppendFlow(l, f), g) <=> Listed(l, g) \/ g = f
           /\ HasPendingFlows(AppendFlow(l, f))
<1>0. PICK n \in Nat : \E s \in [1..n -> Flow] : Holds(l, n, s)
    BY DEF IsList
<1>1. PICK s \in [1..n -> Flow] : Holds(l, n, s)
    BY <1>0
<1>2. l \in PendingLists
    BY DEF IsList
<1>3. /\ \A g \in Flow : Listed(l, g) <=> \E i \in 1..n : s[i] = g
      /\ HasPendingFlows(l) <=> n > 0
    BY <1>1, <1>2, Held
<1> DEFINE a == AppendFlow(l, f)
<1>4. CASE Listed(l, f)
    <2>1. PICK k \in 1..n : s[k] = f
        BY <1>3, <1>4
    <2>2. CASE k = n
        <3>1. l.tail = f
            BY <1>1, <2>1, <2>2 DEF Holds
        <3>2. a = l
            BY <1>3, <2>1, <3>1 DEF AppendFlow
        <3> QED
            BY <1>3, <1>4, <2>1, <3>2
    <2>3. CASE k # n
        <3>1. k + 1 \in 1..n /\ l.next[f] = s[k + 1] /\ s[k + 1] \in Flow
            BY <1>1, <2>1, <2>3 DEF Holds
        <3>2. a = l
            BY <1>3, <2>1, <3>1, NoFlowIsNone DEF AppendFlow
        <3> QED
            BY <1>3, <1>4, <2>1, <3>2
    <2> QED
        BY <2>2, <2>3
<1>5. CASE ~Listed(l, f)
    <2> DEFINE t == [i \in 1..(n + 1) |-> IF i = n + 1 THEN f ELSE s[i]]
    <2>1. t \in [1..(n + 1) -> Flow] /\ t[n + 1] = f /\ \A i \in 1..n : t[i] = s[i]
        OBVIOUS
    <2>2. \A i \in 1..n : s[i] # f
        BY <1>3, <1>5
    <2> HIDE DEF t
    <2>3. CASE n = 0
        <3>1. a = [l EXCEPT !.head = f, !.tail = f, !.current = f, !.next = Link(@, f, NoFlow)]
            BY <1>3, <2>3 DEF AppendFlow
        <3>2. /\ a.head = f /\ a.tail = f /\ a.current = f /\ a.prev = l.prev
              /\ a.next = Link(l.next, f, NoFlow)
            BY <1>2, <3>1 DEF PendingLists
        <3>3. a \in PendingLists
            <4>1. a.next \in [Flow -> Pointer]
                BY <1>2, <3>2 DEF PendingLists, Pointer, Link
            <4> QED
                BY <1>2, <3>1, <3>2, <4>1 DEF PendingLists, Pointer
        <3>4. \A x \in Flow : l.next[x] = NoFlow /\ l.prev[x] = NoFlow
            BY <1>1, <2>3 DEF Holds
        <3>5. Holds(a, 1, t)
            BY <2>1, <2>3, <3>2, <3>4 DEF Holds, Link
        <3> HIDE DEF a
        <3>6. t \in [1..1 -> Flow] /\ 1 \in Nat
            BY <2>1, <2>3
        <3>7. /\ \A g \in Flow : Listed(a, g) <=> \E i \in 1..1 : t[i] = g
              /\ HasPendingFlows(a) <=> 1 > 0
            BY <3>3, <3>5, <3>6, Held
        <3>8. IsList(a)
            BY <3>3, <3>5, <3>6 DEF IsList
        <3>9. \A g \in Flow : ~Listed(l, g)
            BY <1>3, <2>3
        <3>10. \A g \in Flow : (\E i \in 1..1 : t[i] = g) <=> g = f
            BY <2>1, <2>3
        <3> QED
            BY <3>7, <3>8, <3>9, <3>10 DEF a
    <2>4. CASE n > 0
        <3>1. l.tail = s[n] /\ l.next[f] = NoFlow /\ n \in 1..n /\ s[n] \in Flow /\ s[n] # f
            BY <1>1, <2>2, <2>4 DEF Holds
        <3>2. a = [l EXCEPT !.next = Link(Link(@, l.tail, f), f, NoFlow),
                            !.prev = Link(@, f, l.tail), !.tail = f]
            BY <1>3, <2>4, <3>1 DEF AppendFlow
        <3>3. /\ a.head = l.head /\ a.tail = f /\ a.current = l.current
              /\ a.next = Link(Link(l.next, s[n], f), f, NoFlow) /\ a.prev = Link(l.prev, f, s[n])
            BY <1>2, <3>1, <3>2 DEF PendingLists
        <3>4. a \in PendingLists
            <4>1. a.next \in [Flow -> Pointer] /\ a.prev \in [Flow -> Pointer]
                BY <1>2, <3>1, <3>3 DEF PendingLists, Pointer, Link
            <4> QED
                BY <1>2, <3>2, <3>3, <4>1 DEF PendingLists, Pointer
        <3>5. Holds(a, n + 1, t)
            <4>1. \A i, j \in 1..(n + 1) : t[i] = t[j] => i = j
                <5>1. \A i, j \in 1..n : t[i] = t[j] => i = j
                    BY <1>1, <2>1 DEF Holds
                <5>2. \A i \in 1..n : t[i] # t[n + 1]
                    BY <2>1, <2>2
                <5>3. \A i \in 1..(n + 1) : i \in 1..n \/ i = n + 1
                    OBVIOUS
                <5> QED
                    BY <5>1, <5>2, <5>3
            <4>2. a.head = t[1] /\ a.tail = t[n + 1]
                BY <1>1, <2>1, <2>4, <3>3 DEF Holds
            <4>3. \A i \in 1..(n + 1) : a.next[t[i]] = IF i = n + 1 THEN NoFlow ELSE t[i + 1]
                <5>1. a.next[f] = NoFlow /\ a.next[s[n]] = f
                    BY <3>1, <3>3 DEF Link
                <5>2. \A i \in 1..n : i # n => a.next[s[i]] = s[i + 1]
                    BY <1>1, <2>2, <2>4, <3>3 DEF Holds, Link
                <5> QED
                    BY <2>1, <2>4, <5>1, <5>2
            <4>4. \A i \in 1..(n + 1) : a.prev[t[i]] = IF i = 1 THEN NoFlow ELSE t[i - 1]
                <5>1. a.prev[f] = s[n]
                    BY <3>3 DEF Link
                <5>2. \A i \in 1..n : a.prev[s[i]] = IF i = 1 THEN NoFlow ELSE s[i - 1]
                    BY <1>1, <2>2, <3>3 DEF Holds, Link
                <5> QED
                    BY <2>1, <2>4, <5>1, <5>2
            <4>5. \A x \in Flow : (\A i \in 1..(n + 1) : t[i] # x) => a.next[x] = NoFlow /\ a.prev[x] = NoFlow
                <5> SUFFICES ASSUME NEW x \in Flow, \A i \in 1..(n + 1) : t[i] # x
                             PROVE  a.next[x] = NoFlow /\ a.prev[x] = NoFlow
                    OBVIOUS
                <5>1. x # f /\ \A i \in 1..n : s[i] # x
                    BY <2>1
                <5> QED
                    BY <1>1, <3>1, <3>3, <5>1 DEF Holds, Link
            <4>6. \E i \in 1..(n + 1) : a.current = t[i]
                BY <1>1, <2>1, <2>4, <3>3 DEF Holds
            <4> QED
                BY <2>4, <4>1, <4>2, <4>3, <4>4, <4>5, <4>6 DEF Holds
        <3>6. n + 1 \in Nat
            OBVIOUS
        <3> HIDE DEF a
        <3>7. /\ \A g \in Flow : Listed(a, g) <=> \E i \in 1..(n + 1) : t[i] = g
              /\ HasPendingFlows(a)
            BY <2>1, <3>4, <3>5, <3>6, Held
        <3>8. IsList(a)
            BY <2>1, <3>4, <3>5, <3>6 DEF IsList
        <3> QED
            BY <1>3, <2>1, <3>7, <3>8 DEF a
    <2> QED
        BY <2>3, <2>4
<1> QED
    BY <1>4, <1>5

-----------------------------------------------------------------------------
(* Removing the k-th flow of a sequence s.                                 *)

Without(n, s, k) == [i \in 1..(n - 1) |-> IF i < k THEN s[i] ELSE s[i + 1]]

\* A list m whose pointers are those of l but for the flow that was s[k]: its
\* neighbours are linked to each other.
Unlinked(l, m, n, s, k) ==
    /\ m.head = IF k = 1 THEN l.next[s[k]] ELSE l.head
    /\ n > 1 => m.tail = IF k = n THEN s[n - 1] ELSE l.tail
    /\ m.next[s[k]] = NoFlow /\ m.prev[s[k]] = NoFlow
    /\ k > 1 => m.next[s[k - 1]] = l.next[s[k]]
    /\ k < n => m.prev[s[k + 1]] = l.prev[s[k]]
    /\ \A f \in Flow : f # s[k] /\ (k > 1 => f # s[k - 1]) => m.next[f] = l.next[f]
    /\ \A f \in Flow : f # s[k] /\ (k < n => f # s[k + 1]) => m.prev[f] = l.prev[f]
    /\ IF n = 1 THEN m.current = NoFlow ELSE \E i \in (1..n) \ {k} : m.current = s[i]

LEMMA UnlinkedHolds ==
    ASSUME NEW l \in PendingLists, NEW n \in Nat, NEW s \in [1..n -> Flow], Holds(l, n, s),
           NEW m \in PendingLists, NEW k \in 1..n, Unlinked(l, m, n, s, k)
    PROVE  /\ IsList(m)
           /\ \A g \in Flow : Listed(m, g) <=> Listed(l, g) /\ g # s[k]
<1> DEFINE t == Without(n, s, k)
<1>1. /\ n - 1 \in Nat /\ t \in [1..(n - 1) -> Flow]
      /\ \A i \in 1..(n - 1) : t[i] = IF i < k THEN s[i] ELSE s[i + 1]
    BY DEF Without
<1> HIDE DEF t
<1>2. /\ \A i, j \in 1..n : s[i] = s[j] => i = j
      /\ l.head = s[1] /\ l.tail = s[n]
      /\ \A i \in 1..n : /\ l.next[s[i]] = IF i = n THEN NoFlow ELSE s[i + 1]
                         /\ l.prev[s[i]] = IF i = 1 THEN NoFlow ELSE s[i - 1]
      /\ \A f \in Flow : (\A i \in 1..n : s[i] # f) => l.next[f] = NoFlow /\ l.prev[f] = NoFlow
    BY DEF Holds
<1>3. Holds(m, n - 1, t)
    <2>1. \A i, j \in 1..(n - 1) : t[i] = t[j] => i = j
        BY <1>1, <1>2
    <2>2. m.head = IF n - 1 = 0 THEN NoFlow ELSE t[1]
        <3>1. CASE k = 1
            BY <1>1, <1>2, <3>1 DEF Unlinked
        <3>2. CASE k # 1
            BY <1>1, <1>2, <3>2 DEF Unlinked
        <3> QED
            BY <3>1, <3>2
    <2>3. n - 1 > 0 => m.tail = t[n - 1]
        BY <1>1, <1>2 DEF Unlinked
    <2>4. ASSUME NEW i \in 1..(n - 1)
          PROVE  m.next[t[i]] = IF i = n - 1 THEN NoFlow ELSE t[i + 1]
        <3>1. CASE i < k - 1
            <4>1. t[i] = s[i] /\ t[i + 1] = s[i + 1] /\ i # n - 1 /\ s[i] # s[k] /\ s[i] # s[k - 1]
                BY <1>1, <1>2, <3>1
            <4>2. m.next[s[i]] = l.next[s[i]]
                BY <4>1 DEF Unlinked
            <4> QED
                BY <1>2, <4>1, <4>2
        <3>2. CASE i = k - 1
            <4>1. t[i] = s[k - 1] /\ k > 1
                BY <1>1, <3>2
            <4>2. m.next[t[i]] = l.next[s[k]]
                BY <4>1 DEF Unlinked
            <4>3. l.next[s[k]] = IF k = n THEN NoFlow ELSE s[k + 1]
                BY <1>2
            <4>4. i # n - 1 => t[i + 1] = s[k + 1]
                BY <1>1, <3>2
            <4> QED
                BY <3>2, <4>2, <4>3, <4>4
        <3>3. CASE i >= k
            <4>1. t[i] = s[i + 1] /\ i + 1 \in 1..n /\ s[i + 1] # s[k] /\ (k > 1 => s[i + 1] # s[k - 1])
                BY <1>1, <1>2, <3>3
            <4>2. m.next[s[i + 1]] = l.next[s[i + 1]]
                BY <4>1 DEF Unlinked
            <4>3. i # n - 1 => t[i + 1] = s[i + 2]
                BY <1>1, <3>3
            <4>4. l.next[s[i + 1]] = IF i + 1 = n THEN NoFlow ELSE s[i + 2]
                BY <1>2, <4>1
            <4> QED
                BY <4>1, <4>2, <4>3, <4>4
        <3> QED
            BY <3>1, <3>2, <3>3
    <2>5. ASSUME NEW i \in 1..(n - 1)
          PROVE  m.prev[t[i]] = IF i = 1 THEN NoFlow ELSE t[i - 1]
        <3>1. CASE i < k
            <4>1. t[i] = s[i] /\ s[i] # s[k] /\ (k < n => s[i] # s[k + 1]) /\ (i # 1 => t[i - 1] = s[i - 1])
                BY <1>1, <1>2, <3>1
            <4>2. m.prev[s[i]] = l.prev[s[i]]
                BY <4>1 DEF Unlinked
            <4> QED
                BY <1>2, <4>1, <4>2
        <3>2. CASE i = k
            <4>1. t[i] = s[k + 1] /\ k < n
                BY <1>1, <3>2
            <4>2. m.prev[t[i]] = l.prev[s[k]]
                BY <4>1 DEF Unlinked
            <4>3. l.prev[s[k]] = IF k = 1 THEN NoFlow ELSE s[k - 1]
                BY <1>2
            <4>4. i # 1 => t[i - 1] = s[k - 1]
                BY <1>1, <3>2
            <4> QED
                BY <3>2, <4>2, <4>3, <4>4
        <3>3. CASE i > k
            <4>1. t[i] = s[i + 1] /\ i + 1 \in 1..n /\ s[i + 1] # s[k] /\ (k < n => s[i + 1] # s[k + 1])
                  /\ t[i - 1] = s[i] /\ i # 1
                BY <1>1, <1>2, <3>3
            <4>2. m.prev[s[i + 1]] = l.prev[s[i + 1]]
                BY <4>1 DEF Unlinked
            <4>3. l.prev[s[i + 1]] = s[i]
                BY <1>2, <4>1
            <4> QED
                BY <4>1, <4>2, <4>3
        <3> QED
            BY <3>1, <3>2, <3>3
    <2>6. ASSUME NEW f \in Flow, \A i \in 1..(n - 1) : t[i] # f
          PROVE  m.next[f] = NoFlow /\ m.prev[f] = NoFlow
        <3>1. CASE f = s[k]
            BY <3>1 DEF Unlinked
        <3>2. CASE f # s[k]
            <4>1. ASSUME NEW i \in 1..n PROVE s[i] # f
                <5>1. CASE i < k
                    BY <1>1, <2>6, <5>1
                <5>2. CASE i > k
                    <6>1. i - 1 \in 1..(n - 1) /\ t[i - 1] = s[i]
                        BY <1>1, <5>2
                    <6> QED
                        BY <2>6, <6>1
                <5> QED
                    BY <3>2, <5>1, <5>2
            <4>2. (k > 1 => f # s[k - 1]) /\ (k < n => f # s[k + 1])
                BY <4>1
            <4> QED
                BY <1>2, <3>2, <4>1, <4>2 DEF Unlinked
        <3> QED
            BY <3>1, <3>2
    <2>7. IF n - 1 = 0 THEN m.current = NoFlow ELSE \E i \in 1..(n - 1) : m.current = t[i]
        <3>1. CASE n = 1
            BY <3>1 DEF Unlinked
        <3>2. CASE n # 1
            <4>1. PICK i \in (1..n) \ {k} : m.current = s[i]
                BY <3>2 DEF Unlinked
            <4>2. CASE i < k
                BY <1>1, <3>2, <4>1, <4>2
            <4>3. CASE i > k
                <5>1. i - 1 \in 1..(n - 1) /\ t[i - 1] = s[i]
                    BY <1>1, <4>3
                <5> QED
                    BY <3>2, <4>1, <5>1
            <4> QED
                BY <4>1, <4>2, <4>3
        <3> QED
            BY <3>1, <3>2
    <2> QED
        BY <1>1, <2>1, <2>2, <2>3, <2>4, <2>5, <2>6, <2>7 DEF Holds
<1>4. IsList(m)
    BY <1>1, <1>3 DEF IsList
<1>5. ASSUME NEW g \in Flow
      PROVE  (\E i \in 1..(n - 1) : t[i] = g) <=> (\E i \in 1..n : s[i] = g) /\ g # s[k]
    <2>1. ASSUME NEW i \in 1..(n - 1), t[i] = g PROVE (\E j \in 1..n : s[j] = g) /\ g # s[k]
        BY <1>1, <1>2, <2>1
    <2>2. ASSUME NEW i \in 1..n, s[i] = g, g # s[k] PROVE \E j \in 1..(n - 1) : t[j] = g
        <3>1. CASE i < k
            BY <1>1, <2>2, <3>1
        <3>2. CASE i > k
            <4>1. i - 1 \in 1..(n - 1) /\ t[i - 1] = s[i]
                BY <1>1, <3>2
            <4> QED
                BY <2>2, <4>1
        <3> QED
            BY <2>2, <3>1, <3>2
    <2> QED
        BY <2>1, <2>2
<1>6. /\ \A g \in Flow : Listed(l, g) <=> \E i \in 1..n : s[i] = g
      /\ \A g \in Flow : Listed(m, g) <=> \E i \in 1..(n - 1) : t[i] = g
    BY <1>1, <1>3, Held
<1> QED
    BY <1>4, <1>5, <1>6

-----------------------------------------------------------------------------
(* The operations that remove a flow.                                      *)

\* What the pointers say of the k-th flow.
Place(l, n, s, k) ==
    /\ s[k] \in Flow
    /\ \A i \in 1..n : s[i] = s[k] => i = k
    /\ l.head = s[1] /\ l.tail = s[n]
    /\ l.next[s[k]] = IF k = n THEN NoFlow ELSE s[k + 1]
    /\ l.prev[s[k]] = IF k = 1 THEN NoFlow ELSE s[k - 1]
    /\ k > 1 => s[k - 1] \in Flow /\ s[k - 1] # s[k] /\ l.next[s[k - 1]] = s[k]
    /\ k < n => s[k + 1] \in Flow /\ s[k + 1] # s[k] /\ l.prev[s[k + 1]] = s[k]
    /\ k > 1 /\ k < n => s[k - 1] # s[k + 1]

LEMMA Neighbours ==
    ASSUME NEW l \in PendingLists, NEW n \in Nat, NEW s \in [1..n -> Flow], Holds(l, n, s),
           NEW k \in 1..n
    PROVE  Place(l, n, s, k)
<1>1. /\ \A i, j \in 1..n : s[i] = s[j] => i = j
      /\ l.head = s[1] /\ l.tail = s[n]
      /\ \A i \in 1..n : /\ l.next[s[i]] = IF i = n THEN NoFlow ELSE s[i + 1]
                         /\ l.prev[s[i]] = IF i = 1 THEN NoFlow ELSE s[i - 1]
    BY DEF Holds
<1>2. k > 1 => k - 1 \in 1..n
    OBVIOUS
<1>3. k < n => k + 1 \in 1..n
    OBVIOUS
<1> QED
    BY <1>1, <1>2, <1>3 DEF Place

\* RemoveFlow takes the flow off the list, if it is there.
LEMMA RemoveIsList ==
    ASSUME NEW l, IsList(l), NEW f \in Flow
    PROVE  /\ IsList(RemoveFlow(l, f))
           /\ \A g \in Flow : Listed(RemoveFlow(l, f), g) <=> Listed(l, g) /\ g # f
<1>0. PICK n \in Nat : \E s \in [1..n -> Flow] : Holds(l, n, s)
    BY DEF IsList
<1>1. PICK s \in [1..n -> Flow] : Holds(l, n, s)
    BY <1>0
<1>2. l \in PendingLists
    BY DEF IsList
<1>3. \A g \in Flow : Listed(l, g) <=> \E i \in 1..n : s[i] = g
    BY <1>1, <1>2, Held
<1>4. \A p \in Flow : l.next[p] \in Flow => \E i \in 1..n : i # n /\ s[i] = p /\ l.next[p] = s[i + 1]
    <2> SUFFICES ASSUME NEW p \in Flow, l.next[p] \in Flow
                 PROVE  \E i \in 1..n : i # n /\ s[i] = p /\ l.next[p] = s[i + 1]
        OBVIOUS
    <2>1. PICK i \in 1..n : s[i] = p
        BY <1>1, NoFlowIsNone DEF Holds
    <2> QED
        BY <1>1, <2>1, NoFlowIsNone DEF Holds
<1>5. CASE ~Listed(l, f)
    <2>1. l.head # f
        BY <1>5 DEF Listed
    <2>2. ~\E p \in Flow : l.next[p] = f
        <3> SUFFICES ASSUME NEW p \in Flow, l.next[p] = f PROVE FALSE
            OBVIOUS
        <3>1. PICK i \in 1..n : i # n /\ f = s[i + 1]
            BY <1>4
        <3>2. i + 1 \in 1..n
            BY <3>1
        <3> QED
            BY <1>3, <1>5, <3>1, <3>2
    <2> QED
        BY <1>5, <2>1, <2>2 DEF RemoveFlow
<1>6. CASE Listed(l, f)
    <2>1. PICK k \in 1..n : s[k] = f
        BY <1>3, <1>6
    <2>2. /\ s[k] \in Flow
          /\ \A i \in 1..n : s[i] = s[k] => i = k
          /\ l.head = s[1] /\ l.tail = s[n]
          /\ l.next[s[k]] = IF k = n THEN NoFlow ELSE s[k + 1]
          /\ l.prev[s[k]] = IF k = 1 THEN NoFlow ELSE s[k - 1]
          /\ k > 1 => s[k - 1] \in Flow /\ s[k - 1] # s[k] /\ l.next[s[k - 1]] = s[k]
          /\ k < n => s[k + 1] \in Flow /\ s[k + 1] # s[k] /\ l.prev[s[k + 1]] = s[k]
          /\ k > 1 /\ k < n => s[k - 1] # s[k + 1]
        <3>1. Place(l, n, s, k)
            BY <1>1, <1>2, Neighbours
        <3> QED
            BY <3>1 DEF Place
    <2>3. PICK c \in 1..n : l.current = s[c]
        BY <1>1, <2>1 DEF Holds
    <2> DEFINE m == RemoveFlow(l, f)
    <2>4. CASE k = 1
        <3>1. m = RemoveHead(l, f)
            BY <2>1, <2>2, <2>4 DEF RemoveFlow
        <3>2. /\ m.head = l.next[f] /\ m.tail = l.tail
              /\ m.current = IF l.current = f THEN l.next[f] ELSE l.current
              /\ m.next = Link(l.next, f, NoFlow)
              /\ m.prev = Link(Link(l.prev, l.next[f], NoFlow), f, NoFlow)
            BY <3>1 DEF RemoveHead
        <3>3. m \in PendingLists
            <4>1. m.next \in [Flow -> Pointer] /\ m.prev \in [Flow -> Pointer]
                BY <1>2, <3>2 DEF PendingLists, Pointer, Link
            <4>2. m.head \in Pointer /\ m.tail \in Pointer /\ m.current \in Pointer
                BY <1>2, <3>2 DEF PendingLists
            <4> QED
                BY <3>1, <4>1, <4>2 DEF RemoveHead, PendingLists
        <3> HIDE DEF m
        <3>4. Unlinked(l, m, n, s, k)
            <4>1. n = 1 => m.current = NoFlow
                BY <2>1, <2>2, <2>3, <2>4, <3>2
            <4>2. n # 1 => \E i \in (1..n) \ {k} : m.current = s[i]
                <5>1. CASE c = 1
                    <6>1. n # 1 => m.current = s[2] /\ 2 \in (1..n) \ {k}
                        BY <2>1, <2>2, <2>3, <2>4, <3>2, <5>1
                    <6> QED
                        BY <6>1
                <5>2. CASE c # 1
                    BY <2>1, <2>2, <2>3, <2>4, <3>2, <5>2
                <5> QED
                    BY <5>1, <5>2
            <4>3. /\ m.next[f] = NoFlow /\ m.prev[f] = NoFlow
                  /\ \A x \in Flow : x # f => m.next[x] = l.next[x]
                BY <3>2 DEF Link
            <4>4. k < n => m.prev[s[k + 1]] = l.prev[f]
                BY <2>1, <2>2, <2>4, <3>2 DEF Link
            <4>5. \A x \in Flow : x # f /\ (k < n => x # s[k + 1]) => m.prev[x] = l.prev[x]
                BY <2>1, <2>2, <2>4, <3>2, NoFlowIsNone DEF Link
            <4> QED
                BY <2>1, <2>2, <2>4, <3>2, <4>1, <4>2, <4>3, <4>4, <4>5 DEF Unlinked
        <3> QED
            BY <1>1, <1>2, <2>1, <3>3, <3>4, UnlinkedHolds DEF m
    <2>5. CASE k # 1
        <3> DEFINE p == s[k - 1]
        <3>1. /\ p \in Flow /\ p # f /\ l.next[p] = f
              /\ \A q \in Flow : l.next[q] = f => q = p
            <4>1. p \in Flow /\ p # f /\ l.next[p] = f
                BY <2>1, <2>2, <2>5
            <4>2. ASSUME NEW q \in Flow, l.next[q] = f PROVE q = p
                <5>1. PICK i \in 1..n : i # n /\ s[i] = q /\ f = s[i + 1]
                    BY <1>4, <4>2
                <5>2. i + 1 \in 1..n
                    BY <5>1
                <5>3. i + 1 = k
                    BY <2>1, <2>2, <5>1, <5>2
                <5>4. i = k - 1
                    BY <5>3
                <5> QED
                    BY <5>1, <5>4
            <4> QED
                BY <4>1, <4>2
        <3>2. l.head # f
            BY <2>1, <2>2, <2>5
        <3> HIDE DEF p
        <3>3. m = RemoveAfter(l, p, f)
            BY <3>1, <3>2 DEF RemoveFlow
        <3>4. /\ m.head = l.head
              /\ m.tail = IF l.tail = f THEN p ELSE l.tail
              /\ m.current = IF l.tail = f THEN l.head
                             ELSE IF l.current = f THEN l.next[f] ELSE l.current
              /\ m.next = Link(Link(l.next, p, l.next[f]), f, NoFlow)
              /\ m.prev = Link(Link(l.prev, l.next[f], l.prev[f]), f, NoFlow)
            BY <3>3 DEF RemoveAfter
        <3>5. m \in PendingLists
            <4>1. m.next \in [Flow -> Pointer] /\ m.prev \in [Flow -> Pointer]
                BY <1>2, <3>4 DEF PendingLists, Pointer, Link
            <4>2. m.head \in Pointer /\ m.tail \in Pointer /\ m.current \in Pointer
                BY <1>2, <3>1, <3>4 DEF PendingLists, Pointer
            <4> QED
                BY <3>3, <4>1, <4>2 DEF RemoveAfter, PendingLists
        <3> HIDE DEF m
        <3>6. Unlinked(l, m, n, s, k)
            <4>1. l.tail = f <=> k = n
                BY <2>1, <2>2
            <4>2. n > 1 /\ k > 1
                BY <2>5
            <4>3. \E i \in (1..n) \ {k} : m.current = s[i]
                <5>1. CASE k = n
                    <6>1. m.current = s[1] /\ 1 \in (1..n) \ {k}
                        BY <2>2, <2>5, <3>4, <4>1, <5>1
                    <6> QED
                        BY <6>1
                <5>2. CASE k # n /\ c = k
                    <6>1. m.current = s[k + 1] /\ k + 1 \in (1..n) \ {k}
                        BY <2>1, <2>2, <2>3, <3>4, <4>1, <5>2
                    <6> QED
                        BY <6>1
                <5>3. CASE k # n /\ c # k
                    BY <2>1, <2>2, <2>3, <3>4, <4>1, <5>3
                <5> QED
                    BY <5>1, <5>2, <5>3
            <4>4. /\ m.next[f] = NoFlow /\ m.prev[f] = NoFlow /\ m.next[p] = l.next[f]
                  /\ \A x \in Flow : x # f /\ x # p => m.next[x] = l.next[x]
                BY <3>1, <3>4 DEF Link
            <4>5. k < n => m.prev[s[k + 1]] = l.prev[f]
                BY <2>1, <2>2, <3>4 DEF Link
            <4>6. \A x \in Flow : x # f /\ (k < n => x # s[k + 1]) => m.prev[x] = l.prev[x]
                BY <2>1, <2>2, <3>4, NoFlowIsNone DEF Link
            <4> QED
                BY <2>1, <2>5, <3>4, <4>1, <4>2, <4>3, <4>4, <4>5, <4>6 DEF Unlinked, p
        <3> QED
            BY <1>1, <1>2, <2>1, <3>5, <3>6, UnlinkedHolds DEF m
    <2> QED
        BY <2>4, <2>5
<1> QED
    BY <1>5, <1>6

\* RemoveFromPendingList takes the current flow off the list.
LEMMA RemoveCurrentIsList ==
    ASSUME NEW l, IsList(l), l.current # NoFlow
    PROVE  /\ IsList(RemoveFromPendingList(l))
           /\ \A g \in Flow :
                  Listed(RemoveFromPendingList(l), g) <=> Listed(l, g) /\ g # l.current
<1>0. PICK n \in Nat : \E s \in [1..n -> Flow] : Holds(l, n, s)
    BY DEF IsList
<1>1. PICK s \in [1..n -> Flow] : Holds(l, n, s)
    BY <1>0
<1>2. l \in PendingLists
    BY DEF IsList
<1>3. PICK k \in 1..n : s[k] = l.current
    BY <1>1, <1>2, Held
<1> DEFINE f == l.current
           m == RemoveFromPendingList(l)
<1>4. /\ s[k] \in Flow
      /\ \A i \in 1..n : s[i] = s[k] => i = k
      /\ l.head = s[1] /\ l.tail = s[n]
      /\ l.next[s[k]] = IF k = n THEN NoFlow ELSE s[k + 1]
      /\ l.prev[s[k]] = IF k = 1 THEN NoFlow ELSE s[k - 1]
      /\ k > 1 => s[k - 1] \in Flow /\ s[k - 1] # s[k] /\ l.next[s[k - 1]] = s[k]
      /\ k < n => s[k + 1] \in Flow /\ s[k + 1] # s[k] /\ l.prev[s[k + 1]] = s[k]
      /\ k > 1 /\ k < n => s[k - 1] # s[k + 1]
    <2>1. Place(l, n, s, k)
        BY <1>1, <1>2, Neighbours
    <2> QED
        BY <2>1 DEF Place
<1>5. /\ f \in Flow /\ f = s[k]
      /\ l.prev[f] # NoFlow <=> k # 1
      /\ l.next[f] # NoFlow <=> k # n
    BY <1>3, <1>4, NoFlowIsNone
<1> DEFINE head == IF l.prev[f] # NoFlow THEN l.head ELSE l.next[f]
<1>6. /\ m.head = head
      /\ m.tail = IF l.next[f] # NoFlow THEN l.tail ELSE l.prev[f]
      /\ m.current = IF l.next[f] # NoFlow THEN l.next[f] ELSE head
      /\ m.next = Link(Link(l.next, l.prev[f], l.next[f]), f, NoFlow)
      /\ m.prev = Link(Link(l.prev, l.next[f], l.prev[f]), f, NoFlow)
    BY DEF RemoveFromPendingList
<1>7. m \in PendingLists
    <2>1. m.next \in [Flow -> Pointer] /\ m.prev \in [Flow -> Pointer]
        BY <1>2, <1>5, <1>6 DEF PendingLists, Pointer, Link
    <2>2. m.head \in Pointer /\ m.tail \in Pointer /\ m.current \in Pointer
        BY <1>2, <1>5, <1>6 DEF PendingLists
    <2> QED
        BY <2>1, <2>2 DEF RemoveFromPendingList, PendingLists
<1> HIDE DEF m, head, f
<1>8. Unlinked(l, m, n, s, k)
    <2>1. m.head = IF k = 1 THEN l.next[s[k]] ELSE l.head
        BY <1>5, <1>6 DEF head
    <2>2. n > 1 => m.tail = IF k = n THEN s[n - 1] ELSE l.tail
        BY <1>4, <1>5, <1>6
    <2>3. IF n = 1 THEN m.current = NoFlow ELSE \E i \in (1..n) \ {k} : m.current = s[i]
        <3>1. CASE k # n
            <4>1. m.current = s[k + 1] /\ k + 1 \in (1..n) \ {k}
                BY <1>4, <1>5, <1>6, <3>1
            <4> QED
                BY <3>1, <4>1
        <3>2. CASE k = n /\ n # 1
            <4>1. m.current = s[1] /\ 1 \in (1..n) \ {k}
                BY <1>4, <1>5, <1>6, <3>2 DEF head
            <4> QED
                BY <3>2, <4>1
        <3>3. CASE k = n /\ n = 1
            BY <1>4, <1>5, <1>6, <3>3 DEF head
        <3> QED
            BY <3>1, <3>2, <3>3
    <2>4. m.next[s[k]] = NoFlow /\ m.prev[s[k]] = NoFlow
        BY <1>5, <1>6 DEF Link
    <2>5. /\ k > 1 => m.next[s[k - 1]] = l.next[s[k]]
          /\ k < n => m.prev[s[k + 1]] = l.prev[s[k]]
        BY <1>4, <1>5, <1>6 DEF Link
    <2>6. \A x \in Flow : x # s[k] /\ (k > 1 => x # s[k - 1]) => m.next[x] = l.next[x]
        BY <1>4, <1>5, <1>6, NoFlowIsNone DEF Link
    <2>7. \A x \in Flow : x # s[k] /\ (k < n => x # s[k + 1]) => m.prev[x] = l.prev[x]
        BY <1>4, <1>5, <1>6, NoFlowIsNone DEF Link
    <2> QED
        BY <2>1, <2>2, <2>3, <2>4, <2>5, <2>6, <2>7 DEF Unlinked
<1> QED
    BY <1>1, <1>2, <1>5, <1>7, <1>8, UnlinkedHolds DEF m, f

\* The next flow in turn is on the list too.
LEMMA NextIsList ==
    ASSUME NEW l, IsList(l), l.current # NoFlow
    PROVE  /\ IsList(NextPendingFlow(l))
           /\ \A g \in Flow : Listed(NextPendingFlow(l), g) <=> Listed(l, g)
<1>0. PICK n \in Nat : \E s \in [1..n -> Flow] : Holds(l, n, s)
    BY DEF IsList
<1>1. PICK s \in [1..n -> Flow] : Holds(l, n, s)
    BY <1>0
<1>2. l \in PendingLists
    BY DEF IsList
<1>3. PICK k \in 1..n : s[k] = l.current
    BY <1>1, <1>2, Held
<1> DEFINE c == IF l.next[l.current] # NoFlow THEN l.next[l.current] ELSE l.head
           m == NextPendingFlow(l)
<1>4. \E i \in 1..n : c = s[i]
    <2>1. Place(l, n, s, k)
        BY <1>1, <1>2, Neighbours
    <2>2. k # n => c = s[k + 1] /\ k + 1 \in 1..n
        BY <1>3, <2>1, NoFlowIsNone DEF Place
    <2>3. k = n => c = s[1] /\ 1 \in 1..n
        BY <1>3, <2>1 DEF Place
    <2> QED
        BY <2>2, <2>3
<1> HIDE DEF c
<1>5. m = [l EXCEPT !.current = c]
    BY DEF NextPendingFlow, c
<1>6. /\ m.head = l.head /\ m.tail = l.tail /\ m.next = l.next /\ m.prev = l.prev
      /\ m.current = c
    BY <1>2, <1>5 DEF PendingLists
<1>7. m \in PendingLists
    BY <1>2, <1>4, <1>5 DEF PendingLists, Pointer
<1> HIDE DEF m
<1>8. Holds(m, n, s)
    <2>1. n # 0
        OBVIOUS
    <2>2. IF n = 0 THEN m.current = NoFlow ELSE \E i \in 1..n : m.current = s[i]
        BY <1>4, <1>6, <2>1
    <2>3. /\ \A i, j \in 1..n : s[i] = s[j] => i = j
          /\ m.head = IF n = 0 THEN NoFlow ELSE s[1]
          /\ n > 0 => m.tail = s[n]
        BY <1>1, <1>6 DEF Holds
    <2>4. \A i \in 1..n : /\ m.next[s[i]] = IF i = n THEN NoFlow ELSE s[i + 1]
                         /\ m.prev[s[i]] = IF i = 1 THEN NoFlow ELSE s[i - 1]
        BY <1>1, <1>6 DEF Holds
    <2>5. \A f \in Flow : (\A i \in 1..n : s[i] # f) => m.next[f] = NoFlow /\ m.prev[f] = NoFlow
        BY <1>1, <1>6 DEF Holds
    <2> QED
        BY <2>2, <2>3, <2>4, <2>5 DEF Holds
<1>9. IsList(m)
    BY <1>7, <1>8 DEF IsList
<1> QED
    BY <1>6, <1>9 DEF Listed, m

-----------------------------------------------------------------------------
(* The flows and their transport.                                          *)

StateType == [flow : [Flow -> FlowMembers], list : PendingLists, tr : TransportMembers]

Users(s) == {f \in Flow : s.flow[f].bound}

\* What is pending can be sent, and an OFF is pending, for flows that have the transport.
PendingOK(s) ==
    \A f \in Flow : /\ s.flow[f].pending > 0 => s.flow[f].bound /\ Listed(s.list, f)
                    /\ s.flow[f].offPending => s.flow[f].bound

ReferencesOK(s) ==
    /\ s.tr.refs = Cardinality(Users(s))
    /\ s.tr.open <=> s.tr.refs > 0

Good(s) == s \in StateType /\ IsList(s.list) /\ PendingOK(s) /\ ReferencesOK(s)

\* A flow that is off and has the transport still waits to be stopped.
OffOK(s) == \A f \in Flow : ~s.flow[f].on /\ s.flow[f].bound => s.flow[f].offPending

\* r is like s in all that Good and OffOK speak of.
AlikeFlow(x, y) ==
    x.on = y.on /\ x.bound = y.bound /\ x.pending = y.pending /\ x.offPending = y.offPending
Alike(s, r) ==
    /\ r \in StateType
    /\ r.list = s.list /\ r.tr.refs = s.tr.refs /\ r.tr.open = s.tr.open
    /\ \A f \in Flow : AlikeFlow(r.flow[f], s.flow[f])

\* On the way from s to r no flow is turned on or off or gets the transport, and
\* one that keeps it keeps its pending OFF.
Keeps(s, r) ==
    \A f \in Flow :
        /\ r.flow[f].on = s.flow[f].on
        /\ r.flow[f].bound => s.flow[f].bound /\ r.flow[f].offPending = s.flow[f].offPending

LEMMA AlikeGood ==
    ASSUME NEW s, NEW r, Good(s), Alike(s, r)
    PROVE  Good(r) /\ Keeps(s, r)
<1>1. Users(r) = Users(s)
    BY DEF Users, Alike, AlikeFlow
<1>2. PendingOK(r)
    BY DEF Good, PendingOK, Alike, AlikeFlow
<1>3. ReferencesOK(r)
    BY <1>1 DEF Good, ReferencesOK, Alike
<1>4. Keeps(s, r)
    BY DEF Keeps, Alike, AlikeFlow
<1> QED
    BY <1>2, <1>3, <1>4 DEF Good, Alike

LEMMA AlikeTransitive ==
    ASSUME NEW s, NEW r, NEW q, Alike(s, r), Alike(r, q)
    PROVE  Alike(s, q)
BY DEF Alike, AlikeFlow

LEMMA AlikeSelf == ASSUME NEW s, s \in StateType PROVE Alike(s, s)
BY DEF Alike, AlikeFlow

LEMMA KeepsOff == ASSUME NEW s, NEW r, OffOK(s), Keeps(s, r) PROVE OffOK(r)
BY DEF OffOK, Keeps

LEMMA KeepsTransitive ==
    ASSUME NEW s, NEW r, NEW q, Keeps(s, r), Keeps(r, q)
    PROVE  Keeps(s, q)
BY DEF Keeps

-----------------------------------------------------------------------------
(* The operators that change nothing of this.                              *)

LEMMA StartOutputAlike == ASSUME NEW s \in StateType PROVE Alike(s, StartOutput(s))
<1>1. StartOutput(s) \in StateType
    BY DEF StartOutput, StateType, TransportMembers
<1>2. /\ StartOutput(s).flow = s.flow /\ StartOutput(s).list = s.list
      /\ StartOutput(s).tr.refs = s.tr.refs /\ StartOutput(s).tr.open = s.tr.open
    BY DEF StartOutput, StateType, TransportMembers
<1> QED
    BY <1>1, <1>2 DEF Alike, AlikeFlow

LEMMA SetTimerAlike ==
    ASSUME NEW s \in StateType, NEW f \in Flow, NEW b \in BOOLEAN
    PROVE  Alike(s, SetTimer(s, f, b))
<1> DEFINE r == SetTimer(s, f, b)
<1>1. /\ r.list = s.list /\ r.tr = s.tr
      /\ r.flow = [s.flow EXCEPT ![f] = [@ EXCEPT !.timer = b]]
    BY DEF SetTimer, StateType
<1>2. s.flow[f] \in FlowMembers /\ s.flow \in [Flow -> FlowMembers]
    BY DEF StateType
<1>3. [s.flow[f] EXCEPT !.timer = b] \in FlowMembers
    BY <1>2 DEF FlowMembers
<1>4. r.flow \in [Flow -> FlowMembers]
    BY <1>1, <1>2, <1>3
<1>5. r \in StateType
    BY <1>1, <1>4 DEF SetTimer, StateType
<1>6. AlikeFlow([s.flow[f] EXCEPT !.timer = b], s.flow[f])
    BY <1>2 DEF FlowMembers, AlikeFlow
<1>7. \A g \in Flow : AlikeFlow(r.flow[g], s.flow[g])
    BY <1>1, <1>2, <1>6 DEF AlikeFlow
<1> QED
    BY <1>1, <1>5, <1>7 DEF Alike

-----------------------------------------------------------------------------
(* The operators that change one flow, the list and the references.         *)

Counted(s, f) == IF s.flow[f].bound THEN 1 ELSE 0

\* From s to r only f gets or loses what is pending or the transport, and the
\* references follow.
OneFlow(s, r, f) ==
    /\ r \in StateType /\ IsList(r.list)
    /\ \A g \in Flow \ {f} : AlikeFlow(r.flow[g], s.flow[g])
                             /\ (Listed(s.list, g) => Listed(r.list, g))
    /\ r.flow[f].pending > 0 => r.flow[f].bound /\ Listed(r.list, f)
    /\ r.flow[f].offPending => r.flow[f].bound
    /\ r.tr.refs + Counted(s, f) = s.tr.refs + Counted(r, f)
    /\ r.tr.open <=> r.tr.refs > 0

LEMMA UsersFinite == ASSUME NEW s PROVE IsFiniteSet(Users(s))
<1>1. Users(s) \subseteq Flow
    BY DEF Users
<1> QED
    BY <1>1, FlowAssumption, FS_Subset

LEMMA OneFlowGood ==
    ASSUME NEW s, NEW r, NEW f \in Flow, Good(s), OneFlow(s, r, f)
    PROVE  Good(r)
<1>1. PendingOK(r)
    BY DEF Good, PendingOK, OneFlow, AlikeFlow
<1>2. /\ IsFiniteSet(Users(s)) /\ Cardinality(Users(s)) \in Nat
      /\ s.tr.refs = Cardinality(Users(s)) /\ r.tr.refs \in Nat
    BY UsersFinite, FS_CardinalityType DEF Good, ReferencesOK, OneFlow, StateType, TransportMembers
<1>3. \A g \in Flow \ {f} : g \in Users(r) <=> g \in Users(s)
    BY DEF Users, OneFlow, AlikeFlow
<1>4. (f \in Users(s) <=> s.flow[f].bound) /\ (f \in Users(r) <=> r.flow[f].bound)
    BY DEF Users
<1>5. Users(s) \subseteq Flow /\ Users(r) \subseteq Flow
    BY DEF Users
<1>6. r.tr.refs = Cardinality(Users(r))
  <2>1. CASE s.flow[f].bound <=> r.flow[f].bound
    <3>1. Users(r) = Users(s)
        BY <1>3, <1>4, <1>5, <2>1
    <3>2. r.tr.refs = s.tr.refs
        BY <1>2, <2>1 DEF OneFlow, Counted
    <3> QED
        BY <1>2, <3>1, <3>2
  <2>2. CASE s.flow[f].bound /\ ~r.flow[f].bound
    <3>1. Users(r) = Users(s) \ {f}
        BY <1>3, <1>4, <1>5, <2>2
    <3>2. r.tr.refs + 1 = s.tr.refs
        BY <1>2, <2>2 DEF OneFlow, Counted
    <3>3. Cardinality(Users(r)) = Cardinality(Users(s)) - 1
        BY <1>2, <1>4, <2>2, <3>1, FS_RemoveElement
    <3> QED
        BY <1>2, <3>2, <3>3
  <2>3. CASE ~s.flow[f].bound /\ r.flow[f].bound
    <3>1. Users(r) = Users(s) \cup {f}
        BY <1>3, <1>4, <1>5, <2>3
    <3>2. r.tr.refs = s.tr.refs + 1
        BY <1>2, <2>3 DEF OneFlow, Counted
    <3>3. Cardinality(Users(r)) = Cardinality(Users(s)) + 1
        BY <1>2, <1>4, <2>3, <3>1, FS_AddElement
    <3> QED
        BY <1>2, <3>2, <3>3
  <2> QED
    BY <2>1, <2>2, <2>3
<1>7. ReferencesOK(r)
    BY <1>6 DEF ReferencesOK, OneFlow
<1> QED
    BY <1>1, <1>7 DEF Good, OneFlow

\* Without f nothing changes: what else OneFlow asks for is about f.
LEMMA FlowChanged ==
    ASSUME NEW s \in StateType, NEW f \in Flow, NEW m \in FlowMembers, NEW r,
           r.flow = [s.flow EXCEPT ![f] = m]
    PROVE  /\ r.flow \in [Flow -> FlowMembers] /\ r.flow[f] = m
           /\ \A g \in Flow \ {f} : r.flow[g] = s.flow[g] /\ AlikeFlow(r.flow[g], s.flow[g])
BY DEF StateType, AlikeFlow

LEMMA QueueGood ==
    ASSUME NEW s, NEW f \in Flow, Good(s)
    PROVE  /\ Good(Queue(s, f)) /\ Keeps(s, Queue(s, f))
           /\ Queue(s, f).flow = s.flow /\ Queue(s, f).tr = s.tr
           /\ Listed(Queue(s, f).list, f)
<1> DEFINE r == Queue(s, f)
<1>1. s \in StateType /\ IsList(s.list)
    BY DEF Good
<1>2. r.flow = s.flow /\ r.tr = s.tr /\ r.list = AppendFlow(s.list, f)
    BY <1>1 DEF Queue, StateType
<1>3. /\ IsList(r.list) /\ \A g \in Flow : Listed(r.list, g) <=> Listed(s.list, g) \/ g = f
    BY <1>1, <1>2, AppendIsList
<1>4. r \in StateType
    BY <1>1, <1>2, <1>3 DEF Queue, StateType, IsList
<1>5. Users(r) = Users(s)
    BY <1>2 DEF Users
<1>6. PendingOK(r)
    BY <1>2, <1>3 DEF Good, PendingOK
<1>7. ReferencesOK(r)
    BY <1>2, <1>5 DEF Good, ReferencesOK
<1>8. Keeps(s, r)
    BY <1>2 DEF Keeps
<1> QED
    BY <1>2, <1>3, <1>4, <1>6, <1>7, <1>8 DEF Good

LEMMA AddPendingGood ==
    ASSUME NEW s, NEW f \in Flow, Good(s), s.flow[f].bound
    PROVE  Good(AddPending(s, f)) /\ Keeps(s, AddPending(s, f))
<1> DEFINE k == s.flow[f].pending + 1
           m == [s.flow[f] EXCEPT !.pending = k]
           q == [s EXCEPT !.flow[f].pending = @ + 1]
           r == AddPending(s, f)
<1>1. s \in StateType /\ IsList(s.list) /\ s.flow[f] \in FlowMembers
    BY DEF Good, StateType
<1>0. k \in Nat
    BY <1>1 DEF FlowMembers
<1> HIDE DEF k
<1>2. /\ m \in FlowMembers /\ m.bound = s.flow[f].bound /\ m.on = s.flow[f].on
      /\ m.offPending = s.flow[f].offPending
    BY <1>0, <1>1 DEF FlowMembers
<1>3. q.flow = [s.flow EXCEPT ![f] = m] /\ q.list = s.list /\ q.tr = s.tr
    BY <1>1 DEF StateType, k
<1>4. q.flow \in [Flow -> FlowMembers]
    BY <1>1, <1>2, <1>3, FlowChanged
<1>5. q \in StateType
    BY <1>1, <1>3, <1>4 DEF StateType
<1>6. r.flow = q.flow /\ r.tr = q.tr /\ r.list = AppendFlow(q.list, f)
    BY <1>5 DEF AddPending, Queue, StateType
<1>7. r.flow = [s.flow EXCEPT ![f] = m] /\ r.list = AppendFlow(s.list, f) /\ r.tr = s.tr
    BY <1>3, <1>6
<1>8. /\ IsList(r.list) /\ \A g \in Flow : Listed(r.list, g) <=> Listed(s.list, g) \/ g = f
    BY <1>1, <1>7, AppendIsList
<1>9. r \in StateType
    BY <1>5, <1>6, <1>8 DEF AddPending, Queue, StateType, IsList
<1>10. /\ r.flow[f] = m
       /\ \A g \in Flow \ {f} : r.flow[g] = s.flow[g] /\ AlikeFlow(r.flow[g], s.flow[g])
    BY <1>1, <1>2, <1>7, FlowChanged
<1>11. OneFlow(s, r, f)
    BY <1>2, <1>7, <1>8, <1>9, <1>10 DEF OneFlow, Counted, Good, ReferencesOK, PendingOK
<1>12. Keeps(s, r)
    BY <1>2, <1>10 DEF Keeps
<1> QED
    BY <1>11, <1>12, OneFlowGood

\* Only the timer, the limit or the error of f changed.
LEMMA FlowAlike ==
    ASSUME NEW s \in StateType, NEW f \in Flow, NEW m \in FlowMembers, NEW r \in StateType,
           AlikeFlow(m, s.flow[f]), r.flow = [s.flow EXCEPT ![f] = m],
           r.list = s.list, r.tr.refs = s.tr.refs, r.tr.open = s.tr.open
    PROVE  Alike(s, r)
<1>1. \A g \in Flow : AlikeFlow(r.flow[g], s.flow[g])
    BY FlowChanged DEF AlikeFlow
<1> QED
    BY <1>1 DEF Alike

LEMMA AcceptedGood ==
    ASSUME NEW s, NEW f \in Flow, Good(s)
    PROVE  /\ Good(Accepted(s, f)) /\ Keeps(s, Accepted(s, f))
           /\ Accepted(s, f).list = s.list
<1> DEFINE k == IF s.flow[f].pending > 0 THEN s.flow[f].pending - 1 ELSE 0
           m == [s.flow[f] EXCEPT !.pending = k]
           n == CountSent(s.tr.sent)
           r == [s EXCEPT !.tr.sent = CountSent(@),
                          !.flow[f].pending = IF @ > 0 THEN @ - 1 ELSE 0]
<1>1. /\ s \in StateType /\ IsList(s.list) /\ s.flow[f] \in FlowMembers
      /\ s.tr \in TransportMembers
    BY DEF Good, StateType
<1>2. k \in Nat /\ n \in Nat /\ (k > 0 => s.flow[f].pending > 0)
    BY <1>1 DEF FlowMembers, TransportMembers, CountSent
<1>3. /\ r.flow = [s.flow EXCEPT ![f] = m] /\ r.list = s.list
      /\ r.tr = [s.tr EXCEPT !.sent = n]
    BY <1>1 DEF StateType
<1> HIDE DEF k, n
<1>4. /\ m \in FlowMembers /\ m.bound = s.flow[f].bound /\ m.on = s.flow[f].on
      /\ m.offPending = s.flow[f].offPending /\ m.pending = k
    BY <1>1, <1>2 DEF FlowMembers
<1>5. r.tr \in TransportMembers /\ r.tr.refs = s.tr.refs /\ r.tr.open = s.tr.open
    BY <1>1, <1>2, <1>3 DEF TransportMembers
<1> HIDE DEF m, r
<1>6. /\ r.flow \in [Flow -> FlowMembers] /\ r.flow[f] = m
      /\ \A g \in Flow \ {f} : r.flow[g] = s.flow[g] /\ AlikeFlow(r.flow[g], s.flow[g])
    BY <1>1, <1>3, <1>4, FlowChanged
<1>7. r \in StateType
  <2> DEFINE a == [s EXCEPT !.tr.sent = CountSent(@)]
             F == [s.flow EXCEPT ![f].pending = IF @ > 0 THEN @ - 1 ELSE 0]
  <2>1. a.tr = r.tr /\ a.flow = s.flow /\ a.list = s.list
      BY <1>1, <1>3 DEF StateType, n, r
  <2>2. a \in StateType
      BY <1>1, <1>5, <2>1 DEF StateType
  <2> HIDE DEF a
  <2>3. F = r.flow
      BY <1>1 DEF StateType, r
  <2>4. [a EXCEPT !.flow = F] \in StateType
      BY <1>6, <2>2, <2>3 DEF StateType
  <2>5. r = [a EXCEPT !.flow = F]
      BY <1>1 DEF StateType, a, r
  <2> QED
      BY <2>4, <2>5
<1>8. OneFlow(s, r, f)
    BY <1>1, <1>2, <1>3, <1>4, <1>5, <1>6, <1>7
    DEF OneFlow, Counted, Good, ReferencesOK, PendingOK
<1>9. Good(r) /\ Keeps(s, r)
    BY <1>4, <1>6, <1>8, OneFlowGood DEF Keeps
<1> DEFINE e == [r.flow[f] EXCEPT !.error = FALSE, !.timer = FALSE]
           q == [r EXCEPT !.flow[f] = [@ EXCEPT !.error = FALSE, !.timer = FALSE]]
<1>10. e \in FlowMembers /\ AlikeFlow(e, r.flow[f])
    BY <1>4, <1>6 DEF FlowMembers, AlikeFlow
<1>11. q.flow = [r.flow EXCEPT ![f] = e] /\ q.list = r.list /\ q.tr = r.tr
    BY <1>7, <1>6 DEF StateType
<1> HIDE DEF e, q
<1>12. q.flow \in [Flow -> FlowMembers]
    BY <1>7, <1>10, <1>11 DEF StateType
<1>13. q \in StateType
    BY <1>7, <1>11, <1>12 DEF StateType, q
<1>14. Alike(r, q)
    BY <1>7, <1>10, <1>11, <1>13, FlowAlike
<1>15. Alike(r, StartOutput(q))
    BY <1>13, <1>14, AlikeTransitive, StartOutputAlike
<1>16. /\ Good(StartOutput(q)) /\ Keeps(s, StartOutput(q))
       /\ StartOutput(q).list = s.list
    BY <1>3, <1>9, <1>15, AlikeGood, KeepsTransitive DEF Alike
<1>17. Accepted(s, f) = r \/ Accepted(s, f) = StartOutput(q)
    BY DEF Accepted, q, r
<1> QED
    BY <1>3, <1>9, <1>16, <1>17

LEMMA SocketErrorAlike ==
    ASSUME NEW s \in StateType, NEW f \in Flow PROVE Alike(s, SocketError(s, f))
<1> DEFINE m == [s.flow[f] EXCEPT !.error = TRUE, !.timer = TRUE]
           t == [s.tr EXCEPT !.output = FALSE]
           F == [s.flow EXCEPT ![f] = [@ EXCEPT !.error = TRUE, !.timer = TRUE]]
           a == [s EXCEPT !.tr = t]
           r == SocketError(s, f)
<1>1. s.flow[f] \in FlowMembers /\ s.tr \in TransportMembers
    BY DEF StateType
<1>2. m \in FlowMembers /\ AlikeFlow(m, s.flow[f])
    BY <1>1 DEF FlowMembers, AlikeFlow
<1>3. t \in TransportMembers /\ t.refs = s.tr.refs /\ t.open = s.tr.open
    BY <1>1 DEF TransportMembers
<1>4. F = [s.flow EXCEPT ![f] = m] /\ F \in [Flow -> FlowMembers]
    BY <1>2 DEF StateType
<1> HIDE DEF m, t
<1>5. a \in StateType
    BY <1>3 DEF StateType
<1>6. [a EXCEPT !.flow = F] \in StateType
    BY <1>4, <1>5 DEF StateType
<1>7. r = [a EXCEPT !.flow = F]
    BY <1>1 DEF StateType, SocketError, t
<1>8. r.flow = F /\ r.list = s.list /\ r.tr = t
    BY <1>5, <1>7 DEF StateType
<1>9. r \in StateType
    BY <1>6, <1>7
<1> HIDE DEF F, a, r
<1>10. \A g \in Flow : AlikeFlow(r.flow[g], s.flow[g])
    BY <1>2, <1>4, <1>8 DEF StateType, AlikeFlow
<1> QED
    BY <1>3, <1>8, <1>9, <1>10 DEF Alike, r

LEMMA RefusedGood ==
    ASSUME NEW s, NEW f \in Flow, NEW outcome, Good(s), s.flow[f].bound
    PROVE  Good(Refused(s, f, outcome)) /\ Keeps(s, Refused(s, f, outcome))
<1> DEFINE a == AddPending(s, f)
           b == IF QueueFull(a, f) THEN SetTimer(a, f, FALSE) ELSE a
<1>1. Good(a) /\ Keeps(s, a) /\ a \in StateType
    BY AddPendingGood DEF Good
<1>2. Alike(a, b) /\ b \in StateType
    BY <1>1, SetTimerAlike, AlikeSelf DEF Alike
<1>3. Alike(a, StartOutput(b)) /\ Alike(a, SocketError(b, f))
    BY <1>2, StartOutputAlike, SocketErrorAlike, AlikeTransitive
<1>4. \/ Refused(s, f, outcome) = s
      \/ Alike(a, Refused(s, f, outcome))
    BY <1>2, <1>3 DEF Refused
<1>5. Keeps(s, s)
    BY DEF Keeps
<1> QED
    BY <1>1, <1>4, <1>5, AlikeGood, KeepsTransitive

LEMMA OpenGood ==
    ASSUME NEW t \in TransportMembers
    PROVE  /\ Open(t) \in TransportMembers /\ Open(t).refs = t.refs + 1
           /\ Open(t).open /\ Open(t).refs > 0
<1> DEFINE n == t.refs + 1
           a == [t EXCEPT !.open = TRUE]
           b == [a EXCEPT !.refs = n]
<1>1. n \in Nat /\ n > 0
    BY DEF TransportMembers
<1>2. a \in TransportMembers /\ a.open
    BY DEF TransportMembers
<1>3. Open(t) = b
    BY DEF TransportMembers, Open
<1> HIDE DEF n, a
<1>4. b \in TransportMembers /\ b.refs = n /\ b.open
    BY <1>1, <1>2 DEF TransportMembers
<1> QED
    BY <1>1, <1>3, <1>4 DEF n

LEMMA CloseGood ==
    ASSUME NEW t \in TransportMembers, t.refs > 0
    PROVE  /\ Close(t) \in TransportMembers /\ Close(t).refs = t.refs - 1
           /\ (t.open => (Close(t).open <=> Close(t).refs > 0))
<1>1. t.refs \in Nat
    BY DEF TransportMembers
<1>2. CASE t.refs = 1
  <2>1. Close(t) = [t EXCEPT !.refs = 0, !.open = FALSE, !.output = FALSE]
      BY <1>2 DEF Close
  <2>2. Close(t).refs = 0 /\ ~Close(t).open
      BY <2>1 DEF TransportMembers
  <2>3. Close(t) \in TransportMembers
    <3> DEFINE a == [t EXCEPT !.refs = 0]
               b == [a EXCEPT !.open = FALSE]
               c == [b EXCEPT !.output = FALSE]
    <3>1. a \in TransportMembers
        BY DEF TransportMembers
    <3> HIDE DEF a
    <3>2. b \in TransportMembers
        BY <3>1 DEF TransportMembers
    <3> HIDE DEF b
    <3>3. c \in TransportMembers
        BY <3>2 DEF TransportMembers
    <3>4. Close(t) = c
        BY <2>1 DEF TransportMembers, a, b
    <3> QED
        BY <3>3, <3>4
  <2> QED
      BY <1>2, <2>2, <2>3
<1>3. CASE t.refs > 1
  <2>1. Close(t) = [t EXCEPT !.refs = t.refs - 1]
      BY <1>1, <1>3 DEF Close
  <2> QED
      BY <1>1, <1>3, <2>1 DEF TransportMembers
<1> QED
    BY <1>1, <1>2, <1>3

LEMMA StopFlowGood ==
    ASSUME NEW s, NEW f \in Flow, Good(s)
    PROVE  /\ Good(StopFlow(s, f)) /\ Keeps(s, StopFlow(s, f))
           /\ ~StopFlow(s, f).flow[f].bound
<1> DEFINE m == [NewFlow EXCEPT !.on = s.flow[f].on, !.error = s.flow[f].error]
           F == [s.flow EXCEPT ![f] = [NewFlow EXCEPT !.on = s.flow[f].on,
                                                      !.error = s.flow[f].error]]
           r == StopFlow(s, f)
           t == [s.tr EXCEPT !.sent = 0]
<1>1. /\ s \in StateType /\ IsList(s.list) /\ s.flow[f] \in FlowMembers
      /\ s.tr \in TransportMembers /\ (s.tr.open <=> s.tr.refs > 0)
    BY DEF Good, StateType, ReferencesOK
<1>2. /\ m \in FlowMembers /\ m.pending = 0 /\ ~m.bound /\ ~m.offPending
      /\ m.on = s.flow[f].on
    BY <1>1 DEF FlowMembers, NewFlow
<1>3. F = [s.flow EXCEPT ![f] = m]
    OBVIOUS
<1> HIDE DEF m
<1>4. /\ F \in [Flow -> FlowMembers] /\ F[f] = m
      /\ \A g \in Flow \ {f} : F[g] = s.flow[g] /\ AlikeFlow(F[g], s.flow[g])
    BY <1>1, <1>2, <1>3 DEF StateType, AlikeFlow
<1> HIDE DEF F
<1>5. CASE s.flow[f].bound
  <2>1. r = [flow |-> F, list |-> RemoveFlow(s.list, f), tr |-> Close(t)]
      BY <1>5 DEF StopFlow, F
  <2>2. r.flow = F /\ r.list = RemoveFlow(s.list, f) /\ r.tr = Close(t)
      BY <2>1
  <2>3. /\ IsList(r.list)
        /\ \A g \in Flow : Listed(r.list, g) <=> Listed(s.list, g) /\ g # f
      BY <1>1, <2>2, RemoveIsList
  <2>4. /\ t \in TransportMembers /\ t.refs = s.tr.refs /\ t.open = s.tr.open
      BY <1>1 DEF TransportMembers
  <2>5. s.tr.refs # 0
    <3>1. f \in Users(s)
        BY <1>5 DEF Users
    <3>2. s.tr.refs = Cardinality(Users(s)) /\ IsFiniteSet(Users(s))
        BY UsersFinite DEF Good, ReferencesOK
    <3> QED
        BY <3>1, <3>2, FS_EmptySet
  <2> HIDE DEF t
  <2>6. /\ Close(t) \in TransportMembers /\ Close(t).refs + 1 = s.tr.refs
        /\ Close(t).open <=> Close(t).refs > 0
      BY <1>1, <2>4, <2>5, CloseGood DEF TransportMembers
  <2>7. r \in StateType
      BY <1>4, <2>1, <2>2, <2>3, <2>6 DEF StateType, IsList
  <2> HIDE DEF r
  <2>8. OneFlow(s, r, f)
    <3>1. Counted(s, f) = 1 /\ Counted(r, f) = 0
        BY <1>2, <1>4, <1>5, <2>2 DEF Counted
    <3>2. r.tr.refs + 1 = s.tr.refs + 0 /\ (r.tr.open <=> r.tr.refs > 0)
        BY <1>1, <2>2, <2>6 DEF TransportMembers
    <3>3. \A g \in Flow \ {f} : AlikeFlow(r.flow[g], s.flow[g])
                                /\ (Listed(s.list, g) => Listed(r.list, g))
        BY <1>4, <2>2, <2>3
    <3>4. r.flow[f].pending = 0 /\ ~r.flow[f].offPending
        BY <1>2, <1>4, <2>2
    <3> QED
        BY <2>3, <2>7, <3>1, <3>2, <3>3, <3>4 DEF OneFlow
  <2> QED
      BY <1>2, <1>4, <2>2, <2>8, OneFlowGood DEF Keeps, r
<1>6. CASE ~s.flow[f].bound
  <2>1. r = [s EXCEPT !.flow = F]
      BY <1>6 DEF StopFlow, F
  <2>2. r.flow = F /\ r.list = s.list /\ r.tr = s.tr
      BY <1>1, <2>1 DEF StateType
  <2>3. r \in StateType
      BY <1>1, <1>4, <2>1 DEF StateType
  <2> HIDE DEF r
  <2>4. OneFlow(s, r, f)
      BY <1>1, <1>2, <1>4, <1>6, <2>2, <2>3 DEF OneFlow, Counted
  <2> QED
      BY <1>2, <1>4, <2>2, <2>4, OneFlowGood DEF Keeps, r
<1> QED
    BY <1>5, <1>6

LEMMA SendMessageGood ==
    ASSUME NEW s, NEW f \in Flow, NEW outcome, Good(s)
    PROVE  /\ Good(SendMessage(s, f, outcome)) /\ Keeps(s, SendMessage(s, f, outcome))
           /\ Sends(s, f) /\ outcome = "OK" => SendMessage(s, f, outcome).list = s.list
<1>1. s \in StateType
    BY DEF Good
<1>2. CASE ~Sends(s, f)
    BY <1>1, <1>2, StopFlowGood, SetTimerAlike, AlikeGood DEF SendMessage, GiveUp
<1>3. CASE Sends(s, f) /\ outcome = "OK"
    BY <1>3, AcceptedGood DEF SendMessage
<1>4. CASE Sends(s, f) /\ outcome # "OK"
  <2>1. s.flow[f].bound
      BY <1>4 DEF Sends, Finished
  <2> QED
      BY <1>4, <2>1, RefusedGood DEF SendMessage
<1> QED
    BY <1>2, <1>3, <1>4

LEMMA TakeCountAlike ==
    ASSUME NEW s \in StateType, NEW f \in Flow, setup \in Setups
    PROVE  Alike(s, TakeCount(s, f))
<1> DEFINE n == setup[f].count
           m == [s.flow[f] EXCEPT !.limit = n]
           t == [s.tr EXCEPT !.sent = 0]
           F == [s.flow EXCEPT ![f].limit = n]
           a == [s EXCEPT !.tr = t]
           r == [s EXCEPT !.tr.sent = 0, !.flow[f].limit = setup[f].count]
<1>0. n \in Nat
    BY SetupAssumption
<1>1. s.flow[f] \in FlowMembers /\ s.tr \in TransportMembers
    BY DEF StateType
<1> HIDE DEF n
<1>2. m \in FlowMembers /\ AlikeFlow(m, s.flow[f])
    BY <1>0, <1>1 DEF FlowMembers, AlikeFlow
<1>3. t \in TransportMembers /\ t.refs = s.tr.refs /\ t.open = s.tr.open
    BY <1>1 DEF TransportMembers
<1>4. F = [s.flow EXCEPT ![f] = m] /\ F \in [Flow -> FlowMembers]
    BY <1>2 DEF StateType
<1> HIDE DEF m, t
<1>5. a \in StateType
    BY <1>3 DEF StateType
<1>6. [a EXCEPT !.flow = F] \in StateType
    BY <1>4, <1>5 DEF StateType
<1>7. r = [a EXCEPT !.flow = F]
    BY <1>1 DEF StateType, n, t
<1>8. r.flow = F /\ r.list = s.list /\ r.tr = t
    BY <1>5, <1>7 DEF StateType
<1>9. r \in StateType
    BY <1>6, <1>7
<1> HIDE DEF F, a, r
<1>10. \A g \in Flow : AlikeFlow(r.flow[g], s.flow[g])
    BY <1>2, <1>4, <1>8 DEF StateType, AlikeFlow
<1>11. Alike(s, r)
    BY <1>3, <1>8, <1>9, <1>10 DEF Alike
<1> QED
    BY <1>11, AlikeSelf DEF TakeCount, r

LEMMA DropGood ==
    ASSUME NEW s, NEW f \in Flow, Good(s)
    PROVE  /\ Good(Drop(s, f)) /\ Keeps(s, Drop(s, f))
           /\ Drop(s, f).flow[f].bound = s.flow[f].bound
<1> DEFINE m == [s.flow[f] EXCEPT !.pending = 0]
           F == [s.flow EXCEPT ![f].pending = 0]
           l == RemoveFlow(s.list, f)
           a == [s EXCEPT !.flow = F]
           r == Drop(s, f)
<1>1. /\ s \in StateType /\ IsList(s.list) /\ s.flow[f] \in FlowMembers
      /\ (s.tr.open <=> s.tr.refs > 0) /\ s.tr.refs \in Nat
    BY DEF Good, StateType, ReferencesOK, TransportMembers
<1>2. /\ m \in FlowMembers /\ m.pending = 0 /\ m.bound = s.flow[f].bound
      /\ m.on = s.flow[f].on /\ m.offPending = s.flow[f].offPending
    BY <1>1 DEF FlowMembers
<1>3. F = [s.flow EXCEPT ![f] = m]
    BY <1>1 DEF StateType
<1>4. IsList(l) /\ \A g \in Flow : Listed(l, g) <=> Listed(s.list, g) /\ g # f
    BY <1>1, RemoveIsList
<1>5. l \in PendingLists
    BY <1>4 DEF IsList
<1> HIDE DEF m, l
<1>6. /\ F \in [Flow -> FlowMembers] /\ F[f] = m
      /\ \A g \in Flow \ {f} : F[g] = s.flow[g] /\ AlikeFlow(F[g], s.flow[g])
    BY <1>1, <1>2, <1>3 DEF StateType, AlikeFlow
<1>7. a \in StateType
    BY <1>1, <1>6 DEF StateType
<1>8. [a EXCEPT !.list = l] \in StateType
    BY <1>5, <1>7 DEF StateType
<1>9. r = [a EXCEPT !.list = l]
    BY <1>1 DEF StateType, Drop, l
<1>10. r \in StateType
    BY <1>8, <1>9
<1>11. r.flow = F /\ r.list = l /\ r.tr = s.tr
    BY <1>7, <1>9, <1>1 DEF StateType
<1> HIDE DEF F, a, r
<1>12. Counted(s, f) = Counted(r, f) /\ Counted(s, f) \in {0, 1}
    BY <1>2, <1>6, <1>11 DEF Counted
<1>13. \A g \in Flow \ {f} : AlikeFlow(r.flow[g], s.flow[g])
                             /\ (Listed(s.list, g) => Listed(r.list, g))
    BY <1>4, <1>6, <1>11
<1>14. r.flow[f].pending = 0 /\ (r.flow[f].offPending => r.flow[f].bound)
    BY <1>2, <1>6, <1>11 DEF Good, PendingOK
<1>15. OneFlow(s, r, f)
    BY <1>1, <1>4, <1>10, <1>11, <1>12, <1>13, <1>14 DEF OneFlow
<1>16. Good(r)
    BY <1>15, OneFlowGood
<1>17. Keeps(s, r) /\ r.flow[f].bound = s.flow[f].bound
    BY <1>2, <1>6, <1>11 DEF Keeps
<1> QED
    BY <1>16, <1>17 DEF r

\* b is s but for the reference that f now has.
LEMMA StartGood ==
    ASSUME NEW s, NEW f \in Flow, Good(s), NEW b \in StateType,
           b.flow = s.flow, b.list = s.list,
           b.tr.refs + Counted(s, f) = s.tr.refs + 1, b.tr.open <=> b.tr.refs > 0
    PROVE  /\ Good(Start(b, f)) /\ Start(b, f).flow[f].on
           /\ \A g \in Flow \ {f} : Start(b, f).flow[g] = s.flow[g]
<1> DEFINE m == [b.flow[f] EXCEPT !.on = TRUE, !.bound = TRUE, !.offPending = FALSE,
                                   !.timer = TRUE]
           F == [b.flow EXCEPT ![f] = [@ EXCEPT !.on = TRUE, !.bound = TRUE,
                                                !.offPending = FALSE, !.timer = TRUE]]
           r == Start(b, f)
<1>1. /\ IsList(s.list) /\ s.flow \in [Flow -> FlowMembers] /\ s.flow[f] \in FlowMembers
      /\ (s.flow[f].pending > 0 => Listed(s.list, f))
    BY DEF Good, StateType, PendingOK
<1>2. /\ m \in FlowMembers /\ m.pending = s.flow[f].pending /\ m.bound
      /\ m.on /\ ~m.offPending
    BY <1>1 DEF FlowMembers
<1>3. F = [s.flow EXCEPT ![f] = m]
    OBVIOUS
<1> HIDE DEF m
<1>4. /\ F \in [Flow -> FlowMembers] /\ F[f] = m
      /\ \A g \in Flow \ {f} : F[g] = s.flow[g] /\ AlikeFlow(F[g], s.flow[g])
    BY <1>1, <1>2, <1>3 DEF AlikeFlow
<1>5. r = [b EXCEPT !.flow = F]
    BY DEF Start
<1> HIDE DEF F
<1>6. r \in StateType
    BY <1>4, <1>5 DEF StateType
<1>7. r.flow = F /\ r.list = s.list /\ r.tr = b.tr
    BY <1>5 DEF StateType
<1> HIDE DEF r
<1>8. Counted(r, f) = 1
    BY <1>2, <1>4, <1>7 DEF Counted
<1>9. \A g \in Flow \ {f} : AlikeFlow(r.flow[g], s.flow[g])
                            /\ (Listed(s.list, g) => Listed(r.list, g))
    BY <1>4, <1>7
<1>10. r.flow[f].pending > 0 => Listed(r.list, f)
    BY <1>1, <1>2, <1>4, <1>7
<1>11. r.flow[f].bound /\ ~r.flow[f].offPending /\ r.flow[f].on
    BY <1>2, <1>4, <1>7
<1>12. OneFlow(s, r, f)
    BY <1>1, <1>6, <1>7, <1>8, <1>9, <1>10, <1>11 DEF OneFlow
<1>13. Good(r)
    BY <1>12, OneFlowGood
<1> QED
    BY <1>4, <1>7, <1>11, <1>13 DEF r

LEMMA MoveGood ==
    ASSUME NEW s, NEW f \in Flow, Good(s), s.flow[f].bound
    PROVE  Good(Move(s, f)) /\ Keeps(s, Move(s, f))
<1> DEFINE m == [s.flow[f] EXCEPT !.pending = 0]
           F == [s.flow EXCEPT ![f].pending = 0]
           c == Close(s.tr)
           t == Open(c)
           a == [s EXCEPT !.flow = F]
           r == Move(s, f)
<1>1. /\ s \in StateType /\ IsList(s.list) /\ s.flow[f] \in FlowMembers
      /\ (s.tr.open <=> s.tr.refs > 0) /\ s.tr.refs \in Nat /\ s.tr \in TransportMembers
    BY DEF Good, StateType, ReferencesOK, TransportMembers
<1>2. /\ m \in FlowMembers /\ m.pending = 0 /\ m.bound = s.flow[f].bound
      /\ m.on = s.flow[f].on /\ m.offPending = s.flow[f].offPending
    BY <1>1 DEF FlowMembers
<1>3. F = [s.flow EXCEPT ![f] = m]
    BY <1>1 DEF StateType
<1> HIDE DEF m
<1>4. s.tr.refs > 0
  <2>1. f \in Users(s)
      BY DEF Users
  <2>2. s.tr.refs = Cardinality(Users(s)) /\ IsFiniteSet(Users(s))
      BY UsersFinite DEF Good, ReferencesOK
  <2> QED
      BY <1>1, <2>1, <2>2, FS_EmptySet
<1>5. /\ c \in TransportMembers /\ c.refs = s.tr.refs - 1
      /\ (c.open <=> c.refs > 0)
    BY <1>1, <1>4, CloseGood
<1> HIDE DEF c
<1>6. t \in TransportMembers /\ t.refs = s.tr.refs /\ t.open /\ t.refs > 0
    BY <1>1, <1>4, <1>5, OpenGood DEF TransportMembers
<1> HIDE DEF t
<1>7. /\ F \in [Flow -> FlowMembers] /\ F[f] = m
      /\ \A g \in Flow \ {f} : F[g] = s.flow[g] /\ AlikeFlow(F[g], s.flow[g])
    BY <1>1, <1>2, <1>3 DEF StateType, AlikeFlow
<1>8. a \in StateType
    BY <1>1, <1>7 DEF StateType
<1>9. [a EXCEPT !.tr = t] \in StateType
    BY <1>6, <1>8 DEF StateType
<1>10. r = [a EXCEPT !.tr = t]
    BY <1>1 DEF StateType, Move, c, t
<1>11. r \in StateType
    BY <1>9, <1>10
<1>12. r.flow = F /\ r.list = s.list /\ r.tr = t
    BY <1>8, <1>10, <1>1 DEF StateType
<1> HIDE DEF F, a, r
<1>13. Counted(s, f) = Counted(r, f) /\ Counted(s, f) \in {0, 1}
    BY <1>2, <1>7, <1>12 DEF Counted
<1>14. \A g \in Flow \ {f} : AlikeFlow(r.flow[g], s.flow[g])
                             /\ (Listed(s.list, g) => Listed(r.list, g))
    BY <1>7, <1>12
<1>15. r.flow[f].pending = 0 /\ (r.flow[f].offPending => r.flow[f].bound)
    BY <1>2, <1>7, <1>12 DEF Good, PendingOK
<1>16. OneFlow(s, r, f)
    BY <1>1, <1>6, <1>11, <1>12, <1>13, <1>14, <1>15 DEF OneFlow
<1>17. Good(r)
    BY <1>16, OneFlowGood
<1>18. Keeps(s, r)
    BY <1>2, <1>7, <1>12 DEF Keeps
<1> QED
    BY <1>17, <1>18 DEF r

-----------------------------------------------------------------------------
(* The handlers.                                                            *)

Inv ==
    /\ setup \in Setups /\ phase \in {"idle", "loop"} /\ refusals \in Nat
    /\ Good(State) /\ OffOK(State)

LEMMA StateParts ==
    State.flow = flow /\ State.list = list /\ State.tr = tr
BY DEF State

LEMMA BecomeGood ==
    ASSUME NEW s, Good(s), OffOK(s), Become(s)
    PROVE  Good(State)' /\ OffOK(State)'
<1>1. s = [flow |-> s.flow, list |-> s.list, tr |-> s.tr]
    BY DEF Good, StateType
<1>2. State' = s
    BY <1>1 DEF State, Become
<1> QED
    BY <1>2

LEMMA InitInv == ASSUME Init PROVE Inv
<1>1. NewFlow \in FlowMembers /\ ~NewFlow.bound /\ NewFlow.pending = 0 /\ ~NewFlow.offPending
    BY DEF NewFlow, FlowMembers
<1>2. /\ NewTransport \in TransportMembers /\ NewTransport.refs = 0
      /\ NewTransport.open = FALSE
    BY DEF NewTransport, TransportMembers
<1>3. flow \in [Flow -> FlowMembers] /\ \A f \in Flow : flow[f] = NewFlow
    BY <1>1 DEF Init
<1>4. IsList(list) /\ list \in PendingLists
    BY EmptyIsList DEF Init, IsList
<1>5. State \in StateType
    BY <1>2, <1>3, <1>4 DEF Init, State, StateType
<1>6. PendingOK(State) /\ OffOK(State)
    BY <1>1, <1>3, StateParts DEF PendingOK, OffOK
<1>7. Users(State) = {}
    BY <1>1, <1>3, StateParts DEF Users
<1>8. ReferencesOK(State)
    BY <1>2, <1>7, StateParts, FS_EmptySet DEF ReferencesOK, Init
<1> QED
    BY <1>4, <1>5, <1>6, <1>8, StateParts DEF Inv, Good, Init

LEMMA OnInv ==
    ASSUME Inv, NEW f \in Flow, NEW moved, On(f, moved) PROVE Inv'
<1> DEFINE a == IF ~flow[f].offPending THEN [State EXCEPT !.tr = Open(@)]
                ELSE IF flow[f].pending > 0 /\ moved THEN Drop(State, f)
                ELSE State
           r == Start(a, f)
<1>1. Good(State) /\ OffOK(State) /\ State \in StateType /\ setup \in Setups
    BY DEF Inv, Good
<1>2. Good(r) /\ r.flow[f].on /\ \A g \in Flow \ {f} : OffOK(State) =>
          (~r.flow[g].on /\ r.flow[g].bound => r.flow[g].offPending)
  <2>1. CASE ~flow[f].offPending
    <3> DEFINE t == Open(tr)
               b == [State EXCEPT !.tr = t]
    <3>1. tr \in TransportMembers /\ (tr.open <=> tr.refs > 0)
        BY <1>1, StateParts DEF Good, StateType, ReferencesOK
    <3>2. t \in TransportMembers /\ t.refs = tr.refs + 1 /\ t.open /\ t.refs > 0
        BY <3>1, OpenGood
    <3> HIDE DEF t
    <3>3. b \in StateType
        BY <1>1, <3>2 DEF StateType
    <3>4. b.flow = State.flow /\ b.list = State.list /\ b.tr = t
        BY <1>1 DEF StateType
    <3>5. a = b
        BY <2>1, StateParts DEF t
    <3>6. Counted(State, f) = 0
        BY <1>1, <2>1, StateParts DEF Counted, OffOK, On
    <3>7. b.tr.refs + Counted(State, f) = State.tr.refs + 1 /\ (b.tr.open <=> b.tr.refs > 0)
        BY <3>1, <3>2, <3>4, <3>6, StateParts DEF TransportMembers
    <3> HIDE DEF a, b
    <3>8. /\ Good(Start(b, f)) /\ Start(b, f).flow[f].on
          /\ \A g \in Flow \ {f} : Start(b, f).flow[g] = State.flow[g]
        BY <1>1, <3>3, <3>4, <3>7, StartGood
    <3> QED
        BY <3>5, <3>8 DEF OffOK
  <2>2. CASE flow[f].offPending
    <3>1. Good(a) /\ Keeps(State, a) /\ a.flow[f].bound
      <4>1. State.flow[f].bound
          BY <1>1, <2>2, StateParts DEF Good, PendingOK
      <4>2. Keeps(State, State)
          BY DEF Keeps
      <4> QED
          BY <1>1, <2>2, <4>1, <4>2, DropGood
    <3> HIDE DEF a
    <3>2. /\ a \in StateType /\ Counted(a, f) = 1 /\ a.tr.refs \in Nat
          /\ (a.tr.open <=> a.tr.refs > 0)
        BY <3>1 DEF Good, Counted, ReferencesOK, StateType, TransportMembers
    <3>3. a.tr.refs + Counted(a, f) = a.tr.refs + 1
        BY <3>2
    <3>4. /\ Good(Start(a, f)) /\ Start(a, f).flow[f].on
          /\ \A g \in Flow \ {f} : Start(a, f).flow[g] = a.flow[g]
        BY <3>1, <3>2, <3>3, StartGood
    <3> QED
        BY <3>1, <3>4 DEF OffOK, Keeps
  <2> QED
      BY <2>1, <2>2
<1> HIDE DEF r, a
<1>3. OffOK(r)
    BY <1>1, <1>2 DEF OffOK
<1>4. Alike(r, TakeCount(r, f))
    BY <1>1, <1>2, TakeCountAlike DEF Good
<1>5. Good(TakeCount(r, f)) /\ OffOK(TakeCount(r, f))
    BY <1>2, <1>3, <1>4, AlikeGood, KeepsOff
<1>6. Become(TakeCount(r, f)) /\ UNCHANGED <<setup, phase, refusals>>
    BY DEF On, a, r
<1>7. Good(State)' /\ OffOK(State)'
    BY <1>5, <1>6, BecomeGood
<1> QED
    BY <1>6, <1>7 DEF Inv

LEMMA ModInv ==
    ASSUME Inv, NEW f \in Flow, NEW moved, Mod(f, moved) PROVE Inv'
<1> DEFINE a == IF moved THEN Move(State, f) ELSE State
           b == TakeCount(a, f)
           r == SetTimer(b, f, TRUE)
<1>1. Good(State) /\ OffOK(State) /\ setup \in Setups /\ State.flow[f].bound
    BY StateParts DEF Inv, Mod
<1>2. Good(a) /\ OffOK(a)
    BY <1>1, MoveGood, KeepsOff
<1> HIDE DEF a
<1>3. Alike(a, b) /\ b \in StateType
    BY <1>1, <1>2, TakeCountAlike DEF Good, Alike
<1> HIDE DEF b
<1>4. Alike(a, r)
    BY <1>3, SetTimerAlike, AlikeTransitive
<1>5. Good(r) /\ OffOK(r)
    BY <1>2, <1>4, AlikeGood, KeepsOff
<1>6. Become(r) /\ UNCHANGED <<setup, phase, refusals>>
    BY DEF Mod, a, b
<1> HIDE DEF r
<1>7. Good(State)' /\ OffOK(State)'
    BY <1>5, <1>6, BecomeGood
<1> QED
    BY <1>6, <1>7 DEF Inv

LEMMA PauseInv == ASSUME Inv, NEW f \in Flow, Pause(f) PROVE Inv'
<1>1. Good(StopFlow(State, f)) /\ OffOK(StopFlow(State, f))
    BY StopFlowGood, KeepsOff DEF Inv
<1>2. Become(StopFlow(State, f)) /\ UNCHANGED <<setup, phase, refusals>>
    BY DEF Pause
<1>3. Good(State)' /\ OffOK(State)'
    BY <1>1, <1>2, BecomeGood
<1> QED
    BY <1>2, <1>3 DEF Inv

LEMMA StopWhenSentAlike ==
    ASSUME NEW s \in StateType, NEW f \in Flow PROVE Alike(s, StopWhenSent(s, f))
<1>1. Alike(s, StartOutput(s)) /\ StartOutput(s) \in StateType
    BY StartOutputAlike DEF Alike
<1> QED
    BY <1>1, SetTimerAlike, AlikeTransitive DEF StopWhenSent

\* Turned off, a flow is either stopped at once or waits with an OFF pending.
LEMMA OffInv == ASSUME Inv, NEW f \in Flow, Off(f) PROVE Inv'
<1> DEFINE m == [State.flow[f] EXCEPT !.on = FALSE]
           k == [m EXCEPT !.offPending = TRUE]
           s == [State EXCEPT !.flow[f].on = FALSE]
           u == [s EXCEPT !.flow[f].offPending = TRUE]
           w == Queue(u, f)
<1>1. /\ Good(State) /\ OffOK(State) /\ State \in StateType
      /\ State.flow[f] \in FlowMembers /\ IsList(State.list)
      /\ (State.tr.open <=> State.tr.refs > 0) /\ State.tr.refs \in Nat
    BY DEF Inv, Good, StateType, ReferencesOK, TransportMembers
<1>2. /\ m \in FlowMembers /\ m.pending = State.flow[f].pending
      /\ m.bound = State.flow[f].bound /\ ~m.on /\ m.offPending = State.flow[f].offPending
    BY <1>1 DEF FlowMembers
<1>3. s.flow = [State.flow EXCEPT ![f] = m] /\ s.list = State.list /\ s.tr = State.tr
    BY <1>1 DEF StateType
<1>4. s \in StateType
  <2>1. s.flow \in [Flow -> FlowMembers]
      BY <1>1, <1>2, <1>3 DEF StateType
  <2> QED
      BY <1>1, <2>1, <1>3 DEF StateType
<1> HIDE DEF m, s
<1>5. /\ s.flow[f] = m
      /\ \A g \in Flow \ {f} : s.flow[g] = State.flow[g] /\ AlikeFlow(s.flow[g], State.flow[g])
    BY <1>1, <1>2, <1>3 DEF StateType, AlikeFlow
<1>6. OneFlow(State, s, f)
  <2>1. Counted(s, f) = Counted(State, f) /\ Counted(State, f) \in {0, 1}
      BY <1>2, <1>5 DEF Counted
  <2>2. /\ s.flow[f].pending > 0 => s.flow[f].bound /\ Listed(s.list, f)
        /\ s.flow[f].offPending => s.flow[f].bound
      BY <1>1, <1>2, <1>3, <1>5 DEF Good, PendingOK
  <2> QED
      BY <1>1, <1>3, <1>4, <1>5, <2>1, <2>2 DEF OneFlow
<1>7. Good(s) /\ \A g \in Flow \ {f} : ~s.flow[g].on /\ s.flow[g].bound => s.flow[g].offPending
    BY <1>1, <1>5, <1>6, OneFlowGood DEF OffOK
<1>8. CASE flow[f].bound /\ flow[f].pending > 0
  <2>1. k \in FlowMembers /\ k.pending = m.pending /\ k.bound /\ ~k.on /\ k.offPending
      BY <1>2, <1>8, StateParts DEF FlowMembers
  <2>2. u.flow = [s.flow EXCEPT ![f] = k] /\ u.list = s.list /\ u.tr = s.tr
      BY <1>4, <1>5 DEF StateType
  <2>3. u \in StateType
    <3>1. u.flow \in [Flow -> FlowMembers]
        BY <1>4, <2>1, <2>2 DEF StateType
    <3> QED
        BY <1>4, <2>2, <3>1 DEF StateType
  <2> HIDE DEF k, u
  <2>4. /\ u.flow[f] = k
        /\ \A g \in Flow \ {f} : u.flow[g] = s.flow[g] /\ AlikeFlow(u.flow[g], s.flow[g])
      BY <1>4, <2>1, <2>2 DEF StateType, AlikeFlow
  <2>5. OneFlow(s, u, f)
    <3>1. Counted(u, f) = 1 /\ Counted(s, f) = 1
        BY <1>2, <1>5, <1>8, <2>1, <2>4, StateParts DEF Counted
    <3>2. u.flow[f].bound /\ (u.flow[f].pending > 0 => Listed(u.list, f))
        BY <1>5, <1>7, <2>1, <2>2, <2>4 DEF Good, PendingOK
    <3>3. s.tr.refs \in Nat /\ (s.tr.open <=> s.tr.refs > 0) /\ IsList(s.list)
        BY <1>1, <1>3
    <3> QED
        BY <2>2, <2>3, <2>4, <3>1, <3>2, <3>3 DEF OneFlow
  <2>6. Good(u) /\ OffOK(u)
      BY <1>7, <2>1, <2>4, <2>5, OneFlowGood DEF OffOK
  <2>7. Good(w) /\ OffOK(w)
      BY <2>6, QueueGood, KeepsOff
  <2>8. Become(IF flow[f].error THEN StopFlow(w, f) ELSE StopWhenSent(w, f))
      BY <1>8 DEF Off, s, u
  <2> HIDE DEF w
  <2>9. Good(StopFlow(w, f)) /\ OffOK(StopFlow(w, f))
      BY <2>7, StopFlowGood, KeepsOff
  <2>10. Good(StopWhenSent(w, f)) /\ OffOK(StopWhenSent(w, f))
      BY <2>7, StopWhenSentAlike, AlikeGood, KeepsOff DEF Good
  <2>11. Good(State)' /\ OffOK(State)'
      BY <2>8, <2>9, <2>10, BecomeGood
  <2> QED
      BY <2>11 DEF Inv, Off
<1>9. CASE ~(flow[f].bound /\ flow[f].pending > 0)
  <2>1. Good(StopFlow(s, f)) /\ OffOK(StopFlow(s, f))
      BY <1>7, StopFlowGood DEF OffOK, Keeps
  <2>2. Become(StopFlow(s, f))
      BY <1>9 DEF Off, s
  <2>3. Good(State)' /\ OffOK(State)'
      BY <2>1, <2>2, BecomeGood
  <2> QED
      BY <2>3 DEF Inv, Off
<1> QED
    BY <1>8, <1>9

LEMMA TxFinishedInv == ASSUME Inv, NEW f \in Flow, TxFinished(f) PROVE Inv'
<1>1. Good(StopFlow(State, f)) /\ OffOK(StopFlow(State, f))
    BY StopFlowGood, KeepsOff DEF Inv
<1>2. Become(StopFlow(State, f)) /\ UNCHANGED <<setup, phase, refusals>>
    BY DEF TxFinished
<1>3. Good(State)' /\ OffOK(State)'
    BY <1>1, <1>2, BecomeGood
<1> QED
    BY <1>2, <1>3 DEF Inv

LEMMA TxOffInv == ASSUME Inv, NEW f \in Flow, TxOff(f) PROVE Inv'
<1> DEFINE q == Queue(State, f)
<1>1. Good(StopFlow(State, f)) /\ OffOK(StopFlow(State, f))
    BY StopFlowGood, KeepsOff DEF Inv
<1>2. Good(q) /\ OffOK(q)
    BY QueueGood, KeepsOff DEF Inv
<1>3. Good(StopWhenSent(q, f)) /\ OffOK(StopWhenSent(q, f))
    BY <1>2, StopWhenSentAlike, AlikeGood, KeepsOff DEF Good
<1>4. \/ Become(StopWhenSent(q, f))
      \/ Become(StopFlow(State, f))
    BY DEF TxOff
<1>5. UNCHANGED <<setup, phase, refusals>>
    BY DEF TxOff
<1> HIDE DEF q
<1>6. Good(State)' /\ OffOK(State)'
    BY <1>1, <1>3, <1>4, BecomeGood
<1> QED
    BY <1>5, <1>6 DEF Inv

LEMMA TxQueueInv == ASSUME Inv, NEW f \in Flow, TxQueue(f) PROVE Inv'
<1> DEFINE a == IF setup[f].queue > 0 THEN AddPending(State, f) ELSE State
           s == StartOutput(a)
           r == SetTimer(s, f, ~QueueFull(s, f))
<1>1. Good(State) /\ OffOK(State) /\ State.flow[f].bound
    BY StateParts DEF Inv, TxQueue, Finished
<1>2. Good(a) /\ OffOK(a)
    BY <1>1, AddPendingGood, KeepsOff
<1>3. Become(r) /\ UNCHANGED <<setup, phase, refusals>>
    BY DEF TxQueue
<1> HIDE DEF a
<1>4. Alike(a, s) /\ s \in StateType
    BY <1>2, StartOutputAlike DEF Good, Alike
<1>5. (~QueueFull(s, f)) \in BOOLEAN
    BY DEF QueueFull
<1> HIDE DEF s
<1>6. Alike(a, r)
    BY <1>4, <1>5, SetTimerAlike, AlikeTransitive
<1>7. Good(r) /\ OffOK(r)
    BY <1>2, <1>6, AlikeGood, KeepsOff
<1> HIDE DEF r
<1>8. Good(State)' /\ OffOK(State)'
    BY <1>3, <1>7, BecomeGood
<1> QED
    BY <1>3, <1>8 DEF Inv

LEMMA CountRefusalNat ==
    ASSUME refusals \in Nat, NEW f, NEW outcome, CountRefusal(f, outcome)
    PROVE  refusals' \in Nat
BY DEF CountRefusal

LEMMA TxSendInv ==
    ASSUME Inv, NEW f \in Flow, NEW outcome, TxSend(f, outcome) PROVE Inv'
<1> DEFINE s == SendMessage(State, f, outcome)
           q == Queue(s, f)
           o == StartOutput(q)
<1>1. Good(State) /\ OffOK(State)
    BY DEF Inv
<1>2. Good(s) /\ OffOK(s) /\ s \in StateType
    BY <1>1, SendMessageGood, KeepsOff DEF Good
<1>3. \/ Become(SetTimer(o, f, FALSE))
      \/ Become(SetTimer(s, f, TRUE))
    BY DEF TxSend
<1>4. /\ setup' = setup /\ phase' = phase /\ refusals' \in Nat
    BY CountRefusalNat DEF TxSend, Inv
<1> HIDE DEF s
<1>5. Good(q) /\ OffOK(q) /\ q \in StateType
    BY <1>2, QueueGood, KeepsOff DEF Good
<1> HIDE DEF q
<1>6. Alike(q, o) /\ o \in StateType
    BY <1>5, StartOutputAlike DEF Alike
<1> HIDE DEF o
<1>7. Alike(q, SetTimer(o, f, FALSE)) /\ Alike(s, SetTimer(s, f, TRUE))
    BY <1>2, <1>6, SetTimerAlike, AlikeTransitive
<1>8. /\ Good(SetTimer(o, f, FALSE)) /\ OffOK(SetTimer(o, f, FALSE))
      /\ Good(SetTimer(s, f, TRUE)) /\ OffOK(SetTimer(s, f, TRUE))
    BY <1>2, <1>5, <1>7, AlikeGood, KeepsOff
<1>9. Good(State)' /\ OffOK(State)'
    BY <1>3, <1>8, BecomeGood
<1> QED
    BY <1>4, <1>9 DEF Inv

\* The list is changed where it stands: a flow that leaves it has nothing pending.
LEMMA RelistGood ==
    ASSUME NEW s, NEW l, Good(s), IsList(l),
           \A g \in Flow : s.flow[g].pending > 0 /\ Listed(s.list, g) => Listed(l, g)
    PROVE  Good([s EXCEPT !.list = l]) /\ Keeps(s, [s EXCEPT !.list = l])
<1> DEFINE r == [s EXCEPT !.list = l]
<1>1. s \in StateType /\ l \in PendingLists
    BY DEF Good, IsList
<1>2. r \in StateType /\ r.flow = s.flow /\ r.list = l /\ r.tr = s.tr
    BY <1>1 DEF StateType
<1> HIDE DEF r
<1>3. Users(r) = Users(s)
    BY <1>2 DEF Users
<1>4. PendingOK(r)
    BY <1>2 DEF Good, PendingOK
<1>5. ReferencesOK(r)
    BY <1>2, <1>3 DEF Good, ReferencesOK
<1>6. Good(r) /\ Keeps(s, r)
    BY <1>2, <1>4, <1>5 DEF Good, Keeps
<1> QED
    BY <1>6 DEF r

LEMMA ServeGood ==
    ASSUME NEW s, NEW f \in Flow, Good(s), OffOK(s), s.list.current = f
    PROVE  Good(Serve(s, f)) /\ OffOK(Serve(s, f))
<1> DEFINE r == IF Restarts(s, f) THEN SetTimer(s, f, TRUE) ELSE s
           leaves == r.flow[f].pending = 0 /\ ~setup[f].unlimited
           l == IF leaves THEN RemoveFromPendingList(r.list) ELSE NextPendingFlow(r.list)
<1>1. Alike(s, r)
    BY SetTimerAlike, AlikeSelf DEF Good
<1>2. Good(r) /\ OffOK(r) /\ r.list = s.list
    BY <1>1, AlikeGood, KeepsOff DEF Alike
<1>3. Serve(s, f) = [r EXCEPT !.list = l]
    BY DEF Serve
<1> HIDE DEF r
<1>4. /\ IsList(r.list) /\ r.list.current = f /\ r.list.current # NoFlow
      /\ \A g \in Flow : r.flow[g] \in FlowMembers
    BY <1>2, NoFlowIsNone DEF Good, StateType
<1>5. IsList(l) /\ \A g \in Flow : r.flow[g].pending > 0 /\ Listed(r.list, g) => Listed(l, g)
  <2>1. CASE leaves
      BY <1>4, <2>1, RemoveCurrentIsList
  <2>2. CASE ~leaves
      BY <1>4, <2>2, NextIsList
  <2> QED
      BY <2>1, <2>2
<1> HIDE DEF l
<1> QED
    BY <1>2, <1>3, <1>5, RelistGood, KeepsOff

LEMMA TurnInv == ASSUME Inv, NEW outcome, Turn(outcome) PROVE Inv'
<1> DEFINE f == list.current
           sends == flow[f].pending > 0 \/ setup[f].unlimited
           s == IF sends THEN SendMessage(State, f, outcome) ELSE State
           ended == sends /\ (~Sends(State, f) \/ outcome # "OK")
<1>1. Good(State) /\ OffOK(State)
    BY DEF Inv
<1>2. f \in Flow
  <2>1. list \in PendingLists /\ f # NoFlow
      BY <1>1, StateParts DEF Good, StateType, Turn
  <2> QED
      BY <2>1 DEF PendingLists, Pointer
<1>3. /\ Become(IF ended THEN s ELSE Serve(s, f))
      /\ phase' = IF ended THEN "idle" ELSE "loop"
      /\ setup' = setup
    BY DEF Turn
<1>4. refusals' \in Nat
    BY CountRefusalNat DEF Turn, Inv
<1>5. Good(s) /\ OffOK(s)
    BY <1>1, <1>2, SendMessageGood, KeepsOff
<1>6. ~ended => s.list.current = f
    BY <1>1, <1>2, SendMessageGood, StateParts
<1> HIDE DEF f, s, ended
<1>7. ~ended => Good(Serve(s, f)) /\ OffOK(Serve(s, f))
    BY <1>2, <1>5, <1>6, ServeGood
<1>8. Good(State)' /\ OffOK(State)'
    BY <1>3, <1>5, <1>7, BecomeGood
<1> QED
    BY <1>3, <1>4, <1>8 DEF Inv

LEMMA LoopEndsInv == ASSUME Inv, LoopEnds PROVE Inv'
<1> DEFINE t == [tr EXCEPT !.output = FALSE]
           r == [State EXCEPT !.tr = t]
<1>1. Good(State) /\ OffOK(State) /\ State \in StateType /\ tr \in TransportMembers
    BY StateParts DEF Inv, Good, StateType
<1>2. t \in TransportMembers /\ t.refs = tr.refs /\ t.open = tr.open
    BY <1>1 DEF TransportMembers
<1>3. Become(State) \/ Become([flow |-> flow, list |-> list, tr |-> t])
    BY StateParts DEF LoopEnds, Become
<1> HIDE DEF t
<1>4. r \in StateType /\ r.flow = flow /\ r.list = list /\ r.tr = t
    BY <1>1, <1>2, StateParts DEF StateType
<1>5. r = [flow |-> flow, list |-> list, tr |-> t]
    BY DEF State
<1> HIDE DEF r
<1>6. Alike(State, r)
    BY <1>2, <1>4, StateParts DEF Alike, AlikeFlow
<1>7. Good(r) /\ OffOK(r)
    BY <1>1, <1>6, AlikeGood, KeepsOff
<1>8. Good(State)' /\ OffOK(State)'
    BY <1>1, <1>3, <1>5, <1>7, BecomeGood
<1> QED
    BY <1>8 DEF LoopEnds, Inv

LEMMA StaysInv == ASSUME Inv, UNCHANGED <<setup, flow, list, tr, refusals>>,
                         phase' \in {"idle", "loop"} PROVE Inv'
<1>1. State' = State
    BY DEF State
<1> QED
    BY <1>1 DEF Inv

LEMMA NextInv == ASSUME Inv, [Next]_vars PROVE Inv'
<1>1. ASSUME NEW f \in Flow, Pause(f) \/ Off(f) PROVE Inv'
    BY <1>1, PauseInv, OffInv
<1>2. ASSUME NEW f \in Flow, NEW moved \in BOOLEAN, On(f, moved) \/ Mod(f, moved) PROVE Inv'
    BY <1>2, OnInv, ModInv
<1>3. ASSUME ScriptEvent PROVE Inv'
    BY <1>1, <1>2, <1>3 DEF ScriptEvent
<1>4. ASSUME NEW f \in Flow, TxTimeout(f) PROVE Inv'
    BY <1>4, TxFinishedInv, TxOffInv, TxQueueInv, TxSendInv DEF TxTimeout
<1>5. ASSUME OutputReady PROVE Inv'
    BY <1>5, StaysInv DEF OutputReady
<1>6. ASSUME NEW outcome, Turn(outcome) PROVE Inv'
    BY <1>6, TurnInv
<1>7. ASSUME LoopEnds PROVE Inv'
    BY <1>7, LoopEndsInv
<1>8. ASSUME UNCHANGED vars PROVE Inv'
    BY <1>8, StaysInv DEF vars, Inv
<1> QED
    BY <1>3, <1>4, <1>5, <1>6, <1>7, <1>8 DEF Next

LEMMA Invariant == Spec => []Inv
<1>1. Init => Inv
    BY InitInv
<1>2. Inv /\ [Next]_vars => Inv'
    BY NextInv
<1> QED
    BY <1>1, <1>2, PTL DEF Spec

-----------------------------------------------------------------------------
\* Whatever adds and removes flows, at any time, the pending list is a list: what
\* AppendFlow, RemoveFlow and RemoveFromPendingList promise each other.
THEOREM ListIsAlwaysLinked == Spec => []ListOK
<1>1. Inv => ListOK
    BY ListIsWellLinked, StateParts DEF Inv, Good, ListOK
<1> QED
    BY <1>1, Invariant, PTL

\* A flow with pending messages has the transport and is on its list: SendMessage
\* and OnTxTimeout never count a message that SendPendingMessage will not find.
THEOREM PendingIsAlwaysListed == Spec => []PendingIsListed
<1>1. Inv => PendingIsListed
    BY StateParts DEF Inv, Good, PendingOK, PendingIsListed
<1> QED
    BY <1>1, Invariant, PTL

\* The references are the flows that have the transport: no ON, MOD or OFF, in any
\* order, leaks one or gives one up twice, and the socket is open while there is one.
THEOREM ReferencesCountUsers == Spec => []ReferencesAreUsers
<1>1. Inv => ReferencesAreUsers
    BY StateParts DEF Inv, Good, ReferencesOK, Users, ReferencesAreUsers
<1> QED
    BY <1>1, Invariant, PTL
=============================================================================

----------------------- MODULE ProtoTimerMgr_proofs -----------------------
(***************************************************************************)
(* Theorems about ProtoTimerMgr, for any set of timers, any intervals and  *)
(* any bounds.                                                             *)
(***************************************************************************)
EXTENDS ProtoTimerMgr, SequencesExt, SequenceTheorems, WellFoundedInduction, TLAPS

-----------------------------------------------------------------------------
(* Inserting into and removing from a sequence.                            *)

\* A nonempty set of natural numbers has a least element.
LEMMA LeastNatural ==
    ASSUME NEW T \in SUBSET Nat, T # {}
    PROVE  \E n \in T : \A k \in T : n <= k
<1> DEFINE R == OpToRel(<, Nat)
<1>1. IsWellFoundedOn(R, Nat)
  BY NatLessThanWellFounded
<1>2. \E x \in T : \A y \in T : <<y, x>> \notin R
  BY <1>1, WFMin
<1>3. \A x, y \in Nat : <<y, x>> \notin R => x <= y
  BY DEF OpToRel
<1> QED
  BY <1>2, <1>3

\* InsertAt moves the entries from position i on up by one.
LEMMA InsertAtProperties ==
    ASSUME NEW S, NEW s \in Seq(S), NEW i \in 1..(Len(s) + 1), NEW e \in S
    PROVE  /\ InsertAt(s, i, e) \in Seq(S)
           /\ Len(InsertAt(s, i, e)) = Len(s) + 1
           /\ \A j \in 1..(Len(s) + 1) :
                InsertAt(s, i, e)[j] =
                    IF j < i THEN s[j] ELSE IF j = i THEN e ELSE s[j - 1]
<1> DEFINE a == SubSeq(s, 1, i - 1)
           b == <<e>>
           c == SubSeq(s, i, Len(s))
           ab == a \o b
<1>1. Len(s) \in Nat /\ \A j \in 1..Len(s) : s[j] \in S
  OBVIOUS
<1>2. a \in Seq(S) /\ Len(a) = i - 1 /\ \A j \in 1..(i - 1) : a[j] = s[j]
  BY <1>1
<1>3. c \in Seq(S) /\ Len(c) = Len(s) - i + 1
         /\ \A j \in 1..(Len(s) - i + 1) : c[j] = s[i + j - 1]
  BY <1>1
<1>4. b \in Seq(S) /\ Len(b) = 1 /\ b[1] = e
  OBVIOUS
<1> HIDE DEF a, b, c
<1>5. ab \in Seq(S) /\ Len(ab) = i
         /\ \A j \in 1..i : ab[j] = IF j < i THEN s[j] ELSE e
  <2>1. /\ ab \in Seq(S)
        /\ Len(ab) = Len(a) + Len(b)
        /\ \A j \in 1..(Len(a) + Len(b)) :
              ab[j] = IF j <= Len(a) THEN a[j] ELSE b[j - Len(a)]
    BY <1>2, <1>4, ConcatProperties
  <2> QED
    BY <2>1, <1>1, <1>2, <1>4
<1> HIDE DEF ab
<1>6. /\ ab \o c \in Seq(S)
      /\ Len(ab \o c) = Len(ab) + Len(c)
      /\ \A j \in 1..(Len(ab) + Len(c)) :
            (ab \o c)[j] = IF j <= Len(ab) THEN ab[j] ELSE c[j - Len(ab)]
  BY <1>3, <1>5, ConcatProperties
<1>7. /\ Len(ab \o c) = Len(s) + 1
      /\ \A j \in 1..(Len(s) + 1) :
            (ab \o c)[j] = IF j < i THEN s[j] ELSE IF j = i THEN e ELSE s[j - 1]
  BY <1>1, <1>3, <1>5, <1>6
<1> QED
  BY <1>6, <1>7 DEF InsertAt, ab, a, b, c

\* RemoveAt moves the entries behind position i down by one.
LEMMA RemoveAtProperties ==
    ASSUME NEW S, NEW s \in Seq(S), NEW i \in 1..Len(s)
    PROVE  /\ RemoveAt(s, i) \in Seq(S)
           /\ Len(RemoveAt(s, i)) = Len(s) - 1
           /\ \A j \in 1..(Len(s) - 1) :
                RemoveAt(s, i)[j] = IF j < i THEN s[j] ELSE s[j + 1]
<1> DEFINE a == SubSeq(s, 1, i - 1)
           c == SubSeq(s, i + 1, Len(s))
<1>1. Len(s) \in Nat /\ \A j \in 1..Len(s) : s[j] \in S
  OBVIOUS
<1>2. a \in Seq(S) /\ Len(a) = i - 1 /\ \A j \in 1..(i - 1) : a[j] = s[j]
  BY <1>1
<1>3. c \in Seq(S) /\ Len(c) = Len(s) - i
         /\ \A j \in 1..(Len(s) - i) : c[j] = s[i + j]
  BY <1>1
<1> HIDE DEF a, c
<1> DEFINE r == a \o c
<1>4. /\ r \in Seq(S)
      /\ Len(r) = Len(a) + Len(c)
      /\ \A j \in 1..(Len(a) + Len(c)) :
            r[j] = IF j <= Len(a) THEN a[j] ELSE c[j - Len(a)]
  BY <1>2, <1>3, ConcatProperties
<1> HIDE DEF r
<1>5. Len(a) + Len(c) = Len(s) - 1
  BY <1>1, <1>2, <1>3
<1>6. ASSUME NEW j \in 1..(Len(s) - 1)
      PROVE  r[j] = IF j < i THEN s[j] ELSE s[j + 1]
  <2>1. r[j] = IF j <= i - 1 THEN a[j] ELSE c[j - (i - 1)]
    BY <1>2, <1>4, <1>5
  <2>2. CASE j < i
    BY <2>1, <2>2, <1>1, <1>2
  <2>3. CASE ~(j < i)
    <3>1. j - (i - 1) \in 1..(Len(s) - i)
      BY <2>3, <1>1
    <3>2. i + (j - (i - 1)) = j + 1
      BY <1>1
    <3>3. c[j - (i - 1)] = s[j + 1]
      BY <3>1, <3>2, <1>3
    <3> QED
      BY <2>1, <2>3, <3>3, <1>1
  <2> QED
    BY <2>2, <2>3
<1> QED
  BY <1>4, <1>5, <1>6 DEF RemoveAt, r, a, c

-----------------------------------------------------------------------------
(* The list operations.                                                    *)

\* The search of InsertShortTimer and InsertLongTimer finds a place.
LEMMA PositionExists ==
    ASSUME NEW S, NEW s \in Seq(S), NEW x, NEW timeout,
           timeout[x] \in Int, \A y \in S : timeout[y] \in Int
    PROVE  /\ Position(s, x, timeout) \in 1..(Len(s) + 1)
           /\ \A j \in 1..(Position(s, x, timeout) - 1) : timeout[s[j]] < timeout[x]
           /\ Position(s, x, timeout) <= Len(s) =>
                timeout[x] <= timeout[s[Position(s, x, timeout)]]
<1> DEFINE T == {n \in 1..(Len(s) + 1) : n <= Len(s) => timeout[x] <= timeout[s[n]]}
<1>1. Len(s) \in Nat /\ \A j \in 1..Len(s) : timeout[s[j]] \in Int
  OBVIOUS
<1>2. T \in SUBSET Nat /\ Len(s) + 1 \in T
  BY <1>1
<1>3. PICK i \in T : \A k \in T : i <= k
  BY <1>2, LeastNatural
<1>4. \A j \in 1..(i - 1) : timeout[s[j]] < timeout[x]
  <2> SUFFICES ASSUME NEW j \in 1..(i - 1) PROVE timeout[s[j]] < timeout[x]
    OBVIOUS
  <2>1. j \in 1..Len(s) /\ j \notin T
    BY <1>1, <1>3
  <2> QED
    BY <2>1, <1>1
<1>5. i \in 1..(Len(s) + 1) /\ (i <= Len(s) => timeout[x] <= timeout[s[i]])
  BY <1>3
<1> QED
  BY <1>4, <1>5 DEF Position

\* A sorted list stays sorted and without duplicates.
LEMMA InsertSortedProperties ==
    ASSUME NEW S, NEW s \in Seq(S), NEW x \in S, x \notin ToSet(s), NEW timeout,
           \A y \in S : timeout[y] \in Int,
           IsInjective(s), SortedBy(s, timeout)
    PROVE  /\ InsertSorted(s, x, timeout) \in Seq(S)
           /\ InsertSorted(s, x, timeout) # <<>>
           /\ ToSet(InsertSorted(s, x, timeout)) = ToSet(s) \cup {x}
           /\ IsInjective(InsertSorted(s, x, timeout))
           /\ SortedBy(InsertSorted(s, x, timeout), timeout)
<1> DEFINE i == Position(s, x, timeout)
           r == InsertSorted(s, x, timeout)
<1>1. /\ i \in 1..(Len(s) + 1)
      /\ \A j \in 1..(i - 1) : timeout[s[j]] < timeout[x]
      /\ i <= Len(s) => timeout[x] <= timeout[s[i]]
  BY PositionExists
<1> HIDE DEF i
<1>2. /\ r \in Seq(S)
      /\ Len(r) = Len(s) + 1
      /\ \A j \in 1..(Len(s) + 1) :
            r[j] = IF j < i THEN s[j] ELSE IF j = i THEN x ELSE s[j - 1]
  <2>1. r = InsertAt(s, i, x)
    BY DEF InsertSorted, i
  <2>2. i \in 1..(Len(s) + 1)
    BY <1>1
  <2>3. /\ InsertAt(s, i, x) \in Seq(S)
        /\ Len(InsertAt(s, i, x)) = Len(s) + 1
        /\ \A j \in 1..(Len(s) + 1) :
              InsertAt(s, i, x)[j] =
                  IF j < i THEN s[j] ELSE IF j = i THEN x ELSE s[j - 1]
    BY <2>2, InsertAtProperties
  <2> HIDE DEF r
  <2> QED
    BY <2>1, <2>3
<1> HIDE DEF r
<1>3. /\ Len(s) \in Nat /\ DOMAIN s = 1..Len(s) /\ DOMAIN r = 1..(Len(s) + 1)
      /\ \A j \in 1..Len(s) : s[j] \in S /\ timeout[s[j]] \in Int
      /\ \A j, k \in 1..Len(s) : s[j] = s[k] => j = k
      /\ \A j \in 1..Len(s) : s[j] # x
      /\ \A j, k \in 1..Len(s) : j < k => timeout[s[j]] <= timeout[s[k]]
  BY <1>2 DEF IsInjective, ToSet, SortedBy
<1>4. r # <<>>
  BY <1>2, <1>3
<1>5. ToSet(r) = ToSet(s) \cup {x}
  <2>1. ASSUME NEW j \in 1..(Len(s) + 1) PROVE r[j] \in ToSet(s) \cup {x}
    <3>1. j < i => j \in 1..Len(s)
      BY <1>1, <1>3
    <3>2. j > i => j - 1 \in 1..Len(s)
      BY <1>1, <1>3
    <3>3. \A k \in 1..Len(s) : s[k] \in ToSet(s)
      BY <1>3 DEF ToSet
    <3> QED
      BY <3>1, <3>2, <3>3, <1>1, <1>2
  <2>2. ASSUME NEW j \in 1..Len(s) PROVE s[j] \in ToSet(r)
    <3>1. CASE j < i
      BY <3>1, <1>1, <1>2, <1>3 DEF ToSet
    <3>2. CASE ~(j < i)
      <4>1. j + 1 \in 1..(Len(s) + 1) /\ r[j + 1] = s[j]
        BY <3>2, <1>1, <1>2, <1>3
      <4> QED
        BY <4>1, <1>3 DEF ToSet
    <3> QED
      BY <3>1, <3>2
  <2>3. x \in ToSet(r)
    BY <1>1, <1>2, <1>3 DEF ToSet
  <2> QED
    BY <2>1, <2>2, <2>3, <1>3 DEF ToSet
<1>6. IsInjective(r)
  BY <1>1, <1>2, <1>3 DEF IsInjective
<1>7. SortedBy(r, timeout)
  <2> SUFFICES ASSUME NEW j \in 1..(Len(s) + 1), NEW k \in 1..(Len(s) + 1), j < k
               PROVE  timeout[r[j]] <= timeout[r[k]]
    BY <1>2 DEF SortedBy
  <2>1. CASE k < i
    BY <2>1, <1>1, <1>2, <1>3
  <2>2. CASE k = i
    BY <2>2, <1>1, <1>2, <1>3
  <2>3. CASE k > i /\ j < i
    <3>1. r[j] = s[j] /\ r[k] = s[k - 1] /\ k - 1 \in 1..Len(s) /\ j \in 1..Len(s) /\ j < k - 1
      BY <2>3, <1>1, <1>2, <1>3
    <3> QED
      BY <3>1, <1>3
  <2>4. CASE k > i /\ j = i
    <3>1. r[j] = x /\ r[k] = s[k - 1]
      BY <2>4, <1>1, <1>2
    <3>2. k - 1 \in 1..Len(s) /\ i \in 1..Len(s) /\ (i = k - 1 \/ i < k - 1)
      BY <2>4, <1>1, <1>3
    <3>3. timeout[s[i]] <= timeout[s[k - 1]]
      <4>1. timeout[s[i]] \in Int
        BY <3>2, <1>3
      <4> QED
        BY <3>2, <4>1, <1>3
    <3>4. timeout[x] <= timeout[s[i]]
      BY <3>2, <1>1
    <3>5. timeout[s[i]] \in Int /\ timeout[s[k - 1]] \in Int /\ timeout[x] \in Int
      BY <3>2, <1>3
    <3> QED
      BY <3>1, <3>3, <3>4, <3>5
  <2>5. CASE k > i /\ j > i
    <3>1. r[j] = s[j - 1] /\ r[k] = s[k - 1] /\ k - 1 \in 1..Len(s) /\ j - 1 \in 1..Len(s) /\ j - 1 < k - 1
      BY <2>5, <1>1, <1>2, <1>3
    <3> QED
      BY <3>1, <1>3
  <2> QED
    BY <2>1, <2>2, <2>3, <2>4, <2>5, <1>1
<1> QED
  BY <1>2, <1>4, <1>5, <1>6, <1>7 DEF r

\* Unlinking a timer takes that timer out and no other.
LEMMA UnlinkProperties ==
    ASSUME NEW S, NEW s \in Seq(S), NEW x \in ToSet(s), NEW timeout,
           IsInjective(s), SortedBy(s, timeout)
    PROVE  /\ Unlink(s, x) \in Seq(S)
           /\ ToSet(Unlink(s, x)) = ToSet(s) \ {x}
           /\ IsInjective(Unlink(s, x))
           /\ SortedBy(Unlink(s, x), timeout)
<1> DEFINE i == CHOOSE i \in 1..Len(s) : s[i] = x
           r == Unlink(s, x)
<1>1. i \in 1..Len(s) /\ s[i] = x
  BY DEF ToSet
<1> HIDE DEF i
<1>2. /\ r \in Seq(S)
      /\ Len(r) = Len(s) - 1
      /\ \A j \in 1..(Len(s) - 1) : r[j] = IF j < i THEN s[j] ELSE s[j + 1]
  BY <1>1, RemoveAtProperties DEF Unlink, i
<1> HIDE DEF r
<1>3. /\ Len(s) \in Nat /\ DOMAIN s = 1..Len(s) /\ DOMAIN r = 1..(Len(s) - 1)
      /\ \A j, k \in 1..Len(s) : s[j] = s[k] => j = k
      /\ \A j, k \in 1..Len(s) : j < k => timeout[s[j]] <= timeout[s[k]]
  BY <1>2 DEF IsInjective, SortedBy
<1>4. ToSet(r) = ToSet(s) \ {x}
  <2>1. ASSUME NEW j \in 1..(Len(s) - 1) PROVE r[j] \in ToSet(s) \ {x}
    <3>1. j \in 1..Len(s) /\ j + 1 \in 1..Len(s)
      BY <1>3
    <3>2. CASE j < i
      <4>1. r[j] = s[j] /\ s[j] # x
        BY <3>1, <3>2, <1>1, <1>2, <1>3
      <4> QED
        BY <4>1, <3>1, <1>3 DEF ToSet
    <3>3. CASE ~(j < i)
      <4>1. r[j] = s[j + 1] /\ s[j + 1] # x
        BY <3>1, <3>3, <1>1, <1>2, <1>3
      <4> QED
        BY <4>1, <3>1, <1>3 DEF ToSet
    <3> QED
      BY <3>2, <3>3
  <2>2. ASSUME NEW j \in 1..Len(s), s[j] # x PROVE s[j] \in ToSet(r)
    <3>1. CASE j < i
      <4>1. j \in 1..(Len(s) - 1) /\ r[j] = s[j]
        BY <3>1, <1>1, <1>2, <1>3
      <4> QED
        BY <4>1, <1>3 DEF ToSet
    <3>2. CASE j > i
      <4>1. j - 1 \in 1..(Len(s) - 1) /\ r[j - 1] = s[j]
        BY <3>2, <1>1, <1>2, <1>3
      <4> QED
        BY <4>1, <1>3 DEF ToSet
    <3> QED
      BY <3>1, <3>2, <2>2, <1>1, <1>3
  <2> QED
    BY <2>1, <2>2, <1>3 DEF ToSet
<1>5. IsInjective(r)
  BY <1>1, <1>2, <1>3 DEF IsInjective
<1>6. SortedBy(r, timeout)
  <2> SUFFICES ASSUME NEW j \in 1..(Len(s) - 1), NEW k \in 1..(Len(s) - 1), j < k
               PROVE  timeout[r[j]] <= timeout[r[k]]
    BY <1>2 DEF SortedBy
  <2>1. CASE k < i
    BY <2>1, <1>1, <1>2, <1>3
  <2>2. CASE j < i /\ ~(k < i)
    <3>1. r[j] = s[j] /\ r[k] = s[k + 1] /\ j \in 1..Len(s) /\ k + 1 \in 1..Len(s) /\ j < k + 1
      BY <2>2, <1>1, <1>2, <1>3
    <3> QED
      BY <3>1, <1>3
  <2>3. CASE ~(j < i)
    <3>1. r[j] = s[j + 1] /\ r[k] = s[k + 1] /\ j + 1 \in 1..Len(s) /\ k + 1 \in 1..Len(s) /\ j + 1 < k + 1
      BY <2>3, <1>1, <1>2, <1>3
    <3> QED
      BY <3>1, <1>3
  <2> QED
    BY <2>1, <2>2, <2>3
<1> QED
  BY <1>2, <1>4, <1>5, <1>6 DEF r

-----------------------------------------------------------------------------
(* The operations of ProtoTimerMgr on its lists.                           *)

Active(m) == ToSet(m.short) \cup ToSet(m.long)
Good(m) == m \in Mgr /\ ListsOf(m)
PulseWithLong(m) == Pulse \in ToSet(m.short) <=> m.long # <<>>

\* Apart from x, the lists m and r hold the same user timers.
SameBut(m, r, x) ==
    \A y \in Timers \ {x} :
        /\ y \in ToSet(r.short) <=> y \in ToSet(m.short)
        /\ y \in ToSet(r.long) <=> y \in ToSet(m.long)
        /\ r.timeout[y] = m.timeout[y]

\* The fields of a manager's lists.
LEMMA MgrFields ==
    ASSUME NEW m \in Mgr
    PROVE  /\ m.short \in Seq(AllTimers) /\ m.long \in Seq(Timers)
           /\ m.timeout \in [AllTimers -> Int] /\ m.pulseMark \in Int
           /\ ToSet(m.short) \subseteq AllTimers
           /\ ToSet(m.long) \subseteq Timers
           /\ Pulse \notin ToSet(m.long)
           /\ (m.long = <<>> <=> ToSet(m.long) = {})
           /\ (m.short = <<>> <=> ToSet(m.short) = {})
<1>1. /\ m.short \in Seq(AllTimers) /\ m.long \in Seq(Timers)
      /\ m.timeout \in [AllTimers -> Int] /\ m.pulseMark \in Int
  BY DEF Mgr
<1>2. ToSet(m.short) \subseteq AllTimers /\ ToSet(m.long) \subseteq Timers
  BY <1>1 DEF ToSet
<1>3. ASSUME NEW S, NEW s \in Seq(S) PROVE s = <<>> <=> ToSet(s) = {}
  <2>1. s # <<>> => Len(s) \in Nat \ {0}
    BY EmptySeq
  <2>2. s # <<>> => s[1] \in ToSet(s)
    BY <2>1 DEF ToSet
  <2>3. s = <<>> => ToSet(s) = {}
    BY DEF ToSet
  <2> QED
    BY <2>2, <2>3
<1> QED
  BY <1>1, <1>2, <1>3, PulseAssumption

\* Changing the timeout of a timer that is in neither list disturbs neither.
LEMMA SetTimeoutProperties ==
    ASSUME NEW m, Good(m), NEW x \in AllTimers, x \notin Active(m), NEW at \in Int,
           NEW timeout, timeout = [m.timeout EXCEPT ![x] = at]
    PROVE  /\ timeout \in [AllTimers -> Int]
           /\ \A y \in AllTimers : timeout[y] \in Int
           /\ timeout[x] = at
           /\ \A y \in AllTimers \ {x} : timeout[y] = m.timeout[y]
           /\ SortedBy(m.short, timeout)
           /\ SortedBy(m.long, timeout)
<1>1. m \in Mgr /\ ListsOf(m)
  BY DEF Good
<1>2. /\ timeout \in [AllTimers -> Int]
      /\ timeout[x] = at
      /\ \A y \in AllTimers \ {x} : timeout[y] = m.timeout[y]
  BY <1>1, MgrFields
<1>3. ASSUME NEW s, ToSet(s) \subseteq AllTimers, x \notin ToSet(s), SortedBy(s, m.timeout),
             s \in Seq(AllTimers)
      PROVE  SortedBy(s, timeout)
  <2>1. \A j \in 1..Len(s) : s[j] \in ToSet(s)
    BY <1>3 DEF ToSet
  <2>2. \A j \in 1..Len(s) : timeout[s[j]] = m.timeout[s[j]]
    BY <2>1, <1>2, <1>3
  <2> QED
    BY <2>2, <1>3 DEF SortedBy
<1>4. m.long \in Seq(AllTimers)
  BY <1>1, MgrFields, SeqMonotonic DEF AllTimers
<1>5. SortedBy(m.short, timeout) /\ SortedBy(m.long, timeout)
  BY <1>1, <1>3, <1>4, MgrFields DEF Active, ListsOf, AllTimers
<1> QED
  BY <1>2, <1>5

\* InsertShortTimer links a timer that is in neither list.
LEMMA InsertShortProperties ==
    ASSUME NEW m, Good(m), NEW x \in AllTimers, x \notin Active(m), NEW at \in Int,
           NEW r, r = InsertShortTimer(m, x, at)
    PROVE  /\ Good(r)
           /\ ToSet(r.short) = ToSet(m.short) \cup {x}
           /\ r.long = m.long
           /\ r.pulseMark = m.pulseMark
           /\ r.timeout[x] = at
           /\ \A y \in AllTimers \ {x} : r.timeout[y] = m.timeout[y]
<1> DEFINE timeout == [m.timeout EXCEPT ![x] = at]
           short == InsertSorted(m.short, x, timeout)
<1>1. /\ timeout \in [AllTimers -> Int]
      /\ \A y \in AllTimers : timeout[y] \in Int
      /\ timeout[x] = at
      /\ \A y \in AllTimers \ {x} : timeout[y] = m.timeout[y]
      /\ SortedBy(m.short, timeout)
      /\ SortedBy(m.long, timeout)
  BY SetTimeoutProperties
<1>2. m \in Mgr /\ ListsOf(m) /\ m.short \in Seq(AllTimers) /\ m.long \in Seq(Timers)
  BY MgrFields DEF Good
<1>3. r = [m EXCEPT !.timeout = timeout, !.short = short]
  BY DEF InsertShortTimer
<1> HIDE DEF timeout
<1>4. /\ short \in Seq(AllTimers)
      /\ ToSet(short) = ToSet(m.short) \cup {x}
      /\ IsInjective(short)
      /\ SortedBy(short, timeout)
  <2>1. x \notin ToSet(m.short) /\ IsInjective(m.short)
    BY <1>2 DEF Active, ListsOf
  <2> QED
    BY <2>1, <1>1, <1>2, InsertSortedProperties
<1> HIDE DEF short
<1>5. /\ r.short = short /\ r.long = m.long /\ r.timeout = timeout
      /\ r.pulseMark = m.pulseMark
      /\ r \in Mgr
  BY <1>1, <1>2, <1>3, <1>4 DEF Mgr
<1>6. ListsOf(r)
  BY <1>1, <1>2, <1>4, <1>5 DEF ListsOf, Active
<1> QED
  BY <1>1, <1>4, <1>5, <1>6 DEF Good

\* InsertLongTimer likewise, for the user's timers.
LEMMA InsertLongProperties ==
    ASSUME NEW m, Good(m), NEW x \in Timers, x \notin Active(m), NEW at \in Int,
           NEW r, r = InsertLongTimer(m, x, at)
    PROVE  /\ Good(r)
           /\ ToSet(r.long) = ToSet(m.long) \cup {x}
           /\ r.long # <<>>
           /\ r.short = m.short
           /\ r.pulseMark = m.pulseMark
           /\ r.timeout[x] = at
           /\ \A y \in AllTimers \ {x} : r.timeout[y] = m.timeout[y]
<1> DEFINE timeout == [m.timeout EXCEPT ![x] = at]
           long == InsertSorted(m.long, x, timeout)
<1>0. x \in AllTimers
  BY DEF AllTimers
<1>1. /\ timeout \in [AllTimers -> Int]
      /\ \A y \in AllTimers : timeout[y] \in Int
      /\ timeout[x] = at
      /\ \A y \in AllTimers \ {x} : timeout[y] = m.timeout[y]
      /\ SortedBy(m.short, timeout)
      /\ SortedBy(m.long, timeout)
  BY <1>0, SetTimeoutProperties
<1>2. m \in Mgr /\ ListsOf(m) /\ m.short \in Seq(AllTimers) /\ m.long \in Seq(Timers)
  BY MgrFields DEF Good
<1>3. r = [m EXCEPT !.timeout = timeout, !.long = long]
  BY DEF InsertLongTimer
<1> HIDE DEF timeout
<1>4. /\ long \in Seq(Timers)
      /\ long # <<>>
      /\ ToSet(long) = ToSet(m.long) \cup {x}
      /\ IsInjective(long)
      /\ SortedBy(long, timeout)
  <2>1. x \notin ToSet(m.long) /\ IsInjective(m.long)
    BY <1>2 DEF Active, ListsOf
  <2>2. \A y \in Timers : timeout[y] \in Int
    BY <1>1 DEF AllTimers
  <2> QED
    BY <2>1, <2>2, <1>1, <1>2, InsertSortedProperties
<1> HIDE DEF long
<1>5. /\ r.long = long /\ r.short = m.short /\ r.timeout = timeout
      /\ r.pulseMark = m.pulseMark
      /\ r \in Mgr
  BY <1>1, <1>2, <1>3, <1>4 DEF Mgr
<1>6. ListsOf(r)
  BY <1>1, <1>2, <1>4, <1>5 DEF ListsOf, Active
<1> QED
  BY <1>1, <1>4, <1>5, <1>6 DEF Good

\* RemoveShortTimer and RemoveLongTimer take one timer out.
LEMMA RemoveShortProperties ==
    ASSUME NEW m, Good(m), NEW x \in ToSet(m.short),
           NEW r, r = RemoveShortTimer(m, x)
    PROVE  /\ Good(r)
           /\ ToSet(r.short) = ToSet(m.short) \ {x}
           /\ r.long = m.long
           /\ r.pulseMark = m.pulseMark
           /\ r.timeout = m.timeout
           /\ x \notin Active(r)
<1> DEFINE short == Unlink(m.short, x)
<1>1. m \in Mgr /\ ListsOf(m) /\ m.short \in Seq(AllTimers)
  BY MgrFields DEF Good
<1>2. /\ short \in Seq(AllTimers)
      /\ ToSet(short) = ToSet(m.short) \ {x}
      /\ IsInjective(short)
      /\ SortedBy(short, m.timeout)
  BY <1>1, UnlinkProperties DEF ListsOf
<1>3. r = [m EXCEPT !.short = short]
  BY DEF RemoveShortTimer
<1> HIDE DEF short
<1>4. /\ r.short = short /\ r.long = m.long /\ r.timeout = m.timeout
      /\ r.pulseMark = m.pulseMark
      /\ r \in Mgr
  BY <1>1, <1>2, <1>3 DEF Mgr
<1>5. ListsOf(r)
  BY <1>1, <1>2, <1>4 DEF ListsOf
<1> QED
  BY <1>1, <1>2, <1>4, <1>5 DEF Good, Active, ListsOf

LEMMA RemoveLongProperties ==
    ASSUME NEW m, Good(m), NEW x \in ToSet(m.long),
           NEW r, r = RemoveLongTimer(m, x)
    PROVE  /\ Good(r)
           /\ ToSet(r.long) = ToSet(m.long) \ {x}
           /\ r.short = m.short
           /\ r.pulseMark = m.pulseMark
           /\ r.timeout = m.timeout
           /\ x \notin Active(r)
<1> DEFINE long == Unlink(m.long, x)
<1>1. m \in Mgr /\ ListsOf(m) /\ m.long \in Seq(Timers)
  BY MgrFields DEF Good
<1>2. /\ long \in Seq(Timers)
      /\ ToSet(long) = ToSet(m.long) \ {x}
      /\ IsInjective(long)
      /\ SortedBy(long, m.timeout)
  BY <1>1, UnlinkProperties DEF ListsOf
<1>3. r = [m EXCEPT !.long = long]
  BY DEF RemoveLongTimer
<1> HIDE DEF long
<1>4. /\ r.long = long /\ r.short = m.short /\ r.timeout = m.timeout
      /\ r.pulseMark = m.pulseMark
      /\ r \in Mgr
  BY <1>1, <1>2, <1>3 DEF Mgr
<1>5. ListsOf(r)
  BY <1>1, <1>2, <1>4 DEF ListsOf
<1> QED
  BY <1>1, <1>2, <1>4, <1>5 DEF Good, Active, ListsOf

\* The pulse runs afterwards; the user's timers stay where they are.
LEMMA ActivatePulseProperties ==
    ASSUME NEW m, Good(m), NEW t \in Int,
           NEW p, p = ActivatePulse(m, t)
    PROVE  /\ Good(p) /\ p.long = m.long
           /\ Pulse \in ToSet(p.short)
           /\ \A y \in Timers : /\ y \in ToSet(p.short) <=> y \in ToSet(m.short)
                                /\ p.timeout[y] = m.timeout[y]
<1>1. m \in Mgr /\ Pulse \notin ToSet(m.long) /\ Pulse \in AllTimers /\ PulseInterval \in Nat
  BY MgrFields, TimeAssumption DEF Good, AllTimers
<1>2. CASE Pulse \in ToSet(m.short)
  BY <1>2 DEF ActivatePulse, IsActive
<1>3. CASE Pulse \notin ToSet(m.short)
  <2>1. PICK started : started = [m EXCEPT !.pulseMark = t]
    OBVIOUS
  <2>2. /\ started.short = m.short /\ started.long = m.long
        /\ started.timeout = m.timeout /\ started \in Mgr
    BY <1>1, <2>1 DEF Mgr
  <2>3. Good(started) /\ Pulse \notin Active(started)
    BY <1>1, <1>3, <2>2 DEF Good, ListsOf, Active
  <2>4. p = InsertShortTimer(started, Pulse, t + PulseInterval) /\ t + PulseInterval \in Int
    BY <1>1, <1>3, <2>1 DEF ActivatePulse, IsActive
  <2>5. /\ Good(p) /\ ToSet(p.short) = ToSet(started.short) \cup {Pulse}
        /\ p.long = started.long
        /\ \A y \in AllTimers \ {Pulse} : p.timeout[y] = started.timeout[y]
    BY <1>1, <2>3, <2>4, InsertShortProperties
  <2> QED
    BY <2>2, <2>5, PulseAssumption DEF AllTimers
<1> QED
  BY <1>2, <1>3

\* A user's timer is linked in the long list while the pulse runs.
LEMMA LinkLongProperties ==
    ASSUME NEW p, Good(p), Pulse \in ToSet(p.short), NEW x \in Timers, x \notin Active(p),
           NEW at \in Int,
           NEW r, r = InsertLongTimer(p, x, at)
    PROVE  /\ Good(r) /\ PulseWithLong(r)
           /\ x \in Active(r)
           /\ SameBut(p, r, x)
<1>1. /\ Good(r)
      /\ ToSet(r.long) = ToSet(p.long) \cup {x} /\ r.long # <<>>
      /\ r.short = p.short
      /\ \A y \in AllTimers \ {x} : r.timeout[y] = p.timeout[y]
  BY InsertLongProperties
<1> QED
  BY <1>1 DEF PulseWithLong, Active, SameBut, AllTimers

\* A long timer is linked, and the pulse runs afterwards.
LEMMA ActivateLongProperties ==
    ASSUME NEW m, Good(m), NEW x \in Timers, x \notin Active(m),
           NEW i \in Int, NEW t \in Int,
           NEW r, r = ActivateLongTimer(m, x, i, t)
    PROVE  /\ Good(r) /\ PulseWithLong(r)
           /\ x \in Active(r)
           /\ SameBut(m, r, x)
<1>1. PICK p : /\ p = ActivatePulse(m, t)
               /\ r = InsertLongTimer(p, x, GetPulseTime(p, t) + i)
  BY DEF ActivateLongTimer
<1>2. /\ Good(p) /\ p.long = m.long
      /\ Pulse \in ToSet(p.short)
      /\ \A y \in Timers : /\ y \in ToSet(p.short) <=> y \in ToSet(m.short)
                           /\ p.timeout[y] = m.timeout[y]
  BY <1>1, ActivatePulseProperties
<1>3. GetPulseTime(p, t) + i \in Int
  <2>1. p \in Mgr /\ Pulse \in AllTimers /\ PulseInterval \in Int
    BY <1>2, TimeAssumption DEF Good, AllTimers
  <2>2. p.pulseMark \in Int /\ p.timeout[Pulse] \in Int
    BY <2>1, MgrFields
  <2>3. GetTimeRemaining(p, Pulse, t) \in Int
    BY <2>2 DEF GetTimeRemaining, MaxOf
  <2>4. GetPulseTime(p, t) \in Int
    BY <2>1, <2>2, <2>3 DEF GetPulseTime
  <2> QED
    BY <2>4
<1>4. x \notin Active(p)
  BY <1>2 DEF Active
<1>5. Good(r) /\ PulseWithLong(r) /\ x \in Active(r) /\ SameBut(p, r, x)
  BY <1>1, <1>2, <1>3, <1>4, LinkLongProperties
<1>6. SameBut(m, r, x)
  BY <1>2, <1>5 DEF SameBut
<1> QED
  BY <1>5, <1>6

\* A user's timer is linked in the short list.
LEMMA LinkShortProperties ==
    ASSUME NEW m, Good(m), PulseWithLong(m), NEW x \in Timers, x \notin Active(m),
           NEW at \in Int,
           NEW r, r = InsertShortTimer(m, x, at)
    PROVE  /\ Good(r) /\ PulseWithLong(r)
           /\ x \in Active(r)
           /\ SameBut(m, r, x)
           /\ x \in ToSet(r.short) /\ r.timeout[x] = at
<1>1. x \in AllTimers /\ x # Pulse
  BY PulseAssumption DEF AllTimers
<1>2. /\ Good(r)
      /\ ToSet(r.short) = ToSet(m.short) \cup {x}
      /\ r.long = m.long
      /\ r.timeout[x] = at
      /\ \A y \in AllTimers \ {x} : r.timeout[y] = m.timeout[y]
  BY <1>1, InsertShortProperties
<1> QED
  BY <1>1, <1>2 DEF PulseWithLong, Active, SameBut, AllTimers

\* ActivateTimer; a short timer is due after its interval.
LEMMA ActivateProperties ==
    ASSUME NEW m, Good(m), PulseWithLong(m), NEW x \in Timers, x \notin Active(m),
           NEW i \in Int, NEW t \in Int,
           NEW r, r = ActivateTimer(m, x, i, t)
    PROVE  /\ Good(r) /\ PulseWithLong(r)
           /\ x \in Active(r)
           /\ SameBut(m, r, x)
           /\ i < PrecisionThreshold => x \in ToSet(r.short) /\ r.timeout[x] = t + i
<1>1. CASE i < PrecisionThreshold
  <2>1. r = InsertShortTimer(m, x, t + i) /\ t + i \in Int
    BY <1>1 DEF ActivateTimer
  <2> QED
    BY <2>1, LinkShortProperties
<1>2. CASE ~(i < PrecisionThreshold)
  BY <1>2, ActivateLongProperties DEF ActivateTimer
<1> QED
  BY <1>1, <1>2

\* ReactivateTimer; a short timer is due a full interval after its last
\* timeout, or later.
LEMMA ReactivateProperties ==
    ASSUME NEW m, Good(m), PulseWithLong(m), NEW x \in Timers, x \notin Active(m),
           NEW i \in Int, NEW t \in Int, NEW latched \in Int, latched <= t,
           NEW r, r = ReactivateTimer(m, x, i, t, latched)
    PROVE  /\ Good(r) /\ PulseWithLong(r)
           /\ x \in Active(r)
           /\ SameBut(m, r, x)
           /\ i < PrecisionThreshold => /\ x \in ToSet(r.short)
                                        /\ r.timeout[x] >= m.timeout[x] + i
<1>0. m.timeout[x] \in Int
  BY MgrFields DEF Good, AllTimers
<1>1. CASE i < PrecisionThreshold
  <2>1. CASE m.timeout[x] + i < latched
    <3>1. r = InsertShortTimer(m, x, t)
      BY <1>1, <2>1 DEF ReactivateTimer
    <3>2. /\ Good(r) /\ PulseWithLong(r)
          /\ x \in Active(r)
          /\ SameBut(m, r, x)
          /\ x \in ToSet(r.short) /\ r.timeout[x] = t
      BY <3>1, LinkShortProperties
    <3> QED
      BY <3>2, <2>1, <1>0
  <2>2. CASE ~(m.timeout[x] + i < latched)
    <3>1. r = InsertShortTimer(m, x, m.timeout[x] + i) /\ m.timeout[x] + i \in Int
      BY <1>0, <1>1, <2>2 DEF ReactivateTimer
    <3>2. /\ Good(r) /\ PulseWithLong(r)
          /\ x \in Active(r)
          /\ SameBut(m, r, x)
          /\ x \in ToSet(r.short) /\ r.timeout[x] = m.timeout[x] + i
      BY <3>1, LinkShortProperties
    <3> QED
      BY <3>2, <3>1
  <2> QED
    BY <2>1, <2>2
<1>2. CASE ~(i < PrecisionThreshold)
  BY <1>2, ActivateLongProperties DEF ReactivateTimer
<1> QED
  BY <1>1, <1>2

\* DeactivateTimer takes x out, and the pulse with the last long timer.
LEMMA DeactivateProperties ==
    ASSUME NEW m, Good(m), PulseWithLong(m), NEW x \in Timers, x \in Active(m),
           NEW r, r = DeactivateTimer(m, x)
    PROVE  /\ Good(r) /\ PulseWithLong(r)
           /\ x \notin Active(r)
           /\ SameBut(m, r, x)
<1>0. x # Pulse
  BY PulseAssumption
<1>1. CASE x \in ToSet(m.short)
  <2>1. r = RemoveShortTimer(m, x)
    BY <1>1 DEF DeactivateTimer, IsPrecise
  <2>2. /\ Good(r)
        /\ ToSet(r.short) = ToSet(m.short) \ {x}
        /\ r.long = m.long /\ r.timeout = m.timeout
        /\ x \notin Active(r)
    BY <1>1, <2>1, RemoveShortProperties
  <2> QED
    BY <2>2, <1>0 DEF PulseWithLong, SameBut
<1>2. CASE x \notin ToSet(m.short)
  <2> DEFINE l == RemoveLongTimer(m, x)
  <2>1. x \in ToSet(m.long)
    BY <1>2 DEF Active
  <2>2. /\ Good(l)
        /\ ToSet(l.long) = ToSet(m.long) \ {x}
        /\ l.short = m.short /\ l.timeout = m.timeout
        /\ x \notin Active(l)
    BY <2>1, RemoveLongProperties
  <2>3. Pulse \in ToSet(m.short)
    BY <2>1, MgrFields DEF PulseWithLong, Good
  <2>4. r = IF l.long = <<>> /\ IsPrecise(l, Pulse) THEN RemoveShortTimer(l, Pulse) ELSE l
    BY <1>2 DEF DeactivateTimer, IsPrecise
  <2> HIDE DEF l
  <2>5. CASE l.long = <<>>
    <3>1. r = RemoveShortTimer(l, Pulse) /\ Pulse \in ToSet(l.short)
      BY <2>2, <2>3, <2>4, <2>5 DEF IsPrecise
    <3>2. /\ Good(r)
          /\ ToSet(r.short) = ToSet(l.short) \ {Pulse}
          /\ r.long = l.long /\ r.timeout = l.timeout
      BY <2>2, <3>1, RemoveShortProperties
    <3>3. \A y \in Timers : y # Pulse
      BY PulseAssumption
    <3> QED
      BY <2>2, <2>5, <3>2, <3>3 DEF PulseWithLong, SameBut, Active
  <2>6. CASE l.long # <<>>
    <3>1. r = l
      BY <2>4, <2>6
    <3> QED
      BY <2>2, <2>3, <2>6, <3>1 DEF PulseWithLong, SameBut
  <2> QED
    BY <2>5, <2>6
<1> QED
  BY <1>1, <1>2

\* Update leaves the system timer set for the first short timer.
LEMMA UpdateProperties ==
    ASSUME NEW m \in Mgr, NEW t \in Int,
           NEW s \in [scheduled : BOOLEAN, timeout : Int, delayEnd : Int],
           s.scheduled => s.delayEnd <= MaxOf(s.timeout, t),
           NEW r, r = Update(m, s, t)
    PROVE  /\ r \in [scheduled : BOOLEAN, timeout : Int, delayEnd : Int]
           /\ r.scheduled => r.delayEnd <= MaxOf(r.timeout, t)
           /\ m.short # <<>> => r.scheduled /\ r.timeout = m.timeout[Head(m.short)]
<1>1. CASE m.short = <<>>
  BY <1>1 DEF Update
<1>2. CASE m.short # <<>>
  <2>1. m.timeout[Head(m.short)] \in Int
    <3>1. Head(m.short) \in AllTimers
      BY <1>2, MgrFields, HeadTailProperties
    <3> QED
      BY <3>1, MgrFields
  <2> DEFINE first == m.timeout[Head(m.short)]
             end == t + GetTimeRemaining(m, Head(m.short), t)
  <2>2. end \in Int /\ end = MaxOf(first, t)
    BY <2>1 DEF GetTimeRemaining, MaxOf
  <2>3. r = IF s.scheduled /\ s.timeout = first THEN s
            ELSE [scheduled |-> TRUE, timeout |-> first, delayEnd |-> end]
    BY <1>2 DEF Update
  <2> HIDE DEF first, end
  <2>4. first \in Int
    BY <2>1 DEF first
  <2>5. CASE s.scheduled /\ s.timeout = first
    BY <2>3, <2>5 DEF first
  <2>6. CASE ~(s.scheduled /\ s.timeout = first)
    <3>1. r = [scheduled |-> TRUE, timeout |-> first, delayEnd |-> end]
      BY <2>3, <2>6
    <3>2. r.scheduled = TRUE /\ r.timeout = first /\ r.delayEnd = end
      BY <3>1
    <3>3. r.delayEnd <= MaxOf(r.timeout, t)
      BY <3>2, <2>2, <2>4 DEF MaxOf
    <3> QED
      BY <3>1, <3>2, <3>3, <2>2, <2>4 DEF first
  <2> QED
    BY <2>5, <2>6
<1> QED
  BY <1>1, <1>2

-----------------------------------------------------------------------------
(* The invariant.                                                          *)

Sys == [scheduled : BOOLEAN, timeout : Int, delayEnd : Int]

\* PulseRuns, in the terms of the lemmas.
LEMMA PulseRunsMeans ==
    ASSUME IInv
    PROVE  /\ Good(mgr)
           /\ phase # "pulse" => PulseWithLong(mgr)
           /\ \A t \in Timers : IsActive(mgr, t) <=> t \in Active(mgr)
           /\ now \in Int /\ loopNow \in Int /\ sys \in Sys
<1>1. mgr \in Mgr /\ Pulse \notin ToSet(mgr.long)
  BY MgrFields DEF IInv, TypeOK
<1> QED
  BY <1>1, TimeAssumption
     DEF IInv, TypeOK, ListsOK, PulseRuns, Good, PulseWithLong, Active, IsActive, Sys

\* What every user operation on a timer t does to the rest of the state.
LEMMA UserStep ==
    ASSUME IInv, NEW t \in Timers, phase \in {"idle", "callback"},
           Good(mgr'), PulseWithLong(mgr'), SameBut(mgr, mgr', t),
           sys' = UpdateUnlessPending(mgr'),
           invoked' = NoTimer \/ (invoked' = invoked /\ invoked # t),
           UNCHANGED <<now, phase, loopNow>>
    PROVE  /\ mgr' \in Mgr /\ sys' \in Sys
           /\ invoked' \in AllTimers \cup {NoTimer}
           /\ ListsOK' /\ PulseRuns' /\ InvokedIsLinked'
           /\ NoLostWakeup' /\ LoopState'
<1>1. /\ Good(mgr) /\ PulseWithLong(mgr)
      /\ now \in Int /\ loopNow \in Int /\ sys \in Sys
  BY PulseRunsMeans
<1>2. mgr' \in Mgr /\ ListsOK'
  BY DEF Good, ListsOK
<1>3. PulseRuns'
  <2>1. Pulse \notin ToSet(mgr'.long)
    BY <1>2, MgrFields
  <2> QED
    BY <2>1 DEF PulseRuns, PulseWithLong, IsActive
<1>4. invoked' \in AllTimers \cup {NoTimer} /\ (invoked' # NoTimer => invoked' \in Timers \ {t} /\ invoked = invoked')
  BY DEF IInv, TypeOK, LoopState, AllTimers
<1>5. InvokedIsLinked'
  BY <1>4 DEF IInv, InvokedIsLinked, IsPrecise, SameBut
<1>6. sys' \in Sys /\ (sys'.scheduled => sys'.delayEnd <= MaxOf(sys'.timeout, now))
        /\ (phase = "idle" /\ mgr'.short # <<>> =>
              sys'.scheduled /\ sys'.timeout = mgr'.timeout[Head(mgr'.short)])
  <2>1. sys.scheduled => sys.delayEnd <= MaxOf(sys.timeout, now)
    BY DEF IInv, LoopState
  <2>2. CASE phase = "idle"
    <3>1. sys' = Update(mgr', sys, now)
      BY <2>2 DEF UpdateUnlessPending, updatePending
    <3> QED
      BY <3>1, <2>1, <1>1, <1>2, UpdateProperties DEF Sys
  <2>3. CASE phase = "callback"
    BY <2>1, <2>3, <1>1 DEF UpdateUnlessPending, updatePending
  <2> QED
    BY <2>2, <2>3
<1>7. LoopState'
  <2>1. invoked' # NoTimer => mgr'.timeout[invoked'] = mgr.timeout[invoked]
    BY <1>4 DEF SameBut
  <2> QED
    BY <2>1, <1>4, <1>6, PulseAssumption DEF IInv, LoopState
<1>8. NoLostWakeup'
  BY <1>6 DEF NoLostWakeup
<1> QED
  BY <1>2, <1>3, <1>4, <1>5, <1>6, <1>7, <1>8

LEMMA InitIInv == Init => IInv
<1> SUFFICES ASSUME Init PROVE IInv
  OBVIOUS
<1>1. /\ mgr = [short |-> <<>>, long |-> <<>>,
                timeout |-> [x \in AllTimers |-> 0], pulseMark |-> 0]
      /\ mgr.short = <<>> /\ mgr.long = <<>>
      /\ mgr \in Mgr
  BY DEF Init, Mgr
<1>2. TypeOK
  <2>1. PulseInterval \in Nat \ {0} /\ MaxTime \in Nat
    BY TimeAssumption
  <2> QED
    BY <1>1, <2>1 DEF Init, TypeOK
<1>3. ListsOK /\ PulseRuns /\ InvokedIsLinked /\ NoLostWakeup /\ ShortPromise /\ LoopState
  <2>1. ToSet(mgr.short) = {} /\ ToSet(mgr.long) = {}
    BY <1>1 DEF ToSet
  <2>2. IsInjective(mgr.short) /\ IsInjective(mgr.long)
    BY <1>1 DEF IsInjective
  <2>3. SortedBy(mgr.short, mgr.timeout) /\ SortedBy(mgr.long, mgr.timeout)
    BY <1>1 DEF SortedBy
  <2> QED
    BY <1>1, <2>1, <2>2, <2>3
       DEF Init, ListsOK, ListsOf, PulseRuns, InvokedIsLinked, NoLostWakeup,
           ShortPromise, LoopState, IsActive
<1> QED
  BY <1>2, <1>3 DEF IInv

LEMMA TickIInv == IInv /\ Tick => IInv'
<1> SUFFICES ASSUME IInv, Tick PROVE IInv'
  OBVIOUS
<1>1. /\ now \in Nat /\ now' \in 0..MaxTime /\ now' = now + 1
      /\ UNCHANGED <<mgr, timers, phase, invoked, loopNow, sys, history>>
  BY TimeAssumption DEF Tick, IInv, TypeOK
<1>2. sys \in Sys
  BY PulseRunsMeans
<1>3. LoopState'
  <2>1. sys.scheduled => sys.delayEnd <= MaxOf(sys.timeout, now)
    BY DEF IInv, LoopState
  <2>2. sys.timeout \in Int /\ sys.delayEnd \in Int
    BY <1>2 DEF Sys
  <2>3. sys.scheduled => sys.delayEnd <= MaxOf(sys.timeout, now + 1)
    BY <1>1, <2>1, <2>2 DEF MaxOf
  <2>4. loopNow <= now + 1
    BY <1>1 DEF IInv, LoopState, TypeOK
  <2> QED
    BY <1>1, <2>3, <2>4 DEF IInv, LoopState
<1>4. TypeOK'
  BY <1>1 DEF IInv, TypeOK, timers, history
<1>5. ListsOK' /\ PulseRuns' /\ InvokedIsLinked' /\ ShortPromise'
  BY <1>1 DEF IInv, ListsOK, PulseRuns, InvokedIsLinked, ShortPromise, history
<1>6. NoLostWakeup'
  BY <1>1, <1>3 DEF IInv, NoLostWakeup, LoopState
<1> QED
  BY <1>3, <1>4, <1>5, <1>6 DEF IInv

\* The facts about Arm that Activate, Reschedule and Scale share; m is the
\* manager's lists without t.
LEMMA ArmStep ==
    ASSUME IInv, NEW t \in Timers, NEW i \in Nat, NEW m,
           Good(m), PulseWithLong(m), t \notin Active(m), SameBut(mgr, m, t),
           Arm(t, i, m)
    PROVE  /\ Good(mgr') /\ PulseWithLong(mgr') /\ SameBut(mgr, mgr', t)
           /\ sys' = UpdateUnlessPending(mgr')
           /\ due' \in [Timers -> Nat] /\ byPulse' \in [Timers -> BOOLEAN]
           /\ ShortPromise'
<1>1. now \in Nat /\ PrecisionThreshold \in Nat
      /\ due \in [Timers -> Nat] /\ byPulse \in [Timers -> BOOLEAN]
  BY TimeAssumption DEF IInv, TypeOK
<1>2. /\ mgr' = ActivateTimer(m, t, i, now)
      /\ due' = [due EXCEPT ![t] = now + i]
      /\ byPulse' = [byPulse EXCEPT ![t] = i >= PrecisionThreshold]
      /\ sys' = UpdateUnlessPending(mgr')
  BY DEF Arm
<1>3. /\ Good(mgr') /\ PulseWithLong(mgr') /\ SameBut(m, mgr', t)
      /\ i < PrecisionThreshold => t \in ToSet(mgr'.short) /\ mgr'.timeout[t] = now + i
  BY <1>1, <1>2, ActivateProperties
<1>4. SameBut(mgr, mgr', t)
  BY <1>3 DEF SameBut
<1>5. due' \in [Timers -> Nat] /\ byPulse' \in [Timers -> BOOLEAN]
  BY <1>1, <1>2
<1>6. ASSUME NEW y \in Timers, IsActive(mgr', y), ~byPulse'[y]
      PROVE  IsPrecise(mgr', y) /\ due'[y] <= mgr'.timeout[y]
  <2>1. CASE y = t
    <3>1. i < PrecisionThreshold /\ due'[t] = now + i
      <4>1. due'[t] = now + i
        BY <1>1, <1>2
      <4>2. byPulse'[t] = (i >= PrecisionThreshold)
        BY <1>1, <1>2, Zenon
      <4>3. ~(i >= PrecisionThreshold)
        BY <4>2, <1>6, <2>1, Zenon
      <4> QED
        BY <4>1, <4>3, <1>1
    <3> QED
      BY <1>1, <1>3, <2>1, <3>1 DEF IsPrecise
  <2>2. CASE y # t
    <3>1. due'[y] = due[y] /\ byPulse'[y] = byPulse[y]
      BY <1>1, <1>2, <2>2
    <3>2. IsActive(mgr, y) /\ mgr'.timeout[y] = mgr.timeout[y]
          /\ (IsPrecise(mgr, y) <=> IsPrecise(mgr', y))
      BY <1>4, <1>6, <2>2 DEF SameBut, IsActive, IsPrecise
    <3> QED
      BY <1>6, <3>1, <3>2 DEF IInv, ShortPromise
  <2> QED
    BY <2>1, <2>2
<1>7. ShortPromise'
  BY <1>6 DEF ShortPromise
<1> QED
  BY <1>2, <1>3, <1>4, <1>5, <1>7

LEMMA ActivateIInv ==
    ASSUME IInv, NEW t \in Timers, NEW i \in Intervals, NEW n \in Repeats, Activate(t, i, n)
    PROVE  IInv'
<1>1. /\ phase \in {"idle", "callback"} /\ t \notin Active(mgr)
      /\ Arm(t, i, mgr) /\ i \in Nat /\ n \in Nat \cup {-1}
      /\ interval' = [interval EXCEPT ![t] = i]
      /\ repeat' = [repeat EXCEPT ![t] = n]
      /\ repeatCount' = [repeatCount EXCEPT ![t] = n]
      /\ UNCHANGED <<now, phase, invoked, loopNow>>
  BY PulseRunsMeans, TimeAssumption DEF Activate, UserMayRun
<1>2. Good(mgr) /\ PulseWithLong(mgr) /\ SameBut(mgr, mgr, t)
  BY <1>1, PulseRunsMeans DEF SameBut
<1>3. /\ Good(mgr') /\ PulseWithLong(mgr') /\ SameBut(mgr, mgr', t)
      /\ sys' = UpdateUnlessPending(mgr')
      /\ due' \in [Timers -> Nat] /\ byPulse' \in [Timers -> BOOLEAN]
      /\ ShortPromise'
  BY <1>1, <1>2, ArmStep
<1>4. invoked' = NoTimer \/ (invoked' = invoked /\ invoked # t)
  BY <1>1 DEF IInv, InvokedIsLinked, IsPrecise, Active
<1>5. /\ mgr' \in Mgr /\ sys' \in Sys
      /\ invoked' \in AllTimers \cup {NoTimer}
      /\ ListsOK' /\ PulseRuns' /\ InvokedIsLinked'
      /\ NoLostWakeup' /\ LoopState'
  BY <1>1, <1>3, <1>4, UserStep
<1>6. TypeOK'
  BY <1>1, <1>3, <1>5 DEF IInv, TypeOK, Sys
<1> QED
  BY <1>3, <1>5, <1>6 DEF IInv

LEMMA DeactivateIInv ==
    ASSUME IInv, NEW t \in Timers, Deactivate(t)
    PROVE  IInv'
<1>1. /\ phase \in {"idle", "callback"} /\ t \in Active(mgr)
      /\ mgr' = DeactivateTimer(mgr, t)
      /\ invoked' = IF invoked = t THEN NoTimer ELSE invoked
      /\ sys' = UpdateUnlessPending(mgr')
      /\ UNCHANGED <<now, timers, phase, loopNow, history>>
  BY PulseRunsMeans DEF Deactivate, UserMayRun, ForgetInvoked
<1>2. /\ Good(mgr') /\ PulseWithLong(mgr') /\ SameBut(mgr, mgr', t)
      /\ t \notin Active(mgr')
  BY <1>1, PulseRunsMeans, DeactivateProperties
<1>3. invoked' = NoTimer \/ (invoked' = invoked /\ invoked # t)
  BY <1>1
<1>4. /\ mgr' \in Mgr /\ sys' \in Sys
      /\ invoked' \in AllTimers \cup {NoTimer}
      /\ ListsOK' /\ PulseRuns' /\ InvokedIsLinked'
      /\ NoLostWakeup' /\ LoopState'
  BY <1>1, <1>2, <1>3, UserStep
<1>5. ShortPromise'
  <2>1. \A y \in Timers \ {t} :
            /\ IsActive(mgr', y) <=> IsActive(mgr, y)
            /\ IsPrecise(mgr', y) <=> IsPrecise(mgr, y)
            /\ mgr'.timeout[y] = mgr.timeout[y]
    BY <1>2 DEF SameBut, IsActive, IsPrecise
  <2>2. ~IsActive(mgr', t)
    BY <1>2 DEF Active, IsActive
  <2>3. due' = due /\ byPulse' = byPulse
    BY <1>1 DEF history
  <2> QED
    BY <2>1, <2>2, <2>3 DEF IInv, ShortPromise
<1>6. TypeOK'
  BY <1>1, <1>4 DEF IInv, TypeOK, Sys, timers, history
<1> QED
  BY <1>4, <1>5, <1>6 DEF IInv

LEMMA SetIntervalIInv ==
    ASSUME IInv, NEW t \in Timers, NEW i \in Intervals, SetInterval(t, i)
    PROVE  IInv'
<1>1. /\ i \in Nat
      /\ interval' = [interval EXCEPT ![t] = i]
      /\ UNCHANGED <<now, mgr, repeat, repeatCount, phase, invoked, loopNow, sys, history>>
  BY TimeAssumption DEF SetInterval
<1>2. TypeOK'
  BY <1>1 DEF IInv, TypeOK, history
<1> QED
  BY <1>1, <1>2
     DEF IInv, ListsOK, PulseRuns, InvokedIsLinked, NoLostWakeup, ShortPromise, LoopState, history

\* Reschedule and Scale both take t out and arm it again.
LEMMA RearmStep ==
    ASSUME IInv, NEW t \in Timers, NEW i \in Nat, UserMayRun, IsActive(mgr, t),
           Arm(t, i, DeactivateTimer(mgr, t)), ForgetInvoked(t),
           UNCHANGED <<now, phase, loopNow>>
    PROVE  /\ mgr' \in Mgr /\ sys' \in Sys
           /\ invoked' \in AllTimers \cup {NoTimer}
           /\ due' \in [Timers -> Nat] /\ byPulse' \in [Timers -> BOOLEAN]
           /\ ListsOK' /\ PulseRuns' /\ InvokedIsLinked'
           /\ NoLostWakeup' /\ ShortPromise' /\ LoopState'
<1>1. phase \in {"idle", "callback"} /\ t \in Active(mgr) /\ Good(mgr) /\ PulseWithLong(mgr)
  BY PulseRunsMeans DEF UserMayRun
<1>2. PICK m : m = DeactivateTimer(mgr, t)
  OBVIOUS
<1>3. Good(m) /\ PulseWithLong(m) /\ t \notin Active(m) /\ SameBut(mgr, m, t)
  BY <1>1, <1>2, DeactivateProperties
<1>4. /\ Good(mgr') /\ PulseWithLong(mgr') /\ SameBut(mgr, mgr', t)
      /\ sys' = UpdateUnlessPending(mgr')
      /\ due' \in [Timers -> Nat] /\ byPulse' \in [Timers -> BOOLEAN]
      /\ ShortPromise'
  BY <1>2, <1>3, ArmStep
<1>5. invoked' = NoTimer \/ (invoked' = invoked /\ invoked # t)
  BY DEF ForgetInvoked
<1> QED
  BY <1>1, <1>4, <1>5, UserStep

LEMMA RescheduleIInv ==
    ASSUME IInv, NEW t \in Timers, Reschedule(t)
    PROVE  IInv'
<1>1. /\ UserMayRun /\ IsActive(mgr, t)
      /\ interval[t] \in Nat
      /\ Arm(t, interval[t], DeactivateTimer(mgr, t)) /\ ForgetInvoked(t)
      /\ repeatCount' = [repeatCount EXCEPT ![t] = repeat[t]]
      /\ UNCHANGED <<now, interval, repeat, phase, loopNow>>
  BY DEF Reschedule, IInv, TypeOK
<1>2. /\ mgr' \in Mgr /\ sys' \in Sys
      /\ invoked' \in AllTimers \cup {NoTimer}
      /\ due' \in [Timers -> Nat] /\ byPulse' \in [Timers -> BOOLEAN]
      /\ ListsOK' /\ PulseRuns' /\ InvokedIsLinked'
      /\ NoLostWakeup' /\ ShortPromise' /\ LoopState'
  BY <1>1, RearmStep
<1>3. TypeOK'
  BY <1>1, <1>2 DEF IInv, TypeOK, Sys
<1> QED
  BY <1>2, <1>3 DEF IInv

LEMMA ScaleIInv ==
    ASSUME IInv, NEW t \in Timers, NEW factor \in Factors, Scale(t, factor)
    PROVE  IInv'
<1> DEFINE remaining == GetTimeRemaining(mgr, t, now)
<1>1. /\ UserMayRun /\ IsActive(mgr, t)
      /\ Scaled(factor, interval[t]) \in 0..MaxTime
      /\ interval' = [interval EXCEPT ![t] = Scaled(factor, interval[t])]
      /\ UNCHANGED <<now, repeat, repeatCount, phase, loopNow>>
  BY DEF Scale
<1>2. interval' \in [Timers -> Nat]
  <2>1. Scaled(factor, interval[t]) \in Nat
    BY <1>1, TimeAssumption
  <2> QED
    BY <1>1, <2>1 DEF IInv, TypeOK
<1>3. CASE remaining > 0
  <2>1. /\ Scaled(factor, remaining) \in 1..MaxTime
        /\ Arm(t, Scaled(factor, remaining), DeactivateTimer(mgr, t))
        /\ ForgetInvoked(t)
    BY <1>3 DEF Scale
  <2>2. PICK i \in Nat : i = Scaled(factor, remaining)
    BY <2>1, TimeAssumption
  <2>3. Arm(t, i, DeactivateTimer(mgr, t))
    BY <2>1, <2>2
  <2>4. /\ mgr' \in Mgr /\ sys' \in Sys
        /\ invoked' \in AllTimers \cup {NoTimer}
        /\ due' \in [Timers -> Nat] /\ byPulse' \in [Timers -> BOOLEAN]
        /\ ListsOK' /\ PulseRuns' /\ InvokedIsLinked'
        /\ NoLostWakeup' /\ ShortPromise' /\ LoopState'
    BY <1>1, <2>1, <2>3, RearmStep
  <2>5. TypeOK'
    BY <1>1, <1>2, <2>4 DEF IInv, TypeOK, Sys
  <2> QED
    BY <2>4, <2>5 DEF IInv
<1>4. CASE ~(remaining > 0)
  <2>1. UNCHANGED <<mgr, sys, history, invoked>>
    BY <1>4 DEF Scale
  <2>2. TypeOK'
    BY <1>1, <1>2, <2>1 DEF IInv, TypeOK, history
  <2> QED
    BY <1>1, <2>1, <2>2
       DEF IInv, ListsOK, PulseRuns, InvokedIsLinked, NoLostWakeup, ShortPromise, LoopState, history
<1> QED
  BY <1>3, <1>4

LEMMA EnterLoopIInv == IInv /\ EnterLoop => IInv'
<1> SUFFICES ASSUME IInv, EnterLoop PROVE IInv'
  OBVIOUS
<1>1. /\ phase = "idle" /\ phase' = "loop" /\ loopNow' = now
      /\ sys' = [sys EXCEPT !.scheduled = FALSE]
      /\ UNCHANGED <<now, mgr, timers, invoked, history>>
  BY DEF EnterLoop
<1>2. sys' \in Sys /\ ~sys'.scheduled
  BY <1>1, PulseRunsMeans DEF Sys
<1>3. now \in Nat
  BY TimeAssumption DEF IInv, TypeOK
<1>4. TypeOK'
  BY <1>1, <1>2 DEF IInv, TypeOK, Sys, timers, history
<1>5. LoopState'
  BY <1>1, <1>2, <1>3 DEF IInv, LoopState
<1> QED
  BY <1>1, <1>4, <1>5
     DEF IInv, ListsOK, PulseRuns, InvokedIsLinked, NoLostWakeup, ShortPromise, history

\* The head of a list that is not empty is in the list.
LEMMA HeadInList ==
    ASSUME NEW S, NEW s \in Seq(S), s # <<>>
    PROVE  Head(s) \in ToSet(s)
<1>1. Len(s) \in Nat \ {0} /\ Head(s) = s[1]
  BY EmptySeq
<1> QED
  BY <1>1 DEF ToSet

LEMMA FireTimerIInv == IInv /\ FireTimer => IInv'
<1> SUFFICES ASSUME IInv, FireTimer PROVE IInv'
  OBVIOUS
<1>1. /\ phase = "loop" /\ HeadIsDue /\ Head(mgr.short) # Pulse
      /\ invoked' = Head(mgr.short) /\ phase' = "callback"
      /\ UNCHANGED <<now, mgr, timers, loopNow, sys, history>>
  BY DEF FireTimer
<1>2. invoked' \in ToSet(mgr.short) /\ invoked' \in AllTimers
      /\ mgr.timeout[invoked'] <= loopNow
  <2>1. mgr.short \in Seq(AllTimers) /\ mgr.short # <<>> /\ ToSet(mgr.short) \subseteq AllTimers
    BY <1>1, MgrFields DEF IInv, TypeOK, HeadIsDue
  <2> QED
    BY <1>1, <2>1, HeadInList DEF HeadIsDue
<1>3. TypeOK'
  BY <1>1, <1>2 DEF IInv, TypeOK, timers, history
<1>4. PulseRuns' /\ InvokedIsLinked' /\ LoopState' /\ NoLostWakeup'
  BY <1>1, <1>2
     DEF IInv, PulseRuns, InvokedIsLinked, IsPrecise, IsActive, LoopState, NoLostWakeup
<1> QED
  BY <1>1, <1>3, <1>4 DEF IInv, ListsOK, ShortPromise, history

LEMMA CallbackReturnIInv == IInv /\ CallbackReturn => IInv'
<1> SUFFICES ASSUME IInv, CallbackReturn PROVE IInv'
  OBVIOUS
<1>1. /\ phase = "callback" /\ phase' = "loop" /\ invoked' = NoTimer
      /\ UNCHANGED <<now, interval, repeat, loopNow, sys>>
  BY DEF CallbackReturn
<1>2. /\ Good(mgr) /\ PulseWithLong(mgr)
      /\ now \in Int /\ loopNow \in Int /\ loopNow <= now
  BY <1>1, PulseRunsMeans DEF IInv, LoopState
\* It is enough to look at the lists, the counts and the history.
<1>3. SUFFICES /\ Good(mgr') /\ PulseWithLong(mgr') /\ ShortPromise'
               /\ repeatCount' \in [Timers -> Nat \cup {-1}]
               /\ due' \in [Timers -> Nat] /\ byPulse' \in [Timers -> BOOLEAN]
  <2>1. mgr' \in Mgr /\ ListsOK'
    BY <1>3 DEF Good, ListsOK
  <2>2. PulseRuns'
    <3>1. Pulse \notin ToSet(mgr'.long)
      BY <2>1, MgrFields
    <3> QED
      BY <1>1, <1>3, <3>1 DEF PulseRuns, PulseWithLong, IsActive
  <2>3. TypeOK'
    BY <1>1, <1>3, <2>1 DEF IInv, TypeOK
  <2>4. InvokedIsLinked' /\ NoLostWakeup' /\ LoopState'
    BY <1>1 DEF IInv, InvokedIsLinked, NoLostWakeup, LoopState
  <2> QED
    BY <1>3, <2>1, <2>2, <2>3, <2>4 DEF IInv
<1>4. CASE ~(invoked \in Timers /\ IsActive(mgr, invoked))
  <2>1. UNCHANGED <<mgr, repeatCount, history>>
    BY <1>4 DEF CallbackReturn
  <2> QED
    BY <1>2, <2>1 DEF IInv, ShortPromise, TypeOK, history
<1>5. CASE invoked \in Timers /\ IsActive(mgr, invoked)
  <2>0. PICK t \in Timers : t = invoked
    BY <1>5
  <2>1. PICK rest : t = invoked /\ rest = RemoveShortTimer(mgr, t)
    BY <2>0
  <2>2. t \in ToSet(mgr.short) /\ t # Pulse
    BY <2>1, PulseAssumption DEF IInv, InvokedIsLinked, IsPrecise
  <2>3. /\ Good(rest) /\ PulseWithLong(rest) /\ SameBut(mgr, rest, t)
        /\ t \notin Active(rest) /\ rest.timeout = mgr.timeout
    <3>1. /\ Good(rest)
          /\ ToSet(rest.short) = ToSet(mgr.short) \ {t}
          /\ rest.long = mgr.long /\ rest.timeout = mgr.timeout
          /\ t \notin Active(rest)
      BY <1>2, <2>1, <2>2, RemoveShortProperties
    <3> QED
      BY <1>2, <2>2, <3>1 DEF PulseWithLong, SameBut
  <2>4. CASE repeatCount[t] = 0
    <3>1. mgr' = rest /\ UNCHANGED <<repeatCount, history>>
      BY <1>5, <2>1, <2>4 DEF CallbackReturn
    <3>2. ShortPromise'
      <4>1. \A y \in Timers \ {t} :
                /\ IsActive(mgr', y) <=> IsActive(mgr, y)
                /\ IsPrecise(mgr', y) <=> IsPrecise(mgr, y)
                /\ mgr'.timeout[y] = mgr.timeout[y]
        BY <2>3, <3>1 DEF SameBut, IsActive, IsPrecise
      <4>2. ~IsActive(mgr', t)
        BY <2>3, <3>1 DEF Active, IsActive
      <4> QED
        BY <3>1, <4>1, <4>2 DEF IInv, ShortPromise, history
    <3> QED
      BY <2>3, <3>1, <3>2 DEF IInv, TypeOK, history
  <2>5. CASE repeatCount[t] # 0
    <3>1. /\ mgr' = ReactivateTimer(rest, t, interval[t], now, loopNow)
          /\ repeatCount' = IF repeatCount[t] > 0
                            THEN [repeatCount EXCEPT ![t] = @ - 1]
                            ELSE repeatCount
          /\ due' = [due EXCEPT ![t] = @ + interval[t]]
          /\ byPulse' = [byPulse EXCEPT ![t] = @ \/ interval[t] >= PrecisionThreshold]
      BY <1>5, <2>1, <2>5 DEF CallbackReturn
    <3>2. /\ interval[t] \in Nat /\ repeatCount \in [Timers -> Nat \cup {-1}]
          /\ due \in [Timers -> Nat] /\ byPulse \in [Timers -> BOOLEAN]
          /\ PrecisionThreshold \in Nat
      BY TimeAssumption DEF IInv, TypeOK
    <3>3. /\ Good(mgr') /\ PulseWithLong(mgr') /\ SameBut(rest, mgr', t)
          /\ interval[t] < PrecisionThreshold =>
                t \in ToSet(mgr'.short) /\ mgr'.timeout[t] >= mgr.timeout[t] + interval[t]
      BY <1>2, <2>3, <3>1, <3>2, ReactivateProperties
    <3>4. repeatCount' \in [Timers -> Nat \cup {-1}] /\ due' \in [Timers -> Nat]
      BY <3>1, <3>2
    <3>5. byPulse' \in [Timers -> BOOLEAN]
      BY <3>1, <3>2, Zenon
    <3>6. ASSUME NEW y \in Timers, IsActive(mgr', y), ~byPulse'[y]
          PROVE  IsPrecise(mgr', y) /\ due'[y] <= mgr'.timeout[y]
      <4>1. CASE y = t
        <5>1. ~byPulse[t] /\ ~(interval[t] >= PrecisionThreshold)
          BY <3>1, <3>2, <3>6, <4>1, Zenon
        <5>2. due[t] <= mgr.timeout[t] /\ due'[t] = due[t] + interval[t] /\ due[t] \in Int
          BY <2>2, <3>1, <3>2, <5>1 DEF IInv, ShortPromise, IsActive
        <5>3. t \in ToSet(mgr'.short) /\ mgr'.timeout[t] >= mgr.timeout[t] + interval[t]
          BY <3>2, <3>3, <5>1
        <5>4. mgr.timeout[t] \in Int /\ mgr'.timeout[t] \in Int
          BY <1>2, <3>3, MgrFields DEF Good, AllTimers
        <5> QED
          BY <4>1, <5>2, <5>3, <5>4, <3>2 DEF IsPrecise
      <4>2. CASE y # t
        <5>1. due'[y] = due[y]
          BY <3>1, <3>2, <4>2
        <5>2. byPulse'[y] = byPulse[y]
          BY <3>1, <3>2, <4>2, Zenon
        <5>3. /\ IsActive(mgr', y) <=> IsActive(mgr, y)
              /\ IsPrecise(mgr', y) <=> IsPrecise(mgr, y)
              /\ mgr'.timeout[y] = mgr.timeout[y]
          BY <2>3, <3>3, <4>2 DEF SameBut, IsActive, IsPrecise
        <5> QED
          BY <3>6, <5>1, <5>2, <5>3 DEF IInv, ShortPromise
      <4> QED
        BY <4>1, <4>2
    <3>7. ShortPromise'
      BY <3>6 DEF ShortPromise
    <3> QED
      BY <3>3, <3>4, <3>5, <3>7
  <2> QED
    BY <2>4, <2>5
<1> QED
  BY <1>4, <1>5

LEMMA FirePulseIInv == IInv /\ FirePulse => IInv'
<1> SUFFICES ASSUME IInv, FirePulse PROVE IInv'
  OBVIOUS
<1>1. /\ phase = "loop" /\ HeadIsDue /\ Head(mgr.short) = Pulse
      /\ invoked' = Pulse /\ phase' = "pulse"
      /\ mgr' = [mgr EXCEPT !.pulseMark = @ + PulseInterval]
      /\ UNCHANGED <<now, timers, loopNow, sys, history>>
  BY DEF FirePulse
<1>2. /\ mgr' \in Mgr /\ mgr'.short = mgr.short /\ mgr'.long = mgr.long
      /\ mgr'.timeout = mgr.timeout
  <2>1. PulseInterval \in Int /\ mgr \in Mgr
    BY TimeAssumption DEF IInv, TypeOK
  <2>2. mgr.pulseMark + PulseInterval \in Int
    BY <2>1, MgrFields
  <2>3. mgr' = [mgr EXCEPT !.pulseMark = mgr.pulseMark + PulseInterval]
    BY <1>1
  <2> QED
    BY <2>1, <2>2, <2>3, Zenon DEF Mgr
<1>3. Pulse \in ToSet(mgr.short)
  <2>1. mgr.short \in Seq(AllTimers) /\ mgr.short # <<>>
    BY <1>1, MgrFields DEF IInv, TypeOK, HeadIsDue
  <2> QED
    BY <1>1, <2>1, HeadInList
<1>4. TypeOK'
  BY <1>1, <1>2 DEF IInv, TypeOK, timers, history, AllTimers
<1>5. ListsOK' /\ ShortPromise'
  BY <1>1, <1>2 DEF IInv, ListsOK, ListsOf, ShortPromise, IsActive, IsPrecise, history
<1>6. PulseRuns' /\ InvokedIsLinked' /\ LoopState' /\ NoLostWakeup'
  BY <1>1, <1>2, <1>3
     DEF IInv, PulseRuns, InvokedIsLinked, IsPrecise, IsActive, LoopState, NoLostWakeup
<1> QED
  BY <1>4, <1>5, <1>6 DEF IInv

LEMMA PulseMoveIInv == IInv /\ PulseMove => IInv'
<1> SUFFICES ASSUME IInv, PulseMove PROVE IInv'
  OBVIOUS
<1>1. PICK x, at, rest :
         /\ x = Head(mgr.long)
         /\ at = now + (mgr.timeout[x] - mgr.pulseMark)
         /\ rest = RemoveLongTimer(mgr, x)
         /\ mgr' = InsertShortTimer(rest, x, at)
  BY DEF PulseMove
<1>2. /\ phase = "pulse" /\ mgr.long # <<>>
      /\ UNCHANGED <<now, timers, phase, invoked, loopNow, sys, history>>
  BY DEF PulseMove, HeadIsNear
<1>3. Good(mgr) /\ mgr \in Mgr /\ now \in Int
  BY PulseRunsMeans DEF Good
<1>4. x \in ToSet(mgr.long) /\ x \in Timers /\ x \in AllTimers /\ x # Pulse
  <2>1. mgr.long \in Seq(Timers) /\ ToSet(mgr.long) \subseteq Timers
    BY <1>3, MgrFields
  <2> QED
    BY <1>1, <1>2, <2>1, HeadInList, PulseAssumption DEF AllTimers
<1>5. at \in Int
  <2>1. mgr.timeout[x] \in Int /\ mgr.pulseMark \in Int
    BY <1>3, <1>4, MgrFields
  <2> QED
    BY <1>1, <1>3, <2>1
<1>6. /\ Good(rest) /\ ToSet(rest.long) = ToSet(mgr.long) \ {x}
      /\ rest.short = mgr.short /\ rest.timeout = mgr.timeout
      /\ x \notin Active(rest)
  BY <1>1, <1>3, <1>4, RemoveLongProperties
<1>7. /\ Good(mgr') /\ ToSet(mgr'.short) = ToSet(rest.short) \cup {x}
      /\ mgr'.long = rest.long
      /\ \A y \in AllTimers \ {x} : mgr'.timeout[y] = rest.timeout[y]
  <2>1. /\ Good(rest) /\ x \in AllTimers /\ x \notin Active(rest) /\ at \in Int
        /\ mgr' = InsertShortTimer(rest, x, at)
    BY <1>1, <1>4, <1>5, <1>6
  <2> QED
    BY <2>1, InsertShortProperties
<1>8. ShortPromise'
  <2>1. byPulse[x]
    <3>1. x \notin ToSet(mgr.short)
      BY <1>3, <1>4 DEF Good, ListsOf
    <3> QED
      BY <1>4, <3>1 DEF IInv, ShortPromise, IsActive, IsPrecise
  <2>2. \A y \in Timers \ {x} :
            /\ IsActive(mgr', y) <=> IsActive(mgr, y)
            /\ IsPrecise(mgr', y) <=> IsPrecise(mgr, y)
            /\ mgr'.timeout[y] = mgr.timeout[y]
    BY <1>6, <1>7 DEF IsActive, IsPrecise, AllTimers
  <2>3. due' = due /\ byPulse' = byPulse
    BY <1>2 DEF history
  <2> QED
    BY <2>1, <2>2, <2>3 DEF IInv, ShortPromise
<1>9. PulseRuns' /\ InvokedIsLinked' /\ LoopState' /\ NoLostWakeup'
  <2>1. invoked = Pulse /\ IsActive(mgr, Pulse)
    BY <1>2 DEF IInv, PulseRuns
  <2>2. invoked # NoTimer
    BY <2>1, PulseAssumption
  <2>3. IsPrecise(mgr, Pulse)
    BY <2>1, <2>2 DEF IInv, InvokedIsLinked
  <2>4. IsPrecise(mgr', Pulse) /\ IsActive(mgr', Pulse)
    BY <2>3, <1>6, <1>7 DEF IsActive, IsPrecise
  <2> QED
    BY <1>2, <2>1, <2>4 DEF IInv, PulseRuns, InvokedIsLinked, LoopState, NoLostWakeup
<1>10. TypeOK' /\ ListsOK'
  BY <1>2, <1>7 DEF IInv, TypeOK, ListsOK, Good, timers, history
<1> QED
  BY <1>8, <1>9, <1>10 DEF IInv

LEMMA PulseReturnIInv == IInv /\ PulseReturn => IInv'
<1> SUFFICES ASSUME IInv, PulseReturn PROVE IInv'
  OBVIOUS
<1>1. PICK rest :
         /\ rest = RemoveShortTimer(mgr, Pulse)
         /\ mgr' = IF mgr.long = <<>> THEN rest
                   ELSE ReactivateTimer(rest, Pulse, PulseInterval, now, loopNow)
  BY DEF PulseReturn
<1>2. /\ phase = "pulse" /\ invoked' = NoTimer /\ phase' = "loop"
      /\ UNCHANGED <<now, timers, loopNow, sys, history>>
  BY DEF PulseReturn
<1>3. /\ Good(mgr) /\ mgr \in Mgr /\ now \in Int /\ loopNow \in Int
      /\ Pulse \in AllTimers /\ Pulse \notin ToSet(mgr.long)
      /\ \A y \in Timers : y # Pulse
  BY PulseRunsMeans, MgrFields, PulseAssumption DEF Good, AllTimers
<1>4. Pulse \in ToSet(mgr.short)
  BY <1>2, <1>3 DEF IInv, PulseRuns, IsActive
<1>5. /\ Good(rest) /\ ToSet(rest.short) = ToSet(mgr.short) \ {Pulse}
      /\ rest.long = mgr.long /\ rest.timeout = mgr.timeout
      /\ Pulse \notin Active(rest)
  BY <1>1, <1>3, <1>4, RemoveShortProperties
<1>6. /\ Good(mgr') /\ mgr'.long = mgr.long
      /\ Pulse \in ToSet(mgr'.short) <=> mgr.long # <<>>
      /\ \A y \in Timers : /\ y \in ToSet(mgr'.short) <=> y \in ToSet(mgr.short)
                           /\ mgr'.timeout[y] = mgr.timeout[y]
  <2>1. CASE mgr.long = <<>>
    <3>1. mgr' = rest
      BY <1>1, <2>1
    <3> QED
      BY <1>3, <1>5, <2>1, <3>1
  <2>2. CASE mgr.long # <<>>
    <3>1. PICK at \in Int : mgr' = InsertShortTimer(rest, Pulse, at)
      <4>1. rest.timeout[Pulse] \in Int /\ PulseInterval \in Int
        BY <1>3, <1>5, MgrFields, TimeAssumption
      <4>2. mgr' = InsertShortTimer(rest, Pulse,
                      IF rest.timeout[Pulse] + PulseInterval < loopNow THEN now
                      ELSE rest.timeout[Pulse] + PulseInterval)
        BY <1>1, <2>2, TimeAssumption DEF ReactivateTimer
      <4> QED
        BY <1>3, <4>1, <4>2
    <3>2. /\ Good(mgr') /\ ToSet(mgr'.short) = ToSet(rest.short) \cup {Pulse}
          /\ mgr'.long = rest.long
          /\ \A y \in AllTimers \ {Pulse} : mgr'.timeout[y] = rest.timeout[y]
      BY <1>3, <1>5, <3>1, InsertShortProperties
    <3> QED
      BY <1>3, <1>5, <2>2, <3>2 DEF AllTimers
  <2> QED
    BY <2>1, <2>2
<1>7. ShortPromise'
  BY <1>2, <1>6 DEF IInv, ShortPromise, IsActive, IsPrecise, history
<1>8. TypeOK' /\ ListsOK'
  BY <1>2, <1>6 DEF IInv, TypeOK, ListsOK, Good, timers, history
<1>9. PulseRuns' /\ InvokedIsLinked' /\ LoopState' /\ NoLostWakeup'
  BY <1>2, <1>3, <1>6
     DEF IInv, PulseRuns, InvokedIsLinked, IsActive, LoopState, NoLostWakeup
<1> QED
  BY <1>7, <1>8, <1>9 DEF IInv

LEMMA LeaveLoopIInv == IInv /\ LeaveLoop => IInv'
<1> SUFFICES ASSUME IInv, LeaveLoop PROVE IInv'
  OBVIOUS
<1>1. /\ phase = "loop" /\ phase' = "idle" /\ loopNow' = 0
      /\ sys' = Update(mgr, sys, now)
      /\ UNCHANGED <<now, mgr, timers, invoked, history>>
  BY DEF LeaveLoop
<1>2. /\ mgr \in Mgr /\ now \in Nat /\ sys \in Sys
      /\ sys.scheduled => sys.delayEnd <= MaxOf(sys.timeout, now)
  BY PulseRunsMeans, TimeAssumption DEF Good, IInv, TypeOK, LoopState
<1>3. /\ sys' \in Sys
      /\ sys'.scheduled => sys'.delayEnd <= MaxOf(sys'.timeout, now)
      /\ mgr.short # <<>> => sys'.scheduled /\ sys'.timeout = mgr.timeout[Head(mgr.short)]
  <2>1. now \in Int
    BY <1>2
  <2> QED
    BY <1>1, <1>2, <2>1, UpdateProperties DEF Sys
<1>4. TypeOK'
  BY <1>1, <1>3, TimeAssumption DEF IInv, TypeOK, Sys, timers, history
<1>5. LoopState' /\ NoLostWakeup'
  BY <1>1, <1>2, <1>3 DEF IInv, LoopState, NoLostWakeup
<1> QED
  BY <1>1, <1>4, <1>5
     DEF IInv, ListsOK, PulseRuns, InvokedIsLinked, ShortPromise, history

\* Every step preserves the invariant.
LEMMA NextIInv == IInv /\ [Next]_vars => IInv'
<1> SUFFICES ASSUME IInv, [Next]_vars PROVE IInv'
  OBVIOUS
<1>1. CASE Tick
  BY <1>1, TickIInv
<1>2. ASSUME NEW t \in Timers, User(t) PROVE IInv'
  BY <1>2, ActivateIInv, DeactivateIInv, SetIntervalIInv, RescheduleIInv, ScaleIInv DEF User
<1>3. CASE Dispatch
  BY <1>3, EnterLoopIInv, FireTimerIInv, CallbackReturnIInv, FirePulseIInv, PulseMoveIInv,
     PulseReturnIInv, LeaveLoopIInv DEF Dispatch, SystemTimeout, DispatchTimeouts
<1>4. CASE UNCHANGED vars
  BY <1>4 DEF vars, timers, history, IInv, TypeOK, ListsOK, PulseRuns, InvokedIsLinked,
              NoLostWakeup, ShortPromise, LoopState
<1> QED
  BY <1>1, <1>2, <1>3, <1>4 DEF Next

-----------------------------------------------------------------------------
(* The theorems.                                                           *)

\* protoTimer.cpp: whatever the callbacks do, the invariant holds.
THEOREM Invariance == Spec => []IInv
<1>1. Init => IInv
  BY InitIInv
<1>2. IInv /\ [Next]_vars => IInv'
  BY NextIInv
<1> QED
  BY <1>1, <1>2, PTL DEF Spec

\* The variables of ProtoTimerMgr keep their types.
THEOREM TypeCorrect == Spec => []TypeOK
<1>1. IInv => TypeOK
  BY DEF IInv
<1> QED
  BY <1>1, Invariance, PTL

\* InsertShortTimer, InsertLongTimer and the removals keep both lists sorted
\* and free of duplicates, across callbacks that relink any timer.
THEOREM ListsAreSound == Spec => []ListsOK
<1>1. IInv => ListsOK
  BY DEF IInv
<1> QED
  BY <1>1, Invariance, PTL

\* The pulse timer is active exactly while a long timer is.
THEOREM PulseRunsWhenNeeded == Spec => []PulseRuns
<1>1. IInv => PulseRuns
  BY DEF IInv
<1> QED
  BY <1>1, Invariance, PTL

\* After a callback invoked_timer, unless NULL, is still linked in the short
\* list, so OnSystemTimeout may unlink it.
THEOREM InvokedStaysLinked == Spec => []InvokedIsLinked
<1>1. IInv => InvokedIsLinked
  BY DEF IInv
<1> QED
  BY <1>1, Invariance, PTL

\* Update always leaves the system timer set for the first short timer.
THEOREM NoWakeupIsLost == Spec => []NoLostWakeup
<1>1. IInv => NoLostWakeup
  BY DEF IInv
<1> QED
  BY <1>1, Invariance, PTL

\* A timer that stayed in the short list never fires before its interval,
\* whatever the clock, the callbacks and late loops do.
THEOREM ShortTimersAreNeverEarly == Spec => []ShortNeverEarly
<1>1. IInv => ShortNeverEarly
  <2> SUFFICES ASSUME IInv, phase = "callback", invoked # NoTimer, ~byPulse[invoked]
               PROVE  due[invoked] <= now
    BY DEF ShortNeverEarly
  <2>1. invoked \in Timers /\ mgr.timeout[invoked] <= loopNow /\ loopNow <= now
    BY DEF IInv, TypeOK, LoopState, AllTimers
  <2>2. due[invoked] <= mgr.timeout[invoked]
    BY <2>1 DEF IInv, InvokedIsLinked, ShortPromise, IsActive, IsPrecise
  <2>3. /\ due[invoked] \in Int /\ mgr.timeout[invoked] \in Int
        /\ loopNow \in Int /\ now \in Int
    BY <2>1, PulseRunsMeans, MgrFields DEF IInv, TypeOK, AllTimers, Good
  <2> QED
    BY <2>1, <2>2, <2>3
<1> QED
  BY <1>1, Invariance, PTL

-----------------------------------------------------------------------------
(* How early a timer the pulse timed may be.                               *)

\* Time t, at which something is due, is at most MaxLag after the time at.
Within(t, at) == t <= at + MaxLag

\* The lists m keep what was promised at time t, d being the times the timers are
\* due: the first timers are not served too late, the pulse is at most a pulse
\* away, and a long timer is far from it, and due no more than MaxLag later than
\* the pulses it still has to wait for will take.
Timed(m, mark, t, d) ==
    /\ \A x \in ToSet(m.short) : Within(t, m.timeout[x])
    /\ Pulse \in ToSet(m.short) => m.timeout[Pulse] <= t + PulseInterval
    /\ \A x \in ToSet(m.short) \cap Timers : Within(d[x], m.timeout[x])
    /\ \A x \in ToSet(m.long) :
          /\ m.timeout[x] - mark >= PrecisionThreshold
          /\ Within(d[x], m.timeout[Pulse] + (m.timeout[x] - mark) - PulseInterval)

\* pulse_mark as it was before the pulse that is being handled.
MarkBefore == IF phase = "pulse" THEN mgr.pulseMark - PulseInterval ELSE mgr.pulseMark

\* What OnSystemTimeout knows of the pulse while it handles it or another timer.
PulseOrder ==
    /\ phase = "pulse" => mgr.timeout[Pulse] <= loopNow
    /\ phase = "callback" /\ invoked # NoTimer /\ Pulse \in ToSet(mgr.short) =>
          mgr.timeout[invoked] <= mgr.timeout[Pulse]

\* A pulse that runs in r ran in m to the same timeout, or started at time t.
PulseKept(m, r, t) ==
    Pulse \in ToSet(r.short) =>
        \/ Pulse \in ToSet(m.short) /\ r.timeout[Pulse] = m.timeout[Pulse]
        \/ r.timeout[Pulse] = t + PulseInterval

Timing == Timed(mgr, MarkBefore, now, due) /\ PulseOrder

\* Taking timers out of the lists breaks no promise.
LEMMA TimedFewer ==
    ASSUME NEW m, NEW r, NEW mark, NEW t, NEW d, Timed(m, mark, t, d),
           ToSet(r.short) \subseteq ToSet(m.short), ToSet(r.long) \subseteq ToSet(m.long),
           r.timeout = m.timeout
    PROVE  Timed(r, mark, t, d)
  BY DEF Timed

\* Nothing is timed later than MaxLag, or a pulse, in integers.
LEMMA TimeFacts ==
    ASSUME NEW m, Good(m)
    PROVE  /\ \A x \in AllTimers : m.timeout[x] \in Int
           /\ m.pulseMark \in Int
           /\ ToSet(m.short) \subseteq AllTimers /\ ToSet(m.long) \subseteq Timers
           /\ Timers \subseteq AllTimers /\ Pulse \in AllTimers /\ Pulse \notin Timers
           /\ MaxLag \in Nat /\ PulseInterval \in Nat \ {0} /\ PrecisionThreshold \in Nat
           /\ PulseInterval < PrecisionThreshold
<1>1. m \in Mgr
  BY DEF Good
<1> QED
  BY <1>1, MgrFields, PulseAssumption, TimeAssumption DEF AllTimers

\* A user's timer is linked in the short list: what that changes.
LEMMA ShortLinked ==
    ASSUME NEW m, Good(m), NEW x \in Timers, x \notin Active(m), NEW at \in Int,
           NEW r, r = InsertShortTimer(m, x, at)
    PROVE  /\ ToSet(r.short) = ToSet(m.short) \cup {x}
           /\ r.long = m.long /\ x \notin ToSet(m.long)
           /\ r.pulseMark = m.pulseMark
           /\ r.timeout[x] = at
           /\ \A y \in AllTimers \ {x} : r.timeout[y] = m.timeout[y]
<1>1. x \in AllTimers
  BY TimeFacts
<1>2. /\ Good(r)
      /\ ToSet(r.short) = ToSet(m.short) \cup {x}
      /\ r.long = m.long
      /\ r.pulseMark = m.pulseMark
      /\ r.timeout[x] = at
      /\ \A y \in AllTimers \ {x} : r.timeout[y] = m.timeout[y]
  BY <1>1, InsertShortProperties
<1> QED
  BY <1>2 DEF Active

\* ... which keeps the promises if it is linked not too late and not too early.
LEMMA TimedShort ==
    ASSUME NEW m, Good(m), NEW x \in Timers, NEW r, NEW at,
           ToSet(r.short) = ToSet(m.short) \cup {x},
           r.long = m.long, x \notin ToSet(m.long),
           r.timeout[x] = at,
           \A y \in AllTimers \ {x} : r.timeout[y] = m.timeout[y],
           NEW mark, NEW t, NEW d, NEW e, Timed(m, mark, t, d),
           Within(t, at), Within(e[x], at),
           \A y \in Timers \ {x} : e[y] = d[y]
    PROVE  Timed(r, mark, t, e)
<1>1. /\ x # Pulse /\ Pulse \in AllTimers
      /\ ToSet(m.short) \subseteq AllTimers /\ ToSet(m.long) \subseteq Timers
      /\ Timers \subseteq AllTimers
  BY TimeFacts
<1> QED
  BY <1>1 DEF Timed

\* What the short list is when the pulse is put into it.
LEMMA PulseInserted ==
    ASSUME NEW m, Good(m), Pulse \notin Active(m), NEW at \in Int,
           NEW p, p = InsertShortTimer(m, Pulse, at)
    PROVE  /\ Good(p)
           /\ ToSet(p.short) = ToSet(m.short) \cup {Pulse}
           /\ p.long = m.long
           /\ p.pulseMark = m.pulseMark
           /\ p.timeout[Pulse] = at
           /\ \A y \in AllTimers \ {Pulse} : p.timeout[y] = m.timeout[y]
<1>1. PICK x \in AllTimers : x = Pulse
  BY TimeFacts
<1>2. x \notin Active(m) /\ p = InsertShortTimer(m, x, at)
  BY <1>1
<1>3. /\ Good(p)
      /\ ToSet(p.short) = ToSet(m.short) \cup {x}
      /\ p.long = m.long
      /\ p.pulseMark = m.pulseMark
      /\ p.timeout[x] = at
      /\ \A y \in AllTimers \ {x} : p.timeout[y] = m.timeout[y]
  BY <1>2, InsertShortProperties
<1> QED
  BY <1>1, <1>3

\* The pulse is started if it was not running: what that changes.
LEMMA PulseLinked ==
    ASSUME NEW m, Good(m), PulseWithLong(m), NEW t \in Int,
           NEW p, p = ActivatePulse(m, t)
    PROVE  /\ Good(p) /\ Active(p) = Active(m) \cup {Pulse} /\ Pulse \in ToSet(p.short)
           /\ p.long = m.long
           /\ \/ p = m
              \/ /\ p.timeout[Pulse] = t + PulseInterval /\ p.long = <<>>
                 /\ ToSet(p.short) = ToSet(m.short) \cup {Pulse}
                 /\ \A y \in Timers : p.timeout[y] = m.timeout[y]
                 /\ p.pulseMark = t
<1>0. Pulse \in AllTimers /\ Pulse \notin ToSet(m.long) /\ t + PulseInterval \in Int
  BY TimeFacts
<1>1. CASE Pulse \in ToSet(m.short)
  BY <1>1 DEF ActivatePulse, IsActive, Active
<1>2. CASE Pulse \notin ToSet(m.short)
  <2>1. PICK started : started = [m EXCEPT !.pulseMark = t]
    OBVIOUS
  <2>2. /\ started.short = m.short /\ started.long = m.long
        /\ started.timeout = m.timeout /\ started \in Mgr /\ started.pulseMark = t
    BY <2>1 DEF Good, Mgr
  <2>3. Good(started) /\ Pulse \notin Active(started) /\ m.long = <<>>
    BY <1>0, <1>2, <2>2 DEF Good, ListsOf, Active, PulseWithLong
  <2>4. PICK at \in Int : at = t + PulseInterval /\ p = InsertShortTimer(started, Pulse, at)
    BY <1>0, <1>2, <2>1 DEF ActivatePulse, IsActive
  <2>5. p = InsertShortTimer(started, Pulse, at)
    BY <2>4
  <2>6. /\ Good(p)
        /\ ToSet(p.short) = ToSet(started.short) \cup {Pulse}
        /\ p.long = started.long
        /\ p.pulseMark = started.pulseMark
        /\ p.timeout[Pulse] = at
        /\ \A y \in AllTimers \ {Pulse} : p.timeout[y] = started.timeout[y]
    BY <2>3, <2>5, PulseInserted
  <2>7. \A y \in Timers : y \in AllTimers \ {Pulse}
    BY TimeFacts
  <2> QED
    BY <2>2, <2>3, <2>4, <2>6, <2>7 DEF Active
<1> QED
  BY <1>1, <1>2

\* The timeout, in pulses, that ActivateLongTimer gives a timer.
LongTimeout(p, i, t) == GetPulseTime(p, t) + i

\* That is far from pulse_mark, and within MaxLag of the time it is due.
LEMMA PulseTime ==
    ASSUME NEW p, Good(p), NEW t \in Int, NEW i \in Int, i >= PrecisionThreshold,
           p.timeout[Pulse] <= t + PulseInterval,
           NEW due1 \in Int, Within(due1, t + i), Within(due1, p.timeout[Pulse] + i)
    PROVE  /\ LongTimeout(p, i, t) \in Int
           /\ LongTimeout(p, i, t) - p.pulseMark >= PrecisionThreshold
           /\ Within(due1, p.timeout[Pulse] + (LongTimeout(p, i, t) - p.pulseMark) - PulseInterval)
<1>0. MaxLag \in Nat /\ PulseInterval \in Nat \ {0} /\ PrecisionThreshold \in Nat
  BY TimeFacts
<1>1. PICK tp \in Int, mark \in Int : tp = p.timeout[Pulse] /\ mark = p.pulseMark
  BY TimeFacts
<1>2. PICK remaining \in Int : /\ remaining = GetTimeRemaining(p, Pulse, t)
                               /\ remaining = IF tp - t < 0 THEN 0 ELSE tp - t
  BY <1>1 DEF GetTimeRemaining, MaxOf
<1>3. PICK at \in Int : /\ at = LongTimeout(p, i, t)
                        /\ at = mark + (PulseInterval - remaining) + i
  BY <1>0, <1>1, <1>2 DEF GetPulseTime, LongTimeout
<1>4. at - mark >= PrecisionThreshold
  BY <1>0, <1>1, <1>2, <1>3
<1>5. Within(due1, tp + (at - mark) - PulseInterval)
  <2>1. tp + (at - mark) - PulseInterval = tp - remaining + i
    BY <1>0, <1>2, <1>3
  <2>2. due1 <= t + i + MaxLag /\ due1 <= tp + i + MaxLag
    BY <1>1 DEF Within
  <2>3. due1 <= tp - remaining + i + MaxLag
    BY <1>0, <1>2, <2>2
  <2> QED
    BY <1>0, <2>1, <2>3 DEF Within
<1>6. LongTimeout(p, i, t) \in Int /\ p.pulseMark \in Int /\ p.timeout[Pulse] \in Int
  BY <1>1, <1>3
<1> QED
  BY <1>0, <1>1, <1>3, <1>4, <1>5, <1>6 DEF Within

\* A user's timer is linked in the long list: what that changes.
LEMMA LongLinked ==
    ASSUME NEW p, Good(p), NEW x \in Timers, x \notin Active(p), NEW at \in Int,
           NEW r, r = InsertLongTimer(p, x, at)
    PROVE  /\ x \notin ToSet(p.short) /\ x \notin ToSet(p.long)
           /\ ToSet(r.long) = ToSet(p.long) \cup {x}
           /\ r.short = p.short
           /\ r.pulseMark = p.pulseMark
           /\ r.timeout[x] = at
           /\ \A y \in AllTimers \ {x} : r.timeout[y] = p.timeout[y]
<1>1. /\ Good(r)
      /\ ToSet(r.long) = ToSet(p.long) \cup {x}
      /\ r.long # <<>>
      /\ r.short = p.short
      /\ r.pulseMark = p.pulseMark
      /\ r.timeout[x] = at
      /\ \A y \in AllTimers \ {x} : r.timeout[y] = p.timeout[y]
  BY InsertLongProperties
<1> QED
  BY <1>1 DEF Active

\* ActivateLongTimer keeps the promises: x is due i ticks after t or, if the pulse
\* is overdue, after the pulse, give or take MaxLag.
LEMMA TimedActivateLong ==
    ASSUME NEW m, Good(m), PulseWithLong(m), NEW x \in Timers, x \notin Active(m),
           NEW i \in Int, i >= PrecisionThreshold,
           NEW t \in Int, NEW d, NEW e, Timed(m, m.pulseMark, t, d), e[x] \in Int,
           Within(e[x], t + i),
           Pulse \in ToSet(m.short) => Within(e[x], m.timeout[Pulse] + i),
           \A y \in Timers \ {x} : e[y] = d[y],
           NEW r, r = ActivateLongTimer(m, x, i, t)
    PROVE  Timed(r, r.pulseMark, t, e) /\ PulseKept(m, r, t)
<1>0. MaxLag \in Nat /\ PulseInterval \in Nat \ {0} /\ x # Pulse
  BY TimeFacts
<1>1. PICK p : p = ActivatePulse(m, t)
  OBVIOUS
<1>2. /\ Good(p) /\ Active(p) = Active(m) \cup {Pulse} /\ Pulse \in ToSet(p.short)
      /\ \/ p = m
         \/ /\ p.timeout[Pulse] = t + PulseInterval /\ p.long = <<>>
            /\ ToSet(p.short) = ToSet(m.short) \cup {Pulse}
            /\ \A y \in Timers : p.timeout[y] = m.timeout[y]
  BY <1>1, PulseLinked
<1>3. /\ Timed(p, p.pulseMark, t, d)
      /\ p.timeout[Pulse] <= t + PulseInterval
      /\ Within(e[x], p.timeout[Pulse] + i)
      /\ PulseKept(m, p, t)
  <2>1. CASE p = m
    BY <1>2, <2>1 DEF Timed, PulseKept
  <2>2. CASE p # m
    <3>1. ToSet(p.long) = {} /\ ToSet(m.short) \subseteq AllTimers
      BY <1>2, <2>2, MgrFields DEF Good
    <3>2. Within(t, p.timeout[Pulse]) /\ Within(e[x], p.timeout[Pulse] + i)
      BY <1>0, <1>2, <2>2 DEF Within
    <3>3. \A y \in ToSet(m.short) \ {Pulse} : y \in Timers
      BY <3>1 DEF AllTimers
    <3>4. p.timeout[Pulse] = t + PulseInterval /\ p.timeout[Pulse] <= t + PulseInterval
      BY <1>0, <1>2, <2>2
    <3>5. Timed(p, p.pulseMark, t, d)
      BY <1>2, <2>2, <3>1, <3>2, <3>3, <3>4, PulseAssumption DEF Timed
    <3> QED
      BY <3>2, <3>4, <3>5 DEF PulseKept
  <2> QED
    BY <2>1, <2>2
<1>4. PICK at \in Int :
         /\ at = LongTimeout(p, i, t)
         /\ at - p.pulseMark >= PrecisionThreshold
         /\ Within(e[x], p.timeout[Pulse] + (at - p.pulseMark) - PulseInterval)
  BY <1>2, <1>3, PulseTime
<1>5. r = InsertLongTimer(p, x, at) /\ x \notin Active(p)
  BY <1>0, <1>1, <1>2, <1>4 DEF ActivateLongTimer, LongTimeout
<1>6. /\ x \notin ToSet(p.short) /\ x \notin ToSet(p.long)
      /\ ToSet(r.long) = ToSet(p.long) \cup {x} /\ r.short = p.short
      /\ r.pulseMark = p.pulseMark /\ r.timeout[x] = at
      /\ \A y \in AllTimers \ {x} : r.timeout[y] = p.timeout[y]
  BY <1>2, <1>5, LongLinked
<1>7. Timed(r, p.pulseMark, t, e) /\ r.timeout[Pulse] = p.timeout[Pulse]
  <2>1. /\ Pulse \in AllTimers /\ Timers \subseteq AllTimers
        /\ ToSet(p.short) \subseteq AllTimers /\ ToSet(p.long) \subseteq Timers
    BY <1>2, TimeFacts
  <2>2. r.timeout[Pulse] = p.timeout[Pulse]
    BY <1>0, <1>6, <2>1
  <2> QED
    BY <1>2, <1>3, <1>4, <1>6, <2>1, <2>2 DEF Timed
<1> QED
  BY <1>3, <1>6, <1>7 DEF PulseKept

\* ActivateTimer keeps the promises.
LEMMA TimedActivate ==
    ASSUME NEW m, Good(m), PulseWithLong(m), NEW x \in Timers, x \notin Active(m),
           NEW i \in Int, i >= 0,
           NEW t \in Int, NEW d, NEW e, Timed(m, m.pulseMark, t, d), e[x] = t + i,
           \A y \in Timers \ {x} : e[y] = d[y],
           NEW r, r = ActivateTimer(m, x, i, t)
    PROVE  Timed(r, r.pulseMark, t, e) /\ PulseKept(m, r, t)
<1>0. MaxLag \in Nat /\ PrecisionThreshold \in Nat
  BY TimeFacts
<1>1. PICK at \in Int : at = t + i
  OBVIOUS
<1>2. Within(t, at) /\ Within(e[x], at)
  BY <1>0, <1>1 DEF Within
<1>3. CASE i < PrecisionThreshold
  <2>1. r = InsertShortTimer(m, x, at)
    BY <1>1, <1>3 DEF ActivateTimer
  <2>2. /\ ToSet(r.short) = ToSet(m.short) \cup {x}
        /\ r.long = m.long /\ x \notin ToSet(m.long)
        /\ r.pulseMark = m.pulseMark
        /\ r.timeout[x] = at
        /\ \A y \in AllTimers \ {x} : r.timeout[y] = m.timeout[y]
    BY <2>1, ShortLinked
  <2>3. Timed(r, r.pulseMark, t, e)
    BY <1>2, <2>2, TimedShort
  <2>4. PulseKept(m, r, t)
    BY <2>2, PulseAssumption DEF PulseKept, AllTimers
  <2> QED
    BY <2>3, <2>4
<1>4. CASE ~(i < PrecisionThreshold)
  <2>1. r = ActivateLongTimer(m, x, i, t) /\ i >= PrecisionThreshold
    BY <1>0, <1>4 DEF ActivateTimer
  <2>2. e[x] \in Int /\ Within(e[x], t + i)
    BY <1>1, <1>2
  <2>3. ASSUME Pulse \in ToSet(m.short) PROVE Within(e[x], m.timeout[Pulse] + i)
    <3>1. Within(t, m.timeout[Pulse]) /\ m.timeout[Pulse] \in Int
      BY <2>3, TimeFacts DEF Timed
    <3> QED
      BY <3>1, <1>0 DEF Within
  <2> QED
    BY <2>1, <2>2, <2>3, TimedActivateLong
<1> QED
  BY <1>3, <1>4

\* ReactivateTimer keeps the promises for a timer that was just served.
LEMMA TimedReactivate ==
    ASSUME NEW m, Good(m), PulseWithLong(m), NEW x \in Timers, x \notin Active(m),
           NEW i \in Int, i >= 0,
           NEW t \in Int, NEW d, NEW e, Timed(m, m.pulseMark, t, d),
           NEW latched \in Int, latched <= t,
           Within(t, m.timeout[x]), m.timeout[x] <= t,
           Pulse \in ToSet(m.short) => m.timeout[x] <= m.timeout[Pulse],
           d[x] \in Int, Within(d[x], m.timeout[x]), e[x] = d[x] + i,
           \A y \in Timers \ {x} : e[y] = d[y],
           NEW r, r = ReactivateTimer(m, x, i, t, latched)
    PROVE  Timed(r, r.pulseMark, t, e)
<1>0. MaxLag \in Nat /\ PrecisionThreshold \in Nat /\ m.timeout[x] \in Int
  BY TimeFacts
<1>1. CASE i < PrecisionThreshold
  <2>1. PICK at \in Int : /\ at = IF m.timeout[x] + i < latched THEN t ELSE m.timeout[x] + i
                          /\ r = InsertShortTimer(m, x, at)
    BY <1>0, <1>1 DEF ReactivateTimer
  <2>2. Within(t, at) /\ Within(e[x], at)
    BY <1>0, <2>1 DEF Within
  <2>3. r = InsertShortTimer(m, x, at)
    BY <2>1
  <2>4. /\ ToSet(r.short) = ToSet(m.short) \cup {x}
        /\ r.long = m.long /\ x \notin ToSet(m.long)
        /\ r.pulseMark = m.pulseMark
        /\ r.timeout[x] = at
        /\ \A y \in AllTimers \ {x} : r.timeout[y] = m.timeout[y]
    BY <2>3, ShortLinked
  <2> QED
    BY <2>2, <2>4, TimedShort
<1>2. CASE ~(i < PrecisionThreshold)
  <2>1. r = ActivateLongTimer(m, x, i, t) /\ i >= PrecisionThreshold
    BY <1>0, <1>2 DEF ReactivateTimer
  <2>2. e[x] \in Int /\ Within(e[x], t + i)
    BY <1>0 DEF Within
  <2>3. ASSUME Pulse \in ToSet(m.short) PROVE Within(e[x], m.timeout[Pulse] + i)
    <3>1. m.timeout[Pulse] \in Int
      BY TimeFacts
    <3> QED
      BY <2>3, <3>1, <1>0 DEF Within
  <2> QED
    BY <2>1, <2>2, <2>3, TimedActivateLong
<1> QED
  BY <1>1, <1>2

\* DeactivateTimer only takes out, and leaves the times as they are.
LEMMA DeactivateFewer ==
    ASSUME NEW m, Good(m), NEW x \in Timers, x \in Active(m),
           NEW r, r = DeactivateTimer(m, x)
    PROVE  /\ ToSet(r.short) \subseteq ToSet(m.short) /\ ToSet(r.long) \subseteq ToSet(m.long)
           /\ r.timeout = m.timeout /\ r.pulseMark = m.pulseMark
<1>1. CASE x \in ToSet(m.short)
  <2>1. r = RemoveShortTimer(m, x)
    BY <1>1 DEF DeactivateTimer, IsPrecise
  <2> QED
    BY <1>1, <2>1, RemoveShortProperties
<1>2. CASE x \notin ToSet(m.short)
  <2>1. PICK l : l = RemoveLongTimer(m, x)
    OBVIOUS
  <2>2. x \in ToSet(m.long)
    BY <1>2 DEF Active
  <2>3. /\ Good(l) /\ ToSet(l.long) = ToSet(m.long) \ {x}
        /\ l.short = m.short /\ l.timeout = m.timeout /\ l.pulseMark = m.pulseMark
    BY <2>1, <2>2, RemoveLongProperties
  <2>4. r = l \/ (Pulse \in ToSet(l.short) /\ r = RemoveShortTimer(l, Pulse))
    BY <1>2, <2>1 DEF DeactivateTimer, IsPrecise
  <2>5. ASSUME Pulse \in ToSet(l.short), r = RemoveShortTimer(l, Pulse)
        PROVE  /\ ToSet(r.short) = ToSet(l.short) \ {Pulse}
               /\ r.long = l.long /\ r.timeout = l.timeout /\ r.pulseMark = l.pulseMark
    BY <2>3, <2>5, RemoveShortProperties
  <2> QED
    BY <2>3, <2>4, <2>5
<1> QED
  BY <1>1, <1>2

\* What the user's operations on a timer t have in common.
LEMMA UserTiming ==
    ASSUME IInv, Timing, NEW t \in Timers, phase \in {"idle", "callback"},
           Timed(mgr', mgr'.pulseMark, now, due'), PulseKept(mgr, mgr', now),
           SameBut(mgr, mgr', t),
           invoked' = NoTimer \/ (invoked' = invoked /\ invoked # t),
           UNCHANGED <<now, phase, loopNow>>
    PROVE  Timing'
<1>1. Timed(mgr', MarkBefore', now', due')
  BY DEF MarkBefore
<1>2. ASSUME phase' = "callback", invoked' # NoTimer, Pulse \in ToSet(mgr'.short)
      PROVE  mgr'.timeout[invoked'] <= mgr'.timeout[Pulse]
  <2>1. phase = "callback" /\ invoked' = invoked /\ invoked # t /\ invoked \in Timers
        /\ mgr.timeout[invoked] <= loopNow /\ loopNow <= now
    BY <1>2 DEF IInv, TypeOK, LoopState, AllTimers
  <2>2. mgr'.timeout[invoked'] = mgr.timeout[invoked]
    BY <2>1 DEF SameBut
  <2>3. /\ mgr.timeout[invoked] \in Int /\ now \in Int /\ loopNow \in Int
        /\ PulseInterval \in Nat /\ mgr.timeout[Pulse] \in Int
    BY <2>1, PulseRunsMeans, TimeFacts
  <2>4. CASE Pulse \in ToSet(mgr.short) /\ mgr'.timeout[Pulse] = mgr.timeout[Pulse]
    BY <1>2, <2>1, <2>2, <2>4 DEF Timing, PulseOrder
  <2>5. CASE mgr'.timeout[Pulse] = now + PulseInterval
    BY <2>1, <2>2, <2>3, <2>5
  <2> QED
    BY <1>2, <2>4, <2>5 DEF PulseKept
<1> QED
  BY <1>1, <1>2 DEF Timing, PulseOrder

\* The head of a sorted list comes first.
LEMMA HeadIsFirst ==
    ASSUME NEW S, NEW s \in Seq(S), NEW timeout, \A y \in S : timeout[y] \in Int,
           SortedBy(s, timeout), NEW x \in ToSet(s)
    PROVE  Head(s) \in S /\ timeout[Head(s)] <= timeout[x]
<1>1. PICK j \in 1..Len(s) : s[j] = x
  BY DEF ToSet
<1>2. s # <<>> /\ Len(s) \in Nat \ {0} /\ Head(s) = s[1] /\ s[1] \in S
  BY <1>1, EmptySeq
<1>3. CASE j = 1
  BY <1>1, <1>2, <1>3
<1>4. CASE j # 1
  BY <1>1, <1>2, <1>4 DEF SortedBy
<1> QED
  BY <1>2, <1>3, <1>4

LEMMA InitTiming == Init => Timing
<1> SUFFICES ASSUME Init PROVE Timing
  OBVIOUS
<1>1. ToSet(mgr.short) = {} /\ ToSet(mgr.long) = {} /\ phase = "idle"
  BY DEF Init, ToSet
<1> QED
  BY <1>1 DEF Timing, Timed, PulseOrder

\* The clock stops before the first timer is more than MaxLag late.
LEMMA TickTiming == IInv /\ Timing /\ Tick => Timing'
<1> SUFFICES ASSUME IInv, Timing, Tick PROVE Timing'
  OBVIOUS
<1>1. /\ now' = now + 1
      /\ mgr.short # <<>> => now < mgr.timeout[Head(mgr.short)] + MaxLag
      /\ mgr' = mgr /\ phase' = phase /\ invoked' = invoked /\ loopNow' = loopNow /\ due' = due
  BY DEF Tick, history
<1>2. Good(mgr) /\ now \in Int
  BY PulseRunsMeans
<1>3. /\ \A x \in AllTimers : mgr.timeout[x] \in Int
      /\ ToSet(mgr.short) \subseteq AllTimers
      /\ MaxLag \in Nat /\ PulseInterval \in Nat
      /\ mgr.short \in Seq(AllTimers)
  BY <1>2, TimeFacts, MgrFields DEF Good
<1>4. ASSUME NEW x \in ToSet(mgr.short) PROVE Within(now + 1, mgr.timeout[x])
  <2>1. Head(mgr.short) \in AllTimers /\ mgr.timeout[Head(mgr.short)] <= mgr.timeout[x]
    BY <1>2, <1>3, HeadIsFirst DEF Good, ListsOf
  <2>2. mgr.short # <<>>
    BY <1>4 DEF ToSet
  <2>3. mgr.timeout[Head(mgr.short)] \in Int /\ mgr.timeout[x] \in Int
    BY <1>3, <1>4, <2>1
  <2> QED
    BY <1>1, <1>2, <1>3, <2>1, <2>2, <2>3 DEF Within
<1>5. Pulse \in ToSet(mgr.short) => mgr.timeout[Pulse] <= now + 1 + PulseInterval
  <2>1. Pulse \in ToSet(mgr.short) => mgr.timeout[Pulse] <= now + PulseInterval
    BY DEF Timing, Timed
  <2> QED
    BY <1>2, <1>3, <2>1 DEF AllTimers
<1>6. Timed(mgr, MarkBefore, now + 1, due)
  BY <1>4, <1>5 DEF Timing, Timed
<1>7. MarkBefore' = MarkBefore
  BY <1>1 DEF MarkBefore
<1>8. PulseOrder'
  BY <1>1 DEF Timing, PulseOrder
<1> QED
  BY <1>1, <1>6, <1>7, <1>8 DEF Timing

\* Activate, Reschedule and Scale; m is the manager's lists without t.
LEMMA ArmTiming ==
    ASSUME IInv, Timing, NEW t \in Timers, NEW i \in Nat, NEW m,
           phase \in {"idle", "callback"},
           Good(m), PulseWithLong(m), t \notin Active(m), SameBut(mgr, m, t),
           ToSet(m.short) \subseteq ToSet(mgr.short), ToSet(m.long) \subseteq ToSet(mgr.long),
           m.timeout = mgr.timeout, m.pulseMark = mgr.pulseMark,
           Arm(t, i, m),
           invoked' = NoTimer \/ (invoked' = invoked /\ invoked # t),
           UNCHANGED <<now, phase, loopNow>>
    PROVE  Timing'
<1>1. Good(mgr') /\ PulseWithLong(mgr') /\ SameBut(mgr, mgr', t)
  BY ArmStep
<1>2. /\ mgr' = ActivateTimer(m, t, i, now) /\ due' = [due EXCEPT ![t] = now + i]
      /\ due \in [Timers -> Nat] /\ now \in Int /\ i \in Int /\ i >= 0
  BY PulseRunsMeans DEF Arm, IInv, TypeOK
<1>3. due'[t] = now + i /\ \A y \in Timers \ {t} : due'[y] = due[y]
  BY <1>2
<1>4. Timed(m, m.pulseMark, now, due)
  <2>1. Timed(mgr, mgr.pulseMark, now, due)
    BY DEF Timing, MarkBefore
  <2> QED
    BY <2>1, TimedFewer
<1>5. Timed(mgr', mgr'.pulseMark, now, due') /\ PulseKept(m, mgr', now)
  BY <1>2, <1>3, <1>4, TimedActivate
<1>6. PulseKept(mgr, mgr', now)
  BY <1>5 DEF PulseKept
<1> QED
  BY <1>1, <1>5, <1>6, UserTiming

LEMMA ActivateTiming ==
    ASSUME IInv, Timing, NEW t \in Timers, NEW i \in Intervals, NEW n \in Repeats,
           Activate(t, i, n)
    PROVE  Timing'
<1>1. /\ phase \in {"idle", "callback"} /\ t \notin Active(mgr)
      /\ Arm(t, i, mgr) /\ i \in Nat
      /\ UNCHANGED <<now, phase, invoked, loopNow>>
  BY PulseRunsMeans, TimeAssumption DEF Activate, UserMayRun
<1>2. Good(mgr) /\ PulseWithLong(mgr) /\ SameBut(mgr, mgr, t)
  BY <1>1, PulseRunsMeans DEF SameBut
<1>3. invoked' = NoTimer \/ (invoked' = invoked /\ invoked # t)
  BY <1>1 DEF IInv, InvokedIsLinked, IsPrecise, Active
<1> QED
  BY <1>1, <1>2, <1>3, ArmTiming

LEMMA DeactivateTiming ==
    ASSUME IInv, Timing, NEW t \in Timers, Deactivate(t)
    PROVE  Timing'
<1>1. /\ phase \in {"idle", "callback"} /\ t \in Active(mgr)
      /\ mgr' = DeactivateTimer(mgr, t)
      /\ invoked' = IF invoked = t THEN NoTimer ELSE invoked
      /\ due' = due
      /\ UNCHANGED <<now, phase, loopNow>>
  BY PulseRunsMeans DEF Deactivate, UserMayRun, ForgetInvoked, history
<1>2. SameBut(mgr, mgr', t)
  BY <1>1, PulseRunsMeans, DeactivateProperties
<1>3. /\ ToSet(mgr'.short) \subseteq ToSet(mgr.short)
      /\ ToSet(mgr'.long) \subseteq ToSet(mgr.long)
      /\ mgr'.timeout = mgr.timeout /\ mgr'.pulseMark = mgr.pulseMark
  BY <1>1, PulseRunsMeans, DeactivateFewer
<1>4. Timed(mgr', mgr'.pulseMark, now, due')
  <2>1. Timed(mgr, mgr.pulseMark, now, due)
    BY <1>1 DEF Timing, MarkBefore
  <2> QED
    BY <1>1, <1>3, <2>1, TimedFewer
<1>5. PulseKept(mgr, mgr', now)
  BY <1>3 DEF PulseKept
<1>6. invoked' = NoTimer \/ (invoked' = invoked /\ invoked # t)
  BY <1>1
<1> QED
  BY <1>1, <1>2, <1>4, <1>5, <1>6, UserTiming

LEMMA RearmTiming ==
    ASSUME IInv, Timing, NEW t \in Timers, NEW i \in Nat, UserMayRun, IsActive(mgr, t),
           Arm(t, i, DeactivateTimer(mgr, t)), ForgetInvoked(t),
           UNCHANGED <<now, phase, loopNow>>
    PROVE  Timing'
<1>1. phase \in {"idle", "callback"} /\ t \in Active(mgr) /\ Good(mgr) /\ PulseWithLong(mgr)
  BY PulseRunsMeans DEF UserMayRun
<1>2. PICK m : m = DeactivateTimer(mgr, t)
  OBVIOUS
<1>3. /\ Good(m) /\ PulseWithLong(m) /\ t \notin Active(m) /\ SameBut(mgr, m, t)
      /\ ToSet(m.short) \subseteq ToSet(mgr.short) /\ ToSet(m.long) \subseteq ToSet(mgr.long)
      /\ m.timeout = mgr.timeout /\ m.pulseMark = mgr.pulseMark
  BY <1>1, <1>2, DeactivateProperties, DeactivateFewer
<1>4. Arm(t, i, m) /\ (invoked' = NoTimer \/ (invoked' = invoked /\ invoked # t))
  BY <1>2 DEF ForgetInvoked
<1> QED
  BY <1>1, <1>3, <1>4, ArmTiming

LEMMA ScaleTiming ==
    ASSUME IInv, Timing, NEW t \in Timers, NEW factor \in Factors, Scale(t, factor)
    PROVE  Timing'
<1> DEFINE remaining == GetTimeRemaining(mgr, t, now)
<1>1. UserMayRun /\ IsActive(mgr, t) /\ UNCHANGED <<now, phase, loopNow>>
  BY DEF Scale
<1>2. CASE remaining > 0
  <2>1. /\ Scaled(factor, remaining) \in 1..MaxTime
        /\ Arm(t, Scaled(factor, remaining), DeactivateTimer(mgr, t))
        /\ ForgetInvoked(t)
    BY <1>2 DEF Scale
  <2>2. PICK i \in Nat : i = Scaled(factor, remaining)
    BY <2>1, TimeAssumption
  <2>3. Arm(t, i, DeactivateTimer(mgr, t))
    BY <2>1, <2>2
  <2> QED
    BY <1>1, <2>1, <2>3, RearmTiming
<1>3. CASE ~(remaining > 0)
  <2>1. mgr' = mgr /\ due' = due /\ invoked' = invoked
    BY <1>3 DEF Scale, history
  <2> QED
    BY <1>1, <2>1 DEF Timing, MarkBefore, PulseOrder
<1> QED
  BY <1>2, <1>3

\* A timer, or the pulse, that is served was due when the loop started.
LEMMA FireTiming == IInv /\ Timing /\ (FireTimer \/ FirePulse) => Timing'
<1> SUFFICES ASSUME IInv, Timing, FireTimer \/ FirePulse PROVE Timing'
  OBVIOUS
<1>1. /\ phase = "loop" /\ mgr.short # <<>> /\ mgr.timeout[Head(mgr.short)] <= loopNow
      /\ invoked' = Head(mgr.short)
      /\ now' = now /\ loopNow' = loopNow /\ due' = due
  BY DEF FireTimer, FirePulse, HeadIsDue, history
<1>2. Good(mgr) /\ mgr.short \in Seq(AllTimers) /\ mgr.pulseMark \in Int /\ PulseInterval \in Int
      /\ \A x \in AllTimers : mgr.timeout[x] \in Int
  BY PulseRunsMeans, TimeFacts, MgrFields DEF Good
<1>3. Timed(mgr, mgr.pulseMark, now, due)
  BY <1>1 DEF Timing, MarkBefore
<1>4. CASE FireTimer
  <2>1. mgr' = mgr /\ phase' = "callback"
    BY <1>4 DEF FireTimer
  <2>2. Pulse \in ToSet(mgr.short) => mgr.timeout[Head(mgr.short)] <= mgr.timeout[Pulse]
    BY <1>2, HeadIsFirst DEF Good, ListsOf
  <2> QED
    BY <1>1, <1>3, <2>1, <2>2 DEF Timing, MarkBefore, PulseOrder
<1>5. CASE FirePulse
  <2>1. /\ Head(mgr.short) = Pulse /\ phase' = "pulse"
        /\ mgr' = [mgr EXCEPT !.pulseMark = mgr.pulseMark + PulseInterval]
    BY <1>5 DEF FirePulse
  <2>2. /\ mgr'.short = mgr.short /\ mgr'.long = mgr.long /\ mgr'.timeout = mgr.timeout
        /\ mgr'.pulseMark = mgr.pulseMark + PulseInterval
    BY <2>1, <1>2 DEF Good, Mgr
  <2>3. MarkBefore' = mgr.pulseMark
    BY <1>2, <2>1, <2>2 DEF MarkBefore
  <2>4. Timed(mgr', mgr.pulseMark, now, due)
    BY <1>3, <2>2, TimedFewer
  <2> QED
    BY <1>1, <2>1, <2>2, <2>3, <2>4 DEF Timing, PulseOrder
<1> QED
  BY <1>4, <1>5

\* A long timer that is moved is at least its remaining pulses away.
LEMMA PulseMoveTiming == IInv /\ Timing /\ PulseMove => Timing'
<1> SUFFICES ASSUME IInv, Timing, PulseMove PROVE Timing'
  OBVIOUS
<1>1. PICK x, at, rest :
         /\ x = Head(mgr.long)
         /\ at = now + (mgr.timeout[x] - mgr.pulseMark)
         /\ rest = RemoveLongTimer(mgr, x)
         /\ mgr' = InsertShortTimer(rest, x, at)
  BY DEF PulseMove
<1>2. /\ phase = "pulse" /\ mgr.long # <<>>
      /\ now' = now /\ phase' = phase /\ invoked' = invoked /\ loopNow' = loopNow
      /\ due' = due
  BY DEF PulseMove, HeadIsNear, history
<1>3. /\ Good(mgr) /\ now \in Int /\ loopNow \in Int /\ loopNow <= now
      /\ due \in [Timers -> Nat]
  BY PulseRunsMeans DEF IInv, LoopState, TypeOK
<1>4. /\ \A y \in AllTimers : mgr.timeout[y] \in Int
      /\ mgr.pulseMark \in Int
      /\ ToSet(mgr.long) \subseteq Timers
      /\ Timers \subseteq AllTimers /\ Pulse \in AllTimers /\ Pulse \notin Timers
      /\ MaxLag \in Nat /\ PulseInterval \in Nat \ {0} /\ PrecisionThreshold \in Nat
      /\ PulseInterval < PrecisionThreshold
  BY <1>3, TimeFacts
<1>5. x \in ToSet(mgr.long) /\ x \in Timers /\ x \in AllTimers
  <2>1. mgr.long \in Seq(Timers)
    BY <1>3, MgrFields DEF Good
  <2> QED
    BY <1>1, <1>2, <1>4, <2>1, HeadInList
<1>6. PICK mark \in Int : mark = MarkBefore /\ mark = mgr.pulseMark - PulseInterval
  BY <1>2, <1>4 DEF MarkBefore
<1>7. /\ mgr.timeout[x] - mark >= PrecisionThreshold
      /\ Within(due[x], mgr.timeout[Pulse] + (mgr.timeout[x] - mark) - PulseInterval)
      /\ mgr.timeout[Pulse] <= loopNow
      /\ Timed(mgr, mark, now, due)
  BY <1>2, <1>5, <1>6 DEF Timing, Timed, PulseOrder
<1>8. at \in Int /\ Within(now, at) /\ Within(due[x], at)
  <2>1. mgr.timeout[x] \in Int /\ mgr.timeout[Pulse] \in Int /\ due[x] \in Int
    BY <1>3, <1>4, <1>5
  <2> QED
    BY <2>1, <1>1, <1>3, <1>4, <1>6, <1>7 DEF Within
<1>9. /\ Good(rest) /\ ToSet(rest.long) = ToSet(mgr.long) \ {x}
      /\ rest.short = mgr.short /\ rest.timeout = mgr.timeout
      /\ rest.pulseMark = mgr.pulseMark
      /\ x \notin Active(rest)
  BY <1>1, <1>3, <1>5, RemoveLongProperties
<1>10. Timed(rest, mark, now, due)
  BY <1>7, <1>9, TimedFewer
<1>11. /\ ToSet(mgr'.short) = ToSet(rest.short) \cup {x}
       /\ mgr'.long = rest.long /\ x \notin ToSet(rest.long)
       /\ mgr'.pulseMark = rest.pulseMark
       /\ mgr'.timeout[x] = at
       /\ \A y \in AllTimers \ {x} : mgr'.timeout[y] = rest.timeout[y]
  <2>1. Good(rest) /\ x \in Timers /\ x \notin Active(rest) /\ at \in Int
        /\ mgr' = InsertShortTimer(rest, x, at)
    BY <1>1, <1>5, <1>8, <1>9
  <2> QED
    BY <2>1, ShortLinked
<1>12. Timed(mgr', mark, now, due)
  BY <1>5, <1>8, <1>9, <1>10, <1>11, TimedShort
<1>13. MarkBefore' = mark
  BY <1>2, <1>6, <1>9, <1>11 DEF MarkBefore
<1>14. PulseOrder'
  <2>1. mgr'.timeout[Pulse] = mgr.timeout[Pulse]
    BY <1>4, <1>5, <1>9, <1>11
  <2> QED
    BY <1>2, <1>7, <2>1 DEF PulseOrder
<1> QED
  BY <1>2, <1>12, <1>13, <1>14 DEF Timing

\* The pulse leaves what is not near any more, and starts its next period.
LEMMA PulseReturnTiming == IInv /\ Timing /\ PulseReturn => Timing'
<1> SUFFICES ASSUME IInv, Timing, PulseReturn PROVE Timing'
  OBVIOUS
<1>1. PICK rest :
         /\ rest = RemoveShortTimer(mgr, Pulse)
         /\ mgr' = IF mgr.long = <<>> THEN rest
                   ELSE ReactivateTimer(rest, Pulse, PulseInterval, now, loopNow)
  BY DEF PulseReturn
<1>2. /\ phase = "pulse" /\ ~HeadIsNear /\ invoked' = NoTimer /\ phase' = "loop"
      /\ now' = now /\ due' = due
  BY DEF PulseReturn, history
<1>3. /\ Good(mgr) /\ mgr \in Mgr /\ now \in Int /\ loopNow \in Int /\ loopNow <= now
      /\ due \in [Timers -> Nat]
  BY PulseRunsMeans DEF IInv, LoopState, TypeOK, Good
<1>4. /\ \A y \in AllTimers : mgr.timeout[y] \in Int
      /\ mgr.pulseMark \in Int
      /\ ToSet(mgr.short) \subseteq AllTimers /\ ToSet(mgr.long) \subseteq Timers
      /\ Timers \subseteq AllTimers /\ Pulse \in AllTimers /\ Pulse \notin Timers
      /\ MaxLag \in Nat /\ PulseInterval \in Nat \ {0} /\ PrecisionThreshold \in Nat
      /\ PulseInterval < PrecisionThreshold
  BY <1>3, TimeFacts
<1>5. Pulse \in ToSet(mgr.short)
  BY <1>2, <1>3, <1>4 DEF IInv, PulseRuns, IsActive
<1>6. /\ Good(rest) /\ ToSet(rest.short) = ToSet(mgr.short) \ {Pulse}
      /\ rest.long = mgr.long /\ rest.timeout = mgr.timeout
      /\ rest.pulseMark = mgr.pulseMark
      /\ Pulse \notin Active(rest)
  BY <1>1, <1>3, <1>5, RemoveShortProperties
<1>7. PICK mark \in Int : mark = MarkBefore /\ mark = mgr.pulseMark - PulseInterval
  BY <1>2, <1>4 DEF MarkBefore
<1>8. Timed(mgr, mark, now, due) /\ mgr.timeout[Pulse] <= loopNow
  BY <1>2, <1>7 DEF Timing, PulseOrder
<1>9. MarkBefore' = mgr'.pulseMark /\ PulseOrder'
  BY <1>2 DEF MarkBefore, PulseOrder
<1>10. CASE mgr.long = <<>>
  <2>1. mgr' = rest /\ ToSet(rest.long) = {}
    BY <1>1, <1>3, <1>6, <1>10, MgrFields
  <2>2. Timed(mgr', mgr'.pulseMark, now, due)
    BY <1>6, <1>8, <2>1 DEF Timed
  <2> QED
    BY <1>2, <1>9, <2>2 DEF Timing
<1>11. CASE mgr.long # <<>>
  <2>1. PICK at \in Int :
           /\ at = IF mgr.timeout[Pulse] + PulseInterval < loopNow THEN now
                   ELSE mgr.timeout[Pulse] + PulseInterval
           /\ mgr' = InsertShortTimer(rest, Pulse, at)
    BY <1>1, <1>3, <1>4, <1>6, <1>11 DEF ReactivateTimer
  <2>2. /\ at <= now + PulseInterval /\ Within(now, at)
        /\ mgr.timeout[Pulse] + PulseInterval <= at
    <3>1. Within(now, mgr.timeout[Pulse])
      BY <1>5, <1>8 DEF Timed
    <3> QED
      BY <3>1, <2>1, <1>3, <1>4, <1>8 DEF Within
  <2>3. /\ Good(mgr') /\ ToSet(mgr'.short) = ToSet(rest.short) \cup {Pulse}
        /\ mgr'.long = rest.long
        /\ mgr'.pulseMark = rest.pulseMark
        /\ mgr'.timeout[Pulse] = at
        /\ \A y \in AllTimers \ {Pulse} : mgr'.timeout[y] = rest.timeout[y]
    <3>1. Good(rest) /\ Pulse \in AllTimers /\ Pulse \notin Active(rest)
          /\ mgr' = InsertShortTimer(rest, Pulse, at)
      BY <1>4, <1>6, <2>1
    <3> QED
      BY <3>1, InsertShortProperties
  <2>4. ASSUME NEW x \in ToSet(mgr.long)
        PROVE  /\ mgr'.timeout[x] - mgr'.pulseMark >= PrecisionThreshold
               /\ Within(due[x], mgr'.timeout[Pulse] + (mgr'.timeout[x] - mgr'.pulseMark)
                                    - PulseInterval)
    <3>1. /\ Head(mgr.long) \in Timers
          /\ mgr.timeout[Head(mgr.long)] <= mgr.timeout[x]
      <4>1. mgr.long \in Seq(Timers) /\ \A y \in Timers : mgr.timeout[y] \in Int
        BY <1>3, <1>4, MgrFields
      <4> QED
        BY <1>3, <4>1, HeadIsFirst DEF Good, ListsOf
    <3>2. ~(mgr.timeout[Head(mgr.long)] - mgr.pulseMark < PrecisionThreshold)
      BY <1>2, <1>11 DEF HeadIsNear
    <3>3. /\ mgr'.timeout[x] = mgr.timeout[x] /\ mgr'.pulseMark = mgr.pulseMark
          /\ mgr'.timeout[Pulse] = at
      BY <1>4, <1>6, <2>3, <2>4
    <3>4. Within(due[x], mgr.timeout[Pulse] + (mgr.timeout[x] - mark) - PulseInterval)
      BY <1>8, <2>4 DEF Timed
    <3>5. /\ mgr.timeout[x] \in Int /\ due[x] \in Int /\ mgr.timeout[Pulse] \in Int
          /\ mgr.timeout[Head(mgr.long)] \in Int
      BY <1>3, <1>4, <2>4, <3>1
    <3>6. mgr.timeout[x] - mgr.pulseMark >= PrecisionThreshold
      BY <1>4, <3>1, <3>2, <3>5
    <3>7. Within(due[x], at + (mgr.timeout[x] - mgr.pulseMark) - PulseInterval)
      BY <1>4, <1>7, <2>2, <3>4, <3>5 DEF Within
    <3> QED
      BY <3>3, <3>6, <3>7
  <2>5. Timed(mgr', mgr'.pulseMark, now, due)
    <3>1. \A y \in ToSet(rest.short) :
             y \in ToSet(mgr.short) /\ mgr'.timeout[y] = mgr.timeout[y]
      BY <1>4, <1>6, <2>3
    <3>2. Timed(mgr, mark, now, due)
      BY <1>8
    <3> QED
      BY <1>4, <1>6, <2>2, <2>3, <2>4, <3>1, <3>2 DEF Timed
  <2> QED
    BY <1>2, <1>9, <2>5 DEF Timing
<1> QED
  BY <1>10, <1>11

\* A timer that was served starts its next period, or leaves the list.
LEMMA CallbackReturnTiming == IInv /\ Timing /\ CallbackReturn => Timing'
<1> SUFFICES ASSUME IInv, Timing, CallbackReturn PROVE Timing'
  OBVIOUS
<1>1. /\ phase = "callback" /\ phase' = "loop" /\ invoked' = NoTimer
      /\ now' = now /\ loopNow' = loopNow
  BY DEF CallbackReturn
<1>2. /\ Good(mgr) /\ PulseWithLong(mgr)
      /\ now \in Int /\ loopNow \in Int /\ loopNow <= now
      /\ due \in [Timers -> Nat]
  BY <1>1, PulseRunsMeans DEF IInv, LoopState, TypeOK
<1>3. Timed(mgr, mgr.pulseMark, now, due)
  BY <1>1 DEF Timing, MarkBefore
<1>4. SUFFICES Timed(mgr', mgr'.pulseMark, now, due')
  BY <1>1, <1>4 DEF Timing, MarkBefore, PulseOrder
<1>5. CASE ~(invoked \in Timers /\ IsActive(mgr, invoked))
  BY <1>3, <1>5 DEF CallbackReturn, history
<1>6. CASE invoked \in Timers /\ IsActive(mgr, invoked)
  <2>0. PICK t \in Timers : t = invoked
    BY <1>6
  <2>1. PICK rest : t = invoked /\ rest = RemoveShortTimer(mgr, t)
    BY <2>0
  <2>2. t \in ToSet(mgr.short) /\ t # Pulse /\ t # NoTimer
    BY <2>1, PulseAssumption DEF IInv, InvokedIsLinked, IsPrecise
  <2>3. /\ Good(rest)
        /\ ToSet(rest.short) = ToSet(mgr.short) \ {t}
        /\ rest.long = mgr.long /\ rest.timeout = mgr.timeout
        /\ rest.pulseMark = mgr.pulseMark
        /\ t \notin Active(rest)
    BY <1>2, <2>1, <2>2, RemoveShortProperties
  <2>4. PulseWithLong(rest)
    BY <1>2, <2>2, <2>3 DEF PulseWithLong
  <2>5. Timed(rest, rest.pulseMark, now, due)
    BY <1>3, <2>3, TimedFewer
  <2>6. CASE repeatCount[t] = 0
    BY <1>6, <2>1, <2>5, <2>6 DEF CallbackReturn, history
  <2>7. CASE repeatCount[t] # 0
    <3>1. /\ mgr' = ReactivateTimer(rest, t, interval[t], now, loopNow)
          /\ due' = [due EXCEPT ![t] = due[t] + interval[t]]
      BY <1>6, <2>1, <2>7 DEF CallbackReturn
    <3>2. PICK i \in Int : i = interval[t] /\ i >= 0
      BY DEF IInv, TypeOK
    <3>3. /\ due'[t] = due[t] + i /\ due[t] \in Int
          /\ \A y \in Timers \ {t} : due'[y] = due[y]
      BY <1>2, <3>1, <3>2
    <3>4. /\ Within(now, rest.timeout[t]) /\ Within(due[t], rest.timeout[t])
      BY <1>3, <2>2, <2>3 DEF Timed
    <3>5. rest.timeout[t] <= now
      <4>1. mgr.timeout[t] <= loopNow /\ mgr.timeout[t] \in Int
        BY <1>1, <1>2, <2>1, <2>2, TimeFacts DEF IInv, LoopState
      <4> QED
        BY <4>1, <1>2, <2>3
    <3>6. Pulse \in ToSet(rest.short) => rest.timeout[t] <= rest.timeout[Pulse]
      BY <1>1, <2>1, <2>2, <2>3 DEF Timing, PulseOrder
    <3>7. mgr' = ReactivateTimer(rest, t, i, now, loopNow)
      BY <3>1, <3>2
    <3> QED
      BY <1>2, <2>3, <2>4, <2>5, <3>2, <3>3, <3>4, <3>5, <3>6, <3>7, TimedReactivate
  <2> QED
    BY <2>6, <2>7
<1> QED
  BY <1>5, <1>6

\* Every step keeps the promises.
LEMMA NextTiming == IInv /\ Timing /\ [Next]_vars => Timing'
<1> SUFFICES ASSUME IInv, Timing, [Next]_vars PROVE Timing'
  OBVIOUS
<1>1. CASE Tick
  BY <1>1, TickTiming
<1>2. ASSUME NEW t \in Timers, User(t) PROVE Timing'
  <2>1. CASE \E i \in Intervals : SetInterval(t, i)
    BY <2>1 DEF SetInterval, Timing, MarkBefore, PulseOrder, history
  <2>2. CASE Reschedule(t)
    <3>1. /\ UserMayRun /\ IsActive(mgr, t) /\ interval[t] \in Nat
          /\ Arm(t, interval[t], DeactivateTimer(mgr, t)) /\ ForgetInvoked(t)
          /\ UNCHANGED <<now, phase, loopNow>>
      BY <2>2 DEF Reschedule, IInv, TypeOK
    <3> QED
      BY <3>1, RearmTiming
  <2> QED
    BY <1>2, <2>1, <2>2, ActivateTiming, DeactivateTiming, ScaleTiming DEF User
<1>3. CASE Dispatch
  <2>1. CASE EnterLoop
    BY <2>1 DEF EnterLoop, Timing, MarkBefore, PulseOrder, history
  <2>2. CASE LeaveLoop
    BY <2>2 DEF LeaveLoop, Timing, MarkBefore, PulseOrder, history
  <2> QED
    BY <1>3, <2>1, <2>2, FireTiming, CallbackReturnTiming, PulseMoveTiming, PulseReturnTiming
       DEF Dispatch, SystemTimeout, DispatchTimeouts
<1>4. CASE UNCHANGED vars
  BY <1>4 DEF vars, history, Timing, MarkBefore, PulseOrder
<1> QED
  BY <1>1, <1>2, <1>3, <1>4 DEF Next

LEMMA TimingHolds == Spec => [](IInv /\ Timing)
<1>1. Init => IInv /\ Timing
  BY InitIInv, InitTiming
<1>2. IInv /\ Timing /\ [Next]_vars => (IInv /\ Timing)'
  BY NextIInv, NextTiming
<1> QED
  BY <1>1, <1>2, PTL DEF Spec

\* OnPulseTimeout: a timer that is less than the threshold from its timeout is
\* in the short list, whatever was activated, rescheduled or scaled meanwhile.
THEOREM LongTimersAreFar == Spec => []LongIsFar
<1>1. IInv /\ Timing => LongIsFar
  BY DEF Timing, Timed, MarkBefore, LongIsFar
<1> QED
  BY <1>1, TimingHolds, PTL

\* A timer fires before its interval, or its periods, have passed by no more than
\* its manager was ever late, through any number of pulses and periods.
THEOREM EarlinessIsBounded == Spec => []BoundedEarliness
<1>1. IInv /\ Timing => BoundedEarliness
  <2> SUFFICES ASSUME IInv, Timing, phase = "callback", invoked # NoTimer
               PROVE  due[invoked] <= now + MaxLag
    BY DEF BoundedEarliness
  <2>1. /\ invoked \in Timers /\ mgr.timeout[invoked] <= loopNow /\ loopNow <= now
        /\ invoked \in ToSet(mgr.short)
    BY DEF IInv, TypeOK, LoopState, AllTimers, InvokedIsLinked, IsPrecise
  <2>2. Within(due[invoked], mgr.timeout[invoked])
    BY <2>1 DEF Timing, Timed
  <2>3. /\ due[invoked] \in Int /\ mgr.timeout[invoked] \in Int
        /\ loopNow \in Int /\ now \in Int /\ MaxLag \in Nat
    BY <2>1, PulseRunsMeans, TimeFacts DEF IInv, TypeOK
  <2> QED
    BY <2>1, <2>2, <2>3 DEF Within
<1> QED
  BY <1>1, TimingHolds, PTL

-----------------------------------------------------------------------------
(* The timer service that the manager implements.                          *)

\* What an operation on t does to the timers that are active.
LEMMA ActiveAfter ==
    ASSUME NEW t \in Timers, SameBut(mgr, mgr', t)
    PROVE  /\ t \in Active(mgr') => ActiveTimers' = ActiveTimers \cup {t}
           /\ t \notin Active(mgr') => ActiveTimers' = ActiveTimers \ {t}
<1>1. \A y \in Timers \ {t} : y \in Active(mgr') <=> y \in Active(mgr)
  BY DEF SameBut, Active
<1>2. \A y \in Timers : /\ y \in ActiveTimers' <=> y \in Active(mgr')
                        /\ y \in ActiveTimers <=> y \in Active(mgr)
  BY DEF ActiveTimers, IsActive, Active
<1>3. ActiveTimers \subseteq Timers /\ ActiveTimers' \subseteq Timers
  BY DEF ActiveTimers
<1> QED
  BY <1>1, <1>2, <1>3

\* Arm leaves t active, and the others as they were.
LEMMA ArmActive ==
    ASSUME IInv, NEW t \in Timers, NEW i \in Nat, NEW m,
           Good(m), PulseWithLong(m), t \notin Active(m), SameBut(mgr, m, t),
           Arm(t, i, m)
    PROVE  ActiveTimers' = ActiveTimers \cup {t}
<1>1. mgr' = ActivateTimer(m, t, i, now) /\ now \in Int
  BY PulseRunsMeans DEF Arm
<1>2. t \in Active(mgr') /\ SameBut(m, mgr', t)
  BY <1>1, ActivateProperties
<1>3. SameBut(mgr, mgr', t)
  BY <1>2 DEF SameBut
<1> QED
  BY <1>2, <1>3, ActiveAfter

\* Reschedule and Scale leave the same timers active.
LEMMA RearmActive ==
    ASSUME IInv, NEW t \in Timers, NEW i \in Nat, UserMayRun, IsActive(mgr, t),
           Arm(t, i, DeactivateTimer(mgr, t))
    PROVE  t \in ActiveTimers /\ ActiveTimers' = ActiveTimers
<1>1. t \in ActiveTimers /\ t \in Active(mgr) /\ Good(mgr) /\ PulseWithLong(mgr)
  BY PulseRunsMeans DEF UserMayRun, ActiveTimers
<1>2. PICK m : m = DeactivateTimer(mgr, t)
  OBVIOUS
<1>3. Good(m) /\ PulseWithLong(m) /\ t \notin Active(m) /\ SameBut(mgr, m, t)
  BY <1>1, <1>2, DeactivateProperties
<1>4. Arm(t, i, m)
  BY <1>2
<1>5. ActiveTimers' = ActiveTimers \cup {t}
  BY <1>3, <1>4, ArmActive
<1> QED
  BY <1>1, <1>5

\* Each operation of the user is one of the service, or changes nothing there.
LEMMA UserImplements ==
    ASSUME IInv, NEW t \in Timers, User(t)
    PROVE  Service!Next \/ UNCHANGED Service!vars
<1>0. t # Pulse /\ t # NoTimer
  BY PulseAssumption
<1>1. ASSUME NEW i \in Intervals, NEW n \in Repeats, Activate(t, i, n) PROVE Service!Start(t, n)
  <2>1. /\ phase \in {"idle", "callback"} /\ t \notin Active(mgr) /\ ~IsActive(mgr, t)
        /\ Arm(t, i, mgr) /\ i \in Nat
        /\ repeat' = [repeat EXCEPT ![t] = n]
        /\ repeatCount' = [repeatCount EXCEPT ![t] = n]
        /\ phase' = phase /\ invoked' = invoked
    BY <1>1, PulseRunsMeans, TimeAssumption DEF Activate, UserMayRun
  <2>2. Good(mgr) /\ PulseWithLong(mgr) /\ SameBut(mgr, mgr, t)
    BY <2>1, PulseRunsMeans DEF SameBut
  <2>3. ActiveTimers' = ActiveTimers \cup {t}
    BY <2>1, <2>2, ArmActive
  <2> QED
    BY <2>1, <2>3 DEF Service!Start, ActiveTimers
<1>2. CASE Deactivate(t)
  <2>1. /\ phase \in {"idle", "callback"} /\ t \in Active(mgr) /\ t \in ActiveTimers
        /\ mgr' = DeactivateTimer(mgr, t)
        /\ invoked' = IF invoked = t THEN NoTimer ELSE invoked
        /\ repeat' = repeat /\ repeatCount' = repeatCount /\ phase' = phase
    BY <1>2, PulseRunsMeans DEF Deactivate, UserMayRun, ForgetInvoked, timers, ActiveTimers
  <2>2. SameBut(mgr, mgr', t) /\ t \notin Active(mgr')
    BY <2>1, PulseRunsMeans, DeactivateProperties
  <2>3. ActiveTimers' = ActiveTimers \ {t}
    BY <2>2, ActiveAfter
  <2> QED
    BY <1>0, <2>1, <2>3, PulseAssumption DEF Service!Next, Service!Stop, Service!Forget
<1>3. ASSUME NEW i \in Intervals, SetInterval(t, i) PROVE UNCHANGED Service!vars
  BY <1>3 DEF SetInterval, Service!vars, ActiveTimers, IsActive
<1>4. CASE Reschedule(t)
  <2>1. /\ UserMayRun /\ IsActive(mgr, t) /\ interval[t] \in Nat
        /\ Arm(t, interval[t], DeactivateTimer(mgr, t))
        /\ invoked' = IF invoked = t THEN NoTimer ELSE invoked
        /\ repeatCount' = [repeatCount EXCEPT ![t] = repeat[t]]
        /\ repeat' = repeat /\ phase' = phase
    BY <1>4 DEF Reschedule, ForgetInvoked, IInv, TypeOK
  <2>2. t \in ActiveTimers /\ ActiveTimers' = ActiveTimers
    BY <2>1, RearmActive
  <2> QED
    BY <1>0, <2>1, <2>2, PulseAssumption DEF Service!Next, Service!Restart, Service!Forget
<1>5. ASSUME NEW factor \in Factors, Scale(t, factor)
      PROVE  Service!Stretch(t) \/ UNCHANGED Service!vars
  <2> DEFINE remaining == GetTimeRemaining(mgr, t, now)
  <2>1. /\ UserMayRun /\ IsActive(mgr, t)
        /\ repeat' = repeat /\ repeatCount' = repeatCount /\ phase' = phase
    BY <1>5 DEF Scale
  <2>2. CASE remaining > 0
    <3>1. /\ Scaled(factor, remaining) \in 1..MaxTime
          /\ Arm(t, Scaled(factor, remaining), DeactivateTimer(mgr, t))
          /\ invoked' = IF invoked = t THEN NoTimer ELSE invoked
      BY <1>5, <2>2 DEF Scale, ForgetInvoked
    <3>2. PICK i \in Nat : i = Scaled(factor, remaining)
      BY <3>1, TimeAssumption
    <3>3. Arm(t, i, DeactivateTimer(mgr, t))
      BY <3>1, <3>2
    <3>4. t \in ActiveTimers /\ ActiveTimers' = ActiveTimers
      BY <2>1, <3>3, RearmActive
    <3> QED
      BY <1>0, <2>1, <3>1, <3>4, PulseAssumption DEF Service!Stretch, Service!Forget
  <2>3. CASE ~(remaining > 0)
    <3>1. mgr' = mgr /\ invoked' = invoked
      BY <1>5, <2>3 DEF Scale
    <3> QED
      BY <2>1, <3>1 DEF Service!vars, ActiveTimers, IsActive
  <2> QED
    BY <2>2, <2>3
<1> QED
  BY <1>1, <1>2, <1>3, <1>4, <1>5 DEF User, Service!Next

\* OnSystemTimeout: a call of a listener is an expiry, its end the return; the
\* pulse and the moves between the lists are invisible.
LEMMA DispatchImplements ==
    ASSUME IInv, Dispatch
    PROVE  Service!Next \/ UNCHANGED Service!vars
<1>0. /\ Good(mgr) /\ ToSet(mgr.short) \subseteq AllTimers /\ ToSet(mgr.long) \subseteq Timers
      /\ Pulse \notin Timers /\ Pulse # NoTimer /\ NoTimer \notin Timers
      /\ Pulse \in AllTimers
      /\ now \in Int /\ loopNow \in Int
  BY PulseRunsMeans, TimeFacts, PulseAssumption
<1>1. CASE EnterLoop \/ LeaveLoop
  BY <1>1 DEF EnterLoop, LeaveLoop, timers, Service!vars, ActiveTimers, IsActive
<1>2. CASE FireTimer
  <2>1. /\ phase = "loop" /\ phase' = "callback" /\ mgr.short # <<>>
        /\ invoked' = Head(mgr.short) /\ Head(mgr.short) # Pulse
        /\ mgr' = mgr /\ repeat' = repeat /\ repeatCount' = repeatCount
    BY <1>2 DEF FireTimer, HeadIsDue, timers
  <2>2. Head(mgr.short) \in ToSet(mgr.short)
    <3>1. mgr.short \in Seq(AllTimers)
      BY <1>0, MgrFields DEF Good
    <3> QED
      BY <2>1, <3>1, HeadInList
  <2>3. PICK t \in Timers : t = Head(mgr.short) /\ t \in ActiveTimers
    BY <1>0, <2>1, <2>2 DEF AllTimers, ActiveTimers, IsActive
  <2>4. ActiveTimers' = ActiveTimers
    BY <2>1 DEF ActiveTimers, IsActive
  <2>5. Service!Expire(t)
    BY <2>1, <2>3, <2>4 DEF Service!Expire
  <2> QED
    BY <2>5 DEF Service!Next
<1>3. CASE CallbackReturn
  <2>1. /\ phase = "callback" /\ phase' = "loop" /\ invoked' = NoTimer
        /\ repeat' = repeat /\ invoked # Pulse /\ invoked \in Timers \cup {NoTimer}
        /\ loopNow <= now
    BY <1>3 DEF CallbackReturn, IInv, LoopState, TypeOK, AllTimers
  <2>2. CASE invoked = NoTimer
    <3>1. mgr' = mgr /\ repeatCount' = repeatCount
      BY <1>0, <1>3, <2>2 DEF CallbackReturn
    <3>2. ActiveTimers' = ActiveTimers
      BY <3>1 DEF ActiveTimers, IsActive
    <3> QED
      BY <1>0, <2>1, <2>2, <3>1, <3>2 DEF Service!Next, Service!Return
  <2>3. CASE invoked # NoTimer
    <3>0. PICK t \in Timers : t = invoked
      BY <2>1, <2>3
    <3>1. PICK rest : t = invoked /\ rest = RemoveShortTimer(mgr, t)
      BY <3>0
    <3>2. t \in ToSet(mgr.short) /\ t # Pulse
      BY <2>3, <3>1, <1>0 DEF IInv, InvokedIsLinked, IsPrecise
    <3>3. /\ Good(rest)
          /\ ToSet(rest.short) = ToSet(mgr.short) \ {t}
          /\ rest.long = mgr.long /\ rest.timeout = mgr.timeout
          /\ t \notin Active(rest)
      BY <1>0, <3>1, <3>2, RemoveShortProperties
    <3>4. PulseWithLong(rest) /\ SameBut(mgr, rest, t)
      BY <2>1, <3>2, <3>3, PulseRunsMeans DEF PulseWithLong, SameBut
    <3>5. t \in ActiveTimers /\ IsActive(mgr, t)
      BY <3>2 DEF ActiveTimers, IsActive
    <3>6. repeatCount[t] \in Int
      BY DEF IInv, TypeOK
    <3>7. CASE repeatCount[t] = 0
      <4>1. mgr' = rest /\ repeatCount' = repeatCount
        BY <1>3, <3>1, <3>5, <3>7 DEF CallbackReturn
      <4>2. ActiveTimers' = ActiveTimers \ {t}
        BY <3>3, <3>4, <4>1, ActiveAfter
      <4> QED
        BY <1>0, <2>1, <3>1, <3>2, <3>7, <4>1, <4>2 DEF Service!Next, Service!Return
    <3>8. CASE repeatCount[t] # 0
      <4>1. /\ mgr' = ReactivateTimer(rest, t, interval[t], now, loopNow)
            /\ repeatCount' = IF repeatCount[t] > 0
                              THEN [repeatCount EXCEPT ![t] = @ - 1]
                              ELSE repeatCount
        BY <1>3, <3>1, <3>5, <3>8 DEF CallbackReturn
      <4>2. interval[t] \in Int
        BY DEF IInv, TypeOK
      <4>3. t \in Active(mgr') /\ SameBut(rest, mgr', t)
        BY <1>0, <2>1, <3>3, <3>4, <4>1, <4>2, ReactivateProperties
      <4>4. SameBut(mgr, mgr', t)
        BY <3>4, <4>3 DEF SameBut
      <4>5. ActiveTimers' = ActiveTimers
        BY <3>5, <4>3, <4>4, ActiveAfter
      <4> QED
        BY <1>0, <2>1, <3>1, <3>2, <3>8, <4>1, <4>5 DEF Service!Next, Service!Return
    <3> QED
      BY <3>7, <3>8
  <2> QED
    BY <2>2, <2>3
<1>4. CASE FirePulse
  <2>1. /\ phase = "loop" /\ phase' = "pulse" /\ invoked = NoTimer /\ invoked' = Pulse
        /\ mgr' = [mgr EXCEPT !.pulseMark = mgr.pulseMark + PulseInterval]
        /\ repeat' = repeat /\ repeatCount' = repeatCount
    BY <1>4 DEF FirePulse, timers, IInv, LoopState
  <2>2. mgr'.short = mgr.short /\ mgr'.long = mgr.long
    BY <1>0, <2>1 DEF Good, Mgr
  <2> QED
    BY <1>0, <2>1, <2>2 DEF Service!vars, ActiveTimers, IsActive
<1>5. CASE PulseMove
  <2>1. PICK x, at, rest :
           /\ x = Head(mgr.long)
           /\ at = now + (mgr.timeout[x] - mgr.pulseMark)
           /\ rest = RemoveLongTimer(mgr, x)
           /\ mgr' = InsertShortTimer(rest, x, at)
    BY <1>5 DEF PulseMove
  <2>2. /\ phase = "pulse" /\ mgr.long # <<>>
        /\ phase' = phase /\ invoked' = invoked /\ repeat' = repeat /\ repeatCount' = repeatCount
    BY <1>5 DEF PulseMove, HeadIsNear, timers
  <2>3. x \in ToSet(mgr.long) /\ x \in Timers
    <3>1. mgr.long \in Seq(Timers)
      BY <1>0, MgrFields DEF Good
    <3> QED
      BY <1>0, <2>1, <2>2, <3>1, HeadInList
  <2>4. at \in Int
    BY <1>0, <2>1, <2>3, TimeFacts
  <2>5. /\ Good(rest) /\ ToSet(rest.long) = ToSet(mgr.long) \ {x}
        /\ rest.short = mgr.short /\ x \notin Active(rest)
    BY <1>0, <2>1, <2>3, RemoveLongProperties
  <2>6. mgr' = InsertShortTimer(rest, x, at)
    BY <2>1
  <2>7. ToSet(mgr'.short) = ToSet(rest.short) \cup {x} /\ mgr'.long = rest.long
    BY <2>3, <2>4, <2>5, <2>6, ShortLinked
  <2>8. ActiveTimers' = ActiveTimers
    BY <2>3, <2>5, <2>7 DEF ActiveTimers, IsActive
  <2> QED
    BY <2>2, <2>8 DEF Service!vars
<1>6. CASE PulseReturn
  <2>1. PICK rest :
           /\ rest = RemoveShortTimer(mgr, Pulse)
           /\ mgr' = IF mgr.long = <<>> THEN rest
                     ELSE ReactivateTimer(rest, Pulse, PulseInterval, now, loopNow)
    BY <1>6 DEF PulseReturn
  <2>2. /\ phase = "pulse" /\ phase' = "loop" /\ invoked' = NoTimer /\ invoked = Pulse
        /\ repeat' = repeat /\ repeatCount' = repeatCount
    BY <1>6 DEF PulseReturn, timers, IInv, PulseRuns
  <2>3. Pulse \in ToSet(mgr.short)
    BY <1>0, <2>2 DEF IInv, PulseRuns, IsActive
  <2>4. /\ Good(rest) /\ ToSet(rest.short) = ToSet(mgr.short) \ {Pulse}
        /\ rest.long = mgr.long /\ rest.timeout = mgr.timeout
        /\ Pulse \notin Active(rest)
    BY <1>0, <2>1, <2>3, RemoveShortProperties
  <2>5. /\ ToSet(mgr'.long) = ToSet(mgr.long)
        /\ ToSet(mgr'.short) \ {Pulse} = ToSet(mgr.short) \ {Pulse}
    <3>1. CASE mgr.long = <<>>
      BY <2>1, <2>4, <3>1
    <3>2. CASE mgr.long # <<>>
      <4>1. PICK at \in Int : mgr' = InsertShortTimer(rest, Pulse, at)
        <5>1. rest.timeout[Pulse] \in Int /\ PulseInterval \in Int
          BY <1>0, <2>4, TimeFacts
        <5>2. mgr' = InsertShortTimer(rest, Pulse,
                        IF rest.timeout[Pulse] + PulseInterval < loopNow THEN now
                        ELSE rest.timeout[Pulse] + PulseInterval)
          BY <2>1, <3>2, TimeAssumption DEF ReactivateTimer
        <5> QED
          BY <1>0, <5>1, <5>2
      <4>2. ToSet(mgr'.short) = ToSet(rest.short) \cup {Pulse} /\ mgr'.long = rest.long
        <5>1. Good(rest) /\ Pulse \in AllTimers /\ Pulse \notin Active(rest)
              /\ mgr' = InsertShortTimer(rest, Pulse, at)
          BY <1>0, <2>4, <4>1
        <5>2. /\ Good(mgr')
              /\ ToSet(mgr'.short) = ToSet(rest.short) \cup {Pulse}
              /\ mgr'.long = rest.long
              /\ mgr'.pulseMark = rest.pulseMark
              /\ mgr'.timeout[Pulse] = at
              /\ \A y \in AllTimers \ {Pulse} : mgr'.timeout[y] = rest.timeout[y]
          BY <5>1, InsertShortProperties
        <5> QED
          BY <5>2
      <4> QED
        BY <2>4, <4>2
    <3> QED
      BY <3>1, <3>2
  <2>6. ActiveTimers' = ActiveTimers
    BY <1>0, <2>5 DEF ActiveTimers, IsActive
  <2> QED
    BY <1>0, <2>2, <2>6 DEF Service!vars
<1> QED
  BY <1>1, <1>2, <1>3, <1>4, <1>5, <1>6 DEF Dispatch, SystemTimeout, DispatchTimeouts

\* Every step of the manager is a step of the service, or none.
LEMMA NextImplements == IInv /\ [Next]_vars => [Service!Next]_(Service!vars)
<1> SUFFICES ASSUME IInv, [Next]_vars PROVE Service!Next \/ UNCHANGED Service!vars
  OBVIOUS
<1>1. CASE Tick
  BY <1>1 DEF Tick, timers, Service!vars, ActiveTimers, IsActive
<1>2. CASE UNCHANGED vars
  BY <1>2 DEF vars, timers, Service!vars, ActiveTimers, IsActive
<1> QED
  BY <1>1, <1>2, UserImplements, DispatchImplements DEF Next

LEMMA InitImplements == Init => Service!Init
<1> SUFFICES ASSUME Init PROVE Service!Init
  OBVIOUS
<1>1. ToSet(mgr.short) = {} /\ ToSet(mgr.long) = {} /\ phase = "idle" /\ invoked = NoTimer
  BY DEF Init, ToSet
<1>2. ActiveTimers = {}
  BY <1>1 DEF ActiveTimers, IsActive
<1> QED
  BY <1>1, <1>2, PulseAssumption DEF Init, Service!Init

\* The timer manager keeps the promises of the timer service.
THEOREM Refinement == Spec => ImplementsTimerService
<1>1. Init => Service!Init
  BY InitImplements
<1>2. IInv /\ [Next]_vars => [Service!Next]_(Service!vars)
  BY NextImplements
<1> QED
  BY <1>1, <1>2, Invariance, PTL DEF Spec, ImplementsTimerService, Service!Spec

=============================================================================

----------------------------- MODULE Smf_proofs -----------------------------
(***************************************************************************)
(* What holds of a node for every network, command line and order of       *)
(* packets: the lists that SmfDuplicateTree and SmfSequenceMgr prune from  *)
(* their tails stay sorted, a window holds what it was shown and nothing   *)
(* else, so a packet is forwarded once and the first copy is, as by a relay*)
(* that knows every packet (PacketRelay).                                  *)
(***************************************************************************)
EXTENDS Smf, SlidingMask_proofs, SequenceTheorems

-----------------------------------------------------------------------------
(* One list, with the times of its keys.                                   *)

\* A list of keys from K, each once, the newest first and none from the future.
ListOK(K, list, update_time, time) ==
    /\ list \in Seq(K) /\ IsInjective(list)
    /\ update_time \in [K -> Nat]
    /\ \A k \in K : update_time[k] <= time
    /\ NewestFirst(list, update_time)

\* r has what s has, but the key, in the order of s.
Without(S, s, key, r) ==
    /\ r \in Seq(S)
    /\ ToSet(r) = ToSet(s) \ {key}
    /\ \A n \in 1..Len(r) : r[n] # key
    /\ \A m, n \in 1..Len(r) : m < n =>
          \E a, b \in 1..Len(s) : a < b /\ r[m] = s[a] /\ r[n] = s[b]

\* h has the key at its head, and then what s has, in its order.
Headed(S, s, key, h) ==
    /\ h \in Seq(S) /\ IsInjective(h)
    /\ ToSet(h) = ToSet(s) \cup {key}
    /\ Len(h) >= 1 /\ h[1] = key
    /\ \A n \in 2..Len(h) : h[n] # key
    /\ \A m, n \in 2..Len(h) : m < n =>
          \E a, b \in 1..Len(s) : a < b /\ h[m] = s[a] /\ h[n] = s[b]

\* RemoveAt moves the entries behind position i down by one.
LEMMA RemoveAtProperties ==
    ASSUME NEW S, NEW s \in Seq(S), NEW i \in 1..Len(s)
    PROVE  /\ RemoveAt(s, i) \in Seq(S)
           /\ Len(RemoveAt(s, i)) = Len(s) - 1
           /\ \A j \in 1..(Len(s) - 1) :
                RemoveAt(s, i)[j] = IF j < i THEN s[j] ELSE s[j + 1]
<1> DEFINE a == SubSeq(s, 1, i - 1)
           c == SubSeq(s, i + 1, Len(s))
<1>1. Len(s) \in Nat /\ \A j \in 1..Len(s) : s[j] \in S
  OBVIOUS
<1>2. a \in Seq(S) /\ Len(a) = i - 1 /\ \A j \in 1..(i - 1) : a[j] = s[j]
  BY <1>1
<1>3. c \in Seq(S) /\ Len(c) = Len(s) - i
         /\ \A j \in 1..(Len(s) - i) : c[j] = s[i + j]
  BY <1>1
<1> HIDE DEF a, c
<1> DEFINE r == a \o c
<1>4. /\ r \in Seq(S)
      /\ Len(r) = Len(a) + Len(c)
      /\ \A j \in 1..(Len(a) + Len(c)) :
            r[j] = IF j <= Len(a) THEN a[j] ELSE c[j - Len(a)]
  BY <1>2, <1>3, ConcatProperties
<1> HIDE DEF r
<1>5. Len(a) + Len(c) = Len(s) - 1
  BY <1>1, <1>2, <1>3
<1>6. ASSUME NEW j \in 1..(Len(s) - 1)
      PROVE  r[j] = IF j < i THEN s[j] ELSE s[j + 1]
  <2>1. r[j] = IF j <= i - 1 THEN a[j] ELSE c[j - (i - 1)]
    BY <1>2, <1>4, <1>5
  <2>2. CASE j < i
    BY <2>1, <2>2, <1>1, <1>2
  <2>3. CASE ~(j < i)
    <3>1. j - (i - 1) \in 1..(Len(s) - i)
      BY <2>3, <1>1
    <3>2. i + (j - (i - 1)) = j + 1
      BY <1>1
    <3>3. c[j - (i - 1)] = s[j + 1]
      BY <3>1, <3>2, <1>3
    <3> QED
      BY <2>1, <2>3, <3>3, <1>1
  <2> QED
    BY <2>2, <2>3
<1> QED
  BY <1>4, <1>5, <1>6 DEF RemoveAt, r, a, c

\* RemoveFirst takes the one entry that is the key; the others keep their order.
LEMMA RemoveFirstOrder ==
    ASSUME NEW S, NEW s \in Seq(S), IsInjective(s), NEW key \in S
    PROVE  Without(S, s, key, RemoveFirst(s, key))
<1> DEFINE r == RemoveFirst(s, key)
<1>1. Len(s) \in Nat /\ DOMAIN s = 1..Len(s) /\ \A i \in 1..Len(s) : s[i] \in S
  OBVIOUS
<1>2. CASE \E i \in 1..Len(s) : s[i] = key
  <2>1. PICK i \in 1..Len(s) : s[i] = key
    BY <1>2
  <2>2. {j \in 1..Len(s) : s[j] = key} = {i}
    BY <2>1, <1>1 DEF IsInjective
  <2>3. Min({i}) = i
    BY <2>1, <1>1 DEF Min
  <2>4. r = RemoveAt(s, i)
    BY <1>2, <2>1, <2>2, <2>3 DEF RemoveFirst, SelectInSeq
  <2>5. /\ r \in Seq(S) /\ Len(r) = Len(s) - 1
        /\ \A j \in 1..(Len(s) - 1) : r[j] = IF j < i THEN s[j] ELSE s[j + 1]
    BY <2>4, RemoveAtProperties
  <2> HIDE DEF r
  <2>6. ASSUME NEW n \in 1..Len(r) PROVE r[n] # key
    <3>1. PICK j \in 1..Len(s) : j # i /\ r[n] = s[j]
      <4>1. n \in 1..(Len(s) - 1) /\ r[n] = IF n < i THEN s[n] ELSE s[n + 1]
        BY <2>5, <2>6, <1>1
      <4>2. CASE n < i
        <5>1. n \in 1..Len(s) /\ n # i /\ r[n] = s[n]
          BY <4>1, <4>2, <1>1
        <5> QED
          BY <5>1
      <4>3. CASE ~(n < i)
        <5>1. n + 1 \in 1..Len(s) /\ n + 1 # i /\ r[n] = s[n + 1]
          BY <4>1, <4>3, <1>1, <2>1
        <5> QED
          BY <5>1
      <4> QED
        BY <4>2, <4>3
    <3> QED
      BY <3>1, <2>1, <1>1 DEF IsInjective
  <2>7. ASSUME NEW m \in 1..Len(r), NEW n \in 1..Len(r), m < n
        PROVE  \E a, b \in 1..Len(s) : a < b /\ r[m] = s[a] /\ r[n] = s[b]
    <3> DEFINE Old(j) == IF j < i THEN j ELSE j + 1
    <3>1. Old(m) \in 1..Len(s) /\ Old(n) \in 1..Len(s) /\ Old(m) < Old(n)
      BY <2>5, <2>7, <1>1, <2>1
    <3>2. r[m] = s[Old(m)] /\ r[n] = s[Old(n)]
      BY <2>5, <1>1
    <3> QED
      BY <3>1, <3>2
  <2>8. ToSet(r) = ToSet(s) \ {key}
    <3>1. DOMAIN r = 1..Len(r) /\ Len(r) = Len(s) - 1 /\ i \in 1..Len(s)
      BY <2>1, <2>5
    <3>2. ASSUME NEW n \in 1..Len(r) PROVE \E a \in 1..Len(s) : r[n] = s[a]
      <4>1. n \in 1..Len(s) /\ n + 1 \in 1..Len(s)
        BY <3>1, <1>1
      <4> QED
        BY <4>1, <3>1, <2>5, <1>1
    <3>3. ASSUME NEW a \in 1..Len(s), s[a] # key PROVE \E n \in 1..Len(r) : r[n] = s[a]
      <4>1. CASE a < i
        <5>1. a \in 1..Len(r) /\ r[a] = s[a]
          BY <4>1, <3>1, <2>5, <1>1
        <5> QED
          BY <5>1
      <4>2. CASE ~(a < i)
        <5>1. a - 1 \in 1..Len(r) /\ ~(a - 1 < i) /\ (a - 1) + 1 = a
          BY <4>2, <3>1, <3>3, <2>1, <1>1
        <5>2. r[a - 1] = s[a]
          BY <5>1, <3>1, <2>5
        <5> QED
          BY <5>1, <5>2
      <4> QED
        BY <4>1, <4>2
    <3>4. ToSet(r) \subseteq ToSet(s) \ {key}
      BY <3>1, <3>2, <2>6, <1>1 DEF ToSet
    <3>5. ToSet(s) \ {key} \subseteq ToSet(r)
      BY <3>1, <3>3, <1>1 DEF ToSet
    <3> QED
      BY <3>4, <3>5
  <2> QED
    BY <2>5, <2>6, <2>7, <2>8 DEF r, Without
<1>3. CASE ~\E i \in 1..Len(s) : s[i] = key
  <2>1. r = s
    BY <1>3 DEF RemoveFirst
  <2>2. ToSet(s) = ToSet(s) \ {key}
    BY <1>1, <1>3 DEF ToSet
  <2> QED
    BY <2>1, <2>2, <1>1, <1>3 DEF Without
<1> QED
  BY <1>2, <1>3

\* The list after a key was prepended, or bubbled up.
LEMMA ToHeadOrder ==
    ASSUME NEW S, NEW s \in Seq(S), IsInjective(s), NEW key \in S
    PROVE  Headed(S, s, key, ToHead(s, key))
<1> DEFINE r == RemoveFirst(s, key)
           h == ToHead(s, key)
<1>1. Without(S, s, key, r)
  BY RemoveFirstOrder
<1>2. h = <<key>> \o r
  BY DEF ToHead
<1> HIDE DEF r, h
<1>3. /\ r \in Seq(S) /\ Len(r) \in Nat /\ Len(s) \in Nat /\ DOMAIN r = 1..Len(r)
      /\ \A n \in 1..Len(r) : r[n] \in S
  BY <1>1 DEF Without
<1>9. /\ \A n \in 1..Len(r) : r[n] # key
      /\ \A m, n \in 1..Len(r) : m < n =>
            \E a, b \in 1..Len(s) : a < b /\ r[m] = s[a] /\ r[n] = s[b]
  BY <1>1 DEF Without
<1>10. ToSet(r) = ToSet(s) \ {key}
  BY <1>1 DEF Without
<1>4. /\ h \in Seq(S) /\ Len(h) = Len(r) + 1
      /\ h[1] = key /\ \A n \in 2..Len(h) : h[n] = r[n - 1]
  <2>1. <<key>> \in Seq(S) /\ Len(<<key>>) = 1 /\ <<key>>[1] = key
    OBVIOUS
  <2> DEFINE k == <<key>>
  <2> HIDE DEF k
  <2>2. /\ k \o r \in Seq(S) /\ Len(k \o r) = Len(k) + Len(r)
        /\ \A n \in 1..(Len(k) + Len(r)) :
              (k \o r)[n] = IF n <= Len(k) THEN k[n] ELSE r[n - Len(k)]
    BY <2>1, <1>3, ConcatProperties DEF k
  <2> QED
    BY <2>1, <2>2, <1>2, <1>3 DEF k
<1>5. ASSUME NEW n \in 2..Len(h) PROVE h[n] # key
  <2>1. n - 1 \in 1..Len(r)
    BY <1>3, <1>4
  <2> QED
    BY <2>1, <1>4, <1>9
<1>6. ASSUME NEW m \in 2..Len(h), NEW n \in 2..Len(h), m < n
      PROVE  \E a, b \in 1..Len(s) : a < b /\ h[m] = s[a] /\ h[n] = s[b]
  <2>1. m - 1 \in 1..Len(r) /\ n - 1 \in 1..Len(r) /\ m - 1 < n - 1
    BY <1>3, <1>4, <1>6
  <2>2. PICK a \in 1..Len(s), b \in 1..Len(s) : a < b /\ r[m - 1] = s[a] /\ r[n - 1] = s[b]
    BY <2>1, <1>9
  <2>3. h[m] = r[m - 1] /\ h[n] = r[n - 1]
    BY <1>4, <1>6
  <2> QED
    BY <2>2, <2>3
<1>7. IsInjective(h)
  <2>1. ASSUME NEW m \in 1..Len(h), NEW n \in 1..Len(h), m < n PROVE h[m] # h[n]
    <3>1. CASE m = 1
      BY <3>1, <2>1, <1>4, <1>5
    <3>2. CASE m # 1
      <4>1. m \in 2..Len(h) /\ n \in 2..Len(h)
        BY <3>2, <2>1
      <4>2. PICK a \in 1..Len(s), b \in 1..Len(s) : a < b /\ h[m] = s[a] /\ h[n] = s[b]
        BY <4>1, <2>1, <1>6
      <4>3. DOMAIN s = 1..Len(s) /\ a # b
        BY <4>2, <1>3
      <4> QED
        BY <4>2, <4>3 DEF IsInjective
    <3> QED
      BY <3>1, <3>2
  <2>2. DOMAIN h = 1..Len(h) /\ Len(h) \in Nat
    BY <1>4
  <2> QED
    BY <2>1, <2>2 DEF IsInjective
<1>8. ToSet(h) = ToSet(s) \cup {key}
  <2>1. DOMAIN h = 1..Len(h) /\ DOMAIN r = 1..Len(r)
    BY <1>3, <1>4
  <2>2. \A n \in 1..Len(h) : n = 1 \/ (n \in 2..Len(h) /\ n - 1 \in 1..Len(r))
    <3>1. Len(h) = Len(r) + 1 /\ Len(r) \in Nat
      BY <1>3, <1>4
    <3> QED
      BY <3>1
  <2>3. 1 \in 1..Len(h) /\ \A n \in 1..Len(r) : n + 1 \in 2..Len(h) /\ n + 1 \in 1..Len(h) /\ (n + 1) - 1 = n
    BY <1>3, <1>4
  <2>4. ToSet(h) \subseteq ToSet(r) \cup {key}
    BY <2>1, <2>2, <1>4 DEF ToSet
  <2>5. ASSUME NEW x \in ToSet(r) \cup {key} PROVE x \in ToSet(h)
    <3>1. CASE x = key
      BY <3>1, <2>1, <2>3, <1>4 DEF ToSet
    <3>2. CASE x # key
      <4>1. PICK n \in 1..Len(r) : x = r[n]
        BY <3>2, <2>1 DEF ToSet
      <4>2. h[n + 1] = x
        BY <4>1, <2>3, <1>4
      <4> QED
        BY <4>2, <2>1, <2>3 DEF ToSet
    <3> QED
      BY <3>1, <3>2
  <2> QED
    BY <2>4, <2>5, <1>10
<1> QED
  BY <1>3, <1>4, <1>5, <1>6, <1>7, <1>8 DEF h, Headed

\* A key that is updated now goes to the head of the list.
LEMMA ToHeadOK ==
    ASSUME NEW K, NEW list, NEW update_time, NEW time \in Nat, NEW key \in K,
           ListOK(K, list, update_time, time)
    PROVE  ListOK(K, ToHead(list, key), [update_time EXCEPT ![key] = time], time)
<1> DEFINE h == ToHead(list, key)
           u == [update_time EXCEPT ![key] = time]
<1>1. Headed(K, list, key, h)
  BY ToHeadOrder DEF ListOK
<1> HIDE DEF h
<1>2. u \in [K -> Nat] /\ (\A k \in K : u[k] <= time) /\ u[key] = time
         /\ \A k \in K \ {key} : u[k] = update_time[k]
  BY DEF ListOK
<1> HIDE DEF u
<1>3. DOMAIN h = 1..Len(h) /\ Len(h) \in Nat /\ \A n \in 1..Len(h) : h[n] \in K
  BY <1>1 DEF Headed
<1>4. ASSUME NEW m \in 1..Len(h), NEW n \in 1..Len(h), m < n
      PROVE  u[h[m]] >= u[h[n]]
  <2>1. CASE m = 1
    BY <2>1, <1>1, <1>2, <1>3 DEF Headed
  <2>2. CASE m # 1
    <3>1. m \in 2..Len(h) /\ n \in 2..Len(h)
      BY <2>2, <1>4
    <3>2. PICK a \in 1..Len(list), b \in 1..Len(list) :
              a < b /\ h[m] = list[a] /\ h[n] = list[b]
      BY <3>1, <1>1, <1>4 DEF Headed
    <3>3. update_time[list[a]] >= update_time[list[b]]
      BY <3>2 DEF ListOK, NewestFirst
    <3> QED
      BY <3>1, <3>2, <3>3, <1>1, <1>2, <1>3 DEF Headed
  <2> QED
    BY <2>1, <2>2
<1> QED
  BY <1>1, <1>2, <1>3, <1>4 DEF ListOK, NewestFirst, Headed, h, u

\* Prune keeps a front of the list, and what it keeps is not stale: in a sorted list
\* nothing stale stands before what is not.
LEMMA PrunedOrder ==
    ASSUME NEW K, NEW list, NEW update_time, NEW time \in Nat,
           ListOK(K, list, update_time, time),
           NEW kept, kept = Pruned(list, update_time, time)
    PROVE  /\ \E m \in 0..Len(list) : kept = SubSeq(list, 1, m)
           /\ \A i \in DOMAIN kept : ~Stale(update_time[kept[i]], time)
<1> DEFINE fresh == {i \in DOMAIN list : ~Stale(update_time[list[i]], time)}
           m == Max(fresh \cup {0})
<1>1. /\ list \in Seq(K) /\ Len(list) \in Nat /\ DOMAIN list = 1..Len(list)
      /\ \A i \in 1..Len(list) : list[i] \in K /\ update_time[list[i]] \in Nat
  BY DEF ListOK
<1>2. m \in fresh \cup {0} /\ m \in 0..Len(list)
  <2>1. (fresh \cup {0}) \in SUBSET (0..Len(list))
    BY <1>1
  <2> HIDE DEF fresh
  <2> QED
    BY <2>1, <1>1, GreatestNatural
<1>3. kept = SubSeq(list, 1, m)
  BY DEF Pruned
<1> HIDE DEF m
<1>4. /\ DOMAIN kept = 1..m
      /\ \A i \in 1..m : kept[i] = list[i]
  BY <1>1, <1>2, <1>3
<1>5. ASSUME NEW i \in 1..m PROVE ~Stale(update_time[list[i]], time)
  <2>1. m \in fresh /\ i \in 1..Len(list) /\ m \in 1..Len(list)
    BY <1>2
  <2>2. update_time[list[i]] >= update_time[list[m]]
    <3>1. CASE i = m
      BY <3>1, <2>1, <1>1
    <3>2. CASE i < m
      BY <3>2, <2>1, <1>1 DEF ListOK, NewestFirst
    <3> QED
      BY <3>1, <3>2, <2>1
  <2>3. time - update_time[list[m]] <= AgeMax
    BY <2>1, <1>1, WindowAssumption DEF Stale
  <2> QED
    BY <2>1, <2>2, <2>3, <1>1, WindowAssumption DEF Stale
<1> QED
  BY <1>2, <1>3, <1>4, <1>5

\* What Prune keeps is what is not stale.
LEMMA PrunedSet ==
    ASSUME NEW K, NEW list, NEW update_time, NEW time \in Nat,
           ListOK(K, list, update_time, time)
    PROVE  \A k : k \in ToSet(Pruned(list, update_time, time)) <=>
                     k \in ToSet(list) /\ ~Stale(update_time[k], time)
<1> DEFINE fresh == {i \in DOMAIN list : ~Stale(update_time[list[i]], time)}
           m == Max(fresh \cup {0})
           kept == Pruned(list, update_time, time)
<1>1. list \in Seq(K) /\ Len(list) \in Nat /\ DOMAIN list = 1..Len(list)
  BY DEF ListOK
<1>2. m \in 0..Len(list) /\ \A i \in fresh : i <= m
  <2>1. (fresh \cup {0}) \in SUBSET (0..Len(list))
    BY <1>1
  <2> HIDE DEF fresh
  <2> QED
    BY <2>1, <1>1, GreatestNatural
<1>3. kept = SubSeq(list, 1, m)
  BY DEF Pruned
<1>4. \A i \in DOMAIN kept : ~Stale(update_time[kept[i]], time)
  BY PrunedOrder
<1> HIDE DEF m, kept
<1>5. DOMAIN kept = 1..m /\ \A i \in 1..m : kept[i] = list[i] /\ i \in 1..Len(list)
  BY <1>1, <1>2, <1>3
<1>6. ASSUME NEW k \in ToSet(kept) PROVE k \in ToSet(list) /\ ~Stale(update_time[k], time)
  BY <1>1, <1>4, <1>5 DEF ToSet
<1>7. ASSUME NEW k \in ToSet(list), ~Stale(update_time[k], time) PROVE k \in ToSet(kept)
  <2>1. PICK i \in 1..Len(list) : k = list[i]
    BY <1>1 DEF ToSet
  <2>2. i \in fresh
    BY <2>1, <1>1, <1>7
  <2>3. i \in 1..m
    BY <2>2, <1>1, <1>2
  <2> QED
    BY <2>1, <2>3, <1>5 DEF ToSet
<1> QED
  BY <1>6, <1>7 DEF kept

\* A pruned list is in order, with the times of the keys that are gone set back.
LEMMA PrunedOK ==
    ASSUME NEW K, NEW list, NEW update_time, NEW time \in Nat,
           ListOK(K, list, update_time, time),
           NEW kept, kept = Pruned(list, update_time, time),
           NEW u, u = [k \in K |-> IF k \in ToSet(kept) THEN update_time[k] ELSE 0]
    PROVE  /\ ListOK(K, kept, u, time)
           /\ \A i \in DOMAIN kept : ~Stale(u[kept[i]], time)
<1>1. /\ list \in Seq(K) /\ Len(list) \in Nat /\ IsInjective(list) /\ DOMAIN list = 1..Len(list)
      /\ update_time \in [K -> Nat] /\ \A k \in K : update_time[k] <= time
  BY DEF ListOK
<1>2. PICK m \in 0..Len(list) : kept = SubSeq(list, 1, m)
  BY PrunedOrder
<1>3. \A i \in DOMAIN kept : ~Stale(update_time[kept[i]], time)
  BY PrunedOrder
<1>4. /\ kept \in Seq(K) /\ DOMAIN kept = 1..m
      /\ \A i \in 1..m : kept[i] = list[i] /\ list[i] \in K
  BY <1>1, <1>2
<1>5. \A i \in 1..m : kept[i] \in ToSet(kept) /\ u[kept[i]] = update_time[list[i]]
  BY <1>4 DEF ToSet
<1>6. IsInjective(kept)
  BY <1>1, <1>4 DEF IsInjective
<1>7. u \in [K -> Nat] /\ \A k \in K : u[k] <= time
  BY <1>1
<1>8. NewestFirst(kept, u)
  <2>1. ASSUME NEW a \in 1..m, NEW b \in 1..m, a < b PROVE u[kept[a]] >= u[kept[b]]
    <3>1. a \in DOMAIN list /\ b \in DOMAIN list
      BY <1>1
    <3>2. update_time[list[a]] >= update_time[list[b]]
      BY <3>1, <2>1 DEF ListOK, NewestFirst
    <3> QED
      BY <3>2, <1>5
  <2> QED
    BY <2>1, <1>4 DEF NewestFirst
<1> QED
  BY <1>3, <1>4, <1>5, <1>6, <1>7, <1>8 DEF ListOK

-----------------------------------------------------------------------------
(* One window.                                                             *)

\* What is in a mask is not after its last index, and less than its size before it.
LEMMA HeldBefore ==
    ASSUME NEW m, Sound(m), IsSet(m), NEW i \in Indices, Holds(m, i)
    PROVE  /\ Turn(i, GetLastSet(m)) \in Places
           /\ Turn(m.offset, i) <= Width(m)
           /\ Turn(i, GetLastSet(m)) = Width(m) - Turn(m.offset, i)
<1>1. GetLastSet(m) \in Indices /\ Turn(m.offset, GetLastSet(m)) = Width(m)
         /\ Width(m) \in Places /\ m.offset \in Indices
  BY LastIs
<1>2. HasBit(m, Turn(m.offset, i)) /\ Turn(m.offset, i) \in Places
  BY DEF Holds, HasBit
<1>3. Turn(m.offset, i) <= Width(m)
  BY <1>2 DEF Sound, IsSet
<1>4. Turn(i, GetLastSet(m)) = Width(m) - Turn(m.offset, i)
  BY <1>1, <1>3, TurnBetween
<1> QED
  BY <1>1, <1>2, <1>3, <1>4, Sizes DEF Places

\* The first and the last index are in it.
LEMMA EndsHeld ==
    ASSUME NEW m, Sound(m), IsSet(m)
    PROVE  Holds(m, GetLastSet(m)) /\ Holds(m, m.offset)
<1>1. GetLastSet(m) \in Indices /\ Turn(m.offset, GetLastSet(m)) = Width(m)
         /\ Width(m) \in Places /\ m.offset \in Indices
  BY LastIs
<1>2. HasBit(m, 0) /\ HasBit(m, Width(m))
  BY DEF Sound, IsSet
<1>3. Turn(m.offset, m.offset) = 0
  BY <1>1, TurnRange
<1> QED
  BY <1>1, <1>2, <1>3 DEF Holds

\* Where an index lies that is not a duplicate, by its distance from the last one.
LEMMA NotDuplicateIs ==
    ASSUME NEW m, Sound(m), IsSet(m), NEW seq \in Indices, ~WindowIsDuplicate(m, seq)
    PROVE  LET delta == Difference(seq, GetLastSet(m))
           IN  \/ delta >= NumBits \/ -delta >= WindowPastMax
               \/ 0 < delta /\ delta < NumBits
               \/ -NumBits < delta /\ delta < 0 /\ ~Holds(m, seq)
<1> DEFINE delta == Difference(seq, GetLastSet(m))
<1>1. GetLastSet(m) \in Indices
  BY LastIs
<1>2. delta \in Int /\ (delta = 0 => seq = GetLastSet(m))
  <2>1. delta \in Int /\ (delta = 0 <=> Turn(GetLastSet(m), seq) = 0)
    BY <1>1, NearDifference, Sizes DEF Places
  <2> QED
    BY <2>1, <1>1, TurnRange
<1>3. Test(m, seq) <=> Holds(m, seq)
  BY TestIs
<1>4. delta = 0 => Holds(m, seq)
  BY <1>2, EndsHeld
<1> HIDE DEF delta
<1>5. ~(delta <= 0 /\ -delta < WindowPastMax /\ (-delta < NumBits => Test(m, seq)))
  BY DEF WindowIsDuplicate, delta
<1>6. WindowPastMax \in Int /\ NumBits \in Int
  BY WindowAssumption, Sizes
<1> QED
  BY <1>2, <1>3, <1>4, <1>5, <1>6 DEF delta

\* The index that is a window before the last one.
LEMMA WindowStart ==
    ASSUME NEW a \in Indices
    PROVE  /\ (a - NumBits + 1) % RangeSize \in Indices
           /\ Turn((a - NumBits + 1) % RangeSize, a) = NumBits - 1
<1> DEFINE x == a - NumBits + 1
<1>1. RangeSize \in Nat /\ RangeSize > 0 /\ x \in Int /\ x < RangeSize /\ -RangeSize <= x
  BY Sizes DEF Indices
<1>2. x % RangeSize = IF 0 <= x THEN x ELSE x + RangeSize
  BY <1>1, Wrapped
<1> QED
  BY <1>1, <1>2, Sizes DEF Turn, Indices

\* What is cleared before the window moves on by t.
LEMMA SlideAhead ==
    ASSUME NEW m, Sound(m), IsSet(m), NEW t \in 1..(NumBits - 1)
    PROVE  LET start == (GetLastSet(m) - NumBits + 1) % RangeSize
               u == UnsetBits(m, start, t)
           IN  /\ Sound(u) /\ IsSet(u) /\ GetLastSet(u) = GetLastSet(m)
               /\ \A i \in Indices : Holds(u, i) <=> Holds(m, i) /\ ~(Turn(start, i) < t)
<1> DEFINE last == GetLastSet(m)
           start == (GetLastSet(m) - NumBits + 1) % RangeSize
           u == UnsetBits(m, start, t)
           x == Turn(start, m.offset)
<1>1. last \in Indices /\ Turn(m.offset, last) = Width(m) /\ Width(m) \in Places /\ m.offset \in Indices
  BY LastIs
<1>2. start \in Indices /\ Turn(start, last) = NumBits - 1
  BY <1>1, WindowStart
<1>3. t \in 1..NumBits /\ t \in 0..NumBits /\ NumBits \in Nat
  BY Sizes
<1>4. x = NumBits - 1 - Width(m)
  <2>1. Turn(m.offset, last) <= Turn(start, last)
    BY <1>1, <1>2, Sizes DEF Places
  <2> QED
    BY <2>1, <1>1, <1>2, Sizes DEF Turn, Indices, Places
<1>5. x \in Places
  BY <1>1, <1>4, Sizes DEF Places
<1> HIDE DEF last, start, u, x
<1>6. Sound(u) /\ \A i \in Indices : Holds(u, i) <=> Holds(m, i) /\ ~(Turn(start, i) < t)
  <2>1. CASE x = 0
    <3>1. start = m.offset
      BY <2>1, <1>1, <1>2, TurnRange DEF x
    <3>2. Turn(m.offset, start) <= Width(m)
      BY <3>1, <1>1, TurnRange, Sizes DEF Places
    <3> QED
      BY <3>2, <1>2, <1>3, UnsetBitsInside DEF u
  <2>2. CASE x # 0 /\ x < t
    <3>1. Difference(start, last) <= 0
      <4>1. NumBits - 1 \in Places /\ NumBits - 1 # 0
        BY <2>2, <1>3, <1>5, Sizes DEF Places
      <4>2. Difference(start, last) = -(NumBits - 1)
        BY <4>1, <1>1, <1>2, BackDifference
      <4> QED
        BY <4>2, Sizes
    <3>2. t - 1 - x <= Width(m)
      BY <1>1, <1>4, Sizes DEF Places
    <3> QED
      BY ONLY Sound(m), IsSet(m), <3>1, <3>2, <2>2, <1>2, <1>3, <1>5, UnsetBitsOver DEF u, x, last
  <2>3. CASE x # 0 /\ t <= x
    <3>1. Difference(start, m.offset) = -x
      BY <2>3, <1>1, <1>2, <1>5, BackDifference DEF x
    <3>2. Difference(start, m.offset) < 0 /\ Difference(start, m.offset) + t <= 0
      BY <3>1, <2>3, <1>5, Sizes DEF Places
    <3>3. u = m /\ \A i \in Indices : Holds(m, i) => ~(Turn(start, i) < t)
      BY <3>2, <1>2, <1>3, UnsetBitsAway DEF u
    <3> QED
      BY <3>3
  <2> QED
    BY <2>1, <2>2, <2>3, <1>3, <1>5, Sizes DEF Places
<1>7. Holds(u, last)
  BY <1>1, <1>2, <1>6, EndsHeld, Sizes DEF last
<1>8. IsSet(u)
  BY <1>7 DEF Holds
<1>9. GetLastSet(u) = last
  <2>1. GetLastSet(u) \in Indices /\ Holds(u, GetLastSet(u))
    BY <1>6, <1>8, LastIs, EndsHeld
  <2>2. Holds(m, GetLastSet(u))
    BY <1>6, <2>1
  <2>3. Turn(GetLastSet(u), last) \in Places
    BY <2>1, <2>2, HeldBefore DEF last
  <2>4. Turn(last, GetLastSet(u)) \in Places
    BY <1>1, <1>6, <1>7, <1>8, HeldBefore
  <2> QED
    BY <2>1, <2>3, <2>4, <1>1, Sizes DEF Turn, Indices, Places
<1> QED
  BY <1>6, <1>8, <1>9 DEF u, start, last

\* The four ways in which a window takes an index.
Started(r, m, seq) == ~IsSet(m) /\ GetLastSet(r) = seq

Restarted(r, m, seq) ==
    /\ IsSet(m) /\ GetLastSet(r) = seq
    /\ Turn(GetLastSet(m), seq) >= NumBits /\ Turn(seq, GetLastSet(m)) >= NumBits

FilledIn(r, m, seq) ==
    /\ IsSet(m) /\ GetLastSet(r) = GetLastSet(m)
    /\ Turn(seq, GetLastSet(m)) \in 1..(NumBits - 1)
    /\ \A j \in Indices : Holds(m, j) => Holds(r, j)

MovedOn(r, m, seq) ==
    /\ IsSet(m) /\ GetLastSet(r) = seq
    /\ Turn(GetLastSet(m), seq) \in 1..(NumBits - 1)
    /\ \A j \in Indices : Holds(m, j) /\ Turn(j, seq) < NumBits => Holds(r, j)

\* What is set alone is the last one.
LEMMA SetAlone ==
    ASSUME NEW m, Sound(m), ~IsSet(m), NEW seq \in Indices
    PROVE  LET r == Set(m, seq)
           IN  /\ Sound(r) /\ IsSet(r) /\ GetLastSet(r) = seq
               /\ \A j \in Indices : Holds(r, j) <=> j = seq
<1> DEFINE r == Set(m, seq)
<1>1. Sound(r) /\ IsSet(r) /\ \A j \in Indices : Holds(r, j) <=> j = seq
  BY SetFirst
<1> HIDE DEF r
<1>2. GetLastSet(r) \in Indices /\ Holds(r, GetLastSet(r))
  BY <1>1, LastIs, EndsHeld
<1> QED
  BY <1>1, <1>2 DEF r

\* An index a little before the last one, which is not in the mask yet.
LEMMA SetBefore ==
    ASSUME NEW m, Sound(m), IsSet(m), NEW seq \in Indices,
           Turn(seq, GetLastSet(m)) \in 1..(NumBits - 1)
    PROVE  LET r == Set(m, seq)
           IN  /\ Sound(r) /\ IsSet(r) /\ GetLastSet(r) = GetLastSet(m)
               /\ \A j \in Indices : Holds(r, j) <=> Holds(m, j) \/ j = seq
<1> DEFINE last == GetLastSet(m)
           b == Turn(seq, last)
           r == Set(m, seq)
<1>1. last \in Indices /\ Turn(m.offset, last) = Width(m) /\ Width(m) \in Places /\ m.offset \in Indices
  BY LastIs
<1>2. b \in Places /\ b \in Nat /\ b # 0
  BY Sizes DEF Places
<1> HIDE DEF last, b
<1>3. CASE b <= Width(m)
  <2>1. Turn(m.offset, seq) = Width(m) - b
    BY <1>1, <1>2, <1>3, Sizes DEF Turn, Indices, Places, b
  <2>2. Turn(m.offset, seq) \in Places /\ Turn(m.offset, seq) <= Width(m)
    BY <2>1, <1>1, <1>2, <1>3, Sizes DEF Places
  <2>3. /\ Sound(r) /\ IsSet(r) /\ r.offset = m.offset /\ Width(r) = Width(m)
        /\ \A j \in Indices : Holds(r, j) <=> Holds(m, j) \/ j = seq
    BY <2>2, SetAhead
  <2> HIDE DEF r
  <2>4. GetLastSet(r) \in Indices /\ Turn(m.offset, GetLastSet(r)) = Width(m)
    BY <2>3, LastIs
  <2>5. GetLastSet(r) = last
    BY <2>4, <1>1, Sizes DEF Turn, Indices
  <2> QED
    BY <2>3, <2>5 DEF r, last
<1>4. CASE Width(m) < b
  <2>1. Turn(seq, m.offset) = b - Width(m)
    BY <1>1, <1>2, <1>4, Sizes DEF Turn, Indices, Places, b
  <2>2. Turn(seq, m.offset) \in Places /\ Turn(seq, m.offset) # 0
           /\ Width(m) + Turn(seq, m.offset) = b /\ b < NumBits
    BY <2>1, <1>1, <1>2, <1>4, Sizes DEF Places
  <2>3. /\ Sound(r) /\ IsSet(r) /\ r.offset = seq /\ Width(r) = b
        /\ \A j \in Indices : Holds(r, j) <=> Holds(m, j) \/ j = seq
    BY <2>2, SetBehind
  <2> HIDE DEF r
  <2>4. GetLastSet(r) \in Indices /\ Turn(seq, GetLastSet(r)) = b
    BY <2>3, LastIs
  <2>5. GetLastSet(r) = last
    BY <2>4, <1>1, Sizes DEF Turn, Indices, b
  <2> QED
    BY <2>3, <2>5 DEF r, last
<1> QED
  BY <1>1, <1>2, <1>3, <1>4, Sizes DEF Places

\* An index a little after the last one, in a mask with nothing a window before it.
LEMMA SetAfter ==
    ASSUME NEW m, Sound(m), IsSet(m), NEW seq \in Indices,
           Turn(GetLastSet(m), seq) \in 1..(NumBits - 1),
           Turn(m.offset, seq) = Turn(m.offset, GetLastSet(m)) + Turn(GetLastSet(m), seq),
           Turn(m.offset, seq) < NumBits
    PROVE  LET r == Set(m, seq)
           IN  /\ Sound(r) /\ IsSet(r) /\ GetLastSet(r) = seq
               /\ \A j \in Indices : Holds(r, j) <=> Holds(m, j) \/ j = seq
<1> DEFINE r == Set(m, seq)
<1>1. /\ GetLastSet(m) \in Indices /\ Turn(m.offset, GetLastSet(m)) = Width(m)
      /\ Width(m) \in Places /\ m.offset \in Indices
  BY LastIs
<1>2. Turn(m.offset, seq) \in Places /\ Width(m) < Turn(m.offset, seq)
  BY <1>1, Sizes DEF Places
<1>3. /\ Sound(r) /\ IsSet(r) /\ r.offset = m.offset /\ Width(r) = Turn(m.offset, seq)
      /\ \A j \in Indices : Holds(r, j) <=> Holds(m, j) \/ j = seq
  <2>1. /\ Sound(r) /\ IsSet(r) /\ r.offset = m.offset
        /\ Width(r) = IF Turn(m.offset, seq) <= Width(m) THEN Width(m) ELSE Turn(m.offset, seq)
        /\ \A j \in Indices : Holds(r, j) <=> Holds(m, j) \/ j = seq
    BY <1>2, SetAhead
  <2> QED
    BY <2>1, <1>1, <1>2, Sizes DEF Places
<1> HIDE DEF r
<1>4. GetLastSet(r) \in Indices /\ Turn(m.offset, GetLastSet(r)) = Turn(m.offset, seq)
  BY <1>3, LastIs
<1>5. GetLastSet(r) = seq
  BY <1>4, <1>1, Sizes DEF Turn, Indices
<1> QED
  BY <1>3, <1>5 DEF r

LEMMA TurnBefore ==
    ASSUME NEW a \in Indices, NEW b \in Indices, NEW c \in Indices, Turn(b, c) <= Turn(a, c)
    PROVE  Turn(a, b) = Turn(a, c) - Turn(b, c)
BY Sizes DEF Turn, Indices

\* What a window is after an index that is not a duplicate.
LEMMA WindowTakes ==
    ASSUME NEW m, Sound(m), NEW seq \in Indices, ~WindowIsDuplicate(m, seq),
           NEW r, r = WindowAfter(m, seq)
    PROVE  /\ Sound(r) /\ IsSet(r) /\ Holds(r, seq)
           /\ \A j \in Indices : Holds(r, j) => Holds(m, j) \/ j = seq
           /\ Started(r, m, seq) \/ Restarted(r, m, seq) \/ FilledIn(r, m, seq) \/ MovedOn(r, m, seq)
<1> DEFINE last == GetLastSet(m)
           delta == Difference(seq, last)
<1>1. Sound(Cleared) /\ ~IsSet(Cleared)
  BY Sizes, FullIs DEF Indices
<1>2. CASE ~IsSet(m)
  <2>1. r = Set(m, seq)
    BY <1>2 DEF WindowAfter
  <2>2. /\ Sound(r) /\ IsSet(r) /\ GetLastSet(r) = seq
        /\ \A j \in Indices : Holds(r, j) <=> j = seq
    BY <2>1, <1>2, SetAlone
  <2> QED
    BY <2>2, <1>2 DEF Started
<1>3. CASE IsSet(m)
  <2>1. last \in Indices /\ Turn(m.offset, last) = Width(m) /\ Width(m) \in Places /\ m.offset \in Indices
    BY <1>3, LastIs
  <2>2. r = Set(Slid(m, delta), seq)
    BY <1>3 DEF WindowAfter
  <2>3. \/ delta >= NumBits \/ -delta >= WindowPastMax
        \/ 0 < delta /\ delta < NumBits
        \/ -NumBits < delta /\ delta < 0 /\ ~Holds(m, seq)
    BY <1>3, NotDuplicateIs
  <2>4. delta = Turn(last, seq) \/ delta = Turn(last, seq) - RangeSize
    BY <2>1, DifferenceIs
  <2>5. delta \in Int /\ WindowPastMax \in Int /\ NumBits <= WindowPastMax
           /\ NumBits \in Nat /\ 1 <= NumBits /\ NumBits <= RangeSign
    BY <2>1, NearDifference, WindowAssumption, Sizes
  <2>6. delta < RangeSize /\ -delta <= RangeSign /\ delta <= RangeSign
    BY <2>1, DifferenceIs, Sizes DEF Turn, Indices
  <2> HIDE DEF last, delta
  <2>7. CASE delta >= NumBits \/ -delta >= WindowPastMax
    <3>1. r = Set(Cleared, seq)
      BY <2>2, <2>7 DEF Slid
    <3>2. /\ Sound(r) /\ IsSet(r) /\ GetLastSet(r) = seq
          /\ \A j \in Indices : Holds(r, j) <=> j = seq
      BY <3>1, <1>1, SetAlone
    <3>3. Turn(last, seq) >= NumBits /\ Turn(seq, last) >= NumBits
      BY <2>1, <2>4, <2>5, <2>6, <2>7, Sizes DEF Turn, Indices
    <3> QED
      BY <3>2, <3>3, <1>3 DEF Restarted, last
  <2>8. CASE 0 < delta /\ delta < NumBits
    <3> DEFINE t == Turn(last, seq)
               start == (last - NumBits + 1) % RangeSize
               u == UnsetBits(m, start, delta)
    <3>1. t = delta /\ delta \in 1..(NumBits - 1)
      BY <2>1, <2>4, <2>5, <2>8, Sizes DEF Turn, Indices
    <3>2. /\ Sound(u) /\ IsSet(u) /\ GetLastSet(u) = last
          /\ \A i \in Indices : Holds(u, i) <=> Holds(m, i) /\ ~(Turn(start, i) < delta)
      BY <3>1, <1>3, SlideAhead DEF last
    <3>3. r = Set(u, seq)
      <4>1. ~(delta >= NumBits \/ -delta >= WindowPastMax)
        BY <2>5, <2>8
      <4> QED
        BY <4>1, <2>2, <2>8 DEF Slid, last
    <3>4. start \in Indices /\ Turn(start, last) = NumBits - 1
      BY <2>1, WindowStart
    <3> HIDE DEF t, start, u
    <3>5. /\ u.offset \in Indices /\ Holds(u, u.offset) /\ Turn(u.offset, last) = Width(u)
          /\ Width(u) \in Places
      BY <3>2, LastIs, EndsHeld
    <3>6. delta <= Turn(start, u.offset)
      <4>1. Turn(start, u.offset) \in Int
        <5>1. Turn(start, u.offset) \in Indices
          BY <3>4, <3>5, TurnRange
        <5> QED
          BY <5>1, Sizes DEF Indices
      <4>2. ~(Turn(start, u.offset) < delta)
        BY <3>2, <3>5
      <4> QED
        BY <4>1, <4>2, <2>5
    <3>7. Turn(start, u.offset) = NumBits - 1 - Width(u)
      <4>1. Turn(u.offset, last) <= Turn(start, last)
        BY <3>4, <3>5, <2>5 DEF Places
      <4> QED
        BY <4>1, <3>4, <3>5, <2>1, TurnBefore
    <3>8. Turn(u.offset, seq) = Turn(u.offset, last) + delta /\ Turn(u.offset, seq) < NumBits
      <4>1. Width(u) + delta < NumBits
        BY <3>1, <3>5, <3>6, <3>7, <2>5 DEF Places
      <4> QED
        BY <4>1, <3>1, <3>5, <2>1, <2>5, Sizes DEF Turn, Indices, Places, t
    <3>9. /\ Sound(r) /\ IsSet(r) /\ GetLastSet(r) = seq
          /\ \A j \in Indices : Holds(r, j) <=> Holds(u, j) \/ j = seq
      BY <3>1, <3>2, <3>3, <3>8, SetAfter DEF t
    <3>10. ASSUME NEW j \in Indices, Holds(m, j), Turn(j, seq) < NumBits
           PROVE  Holds(r, j)
      <4>1. Turn(j, last) \in Places
        BY <3>10, <1>3, HeldBefore DEF last
      <4>2. Turn(start, j) = NumBits - 1 - Turn(j, last)
        <5>1. Turn(j, last) <= Turn(start, last)
          BY <4>1, <3>4, <2>5 DEF Places
        <5> QED
          BY <5>1, <4>1, <3>4, <2>1, <2>5, Sizes DEF Turn, Indices, Places
      <4>3. Turn(j, seq) = Turn(j, last) + delta
        BY <4>1, <3>1, <2>1, <2>5, Sizes DEF Turn, Indices, Places, t
      <4>4. ~(Turn(start, j) < delta)
        BY <4>1, <4>2, <4>3, <3>1, <3>10, <2>5 DEF Places
      <4> QED
        BY <4>4, <3>2, <3>9, <3>10
    <3>11. MovedOn(r, m, seq)
      BY <3>1, <3>9, <3>10, <1>3 DEF MovedOn, last, t
    <3> QED
      BY <3>2, <3>9, <3>11
  <2>9. CASE -NumBits < delta /\ delta < 0 /\ ~Holds(m, seq)
    <3>1. Turn(seq, last) \in 1..(NumBits - 1)
      BY <2>1, <2>4, <2>5, <2>9, Sizes DEF Turn, Indices
    <3>2. r = Set(m, seq)
      <4>1. ~(delta >= NumBits \/ -delta >= WindowPastMax) /\ ~(delta > 0)
        BY <2>5, <2>9
      <4> QED
        BY <4>1, <2>2 DEF Slid
    <3>3. /\ Sound(r) /\ IsSet(r) /\ GetLastSet(r) = last
          /\ \A j \in Indices : Holds(r, j) <=> Holds(m, j) \/ j = seq
      BY <3>1, <3>2, <1>3, SetBefore DEF last
    <3> QED
      BY <3>1, <3>3, <1>3 DEF FilledIn, last
  <2> QED
    BY <2>3, <2>7, <2>8, <2>9
<1> QED
  BY <1>2, <1>3

-----------------------------------------------------------------------------
(* A window and the stream it is for.  h is the last sequence number of    *)
(* the stream and n the number of its packets; the window has not seen     *)
(* what is not among them.                                                 *)

\* The packet is in the window, and the last one is not older.
Noted(m, id, h) == IsSet(m) /\ Turn(GetLastSet(m), h) <= Turn(id, h) /\ Holds(m, id)

Within(m, h, n) == IsSet(m) => Turn(GetLastSet(m), h) < n

\* No packet of the stream is so old that it looks new.
HasRoom(n) == n \in Nat /\ n + WindowPastMax <= RangeSize + 1

\* Of the packets that are not a window late the duplicates are those noted.
LEMMA DuplicateIsNoted ==
    ASSUME NEW m, Sound(m), NEW h \in Indices, NEW id \in Indices, Turn(id, h) < NumBits,
           NEW n, HasRoom(n), Within(m, h, n)
    PROVE  WindowIsDuplicate(m, id) <=> Noted(m, id, h)
<1> SUFFICES ASSUME IsSet(m) PROVE WindowIsDuplicate(m, id) <=> Noted(m, id, h)
  BY DEF WindowIsDuplicate, Noted
<1> DEFINE last == GetLastSet(m)
           delta == Difference(id, last)
           l == Turn(last, h)
           d == Turn(id, h)
<1>1. last \in Indices
  BY LastIs
<1>2. l \in Indices /\ d \in Indices
  BY <1>1, TurnRange
<1>3. l < n /\ n \in Nat /\ n + WindowPastMax <= RangeSize + 1 /\ d < NumBits
  BY DEF HasRoom, Within
<1>4. WindowPastMax \in Int /\ NumBits <= WindowPastMax
         /\ NumBits \in Nat /\ 1 <= NumBits /\ NumBits <= RangeSign
  BY WindowAssumption, Sizes
<1>5. Test(m, id) <=> Holds(m, id)
  BY TestIs
<1>6. WindowIsDuplicate(m, id) <=>
        delta <= 0 /\ -delta < WindowPastMax /\ (-delta < NumBits => Holds(m, id))
  BY <1>5 DEF WindowIsDuplicate
<1>7. Noted(m, id, h) <=> l <= d /\ Holds(m, id)
  BY DEF Noted
<1>8. CASE l <= d
  <2>1. Turn(id, last) = d - l
    BY <1>1, <1>8, TurnBefore, <1>2, Sizes DEF Turn, Indices
  <2>2. delta = -(d - l)
    <3>1. CASE d = l
      <4>1. id = last
        BY <3>1, <1>1, Sizes DEF Turn, Indices
      <4>2. Turn(last, id) = 0
        BY <4>1, <1>1, TurnRange
      <4>3. delta = 0
        BY <4>2, <1>1, NearDifference, Sizes DEF Places
      <4> QED
        BY <4>3, <3>1, <1>2, Sizes DEF Indices
    <3>2. CASE d # l
      <4>1. Turn(id, last) \in Places /\ Turn(id, last) # 0
        BY <2>1, <3>2, <1>2, <1>3, <1>4, <1>8, Sizes DEF Places, Indices
      <4> QED
        BY <4>1, <2>1, <1>1, BackDifference
    <3> QED
      BY <3>1, <3>2
  <2> HIDE DEF delta, l, d
  <2>3. delta <= 0 /\ -delta < WindowPastMax /\ -delta < NumBits
    BY <2>2, <1>2, <1>3, <1>4, <1>8, Sizes DEF Indices
  <2> QED
    BY <2>3, <1>6, <1>7, <1>8
<1>9. CASE ~(l <= d)
  <2>1. Turn(last, id) = l - d
    BY <1>1, <1>2, <1>9, Sizes DEF Turn, Indices
  <2>2. delta = l - d \/ delta = l - d - RangeSize
    BY <2>1, <1>1, DifferenceIs
  <2> HIDE DEF delta, l, d
  <2>3. ~(delta <= 0 /\ -delta < WindowPastMax)
    BY <2>2, <1>2, <1>3, <1>4, <1>9, Sizes DEF Indices
  <2> QED
    BY <2>3, <1>6, <1>7, <1>9
<1> QED
  BY <1>8, <1>9

\* What the window of a stream is after one of its packets.
LEMMA StreamTakes ==
    ASSUME NEW m, Sound(m), NEW h \in Indices, NEW id \in Indices, Turn(id, h) < NumBits,
           NEW n, HasRoom(n), Within(m, h, n), Turn(id, h) < n, ~Noted(m, id, h),
           NEW r, r = WindowAfter(m, id)
    PROVE  /\ Noted(r, id, h) /\ Within(r, h, n)
           /\ \A j \in Indices : Turn(j, h) < NumBits /\ Noted(m, j, h) => Noted(r, j, h)
           /\ \A j \in Indices : Holds(r, j) => Holds(m, j) \/ j = id
<1>1. ~WindowIsDuplicate(m, id)
  BY DuplicateIsNoted
<1>2. /\ Sound(r) /\ IsSet(r) /\ Holds(r, id)
      /\ \A j \in Indices : Holds(r, j) => Holds(m, j) \/ j = id
      /\ Started(r, m, id) \/ Restarted(r, m, id) \/ FilledIn(r, m, id) \/ MovedOn(r, m, id)
  BY <1>1, WindowTakes
<1>3. Turn(id, h) \in Int /\ Turn(id, h) <= Turn(id, h)
  BY TurnRange, Sizes DEF Indices
<1>4. CASE Started(r, m, id)
  BY <1>2, <1>3, <1>4 DEF Started, Noted, Within
<1> DEFINE last == GetLastSet(m)
<1>5. IsSet(m) => last \in Indices /\ Turn(last, h) \in Int /\ Turn(last, h) < n
  <2>1. IsSet(m) => last \in Indices
    BY LastIs
  <2>2. IsSet(m) => Turn(last, h) \in Indices
    BY <2>1, TurnRange
  <2> QED
    BY <2>1, <2>2, Sizes DEF Indices, Within
<1>6. CASE Restarted(r, m, id)
  <2>1. IsSet(m) /\ GetLastSet(r) = id /\ Turn(last, id) >= NumBits /\ Turn(id, last) >= NumBits
    BY <1>6 DEF Restarted
  <2>2. Turn(last, h) >= NumBits
    <3> HIDE DEF last
    <3>1. last \in Indices /\ Turn(last, h) \in Int /\ Turn(id, h) \in Nat /\ NumBits \in Nat
      <4>1. Turn(id, h) \in Indices
        BY TurnRange
      <4> QED
        BY <4>1, <2>1, <1>5, Sizes DEF Indices
    <3>2. CASE Turn(last, h) <= Turn(id, h)
      <4>1. Turn(id, last) = Turn(id, h) - Turn(last, h)
        BY <3>1, <3>2, Sizes DEF Turn, Indices
      <4>2. Turn(last, h) >= 0
        BY <3>1, TurnRange, Sizes DEF Indices
      <4> QED
        BY <4>1, <4>2, <2>1, <3>1
    <3>3. CASE Turn(id, h) <= Turn(last, h)
      <4>1. Turn(last, id) = Turn(last, h) - Turn(id, h)
        BY <3>1, <3>3, TurnBefore
      <4> QED
        BY <4>1, <2>1, <3>1
    <3> QED
      BY <3>1, <3>2, <3>3
  <2>3. ASSUME NEW j \in Indices, Turn(j, h) < NumBits PROVE ~Noted(m, j, h)
    <3>1. Turn(j, h) \in Int /\ NumBits \in Int
      <4>1. Turn(j, h) \in Indices
        BY TurnRange
      <4> QED
        BY <4>1, Sizes DEF Indices
    <3> QED
      BY <3>1, <2>1, <2>2, <2>3, <1>5 DEF Noted
  <2> QED
    BY <2>1, <2>3, <1>2, <1>3 DEF Noted, Within
<1>7. CASE FilledIn(r, m, id)
  <2>1. /\ IsSet(m) /\ GetLastSet(r) = last /\ Turn(id, last) \in 1..(NumBits - 1)
        /\ \A j \in Indices : Holds(m, j) => Holds(r, j)
    BY <1>7 DEF FilledIn
  <2>2. Turn(last, h) <= Turn(id, h)
    <3> HIDE DEF last
    <3>1. last \in Indices /\ Turn(last, h) \in Nat /\ Turn(id, h) \in Nat
      <4>1. Turn(id, h) \in Indices /\ Turn(last, h) \in Indices
        BY <2>1, <1>5, TurnRange
      <4> QED
        BY <4>1, <2>1, <1>5, Sizes DEF Indices
    <3>2. Turn(last, h) <= RangeSize - NumBits
      BY <3>1, <2>1, <1>5, WindowAssumption, Sizes DEF HasRoom
    <3>3. CASE Turn(id, h) < Turn(last, h)
      <4>1. Turn(id, last) = RangeSize - (Turn(last, h) - Turn(id, h))
        BY <3>1, <3>3, Sizes DEF Turn, Indices
      <4> QED
        BY <4>1, <3>1, <3>2, <3>3, <2>1, Sizes
    <3> QED
      BY <3>1, <3>3
  <2> QED
    BY <2>1, <2>2, <1>2 DEF Noted, Within
<1>8. CASE MovedOn(r, m, id)
  <2>1. /\ IsSet(m) /\ GetLastSet(r) = id /\ Turn(last, id) \in 1..(NumBits - 1)
        /\ \A j \in Indices : Holds(m, j) /\ Turn(j, id) < NumBits => Holds(r, j)
    BY <1>8 DEF MovedOn
  <2>2. ASSUME NEW j \in Indices, Turn(j, h) < NumBits, Noted(m, j, h)
        PROVE  Noted(r, j, h)
    <3>1. Holds(m, j) /\ Turn(last, h) <= Turn(j, h)
      BY <2>2 DEF Noted
    <3> HIDE DEF last
    <3>2. Turn(id, h) <= Turn(last, h) /\ Turn(j, id) < NumBits /\ Turn(id, h) <= Turn(j, h)
      <4>1. Turn(id, h) <= Turn(last, h)
        BY <2>1, <1>5, Sizes DEF Turn, Indices
      <4>2. Turn(id, h) <= Turn(j, h)
        <5>1. Turn(j, h) \in Indices
          BY TurnRange
        <5> QED
          BY <5>1, <4>1, <3>1, <1>3, <2>1, <1>5, Sizes DEF Indices
      <4>3. Turn(j, id) = Turn(j, h) - Turn(id, h)
        BY <4>2, Sizes DEF Turn, Indices
      <4> QED
        BY <4>1, <4>2, <4>3, <2>2, TurnRange, Sizes DEF Indices
    <3> QED
      BY <3>1, <3>2, <2>1, <2>2, <1>2 DEF Noted
  <2> QED
    BY <2>1, <2>2, <1>2, <1>3 DEF Noted, Within
<1> QED
  BY <1>2, <1>4, <1>6, <1>7, <1>8

\* The stream goes on with its next packet.
LEMMA HeadMoves ==
    ASSUME NEW m, Sound(m), NEW h \in Indices, NEW n, HasRoom(n + 1), n \in Nat, Within(m, h, n),
           NEW next, next = (h + 1) % RangeSize
    PROVE  /\ next \in Indices /\ Turn(next, next) = 0
           /\ Within(m, next, n + 1) /\ ~Holds(m, next)
           /\ \A j \in Indices : Turn(j, h) < NumBits => Turn(j, next) = Turn(j, h) + 1
           /\ \A j \in Indices : Turn(j, h) < NumBits /\ Noted(m, j, h) => Noted(m, j, next)
<1>1. 1 \in Indices
  BY Sizes DEF Indices
<1>2. next \in Indices /\ next = IF h + 1 < RangeSize THEN h + 1 ELSE h + 1 - RangeSize
  BY <1>1, StepIs
<1>3. Turn(next, next) = 0
  BY <1>2, TurnRange
<1>4. ASSUME NEW j \in Indices, Turn(j, h) < RangeSize - 1
      PROVE  Turn(j, next) = Turn(j, h) + 1
  BY <1>2, <1>4, Sizes DEF Turn, Indices
<1>5. NumBits <= RangeSize - 1 /\ NumBits \in Nat /\ RangeSize \in Nat
         /\ n + 1 + WindowPastMax <= RangeSize + 1 /\ WindowPastMax >= NumBits /\ WindowPastMax \in Int
         /\ 1 <= NumBits
  BY Sizes, WindowAssumption DEF HasRoom
<1>6. ASSUME NEW j \in Indices, Turn(j, h) < NumBits PROVE Turn(j, next) = Turn(j, h) + 1
  <2>1. Turn(j, h) \in Indices
    BY TurnRange
  <2>2. Turn(j, h) < RangeSize - 1
    BY <2>1, <1>5, <1>6, Sizes DEF Indices
  <2> QED
    BY <2>2, <1>4
<1>7. ASSUME IsSet(m)
      PROVE  /\ GetLastSet(m) \in Indices /\ Turn(GetLastSet(m), h) \in Indices
             /\ Turn(GetLastSet(m), h) < n
             /\ Turn(GetLastSet(m), next) = Turn(GetLastSet(m), h) + 1
  <2>1. GetLastSet(m) \in Indices /\ Turn(GetLastSet(m), h) < n
    BY <1>7, LastIs DEF Within
  <2>2. Turn(GetLastSet(m), h) \in Indices
    BY <2>1, TurnRange
  <2>3. Turn(GetLastSet(m), h) < RangeSize - 1
    BY <2>1, <2>2, <1>5, Sizes DEF Indices
  <2> QED
    BY <2>1, <2>2, <2>3, <1>4
<1>8. Within(m, next, n + 1)
  BY <1>7, Sizes DEF Within, Indices
<1>9. ~Holds(m, next)
  <2> SUFFICES ASSUME Holds(m, next) PROVE FALSE
    OBVIOUS
  <2>1. IsSet(m)
    BY DEF Holds
  <2>2. Turn(next, GetLastSet(m)) \in Places
    BY <2>1, <1>2, HeldBefore
  <2>3. next # GetLastSet(m)
    <3>1. Turn(GetLastSet(m), next) # 0
      BY <1>7, <2>1, Sizes DEF Indices
    <3> QED
      BY <3>1, <1>3
  <2>4. Turn(next, GetLastSet(m)) = RangeSize - Turn(GetLastSet(m), next)
    BY <2>1, <2>3, <1>2, <1>7, Sizes DEF Turn, Indices
  <2>5. Turn(next, GetLastSet(m)) >= NumBits
    BY <2>1, <2>4, <1>5, <1>7, Sizes DEF Indices
  <2> QED
    BY <2>2, <2>5, <1>5, Sizes DEF Places
<1>10. ASSUME NEW j \in Indices, Turn(j, h) < NumBits, Noted(m, j, h) PROVE Noted(m, j, next)
  <2>1. IsSet(m) /\ Turn(GetLastSet(m), h) <= Turn(j, h) /\ Holds(m, j)
    BY <1>10 DEF Noted
  <2>2. Turn(j, next) = Turn(j, h) + 1
    BY <1>6, <1>10
  <2>3. Turn(j, h) \in Indices
    BY TurnRange
  <2>4. Turn(GetLastSet(m), next) <= Turn(j, next)
    BY <2>1, <2>2, <2>3, <1>7, Sizes DEF Indices
  <2> QED
    BY <2>1, <2>4 DEF Noted
<1> QED
  BY <1>2, <1>3, <1>6, <1>8, <1>9, <1>10

-----------------------------------------------------------------------------
(* The trees and the sequence manager.                                     *)

\* A flow is in the list when its window is set, and a tree whose flows cannot
\* be initialized has none.
TreeOK(t, time) ==
    /\ t \in [inits : BOOLEAN, flow_list : Seq(Keys),
              window : [Keys -> Masks], update_time : [Keys -> Nat]]
    /\ ListOK(Keys, t.flow_list, t.update_time, time)
    /\ \A k \in Keys : Sound(t.window[k]) /\ (IsSet(t.window[k]) <=> k \in ToSet(t.flow_list))
    /\ t.inits \/ t.flow_list = <<>>

MgrOK(mgr, time) ==
    /\ mgr \in [flow_list : Seq(Pairs), sequence : [Pairs -> Indices], update_time : [Pairs -> Nat]]
    /\ ListOK(Pairs, mgr.flow_list, mgr.update_time, time)

LEMMA EmptyListOK ==
    ASSUME NEW K, NEW time \in Nat
    PROVE  /\ ListOK(K, <<>>, [k \in K |-> 0], time)
           /\ <<>> \in Seq(K) /\ ToSet(<<>>) = {}
<1>1. ToSet(<<>>) = {}
  BY DEF ToSet
<1> QED
  BY <1>1 DEF ListOK, IsInjective, NewestFirst

LEMMA EmptyTreeOK ==
    ASSUME NEW inits \in BOOLEAN, NEW time \in Nat PROVE TreeOK(EmptyTree(Keys, inits), time)
<1> DEFINE t == EmptyTree(Keys, inits)
<1>1. /\ t.inits = inits /\ t.flow_list = <<>>
      /\ t.window = [k \in Keys |-> Cleared] /\ t.update_time = [k \in Keys |-> 0]
  BY DEF EmptyTree
<1>2. Sound(Cleared) /\ ~IsSet(Cleared) /\ Cleared \in Masks
  BY Sizes, FullIs DEF Indices, Sound
<1>3. /\ ListOK(Keys, <<>>, [k \in Keys |-> 0], time)
      /\ <<>> \in Seq(Keys) /\ ToSet(<<>>) = {}
  BY EmptyListOK
<1>4. t \in [inits : BOOLEAN, flow_list : Seq(Keys),
             window : [Keys -> Masks], update_time : [Keys -> Nat]]
  BY <1>2, <1>3 DEF EmptyTree
<1> HIDE DEF t
<1> QED
  BY <1>1, <1>2, <1>3, <1>4 DEF TreeOK, t

\* Time goes on.
LEMMA ListLater ==
    ASSUME NEW K, NEW list, NEW u, NEW time \in Nat, ListOK(K, list, u, time)
    PROVE  ListOK(K, list, u, time + 1)
BY DEF ListOK

\* A tree that has not seen a packet of the flow takes it at its head.
LEMMA AfterOK ==
    ASSUME NEW t, NEW time \in Nat, NEW key \in Keys, NEW seq \in Indices, TreeOK(t, time),
           NEW a, a = After(t, time, key, seq)
    PROVE  /\ TreeOK(a, time) /\ a.inits = t.inits
           /\ IsDuplicate(t, key, seq) => a = t
           /\ ~IsDuplicate(t, key, seq) =>
                /\ t.inits
                /\ ~WindowIsDuplicate(t.window[key], seq)
                /\ a.window = [t.window EXCEPT ![key] = WindowAfter(t.window[key], seq)]
                /\ a.update_time = [t.update_time EXCEPT ![key] = time]
<1>1. CASE IsDuplicate(t, key, seq)
  BY <1>1 DEF After
<1>2. CASE ~IsDuplicate(t, key, seq)
  <2> DEFINE w == WindowAfter(t.window[key], seq)
             list == ToHead(t.flow_list, key)
             u == [t.update_time EXCEPT ![key] = time]
  <2>1. /\ t \in [inits : BOOLEAN, flow_list : Seq(Keys),
                  window : [Keys -> Masks], update_time : [Keys -> Nat]]
        /\ ListOK(Keys, t.flow_list, t.update_time, time)
        /\ \A k \in Keys : Sound(t.window[k]) /\ (IsSet(t.window[k]) <=> k \in ToSet(t.flow_list))
        /\ t.inits \/ t.flow_list = <<>>
    BY DEF TreeOK
  <2>2. /\ a.inits = t.inits /\ a.flow_list = list
        /\ a.window = [t.window EXCEPT ![key] = w] /\ a.update_time = u
        /\ a = [inits |-> a.inits, flow_list |-> a.flow_list,
                window |-> a.window, update_time |-> a.update_time]
    BY <1>2, <2>1 DEF After
  <2>3. /\ ~WindowIsDuplicate(t.window[key], seq)
        /\ key \in ToSet(t.flow_list) \/ t.inits
    BY <1>2 DEF IsDuplicate
  <2>4. t.inits
    BY <2>1, <2>3, EmptyListOK
  <2>5. Sound(w) /\ IsSet(w) /\ w \in Masks
    <3>1. Sound(w) /\ IsSet(w)
      BY <2>1, <2>3, WindowTakes
    <3> QED
      BY <3>1 DEF Sound
  <2>6. ListOK(Keys, list, u, time)
    BY <2>1, ToHeadOK
  <2>7. ToSet(list) = ToSet(t.flow_list) \cup {key} /\ list \in Seq(Keys)
    <3>1. Headed(Keys, t.flow_list, key, list)
      BY <2>1, ToHeadOrder DEF ListOK
    <3> QED
      BY <3>1 DEF Headed
  <2> HIDE DEF w, list, u
  <2>8. u \in [Keys -> Nat]
    BY <2>6 DEF ListOK
  <2>9. a \in [inits : BOOLEAN, flow_list : Seq(Keys),
               window : [Keys -> Masks], update_time : [Keys -> Nat]]
    <3>1. a.inits \in BOOLEAN /\ a.flow_list \in Seq(Keys) /\ a.update_time \in [Keys -> Nat]
      BY <2>1, <2>2, <2>7, <2>8
    <3>2. a.window \in [Keys -> Masks]
      BY <2>1, <2>2, <2>5
    <3> QED
      BY <3>1, <3>2, <2>2
  <2>10. ASSUME NEW k \in Keys
         PROVE  Sound(a.window[k]) /\ (IsSet(a.window[k]) <=> k \in ToSet(a.flow_list))
    <3>1. CASE k = key
      BY <3>1, <2>1, <2>2, <2>5, <2>7
    <3>2. CASE k # key
      <4>1. a.window[k] = t.window[k]
        BY <3>2, <2>1, <2>2
      <4> QED
        BY <4>1, <3>2, <2>1, <2>2, <2>7
    <3> QED
      BY <3>1, <3>2
  <2>11. TreeOK(a, time)
    BY <2>2, <2>4, <2>6, <2>9, <2>10 DEF TreeOK
  <2> QED
    BY <1>2, <2>2, <2>3, <2>4, <2>11 DEF w, u
<1> QED
  BY <1>1, <1>2

\* What is left of a tree after Prune: the flows that are not stale, as they were.
LEMMA PruneOK ==
    ASSUME NEW t, NEW time \in Nat, TreeOK(t, time), NEW r, r = Prune(t, time)
    PROVE  /\ TreeOK(r, time + 1) /\ r.inits = t.inits
           /\ \A i \in DOMAIN r.flow_list : ~Stale(r.update_time[r.flow_list[i]], time)
           /\ \A k : k \in ToSet(r.flow_list) <=>
                        k \in ToSet(t.flow_list) /\ ~Stale(t.update_time[k], time)
           /\ \A k \in Keys : IF k \in ToSet(r.flow_list)
                              THEN r.window[k] = t.window[k] /\ r.update_time[k] = t.update_time[k]
                              ELSE ~IsSet(r.window[k])
<1> DEFINE kept == Pruned(t.flow_list, t.update_time, time)
           u == [k \in Keys |-> IF k \in ToSet(kept) THEN t.update_time[k] ELSE 0]
           w == [k \in Keys |-> IF k \in ToSet(kept) THEN t.window[k] ELSE Cleared]
<1>1. /\ t \in [inits : BOOLEAN, flow_list : Seq(Keys),
                window : [Keys -> Masks], update_time : [Keys -> Nat]]
      /\ ListOK(Keys, t.flow_list, t.update_time, time)
      /\ \A k \in Keys : Sound(t.window[k]) /\ (IsSet(t.window[k]) <=> k \in ToSet(t.flow_list))
      /\ t.inits \/ t.flow_list = <<>>
  BY DEF TreeOK
<1>2. /\ r.inits = t.inits /\ r.flow_list = kept /\ r.window = w /\ r.update_time = u
      /\ r = [inits |-> r.inits, flow_list |-> r.flow_list,
              window |-> r.window, update_time |-> r.update_time]
  BY <1>1 DEF Prune
<1>3. Sound(Cleared) /\ ~IsSet(Cleared) /\ Cleared \in Masks
  BY Sizes, FullIs DEF Indices, Sound
<1>4. \A k : k \in ToSet(kept) <=> k \in ToSet(t.flow_list) /\ ~Stale(t.update_time[k], time)
  BY <1>1, PrunedSet
<1>5. ListOK(Keys, kept, u, time) /\ \A i \in DOMAIN kept : ~Stale(u[kept[i]], time)
  <2>1. u = [k \in Keys |-> IF k \in ToSet(kept) THEN t.update_time[k] ELSE 0]
    OBVIOUS
  <2>2. kept = Pruned(t.flow_list, t.update_time, time)
    OBVIOUS
  <2>3. ListOK(Keys, t.flow_list, t.update_time, time) /\ time \in Nat
    BY <1>1
  <2> HIDE DEF kept, u
  <2> QED
    BY ONLY <2>1, <2>2, <2>3, PrunedOK
<1>6. w \in [Keys -> Masks]
         /\ \A k \in Keys : w[k] = IF k \in ToSet(kept) THEN t.window[k] ELSE Cleared
  BY <1>1, <1>3
<1>7. \A k \in Keys : u[k] = IF k \in ToSet(kept) THEN t.update_time[k] ELSE 0
  OBVIOUS
<1>8. ~t.inits => kept = <<>>
  <2> SUFFICES ASSUME ~t.inits PROVE kept = <<>>
    OBVIOUS
  <2>1. ToSet(kept) = {}
    BY <1>1, <1>4, EmptyListOK
  <2>2. kept \in Seq(Keys)
    BY <1>5 DEF ListOK
  <2> HIDE DEF kept
  <2>3. DOMAIN kept = 1..Len(kept) /\ Len(kept) \in Nat
    BY <2>2
  <2>4. Len(kept) = 0
    <3>1. 1 \notin DOMAIN kept
      BY <2>1 DEF ToSet
    <3> QED
      BY <3>1, <2>3
  <2> QED
    BY <2>2, <2>4, EmptySeq
<1> HIDE DEF kept, u, w
<1>9. kept \in Seq(Keys) /\ u \in [Keys -> Nat]
  BY <1>5 DEF ListOK
<1>10. r \in [inits : BOOLEAN, flow_list : Seq(Keys),
              window : [Keys -> Masks], update_time : [Keys -> Nat]]
  <2>1. /\ r.inits \in BOOLEAN /\ r.flow_list \in Seq(Keys) /\ r.window \in [Keys -> Masks]
        /\ r.update_time \in [Keys -> Nat]
    BY <1>1, <1>2, <1>6, <1>9
  <2> QED
    BY <2>1, <1>2
<1>11. ListOK(Keys, r.flow_list, r.update_time, time + 1)
  BY <1>2, <1>5, ListLater
<1>12. \A k \in Keys : Sound(r.window[k]) /\ (IsSet(r.window[k]) <=> k \in ToSet(r.flow_list))
  BY <1>1, <1>2, <1>3, <1>4, <1>6
<1>13. TreeOK(r, time + 1)
  BY <1>1, <1>2, <1>8, <1>10, <1>11, <1>12 DEF TreeOK
<1> QED
  BY <1>2, <1>3, <1>4, <1>5, <1>6, <1>7, <1>13

LEMMA SequenceOK ==
    ASSUME NEW mgr, NEW time \in Nat, NEW pair \in Pairs, NEW start \in Indices, MgrOK(mgr, time),
           NEW r, r = IncrementSequence(mgr, time, pair, start)
    PROVE  LET id == NextSequence(mgr, pair, start)
           IN  /\ MgrOK(r, time) /\ id \in Indices
               /\ ToSet(r.flow_list) = ToSet(mgr.flow_list) \cup {pair}
               /\ r.sequence = [mgr.sequence EXCEPT ![pair] = (id + 1) % RangeSize]
               /\ r.update_time = [mgr.update_time EXCEPT ![pair] = time]
<1> DEFINE id == NextSequence(mgr, pair, start)
           list == ToHead(mgr.flow_list, pair)
           s == [mgr.sequence EXCEPT ![pair] = (id + 1) % RangeSize]
           u == [mgr.update_time EXCEPT ![pair] = time]
<1>1. /\ mgr \in [flow_list : Seq(Pairs), sequence : [Pairs -> Indices], update_time : [Pairs -> Nat]]
      /\ ListOK(Pairs, mgr.flow_list, mgr.update_time, time)
  BY DEF MgrOK
<1>2. id \in Indices
  BY <1>1 DEF NextSequence
<1>3. ListOK(Pairs, list, u, time)
  BY <1>1, ToHeadOK
<1>4. ToSet(list) = ToSet(mgr.flow_list) \cup {pair} /\ list \in Seq(Pairs)
  <2>1. Headed(Pairs, mgr.flow_list, pair, list)
    BY <1>1, ToHeadOrder DEF ListOK
  <2> QED
    BY <2>1 DEF Headed
<1>5. r = [flow_list |-> list, sequence |-> s, update_time |-> u]
  BY DEF IncrementSequence
<1>6. s \in [Pairs -> Indices]
  <2>1. (id + 1) % RangeSize \in Indices
    <3>1. 1 \in Indices
      BY Sizes DEF Indices
    <3> QED
      BY <3>1, <1>2, StepIs
  <2> QED
    BY <1>1, <2>1
<1> HIDE DEF id, list, s, u
<1>7. u \in [Pairs -> Nat]
  BY <1>3 DEF ListOK
<1>8. MgrOK(r, time)
  BY <1>3, <1>4, <1>5, <1>6, <1>7 DEF MgrOK
<1> QED
  BY <1>2, <1>4, <1>5, <1>8 DEF id, s, u

LEMMA PruneSequencesOK ==
    ASSUME NEW mgr, NEW time \in Nat, MgrOK(mgr, time), NEW r, r = PruneSequences(mgr, time)
    PROVE  /\ MgrOK(r, time + 1)
           /\ \A k : k \in ToSet(r.flow_list) <=>
                        k \in ToSet(mgr.flow_list) /\ ~Stale(mgr.update_time[k], time)
           /\ \A k \in Pairs : k \in ToSet(r.flow_list) =>
                 r.sequence[k] = mgr.sequence[k] /\ r.update_time[k] = mgr.update_time[k]
<1> DEFINE kept == Pruned(mgr.flow_list, mgr.update_time, time)
           s == [k \in Pairs |-> IF k \in ToSet(kept) THEN mgr.sequence[k] ELSE 0]
           u == [k \in Pairs |-> IF k \in ToSet(kept) THEN mgr.update_time[k] ELSE 0]
<1>1. /\ mgr \in [flow_list : Seq(Pairs), sequence : [Pairs -> Indices], update_time : [Pairs -> Nat]]
      /\ ListOK(Pairs, mgr.flow_list, mgr.update_time, time)
  BY DEF MgrOK
<1>2. r = [flow_list |-> kept, sequence |-> s, update_time |-> u]
  BY DEF PruneSequences
<1>3. \A k : k \in ToSet(kept) <=> k \in ToSet(mgr.flow_list) /\ ~Stale(mgr.update_time[k], time)
  BY <1>1, PrunedSet
<1>4. ListOK(Pairs, kept, u, time)
  <2>1. u = [k \in Pairs |-> IF k \in ToSet(kept) THEN mgr.update_time[k] ELSE 0]
    OBVIOUS
  <2>2. kept = Pruned(mgr.flow_list, mgr.update_time, time)
    OBVIOUS
  <2>3. ListOK(Pairs, mgr.flow_list, mgr.update_time, time) /\ time \in Nat
    BY <1>1
  <2> HIDE DEF kept, u
  <2> QED
    BY ONLY <2>1, <2>2, <2>3, PrunedOK
<1>5. s \in [Pairs -> Indices]
  <2>1. 0 \in Indices
    BY Sizes DEF Indices
  <2> QED
    BY <1>1, <2>1
<1>6. \A k \in Pairs : k \in ToSet(kept) => s[k] = mgr.sequence[k] /\ u[k] = mgr.update_time[k]
  OBVIOUS
<1> HIDE DEF kept, s, u
<1>7. kept \in Seq(Pairs) /\ u \in [Pairs -> Nat]
  BY <1>4 DEF ListOK
<1>8. ListOK(Pairs, kept, u, time + 1)
  BY <1>4, ListLater
<1>9. MgrOK(r, time + 1)
  BY <1>2, <1>5, <1>7, <1>8 DEF MgrOK
<1> QED
  BY <1>2, <1>3, <1>6, <1>9

-----------------------------------------------------------------------------
(* The node.                                                               *)

Fates == {"none", "sent", "skipped", "again", "missed"}

Packets == [stream : AllStreams, number : Nat, id : Indices, born : Nat,
            from : Ifaces \cup {NoIface}, fate : [Ifaces -> Fates]]

IInv ==
    /\ config \in Configs
    /\ {relay_enabled, relay_selected} \subseteq BOOLEAN
    /\ selectors \subseteq Macs /\ neighbors \subseteq Macs
    /\ current_update_time \in Nat
    /\ DOMAIN trees = Ifaces
    /\ \A i \in Ifaces : TreeOK(trees[i], current_update_time)
    /\ MgrOK(seqMgr, current_update_time)
    /\ sent \in [AllStreams -> Nat]
    /\ first \in [Streams -> Indices]
    /\ air \subseteq Packets
    /\ \A p \in air : p.number \in 1..sent[p.stream]

LEMMA KeysOf ==
    ASSUME NEW stream \in AllStreams
    PROVE  FlowKey(stream) \in Keys /\ KeyOf(stream) \in Keys
BY DEF Keys

LEMMA PairOf ==
    ASSUME NEW stream \in AllStreams
    PROVE  stream.pair \in Pairs /\ Resequenced(stream.pair) \in AllStreams
<1>1. CASE stream \in Streams
  BY <1>1 DEF AllStreams, Pairs
<1>2. CASE stream \notin Streams
  <2>1. PICK s \in Streams : stream = Resequenced(s.pair)
    BY <1>2 DEF AllStreams
  <2>2. stream.pair = s.pair
    BY <2>1 DEF Resequenced
  <2> QED
    BY <2>1, <2>2 DEF AllStreams, Pairs
<1> QED
  BY <1>1, <1>2

\* A new packet.
LEMMA PacketIs ==
    ASSUME NEW stream \in AllStreams, NEW number \in Nat, NEW id \in Indices,
           NEW from \in Ifaces \cup {NoIface}, current_update_time \in Nat,
           NEW p, p = Packet(stream, number, id, from)
    PROVE  /\ p \in Packets
           /\ p.stream = stream /\ p.number = number /\ p.id = id /\ p.from = from
           /\ p.born = current_update_time
           /\ \A i \in Ifaces : p.fate[i] = IF i = from THEN "skipped" ELSE "none"
<1> DEFINE fate == [i \in Ifaces |-> IF i = from THEN "skipped" ELSE "none"]
<1>1. fate \in [Ifaces -> Fates]
  BY DEF Fates
<1>2. \A i \in Ifaces : fate[i] = IF i = from THEN "skipped" ELSE "none"
  OBVIOUS
<1>3. p = [stream |-> stream, number |-> number, id |-> id, born |-> current_update_time,
           from |-> from, fate |-> fate]
  BY DEF Packet
<1> HIDE DEF fate
<1> QED
  BY <1>1, <1>2, <1>3 DEF Packets

\* A packet whose fate has changed.
LEMMA FateIs ==
    ASSUME NEW p \in Packets, NEW f \in [Ifaces -> Fates], NEW q, q = [p EXCEPT !.fate = f]
    PROVE  /\ q \in Packets /\ q.stream = p.stream /\ q.number = p.number /\ q.id = p.id
           /\ q.born = p.born /\ q.from = p.from /\ q.fate = f
BY DEF Packets

LEMMA InitIInv == Init => IInv
<1> SUFFICES ASSUME Init PROVE IInv
  OBVIOUS
<1>1. PICK inits \in BOOLEAN : trees = [i \in Ifaces |-> EmptyTree(Keys, inits)]
  BY DEF Init
<1>2. current_update_time = 0 /\ seqMgr = EmptySeqMgr /\ air = {}
         /\ sent = [s \in AllStreams |-> 0] /\ first \in [Streams -> FirstIds]
  BY DEF Init
<1>3. MgrOK(EmptySeqMgr, 0)
  <2>1. 0 \in Indices
    BY Sizes DEF Indices
  <2> QED
    BY <2>1, EmptyListOK DEF MgrOK, EmptySeqMgr
<1>4. first \in [Streams -> Indices]
  BY <1>2, SmfAssumption
<1>5. /\ config \in Configs /\ {relay_enabled, relay_selected} \subseteq BOOLEAN
      /\ selectors \subseteq Macs /\ neighbors \subseteq Macs
  BY DEF Init
<1> QED
  BY <1>1, <1>2, <1>3, <1>4, <1>5, EmptyTreeOK DEF IInv

-----------------------------------------------------------------------------
(* The loop over the associates.                                           *)

\* The interfaces whose trees the packet is shown to.
Asked(src, mac) == {a.to : a \in {b \in config.associates[src] : UpdatesTree(b.type, mac)}}

\* What may become of a packet there that is so far behind.
Decided(packet, t, behind, fate, after) ==
    IF IsDuplicate(t, KeyOf(packet.stream), packet.id)
    THEN after = IF fate = "none" /\ ~(behind >= NumBits) THEN "missed" ELSE fate
    ELSE IF fate # "none" THEN after = "again"
    ELSE after = "skipped" \/ (after = "sent" /\ relay_enabled)

LEMMA RelayedIs ==
    ASSUME NEW packet \in Packets, NEW src, NEW mac, NEW ttl, NEW table, NEW newest,
           Relayed(packet, src, mac, ttl, table, newest)
    PROVE  /\ trees' = [i \in Ifaces |->
                 IF i \in Asked(src, mac)
                 THEN After(table[i], current_update_time, KeyOf(packet.stream), packet.id)
                 ELSE table[i]]
           /\ \E f \in [Ifaces -> Fates] :
                /\ air' = UnderWay((air \ {packet}) \cup {[packet EXCEPT !.fate = f]}, newest)
                /\ \A i \in Ifaces :
                      IF i \in Asked(src, mac)
                      THEN Decided(packet, table[i], newest[packet.stream] - packet.number,
                                   packet.fate[i], f[i])
                      ELSE f[i] = packet.fate[i]
<1> DEFINE key == KeyOf(packet.stream)
           updated == {a \in config.associates[src] : UpdatesTree(a.type, mac)}
           dsts == {a.to : a \in updated}
           sending == {a.to : a \in {b \in updated : Forwards(b.type, mac) /\ ttl > 1}}
           duplicate == {i \in dsts : IsDuplicate(table[i], key, packet.id)}
           behind == newest[packet.stream] - packet.number
           late == behind >= NumBits
           Fate(i) ==
               IF i \in duplicate
               THEN IF packet.fate[i] = "none" /\ ~late THEN "missed" ELSE packet.fate[i]
               ELSE IF packet.fate[i] # "none" THEN "again"
               ELSE IF i \in sending THEN "sent" ELSE "skipped"
           f == [i \in Ifaces |-> IF i \in dsts THEN Fate(i) ELSE packet.fate[i]]
<1>1. /\ trees' = [i \in Ifaces |->
            IF i \in dsts THEN After(table[i], current_update_time, key, packet.id) ELSE table[i]]
      /\ air' = UnderWay((air \ {packet}) \cup
            {[packet EXCEPT !.fate = [i \in Ifaces |-> IF i \in dsts THEN Fate(i) ELSE @[i]]]}, newest)
  BY DEF Relayed
<1>2. dsts = Asked(src, mac)
  BY DEF Asked
<1>3. [packet EXCEPT !.fate = [i \in Ifaces |-> IF i \in dsts THEN Fate(i) ELSE @[i]]] =
        [packet EXCEPT !.fate = f]
  OBVIOUS
<1>4. packet.fate \in [Ifaces -> Fates]
  BY DEF Packets
<1>5. \A i : Fate(i) \in Fates \/ Fate(i) = packet.fate[i]
  BY DEF Fates
<1>6. \A i \in Ifaces : f[i] \in Fates
  <2> HIDE DEF Fate, dsts
  <2> QED
    BY <1>4, <1>5
<1>7. f \in [Ifaces -> Fates]
  <2> HIDE DEF Fate, dsts
  <2> QED
    BY <1>6
<1>8. ASSUME NEW i \in Ifaces
      PROVE  IF i \in dsts THEN Decided(packet, table[i], behind, packet.fate[i], f[i])
             ELSE f[i] = packet.fate[i]
  <2>1. f[i] = IF i \in dsts THEN Fate(i) ELSE packet.fate[i]
    OBVIOUS
  <2>2. i \in duplicate <=> i \in dsts /\ IsDuplicate(table[i], key, packet.id)
    OBVIOUS
  <2>3. i \in sending => relay_enabled
    BY DEF Forwards
  <2> HIDE DEF f, duplicate, dsts, sending, behind
  <2> QED
    BY <2>1, <2>2, <2>3 DEF Decided
<1> HIDE DEF f, behind, late, dsts
<1> QED
  BY <1>1, <1>2, <1>3, <1>7, <1>8 DEF behind

\* Trees of all interfaces.
TreesOK(table) == DOMAIN table = Ifaces /\ \A i \in Ifaces : TreeOK(table[i], current_update_time)

LEMMA MarkedOK ==
    ASSUME IInv, NEW packet \in Packets, NEW src
    PROVE  TreesOK(MarkedAtSource(packet, src))
<1>1. FlowKey(packet.stream) \in Keys /\ packet.id \in Indices
  BY KeysOf DEF Packets
<1>2. ASSUME NEW i \in Ifaces
      PROVE  TreeOK(After(trees[i], current_update_time, FlowKey(packet.stream), packet.id),
                    current_update_time)
  BY <1>1, AfterOK DEF IInv
<1> QED
  BY <1>2 DEF MarkedAtSource, TreesOK, IInv

LEMMA RelayedOK ==
    ASSUME IInv, NEW packet \in Packets, NEW src, NEW mac, NEW ttl,
           NEW table, TreesOK(table), NEW newest, Relayed(packet, src, mac, ttl, table, newest)
    PROVE  /\ DOMAIN trees' = Ifaces
           /\ \A i \in Ifaces : TreeOK(trees'[i], current_update_time)
           /\ air' \subseteq Packets
           /\ \A q \in air' : q \in air \/ (q.stream = packet.stream /\ q.number = packet.number)
<1>1. KeyOf(packet.stream) \in Keys /\ packet.id \in Indices
  BY KeysOf DEF Packets
<1>2. /\ trees' = [i \in Ifaces |->
            IF i \in Asked(src, mac)
            THEN After(table[i], current_update_time, KeyOf(packet.stream), packet.id)
            ELSE table[i]]
      /\ \E f \in [Ifaces -> Fates] :
            air' = UnderWay((air \ {packet}) \cup {[packet EXCEPT !.fate = f]}, newest)
  <2>1. packet \in Packets /\ Relayed(packet, src, mac, ttl, table, newest)
    OBVIOUS
  <2> QED
    BY ONLY <2>1, RelayedIs
<1>3. ASSUME NEW i \in Ifaces PROVE TreeOK(trees'[i], current_update_time)
  <2>1. TreeOK(After(table[i], current_update_time, KeyOf(packet.stream), packet.id),
               current_update_time)
    BY <1>1, AfterOK DEF IInv, TreesOK
  <2> QED
    BY <1>2, <2>1 DEF TreesOK
<1>4. PICK f \in [Ifaces -> Fates] :
         air' = UnderWay((air \ {packet}) \cup {[packet EXCEPT !.fate = f]}, newest)
  BY <1>2
<1> DEFINE q == [packet EXCEPT !.fate = f]
<1>5. q \in Packets /\ q.stream = packet.stream /\ q.number = packet.number
  BY FateIs
<1>6. air' \subseteq air \cup {q}
  BY <1>4 DEF UnderWay
<1> HIDE DEF q
<1> QED
  BY <1>2, <1>3, <1>5, <1>6 DEF IInv

LEMMA ProcessPacketIInv ==
    ASSUME IInv, NEW p \in air, NEW src \in Ifaces, NEW mac \in Macs, NEW ttl,
           ProcessPacket(p, src, mac, ttl)
    PROVE  IInv'
<1>1. /\ UNCHANGED <<config, relay_enabled, relay_selected, selectors, neighbors, first>>
      /\ current_update_time' = current_update_time
  BY DEF ProcessPacket, control
<1>2. p \in Packets /\ p.stream \in AllStreams
  BY DEF IInv, Packets
<1>3. CASE ProcessAsIs(p, src, mac, ttl)
  <2>1. Relayed(p, src, mac, ttl, MarkedAtSource(p, src), sent) /\ seqMgr' = seqMgr /\ sent' = sent
    BY <1>3 DEF ProcessAsIs
  <2>2. TreesOK(MarkedAtSource(p, src))
    BY <1>2, MarkedOK
  <2>3. /\ DOMAIN trees' = Ifaces
        /\ \A i \in Ifaces : TreeOK(trees'[i], current_update_time)
        /\ air' \subseteq Packets
        /\ \A q \in air' : q \in air \/ (q.stream = p.stream /\ q.number = p.number)
    BY <1>2, <2>1, <2>2, RelayedOK
  <2>4. \A q \in air' : q.number \in 1..sent[q.stream]
    BY <2>3 DEF IInv
  <2> QED
    BY <1>1, <2>1, <2>3, <2>4 DEF IInv
<1>4. ASSUME NEW start \in Seeds, ProcessAndResequence(p, src, mac, ttl, start)
      PROVE  IInv'
  <2> DEFINE pair == p.stream.pair
             stream == Resequenced(pair)
             id == NextSequence(seqMgr, pair, start)
             renumbered == Packet(stream, sent[stream] + 1, id, src)
  <2>1. pair \in Pairs /\ stream \in AllStreams /\ start \in Indices
    BY <1>2, PairOf, SmfAssumption
  <2>2. /\ seqMgr' = IncrementSequence(seqMgr, current_update_time, pair, start)
        /\ sent' = [sent EXCEPT ![stream] = @ + 1]
        /\ Relayed(renumbered, src, mac, ttl, MarkedAtSource(renumbered, src), sent')
    BY <1>4 DEF ProcessAndResequence
  <2> HIDE DEF stream, pair
  <2>3. MgrOK(seqMgr', current_update_time) /\ id \in Indices
    BY <2>1, <2>2, SequenceOK DEF IInv
  <2>4. sent[stream] \in Nat /\ sent' \in [AllStreams -> Nat] /\ sent'[stream] = sent[stream] + 1
           /\ \A s \in AllStreams : sent'[s] >= sent[s] /\ sent[s] \in Nat /\ sent'[s] \in Nat
    BY <2>1, <2>2 DEF IInv
  <2> HIDE DEF id
  <2>5. renumbered \in Packets /\ renumbered.stream = stream /\ renumbered.number = sent[stream] + 1
    <3>1. sent[stream] + 1 \in Nat /\ src \in Ifaces \cup {NoIface} /\ current_update_time \in Nat
      BY <2>4 DEF IInv
    <3> QED
      BY <3>1, <2>1, <2>3, PacketIs
  <2> HIDE DEF renumbered
  <2>6. TreesOK(MarkedAtSource(renumbered, src))
    BY <2>5, MarkedOK
  <2>7. /\ DOMAIN trees' = Ifaces
        /\ \A i \in Ifaces : TreeOK(trees'[i], current_update_time)
        /\ air' \subseteq Packets
        /\ \A q \in air' : q \in air \/ (q.stream = renumbered.stream /\ q.number = renumbered.number)
    BY <2>2, <2>5, <2>6, RelayedOK
  <2>8. ASSUME NEW q \in air' PROVE q.number \in 1..sent'[q.stream]
    <3>1. CASE q \in air
      <4>1. q.stream \in AllStreams /\ q.number \in 1..sent[q.stream]
        BY <3>1 DEF IInv, Packets
      <4> QED
        BY <4>1, <2>4
    <3>2. CASE q.stream = renumbered.stream /\ q.number = renumbered.number
      BY <3>2, <2>4, <2>5
    <3> QED
      BY <3>1, <3>2, <2>7
  <2> QED
    BY <1>1, <2>3, <2>4, <2>7, <2>8 DEF IInv
<1> QED
  BY <1>3, <1>4 DEF ProcessPacket

LEMMA OnPruneTimeoutIInv ==
    ASSUME IInv, OnPruneTimeout
    PROVE  /\ IInv'
           /\ \A i \in Ifaces : \A k \in DOMAIN trees'[i].flow_list :
                 ~Stale(trees'[i].update_time[trees'[i].flow_list[k]], current_update_time)
<1>1. /\ current_update_time' = current_update_time + 1
      /\ trees' = [i \in Ifaces |-> Prune(trees[i], current_update_time)]
      /\ seqMgr' = PruneSequences(seqMgr, current_update_time)
      /\ air' \subseteq air
      /\ UNCHANGED <<config, relay_enabled, relay_selected, selectors, neighbors, sent, first>>
  BY DEF OnPruneTimeout, control
<1>2. ASSUME NEW i \in Ifaces
      PROVE  LET r == Prune(trees[i], current_update_time)
             IN  /\ TreeOK(r, current_update_time + 1)
                 /\ \A k \in DOMAIN r.flow_list :
                       ~Stale(r.update_time[r.flow_list[k]], current_update_time)
  BY PruneOK DEF IInv
<1>3. MgrOK(seqMgr', current_update_time + 1)
  BY <1>1, PruneSequencesOK DEF IInv
<1> QED
  BY <1>1, <1>2, <1>3 DEF IInv

\* What a source sends.
LEMMA OriginateIs ==
    ASSUME IInv, NEW stream \in Streams, Originate(stream)
    PROVE  LET p == Packet(stream, sent'[stream], (first[stream] + sent[stream]) % RangeSize, NoIface)
           IN  /\ stream \in AllStreams
               /\ sent' \in [AllStreams -> Nat] /\ sent[stream] \in Nat
               /\ sent' = [sent EXCEPT ![stream] = sent[stream] + 1]
               /\ \A s \in AllStreams : sent'[s] >= sent[s] /\ sent[s] \in Nat /\ sent'[s] \in Nat
               /\ p \in Packets /\ p.stream = stream /\ p.number = sent[stream] + 1
               /\ p.id = (first[stream] + sent[stream]) % RangeSize
               /\ p.from = NoIface /\ p.born = current_update_time
               /\ \A i \in Ifaces : p.fate[i] = "none"
               /\ air' = UnderWay(air \cup {p}, sent')
<1> DEFINE p == Packet(stream, sent'[stream], (first[stream] + sent[stream]) % RangeSize, NoIface)
<1>1. stream \in AllStreams
  BY DEF AllStreams
<1>2. sent' = [sent EXCEPT ![stream] = @ + 1] /\ sent \in [AllStreams -> Nat]
  BY DEF Originate, IInv
<1>3. /\ sent[stream] \in Nat /\ sent' \in [AllStreams -> Nat] /\ sent'[stream] = sent[stream] + 1
      /\ \A s \in AllStreams : sent'[s] >= sent[s] /\ sent[s] \in Nat /\ sent'[s] \in Nat
  BY <1>1, <1>2
<1>4. (first[stream] + sent[stream]) % RangeSize \in Indices
  <2>1. first[stream] + sent[stream] \in Int
    BY <1>3, Sizes DEF IInv, Indices
  <2>2. RangeSize \in Nat /\ RangeSize > 0
    BY Sizes
  <2> QED
    BY <2>1, <2>2 DEF Indices
<1> DEFINE id == (first[stream] + sent[stream]) % RangeSize
<1> HIDE DEF id
<1>5. /\ p \in Packets /\ p.stream = stream /\ p.number = sent'[stream] /\ p.id = id
      /\ p.from = NoIface /\ p.born = current_update_time
      /\ \A i \in Ifaces : p.fate[i] = IF i = NoIface THEN "skipped" ELSE "none"
  <2>1. sent'[stream] \in Nat /\ id \in Indices /\ NoIface \in Ifaces \cup {NoIface}
           /\ current_update_time \in Nat
    BY <1>3, <1>4 DEF IInv, id
  <2>2. p = Packet(stream, sent'[stream], id, NoIface)
    BY DEF id
  <2> HIDE DEF p
  <2> QED
    BY <2>1, <2>2, <1>1, PacketIs
<1>6. air' = UnderWay(air \cup {p}, sent')
  BY DEF Originate
<1>7. \A i \in Ifaces : p.fate[i] = "none"
  BY <1>5, SmfAssumption
<1> HIDE DEF p
<1> QED
  BY <1>1, <1>2, <1>3, <1>5, <1>6, <1>7 DEF id, p

LEMMA OriginateIInv ==
    ASSUME IInv, NEW stream \in Streams, Originate(stream) PROVE IInv'
<1> DEFINE p == Packet(stream, sent'[stream], (first[stream] + sent[stream]) % RangeSize, NoIface)
<1>2. /\ stream \in AllStreams /\ sent' \in [AllStreams -> Nat] /\ sent[stream] \in Nat
      /\ sent' = [sent EXCEPT ![stream] = sent[stream] + 1]
      /\ \A s \in AllStreams : sent'[s] >= sent[s] /\ sent[s] \in Nat /\ sent'[s] \in Nat
      /\ p \in Packets /\ p.stream = stream /\ p.number = sent[stream] + 1
      /\ air' = UnderWay(air \cup {p}, sent')
  BY OriginateIs
<1> HIDE DEF p
<1>3. air' \subseteq air \cup {p}
  BY <1>2 DEF UnderWay
<1>4. ASSUME NEW q \in air' PROVE q.number \in 1..sent'[q.stream]
  <2>1. CASE q \in air
    <3>1. q.stream \in AllStreams /\ q.number \in 1..sent[q.stream]
      BY <2>1 DEF IInv, Packets
    <3> QED
      BY <3>1, <1>2
  <2>2. CASE q = p
    <3>1. sent'[stream] = sent[stream] + 1 /\ sent \in [AllStreams -> Nat]
      BY <1>2 DEF IInv
    <3> QED
      BY <2>2, <3>1, <1>2
  <2> QED
    BY <1>3, <2>1, <2>2
<1>5. /\ UNCHANGED <<config, relay_enabled, relay_selected, selectors, neighbors>>
      /\ UNCHANGED <<trees, seqMgr, current_update_time, first>>
  BY DEF Originate, control
<1> QED
  BY <1>2, <1>3, <1>4, <1>5 DEF IInv

LEMMA NextIInv == IInv /\ [Next]_vars => IInv'
<1> SUFFICES ASSUME IInv, [Next]_vars PROVE IInv'
  OBVIOUS
<1>1. ASSUME UNCHANGED <<config, trees, seqMgr, current_update_time, air, sent, first>>,
             {relay_enabled', relay_selected'} \subseteq BOOLEAN,
             selectors' \subseteq Macs, neighbors' \subseteq Macs
      PROVE  IInv'
  BY <1>1 DEF IInv
<1>2. ASSUME NEW state \in BOOLEAN, SetRelayEnabled(state) \/ SetRelaySelected(state)
      PROVE  IInv'
  BY <1>1, <1>2 DEF SetRelayEnabled, SetRelaySelected, net, IInv
<1>3. ASSUME NEW macs \in SUBSET Macs, SetSelectorList(macs) \/ SetNeighborList(macs)
      PROVE  IInv'
  BY <1>1, <1>3 DEF SetSelectorList, SetNeighborList, net, IInv
<1>4. CASE UNCHANGED vars
  BY <1>1, <1>4 DEF vars, net, control, IInv
<1> QED
  BY <1>2, <1>3, <1>4, ProcessPacketIInv, OnPruneTimeoutIInv, OriginateIInv DEF Next

LEMMA Invariant == Spec => []IInv
<1> QED
  BY InitIInv, NextIInv, PTL DEF Spec

\* The trees hold the flows whose windows are set, each once; packets under way are
\* of known streams, with the numbers that those have had.
THEOREM TypeCorrect == Spec => []TypeOK
<1>1. IInv => TypeOK
  <2> SUFFICES ASSUME IInv PROVE TypeOK
    OBVIOUS
  <2>1. ASSUME NEW i \in Ifaces
        PROVE  /\ IsInjective(trees[i].flow_list) /\ ToSet(trees[i].flow_list) \subseteq Keys
               /\ \A k \in Keys : IsSet(trees[i].window[k]) <=> k \in ToSet(trees[i].flow_list)
    <3>1. TreeOK(trees[i], current_update_time)
      BY DEF IInv
    <3>2. trees[i].flow_list \in Seq(Keys) /\ IsInjective(trees[i].flow_list)
      BY <3>1 DEF TreeOK, ListOK
    <3>3. ToSet(trees[i].flow_list) \subseteq Keys
      BY <3>2 DEF ToSet
    <3> QED
      BY <3>1, <3>2, <3>3 DEF TreeOK
  <2>2. IsInjective(seqMgr.flow_list) /\ ToSet(seqMgr.flow_list) \subseteq Pairs
    <3>1. seqMgr.flow_list \in Seq(Pairs) /\ IsInjective(seqMgr.flow_list)
      BY DEF IInv, MgrOK, ListOK
    <3> QED
      BY <3>1 DEF ToSet
  <2>3. \A p \in air : p.stream \in AllStreams /\ p.id \in Indices /\ p.number \in 1..sent[p.stream]
    BY DEF IInv, Packets
  <2> QED
    BY <2>1, <2>2, <2>3 DEF IInv, TypeOK
<1> QED
  BY <1>1, Invariant, PTL

\* The lists that Prune walks from their tails are sorted by time.
THEOREM ListsAreSorted == Spec => []ListIsSorted
<1>1. IInv => ListIsSorted
  BY DEF IInv, TreeOK, MgrOK, ListOK, ListIsSorted
<1> QED
  BY <1>1, Invariant, PTL

\* What Prune leaves is not stale, although it stops at the first flow that is not
\* (SmfDuplicateTree::Prune): no flow is remembered for longer than update_age_max.
THEOREM PruneIsComplete ==
    Spec => [][OnPruneTimeout =>
                 \A i \in Ifaces : \A k \in DOMAIN trees'[i].flow_list :
                    ~Stale(trees'[i].update_time[trees'[i].flow_list[k]],
                           current_update_time)]_vars
<1>1. IInv /\ [Next]_vars =>
        [OnPruneTimeout =>
             \A i \in Ifaces : \A k \in DOMAIN trees'[i].flow_list :
                ~Stale(trees'[i].update_time[trees'[i].flow_list[k]],
                       current_update_time)]_vars
  BY OnPruneTimeoutIInv
<1> QED
  BY <1>1, Invariant, PTL DEF Spec

-----------------------------------------------------------------------------
(* A packet and a tree that it may have been shown to; h is the last       *)
(* sequence number of its stream.                                          *)

\* The tree takes the packet for a duplicate, and its flow is not older.
TreeHas(t, p, h) ==
    \/ ~t.inits
    \/ /\ Noted(t.window[KeyOf(p.stream)], p.id, h)
       /\ p.born <= t.update_time[KeyOf(p.stream)]

\* It has it just when something became of the packet there.
Entered(t, fate, p, h) ==
    /\ fate # "none" => TreeHas(t, p, h)
    /\ Holds(t.window[KeyOf(p.stream)], p.id) => fate # "none"
    /\ fate # "again" /\ (fate = "missed" => ~t.inits)

\* The packet is shown to the tree.
LEMMA Shown ==
    ASSUME NEW t, NEW time \in Nat, TreeOK(t, time), NEW p \in Packets, p.born <= time,
           NEW h \in Indices, NEW n, HasRoom(n), Within(t.window[KeyOf(p.stream)], h, n),
           Turn(p.id, h) < NumBits, Turn(p.id, h) < n,
           NEW behind \in Nat, behind < NumBits,
           NEW before, NEW after, Entered(t, before, p, h), Decided(p, t, behind, before, after),
           NEW a, a = After(t, time, KeyOf(p.stream), p.id)
    PROVE  /\ TreeOK(a, time) /\ a.inits = t.inits
           /\ Within(a.window[KeyOf(p.stream)], h, n)
           /\ Entered(a, after, p, h) /\ after # "none"
           /\ before # "none" => after = before /\ a = t
<1> DEFINE key == KeyOf(p.stream)
           w == t.window[key]
<1>1. key \in Keys /\ p.id \in Indices /\ p.born \in Nat
  BY KeysOf DEF Packets
<1>2. /\ TreeOK(a, time) /\ a.inits = t.inits
      /\ IsDuplicate(t, key, p.id) => a = t
      /\ ~IsDuplicate(t, key, p.id) =>
           /\ t.inits
           /\ ~WindowIsDuplicate(w, p.id)
           /\ a.window = [t.window EXCEPT ![key] = WindowAfter(w, p.id)]
           /\ a.update_time = [t.update_time EXCEPT ![key] = time]
  BY <1>1, AfterOK
<1>3. /\ Sound(w) /\ (IsSet(w) <=> key \in ToSet(t.flow_list))
      /\ t.window \in [Keys -> Masks] /\ t.update_time \in [Keys -> Nat]
      /\ t.inits \/ t.flow_list = <<>>
  BY <1>1 DEF TreeOK
<1>4. WindowIsDuplicate(w, p.id) <=> Noted(w, p.id, h)
  BY <1>1, <1>3, DuplicateIsNoted
<1>5. ~t.inits => ~IsSet(w) /\ ~Holds(w, p.id) /\ IsDuplicate(t, key, p.id)
  BY <1>3, EmptyListOK DEF Holds, IsDuplicate
<1>6. t.inits => (IsDuplicate(t, key, p.id) <=> Noted(w, p.id, h))
  BY <1>4 DEF IsDuplicate
<1>7. /\ before # "none" => TreeHas(t, p, h)
      /\ Holds(w, p.id) => before # "none"
      /\ before # "again" /\ (before = "missed" => ~t.inits)
  BY DEF Entered
<1>8. TreeHas(t, p, h) <=> ~t.inits \/ (Noted(w, p.id, h) /\ p.born <= t.update_time[key])
  BY DEF TreeHas
<1>9. IF IsDuplicate(t, key, p.id)
      THEN after = IF before = "none" THEN "missed" ELSE before
      ELSE IF before # "none" THEN after = "again" ELSE after \in {"sent", "skipped"}
  BY Sizes DEF Decided
<1> HIDE DEF key
<1>10. CASE IsDuplicate(t, key, p.id)
  <2>1. a = t
    BY <1>2, <1>10
  <2>2. before = "none" => ~t.inits
    BY <1>6, <1>7, <1>10 DEF Noted
  <2>3. TreeHas(t, p, h)
    BY <2>2, <1>7, <1>8
  <2>4. after # "none" /\ after # "again" /\ (after = "missed" => ~t.inits)
           /\ (before # "none" => after = before)
    BY <2>2, <1>7, <1>9, <1>10
  <2>5. Entered(a, after, p, h)
    BY <2>1, <2>3, <2>4 DEF Entered
  <2> QED
    BY <1>2, <2>1, <2>4, <2>5 DEF key
<1>11. CASE ~IsDuplicate(t, key, p.id)
  <2>1. t.inits /\ ~Noted(w, p.id, h)
    BY <1>5, <1>6, <1>11
  <2>2. before = "none" /\ after \in {"sent", "skipped"}
    BY <2>1, <1>7, <1>8, <1>9, <1>11
  <2>3. a.window[key] = WindowAfter(w, p.id) /\ a.update_time[key] = time
    BY <1>1, <1>2, <1>3, <1>11
  <2>4. Noted(a.window[key], p.id, h) /\ Within(a.window[key], h, n)
    BY <2>1, <2>3, <1>1, <1>3, StreamTakes DEF key
  <2>5. Entered(a, after, p, h)
    BY <2>2, <2>3, <2>4 DEF Entered, TreeHas, key
  <2> QED
    BY <1>2, <2>2, <2>4, <2>5 DEF key
<1> QED
  BY <1>10, <1>11

\* What the tree has of other packets of the stream stays.
LEMMA OthersStay ==
    ASSUME NEW t, NEW time \in Nat, TreeOK(t, time), NEW p \in Packets,
           NEW h \in Indices, NEW n, HasRoom(n), Within(t.window[KeyOf(p.stream)], h, n),
           Turn(p.id, h) < NumBits, Turn(p.id, h) < n,
           NEW a, a = After(t, time, KeyOf(p.stream), p.id),
           NEW q \in Packets, q.stream = p.stream, q.id # p.id, Turn(q.id, h) < NumBits,
           q.born <= time, NEW fate, Entered(t, fate, q, h)
    PROVE  Entered(a, fate, q, h)
<1> DEFINE key == KeyOf(p.stream)
           w == t.window[key]
<1>1. key \in Keys /\ p.id \in Indices /\ q.id \in Indices
  BY KeysOf DEF Packets
<1>2. /\ a.inits = t.inits
      /\ IsDuplicate(t, key, p.id) => a = t
      /\ ~IsDuplicate(t, key, p.id) =>
           /\ t.inits
           /\ ~WindowIsDuplicate(w, p.id)
           /\ a.window = [t.window EXCEPT ![key] = WindowAfter(w, p.id)]
           /\ a.update_time = [t.update_time EXCEPT ![key] = time]
  BY <1>1, AfterOK
<1>3. Sound(w) /\ t.window \in [Keys -> Masks] /\ t.update_time \in [Keys -> Nat]
  BY <1>1 DEF TreeOK
<1> HIDE DEF key
<1>4. CASE IsDuplicate(t, key, p.id)
  BY <1>2, <1>4
<1>5. CASE ~IsDuplicate(t, key, p.id)
  <2>1. a.window[key] = WindowAfter(w, p.id) /\ a.update_time[key] = time
    BY <1>1, <1>2, <1>3, <1>5
  <2>2. ~Noted(w, p.id, h)
    BY <1>1, <1>2, <1>3, <1>5, DuplicateIsNoted DEF key
  <2>3. /\ \A j \in Indices : Turn(j, h) < NumBits /\ Noted(w, j, h) => Noted(a.window[key], j, h)
        /\ \A j \in Indices : Holds(a.window[key], j) => Holds(w, j) \/ j = p.id
    BY <2>1, <2>2, <1>1, <1>3, StreamTakes DEF key
  <2>4. KeyOf(q.stream) = key
    BY DEF key
  <2>5. Noted(w, q.id, h) => Noted(a.window[key], q.id, h)
    BY <2>3, <1>1
  <2>6. Holds(a.window[key], q.id) => Holds(w, q.id)
    BY <2>3, <1>1
  <2> QED
    BY <2>1, <2>4, <2>5, <2>6, <1>2, <1>5 DEF Entered, TreeHas
<1> QED
  BY <1>4, <1>5

\* The flows of other keys stay.
LEMMA OtherKeysStay ==
    ASSUME NEW t, NEW time \in Nat, TreeOK(t, time), NEW key \in Keys, NEW seq \in Indices,
           NEW a, a = After(t, time, key, seq), NEW k \in Keys, k # key
    PROVE  a.window[k] = t.window[k] /\ a.update_time[k] = t.update_time[k] /\ a.inits = t.inits
<1>1. /\ a.inits = t.inits
      /\ IsDuplicate(t, key, seq) => a = t
      /\ ~IsDuplicate(t, key, seq) =>
           /\ a.window = [t.window EXCEPT ![key] = WindowAfter(t.window[key], seq)]
           /\ a.update_time = [t.update_time EXCEPT ![key] = time]
  BY AfterOK
<1>2. t.window \in [Keys -> Masks] /\ t.update_time \in [Keys -> Nat]
  BY DEF TreeOK
<1> QED
  BY <1>1, <1>2

\* The stream has one more packet.
LEMMA NextStays ==
    ASSUME NEW t, NEW time \in Nat, TreeOK(t, time),
           NEW h \in Indices, NEW n \in Nat, HasRoom(n + 1),
           NEW q \in Packets, Within(t.window[KeyOf(q.stream)], h, n), Turn(q.id, h) < NumBits,
           NEW fate, Entered(t, fate, q, h)
    PROVE  Entered(t, fate, q, (h + 1) % RangeSize)
<1> DEFINE w == t.window[KeyOf(q.stream)]
           next == (h + 1) % RangeSize
<1>1. Sound(w) /\ q.id \in Indices
  BY KeysOf DEF TreeOK, Packets
<1>2. Noted(w, q.id, h) => Noted(w, q.id, next)
  <2> HIDE DEF w
  <2> QED
    BY <1>1, HeadMoves DEF w
<1> QED
  BY <1>2 DEF Entered, TreeHas

\* Prune leaves a flow alone while one of its packets is under way.
LEMMA PruneStays ==
    ASSUME NEW t, NEW time \in Nat, TreeOK(t, time), NEW r, r = Prune(t, time),
           NEW q \in Packets, q.born <= time, time - q.born <= AgeMax,
           NEW fate, NEW h, Entered(t, fate, q, h)
    PROVE  Entered(r, fate, q, h)
<1> DEFINE key == KeyOf(q.stream)
           w == t.window[key]
<1>1. key \in Keys /\ q.born \in Nat
  BY KeysOf DEF Packets
<1>2. /\ r.inits = t.inits
      /\ \A k : k \in ToSet(r.flow_list) <=>
                   k \in ToSet(t.flow_list) /\ ~Stale(t.update_time[k], time)
      /\ \A k \in Keys : IF k \in ToSet(r.flow_list)
                         THEN r.window[k] = t.window[k] /\ r.update_time[k] = t.update_time[k]
                         ELSE ~IsSet(r.window[k])
  BY PruneOK
<1>3. (IsSet(w) <=> key \in ToSet(t.flow_list)) /\ t.update_time[key] \in Nat
  BY <1>1 DEF TreeOK
<1>4. CASE key \in ToSet(r.flow_list)
  <2>1. r.window[key] = w /\ r.update_time[key] = t.update_time[key]
    BY <1>1, <1>2, <1>4
  <2> QED
    BY <2>1, <1>2 DEF Entered, TreeHas
<1>5. CASE key \notin ToSet(r.flow_list)
  <2>1. ~IsSet(r.window[key])
    BY <1>1, <1>2, <1>5
  <2>2. ~Holds(r.window[key], q.id)
    BY <2>1 DEF Holds
  <2>3. fate # "none" => ~t.inits
    <3> SUFFICES ASSUME fate # "none", t.inits PROVE FALSE
      OBVIOUS
    <3>1. Noted(w, q.id, h) /\ q.born <= t.update_time[key]
      BY DEF Entered, TreeHas
    <3>2. ~Stale(t.update_time[key], time)
      BY <3>1, <1>1, <1>3, WindowAssumption DEF Stale
    <3> QED
      BY <3>1, <3>2, <1>2, <1>3, <1>5 DEF Noted
  <2> QED
    BY <2>2, <2>3, <1>2 DEF Entered, TreeHas
<1> QED
  BY <1>4, <1>5

-----------------------------------------------------------------------------
(* Packets, trees and sequences.                                           *)

\* The last sequence number that a stream has had.
Newest(s) ==
    IF s.by = Node THEN (seqMgr.sequence[s.pair] - 1) % RangeSize
    ELSE (first[s] + sent[s] - 1) % RangeSize

KeyWindow(i, s) == trees[i].window[KeyOf(s)]

\* The windows have seen no more of a stream than there is.
WindowsBehind == \A s \in Carried(config), i \in Ifaces : Within(KeyWindow(i, s), Newest(s), sent[s])

\* A packet under way is not a window behind, and no older than its flow may be.
InTime(p) ==
    /\ sent[p.stream] - p.number <= Spread
    /\ p.born <= current_update_time /\ current_update_time - p.born <= Lifetime

Tracked(p) ==
    IF p.stream \in Carried(config)
    THEN /\ Turn(p.id, Newest(p.stream)) = sent[p.stream] - p.number
         /\ \A i \in Ifaces : Entered(trees[i], p.fate[i], p, Newest(p.stream))
    ELSE p.stream.by # Node /\ \A i \in Ifaces : p.fate[i] = "none"

\* A packet that was resequenced has been where its copies can go.
CameFrom(p) ==
    IF p.stream.by = Node
    THEN /\ p.from \in config.resequence /\ p.fate[p.from] = "skipped"
         /\ \A i \in Ifaces : p.fate[i] = "sent" =>
               i \in Outs(config, p.from) /\ \A j \in Outs(config, p.from) : p.fate[j] # "none"
    ELSE p.from = NoIface

\* The sequence of a flow lasts as long as what was numbered from it.
Numbered(p) ==
    p.stream.by = Node =>
        p.stream.pair \in ToSet(seqMgr.flow_list) /\ p.born <= seqMgr.update_time[p.stream.pair]

WindowsNumbered ==
    \A s \in Carried(config), i \in Ifaces : s.by = Node /\ IsSet(KeyWindow(i, s)) =>
        /\ s.pair \in ToSet(seqMgr.flow_list)
        /\ trees[i].update_time[KeyOf(s)] <= seqMgr.update_time[s.pair]

Once == \A p, q \in air : p.stream = q.stream /\ p.number = q.number => p = q

TrackInv ==
    /\ IInv
    /\ WindowsBehind /\ WindowsNumbered /\ Once
    /\ \A p \in air : InTime(p) /\ Tracked(p) /\ CameFrom(p) /\ Numbered(p)
    /\ \A s \in AllStreams : sent[s] <= config.quota[s]

LEMMA StreamBy ==
    ASSUME NEW s \in AllStreams
    PROVE  /\ s.by # Node <=> s \in Streams
           /\ s.by = Node => s = Resequenced(s.pair) /\ KeyOf(s) = FlowKey(s) /\ ~IsMarked(s)
<1>1. CASE s \in Streams
  BY <1>1, SmfAssumption
<1>2. CASE s \notin Streams
  <2>1. PICK o \in Streams : s = Resequenced(o.pair)
    BY <1>2 DEF AllStreams
  <2>2. s.by = Node /\ s.pair = o.pair /\ s.spi = NoSpi /\ s.tagger = NoTagger
    BY <2>1 DEF Resequenced
  <2> QED
    BY <1>2, <2>1, <2>2 DEF KeyOf, IsIPSec, IsMarked
<1> QED
  BY <1>1, <1>2

LEMMA CarriedIs ==
    ASSUME NEW c \in Configs
    PROVE  /\ Carried(c) \subseteq AllStreams
           /\ \A s \in AllStreams : s.by # Node => (s \in Carried(c) <=> s \in AsIs(c))
<1>1. \A s \in Renumbered(c) : s \in Streams
  BY DEF Renumbered
<1>2. \A s \in AsIs(c) : s \in Streams
  BY DEF AsIs
<1>3. \A s \in Renumbered(c) : Resequenced(s.pair) \in AllStreams /\ Resequenced(s.pair).by = Node
  BY <1>1 DEF AllStreams, Resequenced
<1> QED
  BY <1>1, <1>2, <1>3 DEF Carried, AllStreams

LEMMA HeadIs ==
    ASSUME IInv, NEW s \in AllStreams
    PROVE  Newest(s) \in Indices
<1>1. \A x \in Int : x % RangeSize \in Indices
  BY Sizes DEF Indices
<1>2. CASE s.by = Node
  <2>1. s.pair \in Pairs
    BY PairOf
  <2>2. seqMgr.sequence[s.pair] \in Indices
    BY <2>1 DEF IInv, MgrOK
  <2>3. seqMgr.sequence[s.pair] - 1 \in Int
    BY <2>2, Sizes DEF Indices
  <2> QED
    BY <2>3, <1>1, <1>2 DEF Newest
<1>3. CASE s.by # Node
  <2>1. s \in Streams
    BY <1>3, StreamBy
  <2>2. first[s] \in Indices /\ sent[s] \in Nat
    BY <2>1 DEF IInv
  <2>3. first[s] + sent[s] - 1 \in Int
    BY <2>2, Sizes DEF Indices
  <2> QED
    BY <2>3, <1>1, <1>3 DEF Newest
<1> QED
  BY <1>2, <1>3

LEMMA RoomOf ==
    ASSUME Orderly, NEW c \in Configs, NEW s \in Carried(c), NEW n \in Nat, n <= c.quota[s]
    PROVE  HasRoom(n)
<1>1. c.quota[s] + WindowPastMax <= RangeSize + 1
  BY DEF Orderly, StreamsApart
<1>2. c.quota[s] \in Nat
  BY CarriedIs, SmfAssumption
<1> QED
  BY <1>1, <1>2, WindowAssumption, Sizes DEF HasRoom

\* A packet of the stream with head h, which had n, is under way.
Ready(time, T, p, h, n) ==
    /\ time \in Nat /\ p \in Packets /\ p.born <= time
    /\ h \in Indices /\ HasRoom(n) /\ Turn(p.id, h) < NumBits /\ Turn(p.id, h) < n
    /\ \A i \in Ifaces : /\ TreeOK(T[i], time)
                         /\ Within(T[i].window[KeyOf(p.stream)], h, n)
                         /\ Entered(T[i], p.fate[i], p, h)

\* It is shown to the trees of D.
Shows(time, T, p, behind, D, f, U) ==
    /\ behind \in Nat /\ behind < NumBits
    /\ f \in [Ifaces -> Fates]
    /\ \A i \in Ifaces : IF i \in D THEN Decided(p, T[i], behind, p.fate[i], f[i])
                         ELSE f[i] = p.fate[i]
    /\ U = [i \in Ifaces |->
               IF i \in D THEN After(T[i], time, KeyOf(p.stream), p.id) ELSE T[i]]

LEMMA ShownToAll ==
    ASSUME NEW time, NEW T, NEW p, NEW h, NEW n, Ready(time, T, p, h, n),
           NEW behind, NEW D, NEW f, NEW U, Shows(time, T, p, behind, D, f, U), NEW i \in Ifaces
    PROVE  /\ Within(U[i].window[KeyOf(p.stream)], h, n)
           /\ Entered(U[i], f[i], p, h)
           /\ i \in D => f[i] # "none"
           /\ i \notin D \/ p.fate[i] # "none" => f[i] = p.fate[i] /\ U[i] = T[i]
           /\ \A k \in Keys : k # KeyOf(p.stream) =>
                 /\ U[i].inits = T[i].inits
                 /\ U[i].window[k] = T[i].window[k] /\ U[i].update_time[k] = T[i].update_time[k]
           /\ \A q \in Packets, fate \in Fates :
                 /\ q.stream = p.stream /\ q.id # p.id /\ Turn(q.id, h) < NumBits /\ q.born <= time
                 /\ Entered(T[i], fate, q, h)
                 => Entered(U[i], fate, q, h)
<1>1. KeyOf(p.stream) \in Keys /\ p.id \in Indices
  BY KeysOf DEF Packets, Ready
<1>2. /\ TreeOK(T[i], time) /\ Within(T[i].window[KeyOf(p.stream)], h, n)
      /\ Entered(T[i], p.fate[i], p, h)
      /\ time \in Nat /\ p \in Packets /\ p.born <= time
      /\ h \in Indices /\ HasRoom(n) /\ Turn(p.id, h) < NumBits /\ Turn(p.id, h) < n
  BY DEF Ready
<1>5. behind \in Nat /\ behind < NumBits /\ f \in [Ifaces -> Fates]
  BY DEF Shows
<1>3. CASE i \notin D
  <2>1. U[i] = T[i] /\ f[i] = p.fate[i]
    BY <1>3 DEF Shows
  <2> QED
    BY <2>1, <1>2, <1>3
<1>4. CASE i \in D
  <2>1. U[i] = After(T[i], time, KeyOf(p.stream), p.id)
    BY <1>4 DEF Shows
  <2>2. Decided(p, T[i], behind, p.fate[i], f[i])
    BY <1>4 DEF Shows
  <2> DEFINE a == After(T[i], time, KeyOf(p.stream), p.id)
  <2>3. a = After(T[i], time, KeyOf(p.stream), p.id) /\ U[i] = a
    BY <2>1
  <2> HIDE DEF a
  <2>4. /\ Within(a.window[KeyOf(p.stream)], h, n) /\ Entered(a, f[i], p, h) /\ f[i] # "none"
        /\ p.fate[i] # "none" => f[i] = p.fate[i] /\ a = T[i]
    <3>1. /\ time \in Nat /\ TreeOK(T[i], time) /\ p \in Packets /\ p.born <= time
          /\ behind \in Nat /\ behind < NumBits
          /\ h \in Indices /\ HasRoom(n) /\ Within(T[i].window[KeyOf(p.stream)], h, n)
          /\ Turn(p.id, h) < NumBits /\ Turn(p.id, h) < n
          /\ Entered(T[i], p.fate[i], p, h) /\ Decided(p, T[i], behind, p.fate[i], f[i])
      BY <2>2, <1>2, <1>5
    <3> QED
      BY ONLY <3>1, <2>3, Shown
  <2>5. ASSUME NEW k \in Keys, k # KeyOf(p.stream)
        PROVE  /\ a.window[k] = T[i].window[k] /\ a.update_time[k] = T[i].update_time[k]
               /\ a.inits = T[i].inits
    BY <2>3, <2>5, <1>1, <1>2, OtherKeysStay
  <2>6. ASSUME NEW q \in Packets, NEW fate \in Fates,
               q.stream = p.stream, q.id # p.id, Turn(q.id, h) < NumBits, q.born <= time,
               Entered(T[i], fate, q, h)
        PROVE  Entered(a, fate, q, h)
    BY <2>3, <2>6, <1>2, OthersStay
  <2> QED
    BY <2>3, <2>4, <2>5, <2>6, <1>4
<1> QED
  BY <1>3, <1>4

\* What a packet under way tells of its stream.
LEMMA UnderWayIs ==
    ASSUME Orderly, TrackInv, NEW p \in air
    PROVE  /\ p \in Packets /\ p.stream \in AllStreams /\ p.id \in Indices
           /\ p.number \in Nat /\ sent[p.stream] \in Nat
           /\ p.number \in 1..sent[p.stream] /\ sent[p.stream] - p.number < NumBits
           /\ p.born \in Nat /\ p.born <= current_update_time
           /\ config.quota[p.stream] > 0 /\ config \in Configs
           /\ Newest(p.stream) \in Indices
           /\ \A i \in Ifaces : p.fate[i] \in Fates
<1>1. /\ p \in Packets /\ p.stream \in AllStreams /\ p.id \in Indices /\ p.number \in Nat
      /\ p.born \in Nat /\ \A i \in Ifaces : p.fate[i] \in Fates
  BY DEF TrackInv, IInv, Packets
<1>2. sent[p.stream] \in Nat /\ p.number \in 1..sent[p.stream]
  BY <1>1 DEF TrackInv, IInv
<1>3. InTime(p)
  BY DEF TrackInv
<1>4. sent[p.stream] - p.number < NumBits
  BY <1>2, <1>3, Sizes, SmfAssumption DEF InTime, Orderly
<1>5. config \in Configs
  BY DEF TrackInv, IInv
<1>6. config.quota[p.stream] > 0
  <2>1. sent[p.stream] <= config.quota[p.stream] /\ config.quota[p.stream] \in Nat
    BY <1>1, <1>5, SmfAssumption DEF TrackInv
  <2> QED
    BY <2>1, <1>2
<1>7. Newest(p.stream) \in Indices
  BY <1>1, HeadIs DEF TrackInv
<1> QED
  BY <1>1, <1>2, <1>3, <1>4, <1>5, <1>6, <1>7 DEF InTime

\* Where packets are heard: one that is not resequenced on its way in is carried,
\* and its interface does not resequence.
LEMMA HeardAsIs ==
    ASSUME Orderly, TrackInv, NEW p \in air, NEW src \in Ifaces, src \in HeardOn(p),
           src \notin config.resequence \/ IsMarked(p.stream)
    PROVE  /\ p.stream \in Carried(config) /\ src \notin config.resequence
           /\ p.stream.by = Node => src \in Manet /\ p.fate[src] = "sent"
<1>1. p.stream \in AllStreams /\ config.quota[p.stream] > 0 /\ config \in Configs
  BY UnderWayIs
<1>2. Tracked(p)
  BY DEF TrackInv
<1>3. \A i \in Ifaces : p.fate[i] # "again"
  <2>1. CASE p.stream \in Carried(config)
    BY <2>1, <1>2 DEF Tracked, Entered
  <2>2. CASE p.stream \notin Carried(config)
    BY <2>2, <1>2 DEF Tracked
  <2> QED
    BY <2>1, <2>2
<1>4. StreamsApart(config) /\ EchoesStay(config)
  BY <1>1 DEF Orderly
<1>5. CASE p.stream.by = Node
  <2>1. src \in Manet /\ p.fate[src] = "sent"
    BY <1>3, <1>5 DEF HeardOn
  <2>2. p.stream \in Carried(config)
    BY <1>2, <1>5 DEF Tracked
  <2> QED
    BY <2>1, <2>2, <1>4 DEF EchoesStay
<1>6. CASE p.stream.by # Node
  <2>1. p.stream \in Streams
    BY <1>1, <1>6, StreamBy
  <2>2. CASE p.stream \in Renumbered(config)
    <3>1. ~IsMarked(p.stream) /\ Heard[p.stream] \subseteq config.resequence
      BY <2>2 DEF Renumbered
    <3>2. p.stream \notin Carried(config)
      BY <2>1, <2>2, <1>1, <1>6, CarriedIs DEF AsIs
    <3>3. \A i \in Ifaces : p.fate[i] = "none"
      BY <3>2, <1>2 DEF Tracked
    <3>4. src \in Heard[p.stream]
      BY <3>3 DEF HeardOn
    <3> QED
      BY <3>1, <3>4
  <2>3. CASE p.stream \notin Renumbered(config)
    <3>1. p.stream \in AsIs(config) /\ p.stream \in Carried(config)
      BY <2>1, <2>3, <1>1 DEF AsIs, Carried
    <3>2. src \in Heard[p.stream] \cup Manet
      BY <1>6 DEF HeardOn
    <3> QED
      BY <3>1, <3>2, <1>4, <1>6 DEF StreamsApart
  <2> QED
    BY <2>2, <2>3
<1> QED
  BY <1>5, <1>6

\* One that is resequenced comes from its source, for the first time.
LEMMA HeardToResequence ==
    ASSUME Orderly, TrackInv, NEW p \in air, NEW src \in Ifaces, src \in HeardOn(p),
           src \in config.resequence, ~IsMarked(p.stream)
    PROVE  p.stream.by # Node /\ p.stream \in Renumbered(config)
<1>1. p.stream \in AllStreams /\ config.quota[p.stream] > 0 /\ config \in Configs
  BY UnderWayIs
<1>2. src \notin Manet
  BY <1>1 DEF Orderly, EchoesStay
<1>3. p.stream.by # Node /\ src \in Heard[p.stream]
  BY <1>2 DEF HeardOn
<1>4. p.stream \in Streams
  BY <1>1, <1>3, StreamBy
<1>5. p.stream \notin AsIs(config)
  BY <1>1, <1>3 DEF Orderly, StreamsApart
<1> QED
  BY <1>1, <1>3, <1>4, <1>5 DEF AsIs

\* A packet that is not resequenced is shown to the trees of some interfaces.
LEMMA AsIsTracks ==
    ASSUME Orderly, TrackInv, NEW p \in air, NEW src \in Ifaces, NEW mac, NEW ttl,
           src \in HeardOn(p), ProcessAsIs(p, src, mac, ttl),
           UNCHANGED <<config, current_update_time, first>>, IInv'
    PROVE  TrackInv'
<1> DEFINE s == p.stream
           h == Newest(s)
           n == sent[s]
           time == current_update_time
           D == Asked(src, mac)
<1>1. /\ p \in Packets /\ s \in AllStreams /\ p.id \in Indices
      /\ p.number \in Nat /\ n \in Nat /\ p.number \in 1..n /\ n - p.number < NumBits
      /\ p.born \in Nat /\ p.born <= time
      /\ config \in Configs /\ h \in Indices /\ \A i \in Ifaces : p.fate[i] \in Fates
  BY UnderWayIs
<1>2. /\ s \in Carried(config) /\ src \notin config.resequence
      /\ s.by = Node => src \in Manet /\ p.fate[src] = "sent"
  BY HeardAsIs DEF ProcessAsIs
<1>3. /\ Relayed(p, src, mac, ttl, trees, sent)
      /\ seqMgr' = seqMgr /\ sent' = sent /\ config' = config /\ first' = first
      /\ current_update_time' = current_update_time
  BY <1>2 DEF ProcessAsIs, MarkedAtSource
<1>4. /\ trees' = [i \in Ifaces |-> IF i \in D THEN After(trees[i], time, KeyOf(s), p.id) ELSE trees[i]]
      /\ \E f \in [Ifaces -> Fates] :
            /\ air' = UnderWay((air \ {p}) \cup {[p EXCEPT !.fate = f]}, sent)
            /\ \A i \in Ifaces : IF i \in D THEN Decided(p, trees[i], n - p.number, p.fate[i], f[i])
                                 ELSE f[i] = p.fate[i]
  <2>1. p \in Packets /\ Relayed(p, src, mac, ttl, trees, sent)
    BY <1>1, <1>3
  <2> QED
    BY ONLY <2>1, RelayedIs
<1>5. PICK f \in [Ifaces -> Fates] :
         /\ air' = UnderWay((air \ {p}) \cup {[p EXCEPT !.fate = f]}, sent)
         /\ \A i \in Ifaces : IF i \in D THEN Decided(p, trees[i], n - p.number, p.fate[i], f[i])
                              ELSE f[i] = p.fate[i]
  BY <1>4
<1> DEFINE shown == [p EXCEPT !.fate = f]
<1>6. /\ shown \in Packets /\ shown.stream = s /\ shown.number = p.number /\ shown.id = p.id
      /\ shown.born = p.born /\ shown.from = p.from /\ shown.fate = f
  BY <1>1, FateIs
<1>7. /\ \A q \in air' : q \in air \ {p} \/ q = shown
      /\ \A q \in air' : sent[q.stream] - q.number <= Spread
  BY <1>5 DEF UnderWay
<1> HIDE DEF shown
<1>8. Turn(p.id, h) = n - p.number /\ \A i \in Ifaces : Entered(trees[i], p.fate[i], p, h)
  BY <1>2 DEF TrackInv, Tracked
<1>9. HasRoom(n)
  BY <1>1, <1>2, RoomOf DEF TrackInv
<1> HIDE DEF h, n, D
<1>10. ASSUME NEW i \in Ifaces
       PROVE  /\ Within(trees'[i].window[KeyOf(s)], h, n)
              /\ Entered(trees'[i], f[i], p, h)
              /\ i \notin D \/ p.fate[i] # "none" => f[i] = p.fate[i] /\ trees'[i] = trees[i]
              /\ \A k \in Keys : k # KeyOf(s) =>
                    /\ trees'[i].inits = trees[i].inits
                    /\ trees'[i].window[k] = trees[i].window[k]
                    /\ trees'[i].update_time[k] = trees[i].update_time[k]
              /\ \A q \in Packets, fate \in Fates :
                    /\ q.stream = s /\ q.id # p.id /\ Turn(q.id, h) < NumBits /\ q.born <= time
                    /\ Entered(trees[i], fate, q, h)
                    => Entered(trees'[i], fate, q, h)
  <2>1. time \in Nat /\ \A j \in Ifaces : TreeOK(trees[j], time)
    BY DEF TrackInv, IInv
  <2>2. \A j \in Ifaces : Within(trees[j].window[KeyOf(p.stream)], h, n)
    BY <1>2 DEF TrackInv, WindowsBehind, KeyWindow, h, n
  <2>3. Turn(p.id, h) < NumBits /\ Turn(p.id, h) < n /\ n - p.number \in Nat /\ n - p.number < NumBits
    BY <1>1, <1>8
  <2>4. p \in Packets /\ p.born <= time /\ h \in Indices
    BY <1>1
  <2> HIDE DEF time
  <2>5. Ready(time, trees, p, h, n)
    BY ONLY <2>1, <2>2, <2>3, <2>4, <1>8, <1>9 DEF Ready
  <2>6. Shows(time, trees, p, n - p.number, D, f, trees')
    BY ONLY <2>3, <1>4, <1>5 DEF Shows
  <2> QED
    BY <2>5, <2>6, ShownToAll
<1>11. \A t : Newest(t)' = Newest(t)
  BY <1>3 DEF Newest
<1>12. ASSUME s.by = Node, NEW i \in Ifaces PROVE f[i] = p.fate[i] /\ trees'[i] = trees[i]
  <2>1. /\ p.from \in config.resequence /\ p.fate[p.from] = "skipped"
        /\ src \in Outs(config, p.from) /\ \A j \in Outs(config, p.from) : p.fate[j] # "none"
    BY <1>2, <1>12 DEF TrackInv, CameFrom
  <2>2. Outs(config, src) \subseteq Outs(config, p.from) \cup {p.from}
    BY <2>1, <1>1, <1>2, <1>12 DEF Orderly, EchoesStay
  <2>3. D \subseteq Outs(config, src)
    BY DEF D, Asked, Outs
  <2>4. i \in D => p.fate[i] # "none"
    BY <2>1, <2>2, <2>3
  <2> QED
    BY <2>4, <1>10
<1>13. ASSUME NEW t \in Carried(config), t # s
       PROVE  KeyOf(t) # KeyOf(s) /\ KeyOf(t) \in Keys
  <2>1. KeyOf(t) # KeyOf(s)
    BY <1>1, <1>2, <1>13 DEF Orderly, StreamsApart
  <2> QED
    BY <2>1, <1>1, CarriedIs, KeysOf
<1>14. WindowsBehind'
  <2>1. ASSUME NEW t \in Carried(config), NEW i \in Ifaces
        PROVE  Within(trees'[i].window[KeyOf(t)], Newest(t), sent[t])
    <3>1. CASE t = s
      BY <3>1, <1>10 DEF h, n
    <3>2. CASE t # s
      BY <3>2, <1>10, <1>13 DEF TrackInv, WindowsBehind, KeyWindow
    <3> QED
      BY <3>1, <3>2
  <2> QED
    BY <2>1, <1>3, <1>11 DEF WindowsBehind, KeyWindow
<1>15. WindowsNumbered'
  <2>1. ASSUME NEW t \in Carried(config), NEW i \in Ifaces, t.by = Node,
               IsSet(trees'[i].window[KeyOf(t)])
        PROVE  /\ t.pair \in ToSet(seqMgr.flow_list)
               /\ trees'[i].update_time[KeyOf(t)] <= seqMgr.update_time[t.pair]
    <3>1. CASE t = s
      BY <3>1, <2>1, <1>12 DEF TrackInv, WindowsNumbered, KeyWindow
    <3>2. CASE t # s
      BY <3>2, <2>1, <1>10, <1>13 DEF TrackInv, WindowsNumbered, KeyWindow
    <3> QED
      BY <3>1, <3>2
  <2> QED
    BY <2>1, <1>3 DEF WindowsNumbered, KeyWindow
<1>16. Once'
  BY <1>6, <1>7 DEF TrackInv, Once
<1>17. ASSUME NEW q \in air', q \in air \ {p} PROVE (InTime(q) /\ Tracked(q) /\ CameFrom(q) /\ Numbered(q))'
  <2>1. InTime(q) /\ Tracked(q) /\ CameFrom(q) /\ Numbered(q)
    BY <1>17 DEF TrackInv
  <2>2. /\ q \in Packets /\ q.stream \in AllStreams /\ q.id \in Indices
        /\ q.number \in Nat /\ sent[q.stream] \in Nat /\ sent[q.stream] - q.number < NumBits
        /\ q.born <= time /\ \A i \in Ifaces : q.fate[i] \in Fates
    BY <1>17, UnderWayIs
  <2>3. Tracked(q)'
    <3>1. CASE q.stream \notin Carried(config)
      BY <3>1, <2>1, <1>3 DEF Tracked
    <3>2. CASE q.stream \in Carried(config)
      <4>1. /\ Turn(q.id, Newest(q.stream)) = sent[q.stream] - q.number
            /\ \A i \in Ifaces : Entered(trees[i], q.fate[i], q, Newest(q.stream))
        BY <3>2, <2>1 DEF Tracked
      <4>2. ASSUME NEW i \in Ifaces PROVE Entered(trees'[i], q.fate[i], q, Newest(q.stream))
        <5>1. CASE q.stream = s
          <6>1. q.number # p.number
            BY <5>1, <1>17 DEF TrackInv, Once
          <6>2. q.id # p.id
            BY <6>1, <5>1, <4>1, <2>2, <1>1, <1>8 DEF h, n
          <6>3. Turn(q.id, h) < NumBits
            BY <5>1, <4>1, <2>2 DEF h
          <6> QED
            BY <6>2, <6>3, <5>1, <4>1, <2>2, <1>10 DEF h
        <5>2. CASE q.stream # s
          <6>1. KeyOf(q.stream) # KeyOf(s) /\ KeyOf(q.stream) \in Keys
            BY <5>2, <3>2, <1>13
          <6>2. /\ trees'[i].inits = trees[i].inits
                /\ trees'[i].window[KeyOf(q.stream)] = trees[i].window[KeyOf(q.stream)]
                /\ trees'[i].update_time[KeyOf(q.stream)] = trees[i].update_time[KeyOf(q.stream)]
            BY <6>1, <1>10
          <6> QED
            BY <6>2, <4>1 DEF Entered, TreeHas
        <5> QED
          BY <5>1, <5>2
      <4> QED
        BY <4>1, <4>2, <3>2, <1>3, <1>11 DEF Tracked
    <3> QED
      BY <3>1, <3>2
  <2>4. InTime(q)' /\ CameFrom(q)' /\ Numbered(q)'
    BY <2>1, <1>3 DEF InTime, CameFrom, Numbered
  <2> QED
    BY <2>3, <2>4
<1>18. (InTime(shown) /\ Tracked(shown) /\ CameFrom(shown) /\ Numbered(shown))'
  <2>1. InTime(p) /\ CameFrom(p) /\ Numbered(p)
    BY DEF TrackInv
  <2>2. InTime(shown)' /\ Numbered(shown)'
    BY <2>1, <1>3, <1>6 DEF InTime, Numbered
  <2>3. CameFrom(shown)'
    <3>1. CASE s.by # Node
      BY <3>1, <2>1, <1>3, <1>6 DEF CameFrom
    <3>2. CASE s.by = Node
      <4>1. f = p.fate
        BY <3>2, <1>1, <1>12 DEF Packets
      <4> QED
        BY <4>1, <2>1, <1>3, <1>6 DEF CameFrom
    <3> QED
      BY <3>1, <3>2
  <2>4. Tracked(shown)'
    <3>1. \A i \in Ifaces : Entered(trees'[i], f[i], shown, h)
      BY <1>6, <1>10 DEF Entered, TreeHas
    <3>2. Turn(shown.id, h) = sent[s] - shown.number
      BY <1>6, <1>8 DEF n
    <3> QED
      BY <3>1, <3>2, <1>2, <1>3, <1>6, <1>11 DEF Tracked, h
  <2> QED
    BY <2>2, <2>3, <2>4
<1>19. \A q \in air' : (InTime(q) /\ Tracked(q) /\ CameFrom(q) /\ Numbered(q))'
  BY <1>7, <1>17, <1>18
<1>20. \A t \in AllStreams : sent'[t] <= config'.quota[t]
  BY <1>3 DEF TrackInv
<1> QED
  BY <1>14, <1>15, <1>16, <1>19, <1>20 DEF TrackInv

\* A source sends its next packet.
LEMMA NextOfSource ==
    ASSUME NEW f \in Indices, NEW n \in Nat, n < RangeSize
    PROVE  /\ (f + n) % RangeSize = (((f + n - 1) % RangeSize) + 1) % RangeSize
           /\ f + (n + 1) - 1 = f + n
<1>1. RangeSize \in Nat /\ RangeSize > 0 /\ f \in Nat /\ f < RangeSize
  BY Sizes DEF Indices
<1> DEFINE x == f + n
<1>2. x \in Nat /\ x < RangeSize + RangeSize
  BY <1>1
<1>3. f + n - 1 = x - 1 /\ f + (n + 1) - 1 = f + n
  BY <1>1
<1> HIDE DEF x
<1>4. (x - 1) % RangeSize = IF x = 0 THEN RangeSize - 1 ELSE IF x - 1 < RangeSize THEN x - 1 ELSE x - 1 - RangeSize
  <2>1. CASE x = 0
    BY <2>1, <1>1, Wrapped
  <2>2. CASE x # 0
    <3>1. x - 1 \in Int /\ 0 <= x - 1 /\ x - 1 < RangeSize + RangeSize
      BY <2>2, <1>1, <1>2
    <3> QED
      BY <3>1, <2>2, <1>1, Wrapped
  <2> QED
    BY <2>1, <2>2
<1>5. x % RangeSize = IF x < RangeSize THEN x ELSE x - RangeSize
  BY <1>1, <1>2, Wrapped
<1> DEFINE y == (x - 1) % RangeSize
<1>6. y \in Int /\ 0 <= y /\ y < RangeSize
  BY <1>1, <1>2, <1>4
<1>7. y = IF x = 0 THEN RangeSize - 1 ELSE IF x - 1 < RangeSize THEN x - 1 ELSE x - 1 - RangeSize
  BY <1>4
<1> HIDE DEF y
<1>8. (y + 1) % RangeSize = IF y + 1 < RangeSize THEN y + 1 ELSE y + 1 - RangeSize
  BY <1>1, <1>6, Wrapped
<1>9. (y + 1) % RangeSize = x % RangeSize
  BY <1>1, <1>2, <1>5, <1>6, <1>7, <1>8
<1> QED
  BY <1>1, <1>3, <1>9 DEF x, y

\* What a stream that goes on means to its windows and packets.
LEMMA StreamGoesOn ==
    ASSUME Orderly, TrackInv, NEW s \in Carried(config), sent[s] < config.quota[s],
           s.by = Node => s.pair \in ToSet(seqMgr.flow_list),
           NEW next, next = (Newest(s) + 1) % RangeSize
    PROVE  /\ next \in Indices /\ Turn(next, next) = 0
           /\ \A i \in Ifaces : Within(KeyWindow(i, s), next, sent[s] + 1) /\ ~Holds(KeyWindow(i, s), next)
           /\ \A q \in air : q.stream = s =>
                 /\ Turn(q.id, next) = sent[s] + 1 - q.number
                 /\ \A i \in Ifaces : Entered(trees[i], q.fate[i], q, next)
<1> DEFINE h == Newest(s)
           n == sent[s]
           time == current_update_time
<1>1. config \in Configs /\ s \in AllStreams
  BY CarriedIs DEF TrackInv, IInv
<1>2. n \in Nat /\ n + 1 \in Nat /\ n + 1 <= config.quota[s]
  BY <1>1, SmfAssumption DEF TrackInv, IInv
<1>3. HasRoom(n + 1)
  BY <1>1, <1>2, RoomOf
<1>4. h \in Indices
  BY <1>1, HeadIs DEF TrackInv
<1>5. KeyOf(s) \in Keys
  BY <1>1, KeysOf
<1>6. ASSUME NEW i \in Ifaces
      PROVE  /\ TreeOK(trees[i], time) /\ time \in Nat
             /\ Sound(KeyWindow(i, s)) /\ Within(KeyWindow(i, s), h, n)
  <2>1. TreeOK(trees[i], time) /\ time \in Nat
    BY DEF TrackInv, IInv
  <2>2. Sound(KeyWindow(i, s))
    BY <2>1, <1>5 DEF TreeOK, KeyWindow
  <2> QED
    BY <2>1, <2>2 DEF TrackInv, WindowsBehind
<1> HIDE DEF h, n, time
<1>7. next = (h + 1) % RangeSize
  BY DEF h
<1>8. next \in Indices /\ Turn(next, next) = 0
  <2>1. 1 \in Indices
    BY Sizes DEF Indices
  <2>2. next \in Indices
    BY <2>1, <1>4, <1>7, StepIs
  <2> QED
    BY <2>2, TurnRange
<1>9. ASSUME NEW i \in Ifaces
      PROVE  Within(KeyWindow(i, s), next, n + 1) /\ ~Holds(KeyWindow(i, s), next)
  <2> DEFINE w == KeyWindow(i, s)
  <2>1. Sound(w) /\ Within(w, h, n)
    BY <1>6
  <2> HIDE DEF w
  <2>2. Within(w, next, n + 1) /\ ~Holds(w, next)
    BY <2>1, <1>2, <1>3, <1>4, <1>7, HeadMoves
  <2> QED
    BY <2>2 DEF w
<1>10. ASSUME NEW q \in air, q.stream = s
       PROVE  /\ Turn(q.id, next) = n + 1 - q.number
              /\ \A i \in Ifaces : Entered(trees[i], q.fate[i], q, next)
  <2>1. q \in Packets /\ q.id \in Indices /\ q.number \in Nat /\ n - q.number < NumBits
    BY <1>10, UnderWayIs DEF n
  <2>2. Turn(q.id, h) = n - q.number /\ \A i \in Ifaces : Entered(trees[i], q.fate[i], q, h)
    BY <1>10 DEF TrackInv, Tracked, h, n
  <2>3. Sound(Cleared) /\ Within(Cleared, h, n)
    <3>1. Sound(Cleared) /\ ~IsSet(Cleared)
      BY Sizes, FullIs DEF Indices
    <3> QED
      BY <3>1 DEF Within
  <2>4. Turn(q.id, next) = Turn(q.id, h) + 1
    <3>1. Turn(q.id, h) < NumBits
      BY <2>1, <2>2
    <3> QED
      BY <3>1, <2>1, <2>3, <1>2, <1>3, <1>4, <1>7, HeadMoves
  <2>5. ASSUME NEW i \in Ifaces PROVE Entered(trees[i], q.fate[i], q, next)
    <3>1. Within(trees[i].window[KeyOf(q.stream)], h, n) /\ Entered(trees[i], q.fate[i], q, h)
             /\ TreeOK(trees[i], time) /\ time \in Nat
      BY <2>2, <1>6, <1>10 DEF KeyWindow
    <3>2. Turn(q.id, h) < NumBits
      BY <2>1, <2>2
    <3> QED
      BY <3>1, <3>2, <2>1, <1>2, <1>3, <1>4, <1>7, NextStays
  <2>6. Turn(q.id, next) = n + 1 - q.number
    BY <2>1, <2>2, <2>4, <1>2
  <2> QED
    BY <2>5, <2>6
<1> QED
  BY <1>8, <1>9, <1>10 DEF n

LEMMA OriginateTracks ==
    ASSUME Orderly, TrackInv, NEW stream \in Streams, Originate(stream), IInv'
    PROVE  TrackInv'
<1> DEFINE next == (first[stream] + sent[stream]) % RangeSize
<1>16. PICK p : p = Packet(stream, sent'[stream], next, NoIface)
  OBVIOUS
<1>1. /\ stream \in AllStreams /\ sent' \in [AllStreams -> Nat] /\ sent[stream] \in Nat
      /\ sent' = [sent EXCEPT ![stream] = sent[stream] + 1]
      /\ p \in Packets /\ p.stream = stream /\ p.number = sent[stream] + 1
      /\ p.id = next /\ p.from = NoIface /\ p.born = current_update_time
      /\ \A i \in Ifaces : p.fate[i] = "none"
      /\ air' = UnderWay(air \cup {p}, sent')
  BY <1>16, OriginateIs DEF TrackInv
<1> HIDE DEF next
<1>2. /\ config' = config /\ trees' = trees /\ seqMgr' = seqMgr /\ first' = first
      /\ current_update_time' = current_update_time /\ sent[stream] < config.quota[stream]
  BY DEF Originate
<1>3. \A q \in air' : (q \in air \/ q = p) /\ sent'[q.stream] - q.number <= Spread
  BY <1>1 DEF UnderWay
<1>4. stream.by # Node /\ config \in Configs
  BY SmfAssumption DEF TrackInv, IInv
<1>5. sent \in [AllStreams -> Nat]
  BY DEF TrackInv, IInv
<1>6. sent'[stream] = sent[stream] + 1 /\ \A t \in AllStreams : t # stream => sent'[t] = sent[t]
  BY <1>1, <1>5
<1>7. ASSUME NEW t \in AllStreams, t # stream PROVE Newest(t)' = Newest(t)
  BY <1>2, <1>6, <1>7 DEF Newest
<1>8. ASSUME stream \in Carried(config)
      PROVE  WindowsBehind' /\ Tracked(p)' /\ \A q \in air : Tracked(q)'
  <2>1. Newest(stream)' = next /\ next = (Newest(stream) + 1) % RangeSize
    <3>1. sent[stream] < RangeSize
      BY <1>1, <1>2, <1>4, <1>8, SmfAssumption, WindowAssumption, Sizes DEF Orderly, StreamsApart
    <3>2. first[stream] \in Indices
      BY DEF TrackInv, IInv
    <3>3. Newest(stream) = (first[stream] + sent[stream] - 1) % RangeSize
      BY <1>4 DEF Newest
    <3>4. Newest(stream)' = (first[stream] + (sent[stream] + 1) - 1) % RangeSize
      BY <1>2, <1>4, <1>6 DEF Newest
    <3> QED
      BY <3>1, <3>2, <3>3, <3>4, <1>1, NextOfSource DEF next
  <2>6. \A t \in AllStreams : Newest(t)' = IF t = stream THEN next ELSE Newest(t)
    BY <2>1, <1>7
  <2>2. /\ next \in Indices /\ Turn(next, next) = 0
        /\ \A i \in Ifaces : /\ Within(KeyWindow(i, stream), next, sent[stream] + 1)
                             /\ ~Holds(KeyWindow(i, stream), next)
        /\ \A q \in air : q.stream = stream =>
              /\ Turn(q.id, next) = sent[stream] + 1 - q.number
              /\ \A i \in Ifaces : Entered(trees[i], q.fate[i], q, next)
    BY <2>1, <1>2, <1>4, <1>8, StreamGoesOn
  <2>3. WindowsBehind'
    <3>1. ASSUME NEW t \in Carried(config), NEW i \in Ifaces
          PROVE  Within(trees[i].window[KeyOf(t)], Newest(t)', sent'[t])
      <4>1. CASE t = stream
        BY <4>1, <2>1, <2>2, <1>6 DEF KeyWindow
      <4>2. CASE t # stream
        <5>1. t \in AllStreams
          BY <1>4, CarriedIs
        <5>2. Newest(t)' = Newest(t) /\ sent'[t] = sent[t]
          BY <5>1, <4>2, <1>6, <1>7
        <5> QED
          BY <5>2 DEF TrackInv, WindowsBehind, KeyWindow
      <4> QED
        BY <4>1, <4>2
    <3> QED
      BY <3>1, <1>2 DEF WindowsBehind, KeyWindow
  <2>4. ASSUME NEW q \in air PROVE Tracked(q)'
    <3>1. Tracked(q) /\ q.stream \in AllStreams
      BY UnderWayIs DEF TrackInv
    <3>2. CASE q.stream = stream
      <4>1. Newest(q.stream)' = next /\ sent'[q.stream] = sent[stream] + 1
        BY <3>1, <3>2, <2>6, <1>6
      <4>2. /\ Turn(q.id, next) = sent[stream] + 1 - q.number
            /\ \A i \in Ifaces : Entered(trees[i], q.fate[i], q, next)
        BY <3>2, <2>2
      <4>3. /\ q.stream \in Carried(config)
            /\ Turn(q.id, Newest(q.stream)') = sent'[q.stream] - q.number
            /\ \A i \in Ifaces : Entered(trees'[i], q.fate[i], q, Newest(q.stream)')
        <5>1. q.stream \in Carried(config)
          BY <3>2, <1>8
        <5>2. Turn(q.id, Newest(q.stream)') = sent'[q.stream] - q.number
          <6>1. sent[stream] \in Nat /\ q.number \in Nat
            BY <1>1, UnderWayIs
          <6> QED
            BY ONLY <4>1, <4>2, <6>1
        <5>3. \A i \in Ifaces : Entered(trees'[i], q.fate[i], q, Newest(q.stream)')
          BY <4>1, <4>2, <1>2
        <5> QED
          BY <5>1, <5>2, <5>3
      <4> QED
        BY <4>3, <1>2 DEF Tracked
    <3>3. CASE q.stream # stream
      BY <3>1, <3>3, <1>2, <1>6, <1>7 DEF Tracked
    <3> QED
      BY <3>2, <3>3
  <2>5. Tracked(p)'
    <3>1. ASSUME NEW i \in Ifaces PROVE Entered(trees'[i], p.fate[i], p, next)
      BY <2>2, <1>1, <1>2 DEF Entered, KeyWindow
    <3>2. Turn(p.id, next) = sent'[stream] - p.number
      BY <2>2, <1>1, <1>6
    <3> QED
      BY <3>1, <3>2, <2>6, <1>1, <1>2, <1>8 DEF Tracked
  <2> QED
    BY <2>3, <2>4, <2>5
<1>9. ASSUME stream \notin Carried(config)
      PROVE  WindowsBehind' /\ Tracked(p)' /\ \A q \in air : Tracked(q)'
  <2>1. \A t \in Carried(config) : t \in AllStreams /\ t # stream
    BY <1>4, <1>9, CarriedIs
  <2>2. \A t \in Carried(config) : Newest(t)' = Newest(t) /\ sent'[t] = sent[t]
    BY <2>1, <1>6, <1>7
  <2>3. WindowsBehind'
    BY <2>2, <1>2 DEF TrackInv, WindowsBehind, KeyWindow
  <2>4. Tracked(p)'
    BY <1>1, <1>2, <1>4, <1>9 DEF Tracked
  <2>5. ASSUME NEW q \in air PROVE Tracked(q)'
    BY <2>2, <1>2 DEF TrackInv, Tracked
  <2> QED
    BY <2>3, <2>4, <2>5
<1>10. WindowsNumbered'
  BY <1>2 DEF TrackInv, WindowsNumbered, KeyWindow
<1>11. \A q \in air : q.stream \in AllStreams /\ q.number \in 1..sent[q.stream] /\ sent[q.stream] \in Nat
  BY UnderWayIs
<1>12. Once'
  <2>1. \A q \in air : q.stream = stream => q.number # p.number
    BY <1>1, <1>11
  <2>2. ASSUME NEW a \in air', NEW b \in air', a.stream = b.stream, a.number = b.number
        PROVE  a = b
    <3>1. CASE a \in air /\ b \in air
      BY <2>2, <3>1 DEF TrackInv, Once
    <3>2. CASE a = p \/ b = p
      BY <2>1, <2>2, <3>2, <1>1, <1>3
    <3> QED
      BY <3>1, <3>2, <1>3
  <2> QED
    BY <2>2 DEF Once
<1>13. ASSUME NEW q \in air', q \in air
       PROVE  (InTime(q) /\ Tracked(q) /\ CameFrom(q) /\ Numbered(q))'
  <2>1. Tracked(q)'
    BY <1>8, <1>9, <1>13
  <2>2. InTime(q) /\ CameFrom(q) /\ Numbered(q)
    BY <1>13 DEF TrackInv
  <2> QED
    BY <2>1, <2>2, <1>2, <1>3 DEF InTime, CameFrom, Numbered
<1>14. (InTime(p) /\ Tracked(p) /\ CameFrom(p) /\ Numbered(p))'
  <2>1. InTime(p)'
    <3>1. sent'[stream] - p.number = 0
      BY <1>1, <1>6
    <3>2. current_update_time - p.born = 0 /\ current_update_time <= current_update_time
      BY <1>1 DEF TrackInv, IInv
    <3> QED
      BY <3>1, <3>2, <1>1, <1>2, SmfAssumption DEF InTime
  <2>2. CameFrom(p)' /\ Numbered(p)'
    BY <1>1, <1>4 DEF CameFrom, Numbered
  <2> QED
    BY <2>1, <2>2, <1>8, <1>9
<1>15. \A t \in AllStreams : sent'[t] <= config'.quota[t]
  <2>1. sent'[stream] <= config.quota[stream]
    BY <1>1, <1>2, <1>4, <1>6, SmfAssumption
  <2> QED
    BY <2>1, <1>2, <1>6 DEF TrackInv
<1> QED
  BY <1>3, <1>10, <1>12, <1>13, <1>14, <1>15, <1>8, <1>9 DEF TrackInv

\* The sequence of a pair gives the next packet its number, and is one ahead.
LEMMA SequenceHead ==
    ASSUME NEW id \in Indices
    PROVE  /\ (((id + 1) % RangeSize) - 1) % RangeSize = id
           /\ (((id - 1) % RangeSize) + 1) % RangeSize = id
<1>1. RangeSize \in Nat /\ RangeSize > 1 /\ id \in Nat /\ id < RangeSize
  BY Sizes DEF Indices
<1>2. (((id + 1) % RangeSize) - 1) % RangeSize = id
  <2>1. CASE id + 1 < RangeSize
    <3>1. (id + 1) % RangeSize = id + 1
      BY <2>1, <1>1, Wrapped
    <3>2. ((id + 1) % RangeSize) - 1 = id /\ id % RangeSize = id
      BY <3>1, <1>1, Wrapped
    <3> QED
      BY <3>2
  <2>2. CASE id + 1 = RangeSize
    <3>1. (id + 1) % RangeSize = 0
      BY <2>2, <1>1, Wrapped
    <3>2. ((id + 1) % RangeSize) - 1 = -1 /\ (-1) % RangeSize = -1 + RangeSize
      BY <3>1, <1>1, Wrapped
    <3> QED
      BY <3>2, <2>2, <1>1
  <2> QED
    BY <2>1, <2>2, <1>1
<1>3. (((id - 1) % RangeSize) + 1) % RangeSize = id
  <2>1. CASE id # 0
    <3>1. (id - 1) % RangeSize = id - 1
      BY <2>1, <1>1, Wrapped
    <3>2. ((id - 1) % RangeSize) + 1 = id /\ id % RangeSize = id
      BY <3>1, <1>1, Wrapped
    <3> QED
      BY <3>2
  <2>2. CASE id = 0
    <3>1. id - 1 = -1 /\ (-1) % RangeSize = -1 + RangeSize
      BY <2>2, <1>1, Wrapped
    <3>2. ((id - 1) % RangeSize) + 1 = RangeSize /\ RangeSize % RangeSize = RangeSize - RangeSize
      BY <3>1, <1>1, Wrapped
    <3> QED
      BY <3>2, <2>2, <1>1
  <2> QED
    BY <2>1, <2>2
<1> QED
  BY <1>2, <1>3

\* What a stream that gets the next number of its pair means to its windows and packets.
LEMMA SequenceGoesOn ==
    ASSUME Orderly, TrackInv, NEW s \in Carried(config), s.by = Node, sent[s] < config.quota[s],
           NEW start \in Indices, NEW id, id = NextSequence(seqMgr, s.pair, start)
    PROVE  /\ id \in Indices /\ Turn(id, id) = 0
           /\ \A i \in Ifaces : Within(KeyWindow(i, s), id, sent[s] + 1) /\ ~Holds(KeyWindow(i, s), id)
           /\ \A q \in air : q.stream = s =>
                 /\ Turn(q.id, id) = sent[s] + 1 - q.number
                 /\ \A i \in Ifaces : Entered(trees[i], q.fate[i], q, id)
<1>1. config \in Configs /\ s \in AllStreams /\ s.pair \in Pairs
  BY CarriedIs, PairOf DEF TrackInv, IInv
<1>2. CASE s.pair \in ToSet(seqMgr.flow_list)
  <2>1. id = seqMgr.sequence[s.pair]
    BY <1>2 DEF NextSequence
  <2>2. id \in Indices
    BY <2>1, <1>1 DEF TrackInv, IInv, MgrOK
  <2>3. Newest(s) = (id - 1) % RangeSize
    BY <2>1 DEF Newest
  <2>4. id = (Newest(s) + 1) % RangeSize
    BY <2>2, <2>3, SequenceHead
  <2> QED
    BY <2>2, <2>4, <1>2, StreamGoesOn
<1>3. CASE s.pair \notin ToSet(seqMgr.flow_list)
  <2>1. id = start
    BY <1>3 DEF NextSequence
  <2>2. \A i \in Ifaces : ~IsSet(KeyWindow(i, s))
    BY <1>3 DEF TrackInv, WindowsNumbered
  <2>3. \A q \in air : q.stream # s
    BY <1>3 DEF TrackInv, Numbered
  <2>4. \A i \in Ifaces : Within(KeyWindow(i, s), id, sent[s] + 1) /\ ~Holds(KeyWindow(i, s), id)
    BY <2>2 DEF Within, Holds
  <2> QED
    BY <2>1, <2>3, <2>4, TurnRange
<1> QED
  BY <1>2, <1>3

\* The sequences when the pair of a stream has been given another number.
LEMMA SequenceTaken ==
    ASSUME IInv, NEW s \in AllStreams, s.by = Node, NEW start \in Indices,
           NEW id, id = NextSequence(seqMgr, s.pair, start),
           seqMgr' = IncrementSequence(seqMgr, current_update_time, s.pair, start),
           sent' = [sent EXCEPT ![s] = @ + 1], first' = first
    PROVE  /\ s.pair \in ToSet(seqMgr'.flow_list) /\ seqMgr'.update_time[s.pair] = current_update_time
           /\ \A k \in ToSet(seqMgr.flow_list) : k \in ToSet(seqMgr'.flow_list)
           /\ \A k \in Pairs : seqMgr.update_time[k] <= seqMgr'.update_time[k]
           /\ Newest(s)' = id /\ sent'[s] = sent[s] + 1 /\ sent[s] \in Nat
           /\ \A t \in AllStreams : t # s => Newest(t)' = Newest(t) /\ sent'[t] = sent[t]
<1>1. s.pair \in Pairs /\ sent \in [AllStreams -> Nat] /\ current_update_time \in Nat
  BY PairOf DEF IInv
<1>2. /\ seqMgr.sequence \in [Pairs -> Indices] /\ seqMgr.update_time \in [Pairs -> Nat]
      /\ \A k \in Pairs : seqMgr.update_time[k] <= current_update_time
      /\ MgrOK(seqMgr, current_update_time)
  BY DEF IInv, MgrOK, ListOK
<1>3. /\ id \in Indices
      /\ ToSet(seqMgr'.flow_list) = ToSet(seqMgr.flow_list) \cup {s.pair}
      /\ seqMgr'.sequence = [seqMgr.sequence EXCEPT ![s.pair] = (id + 1) % RangeSize]
      /\ seqMgr'.update_time = [seqMgr.update_time EXCEPT ![s.pair] = current_update_time]
  <2>1. PICK mgr : mgr = seqMgr
    OBVIOUS
  <2>2. PICK time : time = current_update_time
    OBVIOUS
  <2>3. PICK pair : pair = s.pair
    OBVIOUS
  <2>4. PICK r : r = seqMgr'
    OBVIOUS
  <2>5. /\ time \in Nat /\ pair \in Pairs /\ start \in Indices /\ MgrOK(mgr, time)
        /\ r = IncrementSequence(mgr, time, pair, start) /\ id = NextSequence(mgr, pair, start)
    BY <2>1, <2>2, <2>3, <2>4, <1>1, <1>2
  <2>6. /\ id \in Indices /\ ToSet(r.flow_list) = ToSet(mgr.flow_list) \cup {pair}
        /\ r.sequence = [mgr.sequence EXCEPT ![pair] = (id + 1) % RangeSize]
        /\ r.update_time = [mgr.update_time EXCEPT ![pair] = time]
    BY ONLY <2>5, SequenceOK
  <2> QED
    BY ONLY <2>1, <2>2, <2>3, <2>4, <2>6
<1>4. sent'[s] = sent[s] + 1 /\ sent[s] \in Nat /\ \A t \in AllStreams : t # s => sent'[t] = sent[t]
  BY <1>1
<1>5. Newest(s)' = id
  <2>1. seqMgr'.sequence[s.pair] = (id + 1) % RangeSize
    BY <1>1, <1>2, <1>3
  <2> QED
    BY <2>1, <1>3, SequenceHead DEF Newest
<1>6. ASSUME NEW t \in AllStreams, t # s PROVE Newest(t)' = Newest(t)
  <2>1. CASE t.by = Node
    <3>1. t.pair # s.pair /\ t.pair \in Pairs
      BY <2>1, <1>6, StreamBy, PairOf
    <3>2. seqMgr'.sequence[t.pair] = seqMgr.sequence[t.pair]
      BY <3>1, <1>2, <1>3
    <3> QED
      BY <3>2, <2>1 DEF Newest
  <2>2. CASE t.by # Node
    BY <2>2, <1>4, <1>6 DEF Newest
  <2> QED
    BY <2>1, <2>2
<1>7. \A k \in Pairs : seqMgr.update_time[k] <= seqMgr'.update_time[k]
  <2>1. \A k \in Pairs : seqMgr'.update_time[k] = IF k = s.pair THEN current_update_time
                                                 ELSE seqMgr.update_time[k]
    BY <1>2, <1>3
  <2>2. \A k \in Pairs : seqMgr.update_time[k] <= seqMgr.update_time[k]
    BY <1>2
  <2> QED
    BY <2>1, <2>2, <1>2
<1>8. seqMgr'.update_time[s.pair] = current_update_time
  BY <1>1, <1>2, <1>3
<1> QED
  BY <1>3, <1>4, <1>5, <1>6, <1>7, <1>8

\* A packet with the next number of its stream is noted where it was heard, and
\* then shown to the trees of D.
Unseen(s, id, m) == \A i \in Ifaces : Within(KeyWindow(i, s), id, m) /\ ~Holds(KeyWindow(i, s), id)

Marked(s, id, src) == [trees EXCEPT ![src] = After(@, current_update_time, FlowKey(s), id)]

LEMMA MarkedAndShown ==
    ASSUME IInv, NEW s \in AllStreams, s.by = Node, NEW m \in Nat, m > 0, HasRoom(m),
           NEW id \in Indices, Unseen(s, id, m),
           NEW src \in Ifaces, NEW r, r = Packet(s, m, id, src),
           NEW D, NEW f, NEW U, Shows(current_update_time, Marked(s, id, src), r, 0, D, f, U),
           NEW i \in Ifaces
    PROVE  /\ Within(U[i].window[KeyOf(s)], id, m)
           /\ Entered(U[i], f[i], r, id)
           /\ i \in D => f[i] # "none"
           /\ i \notin D \/ r.fate[i] # "none" => f[i] = r.fate[i]
           /\ \A k \in Keys : k # KeyOf(s) =>
                 /\ U[i].inits = trees[i].inits
                 /\ U[i].window[k] = trees[i].window[k] /\ U[i].update_time[k] = trees[i].update_time[k]
           /\ \A q \in Packets, fate \in Fates :
                 /\ q.stream = s /\ q.id # id /\ Turn(q.id, id) < NumBits /\ q.born <= current_update_time
                 /\ Entered(trees[i], fate, q, id)
                 => Entered(U[i], fate, q, id)
<1> DEFINE time == current_update_time
           key == KeyOf(s)
           T == [trees EXCEPT ![src] = After(@, time, key, id)]
<1>1. PICK e : e = Packet(s, m, id, NoIface)
  OBVIOUS
<1>2. /\ time \in Nat /\ DOMAIN trees = Ifaces /\ id \in Indices
      /\ \A j \in Ifaces : TreeOK(trees[j], time)
      /\ key = FlowKey(s) /\ key \in Keys
  BY StreamBy, KeysOf DEF IInv
<1>3. /\ r \in Packets /\ r.stream = s /\ r.id = id /\ r.born = time
      /\ \A j \in Ifaces : r.fate[j] = IF j = src THEN "skipped" ELSE "none"
  BY <1>2, PacketIs
<1>4. /\ e \in Packets /\ e.stream = s /\ e.id = id /\ e.born = time
      /\ \A j \in Ifaces : e.fate[j] = "none"
  <2>1. NoIface \in Ifaces \cup {NoIface} /\ NoIface \notin Ifaces
    BY SmfAssumption
  <2> QED
    BY <2>1, <1>1, <1>2, PacketIs
<1>5. Turn(id, id) = 0 /\ NumBits \in Nat /\ NumBits > 0
  BY Sizes, TurnRange
<1> DEFINE g == [j \in Ifaces |->
                   IF j = src THEN IF IsDuplicate(trees[src], key, id) THEN "missed" ELSE "skipped"
                   ELSE "none"]
<1>6. Shows(time, trees, e, 0, {src}, g, T)
  <2>1. g \in [Ifaces -> Fates]
    BY DEF Fates
  <2>2. Decided(e, trees[src], 0, e.fate[src], g[src])
    BY <1>4, <1>5 DEF Decided
  <2>3. \A j \in Ifaces : j # src => g[j] = e.fate[j]
    BY <1>4
  <2>4. T = [j \in Ifaces |-> IF j \in {src} THEN After(trees[j], time, KeyOf(e.stream), e.id)
                              ELSE trees[j]]
    BY <1>2, <1>4
  <2>5. \A j \in Ifaces : IF j \in {src} THEN Decided(e, trees[j], 0, e.fate[j], g[j])
                          ELSE g[j] = e.fate[j]
    BY <2>2, <2>3
  <2>6. 0 \in Nat /\ 0 < NumBits
    BY <1>5
  <2> HIDE DEF g, T
  <2> QED
    BY ONLY <2>1, <2>4, <2>5, <2>6 DEF Shows
<1>7. /\ g[src] # "none" /\ \A j \in Ifaces : j # src => g[j] = "none"
      /\ T = Marked(s, id, src)
  BY <1>2 DEF Marked
<1>8. \A j \in Ifaces : KeyWindow(j, s) = trees[j].window[key]
  BY DEF KeyWindow
<1> HIDE DEF g, T, key, time
<1>9. Ready(time, trees, e, id, m)
  <2>1. \A j \in Ifaces : Within(trees[j].window[key], id, m) /\ ~Holds(trees[j].window[key], id)
    BY <1>8 DEF Unseen
  <2>2. ASSUME NEW j \in Ifaces PROVE Entered(trees[j], e.fate[j], e, id)
    BY <2>1, <1>4 DEF Entered, key
  <2>3. e.born <= time /\ HasRoom(m) /\ Turn(e.id, id) < NumBits /\ Turn(e.id, id) < m
    BY <1>2, <1>4, <1>5
  <2>4. key = KeyOf(e.stream)
    BY <1>4 DEF key
  <2> QED
    BY <2>1, <2>2, <2>3, <2>4, <1>2, <1>4 DEF Ready
<1>10. ASSUME NEW j \in Ifaces
       PROVE  /\ TreeOK(T[j], time)
              /\ Within(T[j].window[key], id, m)
              /\ Entered(T[j], r.fate[j], r, id)
              /\ \A k \in Keys : k # key =>
                    /\ T[j].inits = trees[j].inits
                    /\ T[j].window[k] = trees[j].window[k]
                    /\ T[j].update_time[k] = trees[j].update_time[k]
              /\ \A q \in Packets, fate \in Fates :
                    /\ q.stream = s /\ q.id # id /\ Turn(q.id, id) < NumBits /\ q.born <= time
                    /\ Entered(trees[j], fate, q, id)
                    => Entered(T[j], fate, q, id)
  <2>1. /\ Within(T[j].window[KeyOf(e.stream)], id, m)
        /\ Entered(T[j], g[j], e, id)
        /\ \A k \in Keys : k # KeyOf(e.stream) =>
              /\ T[j].inits = trees[j].inits
              /\ T[j].window[k] = trees[j].window[k]
              /\ T[j].update_time[k] = trees[j].update_time[k]
        /\ \A q \in Packets, fate \in Fates :
              /\ q.stream = e.stream /\ q.id # e.id /\ Turn(q.id, id) < NumBits /\ q.born <= time
              /\ Entered(trees[j], fate, q, id)
              => Entered(T[j], fate, q, id)
    BY <1>6, <1>9, ShownToAll
  <2>2. TreeOK(T[j], time)
    <3>1. TreeOK(After(trees[src], time, key, id), time)
      BY <1>2, AfterOK
    <3> QED
      BY <3>1, <1>2, <1>7 DEF Marked, time
  <2>3. Entered(T[j], r.fate[j], r, id)
    <3>1. TreeHas(T[j], e, id) <=> TreeHas(T[j], r, id)
      BY <1>3, <1>4 DEF TreeHas
    <3>2. (g[j] # "none" <=> r.fate[j] # "none") /\ r.fate[j] # "again" /\ r.fate[j] # "missed"
      BY <1>3, <1>7
    <3>3. /\ g[j] # "none" => TreeHas(T[j], e, id)
          /\ Holds(T[j].window[KeyOf(e.stream)], e.id) => g[j] # "none"
      BY <2>1 DEF Entered
    <3> QED
      BY <3>1, <3>2, <3>3, <1>3, <1>4 DEF Entered
  <2> QED
    BY <2>1, <2>2, <2>3, <1>4 DEF key
<1>11. Ready(time, T, r, id, m)
  <2>1. r.born <= time /\ HasRoom(m) /\ Turn(r.id, id) < NumBits /\ Turn(r.id, id) < m
    BY <1>2, <1>3, <1>5
  <2>2. key = KeyOf(r.stream)
    BY <1>3 DEF key
  <2> QED
    BY <2>1, <2>2, <1>2, <1>3, <1>10 DEF Ready
<1>12. Shows(time, T, r, 0, D, f, U)
  BY <1>7 DEF time
<1>13. /\ Within(U[i].window[KeyOf(r.stream)], id, m)
       /\ Entered(U[i], f[i], r, id)
       /\ i \in D => f[i] # "none"
       /\ i \notin D \/ r.fate[i] # "none" => f[i] = r.fate[i]
       /\ \A k \in Keys : k # KeyOf(r.stream) =>
             /\ U[i].inits = T[i].inits
             /\ U[i].window[k] = T[i].window[k] /\ U[i].update_time[k] = T[i].update_time[k]
       /\ \A q \in Packets, fate \in Fates :
             /\ q.stream = r.stream /\ q.id # r.id /\ Turn(q.id, id) < NumBits /\ q.born <= time
             /\ Entered(T[i], fate, q, id)
             => Entered(U[i], fate, q, id)
  BY <1>11, <1>12, ShownToAll
<1> QED
  BY <1>3, <1>10, <1>13 DEF key, time

\* A packet that is resequenced starts anew with the next number of its pair.
LEMMA ResequencedTracks ==
    ASSUME Orderly, TrackInv, NEW p \in air, NEW src \in Ifaces, NEW mac, NEW ttl,
           NEW start \in Seeds, src \in HeardOn(p), ProcessAndResequence(p, src, mac, ttl, start),
           UNCHANGED <<config, relay_enabled, current_update_time, first>>, IInv'
    PROVE  TrackInv'
<1>1. PICK s : s = Resequenced(p.stream.pair)
  OBVIOUS
<1>2. PICK id : id = NextSequence(seqMgr, s.pair, start)
  OBVIOUS
<1>3. PICK r : r = Packet(s, sent[s] + 1, id, src)
  OBVIOUS
<1>4. PICK T : T = Marked(s, id, src)
  OBVIOUS
<1> DEFINE n == sent[s]
           time == current_update_time
           D == Asked(src, mac)
<1>5. /\ s \in AllStreams /\ s.by = Node /\ s.pair = p.stream.pair
      /\ s \in Carried(config) /\ config \in Configs /\ src \in config.resequence
  <2>1. p.stream \in AllStreams /\ config \in Configs
    BY UnderWayIs
  <2>2. src \in config.resequence /\ ~IsMarked(p.stream)
    BY DEF ProcessAndResequence
  <2>3. p.stream \in Renumbered(config)
    BY <2>2, HeardToResequence
  <2>4. s.by = Node /\ s.pair = p.stream.pair
    BY <1>1 DEF Resequenced
  <2> QED
    BY <2>1, <2>2, <2>3, <2>4, <1>1, PairOf DEF Carried
<1>6. /\ n < config.quota[s] /\ start \in Indices
      /\ seqMgr' = IncrementSequence(seqMgr, time, s.pair, start)
      /\ sent' = [sent EXCEPT ![s] = @ + 1]
      /\ Relayed(r, src, mac, ttl, MarkedAtSource(r, src), sent')
      /\ config' = config /\ first' = first /\ current_update_time' = time
  <2>1. r = Packet(s, sent[s] + 1, NextSequence(seqMgr, p.stream.pair, start), src)
    BY <1>2, <1>3, <1>5
  <2> QED
    BY <2>1, <1>1, <1>5, SmfAssumption DEF ProcessAndResequence
<1>7. /\ id \in Indices /\ Turn(id, id) = 0
      /\ \A i \in Ifaces : Within(KeyWindow(i, s), id, n + 1) /\ ~Holds(KeyWindow(i, s), id)
      /\ \A q \in air : q.stream = s =>
            /\ Turn(q.id, id) = n + 1 - q.number
            /\ \A i \in Ifaces : Entered(trees[i], q.fate[i], q, id)
  BY <1>2, <1>5, <1>6, SequenceGoesOn
<1>8. /\ s.pair \in ToSet(seqMgr'.flow_list) /\ seqMgr'.update_time[s.pair] = time
      /\ \A k \in ToSet(seqMgr.flow_list) : k \in ToSet(seqMgr'.flow_list)
      /\ \A k \in Pairs : seqMgr.update_time[k] <= seqMgr'.update_time[k]
      /\ Newest(s)' = id /\ sent'[s] = n + 1 /\ n \in Nat
      /\ \A t \in AllStreams : t # s => Newest(t)' = Newest(t) /\ sent'[t] = sent[t]
  BY <1>2, <1>5, <1>6, SequenceTaken DEF TrackInv
<1>9. /\ time \in Nat /\ DOMAIN trees = Ifaces /\ \A i \in Ifaces : TreeOK(trees[i], time)
      /\ seqMgr.update_time \in [Pairs -> Nat]
      /\ \A i \in Ifaces : TreeOK(trees'[i], time)
      /\ seqMgr'.update_time \in [Pairs -> Nat] /\ IInv
  BY <1>6 DEF TrackInv, IInv, MgrOK
<1>10. /\ r \in Packets /\ r.stream = s /\ r.number = n + 1 /\ r.id = id /\ r.from = src
       /\ r.born = time /\ \A i \in Ifaces : r.fate[i] = IF i = src THEN "skipped" ELSE "none"
  BY <1>3, <1>5, <1>7, <1>8, <1>9, PacketIs
<1>11. HasRoom(n + 1)
  <2>1. n + 1 \in Nat /\ n + 1 <= config.quota[s]
    BY <1>5, <1>6, <1>8, SmfAssumption
  <2> QED
    BY <2>1, <1>5, RoomOf
<1>12. MarkedAtSource(r, src) = T
  BY <1>4, <1>5, <1>10 DEF MarkedAtSource, Marked
<1>13. /\ trees' = [i \in Ifaces |-> IF i \in D THEN After(T[i], time, KeyOf(r.stream), r.id) ELSE T[i]]
       /\ \E f \in [Ifaces -> Fates] :
            /\ air' = UnderWay((air \ {r}) \cup {[r EXCEPT !.fate = f]}, sent')
            /\ \A i \in Ifaces : IF i \in D
                                 THEN Decided(r, T[i], sent'[r.stream] - r.number, r.fate[i], f[i])
                                 ELSE f[i] = r.fate[i]
  <2>1. PICK newest : newest = sent'
    OBVIOUS
  <2>2. r \in Packets /\ Relayed(r, src, mac, ttl, T, newest)
    BY <2>1, <1>6, <1>10, <1>12
  <2>3. /\ trees' = [i \in Ifaces |-> IF i \in D THEN After(T[i], time, KeyOf(r.stream), r.id) ELSE T[i]]
        /\ \E f \in [Ifaces -> Fates] :
             /\ air' = UnderWay((air \ {r}) \cup {[r EXCEPT !.fate = f]}, newest)
             /\ \A i \in Ifaces : IF i \in D
                                  THEN Decided(r, T[i], newest[r.stream] - r.number, r.fate[i], f[i])
                                  ELSE f[i] = r.fate[i]
    BY ONLY <2>2, RelayedIs
  <2> QED
    BY <2>1, <2>3
<1>14. PICK f \in [Ifaces -> Fates] :
          /\ air' = UnderWay((air \ {r}) \cup {[r EXCEPT !.fate = f]}, sent')
          /\ \A i \in Ifaces : IF i \in D
                               THEN Decided(r, T[i], sent'[r.stream] - r.number, r.fate[i], f[i])
                               ELSE f[i] = r.fate[i]
  BY <1>13
<1>15. PICK shown : shown = [r EXCEPT !.fate = f]
  OBVIOUS
<1>16. /\ shown \in Packets /\ shown.stream = s /\ shown.number = n + 1 /\ shown.id = id
       /\ shown.born = time /\ shown.from = src /\ shown.fate = f
  BY <1>10, <1>15, FateIs
<1>17. /\ \A q \in air' : q \in air \/ q = shown
       /\ \A q \in air' : sent'[q.stream] - q.number <= Spread
  BY <1>14, <1>15 DEF UnderWay
<1>18. Shows(time, T, r, 0, D, f, trees')
  <2>1. sent'[r.stream] - r.number = 0 /\ 0 \in Nat /\ 0 < NumBits
    BY <1>8, <1>10, Sizes
  <2>2. \A i \in Ifaces : IF i \in D THEN Decided(r, T[i], 0, r.fate[i], f[i]) ELSE f[i] = r.fate[i]
    BY <2>1, <1>14
  <2>3. trees' = [i \in Ifaces |-> IF i \in D THEN After(T[i], time, KeyOf(r.stream), r.id) ELSE T[i]]
    BY <1>13
  <2> HIDE DEF D, time
  <2> QED
    BY ONLY <2>1, <2>2, <2>3, <1>14 DEF Shows
<1> HIDE DEF D
<1>19. ASSUME NEW i \in Ifaces
       PROVE  /\ Within(trees'[i].window[KeyOf(s)], id, n + 1)
              /\ Entered(trees'[i], f[i], r, id)
              /\ i \in D => f[i] # "none"
              /\ i \notin D \/ r.fate[i] # "none" => f[i] = r.fate[i]
              /\ \A k \in Keys : k # KeyOf(s) =>
                    /\ trees'[i].inits = trees[i].inits
                    /\ trees'[i].window[k] = trees[i].window[k]
                    /\ trees'[i].update_time[k] = trees[i].update_time[k]
              /\ \A q \in Packets, fate \in Fates :
                    /\ q.stream = s /\ q.id # id /\ Turn(q.id, id) < NumBits /\ q.born <= time
                    /\ Entered(trees[i], fate, q, id)
                    => Entered(trees'[i], fate, q, id)
  <2>1. PICK U : U = trees'
    OBVIOUS
  <2>2. PICK m : m = n + 1
    OBVIOUS
  <2>3. m \in Nat /\ m > 0 /\ HasRoom(m) /\ Unseen(s, id, m) /\ r = Packet(s, m, id, src)
    BY <2>2, <1>3, <1>7, <1>8, <1>11 DEF Unseen
  <2>4. /\ IInv /\ s \in AllStreams /\ s.by = Node /\ id \in Indices /\ src \in Ifaces
        /\ Shows(current_update_time, Marked(s, id, src), r, 0, D, f, U) /\ i \in Ifaces
    BY <2>1, <1>4, <1>5, <1>7, <1>9, <1>18
  <2>5. /\ Within(U[i].window[KeyOf(s)], id, m)
        /\ Entered(U[i], f[i], r, id)
        /\ i \in D => f[i] # "none"
        /\ i \notin D \/ r.fate[i] # "none" => f[i] = r.fate[i]
        /\ \A k \in Keys : k # KeyOf(s) =>
              /\ U[i].inits = trees[i].inits
              /\ U[i].window[k] = trees[i].window[k]
              /\ U[i].update_time[k] = trees[i].update_time[k]
        /\ \A q \in Packets, fate \in Fates :
              /\ q.stream = s /\ q.id # id /\ Turn(q.id, id) < NumBits /\ q.born <= current_update_time
              /\ Entered(trees[i], fate, q, id)
              => Entered(U[i], fate, q, id)
    BY ONLY <2>3, <2>4, MarkedAndShown
  <2> QED
    BY <2>1, <2>2, <2>5
<1> HIDE DEF n, time
<1>20. ASSUME NEW t \in Carried(config), t # s
       PROVE  KeyOf(t) # KeyOf(s) /\ KeyOf(t) \in Keys /\ t \in AllStreams /\ t.pair \in Pairs
  <2>1. KeyOf(t) # KeyOf(s)
    BY <1>5, <1>20 DEF Orderly, StreamsApart
  <2> QED
    BY <2>1, <1>5, CarriedIs, KeysOf, PairOf
<1>21. \A t \in AllStreams : Newest(t)' = (IF t = s THEN id ELSE Newest(t))
                             /\ sent'[t] = (IF t = s THEN n + 1 ELSE sent[t])
  BY <1>8
<1>22. WindowsBehind'
  <2>1. ASSUME NEW t \in Carried(config), NEW i \in Ifaces
        PROVE  Within(trees'[i].window[KeyOf(t)], Newest(t)', sent'[t])
    <3>1. CASE t = s
      <4>1. Newest(t)' = id /\ sent'[t] = n + 1
        BY <3>1, <1>5, <1>21
      <4> QED
        BY <3>1, <4>1, <1>19
    <3>2. CASE t # s
      <4>1. Newest(t)' = Newest(t) /\ sent'[t] = sent[t]
        BY <3>2, <1>20, <1>21
      <4>2. Within(trees[i].window[KeyOf(t)], Newest(t), sent[t])
        BY DEF TrackInv, WindowsBehind, KeyWindow
      <4>3. trees'[i].window[KeyOf(t)] = trees[i].window[KeyOf(t)]
        BY <3>2, <1>19, <1>20
      <4> QED
        BY <4>1, <4>2, <4>3
    <3> QED
      BY <3>1, <3>2
  <2> QED
    BY <2>1, <1>6 DEF WindowsBehind, KeyWindow
<1>23. WindowsNumbered'
  <2>1. ASSUME NEW t \in Carried(config), NEW i \in Ifaces, t.by = Node,
               IsSet(trees'[i].window[KeyOf(t)])
        PROVE  /\ t.pair \in ToSet(seqMgr'.flow_list)
               /\ trees'[i].update_time[KeyOf(t)] <= seqMgr'.update_time[t.pair]
    <3>1. CASE t = s
      <4>1. trees'[i].update_time[KeyOf(s)] <= time
        BY <1>5, <1>9, KeysOf DEF TreeOK, ListOK
      <4> QED
        BY <3>1, <4>1, <1>8
    <3>2. CASE t # s
      <4>1. /\ trees'[i].window[KeyOf(t)] = trees[i].window[KeyOf(t)]
            /\ trees'[i].update_time[KeyOf(t)] = trees[i].update_time[KeyOf(t)]
        BY <3>2, <1>19, <1>20
      <4>2. /\ t.pair \in ToSet(seqMgr.flow_list)
            /\ trees[i].update_time[KeyOf(t)] <= seqMgr.update_time[t.pair]
        BY <2>1, <4>1 DEF TrackInv, WindowsNumbered, KeyWindow
      <4>3. /\ t.pair \in ToSet(seqMgr'.flow_list)
            /\ seqMgr.update_time[t.pair] <= seqMgr'.update_time[t.pair]
        BY <3>2, <4>2, <1>8, <1>20
      <4>4. /\ trees[i].update_time[KeyOf(t)] \in Nat
            /\ seqMgr.update_time[t.pair] \in Nat /\ seqMgr'.update_time[t.pair] \in Nat
        BY <3>2, <1>9, <1>20 DEF TreeOK
      <4> QED
        BY <4>1, <4>2, <4>3, <4>4
    <3> QED
      BY <3>1, <3>2
  <2> QED
    BY <2>1, <1>6 DEF WindowsNumbered, KeyWindow
<1>24. \A q \in air : q.stream = s => q.number \in Nat /\ q.number <= n
  BY UnderWayIs DEF n
<1>25. Once'
  <2>1. ASSUME NEW a \in air', NEW b \in air', a.stream = b.stream, a.number = b.number
        PROVE  a = b
    <3>1. CASE a \in air /\ b \in air
      BY <2>1, <3>1 DEF TrackInv, Once
    <3>2. CASE a \notin air \/ b \notin air
      BY <2>1, <3>2, <1>8, <1>16, <1>17, <1>24
    <3> QED
      BY <3>1, <3>2
  <2> QED
    BY <2>1 DEF Once
<1>26. ASSUME NEW q \in air', q \in air
       PROVE  (InTime(q) /\ Tracked(q) /\ CameFrom(q) /\ Numbered(q))'
  <2>1. InTime(q) /\ Tracked(q) /\ CameFrom(q) /\ Numbered(q)
    BY <1>26 DEF TrackInv
  <2>2. /\ q \in Packets /\ q.stream \in AllStreams /\ q.id \in Indices
        /\ q.number \in Nat /\ sent[q.stream] \in Nat /\ sent[q.stream] - q.number < NumBits
        /\ q.born \in Nat /\ q.born <= time /\ \A i \in Ifaces : q.fate[i] \in Fates
    BY <1>26, UnderWayIs DEF time
  <2>3. sent'[q.stream] - q.number <= Spread
    BY <1>17
  <2>4. CameFrom(q)' /\ InTime(q)'
    BY <2>1, <2>3, <1>6 DEF CameFrom, InTime, time
  <2>5. Numbered(q)'
    <3>1. q.stream.pair \in Pairs
      BY <2>2, PairOf
    <3>2. seqMgr.update_time[q.stream.pair] \in Nat /\ seqMgr'.update_time[q.stream.pair] \in Nat
      BY <3>1, <1>9
    <3>3. q.stream.by = Node =>
             /\ q.stream.pair \in ToSet(seqMgr'.flow_list)
             /\ q.born <= seqMgr.update_time[q.stream.pair]
             /\ seqMgr.update_time[q.stream.pair] <= seqMgr'.update_time[q.stream.pair]
      BY <2>1, <3>1, <1>8 DEF Numbered
    <3> QED
      BY <3>2, <3>3, <2>2 DEF Numbered
  <2>6. Tracked(q)'
    <3>1. CASE q.stream \notin Carried(config)
      BY <3>1, <2>1, <1>6 DEF Tracked
    <3>2. CASE q.stream \in Carried(config) /\ q.stream # s
      <4>1. KeyOf(q.stream) # KeyOf(s) /\ KeyOf(q.stream) \in Keys
        BY <3>2, <1>20
      <4>2. Newest(q.stream)' = Newest(q.stream) /\ sent'[q.stream] = sent[q.stream]
        BY <3>2, <2>2, <1>21
      <4>3. /\ Turn(q.id, Newest(q.stream)) = sent[q.stream] - q.number
            /\ \A i \in Ifaces : Entered(trees[i], q.fate[i], q, Newest(q.stream))
        BY <3>2, <2>1 DEF Tracked
      <4>4. ASSUME NEW i \in Ifaces PROVE Entered(trees'[i], q.fate[i], q, Newest(q.stream))
        <5>1. /\ trees'[i].inits = trees[i].inits
              /\ trees'[i].window[KeyOf(q.stream)] = trees[i].window[KeyOf(q.stream)]
              /\ trees'[i].update_time[KeyOf(q.stream)] = trees[i].update_time[KeyOf(q.stream)]
          BY <4>1, <1>19
        <5> QED
          BY <5>1, <4>3 DEF Entered, TreeHas
      <4> QED
        BY <4>2, <4>3, <4>4, <3>2, <1>6 DEF Tracked
    <3>3. CASE q.stream = s
      <4>1. /\ Turn(q.id, id) = n + 1 - q.number
            /\ \A i \in Ifaces : Entered(trees[i], q.fate[i], q, id)
        BY <3>3, <1>7, <1>26
      <4>2. Newest(q.stream)' = id /\ sent'[q.stream] = n + 1
        BY <3>3, <2>2, <1>21
      <4>3. q.id # id
        BY <3>3, <4>1, <1>7, <1>8, <1>24, <1>26
      <4>4. Turn(q.id, id) < NumBits
        <5>1. n + 1 - q.number <= Spread
          BY <2>2, <2>3, <4>2, <1>8
        <5> QED
          BY <4>1, <5>1, <2>2, <1>8, Sizes, SmfAssumption DEF Orderly
      <4>5. ASSUME NEW i \in Ifaces PROVE Entered(trees'[i], q.fate[i], q, id)
        BY <3>3, <4>1, <4>3, <4>4, <2>2, <1>19
      <4>6. Turn(q.id, Newest(q.stream)') = sent'[q.stream] - q.number
        <5>1. n \in Nat /\ q.number \in Nat
          BY <2>2, <1>8
        <5> QED
          BY ONLY <4>1, <4>2, <5>1
      <4>7. \A i \in Ifaces : Entered(trees'[i], q.fate[i], q, Newest(q.stream)')
        BY <4>2, <4>5
      <4> QED
        BY <4>6, <4>7, <3>3, <1>5, <1>6 DEF Tracked
    <3> QED
      BY <3>1, <3>2, <3>3
  <2> QED
    BY <2>4, <2>5, <2>6
<1>27. (InTime(shown) /\ Tracked(shown) /\ CameFrom(shown) /\ Numbered(shown))'
  <2>1. Numbered(shown)'
    BY <1>8, <1>9, <1>16 DEF Numbered
  <2>2. InTime(shown)'
    <3>1. sent'[shown.stream] - shown.number = 0 /\ time - time = 0 /\ time <= time
      BY <1>8, <1>9, <1>16
    <3> QED
      BY <3>1, <1>6, <1>16, SmfAssumption DEF InTime, time
  <2>3. Tracked(shown)'
    <3>1. \A i \in Ifaces : Entered(trees'[i], f[i], shown, id)
      BY <1>10, <1>16, <1>19 DEF Entered, TreeHas
    <3>2. Newest(s)' = id /\ Turn(shown.id, id) = sent'[s] - shown.number
      BY <1>7, <1>8, <1>16
    <3>3. Turn(shown.id, Newest(s)') = sent'[s] - shown.number
      BY ONLY <3>2
    <3>4. \A i \in Ifaces : Entered(trees'[i], f[i], shown, Newest(s)')
      BY <3>1, <3>2
    <3> QED
      BY <3>3, <3>4, <1>5, <1>6, <1>16 DEF Tracked
  <2>4. CameFrom(shown)'
    <3>1. f[src] = "skipped"
      BY <1>10, <1>19
    <3>2. ASSUME NEW i \in Ifaces, f[i] = "sent"
          PROVE  i \in Outs(config, src) /\ \A j \in Outs(config, src) : f[j] # "none"
      <4>1. i \in D
        BY <3>2, <1>10, <1>19
      <4>2. PICK b \in config.associates[src] : i = b.to /\ UpdatesTree(b.type, mac)
        BY <4>1 DEF D, Asked
      <4>3. \A a \in config.associates[src] : a.type = "CF"
        BY <1>5 DEF Orderly, EchoesStay
      <4>4. \A a \in config.associates[src] : UpdatesTree(a.type, mac)
        BY <4>2, <4>3
      <4>5. Outs(config, src) = D
        BY <4>4 DEF D, Asked, Outs
      <4>6. Outs(config, src) \subseteq Ifaces
        BY <1>5, SmfAssumption DEF Outs
      <4> QED
        BY <4>1, <4>5, <4>6, <1>19
    <3> QED
      BY <3>1, <3>2, <1>5, <1>6, <1>16 DEF CameFrom, Outs
  <2> QED
    BY <2>1, <2>2, <2>3, <2>4
<1>28. \A q \in air' : (InTime(q) /\ Tracked(q) /\ CameFrom(q) /\ Numbered(q))'
  BY <1>17, <1>26, <1>27
<1>29. \A t \in AllStreams : sent'[t] <= config'.quota[t]
  <2>1. config.quota[s] \in Nat /\ n + 1 <= config.quota[s]
    BY <1>5, <1>6, <1>8, SmfAssumption
  <2> QED
    BY <2>1, <1>6, <1>21 DEF TrackInv
<1> QED
  BY <1>22, <1>23, <1>25, <1>28, <1>29 DEF TrackInv

\* Pruning forgets no flow, and no sequence, that a packet under way depends on.
LEMMA OnPruneTimeoutTracks ==
    ASSUME Orderly, TrackInv, OnPruneTimeout, IInv'
    PROVE  TrackInv'
<1> DEFINE time == current_update_time
<1>1. /\ time' = time + 1
      /\ trees' = [i \in Ifaces |-> Prune(trees[i], time)]
      /\ seqMgr' = PruneSequences(seqMgr, time)
      /\ air' = {p \in air : current_update_time' - p.born <= Lifetime}
      /\ config' = config /\ sent' = sent /\ first' = first
  BY DEF OnPruneTimeout
<1>2. /\ time \in Nat /\ config \in Configs /\ \A i \in Ifaces : TreeOK(trees[i], time)
      /\ MgrOK(seqMgr, time) /\ seqMgr.update_time \in [Pairs -> Nat]
  BY DEF TrackInv, IInv, MgrOK
<1>3. /\ Lifetime \in Nat /\ AgeMax \in Nat /\ Lifetime <= AgeMax + 1
  BY SmfAssumption, WindowAssumption DEF Orderly
<1>4. /\ \A k : k \in ToSet(seqMgr'.flow_list) <=>
                   k \in ToSet(seqMgr.flow_list) /\ ~Stale(seqMgr.update_time[k], time)
      /\ \A k \in Pairs : k \in ToSet(seqMgr'.flow_list) =>
            /\ seqMgr'.sequence[k] = seqMgr.sequence[k]
            /\ seqMgr'.update_time[k] = seqMgr.update_time[k]
  <2>1. PICK mgr : mgr = seqMgr
    OBVIOUS
  <2>2. PICK r : r = seqMgr'
    OBVIOUS
  <2>3. MgrOK(mgr, time) /\ time \in Nat /\ r = PruneSequences(mgr, time)
    BY <2>1, <2>2, <1>1, <1>2
  <2>4. /\ \A k : k \in ToSet(r.flow_list) <=>
                     k \in ToSet(mgr.flow_list) /\ ~Stale(mgr.update_time[k], time)
        /\ \A k \in Pairs : k \in ToSet(r.flow_list) =>
              r.sequence[k] = mgr.sequence[k] /\ r.update_time[k] = mgr.update_time[k]
    BY ONLY <2>3, PruneSequencesOK
  <2> QED
    BY ONLY <2>1, <2>2, <2>4
<1>5. \A s \in AllStreams :
         s.by # Node \/ s.pair \in ToSet(seqMgr'.flow_list) => Newest(s)' = Newest(s)
  BY <1>1, <1>4, PairOf DEF Newest
<1>6. ASSUME NEW t \in Nat, NEW k \in Pairs, k \in ToSet(seqMgr.flow_list),
             t <= seqMgr.update_time[k], ~Stale(t, time)
      PROVE  k \in ToSet(seqMgr'.flow_list) /\ seqMgr'.update_time[k] = seqMgr.update_time[k]
  <2>1. seqMgr.update_time[k] \in Nat
    BY <1>2
  <2>2. ~Stale(seqMgr.update_time[k], time)
    BY <2>1, <1>2, <1>3, <1>6 DEF Stale
  <2> QED
    BY <2>2, <1>4, <1>6
<1>7. ASSUME NEW s \in Carried(config), NEW i \in Ifaces, IsSet(trees'[i].window[KeyOf(s)])
      PROVE  /\ IsSet(KeyWindow(i, s))
             /\ trees'[i].window[KeyOf(s)] = KeyWindow(i, s)
             /\ trees'[i].update_time[KeyOf(s)] = trees[i].update_time[KeyOf(s)]
             /\ s.by = Node =>
                  /\ s.pair \in ToSet(seqMgr'.flow_list)
                  /\ trees[i].update_time[KeyOf(s)] <= seqMgr.update_time[s.pair]
                  /\ seqMgr'.update_time[s.pair] = seqMgr.update_time[s.pair]
  <2> DEFINE key == KeyOf(s)
  <2>1. s \in AllStreams /\ key \in Keys /\ s.pair \in Pairs
    BY <1>2, CarriedIs, KeysOf, PairOf
  <2>2. PICK t : t = trees[i]
    OBVIOUS
  <2>3. PICK r : r = Prune(t, time)
    OBVIOUS
  <2>4. trees'[i] = r /\ TreeOK(t, time)
    BY <2>2, <2>3, <1>1, <1>2
  <2>5. /\ \A k : k \in ToSet(r.flow_list) <=> k \in ToSet(t.flow_list) /\ ~Stale(t.update_time[k], time)
        /\ \A k \in Keys : IF k \in ToSet(r.flow_list)
                           THEN r.window[k] = t.window[k] /\ r.update_time[k] = t.update_time[k]
                           ELSE ~IsSet(r.window[k])
    BY <2>3, <2>4, <1>2, PruneOK
  <2>6. /\ r.window[key] = t.window[key] /\ r.update_time[key] = t.update_time[key]
        /\ ~Stale(t.update_time[key], time) /\ t.update_time[key] \in Nat
    BY <2>1, <2>4, <2>5, <1>7 DEF TreeOK
  <2>7. IsSet(KeyWindow(i, s)) /\ r.window[key] = KeyWindow(i, s)
    BY <2>2, <2>4, <2>6, <1>7 DEF KeyWindow
  <2>8. s.by = Node => /\ s.pair \in ToSet(seqMgr.flow_list)
                       /\ t.update_time[key] <= seqMgr.update_time[s.pair]
    BY <2>2, <2>7 DEF TrackInv, WindowsNumbered
  <2> QED
    BY <2>1, <2>2, <2>4, <2>6, <2>7, <2>8, <1>6
<1>8. WindowsBehind'
  <2>1. ASSUME NEW s \in Carried(config), NEW i \in Ifaces
        PROVE  Within(trees'[i].window[KeyOf(s)], Newest(s)', sent[s])
    <3>1. CASE IsSet(trees'[i].window[KeyOf(s)])
      <4>1. Within(KeyWindow(i, s), Newest(s), sent[s])
        BY DEF TrackInv, WindowsBehind
      <4>2. Newest(s)' = Newest(s)
        BY <3>1, <1>2, <1>5, <1>7, CarriedIs
      <4> QED
        BY <3>1, <4>1, <4>2, <1>7
    <3>2. CASE ~IsSet(trees'[i].window[KeyOf(s)])
      BY <3>2 DEF Within
    <3> QED
      BY <3>1, <3>2
  <2> QED
    BY <2>1, <1>1 DEF WindowsBehind, KeyWindow
<1>9. WindowsNumbered'
  BY <1>1, <1>7 DEF WindowsNumbered, KeyWindow
<1>10. Once'
  BY <1>1 DEF TrackInv, Once
<1>11. ASSUME NEW q \in air' PROVE (InTime(q) /\ Tracked(q) /\ CameFrom(q) /\ Numbered(q))'
  <2>1. q \in air /\ time + 1 - q.born <= Lifetime
    <3>1. q \in air /\ current_update_time' - q.born <= Lifetime /\ current_update_time' = time + 1
      BY <1>1
    <3>2. q.born \in Nat
      BY <3>1, UnderWayIs
    <3> QED
      BY <3>1, <3>2, <1>2, <1>3
  <2>2. InTime(q) /\ Tracked(q) /\ CameFrom(q) /\ Numbered(q)
    BY <2>1 DEF TrackInv
  <2>3. /\ q \in Packets /\ q.stream \in AllStreams /\ q.stream.pair \in Pairs
        /\ q.born \in Nat /\ q.born <= time /\ \A i \in Ifaces : q.fate[i] \in Fates
    BY <2>1, UnderWayIs, PairOf
  <2>4. time - q.born <= AgeMax
    BY <2>1, <2>3, <1>2, <1>3
  <2>5. InTime(q)' /\ CameFrom(q)'
    BY <2>1, <2>2, <2>3, <1>1, <1>2 DEF InTime, CameFrom
  <2>6. q.stream.by = Node =>
           /\ q.stream.pair \in ToSet(seqMgr'.flow_list)
           /\ seqMgr'.update_time[q.stream.pair] = seqMgr.update_time[q.stream.pair]
    <3>1. ~Stale(q.born, time)
      BY <2>3, <2>4, <1>2, <1>3 DEF Stale
    <3> QED
      BY <3>1, <2>2, <2>3, <1>6 DEF Numbered
  <2>7. Numbered(q)'
    BY <2>2, <2>6 DEF Numbered
  <2>8. Tracked(q)'
    <3>1. CASE q.stream \notin Carried(config)
      BY <3>1, <2>2, <1>1 DEF Tracked
    <3>2. CASE q.stream \in Carried(config)
      <4>1. Newest(q.stream)' = Newest(q.stream)
        BY <2>3, <2>6, <1>5
      <4>2. /\ Turn(q.id, Newest(q.stream)) = sent[q.stream] - q.number
            /\ \A i \in Ifaces : Entered(trees[i], q.fate[i], q, Newest(q.stream))
        BY <3>2, <2>2 DEF Tracked
      <4>3. ASSUME NEW i \in Ifaces PROVE Entered(trees'[i], q.fate[i], q, Newest(q.stream))
        <5>1. PICK t : t = trees[i]
          OBVIOUS
        <5>2. PICK r : r = Prune(t, time)
          OBVIOUS
        <5>3. trees'[i] = r /\ TreeOK(t, time) /\ Entered(t, q.fate[i], q, Newest(q.stream))
          BY <5>1, <5>2, <4>2, <1>1, <1>2
        <5>4. Entered(r, q.fate[i], q, Newest(q.stream))
          BY <5>2, <5>3, <2>3, <2>4, <1>2, PruneStays
        <5> QED
          BY <5>3, <5>4
      <4> QED
        BY <4>1, <4>2, <4>3, <3>2, <1>1 DEF Tracked
    <3> QED
      BY <3>1, <3>2
  <2> QED
    BY <2>5, <2>7, <2>8
<1>12. \A s \in AllStreams : sent'[s] <= config'.quota[s]
  BY <1>1 DEF TrackInv
<1> QED
  BY <1>8, <1>9, <1>10, <1>11, <1>12 DEF TrackInv

LEMMA InitTracks ==
    ASSUME Orderly, Init PROVE TrackInv
<1>1. PICK inits \in BOOLEAN : trees = [i \in Ifaces |-> EmptyTree(Keys, inits)]
  BY DEF Init
<1>2. config \in Configs /\ air = {} /\ sent = [s \in AllStreams |-> 0]
  BY DEF Init
<1>3. ASSUME NEW s \in Carried(config), NEW i \in Ifaces PROVE ~IsSet(KeyWindow(i, s))
  <2>1. KeyOf(s) \in Keys
    BY <1>2, CarriedIs, KeysOf
  <2>2. KeyWindow(i, s) = Cleared
    BY <2>1, <1>1 DEF KeyWindow, EmptyTree
  <2>3. ~IsSet(Cleared)
    BY Sizes, FullIs DEF Indices
  <2> QED
    BY <2>2, <2>3
<1>4. WindowsBehind /\ WindowsNumbered
  BY <1>3 DEF WindowsBehind, WindowsNumbered, Within
<1>5. \A s \in AllStreams : sent[s] <= config.quota[s]
  BY <1>2, SmfAssumption
<1> QED
  BY <1>2, <1>4, <1>5, InitIInv DEF TrackInv, Once

LEMMA NextTracks ==
    ASSUME Orderly, TrackInv, [Next]_vars PROVE TrackInv'
<1>1. IInv'
  BY NextIInv DEF TrackInv
<1>2. ASSUME UNCHANGED <<config, trees, seqMgr, current_update_time, air, sent, first>>
      PROVE  TrackInv'
  <2>1. WindowsBehind' /\ WindowsNumbered' /\ Once'
    BY <1>2 DEF TrackInv, WindowsBehind, WindowsNumbered, Once, KeyWindow, Newest
  <2>2. \A t : Newest(t)' = Newest(t)
    BY <1>2 DEF Newest
  <2>3. ASSUME NEW q \in air PROVE (InTime(q) /\ Tracked(q) /\ CameFrom(q) /\ Numbered(q))'
    BY <2>2, <1>2 DEF TrackInv, InTime, Tracked, CameFrom, Numbered
  <2> QED
    BY <2>1, <2>3, <1>1, <1>2 DEF TrackInv
<1>3. ASSUME NEW p \in air, NEW src \in Ifaces, NEW mac, NEW ttl, ProcessPacket(p, src, mac, ttl)
      PROVE  TrackInv'
  <2>1. /\ src \in HeardOn(p)
        /\ UNCHANGED <<config, relay_enabled, current_update_time, first>>
    BY <1>3 DEF ProcessPacket, control
  <2>2. CASE ProcessAsIs(p, src, mac, ttl)
    BY <2>1, <2>2, <1>1, AsIsTracks
  <2>3. ASSUME NEW start \in Seeds, ProcessAndResequence(p, src, mac, ttl, start) PROVE TrackInv'
    BY <2>1, <2>3, <1>1, ResequencedTracks
  <2> QED
    BY <2>2, <2>3, <1>3 DEF ProcessPacket
<1>4. ASSUME NEW state \in BOOLEAN, SetRelayEnabled(state) \/ SetRelaySelected(state)
      PROVE  TrackInv'
  BY <1>2, <1>4 DEF SetRelayEnabled, SetRelaySelected, net
<1>5. ASSUME NEW macs \in SUBSET Macs, SetSelectorList(macs) \/ SetNeighborList(macs)
      PROVE  TrackInv'
  BY <1>2, <1>5 DEF SetSelectorList, SetNeighborList, net
<1>6. CASE UNCHANGED vars
  BY <1>2, <1>6 DEF vars, net
<1> QED
  BY <1>1, <1>3, <1>4, <1>5, <1>6, OnPruneTimeoutTracks, OriginateTracks DEF Next

\* While the networks and command lines are as Orderly says.
LEMMA Tracking == Orderly /\ Spec => [](Orderly /\ TrackInv)
<1>1. Orderly /\ Init => TrackInv
  BY InitTracks
<1>2. Orderly /\ TrackInv /\ [Next]_vars => TrackInv'
  BY NextTracks
<1>3. Orderly => []Orderly
  OBVIOUS
<1> QED
  BY <1>1, <1>2, <1>3, PTL DEF Spec

\* A packet goes through an interface at most once while it is under way, whatever
\* the copies, the relay algorithm and its switches do (IsDuplicate and Prune).
THEOREM ForwardsOnce == Orderly /\ Spec => []ForwardedOnce
<1>1. Orderly /\ TrackInv => ForwardedOnce
  <2> SUFFICES ASSUME Orderly, TrackInv, NEW p \in air, NEW i \in Ifaces PROVE p.fate[i] # "again"
    BY DEF ForwardedOnce
  <2>1. Tracked(p)
    BY DEF TrackInv
  <2>2. CASE p.stream \in Carried(config)
    BY <2>1, <2>2 DEF Tracked, Entered
  <2>3. CASE p.stream \notin Carried(config)
    BY <2>1, <2>3 DEF Tracked
  <2> QED
    BY <2>2, <2>3
<1> QED
  BY <1>1, Tracking, PTL

\* The first copy of a packet that is less than a window late is never taken for a
\* duplicate (WindowIsDuplicate, and what Set, UnsetAll and Prune leave of a window).
THEOREM ForwardsFresh == Orderly /\ Spec => []FreshIsForwarded
<1>1. Orderly /\ TrackInv => FreshIsForwarded
  <2> SUFFICES ASSUME Orderly, TrackInv, NEW p \in air, NEW i \in Ifaces, trees[i].inits
               PROVE  p.fate[i] # "missed"
    BY DEF FreshIsForwarded
  <2>1. Tracked(p)
    BY DEF TrackInv
  <2>2. CASE p.stream \in Carried(config)
    BY <2>1, <2>2 DEF Tracked, Entered
  <2>3. CASE p.stream \notin Carried(config)
    BY <2>1, <2>3 DEF Tracked
  <2> QED
    BY <2>2, <2>3
<1> QED
  BY <1>1, Tracking, PTL

\* A packet that was resequenced never goes back out of the interface where it was
\* heard (the copy that ProcessPacket marks in the tree of its source).
THEOREM SendsNoEcho == Orderly /\ Spec => []NoEcho
<1>1. Orderly /\ TrackInv => NoEcho
  <2> SUFFICES ASSUME Orderly, TrackInv, NEW p \in air, p.from # NoIface
               PROVE  p.fate[p.from] = "skipped"
    BY DEF NoEcho
  <2>1. CameFrom(p)
    BY DEF TrackInv
  <2> QED
    BY <2>1 DEF CameFrom
<1> QED
  BY <1>1, Tracking, PTL

-----------------------------------------------------------------------------
(* The abstract relay.                                                     *)

LEMMA NamedIs ==
    ASSUME NEW r \in Packets, NEW f \in [Ifaces -> Fates], NEW q, q = [r EXCEPT !.fate = f]
    PROVE  /\ Named(r).stream = r.stream /\ Named(r).number = r.number /\ Named(r).fate = r.fate
           /\ Named(q) = [Named(r) EXCEPT !.fate = f]
BY FateIs DEF Named

LEMMA AfterKeeps ==
    ASSUME NEW t, NEW time, NEW key, NEW seq, TreeOK(t, time)
    PROVE  After(t, time, key, seq).inits = t.inits
<1>1. t \in [inits : BOOLEAN, flow_list : Seq(Keys),
            window : [Keys -> Masks], update_time : [Keys -> Nat]]
  BY DEF TreeOK
<1> QED
  BY <1>1 DEF After

\* What becomes of a packet on each interface is what the relay that knows it does.
Becomes(r, D, f) ==
    \A i \in Ifaces :
        IF i \in D /\ r.fate[i] = "none"
        THEN IF trees[i].inits THEN f[i] = "skipped" \/ (f[i] = "sent" /\ relay_enabled)
             ELSE f[i] = "missed"
        ELSE f[i] = r.fate[i]

LEMMA HandledIs ==
    ASSUME NEW r \in Packets, NEW f \in [Ifaces -> Fates], NEW D \in SUBSET Ifaces, Becomes(r, D, f),
           NEW q, q = [r EXCEPT !.fate = f]
    PROVE  \E chosen \in SUBSET D :
              /\ chosen # {} => relay_enabled
              /\ Named(q) = Service!Handled(Named(r), D, chosen)
<1> DEFINE chosen == {i \in D : r.fate[i] = "none" /\ f[i] = "sent"}
           works == [i \in Ifaces |-> trees[i].inits]
           g == [i \in Ifaces |->
                   IF i \notin D \/ r.fate[i] # "none" THEN r.fate[i]
                   ELSE IF ~works[i] THEN "missed"
                   ELSE IF i \in chosen THEN "sent" ELSE "skipped"]
<1>1. chosen \in SUBSET D /\ (chosen # {} => relay_enabled)
  BY DEF Becomes
<1>2. ASSUME NEW i \in Ifaces PROVE f[i] = g[i]
  BY DEF Becomes
<1>3. f = g
  <2> HIDE DEF g
  <2>1. g = [i \in Ifaces |-> g[i]]
    BY DEF g
  <2> QED
    BY <1>2, <2>1
<1>4. Service!Handled(Named(r), D, chosen) = [Named(r) EXCEPT !.fate = g]
  BY DEF Service!Handled, Named
<1>5. Named(q) = [Named(r) EXCEPT !.fate = f]
  BY NamedIs
<1> HIDE DEF g, chosen
<1> QED
  BY <1>1, <1>3, <1>4, <1>5

\* The packet is handled as the abstract relay does.
RelayedOnce(r, newest) ==
    /\ \A i \in Ifaces : trees'[i].inits = trees[i].inits
    /\ \E q \in air', D \in SUBSET Ifaces : \E chosen \in SUBSET D :
          /\ air' = UnderWay((air \ {r}) \cup {q}, newest)
          /\ chosen # {} => relay_enabled
          /\ Named(q) = Service!Handled(Named(r), D, chosen)

\* The loop over the associates, when no copy is taken for new again and no first
\* copy for a duplicate.
LEMMA RelayedImplements ==
    ASSUME IInv, NEW r \in Packets, NEW src \in Ifaces, NEW mac, NEW ttl,
           NEW T, TreesOK(T), \A i \in Ifaces : T[i].inits = trees[i].inits,
           NEW newest, Relayed(r, src, mac, ttl, T, newest),
           newest[r.stream] - r.number <= Spread, ~(newest[r.stream] - r.number >= NumBits),
           \A q \in air', i \in Ifaces : q.stream = r.stream /\ q.number = r.number =>
               q.fate[i] # "again" /\ (q.fate[i] = "missed" => ~trees'[i].inits)
    PROVE  RelayedOnce(r, newest)
<1> DEFINE D == Asked(src, mac)
           time == current_update_time
           key == KeyOf(r.stream)
<1>1. /\ trees' = [i \in Ifaces |-> IF i \in D THEN After(T[i], time, key, r.id) ELSE T[i]]
      /\ \E f \in [Ifaces -> Fates] :
            /\ air' = UnderWay((air \ {r}) \cup {[r EXCEPT !.fate = f]}, newest)
            /\ \A i \in Ifaces : IF i \in D
                                 THEN Decided(r, T[i], newest[r.stream] - r.number, r.fate[i], f[i])
                                 ELSE f[i] = r.fate[i]
  <2>1. r \in Packets /\ Relayed(r, src, mac, ttl, T, newest)
    OBVIOUS
  <2> QED
    BY ONLY <2>1, RelayedIs
<1>2. PICK f \in [Ifaces -> Fates] :
         /\ air' = UnderWay((air \ {r}) \cup {[r EXCEPT !.fate = f]}, newest)
         /\ \A i \in Ifaces : IF i \in D
                              THEN Decided(r, T[i], newest[r.stream] - r.number, r.fate[i], f[i])
                              ELSE f[i] = r.fate[i]
  BY <1>1
<1>3. PICK q : q = [r EXCEPT !.fate = f]
  OBVIOUS
<1>4. q \in Packets /\ q.stream = r.stream /\ q.number = r.number /\ q.fate = f
  BY <1>3, FateIs
<1>5. q \in air'
  BY <1>2, <1>3, <1>4 DEF UnderWay
<1>6. D \in SUBSET Ifaces
  BY SmfAssumption DEF D, Asked, IInv
<1>7. key \in Keys /\ r.id \in Indices /\ time \in Nat /\ \A i \in Ifaces : TreeOK(T[i], time)
  BY KeysOf DEF Packets, IInv, TreesOK
<1> HIDE DEF D, time
<1>8. ASSUME NEW i \in Ifaces PROVE trees'[i].inits = trees[i].inits
  <2>1. After(T[i], time, key, r.id).inits = T[i].inits
    BY <1>7, AfterKeeps
  <2> QED
    BY <2>1, <1>1
<1>9. Becomes(r, D, f)
  <2>1. ASSUME NEW i \in Ifaces, i \in D
        PROVE  IF r.fate[i] = "none"
               THEN IF trees[i].inits THEN f[i] = "skipped" \/ (f[i] = "sent" /\ relay_enabled)
                    ELSE f[i] = "missed"
               ELSE f[i] = r.fate[i]
    <3>1. Decided(r, T[i], newest[r.stream] - r.number, r.fate[i], f[i])
      BY <1>2, <2>1
    <3>2. f[i] # "again" /\ (f[i] = "missed" => ~trees[i].inits)
      BY <1>4, <1>5, <1>8
    <3>3. ~trees[i].inits => IsDuplicate(T[i], key, r.id)
      <4>1. ~trees[i].inits => T[i].flow_list = <<>> /\ ~T[i].inits
        BY <1>7 DEF TreeOK
      <4> QED
        BY <4>1, EmptyListOK DEF IsDuplicate
    <3> QED
      BY <3>1, <3>2, <3>3 DEF Decided
  <2> QED
    BY <2>1, <1>2 DEF Becomes
<1>10. PICK chosen \in SUBSET D :
          /\ chosen # {} => relay_enabled
          /\ Named(q) = Service!Handled(Named(r), D, chosen)
  <2>1. r \in Packets /\ f \in [Ifaces -> Fates]
    BY <1>2
  <2> QED
    BY ONLY <2>1, <1>3, <1>6, <1>9, HandledIs
<1> QED
  BY <1>2, <1>3, <1>5, <1>6, <1>8, <1>10 DEF RelayedOnce

\* What TrackInv says of the packets under way after a step.
LEMMA FatesAfter ==
    ASSUME TrackInv'
    PROVE  \A q \in air', i \in Ifaces :
              q.fate[i] # "again" /\ (q.fate[i] = "missed" => ~trees'[i].inits)
<1> SUFFICES ASSUME NEW q \in air', NEW i \in Ifaces
             PROVE  q.fate[i] # "again" /\ (q.fate[i] = "missed" => ~trees'[i].inits)
  OBVIOUS
<1>1. Tracked(q)'
  BY DEF TrackInv
<1> QED
  BY <1>1 DEF Tracked, Entered

LEMMA NoneLate == Orderly => NumBits \in Nat /\ Spread \in Nat /\ Spread < NumBits
BY Sizes, SmfAssumption DEF Orderly

\* A copy of a packet that is not resequenced.
LEMMA AsIsImplements ==
    ASSUME Orderly, TrackInv, TrackInv', NEW p \in air, NEW src \in Ifaces, NEW mac, NEW ttl,
           src \in HeardOn(p), ProcessAsIs(p, src, mac, ttl), relay_enabled' = relay_enabled
    PROVE  Service!Repeat(Named(p))
<1>1. Relayed(p, src, mac, ttl, trees, sent) /\ sent' = sent
  BY HeardAsIs DEF ProcessAsIs, MarkedAtSource
<1>2. \A q \in air : InTime(q) /\ q \in Packets /\ sent[q.stream] - q.number <= Spread
  BY UnderWayIs DEF TrackInv, InTime
<1>3. ~(sent[p.stream] - p.number >= NumBits)
  BY UnderWayIs, NoneLate
<1>4. TreesOK(trees) /\ IInv
  BY DEF TrackInv, IInv, TreesOK
<1>5. RelayedOnce(p, sent)
  <2>1. PICK newest : newest = sent
    OBVIOUS
  <2>2. PICK T : T = trees
    OBVIOUS
  <2>3. /\ p \in Packets /\ Relayed(p, src, mac, ttl, T, newest) /\ TreesOK(T) /\ IInv
        /\ newest[p.stream] - p.number <= Spread /\ ~(newest[p.stream] - p.number >= NumBits)
        /\ \A i \in Ifaces : T[i].inits = trees[i].inits
    BY <2>1, <2>2, <1>1, <1>2, <1>3, <1>4
  <2>4. \A q \in air', i \in Ifaces : q.fate[i] # "again" /\ (q.fate[i] = "missed" => ~trees'[i].inits)
    BY FatesAfter
  <2>5. RelayedOnce(p, newest)
    BY ONLY <2>3, <2>4, src \in Ifaces, RelayedImplements
  <2> QED
    BY <2>1, <2>5
<1>6. PICK q \in air', D \in SUBSET Ifaces : \E chosen \in SUBSET D :
         /\ air' = UnderWay((air \ {p}) \cup {q}, sent)
         /\ chosen # {} => relay_enabled
         /\ Named(q) = Service!Handled(Named(p), D, chosen)
  BY <1>5 DEF RelayedOnce
<1>7. PICK chosen \in SUBSET D :
         /\ air' = UnderWay((air \ {p}) \cup {q}, sent)
         /\ chosen # {} => relay_enabled
         /\ Named(q) = Service!Handled(Named(p), D, chosen)
  BY <1>6
<1>8. air' = (air \ {p}) \cup {q}
  BY <1>2, <1>7 DEF UnderWay
<1>9. \A x \in air : Named(x) = Named(p) => x = p
  BY DEF TrackInv, Once, Named
<1>10. {Named(x) : x \in air'} = ({Named(x) : x \in air} \ {Named(p)}) \cup {Named(q)}
  BY <1>8, <1>9
<1>11. UNCHANGED [i \in Ifaces |-> trees[i].inits]
  BY <1>5 DEF RelayedOnce
<1> QED
  BY <1>1, <1>7, <1>10, <1>11 DEF Service!Repeat

\* A packet that is new, and those that remain under way with it.
LEMMA BeginIs ==
    ASSUME NEW s \in AllStreams, NEW from, sent' = [sent EXCEPT ![s] = @ + 1],
           relay_enabled' = relay_enabled, \A i \in Ifaces : trees'[i].inits = trees[i].inits,
           NEW r, Named(r) = Service!Packet(s, sent'[s], from),
           NEW q \in air', NEW D \in SUBSET Ifaces, NEW chosen \in SUBSET D,
           chosen # {} => relay_enabled, Named(q) = Service!Handled(Named(r), D, chosen),
           air' \subseteq air \cup {q}
    PROVE  Service!Begin(s, from)
<1>1. UNCHANGED [i \in Ifaces |-> trees[i].inits]
  OBVIOUS
<1>2. /\ Named(q) \in {Named(x) : x \in air'}
      /\ {Named(x) : x \in air'} \subseteq {Named(x) : x \in air} \cup {Named(q)}
  OBVIOUS
<1> QED
  BY <1>1, <1>2 DEF Service!Begin

\* A packet that is resequenced begins again.
LEMMA ResequencedImplements ==
    ASSUME Orderly, TrackInv, TrackInv', NEW p \in air, NEW src \in Ifaces, NEW mac, NEW ttl,
           NEW start \in Seeds, src \in HeardOn(p), ProcessAndResequence(p, src, mac, ttl, start),
           relay_enabled' = relay_enabled
    PROVE  Service!Begin(Resequenced(p.stream.pair), src)
<1>1. PICK s : s = Resequenced(p.stream.pair)
  OBVIOUS
<1>2. PICK id : id = NextSequence(seqMgr, s.pair, start)
  OBVIOUS
<1>3. PICK r : r = Packet(s, sent[s] + 1, id, src)
  OBVIOUS
<1>4. s \in AllStreams /\ s.pair = p.stream.pair /\ s.pair \in Pairs
  <2>1. p.stream \in AllStreams
    BY UnderWayIs
  <2>2. s.pair = p.stream.pair
    BY <1>1 DEF Resequenced
  <2> QED
    BY <2>1, <2>2, <1>1, PairOf
<1>5. /\ sent' = [sent EXCEPT ![s] = @ + 1] /\ start \in Indices
      /\ Relayed(r, src, mac, ttl, MarkedAtSource(r, src), sent')
  <2>1. r = Packet(s, sent[s] + 1, NextSequence(seqMgr, p.stream.pair, start), src)
    BY <1>2, <1>3, <1>4
  <2> QED
    BY <2>1, <1>1, SmfAssumption DEF ProcessAndResequence
<1>6. /\ sent \in [AllStreams -> Nat] /\ sent[s] \in Nat /\ sent'[s] = sent[s] + 1
      /\ current_update_time \in Nat /\ IInv
  BY <1>4, <1>5 DEF TrackInv, IInv
<1>7. id \in Indices
  BY <1>2, <1>4, <1>5 DEF TrackInv, IInv, MgrOK, NextSequence
<1>8. /\ r \in Packets /\ r.stream = s /\ r.number = sent'[s]
      /\ \A i \in Ifaces : r.fate[i] = IF i = src THEN "skipped" ELSE "none"
  <2>1. PICK n : n = sent[s] + 1
    OBVIOUS
  <2>2. /\ n \in Nat /\ src \in Ifaces \cup {NoIface} /\ r = Packet(s, n, id, src)
        /\ s \in AllStreams /\ id \in Indices /\ current_update_time \in Nat
    BY <2>1, <1>3, <1>4, <1>6, <1>7
  <2>3. /\ r \in Packets /\ r.stream = s /\ r.number = n
        /\ \A i \in Ifaces : r.fate[i] = IF i = src THEN "skipped" ELSE "none"
    BY ONLY <2>2, PacketIs
  <2> QED
    BY <2>1, <2>3, <1>6
<1>9. PICK T : T = MarkedAtSource(r, src)
  OBVIOUS
<1>10. TreesOK(T) /\ \A i \in Ifaces : T[i].inits = trees[i].inits
  <2>1. TreesOK(T)
    BY <1>6, <1>8, <1>9, MarkedOK
  <2>2. \A i \in Ifaces : TreeOK(trees[i], current_update_time)
    BY <1>6 DEF IInv
  <2>3. \A i \in Ifaces :
           After(trees[i], current_update_time, FlowKey(r.stream), r.id).inits = trees[i].inits
    BY <2>2, AfterKeeps
  <2> QED
    BY <2>1, <2>3, <1>6, <1>9 DEF MarkedAtSource, IInv
<1>11. PICK newest : newest = sent'
  OBVIOUS
<1>12. newest[r.stream] - r.number <= Spread /\ ~(newest[r.stream] - r.number >= NumBits)
  <2>1. newest[r.stream] - r.number = 0
    BY <1>6, <1>8, <1>11
  <2> QED
    BY <2>1, NoneLate
<1>13. Relayed(r, src, mac, ttl, T, newest)
  BY <1>5, <1>9, <1>11
<1>14. RelayedOnce(r, newest)
  <2>1. \A q \in air', i \in Ifaces : q.fate[i] # "again" /\ (q.fate[i] = "missed" => ~trees'[i].inits)
    BY FatesAfter
  <2>2. IInv /\ r \in Packets /\ src \in Ifaces
    BY <1>6, <1>8
  <2> QED
    BY ONLY <2>1, <2>2, <1>10, <1>12, <1>13, RelayedImplements
<1>15. PICK q \in air', D \in SUBSET Ifaces : \E chosen \in SUBSET D :
          /\ air' = UnderWay((air \ {r}) \cup {q}, newest)
          /\ chosen # {} => relay_enabled
          /\ Named(q) = Service!Handled(Named(r), D, chosen)
  BY <1>14 DEF RelayedOnce
<1>16. PICK chosen \in SUBSET D :
          /\ air' = UnderWay((air \ {r}) \cup {q}, newest)
          /\ chosen # {} => relay_enabled
          /\ Named(q) = Service!Handled(Named(r), D, chosen)
  BY <1>15
<1>17. air' \subseteq air \cup {q}
  BY <1>16 DEF UnderWay
<1>18. Named(r) = Service!Packet(s, sent'[s], src)
  <2>1. r.fate = [i \in Ifaces |-> IF i = src THEN "skipped" ELSE "none"]
    BY <1>8 DEF Packets
  <2> QED
    BY <2>1, <1>8 DEF Named, Service!Packet
<1>19. Service!Begin(s, src)
  BY <1>4, <1>5, <1>14, <1>16, <1>17, <1>18, BeginIs DEF RelayedOnce
<1> QED
  BY <1>1, <1>19

\* A source's next packet begins, and nothing is done about it yet.
LEMMA OriginateImplements ==
    ASSUME Orderly, TrackInv, NEW s \in Streams, Originate(s)
    PROVE  Service!Begin(s, NoIface)
<1> DEFINE p == Packet(s, sent'[s], (first[s] + sent[s]) % RangeSize, NoIface)
<1>1. /\ s \in AllStreams /\ sent[s] \in Nat /\ sent' = [sent EXCEPT ![s] = sent[s] + 1]
      /\ sent'[s] \in Nat
      /\ p \in Packets /\ p.stream = s /\ p.number = sent[s] + 1
      /\ \A i \in Ifaces : p.fate[i] = "none"
      /\ air' = UnderWay(air \cup {p}, sent')
  BY OriginateIs DEF TrackInv
<1>2. relay_enabled' = relay_enabled /\ \A i \in Ifaces : trees'[i].inits = trees[i].inits
  BY DEF Originate, control
<1> HIDE DEF p
<1>3. sent'[s] = p.number
  BY <1>1 DEF TrackInv, IInv
<1>4. p \in air' /\ air' \subseteq air \cup {p}
  BY <1>1, <1>3, NoneLate DEF UnderWay
<1>5. Named(p) = Service!Packet(s, sent'[s], NoIface)
  <2>1. p.fate = [i \in Ifaces |-> IF i = NoIface THEN "skipped" ELSE "none"]
    BY <1>1, SmfAssumption DEF Packets
  <2> QED
    BY <2>1, <1>1, <1>3 DEF Named, Service!Packet
<1>6. Named(p) = Service!Handled(Named(p), {}, {})
  BY <1>1 DEF Service!Handled, Named, Packets
<1>7. PICK D, chosen : D = {} /\ chosen = {}
  OBVIOUS
<1>8. /\ D \in SUBSET Ifaces /\ chosen \in SUBSET D /\ (chosen # {} => relay_enabled)
      /\ Named(p) = Service!Handled(Named(p), D, chosen)
      /\ sent' = [sent EXCEPT ![s] = @ + 1]
  BY <1>1, <1>6, <1>7
<1> QED
  BY <1>1, <1>2, <1>4, <1>5, <1>8, BeginIs

LEMMA OnPruneTimeoutImplements ==
    ASSUME TrackInv, OnPruneTimeout
    PROVE  Service!End
<1>1. \A i \in Ifaces : TreeOK(trees[i], current_update_time)
  BY DEF TrackInv, IInv
<1>2. ASSUME NEW i \in Ifaces PROVE trees'[i].inits = trees[i].inits
  <2>1. trees[i] \in [inits : BOOLEAN, flow_list : Seq(Keys),
                      window : [Keys -> Masks], update_time : [Keys -> Nat]]
    BY <1>1 DEF TreeOK
  <2>2. Prune(trees[i], current_update_time).inits = trees[i].inits
    BY <2>1 DEF Prune
  <2> QED
    BY <2>2 DEF OnPruneTimeout
<1>3. UNCHANGED [i \in Ifaces |-> trees[i].inits]
  BY <1>2
<1>4. air' \subseteq air /\ relay_enabled' = relay_enabled /\ sent' = sent
  BY DEF OnPruneTimeout, control
<1>5. {Named(x) : x \in air'} \in SUBSET {Named(x) : x \in air}
  BY <1>4
<1> QED
  BY <1>3, <1>4, <1>5 DEF Service!End

LEMMA NextImplements ==
    Orderly /\ TrackInv /\ [Next]_vars => [Service!Next]_(Service!vars)
<1> SUFFICES ASSUME Orderly, TrackInv, [Next]_vars PROVE Service!Next \/ UNCHANGED Service!vars
  OBVIOUS
<1>1. TrackInv'
  BY NextTracks
<1>2. ASSUME UNCHANGED <<relay_enabled, trees, air, sent>> PROVE UNCHANGED Service!vars
  BY <1>2 DEF Service!vars
<1>3. ASSUME NEW p \in air, NEW src \in Ifaces, NEW mac, NEW ttl, ProcessPacket(p, src, mac, ttl)
      PROVE  Service!Next
  <2>1. src \in HeardOn(p) /\ relay_enabled' = relay_enabled
    BY <1>3 DEF ProcessPacket, control
  <2>2. CASE ProcessAsIs(p, src, mac, ttl)
    <3>1. Service!Repeat(Named(p))
      BY <2>1, <2>2, <1>1, AsIsImplements
    <3> QED
      BY <3>1 DEF Service!Next
  <2>3. ASSUME NEW start \in Seeds, ProcessAndResequence(p, src, mac, ttl, start) PROVE Service!Next
    <3>1. Service!Begin(Resequenced(p.stream.pair), src)
      BY <2>1, <2>3, <1>1, ResequencedImplements
    <3>2. Resequenced(p.stream.pair) \in AllStreams
      BY UnderWayIs, PairOf
    <3> QED
      BY <3>1, <3>2 DEF Service!Next
  <2> QED
    BY <2>2, <2>3, <1>3 DEF ProcessPacket
<1>4. CASE OnPruneTimeout
  BY <1>4, OnPruneTimeoutImplements DEF Service!Next
<1>5. ASSUME NEW state \in BOOLEAN, SetRelayEnabled(state) PROVE Service!Next
  BY <1>5 DEF SetRelayEnabled, net, Service!Next, Service!Switch
<1>6. ASSUME NEW state \in BOOLEAN, SetRelaySelected(state) PROVE UNCHANGED Service!vars
  BY <1>2, <1>6 DEF SetRelaySelected, net
<1>7. ASSUME NEW macs \in SUBSET Macs, SetSelectorList(macs) \/ SetNeighborList(macs)
      PROVE  UNCHANGED Service!vars
  BY <1>2, <1>7 DEF SetSelectorList, SetNeighborList, net
<1>8. ASSUME NEW s \in Streams, Originate(s) PROVE Service!Next
  <2>1. Service!Begin(s, NoIface) /\ s \in AllStreams
    BY <1>8, OriginateImplements DEF AllStreams
  <2> QED
    BY <2>1 DEF Service!Next
<1>9. CASE UNCHANGED vars
  BY <1>2, <1>9 DEF vars, net, control
<1> QED
  BY <1>3, <1>4, <1>5, <1>6, <1>7, <1>8, <1>9 DEF Next

LEMMA InitImplements == Init => Service!Init
<1> SUFFICES ASSUME Init PROVE Service!Init
  OBVIOUS
<1>1. PICK inits \in BOOLEAN : trees = [i \in Ifaces |-> EmptyTree(Keys, inits)]
  BY DEF Init
<1>2. [i \in Ifaces |-> trees[i].inits] \in [Ifaces -> BOOLEAN]
  BY <1>1 DEF EmptyTree
<1>3. {Named(p) : p \in air} = {}
  BY DEF Init
<1> QED
  BY <1>2, <1>3 DEF Init, Service!Init

\* A node's windows, lists and prunes do what a relay does that remembers every packet
\* under way (SmfSlidingWindow, SmfDuplicateTree and ProcessPacket together): copies
\* are sent or kept back, once for each interface, by what became of that packet.
THEOREM Refinement == Orderly /\ Spec => ImplementsPacketRelay
<1>1. Init => Service!Init
  BY InitImplements
<1>2. Orderly /\ TrackInv /\ [Next]_vars => [Service!Next]_(Service!vars)
  BY NextImplements
<1> QED
  BY <1>1, <1>2, Tracking, PTL DEF Spec, ImplementsPacketRelay, Service!Spec
=============================================================================

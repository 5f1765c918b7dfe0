-------------------------- MODULE SlidingMask_proofs --------------------------
(***************************************************************************)
(* What the operations of a sliding mask do to the set of indices that it  *)
(* holds, for every size of the mask and of the circular range.            *)
(***************************************************************************)
EXTENDS SlidingMask, WellFoundedInduction, TLAPS

-----------------------------------------------------------------------------
(* Smallest and largest elements.                                          *)

\* A nonempty set of natural numbers has a least element.
LEMMA LeastNatural ==
    ASSUME NEW T \in SUBSET Nat, T # {}
    PROVE  Min(T) \in T /\ \A t \in T : Min(T) <= t
<1> DEFINE R == OpToRel(<, Nat)
<1>1. IsWellFoundedOn(R, Nat)
  BY NatLessThanWellFounded
<1>2. \E x \in T : \A y \in T : <<y, x>> \notin R
  BY <1>1, WFMin
<1>3. \A x, y \in Nat : <<y, x>> \notin R => x <= y
  BY DEF OpToRel
<1>4. \E x \in T : \A y \in T : x <= y
  BY <1>2, <1>3
<1> QED
  BY <1>4 DEF Min

\* A bounded set of natural numbers has a largest element.
LEMMA GreatestNatural ==
    ASSUME NEW n \in Nat, NEW T \in SUBSET (0..n), T # {}
    PROVE  Max(T) \in T /\ \A t \in T : t <= Max(T)
<1> DEFINE U == {k \in 0..n : n - k \in T}
<1>1. PICK t \in T : TRUE
  OBVIOUS
<1>2. n - t \in U
  BY <1>1
<1>3. U \in SUBSET Nat /\ U # {}
  BY <1>2
<1> DEFINE k == Min(U)
<1>4. k \in U /\ \A j \in U : k <= j
  BY <1>3, LeastNatural
<1> HIDE DEF k
<1>5. n - k \in T /\ k \in 0..n
  BY <1>4
<1>6. ASSUME NEW y \in T PROVE n - k >= y
  <2>1. n - y \in U
    OBVIOUS
  <2>2. k <= n - y /\ y \in 0..n
    BY <2>1, <1>4
  <2> QED
    BY <2>2, <1>5
<1>7. \E x \in T : \A y \in T : x >= y
  BY <1>5, <1>6
<1>8. Max(T) \in T /\ \A y \in T : Max(T) >= y
  BY <1>7 DEF Max
<1>9. \A y \in T : y \in Int
  OBVIOUS
<1> QED
  BY <1>8, <1>9

-----------------------------------------------------------------------------
(* The circle of indices and the ring of places.                           *)

\* How far it is from index a forward to index b.
Turn(a, b) == IF b >= a THEN b - a ELSE b - a + RangeSize

LEMMA Sizes ==
    /\ RangeSign \in Nat /\ RangeSize = RangeSign + RangeSign
    /\ NumBits \in Nat /\ 1 <= NumBits /\ NumBits <= RangeSign
<1>1. RangeSize \in Nat /\ RangeSize % 2 = 0 /\ NumBits \in 1..(RangeSize \div 2)
  BY MaskAssumption
<1>2. RangeSize \div 2 \in Nat /\ 2 * (RangeSize \div 2) = RangeSize
  BY <1>1, Z3
<1> QED
  BY <1>1, <1>2 DEF RangeSign

\* x % n by cases, where x lies less than n beyond either end.
LEMMA Wrapped ==
    ASSUME NEW n \in Nat, n > 0, NEW x \in Int
    PROVE  /\ 0 <= x /\ x < n => x % n = x
           /\ n <= x /\ x < n + n => x % n = x - n
           /\ -n <= x /\ x < 0 => x % n = x + n
OBVIOUS

LEMMA DifferenceIs ==
    ASSUME NEW a \in Indices, NEW b \in Indices
    PROVE  Difference(a, b) = IF Turn(b, a) < RangeSign \/ (Turn(b, a) = RangeSign /\ a > b)
                              THEN Turn(b, a) ELSE Turn(b, a) - RangeSize
<1>1. (a - b) % RangeSize = Turn(b, a)
  BY Sizes, Wrapped DEF Turn, Indices
<1> QED
  BY <1>1 DEF Difference

-----------------------------------------------------------------------------
(* A mask in its distances: HasBit(m, d) if the bit of the index d after    *)
(* the first one is set.                                                   *)

Masks == [bits : SUBSET Places, start : 0..NumBits, end : 0..NumBits, offset : Indices]

HasBit(m, d) == d \in Places /\ PlaceAt(m, d) \in m.bits

\* The distance of the place named by end.
Width(m) == IF m.end < m.start THEN m.end - m.start + NumBits ELSE m.end - m.start

\* No bit is set outside the span, and those at its ends are.
Sound(m) ==
    /\ m \in Masks
    /\ IF IsSet(m)
       THEN /\ m.end < NumBits
            /\ HasBit(m, 0) /\ HasBit(m, Width(m))
            /\ \A d \in Places : HasBit(m, d) => d <= Width(m)
       ELSE m.end = NumBits /\ m.bits = {}

Holds(m, index) == IsSet(m) /\ HasBit(m, Turn(m.offset, index))

\* Distances and places correspond.
LEMMA Ring1 ==
    ASSUME NEW m \in Masks, m.start < NumBits, m.end < NumBits
    PROVE  /\ Width(m) \in Places
           /\ PlaceAt(m, 0) = m.start /\ PlaceAt(m, Width(m)) = m.end
           /\ \A d \in Places : /\ PlaceAt(m, d) \in Places
                                /\ InSpan(m, PlaceAt(m, d)) <=> d <= Width(m)
                                /\ (PlaceAt(m, d) - m.start) % NumBits = d
           /\ \A c, d \in Places : PlaceAt(m, c) = PlaceAt(m, d) => c = d
           /\ \A p \in Places : \E d \in Places : p = PlaceAt(m, d) /\ (p - m.start) % NumBits = d
<1>1. m.start \in Places /\ m.end \in Places
  BY Sizes DEF Masks, Places
<1>2. Width(m) \in Places /\ PlaceAt(m, 0) = m.start /\ PlaceAt(m, Width(m)) = m.end
  BY <1>1, Sizes DEF Width, PlaceAt, Places
<1>3. ASSUME NEW d \in Places
      PROVE  /\ PlaceAt(m, d) \in Places
             /\ InSpan(m, PlaceAt(m, d)) <=> d <= Width(m)
             /\ (PlaceAt(m, d) - m.start) % NumBits = d
  <2>1. PlaceAt(m, d) \in Places /\ (InSpan(m, PlaceAt(m, d)) <=> d <= Width(m))
    BY <1>1, Sizes DEF Width, PlaceAt, Places, InSpan
  <2>2. PlaceAt(m, d) - m.start = d \/ PlaceAt(m, d) - m.start = d - NumBits
    BY <1>1, Sizes DEF PlaceAt, Places
  <2> QED
    BY <2>1, <2>2, Sizes, Wrapped DEF Places
<1>4. ASSUME NEW p \in Places
      PROVE  \E d \in Places : p = PlaceAt(m, d) /\ (p - m.start) % NumBits = d
  <2> DEFINE d == IF p >= m.start THEN p - m.start ELSE p - m.start + NumBits
  <2>1. d \in Places /\ p = PlaceAt(m, d)
    BY <1>1, Sizes DEF PlaceAt, Places
  <2> QED
    BY <2>1, <1>3
<1>5. \A c, d \in Places : PlaceAt(m, c) = PlaceAt(m, d) => c = d
  BY <1>1, Sizes DEF PlaceAt, Places
<1> QED
  BY <1>2, <1>3, <1>4, <1>5

LEMMA TurnRange ==
    ASSUME NEW a \in Indices, NEW b \in Indices
    PROVE  /\ Turn(a, b) \in Indices
           /\ a = b <=> Turn(a, b) = 0
           /\ NumBits \in Nat /\ Places \subseteq Indices
BY Sizes DEF Turn, Indices, Places

\* A Difference that is a distance in the mask is the turn.
LEMMA NearDifference ==
    ASSUME NEW a \in Indices, NEW b \in Indices
    PROVE  /\ Difference(a, b) \in Int
           /\ \A d \in Places : Difference(a, b) = d <=> Turn(b, a) = d
           /\ 0 <= Difference(a, b) /\ Difference(a, b) < NumBits <=> Turn(b, a) \in Places
BY DifferenceIs, Sizes DEF Turn, Indices, Places

LEMMA TestIs ==
    ASSUME NEW m, Sound(m), NEW index \in Indices
    PROVE  Test(m, index) <=> Holds(m, index)
<1> DEFINE d == Difference(index, m.offset)
           t == Turn(m.offset, index)
<1>1. m.offset \in Indices /\ m \in Masks
  BY DEF Sound, Masks
<1>2. d \in Int /\ (\A e \in Places : d = e <=> t = e) /\ (0 <= d /\ d < NumBits <=> t \in Places)
  BY <1>1, NearDifference
<1>3. CASE ~IsSet(m)
  BY <1>3 DEF Test, Holds
<1>4. CASE IsSet(m) /\ t \notin Places
  BY <1>2, <1>4 DEF Test, Holds, HasBit
<1>5. CASE IsSet(m) /\ t \in Places
  <2>1. d = t
    BY <1>2, <1>5
  <2>2. HasBit(m, t) => t <= Width(m)
    BY <1>5 DEF Sound
  <2>3. InSpan(m, PlaceAt(m, t)) <=> t <= Width(m)
    BY <1>1, <1>5, Ring1 DEF Sound, IsSet
  <2>4. 0 <= d /\ d < NumBits
    BY <1>2, <1>5
  <2> HIDE DEF d, t
  <2>5. Test(m, index) <=> InSpan(m, PlaceAt(m, d)) /\ PlaceAt(m, d) \in m.bits
    BY <1>5, <2>4 DEF Test, d
  <2>6. Holds(m, index) <=> PlaceAt(m, t) \in m.bits
    BY <1>5 DEF Holds, HasBit, t
  <2> QED
    BY <1>5, <2>1, <2>2, <2>3, <2>5, <2>6 DEF HasBit
<1> QED
  BY <1>3, <1>4, <1>5

\* Steps on the circle.
LEMMA StepIs ==
    ASSUME NEW a \in Indices, NEW d \in Indices
    PROVE  /\ (a + d) % RangeSize \in Indices
           /\ (a + d) % RangeSize = IF a + d < RangeSize THEN a + d ELSE a + d - RangeSize
           /\ Turn(a, (a + d) % RangeSize) = d
<1>1. (a + d) % RangeSize = IF a + d < RangeSize THEN a + d ELSE a + d - RangeSize
  BY Sizes, Wrapped DEF Indices
<1> QED
  BY <1>1, Sizes DEF Turn, Indices

LEMMA StepTo ==
    ASSUME NEW a \in Indices, NEW b \in Indices
    PROVE  (a + Turn(a, b)) % RangeSize = b
<1>1. Turn(a, b) \in Indices
  BY TurnRange
<1> QED
  BY <1>1, StepIs, Sizes DEF Turn, Indices

\* A Difference that goes back by less than the size of the mask.
LEMMA BackDifference ==
    ASSUME NEW a \in Indices, NEW b \in Indices
    PROVE  /\ -NumBits < Difference(a, b) /\ Difference(a, b) < 0 =>
                /\ -Difference(a, b) = Turn(a, b) /\ Turn(a, b) \in Places
                /\ Turn(b, a) \notin Places /\ Turn(a, b) # 0
           /\ Turn(a, b) \in Places /\ Turn(a, b) # 0 => Difference(a, b) = -Turn(a, b)
BY DifferenceIs, Sizes DEF Turn, Indices, Places

LEMMA LastIs ==
    ASSUME NEW m, Sound(m), IsSet(m)
    PROVE  /\ GetLastSet(m) \in Indices
           /\ Turn(m.offset, GetLastSet(m)) = Width(m)
           /\ Width(m) \in Places
           /\ m.offset \in Indices
<1>1. m \in Masks /\ m.start < NumBits /\ m.end < NumBits
  BY DEF Sound, IsSet
<1>2. Width(m) \in Places /\ Width(m) \in Indices /\ m.offset \in Indices
  BY <1>1, Ring1, TurnRange DEF Masks
<1>3. GetLastSet(m) = (m.offset + Width(m)) % RangeSize
  <2>1. (IF m.end < m.start THEN NumBits - (m.start - m.end) ELSE m.end - m.start) = Width(m)
    BY <1>1, Sizes DEF Width, Masks
  <2> QED
    BY <2>1 DEF GetLastSet
<1> QED
  BY <1>2, <1>3, StepIs

\* r names its places from one that is k before the first of m.
Behind(r, m, k) ==
    /\ r.start < NumBits /\ m.start < NumBits
    /\ m.start = PlaceAt(r, k) /\ m.offset = (r.offset + k) % RangeSize

LEMMA BehindIs ==
    ASSUME NEW m \in Masks, NEW r \in Masks, NEW k \in Places, Behind(r, m, k)
    PROVE  /\ \A d \in Places : PlaceAt(m, d) = PlaceAt(r, IF d + k < NumBits THEN d + k ELSE d + k - NumBits)
           /\ \A i \in Indices : Turn(r.offset, i) = IF Turn(m.offset, i) + k < RangeSize
                                                    THEN Turn(m.offset, i) + k
                                                    ELSE Turn(m.offset, i) + k - RangeSize
<1>1. m.start \in Places /\ r.start \in Places /\ m.offset \in Indices /\ r.offset \in Indices
  BY Sizes DEF Masks, Places, Behind
<1>2. m.start = PlaceAt(r, k) /\ m.offset = (r.offset + k) % RangeSize
  BY DEF Behind
<1>3. \A d \in Places : PlaceAt(m, d) = PlaceAt(r, IF d + k < NumBits THEN d + k ELSE d + k - NumBits)
  BY <1>1, <1>2, Sizes DEF PlaceAt, Places
<1>4. k \in Indices
  BY TurnRange, <1>1
<1>5. m.offset = IF r.offset + k < RangeSize THEN r.offset + k ELSE r.offset + k - RangeSize
  BY <1>1, <1>2, <1>4, StepIs
<1>6. \A i \in Indices : Turn(r.offset, i) = IF Turn(m.offset, i) + k < RangeSize
                                             THEN Turn(m.offset, i) + k
                                             ELSE Turn(m.offset, i) + k - RangeSize
  BY <1>1, <1>4, <1>5, Sizes DEF Turn, Indices
<1> QED
  BY <1>3, <1>6

LEMMA TurnBetween ==
    ASSUME NEW a \in Indices, NEW b \in Indices, NEW c \in Indices
    PROVE  /\ Turn(a, b) <= Turn(a, c) => Turn(b, c) = Turn(a, c) - Turn(a, b)
           /\ Turn(a, c) < Turn(a, b) => Turn(c, b) = Turn(a, b) - Turn(a, c)
BY Sizes DEF Turn, Indices

-----------------------------------------------------------------------------
(* Set.                                                                    *)

LEMMA SetFirst ==
    ASSUME NEW m, Sound(m), ~IsSet(m), NEW index \in Indices
    PROVE  LET r == Set(m, index)
           IN  /\ Sound(r) /\ IsSet(r) /\ r.offset = index /\ Width(r) = 0
               /\ \A i \in Indices : Holds(r, i) <=> i = index
<1> DEFINE r == Set(m, index)
<1>1. r = [bits |-> {0}, start |-> 0, end |-> 0, offset |-> index]
  BY DEF Set, Sound
<1> HIDE DEF r
<1>2. r \in Masks /\ IsSet(r) /\ r.offset = index /\ Width(r) = 0
  BY <1>1, Sizes DEF Masks, Places, IsSet, Width
<1>3. \A d \in Places : PlaceAt(r, d) = d
  BY <1>1, Sizes DEF PlaceAt, Places
<1>4. \A d : HasBit(r, d) <=> d = 0
  <2>1. 0 \in Places
    BY Sizes DEF Places
  <2> QED
    BY <2>1, <1>1, <1>3 DEF HasBit
<1>5. Sound(r)
  BY <1>1, <1>2, <1>4, Sizes DEF Sound
<1>6. \A i \in Indices : Holds(r, i) <=> i = index
  BY <1>2, <1>4, TurnRange DEF Holds
<1> QED
  BY <1>2, <1>5, <1>6 DEF r

\* An index that is not before the first one.
LEMMA SetAhead ==
    ASSUME NEW m, Sound(m), IsSet(m), NEW index \in Indices, Turn(m.offset, index) \in Places
    PROVE  LET r == Set(m, index)
               t == Turn(m.offset, index)
           IN  /\ CanSet(m, index)
               /\ Sound(r) /\ IsSet(r) /\ r.offset = m.offset
               /\ Width(r) = IF t <= Width(m) THEN Width(m) ELSE t
               /\ \A i \in Indices : Holds(r, i) <=> Holds(m, i) \/ i = index
<1> DEFINE r == Set(m, index)
           t == Turn(m.offset, index)
           pos == PlaceAt(m, t)
<1>1. m \in Masks /\ m.offset \in Indices /\ m.start < NumBits /\ m.end < NumBits
  BY DEF Sound, Masks, IsSet
<1>2. Difference(index, m.offset) = t /\ t \in Places /\ t >= 0 /\ t < NumBits
  BY <1>1, NearDifference, Sizes DEF Places
<1> HIDE DEF t
<1>3. CanSet(m, index)
  BY <1>2, Sizes DEF CanSet, Before, Places
<1>4. r = [m EXCEPT !.bits = @ \cup {pos}, !.end = EndWith(m, pos)]
  <2>1. ~(t < 0)
    BY <1>2, Sizes DEF Places
  <2> QED
    BY <1>2, <1>3, <2>1 DEF Set, CanSet
<1>5. pos \in Places /\ (InSpan(m, pos) <=> t <= Width(m))
  BY <1>1, <1>2, Ring1
<1> HIDE DEF pos, r
<1>6. /\ r.start = m.start /\ r.offset = m.offset /\ r.bits = m.bits \cup {pos}
      /\ r.end = IF t <= Width(m) THEN m.end ELSE pos
      /\ r \in Masks /\ IsSet(r) /\ r.end < NumBits /\ r.start < NumBits
  <2>1. /\ r.start = m.start /\ r.offset = m.offset /\ r.bits = m.bits \cup {pos}
        /\ r.end = IF t <= Width(m) THEN m.end ELSE pos
        /\ r = [bits |-> r.bits, start |-> r.start, end |-> r.end, offset |-> r.offset]
    BY <1>1, <1>4, <1>5 DEF EndWith, Masks
  <2>2. r.end \in 0..NumBits /\ r.end < NumBits
    BY <2>1, <1>1, <1>5, Sizes DEF Masks, Places
  <2>3. r.bits \in SUBSET Places /\ r.start \in 0..NumBits /\ r.offset \in Indices
    BY <2>1, <1>1, <1>5 DEF Masks
  <2>4. r \in Masks
    BY <2>1, <2>2, <2>3 DEF Masks
  <2> QED
    BY <2>1, <2>2, <2>4, <1>1 DEF IsSet
<1>7. \A d \in Places : PlaceAt(r, d) = PlaceAt(m, d)
  BY <1>6 DEF PlaceAt
<1>8. \A d : HasBit(r, d) <=> HasBit(m, d) \/ d = t
  BY <1>1, <1>2, <1>6, <1>7, Ring1 DEF HasBit, pos
<1>9. Width(r) = IF t <= Width(m) THEN Width(m) ELSE t
  <2>1. Width(r) \in Places /\ PlaceAt(r, Width(r)) = r.end
    BY <1>6, Ring1
  <2>2. Width(m) \in Places /\ PlaceAt(m, Width(m)) = m.end
    BY <1>1, Ring1
  <2>3. PlaceAt(m, Width(r)) = PlaceAt(m, IF t <= Width(m) THEN Width(m) ELSE t)
    BY <2>1, <2>2, <1>6, <1>7 DEF pos
  <2> QED
    BY <2>1, <2>2, <2>3, <1>1, <1>2, Ring1
<1>10. Sound(r)
  <2>1. HasBit(m, 0) /\ HasBit(m, Width(m)) /\ \A d \in Places : HasBit(m, d) => d <= Width(m)
    BY DEF Sound
  <2>2. Width(m) \in Places
    BY <1>1, Ring1
  <2>3. \A d \in Places : HasBit(r, d) => d <= Width(r)
    BY <2>1, <2>2, <1>2, <1>8, <1>9, Sizes DEF Places
  <2> QED
    BY <2>1, <2>3, <1>6, <1>8, <1>9 DEF Sound
<1>11. ASSUME NEW i \in Indices PROVE Holds(r, i) <=> Holds(m, i) \/ i = index
  <2>1. Turn(m.offset, i) = t <=> i = index
    BY <1>1, StepTo DEF t
  <2> QED
    BY <2>1, <1>6, <1>8 DEF Holds
<1> QED
  BY <1>3, <1>6, <1>9, <1>10, <1>11 DEF r, t

\* What it means that an index lies k before the first one.
LEMMA PlaceBeforeIs ==
    ASSUME NEW m, Sound(m), IsSet(m), NEW k \in Places, k # 0
    PROVE  /\ PlaceBefore(m, k) \in Places
           /\ PlaceBefore(m, k) = PlaceAt(m, NumBits - k)
           /\ InSpan(m, PlaceBefore(m, k)) <=> Width(m) + k >= NumBits
<1>1. m \in Masks /\ m.start \in Places /\ m.start < NumBits /\ m.end < NumBits
  BY Sizes DEF Sound, Masks, IsSet, Places
<1>2. PlaceBefore(m, k) \in Places /\ PlaceBefore(m, k) = PlaceAt(m, NumBits - k)
        /\ NumBits - k \in Places
  BY <1>1, Sizes DEF Places, PlaceBefore, PlaceAt
<1>3. (InSpan(m, PlaceAt(m, NumBits - k)) <=> NumBits - k <= Width(m)) /\ Width(m) \in Places
  BY <1>1, <1>2, Ring1
<1> QED
  BY <1>2, <1>3, Sizes DEF Places

LEMMA CanSetBehind ==
    ASSUME NEW m, Sound(m), IsSet(m), NEW index \in Indices,
           Turn(index, m.offset) \in Places, Turn(index, m.offset) # 0
    PROVE  CanSet(m, index) <=> Width(m) + Turn(index, m.offset) < NumBits
<1> DEFINE k == Turn(index, m.offset)
<1>1. m.offset \in Indices
  BY DEF Sound, Masks
<1>2. Difference(index, m.offset) = -k
  BY <1>1, BackDifference
<1>3. k \in Places /\ k # 0 /\ -(-k) = k /\ -k < 0
  BY Sizes DEF Places
<1> HIDE DEF k
<1>4. PlaceBefore(m, k) \in Places /\ (InSpan(m, PlaceBefore(m, k)) <=> Width(m) + k >= NumBits)
  BY <1>3, PlaceBeforeIs
<1>5. CanSet(m, index) <=> ~InSpan(m, PlaceBefore(m, k))
  BY <1>2, <1>3, <1>4, Sizes DEF CanSet, Before, CanSetBefore, Places
<1>6. Width(m) \in Places
  BY LastIs
<1> QED
  BY <1>3, <1>4, <1>5, <1>6, Sizes DEF k, Places

\* r names m's bits from a first one k before.
LEMMA BehindSound ==
    ASSUME NEW m, Sound(m), IsSet(m), NEW r \in Masks, NEW k \in Places, k # 0, Behind(r, m, k),
           Width(m) + k < NumBits, r.end = m.end
    PROVE  /\ Width(r) = Width(m) + k
           /\ \A d \in Places : PlaceAt(r, d) \in m.bits <=> d >= k /\ HasBit(m, d - k)
           /\ \A i \in Indices : HasBit(m, Turn(m.offset, i)) <=>
                                   /\ Turn(r.offset, i) \in Places
                                   /\ PlaceAt(r, Turn(r.offset, i)) \in m.bits
<1>1. m \in Masks /\ m.start < NumBits /\ m.end < NumBits /\ r.start < NumBits
        /\ m.offset \in Indices /\ r.offset \in Indices
  BY DEF Sound, Masks, IsSet, Behind
<1>2. Width(m) \in Places /\ PlaceAt(m, Width(m)) = m.end
  BY <1>1, Ring1
<1>3. Width(r) \in Places /\ PlaceAt(r, Width(r)) = r.end
  BY <1>1, Ring1
<1>4. \A d \in Places : PlaceAt(m, d) = PlaceAt(r, IF d + k < NumBits THEN d + k ELSE d + k - NumBits)
  BY <1>1, BehindIs
<1>5. Width(r) = Width(m) + k
  <2>1. PlaceAt(r, Width(r)) = PlaceAt(r, Width(m) + k) /\ Width(m) + k \in Places
    BY <1>2, <1>3, <1>4, Sizes DEF Places
  <2> QED
    BY <2>1, <1>1, <1>3, Ring1
<1>6. ASSUME NEW d \in Places
      PROVE  PlaceAt(r, d) \in m.bits <=> d >= k /\ HasBit(m, d - k)
  <2>1. CASE d >= k
    <3>1. d - k \in Places /\ PlaceAt(m, d - k) = PlaceAt(r, d)
      BY <2>1, <1>4, Sizes DEF Places
    <3> QED
      BY <2>1, <3>1 DEF HasBit
  <2>2. CASE d < k
    <3>1. d - k + NumBits \in Places /\ PlaceAt(m, d - k + NumBits) = PlaceAt(r, d)
      BY <2>2, <1>4, Sizes DEF Places
    <3>2. ~(d - k + NumBits <= Width(m))
      BY <2>2, <1>2, Sizes DEF Places
    <3>3. ~HasBit(m, d - k + NumBits)
      BY <3>1, <3>2 DEF Sound
    <3> QED
      BY <2>2, <3>1, <3>3, Sizes DEF HasBit, Places
  <2> QED
    BY <2>1, <2>2, Sizes DEF Places
<1>7. ASSUME NEW i \in Indices
      PROVE  HasBit(m, Turn(m.offset, i)) <=>
                /\ Turn(r.offset, i) \in Places
                /\ PlaceAt(r, Turn(r.offset, i)) \in m.bits
  <2> DEFINE t == Turn(m.offset, i)
             u == Turn(r.offset, i)
  <2>1. t \in Indices /\ u \in Indices
    BY <1>1, TurnRange
  <2>2. u = IF t + k < RangeSize THEN t + k ELSE t + k - RangeSize
    BY <1>1, BehindIs
  <2> HIDE DEF t, u
  <2>3. HasBit(m, t) => t \in Places /\ t <= Width(m)
    BY DEF HasBit, Sound
  <2>4. ASSUME HasBit(m, t) PROVE u \in Places /\ PlaceAt(r, u) \in m.bits
    <3>1. u = t + k /\ u \in Places /\ u >= k /\ u - k = t
      BY <2>1, <2>2, <2>3, <2>4, <1>2, Sizes DEF Places, Indices
    <3> QED
      BY <3>1, <2>4, <1>6
  <2>5. ASSUME u \in Places, PlaceAt(r, u) \in m.bits PROVE HasBit(m, t)
    <3>1. u >= k /\ HasBit(m, u - k)
      BY <2>5, <1>6
    <3>2. t = u - k
      BY <3>1, <2>1, <2>2, <2>5, Sizes DEF Places, Indices
    <3> QED
      BY <3>1, <3>2
  <2> QED
    BY <2>4, <2>5 DEF t, u
<1> QED
  BY <1>5, <1>6, <1>7

\* An index before the first one.
LEMMA SetBehind ==
    ASSUME NEW m, Sound(m), IsSet(m), NEW index \in Indices,
           Turn(index, m.offset) \in Places, Turn(index, m.offset) # 0,
           Width(m) + Turn(index, m.offset) < NumBits
    PROVE  LET r == Set(m, index)
           IN  /\ Sound(r) /\ IsSet(r) /\ r.offset = index
               /\ Width(r) = Width(m) + Turn(index, m.offset)
               /\ \A i \in Indices : Holds(r, i) <=> Holds(m, i) \/ i = index
<1> DEFINE r == Set(m, index)
           k == Turn(index, m.offset)
           pos == PlaceBefore(m, k)
<1>1. m \in Masks /\ m.offset \in Indices /\ m.start < NumBits /\ m.end < NumBits
        /\ m.start \in Places
  BY Sizes DEF Sound, Masks, IsSet, Places
<1>2. Difference(index, m.offset) = -k /\ -(-k) = k /\ -k < 0 /\ k \in Places /\ k # 0
        /\ (index + k) % RangeSize = m.offset
  BY <1>1, BackDifference, StepTo, Sizes DEF Places
<1>3. CanSet(m, index)
  BY CanSetBehind
<1> HIDE DEF k
<1>4. r = [m EXCEPT !.bits = @ \cup {pos}, !.start = pos, !.offset = index]
  BY <1>2, <1>3 DEF Set
<1>5. pos \in Places
  BY <1>2, PlaceBeforeIs
<1>6. pos = IF m.start - k < 0 THEN m.start - k + NumBits ELSE m.start - k
  BY DEF PlaceBefore
<1> HIDE DEF r, pos
<1>7. /\ r.start = pos /\ r.offset = index /\ r.end = m.end /\ r.bits = m.bits \cup {pos}
      /\ r \in Masks /\ IsSet(r) /\ r.end < NumBits /\ r.start < NumBits
  <2>1. /\ r.start = pos /\ r.offset = index /\ r.end = m.end /\ r.bits = m.bits \cup {pos}
        /\ r = [bits |-> r.bits, start |-> r.start, end |-> r.end, offset |-> r.offset]
    BY <1>1, <1>4 DEF Masks
  <2>2. pos \in 0..NumBits /\ pos < NumBits
    BY <1>5, Sizes DEF Places
  <2>3. r.bits \in SUBSET Places /\ r.end \in 0..NumBits
    BY <2>1, <1>1, <1>5 DEF Masks
  <2>4. r \in Masks
    BY <2>1, <2>2, <2>3 DEF Masks
  <2> QED
    BY <2>1, <2>2, <2>4, <1>1 DEF IsSet
<1>8. Behind(r, m, k)
  <2>1. m.start = PlaceAt(r, k)
    BY <1>1, <1>2, <1>6, <1>7, Sizes DEF PlaceAt, Places
  <2> QED
    BY <2>1, <1>1, <1>2, <1>7 DEF Behind
<1>9. /\ Width(r) = Width(m) + k
      /\ \A d \in Places : PlaceAt(r, d) \in m.bits <=> d >= k /\ HasBit(m, d - k)
      /\ \A i \in Indices : HasBit(m, Turn(m.offset, i)) <=>
                              /\ Turn(r.offset, i) \in Places
                              /\ PlaceAt(r, Turn(r.offset, i)) \in m.bits
  BY <1>2, <1>7, <1>8, BehindSound DEF k
<1>10. PlaceAt(r, 0) = pos /\ \A d \in Places : PlaceAt(r, d) = pos => d = 0
  BY <1>7, Ring1, Sizes DEF Places
<1>11. \A d : HasBit(r, d) <=> d \in Places /\ (PlaceAt(r, d) \in m.bits \/ d = 0)
  BY <1>7, <1>10 DEF HasBit
<1>12. Sound(r)
  <2>1. HasBit(m, Width(m)) /\ \A d \in Places : HasBit(m, d) => d <= Width(m)
    BY DEF Sound
  <2>2. Width(m) \in Places /\ Width(r) \in Places
    BY <1>1, <1>7, Ring1
  <2>3. HasBit(r, 0)
    BY <1>11, Sizes DEF Places
  <2>4. Width(m) + k >= k /\ (Width(m) + k) - k = Width(m)
    BY <2>2, <1>2, Sizes DEF Places
  <2>5. HasBit(r, Width(r))
    BY <2>1, <2>2, <2>4, <1>9, <1>11
  <2>6. ASSUME NEW d \in Places, HasBit(r, d) PROVE d <= Width(r)
    <3>1. CASE d = 0
      BY <3>1, <2>2, Sizes DEF Places
    <3>2. CASE d >= k /\ HasBit(m, d - k)
      <4>1. d - k \in Places
        BY <3>2 DEF HasBit
      <4>2. d - k <= Width(m)
        BY <4>1, <3>2, <2>1
      <4> QED
        BY <4>2, <1>2, <1>9, <2>2, Sizes DEF Places
    <3> QED
      BY <2>6, <3>1, <3>2, <1>9, <1>11
  <2> QED
    BY <2>3, <2>5, <2>6, <1>7 DEF Sound
<1>13. ASSUME NEW i \in Indices PROVE Holds(r, i) <=> Holds(m, i) \/ i = index
  <2>1. Turn(r.offset, i) = 0 <=> i = index
    BY <1>7, TurnRange
  <2>2. 0 \in Places
    BY Sizes DEF Places
  <2> QED
    BY <2>1, <2>2, <1>7, <1>9, <1>11 DEF Holds
<1> QED
  BY <1>7, <1>9, <1>12, <1>13 DEF r, k

-----------------------------------------------------------------------------
(* Unset, also for a mask of which bits at an end are gone already.        *)

\* A mask that is set and has no bit outside its span.
Loose(m) ==
    /\ m \in Masks /\ IsSet(m) /\ m.end < NumBits
    /\ \A d \in Places : HasBit(m, d) => d <= Width(m)

Bits(m) == {d \in Places : HasBit(m, d)}

LEMMA LooseIs ==
    ASSUME NEW m, Loose(m)
    PROVE  /\ m \in Masks /\ m.start < NumBits /\ m.end < NumBits /\ m.start \in Places
           /\ m.offset \in Indices /\ m.bits \subseteq Places
           /\ Width(m) \in Places
           /\ Bits(m) \subseteq 0..Width(m)
           /\ Distances(m) = Bits(m)
<1>1. m \in Masks /\ m.start < NumBits /\ m.end < NumBits /\ m.start \in Places
        /\ m.offset \in Indices /\ m.bits \subseteq Places
  BY Sizes DEF Loose, Masks, IsSet, Places
<1>2. Width(m) \in Places
  BY <1>1, Ring1
<1>3. Bits(m) \subseteq 0..Width(m)
  BY <1>2, Sizes DEF Loose, Bits, Places
<1>4. \A p \in Places : \E d \in Places : p = PlaceAt(m, d) /\ (p - m.start) % NumBits = d
  BY <1>1, Ring1
<1>5. \A d \in Places : PlaceAt(m, d) \in Places /\ (PlaceAt(m, d) - m.start) % NumBits = d
  BY <1>1, Ring1
<1>6. ASSUME NEW x \in Distances(m) PROVE x \in Bits(m)
  <2>1. PICK b \in m.bits : x = (b - m.start) % NumBits
    BY DEF Distances
  <2>2. PICK d \in Places : b = PlaceAt(m, d) /\ (b - m.start) % NumBits = d
    BY <1>1, <1>4, <2>1
  <2> QED
    BY <2>1, <2>2 DEF Bits, HasBit
<1>7. ASSUME NEW d \in Bits(m) PROVE d \in Distances(m)
  BY <1>5 DEF Bits, HasBit, Distances
<1> QED
  BY <1>1, <1>2, <1>3, <1>6, <1>7

\* r is m without what lies before its place k, where nothing is set.
LEMMA AheadSound ==
    ASSUME NEW m, Loose(m), NEW r \in Masks, NEW k \in Places, Behind(m, r, k),
           k <= Width(m), r.end = m.end, r.bits = m.bits, \A d \in Bits(m) : k <= d
    PROVE  /\ Loose(r) /\ Width(r) = Width(m) - k
           /\ \A d \in Places : HasBit(r, d) <=> HasBit(m, d + k)
           /\ \A i \in Indices : Holds(r, i) <=> Holds(m, i)
<1>1. /\ m \in Masks /\ m.start < NumBits /\ m.end < NumBits /\ r.start < NumBits
      /\ m.offset \in Indices /\ r.offset \in Indices /\ Width(m) \in Places
  BY LooseIs DEF Behind, Masks
<1>2. PlaceAt(m, Width(m)) = m.end
  BY <1>1, Ring1
<1>3. Width(r) \in Places /\ PlaceAt(r, Width(r)) = r.end
  BY <1>1, Ring1
<1>4. \A d \in Places : PlaceAt(r, d) = PlaceAt(m, IF d + k < NumBits THEN d + k ELSE d + k - NumBits)
  BY <1>1, BehindIs
<1>5. Width(r) = Width(m) - k
  <2>1. Width(m) - k \in Places /\ (Width(m) - k) + k = Width(m) /\ Width(m) < NumBits
    BY <1>1, Sizes DEF Places
  <2>2. PlaceAt(r, Width(m) - k) = PlaceAt(m, Width(m))
    BY <2>1, <1>4
  <2> QED
    BY <2>1, <2>2, <1>1, <1>2, <1>3, Ring1
<1>6. ASSUME NEW d \in Places PROVE HasBit(r, d) <=> HasBit(m, d + k)
  <2>1. CASE d + k < NumBits
    <3>1. d + k \in Places /\ PlaceAt(r, d) = PlaceAt(m, d + k)
      BY <2>1, <1>4, Sizes DEF Places
    <3> QED
      BY <3>1 DEF HasBit
  <2>2. CASE d + k >= NumBits
    <3>1. d + k - NumBits \in Places /\ PlaceAt(r, d) = PlaceAt(m, d + k - NumBits) /\ d + k - NumBits < k
            /\ d + k \notin Places
      BY <2>2, <1>4, Sizes DEF Places
    <3>2. ~HasBit(m, d + k - NumBits)
      BY <3>1, Sizes DEF Bits, Places
    <3> QED
      BY <3>1, <3>2 DEF HasBit
  <2> QED
    BY <2>1, <2>2, Sizes DEF Places
<1>7. Loose(r)
  <2>1. ASSUME NEW d \in Places, HasBit(r, d) PROVE d <= Width(r)
    <3>1. HasBit(m, d + k)
      BY <2>1, <1>6
    <3>2. d + k \in Places /\ d + k <= Width(m)
      BY <3>1 DEF HasBit, Loose
    <3> QED
      BY <3>2, <1>1, <1>5, Sizes DEF Places
  <2> QED
    BY <2>1, <1>1 DEF Loose, IsSet
<1>8. ASSUME NEW i \in Indices PROVE Holds(r, i) <=> Holds(m, i)
  <2> DEFINE t == Turn(m.offset, i)
             u == Turn(r.offset, i)
  <2>1. t \in Indices /\ u \in Indices
    BY <1>1, TurnRange
  <2>2. t = IF u + k < RangeSize THEN u + k ELSE u + k - RangeSize
    BY <1>1, BehindIs
  <2>3. IsSet(r) /\ IsSet(m)
    BY <1>1 DEF IsSet
  <2> HIDE DEF t, u
  <2>4. ASSUME HasBit(m, t) PROVE HasBit(r, u)
    <3>1. t \in Places /\ k <= t
      BY <2>4 DEF HasBit, Bits
    <3>2. u = t - k /\ u \in Places /\ u + k = t
      BY <3>1, <2>1, <2>2, Sizes DEF Places, Indices
    <3> QED
      BY <3>2, <2>4, <1>6
  <2>5. ASSUME HasBit(r, u) PROVE HasBit(m, t)
    <3>1. u \in Places
      BY <2>5 DEF HasBit
    <3>2. HasBit(m, u + k)
      BY <3>1, <2>5, <1>6
    <3>3. u + k \in Places
      BY <3>2 DEF HasBit
    <3>4. t = u + k
      BY <3>3, <2>1, <2>2, Sizes DEF Places, Indices
    <3> QED
      BY <3>2, <3>4
  <2> QED
    BY <2>3, <2>4, <2>5 DEF Holds, t, u
<1> QED
  BY <1>5, <1>6, <1>7, <1>8

\* MoveStart for the first index of the span: the first one that is set takes over.
LEMMA MoveStartIs ==
    ASSUME NEW m, Loose(m), Bits(m) # {}, HasBit(m, Width(m))
    PROVE  LET r == MoveStart(m, m.offset)
           IN  /\ Sound(r) /\ IsSet(r) /\ r.end = m.end /\ r.bits = m.bits
               /\ r.offset = (m.offset + Min(Bits(m))) % RangeSize
               /\ Width(r) = Width(m) - Min(Bits(m))
               /\ \A i \in Indices : Holds(r, i) <=> Holds(m, i)
<1> DEFINE k == Min(Bits(m))
           next == (m.offset + k) % RangeSize
           r == MoveStart(m, m.offset)
<1>1. /\ m \in Masks /\ m.start < NumBits /\ m.end < NumBits /\ m.start \in Places
      /\ m.offset \in Indices /\ Width(m) \in Places
      /\ Bits(m) \subseteq 0..Width(m) /\ Distances(m) = Bits(m)
  BY LooseIs
<1>2. k \in Bits(m) /\ \A d \in Bits(m) : k <= d
  <2>1. Bits(m) \in SUBSET Nat
    BY <1>1
  <2> QED
    BY <2>1, LeastNatural
<1> HIDE DEF k
<1>3. k \in Places /\ k <= Width(m) /\ k \in Indices /\ HasBit(m, k)
  BY <1>1, <1>2, TurnRange DEF Bits
<1>4. next \in Indices /\ Turn(m.offset, next) = k
  BY <1>1, <1>3, StepIs
<1>5. Difference(m.offset, m.offset) = 0
  <2>1. Turn(m.offset, m.offset) = 0 /\ 0 \in Places
    BY <1>1, TurnRange, Sizes DEF Places
  <2> QED
    BY <2>1, <1>1, NearDifference
<1>6. Difference(next, m.offset) = k
  BY <1>1, <1>3, <1>4, NearDifference
<1>7. GetNextSet(m, m.offset) = next
  <2>1. {d \in Distances(m) : d >= Difference(m.offset, m.offset)} = Bits(m)
    BY <1>1, <1>5
  <2>2. ~Before(m, m.offset) /\ InRange(m, m.offset)
    <3>1. 0 \in Places
      BY Sizes DEF Places
    <3>2. InSpan(m, PlaceAt(m, 0))
      BY <3>1, <1>1, Ring1, Sizes DEF Places
    <3> QED
      BY <3>2, <1>5, Sizes DEF Before, InRange
  <2> QED
    BY <2>1, <2>2 DEF GetNextSet, Loose, k
<1>8. next # NoIndex
  BY <1>4, Sizes DEF NoIndex, Indices
<1> HIDE DEF next
<1>9. r = [m EXCEPT !.start = PlaceAt(m, k), !.offset = next]
  BY <1>6, <1>7, <1>8 DEF MoveStart, Found
<1> HIDE DEF r
<1>10. PlaceAt(m, k) \in Places
  BY <1>1, <1>3, Ring1
<1>11. /\ r.start = PlaceAt(m, k) /\ r.offset = next /\ r.end = m.end /\ r.bits = m.bits
       /\ r \in Masks /\ IsSet(r)
  <2>1. /\ r.start = PlaceAt(m, k) /\ r.offset = next /\ r.end = m.end /\ r.bits = m.bits
        /\ r = [bits |-> r.bits, start |-> r.start, end |-> r.end, offset |-> r.offset]
    BY <1>1, <1>9 DEF Masks
  <2>2. r.start \in 0..NumBits /\ r.start < NumBits
    BY <1>10, <2>1, Sizes DEF Places
  <2> QED
    BY <2>1, <2>2, <1>1, <1>4 DEF Masks, IsSet
<1>12. Behind(m, r, k)
  BY <1>1, <1>11 DEF Behind, IsSet, next
<1>13. /\ Loose(r) /\ Width(r) = Width(m) - k
       /\ \A d \in Places : HasBit(r, d) <=> HasBit(m, d + k)
       /\ \A i \in Indices : Holds(r, i) <=> Holds(m, i)
  BY <1>2, <1>3, <1>11, <1>12, AheadSound
<1>14. Sound(r)
  <2>1. 0 \in Places /\ Width(r) \in Places /\ Width(r) + k = Width(m) /\ 0 + k = k
    BY <1>1, <1>3, <1>13, LooseIs, Sizes DEF Places
  <2>2. HasBit(r, 0) /\ HasBit(r, Width(r))
    BY <2>1, <1>3, <1>13
  <2> QED
    BY <2>2, <1>11, <1>13 DEF Sound, Loose
<1> QED
  BY <1>11, <1>13, <1>14 DEF r, next, k

\* MoveEnd for the last index of the span.
LEMMA MoveEndIs ==
    ASSUME NEW m, Loose(m), Bits(m) # {}, HasBit(m, 0),
           NEW index \in Indices, Turn(m.offset, index) = Width(m)
    PROVE  LET r == MoveEnd(m, index)
           IN  /\ Sound(r) /\ IsSet(r) /\ r.offset = m.offset /\ r.start = m.start /\ r.bits = m.bits
               /\ Width(r) = Max(Bits(m))
               /\ \A i \in Indices : Holds(r, i) <=> Holds(m, i)
<1> DEFINE k == Max(Bits(m))
           prev == (m.offset + k) % RangeSize
           r == MoveEnd(m, index)
<1>1. /\ m \in Masks /\ m.start < NumBits /\ m.end < NumBits /\ m.start \in Places
      /\ m.offset \in Indices /\ Width(m) \in Places
      /\ Bits(m) \subseteq 0..Width(m) /\ Distances(m) = Bits(m)
  BY LooseIs
<1>2. k \in Bits(m) /\ \A d \in Bits(m) : d <= k
  <2>1. Width(m) \in Nat
    BY <1>1, Sizes DEF Places
  <2> QED
    BY <2>1, <1>1, GreatestNatural
<1> HIDE DEF k
<1>3. k \in Places /\ k <= Width(m) /\ k \in Indices /\ HasBit(m, k)
  BY <1>1, <1>2, TurnRange DEF Bits
<1>4. prev \in Indices /\ Turn(m.offset, prev) = k
  BY <1>1, <1>3, StepIs
<1>5. Difference(index, m.offset) = Width(m)
  BY <1>1, NearDifference
<1>6. Difference(prev, m.offset) = k
  BY <1>1, <1>3, <1>4, NearDifference
<1>7. GetPrevSet(m, index) = prev
  <2>1. {d \in Distances(m) : d <= Difference(index, m.offset)} = Bits(m)
    BY <1>1, <1>5
  <2>2. ~Before(m, index) /\ InRange(m, index)
    <3>1. InSpan(m, PlaceAt(m, Width(m)))
      BY <1>1, Ring1, Sizes DEF Places
    <3> QED
      BY <3>1, <1>1, <1>5, Sizes DEF Before, InRange, Places
  <2> QED
    BY <2>1, <2>2 DEF GetPrevSet, Loose, k
<1>8. prev # NoIndex
  BY <1>4, Sizes DEF NoIndex, Indices
<1> HIDE DEF prev
<1>9. r = [m EXCEPT !.end = PlaceAt(m, k)]
  BY <1>6, <1>7, <1>8 DEF MoveEnd, Found
<1> HIDE DEF r
<1>10. PlaceAt(m, k) \in Places
  BY <1>1, <1>3, Ring1
<1>11. /\ r.start = m.start /\ r.offset = m.offset /\ r.end = PlaceAt(m, k) /\ r.bits = m.bits
       /\ r \in Masks /\ IsSet(r) /\ r.end < NumBits
  <2>1. /\ r.start = m.start /\ r.offset = m.offset /\ r.end = PlaceAt(m, k) /\ r.bits = m.bits
        /\ r = [bits |-> r.bits, start |-> r.start, end |-> r.end, offset |-> r.offset]
    BY <1>1, <1>9 DEF Masks
  <2>2. r.end \in 0..NumBits /\ r.end < NumBits
    BY <1>10, <2>1, Sizes DEF Places
  <2> QED
    BY <2>1, <2>2, <1>1 DEF Masks, IsSet
<1>12. \A d \in Places : PlaceAt(r, d) = PlaceAt(m, d)
  BY <1>11 DEF PlaceAt
<1>13. \A d : HasBit(r, d) <=> HasBit(m, d)
  BY <1>11, <1>12 DEF HasBit
<1>14. Width(r) = k
  <2>1. Width(r) \in Places /\ PlaceAt(r, Width(r)) = r.end
    BY <1>11, Ring1 DEF IsSet
  <2> QED
    BY <2>1, <1>1, <1>3, <1>11, <1>12, Ring1
<1>15. Sound(r)
  BY <1>2, <1>3, <1>11, <1>13, <1>14 DEF Sound, Bits
<1>16. \A i \in Indices : Holds(r, i) <=> Holds(m, i)
  BY <1>11, <1>13 DEF Holds, Loose
<1> QED
  BY <1>11, <1>14, <1>15, <1>16 DEF r, k

\* A mask of which the bits of the places P are taken.
LEMMA TakenIs ==
    ASSUME NEW m, Loose(m), NEW P
    PROVE  LET r == [m EXCEPT !.bits = @ \ P]
           IN  /\ Loose(r) /\ r.start = m.start /\ r.end = m.end /\ r.offset = m.offset
               /\ r.bits = m.bits \ P /\ Width(r) = Width(m)
               /\ \A d : PlaceAt(r, d) = PlaceAt(m, d)
               /\ \A d : HasBit(r, d) <=> HasBit(m, d) /\ PlaceAt(m, d) \notin P
<1> DEFINE r == [m EXCEPT !.bits = @ \ P]
<1>1. m \in Masks
  BY DEF Loose
<1>2. /\ r.start = m.start /\ r.end = m.end /\ r.offset = m.offset /\ r.bits = m.bits \ P
      /\ r = [bits |-> r.bits, start |-> r.start, end |-> r.end, offset |-> r.offset]
  BY <1>1 DEF Masks
<1> HIDE DEF r
<1>3. r \in Masks
  BY <1>1, <1>2 DEF Masks
<1>4. \A d : PlaceAt(r, d) = PlaceAt(m, d)
  BY <1>2 DEF PlaceAt
<1>5. \A d : HasBit(r, d) <=> HasBit(m, d) /\ PlaceAt(m, d) \notin P
  BY <1>2, <1>4 DEF HasBit
<1>6. Width(r) = Width(m)
  BY <1>2 DEF Width
<1>7. Loose(r)
  BY <1>2, <1>3, <1>5, <1>6 DEF Loose, IsSet
<1> QED
  BY <1>2, <1>4, <1>5, <1>6, <1>7 DEF r

\* A mask of which nothing is left.
LEMMA EmptiedIs ==
    ASSUME NEW m, Loose(m), NEW r,
           r = [m EXCEPT !.bits = {}, !.start = NumBits, !.end = NumBits]
    PROVE  Sound(r) /\ ~IsSet(r) /\ \A i : ~Holds(r, i)
<1>1. m \in Masks
  BY DEF Loose
<1>2. r = [bits |-> {}, start |-> NumBits, end |-> NumBits, offset |-> m.offset]
  BY <1>1 DEF Masks
<1>3. r \in Masks
  BY <1>1, <1>2, Sizes DEF Masks
<1>4. ~IsSet(r)
  BY <1>2, Sizes DEF IsSet
<1> QED
  BY <1>2, <1>3, <1>4 DEF Sound, Holds

LEMMA UnsetIs ==
    ASSUME NEW m, Loose(m), NEW index \in Indices,
           Turn(m.offset, index) \in Places, Turn(m.offset, index) <= Width(m),
           Turn(m.offset, index) # 0 => HasBit(m, 0),
           Turn(m.offset, index) # Width(m) => HasBit(m, Width(m))
    PROVE  /\ Sound(Unset(m, index))
           /\ \A i \in Indices : Holds(Unset(m, index), i) <=> Holds(m, i) /\ i # index
<1> DEFINE t == Turn(m.offset, index)
           pos == PlaceAt(m, Difference(index, m.offset))
           taken == [m EXCEPT !.bits = @ \ {pos}]
           moved == IF m.start = pos THEN MoveStart(taken, index) ELSE taken
           r == Unset(m, index)
<1>1. /\ m \in Masks /\ m.start < NumBits /\ m.end < NumBits /\ m.start \in Places
      /\ m.offset \in Indices /\ Width(m) \in Places /\ Bits(m) \subseteq 0..Width(m) /\ IsSet(m)
  BY LooseIs DEF Loose
<1>2. t \in Places /\ t <= Width(m) /\ Difference(index, m.offset) = t
        /\ ~(Difference(index, m.offset) < 0) /\ Difference(index, m.offset) < NumBits
  BY <1>1, NearDifference, Sizes DEF Places
<1>3. /\ pos = PlaceAt(m, t) /\ pos \in Places /\ InSpan(m, pos)
      /\ PlaceAt(m, 0) = m.start /\ PlaceAt(m, Width(m)) = m.end
      /\ \A c, d \in Places : PlaceAt(m, c) = PlaceAt(m, d) => c = d
  BY <1>1, <1>2, Ring1
<1>4. 0 \in Places
  BY Sizes DEF Places
<1>5. m.start = pos <=> t = 0
  BY <1>2, <1>3, <1>4
<1>6. m.end = pos <=> t = Width(m)
  BY <1>1, <1>2, <1>3
<1>7. m.start = m.end <=> Width(m) = 0
  BY <1>1, <1>3, <1>4
<1>8. ~(~IsSet(m) \/ ~InRange(m, index))
  BY <1>1, <1>2, <1>3 DEF InRange, Before
<1>9. r = IF m.start = m.end THEN [taken EXCEPT !.start = NumBits, !.end = NumBits]
          ELSE IF m.end = pos THEN MoveEnd(moved, index)
          ELSE moved
  BY <1>8 DEF Unset
<1>10. /\ Loose(taken) /\ taken.start = m.start /\ taken.end = m.end /\ taken.offset = m.offset
       /\ taken.bits = m.bits \ {pos} /\ Width(taken) = Width(m)
       /\ \A d : HasBit(taken, d) <=> HasBit(m, d) /\ PlaceAt(m, d) \notin {pos}
  BY TakenIs
<1> HIDE DEF t, pos
<1>11. \A d : HasBit(taken, d) <=> HasBit(m, d) /\ d # t
  BY <1>2, <1>3, <1>10 DEF HasBit
<1>12. ASSUME NEW i \in Indices PROVE Holds(taken, i) <=> Holds(m, i) /\ i # index
  <2>1. Turn(m.offset, i) = t <=> i = index
    BY <1>1, StepTo DEF t
  <2> QED
    BY <2>1, <1>1, <1>10, <1>11 DEF Holds, Loose
<1> HIDE DEF r
<1>13. CASE Width(m) = 0
  <2>1. taken.bits = {}
    <3>1. ASSUME NEW p \in m.bits PROVE p = pos
      <4>1. p \in Places
        BY <1>1 DEF Masks
      <4>2. PICK d \in Places : p = PlaceAt(m, d)
        BY <4>1, <1>1, Ring1
      <4>3. d \in Bits(m)
        BY <4>2 DEF Bits, HasBit
      <4>4. d = 0 /\ t = 0
        BY <4>3, <1>1, <1>2, <1>13, Sizes DEF Places
      <4> QED
        BY <4>2, <4>4, <1>3
    <3> QED
      BY <3>1, <1>10
  <2>2. r = [taken EXCEPT !.start = NumBits, !.end = NumBits]
    BY <1>7, <1>9, <1>13
  <2>3. r = [taken EXCEPT !.bits = {}, !.start = NumBits, !.end = NumBits]
    <3>1. taken \in Masks
      BY <1>10 DEF Loose
    <3> HIDE DEF taken
    <3> QED
      BY <3>1, <2>1, <2>2 DEF Masks
  <2>4. Sound(r) /\ \A i : ~Holds(r, i)
    BY <2>3, <1>10, EmptiedIs
  <2>5. \A d : ~HasBit(taken, d)
    BY <2>1 DEF HasBit
  <2>6. \A i \in Indices : ~Holds(taken, i)
    BY <2>5 DEF Holds
  <2> QED
    BY <2>4, <2>6, <1>12 DEF r
<1>14. CASE Width(m) # 0 /\ t = 0
  <2>1. r = MoveStart(taken, index)
    BY <1>5, <1>6, <1>7, <1>9, <1>14
  <2>2. index = m.offset
    BY <1>1, <1>14, TurnRange DEF t
  <2>3. HasBit(m, Width(m))
    BY <1>14 DEF t
  <2>4. HasBit(taken, Width(m)) /\ Bits(taken) # {}
    BY <2>3, <1>1, <1>11, <1>14 DEF Bits
  <2>5. r = MoveStart(taken, taken.offset)
    BY <2>1, <2>2, <1>10
  <2> HIDE DEF taken
  <2>6. Sound(r) /\ \A i \in Indices : Holds(r, i) <=> Holds(taken, i)
    BY <2>4, <2>5, <1>10, MoveStartIs
  <2> QED
    BY <2>6, <1>12 DEF r
<1>15. CASE Width(m) # 0 /\ t = Width(m)
  <2>1. r = MoveEnd(taken, index)
    BY <1>5, <1>6, <1>7, <1>9, <1>15
  <2>2. HasBit(m, 0)
    BY <1>15 DEF t
  <2>3. HasBit(taken, 0) /\ Bits(taken) # {}
    BY <2>2, <1>4, <1>11, <1>15 DEF Bits
  <2>4. Turn(taken.offset, index) = Width(taken)
    BY <1>10, <1>15 DEF t
  <2> HIDE DEF taken
  <2>5. Sound(r) /\ \A i \in Indices : Holds(r, i) <=> Holds(taken, i)
    BY <2>1, <2>3, <2>4, <1>10, MoveEndIs
  <2> QED
    BY <2>5, <1>12 DEF r
<1>16. CASE t # 0 /\ t # Width(m)
  <2>0. Width(m) # 0
    BY <1>1, <1>2, <1>16, Sizes DEF Places
  <2>1. r = taken
    BY <2>0, <1>5, <1>6, <1>7, <1>9, <1>16
  <2>2. HasBit(m, 0) /\ HasBit(m, Width(m))
    BY <1>16 DEF t
  <2>3. HasBit(taken, 0) /\ HasBit(taken, Width(taken))
    BY <2>2, <1>10, <1>11, <1>16
  <2>4. Sound(taken)
    <3> HIDE DEF taken
    <3> QED
      BY <2>3, <1>10 DEF Sound, Loose
  <2> QED
    BY <2>1, <2>4, <1>12 DEF r
<1> QED
  BY <1>13, <1>14, <1>15, <1>16

\* Unset, of a mask that holds the first and the last index of its span.
LEMMA UnsetOne ==
    ASSUME NEW m, Sound(m), NEW index \in Indices
    PROVE  /\ Sound(Unset(m, index))
           /\ \A i \in Indices : Holds(Unset(m, index), i) <=> Holds(m, i) /\ i # index
<1> DEFINE t == Turn(m.offset, index)
<1>1. CASE ~IsSet(m)
  <2>1. Unset(m, index) = m
    BY <1>1 DEF Unset
  <2> QED
    BY <1>1, <2>1 DEF Holds
<1>2. CASE IsSet(m) /\ t \in Places /\ t <= Width(m)
  <2>1. Loose(m) /\ HasBit(m, 0) /\ HasBit(m, Width(m))
    BY <1>2 DEF Sound, Loose
  <2> QED
    BY <1>2, <2>1, UnsetIs
<1>3. CASE IsSet(m) /\ ~(t \in Places /\ t <= Width(m))
  <2>1. Loose(m)
    BY <1>3 DEF Sound, Loose
  <2>2. m.offset \in Indices /\ m \in Masks /\ m.start < NumBits /\ m.end < NumBits
    BY <2>1, LooseIs
  <2>3. ~InRange(m, index)
    <3> DEFINE e == Difference(index, m.offset)
    <3>1. e \in Int /\ (0 <= e /\ e < NumBits <=> t \in Places) /\ \A d \in Places : e = d <=> t = d
      BY <2>2, NearDifference
    <3>2. CASE t \notin Places
      BY <3>1, <3>2 DEF InRange, Before
    <3>3. CASE t \in Places /\ ~(t <= Width(m))
      <4>1. e = t /\ (InSpan(m, PlaceAt(m, t)) <=> t <= Width(m))
        BY <3>1, <3>3, <2>2, Ring1
      <4> QED
        BY <4>1, <3>3 DEF InRange
    <3> QED
      BY <3>2, <3>3, <1>3
  <2>4. Unset(m, index) = m
    BY <2>3 DEF Unset
  <2>5. ~Holds(m, index)
    BY <1>3 DEF Holds, HasBit, Sound
  <2>6. \A i \in Indices : Holds(m, i) => i # index
    BY <2>5
  <2> QED
    BY <2>4, <2>6
<1> QED
  BY <1>1, <1>2, <1>3

-----------------------------------------------------------------------------
(* Ranges.                                                                 *)

LEMMA RingIs ==
    ASSUME NEW m \in Masks, m.start < NumBits, NEW c \in Places, NEW u \in Places, c <= u
    PROVE  LET ring == Ring(PlaceAt(m, c), PlaceAt(m, u))
           IN  /\ ring \subseteq Places
               /\ \A d \in Places : PlaceAt(m, d) \in ring <=> c <= d /\ d <= u
<1> DEFINE a == PlaceAt(m, c)
           b == PlaceAt(m, u)
           ring == Ring(a, b)
<1>1. m.start \in Places
  BY Sizes DEF Masks, Places
<1>2. a \in Places /\ b \in Places
  BY <1>1, Sizes DEF PlaceAt, Places
<1>3. ASSUME NEW p \in Int
      PROVE  p \in ring <=> p \in Places /\ (IF b < a THEN p >= a \/ p <= b ELSE a <= p /\ p <= b)
  BY <1>2, Sizes DEF Ring, Places
<1>4. ring \subseteq Places
  BY <1>2, Sizes DEF Ring, Places
<1>5. ASSUME NEW d \in Places PROVE PlaceAt(m, d) \in ring <=> c <= d /\ d <= u
  <2> DEFINE p == PlaceAt(m, d)
  <2>1. p \in Places /\ p \in Int
    BY <1>1, Sizes DEF PlaceAt, Places
  <2>2. (IF b < a THEN p >= a \/ p <= b ELSE a <= p /\ p <= b) <=> c <= d /\ d <= u
    BY <1>1, Sizes DEF PlaceAt, Places
  <2> HIDE DEF a, b, ring, p
  <2>3. p \in ring <=> p \in Places /\ (IF b < a THEN p >= a \/ p <= b ELSE a <= p /\ p <= b)
    BY <2>1, <1>3
  <2> QED
    BY <2>1, <2>2, <2>3 DEF p
<1> QED
  BY <1>4, <1>5 DEF ring, a, b

\* The distances from c to u are set, beyond the end of the span if need be.
Filled(s, c, u) ==
    [s EXCEPT !.bits = @ \cup Ring(PlaceAt(s, c), PlaceAt(s, u)), !.end = EndWith(s, PlaceAt(s, u))]

LEMMA FilledIs ==
    ASSUME NEW s \in Masks, s.start < NumBits, s.end < NumBits,
           \A d \in Places : HasBit(s, d) => d <= Width(s),
           NEW c \in Places, NEW u \in Places, c <= u,
           NEW r, r = Filled(s, c, u)
    PROVE  /\ Loose(r) /\ r.start = s.start /\ r.offset = s.offset
           /\ Width(r) = IF u <= Width(s) THEN Width(s) ELSE u
           /\ \A d \in Places : HasBit(r, d) <=> HasBit(s, d) \/ (c <= d /\ d <= u)
<1> DEFINE ring == Ring(PlaceAt(s, c), PlaceAt(s, u))
           pos == PlaceAt(s, u)
<1>1. ring \subseteq Places /\ \A d \in Places : PlaceAt(s, d) \in ring <=> c <= d /\ d <= u
  BY RingIs
<1>2. /\ pos \in Places /\ (InSpan(s, pos) <=> u <= Width(s))
      /\ Width(s) \in Places /\ PlaceAt(s, Width(s)) = s.end
  BY Ring1
<1> HIDE DEF ring, pos
<1>3. /\ r.start = s.start /\ r.offset = s.offset /\ r.bits = s.bits \cup ring
      /\ r.end = IF u <= Width(s) THEN s.end ELSE pos
      /\ r = [bits |-> r.bits, start |-> r.start, end |-> r.end, offset |-> r.offset]
  BY <1>2 DEF EndWith, Masks, Filled, ring, pos
<1>4. r.end \in 0..NumBits /\ r.end < NumBits
  BY <1>2, <1>3, Sizes DEF Masks, Places
<1>5. r.bits \in SUBSET Places
  BY <1>1, <1>3 DEF Masks
<1>6. r \in Masks
  BY <1>3, <1>4, <1>5 DEF Masks
<1>7. \A d : PlaceAt(r, d) = PlaceAt(s, d)
  BY <1>3 DEF PlaceAt
<1>8. \A d \in Places : HasBit(r, d) <=> HasBit(s, d) \/ (c <= d /\ d <= u)
  BY <1>1, <1>3, <1>7 DEF HasBit
<1>9. Width(r) = IF u <= Width(s) THEN Width(s) ELSE u
  <2>1. Width(r) \in Places /\ PlaceAt(r, Width(r)) = r.end
    BY <1>3, <1>4, <1>6, Ring1
  <2>2. PlaceAt(s, Width(r)) = PlaceAt(s, IF u <= Width(s) THEN Width(s) ELSE u)
    BY <2>1, <1>2, <1>3, <1>7 DEF pos
  <2> QED
    BY <2>1, <2>2, <1>2, Ring1
<1>10. \A d \in Places : HasBit(r, d) => d <= Width(r)
  BY <1>2, <1>8, <1>9, Sizes DEF Places
<1> QED
  BY <1>3, <1>4, <1>6, <1>8, <1>9, <1>10 DEF Loose, IsSet

\* What SetBits does to a mask that is not set.
LEMMA SetBitsFirst ==
    ASSUME NEW m, Sound(m), ~IsSet(m), NEW index \in Indices, NEW count \in 1..NumBits
    PROVE  LET r == SetBits(m, index, count)
           IN  /\ Sound(r) /\ IsSet(r)
               /\ \A i \in Indices : Holds(r, i) <=> Turn(index, i) < count
<1> DEFINE r == SetBits(m, index, count)
<1>1. CanSetBits(m, index, count) /\ count # 0
  BY Sizes DEF CanSetBits
<1>2. r = [bits |-> m.bits \cup 0..(count - 1), start |-> 0, end |-> count - 1, offset |-> index]
  BY <1>1 DEF SetBits
<1> HIDE DEF r
<1>3. m.bits = {}
  BY DEF Sound
<1>4. r.bits = 0..(count - 1) /\ r.start = 0 /\ r.end = count - 1 /\ r.offset = index
  BY <1>2, <1>3
<1>5. r \in Masks /\ IsSet(r) /\ r.end < NumBits
  <2>1. r.bits \in SUBSET Places /\ r.start \in 0..NumBits /\ r.end \in 0..NumBits
          /\ r.start < NumBits /\ r.end < NumBits
    BY <1>4, Sizes DEF Places
  <2> QED
    BY <1>2, <2>1, <1>4 DEF Masks, IsSet
<1>6. Width(r) = count - 1
  BY <1>4, Sizes DEF Width
<1>7. \A d \in Places : HasBit(r, d) <=> d < count
  <2>1. \A d \in Places : PlaceAt(r, d) = d
    BY <1>4, Sizes DEF PlaceAt, Places
  <2>2. \A d \in Places : d \in 0..(count - 1) <=> d < count
    BY Sizes DEF Places
  <2> QED
    BY <2>1, <2>2, <1>4 DEF HasBit
<1>8. Sound(r)
  <2>1. 0 \in Places /\ count - 1 \in Places /\ 0 < count /\ count - 1 < count
    BY Sizes DEF Places
  <2>2. \A d \in Places : d < count => d <= count - 1
    BY Sizes DEF Places
  <2> QED
    BY <2>1, <2>2, <1>5, <1>6, <1>7 DEF Sound
<1>9. ASSUME NEW i \in Indices PROVE Holds(r, i) <=> Turn(index, i) < count
  <2>1. Turn(index, i) \in Indices /\ (Turn(index, i) < count => Turn(index, i) \in Places)
    BY TurnRange, Sizes DEF Places, Indices
  <2> QED
    BY <2>1, <1>4, <1>5, <1>7 DEF Holds, HasBit
<1> QED
  BY <1>5, <1>8, <1>9 DEF r

\* A range that begins at or behind the first index.
LEMMA SetBitsAhead ==
    ASSUME NEW m, Sound(m), IsSet(m), NEW index \in Indices, NEW count \in 1..NumBits,
           Turn(m.offset, index) + count <= NumBits
    PROVE  LET r == SetBits(m, index, count)
           IN  /\ CanSetBits(m, index, count)
               /\ Sound(r) /\ IsSet(r)
               /\ \A i \in Indices : Holds(r, i) <=> Holds(m, i) \/ Turn(index, i) < count
<1> DEFINE r == SetBits(m, index, count)
           last == (index + count - 1) % RangeSize
           t == Turn(m.offset, index)
           u == t + count - 1
<1>1. m \in Masks /\ m.offset \in Indices /\ m.start < NumBits /\ m.end < NumBits
  BY DEF Sound, Masks, IsSet
<1>2. /\ t \in Places /\ u \in Places /\ t <= u /\ count - 1 \in Indices /\ t < NumBits /\ u < NumBits
      /\ ~(t < 0) /\ ~(u < 0) /\ index + (count - 1) = index + count - 1
  <2>1. t \in Indices
    BY <1>1, TurnRange
  <2> QED
    BY <2>1, Sizes DEF Places, Indices
<1>3. last \in Indices /\ Turn(m.offset, last) = u
  <2>1. /\ last \in Indices
        /\ last = IF index + (count - 1) < RangeSize THEN index + (count - 1)
                  ELSE index + (count - 1) - RangeSize
    BY <1>2, StepIs
  <2> HIDE DEF last
  <2> QED
    BY <2>1, <1>1, <1>2, Sizes DEF Turn, Indices, Places
<1>4. Difference(index, m.offset) = t /\ Difference(last, m.offset) = u
  BY <1>1, <1>2, <1>3, NearDifference
<1> HIDE DEF t, u, last
<1>5. CanSet(m, index) /\ CanSet(m, last)
  BY <1>2, <1>4 DEF CanSet, Before
<1>6. CanSetBits(m, index, count)
  BY <1>5 DEF CanSetBits, last
<1>7. (IF u > 0 THEN PlaceAt(m, u) ELSE PlaceBefore(m, -u)) = PlaceAt(m, u)
  <2>1. m.start \in Int /\ 0 <= m.start
    BY <1>1 DEF Masks
  <2> QED
    BY <2>1, <1>1, <1>2, Sizes DEF PlaceAt, PlaceBefore, Places
<1>8. (IF u > 0 THEN EndWith(m, PlaceAt(m, u)) ELSE m.end) = EndWith(m, PlaceAt(m, u))
  <2>1. CASE u > 0
    BY <2>1
  <2>2. CASE ~(u > 0)
    <3>1. u = 0
      BY <2>2, <1>2, Sizes DEF Places
    <3>2. InSpan(m, PlaceAt(m, 0))
      <4>1. 0 <= Width(m)
        BY <1>1, Ring1, Sizes DEF Places
      <4> QED
        BY <4>1, <3>1, <1>1, <1>2, Ring1
    <3> QED
      BY <2>2, <3>1, <3>2 DEF EndWith
  <2> QED
    BY <2>1, <2>2
<1>9. r = Filled(m, t, u)
  <2>1. count # 0
    OBVIOUS
  <2>2. r = [m EXCEPT !.bits = @ \cup Ring(PlaceAt(m, t), IF u > 0 THEN PlaceAt(m, u) ELSE PlaceBefore(m, -u)),
                      !.end = IF u > 0 THEN EndWith(m, IF u > 0 THEN PlaceAt(m, u) ELSE PlaceBefore(m, -u)) ELSE @]
    BY <2>1, <1>2, <1>4, <1>6 DEF SetBits, last
  <2> QED
    BY <2>2, <1>7, <1>8 DEF Filled
<1> HIDE DEF r
<1>10. \A d \in Places : HasBit(m, d) => d <= Width(m)
  BY DEF Sound
<1>11. /\ Loose(r) /\ r.start = m.start /\ r.offset = m.offset
       /\ Width(r) = IF u <= Width(m) THEN Width(m) ELSE u
       /\ \A d \in Places : HasBit(r, d) <=> HasBit(m, d) \/ (t <= d /\ d <= u)
  BY <1>1, <1>2, <1>9, <1>10, FilledIs
<1>12. Sound(r)
  <2>1. HasBit(m, 0) /\ HasBit(m, Width(m))
    BY DEF Sound
  <2>2. HasBit(r, 0) /\ HasBit(r, Width(r))
    BY <2>1, <1>2, <1>11, Sizes DEF HasBit, Places
  <2> QED
    BY <2>2, <1>11 DEF Sound, Loose
<1>13. ASSUME NEW i \in Indices PROVE Holds(r, i) <=> Holds(m, i) \/ Turn(index, i) < count
  <2> DEFINE v == Turn(m.offset, i)
  <2>1. v \in Places /\ t <= v /\ v <= u <=> Turn(index, i) < count
    BY <1>1, <1>2, Sizes DEF t, u, Turn, Indices, Places
  <2>2. HasBit(r, v) <=> HasBit(m, v) \/ (v \in Places /\ t <= v /\ v <= u)
    BY <1>11 DEF HasBit
  <2>3. IsSet(r)
    BY <1>11 DEF Loose
  <2> QED
    BY <2>1, <2>2, <2>3, <1>11 DEF Holds
<1> QED
  BY <1>6, <1>11, <1>12, <1>13 DEF r, Loose

\* A range that begins k before the first index.
LEMMA SetBitsBehind ==
    ASSUME NEW m, Sound(m), IsSet(m), NEW index \in Indices, NEW count \in 1..NumBits,
           Turn(index, m.offset) \in Places, Turn(index, m.offset) # 0,
           Width(m) + Turn(index, m.offset) < NumBits
    PROVE  LET r == SetBits(m, index, count)
           IN  /\ CanSetBits(m, index, count)
               /\ Sound(r) /\ IsSet(r)
               /\ \A i \in Indices : Holds(r, i) <=> Holds(m, i) \/ Turn(index, i) < count
<1> DEFINE r == SetBits(m, index, count)
           last == (index + count - 1) % RangeSize
           k == Turn(index, m.offset)
           u == count - 1
           first == PlaceBefore(m, k)
           s == [m EXCEPT !.start = first, !.offset = index]
<1>1. m \in Masks /\ m.offset \in Indices /\ m.start < NumBits /\ m.end < NumBits
        /\ m.start \in Places /\ Width(m) \in Places
  BY LastIs, Sizes DEF Sound, Masks, IsSet, Places
<1>2. /\ k \in Places /\ k # 0 /\ u \in Places /\ u \in Indices /\ -k < 0 /\ -(-k) = k
      /\ index + u = index + count - 1
      /\ Width(m) + k < NumBits /\ (index + k) % RangeSize = m.offset
  BY <1>1, StepTo, Sizes DEF Places, Indices
<1>3. last \in Indices /\ Turn(index, last) = u /\ Difference(last, index) = u
  <2>1. last \in Indices /\ Turn(index, last) = u
    BY <1>2, StepIs
  <2> HIDE DEF last
  <2> QED
    BY <2>1, <1>2, NearDifference
<1>4. Difference(index, m.offset) = -k
  BY <1>1, <1>2, BackDifference
<1>5. CanSet(m, index)
  BY CanSetBehind
<1>6. CanSet(m, last)
  <2> HIDE DEF last, u, k
  <2>1. CASE u >= k
    <3>1. Turn(m.offset, last) = u - k /\ u - k \in Places
      <4>1. Turn(m.offset, last) = u - k
        BY <2>1, <1>1, <1>3, TurnBetween DEF k
      <4> QED
        BY <4>1, <2>1, <1>2, Sizes DEF Places
    <3> QED
      BY <3>1, <1>1, <1>3, SetAhead
  <2>2. CASE u < k
    <3>1. Turn(last, m.offset) = k - u /\ k - u \in Places /\ k - u # 0
      <4>1. Turn(last, m.offset) = k - u
        BY <2>2, <1>1, <1>3, TurnBetween DEF k
      <4> QED
        BY <4>1, <2>2, <1>2, Sizes DEF Places
    <3>2. Width(m) + (k - u) < NumBits
      BY <1>1, <1>2, Sizes DEF Places
    <3> QED
      BY <3>1, <3>2, <1>1, <1>3, CanSetBehind
  <2> QED
    BY <2>1, <2>2, <1>2, Sizes DEF Places
<1>7. CanSetBits(m, index, count)
  BY <1>5, <1>6 DEF CanSetBits
<1>8. first \in Places
  BY <1>2, PlaceBeforeIs
<1>9. first = IF m.start - k < 0 THEN m.start - k + NumBits ELSE m.start - k
  BY DEF PlaceBefore
<1>22. s = [m EXCEPT !.start = first, !.offset = index]
  OBVIOUS
<1> HIDE DEF k, first, last, u, s
<1>10. /\ s.start = first /\ s.offset = index /\ s.end = m.end /\ s.bits = m.bits
       /\ s \in Masks /\ s.start < NumBits /\ s.end < NumBits
  <2>1. /\ s.start = first /\ s.offset = index /\ s.end = m.end /\ s.bits = m.bits
        /\ s = [bits |-> s.bits, start |-> s.start, end |-> s.end, offset |-> s.offset]
    BY <1>1, <1>22 DEF Masks
  <2>2. s.start \in 0..NumBits /\ s.start < NumBits
    BY <2>1, <1>8, Sizes DEF Places
  <2> QED
    BY <2>1, <2>2, <1>1 DEF Masks
<1>11. (IF u > 0 THEN PlaceAt(s, u) ELSE PlaceBefore(s, -u)) = PlaceAt(s, u)
  <2>1. s.start \in Int /\ 0 <= s.start
    BY <1>8, <1>10, Sizes DEF Places
  <2> QED
    BY <2>1, <1>2, <1>10, Sizes DEF PlaceAt, PlaceBefore, Places
<1>12. (IF u > 0 THEN EndWith(s, PlaceAt(s, u)) ELSE s.end) = EndWith(s, PlaceAt(s, u))
  <2>1. CASE u > 0
    BY <2>1
  <2>2. CASE ~(u > 0)
    <3>1. u = 0
      BY <2>2, <1>2, Sizes DEF Places
    <3>2. InSpan(s, PlaceAt(s, 0))
      <4>1. 0 <= Width(s)
        BY <1>10, Ring1, Sizes DEF Places
      <4> QED
        BY <4>1, <3>1, <1>2, <1>10, Ring1
    <3> QED
      BY <2>2, <3>1, <3>2 DEF EndWith
  <2> QED
    BY <2>1, <2>2
<1>13. PlaceAt(s, 0) = first
  BY <1>10, Ring1
<1>14. r = Filled(s, 0, u)
  <2> DEFINE d == Difference(index, m.offset)
             place == IF d < 0 THEN PlaceBefore(m, -d) ELSE PlaceAt(m, d)
             turned == IF d < 0 THEN [m EXCEPT !.start = place, !.offset = index] ELSE m
             e == Difference(last, turned.offset)
             pos == IF e > 0 THEN PlaceAt(turned, e) ELSE PlaceBefore(turned, -e)
  <2>1. r = [turned EXCEPT !.bits = @ \cup Ring(place, pos),
                           !.end = IF e > 0 THEN EndWith(turned, pos) ELSE @]
    <3>1. count # 0
      OBVIOUS
    <3> QED
      BY <3>1, <1>7 DEF SetBits, last
  <2>2. d < 0 /\ -d = k
    BY <1>2, <1>4
  <2>3. place = first /\ turned = s
    BY <2>2, <1>22 DEF first
  <2>4. e = u
    BY <2>3, <1>3, <1>10
  <2> HIDE DEF turned, place, e, d
  <2>5. pos = PlaceAt(s, u)
    BY <2>3, <2>4, <1>11
  <2> HIDE DEF pos
  <2> QED
    BY <2>1, <2>3, <2>4, <2>5, <1>12, <1>13 DEF Filled
<1> HIDE DEF r
<1>15. Behind(s, m, k)
  <2>1. m.start = PlaceAt(s, k)
    BY <1>1, <1>2, <1>9, <1>10, Sizes DEF PlaceAt, Places
  <2> QED
    BY <2>1, <1>1, <1>2, <1>10 DEF Behind
<1>16. /\ Width(s) = Width(m) + k
       /\ \A d \in Places : PlaceAt(s, d) \in m.bits <=> d >= k /\ HasBit(m, d - k)
       /\ \A i \in Indices : HasBit(m, Turn(m.offset, i)) <=>
                               /\ Turn(s.offset, i) \in Places
                               /\ PlaceAt(s, Turn(s.offset, i)) \in m.bits
  BY <1>2, <1>10, <1>15, BehindSound
<1>17. ASSUME NEW d \in Places, HasBit(s, d) PROVE d <= Width(s)
  <2>1. d >= k /\ HasBit(m, d - k)
    BY <1>10, <1>16, <1>17 DEF HasBit
  <2>2. d - k \in Places /\ d - k <= Width(m)
    BY <2>1 DEF HasBit, Sound
  <2> QED
    BY <2>2, <1>1, <1>2, <1>16, Sizes DEF Places
<1>18. 0 \in Places /\ 0 <= u /\ \A d \in Places : 0 <= d
  BY <1>2, Sizes DEF Places
<1>19. /\ Loose(r) /\ r.start = s.start /\ r.offset = s.offset
       /\ Width(r) = IF u <= Width(s) THEN Width(s) ELSE u
       /\ \A d \in Places : HasBit(r, d) <=> HasBit(s, d) \/ (0 <= d /\ d <= u)
  BY <1>2, <1>10, <1>14, <1>17, <1>18, FilledIs
<1>20. Sound(r)
  <2>1. HasBit(m, Width(m))
    BY DEF Sound
  <2>2. Width(s) \in Places /\ Width(s) >= k /\ Width(s) - k = Width(m)
    BY <1>1, <1>2, <1>16, Sizes DEF Places
  <2>3. HasBit(s, Width(s))
    BY <2>1, <2>2, <1>10, <1>16 DEF HasBit
  <2>4. HasBit(r, 0) /\ HasBit(r, Width(r))
    BY <2>2, <2>3, <1>2, <1>18, <1>19, Sizes DEF Places
  <2> QED
    BY <2>4, <1>19 DEF Sound, Loose
<1>21. ASSUME NEW i \in Indices PROVE Holds(r, i) <=> Holds(m, i) \/ Turn(index, i) < count
  <2> DEFINE v == Turn(index, i)
  <2>1. v \in Indices /\ (v < count => v \in Places)
    <3>1. v \in Indices
      BY TurnRange
    <3> HIDE DEF v
    <3> QED
      BY <3>1, Sizes DEF Places, Indices
  <2>2. v <= u <=> v < count
    BY <2>1 DEF u, Indices
  <2>3. HasBit(r, v) <=> HasBit(s, v) \/ (v \in Places /\ v <= u)
    BY <1>18, <1>19 DEF HasBit
  <2>4. HasBit(s, v) <=> HasBit(m, Turn(m.offset, i))
    BY <1>10, <1>16 DEF HasBit
  <2>5. IsSet(r)
    BY <1>19 DEF Loose
  <2> QED
    BY <2>1, <2>2, <2>3, <2>4, <2>5, <1>10, <1>19 DEF Holds
<1> QED
  BY <1>7, <1>19, <1>20, <1>21 DEF r, Loose

\* What UnsetBits leaves when it has found the first and the last place.
Narrowed(m, first, last) ==
    LET gone == [m EXCEPT !.bits = @ \ Ring(first, last)]
    IN  IF m.start = first /\ m.end = last THEN [gone EXCEPT !.start = NumBits, !.end = NumBits]
        ELSE IF m.start = first THEN Unset(gone, m.offset)
        ELSE IF m.end = last THEN Unset(gone, GetLastSet(m))
        ELSE gone

\* The bits of the distances from c to u are taken, and the span narrowed.
LEMMA UnsetSpan ==
    ASSUME NEW m, Sound(m), IsSet(m), NEW c \in Places, NEW u \in Places, c <= u, u <= Width(m),
           NEW r, r = Narrowed(m, PlaceAt(m, c), PlaceAt(m, u))
    PROVE  /\ Sound(r)
           /\ \A i \in Indices : Holds(r, i) <=>
                 Holds(m, i) /\ ~(c <= Turn(m.offset, i) /\ Turn(m.offset, i) <= u)
<1> DEFINE first == PlaceAt(m, c)
           last == PlaceAt(m, u)
           gone == [m EXCEPT !.bits = @ \ Ring(first, last)]
<1>0. r = IF m.start = first /\ m.end = last THEN [gone EXCEPT !.start = NumBits, !.end = NumBits]
          ELSE IF m.start = first THEN Unset(gone, m.offset)
          ELSE IF m.end = last THEN Unset(gone, GetLastSet(m))
          ELSE gone
  BY DEF Narrowed
<1>1. Loose(m) /\ HasBit(m, 0) /\ HasBit(m, Width(m))
  BY DEF Sound, Loose
<1>2. /\ m \in Masks /\ m.start < NumBits /\ m.end < NumBits /\ m.offset \in Indices
      /\ Width(m) \in Places /\ Bits(m) \subseteq 0..Width(m) /\ m.bits \subseteq Places
  BY <1>1, LooseIs
<1>3. /\ PlaceAt(m, 0) = m.start /\ PlaceAt(m, Width(m)) = m.end
      /\ \A a, b \in Places : PlaceAt(m, a) = PlaceAt(m, b) => a = b
  BY <1>2, Ring1
<1>4. 0 \in Places /\ 0 <= c /\ 0 <= u
  BY Sizes DEF Places
<1>5. (m.start = first <=> c = 0) /\ (m.end = last <=> u = Width(m))
  BY <1>2, <1>3, <1>4
<1>6. \A d \in Places : PlaceAt(m, d) \in Ring(first, last) <=> c <= d /\ d <= u
  BY <1>2, RingIs
<1>7. /\ Loose(gone) /\ gone.start = m.start /\ gone.end = m.end /\ gone.offset = m.offset
      /\ gone.bits = m.bits \ Ring(first, last) /\ Width(gone) = Width(m)
      /\ \A d : HasBit(gone, d) <=> HasBit(m, d) /\ PlaceAt(m, d) \notin Ring(first, last)
  BY <1>1, TakenIs
<1> HIDE DEF first, last, gone
<1>8. \A d : HasBit(gone, d) <=> HasBit(m, d) /\ ~(c <= d /\ d <= u)
  BY <1>6, <1>7 DEF HasBit
<1>9. \A i \in Indices : Holds(gone, i) <=>
           Holds(m, i) /\ ~(c <= Turn(m.offset, i) /\ Turn(m.offset, i) <= u)
  BY <1>7, <1>8 DEF Holds, Loose
<1>10. CASE c = 0 /\ u = Width(m)
  <2>1. r = [gone EXCEPT !.start = NumBits, !.end = NumBits]
    BY <1>0, <1>5, <1>10
  <2>2. gone.bits = {}
    <3>1. ASSUME NEW p \in m.bits PROVE p \in Ring(first, last)
      <4>1. p \in Places
        BY <1>2
      <4>2. PICK d \in Places : p = PlaceAt(m, d)
        BY <4>1, <1>2, Ring1
      <4>3. d \in Bits(m)
        BY <4>2 DEF Bits, HasBit
      <4>4. c <= d /\ d <= u
        BY <4>3, <1>2, <1>10, Sizes DEF Places
      <4> QED
        BY <4>2, <4>4, <1>6
    <3> QED
      BY <3>1, <1>7
  <2>3. r = [gone EXCEPT !.bits = {}, !.start = NumBits, !.end = NumBits]
    <3>1. gone \in Masks
      BY <1>7 DEF Loose
    <3> QED
      BY <3>1, <2>1, <2>2 DEF Masks
  <2>4. Sound(r) /\ \A i : ~Holds(r, i)
    BY <2>3, <1>7, EmptiedIs
  <2>5. \A i : ~Holds(gone, i)
    BY <2>2 DEF Holds, HasBit
  <2> QED
    BY <2>4, <2>5, <1>9
<1>11. CASE c = 0 /\ u # Width(m)
  <2>1. r = Unset(gone, m.offset)
    BY <1>0, <1>5, <1>11
  <2>2. HasBit(gone, Width(gone)) /\ ~HasBit(gone, 0)
    <3>1. ~(Width(m) <= u)
      BY <1>2, <1>11, Sizes DEF Places
    <3> QED
      BY <3>1, <1>1, <1>4, <1>7, <1>8, <1>11
  <2>3. Turn(gone.offset, m.offset) = 0
    BY <1>2, <1>7, TurnRange
  <2>4. 0 <= Width(gone)
    BY <1>2, <1>7, Sizes DEF Places
  <2>5. /\ Sound(r)
        /\ \A i \in Indices : Holds(r, i) <=> Holds(gone, i) /\ i # m.offset
    <3>1. Turn(gone.offset, m.offset) \in Places /\ Turn(gone.offset, m.offset) <= Width(gone)
      BY <2>3, <2>4, <1>4
    <3>2. Loose(gone) /\ m.offset \in Indices
      BY <1>2, <1>7
    <3>3. /\ Turn(gone.offset, m.offset) # 0 => HasBit(gone, 0)
          /\ Turn(gone.offset, m.offset) # Width(gone) => HasBit(gone, Width(gone))
      BY <2>2, <2>3
    <3>4. /\ Sound(Unset(gone, m.offset))
          /\ \A i \in Indices : Holds(Unset(gone, m.offset), i) <=> Holds(gone, i) /\ i # m.offset
      BY ONLY <3>1, <3>2, <3>3, UnsetIs
    <3> QED
      BY <3>4, <2>1
  <2>6. ~Holds(gone, m.offset)
    BY <2>2, <2>3 DEF Holds
  <2> QED
    BY <2>5, <2>6, <1>9
<1>12. CASE c # 0 /\ u = Width(m)
  <2>1. r = Unset(gone, GetLastSet(m))
    BY <1>0, <1>5, <1>12
  <2>2. HasBit(gone, 0) /\ ~HasBit(gone, Width(gone))
    <3>1. ~(c <= 0) /\ u <= u
      BY <1>12, Sizes DEF Places
    <3> QED
      BY <3>1, <1>1, <1>7, <1>8, <1>12
  <2>3. GetLastSet(m) \in Indices /\ Turn(gone.offset, GetLastSet(m)) = Width(gone)
    BY <1>7, LastIs
  <2>4. Width(gone) <= Width(gone) /\ Width(gone) \in Places
    <3>1. Width(m) <= Width(m)
      BY <1>2, Sizes DEF Places
    <3> QED
      BY <3>1, <1>2, <1>7
  <2>5. /\ Sound(r)
        /\ \A i \in Indices : Holds(r, i) <=> Holds(gone, i) /\ i # GetLastSet(m)
    <3>1. /\ Turn(gone.offset, GetLastSet(m)) \in Places
          /\ Turn(gone.offset, GetLastSet(m)) <= Width(gone)
      BY <2>3, <2>4
    <3>2. Loose(gone) /\ GetLastSet(m) \in Indices
      BY <2>3, <1>7
    <3>3. /\ Turn(gone.offset, GetLastSet(m)) # 0 => HasBit(gone, 0)
          /\ Turn(gone.offset, GetLastSet(m)) # Width(gone) => HasBit(gone, Width(gone))
      BY <2>2, <2>3
    <3>4. /\ Sound(Unset(gone, GetLastSet(m)))
          /\ \A i \in Indices : Holds(Unset(gone, GetLastSet(m)), i) <=>
                                   Holds(gone, i) /\ i # GetLastSet(m)
      BY ONLY <3>1, <3>2, <3>3, UnsetIs
    <3> QED
      BY <3>4, <2>1
  <2>6. ~Holds(gone, GetLastSet(m))
    BY <2>2, <2>3 DEF Holds
  <2> QED
    BY <2>5, <2>6, <1>9
<1>13. CASE c # 0 /\ u # Width(m)
  <2>1. r = gone
    BY <1>0, <1>5, <1>13
  <2>2. HasBit(gone, 0) /\ HasBit(gone, Width(gone))
    <3>1. ~(c <= 0) /\ ~(Width(m) <= u)
      BY <1>2, <1>13, Sizes DEF Places
    <3> QED
      BY <3>1, <1>1, <1>7, <1>8
  <2> QED
    BY <2>1, <2>2, <1>7, <1>9 DEF Sound, Loose
<1> QED
  BY <1>10, <1>11, <1>12, <1>13

\* Differences of indices that are seen from a third one.
LEMMA DifferenceFrom ==
    ASSUME NEW o \in Indices, NEW a \in Indices, NEW b \in Indices,
           Turn(o, a) - Turn(o, b) < RangeSign, Turn(o, b) - Turn(o, a) < RangeSign
    PROVE  Difference(a, b) = Turn(o, a) - Turn(o, b)
<1>1. Difference(a, b) = IF Turn(b, a) < RangeSign \/ (Turn(b, a) = RangeSign /\ a > b)
                         THEN Turn(b, a) ELSE Turn(b, a) - RangeSize
  BY DifferenceIs
<1> QED
  BY <1>1, Sizes DEF Turn, Indices

LEMMA SmallerOf ==
    ASSUME NEW a \in Int, NEW b \in Int, a <= b
    PROVE  Min({a, b}) = a
<1>1. \A x \in {a, b} : (\A y \in {a, b} : x <= y) => x = a
  OBVIOUS
<1>2. a \in {a, b} /\ \A y \in {a, b} : a <= y
  OBVIOUS
<1> QED
  BY <1>1, <1>2 DEF Min

\* The place j after the one at distance t.
LEMMA RingStep ==
    ASSUME NEW m \in Masks, m.start < NumBits, NEW t \in Places, NEW j \in Nat, t + j \in Places
    PROVE  (PlaceAt(m, t) + j) % NumBits = PlaceAt(m, t + j)
<1> DEFINE x == PlaceAt(m, t) + j
           y == PlaceAt(m, t + j)
<1>1. m.start \in Places
  BY Sizes DEF Masks, Places
<1>2. x \in Int /\ 0 <= x /\ x < NumBits + NumBits
        /\ y \in Int /\ 0 <= y /\ y < NumBits /\ (x = y \/ x = y + NumBits)
  BY <1>1, Sizes DEF PlaceAt, Places
<1> HIDE DEF x, y
<1>3. x % NumBits = y
  <2>1. CASE x = y
    BY <2>1, <1>2, Sizes, Wrapped
  <2>2. CASE x = y + NumBits
    <3>1. NumBits <= x /\ x - NumBits = y
      BY <2>2, <1>2, Sizes
    <3>2. x % NumBits = x - NumBits
      BY <3>1, <1>2, Sizes, Wrapped
    <3> QED
      BY <3>1, <3>2
  <2> QED
    BY <2>1, <2>2, <1>2
<1> QED
  BY <1>3 DEF x, y

\* The end of a range of indices.
LEMMA RangeEnd ==
    ASSUME NEW index \in Indices, NEW count \in 1..NumBits
    PROVE  /\ (index + count - 1) % RangeSize \in Indices
           /\ Turn(index, (index + count - 1) % RangeSize) = count - 1
<1>1. count - 1 \in Indices /\ index + (count - 1) = index + count - 1
  BY Sizes DEF Indices
<1> QED
  BY <1>1, StepIs

\* A range that begins in the span.
LEMMA UnsetBitsInside ==
    ASSUME NEW m, Sound(m), IsSet(m), NEW index \in Indices, NEW count \in 1..NumBits,
           Turn(m.offset, index) <= Width(m)
    PROVE  LET r == UnsetBits(m, index, count)
           IN  /\ Sound(r)
               /\ \A i \in Indices : Holds(r, i) <=> Holds(m, i) /\ ~(Turn(index, i) < count)
<1> DEFINE r == UnsetBits(m, index, count)
           w == Width(m)
           final == (index + count - 1) % RangeSize
           t == Turn(m.offset, index)
           u == IF t + count - 1 < w THEN t + count - 1 ELSE w
           first == PlaceAt(m, t)
           last == IF Difference(final, GetLastSet(m)) < 0 THEN (first + count - 1) % NumBits ELSE m.end
<1>1. /\ m \in Masks /\ m.offset \in Indices /\ m.start < NumBits /\ m.end < NumBits
      /\ m.start \in Places /\ w \in Places
      /\ GetLastSet(m) \in Indices /\ Turn(m.offset, GetLastSet(m)) = w
  BY LastIs, Sizes DEF Sound, Masks, IsSet, Places
<1>2. t \in Indices
  BY <1>1, TurnRange
<1>3. t \in Places /\ t <= w /\ u \in Places /\ t <= u /\ u <= w /\ 0 <= t
  <2> HIDE DEF t, w
  <2> QED
    BY <1>1, <1>2, Sizes DEF Places, Indices, t, w
<1>4. Difference(index, m.offset) = t /\ -Difference(index, m.offset) = -t /\ -(-t) = t
  <2>1. Difference(index, m.offset) = t
    BY <1>1, <1>3, NearDifference
  <2> HIDE DEF t
  <2> QED
    BY <2>1, <1>3, Sizes DEF Places
<1>5. final \in Indices /\ Turn(index, final) = count - 1
  BY RangeEnd
<1>6. Difference(final, GetLastSet(m)) = t + count - 1 - w
  <2> HIDE DEF final, w
  <2>1. Turn(m.offset, final) = t + count - 1
    BY <1>1, <1>3, <1>5, Sizes DEF t, Turn, Indices, Places
  <2> HIDE DEF t
  <2>2. /\ t + count - 1 - w < RangeSign /\ w - (t + count - 1) < RangeSign
    BY <1>1, <1>3, Sizes DEF Places
  <2>3. /\ Turn(m.offset, final) - Turn(m.offset, GetLastSet(m)) < RangeSign
        /\ Turn(m.offset, GetLastSet(m)) - Turn(m.offset, final) < RangeSign
    BY <2>1, <2>2, <1>1, <1>3, Sizes DEF Places
  <2>4. Difference(final, GetLastSet(m)) = Turn(m.offset, final) - Turn(m.offset, GetLastSet(m))
    BY <2>3, <1>1, <1>5, DifferenceFrom
  <2> QED
    BY <2>1, <2>4, <1>1, <1>3, Sizes DEF Places
<1>7. Min({count, NumBits}) = count
  BY SmallerOf, Sizes
<1>8. last = PlaceAt(m, u)
  <2> HIDE DEF final, t
  <2>1. CASE t + count - 1 < w
    <3>1. last = (PlaceAt(m, t) + count - 1) % NumBits
      <4>1. t + count - 1 - w < 0
        BY <2>1, <1>1, <1>3, Sizes DEF Places
      <4> QED
        BY <4>1, <1>6
    <3>7. (PlaceAt(m, t) + count - 1) % NumBits = PlaceAt(m, t + count - 1)
      <4>1. count - 1 \in Nat /\ t + (count - 1) \in Places /\ t + (count - 1) = t + count - 1
              /\ PlaceAt(m, t) + (count - 1) = PlaceAt(m, t) + count - 1
        BY <2>1, <1>1, <1>3, Ring1, Sizes DEF Places
      <4>2. (PlaceAt(m, t) + (count - 1)) % NumBits = PlaceAt(m, t + (count - 1))
        BY <4>1, <1>1, <1>3, RingStep
      <4> QED
        BY <4>1, <4>2
    <3>8. u = t + count - 1
      BY <2>1
    <3> QED
      BY <3>1, <3>7, <3>8
  <2>2. CASE ~(t + count - 1 < w)
    <3>1. ~(t + count - 1 - w < 0)
      BY <2>2, <1>1, <1>3, Sizes DEF Places
    <3>2. last = m.end /\ u = w
      BY <3>1, <2>2, <1>6
    <3> QED
      BY <3>2, <1>1, Ring1
  <2> QED
    BY <2>1, <2>2
<1>9. r = Narrowed(m, first, last)
  <2>1. ~(-t > 0) /\ ~(t >= NumBits) /\ ~(count <= 0)
    <3> HIDE DEF t
    <3> QED
      BY <1>3, Sizes DEF Places
  <2> HIDE DEF t
  <2> QED
    BY <2>1, <1>4, <1>7 DEF UnsetBits, Narrowed, t
<1> HIDE DEF r
<1>10. /\ Sound(r)
       /\ \A i \in Indices : Holds(r, i) <=>
             Holds(m, i) /\ ~(t <= Turn(m.offset, i) /\ Turn(m.offset, i) <= u)
  <2>1. r = Narrowed(m, PlaceAt(m, t), PlaceAt(m, u))
    BY <1>8, <1>9
  <2>2. u <= Width(m)
    BY <1>3
  <2> HIDE DEF t, u, w
  <2> QED
    BY <2>1, <2>2, <1>3, UnsetSpan
<1>11. ASSUME NEW i \in Indices, Holds(m, i)
       PROVE  Turn(index, i) < count <=> t <= Turn(m.offset, i) /\ Turn(m.offset, i) <= u
  <2>1. Turn(m.offset, i) \in Places /\ Turn(m.offset, i) <= w
    BY <1>11 DEF Holds, HasBit, Sound
  <2> HIDE DEF w
  <2> QED
    BY <2>1, <1>1, <1>3, Sizes DEF t, Turn, Indices, Places
<1> QED
  BY <1>10, <1>11 DEF r

\* A range that begins before the first index and ends in the span.
LEMMA UnsetBitsOver ==
    ASSUME NEW m, Sound(m), IsSet(m), NEW index \in Indices, NEW count \in 1..NumBits,
           Turn(index, m.offset) \in Places, Turn(index, m.offset) # 0, Turn(index, m.offset) < count,
           Difference(index, GetLastSet(m)) <= 0,
           count - 1 - Turn(index, m.offset) <= Width(m)
    PROVE  LET r == UnsetBits(m, index, count)
           IN  /\ Sound(r)
               /\ \A i \in Indices : Holds(r, i) <=> Holds(m, i) /\ ~(Turn(index, i) < count)
<1> DEFINE r == UnsetBits(m, index, count)
           w == Width(m)
           k == Turn(index, m.offset)
           n == count - k
           final == (index + n - 1) % RangeSize
           last == IF Difference(final, GetLastSet(m)) < 0 THEN (m.start + n - 1) % NumBits ELSE m.end
<1>1. /\ m \in Masks /\ m.offset \in Indices /\ m.start < NumBits /\ m.end < NumBits
      /\ m.start \in Places /\ w \in Places
      /\ GetLastSet(m) \in Indices /\ Turn(m.offset, GetLastSet(m)) = w
  BY LastIs, Sizes DEF Sound, Masks, IsSet, Places
<1>2. /\ k \in Places /\ k # 0 /\ n \in 1..NumBits /\ n - 1 \in Places /\ n - 1 <= w /\ 0 \in Places
      /\ n < count /\ ~(n <= 0) /\ k > 0 /\ -(-k) = k /\ ~(-k >= NumBits)
  <2>1. k \in Places /\ k # 0 /\ k < count /\ count - 1 - k <= w
    OBVIOUS
  <2> HIDE DEF k, w
  <2> QED
    BY <2>1, Sizes DEF Places
<1>3. -Difference(index, m.offset) = k
  <2>1. Difference(index, m.offset) = -k
    BY <1>1, <1>2, BackDifference
  <2> HIDE DEF k
  <2> QED
    BY <2>1, <1>2
<1>4. final \in Indices /\ Turn(index, final) = n - 1
  <2> HIDE DEF n
  <2> QED
    BY <1>2, RangeEnd
<1>5. Difference(final, GetLastSet(m)) < 0
  <2> HIDE DEF final, n, w
  <2> DEFINE l == GetLastSet(m)
  <2>1. Turn(index, l) = k + w
    BY <1>1, <1>2, Sizes DEF Turn, Indices, Places
  <2>2. l \in Indices /\ Difference(index, l) <= 0
    BY <1>1
  <2> HIDE DEF l, k
  <2>3. Turn(l, index) = RangeSize - (k + w)
    BY <2>1, <2>2, <1>1, <1>2, Sizes DEF Turn, Indices, Places
  <2>4. k + w <= RangeSign /\ (k + w = RangeSign => ~(index > l))
    BY <2>2, <2>3, <1>1, <1>2, DifferenceIs, Sizes DEF Places
  <2>5. Turn(l, final) = RangeSize - (k + w - (n - 1))
    BY <2>1, <2>2, <1>1, <1>2, <1>4, Sizes DEF Turn, Indices, Places
  <2>6. n - 1 = 0 => final = index
    BY <1>4, TurnRange
  <2>7. n - 1 = 0 \/ n - 1 >= 1
    BY <1>2, Sizes DEF Places
  <2>8. ~(Turn(l, final) < RangeSign \/ (Turn(l, final) = RangeSign /\ final > l))
    BY <2>4, <2>5, <2>6, <2>7, <1>1, <1>2, Sizes DEF Places
  <2>9. Difference(final, l) = Turn(l, final) - RangeSize
    BY <2>2, <2>8, <1>4, DifferenceIs
  <2> QED
    BY <2>9, <2>5, <1>1, <1>2, Sizes DEF l, Places
<1>6. Min({count, NumBits}) = count
  BY SmallerOf, Sizes
<1>7. last = PlaceAt(m, n - 1)
  <2> HIDE DEF final, n
  <2>1. last = (m.start + n - 1) % NumBits
    BY <1>5
  <2>2. /\ PlaceAt(m, 0) = m.start /\ n - 1 \in Nat /\ 0 + (n - 1) = n - 1
        /\ m.start + (n - 1) = m.start + n - 1
    BY <1>1, <1>2, Ring1, Sizes DEF Places
  <2>3. (PlaceAt(m, 0) + (n - 1)) % NumBits = PlaceAt(m, 0 + (n - 1))
    BY <2>2, <1>1, <1>2, RingStep
  <2> QED
    BY <2>1, <2>2, <2>3
<1>8. r = Narrowed(m, m.start, last)
  <2> HIDE DEF k
  <2> QED
    BY <1>2, <1>3, <1>6 DEF UnsetBits, Narrowed
<1> HIDE DEF r
<1>9. /\ Sound(r)
      /\ \A i \in Indices : Holds(r, i) <=>
            Holds(m, i) /\ ~(0 <= Turn(m.offset, i) /\ Turn(m.offset, i) <= n - 1)
  <2>1. r = Narrowed(m, PlaceAt(m, 0), PlaceAt(m, n - 1))
    BY <1>1, <1>7, <1>8, Ring1
  <2>2. 0 <= n - 1 /\ n - 1 <= Width(m)
    BY <1>2, Sizes DEF Places
  <2> HIDE DEF n, w
  <2> QED
    BY <2>1, <2>2, <1>2, UnsetSpan
<1>10. ASSUME NEW i \in Indices, Holds(m, i)
       PROVE  Turn(index, i) < count <=> 0 <= Turn(m.offset, i) /\ Turn(m.offset, i) <= n - 1
  <2>1. Turn(m.offset, i) \in Places
    BY <1>10 DEF Holds, HasBit
  <2> QED
    BY <2>1, <1>1, <1>2, Sizes DEF Turn, Indices, Places
<1> QED
  BY <1>9, <1>10 DEF r

\* A range that lies before the first index, or out of the mask's reach.
LEMMA UnsetBitsAway ==
    ASSUME NEW m, Sound(m), NEW index \in Indices, NEW count \in 0..NumBits,
           \/ ~IsSet(m) \/ count = 0
           \/ Difference(index, m.offset) >= NumBits
           \/ Difference(index, m.offset) < 0 /\ Difference(index, m.offset) + count <= 0
    PROVE  /\ UnsetBits(m, index, count) = m
           /\ \A i \in Indices : Holds(m, i) => ~(Turn(index, i) < count)
<1> DEFINE d == Difference(index, m.offset)
<1>1. m.offset \in Indices /\ d \in Int /\ Turn(m.offset, index) \in Indices
  BY NearDifference, TurnRange DEF Sound, Masks
<1>2. Min({count, NumBits}) = count
  BY SmallerOf, Sizes
<1>3. ASSUME IsSet(m), count # 0, NEW i \in Indices, Holds(m, i), Turn(index, i) < count PROVE FALSE
  <2>1. Turn(m.offset, i) \in Places
    BY <1>3 DEF Holds, HasBit
  <2>2. d >= NumBits \/ (d < 0 /\ d + count <= 0)
    BY <1>3
  <2>3. d = IF Turn(m.offset, index) < RangeSign \/ (Turn(m.offset, index) = RangeSign /\ index > m.offset)
            THEN Turn(m.offset, index) ELSE Turn(m.offset, index) - RangeSize
    BY <1>1, DifferenceIs
  <2>4. Turn(m.offset, i) = Turn(m.offset, index) + Turn(index, i)
          \/ Turn(m.offset, i) = Turn(m.offset, index) + Turn(index, i) - RangeSize
    BY <1>1, Sizes DEF Turn, Indices
  <2>5. Turn(index, i) \in Indices /\ Turn(index, i) < NumBits
    BY <1>3, TurnRange, Sizes DEF Indices
  <2> HIDE DEF d
  <2>6. CASE d >= NumBits
    <3>1. Turn(m.offset, index) = d \/ Turn(m.offset, index) - RangeSize = d
      BY <2>3
    <3>2. Turn(m.offset, index) >= NumBits /\ Turn(m.offset, index) <= RangeSign
      BY <3>1, <2>3, <2>6, <1>1, Sizes DEF Indices
    <3> QED
      BY <3>2, <2>1, <2>4, <2>5, <1>1, Sizes DEF Indices, Places
  <2>7. CASE d < 0 /\ d + count <= 0
    <3>1. Turn(m.offset, index) = d + RangeSize /\ Turn(m.offset, index) >= RangeSign
      BY <2>3, <2>7, <1>1, Sizes DEF Indices
    <3> QED
      BY <3>1, <2>1, <2>4, <2>5, <2>7, <1>1, <1>3, Sizes DEF Indices, Places
  <2> QED
    BY <2>2, <2>6, <2>7
<1>4. UnsetBits(m, index, count) = m
  <2>1. CASE ~IsSet(m)
    BY <2>1 DEF UnsetBits
  <2>2. CASE IsSet(m)
    <3>1. \/ d >= NumBits
          \/ ~(-d > 0) /\ count <= 0
          \/ -d > 0 /\ count - (-d) <= 0
      <4>1. count = 0 \/ d >= NumBits \/ (d < 0 /\ d + count <= 0)
        BY <2>2
      <4> HIDE DEF d
      <4> QED
        BY <4>1, <1>1, Sizes
    <3>2. -(-d) = d
      <4> HIDE DEF d
      <4> QED
        BY <1>1
    <3> HIDE DEF d
    <3> QED
      BY <2>2, <3>1, <3>2, <1>2 DEF UnsetBits, d
  <2> QED
    BY <2>1, <2>2
<1>5. ASSUME NEW i \in Indices, Holds(m, i), Turn(index, i) < count PROVE FALSE
  <2>1. CASE count = 0
    BY <1>5, <2>1, TurnRange, Sizes DEF Indices
  <2>2. CASE count # 0
    BY <2>2, <1>3, <1>5 DEF Holds
  <2> QED
    BY <2>1, <2>2
<1> QED
  BY <1>4, <1>5

\* Reset and Clear.
LEMMA FullIs ==
    ASSUME NEW index \in Indices
    PROVE  /\ Sound(Full(index)) /\ IsSet(Full(index))
           /\ \A i \in Indices : Holds(Full(index), i) <=> Turn(index, i) < NumBits
           /\ Sound(Cleared) /\ ~IsSet(Cleared)
<1> DEFINE r == Full(index)
<1>1. /\ r.bits = Places /\ r.start = 0 /\ r.end = NumBits - 1 /\ r.offset = index
      /\ r \in Masks
  BY Sizes DEF Full, Masks, Places
<1>2. IsSet(r) /\ Width(r) = NumBits - 1 /\ r.end < NumBits
  BY <1>1, Sizes DEF IsSet, Width
<1>3. \A d : HasBit(r, d) <=> d \in Places
  <2>1. \A d \in Places : PlaceAt(r, d) = d
    BY <1>1, Sizes DEF PlaceAt, Places
  <2> QED
    BY <2>1, <1>1 DEF HasBit
<1>4. Sound(r)
  BY <1>1, <1>2, <1>3, Sizes DEF Sound, Places
<1>5. \A i \in Indices : Holds(r, i) <=> Turn(index, i) < NumBits
  BY <1>1, <1>2, <1>3, TurnRange, Sizes DEF Holds, Places, Indices
<1>6. Cleared \in Masks
  BY Sizes DEF Cleared, Masks, Indices
<1>7. Sound(Cleared) /\ ~IsSet(Cleared)
  BY <1>6, Sizes DEF Sound, Cleared, IsSet
<1> QED
  BY <1>2, <1>4, <1>5, <1>7
=============================================================================

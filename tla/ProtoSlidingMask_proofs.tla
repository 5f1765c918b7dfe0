---------------------- MODULE ProtoSlidingMask_proofs ----------------------
(***************************************************************************)
(* Theorems about ProtoSlidingMask: under every sequence of the calls that *)
(* the class allows, the mask holds exactly what was set, and its searches *)
(* find the nearest of it, wherever it wraps around and whatever its size, *)
(* in a range that is at least about three times as large (RangeIsWide).   *)
(***************************************************************************)
EXTENDS ProtoSlidingMask, SlidingMask_proofs

\* A range that is agreed to ends within the first index's half of the circle.
\* In a smaller one SetBits accepts a range around its far side: its end, seen
\* from the first index, lies before that one and has a place.
RangeIsWide == 3 * NumBits - 2 <= RangeSize

\* The mask is sound and holds the members: this is what every step keeps.
IInv ==
    /\ Sound(mask)
    /\ members = {i \in Indices : Holds(mask, i)}

-----------------------------------------------------------------------------
(* What fits into a mask.                                                  *)

LEMMA NearIs ==
    ASSUME NEW a \in Indices, NEW b \in Indices
    PROVE  Turn(a, b) \in Int /\ 0 <= Turn(a, b) /\ (Turn(a, b) \in Places <=> Turn(a, b) < NumBits)
<1>1. Turn(a, b) \in Indices
  BY TurnRange
<1> QED
  BY <1>1, Sizes DEF Places, Indices

LEMMA BlockIs ==
    ASSUME NEW index \in Indices, NEW count \in 0..NumBits
    PROVE  Block(index, count) = {i \in Indices : Turn(index, i) < count}
<1>1. ASSUME NEW n \in 0..(count - 1)
      PROVE  (index + n) % RangeSize \in Indices /\ Turn(index, (index + n) % RangeSize) < count
  <2>1. n \in Indices /\ n < count
    BY Sizes DEF Indices
  <2> QED
    BY <2>1, StepIs
<1>2. ASSUME NEW i \in Indices, Turn(index, i) < count
      PROVE  Turn(index, i) \in 0..(count - 1) /\ (index + Turn(index, i)) % RangeSize = i
  <2>1. Turn(index, i) \in Indices /\ (index + Turn(index, i)) % RangeSize = i
    BY TurnRange, StepTo
  <2> QED
    BY <2>1, <1>2, Sizes DEF Indices
<1> QED
  BY <1>1, <1>2 DEF Block

LEMMA FitsIs ==
    ASSUME NEW X \in SUBSET Indices
    PROVE  Fits(X) <=> \E first \in Indices : \A x \in X : Turn(first, x) < NumBits
<1>1. NumBits \in 0..NumBits
  BY Sizes
<1>2. \A first \in Indices : X \subseteq Block(first, NumBits) <=> \A x \in X : Turn(first, x) < NumBits
  BY <1>1, BlockIs
<1> QED
  BY <1>2 DEF Fits

LEMMA HeldFits ==
    ASSUME NEW m, Sound(m)
    PROVE  Fits({i \in Indices : Holds(m, i)})
<1>1. m.offset \in Indices
  BY DEF Sound, Masks
<1>2. \A i \in {j \in Indices : Holds(m, j)} : Turn(m.offset, i) < NumBits
  BY Sizes DEF Holds, HasBit, Places
<1> QED
  BY <1>1, <1>2, FitsIs

\* There is a place for the index, from the first one on or before it.
Settable(m, x) ==
    \/ Turn(m.offset, x) < NumBits
    \/ Turn(x, m.offset) < NumBits /\ Width(m) + Turn(x, m.offset) < NumBits

LEMMA CanSetIs ==
    ASSUME NEW m, Sound(m), IsSet(m), NEW x \in Indices, Difference(x, m.offset) > -NumBits
    PROVE  CanSet(m, x) <=> Settable(m, x)
<1>1. m.offset \in Indices /\ Width(m) \in Places
  BY LastIs
<1>2. /\ Difference(x, m.offset) \in Int
      /\ 0 <= Difference(x, m.offset) /\ Difference(x, m.offset) < NumBits <=> Turn(m.offset, x) \in Places
  BY <1>1, NearDifference
<1>3. /\ Turn(m.offset, x) \in Int /\ Turn(x, m.offset) \in Int
      /\ Turn(m.offset, x) \in Places <=> Turn(m.offset, x) < NumBits
  BY <1>1, NearIs
<1>4. CASE Difference(x, m.offset) < 0
  <2>1. Turn(x, m.offset) \in Places /\ Turn(x, m.offset) # 0 /\ Turn(m.offset, x) \notin Places
    BY <1>1, <1>4, BackDifference
  <2>2. CanSet(m, x) <=> Width(m) + Turn(x, m.offset) < NumBits
    BY <2>1, CanSetBehind
  <2> QED
    BY <2>1, <2>2, <1>3, Sizes DEF Settable, Places
<1>5. CASE Difference(x, m.offset) >= 0
  <2>1. CanSet(m, x) <=> Turn(m.offset, x) < NumBits
    BY <1>2, <1>3, <1>5, Sizes DEF CanSet, Before
  <2>2. ASSUME Turn(m.offset, x) >= NumBits PROVE ~(Turn(x, m.offset) < NumBits)
    <3>1. Difference(x, m.offset) = Turn(m.offset, x) /\ Turn(m.offset, x) <= RangeSign
      <4>1. Difference(x, m.offset) =
               IF Turn(m.offset, x) < RangeSign \/ (Turn(m.offset, x) = RangeSign /\ x > m.offset)
               THEN Turn(m.offset, x) ELSE Turn(m.offset, x) - RangeSize
        BY <1>1, DifferenceIs
      <4>2. Turn(m.offset, x) \in Indices
        BY <1>1, TurnRange
      <4> QED
        BY <4>1, <4>2, <1>5, Sizes DEF Indices
    <3> QED
      BY <3>1, <2>2, <1>1, Sizes DEF Turn, Indices
  <2> QED
    BY <2>1, <2>2, <1>3, Sizes DEF Settable
<1> QED
  BY <1>2, <1>4, <1>5

\* With an index that has no place, the members do not fit.
LEMMA TooFar ==
    ASSUME NEW m, Sound(m), IsSet(m), NEW x \in Indices, ~Settable(m, x),
           NEW X \in SUBSET Indices, \A i \in Indices : Holds(m, i) => i \in X, x \in X
    PROVE  ~Fits(X)
<1>1. /\ m.offset \in Indices /\ Width(m) \in Places
      /\ GetLastSet(m) \in Indices /\ Turn(m.offset, GetLastSet(m)) = Width(m)
  BY LastIs
<1>2. Holds(m, m.offset) /\ Holds(m, GetLastSet(m))
  BY <1>1, TurnRange DEF Holds, Sound
<1> SUFFICES ASSUME NEW first \in Indices, \A i \in X : Turn(first, i) < NumBits
             PROVE  FALSE
  BY FitsIs
<1> DEFINE o == m.offset
           l == GetLastSet(m)
<1>3. Turn(first, o) < NumBits /\ Turn(first, l) < NumBits /\ Turn(first, x) < NumBits
  BY <1>1, <1>2
<1>4. o \in Indices /\ l \in Indices /\ Turn(o, l) = Width(m)
  BY <1>1
<1>5. ~(Turn(o, x) < NumBits) /\ ~(Turn(x, o) < NumBits /\ Turn(o, l) + Turn(x, o) < NumBits)
  BY <1>4 DEF Settable
<1> HIDE DEF o, l
<1> QED
  BY <1>3, <1>4, <1>5, <1>1, Sizes DEF Turn, Indices, Places

-----------------------------------------------------------------------------
(* The steps.                                                              *)

\* The members are the indices of a mask, and there are none if it is not set.
LEMMA HeldBy ==
    ASSUME NEW m, Sound(m)
    PROVE  IsSet(m) <=> {i \in Indices : Holds(m, i)} # {}
<1>1. ASSUME IsSet(m) PROVE Holds(m, m.offset) /\ m.offset \in Indices
  BY <1>1, LastIs, TurnRange DEF Holds, Sound
<1> QED
  BY <1>1 DEF Holds

\* What the steps know of the mask and the members.
LEMMA Known ==
    ASSUME IInv
    PROVE  /\ Sound(mask) /\ mask \in Masks /\ mask.offset \in Indices
           /\ members \in SUBSET Indices
           /\ members = {i \in Indices : Holds(mask, i)}
           /\ IsSet(mask) <=> members # {}
           /\ Fits(members)
BY HeldBy, HeldFits DEF IInv, Sound, Masks

LEMMA SetIndexKeeps ==
    ASSUME IInv, NEW index \in Indices, SetIndex(index)
    PROVE  IInv'
<1> DEFINE r == Set(mask, index)
           X == members \cup {index}
<1>1. mask' = r /\ members' = IF Fits(X) THEN X ELSE members
  BY DEF SetIndex, With
<1>2. IsSet(mask) => Difference(index, mask.offset) > -NumBits
  BY Known DEF SetIndex, InReach
<1>3. X \in SUBSET Indices /\ index \in X /\ \A i \in Indices : Holds(mask, i) => i \in X
  BY Known
<1>4. CASE ~IsSet(mask)
  <2>1. Sound(r) /\ \A i \in Indices : Holds(r, i) <=> i = index
    BY <1>4, Known, SetFirst
  <2>2. X = {i \in Indices : Holds(r, i)}
    BY <1>4, <2>1, Known
  <2>3. Fits(X)
    BY <2>1, <2>2, HeldFits
  <2> QED
    BY <1>1, <2>1, <2>2, <2>3 DEF IInv
<1>5. CASE IsSet(mask) /\ Settable(mask, index)
  <2>1. Sound(r) /\ \A i \in Indices : Holds(r, i) <=> Holds(mask, i) \/ i = index
    <3>1. CASE Turn(mask.offset, index) < NumBits
      <4>1. Turn(mask.offset, index) \in Places
        BY <3>1, Known, NearIs
      <4> QED
        BY <4>1, <1>5, Known, SetAhead
    <3>2. CASE ~(Turn(mask.offset, index) < NumBits)
      <4>1. Turn(index, mask.offset) < NumBits /\ Width(mask) + Turn(index, mask.offset) < NumBits
        BY <3>2, <1>5 DEF Settable
      <4>2. Turn(index, mask.offset) \in Places /\ Turn(index, mask.offset) # 0
        <5>1. Turn(index, mask.offset) = 0 => Turn(mask.offset, index) = 0
          BY Known, TurnRange
        <5> QED
          BY <5>1, <3>2, <4>1, Known, NearIs, Sizes
      <4> QED
        BY <4>1, <4>2, <1>5, Known, SetBehind
    <3> QED
      BY <3>1, <3>2
  <2>2. X = {i \in Indices : Holds(r, i)}
    BY <2>1, Known
  <2>3. Fits(X)
    BY <2>1, <2>2, HeldFits
  <2> QED
    BY <1>1, <2>1, <2>2, <2>3 DEF IInv
<1>6. CASE IsSet(mask) /\ ~Settable(mask, index)
  <2>1. r = mask
    <3>1. ~CanSet(mask, index)
      BY <1>2, <1>6, Known, CanSetIs
    <3> QED
      BY <3>1, <1>6 DEF Set
  <2>2. ~Fits(X)
    BY <1>3, <1>6, Known, TooFar
  <2> QED
    BY <1>1, <2>1, <2>2 DEF IInv
<1> QED
  BY <1>4, <1>5, <1>6

LEMMA SetRangeKeeps ==
    ASSUME IInv, RangeIsWide, NEW index \in Indices, NEW count \in 0..NumBits, SetRange(index, count)
    PROVE  IInv'
<1> DEFINE r == SetBits(mask, index, count)
           X == members \cup Block(index, count)
           last == (index + count - 1) % RangeSize
<1>1. mask' = r /\ members' = IF Fits(X) THEN X ELSE members
  BY DEF SetRange, With
<1>2. IsSet(mask) => /\ Difference(index, mask.offset) > -NumBits
                     /\ Difference(last, mask.offset) > -NumBits
  BY Known DEF SetRange, InReach
<1>3. Block(index, count) = {i \in Indices : Turn(index, i) < count}
  BY BlockIs
<1> HIDE DEF r, last
<1>4. X \in SUBSET Indices /\ \A i \in Indices : Holds(mask, i) => i \in X
  BY <1>3, Known
<1>5. ASSUME Sound(r), \A i \in Indices : Holds(r, i) <=> Holds(mask, i) \/ Turn(index, i) < count
      PROVE  IInv'
  <2>1. X = {i \in Indices : Holds(r, i)}
    BY <1>3, <1>5, Known
  <2>2. Fits(X)
    BY <1>5, <2>1, HeldFits
  <2> QED
    BY <1>1, <1>5, <2>1, <2>2 DEF IInv
<1>6. CASE count = 0
  <2>1. r = mask
    BY <1>6 DEF r, SetBits
  <2>2. \A i \in Indices : ~(Turn(index, i) < count)
    BY <1>6, TurnRange, Sizes DEF Indices
  <2> QED
    BY <1>5, <2>1, <2>2, Known
<1>7. CASE count # 0 /\ ~IsSet(mask)
  <2>1. count \in 1..NumBits
    BY <1>7, Sizes
  <2>2. Sound(r) /\ \A i \in Indices : Holds(r, i) <=> Turn(index, i) < count
    BY <2>1, <1>7, Known, SetBitsFirst DEF r
  <2> QED
    BY <2>2, <1>5, <1>7 DEF Holds
<1>8. CASE /\ count # 0 /\ IsSet(mask)
           /\ Turn(mask.offset, index) + count <= NumBits
  <2>1. count \in 1..NumBits
    BY <1>8, Sizes
  <2> QED
    BY <2>1, <1>5, <1>8, Known, SetBitsAhead DEF r
<1>9. CASE /\ count # 0 /\ IsSet(mask)
           /\ Turn(index, mask.offset) # 0
           /\ Turn(index, mask.offset) < NumBits /\ Width(mask) + Turn(index, mask.offset) < NumBits
  <2>1. count \in 1..NumBits
    BY <1>9, Sizes
  <2>2. Turn(index, mask.offset) \in Places
    BY <1>9, Known, NearIs
  <2> QED
    BY <2>1, <2>2, <1>5, <1>9, Known, SetBitsBehind DEF r
<1>10. CASE /\ count # 0 /\ IsSet(mask)
            /\ ~(Turn(mask.offset, index) + count <= NumBits)
            /\ ~(/\ Turn(index, mask.offset) # 0 /\ Turn(index, mask.offset) < NumBits
                 /\ Width(mask) + Turn(index, mask.offset) < NumBits)
  <2>1. count \in 1..NumBits
    BY <1>10, Sizes
  <2>2. last \in Indices /\ Turn(index, last) = count - 1
    BY <2>1, RangeEnd DEF last
  <2>3. index \in X /\ last \in X
    <3>1. Turn(index, index) = 0
      BY TurnRange
    <3> QED
      BY <3>1, <2>1, <2>2, <1>3, Sizes
  <2>4. ~Settable(mask, index) \/ ~Settable(mask, last)
    <3> DEFINE o == mask.offset
               w == Width(mask)
    <3>1. o \in Indices /\ w \in Places
      BY <1>10, Known, LastIs
    <3>2. /\ ~(Turn(o, index) + count <= NumBits)
          /\ ~(Turn(index, o) # 0 /\ Turn(index, o) < NumBits /\ w + Turn(index, o) < NumBits)
      BY <1>10
    <3> HIDE DEF o, w
    <3> SUFFICES ASSUME \/ Turn(o, index) < NumBits
                        \/ Turn(index, o) < NumBits /\ w + Turn(index, o) < NumBits
                 PROVE  ~(Turn(o, last) < NumBits) /\ ~(Turn(last, o) < NumBits)
      BY DEF Settable, o, w
    <3>3. Turn(o, index) < NumBits
      BY <3>1, <3>2, Sizes DEF Turn, Indices, Places
    <3>4. Turn(o, last) = Turn(o, index) + count - 1
      BY <3>1, <3>3, <2>1, <2>2, Sizes DEF Turn, Indices, Places
    <3> QED
      BY <3>1, <3>2, <3>3, <3>4, <2>1, <2>2, Sizes DEF Turn, Indices, RangeIsWide
  <2>5. r = mask
    <3>1. ~CanSet(mask, index) \/ ~CanSet(mask, last)
      BY <2>2, <2>4, <1>2, <1>10, Known, CanSetIs
    <3> QED
      BY <3>1, <1>10 DEF r, SetBits, CanSetBits, last
  <2>6. ~Fits(X)
    BY <2>2, <2>3, <2>4, <1>4, <1>10, Known, TooFar
  <2> QED
    BY <1>1, <2>5, <2>6 DEF IInv
<1> QED
  BY <1>6, <1>7, <1>8, <1>9, <1>10

LEMMA UnsetRangeKeeps ==
    ASSUME IInv, NEW index \in Indices, NEW count \in 0..NumBits, UnsetRange(index, count)
    PROVE  IInv'
<1> DEFINE r == UnsetBits(mask, index, count)
           o == mask.offset
           last == (index + count - 1) % RangeSize
<1>1. mask' = r /\ members' = members \ Block(index, count)
  BY DEF UnsetRange
<1>2. Block(index, count) = {i \in Indices : Turn(index, i) < count}
  BY BlockIs
<1>3. \/ members = {}
      \/ Difference(index, o) >= NumBits
      \/ /\ Difference(index, GetLastSet(mask)) <= 0
         /\ Difference(index, o) < 0 => Difference(last, GetLastSet(mask)) <= 0
  BY DEF UnsetRange, Meets, Before
<1>4. SUFFICES /\ Sound(r)
               /\ \A i \in Indices : Holds(r, i) <=> Holds(mask, i) /\ ~(Turn(index, i) < count)
  BY <1>1, <1>2, Known DEF IInv
<1>5. o \in Indices /\ Difference(index, o) \in Int /\ Turn(o, index) \in Indices /\ Turn(index, o) \in Indices
  BY Known, NearDifference, TurnRange
<1> HIDE DEF last, r
<1>6. CASE \/ ~IsSet(mask) \/ count = 0 \/ Difference(index, o) >= NumBits
           \/ Difference(index, o) < 0 /\ Difference(index, o) + count <= 0
  <2>1. r = mask /\ \A i \in Indices : Holds(mask, i) => ~(Turn(index, i) < count)
    BY <1>6, Known, UnsetBitsAway DEF r
  <2> QED
    BY <2>1, Known
<1>7. CASE /\ IsSet(mask) /\ count # 0
           /\ 0 <= Difference(index, o) /\ Difference(index, o) < NumBits
  <2>1. count \in 1..NumBits
    BY <1>7, Sizes
  <2>2. Turn(o, index) \in Places /\ Difference(index, GetLastSet(mask)) <= 0
    BY <1>3, <1>5, <1>7, Known, NearDifference, Sizes
  <2>3. /\ GetLastSet(mask) \in Indices /\ Turn(o, GetLastSet(mask)) = Width(mask)
        /\ Width(mask) \in Places
    BY <1>7, Known, LastIs
  <2>4. Difference(index, GetLastSet(mask)) = Turn(o, index) - Turn(o, GetLastSet(mask))
    <3>1. /\ Turn(o, index) - Turn(o, GetLastSet(mask)) < RangeSign
          /\ Turn(o, GetLastSet(mask)) - Turn(o, index) < RangeSign
      BY <2>2, <2>3, Sizes DEF Places
    <3> HIDE DEF o
    <3> QED
      BY <3>1, <2>3, <1>5, DifferenceFrom
  <2>5. Turn(o, index) <= Width(mask)
    BY <2>2, <2>3, <2>4, Sizes DEF Places
  <2> QED
    BY <2>1, <2>5, <1>7, Known, UnsetBitsInside DEF r
<1>8. CASE /\ IsSet(mask) /\ count # 0
           /\ Difference(index, o) < 0 /\ Difference(index, o) + count > 0
  <2>1. count \in 1..NumBits /\ -NumBits < Difference(index, o)
    BY <1>5, <1>8, Sizes
  <2>2. /\ -Difference(index, o) = Turn(index, o)
        /\ Turn(index, o) \in Places /\ Turn(index, o) # 0 /\ Turn(index, o) < count
    <3>1. -Difference(index, o) = Turn(index, o) /\ Turn(index, o) \in Places /\ Turn(index, o) # 0
      BY <2>1, <1>5, <1>8, BackDifference
    <3> QED
      BY <3>1, <2>1, <1>5, <1>8, Sizes DEF Places
  <2>3. Difference(index, GetLastSet(mask)) <= 0 /\ Difference(last, GetLastSet(mask)) <= 0
    BY <1>3, <1>5, <1>8, Known, Sizes
  <2>4. /\ GetLastSet(mask) \in Indices /\ Turn(o, GetLastSet(mask)) = Width(mask)
        /\ Width(mask) \in Places
    BY <1>8, Known, LastIs
  <2>5. last \in Indices /\ Turn(index, last) = count - 1
    BY <2>1, RangeEnd DEF last
  <2>6. Turn(o, last) = count - 1 - Turn(index, o)
    <3> HIDE DEF o
    <3> QED
      BY <2>1, <2>2, <2>5, <1>5, Sizes DEF Turn, Indices, Places
  <2>7. Difference(last, GetLastSet(mask)) = Turn(o, last) - Turn(o, GetLastSet(mask))
    <3>1. /\ Turn(o, last) - Turn(o, GetLastSet(mask)) < RangeSign
          /\ Turn(o, GetLastSet(mask)) - Turn(o, last) < RangeSign
      BY <2>1, <2>2, <2>4, <2>6, Sizes DEF Places
    <3> HIDE DEF o
    <3> QED
      BY <3>1, <2>4, <2>5, <1>5, DifferenceFrom
  <2>8. count - 1 - Turn(index, o) <= Width(mask)
    BY <2>1, <2>2, <2>3, <2>4, <2>6, <2>7, Sizes DEF Places
  <2> QED
    BY <2>1, <2>2, <2>3, <2>8, <1>8, Known, UnsetBitsOver DEF r
<1> QED
  BY <1>5, <1>6, <1>7, <1>8, Sizes

-----------------------------------------------------------------------------
(* The invariant and what follows from it.                                 *)

LEMMA Invariant ==
    ASSUME RangeIsWide
    PROVE  Spec => []IInv
<1>0. Sound(Cleared) /\ \A i \in Indices : ~Holds(Cleared, i)
  <2>1. 0 \in Indices
    BY Sizes DEF Indices
  <2>2. Sound(Cleared) /\ ~IsSet(Cleared)
    BY <2>1, FullIs
  <2> QED
    BY <2>2 DEF Holds
<1>1. Init => IInv
  BY <1>0 DEF Init, IInv
<1>2. IInv /\ [Next]_vars => IInv'
  <2> SUFFICES ASSUME IInv, [Next]_vars
               PROVE  IInv'
    OBVIOUS
  <2>1. CASE UNCHANGED vars
    BY <2>1 DEF IInv, vars
  <2>2. CASE Clear
    BY <2>2, <1>0 DEF Clear, IInv
  <2>3. ASSUME NEW index \in Indices, SetIndex(index) PROVE IInv'
    BY <2>3, SetIndexKeeps
  <2>4. ASSUME NEW index \in Indices, UnsetIndex(index) PROVE IInv'
    <3>1. /\ Sound(Unset(mask, index))
          /\ \A i \in Indices : Holds(Unset(mask, index), i) <=> Holds(mask, i) /\ i # index
      BY Known, UnsetOne
    <3> QED
      BY <3>1, <2>4, Known DEF UnsetIndex, IInv
  <2>5. ASSUME NEW index \in Indices, Reset(index) PROVE IInv'
    <3>1. Block(index, NumBits) = {i \in Indices : Turn(index, i) < NumBits}
      BY BlockIs, Sizes
    <3> QED
      BY <3>1, <2>5, FullIs DEF Reset, IInv
  <2>6. ASSUME NEW index \in Indices, NEW count \in 0..NumBits, SetRange(index, count) PROVE IInv'
    BY <2>6, SetRangeKeeps
  <2>7. ASSUME NEW index \in Indices, NEW count \in 0..NumBits, UnsetRange(index, count) PROVE IInv'
    BY <2>7, UnsetRangeKeeps
  <2> QED
    BY <2>1, <2>2, <2>3, <2>4, <2>5, <2>6, <2>7 DEF Next
<1> QED
  BY <1>1, <1>2, PTL DEF Spec

\* The fields of the mask keep to their ranges: start and end name a place of
\* the ring or say that the mask is empty, whatever was set and unset.
THEOREM TypeCorrect ==
    ASSUME RangeIsWide
    PROVE  Spec => []TypeOK
<1>1. IInv => TypeOK
  BY Known DEF TypeOK, Masks
<1> QED
  BY <1>1, Invariant, PTL

\* What an index that is held says in differences.
LEMMA HeldDifference ==
    ASSUME NEW m, Sound(m), NEW i \in Indices, Holds(m, i)
    PROVE  /\ Turn(m.offset, i) \in Places /\ Turn(m.offset, i) <= Width(m)
           /\ Difference(i, m.offset) = Turn(m.offset, i)
           /\ \A j \in Indices : Turn(m.offset, j) \in Places =>
                 /\ Difference(i, j) = Turn(m.offset, i) - Turn(m.offset, j)
                 /\ Difference(j, i) = Turn(m.offset, j) - Turn(m.offset, i)
<1>1. m.offset \in Indices /\ Turn(m.offset, i) \in Places /\ Turn(m.offset, i) <= Width(m)
  BY LastIs DEF Holds, HasBit, Sound
<1>2. ASSUME NEW j \in Indices, Turn(m.offset, j) \in Places
      PROVE  /\ Difference(i, j) = Turn(m.offset, i) - Turn(m.offset, j)
             /\ Difference(j, i) = Turn(m.offset, j) - Turn(m.offset, i)
  <2>1. /\ Turn(m.offset, i) - Turn(m.offset, j) < RangeSign
        /\ Turn(m.offset, j) - Turn(m.offset, i) < RangeSign
    BY <1>1, <1>2, Sizes DEF Places
  <2> QED
    BY <2>1, <1>1, DifferenceFrom
<1> QED
  BY <1>1, <1>2, NearDifference

\* The mask holds exactly the indices that were set and not unset since, and
\* its first and last index are the ends of that set, if the range is wide.
THEOREM MaskHoldsWhatWasSet ==
    ASSUME RangeIsWide
    PROVE  Spec => []HoldsWhatWasSet
<1>1. IInv => HoldsWhatWasSet
  <2> SUFFICES ASSUME IInv
               PROVE  HoldsWhatWasSet
    OBVIOUS
  <2>1. {index \in Indices : Test(mask, index)} = members
    BY Known, TestIs
  <2>2. IsSet(mask) <=> members # {}
    BY Known
  <2>3. ASSUME members # {}
        PROVE  /\ {mask.offset, GetLastSet(mask)} \subseteq members
               /\ \A i \in members :
                     Difference(i, mask.offset) >= 0 /\ Difference(GetLastSet(mask), i) >= 0
    <3>1. /\ IsSet(mask) /\ Width(mask) \in Places /\ mask.offset \in Indices
          /\ GetLastSet(mask) \in Indices /\ Turn(mask.offset, GetLastSet(mask)) = Width(mask)
      BY <2>3, Known, LastIs
    <3>2. Holds(mask, mask.offset) /\ Holds(mask, GetLastSet(mask))
      BY <3>1, Known, TurnRange DEF Holds, Sound
    <3>3. ASSUME NEW i \in members
          PROVE  Difference(i, mask.offset) >= 0 /\ Difference(GetLastSet(mask), i) >= 0
      <4>1. /\ Turn(mask.offset, i) \in Places /\ Turn(mask.offset, i) <= Width(mask)
            /\ Difference(i, mask.offset) = Turn(mask.offset, i)
            /\ Difference(GetLastSet(mask), i) = Width(mask) - Turn(mask.offset, i)
        BY <3>1, Known, HeldDifference
      <4> QED
        BY <4>1, <3>1, Sizes DEF Places
    <3> QED
      BY <3>1, <3>2, <3>3, Known
  <2> QED
    BY <2>1, <2>2, <2>3 DEF HoldsWhatWasSet
<1> QED
  BY <1>1, Invariant, PTL

\* What the searches look through.
LEMMA SearchIs ==
    ASSUME NEW m, Sound(m), IsSet(m)
    PROVE  /\ Distances(m) = Bits(m) /\ Bits(m) \in SUBSET (0..Width(m)) /\ Width(m) \in Places
           /\ \A d \in Bits(m) : /\ (m.offset + d) % RangeSize \in Indices
                                 /\ Turn(m.offset, (m.offset + d) % RangeSize) = d
                                 /\ Holds(m, (m.offset + d) % RangeSize)
           /\ \A i \in Indices : Holds(m, i) => Turn(m.offset, i) \in Bits(m)
           /\ \A i \in Indices : InRange(m, i) <=>
                 0 <= Difference(i, m.offset) /\ Difference(i, m.offset) <= Width(m)
<1>1. /\ Distances(m) = Bits(m) /\ Bits(m) \subseteq 0..Width(m) /\ Width(m) \in Places
      /\ m \in Masks /\ m.start < NumBits /\ m.end < NumBits /\ m.offset \in Indices
  <2>1. Loose(m)
    BY DEF Sound, Loose
  <2> QED
    BY <2>1, LooseIs
<1>2. ASSUME NEW d \in Bits(m)
      PROVE  /\ (m.offset + d) % RangeSize \in Indices
             /\ Turn(m.offset, (m.offset + d) % RangeSize) = d
             /\ Holds(m, (m.offset + d) % RangeSize)
  <2>1. d \in Indices /\ HasBit(m, d)
    BY TurnRange, <1>1 DEF Bits
  <2> QED
    BY <2>1, <1>1, StepIs DEF Holds
<1>3. \A i \in Indices : Holds(m, i) => Turn(m.offset, i) \in Bits(m)
  BY DEF Holds, HasBit, Bits
<1>4. ASSUME NEW i \in Indices
      PROVE  InRange(m, i) <=> 0 <= Difference(i, m.offset) /\ Difference(i, m.offset) <= Width(m)
  <2> DEFINE d == Difference(i, m.offset)
  <2>1. d \in Int
    BY <1>1, NearDifference
  <2>2. d \in Places => (InSpan(m, PlaceAt(m, d)) <=> d <= Width(m))
    BY <1>1, Ring1
  <2> HIDE DEF d
  <2>3. InRange(m, i) <=> ~(d < 0) /\ d < NumBits /\ InSpan(m, PlaceAt(m, d))
    BY DEF InRange, Before, d
  <2>4. d \in Places <=> 0 <= d /\ d < NumBits
    BY <2>1, Sizes DEF Places
  <2>5. ~(d < 0) <=> 0 <= d
    BY <2>1
  <2>6. d <= Width(m) => d < NumBits
    BY <2>1, <1>1, Sizes DEF Places
  <2> QED
    BY <2>2, <2>3, <2>4, <2>5, <2>6 DEF d
<1> QED
  BY <1>1, <1>2, <1>3, <1>4

\* The search from an index on.
LEMMA NextIs ==
    ASSUME NEW m, Sound(m), NEW index \in Indices
    PROVE  LET next == GetNextSet(m, index)
               Ahead(i) == Difference(i, m.offset) >= Difference(index, m.offset)
           IN  IF \E i \in Indices : Holds(m, i) /\ Ahead(i)
               THEN /\ next \in Indices /\ Holds(m, next) /\ Ahead(next)
                    /\ \A i \in Indices : Holds(m, i) /\ Ahead(i) => Difference(i, next) >= 0
               ELSE next = NoIndex
<1> DEFINE next == GetNextSet(m, index)
           e == Difference(index, m.offset)
           later == {d \in Distances(m) : d >= e}
<1>1. e \in Int
  BY NearDifference DEF Sound, Masks
<1>2. CASE ~IsSet(m)
  BY <1>2 DEF Holds, GetNextSet
<1>3. CASE IsSet(m)
  <2>1. m.offset \in Indices /\ Width(m) \in Places /\ Holds(m, m.offset) /\ Turn(m.offset, m.offset) = 0
    BY <1>3, LastIs, TurnRange DEF Holds, Sound
  <2>2. /\ Distances(m) = Bits(m) /\ Bits(m) \in SUBSET (0..Width(m))
        /\ \A d \in Bits(m) : /\ (m.offset + d) % RangeSize \in Indices
                              /\ Turn(m.offset, (m.offset + d) % RangeSize) = d
                              /\ Holds(m, (m.offset + d) % RangeSize)
        /\ \A i \in Indices : Holds(m, i) => Turn(m.offset, i) \in Bits(m)
        /\ InRange(m, index) <=> 0 <= e /\ e <= Width(m)
    BY <1>3, SearchIs
  <2>3. \A i \in Indices : Holds(m, i) =>
          /\ Difference(i, m.offset) = Turn(m.offset, i) /\ Turn(m.offset, i) \in Places
          /\ Turn(m.offset, i) <= Width(m)
    BY HeldDifference
  <2> HIDE DEF e
  <2>4. CASE e < 0
    <3>1. next = m.offset
      BY <2>4, <1>3 DEF GetNextSet, Before, e
    <3>2. \A i \in Indices : Holds(m, i) => Difference(i, m.offset) >= e /\ Difference(i, m.offset) >= 0
      BY <2>3, <2>4, <1>1, Sizes DEF Places
    <3> QED
      BY <3>1, <3>2, <2>1 DEF e
  <2>5. CASE ~(e < 0) /\ later = {}
    <3>1. next = NoIndex
      BY <2>5, <1>3 DEF GetNextSet, Before, e
    <3>2. \A i \in Indices : Holds(m, i) => ~(Difference(i, m.offset) >= e)
      BY <2>2, <2>3, <2>5
    <3> QED
      BY <3>1, <3>2 DEF e
  <2>6. CASE ~(e < 0) /\ later # {}
    <3>1. InRange(m, index)
      <4>1. PICK d \in Bits(m) : d >= e
        BY <2>2, <2>6
      <4> QED
        BY <4>1, <2>1, <2>2, <2>6, <1>1, Sizes DEF Places
    <3>2. next = (m.offset + Min(later)) % RangeSize
      BY <3>1, <2>6, <1>3 DEF GetNextSet, Before, e
    <3>3. later \in SUBSET Nat
      BY <2>1, <2>2, Sizes DEF Places
    <3>4. Min(later) \in later /\ \A d \in later : Min(later) <= d
      BY <3>3, <2>6, LeastNatural
    <3> DEFINE k == Min(later)
    <3>5. k \in Bits(m) /\ k >= e
      BY <3>4, <2>2
    <3> HIDE DEF k
    <3>6. next \in Indices /\ Turn(m.offset, next) = k /\ Holds(m, next)
      BY <3>2, <3>5, <2>2 DEF k
    <3>7. Difference(next, m.offset) >= e
      BY <3>5, <3>6, <2>3
    <3>8. ASSUME NEW i \in Indices, Holds(m, i), Difference(i, m.offset) >= e
          PROVE  Difference(i, next) >= 0
      <4>1. Turn(m.offset, i) \in later /\ Turn(m.offset, i) \in Places
        BY <3>8, <2>2, <2>3
      <4>2. k <= Turn(m.offset, i)
        BY <4>1, <3>4 DEF k
      <4>3. Turn(m.offset, next) \in Places
        BY <3>6, <2>3
      <4> HIDE DEF next
      <4>4. Difference(i, next) = Turn(m.offset, i) - Turn(m.offset, next)
        BY <4>3, <3>6, <3>8, HeldDifference
      <4> QED
        BY <4>1, <4>2, <4>3, <4>4, <3>6, Sizes DEF Places
    <3> HIDE DEF next
    <3> QED
      BY <3>6, <3>7, <3>8 DEF e, next
  <2> QED
    BY <2>4, <2>5, <2>6
<1> QED
  BY <1>2, <1>3

\* The search from an index back.
LEMMA PrevIs ==
    ASSUME NEW m, Sound(m), NEW index \in Indices
    PROVE  LET prev == GetPrevSet(m, index)
               Ago(i) == Difference(i, m.offset) <= Difference(index, m.offset)
           IN  IF \E i \in Indices : Holds(m, i) /\ Ago(i)
               THEN /\ prev \in Indices /\ Holds(m, prev) /\ Ago(prev)
                    /\ \A i \in Indices : Holds(m, i) /\ Ago(i) => Difference(prev, i) >= 0
               ELSE prev = NoIndex
<1> DEFINE prev == GetPrevSet(m, index)
           e == Difference(index, m.offset)
           earlier == {d \in Distances(m) : d <= e}
<1>1. e \in Int
  BY NearDifference DEF Sound, Masks
<1>2. CASE ~IsSet(m)
  BY <1>2 DEF Holds, GetPrevSet
<1>3. CASE IsSet(m)
  <2>1. /\ m.offset \in Indices /\ Width(m) \in Places /\ Holds(m, m.offset)
        /\ Turn(m.offset, m.offset) = 0
        /\ GetLastSet(m) \in Indices /\ Turn(m.offset, GetLastSet(m)) = Width(m)
        /\ Holds(m, GetLastSet(m))
    BY <1>3, LastIs, TurnRange DEF Holds, Sound
  <2>2. /\ Distances(m) = Bits(m) /\ Bits(m) \in SUBSET (0..Width(m))
        /\ \A d \in Bits(m) : /\ (m.offset + d) % RangeSize \in Indices
                              /\ Turn(m.offset, (m.offset + d) % RangeSize) = d
                              /\ Holds(m, (m.offset + d) % RangeSize)
        /\ \A i \in Indices : Holds(m, i) => Turn(m.offset, i) \in Bits(m)
        /\ InRange(m, index) <=> 0 <= e /\ e <= Width(m)
    BY <1>3, SearchIs
  <2>3. \A i \in Indices : Holds(m, i) =>
          /\ Difference(i, m.offset) = Turn(m.offset, i) /\ Turn(m.offset, i) \in Places
          /\ Turn(m.offset, i) <= Width(m)
    BY HeldDifference
  <2> HIDE DEF e
  <2>4. CASE e < 0
    <3>1. prev = NoIndex
      BY <2>4, <1>3 DEF GetPrevSet, Before, e
    <3>2. \A i \in Indices : Holds(m, i) => ~(Difference(i, m.offset) <= e)
      BY <2>3, <2>4, <1>1, Sizes DEF Places
    <3> QED
      BY <3>1, <3>2 DEF e
  <2>5. CASE e > Width(m)
    <3>1. prev = GetLastSet(m)
      <4>1. ~(e < 0) /\ ~(e <= Width(m))
        BY <2>1, <2>5, <1>1, Sizes DEF Places
      <4> QED
        BY <4>1, <2>2, <1>3 DEF GetPrevSet, Before, e
    <3>2. \A i \in Indices : Holds(m, i) =>
            /\ Difference(i, m.offset) <= e
            /\ Difference(GetLastSet(m), i) = Width(m) - Turn(m.offset, i)
      BY <2>1, <2>3, <2>5, <1>1, HeldDifference, Sizes DEF Places
    <3>3. \A i \in Indices : Holds(m, i) => Difference(GetLastSet(m), i) >= 0
      BY <3>2, <2>1, <2>3, Sizes DEF Places
    <3> QED
      BY <3>1, <3>2, <3>3, <2>1 DEF e
  <2>6. CASE ~(e < 0) /\ ~(e > Width(m))
    <3>1. InRange(m, index) /\ 0 <= e
      BY <2>1, <2>2, <2>6, <1>1, Sizes DEF Places
    <3>2. 0 \in earlier
      BY <3>1, <2>1, <2>2
    <3>3. prev = (m.offset + Max(earlier)) % RangeSize
      BY <3>1, <3>2, <2>6, <1>3 DEF GetPrevSet, Before, e
    <3>4. earlier \in SUBSET (0..Width(m)) /\ Width(m) \in Nat
      BY <2>1, <2>2, Sizes DEF Places
    <3>5. Max(earlier) \in earlier /\ \A d \in earlier : d <= Max(earlier)
      BY <3>2, <3>4, GreatestNatural
    <3> DEFINE k == Max(earlier)
    <3>6. k \in Bits(m) /\ k <= e
      BY <3>5, <2>2
    <3> HIDE DEF k
    <3>7. prev \in Indices /\ Turn(m.offset, prev) = k /\ Holds(m, prev)
      BY <3>3, <3>6, <2>2 DEF k
    <3>8. Difference(prev, m.offset) <= e
      BY <3>6, <3>7, <2>3
    <3>9. ASSUME NEW i \in Indices, Holds(m, i), Difference(i, m.offset) <= e
          PROVE  Difference(prev, i) >= 0
      <4>1. Turn(m.offset, i) \in earlier /\ Turn(m.offset, i) \in Places
        BY <3>9, <2>2, <2>3
      <4>2. Turn(m.offset, i) <= k
        BY <4>1, <3>5 DEF k
      <4>3. Turn(m.offset, prev) \in Places
        BY <3>7, <2>3
      <4> HIDE DEF prev
      <4>4. Difference(prev, i) = Turn(m.offset, prev) - Turn(m.offset, i)
        BY <4>3, <3>7, <3>9, HeldDifference
      <4> QED
        BY <4>1, <4>2, <4>3, <4>4, <3>7, Sizes DEF Places
    <3> HIDE DEF prev
    <3> QED
      BY <3>7, <3>8, <3>9 DEF e, prev
  <2> QED
    BY <2>4, <2>5, <2>6
<1> QED
  BY <1>2, <1>3

\* From any index, the searches find the nearest member in either direction,
\* and say that there is none exactly when there is none, if the range is wide.
THEOREM SearchesFindNearest ==
    ASSUME RangeIsWide
    PROVE  Spec => []SearchFindsNearest
<1>1. IInv => SearchFindsNearest
  <2> SUFFICES ASSUME IInv
               PROVE  SearchFindsNearest
    OBVIOUS
  <2>1. \A i : i \in members <=> i \in Indices /\ Holds(mask, i)
    BY Known
  <2> QED
    BY <2>1, Known, NextIs, PrevIs DEF SearchFindsNearest
<1> QED
  BY <1>1, Invariant, PTL
=============================================================================

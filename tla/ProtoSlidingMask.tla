------------------------- MODULE ProtoSlidingMask -------------------------
(***************************************************************************)
(* A ProtoSlidingMask under every sequence of calls, next to the set of    *)
(* indices it is meant to hold.  The calls respect what the class needs of *)
(* its callers:                                                            *)
(*   - an index to set lies less than num_bits before the first one that   *)
(*     is set, because CanSet agrees to some that lie further away;        *)
(*   - a range has at most num_bits indices; and                           *)
(*   - a range to unset overlaps the indices that are set and does not     *)
(*     reach beyond both ends (UnsetBitsKeepsEnds: what happens otherwise).*)
(***************************************************************************)
EXTENDS SlidingMask

VARIABLES
    mask,     \* the object
    members   \* the indices it is meant to hold

vars == <<mask, members>>

TypeOK ==
    /\ mask \in [bits : SUBSET Places, start : 0..NumBits, end : 0..NumBits, offset : Indices]
    /\ members \subseteq Indices

-----------------------------------------------------------------------------
(* What the set of indices allows and promises.                            *)

Block(index, count) == {(index + i) % RangeSize : i \in 0..(count - 1)}

\* The indices lie within NumBits of each other.
Fits(indices) == \E first \in Indices : indices \subseteq Block(first, NumBits)

\* What members becomes when the indices are set: all of them, or none.
With(indices) == IF Fits(members \cup indices) THEN members \cup indices ELSE members

InReach(index) == members = {} \/ Difference(index, mask.offset) > -NumBits

\* The range begins among the indices that are set, or before them (by less
\* than half the circle) and then ends among them, or it lies out of reach.
Meets(index, count) ==
    \/ members = {}
    \/ Difference(index, mask.offset) >= NumBits
    \/ /\ Difference(index, GetLastSet(mask)) <= 0
       /\ Before(mask, index) =>
             Difference((index + count - 1) % RangeSize, GetLastSet(mask)) <= 0

-----------------------------------------------------------------------------
Init ==
    /\ mask = Cleared
    /\ members = {}

SetIndex(index) ==
    /\ InReach(index)
    /\ mask' = Set(mask, index)
    /\ members' = With({index})

UnsetIndex(index) ==
    /\ mask' = Unset(mask, index)
    /\ members' = members \ {index}

SetRange(index, count) ==
    /\ InReach(index)
    /\ InReach((index + count - 1) % RangeSize)
    /\ mask' = SetBits(mask, index, count)
    /\ members' = With(Block(index, count))

UnsetRange(index, count) ==
    /\ Meets(index, count)
    /\ mask' = UnsetBits(mask, index, count)
    /\ members' = members \ Block(index, count)

Clear ==
    /\ mask' = Cleared
    /\ members' = {}

Reset(index) ==
    /\ mask' = Full(index)
    /\ members' = Block(index, NumBits)

Next ==
    \/ Clear
    \/ \E index \in Indices :
          \/ SetIndex(index)
          \/ UnsetIndex(index)
          \/ Reset(index)
          \/ \E count \in 0..NumBits : SetRange(index, count) \/ UnsetRange(index, count)

Spec == Init /\ [][Next]_vars

-----------------------------------------------------------------------------
(* The mask holds exactly the indices that were set and not unset since,   *)
(* and start, end and offset, moved by all operations around the ring,     *)
(* name the first and the last of them (Test, IsSet, GetFirstSet and       *)
(* GetLastSet).                                                            *)
HoldsWhatWasSet ==
    /\ {index \in Indices : Test(mask, index)} = members
    /\ IsSet(mask) <=> members # {}
    /\ members # {} =>
          /\ {mask.offset, GetLastSet(mask)} \subseteq members
          /\ \A i \in members :
                Difference(i, mask.offset) >= 0 /\ Difference(GetLastSet(mask), i) >= 0

(* GetNextSet and GetPrevSet find the nearest member from any index on, in *)
(* either direction, wherever the ring and the range wrap around.          *)
SearchFindsNearest ==
    \A index \in Indices :
        LET next == GetNextSet(mask, index)
            prev == GetPrevSet(mask, index)
            Ahead(i) == Difference(i, mask.offset) >= Difference(index, mask.offset)
            Behind(i) == Difference(i, mask.offset) <= Difference(index, mask.offset)
        IN  /\ IF \E i \in members : Ahead(i)
               THEN /\ next \in members /\ Ahead(next)
                    /\ \A i \in members : Ahead(i) => Difference(i, next) >= 0
               ELSE next = NoIndex
            /\ IF \E i \in members : Behind(i)
               THEN /\ prev \in members /\ Behind(prev)
                    /\ \A i \in members : Behind(i) => Difference(prev, i) >= 0
               ELSE prev = NoIndex

(* UnsetBits ends with calls of Unset that "will properly update the       *)
(* offset/start/end state" (protoBitmask.cpp:1020): after any range, the    *)
(* first and the last index that the mask names are set.  The code does     *)
(* not keep to this: a range that begins after the last index, or that      *)
(* begins before the first one and ends after the last, leaves start and    *)
(* end around bits that are all clear.                                      *)
UnsetBitsKeepsEnds ==
    \A index \in Indices, count \in 1..NumBits :
        LET left == UnsetBits(mask, index, count)
        IN  IsSet(left) => Test(left, left.offset) /\ Test(left, GetLastSet(left))
=============================================================================

---------------------------- MODULE SlidingMask ----------------------------
(***************************************************************************)
(* ProtoSlidingMask (protolib/src/common/protoBitmask.cpp and its header): *)
(* num_bits bits of storage, used as a ring, that hold a set of indices    *)
(* from a circular range.  offset is the first index that is set and start *)
(* its place in the ring; end is the place of the last one.                *)
(*                                                                         *)
(* An operation that changes the mask is an operator from masks to masks.  *)
(* The bytes of the ring are abstracted to the set of places whose bit is  *)
(* set, and the search through them to "the nearest one that is set".  An  *)
(* ASSERT is taken as compiled out: where one would fail the code goes on. *)
(***************************************************************************)
EXTENDS Integers, FiniteSetsExt

CONSTANTS
    NumBits,  \* num_bits
    RangeSize \* range_mask + 1, a power of two

ASSUME MaskAssumption ==
    /\ RangeSize \in Nat /\ RangeSize % 2 = 0
    /\ NumBits \in 1..(RangeSize \div 2)   \* what Init accepts

Indices == 0..(RangeSize - 1)
Places == 0..(NumBits - 1)

NoIndex == -1   \* GetNextSet or GetPrevSet returned false

RangeSign == RangeSize \div 2

\* The circular difference of two indices; the tie of half the range is
\* positive for the larger one.
Difference(a, b) ==
    LET result == (a - b) % RangeSize
    IN  IF result < RangeSign \/ (result = RangeSign /\ a > b) THEN result ELSE result - RangeSize

Cleared == [bits |-> {}, start |-> NumBits, end |-> NumBits, offset |-> 0]

\* Reset: every bit is set, the first one for "index".
Full(index) == [bits |-> Places, start |-> 0, end |-> NumBits - 1, offset |-> index]

IsSet(m) == m.start < NumBits

GetLastSet(m) ==
    (m.offset + IF m.end < m.start THEN NumBits - (m.start - m.end) ELSE m.end - m.start) % RangeSize

\* Places between start and end.
InSpan(m, pos) ==
    IF m.end < m.start THEN pos <= m.end \/ pos >= m.start ELSE m.start <= pos /\ pos <= m.end

\* Mutant of PlaceAt: the place is not taken back into the ring.
PlacePast(m, d) == m.start + d

\* The place d after start in the ring.
PlaceAt(m, d) == IF m.start + d >= NumBits THEN m.start + d - NumBits ELSE m.start + d

\* The place d before start, which is negative if d is too large.
PlaceBefore(m, d) == IF m.start - d < 0 THEN m.start - d + NumBits ELSE m.start - d

Before(m, index) == Difference(index, m.offset) < 0

Test(m, index) ==
    LET d == Difference(index, m.offset)
    IN  /\ IsSet(m)
        /\ 0 <= d /\ d < NumBits
        /\ InSpan(m, PlaceAt(m, d))
        /\ PlaceAt(m, d) \in m.bits

\* Is there a place for an index before the first one?
CanSetBefore(m, index) ==
    LET pos == PlaceBefore(m, -Difference(index, m.offset))
    IN  pos >= 0 /\ ~InSpan(m, pos)

CanSet(m, index) ==
    \/ ~IsSet(m)
    \/ IF Before(m, index) THEN CanSetBefore(m, index)
       ELSE Difference(index, m.offset) < NumBits

\* The end after place pos was set: it moves if pos lies outside the span.
EndWith(m, pos) == IF InSpan(m, pos) THEN m.end ELSE pos

\* Set returns CanSet(m, index), and leaves the mask alone if that is false.
Set(m, index) ==
    LET d == Difference(index, m.offset)
        pos == IF d < 0 THEN PlaceBefore(m, -d) ELSE PlaceAt(m, d)
    IN  IF ~IsSet(m)
        THEN [bits |-> {p \in m.bits : p > 7} \cup {0}, start |-> 0, end |-> 0, offset |-> index]
        ELSE IF ~CanSet(m, index) THEN m
        ELSE IF d < 0 THEN [m EXCEPT !.bits = @ \cup {pos}, !.start = pos, !.offset = index]
        ELSE [m EXCEPT !.bits = @ \cup {pos}, !.end = EndWith(m, pos)]

-----------------------------------------------------------------------------
(* Searching.                                                              *)

\* How far from start the bits are that are set.
Distances(m) == {(b - m.start) % NumBits : b \in m.bits}

InRange(m, index) ==
    /\ ~Before(m, index)
    /\ Difference(index, m.offset) < NumBits
    /\ InSpan(m, PlaceAt(m, Difference(index, m.offset)))

\* The first index that is set and not before "index".
GetNextSet(m, index) ==
    LET later == {d \in Distances(m) : d >= Difference(index, m.offset)}
    IN  IF ~IsSet(m) THEN NoIndex
        ELSE IF Before(m, index) THEN m.offset
        ELSE IF ~InRange(m, index) \/ later = {} THEN NoIndex
        ELSE (m.offset + Min(later)) % RangeSize

\* Mutant of GetPrevSet: an index after the last one has none before it.
GetPrevSetInside(m, index) ==
    LET earlier == {d \in Distances(m) : d <= Difference(index, m.offset)}
    IN  IF ~IsSet(m) \/ ~InRange(m, index) \/ earlier = {} THEN NoIndex
        ELSE (m.offset + Max(earlier)) % RangeSize

\* The last index that is set and not after "index".  Where the first bit is not set
\* (see UnsetBits) and nothing is set before the index, the code's last loop counts an
\* unsigned index down past zero and reads what lies before the mask; here there is none.
GetPrevSet(m, index) ==
    LET earlier == {d \in Distances(m) : d <= Difference(index, m.offset)}
    IN  IF ~IsSet(m) \/ Before(m, index) THEN NoIndex
        ELSE IF ~InRange(m, index) THEN GetLastSet(m)
        ELSE IF earlier = {} THEN NoIndex
        ELSE (m.offset + Max(earlier)) % RangeSize

-----------------------------------------------------------------------------
(* Unset, which narrows the span when it takes its first or last bit.      *)

\* Where the search fails the code has gone wrong before (ASSERT(0)); the
\* variable still holds the index it was called with.
Found(found, otherwise) == IF found = NoIndex THEN otherwise ELSE found

\* Mutant of MoveStart: offset keeps naming the index that was taken.
MoveStartOnly(m, index) ==
    LET next == Found(GetNextSet(m, index), index)
    IN  [m EXCEPT !.start = PlaceAt(m, Difference(next, m.offset))]

MoveStart(m, index) ==
    LET next == Found(GetNextSet(m, index), index)
    IN  [m EXCEPT !.start = PlaceAt(m, Difference(next, m.offset)), !.offset = next]

MoveEnd(m, index) ==
    LET prev == Found(GetPrevSet(m, index), index)
    IN  [m EXCEPT !.end = PlaceAt(m, Difference(prev, m.offset))]

Unset(m, index) ==
    LET pos == PlaceAt(m, Difference(index, m.offset))
        taken == [m EXCEPT !.bits = @ \ {pos}]
        moved == IF m.start = pos THEN MoveStart(taken, index) ELSE taken
    IN  IF ~IsSet(m) \/ ~InRange(m, index) THEN m
        ELSE IF m.start = m.end THEN [taken EXCEPT !.start = NumBits, !.end = NumBits]
        ELSE IF m.end = pos THEN MoveEnd(moved, index)
        ELSE moved

-----------------------------------------------------------------------------
(* Ranges of "count" indices from "index" on.                              *)

\* The places from first to last, around the end of the ring if need be.
Ring(first, last) ==
    IF last < first THEN {p \in Places : p >= first \/ p <= last} ELSE first..last

\* SetBits returns this, and leaves the mask alone if it is false.
CanSetBits(m, index, count) ==
    \/ count = 0
    \/ IF IsSet(m) THEN CanSet(m, index) /\ CanSet(m, (index + count - 1) % RangeSize)
       ELSE count <= NumBits

SetBits(m, index, count) ==
    LET last == (index + count - 1) % RangeSize
        d == Difference(index, m.offset)
        first == IF d < 0 THEN PlaceBefore(m, -d) ELSE PlaceAt(m, d)
        s == IF d < 0 THEN [m EXCEPT !.start = first, !.offset = index] ELSE m
        e == Difference(last, s.offset)
        pos == IF e > 0 THEN PlaceAt(s, e) ELSE PlaceBefore(s, -e)
    IN  IF count = 0 \/ ~CanSetBits(m, index, count) THEN m
        ELSE IF ~IsSet(m)
        THEN [bits |-> m.bits \cup 0..(count - 1), start |-> 0, end |-> count - 1, offset |-> index]
        ELSE [s EXCEPT !.bits = @ \cup Ring(first, pos),
                       !.end = IF e > 0 THEN EndWith(s, pos) ELSE @]

\* The bits go first; then Unset, called for a bit that is gone already, finds
\* the new start or end.
UnsetBits(m, index, count) ==
    LET overhang == -Difference(index, m.offset)
        first == IF overhang > 0 THEN m.start ELSE PlaceAt(m, -overhang)
        asked == Min({count, NumBits})
        n == IF overhang > 0 THEN asked - overhang ELSE asked
        final == (index + n - 1) % RangeSize
        last == IF Difference(final, GetLastSet(m)) < 0
                THEN (first + n - 1) % NumBits ELSE m.end
        gone == [m EXCEPT !.bits = @ \ Ring(first, last)]
    IN  IF ~IsSet(m) \/ n <= 0 \/ -overhang >= NumBits THEN m
        ELSE IF m.start = first /\ m.end = last THEN [gone EXCEPT !.start = NumBits, !.end = NumBits]
        ELSE IF m.start = first THEN Unset(gone, m.offset)
        ELSE IF m.end = last THEN Unset(gone, GetLastSet(m))
        ELSE gone

=============================================================================

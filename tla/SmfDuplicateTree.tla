------------------------- MODULE SmfDuplicateTree -------------------------
(***************************************************************************)
(* Duplicate packet detection of nrlsmf: SmfSlidingWindow (smfWindow.cpp), *)
(* a ProtoSlidingMask around the last sequence number of one flow, and     *)
(* SmfDuplicateTree (smfDupTree.cpp), the windows of all flows by key, in  *)
(* a list with the flow that changed last at its head.                     *)
(*                                                                         *)
(* NumBits is the size of a window.  A tree is a record of the list and of *)
(* what the flows hold; a flow that is not in the list is as new.          *)
(***************************************************************************)
EXTENDS SlidingMask, SequencesExt

CONSTANTS
    WindowPastMax,  \* window_past_max: from here back a packet is ancient
    AgeMax          \* update_age_max

ASSUME WindowAssumption ==
    /\ WindowPastMax \in NumBits..RangeSign   \* what SmfSlidingWindow::Init accepts
    /\ AgeMax \in Nat

-----------------------------------------------------------------------------
(* One window.                                                             *)

\* Mutant of WindowIsDuplicate: the window ends one packet early.
WindowIsDuplicateShort(m, seq) ==
    LET delta == Difference(seq, GetLastSet(m))
    IN  /\ IsSet(m)
        /\ delta <= 0
        /\ -delta < WindowPastMax
        /\ -delta < NumBits - 1 => Test(m, seq)

WindowIsDuplicate(m, seq) ==
    LET delta == Difference(seq, GetLastSet(m))
    IN  /\ IsSet(m)
        /\ delta <= 0
        /\ -delta < WindowPastMax
        /\ -delta < NumBits => Test(m, seq)

\* The window with room for a packet delta after its last one: it forgets as
\* many at its other end.  It starts anew for one out of its range.
Slid(m, delta) ==
    IF delta >= NumBits \/ -delta >= WindowPastMax THEN Cleared
    ELSE IF delta > 0 THEN UnsetBits(m, (GetLastSet(m) - NumBits + 1) % RangeSize, delta)
    ELSE m

WindowAfter(m, seq) ==
    IF WindowIsDuplicate(m, seq) THEN m
    ELSE Set(IF IsSet(m) THEN Slid(m, Difference(seq, GetLastSet(m))) ELSE m, seq)

-----------------------------------------------------------------------------
(* The list of flows, which SmfSequenceMgr keeps in the same way.          *)

\* Mutant of ToHead: a flow stays where it is in the list.
AddedOnce(flow_list, key) ==
    IF key \in ToSet(flow_list) THEN flow_list ELSE <<key>> \o flow_list

ToHead(flow_list, key) == <<key>> \o RemoveFirst(flow_list, key)

\* Mutant of Stale: a flow grows old one prune too early.
StaleAtMax(update_time, time) == time - update_time >= AgeMax

\* Was the flow that changed at update_time left alone for too long?
Stale(update_time, time) == time - update_time > AgeMax

\* Prune drops flows from the tail up to the first that is not stale.
Pruned(flow_list, update_time, time) ==
    LET fresh == {i \in DOMAIN flow_list : ~Stale(update_time[flow_list[i]], time)}
    IN  SubSeq(flow_list, 1, Max(fresh \cup {0}))

-----------------------------------------------------------------------------
(* The tree.                                                               *)

\* Flow::Init ends without a return statement when all went well; "inits" is
\* what its caller sees, true or false depending on the compiler.
EmptyTree(keys, inits) ==
    [inits |-> inits, flow_list |-> <<>>,
     window |-> [k \in keys |-> Cleared], update_time |-> [k \in keys |-> 0]]

\* A packet whose flow cannot be initialized is taken for a duplicate.
IsDuplicate(tree, key, seq) ==
    \/ WindowIsDuplicate(tree.window[key], seq)
    \/ key \notin ToSet(tree.flow_list) /\ ~tree.inits

\* The tree after IsDuplicate: a duplicate does not refresh its flow.
After(tree, time, key, seq) ==
    IF IsDuplicate(tree, key, seq) THEN tree
    ELSE [tree EXCEPT !.flow_list = ToHead(@, key),
                      !.window[key] = WindowAfter(@, seq),
                      !.update_time[key] = time]

Prune(tree, time) ==
    LET kept == Pruned(tree.flow_list, tree.update_time, time)
    IN  [tree EXCEPT
             !.flow_list = kept,
             !.window = [k \in DOMAIN @ |-> IF k \in ToSet(kept) THEN @[k] ELSE Cleared],
             !.update_time = [k \in DOMAIN @ |-> IF k \in ToSet(kept) THEN @[k] ELSE 0]]
=============================================================================

------------------------ MODULE MgenTcpTransport_proofs ------------------------
(***************************************************************************)
(* What holds of MgenTcpTransport for every size of the buffers, fragments *)
(* and messages, with checksums or without.                                *)
(*                                                                         *)
(* The argument is the account of the sender: what is left of the message, *)
(* of the fragment and of the buffer agree with the fragment begun last    *)
(* (Accounts), and the fragments begun before it are complete (Tiled).      *)
(* For the receiver, the bytes under way are an unbroken run of places     *)
(* from where it stands to where the sender stands (Track, OnTheWay), so   *)
(* that what it reads is the rest of the one fragment it is in (Reading).  *)
(***************************************************************************)
EXTENDS MgenTcpTransport, SequenceTheorems, WellFoundedInduction, TLAPS

\* A nonempty set of natural numbers has a least element.
LEMMA LeastNatural ==
    ASSUME NEW T \in SUBSET Nat, T # {}
    PROVE  \E n \in T : \A k \in T : n <= k
<1> DEFINE R == OpToRel(<, Nat)
<1>1. IsWellFoundedOn(R, Nat)
  BY NatLessThanWellFounded
<1>2. \E x \in T : \A y \in T : <<y, x>> \notin R
  BY <1>1, WFMin
<1>3. \A x, y \in Nat : <<y, x>> \notin R => x <= y
  BY DEF OpToRel
<1> QED
  BY <1>2, <1>3

\* The fragment begun last.
Current == begun[Len(begun)]

\* The fragment is the message's last one.
Ends(at) == at + tx.len = tx.size

\* The numbers agree.
Filled ==
    /\ 0 < tx.buffer /\ tx.buffer <= tx.fragment /\ tx.fragment <= tx.len
    /\ tx.offset = Current.at + tx.len - (tx.fragment - tx.buffer)
    /\ Ends(Current.at) \/ Current.at + tx.len + MinFragSize <= tx.size
    /\ ChecksumEnable /\ tx.buffer < tx.fragment => tx.fragment - tx.buffer >= ChecksumSize

\* A message is being sent: its offset is past the bytes that are in a buffer, and
\* what is left of the fragment is not there yet.
Active ==
    /\ Len(begun) > 0
    /\ Current.msg = tx.msg /\ Current.len = tx.len
    /\ Current.last <=> Ends(Current.at)
    /\ Filled

\* No message is being sent: on a connection that stands the last one is complete.
Idle ==
    /\ phase = "idle" /\ ~output
    /\ tx.buffer = 0 /\ tx.fragment = 0
    /\ alive /\ Len(begun) > 0 => Current.last

Accounts ==
    /\ IF tx.offset > 0 THEN Active ELSE Idle
    /\ phase = "idle" /\ tx.offset > 0 => output
    /\ phase = "event" => output

\* The parts of FragmentsTile, of any fragments b and messages m.
Complete(b, m) == \A j \in 1..Len(m) : \E i \in 1..Len(b) : b[i].msg = m[j] /\ b[i].last
Follows(b, i) ==
    IF i = 1 \/ b[i - 1].last
    THEN b[i].at = 0
    ELSE b[i].msg = b[i - 1].msg /\ b[i].at = b[i - 1].at + b[i - 1].len
Tiled(b) ==
    \A i \in 1..Len(b) : MinFragSize <= b[i].len /\ b[i].len <= MaxFragSize /\ Follows(b, i)

\* The sender's part of the type invariant.
SenderOK ==
    /\ phase \in {"idle", "send", "event"}
    /\ tx \in TxMembers
    /\ output \in BOOLEAN /\ alive \in BOOLEAN
    /\ messages \in Nat
    /\ begun \in Seq(Fragments)
    /\ logged \in Seq(Nat)

SenderInv == SenderOK /\ Accounts /\ Complete(begun, logged) /\ Tiled(begun)

-----------------------------------------------------------------------------
LEMMA Numbers == MinFragSize \in Nat /\ MaxFragSize \in Nat /\ ChecksumSize \in Nat
BY SizeAssumption

LEMMA AccountMembers ==
    ASSUME NEW t \in TxMembers, NEW n \in Nat, n <= t.buffer, n <= t.fragment
    PROVE  /\ Account(t, n) \in TxMembers
           /\ Account(t, n).msg = t.msg /\ Account(t, n).size = t.size
           /\ Account(t, n).len = t.len /\ Account(t, n).offset = t.offset
           /\ Account(t, n).buffer = t.buffer - n /\ Account(t, n).fragment = t.fragment - n
<1>1. Account(t, n) \in TxMembers
    <2>1. t.buffer - n \in Nat /\ t.fragment - n \in Nat
        BY DEF TxMembers
    <2>2. [t EXCEPT !.buffer = t.buffer - n] \in TxMembers
        BY <2>1 DEF TxMembers
    <2> QED
        BY <2>1, <2>2 DEF Account, TxMembers
<1>2. /\ Account(t, n).msg = t.msg /\ Account(t, n).size = t.size
      /\ Account(t, n).len = t.len /\ Account(t, n).offset = t.offset
    BY DEF Account, TxMembers
<1>3. Account(t, n).buffer = t.buffer - n
    BY DEF Account, TxMembers
<1>4. Account(t, n).fragment = t.fragment - n
    BY DEF Account, TxMembers
<1> QED
    BY <1>1, <1>2, <1>3, <1>4

-----------------------------------------------------------------------------
(* How messages are cut.                                                   *)

\* A fragment is what is left of the message, or leaves a fragment's worth.
LEMMA FragmentSize ==
    ASSUME NEW t \in TxMembers,
           t.offset = t.size \/ t.offset + MinFragSize <= t.size
    PROVE  LET len == GetNextTxFragmentSize(t)
           IN  /\ len \in Nat
               /\ len = 0 <=> t.offset = t.size
               /\ len # 0 => MinFragSize <= len /\ len <= MaxFragSize
               /\ t.offset + len = t.size \/ t.offset + len + MinFragSize <= t.size
BY SizeAssumption DEF GetNextTxFragmentSize, Remaining, TxMembers, MsgLenSize

\* The first buffer of a fragment leaves nothing, or the checksum at least.
LEMMA FirstBuffer ==
    ASSUME NEW len \in Nat, MinFragSize <= len
    PROVE  LET n == FirstBufferSize(len)
           IN  /\ n \in Nat /\ 0 < n /\ n <= len
               /\ ChecksumEnable /\ n < len => len - n >= ChecksumSize
BY SizeAssumption, OptionAssumption DEF FirstBufferSize, MsgLenSize

\* So do the others.
LEMMA NextBuffer ==
    ASSUME NEW pending \in Nat, pending > 0
    PROVE  LET n == NextBufferSize(pending)
           IN  /\ n \in Nat /\ 0 < n /\ n <= pending
               /\ ChecksumEnable /\ n < pending => pending - n >= ChecksumSize
BY SizeAssumption, OptionAssumption DEF NextBufferSize, MsgLenSize

\* What a transport that begins its next fragment has in its members.
LEMMA NextFragment ==
    ASSUME NEW t \in TxMembers,
           t.offset = t.size \/ t.offset + MinFragSize <= t.size
    PROVE  LET next == GetNextTxFragment(t)
           IN  /\ next \in TxMembers
               /\ next.msg = t.msg /\ next.size = t.size
               /\ next.fragment = next.len
               /\ next.len = 0 <=> t.offset = t.size
               /\ next.len # 0 =>
                     /\ MinFragSize <= next.len /\ next.len <= MaxFragSize
                     /\ 0 < next.buffer /\ next.buffer <= next.len
                     /\ next.offset = t.offset + next.buffer
                     /\ ChecksumEnable /\ next.buffer < next.len =>
                            next.len - next.buffer >= ChecksumSize
                     /\ t.offset + next.len = t.size \/ t.offset + next.len + MinFragSize <= t.size
<1> DEFINE len == GetNextTxFragmentSize(t)
<1>1. /\ len \in Nat
      /\ len = 0 <=> t.offset = t.size
      /\ len # 0 => MinFragSize <= len /\ len <= MaxFragSize
      /\ t.offset + len = t.size \/ t.offset + len + MinFragSize <= t.size
    BY FragmentSize
<1>2. CASE len = 0
    BY <1>1, <1>2 DEF GetNextTxFragment, TxMembers
<1>3. CASE len # 0
    <2>1. /\ FirstBufferSize(len) \in Nat /\ 0 < FirstBufferSize(len) /\ FirstBufferSize(len) <= len
          /\ ChecksumEnable /\ FirstBufferSize(len) < len => len - FirstBufferSize(len) >= ChecksumSize
        BY <1>1, <1>3, FirstBuffer
    <2> HIDE DEF len
    <2>2. GetNextTxFragment(t) =
              [t EXCEPT !.len = len, !.fragment = len, !.buffer = FirstBufferSize(len),
                        !.offset = @ + FirstBufferSize(len)]
        BY <1>3 DEF GetNextTxFragment, len
    <2> DEFINE first == FirstBufferSize(len)
    <2>3. first \in Nat /\ 0 < first /\ first <= len
        BY <2>1
    <2>4. ChecksumEnable /\ first < len => len - first >= ChecksumSize
        BY <2>1
    <2> HIDE DEF first
    <2>5. GetNextTxFragment(t) =
              [msg |-> t.msg, size |-> t.size, len |-> len, offset |-> t.offset + first,
               buffer |-> first, fragment |-> len]
        BY <2>2 DEF TxMembers, first
    <2>6. t.offset + first \in Nat
        BY <2>3 DEF TxMembers
    <2> QED
        BY <1>1, <1>3, <2>3, <2>4, <2>5, <2>6 DEF TxMembers
<1> QED
    BY <1>2, <1>3

-----------------------------------------------------------------------------
(* The fragments that were begun.                                          *)

\* One more fragment that begins a message after a complete one, or goes on.
LEMMA TiledAppend ==
    ASSUME NEW b \in Seq(Fragments), Tiled(b),
           NEW g \in Fragments, MinFragSize <= g.len, g.len <= MaxFragSize,
           IF Len(b) = 0 \/ b[Len(b)].last
           THEN g.at = 0
           ELSE g.msg = b[Len(b)].msg /\ g.at = b[Len(b)].at + b[Len(b)].len
    PROVE  Tiled(Append(b, g))
<1> DEFINE c == Append(b, g)
<1>1. /\ Len(c) = Len(b) + 1 /\ c[Len(b) + 1] = g
      /\ \A i \in 1..Len(b) : c[i] = b[i]
      /\ Len(b) \in Nat
    OBVIOUS
<1> HIDE DEF c
<1>2. ASSUME NEW i \in 1..Len(c)
      PROVE  MinFragSize <= c[i].len /\ c[i].len <= MaxFragSize /\ Follows(c, i)
    <2>1. CASE i \in 1..Len(b)
        <3>1. c[i] = b[i] /\ (i # 1 => c[i - 1] = b[i - 1])
            BY <1>1, <2>1
        <3> QED
            BY <2>1, <3>1 DEF Tiled, Follows
    <2>2. CASE i = Len(b) + 1
        <3>1. c[i] = g /\ (i # 1 => c[i - 1] = b[Len(b)])
            BY <1>1, <2>2
        <3>2. i = 1 <=> Len(b) = 0
            BY <1>1, <2>2
        <3> QED
            BY <3>1, <3>2, <2>2, <1>1 DEF Follows
    <2> QED
        BY <1>1, <2>1, <2>2
<1> QED
    BY <1>2 DEF Tiled, c

LEMMA CompleteAppend ==
    ASSUME NEW b \in Seq(Fragments), NEW m \in Seq(Nat), Complete(b, m), NEW g \in Fragments
    PROVE  Complete(Append(b, g), m)
<1>1. /\ Len(Append(b, g)) = Len(b) + 1 /\ Len(b) \in Nat
      /\ \A i \in 1..Len(b) : Append(b, g)[i] = b[i]
    OBVIOUS
<1> QED
    BY <1>1 DEF Complete

\* A message is logged with its last fragment.
LEMMA CompleteLogged ==
    ASSUME NEW b \in Seq(Fragments), NEW m \in Seq(Nat), Complete(b, m),
           Len(b) > 0, b[Len(b)].last
    PROVE  Complete(b, Append(m, b[Len(b)].msg))
<1> DEFINE x == b[Len(b)].msg
<1>1. /\ Len(Append(m, x)) = Len(m) + 1 /\ Append(m, x)[Len(m) + 1] = x
      /\ \A i \in 1..Len(m) : Append(m, x)[i] = m[i]
      /\ Len(m) \in Nat /\ Len(b) \in Nat /\ Len(b) \in 1..Len(b)
    BY DEF Fragments
<1> QED
    BY <1>1 DEF Complete

\* The fragment that is begun with what is in the members.
LEMMA FragmentType ==
    ASSUME NEW t \in TxMembers, NEW at \in Nat
    PROVE  /\ FragmentOf(t, at) \in Fragments
           /\ FragmentOf(t, at).msg = t.msg /\ FragmentOf(t, at).at = at
           /\ FragmentOf(t, at).len = t.len
           /\ FragmentOf(t, at).last <=> at + t.len = t.size
BY DEF FragmentOf, Fragments, TxMembers

-----------------------------------------------------------------------------
(* The invariant.                                                          *)

LEMMA SenderInit == Init => SenderInv
<1> SUFFICES ASSUME Init PROVE SenderInv
    OBVIOUS
<1>1. SenderOK
    <2>1. ClearTx \in TxMembers
        BY DEF TxMembers, ClearTx
    <2>2. <<>> \in Seq(Fragments) /\ <<>> \in Seq(Nat)
        OBVIOUS
    <2> QED
        BY <2>1, <2>2 DEF Init, SenderOK
<1>2. Accounts
    BY DEF Init, Accounts, Idle, ClearTx
<1>3. Complete(begun, logged) /\ Tiled(begun)
    BY DEF Init, Complete, Tiled
<1> QED
    BY <1>1, <1>2, <1>3 DEF SenderInv

\* A fragment is begun: the state is Active, and the fragments are tiled.
LEMMA Begins ==
    ASSUME SenderInv, tx' \in TxMembers,
           NEW at \in Nat,
           begun' = Append(begun, FragmentOf(tx', at)),
           MinFragSize <= tx'.len, tx'.len <= MaxFragSize,
           0 < tx'.buffer, tx'.buffer <= tx'.len, tx'.fragment = tx'.len,
           tx'.offset = at + tx'.buffer,
           ChecksumEnable /\ tx'.buffer < tx'.len => tx'.len - tx'.buffer >= ChecksumSize,
           at + tx'.len = tx'.size \/ at + tx'.len + MinFragSize <= tx'.size,
           IF Len(begun) = 0 \/ Current.last
           THEN at = 0
           ELSE tx'.msg = Current.msg /\ at = Current.at + Current.len,
           logged' = logged
    PROVE  /\ begun' \in Seq(Fragments) /\ Active' /\ tx'.offset > 0
           /\ Complete(begun, logged)' /\ Tiled(begun)'
<1> DEFINE g == FragmentOf(tx', at)
<1>1. g \in Fragments /\ g.msg = tx'.msg /\ g.at = at /\ g.len = tx'.len
      /\ (g.last <=> at + tx'.len = tx'.size)
    BY FragmentType
<1> HIDE DEF g
<1>2. begun \in Seq(Fragments) /\ logged \in Seq(Nat) /\ Tiled(begun) /\ Complete(begun, logged)
    BY DEF SenderInv, SenderOK
<1>3. begun' = Append(begun, g)
    BY DEF g
<1>4. /\ begun' \in Seq(Fragments) /\ Len(begun') = Len(begun) + 1 /\ Len(begun) \in Nat
      /\ begun'[Len(begun')] = g
    BY <1>1, <1>2, <1>3
<1>5. Tiled(begun')
    BY <1>1, <1>2, <1>3, TiledAppend DEF Current
<1>6. Complete(begun', logged')
    BY <1>1, <1>2, <1>3, CompleteAppend
<1>7. Active'
    <2>1. Filled'
        BY <1>1, <1>4 DEF Filled, Ends, Current, TxMembers
    <2> QED
        BY <1>1, <1>4, <2>1 DEF Active, Ends, Current
<1> QED
    BY <1>4, <1>5, <1>6, <1>7 DEF TxMembers

\* The loops of SendMessage and OnEvent: n bytes are taken.
LEMMA SendBytesStep == ASSUME SenderInv, NEW n \in 1..TxBufferSize, SendBytes(n) PROVE SenderInv'
<1> DEFINE t == Account(tx, n)
           next == GetNextTxFragment(t)
<1>1. /\ phase \in {"send", "event"} /\ tx.offset > 0 /\ Active /\ alive
      /\ tx \in TxMembers /\ begun \in Seq(Fragments) /\ logged \in Seq(Nat)
      /\ Complete(begun, logged) /\ Tiled(begun)
      /\ phase = "event" => output
    BY DEF SenderInv, SenderOK, Accounts, Idle, SendBytes
<1>2. n \in Nat /\ 0 < n /\ n <= tx.buffer
    BY <1>1 DEF SendBytes, TxMembers
<1>3. Current \in Fragments
    BY <1>1 DEF Active, Current
<1>4. /\ t \in TxMembers
      /\ t.msg = tx.msg /\ t.size = tx.size /\ t.len = tx.len /\ t.offset = tx.offset
      /\ t.buffer = tx.buffer - n /\ t.fragment = tx.fragment - n
    <2>1. n <= tx.fragment
        BY <1>1, <1>2 DEF Active, Filled, TxMembers
    <2> QED
        BY <1>1, <1>2, <2>1, AccountMembers
<1>5. /\ alive' = alive /\ messages' = messages
      /\ messages \in Nat /\ output \in BOOLEAN
    BY DEF SendBytes, SenderInv, SenderOK
<1> HIDE DEF t, next
<1>6. CASE /\ t.buffer > 0
           /\ tx' = t /\ UNCHANGED <<phase, output, begun, logged>>
    <2> DEFINE at == Current.at
    <2>1. at \in Nat /\ at' = at /\ Filled /\ tx \in TxMembers
        BY <1>1, <1>3, <1>6 DEF Active, Current, Fragments
    <2> HIDE DEF at
    <2>2. Filled'
        BY <1>2, <1>4, <1>6, <2>1, Numbers DEF Filled, Ends, TxMembers, at
    <2>3. Active'
        BY <1>1, <1>4, <1>6, <2>2 DEF Active, Ends, Current
    <2>4. SenderOK' /\ Accounts'
        BY <1>1, <1>4, <1>5, <1>6, <2>3 DEF SenderOK, Accounts
    <2> QED
        BY <1>1, <1>6, <2>4 DEF SenderInv
<1>7. CASE /\ t.buffer = 0 /\ t.fragment > 0
           /\ tx' = SetupNextTxBuffer(t) /\ UNCHANGED <<phase, output, begun, logged>>
    <2> DEFINE m == NextBufferSize(t.fragment)
    <2>1. /\ m \in Nat /\ 0 < m /\ m <= t.fragment
          /\ ChecksumEnable /\ m < t.fragment => t.fragment - m >= ChecksumSize
        BY <1>4, <1>7, NextBuffer DEF TxMembers
    <2> HIDE DEF m
    <2>2. /\ tx' \in TxMembers
          /\ tx'.msg = t.msg /\ tx'.size = t.size /\ tx'.len = t.len /\ tx'.fragment = t.fragment
          /\ tx'.buffer = m /\ tx'.offset = t.offset + m
        <3>1. tx' = [msg |-> t.msg, size |-> t.size, len |-> t.len, offset |-> t.offset + m,
                     buffer |-> m, fragment |-> t.fragment]
            BY <1>4, <1>7 DEF SetupNextTxBuffer, TxMembers, m
        <3> QED
            BY <1>4, <2>1, <3>1 DEF TxMembers
    <2>3. Active'
        <3> DEFINE at == Current.at
        <3>1. at \in Nat /\ at' = at /\ Filled /\ tx \in TxMembers
            BY <1>1, <1>3, <1>7 DEF Active, Current, Fragments
        <3> HIDE DEF at
        <3>2. Filled'
            BY <1>2, <1>4, <1>7, <2>1, <2>2, <3>1, Numbers DEF Filled, Ends, TxMembers, at
        <3> QED
            BY <1>1, <1>4, <1>7, <2>2, <3>2 DEF Active, Ends, Current
    <2>4. SenderOK' /\ Accounts'
        BY <1>1, <1>4, <1>5, <1>7, <2>1, <2>2, <2>3 DEF SenderOK, Accounts, TxMembers
    <2> QED
        BY <1>1, <1>7, <2>4 DEF SenderInv
<1>8. ASSUME t.buffer = 0, t.fragment = 0
      PROVE  /\ t.offset = Current.at + Current.len
             /\ Current.last <=> t.offset = t.size
             /\ t.offset = t.size \/ t.offset + MinFragSize <= t.size
    <2>1. t.offset = Current.at + tx.len
        BY <1>1, <1>2, <1>3, <1>4, <1>8 DEF Active, Filled, TxMembers, Fragments
    <2>2. Ends(Current.at) <=> t.offset = t.size
        BY <1>4, <2>1 DEF Ends
    <2>3. t.offset = t.size \/ t.offset + MinFragSize <= t.size
        BY <1>1, <1>4, <2>1, <2>2 DEF Active, Filled
    <2> QED
        BY <1>1, <2>1, <2>2, <2>3 DEF Active
<1>9. CASE /\ t.buffer = 0 /\ t.fragment = 0 /\ next.fragment > 0
           /\ tx' = next /\ Begin(next) /\ UNCHANGED <<phase, output, logged>>
    <2>1. /\ next \in TxMembers /\ next.msg = t.msg /\ next.size = t.size
          /\ next.fragment = next.len
          /\ next.len = 0 <=> t.offset = t.size
          /\ next.len # 0 =>
                /\ MinFragSize <= next.len /\ next.len <= MaxFragSize
                /\ 0 < next.buffer /\ next.buffer <= next.len
                /\ next.offset = t.offset + next.buffer
                /\ ChecksumEnable /\ next.buffer < next.len =>
                       next.len - next.buffer >= ChecksumSize
                /\ t.offset + next.len = t.size \/ t.offset + next.len + MinFragSize <= t.size
        BY <1>4, <1>8, <1>9, NextFragment DEF next
    <2>2. next.len # 0
        BY <1>9, <2>1
    <2>3. begun' = Append(begun, FragmentOf(tx', t.offset)) /\ t.offset \in Nat
        BY <1>4, <1>9 DEF Begin, TxMembers
    <2>4. ~Current.last /\ Len(begun) # 0 /\ t.msg = Current.msg
        BY <1>1, <1>4, <1>8, <1>9, <2>1, <2>2 DEF Active
    <2>5. /\ begun' \in Seq(Fragments) /\ Active' /\ tx'.offset > 0
          /\ Complete(begun, logged)' /\ Tiled(begun)'
        BY <1>8, <1>9, <2>1, <2>2, <2>3, <2>4, Begins
    <2>6. SenderOK' /\ Accounts'
        BY <1>1, <1>5, <1>9, <2>1, <2>5 DEF SenderOK, Accounts
    <2> QED
        BY <2>5, <2>6 DEF SenderInv
<1>10. CASE t.buffer = 0 /\ t.fragment = 0 /\ next.fragment = 0 /\ MessageDone
    <2>1. Current.last
        BY <1>4, <1>8, <1>10, NextFragment DEF next
    <2>2. Len(begun) > 0 /\ tx.msg = Current.msg /\ tx.msg \in Nat
        BY <1>1 DEF Active, TxMembers
    <2>3. logged' = Append(logged, tx.msg) /\ begun' = begun /\ tx' = ClearTx
          /\ output' = FALSE /\ phase' = "idle"
        BY <1>10 DEF MessageDone
    <2>4. Complete(begun', logged')
        BY <1>1, <2>1, <2>2, <2>3, CompleteLogged DEF Current
    <2>5. SenderOK' /\ Accounts'
        <3>1. ClearTx \in TxMembers /\ ClearTx.offset = 0 /\ ClearTx.buffer = 0 /\ ClearTx.fragment = 0
            BY DEF ClearTx, TxMembers
        <3>2. Idle'
            BY <2>1, <2>3, <3>1 DEF Idle, Current
        <3>3. logged' \in Seq(Nat)
            BY <1>1, <2>2, <2>3
        <3>4. Accounts'
            BY <2>3, <3>1, <3>2 DEF Accounts
        <3> QED
            BY <1>1, <1>5, <2>3, <3>1, <3>3, <3>4 DEF SenderOK
    <2> QED
        BY <1>1, <2>3, <2>4, <2>5 DEF SenderInv
<1> QED
    BY <1>6, <1>7, <1>9, <1>10 DEF SendBytes, t, next

LEMMA SendMessageStep == ASSUME SenderInv, NEW size \in Sizes, SendMessage(size) PROVE SenderInv'
<1> DEFINE t == [ClearTx EXCEPT !.msg = messages + 1, !.size = size]
           next == GetNextTxFragment(t)
<1>1. /\ alive /\ phase = "idle" /\ tx.offset = 0 /\ Idle
      /\ messages \in Nat /\ alive \in BOOLEAN /\ output \in BOOLEAN
      /\ begun \in Seq(Fragments) /\ logged \in Seq(Nat)
    BY DEF SendMessage, SenderInv, SenderOK, Accounts, TxMembers
<1>2. size \in Nat /\ MinFragSize <= size /\ 0 < size /\ MinFragSize \in Nat
    BY SizeAssumption
<1>3. t \in TxMembers /\ t.offset = 0 /\ t.size = size
    <2>1. [ClearTx EXCEPT !.msg = messages + 1] \in TxMembers
        BY <1>1 DEF ClearTx, TxMembers
    <2>2. messages + 1 \in Nat
        BY <1>1
    <2>3. t \in TxMembers
        BY <1>2, <2>1, <2>2 DEF ClearTx, TxMembers
    <2> QED
        BY <2>3 DEF ClearTx
<1>4. /\ tx' = next /\ begun' = Append(begun, FragmentOf(next, 0)) /\ phase' = "send"
      /\ messages' = messages + 1 /\ UNCHANGED <<output, alive, logged>>
    BY DEF SendMessage
<1> HIDE DEF t, next
<1>5. /\ next \in TxMembers /\ next.msg = t.msg /\ next.size = t.size
      /\ next.fragment = next.len
      /\ next.len = 0 <=> t.offset = t.size
      /\ next.len # 0 =>
            /\ MinFragSize <= next.len /\ next.len <= MaxFragSize
            /\ 0 < next.buffer /\ next.buffer <= next.len
            /\ next.offset = t.offset + next.buffer
            /\ ChecksumEnable /\ next.buffer < next.len =>
                   next.len - next.buffer >= ChecksumSize
            /\ t.offset + next.len = t.size \/ t.offset + next.len + MinFragSize <= t.size
    BY <1>2, <1>3, NextFragment DEF next
<1>6. next.len # 0
    BY <1>2, <1>3, <1>5
<1>7. Len(begun) = 0 \/ Current.last
    BY <1>1 DEF Idle
<1>8. /\ begun' \in Seq(Fragments) /\ Active' /\ tx'.offset > 0
      /\ Complete(begun, logged)' /\ Tiled(begun)'
    BY <1>3, <1>4, <1>5, <1>6, <1>7, Begins
<1>9. SenderOK' /\ Accounts'
    BY <1>1, <1>4, <1>5, <1>8 DEF SenderOK, Accounts
<1> QED
    BY <1>8, <1>9 DEF SenderInv

\* The steps that change neither the message nor the fragments.
LEMMA SenderUnchanged ==
    ASSUME SenderInv, UNCHANGED <<tx, begun, logged, messages>>,
           phase' \in {"idle", "send", "event"}, output' \in BOOLEAN, alive' \in BOOLEAN,
           phase' = "event" => output',
           IF tx.offset > 0 THEN phase' = "idle" => output'
           ELSE phase' = "idle" /\ ~output',
           alive' => alive
    PROVE  SenderInv'
<1>1. Active => Active'
    BY DEF Active, Filled, Ends, Current
<1>2. Idle /\ phase' = "idle" /\ ~output' => Idle'
    BY DEF Idle, Current
<1>3. SenderOK'
    BY DEF SenderInv, SenderOK
<1>4. Accounts'
    BY <1>1, <1>2 DEF SenderInv, Accounts
<1> QED
    BY <1>3, <1>4 DEF SenderInv

LEMMA SenderClear ==
    /\ ClearTx \in TxMembers
    /\ ClearTx.offset = 0 /\ ClearTx.buffer = 0 /\ ClearTx.fragment = 0
BY DEF ClearTx, TxMembers

LEMMA SendFailsStep == ASSUME SenderInv, SendFails PROVE SenderInv'
<1>1. CASE phase = "send"
    <2>1. /\ tx' = ClearTx /\ ~output' /\ output' = FALSE /\ phase' = "idle" /\ ~alive /\ alive' = alive
          /\ UNCHANGED <<begun, logged, messages>>
        BY <1>1 DEF SendFails, history
    <2>2. SenderOK'
        BY <2>1, SenderClear DEF SenderInv, SenderOK
    <2>3. Accounts'
        BY <2>1, SenderClear DEF Accounts, Idle
    <2> QED
        BY <2>1, <2>2, <2>3 DEF SenderInv
<1>2. CASE phase # "send"
    <2>1. /\ UNCHANGED <<tx, output, alive, begun, logged, messages>> /\ phase' = "idle" /\ phase = "event"
        BY <1>2 DEF SendFails, history, SenderInv, SenderOK
    <2>2. output /\ tx.offset > 0
        BY <2>1 DEF SenderInv, Accounts, Idle
    <2> QED
        BY <2>1, <2>2, SenderUnchanged DEF SenderInv, SenderOK
<1> QED
    BY <1>1, <1>2

LEMMA ReconnectStep == ASSUME SenderInv, Reconnect PROVE SenderInv'
<1>1. /\ tx' = ClearTx /\ output' = FALSE /\ phase' = "idle" /\ alive' = TRUE
      /\ begun' = <<>> /\ logged' = <<>> /\ messages' = messages
    BY DEF Reconnect, ResetTxMsgState
<1>2. SenderOK'
    <2>1. <<>> \in Seq(Fragments) /\ <<>> \in Seq(Nat)
        OBVIOUS
    <2> QED
        BY <1>1, <2>1, SenderClear DEF SenderInv, SenderOK
<1>3. Accounts'
    BY <1>1, SenderClear DEF Accounts, Idle
<1>4. Complete(begun, logged)' /\ Tiled(begun)'
    BY <1>1 DEF Complete, Tiled
<1> QED
    BY <1>2, <1>3, <1>4 DEF SenderInv

LEMMA SenderStep == SenderInv /\ [Next]_vars => SenderInv'
<1> SUFFICES ASSUME SenderInv, [Next]_vars PROVE SenderInv'
    OBVIOUS
<1>1. /\ phase \in {"idle", "send", "event"} /\ output \in BOOLEAN /\ alive \in BOOLEAN
      /\ phase # "idle" => tx.offset > 0
      /\ output => tx.offset > 0
      /\ phase = "event" => output
      /\ phase = "idle" /\ tx.offset > 0 => output
    BY DEF SenderInv, SenderOK, Accounts, Idle
<1>2. ASSUME NEW size \in Sizes, SendMessage(size) PROVE SenderInv'
    BY <1>2, SendMessageStep
<1>3. CASE OutputReady
    <2>1. /\ UNCHANGED <<tx, output, alive, begun, logged, messages>> /\ phase' = "event" /\ output
        BY <1>3 DEF OutputReady, history
    <2> QED
        BY <1>1, <2>1, SenderUnchanged
<1>4. CASE SendBlocks
    <2>1. /\ UNCHANGED <<tx, alive, begun, logged, messages>>
          /\ phase # "idle" /\ phase' = "idle" /\ output' = TRUE
        BY <1>4 DEF SendBlocks, history
    <2> QED
        BY <1>1, <2>1, SenderUnchanged
<1>5. ASSUME NEW n \in 1..TxBufferSize, SendBytes(n) PROVE SenderInv'
    BY <1>5, SendBytesStep
<1>6. CASE SendFails
    BY <1>6, SendFailsStep
<1>7. ASSUME NEW n \in 1..MaxFragSize, Recv(n) PROVE SenderInv'
    <2>1. UNCHANGED <<phase, tx, output, alive, begun, logged, messages>>
        BY <1>7 DEF Recv, txVars
    <2> QED
        BY <1>1, <2>1, SenderUnchanged
<1>8. CASE Break
    <2>1. UNCHANGED <<phase, tx, output, begun, logged, messages>> /\ alive' = FALSE
        BY <1>8 DEF Break, txVars
    <2> QED
        BY <1>1, <2>1, SenderUnchanged
<1>9. CASE Reconnect
    BY <1>9, ReconnectStep
<1>10. CASE UNCHANGED vars
    <2>1. UNCHANGED <<phase, tx, output, alive, begun, logged, messages>>
        BY <1>10 DEF vars, txVars, history
    <2> QED
        BY <1>1, <2>1, SenderUnchanged
<1> QED
    BY <1>2, <1>3, <1>4, <1>5, <1>6, <1>7, <1>8, <1>9, <1>10 DEF Next, SendStep, RecvStep

LEMMA SenderAlways == Spec => []SenderInv
<1> QED
    BY SenderInit, SenderStep, PTL DEF Spec

-----------------------------------------------------------------------------
(* The theorems.                                                           *)

\* Whatever the sizes, the fragments of a message tile it, none is shorter than
\* MIN_FRAG_SIZE or longer than MAX_FRAG_SIZE, and SEND is logged of messages all
\* of whose fragments were begun (GetNextTxFragmentSize, GetNextTxFragment).
THEOREM MessagesAreTiled == Spec => []FragmentsTile
<1>1. SenderInv => FragmentsTile
    BY DEF SenderInv, Complete, Tiled, Follows, FragmentsTile
<1> QED
    BY <1>1, SenderAlways, PTL

\* Nothing is handed over beyond the fragment, and the checksum always fits into
\* its last buffer (SetupNextTxBuffer).
THEOREM ChecksumAlwaysFits == Spec => []ChecksumHasRoom
<1>1. SenderInv => ChecksumHasRoom
    BY DEF SenderInv, Accounts, Active, Filled, Idle, SenderOK, TxMembers, ChecksumHasRoom
<1> QED
    BY <1>1, SenderAlways, PTL

\* A message that the loops left is waiting for the socket (OnEvent, SendMessage).
THEOREM RestIsAlwaysWaitedFor == Spec => []RestIsWaitedFor
<1>1. SenderInv => RestIsWaitedFor
    BY DEF SenderInv, Accounts, Active, Filled, RestIsWaitedFor
<1> QED
    BY <1>1, SenderAlways, PTL
-----------------------------------------------------------------------------
(* The receiver.  The bytes under way are followed by their places: the    *)
(* fragment, by its number, and the byte in it.  The first place is where  *)
(* the receiver is, the one after the last byte is where the sender is.    *)

\* The place p of fragment f is one of a byte of b, or the next fragment's beginning.
Place(b, f, p) ==
    \/ f \in 1..Len(b) /\ p \in 0..(b[f].len - 1)
    \/ f = Len(b) + 1 /\ p = 0

\* The place after p of fragment f.
IsNext(b, f, p, f2, p2) ==
    IF p + 1 < b[f].len THEN f2 = f /\ p2 = p + 1 ELSE f2 = f + 1 /\ p2 = 0

\* fr and at are the places of the bytes w, and of the byte that is sent next.
Track(b, w, fr, at) ==
    /\ fr \in [1..(Len(w) + 1) -> Nat] /\ at \in [1..(Len(w) + 1) -> Nat]
    /\ \A j \in 1..(Len(w) + 1) : Place(b, fr[j], at[j])
    /\ \A j \in 1..Len(w) :
          /\ fr[j] <= Len(b)
          /\ w[j] = [frag |-> b[fr[j]], at |-> at[j]]
          /\ IsNext(b, fr[j], at[j], fr[j + 1], at[j + 1])

\* The places k and k2 are the same.
SamePlace(fr, at, k, fr2, at2, k2) == fr2[k2] = fr[k] /\ at2[k2] = at[k]

LEMMA TrackAt ==
    ASSUME NEW b \in Seq(Fragments), NEW w \in Seq(Bytes), NEW fr, NEW at, Track(b, w, fr, at),
           NEW j \in 1..Len(w)
    PROVE  /\ j \in 1..(Len(w) + 1) /\ j + 1 \in 1..(Len(w) + 1)
           /\ fr[j] \in 1..Len(b) /\ b[fr[j]].len \in Nat /\ at[j] \in 0..(b[fr[j]].len - 1)
           /\ w[j] = [frag |-> b[fr[j]], at |-> at[j]]
           /\ IsNext(b, fr[j], at[j], fr[j + 1], at[j + 1])
           /\ fr[j + 1] \in Nat /\ at[j + 1] \in Nat
<1>1. Len(w) \in Nat /\ Len(b) \in Nat
    OBVIOUS
<1>2. j \in 1..(Len(w) + 1) /\ j + 1 \in 1..(Len(w) + 1)
    BY <1>1
<1>3. Place(b, fr[j], at[j]) /\ fr[j] \in Nat /\ at[j] \in Nat
      /\ fr[j + 1] \in Nat /\ at[j + 1] \in Nat
    BY <1>2 DEF Track
<1>4. /\ fr[j] <= Len(b) /\ w[j] = [frag |-> b[fr[j]], at |-> at[j]]
      /\ IsNext(b, fr[j], at[j], fr[j + 1], at[j + 1])
    BY DEF Track
<1>5. fr[j] \in 1..Len(b) /\ at[j] \in 0..(b[fr[j]].len - 1)
    BY <1>1, <1>3, <1>4 DEF Place
<1>6. b[fr[j]] \in Fragments
    BY <1>5
<1> QED
    BY <1>2, <1>3, <1>4, <1>5, <1>6 DEF Fragments

\* A fragment that is begun takes no place away.
LEMMA TrackBegin ==
    ASSUME NEW b \in Seq(Fragments), NEW g \in Fragments, g.len > 0,
           NEW w \in Seq(Bytes), NEW fr, NEW at, Track(b, w, fr, at)
    PROVE  Track(Append(b, g), w, fr, at)
<1> DEFINE c == Append(b, g)
<1>1. Len(c) = Len(b) + 1 /\ Len(b) \in Nat /\ c[Len(b) + 1] = g
      /\ \A i \in 1..Len(b) : c[i] = b[i]
    OBVIOUS
<1> HIDE DEF c
<1>2. ASSUME NEW j \in 1..(Len(w) + 1) PROVE Place(c, fr[j], at[j])
    <2>1. Place(b, fr[j], at[j])
        BY <1>2 DEF Track
    <2>2. CASE fr[j] \in 1..Len(b) /\ at[j] \in 0..(b[fr[j]].len - 1)
        BY <1>1, <2>2 DEF Place
    <2>3. CASE fr[j] = Len(b) + 1 /\ at[j] = 0
        BY <1>1, <2>3 DEF Place, Fragments
    <2> QED
        BY <2>1, <2>2, <2>3 DEF Place
<1>3. ASSUME NEW j \in 1..Len(w)
      PROVE  /\ fr[j] <= Len(c) /\ w[j] = [frag |-> c[fr[j]], at |-> at[j]]
             /\ IsNext(c, fr[j], at[j], fr[j + 1], at[j + 1])
    <2>1. fr[j] \in 1..Len(b)
        BY <1>3, TrackAt
    <2>2. c[fr[j]] = b[fr[j]]
        BY <1>1, <2>1
    <2> QED
        BY <1>1, <1>3, <2>1, <2>2 DEF Track, IsNext
<1> QED
    BY <1>2, <1>3 DEF Track, c

\* The places of the bytes before a broken connection's end.
LEMMA TrackFront ==
    ASSUME NEW b, NEW w \in Seq(Bytes), NEW fr, NEW at, Track(b, w, fr, at),
           NEW n \in 0..Len(w)
    PROVE  \E fr2, at2 : Track(b, SubSeq(w, 1, n), fr2, at2) /\ fr2[1] = fr[1] /\ at2[1] = at[1]
<1> DEFINE fr2 == [j \in 1..(n + 1) |-> fr[j]]
           at2 == [j \in 1..(n + 1) |-> at[j]]
           v == SubSeq(w, 1, n)
<1>1. Len(v) = n /\ \A j \in 1..n : v[j] = w[j]
    OBVIOUS
<1> HIDE DEF v
<1>2. fr2 \in [1..(n + 1) -> Nat] /\ at2 \in [1..(n + 1) -> Nat]
    <2>1. 1..(n + 1) \subseteq 1..(Len(w) + 1)
        OBVIOUS
    <2> QED
        BY <2>1 DEF Track
<1>3. \A j \in 1..(n + 1) : Place(b, fr2[j], at2[j])
    BY DEF Track
<1>4. ASSUME NEW j \in 1..n
      PROVE  /\ fr2[j] <= Len(b) /\ v[j] = [frag |-> b[fr2[j]], at |-> at2[j]]
             /\ IsNext(b, fr2[j], at2[j], fr2[j + 1], at2[j + 1])
    <2>1. j \in 1..Len(w) /\ fr2[j] = fr[j] /\ at2[j] = at[j]
          /\ fr2[j + 1] = fr[j + 1] /\ at2[j + 1] = at[j + 1]
        BY <1>4
    <2> QED
        BY <1>1, <1>4, <2>1 DEF Track
<1>5. Track(b, v, fr2, at2)
    BY <1>1, <1>2, <1>3, <1>4 DEF Track
<1> QED
    BY <1>5 DEF v

\* The places of the bytes that are left when n of them are read.
LEMMA TrackRest ==
    ASSUME NEW b, NEW w \in Seq(Bytes), NEW fr, NEW at, Track(b, w, fr, at),
           NEW n \in 0..Len(w), NEW v, v = SubSeq(w, n + 1, Len(w))
    PROVE  \E fr2, at2 :
              /\ Track(b, v, fr2, at2)
              /\ SamePlace(fr, at, n + 1, fr2, at2, 1)
              /\ SamePlace(fr, at, Len(w) + 1, fr2, at2, Len(v) + 1)
<1> DEFINE fr2 == [j \in 1..(Len(w) - n + 1) |-> fr[n + j]]
           at2 == [j \in 1..(Len(w) - n + 1) |-> at[n + j]]
<1>1. Len(v) = Len(w) - n /\ \A j \in 1..(Len(w) - n) : v[j] = w[n + j]
    OBVIOUS
<1>2. fr2 \in [1..(Len(v) + 1) -> Nat] /\ at2 \in [1..(Len(v) + 1) -> Nat]
    BY <1>1 DEF Track
<1>3. \A j \in 1..(Len(v) + 1) : Place(b, fr2[j], at2[j])
    BY <1>1 DEF Track
<1>4. ASSUME NEW j \in 1..Len(v)
      PROVE  /\ fr2[j] <= Len(b) /\ v[j] = [frag |-> b[fr2[j]], at |-> at2[j]]
             /\ IsNext(b, fr2[j], at2[j], fr2[j + 1], at2[j + 1])
    <2>1. /\ n + j \in 1..Len(w) /\ n + (j + 1) = (n + j) + 1
          /\ j \in 1..(Len(w) - n + 1) /\ j + 1 \in 1..(Len(w) - n + 1)
        <3>1. Len(w) \in Nat /\ n \in Nat /\ n <= Len(w) /\ j \in Nat /\ 1 <= j /\ j <= Len(w) - n
            BY <1>1, <1>4
        <3> QED
            BY <3>1
    <2>2. /\ fr2[j] = fr[n + j] /\ at2[j] = at[n + j]
          /\ fr2[j + 1] = fr[(n + j) + 1] /\ at2[j + 1] = at[(n + j) + 1]
        BY <2>1
    <2> QED
        BY <1>1, <1>4, <2>1, <2>2 DEF Track
<1>5. Track(b, v, fr2, at2)
    BY <1>2, <1>3, <1>4 DEF Track
<1>6. /\ fr2[1] = fr[n + 1] /\ at2[1] = at[n + 1]
      /\ fr2[Len(v) + 1] = fr[Len(w) + 1] /\ at2[Len(v) + 1] = at[Len(w) + 1]
    BY <1>1
<1> QED
    BY <1>5, <1>6 DEF SamePlace

\* The place after n bytes of fragment f from p on.
IsBehind(b, f, p, n, f2, p2) == IsNext(b, f, p + n - 1, f2, p2)

IsAt(fr, at, k, f, p) == fr[k] = f /\ at[k] = p

\* The first n places are those of fragment f from p on.
Runs(fr, at, n, f, p) == \A j \in 1..n : IsAt(fr, at, j, f, p + j - 1)

\* The places of the bytes that are read, up to the end of a fragment at most.
LEMMA TrackRun ==
    ASSUME NEW b \in Seq(Fragments), NEW w \in Seq(Bytes), NEW fr, NEW at, Track(b, w, fr, at),
           NEW f \in Nat, NEW p \in Nat, IsAt(fr, at, 1, f, p),
           NEW n \in 1..Len(w), p + n <= b[f].len
    PROVE  /\ f \in 1..Len(b) /\ p \in Nat /\ b[f].len \in Nat
           /\ Runs(fr, at, n, f, p)
           /\ IsBehind(b, f, p, n, fr[n + 1], at[n + 1])
<1> USE DEF IsAt
<1>1. Len(w) \in Nat /\ Len(b) \in Nat /\ 1 \in 1..Len(w) /\ n \in Nat /\ 1 <= n /\ n <= Len(w)
    OBVIOUS
<1>2. f \in 1..Len(b) /\ p \in Nat /\ b[f].len \in Nat
    <2>1. fr[1] \in 1..Len(b) /\ b[fr[1]].len \in Nat
        BY <1>1, TrackAt
    <2> QED
        BY <2>1
<1> DEFINE Off == {j \in 1..n : ~(fr[j] = f /\ at[j] = p + j - 1)}
<1>3. Off = {}
    <2> SUFFICES ASSUME Off # {} PROVE FALSE
        OBVIOUS
    <2>1. PICK k \in Off : \A j \in Off : k <= j
        <3>1. Off \in SUBSET Nat
            OBVIOUS
        <3> HIDE DEF Off
        <3> QED
            BY <3>1, LeastNatural
    <2>2. k # 1
        BY <1>2, <2>1
    <2>3. k - 1 \in 1..n /\ k - 1 \in 1..Len(w) /\ (k - 1) + 1 = k
        BY <1>1, <2>1, <2>2
    <2>4. fr[k - 1] = f /\ at[k - 1] = p + (k - 1) - 1
        BY <2>1, <2>3
    <2>5. IsNext(b, f, p + (k - 1) - 1, fr[k], at[k])
        <3>1. IsNext(b, fr[k - 1], at[k - 1], fr[(k - 1) + 1], at[(k - 1) + 1])
            BY <2>3, TrackAt
        <3> QED
            BY <2>3, <2>4, <3>1
    <2>6. k \in Nat /\ k <= n
        BY <1>1, <2>1
    <2>7. p + (k - 1) - 1 + 1 < b[f].len
        BY <1>1, <1>2, <2>6
    <2>8. fr[k] = f /\ at[k] = p + k - 1
        BY <1>2, <2>5, <2>6, <2>7 DEF IsNext
    <2> QED
        BY <2>1, <2>8
<1>4. \A j \in 1..n : fr[j] = f /\ at[j] = p + j - 1
    BY <1>3
<1>5. IsNext(b, f, p + n - 1, fr[n + 1], at[n + 1])
    <2>1. n \in 1..n /\ n \in 1..Len(w)
        BY <1>1
    <2>2. fr[n] = f /\ at[n] = p + n - 1
        BY <1>4, <2>1
    <2>3. IsNext(b, fr[n], at[n], fr[n + 1], at[n + 1])
        BY <2>1, TrackAt
    <2> QED
        BY <2>2, <2>3
<1> QED
    BY <1>2, <1>4, <1>5 DEF Runs, IsBehind

NoneIsEmpty(b) == \A i \in 1..Len(b) : b[i].len > 0

\* The bytes v are w and n more of fragment f from p on.
Extends(b, w, v, f, p, n) ==
    /\ f \in 1..Len(b) /\ p \in Nat /\ n \in Nat \ {0} /\ p + n <= b[f].len
    /\ Len(v) = Len(w) + n
    /\ \A j \in 1..Len(w) : v[j] = w[j]
    /\ \A j \in 1..n : v[Len(w) + j] = [frag |-> b[f], at |-> p + j - 1]

LEMMA NotTheLast ==
    ASSUME NEW p \in Nat, NEW j \in Nat, NEW m \in Nat, NEW n \in Nat, NEW len \in Nat,
           j <= m + n, p + n <= len, j + 1 <= m + n \/ p + n < len
    PROVE  p + (j - m) - 1 + 1 < len
OBVIOUS

\* The places of the bytes when the sender hands over n more of fragment f.
LEMMA TrackHand ==
    ASSUME NEW b \in Seq(Fragments), NEW w \in Seq(Bytes), NEW fr, NEW at, Track(b, w, fr, at),
           NoneIsEmpty(b),
           NEW f, NEW p, NEW n, fr[Len(w) + 1] = f, at[Len(w) + 1] = p,
           NEW v \in Seq(Bytes), Extends(b, w, v, f, p, n)
    PROVE  \E fr2, at2 :
              /\ Track(b, v, fr2, at2)
              /\ SamePlace(fr, at, 1, fr2, at2, 1)
              /\ IsBehind(b, f, p, n, fr2[Len(v) + 1], at2[Len(v) + 1])
<1>1. PICK m \in Nat : Len(w) = m
    OBVIOUS
<1>2. /\ f \in 1..Len(b) /\ p \in Nat /\ n \in Nat \ {0} /\ p + n <= b[f].len
      /\ m \in Nat /\ Len(w) = m /\ fr[m + 1] = f /\ at[m + 1] = p
      /\ Len(v) = m + n
      /\ \A j \in 1..m : v[j] = w[j]
      /\ \A j \in 1..n : v[m + j] = [frag |-> b[f], at |-> p + j - 1]
    BY <1>1 DEF Extends
<1> USE <1>2
<1> DEFINE end == p + n < b[f].len
           fr2 == [j \in 1..(m + n + 1) |-> IF j <= m THEN fr[j]
                                            ELSE IF j <= m + n \/ end THEN f ELSE f + 1]
           at2 == [j \in 1..(m + n + 1) |-> IF j <= m THEN at[j]
                                            ELSE IF j <= m + n \/ end THEN p + (j - m) - 1 ELSE 0]
<1>3. /\ b[f] \in Fragments /\ b[f].len \in Nat /\ Len(b) \in Nat /\ m \in Nat
      /\ f \in Nat /\ 1 <= f /\ f <= Len(b) /\ p + n <= b[f].len
    <2>1. b[f] \in Fragments /\ Len(b) \in Nat /\ m \in Nat
        OBVIOUS
    <2>2. f \in Nat /\ 1 <= f /\ f <= Len(b)
        BY <2>1
    <2> QED
        BY <2>1, <2>2 DEF Fragments
<1>4. ASSUME NEW j \in 1..(m + n + 1)
      PROVE  /\ j <= m => fr2[j] = fr[j] /\ at2[j] = at[j]
             /\ j > m /\ (j <= m + n \/ end) => fr2[j] = f /\ at2[j] = p + (j - m) - 1
             /\ j > m /\ ~(j <= m + n \/ end) => fr2[j] = f + 1 /\ at2[j] = 0
             /\ fr2[j] \in Nat /\ at2[j] \in Nat /\ Place(b, fr2[j], at2[j])
    <2>1. CASE j <= m
        <3>1. j \in 1..(Len(w) + 1) /\ fr2[j] = fr[j] /\ at2[j] = at[j]
            BY <1>3, <1>4, <2>1
        <3>2. fr[j] \in Nat /\ at[j] \in Nat /\ Place(b, fr[j], at[j])
            BY <3>1 DEF Track
        <3> QED
            BY <2>1, <3>1, <3>2
    <2>2. CASE j > m /\ (j <= m + n \/ end)
        <3>1. fr2[j] = f /\ at2[j] = p + (j - m) - 1
            BY <1>3, <1>4, <2>2
        <3>2. j - m \in 1..(n + 1) /\ (j - m = n + 1 => p + n < b[f].len)
            BY <1>3, <1>4, <2>2
        <3>3. p + (j - m) - 1 \in 0..(b[f].len - 1)
            <4>1. j - m \in Int /\ 1 <= j - m /\ p + (j - m) <= b[f].len
                <5>1. CASE j - m = n + 1
                    BY <1>3, <3>2, <5>1
                <5>2. CASE j - m # n + 1
                    BY <1>3, <3>2, <5>2
                <5> QED
                    BY <5>1, <5>2
            <4> QED
                BY <1>3, <4>1
        <3> QED
            BY <1>3, <2>2, <3>1, <3>3 DEF Place
    <2>3. CASE j > m /\ ~(j <= m + n \/ end)
        <3>1. fr2[j] = f + 1 /\ at2[j] = 0
            BY <1>3, <1>4, <2>3
        <3>2. Place(b, f + 1, 0)
            <4>1. CASE f = Len(b)
                BY <1>3, <4>1 DEF Place
            <4>2. CASE f # Len(b)
                <5>1. f + 1 \in 1..Len(b) /\ b[f + 1] \in Fragments
                    BY <1>3, <4>2
                <5>2. b[f + 1].len \in Nat /\ b[f + 1].len > 0
                    BY <5>1 DEF Fragments, NoneIsEmpty
                <5> QED
                    BY <5>1, <5>2 DEF Place
            <4> QED
                BY <4>1, <4>2
        <3> QED
            BY <1>3, <2>3, <3>1, <3>2
    <2> QED
        BY <1>3, <1>4, <2>1, <2>2, <2>3
<1> HIDE DEF fr2, at2, end
<1>5. fr2 \in [1..(m + n + 1) -> Nat] /\ at2 \in [1..(m + n + 1) -> Nat]
    <2>1. fr2 = [j \in 1..(m + n + 1) |-> fr2[j]] /\ at2 = [j \in 1..(m + n + 1) |-> at2[j]]
        BY DEF fr2, at2
    <2> QED
        BY <1>4, <2>1
<1>6. ASSUME NEW j \in 1..Len(v)
      PROVE  /\ fr2[j] <= Len(b) /\ v[j] = [frag |-> b[fr2[j]], at |-> at2[j]]
             /\ IsNext(b, fr2[j], at2[j], fr2[j + 1], at2[j + 1])
    <2>1. j \in 1..(m + n + 1) /\ j + 1 \in 1..(m + n + 1) /\ j <= m + n
        BY <1>3, <1>6
    <2>2. CASE j <= m
        <3>1. j \in 1..m /\ fr2[j] = fr[j] /\ at2[j] = at[j] /\ v[j] = w[j]
            BY <1>3, <1>4, <2>1, <2>2
        <3>2. /\ fr[j] <= Len(b) /\ w[j] = [frag |-> b[fr[j]], at |-> at[j]]
              /\ IsNext(b, fr[j], at[j], fr[j + 1], at[j + 1])
            BY <3>1 DEF Track
        <3>3. fr2[j + 1] = fr[j + 1] /\ at2[j + 1] = at[j + 1]
            <4>1. CASE j + 1 <= m
                BY <1>4, <2>1, <4>1
            <4>2. CASE j + 1 = m + 1
                <5>1. fr2[m + 1] = f /\ at2[m + 1] = p + (m + 1 - m) - 1
                    BY <1>3, <1>4, <2>1, <4>2
                <5> QED
                    BY <1>3, <4>2, <5>1
            <4> QED
                BY <1>3, <2>1, <2>2, <4>1, <4>2
        <3> QED
            BY <1>3, <3>1, <3>2, <3>3
    <2>3. CASE j > m
        <3>1. j - m \in 1..n /\ m + (j - m) = j
            BY <1>3, <2>1, <2>3
        <3>2. v[j] = [frag |-> b[f], at |-> p + (j - m) - 1]
            BY <3>1
        <3>3. fr2[j] = f /\ at2[j] = p + (j - m) - 1
            BY <1>4, <2>1, <2>3
        <3>4. IsNext(b, f, p + (j - m) - 1, fr2[j + 1], at2[j + 1])
            <4>1. CASE j + 1 <= m + n \/ end
                <5>1. fr2[j + 1] = f /\ at2[j + 1] = p + ((j + 1) - m) - 1
                    <6> DEFINE k == j + 1
                    <6>1. k \in 1..(m + n + 1) /\ k > m /\ (k <= m + n \/ end)
                        BY <1>3, <2>1, <2>3, <4>1
                    <6> HIDE DEF k
                    <6>2. fr2[k] = f /\ at2[k] = p + (k - m) - 1
                        BY <1>4, <6>1
                    <6> QED
                        BY <6>2 DEF k
                <5>2. p + (j - m) - 1 + 1 < b[f].len
                    <6>1. j \in Nat /\ j <= m + n /\ (j + 1 <= m + n \/ p + n < b[f].len)
                        BY <2>1, <4>1 DEF end
                    <6>2. /\ p \in Nat /\ m \in Nat /\ n \in Nat
                          /\ b[f].len \in Nat /\ p + n <= b[f].len
                        BY <1>3
                    <6> QED
                        BY <6>1, <6>2, NotTheLast
                <5>3. p + ((j + 1) - m) - 1 = p + (j - m) - 1 + 1
                    BY <1>3, <2>1
                <5> QED
                    BY <5>1, <5>2, <5>3 DEF IsNext
            <4>2. CASE ~(j + 1 <= m + n \/ end)
                <5>1. fr2[j + 1] = f + 1 /\ at2[j + 1] = 0
                    BY <1>3, <1>4, <2>1, <2>3, <4>2
                <5>2. ~(p + (j - m) - 1 + 1 < b[f].len)
                    <6>1. j \in Nat /\ j = m + n /\ ~(p + n < b[f].len)
                        BY <2>1, <4>2 DEF end
                    <6>2. p + (j - m) - 1 + 1 = p + n
                        BY <6>1
                    <6> QED
                        BY <6>1, <6>2
                <5> QED
                    BY <5>1, <5>2 DEF IsNext
            <4> QED
                BY <4>1, <4>2
        <3> QED
            BY <1>3, <3>2, <3>3, <3>4
    <2> QED
        BY <1>3, <2>1, <2>2, <2>3
<1>7. Track(b, v, fr2, at2)
    BY <1>4, <1>5, <1>6 DEF Track
<1>8. fr2[1] = fr[1] /\ at2[1] = at[1]
    <2>1. CASE m >= 1
        <3>1. 1 \in 1..(m + n + 1) /\ 1 <= m
            BY <1>3, <2>1
        <3> QED
            BY <1>4, <3>1
    <2>2. CASE m = 0
        BY <1>3, <1>4, <2>2
    <2> QED
        BY <1>3, <2>1, <2>2
<1>9. IsBehind(b, f, p, n, fr2[Len(v) + 1], at2[Len(v) + 1])
    <2>1. m + n \in 1..Len(v) /\ m + n \in 1..(m + n + 1) /\ m + n > m
        BY <1>3
    <2>2. fr2[m + n] = f /\ at2[m + n] = p + (m + n - m) - 1
        BY <1>4, <2>1
    <2>3. IsNext(b, fr2[m + n], at2[m + n], fr2[m + n + 1], at2[m + n + 1])
        BY <1>6, <2>1
    <2>4. p + (m + n - m) - 1 = p + n - 1
        BY <1>3
    <2> QED
        BY <2>2, <2>3, <2>4 DEF IsBehind
<1> QED
    BY <1>7, <1>8, <1>9 DEF SamePlace

\* The bytes that are handed over, and the bytes under way with them.
Bunch(g, p, n) == [i \in 1..n |-> [frag |-> g, at |-> p + i - 1]]

LEMMA BunchProperties ==
    ASSUME NEW g \in Fragments, NEW p \in Nat, NEW n \in Nat
    PROVE  /\ Bunch(g, p, n) \in Seq(Bytes) /\ Len(Bunch(g, p, n)) = n
           /\ \A i \in 1..n : Bunch(g, p, n)[i] = [frag |-> g, at |-> p + i - 1]
<1> DEFINE h == Bunch(g, p, n)
<1>1. ASSUME NEW i \in 1..n PROVE [frag |-> g, at |-> p + i - 1] \in Bytes
    BY DEF Bytes
<1>2. h \in [1..n -> Bytes]
    BY <1>1 DEF Bunch
<1>3. DOMAIN h = 1..n /\ \A i \in 1..n : h[i] = [frag |-> g, at |-> p + i - 1]
    BY DEF Bunch
<1> HIDE DEF h
<1>4. h \in Seq(Bytes)
    BY <1>2, SeqDef
<1>5. Len(h) = n
    BY <1>3, <1>4
<1> QED
    BY <1>3, <1>4, <1>5 DEF h

LEMMA Joined ==
    ASSUME NEW w \in Seq(Bytes), NEW h \in Seq(Bytes)
    PROVE  /\ w \o h \in Seq(Bytes) /\ Len(w \o h) = Len(w) + Len(h)
           /\ \A j \in 1..Len(w) : (w \o h)[j] = w[j]
           /\ \A j \in 1..Len(h) : (w \o h)[Len(w) + j] = h[j]
<1>1. w \o h \in Seq(Bytes) /\ Len(w \o h) = Len(w) + Len(h) /\ Len(w) \in Nat /\ Len(h) \in Nat
    OBVIOUS
<1>2. ASSUME NEW j \in 1..Len(w) PROVE (w \o h)[j] = w[j]
    BY <1>1
<1>3. ASSUME NEW j \in 1..Len(h) PROVE (w \o h)[Len(w) + j] = h[j]
    BY <1>1
<1> QED
    BY <1>1, <1>2, <1>3

-----------------------------------------------------------------------------
(* The receiver, when no read ends inside a length and at most one inside  *)
(* a checksum.                                                             *)

\* Where the sender is.
EndPlace(t, b, f, p) ==
    IF t.offset > 0 THEN f = Len(b) /\ p = t.len - t.fragment ELSE f = Len(b) + 1 /\ p = 0

\* The bytes under way lead from the receiver to the sender of a standing connection.
OnTheWay ==
    \E fr, at : /\ Track(begun, wire, fr, at)
                /\ fr[1] = Len(received) + 1 /\ at[1] = rx.index
                /\ alive => EndPlace(tx, begun, fr[Len(wire) + 1], at[Len(wire) + 1])

\* The bytes of a checksum among the first i of len bytes.
Kept(i, len) == IF i > len - ChecksumSize THEN i - (len - ChecksumSize) ELSE 0

\* What the receiver x has of the fragment g: its length, once it has read anything.
Reads(x, g) ==
    /\ x.len = g.len /\ MsgLenSize <= x.index /\ x.index < x.len
    /\ x.kept = Kept(x.index, x.len) /\ x.summed = x.index - x.kept
    /\ \A i \in 1..x.index : x.bytes[i] = [frag |-> g, at |-> i - 1]

Reading(x, b, r) ==
    /\ x \in RxMembers /\ Len(x.bytes) = x.index
    /\ \/ x.index = 0 /\ x.len = 0 /\ x.summed = 0 /\ x.kept = 0
       \/ r + 1 \in 1..Len(b) /\ Reads(x, b[r + 1])

\* The events that are logged for the fragments of b.
LogOf(r, b) ==
    /\ r \in Seq([frag : Fragments, len : Nat, error : BOOLEAN])
    /\ Len(r) <= Len(b)
    /\ \A i \in 1..Len(r) : r[i] = [frag |-> b[i], len |-> b[i].len, error |-> FALSE]

ReceiverInv ==
    /\ wire \in Seq(Bytes)
    /\ OnTheWay
    /\ Reading(rx, begun, Len(received))
    /\ LogOf(received, begun)

Inv == SenderInv /\ ReceiverInv

\* Every fragment has a length and a checksum, and is not empty.
LEMMA Lengths ==
    ASSUME NEW b \in Seq(Fragments), Tiled(b)
    PROVE  \A i \in 1..Len(b) : /\ b[i] \in Fragments /\ b[i].len \in Nat
                                /\ ChecksumSize + MsgLenSize <= b[i].len /\ b[i].len > 0
<1>1. /\ MinFragSize \in Nat /\ ChecksumSize + MsgLenSize <= MinFragSize
      /\ ChecksumSize \in Nat /\ MsgLenSize = 2
    BY SizeAssumption DEF MsgLenSize
<1>2. ASSUME NEW i \in 1..Len(b)
      PROVE  /\ b[i] \in Fragments /\ b[i].len \in Nat
             /\ ChecksumSize + MsgLenSize <= b[i].len /\ b[i].len > 0
    <2>1. b[i] \in Fragments /\ MinFragSize <= b[i].len
        BY DEF Tiled
    <2>2. b[i].len \in Nat
        BY <2>1 DEF Fragments
    <2> QED
        BY <1>1, <2>1, <2>2
<1> QED
    BY <1>2

LEMMA ReceiverInit == Init => ReceiverInv
<1> SUFFICES ASSUME Init PROVE ReceiverInv
    OBVIOUS
<1> DEFINE fr == [j \in 1..1 |-> 1]
           at == [j \in 1..1 |-> 0]
<1>1. Track(<<>>, <<>>, fr, at)
    BY DEF Track, Place
<1>2. OnTheWay
    <2>1. /\ fr[1] = Len(received) + 1 /\ at[1] = rx.index
          /\ EndPlace(tx, begun, fr[Len(wire) + 1], at[Len(wire) + 1])
        BY DEF Init, ClearTx, ClearRx, EndPlace
    <2>2. begun = <<>> /\ wire = <<>>
        BY DEF Init
    <2> HIDE DEF fr, at
    <2> QED
        BY <1>1, <2>1, <2>2 DEF OnTheWay
<1>3. Reading(rx, begun, Len(received))
    BY DEF Init, ClearRx, RxMembers, Reading
<1> QED
    BY <1>2, <1>3 DEF Init, ReceiverInv, LogOf

\* A fragment is begun, and nothing else: what there is of the others stays.
LEMMA ReceiverBegin ==
    ASSUME NEW b \in Seq(Fragments), NEW g \in Fragments, NEW x, NEW r,
           Reading(x, b, Len(r)), LogOf(r, b)
    PROVE  Reading(x, Append(b, g), Len(r)) /\ LogOf(r, Append(b, g))
<1> DEFINE c == Append(b, g)
<1>1. Len(c) = Len(b) + 1 /\ Len(b) \in Nat /\ \A i \in 1..Len(b) : c[i] = b[i] /\ i \in 1..Len(c)
    OBVIOUS
<1> HIDE DEF c
<1>2. Reading(x, c, Len(r))
    BY <1>1 DEF Reading
<1>3. Len(r) \in Nat
    BY DEF LogOf
<1>4. LogOf(r, c)
    BY <1>1, <1>3 DEF LogOf
<1> QED
    BY <1>2, <1>4 DEF c

\* What has no part in the receiver's state.
LEMMA ReceiverUnchanged ==
    ASSUME ReceiverInv, UNCHANGED <<wire, rx, received, begun>>,
           alive' => alive /\ UNCHANGED tx
    PROVE  ReceiverInv'
<1>1. OnTheWay'
    <2>1. PICK fr, at : /\ Track(begun, wire, fr, at)
                        /\ fr[1] = Len(received) + 1 /\ at[1] = rx.index
                        /\ alive => EndPlace(tx, begun, fr[Len(wire) + 1], at[Len(wire) + 1])
        BY DEF ReceiverInv, OnTheWay
    <2>2. Track(begun', wire', fr, at) /\ fr[1] = Len(received') + 1 /\ at[1] = rx'.index
        BY <2>1
    <2>3. alive' => EndPlace(tx', begun', fr[Len(wire') + 1], at[Len(wire') + 1])
        BY <2>1 DEF EndPlace
    <2> QED
        BY <2>2, <2>3 DEF OnTheWay
<1> QED
    BY <1>1 DEF ReceiverInv

LEMMA NextIsWhole ==
    ASSUME NEW t, DOMAIN t = {"msg", "size", "len", "offset", "buffer", "fragment"}
    PROVE  GetNextTxFragment(t).fragment = GetNextTxFragment(t).len
BY DEF GetNextTxFragment

LEMMA SendMessageReceiver ==
    ASSUME SenderInv, SenderInv', ReceiverInv, NEW size \in Sizes, SendMessage(size)
    PROVE  ReceiverInv'
<1> DEFINE t == [ClearTx EXCEPT !.msg = messages + 1, !.size = size]
<1>1. /\ tx.offset = 0 /\ alive /\ phase' = "send"
      /\ tx' = GetNextTxFragment(t) /\ begun' = Append(begun, FragmentOf(tx', 0))
      /\ UNCHANGED <<alive, wire, rx, received>>
    BY DEF SendMessage
<1>2. tx'.fragment = tx'.len /\ tx'.offset > 0 /\ tx' \in TxMembers
    <2>1. DOMAIN t = {"msg", "size", "len", "offset", "buffer", "fragment"}
        BY DEF ClearTx
    <2>2. tx'.offset > 0
        BY <1>1 DEF SenderInv, Accounts, Idle
    <2>3. tx' \in TxMembers
        BY DEF SenderInv, SenderOK
    <2> HIDE DEF t
    <2> QED
        BY <1>1, <2>1, <2>2, <2>3, NextIsWhole
<1> DEFINE g == FragmentOf(tx', 0)
<1>3. g \in Fragments /\ begun' = Append(begun, g) /\ begun \in Seq(Fragments)
      /\ Len(begun) \in Nat /\ Len(begun') = Len(begun) + 1
    <2>1. g \in Fragments
        BY <1>2, FragmentType
    <2> QED
        BY <1>1, <2>1 DEF SenderInv, SenderOK
<1> HIDE DEF g
<1>4. g.len > 0
    <2>1. begun'[Len(begun) + 1] = g /\ Len(begun) + 1 \in 1..Len(begun')
        BY <1>3
    <2>2. \A i \in 1..Len(begun') : begun'[i].len > 0
        BY Lengths DEF SenderInv, SenderOK
    <2> QED
        BY <2>1, <2>2
<1>5. OnTheWay'
    <2>1. PICK fr, at : /\ Track(begun, wire, fr, at)
                        /\ fr[1] = Len(received) + 1 /\ at[1] = rx.index
                        /\ alive => EndPlace(tx, begun, fr[Len(wire) + 1], at[Len(wire) + 1])
        BY DEF ReceiverInv, OnTheWay
    <2>2. Track(begun', wire', fr, at)
        BY <1>1, <1>3, <1>4, <2>1, TrackBegin DEF ReceiverInv
    <2>3. fr[Len(wire) + 1] = Len(begun) + 1 /\ at[Len(wire) + 1] = 0
        BY <1>1, <2>1 DEF EndPlace
    <2>4. tx'.len - tx'.fragment = 0
        BY <1>2 DEF TxMembers
    <2>5. EndPlace(tx', begun', fr[Len(wire') + 1], at[Len(wire') + 1])
        BY <1>1, <1>2, <1>3, <2>3, <2>4 DEF EndPlace
    <2> QED
        BY <1>1, <2>1, <2>2, <2>5 DEF OnTheWay
<1>6. Reading(rx, begun', Len(received)) /\ LogOf(received, begun')
    BY <1>3, ReceiverBegin DEF ReceiverInv
<1> QED
    BY <1>1, <1>5, <1>6 DEF ReceiverInv

LEMMA BreakReceiver == ASSUME ReceiverInv, Break PROVE ReceiverInv'
<1>1. alive' = FALSE /\ UNCHANGED <<rx, begun, received>>
    BY DEF Break
<1>2. PICK n \in 0..Len(wire) : wire' = SubSeq(wire, 1, n)
    BY DEF Break
<1>3. wire \in Seq(Bytes) /\ wire' \in Seq(Bytes)
    BY <1>2 DEF ReceiverInv
<1>4. PICK fr, at : Track(begun, wire, fr, at) /\ fr[1] = Len(received) + 1 /\ at[1] = rx.index
    BY DEF ReceiverInv, OnTheWay
<1>5. \E fr2, at2 : Track(begun, wire', fr2, at2) /\ fr2[1] = fr[1] /\ at2[1] = at[1]
    BY <1>2, <1>3, <1>4, TrackFront
<1>6. OnTheWay'
    BY <1>1, <1>4, <1>5 DEF OnTheWay
<1> QED
    BY <1>1, <1>3, <1>6 DEF ReceiverInv

LEMMA ReconnectReceiver == ASSUME Reconnect PROVE ReceiverInv'
<1> DEFINE fr == [j \in 1..1 |-> 1]
           at == [j \in 1..1 |-> 0]
<1>1. Track(<<>>, <<>>, fr, at)
    BY DEF Track, Place
<1>2. /\ wire' = <<>> /\ begun' = <<>> /\ received' = <<>>
      /\ rx' = ClearRx /\ tx' = ClearTx
    BY DEF Reconnect, ResetRxMsgState, ResetTxMsgState
<1>3. OnTheWay'
    <2>1. /\ fr[1] = Len(received') + 1 /\ at[1] = rx'.index
          /\ EndPlace(tx', begun', fr[Len(wire') + 1], at[Len(wire') + 1])
        BY <1>2 DEF ClearTx, ClearRx, EndPlace
    <2> HIDE DEF fr, at
    <2> QED
        BY <1>1, <1>2, <2>1 DEF OnTheWay
<1>4. Reading(rx', begun', Len(received'))
    BY <1>2 DEF ClearRx, RxMembers, Reading
<1> QED
    BY <1>2, <1>3, <1>4 DEF ReceiverInv, LogOf

\* The sender hands n bytes over, and the place of the next one is the sender's.
LEMMA SendBytesReceiver ==
    ASSUME SenderInv, SenderInv', ReceiverInv, NEW n \in 1..TxBufferSize, SendBytes(n)
    PROVE  ReceiverInv'
<1> DEFINE f == Len(begun)
           p == tx.len - tx.fragment
           t == Account(tx, n)
           next == GetNextTxFragment(t)
<1>1. /\ phase \in {"send", "event"} /\ tx.offset > 0 /\ Active /\ alive /\ alive'
      /\ tx \in TxMembers /\ begun \in Seq(Fragments) /\ Tiled(begun)
      /\ wire \in Seq(Bytes) /\ UNCHANGED <<rx, received>>
    BY DEF SenderInv, SenderOK, Accounts, Idle, SendBytes, ReceiverInv
<1>2. n \in Nat \ {0} /\ n <= tx.buffer
    BY <1>1 DEF SendBytes, TxMembers
<1>3. f \in Nat /\ f \in 1..Len(begun) /\ begun[f] \in Fragments
      /\ begun[f].len = tx.len /\ Last(begun) = begun[f]
    BY <1>1 DEF Active, Current, Last
<1>4. p \in Nat /\ p + n <= begun[f].len /\ tx.len \in Nat /\ tx.fragment \in Nat /\ n <= tx.fragment
    <2>1. /\ tx.buffer <= tx.fragment /\ tx.fragment <= tx.len
          /\ tx.buffer \in Nat /\ tx.fragment \in Nat /\ tx.len \in Nat
        BY <1>1 DEF Active, Filled, TxMembers
    <2> QED
        BY <1>2, <1>3, <2>1
<1>5. /\ t \in TxMembers /\ t.len = tx.len /\ t.buffer = tx.buffer - n /\ t.fragment = tx.fragment - n
    BY <1>1, <1>2, <1>4, AccountMembers
<1>6. wire' = wire \o Bunch(begun[f], p, n)
    <2>1. Hand(n)
        BY DEF SendBytes
    <2> QED
        BY <1>3, <2>1 DEF Hand, Bunch
<1> HIDE DEF f, p, t, next
<1>7. /\ wire' \in Seq(Bytes) /\ Len(wire') = Len(wire) + n
      /\ \A j \in 1..Len(wire) : wire'[j] = wire[j]
      /\ \A j \in 1..n : wire'[Len(wire) + j] = [frag |-> begun[f], at |-> p + j - 1]
    <2> DEFINE h == Bunch(begun[f], p, n)
    <2>1. h \in Seq(Bytes) /\ Len(h) = n /\ \A i \in 1..n : h[i] = [frag |-> begun[f], at |-> p + i - 1]
        BY <1>2, <1>3, <1>4, BunchProperties
    <2> HIDE DEF h
    <2>2. wire' = wire \o h
        BY <1>6 DEF h
    <2> QED
        BY <1>1, <2>1, <2>2, Joined
<1>8. PICK fr, at : /\ Track(begun, wire', fr, at)
                    /\ fr[1] = Len(received) + 1 /\ at[1] = rx.index
                    /\ IsBehind(begun, f, p, n, fr[Len(wire') + 1], at[Len(wire') + 1])
    <2>1. PICK fr, at : /\ Track(begun, wire, fr, at)
                        /\ fr[1] = Len(received) + 1 /\ at[1] = rx.index
                        /\ EndPlace(tx, begun, fr[Len(wire) + 1], at[Len(wire) + 1])
        BY <1>1 DEF ReceiverInv, OnTheWay
    <2>2. fr[Len(wire) + 1] = f /\ at[Len(wire) + 1] = p
        BY <1>1, <2>1 DEF EndPlace, f, p
    <2>3. NoneIsEmpty(begun)
        BY <1>1, Lengths DEF NoneIsEmpty
    <2>4. \E fr2, at2 : /\ Track(begun, wire', fr2, at2)
                        /\ SamePlace(fr, at, 1, fr2, at2, 1)
                        /\ IsBehind(begun, f, p, n, fr2[Len(wire') + 1], at2[Len(wire') + 1])
        <3>1. Extends(begun, wire, wire', f, p, n)
            BY <1>2, <1>3, <1>4, <1>7 DEF Extends
        <3>2. /\ begun \in Seq(Fragments) /\ wire \in Seq(Bytes) /\ wire' \in Seq(Bytes)
              /\ Track(begun, wire, fr, at)
            BY <1>1, <1>7, <2>1
        <3> QED
            BY <2>2, <2>3, <3>1, <3>2, TrackHand
    <2> QED
        BY <2>1, <2>4 DEF SamePlace
<1> DEFINE lf == fr[Len(wire') + 1]
           la == at[Len(wire') + 1]
<1>9. IsNext(begun, f, p + n - 1, lf, la)
    BY <1>8 DEF IsBehind
<1>10. SUFFICES
                /\ Track(begun', wire', fr, at) /\ EndPlace(tx', begun', lf, la)
                /\ Reading(rx, begun', Len(received)) /\ LogOf(received, begun')
    BY <1>1, <1>7, <1>8 DEF ReceiverInv, OnTheWay
<1> HIDE DEF lf, la
<1>11. /\ tx' \in TxMembers
       /\ tx'.fragment > 0 => tx'.offset > 0
       /\ begun' \in Seq(Fragments) /\ Tiled(begun')
       /\ tx'.fragment \in Nat /\ tx'.len \in Nat
    <2>1. tx' \in TxMembers /\ (tx'.offset > 0 \/ tx'.fragment = 0)
        BY DEF SenderInv, SenderOK, Accounts, Idle
    <2> QED
        BY <2>1 DEF SenderInv, SenderOK, TxMembers
<1>12. p + n - 1 + 1 = p + n /\ p + n - 1 + 1 < begun[f].len <=> n < tx.fragment
    BY <1>2, <1>3, <1>4 DEF p
<1>13. CASE /\ tx'.fragment = t.fragment /\ tx'.len = t.len /\ t.fragment > 0
            /\ begun' = begun
    <2>1. lf = f /\ la = p + n
        BY <1>2, <1>4, <1>5, <1>9, <1>12, <1>13 DEF IsNext
    <2>2. tx'.len - tx'.fragment = p + n
        BY <1>2, <1>4, <1>5, <1>13 DEF p
    <2>3. EndPlace(tx', begun', lf, la)
        <3>1. tx'.offset > 0 /\ lf = Len(begun')
            BY <1>11, <1>13, <2>1 DEF f
        <3> QED
            BY <2>1, <2>2, <3>1 DEF EndPlace
    <2> QED
        BY <1>8, <1>13, <2>3 DEF ReceiverInv
<1>14. ASSUME t.fragment = 0 PROVE lf = f + 1 /\ la = 0
    BY <1>2, <1>4, <1>5, <1>9, <1>12, <1>14 DEF IsNext
<1>15. CASE /\ t.fragment = 0 /\ next.fragment > 0 /\ tx' = next
            /\ begun' = Append(begun, FragmentOf(next, tx.offset))
    <2> DEFINE g == FragmentOf(next, tx.offset)
    <2>1. g \in Fragments
        BY <1>1, <1>11, <1>15, FragmentType DEF TxMembers
    <2>2. begun' = Append(begun, g)
        BY <1>15
    <2> HIDE DEF g
    <2>3. Len(begun') = f + 1 /\ begun'[f + 1] = g /\ f + 1 \in 1..Len(begun')
        BY <1>1, <1>3, <2>1, <2>2 DEF f
    <2>4. g.len > 0
        BY <1>11, <2>3, Lengths
    <2>5. Track(begun', wire', fr, at)
        BY <1>1, <1>7, <1>8, <2>1, <2>2, <2>4, TrackBegin
    <2>6. tx'.len - tx'.fragment = 0
        <3>1. DOMAIN t = {"msg", "size", "len", "offset", "buffer", "fragment"}
            BY <1>5 DEF TxMembers
        <3>2. tx'.fragment = tx'.len
            BY <1>15, <3>1, NextIsWhole DEF next
        <3> QED
            BY <1>11, <3>2
    <2>7. EndPlace(tx', begun', lf, la)
        <3>1. tx'.offset > 0 /\ lf = f + 1 /\ la = 0
            BY <1>11, <1>14, <1>15
        <3> QED
            BY <2>3, <2>6, <3>1 DEF EndPlace
    <2> QED
        BY <1>1, <2>1, <2>2, <2>5, <2>7, ReceiverBegin DEF ReceiverInv
<1>16. CASE t.fragment = 0 /\ MessageDone
    <2>1. begun' = begun /\ tx'.offset = 0
        BY <1>16 DEF MessageDone, ClearTx
    <2>2. EndPlace(tx', begun', lf, la)
        BY <1>14, <1>16, <2>1 DEF EndPlace, f
    <2> QED
        BY <1>8, <2>1, <2>2 DEF ReceiverInv
<1> QED
    <2>1. \/ tx' = t /\ t.buffer > 0 /\ begun' = begun
          \/ t.fragment > 0 /\ tx' = SetupNextTxBuffer(t) /\ begun' = begun
          \/ t.fragment = 0 /\ next.fragment > 0 /\ tx' = next /\ Begin(next)
          \/ t.fragment = 0 /\ MessageDone
        BY DEF SendBytes, t, next
    <2>2. CASE tx' = t /\ t.buffer > 0 /\ begun' = begun
        <3>1. t.fragment > 0
            BY <1>1, <1>2, <1>4, <1>5, <2>2 DEF Active, Filled, TxMembers
        <3> QED
            BY <1>13, <2>2, <3>1
    <2>3. CASE t.fragment > 0 /\ tx' = SetupNextTxBuffer(t) /\ begun' = begun
        <3>1. tx'.fragment = t.fragment /\ tx'.len = t.len
            BY <1>5, <2>3 DEF SetupNextTxBuffer, TxMembers
        <3> QED
            BY <1>13, <2>3, <3>1
    <2>4. CASE t.fragment = 0 /\ next.fragment > 0 /\ tx' = next /\ Begin(next)
        BY <1>15, <2>4 DEF Begin
    <2> QED
        BY <1>16, <2>1, <2>2, <2>3, <2>4

LEMMA DivideAndRest ==
    ASSUME NEW a \in Nat, NEW b \in Nat \ {0}
    PROVE  \E q, r \in Nat : a \div b = q /\ a % b = r /\ q * b + r = a
<1> DEFINE q == a \div b
           r == a - b * q
<1>1. q \in Nat /\ b * q \in Nat /\ q * b = b * q
    OBVIOUS
<1>2. b * q <= a
    OBVIOUS
<1>3. a < b * q + b
    OBVIOUS
<1> HIDE DEF q
<1>4. r \in Nat /\ r < b /\ a = b * q + r
    BY <1>1, <1>2, <1>3
<1> HIDE DEF r
<1>5. a % b = r
    BY <1>1, <1>4
<1>6. q * b + r = a
    BY <1>1, <1>4
<1>7. a \div b = q
    BY DEF q
<1> QED
    BY <1>1, <1>4, <1>5, <1>6, <1>7

\* A length is read from its two bytes.
LEMMA LengthBytes ==
    ASSUME NEW g \in Fragments, NEW read,
           read[1] = [frag |-> g, at |-> 0], read[2] = [frag |-> g, at |-> 1]
    PROVE  LengthIn(0, read) = {g.len}
<1>1. Values(read[1]) = {g.len \div Base} /\ Values(read[2]) = {g.len % Base}
    BY DEF Values
<1>2. g.len \in Nat /\ Base \in Nat \ {0}
    BY SizeAssumption DEF Fragments
<1>3. PICK q, r \in Nat : g.len \div Base = q /\ g.len % Base = r /\ q * Base + r = g.len
    BY <1>2, DivideAndRest
<1>4. LengthIn(0, read) = {h * Base + l : h \in Values(read[1]), l \in Values(read[2])}
    BY DEF LengthIn
<1>5. Values(read[1]) = {q} /\ Values(read[2]) = {r}
    BY <1>1, <1>3
<1> QED
    BY <1>3, <1>4, <1>5

\* How much may be read: never beyond the fragment, and if no read may end inside a
\* length and only one inside a checksum, exactly the length first.
LEMMA ReadSize ==
    ASSUME Splits = {}, NEW g, g.len \in Nat, rx \in RxMembers,
           NEW n \in Nat \ {0}, n <= GetRxNumBytes(rx), SplitAllowed(n),
           ChecksumSize + MsgLenSize <= g.len,
           (rx.index = 0 /\ rx.len = 0) \/ (rx.len = g.len /\ MsgLenSize <= rx.index /\ rx.index < rx.len)
    PROVE  /\ rx.index + n <= g.len
           /\ rx.index = 0 => n = MsgLenSize
           /\ rx.index > 0 /\ rx.index + n > g.len - ChecksumSize /\ rx.index + n < g.len => rx.kept = 0
<1>1. /\ rx.index \in Nat /\ rx.len \in Nat /\ rx.kept \in Nat
      /\ ChecksumSize \in Nat \ {0} /\ TxBufferSize \in Nat \ {0} /\ MsgLenSize = 2
    BY SizeAssumption DEF RxMembers, MsgLenSize
<1>2. CASE rx.index = 0 /\ rx.len = 0
    <2>1. n = MsgLenSize
        BY <1>2 DEF SplitAllowed
    <2> QED
        BY <1>1, <1>2, <2>1
<1>3. CASE rx.len = g.len /\ MsgLenSize <= rx.index /\ rx.index < rx.len
    <2> DEFINE rest == rx.len - rx.index
               room == TxBufferSize - (rx.index % TxBufferSize)
    <2>1. rx.len # 0 /\ rest \in Nat /\ room \in Int
        BY <1>1, <1>3
    <2> HIDE DEF room
    <2>2. n <= IF rest < 0 \/ rest > room THEN room ELSE rest
        BY <2>1 DEF GetRxNumBytes, room
    <2>3. n <= rest
        BY <2>1, <2>2
    <2>4. ASSUME rx.index + n > g.len - ChecksumSize, rx.index + n < g.len PROVE rx.kept = 0
        <3> DEFINE next == [rx EXCEPT !.index = @ + n]
                   left == rx.len - next.index
        <3>1. left = rx.len - (rx.index + n)
            BY DEF RxMembers
        <3>2. ~(left <= 0 \/ left >= ChecksumSize)
            BY <1>1, <1>3, <2>4, <3>1
        <3> HIDE DEF left
        <3>3. \/ left <= 0 \/ left >= ChecksumSize
              \/ rx.kept = 0 /\ GetRxNumBytes(next) = left
            BY <2>1 DEF SplitAllowed, left
        <3> QED
            BY <3>2, <3>3
    <2> QED
        BY <1>1, <1>3, <2>3, <2>4
<1> QED
    BY <1>2, <1>3

\* How much of the checksum there is after a read from i to j of len bytes.
LEMMA KeptMore ==
    ASSUME NEW len \in Nat, ChecksumSize < len, NEW i \in Nat, NEW j \in Nat, i < j, j <= len,
           j > len - ChecksumSize /\ j < len => Kept(i, len) = 0
    PROVE  /\ Kept(i, len) \in Nat
           /\ j = len => /\ Kept(j, len) = ChecksumSize
                         /\ j - i > ChecksumSize => Kept(i, len) = 0
                         /\ ~(j - i > ChecksumSize) => Kept(i, len) = ChecksumSize - (j - i)
           /\ j # len /\ j + ChecksumSize - len > 0 =>
                  Kept(i, len) = 0 /\ Kept(j, len) = j + ChecksumSize - len
           /\ j # len /\ ~(j + ChecksumSize - len > 0) => Kept(i, len) = 0 /\ Kept(j, len) = 0
<1>1. ChecksumSize \in Nat /\ ChecksumSize > 0
    BY SizeAssumption
<1> QED
    BY <1>1 DEF Kept

\* The bytes of the checksum are kept, those before it are summed up.
LEMMA ChecksumSoFar ==
    ASSUME NEW len \in Nat, ChecksumSize < len,
           NEW i \in Nat, NEW n \in Nat \ {0}, NEW j \in Nat, j = i + n, j <= len,
           NEW k, k = Kept(i, len), j > len - ChecksumSize /\ j < len => k = 0,
           NEW y, NEW t,
           t = [len |-> len, index |-> j, summed |-> i - k, kept |-> k, bytes |-> y]
    PROVE  CalcRxChecksum(t, n) =
             [len |-> len, index |-> j, summed |-> j - Kept(j, len), kept |-> Kept(j, len), bytes |-> y]
<1> DEFINE part == j + ChecksumSize - len
           After(s, kept) == [len |-> len, index |-> j, summed |-> s, kept |-> kept, bytes |-> y]
<1>1. /\ k \in Nat /\ ChecksumSize \in Nat
      /\ j = len => /\ Kept(j, len) = ChecksumSize
                    /\ n > ChecksumSize => k = 0
                    /\ ~(n > ChecksumSize) => k = ChecksumSize - n
      /\ j # len /\ part > 0 => k = 0 /\ Kept(j, len) = part
      /\ j # len /\ ~(part > 0) => k = 0 /\ Kept(j, len) = 0
    <2>1. i < j /\ j - i = n /\ ChecksumSize \in Nat
        BY SizeAssumption
    <2> QED
        BY <2>1, KeptMore
<1>2. CASE j = len /\ n > ChecksumSize
    <2>1. CalcRxChecksum(t, n) = After(i - k + n - ChecksumSize, ChecksumSize)
        BY <1>2 DEF CalcRxChecksum
    <2>2. i - k + n - ChecksumSize = j - Kept(j, len) /\ ChecksumSize = Kept(j, len)
        BY <1>1, <1>2
    <2> QED
        BY <2>1, <2>2
<1>3. CASE j = len /\ ~(n > ChecksumSize)
    <2>1. CalcRxChecksum(t, n) = After(i - k, k + n)
        BY <1>3 DEF CalcRxChecksum
    <2>2. i - k = j - Kept(j, len) /\ k + n = Kept(j, len)
        BY <1>1, <1>3
    <2> QED
        BY <2>1, <2>2
<1>4. CASE j # len /\ part > 0
    <2>1. len # 0
        BY <1>1
    <2>2. CalcRxChecksum(t, n) = After(i - k + n - part, k + part)
        BY <1>4, <2>1 DEF CalcRxChecksum
    <2>3. i - k + n - part = j - Kept(j, len) /\ k + part = Kept(j, len)
        BY <1>1, <1>4
    <2> QED
        BY <2>2, <2>3
<1>5. CASE j # len /\ ~(part > 0)
    <2>1. CalcRxChecksum(t, n) = After(i - k + n, k)
        BY <1>5 DEF CalcRxChecksum
    <2>2. i - k + n = j - Kept(j, len) /\ k = Kept(j, len)
        BY <1>1, <1>5
    <2> QED
        BY <2>1, <2>2
<1> QED
    BY <1>2, <1>3, <1>4, <1>5

\* The bytes that are read are the next ones of the fragment, and lead on.
LEMMA ReadBytes ==
    ASSUME SenderInv, ReceiverInv, NEW n \in Nat \ {0}, n <= Len(wire),
           NEW f, f = Len(received) + 1, rx.index + n <= begun[f].len,
           NEW w, w = SubSeq(wire, n + 1, Len(wire))
    PROVE  /\ f \in 1..Len(begun)
           /\ \A j \in 1..n : wire[j] = [frag |-> begun[f], at |-> rx.index + j - 1]
           /\ w \in Seq(Bytes)
           /\ \E fr, at :
                 /\ Track(begun, w, fr, at)
                 /\ IsBehind(begun, f, rx.index, n, fr[1], at[1])
                 /\ alive => EndPlace(tx, begun, fr[Len(w) + 1], at[Len(w) + 1])
<1>1. begun \in Seq(Fragments) /\ wire \in Seq(Bytes) /\ n \in 1..Len(wire) /\ n \in 0..Len(wire)
    BY DEF SenderInv, SenderOK, ReceiverInv
<1>2. PICK fr, at : /\ Track(begun, wire, fr, at)
                    /\ fr[1] = Len(received) + 1 /\ at[1] = rx.index
                    /\ alive => EndPlace(tx, begun, fr[Len(wire) + 1], at[Len(wire) + 1])
    BY DEF ReceiverInv, OnTheWay
<1>3. fr[1] = f /\ at[1] = rx.index /\ f \in Nat /\ rx.index \in Nat
    BY <1>2 DEF ReceiverInv, LogOf, Reading, RxMembers
<1>4. /\ f \in 1..Len(begun)
      /\ Runs(fr, at, n, f, rx.index)
      /\ IsBehind(begun, f, rx.index, n, fr[n + 1], at[n + 1])
    <2>1. IsAt(fr, at, 1, f, rx.index)
        BY <1>3 DEF IsAt
    <2> QED
        BY <1>1, <1>2, <1>3, <2>1, TrackRun
<1>5. ASSUME NEW j \in 1..n PROVE wire[j] = [frag |-> begun[f], at |-> rx.index + j - 1]
    <2>1. j \in 1..Len(wire) /\ fr[j] = f /\ at[j] = rx.index + j - 1
        BY <1>1, <1>4, <1>5 DEF Runs, IsAt
    <2>2. wire[j] = [frag |-> begun[fr[j]], at |-> at[j]]
        BY <1>2, <2>1 DEF Track
    <2> QED
        BY <2>1, <2>2
<1>6. w \in Seq(Bytes)
    BY <1>1
<1>7. PICK fr2, at2 : /\ Track(begun, w, fr2, at2)
                      /\ SamePlace(fr, at, n + 1, fr2, at2, 1)
                      /\ SamePlace(fr, at, Len(wire) + 1, fr2, at2, Len(w) + 1)
    BY <1>1, <1>2, TrackRest
<1> QED
    BY <1>2, <1>4, <1>5, <1>6, <1>7 DEF SamePlace

\* What Recv takes is what the fragment has, and its end is noticed.
LEMMA RecvReceiver ==
    ASSUME Splits = {}, SenderInv, ReceiverInv, NEW n \in 1..MaxFragSize, Recv(n)
    PROVE  ReceiverInv'
<1> DEFINE f == Len(received) + 1
           g == begun[f]
           i == rx.index
           j == rx.index + n
           len == g.len
           read == SubSeq(wire, 1, n)
           y == rx.bytes \o read
           r == [rx EXCEPT !.index = @ + n, !.bytes = @ \o read]
<1>1. /\ n \in Nat \ {0} /\ n <= GetRxNumBytes(rx) /\ n <= Len(wire) /\ SplitAllowed(n)
      /\ wire' = SubSeq(wire, n + 1, Len(wire))
      /\ UNCHANGED <<tx, alive, begun>>
    BY DEF Recv, txVars
<1>2. /\ rx \in RxMembers /\ rx.index \in Nat /\ rx.bytes \in Seq(Bytes) /\ Len(rx.bytes) = i
      /\ begun \in Seq(Fragments) /\ Tiled(begun) /\ wire \in Seq(Bytes)
      /\ received \in Seq([frag : Fragments, len : Nat, error : BOOLEAN]) /\ f \in Nat
    BY DEF ReceiverInv, Reading, RxMembers, SenderInv, SenderOK, LogOf
<1>3. PICK t \in TakeLength(r, read) :
          LET c == CalcRxChecksum(t, n)
          IN  IF c.index = c.len
              THEN received' = Append(received, Logged(c)) /\ rx' = ResetRxMsgState
              ELSE received' = received /\ rx' = c
    BY DEF Recv
<1>4. f \in 1..Len(begun) /\ g \in Fragments /\ len \in Nat /\ ChecksumSize + MsgLenSize <= len
    <2>1. f \in 1..Len(begun)
        <3>1. PICK fr, at : Track(begun, wire, fr, at) /\ fr[1] = f
            BY DEF ReceiverInv, OnTheWay
        <3>2. 1 \in 1..Len(wire)
            BY <1>1, <1>2
        <3>3. fr[1] \in 1..Len(begun)
            BY <1>2, <3>1, <3>2, TrackAt
        <3> QED
            BY <3>1, <3>3
    <2> QED
        BY <1>2, <2>1, Lengths
<1>5. \/ rx.index = 0 /\ rx.len = 0 /\ rx.summed = 0 /\ rx.kept = 0
      \/ rx.index # 0 /\ Reads(rx, g)
    BY <1>2 DEF ReceiverInv, Reading, Reads, MsgLenSize
<1>6. /\ j <= len
      /\ rx.index = 0 => n = MsgLenSize
      /\ rx.index > 0 /\ j > len - ChecksumSize /\ j < len => rx.kept = 0
    BY <1>1, <1>2, <1>4, <1>5, ReadSize DEF Reads
<1> HIDE DEF f, g, len
<1>7. /\ \A k \in 1..n : wire[k] = [frag |-> g, at |-> i + k - 1]
      /\ wire' \in Seq(Bytes)
      /\ \E fr, at :
            /\ Track(begun, wire', fr, at)
            /\ IsBehind(begun, f, i, n, fr[1], at[1])
            /\ alive => EndPlace(tx, begun, fr[Len(wire') + 1], at[Len(wire') + 1])
    BY <1>1, <1>6, ReadBytes DEF f, g, len
<1>8. /\ y \in Seq(Bytes) /\ Len(y) = j
      /\ \A k \in 1..j : y[k] = [frag |-> g, at |-> k - 1]
      /\ read[1] = wire[1] /\ (n >= 2 => read[2] = wire[2])
    <2>1. read \in Seq(Bytes) /\ Len(read) = n /\ \A k \in 1..n : read[k] = wire[k]
        BY <1>1, <1>2
    <2> HIDE DEF read
    <2>2. /\ y \in Seq(Bytes) /\ Len(y) = i + n
          /\ \A k \in 1..i : y[k] = rx.bytes[k]
          /\ \A k \in 1..n : y[i + k] = read[k]
        <3>1. /\ y \in Seq(Bytes) /\ Len(y) = Len(rx.bytes) + Len(read)
              /\ \A k \in 1..Len(rx.bytes) : y[k] = rx.bytes[k]
              /\ \A k \in 1..Len(read) : y[Len(rx.bytes) + k] = read[k]
            BY <1>2, <2>1, Joined
        <3> QED
            BY <1>2, <2>1, <3>1
    <2> HIDE DEF y
    <2>3. ASSUME NEW k \in 1..j PROVE y[k] = [frag |-> g, at |-> k - 1]
        <3>1. CASE k <= i
            <4>1. k \in 1..i /\ rx.index # 0
                BY <1>1, <1>2, <2>3, <3>1
            <4>2. rx.bytes[k] = [frag |-> g, at |-> k - 1]
                BY <1>5, <4>1 DEF Reads
            <4> QED
                BY <2>2, <4>1, <4>2
        <3>2. CASE ~(k <= i)
            <4>1. k - i \in 1..n /\ i + (k - i) = k
                BY <1>1, <1>2, <2>3, <3>2
            <4>2. y[i + (k - i)] = wire[k - i]
                BY <2>1, <2>2, <4>1
            <4>3. wire[k - i] = [frag |-> g, at |-> i + (k - i) - 1]
                BY <1>7, <4>1
            <4>4. i + (k - i) - 1 = k - 1
                BY <1>2, <2>3
            <4> QED
                BY <4>1, <4>2, <4>3, <4>4
        <3> QED
            BY <3>1, <3>2
    <2>4. 1 \in 1..n /\ (n >= 2 => 2 \in 1..n)
        BY <1>1
    <2> QED
        BY <1>1, <2>1, <2>2, <2>3, <2>4
<1> HIDE DEF y, read
<1>9. /\ ChecksumSize \in Nat /\ ChecksumSize > 0 /\ MsgLenSize = 2 /\ ChecksumSize < len
      /\ j \in Nat /\ i \in Nat /\ j = i + n /\ 2 <= j
    <2>1. ChecksumSize \in Nat /\ ChecksumSize > 0 /\ MsgLenSize = 2
        BY SizeAssumption DEF MsgLenSize
    <2>2. j \in Nat /\ i \in Nat /\ j = i + n /\ ChecksumSize < len
        BY <1>1, <1>2, <1>4, <2>1
    <2>3. i = 0 \/ i >= 2
        BY <1>5, <2>1 DEF Reads
    <2>4. 2 <= j
        BY <1>1, <1>6, <2>1, <2>2, <2>3
    <2> QED
        BY <2>1, <2>2, <2>4
<1> DEFINE k == rx.kept
<1>10. /\ k = Kept(i, len) /\ rx.summed = i - k /\ k \in Nat
       /\ j > len - ChecksumSize /\ j < len => k = 0
    <2>1. CASE rx.index = 0 /\ rx.len = 0 /\ rx.summed = 0 /\ rx.kept = 0
        BY <1>4, <1>9, <2>1 DEF Kept
    <2>2. CASE rx.index # 0 /\ Reads(rx, g)
        BY <1>2, <1>6, <1>9, <2>2 DEF Reads, RxMembers, len
    <2> QED
        BY <1>5, <2>1, <2>2
<1>11. t = [len |-> len, index |-> j, summed |-> i - k, kept |-> k, bytes |-> y]
    <2>1. r = [len |-> rx.len, index |-> j, summed |-> i - k, kept |-> k, bytes |-> y]
        <3>1. r = [len |-> rx.len, index |-> j, summed |-> rx.summed, kept |-> k, bytes |-> y]
            <4>1. r = [rx EXCEPT !.index = j, !.bytes = y]
                BY DEF y
            <4> HIDE DEF r
            <4> QED
                BY <1>2, <4>1 DEF RxMembers
        <3> QED
            BY <1>10, <3>1
    <2> HIDE DEF r, k
    <2>2. CASE rx.index = 0 /\ rx.len = 0
        <3>1. read[1] = [frag |-> g, at |-> 0] /\ read[2] = [frag |-> g, at |-> 1]
            <4>1. n = 2 /\ 1 \in 1..n /\ 2 \in 1..n
                BY <1>6, <1>9, <2>2
            <4>2. wire[1] = [frag |-> g, at |-> i + 1 - 1] /\ wire[2] = [frag |-> g, at |-> i + 2 - 1]
                BY <1>7, <4>1
            <4> QED
                BY <1>8, <2>2, <4>1, <4>2
        <3>2. LengthIn(rx.index, read) = {len}
            BY <1>4, <2>2, <3>1, LengthBytes DEF len
        <3>3. TakeLength(r, read) = {[r EXCEPT !.len = len]}
            BY <1>9, <2>1, <2>2, <3>2 DEF TakeLength
        <3> QED
            BY <1>3, <2>1, <3>3
    <2>3. CASE rx.index # 0 /\ rx.len = len
        <3>1. TakeLength(r, read) = {r}
            BY <1>9, <2>1, <2>3 DEF TakeLength
        <3> QED
            BY <1>3, <2>1, <2>3, <3>1
    <2> QED
        BY <1>5, <2>2, <2>3 DEF Reads, len
<1> HIDE DEF k
<1> DEFINE c == CalcRxChecksum(t, n)
<1>12. c = [len |-> len, index |-> j, summed |-> j - Kept(j, len), kept |-> Kept(j, len), bytes |-> y]
    <2> HIDE DEF i, j
    <2>1. /\ len \in Nat /\ ChecksumSize < len
          /\ i \in Nat /\ n \in Nat \ {0} /\ j \in Nat /\ j = i + n /\ j <= len
          /\ k = Kept(i, len) /\ (j > len - ChecksumSize /\ j < len => k = 0)
          /\ t = [len |-> len, index |-> j, summed |-> i - k, kept |-> k, bytes |-> y]
        BY <1>1, <1>4, <1>6, <1>9, <1>10, <1>11
    <2> HIDE DEF c
    <2> QED
        BY <2>1, ChecksumSoFar DEF c
<1>13. /\ c.len = len /\ c.index = j /\ c.summed = j - Kept(j, len) /\ c.kept = Kept(j, len)
       /\ c.bytes = y
    BY <1>12
<1>14. PICK fr, at :
            /\ Track(begun', wire', fr, at)
            /\ IsNext(begun, f, i + n - 1, fr[1], at[1])
            /\ alive' => EndPlace(tx', begun', fr[Len(wire') + 1], at[Len(wire') + 1])
    BY <1>1, <1>7 DEF IsBehind
<1>15. i + n - 1 + 1 = j /\ begun[f].len = len
    BY <1>1, <1>9 DEF g, len
<1> HIDE DEF c, r
<1>16. CASE j = len
    <2>1. received' = Append(received, Logged(c)) /\ rx' = ClearRx
        BY <1>3, <1>13, <1>16 DEF ResetRxMsgState, c
    <2>2. fr[1] = f + 1 /\ at[1] = 0
        BY <1>4, <1>9, <1>14, <1>15, <1>16 DEF IsNext
    <2>3. Logged(c) = [frag |-> g, len |-> len, error |-> FALSE]
        <3>1. 1 \in 1..j /\ Kept(j, len) = ChecksumSize
            BY <1>4, <1>9, <1>16 DEF Kept
        <3>2. y[1] = [frag |-> g, at |-> 0]
            BY <1>8, <3>1
        <3>3. c.bytes[1].frag = g
            BY <1>13, <3>2
        <3>4. \A m \in 1..c.len : c.bytes[m] = [frag |-> c.bytes[1].frag, at |-> m - 1]
            BY <1>8, <1>13, <1>16, <3>3
        <3>5. c.len = g.len /\ c.summed = c.len - ChecksumSize /\ c.kept = ChecksumSize
            BY <1>13, <1>16, <3>1 DEF len
        <3> QED
            BY <1>13, <3>3, <3>4, <3>5 DEF Logged
    <2>4. /\ received' \in Seq([frag : Fragments, len : Nat, error : BOOLEAN])
          /\ Len(received') = f /\ received'[f] = [frag |-> g, len |-> len, error |-> FALSE]
          /\ \A m \in 1..Len(received) : received'[m] = received[m]
        BY <1>2, <1>4, <2>1, <2>3 DEF f
    <2>5. LogOf(received', begun')
        <3>1. f <= Len(begun)
            BY <1>2, <1>4
        <3>2. ASSUME NEW m \in 1..f
              PROVE  received'[m] = [frag |-> begun[m], len |-> begun[m].len, error |-> FALSE]
            <4>1. CASE m = f
                BY <2>4, <4>1 DEF g, len
            <4>2. CASE m # f
                <5>1. m \in 1..Len(received)
                    BY <1>2, <4>2 DEF f
                <5> QED
                    BY <2>4, <5>1 DEF ReceiverInv, LogOf
            <4> QED
                BY <4>1, <4>2
        <3> QED
            BY <1>1, <2>4, <3>1, <3>2 DEF LogOf
    <2>6. Reading(rx', begun', Len(received'))
        BY <2>1 DEF ClearRx, RxMembers, Reading
    <2>7. OnTheWay'
        BY <1>14, <2>1, <2>2, <2>4 DEF OnTheWay, ClearRx
    <2> QED
        BY <1>7, <2>5, <2>6, <2>7 DEF ReceiverInv
<1>17. CASE j # len
    <2>1. received' = received /\ rx' = c
        BY <1>3, <1>13, <1>17 DEF c
    <2>2. fr[1] = f /\ at[1] = j
        BY <1>4, <1>6, <1>9, <1>14, <1>15, <1>17 DEF IsNext
    <2>3. c \in RxMembers
        <3>1. Kept(j, len) \in Nat
            BY <1>4, <1>9 DEF Kept
        <3> QED
            BY <1>4, <1>8, <1>9, <1>12, <3>1 DEF RxMembers
    <2>4. Reads(c, g)
        <3>1. j < len
            BY <1>4, <1>6, <1>9, <1>17
        <3> QED
            BY <1>8, <1>9, <1>13, <3>1 DEF Reads, len
    <2>5. Reading(rx', begun', Len(received'))
        BY <1>1, <1>4, <1>8, <1>13, <2>1, <2>3, <2>4 DEF Reading, f, g
    <2>6. OnTheWay'
        BY <1>13, <1>14, <2>1, <2>2 DEF OnTheWay, f
    <2>7. LogOf(received', begun')
        BY <1>1, <2>1 DEF ReceiverInv
    <2> QED
        BY <1>7, <2>5, <2>6, <2>7 DEF ReceiverInv
<1> QED
    BY <1>16, <1>17

LEMMA ReceiverStep ==
    ASSUME Splits = {} PROVE Inv /\ [Next]_vars => Inv'
<1> SUFFICES ASSUME Inv, [Next]_vars PROVE ReceiverInv'
    BY SenderStep DEF Inv
<1>1. SenderInv /\ SenderInv' /\ ReceiverInv
    BY SenderStep DEF Inv
<1>2. ASSUME NEW size \in Sizes, SendMessage(size) PROVE ReceiverInv'
    BY <1>1, <1>2, SendMessageReceiver
<1>3. CASE OutputReady
    BY <1>1, <1>3, ReceiverUnchanged DEF OutputReady, history
<1>4. CASE SendBlocks
    BY <1>1, <1>4, ReceiverUnchanged DEF SendBlocks, history
<1>5. ASSUME NEW n \in 1..TxBufferSize, SendBytes(n) PROVE ReceiverInv'
    BY <1>1, <1>5, SendBytesReceiver
<1>6. CASE SendFails
    BY <1>1, <1>6, ReceiverUnchanged DEF SendFails, history
<1>7. ASSUME NEW n \in 1..MaxFragSize, Recv(n) PROVE ReceiverInv'
    BY <1>1, <1>7, RecvReceiver
<1>8. CASE Break
    BY <1>1, <1>8, BreakReceiver
<1>9. CASE Reconnect
    BY <1>9, ReconnectReceiver
<1>10. CASE UNCHANGED vars
    BY <1>1, <1>10, ReceiverUnchanged DEF vars, txVars, history
<1> QED
    BY <1>2, <1>3, <1>4, <1>5, <1>6, <1>7, <1>8, <1>9, <1>10 DEF Next, SendStep, RecvStep

\* If reads end neither inside a length nor twice inside a checksum, the fragments are
\* logged as they were sent: whole, in order, each once and without an error (OnRecvMsg,
\* CalcRxChecksum), whatever the sizes and wherever else the reads end.
THEOREM FragmentsAreReceived == ASSUME Splits = {} PROVE Spec => []ReceivedInOrder
<1>1. Init => Inv
    BY SenderInit, ReceiverInit DEF Inv
<1>2. Inv /\ [Next]_vars => Inv'
    BY ReceiverStep
<1>3. Inv => ReceivedInOrder
    BY DEF Inv, ReceiverInv, LogOf, ReceivedInOrder
<1> QED
    BY <1>1, <1>2, <1>3, PTL DEF Spec
=============================================================================

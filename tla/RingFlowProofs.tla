--------------------------- MODULE RingFlowProofs ---------------------------
(* The ring cannot be overrun as long as every call asks for more room than *)
(* one slipping write plus one write the status does not show, for every    *)
(* ring, block, number of threads and set of calls.                         *)
EXTENDS RingFlow, TLAPS

\* Only the holder of the lock is inside a call, and it has something to do.
Inside == {"check", "busy", "send"}
HolderOnly == \A t \in Threads :
    phase[t] \in Inside => lock = t /\ rest[t] # <<>>

\* What a call still has to write asks for enough room.
SafeOp(op) == Need(op) > MaxWrite + MaxHidden /\ Need(op) <= Ring
SafeRest == \A t \in Threads : \A i \in DOMAIN rest[t] : SafeOp(rest[t][i])

HiddenBound == hidden <= MaxHidden

\* NoOverrun is not inductive: a write is safe because of the room its call
\* saw (RoomHolds), which no other thread can have used (HolderOnly).
IInv == /\ TypeOK
        /\ HolderOnly
        /\ SafeRest
        /\ HiddenBound
        /\ NoOverrun
        /\ RoomHolds

-----------------------------------------------------------------------------
(* Arithmetic of the pointers *)

\* Advancing a pointer by at most half the ring keeps it in the ring.
LEMMA AdvanceType ==
    ASSUME NEW p \in 0 .. Ring - 1, NEW n \in 0 .. 2 * Block
    PROVE  Advance(p, n) \in 0 .. Ring - 1
  BY RingAssumption DEF Advance

\* A write that does not fill the ring lengthens the difference of the pointers
\* by what it advances (HardSID4U.state).
LEMMA UsedAfterWrite ==
    ASSUME NEW w \in 0 .. Ring - 1, NEW r \in 0 .. Ring - 1,
           NEW n \in 0 .. 2 * Block, Used(w, r) + n < Ring
    PROVE  Used(Advance(w, n), r) = Used(w, r) + n
  BY RingAssumption DEF Advance, Used

\* Executing a block shortens it by a block.
LEMMA UsedAfterDrain ==
    ASSUME NEW w \in 0 .. Ring - 1, NEW r \in 0 .. Ring - 1,
           Used(w, r) > Block
    PROVE  Used(w, Advance(r, Block)) = Used(w, r) - Block
  BY RingAssumption DEF Advance, Used

LEMMA NeedType == ASSUME NEW op \in Op PROVE Need(op) \in Nat
  BY RingAssumption DEF Need, Op, Kinds

LEMMA MarginType == /\ MaxWrite \in Nat /\ MaxWrite <= 2 * Block
                    /\ MaxHidden \in Nat /\ MaxHidden <= MaxWrite
  BY RingAssumption DEF MaxWrite, MaxHidden

-----------------------------------------------------------------------------
LEMMA InitIInv == Init => IInv
  BY RingAssumption, CallsAssumption, MarginType
  DEF Init, IInv, TypeOK, HolderOnly, SafeRest, HiddenBound, NoOverrun,
      RoomHolds, Used, Phases, Inside

\* The operations left after one more is done, or after giving up, are some of
\* those that were left.
LEMMA RestAfter ==
    ASSUME NEW s \in Seq(Op), s # <<>>, \A i \in DOMAIN s : SafeOp(s[i])
    PROVE  /\ Tail(s) \in Seq(Op)
           /\ \A i \in DOMAIN Tail(s) : SafeOp(Tail(s)[i])
           /\ \A d \in Nat \ {0} :
                /\ SubSeq(s, d + 1, Len(s)) \in Seq(Op)
                /\ \A i \in DOMAIN SubSeq(s, d + 1, Len(s)) :
                      SafeOp(SubSeq(s, d + 1, Len(s))[i])
<1>1. Tail(s) \in Seq(Op) /\ \A i \in DOMAIN Tail(s) : SafeOp(Tail(s)[i])
  OBVIOUS
<1>2. ASSUME NEW d \in Nat \ {0}
      PROVE  /\ SubSeq(s, d + 1, Len(s)) \in Seq(Op)
             /\ \A i \in DOMAIN SubSeq(s, d + 1, Len(s)) :
                   SafeOp(SubSeq(s, d + 1, Len(s))[i])
  OBVIOUS
<1> QED BY <1>1, <1>2

\* What Continue does to the lock and the calls.
LEMMA ContinueInv ==
    ASSUME IInv, NEW t \in Threads, phase[t] \in Inside,
           NEW ops \in Seq(Op), \A i \in DOMAIN ops : SafeOp(ops[i]),
           Continue(t, ops)
    PROVE  /\ lock' \in Threads \union {None}
           /\ phase' \in [Threads -> Phases]
           /\ rest' \in [Threads -> Seq(Op)]
           /\ HolderOnly' /\ SafeRest'
           /\ \A u \in Threads : phase'[u] # "send"
<1> USE DEF IInv, TypeOK
<1>1. lock = t /\ \A u \in Threads \ {t} : phase[u] \notin Inside
  BY CallsAssumption DEF HolderOnly
<1>2. lock' \in Threads \union {None} /\ rest' \in [Threads -> Seq(Op)]
      /\ phase' \in [Threads -> Phases]
  BY DEF Continue, Phases
<1>3. HolderOnly'
  BY <1>1 DEF Continue, HolderOnly, Inside
<1>4. SafeRest'
  BY DEF Continue, SafeRest
<1>5. \A u \in Threads : phase'[u] # "send"
  BY <1>1 DEF Continue, Inside
<1> QED BY <1>2, <1>3, <1>4, <1>5

-----------------------------------------------------------------------------
(* One step per action *)

\* Steps of a thread that leave the device and its call alone.
LEMMA WaitingStep ==
    ASSUME IInv, NEW t \in Threads,
           Call(t) \/ RoomSeen(t) \/ NoRoom(t) \/ Retry(t)
    PROVE  IInv'
<1> USE DEF IInv
<1>1. TypeOK'
  BY DEF TypeOK, Call, RoomSeen, NoRoom, Retry, Phases
<1>2. HolderOnly'
  BY DEF TypeOK, HolderOnly, Call, RoomSeen, NoRoom, Retry, Inside
<1>3. SafeRest' /\ HiddenBound' /\ NoOverrun'
  BY DEF SafeRest, HiddenBound, NoOverrun, Call, RoomSeen, NoRoom, Retry,
         MaxHidden, MaxWrite
<1>4. RoomHolds'
  <2>1. CASE Call(t) \/ NoRoom(t) \/ Retry(t)
    BY <2>1 DEF TypeOK, RoomHolds, Call, NoRoom, Retry, MaxHidden, MaxWrite
  <2>2. CASE RoomSeen(t)
    <3>1. rest[t] # <<>> /\ rest[t] \in Seq(Op)
      BY <2>2 DEF HolderOnly, RoomSeen, Inside, TypeOK
    <3>2. Head(rest[t]) \in Op /\ SafeOp(Head(rest[t]))
      BY <3>1 DEF SafeRest
    <3>3. /\ Need(Head(rest[t])) \in Nat
          /\ Need(Head(rest[t])) > MaxHidden
      BY <3>2, NeedType, MarginType DEF SafeOp
    <3>4. fill + Need(Head(rest[t])) <= Ring + MaxHidden
      BY <2>2, <3>3, MarginType, RingAssumption
      DEF RoomSeen, ShownFree, NoOverrun, HiddenBound, TypeOK
    <3>5. \A u \in Threads \ {t} : phase'[u] = phase[u]
      BY <2>2 DEF RoomSeen, TypeOK
    <3> QED BY <2>2, <3>4, <3>5
            DEF RoomHolds, RoomSeen, MaxHidden, MaxWrite
  <2> QED BY <2>1, <2>2
<1> QED BY <1>1, <1>2, <1>3, <1>4

LEMMA AcquireStep ==
    ASSUME IInv, SafeMargins, NEW t \in Threads, Acquire(t)
    PROVE  IInv'
<1> USE DEF IInv
<1>1. PICK c \in Calls : rest' = [rest EXCEPT ![t] = c]
  BY DEF Acquire
<1>2. c \in Seq(Op) /\ c # <<>> /\ \A i \in DOMAIN c : SafeOp(c[i])
  BY CallsAssumption DEF SafeMargins, SafeOp
<1>3. TypeOK'
  BY <1>1, <1>2 DEF TypeOK, Acquire, device, Phases
<1>4. HolderOnly'
  BY <1>1, <1>2, CallsAssumption DEF HolderOnly, Acquire, TypeOK, Inside
<1>5. SafeRest'
  BY <1>1, <1>2 DEF SafeRest, TypeOK
<1>6. HiddenBound' /\ NoOverrun'
  BY DEF Acquire, device, HiddenBound, NoOverrun
<1>7. RoomHolds'
  BY <1>1 DEF RoomHolds, Acquire, device, TypeOK
<1> QED BY <1>3, <1>4, <1>5, <1>6, <1>7

LEMMA GiveUpStep ==
    ASSUME IInv, NEW t \in Threads, GiveUp(t)
    PROVE  IInv'
<1> USE DEF IInv
<1> DEFINE d == Head(rest[t]).drop
           ops == SubSeq(rest[t], d + 1, Len(rest[t]))
<1>1. rest[t] \in Seq(Op) /\ rest[t] # <<>> /\ \A i \in DOMAIN rest[t] : SafeOp(rest[t][i])
  BY DEF GiveUp, HolderOnly, SafeRest, TypeOK, Inside
<1>2. Head(rest[t]) \in Op
  BY <1>1
<1>3. d \in Nat \ {0}
  BY <1>2 DEF Op
<1>4. ops \in Seq(Op) /\ \A i \in DOMAIN ops : SafeOp(ops[i])
  BY <1>1, <1>3, RestAfter
<1>5. Continue(t, ops) /\ UNCHANGED device /\ phase[t] \in Inside
  BY DEF GiveUp, Inside
<1> HIDE DEF ops, d
<1>6. /\ lock' \in Threads \union {None}
      /\ phase' \in [Threads -> Phases]
      /\ rest' \in [Threads -> Seq(Op)]
      /\ HolderOnly' /\ SafeRest'
      /\ \A u \in Threads : phase'[u] # "send"
  BY <1>4, <1>5, ContinueInv
<1> QED BY <1>5, <1>6 DEF TypeOK, device, HiddenBound, NoOverrun, RoomHolds

LEMMA SendStep ==
    ASSUME IInv, NEW t \in Threads, Send(t)
    PROVE  IInv'
<1> USE DEF IInv
<1>1. rest[t] \in Seq(Op) /\ rest[t] # <<>> /\ \A i \in DOMAIN rest[t] : SafeOp(rest[t][i])
  BY DEF Send, HolderOnly, SafeRest, TypeOK, Inside
<1>2. Tail(rest[t]) \in Seq(Op) /\ \A i \in DOMAIN Tail(rest[t]) : SafeOp(Tail(rest[t])[i])
  BY <1>1, RestAfter
<1>3. Continue(t, Tail(rest[t])) /\ phase[t] \in Inside
  BY DEF Send, Inside
<1>4. /\ lock' \in Threads \union {None}
      /\ phase' \in [Threads -> Phases]
      /\ rest' \in [Threads -> Seq(Op)]
      /\ HolderOnly' /\ SafeRest'
      /\ \A u \in Threads : phase'[u] # "send"
  BY <1>2, <1>3, ContinueInv
<1>5. PICK slip \in {0, MaxSlip}, late \in {FALSE, MayLag} :
         /\ wr' = Advance(wr, Block + slip)
         /\ fill' = fill + Block + slip
         /\ hidden' = IF late THEN Block + slip ELSE 0
  BY DEF Send
<1>6. /\ Block + slip \in 0 .. 2 * Block
      /\ Block + slip <= MaxWrite
  BY RingAssumption DEF MaxWrite
<1>7. Head(rest[t]) \in Op /\ SafeOp(Head(rest[t]))
  BY <1>1
<1>8. Need(Head(rest[t])) \in Nat /\ Need(Head(rest[t])) > MaxWrite + MaxHidden
  BY <1>7, NeedType DEF SafeOp
<1>9. fill + Need(Head(rest[t])) <= Ring + MaxHidden
  BY DEF RoomHolds, Send
<1>10. fill + Block + slip < Ring
  BY <1>6, <1>8, <1>9, MarginType, RingAssumption DEF TypeOK
<1>11. NoOverrun'
  <2>1. Used(wr, rd) = fill /\ wr \in 0 .. Ring - 1 /\ rd \in 0 .. Ring - 1
    BY DEF NoOverrun, TypeOK
  <2>2. Used(wr, rd) + (Block + slip) < Ring
    BY <2>1, <1>6, <1>10, RingAssumption DEF TypeOK
  <2>3. Used(Advance(wr, Block + slip), rd) = Used(wr, rd) + (Block + slip)
    BY <2>1, <2>2, <1>6, UsedAfterWrite
  <2>4. rd' = rd
    BY DEF Send
  <2>5. Used(wr', rd') = Used(wr, rd) + (Block + slip)
    BY <2>3, <2>4, <1>5
  <2>6. fill' = fill + (Block + slip)
    BY <1>5, <1>6, RingAssumption DEF TypeOK
  <2> QED BY <2>1, <2>2, <2>5, <2>6 DEF NoOverrun
<1>12. HiddenBound' /\ hidden' \in 0 .. 2 * Block
  <2>1. CASE late = FALSE
    <3>1. hidden' = 0
      BY <1>5, <2>1
    <3>2. 0 <= MaxHidden'
      BY MarginType DEF MaxHidden, MaxWrite
    <3> QED BY <3>1, <3>2, RingAssumption DEF HiddenBound
  <2>2. CASE late = TRUE
    <3>1. MayLag
      BY <2>2
    <3>2. hidden' = Block + slip /\ MaxHidden = MaxWrite
      BY <1>5, <2>2, <3>1 DEF MaxHidden
    <3>3. HiddenBound'
      BY <1>6, <3>2 DEF HiddenBound, MaxHidden, MaxWrite
    <3> QED BY <1>6, <3>2, <3>3
  <2>3. late \in BOOLEAN
    BY RingAssumption
  <2> QED BY <2>1, <2>2, <2>3
<1>13. wr' \in 0 .. Ring - 1 /\ rd' \in 0 .. Ring - 1 /\ fill' \in Nat
  BY <1>5, <1>6, AdvanceType, RingAssumption DEF Send, TypeOK
<1>14. TypeOK' /\ RoomHolds'
  BY <1>4, <1>12, <1>13 DEF TypeOK, RoomHolds
<1> QED BY <1>4, <1>11, <1>12, <1>14

LEMMA DeviceStep ==
    ASSUME IInv, Drain \/ Refresh
    PROVE  IInv'
<1> USE DEF IInv
<1>1. CASE Drain
  <2>1. rd' \in 0 .. Ring - 1
    BY <1>1, AdvanceType, RingAssumption DEF Drain, TypeOK
  <2>2. NoOverrun' /\ fill' \in Nat /\ fill' <= fill
    BY <1>1, UsedAfterDrain, RingAssumption DEF Drain, TypeOK, NoOverrun
  <2>3. RoomHolds'
    <3> SUFFICES ASSUME NEW t \in Threads, phase[t] = "send"
                 PROVE  fill' + Need(Head(rest[t])) <= Ring + MaxHidden
      BY <1>1 DEF RoomHolds, Drain
    <3>1. Need(Head(rest[t])) \in Nat
      BY NeedType DEF HolderOnly, TypeOK, Inside
    <3> QED BY <2>2, <3>1, MarginType, RingAssumption DEF RoomHolds, TypeOK
  <2> QED BY <1>1, <2>1, <2>2, <2>3
          DEF Drain, TypeOK, HolderOnly, SafeRest, HiddenBound
<1>2. CASE Refresh
  BY <1>2, MarginType, RingAssumption
  DEF Refresh, TypeOK, HolderOnly, SafeRest, HiddenBound, NoOverrun, RoomHolds
<1> QED BY <1>1, <1>2

\* If every call asks for more room than the margins, then the types are kept,
\* the ring is never overrun, and no room seen is taken by another thread
\* (write_regs_now, flush and the probes, under _IO_LOCK).
THEOREM RingSafety == SafeMargins /\ Spec => [](TypeOK /\ NoOverrun /\ RoomHolds)
<1> SUFFICES ASSUME SafeMargins
             PROVE  Spec => [](TypeOK /\ NoOverrun /\ RoomHolds)
  OBVIOUS
<1>1. Init => IInv
  BY InitIInv
<1>2. IInv /\ [Next]_vars => IInv'
  <2> SUFFICES ASSUME IInv, [Next]_vars PROVE IInv'
    OBVIOUS
  <2>1. CASE UNCHANGED vars
    BY <2>1 DEF vars, IInv, TypeOK, HolderOnly, SafeRest, HiddenBound,
                      NoOverrun, RoomHolds
  <2>2. CASE Next
    <3>1. CASE Drain \/ Refresh
      BY <3>1, DeviceStep
    <3>2. ASSUME NEW t \in Threads, ThreadStep(t) PROVE IInv'
      BY <3>2, WaitingStep, AcquireStep, GiveUpStep, SendStep
      DEF ThreadStep
    <3> QED BY <2>2, <3>1, <3>2 DEF Next
  <2> QED BY <2>1, <2>2
<1>3. IInv => TypeOK /\ NoOverrun /\ RoomHolds
  BY DEF IInv
<1> QED BY <1>1, <1>2, <1>3, PTL DEF Spec

\* With the driver's own numbers, the writes of live play (write_regs_now) can
\* never overrun the ring, even if any of them slips by a block and if every
\* status read after a write is the one before it.
COROLLARY LivePlayIsSafe ==
    ASSUME Ring = 8192, Block = 512, RoomRealtime = 4096,
           \A c \in Calls : \A i \in DOMAIN c : c[i].kind = "realtime"
    PROVE  Spec => []NoOverrun
<1>1. MaxWrite + MaxHidden <= 2048
  BY RingAssumption DEF MaxWrite, MaxHidden
<1>2. MaxWrite \in Nat /\ MaxHidden \in Nat
  BY MarginType
<1>3. \A c \in Calls : \A i \in DOMAIN c : Need(c[i]) = 4096
  BY DEF Need
<1>4. SafeMargins
  BY <1>1, <1>2, <1>3 DEF SafeMargins
<1> QED BY <1>4, RingSafety, PTL

\* The buffered path (flush, _wait_room with two blocks) is as safe only if no
\* write slips and every status read shows the last write.
COROLLARY BufferedIsSafeWhenFresh ==
    ASSUME Ring = 8192, Block = 512, RoomRealtime = 4096, RoomBuffered = 1024,
           MaxSlip = 0, MayLag = FALSE
    PROVE  Spec => []NoOverrun
<1>1. MaxWrite + MaxHidden = 512
  BY DEF MaxWrite, MaxHidden
<1>2. \A c \in Calls : \A i \in DOMAIN c : Need(c[i]) \in {4096, 1024}
  BY DEF Need
<1>3. SafeMargins
  BY <1>1, <1>2 DEF SafeMargins
<1> QED BY <1>3, RingSafety, PTL

-----------------------------------------------------------------------------
(* The types, whatever the margins *)

\* On a ring that is overrun the difference of the pointers is less than what
\* was queued, never more, so executing a block takes one that was queued.
Behind == Used(wr, rd) <= fill

\* TypeOK is not inductive: a call that goes on must have something to do, and
\* the device must not execute what was never queued.
FlowInv == TypeOK /\ HolderOnly /\ Behind

\* A write lengthens the difference of the pointers by what it advances, or,
\* on a ring it overruns, by a whole ring less.
LEMMA UsedAtMost ==
    ASSUME NEW w \in 0 .. Ring - 1, NEW r \in 0 .. Ring - 1,
           NEW n \in 0 .. 2 * Block
    PROVE  Used(Advance(w, n), r) <= Used(w, r) + n
  BY RingAssumption DEF Advance, Used

\* The operations left are operations.
LEMMA RestType ==
    ASSUME NEW s \in Seq(Op), s # <<>>
    PROVE  /\ Tail(s) \in Seq(Op)
           /\ \A d \in Nat \ {0} : SubSeq(s, d + 1, Len(s)) \in Seq(Op)
<1>1. Tail(s) \in Seq(Op)
  OBVIOUS
<1>2. ASSUME NEW d \in Nat \ {0} PROVE SubSeq(s, d + 1, Len(s)) \in Seq(Op)
  OBVIOUS
<1> QED BY <1>1, <1>2

\* A call that goes on, or returns, leaves the lock and the calls well typed.
LEMMA ContinueFlow ==
    ASSUME FlowInv, NEW t \in Threads, phase[t] \in Inside,
           NEW ops \in Seq(Op), Continue(t, ops)
    PROVE  /\ lock' \in Threads \union {None}
           /\ phase' \in [Threads -> Phases]
           /\ rest' \in [Threads -> Seq(Op)]
           /\ HolderOnly'
<1> USE DEF FlowInv, TypeOK
<1>1. lock = t /\ \A u \in Threads \ {t} : phase[u] \notin Inside
  BY CallsAssumption DEF HolderOnly
<1>2. lock' \in Threads \union {None} /\ rest' \in [Threads -> Seq(Op)]
      /\ phase' \in [Threads -> Phases]
  BY DEF Continue, Phases
<1>3. HolderOnly'
  BY <1>1 DEF Continue, HolderOnly, Inside
<1> QED BY <1>2, <1>3

LEMMA WaitingFlow ==
    ASSUME FlowInv, NEW t \in Threads,
           Call(t) \/ RoomSeen(t) \/ NoRoom(t) \/ Retry(t)
    PROVE  FlowInv'
<1> USE DEF FlowInv
<1>1. TypeOK'
  BY DEF TypeOK, Call, RoomSeen, NoRoom, Retry, Phases
<1>2. HolderOnly'
  BY DEF TypeOK, HolderOnly, Call, RoomSeen, NoRoom, Retry, Inside
<1>3. Behind'
  BY DEF Behind, Call, RoomSeen, NoRoom, Retry
<1> QED BY <1>1, <1>2, <1>3

LEMMA AcquireFlow ==
    ASSUME FlowInv, NEW t \in Threads, Acquire(t)
    PROVE  FlowInv'
<1> USE DEF FlowInv
<1>1. PICK c \in Calls : rest' = [rest EXCEPT ![t] = c]
  BY DEF Acquire
<1>2. c \in Seq(Op) /\ c # <<>>
  BY CallsAssumption
<1>3. TypeOK'
  BY <1>1, <1>2 DEF TypeOK, Acquire, device, Phases
<1>4. HolderOnly'
  BY <1>1, <1>2, CallsAssumption DEF HolderOnly, Acquire, TypeOK, Inside
<1>5. Behind'
  BY DEF Behind, Acquire, device
<1> QED BY <1>3, <1>4, <1>5

LEMMA GiveUpFlow ==
    ASSUME FlowInv, NEW t \in Threads, GiveUp(t)
    PROVE  FlowInv'
<1> USE DEF FlowInv
<1> DEFINE d == Head(rest[t]).drop
           ops == SubSeq(rest[t], d + 1, Len(rest[t]))
<1>1. rest[t] \in Seq(Op) /\ rest[t] # <<>>
  BY DEF GiveUp, HolderOnly, TypeOK, Inside
<1>2. Head(rest[t]) \in Op
  BY <1>1
<1>3. d \in Nat \ {0}
  BY <1>2 DEF Op
<1>4. ops \in Seq(Op)
  BY <1>1, <1>3, RestType
<1>5. Continue(t, ops) /\ UNCHANGED device /\ phase[t] \in Inside
  BY DEF GiveUp, Inside
<1> HIDE DEF ops, d
<1>6. /\ lock' \in Threads \union {None}
      /\ phase' \in [Threads -> Phases]
      /\ rest' \in [Threads -> Seq(Op)]
      /\ HolderOnly'
  BY <1>4, <1>5, ContinueFlow
<1> QED BY <1>5, <1>6 DEF TypeOK, device, Behind

LEMMA SendFlow ==
    ASSUME FlowInv, NEW t \in Threads, Send(t)
    PROVE  FlowInv'
<1> USE DEF FlowInv
<1>1. rest[t] \in Seq(Op) /\ rest[t] # <<>>
  BY DEF Send, HolderOnly, TypeOK, Inside
<1>2. Tail(rest[t]) \in Seq(Op)
  BY <1>1, RestType
<1>3. Continue(t, Tail(rest[t])) /\ phase[t] \in Inside /\ rd' = rd
  BY DEF Send, Inside
<1>4. /\ lock' \in Threads \union {None}
      /\ phase' \in [Threads -> Phases]
      /\ rest' \in [Threads -> Seq(Op)]
      /\ HolderOnly'
  BY <1>2, <1>3, ContinueFlow
<1>5. PICK slip \in {0, MaxSlip}, late \in {FALSE, MayLag} :
         /\ wr' = Advance(wr, Block + slip)
         /\ fill' = fill + Block + slip
         /\ hidden' = IF late THEN Block + slip ELSE 0
  BY DEF Send
<1>6. Block + slip \in 0 .. 2 * Block
  BY RingAssumption
<1>7. /\ fill \in Nat
      /\ wr \in 0 .. Ring - 1
      /\ rd \in 0 .. Ring - 1
  BY DEF TypeOK
<1>8. hidden' \in 0 .. 2 * Block
  BY <1>5, <1>6, RingAssumption
<1>9. wr' \in 0 .. Ring - 1 /\ rd' \in 0 .. Ring - 1
  BY <1>3, <1>5, <1>6, <1>7, AdvanceType
<1>10. fill' = fill + (Block + slip) /\ fill' \in Nat
  BY <1>5, <1>6, <1>7, RingAssumption
<1>11. Behind'
  <2> DEFINE new == Advance(wr, Block + slip)
             sent == Block + slip
  <2>1. sent \in Nat /\ sent \in 0 .. 2 * Block /\ new \in 0 .. Ring - 1
    BY <1>6, <1>7, AdvanceType, RingAssumption
  <2>2. Used(new, rd) <= Used(wr, rd) + sent
    BY <2>1, <1>7, UsedAtMost
  <2>3. Used(wr, rd) \in Int /\ Used(new, rd) \in Int
    BY <2>1, <1>7, RingAssumption DEF Used
  <2>4. wr' = new /\ rd' = rd /\ fill' = fill + sent
    BY <1>3, <1>5, <1>10
  <2> HIDE DEF new, sent
  <2>5. Used(new, rd) <= fill + sent
    BY <2>1, <2>2, <2>3, <1>7 DEF Behind
  <2> QED BY <2>4, <2>5 DEF Behind
<1> QED BY <1>4, <1>8, <1>9, <1>10, <1>11 DEF TypeOK

LEMMA DeviceFlow ==
    ASSUME FlowInv, Drain \/ Refresh
    PROVE  FlowInv'
<1> USE DEF FlowInv
<1>1. CASE Drain
  <2>1. rd' \in 0 .. Ring - 1
    BY <1>1, AdvanceType, RingAssumption DEF Drain, TypeOK
  <2>2. Used(wr, rd) \in Nat
    BY RingAssumption DEF TypeOK, Used
  <2>3. Behind' /\ fill' \in Nat
    BY <1>1, <2>2, UsedAfterDrain, RingAssumption DEF Drain, TypeOK, Behind
  <2> QED BY <1>1, <2>1, <2>3 DEF Drain, TypeOK, HolderOnly
<1>2. CASE Refresh
  BY <1>2, RingAssumption DEF Refresh, TypeOK, HolderOnly, Behind
<1> QED BY <1>1, <1>2

\* Whatever room the calls ask for, and even on a ring they overrun, the
\* pointers stay in the ring, what is queued is never negative and the lock
\* belongs to a thread or to nobody (HardSID4U.state, _IO_LOCK).
THEOREM TypeCorrect == Spec => []TypeOK
<1>1. Init => FlowInv
  BY RingAssumption, CallsAssumption
  DEF Init, FlowInv, TypeOK, HolderOnly, Behind, Used, Phases, Inside
<1>2. FlowInv /\ [Next]_vars => FlowInv'
  <2> SUFFICES ASSUME FlowInv, [Next]_vars PROVE FlowInv'
    OBVIOUS
  <2>1. CASE UNCHANGED vars
    BY <2>1 DEF vars, FlowInv, TypeOK, HolderOnly, Behind
  <2>2. CASE Next
    <3>1. CASE Drain \/ Refresh
      BY <3>1, DeviceFlow
    <3>2. ASSUME NEW t \in Threads, ThreadStep(t) PROVE FlowInv'
      BY <3>2, WaitingFlow, AcquireFlow, GiveUpFlow, SendFlow
      DEF ThreadStep
    <3> QED BY <2>2, <3>1, <3>2 DEF Next
  <2> QED BY <2>1, <2>2
<1>3. FlowInv => TypeOK
  BY DEF FlowInv
<1> QED BY <1>1, <1>2, <1>3, PTL DEF Spec
=============================================================================

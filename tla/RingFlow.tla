------------------------------ MODULE RingFlow ------------------------------
(* Flow control of the device's ring buffer, as the driver sees it.          *)
(*                                                                           *)
(* Every thread of the MIDI program reaches the ring through a "call" made   *)
(* under _IO_LOCK: a sequence of writes, each of which polls the status      *)
(* until the device reports enough room, or gives up when its time is over.  *)
(* The device reports two pointers; the room is computed from them, and a    *)
(* completely full ring gives the same difference as an empty one.           *)
EXTENDS Integers, Sequences

CONSTANTS
    Ring,          \* bytes in the device's ring (hs4u.RING)
    Block,         \* bytes in one transfer (hs4u.BLOCK)
    RoomRealtime,  \* room write_regs_now asks for (midi.ROOM_REQUIRED)
    RoomBuffered,  \* room flush, set_system_mode, engine_executing ask for
    MaxSlip,       \* the anomalous advance of wr a write may cause; 0 for none
    MayLag,        \* may the status after a write be the one before it?
    Threads,       \* the threads that share the device handle
    Calls,         \* the calls they make, each a sequence of operations
    None           \* "no thread holds the lock"

Kinds == {"realtime", "buffered"}

\* One write of a call. When it gives up, drop operations of the call are
\* abandoned with it: all of them if the exception leaves the call.
Op == [kind : Kinds, drop : Nat \ {0}]

ASSUME RingAssumption ==
    /\ Ring \in Nat /\ Block \in Nat \ {0} /\ 4 * Block <= Ring
    /\ RoomRealtime \in Nat /\ RoomBuffered \in Nat
    /\ MaxSlip \in {0, Block} /\ MayLag \in BOOLEAN

ASSUME CallsAssumption ==
    /\ Calls \subseteq Seq(Op) \ {<<>>}
    /\ None \notin Threads

VARIABLES
    rd, wr,   \* the device's pointers, as offsets into the ring
    fill,     \* bytes between them: what is really queued (not observable)
    hidden,   \* bytes of the last write that the status does not show yet
    lock,     \* the thread that holds _IO_LOCK, or None
    phase,    \* what each thread is doing
    rest      \* the operations left of the call each thread is making

device == <<rd, wr, fill, hidden>>
vars == <<rd, wr, fill, hidden, lock, phase, rest>>

Phases == {"idle", "want", "check", "busy", "send"}

-----------------------------------------------------------------------------
(* What the driver computes from a status read *)

\* Mutant: the pointer does not wrap.
AdvanceUnwrapped(p, n) == p + n

Advance(p, n) == IF p + n < Ring THEN p + n ELSE p + n - Ring

\* (wr - rd) & (RING - 1)
Used(w, r) == IF w >= r THEN w - r ELSE w - r + Ring

\* The same with the write pointer the status shows, hidden bytes behind wr.
ShownFree ==
    LET u == Used(wr, rd)
    IN  Ring - (IF u >= hidden THEN u - hidden ELSE u - hidden + Ring)

\* Mutant: room for the block itself, as the driver once asked.
NeedOneBlock(op) == Block

Need(op) == IF op.kind = "realtime" THEN RoomRealtime ELSE RoomBuffered

-----------------------------------------------------------------------------
(* The calls: what each entry point writes during one hold of the lock *)

All == 100   \* more operations than any call has

\* write_regs_now: one block, and an exception (or False) when there is no room
WriteRegsNow == <<[kind |-> "realtime", drop |-> All]>>

\* the same where the caller catches the exception and goes on
RestoreGlobals == <<[kind |-> "realtime", drop |-> 1]>>

\* engine_executing: at most three measurements of one block each; running
\* out of time in one abandons the others, and the caller goes on
EngineExecuting(n) == [i \in 1..n |-> [kind |-> "buffered", drop |-> n - i + 1]]

\* HardSID4U.init: n blocks through flush(); running out of time leaves it
InitSockets(n) == [i \in 1..n |-> [kind |-> "buffered", drop |-> All]]

\* recover: diagnose, re-arm, restore 0x18, verify. The mode blocks of a reset
\* ask for the same room as those of init; what they do is EngineMode's.
Recover(n) ==
    EngineExecuting(1) \o InitSockets(n) \o RestoreGlobals \o EngineExecuting(2)

\* hard_panic: zero sweep, re-arm, restore 0x18
HardPanic(n) == WriteRegsNow \o InitSockets(n) \o WriteRegsNow

-----------------------------------------------------------------------------
Init == /\ rd = 0 /\ wr = 0 /\ fill = 0 /\ hidden = 0
        /\ lock = None
        /\ phase = [t \in Threads |-> "idle"]
        /\ rest = [t \in Threads |-> <<>>]

Call(t) == /\ phase[t] = "idle"
           /\ phase' = [phase EXCEPT ![t] = "want"]
           /\ UNCHANGED <<rd, wr, fill, hidden, lock, rest>>

\* Mutant: the status is polled without the lock.
AcquireUnlocked(t) ==
    /\ phase[t] = "want"
    /\ lock' = t
    /\ phase' = [phase EXCEPT ![t] = "check"]
    /\ \E c \in Calls : rest' = [rest EXCEPT ![t] = c]
    /\ UNCHANGED device

Acquire(t) == /\ phase[t] = "want" /\ lock = None
              /\ lock' = t
              /\ phase' = [phase EXCEPT ![t] = "check"]
              /\ \E c \in Calls : rest' = [rest EXCEPT ![t] = c]
              /\ UNCHANGED device

\* The call goes on with ops, or returns and releases the lock.
Continue(t, ops) ==
    /\ rest' = [rest EXCEPT ![t] = ops]
    /\ phase' = [phase EXCEPT ![t] = IF ops = <<>> THEN "idle" ELSE "check"]
    /\ lock' = IF ops = <<>> THEN None ELSE lock

RoomSeen(t) == /\ phase[t] = "check"
               /\ ShownFree >= Need(Head(rest[t]))
               /\ phase' = [phase EXCEPT ![t] = "send"]
               /\ UNCHANGED <<rd, wr, fill, hidden, lock, rest>>

NoRoom(t) == /\ phase[t] = "check"
             /\ ShownFree < Need(Head(rest[t]))
             /\ phase' = [phase EXCEPT ![t] = "busy"]
             /\ UNCHANGED <<rd, wr, fill, hidden, lock, rest>>

\* sleep a millisecond and poll again
Retry(t) == /\ phase[t] = "busy"
            /\ phase' = [phase EXCEPT ![t] = "check"]
            /\ UNCHANGED <<rd, wr, fill, hidden, lock, rest>>

\* Mutant: a wait without a limit.
GiveUpNever(t) == phase[t] = "idle" /\ phase[t] = "busy" /\ UNCHANGED vars

\* the time budget (50 ms) or limit (30 s) of the wait is over
GiveUp(t) == /\ phase[t] = "busy"
             /\ Continue(t, SubSeq(rest[t], Head(rest[t]).drop + 1, Len(rest[t])))
             /\ UNCHANGED device

Send(t) == /\ phase[t] = "send"
           /\ \E slip \in {0, MaxSlip}, late \in {FALSE, MayLag} :
                /\ wr' = Advance(wr, Block + slip)
                /\ fill' = fill + Block + slip
                /\ hidden' = IF late THEN Block + slip ELSE 0
           /\ Continue(t, Tail(rest[t]))
           /\ UNCHANGED rd

\* The device executes a block; at rest rd stays one block behind wr.
Drain == /\ Used(wr, rd) > Block
         /\ rd' = Advance(rd, Block)
         /\ fill' = fill - Block
         /\ UNCHANGED <<wr, hidden, lock, phase, rest>>

\* The status catches up with the last write.
Refresh == /\ hidden > 0
           /\ hidden' = 0
           /\ UNCHANGED <<rd, wr, fill, lock, phase, rest>>

ThreadStep(t) == \/ Call(t) \/ Acquire(t) \/ RoomSeen(t) \/ NoRoom(t)
                 \/ Retry(t) \/ GiveUp(t) \/ Send(t)

Next == Drain \/ Refresh \/ \E t \in Threads : ThreadStep(t)

Spec == Init /\ [][Next]_vars

\* A thread that holds the lock keeps running, and a wait is bounded by the
\* wall clock: polling cannot go on for ever. Nothing is asked of the device,
\* which may stop draining at any time.
Fairness == \A t \in Threads :
    /\ WF_vars(RoomSeen(t) \/ NoRoom(t) \/ Retry(t) \/ Send(t))
    /\ SF_vars(GiveUp(t))

FairSpec == Spec /\ Fairness

-----------------------------------------------------------------------------
(* Properties *)

TypeOK == /\ rd \in 0 .. Ring - 1 /\ wr \in 0 .. Ring - 1
          /\ fill \in Nat /\ hidden \in 0 .. 2 * Block
          /\ lock \in Threads \union {None}
          /\ phase \in [Threads -> Phases]
          /\ rest \in [Threads -> Seq(Op)]

\* What the margins must absorb: one write whose pointer slips, and the
\* write the status may not show yet.
MaxWrite == Block + MaxSlip
MaxHidden == IF MayLag THEN MaxWrite ELSE 0

SafeMargins == \A c \in Calls : \A i \in DOMAIN c :
    Need(c[i]) > MaxWrite + MaxHidden /\ Need(c[i]) <= Ring

\* No overrun: the ring is never completely full, so the masked difference of
\* the pointers is what is queued, and a full ring is never taken for an empty
\* one by the check of free space (midi.py, ROOM_REQUIRED; HardSID4U.state).
NoOverrun == fill < Ring /\ Used(wr, rd) = fill

\* Room seen is room had: from the poll that found it until the transfer, no
\* other thread uses up the room a call relies on (_IO_LOCK covers both).
RoomHolds == \A t \in Threads :
    phase[t] = "send" => fill + Need(Head(rest[t])) <= Ring + MaxHidden

\* No call keeps the device for ever, even one whose writes find a ring that
\* has stopped draining: every wait has a limit and every exit releases.
LockReleased == \A t \in Threads : lock = t ~> lock # t
=============================================================================

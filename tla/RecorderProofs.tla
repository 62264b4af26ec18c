--------------------------- MODULE RecorderProofs ---------------------------
(* What the flight recorder reports, for a ring of any size.                 *)
EXTENDS Recorder, TLAPS

-----------------------------------------------------------------------------
(* Remainders *)

LEMMA Division ==
    ASSUME NEW R \in Nat, R > 0, NEW a \in Int
    PROVE  /\ a \div R \in Int /\ a % R \in Int
           /\ 0 <= a % R /\ a % R < R
           /\ a = R * (a \div R) + (a % R)
  OBVIOUS

LEMMA SmallMultiple ==
    ASSUME NEW R \in Nat, R > 0, NEW k \in Int,
           -R < R * k, R * k < R
    PROVE  k = 0
  <1>1. CASE k >= 1
    <2>1. R * k >= R BY <1>1, Z3
    <2> QED BY <2>1
  <1>2. CASE k <= -1
    <2>1. R * k <= -R BY <1>2, Z3
    <2> QED BY <2>1
  <1> QED BY <1>1, <1>2

LEMMA Congruent ==
    ASSUME NEW R \in Nat, R > 0, NEW a \in Int, NEW b \in Int, NEW k \in Int,
           a = b + R * k
    PROVE  a % R = b % R
  <1> DEFINE qa == a \div R  qb == b \div R
  <1>1. /\ qa \in Int /\ a % R \in Int /\ 0 <= a % R /\ a % R < R
        /\ a = R * qa + (a % R)
    BY Division
  <1>2. /\ qb \in Int /\ b % R \in Int /\ 0 <= b % R /\ b % R < R
        /\ b = R * qb + (b % R)
    BY Division
  <1>3. R * (qb + k - qa) = (a % R) - (b % R)
    BY <1>1, <1>2, Z3
  <1>4. qb + k - qa = 0
    <2>1. -R < R * (qb + k - qa) /\ R * (qb + k - qa) < R
      BY <1>1, <1>2, <1>3
    <2>2. qb + k - qa \in Int BY <1>1, <1>2
    <2> HIDE DEF qa, qb
    <2> QED BY <2>1, <2>2, SmallMultiple
  <1> QED BY <1>1, <1>2, <1>3, <1>4

LEMMA ModAdd ==
    ASSUME NEW R \in Nat, R > 0, NEW a \in Int, NEW b \in Int
    PROVE  ((a % R) + b) % R = (a + b) % R
  <1> DEFINE q == a \div R
             s == (a % R) + b
             t == a + b
  <1>1. q \in Int /\ a % R \in Int /\ a = R * q + (a % R) BY Division
  <1>2. s \in Int /\ t \in Int /\ t = s + R * q BY <1>1
  <1>3. t % R = s % R
    <2> HIDE DEF q, s, t
    <2> QED BY <1>1, <1>2, Congruent
  <1> QED BY <1>3

LEMMA ModSmall ==
    ASSUME NEW R \in Nat, R > 0, NEW a \in 0 .. R - 1
    PROVE  a % R = a
  <1>1. /\ a \div R \in Int /\ a % R \in Int /\ 0 <= a % R /\ a % R < R
        /\ a = R * (a \div R) + (a % R)
    BY Division
  <1>2. a \div R = 0
    <2> DEFINE q == a \div R
    <2>1. -R < R * q /\ R * q < R /\ q \in Int BY <1>1
    <2> HIDE DEF q
    <2>2. q = 0 BY <2>1, SmallMultiple
    <2> QED BY <2>2 DEF q
  <1> QED BY <1>1, <1>2

Offsets == 0 .. RingBlocks - 1

LEMMA RingPositive == RingBlocks \in Nat /\ RingBlocks > 0
  BY MeasureAssumption

LEMMA OneInRing == 1 \in Offsets
  BY MeasureAssumption DEF Offsets

LEMMA ForwardOffset ==
    ASSUME NEW p \in Int, NEW k \in Int
    PROVE  Forward(p, k) \in Offsets
  <1>1. p + k \in Int OBVIOUS
  <1>2. (p + k) % RingBlocks \in Int /\ 0 <= (p + k) % RingBlocks
        /\ (p + k) % RingBlocks < RingBlocks
    BY <1>1, RingPositive, Division
  <1> QED BY <1>2, RingPositive DEF Forward, Offsets

\* One block after another
LEMMA ForwardTwice ==
    ASSUME NEW e \in Offsets, NEW i \in Nat, NEW j \in Nat
    PROVE  Forward(Forward(e, i), j) = Forward(e, i + j)
  <1> DEFINE a == e + i
  <1>1. a \in Int /\ j \in Int /\ a + j = e + (i + j) BY RingPositive DEF Offsets
  <1> HIDE DEF a
  <1>2. ((a % RingBlocks) + j) % RingBlocks = (a + j) % RingBlocks
    BY <1>1, RingPositive, ModAdd
  <1> QED BY <1>1, <1>2 DEF Forward, a

\* A slip shows: the ring has more than one block.
LEMMA OneOn ==
    ASSUME NEW p \in Offsets
    PROVE  Forward(p, 0) = p /\ Forward(p, 1) # p
  <1>1. p \in Int /\ p + 0 = p BY RingPositive DEF Offsets
  <1>2. Forward(p, 0) = p BY <1>1, RingPositive, ModSmall DEF Forward, Offsets
  <1>3. CASE p + 1 \in Offsets
    <2>1. Forward(p, 1) = p + 1
      BY <1>3, RingPositive, ModSmall DEF Forward, Offsets
    <2> QED BY <1>1, <1>2, <2>1
  <1>4. CASE p + 1 \notin Offsets
    <2>1. p + 1 = RingBlocks /\ RingBlocks > 1
      BY <1>4, MeasureAssumption DEF Offsets
    <2>2. RingBlocks = 0 + RingBlocks * 1 BY RingPositive
    <2>3. RingBlocks % RingBlocks = 0 % RingBlocks
      BY <2>2, RingPositive, Congruent
    <2>4. 0 \in 0 .. RingBlocks - 1 BY RingPositive
    <2>5. 0 % RingBlocks = 0 BY <2>4, RingPositive, ModSmall
    <2>6. Forward(p, 1) = 0 BY <2>1, <2>3, <2>5 DEF Forward
    <2> QED BY <1>1, <1>2, <2>1, <2>6
  <1> QED BY <1>2, <1>3, <1>4

-----------------------------------------------------------------------------
(* The invariant *)

PointersOK == wr \in Offsets /\ old.wr \in Offsets /\ late \in BOOLEAN

PredictionsOK == /\ expected \in Offsets \union {Unknown}
                 /\ predicted \in Offsets \union {Unknown}
                 /\ slipped \in BOOLEAN /\ doubt \in BOOLEAN

LockOK == /\ held \in BOOLEAN /\ writing \in BOOLEAN
          /\ writing <=> held
          /\ fatal = "sent" => held

\* Without doubt, the recorder knows the device's pointer between the writes,
\* and during one it is off by the slip.
Accounted ==
    /\ ~writing /\ ~doubt /\ expected # Unknown => expected = wr
    /\ writing /\ ~doubt /\ predicted # Unknown
          => wr = Forward(predicted, IF slipped THEN 1 ELSE 0)

\* A tool has no recorder.
Silent == ~recording => ~writing /\ expected = Unknown

IInv == PointersOK /\ PredictionsOK /\ LockOK /\ Accounted /\ Silent

LEMMA StatusOffset == PointersOK => Status.wr \in Offsets
  BY DEF PointersOK, Status, Live

LEMMA InitIInv == Init => IInv
  <1> SUFFICES ASSUME Init PROVE IInv OBVIOUS
  <1>1. wr = 1 /\ old.wr = 1 /\ late = FALSE
    BY DEF Init, MeasureInit, Live
  <1>2. 1 \in Offsets /\ 0 \in Offsets BY MeasureAssumption DEF Offsets
  <1>3. PointersOK BY <1>1, <1>2 DEF PointersOK
  <1>4. expected = Unknown /\ predicted = Unknown /\ slipped = FALSE /\ doubt = FALSE
        /\ held = FALSE /\ writing = FALSE /\ fatal = "none"
    BY DEF Init
  <1> QED BY <1>2, <1>3, <1>4 DEF IInv, PredictionsOK, LockOK, Accounted, Silent

\* A transfer of k blocks leaves the pointers in the ring.
LEMMA ArriveStep ==
    ASSUME PointersOK, NEW kind, NEW k \in Nat, Arrive(kind, k)
    PROVE  PointersOK' /\ wr' = Forward(wr, k)
  <1>1. wr' = Forward(wr, k) /\ late' \in BOOLEAN
        /\ old' = (IF late' THEN Status ELSE [wr |-> wr', used |-> 1])
    BY DEF Arrive
  <1>2. wr \in Int BY RingPositive DEF PointersOK, Offsets
  <1>3. wr' \in Offsets BY <1>1, <1>2, ForwardOffset
  <1>4. old'.wr \in Offsets BY <1>1, <1>3, StatusOffset
  <1> QED BY <1>1, <1>3, <1>4 DEF PointersOK

\* What goes past the recorder leaves nothing to account for.
LEMMA DoubtStep ==
    ASSUME IInv, doubt' = TRUE, UNCHANGED <<expected, predicted, slipped>>
    PROVE  PredictionsOK' /\ Accounted'
  BY DEF IInv, PredictionsOK, Accounted

LEMMA StutterStep ==
    ASSUME IInv, UNCHANGED <<wr, expected, predicted, slipped, doubt, writing>>
    PROVE  PredictionsOK' /\ Accounted'
  BY DEF IInv, PredictionsOK, Accounted

LEMMA TransferStep == ASSUME IInv, Transfer PROVE IInv'
  <1>1. ~held /\ ~writing BY DEF Transfer, Free, IInv, LockOK
  <1>2. PICK slip \in 0 .. 1 : Arrive("plain", 1 + slip) /\ slipped' = (slip = 1)
    BY DEF Transfer, Sent
  <1>3. slip \in Nat /\ 1 + slip \in Nat /\ slip = (IF slipped' THEN 1 ELSE 0)
    <2>0. slip \in 0 .. 1 BY <1>2, Zenon
    <2>1. slip = 0 \/ slip = 1 BY <2>0
    <2>4. slipped' = (slip = 1) BY <1>2
    <2>2. CASE slip = 0
      <3>1. slip # 1 /\ slip \in Nat /\ 1 + slip \in Nat BY <2>2
      <3>2. ~slipped' BY <3>1, <2>4, Zenon
      <3> QED BY <2>2, <3>1, <3>2, Zenon
    <2>3. CASE slip = 1
      <3>1. slip \in Nat /\ 1 + slip \in Nat BY <2>3
      <3>2. slipped' BY <2>3, <2>4, Zenon
      <3> QED BY <2>3, <3>1, <3>2, Zenon
    <2> QED BY <2>1, <2>2, <2>3
  <1>4. PointersOK' /\ wr' = Forward(wr, 1 + slip)
    BY <1>2, <1>3, ArriveStep DEF IInv
  <1>5. predicted' = Predict(1) /\ expected' = expected /\ doubt' = doubt
    BY DEF Transfer
  <1>6. expected \in Offsets \union {Unknown} /\ doubt \in BOOLEAN
    BY DEF IInv, PredictionsOK
  <1>8. predicted' \in Offsets \union {Unknown}
    <2>1. CASE expected = Unknown BY <2>1, <1>5 DEF Predict
    <2>2. CASE expected # Unknown
      <3>1. expected \in Int BY <2>2, <1>6, RingPositive DEF Offsets
      <3> QED BY <2>2, <3>1, <1>5, ForwardOffset DEF Predict
    <2> QED BY <2>1, <2>2
  <1>9. ASSUME predicted' # Unknown, ~doubt
        PROVE  wr' = Forward(predicted', slip)
    <2>1. expected # Unknown /\ predicted' = Forward(expected, 1)
      BY <1>5, <1>9 DEF Predict
    <2>2. expected = wr /\ wr \in Offsets
      BY <1>1, <1>9, <2>1 DEF IInv, Accounted, PointersOK
    <2> QED BY <1>3, <1>4, <2>1, <2>2, ForwardTwice
  <1>10. held' = TRUE /\ writing' = TRUE BY DEF Transfer
  <1>11. PredictionsOK' BY <1>2, <1>5, <1>6, <1>8 DEF PredictionsOK
  <1>12. LockOK' BY <1>10 DEF LockOK
  <1>13. Accounted' BY <1>3, <1>5, <1>9, <1>10 DEF Accounted
  <1>14. Silent' BY DEF Transfer, Silent
  <1> QED BY <1>4, <1>11, <1>12, <1>13, <1>14 DEF IInv

LEMMA RecordStep == ASSUME IInv, RecordWrite PROVE IInv'
  <1>1. UNCHANGED <<wr, old, late>> BY DEF RecordWrite, mvars, ring
  <1>2. PointersOK' BY <1>1 DEF IInv, PointersOK
  <1>3. Status.wr \in Offsets BY StatusOffset DEF IInv
  <1>4. /\ expected' = Status.wr /\ predicted' = Unknown /\ slipped' = FALSE
        /\ doubt' = late /\ writing' = FALSE /\ held' = FALSE /\ fatal' # "sent"
    BY DEF RecordWrite, Written
  <1>5. PredictionsOK' BY <1>3, <1>4 DEF PredictionsOK, IInv, PointersOK
  <1>6. LockOK' BY <1>4 DEF LockOK
  <1>7. ~late => Status.wr = wr BY DEF Status, Live
  <1>8. Accounted' BY <1>1, <1>4, <1>7 DEF Accounted
  <1>9. Silent' BY <1>4 DEF RecordWrite, IInv, Silent
  <1> QED BY <1>2, <1>5, <1>6, <1>8, <1>9 DEF IInv

LEMMA UnrecordedStep == ASSUME IInv, WriteUnrecorded PROVE IInv'
  <1>1. /\ UNCHANGED <<wr, old, late, expected, recording>>
        /\ predicted' = Unknown /\ slipped' = FALSE /\ doubt' = TRUE
        /\ writing /\ writing' = FALSE /\ held' = FALSE /\ fatal' # "sent"
    BY DEF WriteUnrecorded, Written, mvars, ring
  <1>2. PointersOK' BY <1>1 DEF IInv, PointersOK
  <1> QED BY <1>1, <1>2 DEF IInv, PredictionsOK, LockOK, Accounted, Silent

LEMMA BypassStep == ASSUME IInv, Bypass PROVE IInv'
  <1>1. PointersOK' BY ArriveStep DEF IInv, Bypass
  <1>2. /\ doubt' = TRUE /\ fatal' \in {fatal, "missed"}
        /\ UNCHANGED <<expected, predicted, slipped, writing, held>>
    BY DEF Bypass
  <1>3. PredictionsOK' /\ Accounted' BY <1>2, DoubtStep
  <1>4. LockOK' BY <1>2 DEF IInv, LockOK
  <1>5. Silent' BY DEF Bypass, Silent
  <1> QED BY <1>1, <1>3, <1>4, <1>5 DEF IInv

LEMMA ReviveStep == ASSUME IInv, Revive PROVE IInv'
  <1>1. /\ UNCHANGED <<recording, held, writing, expected, predicted, slipped>>
        /\ wr' = 1 /\ late' = FALSE /\ old'.wr = 1 /\ doubt' = TRUE /\ fatal' = "none"
    BY DEF Revive
  <1>2. PointersOK' BY <1>1, OneInRing DEF PointersOK
  <1>3. PredictionsOK' /\ Accounted' BY <1>1, DoubtStep
  <1>4. LockOK' /\ Silent' BY <1>1 DEF IInv, LockOK, Silent
  <1> QED BY <1>2, <1>3, <1>4 DEF IInv

LEMMA ForgetStep == ASSUME IInv, Forget PROVE IInv'
  <1>1. /\ UNCHANGED <<wr, late, old, held, writing, predicted, slipped, doubt, fatal>>
        /\ expected' = Unknown
    BY DEF Forget, mvars, ring, death
  <1>3. PointersOK' BY <1>1 DEF IInv, PointersOK
  <1>4. PredictionsOK' BY <1>1 DEF IInv, PredictionsOK
  <1>5. LockOK' BY <1>1 DEF IInv, LockOK
  <1>6. Accounted' BY <1>1 DEF IInv, Accounted
  <1>7. Silent' BY DEF Forget, IInv, Silent
  <1> QED BY <1>3, <1>4, <1>5, <1>6, <1>7 DEF IInv

LEMMA MeasuringStep == ASSUME IInv, Measuring PROVE IInv'
  <1>1. UNCHANGED <<recording, held, writing, expected, predicted, slipped>>
        /\ fatal' \in {fatal, "missed"}
    BY DEF Measuring
  <1>2. LockOK' /\ Silent' BY <1>1 DEF IInv, LockOK, Silent
  <1>3. CASE Send /\ doubt' = TRUE
    <2>1. PointersOK' BY <1>3, ArriveStep DEF IInv, Send
    <2>2. PredictionsOK' /\ Accounted' BY <1>1, <1>3, DoubtStep
    <2> QED BY <1>2, <2>1, <2>2 DEF IInv
  <1>4. CASE SendRate /\ ~recording /\ doubt' = doubt
    <2>1. PointersOK' BY <1>4, ArriveStep DEF IInv, SendRate
    <2>2. PredictionsOK' BY <1>1, <1>4 DEF IInv, PredictionsOK
    <2>3. ~writing /\ expected = Unknown BY <1>4 DEF IInv, Silent
    <2>4. Accounted' BY <1>1, <2>3 DEF Accounted
    <2> QED BY <1>2, <2>1, <2>2, <2>4 DEF IInv
  <1>5. CASE UNCHANGED ring /\ doubt' = doubt
    <2>1. PointersOK' BY <1>5 DEF IInv, PointersOK, ring
    <2>2. PredictionsOK' /\ Accounted' BY <1>1, <1>5, StutterStep DEF ring
    <2> QED BY <1>2, <2>1, <2>2 DEF IInv
  <1> QED BY <1>3, <1>4, <1>5
          DEF Measuring, Begin, Visible, Unseen, Drained, Measured, TimedOut, Raised,
              RateDrained, RateTimedOut

LEMMA DeviceStep == ASSUME IInv, DeviceMoves PROVE IInv'
  <1>1. UNCHANGED <<recording, held, writing, expected, predicted, slipped, doubt, fatal>>
    BY DEF DeviceMoves, recorder, death
  <1>2. wr' = wr /\ (UNCHANGED <<late, old>> \/ (late' = FALSE /\ old'.wr = wr))
    BY DEF DeviceMoves, Device, Pass, Consume, Refresh, Fail
  <1>3. PointersOK' BY <1>2 DEF IInv, PointersOK
  <1>4. PredictionsOK' /\ Accounted' BY <1>1, <1>2, StutterStep
  <1>5. LockOK' /\ Silent' BY <1>1 DEF IInv, LockOK, Silent
  <1> QED BY <1>3, <1>4, <1>5 DEF IInv

LEMMA WatchStep == ASSUME IInv, Stop \/ WatchSees \/ Dump \/ UNCHANGED vars PROVE IInv'
  <1>1. UNCHANGED <<recording, wr, late, old, held, writing, expected, predicted,
                    slipped, doubt, fatal>>
    BY DEF Stop, WatchSees, Dump, vars, mvars, ring, recorder, death
  <1>2. PointersOK' BY <1>1 DEF IInv, PointersOK
  <1>3. PredictionsOK' /\ Accounted' BY <1>1, StutterStep
  <1>4. LockOK' /\ Silent' BY <1>1 DEF IInv, LockOK, Silent
  <1> QED BY <1>2, <1>3, <1>4 DEF IInv

LEMMA NextIInv == IInv /\ [Next]_vars => IInv'
  BY TransferStep, RecordStep, UnrecordedStep, BypassStep, ReviveStep, ForgetStep,
     MeasuringStep, DeviceStep, WatchStep DEF Next

LEMMA AlwaysIInv == Spec => []IInv
  BY InitIInv, NextIInv, PTL DEF Spec

-----------------------------------------------------------------------------

\* A write of which nothing is in doubt is reported as a slip when it slipped and
\* only then, for a ring of any size (write_regs_now, expected_wr).
THEOREM SlipsReported == Spec => []SlipsAreTrue
  <1>1. ASSUME IInv, writing, predicted # Unknown, ~doubt, ~late
        PROVE  Slip <=> slipped
    <2>1. predicted \in Offsets /\ wr = Forward(predicted, IF slipped THEN 1 ELSE 0)
      BY <1>1 DEF IInv, PredictionsOK, Accounted
    <2>2. Status.wr = wr BY <1>1 DEF Status, Live
    <2>3. slipped \in BOOLEAN BY <1>1 DEF IInv, PredictionsOK
    <2> QED BY <1>1, <2>1, <2>2, <2>3, OneOn DEF Slip
  <1>2. IInv => SlipsAreTrue BY <1>1 DEF SlipsAreTrue
  <1> QED BY <1>2, AlwaysIInv, PTL

\* Whatever the schedule, the watchdog that sees the run bit down finds the
\* transfer of write_regs_now recorded that stopped the engine, if neither it nor
\* the status read after it raised (write_regs_now, watchdog_loop).
THEOREM DumpTellsWhy == Spec => CulpritRecorded
  <1>1. ASSUME IInv, Next, watch # "dying", watch' = "dying"
        PROVE  fatal # "sent"
    <2>1. CASE WatchSees BY <1>1, <2>1 DEF WatchSees, Free, IInv, LockOK
    <2>2. CASE Dump BY <2>2, <1>1 DEF Dump
    <2>3. CASE UNCHANGED watch BY <2>3, <1>1
    <2> QED BY <1>1, <2>1, <2>2, <2>3
            DEF Next, Transfer, RecordWrite, WriteUnrecorded, Bypass, Revive, Forget,
                Measuring, Stop, DeviceMoves, death
  <1>2. IInv /\ [Next]_vars
            => [watch # "dying" /\ watch' = "dying" => fatal # "sent"]_vars
    BY <1>1
  <1> QED BY <1>2, AlwaysIInv, PTL DEF Spec, CulpritRecorded

-----------------------------------------------------------------------------
(* The verdicts of a measurement *)

Kinds == {"plain", "delay"}

QueueOK == /\ queue \in Seq(Kinds) /\ Len(queue) <= MaxQueue
           /\ spent \in BOOLEAN
           /\ queue = <<>> => ~spent

\* A measured block whose delay is not over is the last one in the ring.
Pending == /\ queue # <<>> /\ queue[Len(queue)] = "delay"
           /\ Len(queue) = 1 => ~spent

Unpassed == /\ pc = "visible" => ~long
            /\ pc \in {"visible", "timing", "rate"} /\ engine = "executing" /\ ~long
                  => Pending

\* Every measurement so far was judged by a late status, or there would have
\* been an answer; and there is no answer yet.
Counted == /\ pc \in {"rest", "visible", "timing"} /\ engine = "executing"
                 => n \in 1 .. 3 /\ raced = n - 1
           /\ pc # "idle" => verdict = "none"
           /\ long \in BOOLEAN /\ hurried \in BOOLEAN

\* The pointer of measure_delay_rate, unless it was late, is the device's.
TargetOK == pc = "rate" /\ ~hurried => ~late /\ target = wr

MInv == /\ PointersOK /\ QueueOK /\ Unpassed /\ Counted /\ TargetOK
        /\ StoppedMeansRaced /\ FastMeansLate

LEMMA EmptyQueue == <<>> \in Seq(Kinds) /\ Len(<<>>) <= MaxQueue
  <1>1. <<>> \in Seq(Kinds) /\ Len(<<>>) = 0 OBVIOUS
  <1>2. 0 <= MaxQueue BY MeasureAssumption
  <1> QED BY <1>1, <1>2

LEMMA InitMInv == Init => MInv
  <1> SUFFICES ASSUME Init PROVE MInv OBVIOUS
  <1>1. PointersOK BY InitIInv DEF IInv
  <1>2. /\ queue = <<>> /\ spent = FALSE /\ pc = "idle" /\ verdict = "none"
        /\ long = FALSE /\ hurried = FALSE
    BY DEF Init, MeasureInit
  <1>3. QueueOK BY <1>2, EmptyQueue DEF QueueOK
  <1> QED BY <1>1, <1>2, <1>3 DEF MInv, Unpassed, Counted, TargetOK,
                                  StoppedMeansRaced, FastMeansLate

\* What a transfer adds to the ring; one block is the last there, its delay
\* still to pass.
LEMMA ArriveQueue ==
    ASSUME QueueOK, NEW kind \in Kinds, NEW k \in 1 .. 2, Arrive(kind, k)
    PROVE  QueueOK' /\ (k = 1 /\ kind = "delay" => Pending')
  <1> DEFINE new == [i \in 1 .. k |-> IF i = 1 THEN kind ELSE "plain"]
  <1>1. queue' = queue \o new /\ Len(queue) + k <= MaxQueue /\ spent' = spent
    BY DEF Arrive
  <1>2. k \in Nat /\ new \in [1 .. k -> Kinds] BY DEF Kinds
  <1>3. new \in Seq(Kinds) /\ Len(new) = k BY <1>2
  <1>4. new[1] = kind OBVIOUS
  <1> HIDE DEF new
  <1>5. queue' \in Seq(Kinds) /\ Len(queue') = Len(queue) + k
    BY <1>1, <1>3 DEF QueueOK
  <1>6. Len(queue) \in Nat BY DEF QueueOK
  <1>7. queue' # <<>> BY <1>5, <1>6
  <1>8. QueueOK' BY <1>1, <1>5, <1>7 DEF QueueOK
  <1>9. ASSUME k = 1, kind = "delay" PROVE Pending'
    <2>1. queue'[Len(queue')] = new[1] BY <1>1, <1>3, <1>5, <1>6, <1>9 DEF QueueOK
    <2>2. Len(queue') = 1 => queue = <<>> BY <1>5, <1>6, <1>9 DEF QueueOK
    <2> QED BY <1>1, <1>4, <1>7, <1>9, <2>1, <2>2 DEF Pending, QueueOK
  <1> QED BY <1>8, <1>9

\* A status that is not late shows a block that has not passed.
LEMMA PendingSeen ==
    ASSUME QueueOK, Pending, ~late
    PROVE  ~AtRest /\ Status.wr = wr /\ Status.used = Len(queue) + 1 /\ Len(queue) >= 1
  <1>1. Len(queue) \in Nat /\ Len(queue) # 0 BY DEF QueueOK, Pending
  <1>2. Status.wr = wr /\ Status.used = Len(queue) + 1 BY DEF Status, Live
  <1> QED BY <1>1, <1>2 DEF AtRest

LEMMA MeasuredStep ==
    ASSUME MInv, NEW enough \in BOOLEAN, Measured(enough),
           pc \in {"visible", "timing"},
           engine = "executing" /\ ~enough => late
    PROVE  MInv'
  <1>1. UNCHANGED ring /\ long' = long /\ hurried' = late
        /\ raced' = raced + (IF late THEN 1 ELSE 0)
    BY DEF Measured
  <1>2. PointersOK' /\ QueueOK' BY <1>1 DEF MInv, PointersOK, QueueOK, ring
  <1>3. engine' = engine /\ late \in BOOLEAN BY <1>1 DEF ring, MInv, PointersOK
  <1>4. CASE enough /\ pc' = "idle" /\ verdict' = "executing" /\ n' = 0
    BY <1>1, <1>2, <1>3, <1>4 DEF MInv, Unpassed, Counted, TargetOK,
                                  StoppedMeansRaced, FastMeansLate
  <1>5. CASE ~enough /\ n < 3 /\ pc' = "rest" /\ n' = n + 1 /\ UNCHANGED verdict
    <2>1. engine = "executing" => n \in 1 .. 3 /\ raced = n - 1 /\ late
      BY <1>5 DEF MInv, Counted
    <2>2. engine' = "executing" => n' \in 1 .. 3 /\ raced' = n' - 1
      BY <1>1, <1>3, <1>5, <2>1
    <2>3. verdict' = "none" BY <1>5 DEF MInv, Counted
    <2>4. Counted' BY <1>1, <1>3, <1>5, <2>2, <2>3 DEF MInv, Counted
    <2> QED BY <1>2, <1>5, <2>3, <2>4
            DEF MInv, Unpassed, TargetOK, StoppedMeansRaced, FastMeansLate
  <1>6. CASE ~enough /\ n = 3 /\ pc' = "idle" /\ verdict' = "stopped" /\ n' = 0
    <2>1. engine = "executing" => raced = n - 1 /\ late
      BY <1>6 DEF MInv, Counted
    <2>2. StoppedMeansRaced' BY <1>1, <1>3, <1>6, <2>1 DEF StoppedMeansRaced
    <2>3. Counted' BY <1>1, <1>3, <1>6 DEF MInv, Counted
    <2> QED BY <1>2, <1>6, <2>2, <2>3 DEF MInv, Unpassed, TargetOK, FastMeansLate
  <1> QED BY <1>4, <1>5, <1>6 DEF Measured

LEMMA CheckStep ==
    ASSUME MInv, Begin \/ Send \/ Visible \/ Unseen \/ Drained \/ TimedOut \/ Raised
    PROVE  MInv'
  <1>1. CASE Begin
    <2>1. /\ UNCHANGED <<ring, long, hurried>> /\ pc' = "rest" /\ n' = 1
          /\ raced' = 0 /\ verdict' = "none"
      BY <1>1 DEF Begin
    <2>2. PointersOK' /\ QueueOK' BY <2>1 DEF MInv, PointersOK, QueueOK, ring
    <2> QED BY <2>1, <2>2 DEF MInv, Unpassed, Counted, TargetOK,
                              StoppedMeansRaced, FastMeansLate
  <1>2. CASE Send
    <2>1. /\ Arrive("delay", 1) /\ pc = "rest" /\ pc' = "visible" /\ long' = FALSE
          /\ UNCHANGED <<n, hurried, raced, verdict>>
      BY <1>2 DEF Send
    <2>2. PointersOK' BY <2>1, ArriveStep DEF MInv
    <2>3. QueueOK' /\ Pending' BY <2>1, ArriveQueue DEF MInv, Kinds
    <2>4. engine' = engine BY <2>1 DEF Arrive
    <2>5. Counted' BY <2>1, <2>4 DEF MInv, Counted
    <2>6. verdict' = "none" BY <2>1 DEF MInv, Counted
    <2> QED BY <2>1, <2>2, <2>3, <2>5, <2>6
            DEF MInv, Unpassed, TargetOK, StoppedMeansRaced, FastMeansLate
  <1>3. CASE Visible
    <2>1. /\ UNCHANGED ring /\ pc = "visible" /\ pc' = "timing"
          /\ UNCHANGED <<n, long, hurried, raced, verdict>>
      BY <1>3 DEF Visible
    <2>2. PointersOK' /\ QueueOK' /\ (Pending => Pending') /\ engine' = engine
      BY <2>1 DEF MInv, PointersOK, QueueOK, Pending, ring
    <2>3. Counted' BY <2>1, <2>2 DEF MInv, Counted
    <2> QED BY <2>1, <2>2, <2>3 DEF MInv, Unpassed, TargetOK,
                                    StoppedMeansRaced, FastMeansLate
  <1>4. CASE Unseen
    <2>1. pc = "visible" /\ AtRest /\ Measured(FALSE) BY <1>4 DEF Unseen
    <2>2. engine = "executing" => Pending BY <2>1 DEF MInv, Unpassed
    <2>3. engine = "executing" => late BY <2>1, <2>2, PendingSeen DEF MInv
    <2> QED BY <2>1, <2>3, MeasuredStep
  <1>5. CASE Drained
    <2>1. pc = "timing" /\ AtRest /\ Measured(long) BY <1>5 DEF Drained
    <2>2. engine = "executing" /\ ~long => Pending BY <2>1 DEF MInv, Unpassed
    <2>3. engine = "executing" /\ ~long => late BY <2>1, <2>2, PendingSeen DEF MInv
    <2>4. long \in BOOLEAN BY DEF MInv, Counted
    <2> QED BY <2>1, <2>3, <2>4, MeasuredStep
  <1>6. CASE TimedOut
    <2>1. /\ UNCHANGED ring /\ long' = long /\ hurried' = FALSE
          /\ pc' = "idle" /\ verdict' = "executing"
      BY <1>6 DEF TimedOut
    <2>2. PointersOK' /\ QueueOK' BY <2>1 DEF MInv, PointersOK, QueueOK, ring
    <2> QED BY <2>1, <2>2 DEF MInv, Unpassed, Counted, TargetOK,
                              StoppedMeansRaced, FastMeansLate
  <1>7. CASE Raised
    <2>1. /\ UNCHANGED ring /\ UNCHANGED <<long, hurried>>
          /\ pc' = "idle" /\ verdict' = "none"
      BY <1>7 DEF Raised
    <2>2. PointersOK' /\ QueueOK' BY <2>1 DEF MInv, PointersOK, QueueOK, ring
    <2> QED BY <2>1, <2>2 DEF MInv, Unpassed, Counted, TargetOK,
                              StoppedMeansRaced, FastMeansLate
  <1> QED BY <1>1, <1>2, <1>3, <1>4, <1>5, <1>6, <1>7

\* What is ahead of a reader that knows the write pointer: its own block.
LEMMA AheadByQueue ==
    ASSUME QueueOK, PointersOK, ~late, Pending, target = wr
    PROVE  ~Reached
  <1> DEFINE l == Len(queue) + 1
  <1>1. /\ Status.wr = wr /\ Status.used = l /\ l \in Int /\ l >= 2
        /\ l <= MaxQueue + 1
    <2>1. Len(queue) \in Nat BY DEF QueueOK
    <2> QED BY <2>1, PendingSeen, MeasureAssumption DEF QueueOK
  <1> HIDE DEF l
  <1>2. wr \in Int BY RingPositive DEF PointersOK, Offsets
  <1>3. target - (Status.wr - Status.used) = l BY <1>1, <1>2
  <1>4. l \in 0 .. RingBlocks - 1 BY <1>1, MeasureAssumption
  <1>5. l % RingBlocks = l BY <1>4, RingPositive, ModSmall
  <1>6. ~(l % RingBlocks <= 1) BY <1>1, <1>5
  <1> QED BY <1>3, <1>6 DEF Reached

LEMMA RateStep ==
    ASSUME MInv, SendRate \/ RateDrained \/ RateTimedOut
    PROVE  MInv'
  <1>1. CASE SendRate
    <2>1. /\ Arrive("delay", 1) /\ pc' = "rate" /\ long' = FALSE
          /\ verdict' = "none" /\ hurried' = late'
          /\ target' = (IF late' THEN old' ELSE Live').wr
      BY <1>1 DEF SendRate
    <2>2. PointersOK' BY <2>1, ArriveStep DEF MInv
    <2>3. QueueOK' /\ Pending' BY <2>1, ArriveQueue DEF MInv, Kinds
    <2>4. TargetOK' BY <2>1 DEF TargetOK, Live
    <2>5. Counted' BY <2>1, <2>2 DEF Counted, PointersOK
    <2> QED BY <2>1, <2>2, <2>3, <2>4, <2>5
            DEF MInv, Unpassed, StoppedMeansRaced, FastMeansLate
  <1>2. CASE RateDrained
    <2>1. /\ UNCHANGED <<ring, long, target, hurried>> /\ pc = "rate" /\ Reached
          /\ pc' = "idle" /\ verdict' = IF long THEN "slow" ELSE "fast"
      BY <1>2 DEF RateDrained
    <2>2. PointersOK' /\ QueueOK' /\ engine' = engine
      BY <2>1 DEF MInv, PointersOK, QueueOK, ring
    <2>3. ASSUME engine = "executing", ~long, ~hurried PROVE FALSE
      <3>1. ~late /\ target = wr /\ Pending
        BY <2>1, <2>3 DEF MInv, TargetOK, Unpassed
      <3> QED BY <2>1, <3>1, AheadByQueue DEF MInv
    <2>4. FastMeansLate'
      BY <2>1, <2>2, <2>3 DEF FastMeansLate
    <2> QED BY <2>1, <2>2, <2>4 DEF MInv, Unpassed, Counted, TargetOK, StoppedMeansRaced
  <1>3. CASE RateTimedOut
    <2>1. /\ UNCHANGED <<ring, long, hurried>> /\ pc' = "idle" /\ verdict' = "timed_out"
      BY <1>3 DEF RateTimedOut
    <2>2. PointersOK' /\ QueueOK' BY <2>1 DEF MInv, PointersOK, QueueOK, ring
    <2> QED BY <2>1, <2>2 DEF MInv, Unpassed, Counted, TargetOK,
                              StoppedMeansRaced, FastMeansLate
  <1> QED BY <1>1, <1>2, <1>3

\* The ring empties: only the passing of its delay lets a measured block go.
LEMMA PassStep == ASSUME MInv, Pass PROVE MInv'
  <1>1. /\ engine = "executing" /\ queue # <<>> /\ pc # "visible" /\ spent' = TRUE
        /\ long' = (long \/ \A i \in 2 .. Len(queue) : queue[i] # "delay")
        /\ UNCHANGED <<wr, queue, engine, late, old, pc, n, target, hurried, raced,
                       verdict>>
    BY DEF Pass
  <1>2. PointersOK' /\ QueueOK' BY <1>1 DEF MInv, PointersOK, QueueOK
  <1>3. ASSUME pc \in {"timing", "rate"}, ~long' PROVE Pending'
    <2>1. Pending /\ ~long BY <1>1, <1>3 DEF MInv, Unpassed
    <2>2. Len(queue) \in Nat BY DEF MInv, QueueOK
    <2>3. PICK i \in 2 .. Len(queue) : queue[i] = "delay" BY <1>1, <1>3
    <2>4. Len(queue) # 1 BY <2>2, <2>3
    <2> QED BY <1>1, <2>1, <2>4 DEF Pending
  <1>4. Unpassed' BY <1>1, <1>3 DEF Unpassed
  <1>5. Counted'
    <2>1. long' \in BOOLEAN BY <1>1
    <2> QED BY <1>1, <2>1 DEF MInv, Counted
  <1> QED BY <1>1, <1>2, <1>4, <1>5 DEF MInv, TargetOK, StoppedMeansRaced, FastMeansLate

LEMMA ConsumeStep == ASSUME MInv, Consume PROVE MInv'
  <1>1. /\ queue # <<>> /\ queue' = Tail(queue) /\ spent' = FALSE
        /\ engine = "executing" => Head(queue) = "plain" \/ spent
        /\ UNCHANGED <<wr, engine, late, old, pc, n, long, target, hurried, raced,
                       verdict>>
    BY DEF Consume, host
  <1>2. /\ queue' \in Seq(Kinds) /\ Len(queue') = Len(queue) - 1 /\ Len(queue) \in Nat
        /\ \A i \in 1 .. Len(queue') : queue'[i] = queue[i + 1]
    BY <1>1 DEF MInv, QueueOK
  <1>3. PointersOK' /\ QueueOK'
    <2>1. Len(queue') <= MaxQueue
      BY <1>2, MeasureAssumption DEF MInv, QueueOK
    <2> QED BY <1>1, <1>2, <2>1 DEF MInv, PointersOK, QueueOK
  <1>4. ASSUME Pending, engine = "executing" PROVE Pending'
    <2>1. Len(queue) # 1
      <3>1. ASSUME Len(queue) = 1 PROVE FALSE
        <4>1. ~spent /\ queue[1] = "delay" BY <1>4, <3>1 DEF Pending
        <4> QED BY <1>1, <1>4, <4>1 DEF MInv, QueueOK
      <3> QED BY <3>1
    <2>2. Len(queue') >= 1 BY <1>1, <1>2, <2>1 DEF MInv, QueueOK
    <2>3. queue'[Len(queue')] = queue[Len(queue)] BY <1>2, <2>2
    <2>4. queue' # <<>> BY <2>2
    <2>5. queue'[Len(queue')] = "delay" BY <1>4, <2>3 DEF Pending
    <2> QED BY <1>1, <2>4, <2>5 DEF Pending
  <1>5. Unpassed' BY <1>1, <1>4 DEF MInv, Unpassed
  <1> QED BY <1>1, <1>3, <1>5 DEF MInv, Counted, TargetOK, StoppedMeansRaced, FastMeansLate

\* The engine fails, stops or is revived, or the status catches up.
LEMMA EngineStep ==
    ASSUME MInv, Refresh \/ Fail \/ Stop \/ Revive
    PROVE  MInv'
  <1>1. CASE Refresh
    <2>1. /\ late' = FALSE /\ old'.wr = wr
          /\ UNCHANGED <<wr, queue, spent, engine, pc, n, long, target, hurried,
                         raced, verdict>>
      BY <1>1 DEF Refresh, host
    <2>2. PointersOK' /\ QueueOK' /\ (Pending => Pending')
      BY <2>1 DEF MInv, PointersOK, QueueOK, Pending
    <2> QED BY <2>1, <2>2 DEF MInv, Unpassed, Counted, TargetOK, StoppedMeansRaced,
                              FastMeansLate
  <1>2. CASE Fail \/ Stop
    <2>1. /\ engine' # "executing"
          /\ UNCHANGED <<wr, late, old, queue, spent, pc, n, long, target, hurried,
                         raced, verdict>>
      BY <1>2 DEF Fail, Stop, host
    <2>2. PointersOK' /\ QueueOK' BY <2>1 DEF MInv, PointersOK, QueueOK
    <2> QED BY <2>1, <2>2 DEF MInv, Unpassed, Counted, TargetOK, StoppedMeansRaced,
                              FastMeansLate
  <1>3. CASE Revive
    <2>1. /\ pc = "idle" /\ queue' = <<>> /\ spent' = FALSE /\ verdict' = "none"
          /\ wr' = 1 /\ late' = FALSE /\ old'.wr = 1 /\ UNCHANGED <<pc, long, hurried>>
      BY <1>3 DEF Revive, Free
    <2>2. PointersOK' BY <2>1, OneInRing DEF PointersOK
    <2>3. QueueOK' BY <2>1, EmptyQueue DEF QueueOK
    <2> QED BY <2>1, <2>2, <2>3 DEF MInv, Unpassed, Counted, TargetOK,
                                    StoppedMeansRaced, FastMeansLate
  <1> QED BY <1>1, <1>2, <1>3

\* Nothing else is written while a measurement is under way (_IO_LOCK).
LEMMA WrittenStep == ASSUME MInv, Transfer \/ Bypass PROVE MInv'
  <1>1. PICK k \in 1 .. 2 : Arrive("plain", k)
    <2>1. CASE Transfer
      <3>1. PICK slip \in 0 .. 1 : Arrive("plain", 1 + slip)
        BY <2>1 DEF Transfer, Sent
      <3>2. 1 + slip \in 1 .. 2 OBVIOUS
      <3> QED BY <3>1, <3>2
    <2>2. CASE Bypass BY <2>2 DEF Bypass
    <2> QED BY <2>1, <2>2
  <1>2. pc = "idle" /\ UNCHANGED host BY DEF Transfer, Bypass, Free
  <1>3. PointersOK' BY <1>1, ArriveStep DEF MInv
  <1>4. QueueOK' BY <1>1, ArriveQueue DEF MInv, Kinds
  <1>5. engine' = engine BY <1>1 DEF Arrive
  <1> QED BY <1>2, <1>3, <1>4, <1>5 DEF MInv, Unpassed, Counted, TargetOK,
                                       StoppedMeansRaced, FastMeansLate, host

LEMMA UntouchedStep == ASSUME MInv, UNCHANGED mvars PROVE MInv'
  <1>1. UNCHANGED <<wr, queue, spent, engine, late, old, pc, n, long, target, hurried,
                    raced, verdict>>
    BY DEF mvars, ring, host
  <1>2. PointersOK' /\ QueueOK' /\ (Pending => Pending')
    BY <1>1 DEF MInv, PointersOK, QueueOK, Pending
  <1> QED BY <1>1, <1>2 DEF MInv, Unpassed, Counted, TargetOK, StoppedMeansRaced,
                            FastMeansLate

LEMMA NextMInv == MInv /\ [Next]_vars => MInv'
  <1> SUFFICES ASSUME MInv, [Next]_vars PROVE MInv' OBVIOUS
  <1>1. CASE Transfer \/ Bypass BY <1>1, WrittenStep
  <1>2. CASE Revive \/ Stop BY <1>2, EngineStep
  <1>3. CASE Measuring BY <1>3, CheckStep, RateStep DEF Measuring
  <1>4. CASE DeviceMoves
    BY <1>4, PassStep, ConsumeStep, EngineStep DEF DeviceMoves, Device
  <1>5. CASE \/ RecordWrite \/ WriteUnrecorded \/ Forget \/ WatchSees \/ Dump
           \/ UNCHANGED vars
    <2>1. UNCHANGED mvars BY <1>5 DEF RecordWrite, WriteUnrecorded, Forget, WatchSees, Dump, vars
    <2> QED BY <2>1, UntouchedStep
  <1> QED BY <1>1, <1>2, <1>3, <1>4, <1>5 DEF Next

\* A check calls an executing engine stopped only when all three measurements
\* were judged by a late status, for a ring of any size (engine_executing).
THEOREM StoppedNeedsThreeRaces == Spec => []StoppedMeansRaced
  <1>1. MInv => StoppedMeansRaced BY DEF MInv
  <1> QED BY <1>1, InitMInv, NextMInv, PTL DEF Spec

\* The rate is found too high only if wr_target was read from a late status
\* (measure_delay_rate).
THEOREM FastNeedsALateTarget == Spec => []FastMeansLate
  <1>1. MInv => FastMeansLate BY DEF MInv
  <1> QED BY <1>1, InitMInv, NextMInv, PTL DEF Spec
-----------------------------------------------------------------------------
(* The types, which need both invariants and how many measurements there were *)

\* While a check is under way, no more were judged than it has begun and ended.
Numbered == /\ n \in 0 .. 3 /\ raced \in 0 .. 3
            /\ pc \in {"rest", "visible", "timing"} => n \in 1 .. 3 /\ raced <= n - 1

Ranged == /\ target \in Offsets
          /\ engine \in {"executing", "swallowing", "stuck"}
          /\ pc \in {"idle", "rest", "visible", "timing", "rate"}
          /\ verdict \in {"none", "executing", "stopped", "slow", "fast", "timed_out"}

Switched == /\ recording \in BOOLEAN /\ forget \in BOOLEAN /\ run \in BOOLEAN
            /\ fatal \in {"none", "sent", "recorded", "missed"}
            /\ watch \in {"up", "dying", "down"}

TInv == Numbered /\ Ranged /\ Switched

LEMMA InitTInv == Init => TInv
  <1> SUFFICES ASSUME Init PROVE TInv OBVIOUS
  <1>1. 0 \in Offsets BY RingPositive DEF Offsets
  <1>2. pc = "idle" /\ n = 0 /\ target = 0 /\ raced = 0 /\ verdict = "none"
        /\ engine \in {"executing", "swallowing", "stuck"}
    BY DEF Init, MeasureInit
  <1>3. Numbered BY <1>2 DEF Numbered
  <1>4. Ranged BY <1>1, <1>2 DEF Ranged
  <1>5. Switched BY DEF Init, Switched
  <1> QED BY <1>3, <1>4, <1>5 DEF TInv

\* The steps that judge a measurement are taken while one is under way.
LEMMA MeasuredNumbered ==
    ASSUME Numbered, NEW enough, Measured(enough), pc \in {"visible", "timing"}
    PROVE  Numbered'
  <1>1. n \in 1 .. 3 /\ raced \in 0 .. 3 /\ raced <= n - 1 BY DEF Numbered
  <1>2. raced' = raced + (IF late THEN 1 ELSE 0) BY DEF Measured
  <1>3. raced' \in 0 .. 3 /\ raced' <= n BY <1>1, <1>2
  <1>4. CASE pc' = "idle" /\ n' = 0 BY <1>3, <1>4 DEF Numbered
  <1>5. CASE n < 3 /\ n' = n + 1 BY <1>1, <1>3, <1>5 DEF Numbered
  <1> QED BY <1>4, <1>5 DEF Measured

LEMMA NextNumbered == ASSUME Numbered, [Next]_vars PROVE Numbered'
  <1>1. CASE Begin BY <1>1 DEF Begin, Numbered
  <1>2. CASE Unseen BY <1>2, MeasuredNumbered DEF Unseen
  <1>3. CASE Drained BY <1>3, MeasuredNumbered DEF Drained
  <1>4. CASE TimedOut \/ Raised BY <1>4 DEF TimedOut, Raised, Numbered
  <1>5. CASE Send BY <1>5 DEF Send, Numbered
  <1>6. CASE Visible BY <1>6 DEF Visible, Numbered
  <1>7. CASE SendRate \/ RateDrained \/ RateTimedOut
    BY <1>7 DEF SendRate, RateDrained, RateTimedOut, Numbered
  <1>8. CASE UNCHANGED <<pc, n, raced>> BY <1>8 DEF Numbered
  <1> QED BY <1>1, <1>2, <1>3, <1>4, <1>5, <1>6, <1>7, <1>8
          DEF Next, Transfer, RecordWrite, WriteUnrecorded, Bypass, Revive, Forget,
              Measuring, Stop, WatchSees, Dump, DeviceMoves, Device, Pass, Consume, Refresh, Fail,
              vars, mvars, host

LEMMA NextRanged == ASSUME Ranged, PointersOK, [Next]_vars PROVE Ranged'
  <1>1. CASE Begin \/ Send \/ Visible \/ TimedOut \/ Raised
    BY <1>1 DEF Begin, Send, Visible, TimedOut, Raised, Arrive, Ranged, ring
  <1>2. CASE Unseen \/ Drained
    BY <1>2 DEF Unseen, Drained, Measured, Ranged, ring
  <1>3. CASE SendRate
    <2>1. PointersOK' BY <1>3, ArriveStep DEF SendRate
    <2>2. target' \in Offsets BY <1>3, <2>1 DEF SendRate, PointersOK, Live
    <2> QED BY <1>3, <2>2 DEF SendRate, Arrive, Ranged
  <1>4. CASE RateDrained \/ RateTimedOut
    BY <1>4 DEF RateDrained, RateTimedOut, Ranged, ring
  <1>5. CASE UNCHANGED host /\ engine' \in {engine, "executing", "swallowing", "stuck"}
    BY <1>5 DEF Ranged, host
  <1>6. CASE Revive BY <1>6 DEF Revive, Ranged
  <1>7. CASE Pass BY <1>7 DEF Pass, Ranged
  <1>8. CASE UNCHANGED mvars BY <1>8 DEF Ranged, mvars, ring, host
  <1> QED BY <1>1, <1>2, <1>3, <1>4, <1>5, <1>6, <1>7, <1>8
          DEF Next, Transfer, Sent, Arrive, RecordWrite, WriteUnrecorded, Bypass, Forget, Measuring,
              Stop, WatchSees, Dump, DeviceMoves, Device, Consume, Refresh, Fail,
              vars, ring

LEMMA NextSwitched == ASSUME Switched, [Next]_vars PROVE Switched'
  <1>1. CASE DeviceMoves \/ UNCHANGED vars
    BY <1>1 DEF DeviceMoves, Switched, recorder, death, vars
  <1>5. CASE Measuring
    <2>1. forget' \in BOOLEAN BY <1>5 DEF Measuring, Switched
    <2>2. fatal' \in {fatal, "missed"} /\ UNCHANGED <<recording, run, watch>>
      BY <1>5 DEF Measuring
    <2> QED BY <2>1, <2>2 DEF Switched
  <1>2. CASE Transfer \/ RecordWrite \/ WriteUnrecorded
    BY <1>2 DEF Transfer, RecordWrite, WriteUnrecorded, Switched
  <1>3. CASE Bypass \/ Revive \/ Forget
    BY <1>3 DEF Bypass, Revive, Forget, Switched, death
  <1>4. CASE Stop \/ WatchSees \/ Dump
    BY <1>4 DEF Stop, WatchSees, Dump, Switched, recorder
  <1> QED BY <1>1, <1>2, <1>3, <1>4, <1>5 DEF Next

\* Every variable of the recorder and of the measurements keeps its type, for a
\* ring of any size; a check takes three measurements and no more
\* (engine_executing, write_regs_now, watchdog_loop).
THEOREM TypeCorrect == Spec => []TypeOK
  <1> DEFINE All == IInv /\ MInv /\ TInv
  <1>1. Init => All BY InitIInv, InitMInv, InitTInv
  <1>2. All /\ [Next]_vars => All'
    <2> SUFFICES ASSUME All, [Next]_vars PROVE All' OBVIOUS
    <2>1. IInv' /\ MInv' BY NextIInv, NextMInv
    <2>2. TInv' BY NextNumbered, NextRanged, NextSwitched DEF TInv, IInv
    <2> QED BY <2>1, <2>2
  <1>3. All => TypeOK
    <2> SUFFICES ASSUME All PROVE TypeOK OBVIOUS
    <2>1. MeasureTypeOK
      BY DEF MInv, PointersOK, QueueOK, Counted, Kinds, TInv, Numbered, Ranged,
             Offsets, MeasureTypeOK
    <2>2. RecorderTypeOK
      BY DEF IInv, PredictionsOK, LockOK, TInv, Switched, Offsets, RecorderTypeOK
    <2> QED BY <2>1, <2>2 DEF TypeOK
  <1> HIDE DEF All
  <1> QED BY <1>1, <1>2, <1>3, PTL DEF Spec
=============================================================================

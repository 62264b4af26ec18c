---------------------------- MODULE DelayMeasure ----------------------------
(* How the driver finds out whether the engine executes: it sends a block of *)
(* delay and times how long the ring takes to be at rest again. The status   *)
(* it reads may still be the one before the write, and a ring that looks at  *)
(* rest then is no sign of an engine that swallowed the block.               *)
(*                                                                           *)
(* Pointers count blocks. At rest rd stays one block behind wr. One thread   *)
(* measures at a time (_IO_LOCK).                                            *)
EXTENDS Integers, Sequences

CONSTANTS
    RingBlocks,  \* blocks in the ring (16)
    MaxQueue     \* bound: blocks waiting beside the one the ring rests on

ASSUME MeasureAssumption ==
    RingBlocks \in Nat /\ MaxQueue \in Nat /\ 1 < MaxQueue /\ MaxQueue + 1 < RingBlocks

VARIABLES
    wr,       \* the device's write pointer
    queue,    \* the blocks it has still to pass, "plain" or "delay"
    spent,    \* is the delay of the first of them over?
    engine,   \* "executing", "swallowing" (delays take no time), "stuck"
    late,     \* is the status still that of before the last write?
    old,      \* that status
    pc,       \* where the measurement is, "idle" for none
    n,        \* engine_executing: the measurement, 1 to 3
    long,     \* has the delay of the measured block passed since it was sent?
    target,   \* measure_delay_rate: wr_target
    hurried,  \* was the status late when the measured block was judged, or
              \* for measure_delay_rate when wr_target was read?
    raced,    \* how many measurements of this check were judged so
    verdict   \* what the last check, or measurement of the rate, found

ring == <<wr, queue, spent, engine, late, old>>
host == <<pc, n, long, target, hurried, raced, verdict>>
mvars == <<ring, host>>

Forward(p, k) == (p + k) % RingBlocks

Live == [wr |-> wr, used |-> Len(queue) + 1]

\* state(): what a status read gives
Status == IF late THEN old ELSE Live

AtRest == Status.used = 1

MeasureInit ==
    /\ wr = 1 /\ queue = <<>> /\ spent = FALSE
    /\ engine \in {"executing", "swallowing", "stuck"}
    /\ late = FALSE /\ old = Live
    /\ pc = "idle" /\ n = 0 /\ long = FALSE /\ target = 0
    /\ hurried = FALSE /\ raced = 0 /\ verdict = "none"

-----------------------------------------------------------------------------
(* The device *)

\* k blocks arrive, and the status shows them at once or later.
Arrive(kind, k) ==
    /\ Len(queue) + k <= MaxQueue
    /\ queue' = queue \o [i \in 1 .. k |-> IF i = 1 THEN kind ELSE "plain"]
    /\ wr' = Forward(wr, k)
    /\ late' \in BOOLEAN /\ old' = IF late' THEN Status ELSE [wr |-> wr', used |-> 1]
    /\ UNCHANGED <<spent, engine>>

\* The delay of the first block passes. It is longer than the 50 ms for which
\* full_drain_time looks for its block.
Pass == /\ engine = "executing" /\ queue # <<>> /\ ~spent
        /\ Head(queue) = "delay" /\ pc # "visible"
        /\ spent' = TRUE
        /\ long' = (long \/ \A i \in 2 .. Len(queue) : queue[i] # "delay")
        /\ UNCHANGED <<wr, queue, engine, late, old, pc, n, target, hurried, raced,
                       verdict>>

Consume == /\ queue # <<>>
           /\ \/ engine = "executing" /\ (Head(queue) = "plain" \/ spent)
              \/ engine = "swallowing"
           /\ queue' = Tail(queue) /\ spent' = FALSE
           /\ UNCHANGED <<wr, engine, late, old, host>>

Refresh == /\ late /\ late' = FALSE
           /\ old' = [wr |-> wr, used |-> 1]
           /\ UNCHANGED <<wr, queue, spent, engine, host>>

Fail == /\ engine = "executing" /\ engine' \in {"swallowing", "stuck"}
        /\ UNCHANGED <<wr, queue, spent, late, old, host>>

-----------------------------------------------------------------------------
(* engine_executing: full_drain_time up to three times *)

Begin == /\ pc = "idle"
         /\ pc' = "rest" /\ n' = 1 /\ raced' = 0 /\ verdict' = "none"
         /\ UNCHANGED <<ring, long, target, hurried>>

\* Sent from rest, or when two seconds are over.
Send == /\ pc = "rest"
        /\ Arrive("delay", 1)
        /\ pc' = "visible" /\ long' = FALSE
        /\ UNCHANGED <<n, target, hurried, raced, verdict>>

\* The block is visible in the ring.
Visible == /\ pc = "visible" /\ ~AtRest
           /\ pc' = "timing"
           /\ UNCHANGED <<ring, n, long, target, hurried, raced, verdict>>

\* Mutant: a fourth measurement.
MeasuredOnceMore(enough) ==
    /\ hurried' = late /\ raced' = raced + (IF late THEN 1 ELSE 0)
    /\ \/ enough /\ pc' = "idle" /\ verdict' = "executing" /\ n' = 0
       \/ ~enough /\ n <= 3 /\ pc' = "rest" /\ n' = n + 1 /\ UNCHANGED verdict
       \/ ~enough /\ n > 3 /\ pc' = "idle" /\ verdict' = "stopped" /\ n' = 0
    /\ UNCHANGED <<ring, long, target>>

\* Mutant: the first measurement decides.
MeasuredFirst(enough) ==
    /\ hurried' = late /\ raced' = raced + (IF late THEN 1 ELSE 0)
    /\ pc' = "idle" /\ verdict' = (IF enough THEN "executing" ELSE "stopped") /\ n' = 0
    /\ UNCHANGED <<ring, long, target>>

\* The largest of the measurements decides.
Measured(enough) ==
    /\ hurried' = late /\ raced' = raced + (IF late THEN 1 ELSE 0)
    /\ \/ enough /\ pc' = "idle" /\ verdict' = "executing" /\ n' = 0
       \/ ~enough /\ n < 3 /\ pc' = "rest" /\ n' = n + 1 /\ UNCHANGED verdict
       \/ ~enough /\ n = 3 /\ pc' = "idle" /\ verdict' = "stopped" /\ n' = 0
    /\ UNCHANGED <<ring, long, target>>

\* Not seen for 50 ms: swallowed faster than that, or the status is late.
Unseen == pc = "visible" /\ AtRest /\ Measured(FALSE)

Drained == pc = "timing" /\ AtRest /\ Measured(long)

\* The limit is over, here or in _wait_room: no verdict against the engine.
TimedOut == /\ pc \in {"rest", "timing"} /\ engine = "stuck"
            /\ hurried' = FALSE
            /\ pc' = "idle" /\ verdict' = "executing" /\ n' = 0
            /\ UNCHANGED <<ring, long, target, raced>>

\* A USB error, at any place: the exception leaves the measurement.
Raised == /\ pc # "idle"
          /\ pc' = "idle" /\ verdict' = "none" /\ n' = 0
          /\ UNCHANGED <<ring, long, target, hurried, raced>>

-----------------------------------------------------------------------------
(* measure_delay_rate, of the tools *)

\* Mutant: the write pointer of before the write.
SendRateEarly == /\ pc = "idle"
                 /\ Arrive("delay", 1)
                 /\ pc' = "rate" /\ long' = FALSE /\ verdict' = "none"
                 /\ target' = wr /\ hurried' = late'
                 /\ UNCHANGED <<n, raced>>

\* wr_target is read once, right after the write.
SendRate == /\ pc = "idle"
            /\ Arrive("delay", 1)
            /\ pc' = "rate" /\ long' = FALSE /\ verdict' = "none"
            /\ target' = (IF late' THEN old' ELSE Live').wr
            /\ hurried' = late'
            /\ UNCHANGED <<n, raced>>

\* All but one block before wr_target consumed
Reached == (target - (Status.wr - Status.used)) % RingBlocks <= 1

RateDrained == /\ pc = "rate" /\ Reached
               /\ pc' = "idle"
               /\ verdict' = IF long THEN "slow" ELSE "fast"
               /\ UNCHANGED <<ring, n, long, target, hurried, raced>>

\* The limit is over: of an engine that is stuck, or of one that had passed a
\* late wr_target before.
RateTimedOut == /\ pc = "rate" /\ ~Reached
                /\ engine = "stuck" \/ (queue = <<>> /\ ~late)
                /\ pc' = "idle" /\ verdict' = "timed_out"
                /\ UNCHANGED <<ring, n, long, target, hurried, raced>>

-----------------------------------------------------------------------------
Device == Pass \/ Consume \/ Refresh \/ Fail

Measure == \/ Begin \/ Send \/ Visible \/ Unseen \/ Drained \/ TimedOut \/ Raised
           \/ SendRate \/ RateDrained \/ RateTimedOut

MeasureSpec == MeasureInit /\ [][Device \/ Measure]_mvars

-----------------------------------------------------------------------------
(* Properties *)

MeasureTypeOK ==
    /\ wr \in 0 .. RingBlocks - 1 /\ target \in 0 .. RingBlocks - 1
    /\ queue \in Seq({"plain", "delay"}) /\ Len(queue) <= MaxQueue
    /\ engine \in {"executing", "swallowing", "stuck"}
    /\ pc \in {"idle", "rest", "visible", "timing", "rate"}
    /\ n \in 0 .. 3 /\ raced \in 0 .. 3
    /\ verdict \in {"none", "executing", "stopped", "slow", "fast", "timed_out"}
    /\ {spent, late, long, hurried} \subseteq BOOLEAN

\* An engine that executes is found stopped only when each of the three
\* measurements was judged by a status that was late for the whole 50 ms: what
\* recover and the watchdog stake a mode bounce on (engine_executing).
StoppedMeansRaced == verdict = "stopped" /\ engine = "executing" => raced = 3

\* measure_delay_rate finds a fast engine where there is none only if the one
\* status it reads wr_target from was late.
FastMeansLate == verdict = "fast" /\ engine = "executing" => hurried
=============================================================================

------------------------------ MODULE Recorder ------------------------------
(* The flight recorder beside the threads it observes. write_regs_now keeps  *)
(* the write pointer it expects after its next block, and records what the   *)
(* device reports as a slip; blocks of init, panic and the checks go past    *)
(* it, and the status it compares with may be late. The watchdog dumps the   *)
(* recorder when the run bit is down.                                        *)
EXTENDS DelayMeasure

VARIABLES
    recording,  \* the MIDI program with its recorder, or a tool without
    held,       \* does write_regs_now hold _IO_LOCK?
    writing,    \* is a block sent and not recorded yet?
    expected,   \* expected_wr, or Unknown
    predicted,  \* the prediction for the block being recorded, or Unknown
    slipped,    \* did the transfer being recorded slip?
    doubt,      \* may wr differ from expected_wr without a slip: was the status
                \* it was taken from late, has a block gone past the recorder,
                \* or the engine started again since?
    forget,     \* will a thread still drop the prediction?
    run,        \* the run bit
    fatal,      \* the block that stops the engine: "none", "sent", "recorded", or
                \* "missed": the recorder has its first bytes or nothing of it
    watch       \* was_running, and the dump: "up", "dying", "down"

recorder == <<held, writing, expected, predicted, slipped, doubt, forget>>
death == <<run, fatal, watch>>
vars == <<mvars, recording, recorder, death>>

Unknown == -1

\* _IO_LOCK is free
Free == ~held /\ pc = "idle"

Init == /\ MeasureInit
        /\ recording \in BOOLEAN
        /\ held = FALSE /\ writing = FALSE
        /\ expected = Unknown /\ predicted = Unknown /\ forget = FALSE
        /\ slipped = FALSE /\ doubt = FALSE
        /\ run = TRUE /\ fatal = "none" /\ watch = "up"

Predict(k) == IF expected = Unknown THEN Unknown ELSE Forward(expected, k)

-----------------------------------------------------------------------------
(* write_regs_now *)

\* What the transfer puts on the wire, one block and perhaps a slip
Sent == \E slip \in 0 .. 1 :
    /\ Arrive("plain", 1 + slip)
    /\ slipped' = (slip = 1)

\* Mutant: the transfer is recorded after the lock is released.
TransferUnlocked ==
    /\ recording /\ Free /\ ~writing
    /\ Sent /\ predicted' = Predict(1)
    /\ writing' = TRUE
    /\ fatal' \in {fatal, "sent"}
    /\ UNCHANGED <<host, recording, held, expected, doubt, forget, run, watch>>

Transfer ==
    /\ recording /\ Free
    /\ Sent /\ predicted' = Predict(1)
    /\ held' = TRUE /\ writing' = TRUE
    /\ fatal' \in {fatal, "sent"}
    /\ UNCHANGED <<host, recording, expected, doubt, forget, run, watch>>

Slip == predicted # Unknown /\ Status.wr # predicted

Written == /\ predicted' = Unknown /\ slipped' = FALSE
           /\ writing' = FALSE /\ held' = FALSE

\* Mutant: the prediction goes on from itself.
RecordOnward ==
    /\ writing /\ Written
    /\ expected' = (IF predicted = Unknown THEN Status.wr ELSE predicted) /\ doubt' = late
    /\ fatal' = IF fatal = "sent" THEN "recorded" ELSE fatal
    /\ UNCHANGED <<mvars, recording, forget, run, watch>>

\* A slip, if any, is reported; expected_wr is set from the status after every
\* write.
RecordWrite ==
    /\ writing /\ Written
    /\ expected' = Status.wr /\ doubt' = late
    /\ fatal' = IF fatal = "sent" THEN "recorded" ELSE fatal
    /\ UNCHANGED <<mvars, recording, forget, run, watch>>

\* The status read between the transfer and its record raises: the block went
\* out and is recorded nowhere.
WriteUnrecorded ==
    /\ writing /\ Written
    /\ doubt' = TRUE
    /\ fatal' = IF fatal = "sent" THEN "missed" ELSE fatal
    /\ UNCHANGED <<mvars, recording, expected, forget, run, watch>>

-----------------------------------------------------------------------------
(* What goes past it, under the lock *)

\* init and the mode blocks, by recover, which drops the prediction later if it
\* comes that far, and by hard_panic, which does not; or a transfer of
\* write_regs_now that raises, of which the first bytes are recorded.
Bypass ==
    /\ recording /\ Free
    /\ Arrive("plain", 1) /\ doubt' = TRUE
    /\ forget' \in {forget, TRUE}
    /\ fatal' \in {fatal, "missed"}
    /\ UNCHANGED <<host, recording, held, writing, expected, predicted, slipped, run,
                   watch>>

\* The mode bounce of a recovery, or of open, starts the engine again, which
\* discards the ring and resets its pointers.
Revive ==
    /\ Free /\ engine # "executing"
    /\ engine' = "executing" /\ queue' = <<>> /\ spent' = FALSE
    /\ wr' = 1 /\ late' = FALSE /\ old' = [wr |-> 1, used |-> 1]
    /\ run' = TRUE /\ fatal' = "none" /\ doubt' = TRUE
    /\ forget' \in {forget, recording} /\ verdict' = "none"
    /\ UNCHANGED <<pc, n, long, target, hurried, raced, recording, held, writing,
                   expected, predicted, slipped, watch>>

\* expected_wr = None, by whoever ran a check or a recovery, with the lock
\* (recover, test_tone) or without it (watchdog_loop)
Forget ==
    /\ forget
    /\ expected' = Unknown /\ forget' = FALSE
    /\ UNCHANGED <<mvars, recording, held, writing, predicted, slipped, doubt, death>>

\* A check begins with the lock. Its blocks are not recorded; it drops the
\* prediction when it returns, and may not when it raises.
Measuring ==
    /\ \/ Begin /\ recording /\ Free /\ UNCHANGED <<doubt, forget, fatal>>
       \/ Send /\ doubt' = TRUE /\ fatal' \in {fatal, "missed"} /\ UNCHANGED forget
       \/ Visible /\ UNCHANGED <<doubt, forget, fatal>>
       \/ (Unseen \/ Drained) /\ forget' = (forget \/ pc' = "idle")
          /\ UNCHANGED <<doubt, fatal>>
       \/ (TimedOut \/ Raised) /\ forget' \in {forget, TRUE}
          /\ UNCHANGED <<doubt, fatal>>
       \/ ~recording /\ (SendRate \/ RateDrained \/ RateTimedOut)
          /\ UNCHANGED <<doubt, forget, fatal>>
    /\ UNCHANGED <<recording, held, writing, expected, predicted, slipped, run, watch>>

-----------------------------------------------------------------------------
(* The run bit and the watchdog *)

Stop == /\ run /\ recording /\ run' = FALSE
        /\ engine' = "stuck"
        /\ UNCHANGED <<wr, queue, spent, late, old, host, recording, recorder,
                       fatal, watch>>

\* A status read with the lock
WatchSees == /\ Free
             /\ \/ watch = "up" /\ ~run /\ watch' = "dying"
                \/ watch = "down" /\ run /\ watch' = "up"
             /\ UNCHANGED <<mvars, recording, recorder, run, fatal>>

Dump == /\ watch = "dying" /\ watch' = "down"
        /\ UNCHANGED <<mvars, recording, recorder, run, fatal>>

DeviceMoves == Device /\ UNCHANGED <<recording, recorder, death>>

Next == \/ Transfer \/ RecordWrite \/ WriteUnrecorded \/ Bypass \/ Revive \/ Forget \/ Measuring
        \/ Stop \/ WatchSees \/ Dump \/ DeviceMoves

Spec == Init /\ [][Next]_vars

-----------------------------------------------------------------------------
(* Properties *)

RecorderTypeOK ==
    /\ {recording, held, writing, slipped, doubt, forget, run} \subseteq BOOLEAN
    /\ {expected, predicted} \subseteq 0 .. RingBlocks - 1 \union {Unknown}
    /\ fatal \in {"none", "sent", "recorded", "missed"}
    /\ watch \in {"up", "dying", "down"}

TypeOK == MeasureTypeOK /\ RecorderTypeOK

\* What is reported as a slip is one, and every slip is reported, as far as the
\* recorder can know: of a block that is predicted, with a status in time, unless
\* the status of the write before was late, something has gone past the recorder
\* since then, or the engine was started again. Such a thing spoils one report
\* and no other, whatever came before it (write_regs_now, expected_wr).
SlipsAreTrue == writing /\ predicted # Unknown /\ ~doubt /\ ~late => (Slip <=> slipped)

\* When the watchdog sees the run bit down, a transfer of write_regs_now that
\* stopped the engine has been recorded, unless the transfer or the status read
\* after it raised: it is in the dump (Forensics, watchdog_loop).
CulpritRecorded == [][watch # "dying" /\ watch' = "dying" => fatal # "sent"]_vars
=============================================================================

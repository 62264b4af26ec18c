----------------------------- MODULE EngineMode -----------------------------
(* The engine of the device and the driver's attempts to start it, to find   *)
(* out whether it works, and to bring it back.                               *)
(*                                                                           *)
(* The device reports a mode and whether it has acknowledged it. It plays    *)
(* only in mode 1, acknowledged; even then it may have stopped executing the *)
(* stream it swallows, or consuming it at all, and reports itself running.   *)
(* One thread runs a call at a time (_IO_LOCK); the device goes its own way. *)
EXTENDS Integers

CONSTANTS
    ModeAttempts,   \* bounces of recover_mode (4)
    StartAttempts,  \* start blocks of start_engine (6)
    MaxUnlucky      \* measurements in a row that the status race may spoil

ASSUME EngineAssumption ==
    ModeAttempts \in Nat \ {0} /\ StartAttempts \in Nat \ {0} /\ MaxUnlucky \in Nat

VARIABLES
    mode, ack,  \* status[0x1E]: low nibble and bit 7
    willing,    \* will the device acknowledge the mode it was asked for?
    engine,     \* what it does with the stream in mode 1, acknowledged
    handle,     \* the driver's handle of the device, "open" or "closed"
    pc,         \* where the call is
    caller,     \* what runs: open, recover, hard_panic or a mere check
    n,          \* the attempt, or the measurement
    checking,   \* is engine_executing called to "diagnose", "verify" or "watch"?
    told        \* what the last call returned; "unmeasured" is the True or ok
                \* of one whose measurement raised

device == <<mode, ack, willing, engine>>
vars == <<mode, ack, willing, engine, handle, pc, caller, n, checking, told>>

IDLE == 0
SIDPLAY == 1

Playing == mode = SIDPLAY /\ ack
Executing == Playing /\ engine = "executing"

\* "If the engine is not running the ring never empties" (drain).
Draining == Playing /\ engine # "stuck"

-----------------------------------------------------------------------------
(* The device *)

\* A mode other than its own it may acknowledge or not. Its own: nothing
\* happens, but to a device that had acknowledged it, which is stopped.
Asked(m) ==
    /\ mode' = m /\ ack' = FALSE
    /\ willing' \in IF m # mode THEN BOOLEAN ELSE {willing /\ ~ack}
    /\ UNCHANGED engine

\* Starting over discards what was in the ring. It may not help.
Acknowledge ==
    /\ willing /\ ~ack
    /\ ack' = TRUE
    /\ engine' \in IF mode = SIDPLAY THEN {"executing", engine} ELSE {engine}
    /\ UNCHANGED <<mode, willing, handle, pc, caller, n, checking, told>>

\* The failure that does not show in the mode.
Fail == /\ Executing
        /\ engine' \in {"swallowing", "stuck"}
        /\ UNCHANGED <<mode, ack, willing, handle, pc, caller, n, checking, told>>

\* Something in the stream is read as the toggle, a request for the device's own
\* mode: the run bit clears, and stays so.
Stray == /\ ack /\ Asked(mode)
         /\ UNCHANGED <<handle, pc, caller, n, checking, told>>

\* The front-panel switch, and the program started again.
PowerCycle == /\ pc \in {"idle", "ended"}
              /\ mode' = IDLE /\ ack' = FALSE /\ willing' = FALSE
              /\ engine' = "executing" /\ handle' = "open"
              /\ pc' = "start" /\ caller' = "open" /\ n' = 0
              /\ told' = "nothing" /\ UNCHANGED checking

\* Ctrl+C, or the end of the main thread, in the middle of anybody's call: the
\* device is closed without a look at what it was asked for.
Quit == /\ pc # "ended"
        /\ pc' = "ended" /\ n' = 0 /\ caller' = "nobody"
        /\ UNCHANGED <<device, checking, handle, told>>

\* The program started again, and the device as the last run left it, or reset
\* by setConfiguration.
Rerun == /\ pc = "ended"
         /\ handle' = "open"
         /\ pc' = "start" /\ caller' = "open" /\ n' = 0
         /\ told' = "nothing" /\ UNCHANGED checking
         /\ \/ UNCHANGED device
            \/ mode' = IDLE /\ ack' = FALSE /\ willing' = FALSE /\ UNCHANGED engine

-----------------------------------------------------------------------------
Goto(l, k) == pc' = l /\ n' = k /\ UNCHANGED <<caller, checking, handle, told>>

Return(r) == /\ pc' = "idle" /\ n' = 0 /\ caller' = "nobody" /\ told' = r
             /\ UNCHANGED <<checking, handle>>

Init == /\ mode \in {IDLE, SIDPLAY} /\ ack = (mode = SIDPLAY) /\ willing = ack
        /\ engine \in {"executing", "swallowing", "stuck"} /\ handle = "open"
        /\ pc = "start" /\ caller = "open" /\ n = 0
        /\ checking = "diagnose" /\ told = "nothing"

-----------------------------------------------------------------------------
(* recover and hard_panic *)

\* R, a bus fault, the watchdog; with the key A there is no diagnosis.
Recover == /\ pc = "idle"
           /\ \/ pc' = "measure" /\ n' = 1
              \/ pc' = "init" /\ n' = 0
           /\ caller' = "recover"
           /\ checking' = "diagnose" /\ told' = "nothing"
           /\ UNCHANGED <<device, handle>>

\* SPACE and CC102: the sweep, refused for want of room or sent; then a look
\* at bit 7. Without a handle it raises.
HardPanic == /\ pc = "idle" /\ handle = "open"
             /\ told' = "nothing" /\ checking' = "diagnose"
             /\ \/ ack /\ pc' = "init" /\ n' = 0 /\ caller' = "panic"
                \/ ~Draining /\ pc' = "measure" /\ n' = 1 /\ caller' = "recover"
             /\ UNCHANGED <<device, handle>>

\* engine_executing for its own sake: the watchdog, the test tone.
Check == /\ pc = "idle"
         /\ pc' = "measure" /\ n' = 1 /\ caller' = "check"
         /\ checking' = "watch" /\ told' = "nothing"
         /\ UNCHANGED <<device, handle>>

\* The measurement was long enough, or ran out of time: in both cases the
\* engine is taken to execute.
TakenToExecute == \/ checking = "diagnose" /\ Goto("init", 0)
                  \/ checking = "verify" /\ Return("recovered")
                  \/ checking = "watch" /\ Return("executing")

TakenToBeStopped == \/ checking = "diagnose" /\ Goto("bounce", 1)
                    \/ checking = "verify" /\ Return("failed")
                    \/ checking = "watch" /\ Return("stopped")

\* full_drain_time on an engine that executes is spoilt when the status read
\* after the write is the one before it.
MeasureGood == /\ pc = "measure" /\ handle = "open" /\ Executing
               /\ TakenToExecute
               /\ UNCHANGED device

MeasureTimeout == /\ pc = "measure" /\ handle = "open" /\ ~Draining
                  /\ TakenToExecute
                  /\ UNCHANGED device

\* Any USB error in it, at any time, and always on a closed handle: whoever
\* asked catches it and goes on as if the engine executed.
MeasureRaises == /\ pc = "measure"
                 /\ IF checking = "diagnose" THEN Goto("init", 0) ELSE Return("unmeasured")
                 /\ UNCHANGED device

TooShort == \/ Executing /\ n <= MaxUnlucky
            \/ Draining /\ engine = "swallowing"

MeasureAgain == /\ pc = "measure" /\ handle = "open" /\ TooShort /\ n < 3
                /\ Goto("measure", n + 1)
                /\ UNCHANGED device

\* Mutant: one measurement decides.
MeasureOnce == /\ pc = "measure" /\ handle = "open" /\ TooShort
               /\ TakenToBeStopped
               /\ UNCHANGED device

MeasureShort == /\ pc = "measure" /\ handle = "open" /\ TooShort /\ n = 3
                /\ TakenToBeStopped
                /\ UNCHANGED device

\* Mutant: recovered once the writes are sent.
RearmTrusted == /\ pc = "init" /\ handle = "open"
                /\ IF caller = "panic" THEN Return("panicked") ELSE Return("recovered")
                /\ UNCHANGED device

\* init: the blocks fit, or the wait for room runs out; then the globals,
\* whose failure is only printed.
Rearm == /\ pc = "init" /\ handle = "open"
         /\ IF caller = "panic" THEN Return("panicked")
            ELSE /\ pc' = "measure" /\ n' = 1 /\ checking' = "verify"
                 /\ UNCHANGED <<caller, handle, told>>
         /\ UNCHANGED device

\* No room, a USB error, no handle. hard_panic does not catch it: on the main
\* thread the program ends.
RearmFails == /\ pc = "init"
              /\ \/ Return("failed")
                 \/ caller = "panic" /\ Goto("ended", 0)
              /\ UNCHANGED device

-----------------------------------------------------------------------------
(* reset_engine: recover_mode with force, else USB *)

\* What follows reset_engine in recover, whatever reset_engine returned
AfterReset == Goto("init", 1)

\* From the second attempt on, a mode acknowledged in the meantime will do.
BounceChecked == /\ pc = "bounce" /\ n > 1 /\ Playing
                 /\ AfterReset
                 /\ UNCHANGED device

\* set_system_mode(IDLE), whose result does not matter; then SIDPLAY
AskIdle == /\ pc = "bounce" /\ (n > 1 => ~Playing)
           /\ Asked(IDLE)
           /\ Goto("ask", n)

AskPlay == /\ pc = "ask"
           /\ Asked(SIDPLAY)
           /\ Goto("await", n)

\* _wait_room before either of them runs out of time, or USB fails: the
\* exception leaves reset_engine, and recover.
AskFails == /\ pc \in {"bounce", "ask", "await"}
            /\ Return("failed")
            /\ UNCHANGED device

Acknowledged == /\ pc = "await" /\ Playing
                /\ AfterReset
                /\ UNCHANGED device

\* Mutant: one attempt too many.
BounceOnceMore == /\ pc = "await" /\ ~Playing
                  /\ IF n <= ModeAttempts THEN Goto("bounce", n + 1) ELSE Goto("usb", 0)
                  /\ UNCHANGED device

\* Mutant: no end to the attempts.
BounceForever == /\ pc = "await" /\ ~Playing
                 /\ Goto("bounce", 2)
                 /\ UNCHANGED device

\* Mutant: the sockets are armed whether the mode came or not.
BounceGivenUp == /\ pc = "await" /\ ~Playing
                 /\ IF n < ModeAttempts THEN Goto("bounce", n + 1) ELSE AfterReset
                 /\ UNCHANGED device

NotAcknowledged == /\ pc = "await" /\ ~Playing
                   /\ IF n < ModeAttempts THEN Goto("bounce", n + 1) ELSE Goto("usb", 0)
                   /\ UNCHANGED device

\* resetDevice, close, open. A device that runs is left as it is, one that
\* does not comes back cold, or not at all.
UsbReset == /\ pc = "usb"
            /\ \/ /\ Goto("start", 0)
                  /\ IF ack THEN UNCHANGED device
                     ELSE mode' = IDLE /\ ack' = FALSE /\ willing' = FALSE
                          /\ UNCHANGED engine
               \/ /\ pc' = "idle" /\ n' = 0 /\ caller' = "nobody" /\ told' = "failed"
                  /\ handle' = "closed"
                  /\ UNCHANGED <<device, checking>>

-----------------------------------------------------------------------------
(* start_engine, from open and from reset_engine *)

Started == IF caller = "open" THEN Return("started") ELSE AfterReset

\* Mutant: a block sent is an engine started.
StartAssumed == /\ pc \in {"start", "poll"}
                /\ Started
                /\ UNCHANGED device

\* Bit 7 is set, before the first block or after one.
StartSeen == /\ pc \in {"start", "poll"} /\ ack
             /\ Started
             /\ UNCHANGED device

StartUnseen == /\ pc = "start" /\ ~ack
               /\ Goto("send", 1)
               /\ UNCHANGED device

SendStart == /\ pc = "send"
             /\ Asked(SIDPLAY)
             /\ Goto("poll", n)

\* The last poll of an attempt: another block, or an exception, which ends
\* the program when open raises it.
StartTimeout ==
    /\ pc = "poll" /\ ~ack
    /\ IF n < StartAttempts THEN Goto("send", n + 1)
       ELSE IF caller = "recover" THEN Return("failed")
       ELSE Goto("ended", 0)
    /\ UNCHANGED device

\* So does a USB error.
StartFails == /\ pc \in {"start", "send", "poll"}
              /\ IF caller = "recover" THEN Return("failed") ELSE Goto("ended", 0)
              /\ UNCHANGED device

-----------------------------------------------------------------------------
Driver == \/ MeasureGood \/ MeasureTimeout \/ MeasureAgain \/ MeasureShort
          \/ MeasureRaises
          \/ Rearm \/ RearmFails
          \/ BounceChecked \/ AskIdle \/ AskPlay \/ AskFails
          \/ Acknowledged \/ NotAcknowledged \/ UsbReset
          \/ StartSeen \/ StartUnseen \/ SendStart \/ StartTimeout
          \/ StartFails

Next == \/ Driver \/ Acknowledge \/ Fail \/ Stray
        \/ PowerCycle \/ Quit \/ Rerun
        \/ Recover \/ HardPanic \/ Check

Spec == Init /\ [][Next]_vars

\* Every loop of the driver is bounded by a count or by the wall clock.
FairSpec == Spec /\ WF_vars(Driver)

-----------------------------------------------------------------------------
(* Properties *)

DeviceOK == /\ mode \in {IDLE, SIDPLAY}
            /\ ack \in BOOLEAN /\ willing \in BOOLEAN
            /\ engine \in {"executing", "swallowing", "stuck"}

CallOK == /\ handle \in {"open", "closed"}
          /\ pc \in {"idle", "ended", "start", "send", "poll", "measure", "init",
                     "bounce", "ask", "await", "usb"}
          /\ caller \in {"nobody", "open", "recover", "panic", "check"}
          /\ checking \in {"diagnose", "verify", "watch"}
          /\ told \in {"nothing", "started", "panicked", "recovered", "failed",
                       "executing", "stopped", "unmeasured"}

CountOK == /\ n \in Nat
           /\ pc = "measure" => n \in 1 .. 3
           /\ pc \in {"bounce", "ask", "await"} => n \in 1 .. ModeAttempts
           /\ pc \in {"send", "poll"} => n \in 1 .. StartAttempts

TypeOK == DeviceOK /\ CallOK /\ CountOK

FirstBounce == pc = "bounce" /\ n = 1

\* A healthy device is never bounced: recover diagnoses first, and a bounce
\* begins only at an engine that has stopped executing (recover,
\* engine_executing: the largest of three measurements).
HealthyUntouched == FirstBounce => ~Executing

Arming == pc # "init" /\ pc' = "init" /\ n' = 1

\* The bounces, or the USB reset and the start, bring the device to mode 1,
\* acknowledged, at the moment recover goes on to arm the sockets; what the
\* device does then is its own affair (reset_engine).
ArmedInMode == [][Arming => Playing']_vars

Reports == told # "recovered" /\ told' = "recovered"

SwallowingCaught == Reports => ~(handle = "open" /\ Draining /\ engine = "swallowing")

\* A recovery that comes to the end of its verifying measurement never says of
\* an engine which swallows its stream without executing it that it recovered.
\* One whose measurement raises returns True all the same (recover).
VerifiedNotSwallowing == [][SwallowingCaught]_vars

\* Every recovery, panic and start comes to an end, whatever the device does.
CallsEnd == pc \notin {"idle", "ended"} ~> pc \in {"idle", "ended"}

Plays == IF Playing THEN engine ELSE "not"

Called == IF pc = "idle" THEN "none" ELSE IF pc = "ended" THEN "ended" ELSE caller

Service == INSTANCE EngineService WITH
    bit <- ack, plays <- Plays, reach <- handle = "open", call <- Called

\* What the driver does in a call, step by step, is what its callers rely on:
\* only open and recover ask for a mode, a check that does not raise finds an
\* engine that swallows its stream and no other, a recovery is reported of no
\* such engine but by a measurement that raised, and a start only with the run
\* bit set (recover, hard_panic, engine_executing).
ImplementsService == Service!ServiceSpec
=============================================================================

------------------------------ MODULE Watchdog ------------------------------
(* The threads that watch the device while the MIDI program runs: the        *)
(* watchdog, which reads the run bit and the ring twenty times a second and  *)
(* measures the engine when nothing sounds, and the health monitor. They and *)
(* the threads that play make the calls of EngineService, one at a time;     *)
(* between its calls each goes on with what it read before.                  *)
EXTENDS EngineService

VARIABLES
    voices,       \* all "free", some "sounding", or none but some "releasing"
    backlog,      \* are there more than two blocks in the ring?
    watch,        \* where the watchdog is
    seen,         \* the status it works with: run bit and backlog
    was_running,  \* the run bit it last reported
    due,          \* has exec_interval passed since the last check?
    stalled,      \* stalled_since: "no", "lately", "long" ago (two seconds)
    probed,       \* is _last_probe less than twelve seconds ago?
    found         \* has the health monitor found delays not honored?

loop == <<watch, seen, was_running, due, stalled>>
vars == <<svars, voices, backlog, loop, probed, found>>

Status == [running : BOOLEAN, backlog : BOOLEAN]

\* What seen is while no status is in use.
Unread == [running |-> TRUE, backlog |-> FALSE]

Init == /\ ServiceInit
        /\ voices = "free" /\ backlog = FALSE
        /\ watch = "wait" /\ seen = Unread
        /\ was_running = TRUE /\ due = FALSE /\ stalled = "no"
        /\ probed = FALSE /\ found = FALSE

-----------------------------------------------------------------------------
(* watchdog_loop *)

\* Mutant: the pointers are not looked at when the run bit is down.
PollHalf == /\ watch = "wait" /\ call = "none" /\ reach
            /\ seen' = IF bit THEN [running |-> TRUE, backlog |-> backlog]
                       ELSE [running |-> FALSE]
            /\ watch' = "judge"
            /\ UNCHANGED <<svars, voices, backlog, was_running, due, stalled, probed, found>>

Poll == /\ watch = "wait" /\ call = "none" /\ reach
        /\ seen' = [running |-> bit, backlog |-> backlog]
        /\ watch' = "judge"
        /\ UNCHANGED <<svars, voices, backlog, was_running, due, stalled, probed, found>>

Stalling == seen.running /\ seen.backlog /\ ~probed

\* Mutant: an engine that is set running again is not noticed.
LookDown == /\ was_running' = (was_running /\ seen.running)
            /\ stalled' = IF ~Stalling \/ stalled = "long" THEN "no"
                          ELSE IF stalled = "no" THEN "lately" ELSE stalled
            /\ watch' = IF Stalling /\ stalled = "long" THEN "stall" ELSE "wait"
            /\ seen' = Unread
            /\ UNCHANGED <<svars, voices, backlog, due, probed, found>>

\* Mutant: the time is taken anew at every other look.
LookAnew == /\ was_running' = seen.running
            /\ stalled' = IF Stalling /\ stalled = "no" THEN "lately" ELSE "no"
            /\ watch' = IF Stalling /\ stalled = "long" THEN "stall" ELSE "wait"
            /\ seen' = Unread
            /\ UNCHANGED <<svars, voices, backlog, due, probed, found>>

\* The end of the loop: the run bit has changed; the ring has not drained for
\* two seconds.
Look == /\ was_running' = seen.running
        /\ stalled' = IF ~Stalling \/ stalled = "long" THEN "no"
                      ELSE IF stalled = "no" THEN "lately" ELSE stalled
        /\ watch' = IF Stalling /\ stalled = "long" THEN "stall" ELSE "wait"
        /\ seen' = Unread
        /\ UNCHANGED <<svars, voices, backlog, due, probed, found>>

\* Mutant: nor soon after a probe.
MayCheckUnprobed == due /\ voices = "free" /\ ~probed

\* "Run one whenever nothing is sounding": every voice is free.
MayCheck == due /\ voices = "free"

Judge == /\ watch = "judge"
         /\ \/ /\ MayCheck
               /\ watch' = "ask" /\ due' = FALSE
               /\ UNCHANGED <<svars, voices, backlog, seen, was_running, stalled,
                              probed, found>>
            \/ ~MayCheck /\ Look

StartCheck == /\ watch = "ask" /\ Begin("check")
              /\ watch' = "checking"
              /\ UNCHANGED <<voices, backlog, seen, was_running, due, stalled, probed, found>>

\* ENGINE STOPPED EXECUTING: with --auto-recover, recovery.
StartRecovery == /\ watch = "stopped" /\ Begin("recover")
                 /\ watch' = "recovering"
                 /\ UNCHANGED <<voices, backlog, seen, was_running, due, stalled, probed,
                                found>>

\* Without it, or afterwards, on with the status read before.
Finish == watch \in {"checked", "stopped"} /\ Look

StallReported == /\ watch = "stall"
                 /\ watch' = "wait"
                 /\ UNCHANGED <<svars, voices, backlog, seen, was_running, due, stalled,
                                probed, found>>

-----------------------------------------------------------------------------
(* health_monitor_loop *)

\* delta_probe finds delays not honored only if the block it sends is consumed
\* within two seconds, and rd comes to its very end. It can do so of any engine
\* that consumes: the end may be read too early.
Probe == /\ ~found /\ call = "none" /\ reach
         /\ bit /\ plays \in {"executing", "swallowing"}
         /\ found' = TRUE
         /\ UNCHANGED <<svars, voices, backlog, loop, probed>>

MonitorRecovers == /\ found /\ Begin("recover")
                   /\ found' = FALSE
                   /\ UNCHANGED <<voices, backlog, loop, probed>>

-----------------------------------------------------------------------------
(* The calls of the other threads; the end of any call *)

Called(c) == /\ Begin(c)
             /\ UNCHANGED <<voices, backlog, loop, probed, found>>

\* The caller goes on. A check that is not the watchdog's is the test tone's,
\* which says so if it comes to its end; the watchdog's own and the monitor's
\* do not. One that raises is taken for good.
Returns(r) ==
    /\ Answer(r)
    /\ watch' = IF watch = "checking" /\ r = "stopped" THEN "stopped"
                ELSE IF watch \in {"checking", "recovering"} THEN "checked" ELSE watch
    /\ probed' = (probed \/ (call = "check" /\ watch # "checking" /\ r # "unmeasured"))
    /\ UNCHANGED <<voices, backlog, seen, was_running, due, stalled, found>>

Device == /\ Break \/ Lapse \/ Wake \/ AskMode \/ Die \/ Exit
          /\ UNCHANGED <<voices, backlog, loop, probed, found>>

Restart == /\ PowerUp \/ Rerun
           /\ voices' = "free" /\ backlog' = FALSE
           /\ watch' = "wait" /\ seen' = Unread
           /\ was_running' = TRUE /\ due' = FALSE /\ stalled' = "no"
           /\ probed' = FALSE /\ found' = FALSE

-----------------------------------------------------------------------------
(* The performance, and time *)

\* A key is struck, the last key is lifted, a panic, a recovery or a SID reset
\* frees the voices. A note-off leaves its voice releasing.
Play == /\ \/ voices' = "sounding"
           \/ voices = "sounding" /\ voices' = "releasing"
           \/ voices' = "free"
        /\ UNCHANGED <<svars, backlog, loop, probed, found>>

Backlog == /\ \/ backlog' = TRUE
              \/ plays \in {"executing", "swallowing"} /\ backlog' = FALSE
           /\ UNCHANGED <<svars, voices, loop, probed, found>>

CheckDue == /\ due' = TRUE
            /\ UNCHANGED <<svars, voices, backlog, watch, seen, was_running, stalled,
                           probed, found>>

TwoSeconds == /\ stalled = "lately" /\ stalled' = "long"
              /\ UNCHANGED <<svars, voices, backlog, watch, seen, was_running, due, probed,
                             found>>

TwelveSeconds == /\ probed /\ probed' = FALSE
                 /\ UNCHANGED <<svars, voices, backlog, loop, found>>

-----------------------------------------------------------------------------
Calls == {"recover", "panic", "check"}

Results == {"started", "panicked", "recovered", "failed", "executing", "stopped",
            "unmeasured"}

Watching == Judge \/ Finish \/ StallReported

Next == \/ Poll \/ Watching \/ StartCheck \/ StartRecovery
        \/ Probe \/ MonitorRecovers
        \/ \E c \in Calls : Called(c)
        \/ \E r \in Results : Returns(r)
        \/ Device \/ Restart \/ Play \/ Backlog
        \/ CheckDue \/ TwoSeconds \/ TwelveSeconds

Spec == Init /\ [][Next]_vars

\* The watchdog goes on, and gets a lock that is released between calls: the
\* others press keys or sleep in between. Calls end (EngineMode). Time passes.
FairSpec == /\ Spec
            /\ WF_vars(Watching) /\ SF_vars(Poll) /\ SF_vars(StartCheck)
            /\ WF_vars((\E r \in Results : Returns(r)) \/ (Device /\ Die))
            /\ WF_vars(CheckDue) /\ WF_vars(TwoSeconds)

-----------------------------------------------------------------------------
(* Properties *)

TypeOK == /\ voices \in {"free", "sounding", "releasing"}
          /\ watch \in {"wait", "judge", "ask", "checking", "checked", "stopped",
                        "recovering", "stall"}
          /\ seen \in Status
          /\ stalled \in {"no", "lately", "long"}
          /\ {backlog, was_running, due, probed, found} \subseteq BOOLEAN

Alive == reach /\ call # "ended"

\* The run bit is followed both ways: the watchdog ends up with the value that
\* lasts, although between reading it and comparing it there may be a check
\* and a whole recovery, its own or another thread's (watchdog_loop).
RunBitFollowed == /\ <>[](Alive /\ ~bit) => <>[]~was_running
                  /\ <>[](Alive /\ bit) => <>[]was_running

\* Measurements no longer raise.
Measured == told # "unmeasured"

\* An engine that goes on swallowing its stream is reported again and again as
\* long as every voice is free and the measurements do not raise, whatever the
\* other threads do (watchdog_loop).
StopReported == <>[](Alive /\ Deaf /\ Measured /\ voices = "free") => []<>(watch = "stopped")

\* A ring that does not drain is reported (watchdog_loop).
StallReports == <>[](Alive /\ bit /\ backlog /\ ~probed) => []<>(watch = "stall")

\* "Only runs when no note is sounding": an engine that goes on swallowing is
\* reported when no key is held (--exec-interval).
SeenWhenQuiet ==
    <>[](Alive /\ Deaf /\ Measured /\ voices # "sounding") => []<>(watch = "stopped")
=============================================================================

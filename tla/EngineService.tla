--------------------------- MODULE EngineService ---------------------------
(* What a thread that calls open, recover, hard_panic or engine_executing    *)
(* may rely on, whatever those do to the device: one call at a time, what    *)
(* each may do to the engine, and what its answer is worth.                  *)
EXTENDS Integers

VARIABLES
    bit,    \* the run bit
    plays,  \* what the device does with its stream in mode 1: "executing",
            \* "swallowing", "stuck"; or "not" in mode 1
    reach,  \* can the device be reached?
    call,   \* the call under way, "none", or "ended" with the program
    told    \* what the last call returned

svars == <<bit, plays, reach, call, told>>

ServiceInit == /\ plays \in {"executing", "swallowing", "stuck", "not"}
               /\ bit = (plays # "not") /\ reach = TRUE
               /\ call = "open" /\ told = "nothing"

\* Swallowing the stream, behind a device that can be reached.
Deaf == reach /\ plays = "swallowing"

Begin(c) == /\ call = "none" /\ c \in {"recover", "panic", "check"}
            /\ c = "panic" => reach
            /\ call' = c /\ told' = "nothing"
            /\ UNCHANGED <<bit, plays, reach>>

\* The engine fails by itself, and does not show it.
Break == /\ plays = "executing" /\ plays' \in {"swallowing", "stuck"}
         /\ UNCHANGED <<bit, reach, call, told>>

\* The run bit clears by itself.
Lapse == /\ bit /\ bit' = FALSE /\ plays' = "not"
         /\ UNCHANGED <<reach, call, told>>

\* A mode asked for is acknowledged, in the end.
Wake == /\ ~bit /\ bit' = TRUE
        /\ plays' \in {"executing", "swallowing", "stuck", "not"}
        /\ UNCHANGED <<reach, call, told>>

\* Only open and recover ask for a mode.
AskMode == /\ call \in {"open", "recover"}
           /\ bit' = FALSE /\ plays' = "not"
           /\ UNCHANGED <<reach, call, told>>

\* What each call may answer: a check, and the verification of a recovery,
\* never miss an engine that swallows, nor is one that does not said to; but
\* either may have raised, which its caller takes for a good answer.
Answers == [open    |-> IF bit THEN {"started"} ELSE {},
            panic   |-> {"panicked", "failed"},
            recover |-> {"failed", "unmeasured"} \union (IF Deaf THEN {} ELSE {"recovered"}),
            check   |-> {"unmeasured", IF Deaf THEN "stopped" ELSE "executing"}]

\* A recovery that fails may have lost the device (reset_engine).
Answer(r) == /\ call \in DOMAIN Answers /\ r \in Answers[call]
             /\ reach' \in IF call = "recover" /\ r = "failed" THEN {reach, FALSE} ELSE {reach}
             /\ call' = "none" /\ told' = r
             /\ UNCHANGED <<bit, plays>>

\* An exception in open, or in hard_panic on the main thread
Die == /\ call \in {"panic", "open"}
       /\ call' = "ended"
       /\ UNCHANGED <<bit, plays, reach, told>>

PowerUp == /\ call \in {"none", "ended"}
           /\ bit' = FALSE /\ plays' = "not" /\ reach' = TRUE
           /\ call' = "open" /\ told' = "nothing"

\* The program ended, in or out of a call.
Exit == /\ call # "ended" /\ call' = "ended"
        /\ UNCHANGED <<bit, plays, reach, told>>

\* Started again, it finds the device as it was left, or reset.
Rerun == /\ call = "ended"
         /\ \/ UNCHANGED <<bit, plays>>
            \/ bit' = FALSE /\ plays' = "not"
         /\ reach' = TRUE /\ call' = "open" /\ told' = "nothing"

ServiceNext == \/ \E c \in {"recover", "panic", "check"} : Begin(c)
               \/ \E r \in {"started", "panicked", "recovered", "failed", "executing",
                            "stopped", "unmeasured"} : Answer(r)
               \/ Break \/ Lapse \/ Wake \/ AskMode \/ Die \/ PowerUp \/ Exit \/ Rerun

ServiceSpec == ServiceInit /\ [][ServiceNext]_svars
=============================================================================

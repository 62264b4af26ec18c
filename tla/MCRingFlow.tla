---------------------------- MODULE MCRingFlow ----------------------------
(* RingFlow with the driver's own numbers.                                  *)
EXTENDS RingFlow, TLC

\* The calls of live play: notes, bends and controllers.
RealtimeCalls == {WriteRegsNow}

\* Adds panic and recovery, which re-arm through the buffered path. Two
\* blocks of init stand for the many it sends: what matters is that several
\* follow each other and that buffered and real-time writes alternate.
AllCalls == {WriteRegsNow, HardPanic(2), Recover(2)}
============================================================================

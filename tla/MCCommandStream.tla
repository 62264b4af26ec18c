-------------------------- MODULE MCCommandStream --------------------------
(* CommandStream for TLC: blocks of eight words, the first rows of the        *)
(* arming stream and the row that writes to socket 0, with an odd number of   *)
(* words as the whole stream has. The whole stream is evaluated below.        *)
EXTENDS CommandStream

MCRows == <<ArmRows[1], <<40000, -1, 0>>>>

MCChips == <<1>>

MCSweep == <<0, 24>>

\* Shaped as the captured start: escapes in pairs, a mode, a swallowed write.
MCCaptures == {<<FILLER, FILLER, FILLER, word(0, 0), word(34, 255),
                 FILLER, word(34, 255), word(238, 8)>>}

\* No captured stream here writes to a chip that is not in use.
ASSUME NoneElsewhere == CapturesKeep

\* The clean pass of the capture is 855 words, the last three a write after a
\* delay; four sockets make up the rest. Every row waits for its write.
ASSUME ArmedAsCaptured ==
    LET socket == chip_init_stream(ArmRows, 2)
    IN  /\ 4 * Len(socket) + 3 = 855 /\ FILLER \notin Range(socket)
        /\ \A i \in DOMAIN ArmRows : ~Read(FALSE, 0, SpelledRow(ArmRows[i], 2)).early
===========================================================================

---------------------------- MODULE CommandQueue ----------------------------
(* What the calls that compose and send promise their callers, without words, *)
(* blocks, padding or delays: commands (register writes, and mode changes as  *)
(* <<m>>) that wait for a flush, and commands that are on their way.          *)
EXTENDS Naturals, Sequences

CONSTANTS
    Waiting,   \* what calls ask for that waits for the next flush
    Closing,   \* what calls add that flush at once (nothing, a sweep, arming)
    Alone,     \* what is sent as the first thing only
    Urgent     \* what calls send past everything that waits

VARIABLES
    pending,  \* commands that wait, in the order they were asked for
    sent,     \* commands on their way
    mode      \* the mode last executed

queue == <<pending, sent, mode>>

QueueInit == pending = <<>> /\ sent = <<>> /\ mode = 1

Ask(x) == pending' = pending \o x /\ UNCHANGED <<sent, mode>>

\* All of it goes, or the first commands and the others are lost for good.
Flush(x) == /\ \E k \in 0 .. Len(x) : sent' = sent \o SubSeq(x, 1, k)
            /\ pending' = <<>> /\ UNCHANGED mode

Overtake(x) == sent' = sent \o x /\ UNCHANGED <<pending, mode>>

\* The mode changes among the first k commands on their way
Changes(k) == {i \in 1 .. k : Len(sent[i]) = 1}

\* Executed in order. Behind a mode change the rest may be dropped.
Perform(k) ==
    /\ \/ Changes(k) = {} /\ UNCHANGED mode
       \/ \E i \in Changes(k) : /\ \A j \in Changes(k) : j <= i
                                /\ mode' = sent[i][1]
    /\ \/ sent' = SubSeq(sent, k + 1, Len(sent))
       \/ Changes(k) # {} /\ sent' = <<>>
    /\ UNCHANGED pending

QueueNext == \/ \E x \in Waiting : Ask(x)
             \/ \E x \in Closing : Flush(pending \o x)
             \/ \E x \in Alone : pending = <<>> /\ Flush(x)
             \/ \E x \in Urgent : Overtake(x)
             \/ \E k \in 1 .. Len(sent) : Perform(k)

QueueSpec == QueueInit /\ [][QueueNext]_queue
=============================================================================

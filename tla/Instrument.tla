----------------------------- MODULE Instrument -----------------------------
(* What a chip with a few voices promises the player, without voices, blocks *)
(* or registers: a bounded set of sounding notes, which gives up the note    *)
(* struck first when one more is struck than it has voices for.              *)
EXTENDS FiniteSets, Naturals

CONSTANTS
    Notes,     \* MIDI notes
    Polyphony  \* notes that can sound at once

VARIABLES
    sounding,  \* the notes that sound
    before,    \* pairs of them, the first struck before the second
    reliable   \* has every write since the last recovery gone out?

vars == <<sounding, before, reliable>>

Init == sounding = {} /\ before = {} /\ reliable = TRUE

Among(S) == {p \in before : p[1] \in S /\ p[2] \in S}

\* The note nothing sounding was struck before.
Longest == {m \in sounding : \A k \in sounding : <<k, m>> \notin before}

Kept(n) == IF n \notin sounding /\ Cardinality(sounding) = Polyphony
           THEN sounding \ Longest
           ELSE sounding \ {n}

Strike(n) == /\ reliable
             /\ sounding' = Kept(n) \union {n}
             /\ before' = Among(Kept(n)) \union (Kept(n) \X {n})
             /\ UNCHANGED reliable

Lift(n) == /\ n \in sounding
           /\ sounding' = sounding \ {n}
           /\ before' = Among(sounding \ {n})
           /\ UNCHANGED reliable

Silent == sounding' = {} /\ before' = {}

Silence == Silent /\ UNCHANGED reliable

\* A write was lost: nothing is promised until Mend.
Break == Silent /\ reliable' = FALSE

Mend == Silent /\ reliable' = TRUE

Next == \/ \E n \in Notes : Strike(n) \/ Lift(n)
        \/ Silence \/ Break \/ Mend

Spec == Init /\ [][Next]_vars
=============================================================================

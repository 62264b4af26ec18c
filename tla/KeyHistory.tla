----------------------------- MODULE KeyHistory -----------------------------
(* ChipChannel with the player's keys remembered: which are down, and which  *)
(* other notes were struck since each was last struck. It states what voice  *)
(* stealing owes the player, which the voice table alone cannot express.     *)
EXTENDS ChipChannel

VARIABLES
    down,    \* keys struck and not lifted, since the last panic or recovery
    later    \* for each key down, the notes struck after it

keys == <<down, later>>
hvars == <<vars, keys>>

HInit == Init /\ down = {} /\ later = [n \in Notes |-> {}]

Press(n) ==
    /\ note_on(n)
    /\ down' = down \union {n}
    /\ later' = [m \in Notes |-> IF m \in down \ {n} THEN later[m] \union {n} ELSE {}]

\* Lifting a key whose note was stolen finds no voice: note_off returns.
Lift(n) ==
    /\ n \in down
    /\ note_off(n) \/ (_find_held(n) = {} /\ UNCHANGED vars)
    /\ down' = down \ {n}
    /\ later' = [later EXCEPT ![n] = {}]

\* Whatever frees every voice makes the driver forget the keys.
Silence ==
    /\ all_notes_off \/ recover \/ hard_panic \/ sid_hard_reset
    /\ IF state' = AllFree THEN down' = {} /\ later' = [n \in Notes |-> {}]
                           ELSE UNCHANGED keys

Control ==
    /\ \/ flush_bend
       \/ \E x \in Bends : pitch_bend(x)
       \/ \E g \in Settings : ControlGlobals(g)
       \/ \E w \in Waves, e \in Envs : ControlVoice(w, e)
    /\ UNCHANGED keys

HNext == Silence \/ Control \/ \E n \in Notes : Press(n) \/ Lift(n)

HSpec == HInit /\ [][HNext]_hvars

-----------------------------------------------------------------------------
\* The note of a key that was and stays down loses its voice.
Loses(m) == m \in down \intersect down' /\ _find_held(m) # {} /\ _find_held(m)' = {}

TakesOldest == \A m \in Notes : Loses(m) =>
    /\ InState("held") = Voices
    /\ \A k \in down \ {m} : _find_held(k) # {} => k \in later[m]

\* A key that is down loses its voice only while every voice is held, and only
\* the key struck before all the others that have one: no voice that is free or
\* releasing is passed over (_allocate, on_time).
NoEarlySteal == [][TakesOldest]_hvars

\* A voice held is held for a key that is down: lifting the key always reaches
\* the voice, however often it was stolen or retriggered in between.
HeldForAKey == \A v \in InState("held") : note[v] \in down
=============================================================================

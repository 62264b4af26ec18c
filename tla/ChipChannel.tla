---------------------------- MODULE ChipChannel ----------------------------
(* One chip of the MIDI program when its handlers run one at a time: every   *)
(* action is a whole handler of ChipChannel, or the part of a MidiToSid      *)
(* operation that concerns one chip, with the outcome of its writes.         *)
EXTENDS ChipState

VARIABLES
    synced,    \* has every write since the last recovery gone out?
    aligned    \* does the device read the stream on its word boundary?

vars == <<note, state, on_time, bend, dirty, patch, sid, synced, aligned>>

Init == ChipInit /\ synced = TRUE /\ aligned = TRUE

-----------------------------------------------------------------------------
(* Outcomes of write_regs_now *)

\* What the registers hold is unknown after a failed write, and is not
\* tracked until a recovery has rewritten them all: every property speaks of
\* sid only while synced, and Unknown stands for whatever it may be.
Unknown == [gate     |-> [v \in Voices |-> 0],
            wave     |-> [v \in Voices |-> Zero],
            env      |-> [v \in Voices |-> Zero],
            freq     |-> [v \in Voices |-> Zero],
            settings |-> Zero,
            attacks  |-> [v \in Voices |-> 0]]

Sent(b) ==
    /\ sid' = (IF synced THEN Apply(sid, b) ELSE sid)
    /\ UNCHANGED <<synced, aligned>>

\* No room, a failed transfer or a short one: nothing, something or all of the
\* block has arrived, and an odd number of bytes moves the word boundary.
Raised == sid' = Unknown /\ synced' = FALSE /\ aligned' \in BOOLEAN

\* Not sent, and not an error.
Dropped == UNCHANGED <<sid, synced, aligned>>

\* With no register to write, write_regs_now returns without touching the bus.
Failed(b) == b # NoWrite /\ Raised

Write(b) == Sent(b) \/ Failed(b)

-----------------------------------------------------------------------------
(* Handlers of ChipChannel *)

note_on(n) ==
    LET v == _allocate(n)
    IN  /\ note' = [note EXCEPT ![v] = n]
        /\ state' = [state EXCEPT ![v] = "held"]
        /\ on_time' = Touch(v)
        /\ Write(NoteOnBlock(v, n))
        /\ UNCHANGED <<bend, dirty, patch>>

note_off(n) ==
    /\ _find_held(n) # {}
    /\ LET v == First(_find_held(n))
       IN  /\ state' = [state EXCEPT ![v] = "releasing"]
           /\ Write(NoteOffBlock(v))
    /\ UNCHANGED <<note, on_time, bend, dirty, patch>>

\* flush_bend with the flag set: sent; not due yet (BEND_MIN_INTERVAL) or
\* dropped for want of room; or failed.
Flush(b) == \/ dirty' = FALSE /\ Sent(b)
            \/ dirty' = TRUE /\ Dropped
            \/ dirty' = TRUE /\ Failed(b)

pitch_bend(x) ==
    /\ bend' = x
    /\ Flush(RetuneBlock(x))
    /\ UNCHANGED <<note, state, on_time, patch>>

flush_bend ==
    /\ dirty
    /\ Flush(RetuneBlock(bend))
    /\ UNCHANGED <<note, state, on_time, bend, patch>>

\* Volume, cutoff, resonance: stored in the patch and written at once.
ControlGlobals(g) ==
    /\ patch' = [patch EXCEPT !.settings = g]
    /\ Write(GlobalsBlock(patch'))
    /\ UNCHANGED <<note, state, on_time, bend, dirty>>

\* Waveform, envelope, pulse width: rewritten to every voice in use.
ControlVoice(w, e) ==
    /\ patch' = [patch EXCEPT !.wave = w, !.env = e]
    /\ w = patch.wave \/ e = patch.env
    /\ Write(VoicePatchBlock(patch'))
    /\ UNCHANGED <<note, state, on_time, bend, dirty>>

all_notes_off ==
    /\ note' = [v \in Voices |-> IF v \in InUse THEN NoNote ELSE note[v]]
    /\ state' = AllFree
    /\ Write(GateOffBlock)
    /\ UNCHANGED <<on_time, bend, dirty, patch>>

-----------------------------------------------------------------------------
(* What MidiToSid does to a chip *)

Release == note' = NoNotes /\ state' = AllFree

\* Mutant: filter and volume are not restored after the re-arm.
RearmedOnly(s, step) ==
    /\ sid' = IF step THEN Apply(s, ArmBlock) ELSE Unknown
    /\ synced' = step
    /\ aligned' = step

\* The re-arm and the restore that follows it both went out, or one did not. A
\* device that is not in step does not read them as register writes.
Rearmed(s, step) ==
    \/ /\ sid' = IF step THEN Apply(Apply(s, ArmBlock), GlobalsBlock(patch))
                ELSE Unknown
       /\ synced' = step
       /\ aligned' = step
    \/ Raised

\* recover restarts the engine, which discards the ring and puts the stream in
\* step, only when the measurement finds that it is not executing.
Recovered(s) == \E step \in {aligned, TRUE} : Rearmed(s, step)

\* When init fails the voice table is left as it was.
recover ==
    /\ \/ Release /\ dirty' = FALSE /\ Recovered(sid)
       \/ Raised /\ UNCHANGED <<note, state, dirty>>
    /\ UNCHANGED <<on_time, bend, patch>>

\* hard_panic once its sweep is out; when that is refused it is recover, and it
\* goes on as recover when the run bit is down.
hard_panic ==
    /\ Release
    /\ dirty' = FALSE
    /\ LET swept == Apply(sid, ZeroBlock)
       IN  Rearmed(swept, aligned) \/ Recovered(swept)
    /\ UNCHANGED <<on_time, bend, patch>>

\* The TEST block is refused and nothing else happens; or it goes out, the
\* voices are released and the control registers cleared.
sid_hard_reset ==
    /\ \/ Raised /\ UNCHANGED <<note, state>>
       \/ Release /\ Raised
       \/ /\ Release
          /\ sid' = IF synced THEN Apply(Apply(sid, TestBlock), ControlZeroBlock)
                    ELSE sid
          /\ UNCHANGED <<synced, aligned>>
    /\ UNCHANGED <<on_time, bend, dirty, patch>>

-----------------------------------------------------------------------------
Next == \/ \E n \in Notes : note_on(n) \/ note_off(n)
        \/ \E x \in Bends : pitch_bend(x)
        \/ flush_bend
        \/ \E g \in Settings : ControlGlobals(g)
        \/ \E w \in Waves, e \in Envs : ControlVoice(w, e)
        \/ all_notes_off
        \/ recover
        \/ hard_panic
        \/ sid_hard_reset

Spec == Init /\ [][Next]_vars

-----------------------------------------------------------------------------
(* Properties *)

TypeOK == ChipTypeOK /\ synced \in BOOLEAN /\ aligned \in BOOLEAN

\* A note is on at most one voice, held or releasing, so that a note-off finds
\* the voice that plays it (_allocate, _find_held).
UniqueNotes == \A v, w \in InUse : note[v] = note[w] => v = w

\* A gate is open exactly on the voices the table calls held: nothing hangs
\* and nothing is cut (note_on, note_off, _reapply_voice_patch, panic).
GateFollowsTable ==
    synced => \A v \in Voices : sid.gate[v] = 1 <=> state[v] = "held"

\* A voice in use sounds its own note; once no bend is waiting to be sent,
\* at the current wheel position (note_on, pitch_bend, flush_bend).
InTune ==
    synced => \A v \in InUse :
        /\ \E x \in Bends : sid.freq[v] = <<note[v], x>>
        /\ ~dirty => sid.freq[v] = <<note[v], bend>>

\* The chip has the patch: its voices in use the waveform and envelope, the
\* chip itself the filter and volume, which init and panic destroy.
PatchApplied ==
    synced => /\ \A v \in InUse : /\ sid.wave[v] = patch.wave
                                  /\ sid.env[v] = patch.env
              /\ sid.settings = patch.settings

AttackRestarts == \A n \in Notes : note_on(n) /\ synced /\ synced' =>
    \E v \in Voices : /\ note'[v] = n /\ state'[v] = "held"
                     /\ sid'.gate[v] = 1 /\ sid'.attacks[v] # sid.attacks[v]

\* A note-on that goes out restarts the envelope of the voice it takes, even
\* one whose gate was open (the gate-off pulse of note_on).
FreshAttack == [][AttackRestarts]_vars

-----------------------------------------------------------------------------
(* The promise to the player *)

Open == {v \in Voices : sid.gate[v] = 1}

\* What is heard, read off the registers of a synced chip.
Heard == IF synced THEN {sid.freq[v][1] : v \in Open} ELSE {}

Older == {p \in Open \X Open : on_time[p[1]] < on_time[p[2]]}

HeardBefore == IF synced THEN {<<sid.freq[p[1]][1], sid.freq[p[2]][1]>> : p \in Older}
               ELSE {}

Promise == INSTANCE Instrument WITH
    Polyphony <- NVoices, sounding <- Heard, before <- HeardBefore, reliable <- synced

\* The chip is an instrument of NVoices notes: what its registers sound is what
\* the player struck and did not lift, less the notes struck first when there
\* were too many, after any sequence of messages (ChipChannel, MidiToSid).
ImplementsInstrument == Promise!Spec
=============================================================================

----------------------------- MODULE ChipState -----------------------------
(* One SID chip and the driver's idea of it: the voice table and the patch   *)
(* of ChipChannel, the registers of the chip, and the register blocks        *)
(* ChipChannel builds from the first to change the second.                   *)
EXTENDS Integers, FiniteSets

CONSTANTS
    NVoices,    \* voices of a chip (three)
    Notes,      \* MIDI notes
    Bends,      \* pitch wheel positions, in semitones
    Waves,      \* waveforms
    Envs,       \* envelope and pulse width settings
    Settings,   \* filter and volume settings
    NoNote,     \* a slot's note when it has none (-1)
    Zero        \* a register that was zeroed

ASSUME ChipAssumption ==
    /\ NVoices \in Nat \ {0}
    /\ NoNote \notin Notes
    /\ Bends # {} /\ Waves # {} /\ Envs # {} /\ Settings # {}
    /\ \A n \in Notes, b \in Bends : <<n, b>> # Zero

VARIABLES
    note,       \* VoiceSlot.note
    state,      \* VoiceSlot.state
    on_time,    \* VoiceSlot.on_time, as the voice's rank in age (0 oldest)
    bend,       \* ChipChannel.bend_semitones
    dirty,      \* ChipChannel._bend_dirty
    patch,      \* ChipChannel.patch
    sid         \* the chip's registers

host == <<note, state, on_time, bend, dirty, patch>>

Voices == 0 .. NVoices - 1
States == {"free", "held", "releasing"}

-----------------------------------------------------------------------------
(* The voice table *)

First(S) == CHOOSE v \in S : \A w \in S : v <= w

InState(st) == {v \in Voices : state[v] = st}

Playing(n) == {v \in Voices : note[v] = n /\ state[v] \in {"held", "releasing"}}

\* Mutant: the youngest voice is stolen.
Youngest == CHOOSE v \in Voices : \A w \in Voices : on_time[w] <= on_time[v]

Oldest == CHOOSE v \in Voices : \A w \in Voices : on_time[v] <= on_time[w]

\* Mutant: a note already playing is given a second voice.
AllocateAnew(n) ==
    IF InState("free") # {} THEN First(InState("free"))
    ELSE IF InState("releasing") # {} THEN First(InState("releasing"))
    ELSE First({v \in Voices : \A w \in Voices : on_time[v] <= on_time[w]})

\* Mutant: releasing voices are passed over, and a held one may be stolen.
AllocateImpatient(n) ==
    IF Playing(n) # {} THEN First(Playing(n))
    ELSE IF InState("free") # {} THEN First(InState("free"))
    ELSE Oldest

_allocate(n) ==
    IF Playing(n) # {} THEN First(Playing(n))
    ELSE IF InState("free") # {} THEN First(InState("free"))
    ELSE IF InState("releasing") # {} THEN First(InState("releasing"))
    ELSE Oldest

\* The slots holding a note: _find_held returns the first of them.
_find_held(n) == {v \in Voices : note[v] = n /\ state[v] = "held"}

\* Mutant: the other voices do not age.
TouchAlone(v) == [on_time EXCEPT ![v] = NVoices]

\* slot.on_time = perf_counter(): the voice becomes the youngest.
Touch(v) == [w \in Voices |->
               IF w = v THEN NVoices - 1
               ELSE IF on_time[w] > on_time[v] THEN on_time[w] - 1
               ELSE on_time[w]]

AllFree == [v \in Voices |-> "free"]
NoNotes == [v \in Voices |-> NoNote]

-----------------------------------------------------------------------------
(* Register blocks: the values written, after a gate-off pulse on some voices *)

NoRegs == [v \in {} |-> Zero]
NoWrite == [pulse |-> {}, gate |-> NoRegs, wave |-> NoRegs, env |-> NoRegs,
            freq |-> NoRegs, settings |-> {}]

Over(old, new) == [v \in Voices |-> IF v \in DOMAIN new THEN new[v] ELSE old[v]]

\* The chip executes a block. GATE restarts the envelope on a 0 -> 1
\* transition only; attacks counts these, modulo 2.
Apply(s, b) ==
    [gate     |-> Over(s.gate, b.gate),
     wave     |-> Over(s.wave, b.wave),
     env      |-> Over(s.env, b.env),
     freq     |-> Over(s.freq, b.freq),
     settings |-> IF b.settings = {} THEN s.settings
                  ELSE CHOOSE g \in b.settings : TRUE,
     attacks  |-> [v \in Voices |->
                     IF v \in DOMAIN b.gate /\ Over(s.gate, b.gate)[v] = 1
                        /\ (s.gate[v] = 0 \/ v \in b.pulse)
                     THEN 1 - s.attacks[v] ELSE s.attacks[v]]]

\* Mutant: no gate-off pulse for a voice in use.
NoteOnUnpulsed(v, n) ==
    [NoWrite EXCEPT !.freq = [w \in {v} |-> <<n, bend>>],
                    !.env  = [w \in {v} |-> patch.env],
                    !.wave = [w \in {v} |-> patch.wave],
                    !.gate = [w \in {v} |-> 1]]

\* A voice that was in use gets a gate-off pulse first; then its frequency,
\* its patch and the gate.
NoteOnBlock(v, n) ==
    [NoWrite EXCEPT !.pulse = IF state[v] # "free" THEN {v} ELSE {},
                    !.freq = [w \in {v} |-> <<n, bend>>],
                    !.env  = [w \in {v} |-> patch.env],
                    !.wave = [w \in {v} |-> patch.wave],
                    !.gate = [w \in {v} |-> 1]]

NoteOffBlock(v) ==
    [NoWrite EXCEPT !.wave = [w \in {v} |-> patch.wave],
                    !.gate = [w \in {v} |-> 0]]

InUse == {v \in Voices : state[v] # "free"}

\* Mutant: voices in release are not retuned.
RetuneHeld(x) ==
    [NoWrite EXCEPT !.freq = [v \in InState("held") |-> <<note[v], x>>]]

\* flush_bend, the wheel being at x: the frequency of every voice in use
RetuneBlock(x) ==
    [NoWrite EXCEPT !.freq =
        [v \in {w \in InUse : note[w] # NoNote} |-> <<note[v], x>>]]

\* Mutant: the gate of every voice in use is set.
VoicePatchGated(p) ==
    [NoWrite EXCEPT !.env  = [v \in InUse |-> p.env],
                    !.wave = [v \in InUse |-> p.wave],
                    !.gate = [v \in InUse |-> 1]]

\* _reapply_voice_patch, with patch p
VoicePatchBlock(p) ==
    [NoWrite EXCEPT !.env  = [v \in InUse |-> p.env],
                    !.wave = [v \in InUse |-> p.wave],
                    !.gate = [v \in InUse |-> IF state[v] = "held" THEN 1 ELSE 0]]

\* _write_chip_globals, with patch p
GlobalsBlock(p) == [NoWrite EXCEPT !.settings = {p.settings}]

\* all_notes_off
GateOffBlock == [NoWrite EXCEPT !.wave = [v \in InUse |-> patch.wave],
                                !.gate = [v \in InUse |-> 0]]

\* sid_hard_reset: TEST bit and zero envelopes, then zero control registers
TestBlock == [NoWrite EXCEPT !.env  = [v \in Voices |-> Zero],
                             !.wave = [v \in Voices |-> Zero],
                             !.gate = [v \in Voices |-> 0]]
ControlZeroBlock == [NoWrite EXCEPT !.wave = [v \in Voices |-> Zero],
                                    !.gate = [v \in Voices |-> 0]]

\* init: every voice register zero, and the filter registers; not 0x18
ArmBlock == [TestBlock EXCEPT !.freq = [v \in Voices |-> Zero],
                              !.settings = {Zero}]

\* hard_panic's sweep over registers 0x00 to 0x18
ZeroBlock == ArmBlock

-----------------------------------------------------------------------------
Patches == [wave : Waves, env : Envs, settings : Settings]

Registers == [gate     : [Voices -> {0, 1}],
              wave     : [Voices -> Waves \union {Zero}],
              env      : [Voices -> Envs \union {Zero}],
              freq     : [Voices -> (Notes \X Bends) \union {Zero}],
              settings : Settings \union {Zero},
              attacks  : [Voices -> {0, 1}]]

TableTypeOK == /\ note \in [Voices -> Notes \union {NoNote}]
               /\ state \in [Voices -> States]
               /\ on_time \in [Voices -> Voices]

ChipTypeOK == /\ TableTypeOK
              /\ bend \in Bends /\ dirty \in BOOLEAN
              /\ patch \in Patches
              /\ sid \in Registers

\* A chip just armed, with the patch's filter and volume written.
ChipInit ==
    /\ note = NoNotes /\ state = AllFree
    /\ on_time = [v \in Voices |-> v]
    /\ bend \in Bends /\ dirty = FALSE
    /\ patch \in Patches
    /\ sid = [gate |-> [v \in Voices |-> 0],
              wave |-> [v \in Voices |-> Zero],
              env  |-> [v \in Voices |-> Zero],
              freq |-> [v \in Voices |-> Zero],
              settings |-> patch.settings,
              attacks |-> [v \in Voices |-> 0]]
=============================================================================

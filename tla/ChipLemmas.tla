----------------------------- MODULE ChipLemmas -----------------------------
(* What the voice table and the register blocks of a chip do, for any number *)
(* of voices, notes, wheel positions and patches: what every module that     *)
(* reasons about a chip needs.                                               *)
EXTENDS ChipState, FiniteSetTheorems, WellFoundedInduction, TLAPS

\* A voice in use has a note.
Noted == \A v \in InUse : note[v] \in Notes

\* The ranks in age are a permutation: some voice has each rank.
Ranked == \A r \in Voices : \E v \in Voices : on_time[v] = r

-----------------------------------------------------------------------------
(* Allocation *)

\* The first voice of a set is in the set (the loops of _allocate).
LEMMA FirstIn == ASSUME NEW S \in SUBSET Voices, S # {} PROVE First(S) \in S
<1>1. S \subseteq Nat
  BY ChipAssumption DEF Voices
<1>2. PICK x \in S : \A y \in S : ~(<<y, x>> \in OpToRel(<, Nat))
  BY <1>1, NatLessThanWellFounded, WFMin
<1>3. ASSUME NEW y \in S PROVE x <= y
  <2>1. x \in Nat /\ y \in Nat
    BY <1>1
  <2>2. ASSUME y < x PROVE <<y, x>> \in OpToRel(<, Nat)
    <3>1. <<y, x>> \in Nat \X Nat /\ <<y, x>>[1] < <<y, x>>[2]
      BY <2>1, <2>2
    <3> QED BY <3>1 DEF OpToRel
  <2>3. ~(y < x)
    BY <1>2, <2>2
  <2> QED BY <2>1, <2>3
<1> QED BY <1>3 DEF First

\* The oldest voice exists.
LEMMA OldestIn == ASSUME TableTypeOK, Ranked PROVE Oldest \in Voices
<1>1. 0 \in Voices
  BY ChipAssumption DEF Voices
<1>2. PICK v \in Voices : on_time[v] = 0
  BY <1>1 DEF Ranked
<1>3. \A w \in Voices : on_time[v] <= on_time[w]
  BY <1>2, ChipAssumption DEF TableTypeOK, Voices
<1> QED BY <1>3 DEF Oldest

\* Allocation returns a voice, and the one that plays the note if any does
\* (_allocate).
LEMMA AllocateIn ==
    ASSUME TableTypeOK, Ranked, NEW n \in Notes
    PROVE  /\ _allocate(n) \in Voices
           /\ Playing(n) # {} => _allocate(n) \in Playing(n)
<1>1. /\ Playing(n) \in SUBSET Voices
      /\ InState("free") \in SUBSET Voices
      /\ InState("releasing") \in SUBSET Voices
  BY DEF Playing, InState
<1>2. Oldest \in Voices
  BY OldestIn
<1> QED BY <1>1, <1>2, FirstIn DEF _allocate

\* A rank in range is a voice's rank.
LEMMA InVoices == ASSUME NEW x \in Int, 0 <= x, x <= NVoices - 1 PROVE x \in Voices
<1>1. NVoices \in Int
  BY ChipAssumption
<1> QED BY <1>1 DEF Voices

\* No two voices have the same rank in age: as many ranks as voices, and each
\* rank is taken.
LEMMA RanksDiffer ==
    ASSUME on_time \in [Voices -> Voices], Ranked
    PROVE  \A v, w \in Voices : on_time[v] = on_time[w] => v = w
<1>1. IsFiniteSet(Voices)
  BY FS_Interval, ChipAssumption DEF Voices
<1>2. on_time \in Surjection(Voices, Voices)
  BY DEF Ranked, Surjection
<1>3. on_time \in Injection(Voices, Voices)
  BY <1>1, <1>2, FS_SurjSameCardinalityImpliesInj
<1> QED BY <1>3 DEF Injection, IsInjective

\* Making a voice the youngest keeps the ranks a permutation.
LEMMA TouchRanks ==
    ASSUME on_time \in [Voices -> Voices], Ranked, NEW v \in Voices,
           on_time' = Touch(v)
    PROVE  on_time' \in [Voices -> Voices] /\ Ranked'
<1>1. on_time' \in [Voices -> Voices]
  <2>1. ASSUME NEW w \in Voices PROVE on_time'[w] \in Voices
    <3>1. /\ on_time[w] \in Int /\ 0 <= on_time[w] /\ on_time[w] <= NVoices - 1
          /\ on_time[v] \in Int /\ 0 <= on_time[v] /\ on_time[v] <= NVoices - 1
      BY ChipAssumption DEF Voices
    <3>2. on_time'[w] = IF w = v THEN NVoices - 1
                        ELSE IF on_time[w] > on_time[v] THEN on_time[w] - 1
                        ELSE on_time[w]
      BY DEF Touch
    <3>3. on_time'[w] \in Int /\ 0 <= on_time'[w] /\ on_time'[w] <= NVoices - 1
      BY <3>1, <3>2, ChipAssumption
    <3> QED BY <3>3, InVoices
  <2> QED BY <2>1 DEF Touch
<1>2. ASSUME NEW r \in Voices PROVE \E w \in Voices : on_time'[w] = r
  <2>0. r \in Int /\ r <= NVoices - 1 /\ r >= 0 /\ on_time[v] \in Int
    BY ChipAssumption DEF Voices
  <2>1. CASE r = NVoices - 1
    BY <2>1 DEF Touch
  <2>2. CASE r < NVoices - 1 /\ r < on_time[v]
    <3>1. PICK w \in Voices : on_time[w] = r
      BY DEF Ranked
    <3>2. w # v /\ ~(on_time[w] > on_time[v])
      BY <2>0, <2>2, <3>1
    <3> QED BY <3>1, <3>2 DEF Touch
  <2>3. CASE r < NVoices - 1 /\ ~(r < on_time[v])
    <3>1. r + 1 \in Voices
      BY <2>0, <2>3, ChipAssumption DEF Voices
    <3>2. PICK w \in Voices : on_time[w] = r + 1
      BY <3>1 DEF Ranked
    <3>3. w # v /\ on_time[w] > on_time[v] /\ on_time[w] - 1 = r
      BY <2>0, <2>3, <3>2
    <3> QED BY <3>3 DEF Touch
  <2> QED BY <2>0, <2>1, <2>2, <2>3, ChipAssumption
<1> QED BY <1>1, <1>2 DEF Ranked

-----------------------------------------------------------------------------
(* Blocks *)

\* A block writes values of the right kind, to voices of the chip.
WellFormed(b) ==
    /\ \A v \in Voices : /\ v \in DOMAIN b.gate => b.gate[v] \in {0, 1}
                         /\ v \in DOMAIN b.wave => b.wave[v] \in Waves \union {Zero}
                         /\ v \in DOMAIN b.env  => b.env[v] \in Envs \union {Zero}
                         /\ v \in DOMAIN b.freq =>
                               b.freq[v] \in (Notes \X Bends) \union {Zero}
    /\ b.settings = {} \/ \E g \in Settings \union {Zero} : b.settings = {g}

LEMMA OverType ==
    ASSUME NEW T, NEW f \in [Voices -> T], NEW g,
           \A v \in Voices : v \in DOMAIN g => g[v] \in T
    PROVE  Over(f, g) \in [Voices -> T]
  BY DEF Over

\* What the chip holds after a well-formed block is of the right kind.
LEMMA ApplyType ==
    ASSUME NEW s \in Registers, NEW b, WellFormed(b)
    PROVE  Apply(s, b) \in Registers
<1>1. Over(s.gate, b.gate) \in [Voices -> {0, 1}]
  BY OverType DEF WellFormed, Registers
<1>2. Over(s.wave, b.wave) \in [Voices -> Waves \union {Zero}]
  BY OverType DEF WellFormed, Registers
<1>3. Over(s.env, b.env) \in [Voices -> Envs \union {Zero}]
  BY OverType DEF WellFormed, Registers
<1>4. Over(s.freq, b.freq) \in [Voices -> (Notes \X Bends) \union {Zero}]
  BY OverType DEF WellFormed, Registers
<1>5. Apply(s, b).settings \in Settings \union {Zero}
  BY DEF Apply, WellFormed, Registers
<1>6. Apply(s, b).attacks \in [Voices -> {0, 1}]
  BY DEF Apply, Registers
<1> QED BY <1>1, <1>2, <1>3, <1>4, <1>5, <1>6 DEF Apply, Registers

\* Each register of a chip after a block.
LEMMA AfterApply ==
    ASSUME NEW s, NEW b, NEW v \in Voices
    PROVE  /\ Apply(s, b).gate[v] = IF v \in DOMAIN b.gate THEN b.gate[v] ELSE s.gate[v]
           /\ Apply(s, b).wave[v] = IF v \in DOMAIN b.wave THEN b.wave[v] ELSE s.wave[v]
           /\ Apply(s, b).env[v]  = IF v \in DOMAIN b.env  THEN b.env[v]  ELSE s.env[v]
           /\ Apply(s, b).freq[v] = IF v \in DOMAIN b.freq THEN b.freq[v] ELSE s.freq[v]
  BY DEF Apply, Over

LEMMA SettingsAfterApply ==
    ASSUME NEW s, NEW b
    PROVE  /\ b.settings = {} => Apply(s, b).settings = s.settings
           /\ \A g : b.settings = {g} => Apply(s, b).settings = g
  BY DEF Apply

\* The registers note_on writes, all of the voice it takes.
LEMMA NoteOnBlockIs ==
    ASSUME NEW v \in Voices, NEW n
    PROVE  /\ DOMAIN NoteOnBlock(v, n).gate = {v}
           /\ DOMAIN NoteOnBlock(v, n).wave = {v}
           /\ DOMAIN NoteOnBlock(v, n).env = {v}
           /\ DOMAIN NoteOnBlock(v, n).freq = {v}
           /\ NoteOnBlock(v, n).gate[v] = 1
           /\ NoteOnBlock(v, n).wave[v] = patch.wave
           /\ NoteOnBlock(v, n).env[v] = patch.env
           /\ NoteOnBlock(v, n).freq[v] = <<n, bend>>
           /\ NoteOnBlock(v, n).settings = {}
  BY DEF NoteOnBlock, NoWrite

-----------------------------------------------------------------------------
(* The blocks the driver builds are well formed *)

\* Blocks that write one value to some voices, or only the globals
LEMMA PlainBlocks ==
    /\ WellFormed(NoWrite)
    /\ WellFormed(TestBlock) /\ WellFormed(ControlZeroBlock)
    /\ WellFormed(ArmBlock) /\ WellFormed(ZeroBlock)
    /\ \A p \in Patches : WellFormed(GlobalsBlock(p))
<1>1. WellFormed(NoWrite)
  BY DEF WellFormed, NoWrite, NoRegs
<1>2. WellFormed(TestBlock)
  BY DEF WellFormed, TestBlock, NoWrite, NoRegs
<1>3. WellFormed(ControlZeroBlock)
  BY DEF WellFormed, ControlZeroBlock, NoWrite, NoRegs
<1>4. WellFormed(ArmBlock)
  BY DEF WellFormed, ArmBlock, TestBlock, NoWrite, NoRegs
<1>5. WellFormed(ZeroBlock)
  BY <1>4 DEF ZeroBlock
<1>6. ASSUME NEW p \in Patches PROVE WellFormed(GlobalsBlock(p))
  BY DEF WellFormed, GlobalsBlock, NoWrite, NoRegs, Patches
<1> QED BY <1>1, <1>2, <1>3, <1>4, <1>5, <1>6

\* Blocks that take what they write from the table, the wheel and the patch
LEMMA TableBlocks ==
    ASSUME TableTypeOK, bend \in Bends, patch \in Patches
    PROVE  /\ \A v \in Voices, n \in Notes : WellFormed(NoteOnBlock(v, n))
           /\ \A v \in Voices : WellFormed(NoteOffBlock(v))
           /\ WellFormed(RetuneBlock(bend))
           /\ \A p \in Patches : WellFormed(VoicePatchBlock(p))
           /\ WellFormed(GateOffBlock)
<1>1. ASSUME NEW v \in Voices, NEW n \in Notes PROVE WellFormed(NoteOnBlock(v, n))
  <2> DEFINE b == NoteOnBlock(v, n)
  <2>1. /\ <<n, bend>> \in Notes \X Bends
        /\ patch.wave \in Waves /\ patch.env \in Envs
    BY DEF Patches
  <2>2. /\ DOMAIN b.gate = {v} /\ DOMAIN b.wave = {v}
        /\ DOMAIN b.env = {v} /\ DOMAIN b.freq = {v}
    BY NoteOnBlockIs
  <2>3. /\ b.gate[v] = 1 /\ b.wave[v] = patch.wave
        /\ b.env[v] = patch.env /\ b.freq[v] = <<n, bend>>
        /\ b.settings = {}
    BY NoteOnBlockIs
  <2> HIDE DEF b
  <2>4. b.freq[v] \in Notes \X Bends
    BY <2>1, <2>3
  <2>5. b.settings = {} \/ \E g \in Settings \union {Zero} : b.settings = {g}
    BY <2>3
  <2>6. ASSUME NEW w \in Voices, w \in DOMAIN b.freq
        PROVE  b.freq[w] \in (Notes \X Bends) \union {Zero}
    <3>1. w = v
      BY <2>2, <2>6
    <3>2. b.freq[v] \in (Notes \X Bends) \union {Zero}
      BY <2>4, Zenon
    <3> QED BY <3>1, <3>2, Zenon
  <2>7. ASSUME NEW w \in DOMAIN b.gate PROVE b.gate[w] \in {0, 1}
    <3>1. w = v /\ b.gate[v] \in {0, 1} BY <2>2, <2>3, <2>7
    <3> QED BY <3>1, Zenon
  <2>8. ASSUME NEW w \in DOMAIN b.wave PROVE b.wave[w] \in Waves \union {Zero}
    <3>1. w = v BY <2>2, <2>8
    <3>2. b.wave[v] \in Waves \union {Zero} BY <2>1, <2>3
    <3> QED BY <3>1, <3>2, Zenon
  <2>9. ASSUME NEW w \in DOMAIN b.env PROVE b.env[w] \in Envs \union {Zero}
    <3>1. w = v BY <2>2, <2>9
    <3>2. b.env[v] \in Envs \union {Zero} BY <2>1, <2>3
    <3> QED BY <3>1, <3>2, Zenon
  <2>10. WellFormed(b) BY <2>5, <2>6, <2>7, <2>8, <2>9 DEF WellFormed
  <2> QED BY <2>10 DEF b
<1>2. ASSUME NEW v \in Voices PROVE WellFormed(NoteOffBlock(v))
  BY DEF WellFormed, NoteOffBlock, NoWrite, NoRegs, Patches
<1>3. WellFormed(RetuneBlock(bend))
  <2>1. ASSUME NEW v \in {w \in InUse : note[w] # NoNote}
        PROVE  <<note[v], bend>> \in Notes \X Bends
    BY DEF TableTypeOK, InUse
  <2> QED BY <2>1 DEF WellFormed, RetuneBlock, NoWrite, NoRegs
<1>4. ASSUME NEW p \in Patches PROVE WellFormed(VoicePatchBlock(p))
  BY DEF WellFormed, VoicePatchBlock, NoWrite, NoRegs, Patches
<1>5. WellFormed(GateOffBlock)
  BY DEF WellFormed, GateOffBlock, NoWrite, NoRegs, Patches
<1> QED BY <1>1, <1>2, <1>3, <1>4, <1>5
=============================================================================

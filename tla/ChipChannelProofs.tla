------------------------- MODULE ChipChannelProofs -------------------------
(* The voice table and the chip agree, every chip keeps the promise of       *)
(* Instrument, and stealing is fair to the keys that are down, for any number*)
(* of voices and any notes, wheel positions and patches.                     *)
EXTENDS KeyHistory, ChipLemmas, TLAPS

IInv == /\ TypeOK
        /\ Noted
        /\ Ranked
        /\ UniqueNotes
        /\ GateFollowsTable
        /\ InTune
        /\ PatchApplied

-----------------------------------------------------------------------------
(* Registers *)

LEMMA UnknownType == Unknown \in Registers
  BY DEF Unknown, Registers

-----------------------------------------------------------------------------
(* The invariant, in two halves: the table by itself, and the chip's          *)
(* agreement with it, which a failed write suspends.                          *)

Table == TableTypeOK /\ Noted /\ Ranked /\ UniqueNotes
Rest  == bend \in Bends /\ dirty \in BOOLEAN /\ patch \in Patches
Chip  == sid \in Registers /\ synced \in BOOLEAN /\ aligned \in BOOLEAN
Agree == GateFollowsTable /\ InTune /\ PatchApplied

LEMMA Halves == IInv <=> Table /\ Rest /\ Chip /\ Agree
  BY DEF IInv, Table, Rest, Chip, Agree, TypeOK, ChipTypeOK

LEMMA HalvesAfter == ASSUME Table', Rest', Chip', Agree' PROVE IInv'
  BY DEF IInv, Table, Rest, Chip, Agree, TypeOK, ChipTypeOK

LEMMA AfterRaised == ASSUME Raised PROVE Chip' /\ Agree'
<1>1. synced' = FALSE /\ sid' = Unknown /\ aligned' \in BOOLEAN
  BY DEF Raised
<1>2. Chip'
  BY <1>1, UnknownType DEF Chip, Registers, Voices
<1> QED BY <1>1, <1>2 DEF Agree, GateFollowsTable, InTune, PatchApplied

\* Sending a well-formed block keeps the types; nothing more is claimed of the
\* chip when it is out of sync.
LEMMA AfterSent ==
    ASSUME Chip, NEW b, WellFormed(b), Sent(b)
    PROVE  /\ Chip'
           /\ synced' = synced
           /\ synced => sid' = Apply(sid, b)
           /\ ~synced => Agree'
<1>1. Apply(sid, b) \in Registers
  BY ApplyType DEF Chip
<1>2. /\ synced' = synced /\ aligned' = aligned
      /\ (synced => sid' = Apply(sid, b)) /\ (~synced => sid' = sid)
  BY DEF Sent
<1>3. sid' \in Registers
  BY <1>1, <1>2 DEF Chip
<1>4. Chip'
  BY <1>2, <1>3 DEF Chip, Registers, Voices
<1>5. ~synced => Agree'
  BY <1>2 DEF Agree, GateFollowsTable, InTune, PatchApplied
<1> QED BY <1>2, <1>4, <1>5

-----------------------------------------------------------------------------
(* note_on *)

LEMMA NoteOnStep ==
    ASSUME IInv, NEW n \in Notes, note_on(n)
    PROVE  IInv'
<1> DEFINE v == _allocate(n)
           b == NoteOnBlock(v, n)
<1>0. Table /\ Rest /\ Chip /\ Agree
  BY Halves
<1>1. /\ v \in Voices
      /\ Playing(n) # {} => v \in Playing(n)
  BY <1>0, AllocateIn DEF Table
<1>2. /\ note' = [note EXCEPT ![v] = n]
      /\ state' = [state EXCEPT ![v] = "held"]
      /\ on_time' = Touch(v)
      /\ bend' = bend /\ dirty' = dirty /\ patch' = patch
      /\ Sent(b) \/ Raised
  BY DEF note_on, Write, Failed
<1> HIDE DEF v
<1>9. /\ DOMAIN b.gate = {v} /\ DOMAIN b.wave = {v}
      /\ DOMAIN b.env = {v} /\ DOMAIN b.freq = {v}
      /\ b.gate[v] = 1 /\ b.wave[v] = patch.wave
      /\ b.env[v] = patch.env /\ b.freq[v] = <<n, bend>>
      /\ b.settings = {}
  BY <1>1, NoteOnBlockIs
<1> HIDE DEF b
<1>3. /\ \A w \in Voices : note'[w] = IF w = v THEN n ELSE note[w]
      /\ \A w \in Voices : state'[w] = IF w = v THEN "held" ELSE state[w]
  BY <1>0, <1>1, <1>2 DEF Table, TableTypeOK
<1>4. InUse' = InUse \union {v}
  BY <1>1, <1>3 DEF InUse
<1>5. Table'
  <2>1. on_time' \in [Voices -> Voices] /\ Ranked'
    BY <1>0, <1>1, <1>2, TouchRanks DEF Table, TableTypeOK
  <2>2. TableTypeOK'
    BY <1>0, <1>1, <1>2, <2>1 DEF Table, TableTypeOK, States, Voices
  <2>3. Noted'
    BY <1>0, <1>3, <1>4 DEF Table, Noted, InUse
  <2>4. UniqueNotes'
    <3> SUFFICES ASSUME NEW x \in InUse', NEW y \in InUse', note'[x] = note'[y]
                 PROVE  x = y
      BY DEF UniqueNotes
    <3>1. ASSUME NEW u \in InUse, u # v PROVE note[u] # n
      <4>1. ASSUME note[u] = n PROVE FALSE
        <5>1. u \in Playing(n)
          BY <1>0, <4>1 DEF InUse, Playing, Table, TableTypeOK, States
        <5>2. v \in InUse /\ note[v] = n
          BY <1>1, <5>1 DEF Playing, InUse
        <5> QED BY <1>0, <3>1, <4>1, <5>2 DEF Table, UniqueNotes
      <4> QED BY <4>1
    <3>2. x \in Voices /\ y \in Voices
      BY <1>1, <1>4 DEF InUse
    <3> QED BY <1>0, <1>3, <1>4, <3>1, <3>2 DEF Table, UniqueNotes
  <2> QED BY <2>1, <2>2, <2>3, <2>4 DEF Table
<1>6. Rest'
  BY <1>0, <1>2 DEF Rest, Patches
<1>7. CASE Sent(b)
  <2>1. WellFormed(b)
    <3>1. \A w \in Voices : w \in DOMAIN b.gate => b.gate[w] \in {0, 1}
      BY <1>9
    <3>2. patch.wave \in Waves /\ patch.env \in Envs /\ <<n, bend>> \in Notes \X Bends
      BY <1>0 DEF Rest, Patches
    <3>3. \A w \in Voices :
             /\ w \in DOMAIN b.wave => b.wave[w] \in Waves \union {Zero}
             /\ w \in DOMAIN b.env  => b.env[w] \in Envs \union {Zero}
             /\ w \in DOMAIN b.freq => b.freq[w] \in (Notes \X Bends) \union {Zero}
      BY <1>9, <3>2
    <3> QED BY <1>9, <3>1, <3>3 DEF WellFormed
  <2>2. /\ Chip' /\ synced' = synced
        /\ synced => sid' = Apply(sid, b)
        /\ ~synced => Agree'
    BY <1>0, <1>7, <2>1, AfterSent
  <2>3. ASSUME synced PROVE Agree'
    <3>1. \A w \in Voices :
            /\ sid'.gate[w] = IF w = v THEN 1 ELSE sid.gate[w]
            /\ sid'.wave[w] = IF w = v THEN patch.wave ELSE sid.wave[w]
            /\ sid'.env[w] = IF w = v THEN patch.env ELSE sid.env[w]
            /\ sid'.freq[w] = IF w = v THEN <<n, bend>> ELSE sid.freq[w]
      <4> SUFFICES ASSUME NEW w \in Voices
                   PROVE  /\ sid'.gate[w] = IF w = v THEN 1 ELSE sid.gate[w]
                          /\ sid'.wave[w] = IF w = v THEN patch.wave ELSE sid.wave[w]
                          /\ sid'.env[w] = IF w = v THEN patch.env ELSE sid.env[w]
                          /\ sid'.freq[w] = IF w = v THEN <<n, bend>> ELSE sid.freq[w]
        OBVIOUS
      <4>1. sid' = Apply(sid, b)
        BY <2>2, <2>3
      <4>2. sid'.gate[w] = IF w = v THEN 1 ELSE sid.gate[w]
        BY <1>9, <4>1, AfterApply
      <4>3. /\ sid'.wave[w] = IF w = v THEN patch.wave ELSE sid.wave[w]
            /\ sid'.env[w] = IF w = v THEN patch.env ELSE sid.env[w]
            /\ sid'.freq[w] = IF w = v THEN <<n, bend>> ELSE sid.freq[w]
        BY <1>9, <4>1, AfterApply
      <4> QED BY <4>2, <4>3
    <3>2. sid'.settings = sid.settings
      BY <1>9, <2>2, <2>3, SettingsAfterApply
    <3>3. GateFollowsTable'
      BY <1>0, <1>3, <2>3, <3>1 DEF Agree, GateFollowsTable, Voices
    <3>4. InTune'
      <4> SUFFICES ASSUME NEW w \in InUse'
                   PROVE  /\ \E x \in Bends : sid'.freq[w] = <<note'[w], x>>
                          /\ ~dirty => sid'.freq[w] = <<note'[w], bend>>
        BY <1>2 DEF InTune
      <4>1. w \in Voices
        BY <1>1, <1>4 DEF InUse
      <4>2. CASE w = v
        BY <1>0, <1>3, <3>1, <4>1, <4>2 DEF Rest
      <4>3. CASE w # v
        BY <1>0, <1>3, <1>4, <2>3, <3>1, <4>1, <4>3 DEF Agree, InTune
      <4> QED BY <4>2, <4>3
    <3>5. PatchApplied'
      BY <1>0, <1>2, <1>4, <2>3, <3>1, <3>2 DEF Agree, PatchApplied, InUse
    <3> QED BY <3>3, <3>4, <3>5 DEF Agree
  <2> QED BY <1>5, <1>6, <2>2, <2>3, HalvesAfter
<1>8. CASE Raised
  BY <1>5, <1>6, <1>8, AfterRaised, HalvesAfter
<1> QED BY <1>2, <1>7, <1>8

-----------------------------------------------------------------------------
(* note_off *)

LEMMA NoteOffStep ==
    ASSUME IInv, NEW n \in Notes, note_off(n)
    PROVE  IInv'
<1> DEFINE v == First(_find_held(n))
           b == NoteOffBlock(v)
<1>0. Table /\ Rest /\ Chip /\ Agree
  BY Halves
<1>1. v \in Voices /\ state[v] = "held"
  <2>1. _find_held(n) \in SUBSET Voices /\ _find_held(n) # {}
    BY DEF note_off, _find_held
  <2>2. v \in _find_held(n)
    BY <2>1, FirstIn
  <2> QED BY <2>2 DEF _find_held
<1>2. /\ state' = [state EXCEPT ![v] = "releasing"]
      /\ note' = note /\ on_time' = on_time
      /\ bend' = bend /\ dirty' = dirty /\ patch' = patch
      /\ Sent(b) \/ Raised
  BY DEF note_off, Write, Failed
<1> HIDE DEF v
<1>3. /\ DOMAIN b.gate = {v} /\ DOMAIN b.wave = {v}
      /\ DOMAIN b.env = {} /\ DOMAIN b.freq = {}
      /\ b.gate[v] = 0 /\ b.wave[v] = patch.wave /\ b.settings = {}
  BY DEF NoteOffBlock, NoWrite, NoRegs
<1> HIDE DEF b
<1>4. \A w \in Voices : state'[w] = IF w = v THEN "releasing" ELSE state[w]
  BY <1>0, <1>1, <1>2 DEF Table, TableTypeOK
<1>5. InUse' = InUse
  BY <1>1, <1>4 DEF InUse
<1>6. Table'
  BY <1>0, <1>1, <1>2, <1>5
  DEF Table, TableTypeOK, Noted, Ranked, UniqueNotes, States, Voices
<1>7. Rest'
  BY <1>0, <1>2 DEF Rest, Patches
<1>8. CASE Sent(b)
  <2>1. WellFormed(b)
    BY <1>0, <1>3 DEF WellFormed, Rest, Patches
  <2>2. /\ Chip' /\ synced' = synced
        /\ synced => sid' = Apply(sid, b)
        /\ ~synced => Agree'
    BY <1>0, <1>8, <2>1, AfterSent
  <2>3. ASSUME synced PROVE Agree'
    <3>1. sid' = Apply(sid, b)
      BY <2>2, <2>3
    <3>2. \A w \in Voices :
            /\ sid'.gate[w] = IF w = v THEN 0 ELSE sid.gate[w]
            /\ sid'.wave[w] = IF w = v THEN patch.wave ELSE sid.wave[w]
            /\ sid'.env[w] = sid.env[w]
            /\ sid'.freq[w] = sid.freq[w]
      BY <1>3, <3>1, AfterApply
    <3>3. sid'.settings = sid.settings
      BY <1>3, <3>1, SettingsAfterApply
    <3>4. GateFollowsTable'
      BY <1>0, <1>4, <2>3, <3>2 DEF Agree, GateFollowsTable, Voices
    <3>5. InTune'
      BY <1>0, <1>2, <1>5, <2>3, <3>2 DEF Agree, InTune, InUse
    <3>6. PatchApplied'
      BY <1>0, <1>2, <1>5, <2>3, <3>2, <3>3 DEF Agree, PatchApplied, InUse
    <3> QED BY <3>4, <3>5, <3>6 DEF Agree
  <2> QED BY <1>6, <1>7, <2>2, <2>3, HalvesAfter
<1>9. CASE Raised
  BY <1>6, <1>7, <1>9, AfterRaised, HalvesAfter
<1> QED BY <1>2, <1>8, <1>9

-----------------------------------------------------------------------------
(* The wheel *)

\* A flush with the wheel at x, as pitch_bend and the flush thread make it.
LEMMA FlushStep ==
    ASSUME IInv, NEW x \in Bends, bend' = x, Flush(RetuneBlock(x)),
           UNCHANGED <<note, state, on_time, patch>>
    PROVE  IInv'
<1> DEFINE b == RetuneBlock(x)
<1>0. Table /\ Rest /\ Chip /\ Agree
  BY Halves
<1>1. InUse' = InUse
  BY DEF InUse
<1>2. Table'
  BY <1>0, <1>1 DEF Table, TableTypeOK, Noted, Ranked, UniqueNotes, Voices
<1>3. Rest'
  BY <1>0 DEF Rest, Patches, Flush
<1>4. \A v \in InUse : v \in Voices /\ note[v] \in Notes
  BY <1>0 DEF Table, Noted, InUse
<1>5. /\ DOMAIN b.gate = {} /\ DOMAIN b.wave = {} /\ DOMAIN b.env = {}
      /\ b.settings = {}
      /\ DOMAIN b.freq = InUse
      /\ \A v \in InUse : b.freq[v] = <<note[v], x>>
  BY <1>4, ChipAssumption DEF RetuneBlock, NoWrite, NoRegs
<1> HIDE DEF b
<1>6. CASE dirty' = FALSE /\ Sent(b)
  <2>1. WellFormed(b)
    BY <1>4, <1>5 DEF WellFormed
  <2>2. /\ Chip' /\ synced' = synced
        /\ synced => sid' = Apply(sid, b)
        /\ ~synced => Agree'
    BY <1>0, <1>6, <2>1, AfterSent
  <2>3. ASSUME synced PROVE Agree'
    <3>1. sid' = Apply(sid, b)
      BY <2>2, <2>3
    <3>2. \A w \in Voices :
            /\ sid'.gate[w] = sid.gate[w]
            /\ sid'.wave[w] = sid.wave[w]
            /\ sid'.env[w] = sid.env[w]
            /\ sid'.freq[w] = IF w \in InUse THEN <<note[w], x>> ELSE sid.freq[w]
      BY <1>5, <3>1, AfterApply
    <3>3. sid'.settings = sid.settings
      BY <1>5, <3>1, SettingsAfterApply
    <3>4. GateFollowsTable'
      BY <1>0, <2>3, <3>2 DEF Agree, GateFollowsTable, Voices
    <3>5. InTune'
      BY <1>0, <1>1, <1>4, <3>2 DEF InTune
    <3>6. PatchApplied'
      BY <1>0, <1>1, <1>4, <2>3, <3>2, <3>3 DEF Agree, PatchApplied
    <3> QED BY <3>4, <3>5, <3>6 DEF Agree
  <2> QED BY <1>2, <1>3, <2>2, <2>3, HalvesAfter
<1>7. CASE dirty' = TRUE /\ Dropped
  <2>1. Chip'
    BY <1>0, <1>7 DEF Chip, Dropped, Registers, Voices
  <2>2. Agree'
    BY <1>0, <1>1, <1>7
    DEF Agree, GateFollowsTable, InTune, PatchApplied, Dropped, Voices
  <2> QED BY <1>2, <1>3, <2>1, <2>2, HalvesAfter
<1>8. CASE dirty' = TRUE /\ Raised
  BY <1>2, <1>3, <1>8, AfterRaised, HalvesAfter
<1> QED BY <1>6, <1>7, <1>8 DEF Flush, Failed, b

LEMMA WheelStep ==
    ASSUME IInv, flush_bend \/ \E x \in Bends : pitch_bend(x)
    PROVE  IInv'
<1>1. CASE flush_bend
  <2>1. bend \in Bends
    BY DEF IInv, TypeOK, ChipTypeOK
  <2> QED BY <1>1, <2>1, FlushStep DEF flush_bend
<1>2. CASE \E x \in Bends : pitch_bend(x)
  BY <1>2, FlushStep DEF pitch_bend
<1> QED BY <1>1, <1>2

-----------------------------------------------------------------------------
(* Controllers *)

LEMMA ControlGlobalsStep ==
    ASSUME IInv, NEW g \in Settings, ControlGlobals(g)
    PROVE  IInv'
<1> DEFINE b == GlobalsBlock(patch')
<1>0. Table /\ Rest /\ Chip /\ Agree
  BY Halves
<1>1. /\ patch'.wave = patch.wave /\ patch'.env = patch.env
      /\ patch'.settings = g /\ patch' \in Patches
  BY <1>0 DEF ControlGlobals, Rest, Patches
<1>2. InUse' = InUse
  BY DEF InUse, ControlGlobals
<1>3. Table' /\ Rest'
  BY <1>0, <1>1, <1>2
  DEF ControlGlobals, Table, TableTypeOK, Noted, Ranked, UniqueNotes, Voices, Rest
<1>4. /\ DOMAIN b.gate = {} /\ DOMAIN b.wave = {} /\ DOMAIN b.env = {}
      /\ DOMAIN b.freq = {} /\ b.settings = {g}
  BY <1>1 DEF GlobalsBlock, NoWrite, NoRegs
<1>5. Sent(b) \/ Raised
  BY DEF ControlGlobals, Write, Failed
<1> HIDE DEF b
<1>6. CASE Sent(b)
  <2>1. WellFormed(b)
    BY <1>4 DEF WellFormed
  <2>2. /\ Chip' /\ synced' = synced
        /\ synced => sid' = Apply(sid, b)
        /\ ~synced => Agree'
    BY <1>0, <1>6, <2>1, AfterSent
  <2>3. ASSUME synced PROVE Agree'
    <3>1. sid' = Apply(sid, b)
      BY <2>2, <2>3
    <3>2. \A w \in Voices :
            /\ sid'.gate[w] = sid.gate[w] /\ sid'.wave[w] = sid.wave[w]
            /\ sid'.env[w] = sid.env[w] /\ sid'.freq[w] = sid.freq[w]
      BY <1>4, <3>1, AfterApply
    <3>3. sid'.settings = g
      BY <1>4, <3>1, SettingsAfterApply
    <3>4. GateFollowsTable' /\ InTune'
      BY <1>0, <1>2, <2>3, <3>2
      DEF Agree, GateFollowsTable, InTune, ControlGlobals, Voices, InUse
    <3>5. PatchApplied'
      BY <1>0, <1>1, <1>2, <2>3, <3>2, <3>3 DEF Agree, PatchApplied, InUse
    <3> QED BY <3>4, <3>5 DEF Agree
  <2> QED BY <1>3, <2>2, <2>3, HalvesAfter
<1>7. CASE Raised
  BY <1>3, <1>7, AfterRaised, HalvesAfter
<1> QED BY <1>5, <1>6, <1>7

LEMMA ControlVoiceStep ==
    ASSUME IInv, NEW x \in Waves, NEW e \in Envs, ControlVoice(x, e)
    PROVE  IInv'
<1> DEFINE b == VoicePatchBlock(patch')
<1>0. Table /\ Rest /\ Chip /\ Agree
  BY Halves
<1>1. /\ patch'.wave = x /\ patch'.env = e
      /\ patch'.settings = patch.settings /\ patch' \in Patches
  BY <1>0 DEF ControlVoice, Rest, Patches
<1>2. InUse' = InUse /\ InUse \subseteq Voices
  BY DEF InUse, ControlVoice
<1>3. Table' /\ Rest'
  BY <1>0, <1>1, <1>2
  DEF ControlVoice, Table, TableTypeOK, Noted, Ranked, UniqueNotes, Voices, Rest
<1>4. /\ DOMAIN b.gate = InUse /\ DOMAIN b.wave = InUse /\ DOMAIN b.env = InUse
      /\ DOMAIN b.freq = {} /\ b.settings = {}
      /\ \A w \in InUse : /\ b.gate[w] = IF state[w] = "held" THEN 1 ELSE 0
                          /\ b.wave[w] = x /\ b.env[w] = e
  BY <1>1 DEF VoicePatchBlock, NoWrite, NoRegs
<1>5. Sent(b) \/ Raised
  BY DEF ControlVoice, Write, Failed
<1> HIDE DEF b
<1>6. CASE Sent(b)
  <2>1. WellFormed(b)
    BY <1>4 DEF WellFormed
  <2>2. /\ Chip' /\ synced' = synced
        /\ synced => sid' = Apply(sid, b)
        /\ ~synced => Agree'
    BY <1>0, <1>6, <2>1, AfterSent
  <2>3. ASSUME synced PROVE Agree'
    <3>1. sid' = Apply(sid, b)
      BY <2>2, <2>3
    <3>2. \A w \in Voices :
            /\ sid'.gate[w] = IF w \in InUse THEN IF state[w] = "held" THEN 1 ELSE 0
                              ELSE sid.gate[w]
            /\ sid'.wave[w] = IF w \in InUse THEN x ELSE sid.wave[w]
            /\ sid'.env[w] = IF w \in InUse THEN e ELSE sid.env[w]
            /\ sid'.freq[w] = sid.freq[w]
      BY <1>4, <3>1, AfterApply
    <3>3. sid'.settings = sid.settings
      BY <1>4, <3>1, SettingsAfterApply
    <3>4. GateFollowsTable'
      BY <1>0, <2>3, <3>2
      DEF Agree, GateFollowsTable, ControlVoice, Voices, InUse
    <3>5. InTune'
      BY <1>0, <1>2, <2>3, <3>2 DEF Agree, InTune, ControlVoice
    <3>6. PatchApplied'
      BY <1>0, <1>1, <1>2, <2>3, <3>2, <3>3 DEF Agree, PatchApplied
    <3> QED BY <3>4, <3>5, <3>6 DEF Agree
  <2> QED BY <1>3, <2>2, <2>3, HalvesAfter
<1>7. CASE Raised
  BY <1>3, <1>7, AfterRaised, HalvesAfter
<1> QED BY <1>5, <1>6, <1>7

-----------------------------------------------------------------------------
(* Panic, recovery and the end *)

\* With every voice free the table is in order, and only the gates and the
\* filter settings remain to be checked.
LEMMA AllFreeTable ==
    ASSUME Table, note' \in [Voices -> Notes \union {NoNote}], state' = AllFree,
           on_time' = on_time
    PROVE  Table' /\ InUse' = {}
<1>1. \A v \in Voices : state'[v] = "free"
  BY DEF AllFree
<1>2. InUse' = {}
  BY <1>1 DEF InUse, Voices
<1>3. state' \in [Voices -> States]
  BY DEF AllFree, States
<1>4. TableTypeOK'
  BY <1>3 DEF Table, TableTypeOK, Voices
<1>5. Ranked'
  BY DEF Table, Ranked, Voices
<1> QED BY <1>2, <1>4, <1>5 DEF Table, Noted, UniqueNotes

LEMMA AllFreeAgree ==
    ASSUME InUse' = {}, state' = AllFree, \A v \in Voices : sid'.gate[v] = 0,
           sid'.settings = patch'.settings
    PROVE  Agree'
<1>1. \A v \in Voices : state'[v] = "free"
  BY DEF AllFree
<1> QED BY <1>1 DEF Agree, GateFollowsTable, InTune, PatchApplied, Voices

LEMMA AllNotesOffStep == ASSUME IInv, all_notes_off PROVE IInv'
<1> DEFINE b == GateOffBlock
<1>0. Table /\ Rest /\ Chip /\ Agree
  BY Halves
<1>1. note' \in [Voices -> Notes \union {NoNote}]
  BY <1>0 DEF all_notes_off, Table, TableTypeOK
<1>2. Table' /\ InUse' = {} /\ Rest'
  BY <1>0, <1>1, AllFreeTable DEF all_notes_off, Rest
<1>3. /\ DOMAIN b.gate = InUse /\ DOMAIN b.wave = InUse /\ DOMAIN b.env = {}
      /\ DOMAIN b.freq = {} /\ b.settings = {}
      /\ \A w \in InUse : b.gate[w] = 0 /\ b.wave[w] = patch.wave
  BY DEF GateOffBlock, NoWrite, NoRegs
<1>4. Sent(b) \/ Raised
  BY DEF all_notes_off, Write, Failed
<1> HIDE DEF b
<1>5. CASE Sent(b)
  <2>1. WellFormed(b)
    BY <1>0, <1>3 DEF WellFormed, Rest, Patches
  <2>2. /\ Chip' /\ synced' = synced
        /\ synced => sid' = Apply(sid, b)
        /\ ~synced => Agree'
    BY <1>0, <1>5, <2>1, AfterSent
  <2>3. ASSUME synced PROVE Agree'
    <3>1. sid' = Apply(sid, b)
      BY <2>2, <2>3
    <3>2. \A w \in Voices : sid'.gate[w] = IF w \in InUse THEN 0 ELSE sid.gate[w]
      BY <1>3, <3>1, AfterApply
    <3>3. \A w \in Voices \ InUse : sid.gate[w] = 0
      BY <1>0, <2>3 DEF Agree, GateFollowsTable, InUse, Chip, Registers
    <3>4. sid'.settings = patch'.settings
      BY <1>0, <1>3, <2>3, <3>1, SettingsAfterApply
      DEF Agree, PatchApplied, all_notes_off
    <3> QED BY <1>2, <3>2, <3>3, <3>4, AllFreeAgree DEF all_notes_off
  <2> QED BY <1>2, <2>2, <2>3, HalvesAfter
<1>6. CASE Raised
  BY <1>2, <1>6, AfterRaised, HalvesAfter
<1> QED BY <1>4, <1>5, <1>6

\* Whatever it held, a chip armed and given its filter and volume is silent.
LEMMA ArmedChip ==
    ASSUME NEW s \in Registers, NEW p \in Patches
    PROVE  LET r == Apply(Apply(s, ArmBlock), GlobalsBlock(p))
           IN  /\ r \in Registers
               /\ \A v \in Voices : r.gate[v] = 0
               /\ r.settings = p.settings
<1> DEFINE m == Apply(s, ArmBlock)
           r == Apply(m, GlobalsBlock(p))
<1>1. /\ DOMAIN ArmBlock.gate = Voices /\ \A v \in Voices : ArmBlock.gate[v] = 0
      /\ \A v \in Voices : /\ ArmBlock.wave[v] = Zero /\ ArmBlock.env[v] = Zero
                           /\ ArmBlock.freq[v] = Zero
      /\ ArmBlock.settings = {Zero}
  BY DEF ArmBlock, TestBlock, NoWrite, NoRegs
<1>2. WellFormed(ArmBlock)
  BY <1>1 DEF WellFormed
<1>3. m \in Registers /\ \A v \in Voices : m.gate[v] = 0
  BY <1>1, <1>2, ApplyType, AfterApply
<1>4. /\ DOMAIN GlobalsBlock(p).gate = {} /\ DOMAIN GlobalsBlock(p).wave = {}
      /\ DOMAIN GlobalsBlock(p).env = {} /\ DOMAIN GlobalsBlock(p).freq = {}
      /\ GlobalsBlock(p).settings = {p.settings} /\ p.settings \in Settings
  BY DEF GlobalsBlock, NoWrite, NoRegs, Patches
<1>5. WellFormed(GlobalsBlock(p))
  BY <1>4 DEF WellFormed
<1> HIDE DEF m
<1>6. r \in Registers /\ \A v \in Voices : r.gate[v] = 0
  BY <1>3, <1>4, <1>5, ApplyType, AfterApply
<1>7. r.settings = p.settings
  BY <1>4, SettingsAfterApply
<1> QED BY <1>6, <1>7 DEF m

\* A recovery that runs to its end, or fails once the voices are released.
LEMMA RearmedStep ==
    ASSUME IInv, Release, dirty' = FALSE, UNCHANGED <<on_time, bend, patch>>,
           NEW s \in Registers, NEW step \in BOOLEAN, Rearmed(s, step)
    PROVE  IInv'
<1>0. Table /\ Rest /\ Chip /\ Agree
  BY Halves
<1>1. note' \in [Voices -> Notes \union {NoNote}] /\ state' = AllFree
  BY DEF Release, NoNotes
<1>2. Table' /\ InUse' = {}
  BY <1>0, <1>1, AllFreeTable
<1>3. Rest'
  BY <1>0 DEF Rest, Patches
<1>4. ASSUME sid' = Apply(Apply(s, ArmBlock), GlobalsBlock(patch)),
             synced' = TRUE, aligned' = TRUE
      PROVE  IInv'
  <2>1. patch \in Patches
    BY <1>0 DEF Rest
  <2>2. /\ sid' \in Registers /\ \A v \in Voices : sid'.gate[v] = 0
        /\ sid'.settings = patch.settings
    BY <1>4, <2>1, ArmedChip
  <2>3. Chip'
    BY <1>4, <2>2 DEF Chip, Registers, Voices
  <2>4. Agree'
    BY <1>1, <1>2, <2>2, AllFreeAgree
  <2> QED BY <1>2, <1>3, <2>3, <2>4, HalvesAfter
<1>5. ASSUME Raised PROVE IInv'
  BY <1>2, <1>3, <1>5, AfterRaised, HalvesAfter
<1>6. CASE step = TRUE
  BY <1>4, <1>5, <1>6 DEF Rearmed
<1>7. CASE step = FALSE
  <2>1. Raised \/ (sid' = Unknown /\ synced' = FALSE /\ aligned' = FALSE)
    BY <1>7 DEF Rearmed
  <2> QED BY <1>5, <2>1 DEF Raised
<1> QED BY <1>6, <1>7

LEMMA RecoverStep == ASSUME IInv, recover PROVE IInv'
<1>0. Table /\ Rest /\ Chip /\ Agree
  BY Halves
<1>1. CASE Release /\ dirty' = FALSE /\ Recovered(sid)
  <2>1. PICK step \in {aligned, TRUE} : Rearmed(sid, step)
    BY <1>1 DEF Recovered
  <2>2. step \in BOOLEAN /\ sid \in Registers
    BY <1>0 DEF Chip
  <2> QED BY <1>1, <2>1, <2>2, RearmedStep DEF recover
<1>2. CASE Raised /\ UNCHANGED <<note, state, dirty>>
  <2>1. Table' /\ Rest'
    BY <1>0, <1>2 DEF recover, Table, TableTypeOK, Noted, Ranked, UniqueNotes,
                      InUse, Voices, Rest, Patches
  <2> QED BY <1>2, <2>1, AfterRaised, HalvesAfter
<1> QED BY <1>1, <1>2 DEF recover

LEMMA HardPanicStep == ASSUME IInv, hard_panic PROVE IInv'
<1>0. Table /\ Rest /\ Chip /\ Agree
  BY Halves
<1>1. /\ \A v \in Voices : /\ ZeroBlock.gate[v] = 0 /\ ZeroBlock.wave[v] = Zero
                           /\ ZeroBlock.env[v] = Zero /\ ZeroBlock.freq[v] = Zero
      /\ ZeroBlock.settings = {Zero}
  BY DEF ZeroBlock, ArmBlock, TestBlock, NoWrite, NoRegs
<1>2. WellFormed(ZeroBlock)
  BY <1>1 DEF WellFormed
<1>3. Apply(sid, ZeroBlock) \in Registers
  BY <1>0, <1>2, ApplyType DEF Chip
<1>4. PICK step \in {aligned, TRUE} : Rearmed(Apply(sid, ZeroBlock), step)
  BY DEF hard_panic, Recovered
<1>5. step \in BOOLEAN
  BY <1>0 DEF Chip
<1> QED BY <1>3, <1>4, <1>5, RearmedStep DEF hard_panic

LEMMA SidHardResetStep == ASSUME IInv, sid_hard_reset PROVE IInv'
<1> DEFINE m == Apply(sid, TestBlock)
           r == Apply(m, ControlZeroBlock)
<1>0. Table /\ Rest /\ Chip /\ Agree
  BY Halves
<1>1. Rest'
  BY <1>0 DEF sid_hard_reset, Rest, Patches
<1>2. CASE Raised /\ UNCHANGED <<note, state>>
  <2>1. Table'
    BY <1>0, <1>2 DEF sid_hard_reset, Table, TableTypeOK, Noted, Ranked,
                      UniqueNotes, InUse, Voices
  <2> QED BY <1>1, <1>2, <2>1, AfterRaised, HalvesAfter
<1>3. ASSUME Release PROVE Table' /\ InUse' = {}
  BY <1>0, <1>3, AllFreeTable DEF Release, NoNotes, sid_hard_reset
<1>4. CASE Release /\ Raised
  BY <1>1, <1>3, <1>4, AfterRaised, HalvesAfter
<1>5. CASE /\ Release
           /\ sid' = IF synced THEN r ELSE sid
           /\ UNCHANGED <<synced, aligned>>
  <2>1. /\ \A v \in Voices : TestBlock.gate[v] = 0 /\ TestBlock.wave[v] = Zero
                             /\ TestBlock.env[v] = Zero
        /\ DOMAIN TestBlock.freq = {} /\ TestBlock.settings = {}
    BY DEF TestBlock, NoWrite, NoRegs
  <2>2. /\ DOMAIN ControlZeroBlock.gate = Voices
        /\ \A v \in Voices : /\ ControlZeroBlock.gate[v] = 0
                             /\ ControlZeroBlock.wave[v] = Zero
        /\ DOMAIN ControlZeroBlock.env = {} /\ DOMAIN ControlZeroBlock.freq = {}
        /\ ControlZeroBlock.settings = {}
    BY DEF ControlZeroBlock, NoWrite, NoRegs
  <2>3. WellFormed(TestBlock) /\ WellFormed(ControlZeroBlock)
    BY <2>1, <2>2 DEF WellFormed
  <2>4. m \in Registers /\ m.settings = sid.settings
    BY <1>0, <2>1, <2>3, ApplyType, SettingsAfterApply DEF Chip
  <2> HIDE DEF m
  <2>5. /\ r \in Registers /\ \A v \in Voices : r.gate[v] = 0
        /\ r.settings = sid.settings
    BY <2>2, <2>3, <2>4, ApplyType, AfterApply, SettingsAfterApply
  <2> HIDE DEF r
  <2>6. Chip'
    <3>1. sid' \in Registers /\ synced' \in BOOLEAN /\ aligned' \in BOOLEAN
      BY <1>0, <1>5, <2>5 DEF Chip
    <3> QED BY <3>1 DEF Chip, Registers, Voices
  <2>7. Agree'
    <3>1. CASE synced
      <4>1. sid.settings = patch.settings /\ patch' = patch
        BY <1>0, <3>1 DEF Agree, PatchApplied, sid_hard_reset
      <4> QED BY <1>3, <1>5, <2>5, <3>1, <4>1, AllFreeAgree DEF Release
    <3>2. CASE ~synced
      BY <1>5, <3>2 DEF Agree, GateFollowsTable, InTune, PatchApplied
    <3> QED BY <3>1, <3>2
  <2> QED BY <1>1, <1>3, <1>5, <2>6, <2>7, HalvesAfter
<1> QED BY <1>2, <1>4, <1>5 DEF sid_hard_reset, m, r

-----------------------------------------------------------------------------
LEMMA InitIInv == Init => IInv
<1> SUFFICES ASSUME Init PROVE IInv
  OBVIOUS
<1>1. \A v \in Voices : state[v] = "free" /\ sid.gate[v] = 0
  BY DEF Init, ChipInit, AllFree
<1>2. InUse = {}
  BY <1>1 DEF InUse
<1>3. TableTypeOK /\ Ranked
  BY DEF Init, ChipInit, TableTypeOK, Ranked, AllFree, NoNotes, States
<1>4. Table
  BY <1>2, <1>3 DEF Table, Noted, UniqueNotes
<1>5. Rest
  BY DEF Init, ChipInit, Rest
<1>6. Chip
  BY DEF Init, ChipInit, Chip, Registers, Patches
<1>7. Agree
  BY <1>1, <1>2 DEF Init, ChipInit, Agree, GateFollowsTable, InTune, PatchApplied
<1> QED BY <1>4, <1>5, <1>6, <1>7, Halves

LEMMA StutterStep == ASSUME IInv, UNCHANGED vars PROVE IInv'
<1>0. Table /\ Rest /\ Chip /\ Agree
  BY Halves
<1>1. Table' /\ Rest'
  BY <1>0 DEF vars, Table, TableTypeOK, Noted, Ranked, UniqueNotes, InUse,
              Voices, Rest, Patches
<1>2. Chip' /\ Agree'
  BY <1>0 DEF vars, Chip, Agree, GateFollowsTable, InTune, PatchApplied, InUse,
              Registers, Voices
<1> QED BY <1>1, <1>2, HalvesAfter

LEMMA NextIInv == IInv /\ [Next]_vars => IInv'
<1> SUFFICES ASSUME IInv, [Next]_vars PROVE IInv'
  OBVIOUS
<1>1. CASE UNCHANGED vars
  BY <1>1, StutterStep
<1>2. CASE Next
  BY <1>2, NoteOnStep, NoteOffStep, WheelStep, ControlGlobalsStep,
     ControlVoiceStep, AllNotesOffStep, RecoverStep, HardPanicStep,
     SidHardResetStep DEF Next
<1> QED BY <1>1, <1>2

\* The driver's voice table and the chip agree after every handler: types, one
\* voice per note, gates, pitches and patch (ChipChannel, MidiToSid).
THEOREM ChipAgreement ==
    Spec => [](TypeOK /\ UniqueNotes /\ GateFollowsTable /\ InTune /\ PatchApplied)
<1>1. IInv => TypeOK /\ UniqueNotes /\ GateFollowsTable /\ InTune /\ PatchApplied
  BY DEF IInv
<1> QED BY <1>1, InitIInv, NextIInv, PTL DEF Spec

\* A note-on that goes out restarts the envelope of its voice: a voice that was
\* free has its gate closed (GateFollowsTable), and any other gets the pulse.
THEOREM AttackIsFresh == Spec => FreshAttack
<1>1. IInv /\ [Next]_vars => [AttackRestarts]_vars
  <2> SUFFICES ASSUME IInv, NEW n \in Notes, note_on(n), synced, synced'
               PROVE  \E v \in Voices : /\ note'[v] = n /\ state'[v] = "held"
                                       /\ sid'.gate[v] = 1
                                       /\ sid'.attacks[v] # sid.attacks[v]
    BY DEF AttackRestarts
  <2> DEFINE v == _allocate(n)
             b == NoteOnBlock(v, n)
  <2>0. Table /\ Chip /\ Agree
    BY Halves
  <2>1. v \in Voices
    BY <2>0, AllocateIn DEF Table
  <2>2. note' = [note EXCEPT ![v] = n] /\ state' = [state EXCEPT ![v] = "held"]
    BY DEF note_on
  <2>3. sid' = Apply(sid, b)
    BY DEF note_on, Write, Failed, Raised, Sent
  <2>4. DOMAIN b.gate = {v} /\ b.gate[v] = 1
    BY <2>1, NoteOnBlockIs
  <2>5. b.pulse = IF state[v] # "free" THEN {v} ELSE {}
    BY DEF NoteOnBlock, NoWrite
  <2> HIDE DEF v, b
  <2>6. sid.gate[v] = 0 \/ v \in b.pulse
    BY <2>0, <2>1, <2>5 DEF Agree, GateFollowsTable, Chip, Registers
  <2>7. sid'.gate[v] = 1
    BY <2>1, <2>3, <2>4, AfterApply
  <2>8. sid'.attacks[v] = 1 - sid.attacks[v]
    BY <2>1, <2>3, <2>4, <2>6 DEF Apply, Over
  <2>9. sid.attacks[v] \in {0, 1}
    BY <2>0, <2>1 DEF Chip, Registers
  <2>10. note'[v] = n /\ state'[v] = "held"
    BY <2>0, <2>1, <2>2 DEF Table, TableTypeOK
  <2>11. sid'.attacks[v] # sid.attacks[v]
    BY <2>8, <2>9
  <2> QED BY <2>1, <2>7, <2>10, <2>11
<1> QED BY <1>1, InitIInv, NextIInv, PTL DEF Spec, FreshAttack

-----------------------------------------------------------------------------
(* The promise of Instrument, for any number of voices: while the chip is in *)
(* sync its open gates are the held voices and their frequencies the held    *)
(* notes, so what is heard can be read off the voice table.                  *)

Held == {v \in Voices : state[v] = "held"}
HeldNotes == {note[v] : v \in Held}

\* The note of one held voice is struck before that of another.
HeldBefore(m, k) == \E v, w \in Held : /\ on_time[v] < on_time[w]
                                       /\ m = note[v] /\ k = note[w]

\* What is heard, and in which order it was struck, is what the table says.
ReadOff == /\ Heard = IF synced THEN HeldNotes ELSE {}
           /\ HeardBefore \subseteq Heard \X Heard
           /\ \A m, k : <<m, k>> \in HeardBefore <=> synced /\ HeldBefore(m, k)

-----------------------------------------------------------------------------
(* Reading the table *)

\* The open gates are the held voices, and each sounds its note
\* (GateFollowsTable, InTune).
LEMMA OpenIsHeld ==
    ASSUME IInv, synced
    PROVE  /\ Open = Held
           /\ \A v \in Held : sid.freq[v][1] = note[v]
<1>1. Open = Held
  BY DEF IInv, GateFollowsTable, Open, Held
<1>2. ASSUME NEW v \in Held PROVE sid.freq[v][1] = note[v]
  <2>1. v \in InUse
    BY DEF Held, InUse
  <2>2. PICK x \in Bends : sid.freq[v] = <<note[v], x>>
    BY <2>1 DEF IInv, InTune
  <2> QED BY <2>2
<1> QED BY <1>1, <1>2

\* Whatever the registers hold, the table says what they sound.
LEMMA HeardIsHeld == IInv => ReadOff
<1> SUFFICES ASSUME IInv PROVE ReadOff
  OBVIOUS
<1>1. CASE synced
  <2>1. Open = Held /\ \A v \in Held : sid.freq[v][1] = note[v]
    BY <1>1, OpenIsHeld
  <2>2. Heard = HeldNotes
    BY <1>1, <2>1 DEF Heard, HeldNotes
  <2>3. HeardBefore \subseteq Heard \X Heard
    BY <1>1, <2>1 DEF HeardBefore, Heard, Older
  <2>4. ASSUME NEW m, NEW k
        PROVE  <<m, k>> \in HeardBefore <=> HeldBefore(m, k)
    <3>1. ASSUME <<m, k>> \in HeardBefore PROVE HeldBefore(m, k)
      <4>1. PICK p \in Older : <<m, k>> = <<sid.freq[p[1]][1], sid.freq[p[2]][1]>>
        BY <1>1, <3>1 DEF HeardBefore
      <4>2. p[1] \in Held /\ p[2] \in Held /\ on_time[p[1]] < on_time[p[2]]
        BY <2>1 DEF Older
      <4> QED BY <2>1, <4>1, <4>2 DEF HeldBefore
    <3>2. ASSUME HeldBefore(m, k) PROVE <<m, k>> \in HeardBefore
      <4>1. PICK v \in Held, w \in Held : /\ on_time[v] < on_time[w]
                                          /\ m = note[v] /\ k = note[w]
        BY <3>2 DEF HeldBefore
      <4>2. <<v, w>> \in Older
        BY <2>1, <4>1 DEF Older
      <4>3. <<m, k>> = <<sid.freq[<<v, w>>[1]][1], sid.freq[<<v, w>>[2]][1]>>
        BY <2>1, <4>1
      <4> QED BY <1>1, <4>2, <4>3 DEF HeardBefore
    <3> QED BY <3>1, <3>2
  <2> QED BY <1>1, <2>2, <2>3, <2>4 DEF ReadOff
<1>2. CASE ~synced
  BY <1>2 DEF Heard, HeardBefore, ReadOff
<1> QED BY <1>1, <1>2 DEF ReadOff

LEMMA HeardIsHeldAfter == IInv' => ReadOff'
  BY HeardIsHeld, PTL

-----------------------------------------------------------------------------
(* Steps *)

\* Nothing is heard when no voice is held, or nothing is known of the chip.
LEMMA SilentAfter ==
    ASSUME IInv', synced' => Held' = {}
    PROVE  Promise!Silent
<1>1. /\ Heard' = (IF synced' THEN HeldNotes' ELSE {})
      /\ HeardBefore' \subseteq Heard' \X Heard'
  BY HeardIsHeldAfter DEF ReadOff
<1>2. Heard' = {}
  BY <1>1 DEF HeldNotes
<1> QED BY <1>1, <1>2 DEF Promise!Silent

LEMMA MendAfter == ASSUME IInv', synced' = TRUE, Held' = {} PROVE Promise!Mend
  BY SilentAfter DEF Promise!Mend

LEMMA BreakAfter == ASSUME IInv', Raised PROVE Promise!Break
  BY SilentAfter DEF Promise!Break, Raised

\* A step that changes neither the held voices, nor their notes, nor their
\* order, nor what is known of the chip changes nothing that is heard.
LEMMA SameHeard ==
    ASSUME IInv, IInv', UNCHANGED <<note, state, on_time, synced>>
    PROVE  UNCHANGED Promise!vars
<1>1. Held' = Held /\ HeldNotes' = HeldNotes
  BY DEF Held, HeldNotes, Voices
<1>2. \A m, k : HeldBefore(m, k)' <=> HeldBefore(m, k)
  BY <1>1 DEF HeldBefore
<1>3. ReadOff /\ ReadOff'
  BY HeardIsHeld, HeardIsHeldAfter
<1>4. Heard' = Heard
  BY <1>1, <1>3 DEF ReadOff
<1>5. HeardBefore' = HeardBefore
  <2>1. \A m, k : <<m, k>> \in HeardBefore' <=> <<m, k>> \in HeardBefore
    BY <1>2, <1>3 DEF ReadOff
  <2> QED BY <1>3, <1>4, <2>1 DEF ReadOff
<1> QED BY <1>4, <1>5 DEF Promise!vars

\* Out of sync, nothing was heard and nothing is.
LEMMA StillUnheard ==
    ASSUME IInv, IInv', ~synced, ~synced'
    PROVE  UNCHANGED Promise!vars
<1>1. ReadOff /\ ReadOff'
  BY HeardIsHeld, HeardIsHeldAfter
<1>2. synced' = synced
  BY DEF IInv, TypeOK
<1> QED BY <1>1, <1>2 DEF ReadOff, Promise!vars

-----------------------------------------------------------------------------
(* note_on *)

\* Instrument counts with its own instance of the library's Cardinality.
LEMMA SameCount == \A S : Promise!Cardinality(S) = Cardinality(S)
  BY Zenon DEF Promise!Cardinality, Cardinality

\* All voices sound when as many notes are heard as there are voices.
LEMMA FullWhenCounted ==
    ASSUME IInv
    PROVE  Cardinality(HeldNotes) = NVoices <=> Held = Voices
<1> DEFINE f == [w \in Held |-> note[w]]
<1>1. IsFiniteSet(Voices) /\ Cardinality(Voices) = NVoices
  BY FS_Interval, ChipAssumption DEF Voices
<1>2. Held \in SUBSET Voices
  BY DEF Held
<1>3. IsFiniteSet(Held) /\ (Cardinality(Held) = NVoices <=> Held = Voices)
  BY <1>1, <1>2, FS_Subset
<1>4. f \in Injection(Held, HeldNotes)
  <2>1. \A v, w \in Held : note[v] = note[w] => v = w
    BY DEF IInv, UniqueNotes, Held, InUse
  <2> QED BY <2>1 DEF Injection, IsInjective, HeldNotes
<1>5. f \in Surjection(Held, HeldNotes)
  BY DEF Surjection, HeldNotes
<1>6. Cardinality(HeldNotes) = Cardinality(Held)
  BY <1>3, <1>4, <1>5, FS_Surjection
<1> QED BY <1>3, <1>6

\* The note struck longest ago is the note of the oldest voice (_allocate).
LEMMA LongestIsOldest ==
    ASSUME IInv, synced, Held = Voices
    PROVE  Promise!Longest = {note[Oldest]}
<1>1. on_time \in [Voices -> Voices] /\ Ranked /\ TableTypeOK
  BY DEF IInv, TypeOK, ChipTypeOK, TableTypeOK
<1>2. Oldest \in Voices
  BY <1>1, OldestIn
<1>3. \A w \in Voices : on_time[Oldest] <= on_time[w]
  <2>1. 0 \in Voices
    BY ChipAssumption DEF Voices
  <2>2. PICK v \in Voices : on_time[v] = 0
    BY <1>1, <2>1 DEF Ranked
  <2>3. \A w \in Voices : on_time[v] <= on_time[w]
    BY <1>1, <2>2, ChipAssumption DEF Voices
  <2> QED BY <2>3 DEF Oldest
<1> HIDE DEF Oldest
<1>4. \A w \in Voices \ {Oldest} : on_time[Oldest] < on_time[w]
  <2>1. \A w \in Voices : on_time[w] \in Int
    BY <1>1 DEF Voices
  <2>2. \A w \in Voices \ {Oldest} : on_time[w] # on_time[Oldest]
    BY <1>1, <1>2, RanksDiffer
  <2> QED BY <1>2, <1>3, <2>1, <2>2
<1>5. ReadOff
  BY HeardIsHeld
<1>6. ASSUME NEW w \in Voices \ {Oldest} PROVE note[w] \notin Promise!Longest
  <2>1. HeldBefore(note[Oldest], note[w])
    BY <1>2, <1>4, <1>6 DEF HeldBefore
  <2>2. note[Oldest] \in Heard
    BY <1>2, <1>5 DEF ReadOff, HeldNotes
  <2> QED BY <1>5, <2>1, <2>2 DEF ReadOff, Promise!Longest
<1>7. note[Oldest] \in Promise!Longest
  <2>1. ASSUME NEW k, HeldBefore(k, note[Oldest]) PROVE FALSE
    <3>1. PICK v \in Held, w \in Held : /\ on_time[v] < on_time[w]
                                        /\ note[Oldest] = note[w]
      BY <2>1 DEF HeldBefore
    <3>2. w = Oldest
      BY <1>2, <3>1 DEF IInv, UniqueNotes, Held, InUse
    <3>3. on_time[v] \in Int /\ on_time[Oldest] \in Int /\ v \in Voices
      BY <1>1, <1>2 DEF Voices, Held
    <3> QED BY <1>3, <3>1, <3>2, <3>3
  <2>2. note[Oldest] \in Heard
    BY <1>2, <1>5 DEF ReadOff, HeldNotes
  <2> QED BY <1>5, <2>1, <2>2 DEF ReadOff, Promise!Longest
<1>8. Promise!Longest \subseteq Heard /\ Heard = {note[w] : w \in Voices}
  BY <1>5 DEF Promise!Longest, ReadOff, HeldNotes
<1> QED BY <1>6, <1>7, <1>8

\* The notes a new one leaves are those of the other held voices.
LEMMA KeptIsOthers ==
    ASSUME IInv, synced, NEW n \in Notes
    PROVE  Promise!Kept(n) = {note[w] : w \in Held \ {_allocate(n)}}
<1> DEFINE v == _allocate(n)
<1>1. TableTypeOK /\ Ranked /\ UniqueNotes
  BY DEF IInv, TypeOK, ChipTypeOK
<1>2. v \in Voices /\ (Playing(n) # {} => v \in Playing(n))
  BY <1>1, AllocateIn
<1>3. Heard = HeldNotes
  BY HeardIsHeld DEF ReadOff
<1>4. \A w \in Held : note[w] = n => w = v
  <2> SUFFICES ASSUME NEW w \in Held, note[w] = n PROVE w = v
    OBVIOUS
  <2>1. w \in Playing(n)
    BY DEF Held, Playing
  <2>2. v \in Playing(n)
    BY <1>2, <2>1
  <2> QED BY <1>1, <2>1, <2>2 DEF Playing, UniqueNotes, InUse
<1>5. CASE Held # Voices \/ Playing(n) # {}
  <2>1. v \in Held => note[v] = n
    <3>1. CASE Playing(n) # {}
      BY <1>2, <3>1 DEF Playing
    <3>2. CASE Playing(n) = {} /\ Held # Voices
      <4>1. PICK w \in Voices : state[w] # "held"
        BY <3>2 DEF Held
      <4>2. state[w] \in {"free", "releasing"}
        BY <1>1, <4>1 DEF TableTypeOK, States
      <4>3. /\ InState("free") \in SUBSET Voices
            /\ InState("releasing") \in SUBSET Voices
            /\ InState("free") # {} \/ InState("releasing") # {}
        BY <4>2 DEF InState
      <4>4. v \in InState("free") \/ v \in InState("releasing")
        BY <3>2, <4>3, FirstIn DEF _allocate
      <4> QED BY <4>4 DEF InState, Held
    <3> QED BY <1>5, <3>1, <3>2
  <2>2. n \in HeldNotes \/ Cardinality(HeldNotes) # NVoices
    <3>1. CASE Held # Voices
      BY <3>1, FullWhenCounted
    <3>2. CASE Held = Voices /\ Playing(n) # {}
      BY <1>2, <3>2 DEF HeldNotes, Playing
    <3> QED BY <1>5, <3>1, <3>2
  <2>3. Promise!Kept(n) = HeldNotes \ {n}
    BY <1>3, <2>2, SameCount DEF Promise!Kept
  <2> HIDE DEF v
  <2> QED BY <1>4, <2>1, <2>3 DEF HeldNotes, v
<1>6. CASE Held = Voices /\ Playing(n) = {}
  <2>1. n \notin HeldNotes
    BY <1>6 DEF HeldNotes, Playing, Held
  <2>2. Cardinality(HeldNotes) = NVoices
    BY <1>6, FullWhenCounted
  <2>3. Promise!Kept(n) = HeldNotes \ {note[Oldest]}
    BY <1>3, <1>6, <2>1, <2>2, SameCount, LongestIsOldest DEF Promise!Kept
  <2>4. v = Oldest
    <3>1. InState("free") = {} /\ InState("releasing") = {}
      BY <1>6 DEF InState, Held
    <3> QED BY <1>6, <3>1 DEF _allocate
  <2>5. \A w \in Held : note[w] = note[v] => w = v
    BY <1>1, <1>2, <1>6 DEF UniqueNotes, Held, InUse
  <2> HIDE DEF v
  <2> QED BY <2>3, <2>4, <2>5 DEF HeldNotes, v
<1> QED BY <1>5, <1>6

\* The voice touched is the youngest; the others keep their order.
LEMMA TouchOrder ==
    ASSUME on_time \in [Voices -> Voices], Ranked, NEW v \in Voices,
           on_time' = Touch(v), NEW w \in Voices, NEW x \in Voices
    PROVE  on_time'[w] < on_time'[x] <=> w # v /\ (x = v \/ on_time[w] < on_time[x])
<1>1. /\ on_time[w] \in Int /\ 0 <= on_time[w] /\ on_time[w] <= NVoices - 1
      /\ on_time[x] \in Int /\ 0 <= on_time[x] /\ on_time[x] <= NVoices - 1
      /\ on_time[v] \in Int /\ 0 <= on_time[v] /\ on_time[v] <= NVoices - 1
      /\ NVoices \in Int
  BY ChipAssumption DEF Voices
<1>2. /\ on_time[w] = on_time[v] => w = v
      /\ on_time[x] = on_time[v] => x = v
  BY RanksDiffer
<1>3. /\ on_time'[w] = IF w = v THEN NVoices - 1
                       ELSE IF on_time[w] > on_time[v] THEN on_time[w] - 1
                       ELSE on_time[w]
      /\ on_time'[x] = IF x = v THEN NVoices - 1
                       ELSE IF on_time[x] > on_time[v] THEN on_time[x] - 1
                       ELSE on_time[x]
  BY DEF Touch
<1>4. CASE w = v
  BY <1>1, <1>3, <1>4
<1>5. CASE w # v /\ x = v
  BY <1>1, <1>2, <1>3, <1>5
<1>6. CASE w # v /\ x # v
  BY <1>1, <1>2, <1>3, <1>6
<1> QED BY <1>4, <1>5, <1>6

\* A note-on that goes out strikes its note.
LEMMA StrikeStep ==
    ASSUME IInv, IInv', NEW n \in Notes, note_on(n), synced, synced'
    PROVE  Promise!Strike(n)
<1> DEFINE v == _allocate(n)
           K == {note[w] : w \in Held \ {v}}
<1>1. TableTypeOK /\ Ranked /\ on_time \in [Voices -> Voices]
  BY DEF IInv, TypeOK, ChipTypeOK, TableTypeOK
<1>2. v \in Voices
  BY <1>1, AllocateIn
<1>3. Promise!Kept(n) = K
  BY KeptIsOthers
<1>4. /\ note' = [note EXCEPT ![v] = n]
      /\ state' = [state EXCEPT ![v] = "held"]
      /\ on_time' = Touch(v)
  BY DEF note_on
<1> HIDE DEF v
<1>5. /\ Held' = (Held \ {v}) \union {v}
      /\ \A w \in Voices : note'[w] = IF w = v THEN n ELSE note[w]
      /\ Held \subseteq Voices
  BY <1>1, <1>2, <1>4 DEF Held, TableTypeOK
<1>6. HeldNotes' = K \union {n}
  BY <1>2, <1>5 DEF HeldNotes
<1>7. ReadOff /\ ReadOff'
  BY HeardIsHeld, HeardIsHeldAfter
<1>8. Heard' = K \union {n} /\ K \subseteq Heard
  BY <1>6, <1>7 DEF ReadOff, HeldNotes
<1>9. n \notin K
  BY <1>3 DEF Promise!Kept
<1>10. \A w \in Held : note[w] \in K => w # v
  BY <1>2 DEF IInv, UniqueNotes, Held, InUse
<1>11. \A w \in Held \ {v} : note[w] \in K
  OBVIOUS
<1> DEFINE R == Promise!Among(K) \union (K \X {n})
<1>12. ASSUME NEW m, NEW k PROVE <<m, k>> \in HeardBefore' <=> <<m, k>> \in R
  <2>1. <<m, k>> \in HeardBefore' <=>
          \E a, b \in Held' : /\ on_time'[a] < on_time'[b]
                              /\ m = note'[a] /\ k = note'[b]
    BY <1>7 DEF ReadOff, HeldBefore
  <2>2. <<m, k>> \in R <=> m \in K /\ (k = n \/ (k \in K /\ HeldBefore(m, k)))
    BY <1>7 DEF Promise!Among, ReadOff
  <2>3. ASSUME NEW a \in Held', NEW b \in Held', on_time'[a] < on_time'[b],
               m = note'[a], k = note'[b]
        PROVE  <<m, k>> \in R
    <3>1. a \in Voices /\ b \in Voices
      BY <1>2, <1>5
    <3>2. a # v /\ (b = v \/ on_time[a] < on_time[b])
      BY <1>1, <1>2, <1>4, <2>3, <3>1, TouchOrder
    <3>3. a \in Held \ {v} /\ m = note[a] /\ m \in K
      BY <1>5, <1>11, <2>3, <3>1, <3>2
    <3>4. CASE b = v
      BY <1>5, <2>2, <2>3, <3>1, <3>3, <3>4
    <3>5. CASE b # v
      <4>1. b \in Held \ {v} /\ k = note[b] /\ k \in K
        BY <1>5, <1>11, <2>3, <3>1, <3>5
      <4>2. HeldBefore(m, k)
        BY <3>2, <3>3, <3>5, <4>1 DEF HeldBefore
      <4> QED BY <2>2, <3>3, <4>1, <4>2
    <3> QED BY <3>4, <3>5
  <2>4. ASSUME m \in K, k \in K, HeldBefore(m, k) PROVE <<m, k>> \in HeardBefore'
    <3>1. PICK a \in Held, b \in Held : /\ on_time[a] < on_time[b]
                                        /\ m = note[a] /\ k = note[b]
      BY <2>4 DEF HeldBefore
    <3>2. a # v /\ b # v /\ a \in Voices /\ b \in Voices
      BY <1>5, <1>10, <2>4, <3>1
    <3>3. on_time'[a] < on_time'[b]
      BY <1>1, <1>2, <1>4, <3>1, <3>2, TouchOrder
    <3>4. a \in Held' /\ b \in Held' /\ m = note'[a] /\ k = note'[b]
      BY <1>5, <3>1, <3>2
    <3> QED BY <2>1, <3>3, <3>4
  <2>5. ASSUME m \in K, k = n PROVE <<m, k>> \in HeardBefore'
    <3>1. PICK a \in Held \ {v} : m = note[a]
      BY <2>5
    <3>2. a \in Voices
      BY <1>5, <3>1
    <3>3. on_time'[a] < on_time'[v]
      BY <1>1, <1>2, <1>4, <3>1, <3>2, TouchOrder
    <3>4. a \in Held' /\ v \in Held' /\ m = note'[a] /\ k = note'[v]
      BY <1>2, <1>5, <2>5, <3>1, <3>2
    <3> QED BY <2>1, <3>3, <3>4
  <2> QED BY <2>1, <2>2, <2>3, <2>4, <2>5
<1>13. HeardBefore' = R
  <2>1. HeardBefore' \subseteq Heard' \X Heard'
    BY <1>7 DEF ReadOff
  <2>2. R \subseteq (Heard \union Heard') \X (Heard \union Heard')
    BY <1>7, <1>8 DEF Promise!Among, ReadOff
  <2> HIDE DEF R, K
  <2> QED BY <1>12, <2>1, <2>2
<1> QED BY <1>3, <1>8, <1>13 DEF Promise!Strike

-----------------------------------------------------------------------------
(* note_off *)

\* A note-off that goes out lifts its note, and no other.
LEMMA LiftStep ==
    ASSUME IInv, IInv', NEW n \in Notes, note_off(n), synced, synced'
    PROVE  Promise!Lift(n)
<1> DEFINE v == First(_find_held(n))
           K == HeldNotes \ {n}
<1>1. v \in Held /\ note[v] = n
  <2>1. _find_held(n) \in SUBSET Voices /\ _find_held(n) # {}
    BY DEF note_off, _find_held
  <2>2. v \in _find_held(n)
    BY <2>1, FirstIn
  <2> QED BY <2>2 DEF _find_held, Held
<1>2. /\ state' = [state EXCEPT ![v] = "releasing"]
      /\ note' = note /\ on_time' = on_time
  BY DEF note_off
<1> HIDE DEF v
<1>3. Held' = Held \ {v} /\ Held \subseteq Voices
  BY <1>1, <1>2 DEF Held, IInv, TypeOK, ChipTypeOK, TableTypeOK
<1>4. \A w \in Held : note[w] = n <=> w = v
  BY <1>1 DEF IInv, UniqueNotes, Held, InUse
<1>5. HeldNotes' = K
  BY <1>2, <1>3, <1>4 DEF HeldNotes
<1>6. ReadOff /\ ReadOff'
  BY HeardIsHeld, HeardIsHeldAfter
<1>7. Heard' = Heard \ {n} /\ n \in Heard
  BY <1>1, <1>5, <1>6 DEF ReadOff, HeldNotes
<1> DEFINE R == Promise!Among(Heard \ {n})
<1>8. ASSUME NEW m, NEW k PROVE <<m, k>> \in HeardBefore' <=> <<m, k>> \in R
  <2>1. HeldBefore(m, k)' <=> HeldBefore(m, k) /\ m # n /\ k # n
    BY <1>2, <1>3, <1>4 DEF HeldBefore
  <2>2. <<m, k>> \in R <=> HeldBefore(m, k) /\ m \in Heard \ {n} /\ k \in Heard \ {n}
    BY <1>6 DEF Promise!Among, ReadOff
  <2>3. HeldBefore(m, k) => m \in Heard /\ k \in Heard
    BY <1>6 DEF HeldBefore, ReadOff, HeldNotes
  <2> QED BY <1>6, <2>1, <2>2, <2>3 DEF ReadOff
<1>9. HeardBefore' = R
  <2>1. HeardBefore' \subseteq Heard \X Heard /\ R \subseteq Heard \X Heard
    BY <1>6, <1>7 DEF ReadOff, Promise!Among
  <2> HIDE DEF R
  <2> QED BY <1>8, <2>1
<1> QED BY <1>7, <1>9 DEF Promise!Lift

-----------------------------------------------------------------------------
(* Every handler *)

\* What a write of the chip comes to, for handlers that hold no note's key.
LEMMA WriteOnly ==
    ASSUME IInv, IInv', UNCHANGED <<note, state, on_time>>,
           Raised \/ UNCHANGED synced
    PROVE  Promise!Break \/ UNCHANGED Promise!vars
<1>1. CASE Raised
  BY <1>1, BreakAfter
<1>2. CASE UNCHANGED synced
  BY <1>2, SameHeard
<1> QED BY <1>1, <1>2

LEMMA NoteStep ==
    ASSUME IInv, IInv', NEW n \in Notes, note_on(n) \/ note_off(n)
    PROVE  Promise!Strike(n) \/ Promise!Lift(n) \/ Promise!Break \/ UNCHANGED Promise!vars
<1>1. Raised \/ UNCHANGED synced
  BY DEF note_on, note_off, Write, Failed, Sent
<1>2. CASE Raised
  BY <1>2, BreakAfter
<1>3. CASE UNCHANGED synced /\ synced
  BY <1>3, StrikeStep, LiftStep
<1>4. CASE UNCHANGED synced /\ ~synced
  BY <1>4, StillUnheard
<1> QED BY <1>1, <1>2, <1>3, <1>4

\* A step that frees every voice.
LEMMA ReleaseStep ==
    ASSUME IInv, IInv', state' = AllFree,
           Raised \/ synced' = TRUE \/ UNCHANGED synced
    PROVE  Promise!Break \/ Promise!Mend \/ Promise!Silence \/ UNCHANGED Promise!vars
<1>1. Held' = {}
  BY DEF Held, AllFree, Voices
<1>2. CASE Raised
  BY <1>2, BreakAfter
<1>3. CASE synced' = TRUE
  BY <1>1, <1>3, MendAfter
<1>4. CASE UNCHANGED synced
  BY <1>1, <1>4, SilentAfter DEF Promise!Silence
<1> QED BY <1>2, <1>3, <1>4

\* A re-arm leaves the chip known or unknown, never as it was.
LEMMA RearmedEnds ==
    ASSUME NEW s, NEW step \in BOOLEAN, Rearmed(s, step) PROVE Raised \/ synced' = TRUE
<1>1. CASE step = TRUE
  BY <1>1 DEF Rearmed
<1>2. CASE step = FALSE
  BY <1>2 DEF Rearmed, Raised
<1> QED BY <1>1, <1>2

\* Every step of the chip is a step of the instrument, or changes nothing heard.
LEMMA StepKeepsPromise ==
    ASSUME IInv, IInv', [Next]_vars
    PROVE  [Promise!Next]_(Promise!vars)
<1>1. CASE UNCHANGED vars
  BY <1>1, SameHeard DEF vars
<1>2. ASSUME NEW n \in Notes, note_on(n) \/ note_off(n)
      PROVE  [Promise!Next]_(Promise!vars)
  BY <1>2, NoteStep DEF Promise!Next
<1>3. CASE \/ \E x \in Bends : pitch_bend(x)
           \/ flush_bend
           \/ \E g \in Settings : ControlGlobals(g)
           \/ \E w \in Waves, e \in Envs : ControlVoice(w, e)
  <2>1. UNCHANGED <<note, state, on_time>> /\ (Raised \/ UNCHANGED synced)
    BY <1>3 DEF pitch_bend, flush_bend, ControlGlobals, ControlVoice, Flush,
                Write, Failed, Sent, Dropped
  <2> QED BY <2>1, WriteOnly DEF Promise!Next
<1>4. CASE all_notes_off \/ recover \/ hard_panic \/ sid_hard_reset
  <2>1. \/ state' = AllFree /\ (Raised \/ synced' = TRUE \/ UNCHANGED synced)
        \/ Raised
    <3>1. CASE all_notes_off \/ sid_hard_reset
      BY <3>1 DEF all_notes_off, sid_hard_reset, Release, Write, Failed, Sent
    <3>2. CASE recover \/ hard_panic
      <4>1. aligned \in BOOLEAN
        BY DEF IInv, TypeOK
      <4>2. \A s : Recovered(s) \/ Rearmed(s, aligned) => Raised \/ synced' = TRUE
        BY <4>1, RearmedEnds DEF Recovered
      <4> QED BY <3>2, <4>2 DEF recover, hard_panic, Release
    <3> QED BY <1>4, <3>1, <3>2
  <2>2. CASE Raised
    BY <2>2, BreakAfter DEF Promise!Next
  <2> QED BY <2>1, <2>2, ReleaseStep DEF Promise!Next
<1> QED BY <1>1, <1>2, <1>3, <1>4 DEF Next

\* The chip is an instrument of NVoices notes, which gives up the note struck
\* first for one too many (ChipChannel, MidiToSid).
THEOREM PromiseKept == Spec => ImplementsInstrument
<1>1. Init => Promise!Init
  <2> SUFFICES ASSUME Init PROVE Promise!Init
    OBVIOUS
  <2>1. IInv /\ ReadOff
    BY InitIInv, HeardIsHeld
  <2>2. Held = {} /\ synced = TRUE
    BY DEF Init, ChipInit, AllFree, Held
  <2>3. Heard = {} /\ HeardBefore \subseteq Heard \X Heard
    BY <2>1, <2>2 DEF ReadOff, HeldNotes
  <2> QED BY <2>2, <2>3 DEF Promise!Init
<1>2. IInv /\ IInv' /\ [Next]_vars => [Promise!Next]_(Promise!vars)
  BY StepKeepsPromise
<1> QED BY <1>1, <1>2, InitIInv, NextIInv, PTL
       DEF Spec, ImplementsInstrument, Promise!Spec

-----------------------------------------------------------------------------
(* What stealing owes the player (KeyHistory): a key down loses its voice    *)
(* only to as many later notes as there are voices, and no voice is held for *)
(* a key that was lifted.                                                    *)

KeysTypeOK == /\ down \subseteq Notes
              /\ later \in [Notes -> SUBSET Notes]
              /\ \A n \in Notes : IsFiniteSet(later[n])

\* The key of a voice remembers the notes of all the younger voices held: when
\* it becomes the oldest of a full table it remembers all the others.
StruckLater == \A v, w \in InState("held") :
    on_time[v] < on_time[w] => note[w] \in later[note[v]]

\* A key down with fewer later notes than there are voices still has its own.
FewKeepVoice == \A n \in down :
    Cardinality(later[n]) < NVoices => _find_held(n) # {}

HInv == IInv /\ KeysTypeOK /\ HeldForAKey /\ StruckLater /\ FewKeepVoice

-----------------------------------------------------------------------------
(* Lemmas on what a strike takes *)

\* A voice is taken from a key that is down only when every voice is held, none
\* plays the new note, and no voice is older (_allocate).
LEMMA StealsOldest ==
    ASSUME TableTypeOK, Ranked, NEW n \in Notes, NEW v \in Voices,
           v = _allocate(n), state[v] = "held", note[v] # n
    PROVE  /\ Playing(n) = {}
           /\ \A w \in Voices : state[w] = "held"
           /\ \A w \in Voices : on_time[v] <= on_time[w]
<1>1. Playing(n) = {}
  BY AllocateIn DEF Playing
<1>2. InState("free") = {}
  <2>1. ASSUME InState("free") # {} PROVE FALSE
    <3>1. v \in InState("free")
      BY <1>1, <2>1, FirstIn DEF _allocate, InState
    <3> QED BY <3>1 DEF InState
  <2> QED BY <2>1
<1>3. InState("releasing") = {}
  <2>1. ASSUME InState("releasing") # {} PROVE FALSE
    <3>1. v \in InState("releasing")
      BY <1>1, <1>2, <2>1, FirstIn DEF _allocate, InState
    <3> QED BY <3>1 DEF InState
  <2> QED BY <2>1
<1>4. \A w \in Voices : state[w] = "held"
  BY <1>2, <1>3 DEF InState, TableTypeOK, States
<1>5. v = Oldest
  BY <1>1, <1>2, <1>3 DEF _allocate
<1>6. \E u \in Voices : \A w \in Voices : on_time[u] <= on_time[w]
  <2>1. 0 \in Voices
    BY ChipAssumption DEF Voices
  <2>2. PICK u \in Voices : on_time[u] = 0
    BY <2>1 DEF Ranked
  <2> QED BY <2>2, ChipAssumption DEF TableTypeOK, Voices
<1>7. \A w \in Voices : on_time[v] <= on_time[w]
  BY <1>5, <1>6 DEF Oldest
<1> QED BY <1>1, <1>4, <1>7

\* A finite set that holds the notes of all the voices but one, all different,
\* and one note more, has as many members as there are voices.
LEMMA AsManyAsVoices ==
    ASSUME NEW S, IsFiniteSet(S), NEW v \in Voices, NEW n \in S,
           NEW f \in [Voices -> S], f[v] = n,
           \A u, w \in Voices : f[u] = f[w] => u = w
    PROVE  NVoices <= Cardinality(S)
<1>1. f \in Injection(Voices, S)
  BY DEF Injection, IsInjective
<1>2. Cardinality(Voices) <= Cardinality(S)
  BY <1>1, FS_Injection
<1>3. Cardinality(Voices) = NVoices
  BY ChipAssumption, FS_Interval DEF Voices
<1> QED BY <1>2, <1>3

-----------------------------------------------------------------------------
(* The steps *)

\* With no voice held and no key remembered there is nothing to keep.
LEMMA Forgotten ==
    ASSUME IInv', state' = AllFree, down' = {}, later' = [n \in Notes |-> {}]
    PROVE  HInv'
<1>1. \A v \in Voices : state'[v] = "free"
  BY DEF AllFree
<1>2. InState("held")' = {}
  BY <1>1 DEF InState, Voices
<1>3. KeysTypeOK'
  BY FS_EmptySet DEF KeysTypeOK
<1>4. HeldForAKey' /\ StruckLater'
  BY <1>2 DEF HeldForAKey, StruckLater
<1>5. FewKeepVoice'
  BY DEF FewKeepVoice
<1> QED BY <1>3, <1>4, <1>5 DEF HInv

\* A step that leaves the table and the keys alone.
LEMMA TableUntouched ==
    ASSUME HInv, IInv', UNCHANGED <<note, state, on_time, down, later>>
    PROVE  HInv'
<1>1. InState("held")' = InState("held")
  BY DEF InState, Voices
<1>2. \A n : _find_held(n)' = _find_held(n)
  BY DEF _find_held, Voices
<1>3. KeysTypeOK' /\ HeldForAKey' /\ StruckLater'
  BY <1>1 DEF HInv, KeysTypeOK, HeldForAKey, StruckLater
<1>4. FewKeepVoice'
  BY <1>2 DEF HInv, FewKeepVoice
<1> QED BY <1>3, <1>4 DEF HInv

LEMMA PressStep == ASSUME HInv, NEW n \in Notes, Press(n) PROVE HInv'
<1> DEFINE v == _allocate(n)
<1>0. Table
  BY Halves DEF HInv
<1>1. note_on(n) /\ IInv'
  BY NoteOnStep DEF HInv, Press
<1>2. v \in Voices /\ (Playing(n) # {} => v \in Playing(n))
  BY <1>0, AllocateIn DEF Table
<1>3. /\ note' = [note EXCEPT ![v] = n]
      /\ state' = [state EXCEPT ![v] = "held"]
      /\ on_time' = Touch(v)
  BY <1>1 DEF note_on
<1>4. v = _allocate(n)
  OBVIOUS
<1> HIDE DEF v
<1>5. \A w \in Voices : /\ note'[w] = IF w = v THEN n ELSE note[w]
                        /\ state'[w] = IF w = v THEN "held" ELSE state[w]
  BY <1>0, <1>2, <1>3 DEF Table, TableTypeOK
<1>6. /\ down' = down \union {n}
      /\ \A m \in Notes : later'[m] = IF m \in down \ {n} THEN later[m] \union {n} ELSE {}
      /\ later' \in [Notes -> SUBSET Notes]
  BY DEF Press, HInv, KeysTypeOK
<1>7. ASSUME NEW w \in Voices, w # v, state[w] = "held" PROVE note[w] # n
  <2>1. ASSUME note[w] = n PROVE FALSE
    <3>1. w \in Playing(n)
      BY <1>7, <2>1 DEF Playing
    <3>2. v \in Playing(n)
      BY <1>2, <3>1
    <3>3. v \in InUse /\ w \in InUse /\ note[v] = note[w]
      BY <3>1, <3>2 DEF Playing, InUse
    <3> QED BY <1>0, <1>7, <3>3 DEF Table, UniqueNotes
  <2> QED BY <2>1
<1>8. ASSUME NEW w \in Voices, w # v, state[w] = "held"
      PROVE  note[w] \in down \ {n} /\ note[w] \in Notes
  BY <1>7, <1>8 DEF HInv, HeldForAKey, InState, KeysTypeOK
<1>9. KeysTypeOK'
  <2>1. ASSUME NEW m \in Notes PROVE IsFiniteSet(later'[m])
    <3>1. IsFiniteSet(later[m])
      BY DEF HInv, KeysTypeOK
    <3>2. IsFiniteSet(later[m] \union {n})
      BY <3>1, FS_AddElement
    <3>3. later'[m] = later[m] \union {n} \/ later'[m] = {}
      BY <1>6
    <3> QED BY <3>2, <3>3, FS_EmptySet
  <2> QED BY <1>6, <2>1 DEF HInv, KeysTypeOK
<1>10. HeldForAKey'
  <2> SUFFICES ASSUME NEW w \in InState("held")' PROVE note'[w] \in down'
    BY DEF HeldForAKey
  <2>1. w \in Voices /\ state'[w] = "held"
    BY DEF InState
  <2>2. CASE w = v
    BY <1>2, <1>5, <1>6, <2>2
  <2>3. CASE w # v
    BY <1>5, <1>6, <1>8, <2>1, <2>3
  <2> QED BY <2>2, <2>3
<1>11. StruckLater'
  <2> SUFFICES ASSUME NEW x \in InState("held")', NEW w \in InState("held")',
                      on_time'[x] < on_time'[w]
               PROVE  note'[w] \in later'[note'[x]]
    BY DEF StruckLater
  <2>1. /\ x \in Voices /\ state'[x] = "held"
        /\ w \in Voices /\ state'[w] = "held"
    BY DEF InState
  <2>2. /\ on_time[x] \in Int /\ on_time[w] \in Int /\ on_time[v] \in Int
        /\ on_time[x] <= NVoices - 1 /\ on_time[w] <= NVoices - 1
    BY <1>0, <1>2, <2>1, ChipAssumption DEF Table, TableTypeOK, Voices
  <2>3. \A u \in Voices : on_time'[u] = IF u = v THEN NVoices - 1
                                        ELSE IF on_time[u] > on_time[v] THEN on_time[u] - 1
                                        ELSE on_time[u]
    BY <1>3 DEF Touch
  <2>4. x # v
    <3>1. ASSUME x = v PROVE FALSE
      BY <2>1, <2>2, <2>3, <3>1, ChipAssumption
    <3> QED BY <3>1
  <2>5. /\ state[x] = "held" /\ note'[x] = note[x]
        /\ note[x] \in down \ {n} /\ note[x] \in Notes
    BY <1>5, <1>8, <2>1, <2>4
  <2>6. later'[note'[x]] = later[note[x]] \union {n}
    BY <1>6, <2>5
  <2>7. CASE w = v
    BY <1>5, <2>1, <2>6, <2>7
  <2>8. CASE w # v
    <3>1. state[w] = "held" /\ note'[w] = note[w]
      BY <1>5, <2>1, <2>8
    <3>2. on_time[x] < on_time[w]
      BY <2>1, <2>2, <2>3, <2>4, <2>8
    <3>3. note[w] \in later[note[x]]
      BY <2>1, <2>5, <3>1, <3>2 DEF HInv, StruckLater, InState
    <3> QED BY <2>6, <3>1, <3>3
  <2> QED BY <2>7, <2>8
<1>12. FewKeepVoice'
  <2> SUFFICES ASSUME NEW m \in down', Cardinality(later'[m]) < NVoices
               PROVE  _find_held(m)' # {}
    BY DEF FewKeepVoice
  <2>0. \A u \in Voices : u \in _find_held(m)' <=> note'[u] = m /\ state'[u] = "held"
    BY DEF _find_held, Voices
  <2>1. CASE m = n
    BY <1>2, <1>5, <2>0, <2>1
  <2>2. CASE m # n
    <3>1. m \in down /\ m \in Notes
      BY <1>6, <2>2 DEF HInv, KeysTypeOK
    <3>2. later'[m] = later[m] \union {n} /\ IsFiniteSet(later[m])
      BY <1>6, <2>2, <3>1 DEF HInv, KeysTypeOK
    <3>3. IsFiniteSet(later'[m])
      BY <3>2, FS_AddElement
    <3>4. Cardinality(later[m]) < NVoices
      <4>1. Cardinality(later[m]) <= Cardinality(later'[m])
        BY <3>2, <3>3, FS_Subset
      <4>2. Cardinality(later[m]) \in Nat /\ Cardinality(later'[m]) \in Nat
        BY <3>2, <3>3, FS_CardinalityType
      <4> QED BY <4>1, <4>2, ChipAssumption
    <3>5. PICK u \in Voices : note[u] = m /\ state[u] = "held"
      BY <3>1, <3>4 DEF HInv, FewKeepVoice, _find_held
    <3>6. ASSUME u = v PROVE FALSE
      <4>1. /\ Playing(n) = {}
            /\ \A w \in Voices : state[w] = "held"
            /\ \A w \in Voices : on_time[v] <= on_time[w]
        BY <1>0, <1>2, <1>4, <2>2, <3>5, <3>6, StealsOldest DEF Table
      <4> DEFINE f == [w \in Voices |-> IF w = v THEN n ELSE note[w]]
      <4>2. ASSUME NEW w \in Voices, w # v PROVE note[w] \in later[m] /\ note[w] # n
        <5>1. on_time[v] < on_time[w]
          <6>1. on_time[v] # on_time[w]
            BY <1>0, <1>2, <4>2, RanksDiffer DEF Table, TableTypeOK
          <6>2. on_time[v] \in Int /\ on_time[w] \in Int
            BY <1>0, <1>2, <4>2 DEF Table, TableTypeOK, Voices
          <6> QED BY <4>1, <4>2, <6>1, <6>2
        <5>2. note[w] \in later[note[v]]
          BY <1>2, <4>1, <4>2, <5>1 DEF HInv, StruckLater, InState
        <5> QED BY <1>7, <3>5, <3>6, <4>1, <4>2, <5>2
      <4>3. f \in [Voices -> later'[m]]
        BY <3>2, <4>2
      <4>4. ASSUME NEW x \in Voices, NEW w \in Voices, f[x] = f[w] PROVE x = w
        <5>1. CASE x = v \/ w = v
          BY <4>2, <4>4, <5>1
        <5>2. CASE x # v /\ w # v
          <6>1. note[x] = note[w]
            BY <4>4, <5>2
          <6>2. x \in InUse /\ w \in InUse
            BY <4>1 DEF InUse
          <6> QED BY <1>0, <6>1, <6>2 DEF Table, UniqueNotes
        <5> QED BY <5>1, <5>2
      <4>5. f[v] = n /\ n \in later'[m]
        BY <1>2, <3>2
      <4> HIDE DEF f
      <4>6. NVoices <= Cardinality(later'[m])
        BY <1>2, <3>3, <4>3, <4>4, <4>5, AsManyAsVoices
      <4>7. Cardinality(later'[m]) \in Nat
        BY <3>3, FS_CardinalityType
      <4> QED BY <4>6, <4>7, ChipAssumption
    <3>7. note'[u] = m /\ state'[u] = "held"
      BY <1>5, <3>5, <3>6
    <3> QED BY <2>0, <3>7
  <2> QED BY <2>1, <2>2
<1> QED BY <1>1, <1>9, <1>10, <1>11, <1>12 DEF HInv

LEMMA ReleaseKeyStep == ASSUME HInv, NEW n \in Notes, Lift(n) PROVE HInv'
<1>0. Table
  BY Halves DEF HInv
<1>1. /\ down' = down \ {n}
      /\ later' = [later EXCEPT ![n] = {}]
  BY DEF Lift
<1>2. IInv' /\ note' = note /\ on_time' = on_time
  <2>1. CASE note_off(n)
    BY <2>1, NoteOffStep DEF HInv, note_off
  <2>2. CASE UNCHANGED vars
    BY <2>2, StutterStep DEF HInv, vars
  <2> QED BY <2>1, <2>2 DEF Lift
<1>3. \A w \in Voices : state'[w] = "held" <=> state[w] = "held" /\ note[w] # n
  <2>1. CASE note_off(n)
    <3> DEFINE v == First(_find_held(n))
    <3>1. v \in _find_held(n) /\ state' = [state EXCEPT ![v] = "releasing"]
      BY <2>1, FirstIn DEF note_off, _find_held
    <3> HIDE DEF v
    <3>2. v \in Voices /\ note[v] = n /\ state[v] = "held"
      BY <3>1 DEF _find_held
    <3>3. \A w \in Voices : state'[w] = IF w = v THEN "releasing" ELSE state[w]
      BY <1>0, <3>1, <3>2 DEF Table, TableTypeOK
    <3>4. ASSUME NEW w \in Voices, state[w] = "held", note[w] = n PROVE w = v
      BY <1>0, <3>2, <3>4 DEF Table, UniqueNotes, InUse
    <3> QED BY <3>2, <3>3, <3>4
  <2>2. CASE _find_held(n) = {} /\ UNCHANGED vars
    BY <2>2 DEF _find_held, vars
  <2> QED BY <2>1, <2>2 DEF Lift
<1>4. ASSUME NEW w \in InState("held")'
      PROVE  w \in InState("held") /\ note[w] \in down /\ note[w] # n
  BY <1>3, <1>4 DEF InState, Voices, HInv, HeldForAKey
<1>5. \A m \in Notes : later'[m] = IF m = n THEN {} ELSE later[m]
  BY <1>1 DEF HInv, KeysTypeOK
<1>6. KeysTypeOK'
  <2>1. \A m \in Notes : IsFiniteSet(later'[m])
    BY <1>5, FS_EmptySet DEF HInv, KeysTypeOK
  <2> QED BY <1>1, <2>1 DEF HInv, KeysTypeOK
<1>7. HeldForAKey'
  BY <1>1, <1>2, <1>4 DEF HeldForAKey
<1>8. StruckLater'
  <2> SUFFICES ASSUME NEW x \in InState("held")', NEW w \in InState("held")',
                      on_time[x] < on_time[w]
               PROVE  note[w] \in later'[note[x]]
    BY <1>2 DEF StruckLater
  <2>1. note[x] \in Notes /\ note[x] # n
    BY <1>4 DEF HInv, KeysTypeOK
  <2>2. note[w] \in later[note[x]]
    BY <1>4 DEF HInv, StruckLater
  <2> QED BY <1>5, <2>1, <2>2
<1>9. FewKeepVoice'
  <2> SUFFICES ASSUME NEW m \in down', Cardinality(later'[m]) < NVoices
               PROVE  _find_held(m)' # {}
    BY DEF FewKeepVoice
  <2>1. m \in down /\ m # n /\ m \in Notes
    BY <1>1 DEF HInv, KeysTypeOK
  <2>2. later'[m] = later[m]
    BY <1>5, <2>1
  <2>3. PICK u \in Voices : note[u] = m /\ state[u] = "held"
    BY <2>1, <2>2 DEF HInv, FewKeepVoice, _find_held
  <2>4. note'[u] = m /\ state'[u] = "held"
    BY <1>2, <1>3, <2>1, <2>3
  <2> QED BY <2>4 DEF _find_held, Voices
<1> QED BY <1>2, <1>6, <1>7, <1>8, <1>9 DEF HInv

LEMMA SilenceStep == ASSUME HInv, Silence PROVE HInv'
<1>1. IInv'
  BY AllNotesOffStep, RecoverStep, HardPanicStep, SidHardResetStep DEF HInv, Silence
<1>2. CASE state' = AllFree
  BY <1>1, <1>2, Forgotten DEF Silence
<1>3. CASE state' # AllFree
  <2>1. UNCHANGED keys
    BY <1>3 DEF Silence
  <2>2. UNCHANGED <<note, state, on_time>>
    BY <1>3 DEF Silence, all_notes_off, recover, hard_panic, sid_hard_reset, Release
  <2> QED BY <1>1, <2>1, <2>2, TableUntouched DEF keys
<1> QED BY <1>2, <1>3

LEMMA ControlStep == ASSUME HInv, Control PROVE HInv'
<1>1. IInv'
  BY WheelStep, ControlGlobalsStep, ControlVoiceStep DEF HInv, Control
<1>2. UNCHANGED <<note, state, on_time, down, later>>
  BY DEF Control, keys, flush_bend, pitch_bend, ControlGlobals, ControlVoice
<1> QED BY <1>1, <1>2, TableUntouched

LEMMA HInitInv == HInit => HInv
<1> SUFFICES ASSUME HInit PROVE HInv
  OBVIOUS
<1>1. IInv
  BY InitIInv DEF HInit
<1>2. \A v \in Voices : state[v] = "free"
  BY DEF HInit, Init, ChipInit, AllFree
<1>3. InState("held") = {}
  BY <1>2 DEF InState
<1>4. KeysTypeOK
  BY FS_EmptySet DEF HInit, KeysTypeOK
<1> QED BY <1>1, <1>3, <1>4 DEF HInv, HInit, HeldForAKey, StruckLater, FewKeepVoice

LEMMA HNextInv == HInv /\ [HNext]_hvars => HInv'
<1> SUFFICES ASSUME HInv, [HNext]_hvars PROVE HInv'
  OBVIOUS
<1>1. CASE UNCHANGED hvars
  <2>1. UNCHANGED vars /\ UNCHANGED <<down, later>>
    BY <1>1 DEF hvars, keys
  <2>2. IInv'
    BY <2>1, StutterStep DEF HInv
  <2> QED BY <2>1, <2>2, TableUntouched DEF vars
<1>2. CASE HNext
  BY <1>2, SilenceStep, ControlStep, PressStep, ReleaseKeyStep DEF HNext
<1> QED BY <1>1, <1>2

\* What a strike takes from a key that stays down: nothing unless every voice
\* is held, and then the voice of the key struck before all the others.
LEMMA StrikeTakesOldest ==
    ASSUME HInv, NEW n \in Notes, Press(n), NEW m \in Notes, Loses(m)
    PROVE  /\ InState("held") = Voices
           /\ \A k \in down \ {m} : _find_held(k) # {} => k \in later[m]
<1> DEFINE v == _allocate(n)
<1>1. Table /\ note_on(n)
  BY Halves DEF HInv, Press
<1>2. v \in Voices /\ (Playing(n) # {} => v \in Playing(n))
  BY <1>1, AllocateIn DEF Table
<1>3. note' = [note EXCEPT ![v] = n] /\ state' = [state EXCEPT ![v] = "held"]
  BY <1>1 DEF note_on
<1>4. v = _allocate(n)
  OBVIOUS
<1> HIDE DEF v
<1>5. \A w \in Voices : /\ note'[w] = IF w = v THEN n ELSE note[w]
                        /\ state'[w] = IF w = v THEN "held" ELSE state[w]
  BY <1>1, <1>2, <1>3 DEF Table, TableTypeOK
<1>6. PICK u \in Voices : note[u] = m /\ state[u] = "held"
  BY DEF Loses, _find_held
<1>7. ~(note'[u] = m /\ state'[u] = "held")
  BY <1>6 DEF Loses, _find_held, Voices
<1>8. u = v /\ m # n
  BY <1>5, <1>6, <1>7
<1>9. /\ \A w \in Voices : state[w] = "held"
      /\ \A w \in Voices : on_time[v] <= on_time[w]
  BY <1>1, <1>2, <1>4, <1>6, <1>8, StealsOldest DEF Table
<1>10. ASSUME NEW k \in down \ {m}, _find_held(k) # {} PROVE k \in later[m]
  <2>1. PICK w \in Voices : note[w] = k /\ state[w] = "held"
    BY <1>10 DEF _find_held
  <2>2. w # v
    BY <1>6, <1>8, <1>10, <2>1
  <2>3. on_time[v] < on_time[w]
    <3>1. on_time[v] # on_time[w]
      BY <1>1, <1>2, <2>1, <2>2, RanksDiffer DEF Table, TableTypeOK
    <3>2. on_time[v] \in Int /\ on_time[w] \in Int
      BY <1>1, <1>2, <2>1 DEF Table, TableTypeOK, Voices
    <3> QED BY <1>9, <2>1, <3>1, <3>2
  <2> QED BY <1>2, <1>6, <1>8, <1>9, <2>1, <2>3 DEF HInv, StruckLater, InState
<1> QED BY <1>9, <1>10 DEF InState

\* No other step takes a voice from a key that stays down.
LEMMA OnlyStrikesTake ==
    ASSUME HInv, [HNext]_hvars, NEW m \in Notes, Loses(m)
    PROVE  \E n \in Notes : Press(n)
<1>1. m \in down /\ m \in down' /\ _find_held(m) # {} /\ _find_held(m)' = {}
  BY DEF Loses
<1>2. PICK u \in Voices : note[u] = m /\ state[u] = "held"
  BY <1>1 DEF _find_held
<1>3. ASSUME note' = note, state' = state PROVE FALSE
  BY <1>1, <1>3 DEF _find_held, Voices
<1>4. ~UNCHANGED hvars
  BY <1>3 DEF hvars, vars
<1>5. ~Control
  BY <1>3 DEF Control, flush_bend, pitch_bend, ControlGlobals, ControlVoice
<1>6. ~Silence
  <2>1. ASSUME Silence PROVE FALSE
    <3>1. state' # AllFree
      BY <1>1, <2>1 DEF Silence
    <3> QED BY <1>3, <2>1, <3>1
           DEF Silence, all_notes_off, recover, hard_panic, sid_hard_reset, Release
  <2> QED BY <2>1
<1>7. ASSUME NEW n \in Notes, Lift(n) PROVE FALSE
  <2>1. n # m
    BY <1>1, <1>7 DEF Lift
  <2>2. note' = note /\ state'[u] = "held"
    <3>1. CASE UNCHANGED vars
      BY <1>2, <3>1 DEF vars
    <3>2. CASE note_off(n)
      <4> DEFINE w == First(_find_held(n))
      <4>1. w \in _find_held(n) /\ state' = [state EXCEPT ![w] = "releasing"]
        BY <3>2, FirstIn DEF note_off, _find_held
      <4> HIDE DEF w
      <4>2. w # u
        BY <1>2, <2>1, <4>1 DEF _find_held
      <4>3. state \in [Voices -> States]
        BY DEF HInv, IInv, TypeOK, ChipTypeOK, TableTypeOK
      <4> QED BY <1>2, <3>2, <4>1, <4>2, <4>3 DEF note_off
    <3> QED BY <1>7, <3>1, <3>2 DEF Lift
  <2> QED BY <1>1, <1>2, <2>2 DEF _find_held, Voices
<1> QED BY <1>4, <1>5, <1>6, <1>7 DEF HNext

\* A key that is down loses its voice only while every voice is held, to the
\* strike of another, and only the key struck before all the others that have
\* one; and no voice is held for a key that is up, whatever is played and
\* whatever fails (_allocate, note_off, recover).
THEOREM StealingIsFair == HSpec => NoEarlySteal /\ []HeldForAKey
<1>1. HInv /\ [HNext]_hvars => [TakesOldest]_hvars
  BY OnlyStrikesTake, StrikeTakesOldest DEF TakesOldest
<1>2. HInv => HeldForAKey
  BY DEF HInv
<1> QED BY <1>1, <1>2, HInitInv, HNextInv, PTL DEF HSpec, NoEarlySteal

\* A key that is down keeps its voice until as many other notes as there are
\* voices have been struck after it: a chip of NVoices voices never gives up one
\* of the last NVoices notes struck (_allocate, on_time).
THEOREM LastNotesKept == HSpec => []FewKeepVoice
<1>1. HInv => FewKeepVoice
  BY DEF HInv
<1> QED BY <1>1, HInitInv, HNextInv, PTL DEF HSpec
=============================================================================

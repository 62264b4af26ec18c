SPECIFICATION HSpec
CONSTANTS
    NVoices = 3
    Notes = {n1, n2, n3, n4}
    Bends = {b1, b2}
    Waves = {w1}
    Envs = {e1}
    Settings = {g1, g2}
    NoNote = NoNote
    Zero = Zero
SYMMETRY MCSymmetry
INVARIANTS
    TypeOK
    GateFollowsTable
    InTune
    PatchApplied
    HeldForAKey
PROPERTIES
    FreshAttack
    NoEarlySteal
    ImplementsInstrument

SPECIFICATION Spec
CONSTANTS
    NVoices = 2
    Notes = {n1, n2, n3}
    Bends = {b1}
    Waves = {w1}
    Envs = {e1}
    Settings = {g1, g2}
    NoNote = NoNote
    Zero = Zero
    Nobody = Nobody
    Listen = TRUE
    Keys = {"panic", "quit"}
    MayFail = FALSE
SYMMETRY MCSymmetry
INVARIANTS
    TypeOK
    GatesAgree
PROPERTY OneBlockPerMessage

SPECIFICATION Spec
CONSTANTS
    NVoices = 1
    Notes = {n1, n2}
    Bends = {b1, b2}
    Waves = {w1}
    Envs = {e1}
    Settings = {g1}
    NoNote = NoNote
    Zero = Zero
    Nobody = Nobody
    Listen = TRUE
    Keys = {"panic"}
    MayFail = FALSE
INVARIANT NothingHangs

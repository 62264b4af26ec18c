SPECIFICATION FairSpec
CONSTANTS
    NVoices = 1
    Notes = {n1, n2}
    Bends = {b1}
    Waves = {w1}
    Envs = {e1}
    Settings = {g1}
    NoNote = NoNote
    Zero = Zero
    Nobody = Nobody
    Listen = FALSE
    Keys = {"panic", "recover", "reset", "globals", "tone", "quit"}
    MayFail = TRUE
INVARIANT LocksOrdered
PROPERTIES
    MidiAnswered
    BendServed
    ShutdownEnds

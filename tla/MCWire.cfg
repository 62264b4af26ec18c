SPECIFICATION Spec
CONSTANTS
    BlockWords = 8
    Chips <- MCChips
    Rows <- MCRows
    Captures <- MCCaptures
    Sweep <- MCSweep
    Values = {1}
    Pauses = {8}
    MaxWords = 2
    MaxBlocks = 2
INVARIANTS
    TypeOK
    ReadsWhatWasAsked
    NoOpenEscape
    Spaced
    OnlyTheKnock
PROPERTY ImplementsQueue
CHECK_DEADLOCK FALSE

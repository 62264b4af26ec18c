SPECIFICATION FairSpec
CONSTANTS
    Ring = 8192
    Block = 512
    RoomRealtime = 4096
    RoomBuffered = 1024
    MaxSlip = 512
    MayLag = TRUE
    Threads = {t1, t2}
    None = None
    Calls <- RealtimeCalls
INVARIANTS
    TypeOK
    NoOverrun
    RoomHolds
PROPERTY LockReleased

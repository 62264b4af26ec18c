SPECIFICATION Spec
CONSTANTS
    Ring = 8192
    Block = 512
    RoomRealtime = 4096
    RoomBuffered = 1024
    MaxSlip = 0
    MayLag = TRUE
    Threads = {t1, t2}
    None = None
    Calls <- AllCalls
INVARIANT NoOverrun

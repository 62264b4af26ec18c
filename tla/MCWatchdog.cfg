SPECIFICATION FairSpec
INVARIANT TypeOK
PROPERTIES
    RunBitFollowed
    StopReported
    StallReports

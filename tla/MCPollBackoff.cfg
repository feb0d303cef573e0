CONSTANTS
    BlockTimes <- MCBlockTimes
    SyncTimes <- MCSyncTimes
    StartTimes <- MCStartTimes
    Delays <- MCDelays
    Never = Never
    Retries = 4
SPECIFICATION Spec
INVARIANTS
    TypeOK
    NotFoundMeansLate
    StaleTimeOnlyWhenCatchingUp

\* Three segments, the default of two recovery attempts, every irregularity of the bank.
SPECIFICATION FairSpec
CONSTANTS
    NumSegments = 3
    RecoveryAttempts = 2
    Faults <- LossyNetwork
    BankDefects = {"bad_point", "wrong_segment", "other_data", "opposite"}
INVARIANTS
    DownloadInvariant
    ConsumptionShows
PROPERTIES
    KeepsPromise
    HeldDataStays
    CallEnds
\* The call ends and the bank may have nothing left to do.
CHECK_DEADLOCK FALSE

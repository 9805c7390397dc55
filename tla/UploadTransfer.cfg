\* Three segments, so that recovery can go back past more than one, the default of two
\* recovery attempts, every fault and every irregularity of the bank.
SPECIFICATION FairSpec
CONSTANTS
    NumSegments = 3
    RecoveryAttempts = 2
    Faults <- AllFaults
    BankDefects = {"unsent_point", "no_return_code"}
INVARIANT
    TransferInvariant
PROPERTIES
    KeepsPromise
    CallEnds
\* The call ends and the bank may have nothing left to do.
CHECK_DEADLOCK FALSE

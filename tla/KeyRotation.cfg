\* Two key changes in a row, crashes included, and errors the transfer does not translate.
SPECIFICATION Spec
CONSTANTS
    NumSegments = 2
    RecoveryAttempts = 1
    Faults <- LossyNetwork
    BankDefects = {"unsent_point", "no_return_code"}
    MaxRotations = 2
    NoFile = NoFile
INVARIANTS
    RotationInvariant
    LockedOutByLapseOnly
PROPERTY
    OneChangeAtATime
\* Nothing is left to do once every key change is over.
CHECK_DEADLOCK FALSE

\* One key change, and connections that drop while an answer is read, at a regular bank.
SPECIFICATION Spec
CONSTANTS
    NumSegments = 2
    RecoveryAttempts = 1
    Faults = {"dropped"}
    BankDefects = {}
    MaxRotations = 1
    NoFile = NoFile
INVARIANT
    NeverLockedOut
\* Nothing is left to do once the key change is over.
CHECK_DEADLOCK FALSE

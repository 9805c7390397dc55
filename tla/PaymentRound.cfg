\* Two payments, in one file or in two, or again in a second after a rejection; three uploads.
SPECIFICATION Spec
CONSTANTS
    b1 = b1
    b2 = b2
    Blocks = {b1, b2}
    MaxFiles = 2
    MaxUploads = 3
SYMMETRY BlockSymmetry
CONSTRAINT UntilEarly
INVARIANTS
    PaymentInvariant
    PaidTwiceOnlyIfEarly
    LostOnlyByFailure
\* When all files are written and everything is reported nothing is left to do.
CHECK_DEADLOCK FALSE

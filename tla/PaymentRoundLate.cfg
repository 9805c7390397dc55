\* One payment, uploaded a second time once the operator has checked that it has not arrived.
SPECIFICATION Spec
CONSTANTS
    b1 = b1
    b2 = b2
    Blocks = {b1}
    MaxFiles = 1
    MaxUploads = 2
INVARIANT
    PaidOnce
\* When the file is uploaded and everything is reported nothing is left to do.
CHECK_DEADLOCK FALSE

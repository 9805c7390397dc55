\* Segments of three characters end within a base64 group and within a block; chunks of two
\* bytes end within a run of three and, with runs of two, with the input.
SPECIFICATION Spec
CONSTANTS
    MaxCodes = 3
    Streams <- MCStreams
    Contents <- MCContents
    Block = 2
    SegmentSize = 3
    Limit = 5
    Chunk = 2
    MaxRun = 3
    MaxEntries = 3
    MaxEntryBytes = 1
    Defects = {"short", "cut", "misplaced", "damaged", "key"}
INVARIANTS
    OrderDataInvariant
    BoundedOutput
    EndVouches
    DocumentsRead
PROPERTIES
    OpensWhole
\* The data is opened, or it is not.
CHECK_DEADLOCK FALSE

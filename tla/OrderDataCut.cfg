\* Order data that loses its end on the way, at any place.
SPECIFICATION Spec
CONSTANTS
    MaxCodes = 3
    Streams <- MCStreams
    Contents <- MCContents
    Block = 2
    SegmentSize = 3
    Limit = 5
    Chunk = 2
    MaxRun = 3
    MaxEntries = 3
    MaxEntryBytes = 1
    Defects = {"cut"}
INVARIANT
    OpenedToItsEnd
\* The data is opened, or it is not.
CHECK_DEADLOCK FALSE

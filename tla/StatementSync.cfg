\* Calls of every kind at one mailbox, one delivery of every kind.
SPECIFICATION FairSpec
CONSTANTS
    good = good
    old = old
    cut = cut
    garbled = garbled
    Deliveries <- AllKinds
    Messages <- Vintages
    Requested = "version 08"
    Root <- Roots
    Unreadable <- Unparseable
    OutOfPeriod <- OnlyOld
    Jobs <- AllCalls
    MaxLate = 1
INVARIANTS
    SyncInvariant
    NothingLost
PROPERTIES
    ConsumedAsAsked
    WaitingEnds

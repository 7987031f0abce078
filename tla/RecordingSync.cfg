\* Three clips, of which one can be deleted from the card; a cache for two.
SPECIFICATION SyncSpec
CONSTANTS
    Ids = {1, 2, 3}
    MaxCount = 2
    Size = 1
    Sized = {1, 2, 3}
    Legacy = {}
    Erasable = {3}
INVARIANTS
    FetchedOnce
PROPERTIES
    PublishedPlayable
    SyncReturns
    MotionHeard
    CaughtUp

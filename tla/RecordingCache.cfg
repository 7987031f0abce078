\* Three recordings, room for two: eviction, a marker that is evicted at once,
\* a marker and metadata of one recording.  Recording 3 has no announced size;
\* an earlier run may have left any files of recording 1.
SPECIFICATION Spec
CONSTANTS
    Ids = {1, 2, 3}
    MaxCount = 2
    Size = 2
    Sized = {1, 2}
    Legacy = {1}
INVARIANTS
    TypeOK
    CapacityKept
    BackedByDisk
    RestartFindsIndex
    TwoStrikes
    KeepsNewest
PROPERTIES
    ListedFilesStable

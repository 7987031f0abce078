\* Three ingests: the one of NewDriver, that of Start and one or two of SetResolution.
\* Any of three URLs may be the good one; only the ingest of Start tries the second.
SPECIFICATION Spec
CONSTANTS
    MaxIngests = 3
    Candidates = 3
    Fallback = {2}
    MaxFaults = 2
INVARIANTS
    OneStream
PROPERTIES
    VideoReturns
    IngestsEnd
CHECK_DEADLOCK FALSE

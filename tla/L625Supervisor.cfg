\* Two faults: a fault while the session recovers from another one.
SPECIFICATION SupSpec
CONSTANTS
    MaxFaults = 2
\* The supervisor ends at the shutdown.
CHECK_DEADLOCK FALSE
INVARIANTS
    CleanedUp
PROPERTIES
    HealthySurvives
    StreamComesBack
    ShutdownEnds

\* Three frames: a late or repeated answer meets the next request; one write or handshake fails.
SPECIFICATION Spec
CONSTANTS
    MaxFrames = 3
    MaxFaults = 1
INVARIANTS
    TypeOK
PROPERTIES
    EndsAtOnce

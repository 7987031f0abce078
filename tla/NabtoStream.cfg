\* Two messages down and one up, with and without a body; one packet fails; a queue of two
\* is full when the camera sends three segments ahead.
SPECIFICATION Spec
CONSTANTS
    MaxDown = 2
    MaxUp = 1
    MaxBody = 1
    MaxFaults = 1
    MaxSYN = 2
    QueueCap = 2
    WireCap = 2
PROPERTIES
    ImplementsDown
    ImplementsUp
CHECK_DEADLOCK FALSE

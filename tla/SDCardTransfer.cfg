\* Two transfers of three parts, room for one part, two messages in flight.
SPECIFICATION Spec
CONSTANTS
    MaxRequests = 2
    Chunks = 3
    Buffer = 1
    Window = 2
\* The bridge stops when it panicked, and the model when its requests are spent.
CHECK_DEADLOCK FALSE
INVARIANTS
    CompleteWhenClean
    WrittenInOrder
PROPERTIES
    CallReturns

\* Refuted: a local write error leaves the download goroutine in the pipe.
SPECIFICATION SyncSpec
CONSTANTS
    Ids = {1, 2, 3}
    MaxCount = 2
    Size = 1
    Sized = {1, 2, 3}
    Legacy = {}
    Erasable = {3}
PROPERTIES
    LoopGoesOn

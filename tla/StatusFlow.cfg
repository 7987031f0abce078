\* Two messages, commands, lost connections and failed ones overlap with each other, the
\* timer, a poll, a reconnect and the discovery, or one of them does where the state before
\* or after it is dark.  A channel of one is full at the second motion.
SPECIFICATION Spec
CONSTANTS
    MaxChanges = 2
    QueueCap = 1
    MaybeDark = {0, 1}
INVARIANTS
    
    MotionHasTimer
PROPERTIES
    PullPointConverges
    

\* One fault: a reconnect after it, with the login's two candidates, while everybody else
\* uses the client.
SPECIFICATION Spec
CONSTANTS
    MaxFaults = 1
    Candidates = 2
\* The loop ends at the shutdown; a panic ends the process.
CHECK_DEADLOCK FALSE
INVARIANTS
    OwnAnswer
    LoginIsCurrent
PROPERTIES
    SessionRestored

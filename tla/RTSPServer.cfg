\* Two clients compete for the speaker and with sources that have no session; one of them
\* repeats its PLAY.
SPECIFICATION ServerSpec
CONSTANTS
    Sessions = {s1, s2}
    MaxPlays = 3
INVARIANTS
    CountMatches
PROPERTIES
    TalkerHeard

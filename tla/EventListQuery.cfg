\* Two callers and four queries in a session: three may time out, one may come between.
SPECIFICATION Spec
CONSTANTS
    Callers = {syncer, client}
    Nobody = Nobody
    MaxQueries = 4
\* The model stops when its queries are spent.
CHECK_DEADLOCK FALSE
INVARIANTS
    TypeOK
    ChannelIsOwn
    OwnAnswerWhenClean
PROPERTIES
    ResetJustified
    QueryReturns

SPECIFICATION Spec
CONSTANTS
    FeedServed = TRUE
    MaxSeq = 3
    Polls = {p1, p2}
    NoPoll = NoPoll
INVARIANTS
    TypeOK
    NeverDeaf
    OnePollAtATime
    SignalsComplete
PROPERTY
    PublishedIsSignalled
\* A page that is signed out comes to a stop.
CHECK_DEADLOCK FALSE

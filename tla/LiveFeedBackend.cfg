SPECIFICATION Spec
CONSTANTS
    FeedServed = FALSE
    MaxSeq = 2
    Polls = {p1, p2}
    NoPoll = NoPoll
PROPERTY
    PublishedIsSignalled
\* A page that is signed out comes to a stop.
CHECK_DEADLOCK FALSE

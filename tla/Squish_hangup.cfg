CONSTANTS
    BUFSIZ = 2
    Input <- NoInput
    MaxSaid = 1
    QueueSize = 1
    MaxCalls = 0
SPECIFICATION SquishSpec
INVARIANT AllRelayed
CHECK_DEADLOCK FALSE

CONSTANTS
    NDbs = 3
    Rounds = 2
    Requests = 3
SPECIFICATION FairSpec
INVARIANTS TypeOK
PROPERTIES ImplementsHandle UseReturns
\* the program ends, or main joins a task that waits for the flag
CHECK_DEADLOCK FALSE

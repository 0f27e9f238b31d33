CONSTANTS
    NDbs = 2
    Rounds = 2
    Requests = 2
SPECIFICATION Spec
INVARIANTS ResultsAreOfOneDb
\* the program ends, or main joins a task that waits for the flag
CHECK_DEADLOCK FALSE

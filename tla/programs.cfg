CONSTANTS
    MaxEvents = 3
    Words <- MCWords
    MaxLen = 5
    MaxKey = 6
    Threads = {"t1", "t2"}
    MaxScopes = 1
    Targets = {"a", "b"}
    Requires <- MCRequires
    Texts = {"old", "new"}
    Args = {"x", "y"}
    Nothing = Nothing
    Ids = {10, 20}
    MaxCalls = 6
SPECIFICATION Spec
INVARIANTS FailureIsReported HandlesAreValid BitsAgree FindsSegment LinesAreWhole TraceIsNested SkippedIsInstalled PrerequisitesFirst QueriesActiveDb
PROPERTIES QuitEndsLoop SearchEnds
\* each program ends
CHECK_DEADLOCK FALSE

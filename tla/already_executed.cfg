CONSTANTS
    u1 = u1  u2 = u2
    manager = manager
    Clients <- TwoClients
    Manager = manager
    NProxies = 2
    Handle <- OneHandle
    Rounds = 1
    NewFlags = {FALSE}
    MaxCalls = 2
    MaxPools = 4
    MaxSlots = 3
SPECIFICATION Spec
INVARIANTS BusyMeansExecuting
\* clients may stop calling, and the program may terminate
CHECK_DEADLOCK FALSE

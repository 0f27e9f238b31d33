CONSTANTS
    task1 = task1  task2 = task2  task3 = task3
    worker1 = worker1  worker2 = worker2
    client1 = client1  client2 = client2
    None = None
    Tasks <- AllTasks
    Body <- Crossing
    Workers <- TwoWorkers
    Clients <- TwoClients
    Calls <- PoolCallers
    MaxCalls = 2
SPECIFICATION Spec
PROPERTY ImplementsExecutor
\* a client may stop calling and every worker may have ended
CHECK_DEADLOCK FALSE

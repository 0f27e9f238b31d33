CONSTANTS
    t1 = t1  t2 = t2  t3 = t3
    c1 = c1
    p1 = p1  p2 = p2
    Tasks <- MCTasks
    Consumers <- OneConsumer
    Producers <- MCProducers
    Ends <- OneEnd
    Stoppable <- OneConsumer
SPECIFICATION FairSpec
INVARIANTS TypeOK ExactlyOnce Fifo NoLostWakeup
PROPERTIES Delivered StopEndsLoop
CHECK_DEADLOCK TRUE

--------------------------- MODULE MCQueueSystem ----------------------------
(* Instances of QueueSystem for TLC. *)
EXTENDS QueueSystem

CONSTANTS t1, t2, t3, c1, p1, p2

MCTasks == {t1, t2, t3}
OneConsumer == {c1}
MCProducers == {p1, p2}
OneEnd == {t3}
=============================================================================

------------------------------ MODULE MCWorker ------------------------------
(* Instances of Worker for TLC. *)
EXTENDS Worker, TLC

CONSTANTS task1, task2, task3, worker1, worker2, client1, client2

AllTasks == {task1, task2, task3}
OneWorker == {worker1}
TwoWorkers == {worker1, worker2}
TwoClients == {client1, client2}

\* The bodies of the tasks of a run.
Bodies3(x, y, z) == task1 :> x @@ task2 :> y @@ task3 :> z
Mixed == Bodies3("until_cancelled", "post", "reset")
Crossing == Bodies3("cancel", "end", "emit_shutdown")
Planned == Bodies3("post", "return", "emit_shutdown")
Plain == Bodies3("return", "return", "return")
Looping == Bodies3("until_cancelled", "return", "return")

\* The methods each client may call in a run.
CallsOf(x, y) == client1 :> x @@ client2 :> y
Controllers == CallsOf({"post", "clear_post", "reset", "stop_when_done", "shutdown"},
                       {"post", "pause_loop", "cancel", "emit_shutdown",
                        "wait_shutdown", "LOGIGNORE"})
Enders == CallsOf({"post", "planned_shutdown", "shutdown"},
                  {"post", "wait_shutdown", "stop_now"})
PoolCallers == CallsOf({"post", "planned_shutdown"}, {"cancel", "shutdown"})
PostAndDrain == CallsOf({"post"}, {"stop_when_done"})
PostAndCancel == CallsOf({"post"}, {"cancel"})
PostAndShutdown == CallsOf({"post"}, {"shutdown"})
=============================================================================

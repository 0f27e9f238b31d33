# A verification project for aeternum

The repository is a personal collection: cheat-sheets, build-system recipes and
small programs. Its own program logic is concentrated in a few of them. The
largest is `languages/cxx/taskmgr`, a task manager of worker threads on blocking
queues; it is written to be used from many threads, and its comments argue about
races and deadlocks. The next is `languages/cxx/chain_proxy`, a database handle
that can be replaced while it is in use. This project models both and proves
their safety for any number of threads, tasks and connections. Of the rest it
models the programs that have an order, a fault or a computation to get wrong: an
installer with stamps, a tracer, two algorithms, and the framework samples, with
their proofs. Every invariant that a passing run checks is a theorem too.

Run `tlc -config X.cfg M.tla` and `tlapm M.tla` in this directory.
`PROJECT.json` lists every run, theorem, mutant, finding and hazard with its
source line.

## 1. Inventory

### 1.1 async_queue (`languages/cxx/taskmgr/async_queue.cpp`)

A FIFO of tasks between threads.

- State: `m_queue`, `m_mutex`, the condition variable `m_nonempty`, the atomic
  `m_blocked`. The flags `stopped` and `extracted` belong to the consumer, which
  passes them to `pop`.
- Operations: `push` (optionally discarding what is queued), `clear_push`,
  `clear`, `empty`, `block`, `pop`.
- Interaction: producers and consumers share the queue under its mutex; `block`
  stores `m_blocked` outside it and then locks to notify; `pop` waits for
  `stopped || !(m_blocked || empty)`, tests `stopped` again, raises `extracted`
  and takes the front, all in one critical section.
- Hard: lost wakeups (`notify_one` everywhere, a store outside the mutex), the
  second test of `stopped` after the wait, a flag that goes up between this test
  and the take, several consumers on one queue.
- Correct when: each pushed task has one owner, tasks come out in push order,
  no consumer sleeps on a queue it could pop, a stopped consumer's loop ends.

### 1.2 Worker (`languages/cxx/taskmgr/worker.cpp`)

A thread that runs the tasks of an async_queue, and the methods others call.

- State: `m_shutdown` and `m_executing` (the queue's `stopped` and `extracted`),
  `m_canceled`, `m_policy`, `m_mutex`, the condition variable `m_completed`,
  `m_thread`, `m_tid`; `s_initialized`, a registry of all workers.
- Operations: the loop `run`/`exec`; low level `set_policy`, `pause_loop`,
  `clear_queue`, `emit_cancel`, `wait_running_task`, `emit_shutdown`,
  `wait_shutdown`; aggregated `stop_now`, `stop_when_done`, `resume`, `reset`,
  `cancel`, `shutdown`, `wait_completion`, `post`, `clear_post`,
  `planned_shutdown`, `wait_shutdown_finished`.
- Interaction: any thread may call any method, tasks included, also on their own
  worker. Methods are built from others; only `post` and the waits take
  `m_mutex`, the rest are atomics and queue operations.
- Hard: every gap between two steps of one method; `exec` resetting
  `m_canceled`; `wait_completion` reading two pieces of state; exceptions thrown
  to a task that waits for itself; a task that shuts its worker down; `join`
  called by two threads.
- Correct when: no task is lost or run twice; a method that waits for the running
  task does not return before its end; its sleepers are notified; nothing starts
  once `emit_shutdown` has notified; `cancel` and `shutdown` return.

### 1.3 Pool and Group (`taskmgr/pool.cpp`, `taskmgr/group.cpp`)

Several workers on one queue; counting the tasks of one worker per group. The
first is a constructor, the second a sketch over a type the repository does not
contain. The topology of a pool is a parameter of the worker model.

### 1.4 chain_proxy (`languages/cxx/chain_proxy/*.cpp`)

A database handle behind a chain of accessors (`Shared -> Proxy -> Pool ->
Exclusive -> Unsafe -> MyDB`), twelve iterations of one design; `12-mutex.cpp`
is the complete one, `00-proxy-interrupt.cpp` a reduced one with another answer
to the same problem. State: the flag `m_ongoing` of a database, the mutexes of
`Exclusive`, `Pool` and `Proxy`, the pre-taken lock `m_Lock`, the pool's
connections, the proxy's current target. Hard: a query that runs while its
database is replaced, interrupted and destroyed; a lock handed from `try_lock` to
`operator->`; a pool cleared while a call to it waits for its mutex. Correct when: no
database is destroyed under a running query, an interrupted query throws, one
query per connection, and a database can be used again after a query.

In `00-proxy-interrupt.cpp` there is one mutex, one thread that queries and one
that switches; the first polls a flag at checkpoints, which the other lowers for
the time of the switch. `10-manager.cpp` and `11-functional.cpp` have the manager
and the chain without threads: what matters is which database a chain reaches
after others have been activated.

### 1.5 The rest

- `buildsystems/ext-deps/bash/ext-deps`: install scripts, run in the order of
  their requirements, and a marker with a hash of script and arguments per target.
  Hard: a kill in the middle of a script that replaces an earlier installation, or
  between a step and its marker; scripts edited while they run; arguments that
  change from run to run and return. Correct when a target that would be skipped is
  installed from its present script with the present arguments.
- `languages/cxx/taskmgr/print_scope.cpp`: a line at the entry and exit of each
  scope, indented by depth, from several threads. Hard: parts of lines and
  thread numbers shared between threads, global scopes. Correct when lines are
  whole and nest.
- `algorithms/binary_search/*`, `languages/cxx/t/higher_bit.cpp`: pure
  algorithms. Hard: rounding, tables of one entry, the word 0.
- `frameworks/SDL2`, `OpenGL`, `Xorg`, `dbus`, `sqlite`: samples that create,
  check, use and release things of a library, with an event loop in between.
  Hard: the paths after a failed creation, the order of releases, events that a
  loop overlooks. Correct when the exit status tells of failures, no handle is
  used after its end, and a request to quit is obeyed.
- `buildsystems/make/exemplar/jekyll-stampfiles.mk`, `languages/zsh/threads/*`,
  `languages/c/threads/*`, ZeroMQ: recipes and demonstrations of one call each.
- Everything else is configuration, notes and assets.

The `components` of `PROJECT.json` repeat this list with a status each, and its
`hazards` name what can go wrong in this code, each at its line.

## 2. Plan

In the order of importance; done so far: 1 to 10.

| # | modules | what |
|---|---------|------|
| 1 | `AsyncQueue`, `QueueSystem`, `MCQueueSystem` | the queue and the threads around it |
| 2 | `Worker`, `MCWorker` (uses `AsyncQueue`) | the workers and their callers |
| 3 | `Executor` | what a worker promises; `Worker` implements it |
| 4 | `SequenceFacts`, `QueueProofs`, `WorkerProofs` | every safety property of 1 and 2 for all constants, and the refinement |
| 5 | `DbHandle`, `DbPool`, `MCDbPool`, `DbPoolProofs` | chain_proxy: exec, interrupt, locking, replacement; what it promises; its proofs |
| 6 | `ProxyInterrupt`, `ProxyInterruptProofs` | the proxy that polls a flag; it implements `DbHandle` too |
| 7 | `ExtDeps` | the installer and its markers, with kills between any two steps |
| 8 | `Search`, `HigherBit` | binary search and highest bit against reference definitions |
| 9 | `PrintScope`, `AccessorChain`, `Samples`, `MCPrograms` | tracer, accessor chains, framework samples; the run of all small programs |
| 10 | `AlgorithmProofs`, `ProgramProofs`, `PrintScopeProofs` | for 7 to 9: soundness of the markers and order of the scripts, correctness of the search and of the highest bit, accessor chains, whole and nested lines, handles and exit statuses of the samples |
| 11 | `WorkerLifecycle` | constructor, registry and the write of `m_tid`, racing the first task |

Bounds stay at two or three threads of each kind and three tasks or values,
enough for every pair of steps of two callers to meet around the worker, and each
new module gets one run for safety and liveness and at most one for a claim of
the source that does not hold. Liveness under fairness stays with TLC.

## 3. Modules and code

### AsyncQueue, QueueSystem

`AsyncQueue` has one operator per method or critical section. `block` is two steps
(`BlockStore`, `BlockNotify`), since its store comes before the lock. The section
of `pop` is several: it reads `stopped` and raises `extracted`, atomics that other
threads write and read without the mutex. `PopDecide` is the test of `stopped`,
`PopExtract` the raised flag, `PopTake` the take; from the first to the last the
consumer is in `taking` and everyone else's section waits for `MutexFree`. The wait
predicate and the second test of `stopped` are one step: between them the flag can
only go up, and then the second test finds it as `PopEnd` does. So are the reads of
`stopped` and `m_blocked` in the predicate: a consumer that goes to sleep on an old
value of one and a new one of the other is woken by the notification that follows
the stores, for which it releases the mutex. The sections of `push`, `clear` and
`empty` read no atomic. A condition variable is the set of sleepers `nonempty`; `NotifyOne` removes any one
of them and `SpuriousWake` one for no reason. A woken consumer is one that is out
of the set: it evaluates the predicate again like a newcomer, as
`wait(lock, pred)` does.

| C++ | TLA+ |
|-----|------|
| `m_queue`, `m_blocked`, sleepers of `m_nonempty` | `queue`, `blocked`, `nonempty` |
| the consumer's `stopped`, `extracted` | `stopped[c]`, `extracted[c]` |
| `push`, `clear_push`, `clear`, `empty` | `Push`, `ClearPush`, `Clear`, `Empty` |
| `block` | `BlockStore` then `BlockNotify` |
| `pop` | `PopSleep`, `PopEnd`, or `PopDecide`, `PopExtract`, `PopTake` |
| owner of `m_mutex` between two of the latter | `taking` |

`QueueSystem` adds the threads: producers call every method in any order,
consumers run the loop of `main()`. `Ends` are the values that end that loop,
`Stoppable` the consumers whose flag may be raised. The queue starts empty, and the
five values that `main()` begins with are pushes. The variables `clock`,
`stamp`, `taken` and `dropped` are history.

### Worker

The methods are sequences of steps, composed as the C++ methods are
(`StopNow == SetPolicy("IGNORE") \o PauseLoop(FALSE) \o ClearQueue \o Cancel`).
`todo[t]` is what thread t still has to do in its call, `on[t]` the worker it
calls, `arg[t]` the task it carries. One action `Do...` takes one kind of step,
so all interleavings of all methods are covered. A worker thread is at `pop`,
`popped`, `exec` or `exited`; while it executes a task that calls a worker its
own `todo` is taken like any thread's.

| C++ | TLA+ |
|-----|------|
| `m_shutdown`, `m_executing` | `shutdown[w]`, `executing[w]` (the queue's flags) |
| `m_policy`, `m_canceled` | `policy[w]`, `canceled[w]` |
| owner of `m_mutex`, sleepers of `m_completed` | `mutex[w]`, `completed[w]` |
| `m_thread` being joined, joined | `joiner[w]`, `joined[w]` |
| `run`, `exec` | `Run`: `PopSleeps`, `LoopEnds`, `PopDecides`, `PopExtracts`, `PopTakes`, `EndTask`, `Exec`, `Finish` |
| `post` | `Admit` (takes `m_mutex`, tests the policy), `DoPush` (releases it) |
| `wait_running_task` | `DoWaitRunning`, `SelfWait` |
| `wait_completion` | `DoWaitCompletion`, `DoCheckEmpty` (the two reads of its predicate) |
| `wait_shutdown` | `DoJoinable`, `DoJoin`, `DoJoined`, then `DoClear` |

Decisions worth knowing:

- `m_mutex` is a variable only across the steps during which it is really held
  (`post` and `clear_post`, the second read of `wait_completion`); a section
  that does nothing else in between is one step guarded by `Free`.
- The test of `m_shutdown` in the `while` of `run` is merged with the end of
  `pop`: both leave the loop, and nothing happens between them.
- An exception empties `todo`: it leaves every method at once, and `exec` catches
  what a task throws. `SelfWait` is the exception for waiting on one's own
  worker, and `join` of oneself; the second `join` of a thread throws as well,
  as glibc does.
- `EndTask` is the empty task: `run` breaks, and the flag raised by `pop` stays.
- `exec` is `const` and assigns a member, and other lines would not compile as
  they stand; what they evidently intend is modelled.
- `planned_shutdown` pushes a lambda without `m_mutex` and without looking at the
  policy; the lambda calls `emit_shutdown` of the worker that queued it (`via`).
- `stage` is history: fresh, posting, pending, active, done, dropped.

### Executor

What a client of workers may rely on, in six actions over a backlog: a task is
accepted or refused, started in order by a worker that runs nothing else and has
not stopped (a stop that comes while a task is handed over takes effect with its
start), finished, or discarded together with the whole backlog. `Worker`
instantiates it as `E` with the queue, the history of the tasks, the popped tasks
and, for `running`, `~m_shutdown` or being in `taking`; a task in the hands of
`post` is still fresh.

### DbHandle, DbPool, ProxyInterrupt

`DbPool` is the chain of `12-mutex.cpp` from `User` to `MyDB`, with clients that
query and interrupt and one thread with the `Manager`. A pool is a number, given
in the order of construction, so a pool that is gone is never confused with its
successor; its i-th connection is `<<pool, i>>`. `Shared`, `Unsafe` and
`Lockable` have no state besides the lock a `Lockable` carries.

| C++ | TLA+ |
|-----|------|
| `Proxy::m_a`, `Proxy::m_Mutex` | `target[p]`, `proxyMutex[p]` |
| `Pool::m_Mutex`, length of `Pool::m_as` | `poolMutex[q]`, `size[q]` |
| `Exclusive::m_Mutex`, `m_Lock` | `mutex[c]`, `prelock[c]` |
| `MyDB::m_ongoing` | `ongoing[c]` |
| `operator->` of the chain | `EnterProxy`, `EnterPool`, `TryNext`, `MakeNew`, `Take` |
| `MyDB::exec` | `StartExec`, `Iterate`, `EndExec` |
| `interrupt` of the chain | `BeginInterrupt`, `LockForInterrupt`, `InterruptNext`, `EndInterrupt` |
| `Proxy::use`, `~Pool`, `Pool::clear` | `Use`, `Clear`, `ClearInterrupts`, `ClearLocks`, `Destroy` |
| `Manager::activate`, `~Manager` | `Activate`, `Close` |

Decisions worth knowing:

- An exception that `User::f` does not catch, or that leaves a destructor, ends
  the program: `status` becomes `terminated`. `Proxy::interrupt` reads `m_a`
  without the mutex, so it can call through a null or dangling pointer; then
  `status` becomes `undefined`. In both cases the behaviour stops there, and the
  properties speak of what happens up to that point.
- The sleep of 200 ms in `clear` is a wait of any length: nothing bounds how
  long the query is kept from running, so the connection may or may not be free
  after it.
- `m_ongoing` has no initialiser: `NewFlags` are the values it may start with.
- The guards of `Pool` and `Proxy` are released in one step, since nothing
  happens between them.
- `try_lock` fails only on an owned mutex, as in glibc; the standard would allow
  more, and then a pool could have more connections than clients.
- `MaxSlots` is one more than the clients, so `PoolIsBounded` and not the bound
  keeps `MakeNew` from a third connection.

`DbHandle` is what a user of the chain may rely on, in three actions: a query
starts on the current database of its proxy, it ends, and the database changes
when no query of the proxy runs. In the refinement mapping, the current database
stays the old pool until `Destroy`, although `use` has already stored the new
one: the proxy's mutex hides it.

`ProxyInterrupt` is `00-proxy-interrupt.cpp` as it stands: `main` and its task.
A database is a number in the order of construction, 0 is no database.

| C++ | TLA+ |
|-----|------|
| `Proxy::m_db`, `m_Mutex`, `MyDB::m_ongoing` | `db`, `locked`, `ongoing[d]` |
| `ready_to_process` | `ready` |
| `Proxy::use`: the interrupt outside the mutex, the replacement in it | `UseInterrupt`, `UseReplace` |
| `main` around it | `Raise`, `Lower`, `Join` |
| the dispatcher's loop, `processdata` | `Wait`, `NextRequest`, `Loop`, `Checkpoint` |
| `operator->`, `exec`, `~Lockable` | `Enter`, `Start`, `Iterate`, `Interrupted`, `Finish` |

The task may finish one query and start the next on the same database, which
still has its flag set; that exception and the one of an empty proxy end the
program (`taskAt` is `terminated`). `H` maps the proxy to `DbHandle` with one
client: the same promise as that of the pool, from another design.

### The small programs

They share no state with each other. Each has a module with its own initial
state and next-state relation. `MCPrograms` puts them into one run: the initial
state chooses a program and only that one moves, so the state space is the sum of
theirs, not the product.

`ExtDeps`: a hash is the pair of a script's text and the arguments of the run;
`Texts` and `Args` are sets, so both may return to an earlier value. `Runs` is
`_main`. `Skips`, `Hashes`, `Overwrites`, `Installs`, `ScriptFails`, `Opened` and
`Marks` are `make_target`: a script first takes away what is installed, and may fail
or be killed before it has installed the target anew; the shell truncates the
marker when it opens it, before it writes. `BeginsRemoval`, `DeletesFiles`,
`DeletesMarker` and `EndsRemoval` are `RemoveInstalled`. `Killed` and `EditsScript`
are the world. `built` is what a target was wholly installed from. Three history
variables name what the hash cannot tell: `edited`, the hash with which a target was
stamped although its script was edited while it ran; `changed`, that this has
happened to the script that runs; `stale`, the targets whose files were touched under
a marker that stayed. `SkippedIsInstalled` and `PrerequisitesFirst` except them; both
occur (section 4).

`Orders` translates `tsort | tac` and `array_extend_uniq`: `tsort` is external and
prints any order of the targets named in a pair with each before what it requires,
`tac` reverses it, and the targets without a pair follow. A circle of requirements
has no order: `tsort` fails and with it every run. A run of all targets is `-A` or
names all of them; if no script has a `#@deps:` line the empty output of `tsort`
becomes an empty name at the head of the list, on which a run with `-A` fails at once,
and which named targets filter out. `-D` is described in the usage and handled at line 43,
but missing in the option string (line 39), so `filedeps` is always empty. Two
tools at a time on one prefix are not modelled.

`PrintScope`: `print_scope` and `print`, where `ReadsNumber` and `Increments` are
the two halves of `g_tid++`, and the parts of a line are separate writes. `Life` is
the program's own thread: `firstGSO`, `main`, its inner scope, the `atexit`
handler, and the end of `firstGSO`. Other threads trace while `main` is in its
scope, as the programs that include the file do.

`Search`: the loop that `binary_search.pl` and `binary_search.awk` share, with
what each rejects and returns. `Segment` is the definition it is checked against.
For a table of one entry that matches, the Perl version returns its undefined `mid`;
`FindsSegment` says so.

`HigherBit`: a word is the set of the positions of its ones, so a shift moves a
set and the arithmetic of `bits2` is done on counters per field. `Order` is what
all seven compute, but for the word 0 in `bits5` and `bits6`, which are called
with it all the same.

`AccessorChain`: the edition is a variable, since `10` and `11` differ only in when
the connection is made. A database is the identifier its `MyDB` was made with.

`Samples`: a sample is a table of calls, in the order of its `main`, and one
machine runs any table: a creation may fail, a check leaves, a use of what is
gone or null ends the behaviour, a release takes what it owns with it, a loop
takes events. Which calls a sample checks, and in which order it releases, is
read off its source; what a library does with a null handle is external.

| call | stands for |
|------|------------|
| `Make(r, needs)` | the call that creates r from what it needs; `Creates` |
| `Check(r, cleanup)`, `CheckInverted` | the test of its result, and what the error path releases; `Checks` |
| `Deref(r)` | an access through the pointer; `Dereferences` |
| `Free(r)` | the release, with all it owns (`Owned`); `Frees` |
| `Loop(kind, needs)` | the event loop: waits or polls, tests each event or the last; `TakesEvent`, `LeavesLoop` |
| `UnsetEvent` | the first test of a loop, on an event nothing has set; `ReadsUnset` |

Exceptions that the properties name: the inverted check of `info-mode-closest.cpp`;
the unchecked display of `event-grabkey.c`; the last event of
`gl-context-old.cpp`; the loop of `draw-root-window.c`, which reads no events.

## 4. Runs

| run | instance | shows |
|-----|----------|-------|
| `queue_private` | 3 tasks (one ends the loop), 2 producers, 1 stoppable consumer | `TypeOK`, `ExactlyOnce`, `Fifo`, `NoLostWakeup`; `Delivered`, `StopEndsLoop` |
| `worker_calls` | 1 worker, 2 clients with 2 calls each of the methods in `Controllers`, tasks that loop until cancelled, post, and reset their own worker | `TypeOK`, `OneOwner`, `FlagCoversTask`, `SleeperIsNotified`, `NoLostWakeup`; `WaitsForRunningTask`, `NoStartAfterShutdown`, `ImplementsExecutor` |
| `worker_pool` | 2 workers on one queue, tasks that cancel, end and shut down | `ImplementsExecutor` of a Pool |
| `worker_live` | 1 worker, one client that posts, plans or forces shutdown, one that posts, stops the worker and joins it | `PendingIsServed`, `CancelReturns`, `ShutdownReturns` |
| `idle_when_complete` | as its name says | expected violation |
| `queued_after_shutdown` | | expected violation |
| `cancel_lost` | | expected violation |
| `db_pool` | 2 clients of one proxy with 3 calls each, 2 proxies, 4 pools, 1 iteration of `exec`, both values of a new flag | `TypeOK`, `OneQueryPerConnection`, `NoQueryInDeadPool`, `NeverPreLocked`, `PoolIsBounded`, `NoCircularWait`; `ImplementsHandle`, `CallsEnd` |
| `already_executed` | 2 calls each, new flags clear | expected violation |
| `proxy_interrupt` | 3 databases and the empty one, 3 requests (one more of each than the source), 2 iterations of `exec` | `TypeOK`, `ImplementsHandle`; `UseReturns` |
| `switch_unnoticed` | the same | expected violation |
| `programs` | the small programs with the bounds below | `FailureIsReported`, `HandlesAreValid`, `QuitEndsLoop`; `BitsAgree`; `FindsSegment`, `SearchEnds`; `LinesAreWhole`, `TraceIsNested`; `SkippedIsInstalled`, `PrerequisitesFirst`; `QueriesActiveDb` |

Bounds of the workers. Each task is posted at most once (a second post of an
equal task is another task), each client makes at most `MaxCalls` calls, and a posting when
all tasks are used does nothing. Two calls of each of two clients are enough for
any two methods to overlap and for a third one to come before or after; a task
adds a third caller. One worker suffices for the methods, which never look at
another one; the queue is the only thing workers share, hence the pool run.
`Controllers` leaves out the methods that are made of the same steps as one that
is in it (`stop_now`, `resume`, `planned_shutdown`, `wait_completion` and the
like); `worker_live` calls some of those.
`CHECK_DEADLOCK FALSE` in the worker runs: clients stop calling, workers end.
The queue run checks deadlock.

Bounds of the databases. Two clients on one proxy are all that can compete for a
connection and for a mutex with the Manager as third; a third call of each lets a
query follow a query and an interrupt on a used connection. The second proxy
makes a switch a loop of two, during which the first proxy is used already. Four
pools are two calls of `activate`, so that a pool is destroyed while its
successor works, and `~Manager` may follow. One iteration of `exec` has all the
tests of the flag that twenty have.

Bounds of the small programs. Three events: one that asks to quit, with another
before and after it. Every word with at most two ones and every word of ones up
to a position: each branch of each function is decided by the highest one, and
`bits2` fills what is below. Every ascending table of up to five boundaries from
0 to 6 and every value: all shapes of the range that two or three probes leave.
Two threads besides `main`, with a scope each: two of them can be inside `print`
while the third is between depth and line; with two scopes each the state space is
too large to explore; section 5 proves it for any number. Two targets, one of which
requires the other, two texts of each script and two arguments, with any number of
runs, kills, edits and removals. Six calls
of the accessor chain: activation, user, query, another activation, query, end.
These programs stop, hence `CHECK_DEADLOCK FALSE`.

Fairness (`FairSpec`). Weak fairness of every step of a call in progress and of
every worker's loop: the operating system schedules threads, a mutex that is
always released is eventually obtained, a task's code ends unless it is written
to wait for a cancel. Callers are not obliged to start a call, and a spurious
wakeup is never required. In `QueueSystem`, a producer that is between the
store and the notification of `block` and a consumer that is awake go on. In
`DbPool`, each client inside a query or an interrupt and the Manager inside a
switch go on. Weak fairness is enough for a mutex although several threads want
it, because calls are bounded and the others run out of them; a mutex that
promises no order could starve one of many callers in the code too.
In `ProxyInterrupt` the task as a whole and `use` go on, but `use` has no strong
fairness: that it gets the mutex follows from the flag, not from the mutex. The
rest of `main` need not go on. A sample goes on unless it waits for an event, and
events are not required to come; a search goes on.

### What does not hold

Five statements of the source disagree with the code; each has a run whose
single property states it.

- `wait_completion` "only expect singular point when queue is empty and no
  running task present" (worker.cpp:398): `!m_executing && m_asyncq.empty()` is
  two reads, and the worker can pop the last task between them.
- "release cyclic refs to resources" (worker.cpp:324): a `post` admitted before
  `shutdown` sets the policy can push after its final `clear_queue`.
- "ensure there are no racing gaps between pop_wait and cancel"
  (worker.cpp:189): `exec` resets `m_canceled` after the pop, so a cancel in
  between is erased and a task that waits for it never ends.
- "BUG: already being executed" (12-mutex.cpp:28): `exec` leaves `m_ongoing` set
  when it comes to its END (12-mutex.cpp:40), so the next query on that
  connection throws the exception although nothing runs there.
  `00-proxy-interrupt.cpp` has the same flag and says at line 142 that the
  exception means execution "from another thread".
- "discard evaluation results of thread even in this case"
  (00-proxy-interrupt.cpp:98): the checkpoint reads a flag that `main` lowers and
  raises again; when both happen between two checkpoints, a chunk that has queried
  both databases keeps its results.

The model also shows five things that no run is kept for: the second of two
threads in `wait_shutdown` gets an exception from `join` although line 322 asks for
a no-op; after an empty task has ended the loop, `cancel` sleeps for ever
(`SleeperIsNotified` fails with a body `end`; the theorem assumes there is none);
with two workers on a queue, `shutdown` of one may wake the other and hang in
`join` (`ShutdownReturns` fails with `TwoWorkers`); a `wait_completion` that
went to sleep because tasks were queued is not told when they are cleared; and a
marker of ext-deps outlives what it was written for. A target installed with
arguments x, then with y by a run that is killed before it writes the marker (line
131), is skipped by the next run with x although what is installed is of y; a script
that fails or is killed half-way in a run with `-f`, and a `RemoveInstalled` that is
interrupted, leave a marker in the same way (`SkippedIsInstalled` fails without its
exception of `stale`).

## 5. Proofs

`QueueProofs` (any numbers of tasks, producers, consumers):

- `TypeCorrect`, together with `TakingInv`: the consumer that has decided to take is
  the only one in the critical section, and the queue is not empty.
- `OrderCorrect`: `ExactlyOnce` and `Fifo` are not inductive. `OrderInv` adds that
  no stamp exceeds the clock, so a push has the highest stamp, and that only
  pushed tasks have an owner.
  `FifoCorrect` is its second half alone.
- `WakeupCorrect`: `NoLostWakeup`, under the assumption that there is one consumer
  or that no consumer ever leaves; otherwise the one notification may reach a
  consumer that is leaving. Its invariant says that sleepers are in `pop`.

`WorkerProofs` (any numbers of tasks, workers and clients, any bodies, any
permitted calls):

- `Inv` joins the types, `OneOwner` and `FlagCoversTask` with five facts about
  calls in progress: whoever has decided to take is alone in the queue's critical
  section, in `pop`, and finds a task there (`TakingInv`), a push is the last step of a call whose thread holds the
  task (`PushHasTask`), a thread in a call and a queued task belong to a worker
  (`OnWorker`, `ViaWorker`), and a worker is inside a call only while it executes
  (`IdleOutsideExec`). None of the parts is inductive without the others: types
  need a task to push, ownership needs the types. One family of lemmas per part
  (`...Typed`, `Owners...`, `InCalls...`), one lemma per action, `InvNext` on top.
- From it `TypeCorrect`, `OwnershipCorrect`, `FlagCorrect`, the action property
  `WaitCorrect`, and `JoinCorrect` (nothing leaves `exited`).
  `JoinedIsOver` and, below, `MutexIsReleased` are stated for the proofs only; no
  run lists them.
- Facts about the shape of a call come from two lemmas. `StepsIn`: a set of
  sequences that is closed under concatenation and has the pieces of the methods
  has the methods. `CallsStayIn`: a set that has the methods which some client or
  task calls, and the rest of each member after its first step, has what is left
  of every call in progress.
- `MutexCorrect`: `MutexIsReleased`. A call that still has to take `m_mutex` has
  taken no step yet (`AdmitFirst`), so one that holds it is in one of four
  remainders (`Held`), none of which waits for another thread.
- `WakeupCorrect`: `NoLostWakeup`, under the assumption that there is one worker,
  or any number of workers that nobody ends (`NeverEnded`: no empty task, no
  call of `shutdown`). The store of `m_blocked` in a call is followed by a
  notification and that of `m_shutdown` by a store of `m_blocked` (`Notifies`),
  so whoever could have been left asleep is still to be woken; a sleeper is in
  `pop` (`AsleepInPop`). Without the assumption a worker that ends may take
  with it the one notification of a task, which is the hazard at
  async_queue.cpp:62; the property is then false.
- `ShutdownCorrect`: `NoStartAfterShutdown`. `m_shutdown` goes up without the mutex of
  the queue, so a worker may have decided to take a task and take it afterwards.
  `CaughtTaking`: as long as there is such a worker, a thread is still
  between raising the flag and the notification of its `pause_loop`. It needs that in every
  method the flag is followed by a `block` and that by a `notify` (`Notifies`), and
  that the notification is under the mutex, which waits for the worker in
  `taking`. After it a stopped worker has tested the flag, or will, and starts
  nothing. The property is false if `block` notifies without the mutex.
- `SleeperCorrect`: a second invariant `SleepInv` (the flag is up only while a
  task is held; a sleeper is inside the wait it sleeps in, on another thread's
  worker), under the assumption `NoEmptyTask`.
- `Refinement`: every step is a step of `Executor` or a stutter.

`DbPoolProofs` (any numbers of clients, proxies, pools, connections and
iterations):

- `TypeCorrect`, from `TypeInv`: a thread between two parts of its work on a
  pool has a pool (`HasPool`), and there is room for the pools an `activate` has
  still to make (`Room`).
- `IInv` adds who holds what, which none of the properties says: the mutexes of
  proxies and pools belong to the threads at the labels between taking and
  releasing them, and a client between those of the proxy works on its target
  (`GuardInv`); targets are made, distinct and alive
  (`TargetInv`); a client that holds a connection owns its mutex, and the Manager owns every
  connection it has passed in `clear` (`HoldInv`); a query runs in the pool that
  is current for its proxy (`RunInv`); a pre-taken lock belongs to a client about
  to take it, or to a pool being cleared (`PrelockInv`).
- From it `ExclusiveCorrect`, `AliveCorrect`, `PrelockCorrect`. The second needs
  the last clause of `HoldInv`: `Destroy` comes after every connection was
  locked, so no query holds one.
- `BoundCorrect`: `PoolIsBounded`, for any finite number of clients. The argument
  counts. While a client searches a pool it holds the mutex of its proxy, so
  nobody else gets a connection there. `Owners(q, i)` are the clients that hold
  one at place `i` or behind; `SearchInv` says that the place a search has reached
  and the number of these owners together do not exceed the clients of the proxy.
  A connection found locked has an owner at that very place (`OwnedInv`), who is
  left out of the count with the next place; a release only lowers it; and the
  searcher itself holds none when it begins. So a search that makes a new
  connection is at a place that is at most the number of clients. `FreshInv`: a
  pool not yet constructed is empty.
- `WaitsCorrect`: `NoCircularWait`. `OwnerInv` says at which labels a thread may
  own the mutex of a proxy or of a pool: whoever owns one of a pool waits for
  no mutex at all, whoever owns one of a proxy waits at most for one of a pool, so
  a chain of waits has at most two links. It is what makes `CallsEnd` possible;
  that every call really ends needs fairness and stays with TLC.
- `Refinement`: every step is a step of `DbHandle` or a stutter; `Destroy` is
  the switch.

`ProxyInterruptProofs` (any numbers of databases, iterations and requests):

- `TypeCorrect`.
- `Refinement`: every step is a step of `DbHandle` or a stutter. Its invariant
  says that a task at the labels between `Enter` and the end of the query holds
  the mutex and the database it entered with is still that of the proxy.

`AlgorithmProofs` (tables of any length and boundaries, every 32-bit word):

- `SearchCorrect`: `FindsSegment`. Its invariant `RangeInv` says that the range
  left encloses the value and that the entry probed last is an end of it; the
  second part is needed because both programs return the last probe.
  `SegmentIsUnique`: no other answer would do. `SearchShrinks`: every probe leaves a smaller range that is not
  empty, the part of `SearchEnds` that needs no fairness.
- `HigherBitCorrect`: `BitsAgree`. Each function is reduced to the position of
  the highest one (`Top`) by what its steps keep: `Lifted` for the halvings of
  `bits4`, `Filled` for the doublings of `bits2` and then, per field, how many
  positions of it are below (`Below`) for its sums. `bits0` is a loop over the word;
  that it ends with the order of the word is proved from the least
  number of shifts after which it would not (`LeastNumber`, from the
  well-foundedness of the numbers), since a rule of induction cannot be used.

`ProgramProofs` (any targets, requirements, texts, arguments and identifiers, any
number of edits, runs, kills and events):

- `SkippedCorrect`: `SkippedIsInstalled` with `HashInv`: a marker is of what is
  wholly installed or of a script that was edited while it ran, unless the files were
  touched since; while a script runs the hash is that of its text as long as nobody
  edits it, and from its end to the marker that of what it installed. The theorem
  says nothing of the two cases the property excepts.
- `PrerequisitesCorrect`: `PrerequisitesFirst` with `OrderInv`: in a run of all
  targets, each one still to come requires only itself, what is installed or what
  comes before it in the list. `OrderFacts` derives this of `Orders`: a sequence
  without repetition lists a finite set completely (`AllListed`), `tac`
  turns its order round, and what no pair names requires nothing.
- `ChainCorrect`: `QueriesActiveDb` with `ChainInv`: every proxy has the database
  of the last activation, and at each link of the chain what was fetched is that.
- `HandlesCorrect` and `ReportCorrect`: `HandlesAreValid` and `FailureIsReported`,
  in two halves. The first half is about the 29 tables alone: no call
  touches what a call before it releases (`InOrder`), whatever is
  dereferenced has been checked and not made anew since (`Guarded`), and whatever is made is
  followed by its check or by a creation from it (`Caught`). Each is
  proved for a table by appending its calls one by one (`OrderlyAppend`,
  `GuardedAppend`, `CaughtAppend`); `ProgramFacts` sums up which table has
  which. The second half is the invariant `SampleInv` of the machine that runs
  them: what is gone was released by a call before this one (`GoneInv`),
  what has been checked is not null (`NullInv`), and as long as a sample that
  checks everything runs after a failure, the failure of something made is still unnoticed
  (`NoticeInv`), so that its end is not reached. The last two
  need that no call is skipped, and the samples with an unset event
  are the ones that neither check everything nor dereference anything.
  `ForeverInv`: the loop of `draw-root-window.c` is not left.

`PrintScopeProofs` (any set of threads, any number of scopes):

- `WholeCorrect`: `LinesAreWhole`. Its invariant `PartsInv` joins the types, the
  mutex with the place in `print` (`MutexInv`), the head a text will follow
  (`WholeInv`), numbers taken below the next number, except between the two halves
  of `g_tid++` (`NumberInv`), and what a thread is saying with its depth
  (`SayingInv`): without the last, the depth could become negative.
- `NestedCorrect`: `TraceIsNested`. It is about the whole trace, and the next line
  of an exit is justified by one written long before. `NestInv` therefore keeps,
  for each scope a thread is in, the line of its entry with only deeper lines
  after it (`EnclosedInv`), and the difference between the entries and exits
  written (`BalanceInv`). What nests already still does after more is written
  (`OldLineNests`).

`SequenceFacts` has the facts about appending to and taking from a sequence.

TLC finds these invariants to hold on the instances of the runs too.

The assumptions are those of the modules, named there: worker and client
threads, clients and the Manager are different; `None` is neither a thread nor a
task; no tracing thread is called `main` or `nobody`; clients and targets are finite
sets; words have 32 bits; bounds are numbers; bodies and calls are from the
listed ones. The theorems hold for every value of the bounds, which
the runs need and the programs do not have.

Only model-checked:

- All liveness (`Delivered`, `StopEndsLoop`, `PendingIsServed`, `CancelReturns`,
  `ShutdownReturns`, `CallsEnd`, `UseReturns`, `QuitEndsLoop`, `SearchEnds`),
  because fairness and `ENABLED` are out of the prover's reach.
- The five statements that do not hold: there TLC has the counterexample.

## 6. Not modelled

- Construction and destruction of a `Worker`: thread naming, the registry
  `s_initialized`, and the write of `m_tid`, which the model takes as done. The
  hazards name what can go wrong there. It is step 11 of the plan.
- `wait_task`, `m_stopped` and other declarations without code.
- The memory model: atomics are sequentially consistent, as their defaults are.
- The wording of log output.
- The iterations `01` to `09` of chain_proxy: `operator->` chains without state,
  or with that of `10`. In `12-mutex.cpp`, exceptions of memory allocation.
- `binary_search.c`, which calls `bsearch` of libc.
- Of ext-deps: the commands that only list, the cleaning of temporary
  directories, the parsing of options.
- `win-create-context.cpp`: it makes a `unique_ptr<int>` of an `int` and does not
  compile. Samples in other languages (Lisp, Python), and what is drawn.
- The jekyll stamps, whose recipes run when make decides; the zsh jobs, which
  share nothing; the C thread demonstrations and ZeroMQ: one library call each.
- `group.cpp`, a sketch over a type the repository does not contain.
- Cheat-sheets, configuration, assets.

# Formal models of Dato-Core

Dato-Core is a C++ code base for graph computation and tabular data: distributed
graph engines on an RPC layer of their own, a fiber runtime, an interprocess
object system, pools of worker processes that run user lambdas, and disk-backed
tables and graphs. This directory holds TLA+ models of those of its parts that
are hard to test, TLC configurations that check them on small instances, and
TLAPS proofs for every value of their constants. `PROJECT.json` maps every
definition to its lines of code and lists components, runs, mutants, findings,
hazards and theorems.

To check: `tlc -config X.cfg M` for the pairs in the table of runs, and
`tlapm M.tla` for each module whose name ends in `Proofs`.

## 1. The system and its models

| Part | Code (`src/src/`) | Module | What is hard |
|---|---|---|---|
| Lock manager of the graph engines | `graphlab/engine/distributed_chandy_misra.hpp` | `DistributedChandyMisra` | replicas on several processes, a cancellation racing the last ready signal, back-off that lets go of a lock, order of remote calls |
| Termination detection | `rpc/async_consensus.cpp` | `AsyncConsensus`, which implements `TerminationDetection` | unlocked looks at sleepers, calls in flight, token values across runs |
| Asynchronous engine with its default scheduler | `graphlab/engine/async_consistent_engine.hpp`, `graphlab/scheduler/queued_fifo_scheduler.cpp`, `fiber/fiber_async_consensus.cpp` | `AsyncEngine` | a signal that arrives while its vertex runs or while its fiber tries to quit; leaving with work left |
| Collective operations | `rpc/dc_dist_object.hpp` | `RpcBarriers` on the tree of `BarrierTree`, which implements `FullBarrier` | calls in flight when the barrier opens, counters changed without the lock |
| RPC sending | `rpc/thread_local_send_buffer.cpp`, `rpc/dc_buffered_stream_send2.cpp` | `SendBuffer` | lock-free hand-over from the writers to the sender |
| Fibers | `fiber/fiber_control.cpp`, `fiber/fiber_group.cpp`, `graphlab/util/inplace_lf_queue2.hpp` | `FiberControl` | a wakeup between the decision to sleep and the switch; half-linked queues |
| Thread pool | `parallel/thread_pool.cpp`, `util/blocking_queue.hpp`, `parallel/lambda_omp.hpp` | `ThreadPool` | threads replaced under running loops, exceptions, nested loops |
| Disk lock | `sframe/unfair_lock.cpp` | `UnfairLock` | hand-over by priority, waits that return unsignalled |
| Lambda workers | `lambda/worker_pool.hpp`, `lambda/pylambda_master.cpp` | `WorkerPool` | a worker crashes at any point, waiters of two kinds on one condition variable |
| Interprocess commands | `cppipc/client/comm_client.cpp`, `cppipc/server/comm_server.cpp`, `cppipc/server/cancel_ops.cpp` | `CancelOps` | an interrupt racing the end of its command, lost pings |
| Replicated query objects | `fault/query_object_server_*.cpp` | `QueryObject` | a replica that joins under updates |
| File cache | `fileio/fixed_size_cache_manager.*`, `fileio/cache_stream_*` | `CacheManager` | eviction while blocks grow, are read, deleted |
| CSV parser | `sframe/parallel_csv_parser.cpp` | `CsvParser` | lines cut by blocks and pieces, a writer in the background |

The asynchronous engine ties the first parts together. A fiber runs a vertex
program; with the stronger consistency it asks the lock manager for the vertex,
and the lock manager talks to its peers by remote calls. When a fiber finds no more
tasks it enters the termination detection, whose token compares the numbers of
calls the RPC layer sent and received. Phases are separated by full barriers, which
rest on the same counts. `AsyncEngine` uses the consensus by its promise
(`TerminationDetection`), which `AsyncConsensus` is shown to keep.

What runs under one lock is one step. What the code does without a lock is cut into
its reads and writes. A condition variable is the set of its sleepers. Everything in
`map` follows the source's names.

## 2. The models

### DistributedChandyMisra

State: `fork`, `clean_fork_count` and the fields of `struct philosopher` under
their own names, one per replica. `stack` holds what every thread runs: calls nest
(a cancellation is requested in the middle of grabbing forks), so a thread has
frames. A frame records the position in the edge list, whether the philosopher's
lock is held, and `retval`, the neighbours that became ready. `down` and `up` are
the calls in flight between the master and a mirror, `scatter` the engine's
scatter requests. A fiber is named by its vertex and runs on its master.

A step visits one edge under both locks, as the code does between
`try_acquire_edge_with_backoff` and the unlock of the other end. `Backoff` is the
failed `try_lock`: the thread lets go of its own lock, others may change the
philosopher, and the loop goes on or breaks off.

| Action | Code |
|---|---|
| `MakeHungry`, `StopsEating`, `Released` | make_philosopher_hungry, philosopher_stops_eating, scatter phase of the engine |
| `GrabBegin`, `GrabEdge`, `Relock`, `FinishHungry` | local_philosopher_grabs_forks |
| `IssueCancellation`, `CancellationRequest` | issue_cancellation_request_unlocked, cancellation_request_unlocked |
| `AcceptBegin`, `AcceptEdge` | cancellation_accept_unlocked |
| `StopBegin`, `StopEdge`, `FinishStop` | local_philosopher_stops_eating |
| `Enter`, `SignalReady`, `SetEating` | enter_hors_doeuvre_unlocked, signal_ready_unlocked, set_eating |
| `MirrorCall`, `MasterCall`, `ScatterCall` | the rpc_ functions, perform_scatter |

Two constants select what the build and the engine do. `Sequentialized` says
whether calls with the same key run in order. `PerReplica` selects the release of
async_consistent_engine (scatter requests) or of warp_engine (broadcast).

* **The passing runs have `Sequentialized = TRUE`, which the default build does
  not provide** (finding `cm_unordered`). They show that the protocol is right
  when keys are honoured as documented. Calls between a master and one mirror are
  then a FIFO queue.
* The two locks of an edge are taken in one step; the window between them has no
  other effect than `Backoff`. `Backoff` is allowed only when another thread could
  hold the other lock.
* Sends that one operation makes to all mirrors go out together. A scatter request
  counts as answered in `FinishStop`, a moment early. Local ids are ordered as
  global ids.
* Left out: `make_philosopher_hungry_per_replica`, which no engine calls.

### AsyncConsensus and TerminationDetection

State: the fields of `async_consensus` under their own names, and the user's loop
of the class comment as the engines run it: `work` (queue), `inflight` (calls on
their way), `calls_sent` and `calls_received` (RPC counters). `critical` and
`trying_to_sleep` are functions of the threads' pcs. An agent is a thread or a call
handler; the mutex is held by whoever is at a label of `Holding`. Steps of their own
are the look of `cancel` and `cancel_one` at the sleepers, the two reads of the
counters in `pass_the_token`, and the count of a received call after its handler
returned. `Restart` is the join of all threads, a barrier and `reset` before the next
run. A send is one step with its count; the code counts first.

`TerminationDetection` says what is promised: detection only when nothing is left
to do, nothing starts again by itself then, and detection follows. The mapping is
`busy <- Busy`, `detected <- Detected`.

* The passing runs assume that every process has counted at least one call before
  (`Prior`); finding `ac_fresh` shows what happens otherwise. The engines are not
  exposed: the calls of try_to_quit that set the endgame mode are counted.
* The second test of `numactive` in cancel, under the mutex, is subsumed: with no
  thread asleep there is nobody to wake.
* fiber_async_consensus has the same statements with descheduled fibers in place
  of condition variables.

### AsyncEngine

One run of start() under factorized consistency. Fibers take vertices from the
queues of their cpu (`get_next`, `Steal`), messages from the message array, forward
to the owner, and take exclusive access to a vertex or leave the message to whoever
has it. A program then visits the edges of its vertex twice, to gather and to scatter
(`phase`), each time on its own machine and, by `perform_gather` and `perform_scatter`
calls, on the mirrors, whose answers it waits for; in between comes `Apply`, under the
lock of the vertex. Every visit locks both ends of the edge (`LockFirst`,
`LockSecond`). What init, gather and apply compute is the user's and left out, and
both phases visit all edges.

`try_to_quit`, endgame mode and the critical section are modelled as in the code.
`cancel` is cut in two, the look at `trying_to_sleep` without the mutex and the
wake-up with it (`WakeSleepers`); a fiber is counted as trying to sleep before it
waits for the mutex, and a woken fiber until it has left (`Leave`). The counter is a
function of the fibers' pcs, and falls together with the unlock that the code makes
just before. The test of `numactive` beside it is subsumed, since a sleeping fiber is
counted too. That consensus comes only when nobody has work is taken from
`TerminationDetection`. A timeout appears only as the source of `force_stop`. Left
out: the aggregator, gather caching, stop() called by a program, signals between two
runs.

### RpcBarriers, BarrierTree and FullBarrier

A tree barrier, all_gather on the same tree, and full_barrier, which exchanges the
numbers of calls sent, waits until that many were executed, and ends in a tree
barrier. `BarrierTree` has the heap of processes, the order in which all_gather packs
data and the walk that unpacks them. Control calls run under one mutex and are one step each;
`inc_calls_received` takes no lock until its end and is cut into its reads and
writes. Calls arrive in any order. `FullBarrier` says: nobody returns from a barrier
that somebody has not entered, nor while a call issued before it is not executed.
Spurious returns of the condition waits only repeat a test and are left out.

### FiberControl and SendBuffer

`FiberControl`: worker threads with two multi-producer queues each, whose enqueue
exchanges the tail and links the element later; yield, deschedule and schedule, exit,
fiber_group with exceptions, join and destructor, and fibers that wait for a reply.
`SendBuffer`: writers with an archive, its lock, a second archive for when the lock
is held, and a lock-free queue of full buffers; the sender extracts. Left out:
set_affinity of a running fiber, memory of stacks and groups; threads that end while
the process sends, push_flush and pull_flush, the socket.

### ThreadPool and UnfairLock

`ThreadPool`: the blocking queue with its sleepers, the counters of pool and task
queues, parallel_for with exceptions and nested loops as the user, and one thread
that launches, joins, replaces all threads (resize, set_cpu_affinity) and destroys
the pool. Virtual thread ids are left out. `UnfairLock`: a thread is its priority;
the lock is handed to the lowest waiter. Higher numbers may starve while lower ones
keep asking; what is checked is that everyone gets the disk once those below ask no
more.

### WorkerPool

State: `connections`, `proxy_to_connection` and `available_workers` as in the code;
the processes that run and those that crashed and were not waited for. Evaluators
call bulk_eval. Makers call make_lambda or release_lambda, with one job per worker
in parallel_for. `notify_one` comes after the unlock and is a step of its own. The
guard's destructor takes three steps (`get_pid`, `waitpid`, then `release_worker` or
`restart_worker`), between which anything may crash. `restart_worker` keeps
`operator[]`'s insertion of an unknown proxy for slot 0, as in a build without
DASSERT. `waitpid(-1)` asks for any child.

`Overlap = FALSE` is the order in which one query uses a lambda: it is made before
and released after the evaluations. With `TRUE` unrelated calls overlap.
`MaySpawnFail` names the users whose restarts may fail. The passing run has
`Overlap = FALSE` and lets only evaluators meet a failing restart. Outside of that
the properties do not hold: with overlap an evaluator can miss its wakeup (finding
`wp_lost`), a job of make_lambda can put a worker back that an evaluator took
meanwhile, and get_all_workers can return too few; when the restart under a job of
make_lambda fails, the dead proxy stays in the queue with an empty connection.

### CancelOps and QueryObject

`CancelOps`: the main thread of a client in `comm_client::call`, the SIGINT handler,
the ping thread that carries the interrupt, and the server's threads. The operating
system runs the handler on the main thread; command ids, which are random, are
distinct. `QueryObject`: a master whose threads apply and publish updates, and a
replica that subscribes, asks for a snapshot (which may fail to arrive) and plays
back what it recorded. zmq delivers the messages of a subscription in order.
Elections and the manager are left out. `ReplicaFollows` names four races of the
code, and says that the replica follows the master unless one of them happened.

### CacheManager and CsvParser

`CacheManager`: the map under its mutex, the total as an atomic counter changed
without it, blocks that live as long as the manager or a stream refers to them. The
users keep to the documented limits ("NOT thread safe to call on the same block",
"not generally thread safe"): no cached file is overwritten while open, or deleted
while written or by two threads. The choice of the block to evict is one step. Bytes
and failures of the disk are left out.

`CsvParser`: a character is kept by its place in the input, so that a row can be told
from every other. Of the tokenizer only the verdict on a line is left. The passing
run has lines shorter than `READ_SIZE \div nthreads`; finding `csv_long` shows what
longer lines do.

## 3. Runs

Parts that share no state are checked in one run: a behaviour picks one part and only
that part moves.

| Run | Module, config | Shows |
|---|---|---|
| turns | MCTurns | Lock manager, two vertices with an edge on each of two processes: exclusion because of the forks, fork counts, the code's own assertions, no deadlock, and every vertex that asks eats. Worker pool: workers conserved, connections valid, no idle worker, every call ends. Disk lock: exclusive, no lost wakeup, everyone gets it. |
| threads | MCThreads | async_consensus implements `TerminationDetection`, one token, `numactive` right, no lost wakeup, every thread leaves. Thread pool: every task runs once, no lost wakeup, every loop and operation ends. |
| larger | MCLarger | async_consensus with two threads on a process and `cancel_one`, and with three processes; lock manager with three-way contention and back-off, and with the release of async_consistent_engine; file cache; CSV parser on every short text cut in every way. |
| runtime | MCRuntime | Full barriers over a root with two leaves and over a chain of three processes, the order of all_gather in larger trees, fibers, senders, a joining replica, interrupted commands, and the engine on two machines and on one. |
| cm_scatter_race, cm_unordered | MCChandyMisraStar, MCChandyMisraScatterRace.cfg, ...Unordered.cfg | findings |
| cm_backoff | MCChandyMisraBackoff | finding |
| ac_fresh | MCAsyncConsensus, MCAsyncConsensusFresh.cfg | finding |
| wp_lost | WorkerPool, WorkerPoolLost.cfg | finding |
| qo_version | QueryObject, QueryObjectVersion.cfg | finding |
| en_timeout | MCEngineTimeout | finding |
| csv_long | MCCsv, MCCsvLong.cfg | finding |

`RingSafe`, `TriangleSafe`, `ScatterSafe`, `RuntimeTypeOK`, `GathersExact` and
`SignalsHandled` gather the properties of several instances under one name. Every property of a passing run
has a mutant in `PROJECT.json`: a faulty variant of one definition, written just
before it, under which TLC finds the property violated.

**Bounds.** `MaxMeals` (1 or 2): a second meal is needed for a call of one meal to
meet one of the next, and for `lockid`, one bit, to take both values. Two processes
give every vertex a mirror; a third vertex gives a neighbour that interferes.
`MaxOrders` (1 or 2): one forwarded call and one new task suffice for a call in
front of and one behind the token. `MaxRuns` 2: a reset. `Rounds` 1 and `MaxCrashes`
2: three evaluators compete for two workers, both of which crash, or one that was
restarted crashes again. Three processes and two rounds of barriers: a root
with two leaves, of which one is late, and a call of one round that meets the next; as
a chain, without calls, the middle process is an inner node. That packing and
unpacking agree (`WalkFollowsPacking`) is checked without interleavings for 1 to 15
processes with two or three children a node, so that last levels of every degree of
completeness occur. Two workers and two
fibers, one tied to a worker: stealing, switching and joining meet. `FullBuffer` 2 with
six sends: a writer finds the lock held and fills its second archive. `MaxUpdates` 3:
one before, one during and one after the snapshot. Two commands, two interrupts: one
that is late for its command. `MaxSignals` 2 or 3: a signal that meets its running
vertex, and one for a fiber that is quitting. Two machines with a fiber each and a
timeout, and one machine with two fibers and none. Two ids, four blocks and a total
capacity of four units: growth, eviction and spilling meet. CSV texts of up to seven characters in
blocks of four and pieces of two. `counter` is an unsigned char in the code and counts
modulo 256 in the model; the instances do not come near 256 replicas.

**Deadlock** is checked in turns, threads and larger, whose parts may stop only when
all is done; workers may also stop after a failed restart, whose slot stays empty,
and the locks of the scatter instance after the race of `cm_scatter_race`. In runtime
the check is off and `RuntimeEnds` takes its place: a behaviour may stop only where
no thread can move, and must have come to the end of its part.

**Fairness.** Lock manager: weak fairness of every thread's steps, of receiving for
every handler, and of the vertex program's end: handlers are kernel threads and
fibers run from queues, so each gets its turn; nothing is assumed about who wins a
lock that several spin on. Termination detection: weak fairness of every agent, and
of receiving the token and force_done. Strong fairness of receiving a call and of a
handler's getting the mutex in cancel, because the circling token takes handler and
mutex again and again: handler queues are first in first out, and the mutex is
assumed not to pass over one waiter for ever. Worker pool, disk lock and thread pool:
weak fairness of every thread; none for crashes and unsignalled returns. Runtime:
only that some thread that can move does.

## 4. Proofs

The theorems hold for all values of the constants that satisfy the named assumptions
of the modules (`GraphAssumption`, `AdjacencyAssumption`, `ConsensusAssumption`, `AgentsApart`,
`CancelAssumption`, `QueryAssumption`, `CacheAssumption`, `LockAssumption`):
finite sets, functions of the right type, positive sizes, edge lists that list each
edge once with in-edges first. TLC evaluates them in the runs. The strengthened
invariants were checked with TLC before they were proved.

**Lock manager** (`DistributedChandyMisraProofs`, for both values of `Sequentialized`
and `PerReplica`). `TypeCorrect`: `Spec => []TypeOK`, one lemma per action.
`ForkCountCorrect`: `forks_acquired` of a replica is the number of forks it owns at
every moment. Inductive together with the type; the point is `HandOver`, whose two
updates match the move of one edge between two disjoint sets.

**Termination detection** (`AsyncConsensusProofs`, `TokenProofs`, `DetectionProofs`).

* `TypeCorrect`. That `work` and `inflight` stay natural needs the guards.
* `NoLostWakeup`: no queued task is left to sleeping threads. Not inductive: a thread
  that looked at the queue may be on its way to sleep. `SleepInv` adds which pcs
  threads and handlers go through (`PcInv`) and, where a task is queued,
  `SomebodyCares`: a thread is awake and will look at the queue again, or a handler
  that queued it is in cancel and will wake one.
* `SingleToken`. `RingInv` adds that the mutex has one holder per process
  (`MutexInv`), that whoever is in pass_the_token holds the token, and that once
  consensus is found the token stays where it is and exactly the processes without
  `done` have a force_done call coming; so nothing of a finished run is left when reset
  makes a new token.
* `NumActiveCorrect`: `numactive` is the number of threads outside the critical
  section; each action moves a finite set of threads in or out.
* `ConsensusSound`: `Primed => (Spec => []DoneOnlyWhenQuiet)`. `Primed` says that some
  process other than the last had counted a call before the first run; without it the
  run ac_fresh refutes the conclusion. `DetectInv` has four parts besides the above.
  `CallsInv`: over all processes, the calls sent are those received, on their way and
  in a handler that has not counted its call yet. `CountersInv`: what the
  token saw of a counter at its last visit is not more than the counter is now, also
  for the number of received calls that a process in pass_the_token has just read.
  `LastInv`: the token is passed on only while all threads of the process sleep.
  `RoundInv`: the token carries the totals of what it saw; and if it could still
  complete its round (it has seen no more calls sent than received, and those it has
  yet to visit have counted no call since its last visit), then no call is on its way
  or in a handler and every process it has passed since the last change has nothing to
  do. Passing the token keeps it: if the totals
  of sent and received calls at the visits are equal, then, because the received calls
  are read before the sent ones, no call was on its way in between.
* `DetectionRefined`: with the same condition every step of async_consensus is a step
  of `TerminationDetection` or leaves its variables alone. That is `ImplementsDetection`
  without the fairness.

The provers cannot do induction over data, but the argument needs sums over the
processes. `Total(f)` is therefore the number of elements of the set of pairs
`<<p, i>>` with `i < f[p]`, and what is needed of sums (they rise by one, are monotone,
are zero only for zero, and equal totals with `f <= g` mean `f = g`) follows from the
library's theorems on finite sets.

**Engine** (`AsyncEngineProofs`). `ProgramsExclusive`: no vertex program runs twice at
the same time, and a message left for a running program is taken up by it. `ProgramInv`
adds that `program_running` is the set of vertices some fiber is in, and that
`hasnext` is set only for those.

**Commands** (`CancelOpsProofs`). `InterruptsExact` and `InterruptsKept`: an interrupt
cancels the command it was meant for and no other, and is raised again unless the
command called must_cancel. The client asks no more than that: an interrupt that
arrives after the last look of its command is dropped. `CancelInv` says where the id of the interrupted command may still be
(`ClientInv`, `ServerInv`, `CheckedInv`) at each point of the call, and that the
interrupted command, while it is not over, is the one recorded as cancelled (`KeptInv`).

**Query objects** (`QueryObjectProofs`). `PublishedAsApplied`: messages are published in
the order in which they were applied. `FollowsMaster`: what a replica holds is a prefix
of the master's log, unless one of the named races happened. `FollowInv` says for each
stage of the start which messages the snapshot, the record and the socket hold.

**Disk lock and file cache** (`StorageProofs`). `LockCorrect`: unfair_lock is exclusive
and handed on whenever somebody waits. `StreamsSafe`: the block of an open stream is
neither evicted nor deleted nor given to another stream; `CacheInv` adds what
new_cache excludes while it looks for a block to evict (`Excluded`, `AloneWithBlock`).

**Only model-checked**, and why:

* liveness under fairness, in every part, and the fairness of `ImplementsDetection`:
  out of the prover's reach;
* the other safety properties of the lock manager (`AtTableOwnsForks`, `EatsWithForks`,
  `ConsistencyChecked`, `CallsFitState`): they need an invariant that accounts for
  every ready signal of every replica (in its state, in a call in flight, in a frame)
  against the master's counter, under `Sequentialized /\ ~PerReplica`;
* `CacheAccounted`, `GathersExact`, `ImplementsFullBarrier`, `SentOnce`, `RowsExact`: sums over sequences and
  over the nodes of a tree, which call for induction over data;
* `OnePlace`, `NoMissedFiber`, `FibersEnd`, `TasksExact`, `NoIdleThread`,
  `WorkersConserved`, `ConnectionsValid`, `NoIdleWorker`, `SignalsHandled`: not
  attempted yet.

## 5. Findings

| Run | What the code does |
|---|---|
| cm_unordered | The build's block striping ignores sequentialization keys; a make_hungry call overtakes the last stop call at a mirror and adjacent vertices run at once |
| cm_scatter_race | perform_scatter (key 0) may reach a mirror before rpc_set_eating: a mirror that is not eating is told to stop |
| cm_backoff | A back-off in cancellation_accept_unlocked can end its loop with a requested dirty fork kept, and two vertices wait for ever |
| ac_fresh | With no counted call before the run, the last process takes the first token's made-up last_change for a full round: consensus with a call in flight |
| wp_lost | A barrier swallows the notification a get_worker needed; it takes a make_lambda or release_lambda that overlaps bulk_eval calls |
| qo_version | The version attached to a published update is read before the lock is taken; it may not be "the version BEFORE the message" |
| en_timeout | With a timeout the engine may end with a task in a scheduler, and the assertion at the end of start() fails |
| csv_long | A line longer than a piece of a block loses its beginning |

Documentation quotes and lines are in `PROJECT.json`. Smaller disagreements, which no
run is about: the comment of `blocking_queue::stop_blocking` against `dequeue`, which
still hands out what is left; the comment of `~parallel_task_queue` against `join`,
which throws; tests for "\r\n" in parse_thread that can never hold; `join()` of the
pool and `wait_until_empty` wake one waiter only, so that of two joiners one could sleep
on; the class comment of the cache manager, which has blocks evicted when less than the
capacity per file is free, while the code evicts when the total is reached.

## 6. Not modelled

Transport and file input/output, wrappers of external services, serialization and
data types, numerical sketches, user lambdas and toolkits, which have no interacting
state a model checker could explore. The synchronous engine, the other schedulers,
distributed hash tables, SFrame and SGraph algorithms and lazy evaluation are mostly
sequential or rest on the barriers alone. Object lifetimes of cppipc, elections of the
query object manager and the handler queues of the RPC layer are control that is left
out. `PROJECT.json` gives the reason for each component.

------------------------------ MODULE WorkerPool ------------------------------
(***************************************************************************)
(* The pool of lambda workers, lambda/worker_pool.hpp, and its users in     *)
(* lambda/pylambda_master.cpp: evaluators (bulk_eval) take one worker,      *)
(* makers (make_lambda, release_lambda) visit all of them, one job per      *)
(* worker.  A worker is a child process behind a proxy; it may crash, and   *)
(* the destructor of the guard of whoever used it restarts it.              *)
(*                                                                         *)
(* What runs with mtx held is one step.  Proxies are numbered in the order  *)
(* in which the workers are spawned, and a process has the number of its    *)
(* proxy for its pid.                                                       *)
(***************************************************************************)
EXTENDS Integers, Sequences, FiniteSets, SequencesExt

CONSTANTS
  NumWorkers,  \* size of the pool
  Evaluator,   \* threads that call bulk_eval
  Maker,       \* threads that call make_lambda
  Rounds,      \* bound: calls each of them makes
  MaxCrashes,  \* bound: crashes of worker processes
  MaySpawnFail, \* evaluators and makers in whose guards spawn_worker may fail
  Overlap      \* FALSE: lambdas are made before, and released after, the
               \* evaluations that use them; TRUE: unrelated queries overlap

Slot == 0..(NumWorkers - 1)
Job == Maker \X Slot
PoolUser == Evaluator \cup Maker \cup Job

ASSUME PoolAssumption ==
  /\ NumWorkers \in Nat \ {0} /\ Rounds \in Nat /\ MaxCrashes \in Nat
  /\ IsFiniteSet(Evaluator) /\ IsFiniteSet(Maker)
  /\ Evaluator \cap Maker = {} /\ (Evaluator \cup Maker) \cap Job = {}
  /\ MaySpawnFail \subseteq Evaluator \cup Maker /\ Overlap \in BOOLEAN

Null == -1     \* no proxy: an empty connection, or the pid get_pid returns then

VARIABLES
  connections,         \* the proxy of the connection in a slot, or Null
  proxy_to_connection, \* the slot of a proxy
  available_workers,
  running,             \* processes that run
  zombies,             \* processes that crashed and were not waited for
  spawned,             \* number of workers spawned so far
  worker_pc, proxy, pid,      \* of an agent
  all_workers,         \* of a maker: result of get_all_workers
  stage,               \* of a maker: "make"; "failed", a job threw; "release"
  rounds               \* of an evaluator or maker: calls it has yet to make

connectionVars == <<connections, proxy_to_connection, available_workers>>
processes == <<running, zombies, spawned>>
makers == <<all_workers, stage>>
workerVars == <<connections, proxy_to_connection, available_workers, running, zombies,
                spawned, worker_pc, proxy, pid, all_workers, stage, rounds>>

Waiting == {a \in PoolUser : worker_pc[a] = "waiting"}
WorkerGoto(a, l) == worker_pc' = [worker_pc EXCEPT ![a] = l]

(* The constructor, all workers started.                                     *)
WorkerInit ==
  /\ connections = [s \in Slot |-> s]
  /\ proxy_to_connection = [p \in Slot |-> p]
  /\ available_workers = [i \in 1..NumWorkers |-> i - 1]
  /\ running = Slot /\ zombies = {} /\ spawned = NumWorkers
  /\ worker_pc = [a \in PoolUser |-> IF a \in Job THEN "done" ELSE "idle"]
  /\ proxy = [a \in PoolUser |-> Null] /\ pid = [a \in PoolUser |-> Null]
  /\ all_workers = [m \in Maker |-> << >>] /\ stage = [m \in Maker |-> "make"]
  /\ rounds = [a \in Evaluator \cup Maker |-> Rounds]

-----------------------------------------------------------------------------
\* A call begins, or goes on after cv.wait.
Starts(a, others) ==
  \/ /\ worker_pc[a] = "idle" /\ rounds[a] > 0
     /\ Overlap \/ \A b \in others : worker_pc[b] = "idle"
     /\ rounds' = [rounds EXCEPT ![a] = @ - 1]
  \/ worker_pc[a] \in {"woken", "again"} /\ UNCHANGED rounds

\* The queue without the worker that get_worker returns.  Faulty variant: it stays.
FrontPopped == Tail(available_workers)

get_worker(e) ==
  /\ Starts(e, Maker)
  /\ IF available_workers = << >>
     THEN /\ WorkerGoto(e, "waiting")
          /\ UNCHANGED <<available_workers, proxy>>
     ELSE /\ WorkerGoto(e, "using")
          /\ proxy' = [proxy EXCEPT ![e] = Head(available_workers)]
          /\ available_workers' = FrontPopped
  /\ UNCHANGED <<connections, proxy_to_connection, processes, pid, makers>>

\* Faulty variant: the barrier is content with one worker.
SomeAvailable == available_workers # << >>
AllAvailable == Len(available_workers) = NumWorkers

(* At the start of make_lambda or release_lambda, or in one of them.          *)
barrier(m) ==
  /\ Starts(m, Evaluator)
  /\ WorkerGoto(m, IF AllAvailable THEN "copy" ELSE "waiting")
  /\ \/ worker_pc[m] = "idle" /\ \E c \in {"make", "release"} : stage' = [stage EXCEPT ![m] = c]
     \/ worker_pc[m] # "idle" /\ UNCHANGED stage
  /\ UNCHANGED <<connectionVars, processes, proxy, pid, all_workers>>

(* get_all_workers copies the queue after the barrier, without mtx; then one *)
(* job per worker starts, with that worker's guard.                          *)
get_all_workers(m) ==
  /\ worker_pc[m] = "copy"
  /\ all_workers' = [all_workers EXCEPT ![m] = available_workers]
  /\ LET Listed(a) == a \in {m} \X Slot /\ a[2] < Len(available_workers)
     IN /\ proxy' = [a \in PoolUser |-> IF Listed(a) THEN available_workers[a[2] + 1] ELSE proxy[a]]
        /\ worker_pc' = [a \in PoolUser |-> IF a = m THEN "join"
                                           ELSE IF Listed(a) THEN "using" ELSE worker_pc[a]]
  /\ UNCHANGED <<connectionVars, processes, pid, stage, rounds>>

(* The user's call of the worker returns, or throws: always so if the        *)
(* process is gone.                                                          *)
EvalEnds(a) ==
  /\ worker_pc[a] = "using" /\ a \in Evaluator
  /\ WorkerGoto(a, "guard")
  /\ UNCHANGED <<connectionVars, processes, proxy, pid, makers, rounds>>

JobEnds(a) ==
  /\ worker_pc[a] = "using" /\ a \in Job
  /\ WorkerGoto(a, "guard")
  /\ \/ stage' = [stage EXCEPT ![a[1]] = IF @ = "make" THEN "failed" ELSE @]
     \/ proxy[a] \in running /\ UNCHANGED stage
  /\ UNCHANGED <<connectionVars, processes, proxy, pid, all_workers, rounds>>

(* All jobs of parallel_for have ended.  If one threw, make_lambda calls     *)
(* release_lambda, which visits all workers once more and catches all.       *)
Join(m) ==
  /\ worker_pc[m] = "join" /\ \A s \in Slot : worker_pc[<<m, s>>] = "done"
  /\ \/ stage[m] = "failed" /\ WorkerGoto(m, "again") /\ stage' = [stage EXCEPT ![m] = "release"]
     \/ stage[m] # "failed" /\ WorkerGoto(m, "idle") /\ UNCHANGED stage
  /\ UNCHANGED <<connectionVars, processes, proxy, pid, all_workers, rounds>>

-----------------------------------------------------------------------------
(* The destructor of worker_guard: get_pid, then waitpid, then release or     *)
(* restart.  A null connection would be dereferenced: not followed further,   *)
(* see ConnectionsValid.                                                      *)
get_pid(a) ==
  /\ worker_pc[a] = "guard"
  /\ IF proxy[a] \in DOMAIN proxy_to_connection
     THEN LET conn == connections[proxy_to_connection[proxy[a]]]
          IN conn # Null /\ pid' = [pid EXCEPT ![a] = conn]
     ELSE pid' = [pid EXCEPT ![a] = Null]
  /\ WorkerGoto(a, "wait")
  /\ UNCHANGED <<connectionVars, processes, proxy, makers, rounds>>

(* waitpid(pid, WNOHANG), of the operating system; a pid of -1 asks for any  *)
(* child.  It gives 0 if the children asked for run, else it reaps one that  *)
(* crashed, or fails if there is none.                                       *)
waitpid(a) ==
  LET asked == IF pid[a] = Null THEN running \cup zombies ELSE {pid[a]}
  IN /\ worker_pc[a] = "wait"
     /\ \/ \E p \in asked \cap zombies : WorkerGoto(a, "restart") /\ zombies' = zombies \ {p}
        \/ /\ asked \cap zombies = {}
           /\ WorkerGoto(a, IF asked \cap running # {} THEN "release" ELSE "restart")
           /\ UNCHANGED zombies
     /\ UNCHANGED <<connectionVars, running, spawned, proxy, pid, makers, rounds>>

Done(a) == IF a \in Job THEN "done" ELSE "idle"

\* Faulty variant: release_worker wakes a waiter only if the queue was empty.
ReleasedQuietly(a) == IF available_workers = << >> THEN "notify" ELSE Done(a)
AfterRelease(a) == "notify"

\* Faulty variant: release_worker does not look whether the worker is available.
NotLooked(a) == FALSE
IsAvailable(a) == Contains(available_workers, proxy[a])

release_worker(a) ==
  /\ worker_pc[a] = "release"
  /\ \/ /\ IsAvailable(a)
        /\ WorkerGoto(a, Done(a))
        /\ UNCHANGED available_workers
     \/ /\ ~IsAvailable(a)
        /\ WorkerGoto(a, AfterRelease(a))
        /\ available_workers' = Append(available_workers, proxy[a])
  /\ UNCHANGED <<connections, proxy_to_connection, processes, proxy, pid, makers, rounds>>

Notify(a) ==
  /\ worker_pc[a] = "notify"
  /\ \/ Waiting = {} /\ WorkerGoto(a, Done(a))
     \/ \E w \in Waiting : worker_pc' = [worker_pc EXCEPT ![a] = Done(a), ![w] = "woken"]
  /\ UNCHANGED <<connectionVars, processes, proxy, pid, makers, rounds>>

(* The bookkeeping of restart_worker.  Faulty variants: the new proxy is      *)
(* booked for one slot too far, or not at all; it is not made available; the  *)
(* old one stays available; the front of the queue is erased in its place.    *)
BookedPastEnd(old, new, id) == (new :> NumWorkers) @@ proxy_to_connection
Unbooked(old, new, id) == [p \in DOMAIN proxy_to_connection \ {old} |-> proxy_to_connection[p]]
Rebooked(old, new, id) ==
  [p \in (DOMAIN proxy_to_connection \ {old}) \cup {new} |->
     IF p = new THEN id ELSE proxy_to_connection[p]]
Unlisted(old, new) == Remove(available_workers, old)
OldKept(old, new) == Append(available_workers, new)
FrontErased(old, new) ==
  Append(IF Contains(available_workers, old) THEN Tail(available_workers) ELSE available_workers, new)
Relisted(old, new) == Append(Remove(available_workers, old), new)

(* A proxy that is not booked any more is inserted by operator[], for slot 0. *)
IdOf(p) == IF p \in DOMAIN proxy_to_connection THEN proxy_to_connection[p] ELSE 0

restart_worker(a) ==
  LET id == IdOf(proxy[a])
  IN /\ worker_pc[a] = "restart" /\ connections[id] # Null
     /\ connections' = [connections EXCEPT ![id] = spawned]
     /\ proxy_to_connection' = Rebooked(proxy[a], spawned, id)
     /\ available_workers' = Relisted(proxy[a], spawned)
     /\ running' = running \cup {spawned} /\ spawned' = spawned + 1
     /\ WorkerGoto(a, "notify")
     /\ UNCHANGED <<zombies, proxy, pid, makers, rounds>>

(* spawn_worker throws: the slot stays empty, the proxy stays booked, nobody  *)
(* is woken.                                                                  *)
RestartFails(a) ==
  LET id == IdOf(proxy[a])
  IN /\ (IF a \in Job THEN a[1] ELSE a) \in MaySpawnFail
     /\ worker_pc[a] = "restart" /\ connections[id] # Null
     /\ connections' = [connections EXCEPT ![id] = Null]
     /\ proxy_to_connection' =
          [p \in DOMAIN proxy_to_connection \cup {proxy[a]} |-> IdOf(p)]
     /\ WorkerGoto(a, Done(a))
     /\ UNCHANGED <<available_workers, processes, proxy, pid, makers, rounds>>

(* Of the environment: a worker process crashes; cv.wait returns unnotified.  *)
Crash(p) ==
  /\ p \in running /\ spawned - Cardinality(running) < MaxCrashes
  /\ running' = running \ {p} /\ zombies' = zombies \cup {p}
  /\ UNCHANGED <<connectionVars, spawned, worker_pc, proxy, pid, makers, rounds>>

SpuriousWakeup(a) ==
  /\ worker_pc[a] = "waiting" /\ WorkerGoto(a, "woken")
  /\ UNCHANGED <<connectionVars, processes, proxy, pid, makers, rounds>>

Guard(a) == \/ get_pid(a) \/ waitpid(a) \/ release_worker(a) \/ Notify(a)
            \/ restart_worker(a) \/ RestartFails(a)

UserStep(a) ==
  \/ a \in Evaluator /\ (get_worker(a) \/ EvalEnds(a) \/ Guard(a))
  \/ a \in Maker /\ (barrier(a) \/ get_all_workers(a) \/ Join(a))
  \/ a \in Job /\ (JobEnds(a) \/ Guard(a))

WorkerNext == \/ \E a \in PoolUser : UserStep(a) \/ SpuriousWakeup(a)
              \/ \E p \in running : Crash(p)

WorkerSpec == WorkerInit /\ [][WorkerNext]_workerVars

(* Every thread goes on when it can; mtx is granted to everybody that asks,   *)
(* a worker's answer or the failure of the call arrives.                      *)
WorkerFairSpec == WorkerSpec /\ \A a \in PoolUser : WF_workerVars(UserStep(a))

-----------------------------------------------------------------------------
Proxy == 0..(spawned - 1)
Holds(a) == worker_pc[a] \in {"using", "guard", "wait", "release", "restart"}

(* Types.                                                                    *)
WorkerTypeOK ==
  /\ spawned \in Nat
  /\ connections \in [Slot -> Proxy \cup {Null}]
  /\ DOMAIN proxy_to_connection \subseteq Proxy
  /\ \A p \in DOMAIN proxy_to_connection : proxy_to_connection[p] \in Slot
  /\ available_workers \in Seq(Proxy)
  /\ running \subseteq Proxy /\ zombies \subseteq Proxy
  /\ worker_pc \in [PoolUser -> {"idle", "waiting", "woken", "using", "guard", "wait", "release",
                       "restart", "notify", "copy", "join", "again", "done"}]
  /\ proxy \in [PoolUser -> Proxy \cup {Null}] /\ pid \in [PoolUser -> Proxy \cup {Null}]
  /\ all_workers \in [Maker -> Seq(Proxy)]
  /\ stage \in [Maker -> {"make", "failed", "release"}]
  /\ rounds \in [Evaluator \cup Maker -> 0..Rounds]

(* No worker is lost or doubled on any path through crash and restart: the    *)
(* worker of a slot is in the queue once and held by nobody, or held by one   *)
(* evaluator and not in the queue; only a failed restart leaves a slot empty. *)
(* So no two evaluators ever hold the same worker.  A job of a maker does not *)
(* take its worker out of the queue.                                          *)
WorkersConserved ==
  /\ WorkerTypeOK
  /\ \A s \in Slot : connections[s] # Null =>
       LET queued == {i \in 1..Len(available_workers) : available_workers[i] = connections[s]}
           held == {a \in Evaluator : Holds(a) /\ proxy[a] = connections[s]}
       IN Cardinality(queued) + Cardinality(held) = 1

(* Whatever get_worker can hand out and whatever a guard will give back is    *)
(* the proxy of a connection of the pool: get_pid and restart_worker meet     *)
(* neither an unknown proxy nor a null connection.  And get_all_workers       *)
(* returns all workers of the pool.                                           *)
ConnectionsValid ==
  /\ \A p \in {proxy[a] : a \in {b \in PoolUser : Holds(b)}}
            \cup {available_workers[i] : i \in 1..Len(available_workers)} :
       p \in DOMAIN proxy_to_connection /\ connections[proxy_to_connection[p]] = p
  /\ \A m \in Maker : worker_pc[m] = "join" => Len(all_workers[m]) = NumWorkers

(* No wakeup is lost: while evaluators sleep in get_worker, every worker in   *)
(* the queue is matched by a thread that was woken or by a notify_one to come. *)
NoIdleWorker ==
  Waiting \cap Evaluator # {} =>
    Len(available_workers) <= Cardinality({a \in PoolUser : worker_pc[a] \in {"woken", "notify"}})

(* Every call of bulk_eval, make_lambda and release_lambda ends, unless a     *)
(* restart failed, whose slot then stays empty.                               *)
AllServed ==
  \/ <>[](\A a \in Evaluator \cup Maker : worker_pc[a] = "idle" /\ rounds[a] = 0)
  \/ <>(\E s \in Slot : connections[s] = Null)
=============================================================================

------------------------------ MODULE ThreadPool ------------------------------
(***************************************************************************)
(* thread_pool and parallel_task_queue, parallel/thread_pool.cpp, over the   *)
(* blocking_queue of util/blocking_queue.hpp, and parallel_for of            *)
(* parallel/lambda_omp.hpp as their user.  One thread, Admin, uses the pool  *)
(* itself: it launches tasks, joins, restarts the threads and at the end,    *)
(* when nobody else uses the pool, destroys it.                              *)
(*                                                                         *)
(* What runs with a mutex held is one step: a launch holds those of its      *)
(* queue, of the pool and of spawn_queue, in this order, which nobody takes  *)
(* in another.  A wait may return unsignalled.                               *)
(***************************************************************************)
EXTENDS Integers, Sequences, FiniteSets

CONSTANTS
  PoolThread,   \* 1..n, where n is the most threads the pool ever has
  Caller,       \* threads outside the pool that call parallel_for
  InitialSize,
  MaxLoops,     \* bound: calls of parallel_for by a caller
  Nested,       \* callers whose tasks call parallel_for in turn
  MayThrow,     \* callers whose tasks may throw
  Admin,
  AdminCalls    \* its calls, <<operation, size>>, where the size is that of resize

Owner == Caller \cup PoolThread

ASSUME ThreadPoolAssumption ==
  /\ PoolThread = 1..Cardinality(PoolThread) /\ InitialSize \in PoolThread /\ MaxLoops \in Nat
  /\ Nested \subseteq Caller /\ MayThrow \subseteq Caller
  /\ Caller \cap PoolThread = {} /\ Admin \notin Owner
  /\ AdminCalls \in Seq({"launch", "join", "resize", "set_cpu_affinity", "destroy"} \X PoolThread)

VARIABLES
  m_queue, m_alive,  \* of spawn_queue
  pool,              \* tasks_inserted, tasks_completed, waiting_on_join of the pool
  pool_size,
  task_queues,            \* the same of the task queue of an owner, with exceptions,
                     \* and whether it exists
  task,              \* of a pool thread: what it dequeued
  pool_pc,
  nworkers,          \* of an owner: the size of the pool it read
  loops, calls,      \* calls yet to be made
  finished, failed   \* history: tasks that ran in the loop of an owner, or threw

spawnVars == <<m_queue, m_alive>>
loopVars == <<nworkers, loops, failed>>
threadPoolVars == <<spawnVars, pool, pool_size, task_queues, task, pool_pc, loopVars, calls, finished>>

NoTask == <<Admin, -1>>
Fresh == [tasks_inserted |-> 0, tasks_completed |-> 0, waiting_on_join |-> FALSE]
FreshQueue == [tasks_inserted |-> 0, tasks_completed |-> 0, waiting_on_join |-> FALSE,
               exceptions |-> 0, exists |-> FALSE]

ThreadPoolInit ==
  /\ m_queue = <<>> /\ m_alive = TRUE /\ pool = Fresh /\ pool_size = InitialSize
  /\ task_queues = [o \in Owner |-> FreshQueue] /\ task = [w \in PoolThread |-> NoTask]
  /\ pool_pc = [a \in Owner \cup {Admin} |->
                  IF a \in PoolThread /\ a > InitialSize THEN "exited"
                  ELSE IF a \in PoolThread THEN "dequeue" ELSE "returned"]
  /\ nworkers = [o \in Owner |-> 0] /\ loops = [c \in Caller |-> MaxLoops] /\ calls = AdminCalls
  /\ finished = {} /\ failed = [o \in Owner |-> FALSE]

In(l) == {a \in DOMAIN pool_pc : pool_pc[a] = l}
Moved(a, l) == [pool_pc EXCEPT ![a] = l]
PoolGoto(a, l) == pool_pc' = Moved(a, l)

(* conditional::signal wakes one of the threads in the wait, if there is one.  *)
SignalOne(pcs, from, to) ==
  IF \E a \in DOMAIN pcs : pcs[a] = from
  THEN \E a \in {b \in DOMAIN pcs : pcs[b] = from} : pool_pc' = [pcs EXCEPT ![a] = to]
  ELSE pool_pc' = pcs

(* Threads that added themselves to sleeping and did not yet run on.           *)
queue_sleeping == In("asleep") \cup In("woken")
sleeping_on_empty == In("full") \cup In("drained")

WakesWhenEmpty == queue_sleeping # {} /\ m_queue = <<>>
WakesSleeper == queue_sleeping # {}

(* blocking_queue::enqueue, the last thing a launch does.                      *)
enqueue(elem, pcs) ==
  /\ m_queue' = Append(m_queue, elem)
  /\ IF WakesSleeper THEN SignalOne(pcs, "asleep", "woken") ELSE pool_pc' = pcs
  /\ UNCHANGED m_alive

(* parallel_for: tasks in the pool, unless the thread is of the pool itself or *)
(* the pool has one thread, when the caller runs the loop alone.               *)
never_in_thread(a) == FALSE
is_in_thread(a) == a \in PoolThread
RunsAlone(a) == is_in_thread(a) \/ pool_size <= 1

Calls(a) == \/ a \in Caller /\ pool_pc[a] \in {"returned", "threw"} /\ loops[a] > 0
            \/ a \in PoolThread /\ pool_pc[a] = "run" /\ task[a][1] \in Nested

LoopBegins(a) == loops' = IF a \in Caller THEN [loops EXCEPT ![a] = @ - 1] ELSE loops

parallel_for(a) ==
  /\ Calls(a) /\ ~RunsAlone(a) /\ LoopBegins(a)
  /\ task_queues' = [task_queues EXCEPT ![a] = [FreshQueue EXCEPT !.exists = TRUE]]
  /\ nworkers' = [nworkers EXCEPT ![a] = pool_size]
  /\ failed' = [failed EXCEPT ![a] = FALSE]
  /\ finished' = {t \in finished : t[1] # a}
  /\ PoolGoto(a, "launch")
  /\ UNCHANGED <<spawnVars, pool, pool_size, task, calls>>

LoopAlone(a) ==
  /\ Calls(a) /\ RunsAlone(a) /\ LoopBegins(a)
  /\ nworkers' = [nworkers EXCEPT ![a] = 0]
  /\ failed' = [failed EXCEPT ![a] = FALSE]
  /\ PoolGoto(a, IF a \in Caller THEN "returned" ELSE "ran")
  /\ UNCHANGED <<spawnVars, pool, pool_size, task_queues, task, calls, finished>>

(* parallel_task_queue::launch, with the launch of the pool.                   *)
launch(a) ==
  LET i == task_queues[a].tasks_inserted
  IN /\ pool_pc[a] = "launch"
     /\ task_queues' = [task_queues EXCEPT ![a].tasks_inserted = @ + 1]
     /\ pool' = [pool EXCEPT !.tasks_inserted = @ + 1]
     /\ enqueue(<<a, i>>, Moved(a, IF i + 1 = nworkers[a] THEN "join" ELSE "launch"))
     /\ UNCHANGED <<pool_size, task, loopVars, calls, finished>>

AlmostAllRan(a) == task_queues[a].tasks_completed + 1 >= task_queues[a].tasks_inserted
AllRan(a) == task_queues[a].tasks_completed = task_queues[a].tasks_inserted

(* parallel_task_queue::join.                                                  *)
join(a) ==
  /\ pool_pc[a] \in {"join", "notified"}
  /\ task_queues' = [task_queues EXCEPT ![a].waiting_on_join = ~AllRan(a)]
  /\ PoolGoto(a, IF AllRan(a) THEN "joined" ELSE "joining")
  /\ UNCHANGED <<spawnVars, pool, pool_size, task, loopVars, calls, finished>>

(* The rest of it, with no mutex held: the first exception is thrown, the      *)
(* others are dropped, and in either case the queue is destroyed.              *)
Leave(a) ==
  /\ pool_pc[a] = "joined"
  /\ task_queues' = [task_queues EXCEPT ![a].exceptions = 0, ![a].exists = FALSE]
  /\ PoolGoto(a, IF a \in PoolThread THEN "ran"
                 ELSE IF task_queues[a].exceptions > 0 THEN "threw" ELSE "returned")
  /\ UNCHANGED <<spawnVars, pool, pool_size, task, loopVars, calls, finished>>

(* wait_for_task: blocking_queue::dequeue gives what is left even of a queue    *)
(* that is no longer alive, then the thread exits.                             *)
dequeue(w) ==
  /\ pool_pc[w] \in {"dequeue", "woken"}
  /\ \/ /\ m_queue = <<>> /\ PoolGoto(w, IF m_alive THEN "asleep" ELSE "exited")
        /\ UNCHANGED <<m_queue, task>>
     \/ /\ m_queue # <<>> /\ m_queue' = Tail(m_queue)
        /\ task' = [task EXCEPT ![w] = Head(m_queue)]
        /\ IF Tail(m_queue) = <<>> /\ sleeping_on_empty # {}
           THEN SignalOne(Moved(w, "run"), "full", "drained") ELSE PoolGoto(w, "run")
  /\ UNCHANGED <<m_alive, pool, pool_size, task_queues, loopVars, calls, finished>>

(* The task itself; what it throws goes to the exceptions of its queue.        *)
Run(w, throws) ==
  LET o == task[w][1]
  IN /\ pool_pc[w] = "run" /\ o \notin Nested /\ (throws => o \in MayThrow)
     /\ task_queues' = IF throws THEN [task_queues EXCEPT ![o].exceptions = @ + 1] ELSE task_queues
     /\ failed' = IF throws THEN [failed EXCEPT ![o] = TRUE] ELSE failed
     /\ PoolGoto(w, "ran")
     /\ UNCHANGED <<spawnVars, pool, pool_size, task, nworkers, loops, calls, finished>>

(* The end of the task of a queue: tasks_completed, and the thread in join.    *)
Ran(w) ==
  LET o == task[w][1]
  IN /\ pool_pc[w] = "ran" /\ finished' = finished \cup {task[w]}
     /\ IF o = Admin THEN PoolGoto(w, "count") /\ UNCHANGED task_queues
        ELSE /\ task_queues' = [task_queues EXCEPT ![o].tasks_completed = @ + 1]
             /\ pool_pc' = [Moved(w, "count") EXCEPT ![o] =
                  IF /\ task_queues[o].waiting_on_join /\ @ = "joining"
                     /\ task_queues[o].tasks_completed + 1 = task_queues[o].tasks_inserted
                  THEN "notified" ELSE @]
     /\ UNCHANGED <<spawnVars, pool, pool_size, task, loopVars, calls>>

(* The end of a round of wait_for_task.                                        *)
Count(w) ==
  /\ pool_pc[w] = "count"
  /\ pool' = [pool EXCEPT !.tasks_completed = @ + 1]
  /\ task' = [task EXCEPT ![w] = NoTask]
  /\ IF pool.waiting_on_join /\ pool.tasks_completed + 1 = pool.tasks_inserted
     THEN SignalOne(Moved(w, "dequeue"), "pooljoining", "poolnotified")
     ELSE PoolGoto(w, "dequeue")
  /\ UNCHANGED <<spawnVars, pool_size, task_queues, loopVars, calls, finished>>

InCall(op) == calls # <<>> /\ Head(calls)[1] = op
Call(op) == pool_pc[Admin] = "returned" /\ InCall(op)

(* thread_pool::launch.                                                        *)
PoolLaunch ==
  /\ Call("launch") /\ calls' = Tail(calls)
  /\ pool' = [pool EXCEPT !.tasks_inserted = @ + 1]
  /\ enqueue(<<Admin, Len(calls)>>, pool_pc)
  /\ UNCHANGED <<pool_size, task_queues, task, loopVars, finished>>

(* blocking_queue::wait_until_empty, with which join and destroy_all_threads    *)
(* begin. The pool is destroyed when nobody uses it any more.                  *)
NobodyUses == \A c \in Caller : pool_pc[c] \in {"returned", "threw"} /\ loops[c] = 0
wait_until_empty ==
  /\ \/ Call("join") \/ (Call("destroy") /\ NobodyUses) \/ pool_pc[Admin] = "drained"
  /\ PoolGoto(Admin, IF m_queue # <<>> /\ m_alive THEN "full" ELSE "emptied")
  /\ UNCHANGED <<spawnVars, pool, pool_size, task_queues, task, loopVars, calls, finished>>

(* The rest of thread_pool::join.                                              *)
PoolJoin ==
  LET all == pool.tasks_completed = pool.tasks_inserted
  IN /\ \/ pool_pc[Admin] = "emptied" /\ InCall("join")
        \/ pool_pc[Admin] = "poolnotified"
     /\ pool' = [pool EXCEPT !.waiting_on_join = ~all]
     /\ IF all THEN PoolGoto(Admin, "returned") /\ calls' = Tail(calls)
               ELSE PoolGoto(Admin, "pooljoining") /\ UNCHANGED calls
     /\ UNCHANGED <<spawnVars, pool_size, task_queues, task, loopVars, finished>>

(* blocking_queue::stop_blocking, by resize to another size, set_cpu_affinity   *)
(* and destroy_all_threads.                                                    *)
stop_blocking ==
  /\ \/ Call("resize") /\ Head(calls)[2] # pool_size
     \/ Call("set_cpu_affinity")
     \/ pool_pc[Admin] = "emptied" /\ InCall("destroy")
  /\ pool_size' = IF InCall("resize") THEN Head(calls)[2] ELSE pool_size
  /\ m_alive' = FALSE
  /\ pool_pc' = [a \in DOMAIN pool_pc |->
       CASE a = Admin -> "stopping" [] pool_pc[a] = "asleep" -> "woken" [] OTHER -> pool_pc[a]]
  /\ UNCHANGED <<m_queue, pool, task_queues, task, loopVars, calls, finished>>

SameSize ==
  /\ Call("resize") /\ Head(calls)[2] = pool_size /\ calls' = Tail(calls)
  /\ UNCHANGED <<spawnVars, pool, pool_size, task_queues, task, pool_pc, loopVars, finished>>

(* threads.join() returned: start_blocking and spawn_thread_group, unless the   *)
(* pool is destroyed.                                                          *)
spawn_thread_group ==
  /\ pool_pc[Admin] = "stopping" /\ PoolThread \subseteq In("exited")
  /\ m_alive' = ~InCall("destroy")
  /\ pool_pc' = [a \in DOMAIN pool_pc |->
       IF a = Admin THEN "returned"
       ELSE IF a \in PoolThread /\ a <= pool_size /\ ~InCall("destroy") THEN "dequeue"
       ELSE pool_pc[a]]
  /\ calls' = Tail(calls)
  /\ UNCHANGED <<m_queue, pool, pool_size, task_queues, task, loopVars, finished>>

Unsignalled(a) ==
  /\ \E w \in {<<"asleep", "woken">>, <<"joining", "notified">>, <<"full", "drained">>,
               <<"pooljoining", "poolnotified">>} :
       pool_pc[a] = w[1] /\ PoolGoto(a, w[2])
  /\ UNCHANGED <<spawnVars, pool, pool_size, task_queues, task, loopVars, calls, finished>>

OwnerStep(a) == parallel_for(a) \/ LoopAlone(a) \/ launch(a) \/ join(a) \/ Leave(a)
WorkerStep(w) ==
  OwnerStep(w) \/ dequeue(w) \/ (\E throws \in BOOLEAN : Run(w, throws)) \/ Ran(w) \/ Count(w)
AdminStep ==
  PoolLaunch \/ wait_until_empty \/ PoolJoin \/ stop_blocking \/ SameSize \/ spawn_thread_group

ThreadPoolNext ==
  \/ \E c \in Caller : OwnerStep(c)
  \/ \E w \in PoolThread : WorkerStep(w)
  \/ AdminStep
  \/ \E a \in Owner \cup {Admin} : Unsignalled(a)

ThreadPoolSpec == ThreadPoolInit /\ [][ThreadPoolNext]_threadPoolVars

(* Every thread goes on when it can, and so does whoever waits for a mutex, as  *)
(* all of them are held for a few lines only.                                  *)
ThreadPoolFairSpec ==
  /\ ThreadPoolSpec
  /\ \A c \in Caller : WF_threadPoolVars(OwnerStep(c))
  /\ \A w \in PoolThread : WF_threadPoolVars(WorkerStep(w))
  /\ WF_threadPoolVars(AdminStep)

ThreadPoolDone == NobodyUses /\ calls = <<>> /\ pool_pc[Admin] = "returned"

-----------------------------------------------------------------------------
(* Types.                                                                    *)
ThreadPoolTypeOK ==
  /\ m_alive \in BOOLEAN /\ pool_size \in PoolThread
  /\ pool.tasks_inserted \in Nat /\ pool.tasks_completed \in Nat /\ pool.waiting_on_join \in BOOLEAN
  /\ \A o \in Owner : /\ task_queues[o].tasks_inserted \in 0..nworkers[o]
                      /\ task_queues[o].tasks_completed \in 0..nworkers[o]
                      /\ task_queues[o].exceptions \in 0..nworkers[o]
  /\ pool_pc \in [Owner \cup {Admin} ->
       {"returned", "threw", "launch", "join", "joining", "notified", "joined", "dequeue", "asleep",
        "woken", "run", "ran", "count", "exited", "full", "drained", "emptied", "pooljoining",
        "poolnotified", "stopping"}]
  /\ loops \in [Caller -> 0..MaxLoops]

HoldsTask(w) == pool_pc[w] \in {"run", "launch", "join", "joining", "notified", "joined", "ran"}
Queued(S) == Cardinality({i \in 1..Len(m_queue) : m_queue[i] \in S})

(* The counters of thread_pool and of each parallel_task_queue agree with the   *)
(* tasks there are, through exceptions, resize and set_cpu_affinity: a task of  *)
(* a loop is queued, with one thread, or finished, and so is run once and never *)
(* lost when the threads are replaced; its queue exists until then, so that no  *)
(* task reports to a queue that is gone; and a parallel_for that came back ran  *)
(* all its tasks, and threw exactly if one of them did.                         *)
TasksExact ==
  /\ ThreadPoolTypeOK
  /\ pool.tasks_inserted = pool.tasks_completed + Len(m_queue)
                           + Cardinality({w \in PoolThread : task[w] # NoTask})
  /\ \A o \in Owner : task_queues[o].exists =>
       \A i \in 0..(task_queues[o].tasks_inserted - 1) :
         Queued({<<o, i>>}) + Cardinality({w \in PoolThread : HoldsTask(w) /\ task[w] = <<o, i>>})
           + (IF <<o, i>> \in finished THEN 1 ELSE 0) = 1
  /\ \A w \in PoolThread : HoldsTask(w) /\ task[w][1] # Admin => task_queues[task[w][1]].exists
  /\ \A i \in 1..Len(m_queue) : m_queue[i][1] # Admin => task_queues[m_queue[i][1]].exists
  /\ \A c \in Caller : pool_pc[c] \in {"returned", "threw"} =>
       /\ \A i \in 0..(nworkers[c] - 1) : <<c, i>> \in finished
       /\ pool_pc[c] = "threw" <=> failed[c]

(* No wakeup of spawn_queue is lost: while threads of the pool sleep in dequeue,  *)
(* there is for every task in the queue a thread that was woken; no thread       *)
(* sleeps in a queue that was stopped.                                         *)
NoIdleThread ==
  In("asleep") # {} => m_alive /\ Len(m_queue) <= Cardinality(In("woken"))
=============================================================================

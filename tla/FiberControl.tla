---------------------------- MODULE FiberControl ----------------------------
(* The user mode scheduler: worker threads that switch between fibers, each    *)
(* with two multi-producer queues (inplace_lf_queue2), the fiber_group that    *)
(* launches and joins fibers, and a fiber_reply_container per fiber, on which  *)
(* the fiber waits by descheduling itself until the communication thread has   *)
(* the reply.                                                                  *)
EXTENDS Integers, Sequences, FiniteSets, Functions

CONSTANTS
  Worker,       \* the worker threads
  Fiber,        \* the fibers the main thread launches, in ascending order
  Affinity,     \* Affinity[f]: the workers f may run on
  Asks,         \* the fibers that wait for a reply
  Yields        \* Yields[f]: how often f yields of its own accord

none == 0
Main == -1    \* the two threads that are not workers
Comm == -2
Agent == Worker \cup {Main, Comm}
Level == {"priority", "affinity"}

VARIABLES
  queue,        \* queue[w][k]: the lock-free queue, in the order of the exchanges of tail
  linked,       \* fibers whose predecessor's next pointer has been set
  popped,       \* popped[w][k]: what dequeue_all returned and is not used up
  waiting,      \* waiting[w]
  active_lock,  \* the workers whose active_lock is held by the worker itself
  worker,       \* worker[w]: [pc, cur, prev, next]
  insert,       \* insert[a]: what is left of an enqueue, [pc, fib, to]
  fiber,        \* fiber[f]: the fields of struct fiber and where its function is
  reply,        \* reply[f]: [locked, waiting_tid, valready]
  fibers_active,
  threads_running, \* of the fiber_group
  exception_raised,
  join_waiting, \* of the fiber_group
  main_at,         \* where the main thread is
  comm_at,         \* where the communication thread is, [pc, fib]
  stop_workers,
  deleted       \* workers whose queues have been deleted

fiberVars == <<queue, linked, popped, waiting, active_lock, worker, insert, fiber, reply,
               fibers_active, threads_running, exception_raised, join_waiting, main_at, comm_at,
               stop_workers, deleted>>
queueVars == <<queue, linked, popped>>
groupVars == <<threads_running, exception_raised, join_waiting>>
mainVars == <<main_at, stop_workers, deleted>>

FiberInit ==
  /\ queue = [w \in Worker |-> [k \in Level |-> <<>>]]
  /\ popped = [w \in Worker |-> [k \in Level |-> <<>>]]
  /\ linked = {}
  /\ waiting = [w \in Worker |-> FALSE]
  /\ active_lock = {}
  /\ worker = [w \in Worker |-> [pc |-> "rest", cur |-> none, prev |-> none, next |-> none]]
  /\ insert = [a \in Agent |-> [pc |-> "done", fib |-> none, to |-> none]]
  /\ fiber = [f \in Fiber |-> [at |-> "unborn", descheduled |-> FALSE, scheduleable |-> TRUE,
                               priority |-> FALSE, terminate |-> FALSE, yields |-> 0]]
  /\ reply = [f \in Fiber |-> [locked |-> FALSE, waiting_tid |-> FALSE, valready |-> FALSE]]
  /\ fibers_active = 0
  /\ threads_running = 0
  /\ exception_raised = FALSE
  /\ join_waiting = FALSE
  /\ main_at = "launch"
  /\ comm_at = [pc |-> "idle", fib |-> none]
  /\ stop_workers = FALSE
  /\ deleted = {}

-----------------------------------------------------------------------------
(* inplace_lf_queue2::enqueue: swap the tail, then set the old tail's next     *)
(* pointer; active_queue_insert_tail and _head then look whether to wake.      *)
Exchange(a, w, k, f) ==
  /\ queue' = [queue EXCEPT ![w][k] = Append(@, f)]
  /\ insert' = [insert EXCEPT ![a] = [pc |-> "link", fib |-> f, to |-> w]]

Link(a) ==
  /\ insert[a].pc = "link"
  /\ linked' = linked \cup {insert[a].fib}
  /\ insert' = [insert EXCEPT ![a].pc = "look"]
  /\ UNCHANGED <<queue, popped, waiting, active_lock, worker, fiber, reply, fibers_active,
                 groupVars, comm_at, mainVars>>

Look(a) ==
  /\ insert[a].pc = "look"
  /\ insert' = [insert EXCEPT ![a].pc = IF waiting[insert[a].to] THEN "signal" ELSE "done"]
  /\ UNCHANGED <<queueVars, waiting, active_lock, worker, fiber, reply, fibers_active,
                 groupVars, comm_at, mainVars>>

Wake(w) == IF worker[w].pc = "asleep" THEN [worker EXCEPT ![w].pc = "lock"] ELSE worker

SignalWorker(a) ==
  /\ insert[a].pc = "signal"
  /\ insert[a].to \notin active_lock
  /\ worker' = Wake(insert[a].to)
  /\ insert' = [insert EXCEPT ![a].pc = "done"]
  /\ UNCHANGED <<queueVars, waiting, active_lock, fiber, reply, fibers_active, groupVars,
                 comm_at, mainVars>>

Inserted(a) == insert[a].pc = "done"

-----------------------------------------------------------------------------
(* The worker thread: its root stack (cur = none) and the switching that its   *)
(* fibers do on it.                                                            *)
OnStack(w, pc) == worker[w].pc = pc /\ Inserted(w)

AnnouncedLate(w) == waiting

(* waiting is set before the queues are searched under active_lock.            *)
Announced(w) == [waiting EXCEPT ![w] = TRUE]

Rest(w) ==
  /\ OnStack(w, "rest")
  /\ waiting' = Announced(w)
  /\ worker' = [worker EXCEPT ![w].pc = "lock"]
  /\ UNCHANGED <<queueVars, active_lock, insert, fiber, reply, fibers_active, groupVars,
                 comm_at, mainVars>>

(* The head of worker_init's loop, with active_lock just (re)acquired.         *)
Loop(w) ==
  /\ OnStack(w, "lock")
  /\ active_lock' = IF stop_workers THEN active_lock ELSE active_lock \cup {w}
  /\ worker' = [worker EXCEPT ![w].pc = IF stop_workers THEN "ended" ELSE "priority"]
  /\ UNCHANGED <<queueVars, waiting, insert, fiber, reply, fibers_active, groupVars, comm_at,
                 mainVars>>

(* dequeue_all takes everything whose exchange has been done, provided that    *)
(* the first element is linked.                                                *)
Available(w, k) ==
  IF popped[w][k] # <<>> THEN popped[w][k]
  ELSE IF queue[w][k] # <<>> /\ Head(queue[w][k]) \in linked THEN queue[w][k]
  ELSE <<>>

NotEmptied(w, k) == queue

(* The sentinel is queued behind what dequeue_all returns.                     *)
Emptied(w, k) == [queue EXCEPT ![w][k] = <<>>]

(* try_pop_queue spins until the element after the one it takes is linked.     *)
Take(w, k) ==
  LET list == Available(w, k)
  IN  /\ list # <<>>
      /\ Len(list) > 1 => list[2] \in linked
      /\ popped' = [popped EXCEPT ![w][k] = Tail(list)]
      /\ queue' = IF popped[w][k] # <<>> THEN queue ELSE Emptied(w, k)
      /\ linked' = linked \ {Head(list)}
      /\ worker' = [worker EXCEPT ![w].pc = "switch", ![w].next = Head(list)]

Leaving(f) == fiber[f].terminate \/ fiber[f].descheduled

(* active_queue_remove found nothing: the root stack waits, a fiber that ends  *)
(* or sleeps switches to the root stack, any other fiber keeps running.        *)
NothingToRun(w) ==
  LET cur == worker[w].cur
  IN  \/ /\ cur = none
         /\ active_lock' = active_lock \ {w}
         /\ worker' = [worker EXCEPT ![w].pc = "asleep"]
      \/ /\ cur # none /\ Leaving(cur)
         /\ worker' = [worker EXCEPT ![w] = [pc |-> "clean", cur |-> none, prev |-> cur,
                                             next |-> none]]
         /\ UNCHANGED active_lock
      \/ /\ cur # none /\ ~Leaving(cur)
         /\ worker' = [worker EXCEPT ![w].pc = "user"]
         /\ UNCHANGED active_lock

PopPriority(w) ==
  /\ OnStack(w, "priority")
  /\ \/ Take(w, "priority")
     \/ /\ Available(w, "priority") = <<>>
        /\ worker' = [worker EXCEPT ![w].pc = "affinity"]
        /\ UNCHANGED queueVars
  /\ UNCHANGED <<waiting, active_lock, insert, fiber, reply, fibers_active, groupVars, comm_at,
                 mainVars>>

PopAffinity(w) ==
  /\ OnStack(w, "affinity")
  /\ \/ Take(w, "affinity") /\ UNCHANGED active_lock
     \/ Available(w, "affinity") = <<>> /\ NothingToRun(w) /\ UNCHANGED queueVars
  /\ UNCHANGED <<waiting, insert, fiber, reply, fibers_active, groupVars, comm_at, mainVars>>

(* yield_to a fiber; the root stack first leaves the waiting state.            *)
yield_to(w) ==
  LET next == worker[w].next
  IN  /\ OnStack(w, "switch")
      /\ active_lock' = active_lock \ {w}
      /\ waiting' = [waiting EXCEPT ![w] = FALSE]
      /\ fiber' = [fiber EXCEPT ![next].priority = FALSE]
      /\ worker' = [worker EXCEPT ![w] = [pc |-> "clean", cur |-> next,
                                          prev |-> worker[w].cur, next |-> none]]
      /\ UNCHANGED <<queueVars, insert, reply, fibers_active, groupVars, comm_at, mainVars>>

Resume(w) == [worker EXCEPT ![w].prev = none,
                            ![w].pc = IF worker[w].cur = none THEN "rest" ELSE "user"]

(* reschedule_fiber of the fiber just switched away from, on the new stack.    *)
reschedule_fiber(w) ==
  LET f == worker[w].prev
  IN  /\ OnStack(w, "clean")
      /\ \/ /\ f = none
            /\ worker' = Resume(w)
            /\ UNCHANGED <<queue, insert, fiber, reply, fibers_active>>
         \/ /\ f # none /\ ~Leaving(f)
            /\ Exchange(w, w, "affinity", f)
            /\ worker' = Resume(w)
            /\ UNCHANGED <<fiber, reply, fibers_active>>
         \/ /\ f # none /\ fiber[f].descheduled
            /\ fiber' = [fiber EXCEPT ![f].descheduled = FALSE, ![f].scheduleable = FALSE]
            /\ reply' = [reply EXCEPT ![f].locked = FALSE]
            /\ worker' = Resume(w)
            /\ UNCHANGED <<queue, insert, fibers_active>>
         \/ /\ f # none /\ ~fiber[f].descheduled /\ fiber[f].terminate
            /\ fiber' = [fiber EXCEPT ![f].at = "dead"]
            /\ fibers_active' = fibers_active - 1
            /\ worker' = IF fibers_active' = 0 THEN [Resume(w) EXCEPT ![w].pc = "joinsignal"]
                         ELSE Resume(w)
            /\ UNCHANGED <<queue, insert, reply>>
      /\ UNCHANGED <<linked, popped, waiting, active_lock, groupVars, comm_at, mainVars>>

(* The last fiber is gone: signal fiber_control::join.                         *)
SignalJoin(w) ==
  /\ OnStack(w, "joinsignal")
  /\ worker' = Resume(w)
  /\ main_at' = IF main_at = "joinwait" THEN "join" ELSE main_at
  /\ UNCHANGED <<queueVars, waiting, active_lock, insert, fiber, reply, fibers_active,
                 groupVars, comm_at, stop_workers, deleted>>

-----------------------------------------------------------------------------
(* A fiber's function, running on w.                                           *)
Running(w, f) == OnStack(w, "user") /\ worker[w].cur = f

Yield(w, f) ==
  /\ Running(w, f)
  /\ fiber[f].at = "run" /\ fiber[f].yields < Yields[f]
  /\ fiber' = [fiber EXCEPT ![f].yields = @ + 1]
  /\ worker' = [worker EXCEPT ![w].pc = "priority"]
  /\ UNCHANGED <<queueVars, waiting, active_lock, insert, reply, fibers_active, groupVars,
                 comm_at, mainVars>>

(* The request is sent; fiber_reply_container::wait follows.                   *)
Ask(w, f) ==
  /\ Running(w, f)
  /\ fiber[f].at = "run" /\ f \in Asks /\ ~reply[f].valready
  /\ fiber' = [fiber EXCEPT ![f].at = "wait"]
  /\ UNCHANGED <<queueVars, waiting, active_lock, worker, insert, reply, fibers_active,
                 groupVars, comm_at, mainVars>>


(* deschedule_self keeps the mutex locked: reschedule_fiber unlocks it.        *)
Descheduling(f) == [reply EXCEPT ![f].locked = TRUE, ![f].waiting_tid = TRUE]

(* One turn of the loop in wait, deschedule_self included.                     *)
wait(w, f) ==
  /\ Running(w, f)
  /\ fiber[f].at = "wait" /\ ~reply[f].locked
  /\ IF reply[f].valready
     THEN /\ fiber' = [fiber EXCEPT ![f].at = "run"]
          /\ UNCHANGED <<reply, worker>>
     ELSE /\ fiber' = [fiber EXCEPT ![f].descheduled = TRUE]
          /\ reply' = Descheduling(f)
          /\ worker' = [worker EXCEPT ![w].pc = "priority"]
  /\ UNCHANGED <<queueVars, waiting, active_lock, insert, fibers_active, groupVars, comm_at,
                 mainVars>>

(* fiber_group::invoke: the function ends, perhaps by an exception, and        *)
(* decrement_running_counter takes it off the count.                           *)
Finish(w, f) ==
  /\ Running(w, f)
  /\ fiber[f].at = "run" /\ (f \in Asks => reply[f].valready)
  /\ \E threw \in BOOLEAN : exception_raised' = (exception_raised \/ threw)
  /\ threads_running' = threads_running - 1
  /\ fiber' = [fiber EXCEPT ![f].at = IF threads_running' = 0 THEN "groupsignal" ELSE "exit"]
  /\ UNCHANGED <<queueVars, waiting, active_lock, worker, insert, reply, fibers_active,
                 join_waiting, comm_at, mainVars>>

JoinSignalled == IF join_waiting /\ main_at = "groupwait" THEN "groupjoin" ELSE main_at

GroupSignal(w, f) ==
  /\ Running(w, f)
  /\ fiber[f].at = "groupsignal"
  /\ fiber' = [fiber EXCEPT ![f].at = "exit"]
  /\ main_at' = JoinSignalled
  /\ UNCHANGED <<queueVars, waiting, active_lock, worker, insert, reply, fibers_active,
                 groupVars, comm_at, stop_workers, deleted>>

exit(w, f) ==
  /\ Running(w, f)
  /\ fiber[f].at = "exit"
  /\ fiber' = [fiber EXCEPT ![f].terminate = TRUE]
  /\ worker' = [worker EXCEPT ![w].pc = "priority"]
  /\ UNCHANGED <<queueVars, waiting, active_lock, insert, reply, fibers_active, groupVars,
                 comm_at, mainVars>>

-----------------------------------------------------------------------------
(* fiber_reply_container::receive, on the communication thread.                *)
receive(f) ==
  /\ comm_at.pc = "idle"
  /\ fiber[f].at = "wait" /\ ~reply[f].valready /\ ~reply[f].locked
  /\ reply' = [reply EXCEPT ![f].locked = TRUE, ![f].valready = TRUE]
  /\ comm_at' = [pc |-> IF reply[f].waiting_tid THEN "schedule" ELSE "unlock", fib |-> f]
  /\ UNCHANGED <<queueVars, waiting, active_lock, worker, insert, fiber, fibers_active,
                 groupVars, mainVars>>

(* schedule_tid does nothing to a fiber that runs or is queued.                *)
DescheduledCompletely(f) == ~fiber[f].scheduleable

(* pick_fiber_worker is called here from a thread that is not a worker.        *)
schedule_tid ==
  LET f == comm_at.fib
  IN  /\ comm_at.pc = "schedule"
      /\ IF DescheduledCompletely(f)
         THEN /\ fiber' = [fiber EXCEPT ![f].scheduleable = TRUE, ![f].priority = TRUE]
              /\ \E w \in Affinity[f] : Exchange(Comm, w, "priority", f)
         ELSE UNCHANGED <<fiber, queue, insert>>
      /\ comm_at' = [comm_at EXCEPT !.pc = "unlock"]
      /\ UNCHANGED <<linked, popped, waiting, active_lock, worker, reply, fibers_active,
                     groupVars, mainVars>>

Received ==
  /\ comm_at.pc = "unlock" /\ Inserted(Comm)
  /\ reply' = [reply EXCEPT ![comm_at.fib].locked = FALSE]
  /\ comm_at' = [pc |-> "idle", fib |-> none]
  /\ UNCHANGED <<queueVars, waiting, active_lock, worker, insert, fiber, fibers_active,
                 groupVars, mainVars>>

-----------------------------------------------------------------------------
(* The main thread: fiber_group::launch of every fiber, fiber_group::join,     *)
(* fiber_control::join and the destructor.                                     *)
Unborn == {f \in Fiber : fiber[f].at = "unborn"}

increment_running_counter == threads_running + 1

launch(f) ==
  /\ main_at = "launch" /\ Inserted(Main)
  /\ f \in Unborn /\ \A g \in Unborn : f <= g
  /\ threads_running' = increment_running_counter
  /\ fibers_active' = fibers_active + 1
  /\ fiber' = [fiber EXCEPT ![f].at = "run"]
  /\ \E w \in Affinity[f] : Exchange(Main, w, "affinity", f)
  /\ main_at' = IF Unborn = {f} THEN "groupjoin" ELSE main_at
  /\ UNCHANGED <<linked, popped, waiting, active_lock, worker, reply, exception_raised,
                 join_waiting, comm_at, stop_workers, deleted>>

OneStillRunning == threads_running <= 1

NoneRunning == threads_running = 0

GroupJoin ==
  /\ main_at = "groupjoin" /\ Inserted(Main)
  /\ join_waiting' = ~NoneRunning
  /\ main_at' = IF NoneRunning THEN "join" ELSE "groupwait"
  /\ exception_raised' = (~NoneRunning /\ exception_raised)
  /\ UNCHANGED <<queueVars, waiting, active_lock, worker, insert, fiber, reply, fibers_active,
                 threads_running, comm_at, stop_workers, deleted>>

Join ==
  /\ main_at = "join"
  /\ main_at' = IF fibers_active > 0 THEN "joinwait" ELSE "stop"
  /\ stop_workers' = (fibers_active = 0)
  /\ UNCHANGED <<queueVars, waiting, active_lock, worker, insert, fiber, reply, fibers_active,
                 groupVars, comm_at, deleted>>

LockIgnored(w) == TRUE

LockFree(w) == w \notin active_lock

(* The destructor wakes a worker and deletes its queues.                       *)
Delete(w) ==
  /\ main_at = "stop" /\ w \notin deleted /\ \A v \in Worker \ deleted : w <= v
  /\ LockFree(w)
  /\ worker' = Wake(w)
  /\ deleted' = deleted \cup {w}
  /\ UNCHANGED <<queueVars, waiting, active_lock, insert, fiber, reply, fibers_active,
                 groupVars, main_at, comm_at, stop_workers>>

JoinWorkers ==
  /\ main_at = "stop" /\ deleted = Worker
  /\ \A w \in Worker : worker[w].pc = "ended"
  /\ main_at' = "done"
  /\ UNCHANGED <<queueVars, waiting, active_lock, worker, insert, fiber, reply, fibers_active,
                 groupVars, comm_at, stop_workers, deleted>>

-----------------------------------------------------------------------------
FibersDone == main_at = "done"

FiberNext ==
  \/ \E a \in Agent : Link(a) \/ Look(a) \/ SignalWorker(a)
  \/ \E w \in Worker :
       \/ Rest(w) \/ Loop(w) \/ PopPriority(w) \/ PopAffinity(w) \/ yield_to(w)
       \/ reschedule_fiber(w) \/ SignalJoin(w) \/ Delete(w)
       \/ \E f \in Fiber : Yield(w, f) \/ Ask(w, f) \/ wait(w, f) \/ Finish(w, f)
                           \/ GroupSignal(w, f) \/ exit(w, f)
  \/ \E f \in Fiber : receive(f) \/ launch(f)
  \/ schedule_tid \/ Received \/ GroupJoin \/ Join \/ JoinWorkers

FiberSpec == FiberInit /\ [][FiberNext]_fiberVars
-----------------------------------------------------------------------------
Slots(q, f) ==
  {<<w, k, i>> \in Worker \X Level \X (1..Cardinality(Fiber) + 1) :
     i \in DOMAIN q[w][k] /\ q[w][k][i] = f}

Holders(f) == {<<w, s>> \in Worker \X {"cur", "prev", "next"} : worker[w][s] = f}

Alive(f) == fiber[f].at \notin {"unborn", "dead"}

(* Types; neither counter, both unsigned in the code, goes below zero.         *)
FiberTypeOK ==
  /\ queue \in [Worker -> [Level -> Seq(Fiber)]]
  /\ popped \in [Worker -> [Level -> Seq(Fiber)]]
  /\ linked \subseteq Fiber
  /\ waiting \in [Worker -> BOOLEAN] /\ active_lock \subseteq Worker
  /\ fibers_active \in 0..Cardinality(Fiber) /\ threads_running \in 0..Cardinality(Fiber)

(* A fiber that is alive is at exactly one place: in one slot of one queue, or *)
(* with one worker, or descheduled. The wake-ups that race with a fiber going  *)
(* to sleep, and its reinsertion after a switch, never duplicate or lose it.   *)
(* With it the assertions of schedule_tid ("we MUST get here only after the    *)
(* thread was completely descheduled or no deschedule operation has happened   *)
(* yet") and of deschedule_self, for the protocol of fiber_reply_container.    *)
OnePlace ==
  /\ \A f \in Fiber :
       Cardinality(Slots(queue, f)) + Cardinality(Slots(popped, f)) + Cardinality(Holders(f))
         + (IF fiber[f].scheduleable THEN 0 ELSE 1) = IF Alive(f) THEN 1 ELSE 0
  /\ comm_at.pc = "schedule" => ~fiber[comm_at.fib].descheduled
  /\ \A w \in Worker, f \in Fiber : Running(w, f) => fiber[f].scheduleable /\ ~Leaving(f)

(* No lost wake-up: when a worker sleeps on active_cond although one of its    *)
(* queues has a fiber it could take, somebody is about to signal it.           *)
NoMissedFiber ==
  \A w \in Worker, k \in Level :
    worker[w].pc = "asleep" /\ Available(w, k) # <<>> =>
      \E a \in Agent : insert[a].to = w /\ insert[a].pc \in {"look", "signal"}

(* fiber_group::join returns when every function has ended and every exception *)
(* has been seen; fibers_active counts the fibers that are not destroyed.      *)
JoinComplete ==
  /\ fibers_active = Cardinality({f \in Fiber : Alive(f)})
  /\ main_at \in {"join", "joinwait", "stop", "done"} =>
       ~exception_raised /\ \A f \in Fiber : fiber[f].at \in {"groupsignal", "exit", "dead"}

(* The destructor deletes a worker's queues only when they are empty and the   *)
(* worker will not search them again, and ends only when no wake-up is still   *)
(* on its way through the schedule.                                            *)
NotUsedAfterDelete ==
  /\ \A w \in deleted : /\ worker[w].pc \in {"joinsignal", "rest", "lock", "ended"}
                        /\ \A k \in Level : queue[w][k] = <<>> /\ popped[w][k] = <<>>
  /\ main_at = "done" => \A a \in Agent : Inserted(a)

(* The ends are in order: that of the functions before join returns, that of    *)
(* the workers before the destructor does.                                     *)
FibersEnd == JoinComplete /\ NotUsedAfterDelete
=============================================================================

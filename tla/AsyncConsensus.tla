---------------------------- MODULE AsyncConsensus ----------------------------
(***************************************************************************)
(* Distributed termination detection, rpc/async_consensus.cpp (and its twin *)
(* fiber/fiber_async_consensus.cpp, which replaces the condition variables  *)
(* by descheduled fibers), together with the loop its class comment tells   *)
(* the user to run: threads take tasks from a local queue, a task may send  *)
(* calls or queue more tasks, a call handler queues a task or passes the    *)
(* call on, and whoever queues a task calls cancel().                       *)
(*                                                                         *)
(* An agent is a thread or an RPC handler.  The mutex m of a process is     *)
(* held by the agent whose pc is one of the Holding ones.  trying_to_sleep  *)
(* and critical are functions of the threads' pcs, see TryingToSleep.       *)
(***************************************************************************)
EXTENDS Integers, FiniteSets

CONSTANTS
  N,               \* number of processes, 0..N-1
  Thread, Handler, \* agents
  At,              \* the process of an agent
  Prior,           \* calls each process sent, and received, before the first run
  InitWork,        \* tasks queued at each process when a run starts
  WakeAll,         \* TRUE: whoever queues a task calls cancel(), FALSE: cancel_one()
  MaxOrders,       \* bound: calls sent and tasks queued by tasks
  MaxRuns          \* bound: runs of the threads, each after a reset()

Proc == 0..(N - 1)
Agent == Thread \cup Handler

ASSUME ConsensusAssumption ==
  /\ N \in Nat \ {0}
  /\ IsFiniteSet(Thread) /\ IsFiniteSet(Handler) /\ Thread \cap Handler = {}
  /\ At \in [Agent -> Proc] /\ \A p \in Proc : \E t \in Thread : At[t] = p
  /\ Prior \in [Proc -> Nat] /\ InitWork \in [Proc -> Nat]
  /\ WakeAll \in BOOLEAN /\ MaxOrders \in Nat /\ MaxRuns \in Nat

VARIABLES
  pc,        \* of an agent
  after,     \* of an agent: its pc when cancel() or cancel_one() returns
  wake,      \* of an agent: the threads its cancel() or cancel_one() is about
  callsrecv, \* of an agent: local variable of pass_the_token
  work,      \* tasks in the queue of a process
  inflight,  \* calls on their way to a process
  calls_sent, calls_received,
  last_calls_sent, last_calls_received,
  numactive, sleeping, done, hastoken, cur_token,
  token,     \* token on its way to a process: a set of [to, tok]
  forced,    \* processes a force_done call is on its way to
  orders,    \* calls and tasks that tasks may still order
  runs

queues == <<work, inflight, calls_sent, calls_received, orders>>
locals == <<after, wake, callsrecv>>
tokens == <<hastoken, cur_token, token, last_calls_sent, last_calls_received>>
vars == <<pc, after, wake, callsrecv, work, inflight, calls_sent, calls_received,
          last_calls_sent, last_calls_received, numactive, sleeping, done,
          hastoken, cur_token, token, forced, orders, runs>>

ThreadsOf(p) == {t \in Thread : At[t] = p}
ncpus(p) == Cardinality(ThreadsOf(p))
Asleep(p) == {t \in ThreadsOf(p) : sleeping[t]}

Holding == {"check", "ending", "passing", "sending"}
Free(p) == \A a \in Agent : At[a] = p => pc[a] \notin Holding

\* trying_to_sleep counts the threads between begin_done_critical_section and
\* the end of the critical section.
TryingToSleep(p) == {t \in ThreadsOf(p) : pc[t] \in Holding \cup {"begin", "sleep"}}

FirstToken == [sent |-> 0, received |-> 0, last_change |-> N - 1]

Goto(a, l) == pc' = [pc EXCEPT ![a] = l]

\* Agent a calls cancel() or cancel_one() for the threads W and then goes on at l.
Cancel(a, W, l) == /\ Goto(a, "cancel")
                   /\ after' = [after EXCEPT ![a] = l]
                   /\ wake' = [wake EXCEPT ![a] = W]

(* The constructor; reset() stores the same values again.                    *)
Init ==
  /\ pc = [a \in Agent |-> IF a \in Thread THEN "run" ELSE "idle"]
  /\ after = [a \in Agent |-> "idle"]
  /\ wake = [a \in Agent |-> {}]
  /\ callsrecv = [a \in Agent |-> 0]
  /\ work = InitWork
  /\ inflight = [p \in Proc |-> 0]
  /\ calls_sent = Prior /\ calls_received = Prior
  /\ last_calls_sent = [p \in Proc |-> 0] /\ last_calls_received = [p \in Proc |-> 0]
  /\ numactive = [p \in Proc |-> ncpus(p)]
  /\ sleeping = [t \in Thread |-> FALSE]
  /\ done = [p \in Proc |-> FALSE]
  /\ hastoken = [p \in Proc |-> p = 0]
  /\ cur_token = [p \in Proc |-> FirstToken]
  /\ token = {} /\ forced = {}
  /\ orders = MaxOrders /\ runs = 1

-----------------------------------------------------------------------------
(* The user's loop: take a task, or try to leave.                            *)
\* Faulty variant: the test for a task is off by one.
HasTaskOffByOne(p) == work[p] >= 0
HasTask(p) == work[p] > 0

TakeTask(t) ==
  /\ pc[t] = "run" /\ HasTask(At[t])
  /\ work' = [work EXCEPT ![At[t]] = @ - 1]
  /\ Goto(t, "task")
  /\ UNCHANGED <<locals, inflight, calls_sent, calls_received, orders, tokens,
                 numactive, sleeping, done, forced, runs>>

(* begin_done_critical_section announces the thread, then waits for m.       *)
BeginDone(t) ==
  /\ pc[t] = "run" /\ ~HasTask(At[t])
  /\ Goto(t, "begin")
  /\ UNCHANGED <<locals, queues, tokens, numactive, sleeping, done, forced, runs>>

EnterCriticalSection(t) ==
  /\ pc[t] = "begin" /\ Free(At[t])
  /\ Goto(t, "check")
  /\ UNCHANGED <<locals, queues, tokens, numactive, sleeping, done, forced, runs>>

(* The second look at the queue; cancel_critical_section if there is a task. *)
CheckAgain(t) ==
  /\ pc[t] = "check"
  /\ \/ /\ HasTask(At[t])
        /\ work' = [work EXCEPT ![At[t]] = @ - 1]
        /\ Goto(t, "task")
     \/ /\ ~HasTask(At[t])
        /\ Goto(t, "ending")
        /\ UNCHANGED work
  /\ UNCHANGED <<locals, inflight, calls_sent, calls_received, orders, tokens,
                 numactive, sleeping, done, forced, runs>>

(* end_done_critical_section up to the wait: the last thread passes the      *)
(* token on, with m held and before it is marked as sleeping.                *)
EndDone(t) ==
  LET p == At[t]
  IN /\ pc[t] = "ending"
     /\ \/ /\ done[p] /\ Goto(t, "left")
           /\ UNCHANGED <<numactive, sleeping>>
        \/ /\ ~done[p]
           /\ numactive' = [numactive EXCEPT ![p] = @ - 1]
           /\ \/ /\ numactive[p] = 1 /\ hastoken[p] /\ Goto(t, "passing")
                 /\ UNCHANGED sleeping
              \/ /\ ~(numactive[p] = 1 /\ hastoken[p]) /\ Goto(t, "sleep")
                 /\ sleeping' = [sleeping EXCEPT ![t] = TRUE]
     /\ UNCHANGED <<locals, queues, tokens, done, forced, runs>>

(* The thread is woken, or finds done set, and leaves the critical section.  *)
WakeUp(t) ==
  /\ pc[t] = "sleep" /\ Free(At[t])
  /\ ~sleeping[t] \/ done[At[t]]
  /\ Goto(t, IF done[At[t]] THEN "left" ELSE "run")
  /\ UNCHANGED <<locals, queues, tokens, numactive, sleeping, done, forced, runs>>

-----------------------------------------------------------------------------
(* pass_the_token, called with m held.  The caller goes on to sleep (a       *)
(* thread) or returns (the handler of the token).                            *)
PassReturns(a) ==
  /\ Goto(a, IF a \in Handler THEN "idle" ELSE IF done'[At[a]] THEN "left" ELSE "sleep")
  /\ sleeping' = [t \in Thread |-> IF t = a THEN TRUE
                                   ELSE sleeping[t] /\ ~(done'[At[a]] /\ At[t] = At[a])]

(* A full round without a change: tell everybody, wake all local threads.    *)
\* Faulty variant: the totals are not compared.
RoundWithoutChange(p) == cur_token[p].last_change = p
Completed(p) == /\ cur_token[p].last_change = p
                /\ cur_token[p].received = cur_token[p].sent

PassCompleted(a) ==
  LET p == At[a]
  IN /\ pc[a] = "passing" /\ Completed(p)
     /\ forced' = forced \cup (Proc \ {p})
     /\ done' = [done EXCEPT ![p] = TRUE]
     /\ numactive' = [numactive EXCEPT ![p] = @ + Cardinality(Asleep(p))]
     /\ PassReturns(a)
     /\ UNCHANGED <<locals, queues, tokens, runs>>

(* Otherwise add what was sent and received since the last visit.  The two   *)
(* counters are read one after the other while handlers keep running.        *)
PassReadReceived(a) ==
  /\ pc[a] = "passing" /\ ~Completed(At[a])
  /\ callsrecv' = [callsrecv EXCEPT ![a] = calls_received[At[a]]]
  /\ Goto(a, "sending")
  /\ UNCHANGED <<after, wake, queues, tokens, numactive, sleeping, done, forced, runs>>

\* The token that leaves process p.  Faulty variants: last_change stays; every
\* process marks the token.
UpdatedAlways(p, sent, recv) ==
  [sent |-> cur_token[p].sent + sent - last_calls_sent[p],
   received |-> cur_token[p].received + recv - last_calls_received[p],
   last_change |-> p]
UpdatedSilently(p, sent, recv) ==
  [cur_token[p] EXCEPT !.sent = @ + sent - last_calls_sent[p],
                       !.received = @ + recv - last_calls_received[p]]
Updated(p, sent, recv) ==
  IF sent = last_calls_sent[p] /\ recv = last_calls_received[p] THEN cur_token[p]
  ELSE [sent |-> cur_token[p].sent + sent - last_calls_sent[p],
        received |-> cur_token[p].received + recv - last_calls_received[p],
        last_change |-> p]

\* hastoken once the token has been sent.  Faulty variant: it is not cleared.
TokenKept(p) == hastoken
TokenGone(p) == [hastoken EXCEPT ![p] = FALSE]

PassSend(a) ==
  LET p == At[a]
      tok == Updated(p, calls_sent[p], callsrecv[a])
  IN /\ pc[a] = "sending"
     /\ cur_token' = [cur_token EXCEPT ![p] = tok]
     /\ last_calls_sent' = [last_calls_sent EXCEPT ![p] = calls_sent[p]]
     /\ last_calls_received' = [last_calls_received EXCEPT ![p] = callsrecv[a]]
     /\ hastoken' = TokenGone(p)
     /\ token' = token \cup {[to |-> (p + 1) % N, tok |-> tok]}
     /\ UNCHANGED done
     /\ PassReturns(a)
     /\ UNCHANGED <<locals, queues, numactive, forced, runs>>

(* receive_the_token, a control call: it is not counted.                     *)
ReceiveTheToken(h) ==
  LET p == At[h]
  IN /\ pc[h] = "idle" /\ Free(p)
     /\ \E x \in token :
          /\ x.to = p
          /\ token' = token \ {x}
          /\ cur_token' = [cur_token EXCEPT ![p] = x.tok]
     /\ hastoken' = [hastoken EXCEPT ![p] = TRUE]
     /\ Goto(h, IF numactive[p] = 0 THEN "passing" ELSE "idle")
     /\ UNCHANGED <<locals, queues, last_calls_sent, last_calls_received,
                    numactive, sleeping, done, forced, runs>>

(* force_done, a control call: set done, then cancel().                      *)
ForceDone(h) ==
  /\ pc[h] = "idle" /\ At[h] \in forced /\ Free(At[h])
  /\ forced' = forced \ {At[h]}
  /\ done' = [done EXCEPT ![At[h]] = TRUE]
  /\ Cancel(h, ThreadsOf(At[h]), "idle")
  /\ UNCHANGED <<callsrecv, queues, tokens, numactive, sleeping, runs>>

-----------------------------------------------------------------------------
(* A look without the mutex: cancel() asks for trying_to_sleep and numactive, *)
(* cancel_one() for critical[cpuhint].                                        *)
\* Faulty variant: only threads that already sleep are looked for.
AnybodyAsleep(p, W) == numactive[p] < ncpus(p)
AnybodyToWake(p, W) == \/ W \cap TryingToSleep(p) # {}
                       \/ W = ThreadsOf(p) /\ numactive[p] < ncpus(p)

Return(a) == /\ Goto(a, after[a])
             /\ after' = [after EXCEPT ![a] = "idle"]
             /\ wake' = [wake EXCEPT ![a] = {}]

CancelLook(a) ==
  /\ pc[a] = "cancel"
  /\ IF AnybodyToWake(At[a], wake[a]) THEN Goto(a, "waking") /\ UNCHANGED <<after, wake>>
                                      ELSE Return(a)
  /\ UNCHANGED <<callsrecv, queues, tokens, numactive, sleeping, done, forced, runs>>

(* Then the sleeping threads are woken, and counted, under the mutex.         *)
\* Faulty variant: one thread is counted, however many are woken.
CountedOnce(woken) == 1
Counted(woken) == Cardinality(woken)

CancelWake(a) ==
  LET p == At[a]
      woken == wake[a] \cap Asleep(p)
  IN /\ pc[a] = "waking" /\ Free(p)
     /\ numactive' = [numactive EXCEPT ![p] = @ + Counted(woken)]
     /\ sleeping' = [t \in Thread |-> sleeping[t] /\ t \notin woken]
     /\ Return(a)
     /\ UNCHANGED <<callsrecv, queues, tokens, done, forced, runs>>

\* Agent a queues a task at its process, calls cancel() or cancel_one(), and then
\* goes on at l.
QueueTask(a, l) ==
  /\ work' = [work EXCEPT ![At[a]] = @ + 1]
  /\ \/ WakeAll /\ Cancel(a, ThreadsOf(At[a]), l)
     \/ ~WakeAll /\ \E t \in ThreadsOf(At[a]) : Cancel(a, {t}, l)

\* Agent a sends a call to q: it is counted before the sender thread can see it.
SendCall(a, q) ==
  /\ calls_sent' = [calls_sent EXCEPT ![At[a]] = @ + 1]
  /\ inflight' = [inflight EXCEPT ![q] = @ + 1]

Order == orders > 0 /\ orders' = orders - 1

(* A task queues another one, sends a call, or ends.                         *)
TaskQueues(t) ==
  /\ pc[t] = "task" /\ Order
  /\ QueueTask(t, "task")
  /\ UNCHANGED <<callsrecv, inflight, calls_sent, calls_received, tokens,
                 numactive, sleeping, done, forced, runs>>

TaskSends(t, q) ==
  /\ pc[t] = "task" /\ Order
  /\ SendCall(t, q)
  /\ UNCHANGED <<pc, locals, work, calls_received, tokens,
                 numactive, sleeping, done, forced, runs>>

TaskEnds(t) ==
  /\ pc[t] = "task"
  /\ Goto(t, "run")
  /\ UNCHANGED <<locals, queues, tokens, numactive, sleeping, done, forced, runs>>

(* A handler runs a call: it may pass calls on, and queues a task.           *)
ReceiveCall(h) ==
  /\ pc[h] = "idle" /\ inflight[At[h]] > 0
  /\ inflight' = [inflight EXCEPT ![At[h]] = @ - 1]
  /\ Goto(h, "handle")
  /\ UNCHANGED <<locals, work, calls_sent, calls_received, orders, tokens,
                 numactive, sleeping, done, forced, runs>>

HandlerQueues(h) ==
  /\ pc[h] = "handle"
  /\ QueueTask(h, "count")
  /\ UNCHANGED <<callsrecv, inflight, calls_sent, calls_received, orders, tokens,
                 numactive, sleeping, done, forced, runs>>

HandlerForwards(h, q) ==
  /\ pc[h] = "handle" /\ Order
  /\ SendCall(h, q)
  /\ Goto(h, "count")
  /\ UNCHANGED <<locals, work, calls_received, tokens,
                 numactive, sleeping, done, forced, runs>>

(* exec_function_call counts a call once its handler has returned.           *)
CountCall(h) ==
  /\ pc[h] = "count"
  /\ calls_received' = [calls_received EXCEPT ![At[h]] = @ + 1]
  /\ Goto(h, "idle")
  /\ UNCHANGED <<locals, work, inflight, calls_sent, orders, tokens,
                 numactive, sleeping, done, forced, runs>>

-----------------------------------------------------------------------------
(* All threads have been joined and the processes have met in a barrier:     *)
(* new tasks are queued, every process calls reset() and starts its threads. *)
Restart ==
  /\ runs < MaxRuns /\ \A t \in Thread : pc[t] = "left"
  /\ pc' = [a \in Agent |-> IF a \in Thread THEN "run" ELSE pc[a]]
  /\ work' = [p \in Proc |-> work[p] + InitWork[p]]
  /\ last_calls_sent' = [p \in Proc |-> 0] /\ last_calls_received' = [p \in Proc |-> 0]
  /\ numactive' = [p \in Proc |-> ncpus(p)]
  /\ sleeping' = [t \in Thread |-> FALSE]
  /\ done' = [p \in Proc |-> FALSE]
  /\ hastoken' = [p \in Proc |-> p = 0]
  /\ cur_token' = [p \in Proc |-> FirstToken]
  /\ runs' = runs + 1
  /\ UNCHANGED <<locals, inflight, calls_sent, calls_received, orders, token, forced>>

Finished ==
  /\ runs = MaxRuns /\ \A t \in Thread : pc[t] = "left"
  /\ \A h \in Handler : pc[h] = "idle"
  /\ UNCHANGED vars

ThreadStep(t) == \/ TakeTask(t) \/ BeginDone(t) \/ EnterCriticalSection(t)
                 \/ CheckAgain(t) \/ EndDone(t) \/ WakeUp(t)
                 \/ TaskQueues(t) \/ TaskEnds(t)
                 \/ \E q \in Proc : TaskSends(t, q)

HandlerStep(h) == \/ ReceiveTheToken(h) \/ ForceDone(h) \/ ReceiveCall(h)
                  \/ HandlerQueues(h) \/ CountCall(h)
                  \/ \E q \in Proc : HandlerForwards(h, q)

AgentStep(a) == \/ PassCompleted(a) \/ PassReadReceived(a) \/ PassSend(a)
                \/ CancelLook(a) \/ CancelWake(a)

Next == \/ \E t \in Thread : ThreadStep(t)
        \/ \E h \in Handler : HandlerStep(h)
        \/ \E a \in Agent : AgentStep(a)
        \/ Restart \/ Finished

Spec == Init /\ [][Next]_vars

\* Every agent keeps running.  The token may circle for ever while a call waits or a
\* handler waits for the mutex in cancel(): both get their turn.
HandlersOf(p) == {h \in Handler : At[h] = p}
Fairness ==
  /\ \A t \in Thread : WF_vars(ThreadStep(t))
  /\ \A h \in Handler : WF_vars(HandlerQueues(h) \/ CountCall(h)) /\ SF_vars(CancelWake(h))
  /\ \A a \in Agent : WF_vars(AgentStep(a))
  /\ \A p \in Proc : /\ WF_vars(\E h \in HandlersOf(p) : ReceiveTheToken(h))
                     /\ WF_vars(\E h \in HandlersOf(p) : ForceDone(h))
                     /\ SF_vars(\E h \in HandlersOf(p) : ReceiveCall(h))
FairSpec == Spec /\ Fairness

-----------------------------------------------------------------------------
Label == {"run", "task", "begin", "sleep", "left", "idle", "handle", "count",
          "cancel", "waking"} \cup Holding
Token == [sent : Int, received : Int, last_change : Proc]

\* The counters and flags of every process, and the pc of every agent.
TypeOK ==
  /\ pc \in [Agent -> Label]
  /\ after \in [Agent -> {"task", "count", "idle"}]
  /\ wake \in [Agent -> SUBSET Thread]
  /\ callsrecv \in [Agent -> Nat]
  /\ work \in [Proc -> Nat] /\ inflight \in [Proc -> Nat]
  /\ calls_sent \in [Proc -> Nat] /\ calls_received \in [Proc -> Nat]
  /\ last_calls_sent \in [Proc -> Nat] /\ last_calls_received \in [Proc -> Nat]
  /\ numactive \in [Proc -> Int]
  /\ sleeping \in [Thread -> BOOLEAN]
  /\ done \in [Proc -> BOOLEAN] /\ hastoken \in [Proc -> BOOLEAN]
  /\ cur_token \in [Proc -> Token]
  /\ token \subseteq [to : Proc, tok : Token]
  /\ forced \subseteq Proc
  /\ orders \in 0..MaxOrders /\ runs \in Nat

\* Comment in end_done_critical_section: "numactive is a valid counter of the
\* number of threads outside of this critical section", whatever the order of
\* cancellations and threads going to sleep.
NumActiveValid ==
  \A p \in Proc : ~done[p] =>
    numactive[p] = Cardinality({t \in ThreadsOf(p) : ~sleeping[t] /\
                                                     pc[t] \notin {"passing", "sending"}})

\* Exactly one token exists, held or on its way, also across reset().
OneToken ==
  Cardinality({p \in Proc : hastoken[p]}) + Cardinality(token) = 1

\* No wakeup is lost: while all threads of a process sleep its queue is empty,
\* unless whoever queued a task is still in cancel().
NoTaskForgotten ==
  \A p \in Proc : Asleep(p) = ThreadsOf(p) /\ work[p] > 0 /\ ~done[p] =>
    \E a \in Agent : At[a] = p /\ pc[a] \in {"cancel", "waking"}

\* Nothing that could create work is left: no task queued or running, no call on
\* its way or in a handler.
Quiet ==
  /\ \A p \in Proc : work[p] = 0 /\ inflight[p] = 0
  /\ \A a \in Agent : pc[a] \notin {"task", "handle", "count"}
  /\ \A a \in Agent : pc[a] \in {"cancel", "waking"} => after[a] = "idle"

Busy == ~Quiet
Detected == \E p \in Proc : done[p]

\* Constructor comment: "all threads have no work to do and are waiting in
\* consensus, and there is no communication going on which could wake up a
\* thread" when consensus is reached.
DoneOnlyWhenQuiet ==
  Detected => Quiet

\* The promise of the class comment, as an abstract specification: consensus only
\* when nothing is left to do, nothing starts again once nothing is left, and
\* consensus is eventually reached then.
Detection == INSTANCE TerminationDetection WITH busy <- Busy, detected <- Detected
ImplementsDetection == Detection!Spec

\* Consensus is always reached once the tasks stop ordering calls and tasks, and
\* then every thread leaves.
AllLeave ==
  []<>(\A t \in Thread : pc[t] = "left")
=============================================================================

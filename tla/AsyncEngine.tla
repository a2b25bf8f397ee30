----------------------------- MODULE AsyncEngine -----------------------------
(* The asynchronous engine with factorized consistency: fibers take vertices    *)
(* from the queued_fifo scheduler and messages from the message array, run      *)
(* vertex programs whose scatter signals neighbours, and try to quit when they  *)
(* find nothing; RPC handlers receive signals and scatter on the mirrors.  The  *)
(* consensus is used by its promise, which TerminationDetection states and      *)
(* AsyncConsensus is shown to keep.                                             *)
EXTENDS Integers, Sequences, FiniteSets

CONSTANTS
  Machine,
  NumVids,       \* vertices are 1..NumVids
  Master,        \* Master[v]: the machine that owns vertex v
  LocalEdges,    \* LocalEdges[m]: edges {v, w} on machine m
  EngineFiber, EngineHandler,
  Place,         \* Place[a]: machine of a fiber or handler
  Cpu,           \* Cpu[f]: threadid % ncpus of a fiber, from 0
  Multi,         \* multi: in_queues for each cpu
  SubQueueSize,  \* sub_queue_size
  Signalled,     \* vertices signalled before start(), at most one on a machine
  MaxSignals,    \* bound: signals of scatter functions, over all programs
  Timed          \* TRUE: the engine option timeout is set

ASSUME AgentsApart == EngineFiber \cap EngineHandler = {}

VARIABLES
  agent,         \* of a fiber or handler: see EngineInit
  sched,         \* of a machine: vertex_is_scheduled and the queues of the scheduler
  messages,      \* messages[m][v]: the signals in the box; empty: no message
  program_running, hasnext,
  vertexlocks,   \* vertexlocks[m][v]: the agent that holds the lock, or "free"
  calls,         \* on their way: [kind, at, v, msg, from]
  force_stop, endgame_mode,
  signals,       \* signals so far; a signal is a number
  handled,       \* history: signals a vertex program was started with
  quit           \* consensus was reached: the fibers leave, start() returns

schedVars == <<agent, sched>>
vertexVars == <<messages, program_running, hasnext, vertexlocks>>
worldVars == <<calls, force_stop, endgame_mode, signals, handled, quit>>
engineVars == <<schedVars, vertexVars, worldVars>>

Vid == 1..NumVids
EngineAgent == EngineFiber \cup EngineHandler
Cpus == {Cpu[f] : f \in EngineFiber}
NumQueues == Multi * Cardinality(Cpus)
InQueue == 0..(NumQueues - 1)
EdgesAt(m, v) == {e \in LocalEdges[m] : v \in e}
Mirrors(v) == {m \in Machine \ {Master[v]} : EdgesAt(m, v) # {}}
First(e) == CHOOSE v \in e : \A w \in e : v <= w
Other(e, v) == CHOOSE w \in e : w # v

(* signal_vset before start() has put a message for every vertex of Signalled   *)
(* into its box and the vertex into a queue that schedule() picked.             *)
EngineInit ==
  /\ agent = [a \in EngineAgent |->
       [pc |-> IF a \in EngineFiber THEN "next" ELSE "idle",
        v |-> 0, msg |-> {},          \* the vertex at hand and its message
        phase |-> "gather",           \* of the program: "gather" or "scatter"
        edges |-> {}, replies |-> {}, \* edges still to visit, mirrors to wait for
        from |-> "none",              \* the fiber a handler works for
        to |-> 0, ret |-> "idle",     \* whom it schedules, and what follows
        i |-> 0, critical |-> FALSE]] \* queues it tried; inside the critical section
  /\ \E pick \in [Machine -> InQueue] :
       sched = [m \in Machine |->
         LET mine == {v \in Signalled : Master[v] = m}
         IN  [bits |-> mine, master |-> <<>>, out |-> [c \in Cpus |-> <<>>],
              in |-> [q \in InQueue |-> IF q = pick[m] /\ mine # {} THEN <<CHOOSE v \in mine : TRUE>>
                                                                   ELSE <<>>]]]
  /\ messages = [m \in Machine |->
                   [v \in Vid |-> IF v \in Signalled /\ Master[v] = m THEN {v} ELSE {}]]
  /\ program_running = {} /\ hasnext = {}
  /\ vertexlocks = [m \in Machine |-> [v \in Vid |-> "free"]]
  /\ calls = {}
  /\ force_stop = [m \in Machine |-> FALSE] /\ endgame_mode = [m \in Machine |-> FALSE]
  /\ signals = NumVids /\ handled = {} /\ quit = FALSE

Doing(a, pc) == agent[a].pc = pc
Become(a, now) == agent' = [agent EXCEPT ![a] = now]
Go(a, pc) == Become(a, [agent[a] EXCEPT !.pc = pc])
-----------------------------------------------------------------------------
(* get_next of queued_fifo_scheduler: out_queue_locks[cpuid] is held while the  *)
(* fiber looks for a queue, in its own, in the master queue and then in each of *)
(* the in_queues, and pops the first vertex that is marked as scheduled.        *)
OutQueueFree(f) ==
  \A g \in EngineFiber : Place[g] = Place[f] /\ Cpu[g] = Cpu[f] => ~Doing(g, "steal")

Pop(f, queue, rest) ==
  LET m == Place[f]
      good == {k \in DOMAIN queue : queue[k] \in rest.bits}
      k == CHOOSE j \in good : \A l \in good : j <= l
  IN  IF good = {}
      THEN /\ Go(f, IF agent[f].critical THEN "empty" ELSE "try")
           /\ sched' = [sched EXCEPT ![m] = [rest EXCEPT !.out[Cpu[f]] = <<>>]]
      ELSE /\ Become(f, [agent[f] EXCEPT !.pc = "get", !.v = queue[k], !.i = 0])
           /\ sched' = [sched EXCEPT ![m] =
                [rest EXCEPT !.out[Cpu[f]] = SubSeq(queue, k + 1, Len(queue)), !.bits = @ \ {queue[k]}]]

get_next(f) ==
  LET s == sched[Place[f]]
  IN  /\ Doing(f, "next") /\ OutQueueFree(f)
      /\ \/ /\ s.out[Cpu[f]] # <<>>
            /\ Pop(f, s.out[Cpu[f]], s)
         \/ /\ s.out[Cpu[f]] = <<>> /\ s.master # <<>>
            /\ Pop(f, Head(s.master), [s EXCEPT !.master = Tail(@)])
         \/ /\ s.out[Cpu[f]] = <<>> /\ s.master = <<>>
            /\ Become(f, [agent[f] EXCEPT !.pc = "steal", !.i = 0]) /\ UNCHANGED sched
      /\ UNCHANGED <<vertexVars, worldVars>>

Steal(f) ==
  LET s == sched[Place[f]]
      q == (agent[f].i + Multi * Cpu[f]) % NumQueues
  IN  /\ Doing(f, "steal")
      /\ \/ /\ s.in[q] # <<>>
            /\ Pop(f, s.in[q], [s EXCEPT !.in[q] = <<>>])
         \/ /\ s.in[q] = <<>> /\ agent[f].i + 1 < NumQueues
            /\ Become(f, [agent[f] EXCEPT !.i = @ + 1]) /\ UNCHANGED sched
         \/ /\ s.in[q] = <<>> /\ agent[f].i + 1 = NumQueues
            /\ Pop(f, <<>>, s)
      /\ UNCHANGED <<vertexVars, worldVars>>

(* get_next_sched_task: the vertex is worth a task only if it has a message.    *)
get_next_sched_task(f) ==
  LET m == Place[f]
      v == agent[f].v
  IN  /\ Doing(f, "get")
      /\ IF messages[m][v] = {}
         THEN Go(f, "next") /\ UNCHANGED messages
         ELSE /\ Become(f, [agent[f] EXCEPT !.pc = IF agent[f].critical THEN "checked" ELSE "eval",
                                            !.msg = messages[m][v]])
              /\ messages' = [messages EXCEPT ![m][v] = {}]
      /\ UNCHANGED <<sched, program_running, hasnext, vertexlocks, worldVars>>
-----------------------------------------------------------------------------
(* schedule of queued_fifo_scheduler, and cancel() of the consensus after it.   *)
Schedule(a) ==
  LET m == Place[a]
      v == agent[a].to
  IN  /\ Doing(a, "schedule")
      /\ Go(a, IF v \in sched[m].bits THEN "cancel" ELSE "push")
      /\ sched' = [sched EXCEPT ![m].bits = @ \cup {v}]
      /\ UNCHANGED <<vertexVars, worldVars>>

Push(a) ==
  LET m == Place[a]
  IN  /\ Doing(a, "push")
      /\ \E q \in InQueue :
           LET queue == Append(sched[m].in[q], agent[a].to)
           IN  sched' = IF Len(queue) > SubQueueSize
                        THEN [sched EXCEPT ![m].master = Append(@, queue), ![m].in[q] = <<>>]
                        ELSE [sched EXCEPT ![m].in[q] = queue]
      /\ Go(a, "cancel")
      /\ UNCHANGED <<vertexVars, worldVars>>

(* Nobody on the machine is inside the critical section.                        *)
MutexFree(m) == \A f \in EngineFiber : Place[f] = m => ~agent[f].critical

(* Faulty variant: a fiber on its way to sleep is not counted.                  *)
Sleepers(m) == {f \in EngineFiber : Place[f] = m /\ agent[f].pc \in {"sleep", "woken"}}

(* The fibers that trying_to_sleep counts: from before they wait for the mutex  *)
(* of the consensus until they have left it.  They include those that sleep,    *)
(* so that the second half of the test, numactive < ncpus, adds nothing.        *)
TryingToSleep(m) ==
  {f \in EngineFiber : Place[f] = m /\ (agent[f].critical \/ agent[f].pc \in {"lock", "sleep", "woken"})}

(* cancel() looks at the counter without the mutex ...                          *)
cancel(a) ==
  /\ Doing(a, "cancel")
  /\ Go(a, IF TryingToSleep(Place[a]) # {} THEN "wake" ELSE agent[a].ret)
  /\ UNCHANGED <<sched, vertexVars, worldVars>>

(* ... and wakes with it who sleeps.                                            *)
WakeSleepers(a) ==
  /\ Doing(a, "wake") /\ MutexFree(Place[a])
  /\ agent' = [b \in EngineAgent |->
       IF b = a THEN [agent[a] EXCEPT !.pc = agent[a].ret]
       ELSE IF Place[b] = Place[a] /\ Doing(b, "sleep") THEN [agent[b] EXCEPT !.pc = "woken"]
       ELSE agent[b]]
  /\ UNCHANGED <<sched, vertexVars, worldVars>>
-----------------------------------------------------------------------------
(* try_to_quit: the queues are searched once more inside the critical section;  *)
(* after a timeout what is found there is dropped.                              *)
try_to_quit(f) ==
  /\ Doing(f, "try") /\ Go(f, "begin")
  /\ \/ UNCHANGED force_stop
     \/ Timed /\ force_stop' = [force_stop EXCEPT ![Place[f]] = TRUE]
  /\ UNCHANGED <<sched, vertexVars, calls, endgame_mode, signals, handled, quit>>

begin_done_critical_section(f) ==
  /\ \/ Doing(f, "begin") /\ Go(f, "lock")
     \/ /\ Doing(f, "lock") /\ MutexFree(Place[f])
        /\ Become(f, [agent[f] EXCEPT !.pc = "next", !.critical = TRUE])
  /\ UNCHANGED <<sched, vertexVars, worldVars>>

cancel_critical_section(f) ==
  /\ Doing(f, "checked") /\ ~force_stop[Place[f]]
  /\ Become(f, [agent[f] EXCEPT !.pc = "eval", !.critical = FALSE])
  /\ UNCHANGED <<sched, vertexVars, worldVars>>

Call(kind, m, v, msg, from) == [kind |-> kind, at |-> m, v |-> v, msg |-> msg, from |-> from]

end_done_critical_section(f) ==
  /\ Doing(f, "empty") \/ (Doing(f, "checked") /\ force_stop[Place[f]])
  /\ endgame_mode' = [endgame_mode EXCEPT ![Place[f]] = TRUE]
  /\ calls' = calls \cup {Call("endgame", m, 0, {}, f) : m \in Machine}
  /\ Become(f, [agent[f] EXCEPT !.pc = "sleep", !.critical = FALSE, !.msg = {}])
  /\ UNCHANGED <<sched, vertexVars, force_stop, signals, handled, quit>>

(* A fiber that was woken takes the mutex to leave the consensus.               *)
Leave(f) ==
  /\ Doing(f, "woken") /\ MutexFree(Place[f])
  /\ Go(f, "next")
  /\ UNCHANGED <<sched, vertexVars, worldVars>>

(* The promise of the consensus: it is reached when all fibers sleep and no     *)
(* call is on its way or being handled.                                         *)
Consensus ==
  /\ \A f \in EngineFiber : Doing(f, "sleep")
  /\ \A h \in EngineHandler : Doing(h, "idle")
  /\ calls = {} /\ quit' = TRUE
  /\ agent' = [a \in EngineAgent |-> IF a \in EngineFiber THEN [agent[a] EXCEPT !.pc = "left"]
                                                         ELSE agent[a]]
  /\ UNCHANGED <<sched, vertexVars, calls, force_stop, endgame_mode, signals, handled>>
-----------------------------------------------------------------------------
(* eval_sched_task: a message for a vertex of another machine is forwarded.     *)
Forward(f) ==
  LET v == agent[f].v
  IN  /\ Doing(f, "eval") /\ Master[v] # Place[f]
      /\ calls' = calls \cup {Call("signal", Master[v], v, agent[f].msg, f)}
      /\ Become(f, [agent[f] EXCEPT !.pc = "next", !.msg = {}])
      /\ UNCHANGED <<sched, vertexVars, force_stop, endgame_mode, signals, handled, quit>>

NobodyElseRunning(v) == FALSE
SomeoneElseRunning(v) == v \in program_running

get_exclusive_access_to_vertex(f) ==
  LET m == Place[f]
      v == agent[f].v
  IN  /\ Doing(f, "eval") /\ Master[v] = m /\ vertexlocks[m][v] = "free"
      /\ program_running' = program_running \cup {v}
      /\ IF SomeoneElseRunning(v)
         THEN /\ messages' = [messages EXCEPT ![m][v] = @ \cup agent[f].msg]
              /\ hasnext' = hasnext \cup {v}
              /\ Become(f, [agent[f] EXCEPT !.pc = "next", !.msg = {}])
         ELSE Go(f, "run") /\ UNCHANGED <<messages, hasnext>>
      /\ UNCHANGED <<sched, vertexlocks, worldVars>>

(* A phase of the program: every mirror is asked to visit its edges while the   *)
(* fiber visits those on its own machine.                                       *)
Visit(f, phase) ==
  LET v == agent[f].v
  IN  /\ calls' = calls \cup {Call(phase, r, v, {}, f) : r \in Mirrors(v)}
      /\ Become(f, [agent[f] EXCEPT !.pc = "edges", !.phase = phase, !.msg = {},
                                    !.edges = EdgesAt(Place[f], v), !.replies = Mirrors(v)])

(* All edges were visited, here and on the mirrors.                             *)
Visited(f, phase) ==
  /\ f \in EngineFiber /\ Doing(f, "edges") /\ agent[f].phase = phase
  /\ agent[f].edges = {} /\ agent[f].replies = {}

(* init, which is given the message, and gather change data of the user only.   *)
Gather(f) ==
  /\ Doing(f, "run") /\ Visit(f, "gather")
  /\ handled' = handled \cup agent[f].msg
  /\ UNCHANGED <<sched, vertexVars, force_stop, endgame_mode, signals, quit>>

(* apply runs under the lock of the vertex; the scatter phase follows.          *)
Apply(f) ==
  /\ Visited(f, "gather") /\ vertexlocks[Place[f]][agent[f].v] = "free"
  /\ Visit(f, "scatter")
  /\ UNCHANGED <<sched, vertexVars, force_stop, endgame_mode, signals, handled, quit>>

(* An edge at hand: gather and scatter run under the locks of both its ends,    *)
(* which are taken in the order of their ids.                                   *)
Edge(a) == CHOOSE e \in agent[a].edges : TRUE

LockFirst(a) ==
  LET m == Place[a]
  IN  /\ Doing(a, "edges") /\ agent[a].edges # {}
      /\ vertexlocks[m][First(Edge(a))] = "free"
      /\ vertexlocks' = [vertexlocks EXCEPT ![m][First(Edge(a))] = a]
      /\ Go(a, "second")
      /\ UNCHANGED <<sched, messages, program_running, hasnext, worldVars>>

LockSecond(a) ==
  LET m == Place[a]
      w == Other(Edge(a), First(Edge(a)))
  IN  /\ Doing(a, "second") /\ vertexlocks[m][w] = "free"
      /\ vertexlocks' = [vertexlocks EXCEPT ![m][w] = a]
      /\ Go(a, "edge")
      /\ UNCHANGED <<sched, messages, program_running, hasnext, worldVars>>

(* The user's scatter may signal the other end: internal_signal.                *)
internal_signal(a) ==
  LET m == Place[a]
      w == Other(Edge(a), agent[a].v)
      new == {signals + 1}
  IN  /\ Doing(a, "edge") /\ agent[a].phase = "scatter"
      /\ \/ Go(a, "unlock") /\ UNCHANGED <<messages, calls, signals>>
         \/ /\ signals < NumVids + MaxSignals /\ signals' = signals + 1
            /\ \/ /\ force_stop[m]
                  /\ Go(a, "unlock") /\ UNCHANGED <<messages, calls>>
               \/ /\ ~force_stop[m] /\ endgame_mode[m] /\ Master[w] # m
                  /\ calls' = calls \cup {Call("signal", Master[w], w, new, a)}
                  /\ Go(a, "unlock") /\ UNCHANGED messages
               \/ /\ ~force_stop[m] /\ ~(endgame_mode[m] /\ Master[w] # m)
                  /\ messages' = [messages EXCEPT ![m][w] = @ \cup new]
                  /\ Become(a, [agent[a] EXCEPT !.pc = "schedule", !.to = w, !.ret = "unlock"])
                  /\ UNCHANGED calls
      /\ UNCHANGED <<sched, program_running, hasnext, vertexlocks, force_stop, endgame_mode,
                     handled, quit>>

Unlock(a) ==
  /\ Doing(a, "unlock") \/ (Doing(a, "edge") /\ agent[a].phase = "gather")
  /\ vertexlocks' = [vertexlocks EXCEPT ![Place[a]] =
                       [v \in Vid |-> IF v \in Edge(a) THEN "free" ELSE @[v]]]
  /\ Become(a, [agent[a] EXCEPT !.pc = "edges", !.edges = @ \ {Edge(a)}])
  /\ UNCHANGED <<sched, messages, program_running, hasnext, worldVars>>

(* Once the mirrors have scattered; a message that came in between is scheduled *)
(* while the lock is held.                                                      *)
release_exclusive_access_to_vertex(f) ==
  LET m == Place[f]
      v == agent[f].v
  IN  /\ Visited(f, "scatter") /\ vertexlocks[m][v] = "free"
      /\ IF v \in hasnext
         THEN /\ vertexlocks' = [vertexlocks EXCEPT ![m][v] = f]
              /\ Become(f, [agent[f] EXCEPT !.pc = "schedule", !.to = v, !.ret = "release"])
              /\ UNCHANGED program_running
         ELSE /\ program_running' = program_running \ {v}
              /\ Go(f, "next") /\ UNCHANGED vertexlocks
      /\ UNCHANGED <<sched, messages, hasnext, worldVars>>

ReleaseNext(f) ==
  LET v == agent[f].v
  IN  /\ Doing(f, "release")
      /\ hasnext' = hasnext \ {v} /\ program_running' = program_running \ {v}
      /\ vertexlocks' = [vertexlocks EXCEPT ![Place[f]][v] = "free"]
      /\ Go(f, "next")
      /\ UNCHANGED <<sched, messages, worldVars>>
-----------------------------------------------------------------------------
(* The handlers.                                                                *)
rpc_signal(h, c) ==
  /\ Doing(h, "idle") /\ c.kind = "signal" /\ c.at = Place[h]
  /\ calls' = calls \ {c}
  /\ IF force_stop[c.at]
     THEN UNCHANGED <<agent, messages>>
     ELSE /\ messages' = [messages EXCEPT ![c.at][c.v] = @ \cup c.msg]
          /\ Become(h, [agent[h] EXCEPT !.pc = "schedule", !.to = c.v, !.ret = "idle"])
  /\ UNCHANGED <<sched, program_running, hasnext, vertexlocks, force_stop, endgame_mode, signals,
                 handled, quit>>

set_endgame_mode(h, c) ==
  /\ Doing(h, "idle") /\ c.kind = "endgame" /\ c.at = Place[h]
  /\ calls' = calls \ {c}
  /\ endgame_mode' = [endgame_mode EXCEPT ![c.at] = TRUE]
  /\ UNCHANGED <<schedVars, vertexVars, force_stop, signals, handled, quit>>

(* A request of a fiber to visit the edges that a mirror has.                   *)
VisitMirror(h, c, phase) ==
  /\ Doing(h, "idle") /\ c.kind = phase /\ c.at = Place[h]
  /\ calls' = calls \ {c}
  /\ Become(h, [agent[h] EXCEPT !.pc = "edges", !.phase = phase, !.v = c.v, !.from = c.from,
                                !.edges = EdgesAt(c.at, c.v)])
  /\ UNCHANGED <<sched, vertexVars, force_stop, endgame_mode, signals, handled, quit>>

perform_gather(h, c) == VisitMirror(h, c, "gather")

(* The data of the mirror are updated first, under its lock.                    *)
perform_scatter(h, c) ==
  /\ VisitMirror(h, c, "scatter")
  /\ vertexlocks[c.at][c.v] = "free"

(* The reply to the fiber that asked for it.                                    *)
Answer(h) ==
  /\ h \in EngineHandler /\ Doing(h, "edges") /\ agent[h].edges = {}
  /\ agent' = [agent EXCEPT ![h].pc = "idle", ![agent[h].from].replies = @ \ {Place[h]}]
  /\ UNCHANGED <<sched, vertexVars, worldVars>>
-----------------------------------------------------------------------------
EngineDone == quit

EngineNext ==
  \/ \E f \in EngineFiber :
       \/ get_next(f) \/ Steal(f) \/ get_next_sched_task(f)
       \/ try_to_quit(f) \/ begin_done_critical_section(f) \/ cancel_critical_section(f)
       \/ end_done_critical_section(f) \/ Leave(f)
       \/ Forward(f) \/ get_exclusive_access_to_vertex(f)
       \/ Gather(f) \/ Apply(f) \/ release_exclusive_access_to_vertex(f) \/ ReleaseNext(f)
  \/ \E a \in EngineAgent :
       \/ Schedule(a) \/ Push(a) \/ cancel(a) \/ WakeSleepers(a)
       \/ LockFirst(a) \/ LockSecond(a) \/ internal_signal(a) \/ Unlock(a)
  \/ \E h \in EngineHandler :
       \/ \E c \in calls : \/ rpc_signal(h, c) \/ set_endgame_mode(h, c)
                          \/ perform_gather(h, c) \/ perform_scatter(h, c)
       \/ Answer(h)
  \/ Consensus

EngineSpec == EngineInit /\ [][EngineNext]_engineVars
-----------------------------------------------------------------------------
EngineTypeOK ==
  /\ \A m \in Machine : sched[m].bits \subseteq Vid /\ messages[m] \in [Vid -> SUBSET (1..signals)]
  /\ program_running \subseteq Vid /\ hasnext \subseteq Vid
  /\ signals \in NumVids..(NumVids + MaxSignals) /\ handled \subseteq 1..signals

(* A fiber runs a program between get_exclusive and release_exclusive_access.   *)
Outside == {"next", "steal", "get", "try", "begin", "lock", "empty", "checked", "eval", "sleep",
            "woken", "left"}
InProgram(f) == agent[f].pc \notin Outside

(* A vertex program never runs twice at a time, however many fibers get the     *)
(* vertex from the scheduler, and a message left behind for the next run (flag  *)
(* hasnext) always has a running program that will schedule it.                 *)
OneProgram ==
  /\ \A f, g \in EngineFiber : InProgram(f) /\ InProgram(g) /\ f # g => agent[f].v # agent[g].v
  /\ \A v \in hasnext : \E f \in EngineFiber : InProgram(f) /\ agent[f].v = v

Sent == Signalled \cup (NumVids + 1)..signals
Places(s) ==
  Cardinality({b \in Machine \X Vid : s \in messages[b[1]][b[2]]})
  + Cardinality({c \in calls : s \in c.msg}) + Cardinality({a \in EngineAgent : s \in agent[a].msg})
  + (IF s \in handled THEN 1 ELSE 0)

QueuesEmpty(m) ==
  /\ sched[m].master = <<>> /\ \A q \in InQueue : sched[m].in[q] = <<>>
  /\ \A c \in Cpus : sched[m].out[c] = <<>>

(* Unless the engine was stopped, a signal is in one message box, call or hand  *)
(* until a program was started with it, exactly once; and start() returns only  *)
(* when all were, with the scheduler empty (ASSERT_TRUE(scheduler_ptr->empty())).*)
SignalsKept ==
  (\A m \in Machine : ~force_stop[m]) =>
    /\ \A s \in Sent : Places(s) = 1
    /\ quit => handled = Sent /\ \A m \in Machine : QueuesEmpty(m)

(* The assertion at the end of start(): "ASSERT_TRUE(scheduler_ptr->empty())".  *)
SchedulerEmpty == quit => \A m \in Machine : QueuesEmpty(m)
=============================================================================

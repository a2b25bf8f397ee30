------------------------- MODULE AsyncConsensusProofs -------------------------
(***************************************************************************)
(* Theorems about AsyncConsensus, for every number of processes, threads    *)
(* and handlers and every number of tasks, calls and runs.                  *)
(***************************************************************************)
EXTENDS AsyncConsensus, FiniteSetTheorems, TLAPS

\* The threads of a process are finitely many.
LEMMA ThreadsFinite ==
  ASSUME NEW p
  PROVE  /\ IsFiniteSet(ThreadsOf(p)) /\ ncpus(p) \in Nat
         /\ \A S \in SUBSET ThreadsOf(p) : IsFiniteSet(S) /\ Cardinality(S) \in Nat
<1>1. IsFiniteSet(Thread)
  BY ConsensusAssumption
<1>2. ThreadsOf(p) \subseteq Thread
  BY DEF ThreadsOf
<1>3. \A S \in SUBSET Thread : IsFiniteSet(S) /\ Cardinality(S) \in Nat
  BY <1>1, FS_Subset, FS_CardinalityType
<1> QED
  BY <1>2, <1>3 DEF ncpus

\* The next process of the ring is a process.
LEMMA RingClosed ==
  /\ 0 \in Proc /\ N - 1 \in Proc
  /\ \A p \in Proc : (p + 1) % N \in Proc
<1>1. N \in Nat \ {0}
  BY ConsensusAssumption
<1>2. 0 \in Proc /\ N - 1 \in Proc
  BY <1>1 DEF Proc
<1>3. ASSUME NEW p \in Proc PROVE (p + 1) % N \in Proc
  <2>1. p + 1 \in Int
    BY <1>1 DEF Proc
  <2>2. (p + 1) % N \in 0..(N - 1)
    BY <1>1, <2>1
  <2> QED BY <2>2 DEF Proc
<1> QED
  BY <1>2, <1>3

LEMMA TypeInit == Init => TypeOK
<1> SUFFICES ASSUME Init PROVE TypeOK
  OBVIOUS
<1>1. \A p \in Proc : ncpus(p) \in Nat
  BY ThreadsFinite
<1>2. FirstToken \in Token
  BY RingClosed DEF FirstToken, Token
<1>3. Prior \in [Proc -> Nat] /\ InitWork \in [Proc -> Nat] /\ MaxOrders \in Nat
  BY ConsensusAssumption
<1> QED
  BY <1>1, <1>2, <1>3 DEF Init, TypeOK, Label

\* A step of a thread keeps the types.
LEMMA TypeThread ==
  ASSUME TypeOK, NEW t \in Thread, ThreadStep(t)
  PROVE  TypeOK'
<1>0. t \in Agent /\ At[t] \in Proc /\ Prior \in [Proc -> Nat] /\ MaxOrders \in Nat
  BY ConsensusAssumption DEF Agent
<1> USE <1>0 DEF TypeOK, Goto, locals, queues, tokens, Label, Holding
<1>1. CASE TakeTask(t)
  BY <1>1 DEF TakeTask, HasTask
<1>2. CASE BeginDone(t)
  BY <1>2 DEF BeginDone
<1>3. CASE EnterCriticalSection(t)
  BY <1>3 DEF EnterCriticalSection
<1>4. CASE CheckAgain(t)
  BY <1>4 DEF CheckAgain, HasTask
<1>5. CASE EndDone(t)
  <2>1. sleeping \in [Thread -> BOOLEAN]
    OBVIOUS
  <2>2. sleeping' = sleeping \/ sleeping' = [sleeping EXCEPT ![t] = TRUE]
    BY <1>5, Zenon DEF EndDone
  <2>3. sleeping' \in [Thread -> BOOLEAN]
    BY Zenon, <2>1, <2>2
  <2>4. numactive' \in [Proc -> Int]
    BY <1>5 DEF EndDone
  <2> QED BY <1>5, <2>3, <2>4 DEF EndDone
<1>6. CASE WakeUp(t)
  BY <1>6 DEF WakeUp
<1>7. CASE TaskQueues(t)
  <2>1. PICK W \in SUBSET Thread : Cancel(t, W, "task")
    BY <1>7, Zenon DEF TaskQueues, QueueTask, ThreadsOf
  <2>2. /\ pc' \in [Agent -> Label] /\ after' \in [Agent -> {"task", "count", "idle"}]
        /\ wake' \in [Agent -> SUBSET Thread]
    BY <2>1 DEF Cancel
  <2>3. work' \in [Proc -> Nat] /\ orders' \in 0..MaxOrders
    BY <1>7 DEF TaskQueues, QueueTask, Order
  <2> QED BY <1>7, <2>2, <2>3 DEF TaskQueues
<1>8. CASE TaskEnds(t)
  BY <1>8 DEF TaskEnds
<1>9. CASE \E q \in Proc : TaskSends(t, q)
  BY <1>9 DEF TaskSends, SendCall, Order
<1> QED
  BY <1>1, <1>2, <1>3, <1>4, <1>5, <1>6, <1>7, <1>8, <1>9 DEF ThreadStep

\* A step of a handler keeps the types.
LEMMA TypeHandler ==
  ASSUME TypeOK, NEW h \in Handler, HandlerStep(h)
  PROVE  TypeOK'
<1>0. h \in Agent /\ At[h] \in Proc /\ MaxOrders \in Nat
  BY ConsensusAssumption DEF Agent
<1> USE <1>0 DEF TypeOK, Goto, locals, queues, tokens, Label, Holding
<1>1. CASE ReceiveTheToken(h)
  BY <1>1 DEF ReceiveTheToken
<1>2. CASE ForceDone(h)
  BY <1>2 DEF ForceDone, Cancel, ThreadsOf
<1>3. CASE ReceiveCall(h)
  BY <1>3 DEF ReceiveCall
<1>4. CASE HandlerQueues(h)
  BY <1>4 DEF HandlerQueues, QueueTask, Cancel, ThreadsOf
<1>5. CASE CountCall(h)
  BY <1>5 DEF CountCall
<1>6. CASE \E q \in Proc : HandlerForwards(h, q)
  BY <1>6 DEF HandlerForwards, SendCall, Order
<1> QED
  BY <1>1, <1>2, <1>3, <1>4, <1>5, <1>6 DEF HandlerStep

\* The end of pass_the_token keeps the type of sleeping.
LEMMA PassReturnsType ==
  ASSUME NEW a \in Agent, PassReturns(a), sleeping \in [Thread -> BOOLEAN]
  PROVE  sleeping' \in [Thread -> BOOLEAN]
<1>1. sleeping' = [t \in Thread |-> IF t = a THEN TRUE
                                   ELSE sleeping[t] /\ ~(done'[At[a]] /\ At[t] = At[a])]
  BY Zenon DEF PassReturns
<1>2. \A t \in Thread : (IF t = a THEN TRUE
                           ELSE sleeping[t] /\ ~(done'[At[a]] /\ At[t] = At[a])) \in BOOLEAN
  BY Zenon
<1> QED
  BY <1>1, <1>2, Zenon

\* A step of pass_the_token, cancel() or cancel_one() keeps the types.
LEMMA TypeAgent ==
  ASSUME TypeOK, NEW a \in Agent, AgentStep(a)
  PROVE  TypeOK'
<1>0. At[a] \in Proc
  BY ConsensusAssumption
<1> DEFINE p == At[a]
<1>a. Cardinality(Asleep(p)) \in Nat /\ Cardinality(wake[a] \cap Asleep(p)) \in Nat
  BY ThreadsFinite DEF Asleep
<1> USE <1>0 DEF TypeOK, Goto, locals, queues, tokens, Label, Holding
<1>1. CASE PassCompleted(a)
  <2>1. sleeping' \in [Thread -> BOOLEAN]
    BY <1>1, PassReturnsType DEF PassCompleted
  <2>2. numactive' \in [Proc -> Int]
    BY <1>1, <1>a DEF PassCompleted
  <2>3. done' \in [Proc -> BOOLEAN] /\ forced' \subseteq Proc
    BY <1>1 DEF PassCompleted
  <2> QED BY Zenon, <1>1, <2>1, <2>2, <2>3 DEF PassCompleted, PassReturns
<1>2. CASE PassReadReceived(a)
  BY <1>2 DEF PassReadReceived
<1>3. CASE PassSend(a)
  <2>1. Updated(p, calls_sent[p], callsrecv[a]) \in Token
    BY DEF Updated, Token
  <2>2. (p + 1) % N \in Proc
    BY RingClosed
  <2>3. sleeping' \in [Thread -> BOOLEAN]
    BY <1>3, PassReturnsType DEF PassSend
  <2>4. hastoken' \in [Proc -> BOOLEAN]
    BY <1>3 DEF PassSend, TokenGone
  <2>5. token' \subseteq [to : Proc, tok : Token]
    BY <1>3, <2>1, <2>2 DEF PassSend
  <2>6. cur_token' \in [Proc -> Token]
    BY <1>3, <2>1 DEF PassSend
  <2> QED BY Zenon, <1>3, <2>3, <2>4, <2>5, <2>6 DEF PassSend, PassReturns
<1>4. CASE CancelLook(a)
  BY SMTT(30), <1>4 DEF CancelLook, Return
<1>5. CASE CancelWake(a)
  BY <1>5, <1>a DEF CancelWake, Return, Counted
<1> QED
  BY <1>1, <1>2, <1>3, <1>4, <1>5 DEF AgentStep

LEMMA TypeRestart ==
  ASSUME TypeOK, Restart
  PROVE  TypeOK'
<1>1. \A p \in Proc : ncpus(p) \in Nat
  BY ThreadsFinite
<1>2. FirstToken \in Token
  BY RingClosed DEF FirstToken, Token
<1>3. InitWork \in [Proc -> Nat] /\ MaxOrders \in Nat
  BY ConsensusAssumption
<1> QED
  BY <1>1, <1>2, <1>3 DEF Restart, TypeOK, locals, Label

LEMMA TypeNext ==
  ASSUME TypeOK, [Next]_vars
  PROVE  TypeOK'
<1>1. CASE Finished \/ UNCHANGED vars
  BY <1>1 DEF TypeOK, Finished, vars
<1> QED
  BY <1>1, TypeThread, TypeHandler, TypeAgent, TypeRestart DEF Next

\* Every counter, flag and pc of async_consensus keeps its type.
THEOREM TypeCorrect == Spec => []TypeOK
<1>1. TypeOK /\ [Next]_vars => TypeOK'
  BY TypeNext
<1> QED
  BY TypeInit, <1>1, PTL DEF Spec

-----------------------------------------------------------------------------
(* No lost wakeup.                                                           *)

\* A thread that will look at the queue again, without anybody's help.
Awake(t) == \/ pc[t] \in {"run", "task", "begin", "check", "cancel", "waking"}
            \/ pc[t] = "sleep" /\ ~sleeping[t]

Cancelling(a) == pc[a] \in {"cancel", "waking"}

\* A handler that has queued a task and has not yet woken whom it should.
Queuing(h) == Cancelling(h) /\ after[h] = "count"

\* A thread or a handler of process p that will look at the queue, or wake a
\* thread that does.
SomebodyCares(p) == \/ \E t \in ThreadsOf(p) : Awake(t)
                    \/ \E h \in Handler : At[h] = p /\ Queuing(h)

\* Threads and handlers go through their own pcs; cancel() is always about threads
\* of its process; only a thread in the wait, or one that left, is marked sleeping;
\* threads leave only when done is set.
PcInv ==
  /\ \A t \in Thread : pc[t] \in {"run", "task", "begin", "sleep", "left", "cancel",
                                  "waking"} \cup Holding
  /\ \A h \in Handler : pc[h] \in {"idle", "handle", "count", "cancel", "waking",
                                   "passing", "sending"}
  /\ \A a \in Agent : Cancelling(a) => /\ wake[a] \subseteq ThreadsOf(At[a])
                                       /\ wake[a] # {}
                                       /\ after[a] = "task" <=> a \in Thread
  /\ \A t \in Thread : sleeping[t] => pc[t] \in {"sleep", "left"}
  /\ \A t \in Thread : pc[t] = "left" => done[At[t]]

\* A queue that is not empty is somebody's concern.
QueueInv ==
  \A p \in Proc : work[p] > 0 /\ ~done[p] => SomebodyCares(p)

SleepInv == TypeOK /\ PcInv /\ QueueInv

LEMMA PcInit == Init => PcInv
  BY ConsensusAssumption DEF Init, PcInv, Cancelling, Holding, Agent

\* Calling cancel() or cancel_one() for threads of the process preserves PcInv.
LEMMA PcCancel ==
  ASSUME TypeOK, PcInv, NEW a \in Agent, NEW W \in SUBSET ThreadsOf(At[a]), W # {},
         NEW l, l = "task" <=> a \in Thread, Cancel(a, W, l),
         pc[a] \notin {"sleep", "left"}, UNCHANGED sleeping,
         \A p \in Proc : done[p] => done'[p]
  PROVE  PcInv'
<1>a. /\ \A x \in Thread : x \in Agent /\ x \notin Handler /\ At[x] \in Proc
      /\ \A x \in Handler : x \in Agent /\ x \notin Thread
  BY ConsensusAssumption DEF Agent
<1>b. /\ pc \in [Agent -> Label] /\ after \in [Agent -> {"task", "count", "idle"}]
      /\ wake \in [Agent -> SUBSET Thread]
  BY DEF TypeOK
<1>c. /\ pc' = [pc EXCEPT ![a] = "cancel"]
      /\ after' = [after EXCEPT ![a] = l] /\ wake' = [wake EXCEPT ![a] = W]
  BY Zenon DEF Cancel, Goto
<1>1. \A t \in Thread : pc'[t] \in {"run", "task", "begin", "sleep", "left", "cancel",
                                    "waking"} \cup Holding
  BY <1>a, <1>b, <1>c DEF PcInv
<1>2. \A h \in Handler : pc'[h] \in {"idle", "handle", "count", "cancel", "waking",
                                     "passing", "sending"}
  BY <1>a, <1>b, <1>c DEF PcInv
<1>3. ASSUME NEW b \in Agent, Cancelling(b)'
      PROVE  /\ wake'[b] \subseteq ThreadsOf(At[b]) /\ wake'[b] # {}
             /\ after'[b] = "task" <=> b \in Thread
  <2>1. CASE b = a
    BY <1>b, <1>c, <2>1
  <2>2. CASE b # a
    BY <1>b, <1>c, <1>3, <2>2 DEF PcInv, Cancelling
  <2> QED BY <2>1, <2>2
<1>4. \A t \in Thread : sleeping'[t] => pc'[t] \in {"sleep", "left"}
  BY <1>a, <1>b, <1>c DEF PcInv
<1>5. \A t \in Thread : pc'[t] = "left" => done'[At[t]]
  BY <1>a, <1>b, <1>c DEF PcInv
<1> QED
  BY <1>1, <1>2, <1>3, <1>4, <1>5 DEF PcInv, ThreadsOf

\* So does queueing a task.
LEMMA PcQueueTask ==
  ASSUME TypeOK, PcInv, NEW a \in Agent, NEW l, l = "task" <=> a \in Thread,
         QueueTask(a, l), pc[a] \notin {"sleep", "left"}, UNCHANGED <<sleeping, done>>
  PROVE  PcInv'
<1>1. ThreadsOf(At[a]) # {}
  BY ConsensusAssumption DEF ThreadsOf
<1>2. PICK W \in SUBSET ThreadsOf(At[a]) : W # {} /\ Cancel(a, W, l)
  BY <1>1, Zenon DEF QueueTask
<1> QED
  BY <1>2, PcCancel

\* So does a step of an agent to another label that is not inside cancel().
LEMMA PcGoto ==
  ASSUME TypeOK, PcInv, NEW a \in Agent, NEW l, pc' = [pc EXCEPT ![a] = l],
         after' = after, wake' = wake, done' = done,
         l \notin {"cancel", "waking"} \/ Cancelling(a),
         a \in Thread => l \in {"run", "task", "begin", "sleep", "left", "cancel",
                                "waking"} \cup Holding,
         a \in Handler => l \in {"idle", "handle", "count", "cancel", "waking",
                                 "passing", "sending"},
         \A x \in Thread : x # a /\ sleeping'[x] => sleeping[x],
         a \in Thread /\ sleeping'[a] => l \in {"sleep", "left"},
         a \in Thread /\ l = "left" => done[At[a]]
  PROVE  PcInv'
<1>1. pc \in [Agent -> Label] /\ Thread \subseteq Agent /\ Handler \subseteq Agent
  BY Zenon DEF TypeOK, Agent
<1>2. pc'[a] = l /\ \A x \in Agent : x # a => pc'[x] = pc[x]
  BY Zenon, <1>1
<1>3. \A t \in Thread : pc'[t] \in {"run", "task", "begin", "sleep", "left", "cancel",
                                    "waking"} \cup Holding
  BY Zenon, <1>1, <1>2 DEF PcInv
<1>4. \A h \in Handler : pc'[h] \in {"idle", "handle", "count", "cancel", "waking",
                                     "passing", "sending"}
  BY Zenon, <1>1, <1>2 DEF PcInv
<1>5. ASSUME NEW b \in Agent, Cancelling(b)' PROVE Cancelling(b)
  BY Zenon, <1>2, <1>5 DEF Cancelling
<1>6. ASSUME NEW b \in Agent, Cancelling(b)'
      PROVE  /\ wake'[b] \subseteq ThreadsOf(At[b]) /\ wake'[b] # {}
             /\ after'[b] = "task" <=> b \in Thread
  BY Zenon, <1>5, <1>6 DEF PcInv
<1>7. \A t \in Thread : sleeping'[t] => pc'[t] \in {"sleep", "left"}
  BY Zenon, <1>1, <1>2 DEF PcInv
<1>8. \A t \in Thread : pc'[t] = "left" => done'[At[t]]
  BY Zenon, <1>1, <1>2 DEF PcInv
<1> QED
  BY ZenonT(40), <1>3, <1>4, <1>6, <1>7, <1>8 DEF PcInv, ThreadsOf

\* A step of a thread preserves PcInv.
LEMMA PcThread ==
  ASSUME TypeOK, PcInv, NEW t \in Thread, ThreadStep(t)
  PROVE  PcInv'
<1>0. t \in Agent /\ t \notin Handler /\ At[t] \in Proc
  BY Zenon, ConsensusAssumption DEF Agent
<1>c. sleeping \in [Thread -> BOOLEAN]
  BY Zenon DEF TypeOK
<1>d. sleeping[t] => pc[t] \in {"sleep", "left"}
  BY Zenon DEF PcInv
<1>1. CASE TakeTask(t)
  <2>1. /\ pc' = [pc EXCEPT ![t] = "task"] /\ sleeping' = sleeping /\ done' = done
        /\ after' = after /\ wake' = wake /\ ~sleeping[t]
    BY Zenon, <1>1, <1>d DEF TakeTask, Goto, locals
  <2> QED BY Zenon, <1>0, <2>1, PcGoto
<1>2. CASE BeginDone(t)
  <2>1. /\ pc' = [pc EXCEPT ![t] = "begin"] /\ sleeping' = sleeping /\ done' = done
        /\ after' = after /\ wake' = wake /\ ~sleeping[t]
    BY Zenon, <1>2, <1>d DEF BeginDone, Goto, locals
  <2> QED BY Zenon, <1>0, <2>1, PcGoto
<1>3. CASE EnterCriticalSection(t)
  <2>1. /\ pc' = [pc EXCEPT ![t] = "check"] /\ sleeping' = sleeping /\ done' = done
        /\ after' = after /\ wake' = wake /\ ~sleeping[t]
    BY Zenon, <1>3, <1>d DEF EnterCriticalSection, Goto, locals
  <2> QED BY Zenon, <1>0, <2>1, PcGoto DEF Holding
<1>4. CASE CheckAgain(t)
  <2>1. /\ \E l \in {"task", "ending"} : pc' = [pc EXCEPT ![t] = l]
        /\ sleeping' = sleeping /\ done' = done /\ after' = after /\ wake' = wake
        /\ ~sleeping[t]
    BY Zenon, <1>4, <1>d DEF CheckAgain, Goto, locals
  <2> QED BY Zenon, <1>0, <2>1, PcGoto DEF Holding
<1>5. CASE EndDone(t)
  <2>1. done' = done /\ after' = after /\ wake' = wake /\ ~sleeping[t]
    BY Zenon, <1>5, <1>d DEF EndDone, locals
  <2>2. CASE done[At[t]] /\ Goto(t, "left") /\ sleeping' = sleeping
    BY Zenon, <1>0, <2>1, <2>2, PcGoto DEF Goto
  <2>3. CASE Goto(t, "passing") /\ sleeping' = sleeping
    BY Zenon, <1>0, <2>1, <2>3, PcGoto DEF Goto, Holding
  <2>4. CASE Goto(t, "sleep") /\ sleeping' = [sleeping EXCEPT ![t] = TRUE]
    <3>1. \A x \in Thread : x # t => sleeping'[x] = sleeping[x]
      BY Zenon, <1>c, <2>4
    <3> QED BY Zenon, <1>0, <2>1, <2>4, <3>1, PcGoto DEF Goto
  <2> QED BY Zenon, <1>5, <2>2, <2>3, <2>4 DEF EndDone
<1>6. CASE WakeUp(t)
  <2>1. /\ pc' = [pc EXCEPT ![t] = IF done[At[t]] THEN "left" ELSE "run"]
        /\ sleeping' = sleeping /\ done' = done /\ after' = after /\ wake' = wake
        /\ ~sleeping[t] \/ done[At[t]]
    BY Zenon, <1>6 DEF WakeUp, Goto, locals
  <2>2. CASE done[At[t]]
    <3>1. pc' = [pc EXCEPT ![t] = "left"]
      BY Zenon, <2>1, <2>2
    <3> QED BY Zenon, <1>0, <2>1, <2>2, <3>1, PcGoto
  <2>3. CASE ~done[At[t]]
    <3>1. pc' = [pc EXCEPT ![t] = "run"]
      BY Zenon, <2>1, <2>3
    <3> QED BY Zenon, <1>0, <2>1, <2>3, <3>1, PcGoto
  <2> QED BY Zenon, <2>2, <2>3
<1>7. CASE TaskQueues(t)
  <2>1. QueueTask(t, "task") /\ pc[t] = "task" /\ UNCHANGED <<sleeping, done>>
    BY <1>7, Zenon DEF TaskQueues
  <2> QED BY Zenon, <1>0, <2>1, PcQueueTask
<1>8. CASE TaskEnds(t)
  <2>1. /\ pc' = [pc EXCEPT ![t] = "run"] /\ sleeping' = sleeping /\ done' = done
        /\ after' = after /\ wake' = wake /\ ~sleeping[t]
    BY Zenon, <1>8, <1>d DEF TaskEnds, Goto, locals
  <2> QED BY Zenon, <1>0, <2>1, PcGoto
<1>9. CASE \E q \in Proc : TaskSends(t, q)
  <2>1. UNCHANGED <<pc, after, wake, sleeping, done>>
    BY Zenon, <1>9 DEF TaskSends, locals
  <2> QED BY Zenon, <2>1 DEF PcInv, Cancelling, ThreadsOf
<1> QED
  BY Zenon, <1>1, <1>2, <1>3, <1>4, <1>5, <1>6, <1>7, <1>8, <1>9 DEF ThreadStep

\* A step of a handler preserves PcInv.
LEMMA PcHandler ==
  ASSUME TypeOK, PcInv, NEW h \in Handler, HandlerStep(h)
  PROVE  PcInv'
<1>0. h \in Agent /\ h \notin Thread /\ At[h] \in Proc
  BY ConsensusAssumption DEF Agent
<1>2. CASE ForceDone(h)
  <2>1. /\ Cancel(h, ThreadsOf(At[h]), "idle") /\ pc[h] = "idle"
        /\ UNCHANGED sleeping
    BY <1>2, Zenon DEF ForceDone
  <2>2. ThreadsOf(At[h]) # {}
    BY <1>0, ConsensusAssumption DEF ThreadsOf
  <2>3. \A p \in Proc : done[p] => done'[p]
    BY <1>2 DEF ForceDone, TypeOK
  <2> QED BY <1>0, <2>1, <2>2, <2>3, PcCancel
<1>4. CASE HandlerQueues(h)
  <2>1. QueueTask(h, "count") /\ pc[h] = "handle" /\ UNCHANGED <<sleeping, done>>
    BY <1>4, Zenon DEF HandlerQueues
  <2> QED BY <1>0, <2>1, PcQueueTask
<1>1. CASE ReceiveTheToken(h)
  <2>1. /\ \E l \in {"passing", "idle"} : pc' = [pc EXCEPT ![h] = l]
        /\ sleeping' = sleeping /\ done' = done /\ after' = after /\ wake' = wake
    BY Zenon, <1>1 DEF ReceiveTheToken, Goto, locals
  <2> QED BY Zenon, <1>0, <2>1, PcGoto
<1>3. CASE ReceiveCall(h)
  <2>1. /\ \E l \in {"handle"} : pc' = [pc EXCEPT ![h] = l]
        /\ sleeping' = sleeping /\ done' = done /\ after' = after /\ wake' = wake
    BY Zenon, <1>3 DEF ReceiveCall, Goto, locals
  <2> QED BY Zenon, <1>0, <2>1, PcGoto
<1>5. CASE CountCall(h)
  <2>1. /\ \E l \in {"idle"} : pc' = [pc EXCEPT ![h] = l]
        /\ sleeping' = sleeping /\ done' = done /\ after' = after /\ wake' = wake
    BY Zenon, <1>5 DEF CountCall, Goto, locals
  <2> QED BY Zenon, <1>0, <2>1, PcGoto
<1>6. CASE \E q \in Proc : HandlerForwards(h, q)
  <2>1. /\ \E l \in {"count"} : pc' = [pc EXCEPT ![h] = l]
        /\ sleeping' = sleeping /\ done' = done /\ after' = after /\ wake' = wake
    BY Zenon, <1>6 DEF HandlerForwards, Goto, locals
  <2> QED BY Zenon, <1>0, <2>1, PcGoto
<1> QED
  BY Zenon, <1>1, <1>2, <1>3, <1>4, <1>5, <1>6 DEF HandlerStep

\* The end of pass_the_token preserves PcInv.
LEMMA PcPassReturns ==
  ASSUME TypeOK, PcInv, NEW a \in Agent, PassReturns(a), UNCHANGED locals,
         pc[a] \in {"passing", "sending"}, \A p \in Proc : done[p] => done'[p]
  PROVE  PcInv'
<1>a. /\ \A x \in Thread : x \in Agent /\ x \notin Handler /\ At[x] \in Proc
      /\ \A x \in Handler : x \in Agent /\ x \notin Thread
  BY ConsensusAssumption DEF Agent
<1>b. pc \in [Agent -> Label] /\ sleeping \in [Thread -> BOOLEAN]
  BY DEF TypeOK
<1> USE <1>a, <1>b DEF PassReturns, Goto, PcInv, Holding
<1>1. \A t \in Thread : pc'[t] \in {"run", "task", "begin", "sleep", "left", "cancel",
                                    "waking"} \cup Holding
  OBVIOUS
<1>2. \A h \in Handler : pc'[h] \in {"idle", "handle", "count", "cancel", "waking",
                                     "passing", "sending"}
  OBVIOUS
<1>3. ASSUME NEW b \in Agent, Cancelling(b)'
      PROVE  /\ wake'[b] \subseteq ThreadsOf(At[b]) /\ wake'[b] # {}
             /\ after'[b] = "task" <=> b \in Thread
  <2>1. pc'[b] \in {"cancel", "waking"}
    BY <1>3 DEF Cancelling
  <2>2. b # a /\ pc'[b] = pc[b]
    BY <2>1
  <2>3. Cancelling(b)
    BY Zenon, <2>1, <2>2 DEF Cancelling
  <2> QED BY Zenon, <2>3 DEF locals
<1>4. \A t \in Thread : sleeping'[t] => pc'[t] \in {"sleep", "left"}
  OBVIOUS
<1>5. \A t \in Thread : pc'[t] = "left" => done'[At[t]]
  OBVIOUS
<1> QED
  BY Zenon, <1>1, <1>2, <1>3, <1>4, <1>5 DEF ThreadsOf

\* cancel() and cancel_one() return to where they were called.
LEMMA PcReturn ==
  ASSUME TypeOK, PcInv, NEW a \in Agent, Return(a), Cancelling(a), UNCHANGED done,
         sleeping' \in [Thread -> BOOLEAN], \A t \in Thread : sleeping'[t] => sleeping[t]
  PROVE  PcInv'
<1>a. /\ \A x \in Thread : x \in Agent /\ x \notin Handler /\ At[x] \in Proc
      /\ \A x \in Handler : x \in Agent /\ x \notin Thread
  BY ConsensusAssumption DEF Agent
<1>b. /\ pc \in [Agent -> Label] /\ after \in [Agent -> {"task", "count", "idle"}]
      /\ wake \in [Agent -> SUBSET Thread]
  BY DEF TypeOK
<1>c. /\ pc' = [pc EXCEPT ![a] = after[a]]
      /\ after' = [after EXCEPT ![a] = "idle"] /\ wake' = [wake EXCEPT ![a] = {}]
  BY Zenon DEF Return, Goto
<1>d. after[a] \in {"task", "count", "idle"} /\ (after[a] = "task" <=> a \in Thread)
  BY Zenon, <1>b DEF PcInv
<1>e. /\ pc'[a] = after[a] /\ \A x \in Agent : x # a => pc'[x] = pc[x]
      /\ \A x \in Agent : x # a => after'[x] = after[x] /\ wake'[x] = wake[x]
  BY Zenon, <1>b, <1>c
<1>1. \A t \in Thread : pc'[t] \in {"run", "task", "begin", "sleep", "left", "cancel",
                                    "waking"} \cup Holding
  BY Zenon, <1>a, <1>d, <1>e DEF PcInv
<1>2. \A h \in Handler : pc'[h] \in {"idle", "handle", "count", "cancel", "waking",
                                     "passing", "sending"}
  BY Zenon, <1>a, <1>d, <1>e DEF PcInv
<1>3. ASSUME NEW b \in Agent, Cancelling(b)'
      PROVE  /\ wake'[b] \subseteq ThreadsOf(At[b]) /\ wake'[b] # {}
             /\ after'[b] = "task" <=> b \in Thread
  <2>1. b # a
    <3>1. after[a] \notin {"cancel", "waking"}
      BY <1>d
    <3> QED BY Zenon, <1>e, <1>3, <3>1 DEF Cancelling
  <2>2. Cancelling(b)
    BY Zenon, <1>e, <1>3, <2>1 DEF Cancelling
  <2> QED BY Zenon, <1>e, <2>1, <2>2 DEF PcInv
<1>4. \A t \in Thread : sleeping'[t] => pc'[t] \in {"sleep", "left"}
  <2>1. a \in Thread => ~sleeping[a]
    BY Zenon DEF PcInv, Cancelling
  <2>2. ASSUME NEW t \in Thread, sleeping'[t] PROVE pc'[t] \in {"sleep", "left"}
    <3>1. sleeping[t] /\ t # a /\ t \in Agent
      BY Zenon, <1>a, <2>1, <2>2
    <3> QED BY Zenon, <1>e, <3>1 DEF PcInv
  <2> QED BY Zenon, <2>2
<1>5. \A t \in Thread : pc'[t] = "left" => done'[At[t]]
  BY Zenon, <1>a, <1>d, <1>e DEF PcInv
<1> QED
  BY Zenon, <1>1, <1>2, <1>3, <1>4, <1>5 DEF PcInv, ThreadsOf

\* A step of pass_the_token, cancel() or cancel_one() preserves PcInv.
LEMMA PcAgent ==
  ASSUME TypeOK, PcInv, NEW a \in Agent, AgentStep(a)
  PROVE  PcInv'
<1>a. sleeping \in [Thread -> BOOLEAN]
  BY DEF TypeOK
<1>1. CASE PassCompleted(a)
  <2>1. \A p \in Proc : done[p] => done'[p]
    BY <1>1 DEF PassCompleted, TypeOK
  <2>2. PassReturns(a) /\ UNCHANGED locals /\ pc[a] = "passing"
    BY <1>1, Zenon DEF PassCompleted
  <2> QED BY <2>1, <2>2, PcPassReturns
<1>2. CASE PassReadReceived(a)
  <2>1. pc' = [pc EXCEPT ![a] = "sending"] /\ pc[a] = "passing"
    BY <1>2, Zenon DEF PassReadReceived, Goto
  <2>2. sleeping' = sleeping /\ done' = done /\ after' = after /\ wake' = wake
    BY Zenon, <1>2 DEF PassReadReceived
  <2>3. a \in Thread => ~sleeping[a]
    BY Zenon, <2>1 DEF PcInv
  <2> QED BY Zenon, <2>1, <2>2, <2>3, PcGoto DEF Holding
<1>3. CASE PassSend(a)
  <2>1. PassReturns(a) /\ UNCHANGED <<done, locals>> /\ pc[a] = "sending"
    BY <1>3, Zenon DEF PassSend
  <2> QED BY <2>1, PcPassReturns
<1>4. CASE CancelLook(a)
  <2>1. Cancelling(a) /\ UNCHANGED <<done, sleeping>>
    BY Zenon, <1>4 DEF CancelLook, Cancelling
  <2>2. CASE Return(a)
    BY Zenon, <1>a, <2>1, <2>2, PcReturn
  <2>3. CASE Goto(a, "waking") /\ UNCHANGED <<after, wake>>
    <3>1. a \in Thread => ~sleeping[a]
      BY Zenon, <2>1 DEF PcInv, Cancelling
    <3> QED BY Zenon, <2>1, <2>3, <3>1, PcGoto DEF Goto
  <2> QED BY <1>4, <2>2, <2>3, Zenon DEF CancelLook
<1>5. CASE CancelWake(a)
  <2>1. Cancelling(a) /\ Return(a) /\ UNCHANGED done
    BY Zenon, <1>5 DEF CancelWake, Cancelling
  <2>2. /\ sleeping' \in [Thread -> BOOLEAN]
        /\ \A t \in Thread : sleeping'[t] => sleeping[t]
    <3>1. sleeping' = [t \in Thread |-> sleeping[t] /\ t \notin wake[a] \cap Asleep(At[a])]
      BY Zenon, <1>5 DEF CancelWake
    <3> QED BY Zenon, <3>1
  <2> QED BY Zenon, <2>1, <2>2, PcReturn
<1> QED
  BY Zenon, <1>1, <1>2, <1>3, <1>4, <1>5 DEF AgentStep

LEMMA PcRestart ==
  ASSUME TypeOK, PcInv, Restart
  PROVE  PcInv'
<1>1. /\ pc' = [a \in Agent |-> IF a \in Thread THEN "run" ELSE pc[a]]
      /\ sleeping' = [t \in Thread |-> FALSE] /\ UNCHANGED locals
  BY Zenon DEF Restart
<1>2. /\ \A x \in Thread : x \in Agent
      /\ \A x \in Handler : x \in Agent /\ x \notin Thread
  BY ConsensusAssumption DEF Agent
<1> QED
  BY <1>1, <1>2 DEF PcInv, locals, Cancelling, ThreadsOf

LEMMA PcNext ==
  ASSUME TypeOK, PcInv, [Next]_vars
  PROVE  PcInv'
<1>1. CASE Finished \/ UNCHANGED vars
  <2>1. UNCHANGED <<pc, after, wake, sleeping, done>>
    BY Zenon, <1>1 DEF Finished, vars, locals
  <2> QED BY Zenon, <2>1 DEF PcInv, Cancelling, ThreadsOf
<1> QED
  BY Zenon, <1>1, PcThread, PcHandler, PcAgent, PcRestart DEF Next

\* What a step leaves awake, or in cancel(), still cares.
LEMMA CaresKept ==
  ASSUME NEW p, SomebodyCares(p),
         \A t \in ThreadsOf(p) : Awake(t) => Awake(t)',
         \A h \in Handler : At[h] = p /\ Queuing(h) => Queuing(h)'
  PROVE  SomebodyCares(p)'
  BY DEF SomebodyCares, ThreadsOf

LEMMA QueueInit == Init => QueueInv
<1> SUFFICES ASSUME Init, NEW p \in Proc PROVE \E t \in ThreadsOf(p) : Awake(t)
  BY DEF QueueInv, SomebodyCares
<1>1. PICK t \in Thread : At[t] = p
  BY SMTT(20), ConsensusAssumption
<1> QED
  BY <1>1 DEF Init, Awake, ThreadsOf, Agent

\* A step of a thread leaves no task to sleeping threads.
LEMMA QueueThread ==
  ASSUME TypeOK, PcInv, QueueInv, NEW t \in Thread, ThreadStep(t)
  PROVE  QueueInv'
<1> SUFFICES ASSUME NEW p \in Proc, work'[p] > 0, ~done'[p]
             PROVE  SomebodyCares(p)'
  BY Zenon DEF QueueInv
<1>0. t \in Agent /\ t \notin Handler /\ At[t] \in Proc
  BY ConsensusAssumption DEF Agent
<1>a. /\ \A x \in Thread : x \in Agent
      /\ \A x \in Handler : x \in Agent /\ x # t
  BY <1>0, Zenon DEF Agent
<1>c. pc \in [Agent -> Label] /\ sleeping \in [Thread -> BOOLEAN] /\ work \in [Proc -> Nat]
  BY DEF TypeOK
<1>d. done' = done
  BY Zenon DEF ThreadStep, TakeTask, BeginDone, EnterCriticalSection, CheckAgain, EndDone,
               WakeUp, TaskQueues, TaskEnds, TaskSends
<1>e. work[p] > 0 => SomebodyCares(p)
  BY <1>d, Zenon DEF QueueInv
<1>g. \A x \in Handler : after'[x] = after[x]
  <2>1. after' = after \/ \E l : after' = [after EXCEPT ![t] = l]
    BY Zenon DEF ThreadStep, TakeTask, BeginDone, EnterCriticalSection, CheckAgain, EndDone,
                 WakeUp, TaskQueues, QueueTask, Cancel, TaskEnds, TaskSends, locals
  <2>2. after \in [Agent -> {"task", "count", "idle"}]
    BY DEF TypeOK
  <2> QED BY <1>a, <2>1, <2>2
<1>f. ASSUME NEW l, pc' = [pc EXCEPT ![t] = l] \/ pc' = pc, work[p] > 0,
             At[t] = p /\ Awake(t) => Awake(t)',
             \A x \in Thread : x # t => sleeping'[x] = sleeping[x]
      PROVE  SomebodyCares(p)'
  <2>1. \A x \in Agent : x # t => pc'[x] = pc[x]
    BY Zenon, <1>c, <1>f
  <2>2. \A x \in ThreadsOf(p) : Awake(x) => Awake(x)'
    BY <1>a, <1>f, <2>1 DEF Awake, ThreadsOf
  <2>3. \A x \in Handler : At[x] = p /\ Queuing(x) => Queuing(x)'
    BY <1>a, <1>g, <2>1, ZenonT(40) DEF Queuing, Cancelling
  <2> QED BY <1>e, <1>f, <2>2, <2>3, CaresKept, Zenon
<1>1. CASE TakeTask(t)
  <2>1. pc' = [pc EXCEPT ![t] = "task"] /\ UNCHANGED sleeping
    BY <1>1, Zenon DEF TakeTask, Goto
  <2>2. work[p] > 0
    <3>1. work' = [work EXCEPT ![At[t]] = @ - 1] /\ work[At[t]] > 0
      BY Zenon, <1>1 DEF TakeTask, HasTask
    <3> QED BY <1>0, <1>c, <3>1
  <2>3. Awake(t)'
    BY <1>0, <1>c, <2>1 DEF Awake
  <2> QED BY Zenon, <1>f, <2>1, <2>2, <2>3
<1>2. CASE BeginDone(t)
  <2>1. pc' = [pc EXCEPT ![t] = "begin"] /\ UNCHANGED <<sleeping, work>>
    BY <1>2 DEF BeginDone, Goto, queues
  <2>2. Awake(t)'
    BY <1>0, <1>c, <2>1 DEF Awake
  <2> QED BY Zenon, <1>f, <2>1, <2>2
<1>3. CASE EnterCriticalSection(t)
  <2>1. pc' = [pc EXCEPT ![t] = "check"] /\ UNCHANGED <<sleeping, work>>
    BY <1>3 DEF EnterCriticalSection, Goto, queues
  <2>2. Awake(t)'
    BY <1>0, <1>c, <2>1 DEF Awake
  <2> QED BY Zenon, <1>f, <2>1, <2>2
<1>4. CASE CheckAgain(t)
  <2>1. work[p] > 0 /\ (p = At[t] => HasTask(At[t])) /\ UNCHANGED sleeping
    BY <1>0, <1>c, <1>4 DEF CheckAgain, HasTask
  <2>2. PICK l : /\ pc' = [pc EXCEPT ![t] = l]
                 /\ HasTask(At[t]) => l = "task"
    BY <1>4 DEF CheckAgain, Goto
  <2>3. p = At[t] => Awake(t)'
    BY Zenon, <1>0, <1>c, <2>1, <2>2 DEF Awake
  <2> QED BY Zenon, <1>f, <2>1, <2>2, <2>3
<1>5. CASE EndDone(t)
  <2>1. work[p] > 0
    BY <1>5 DEF EndDone, queues
  <2>2. \E l : pc' = [pc EXCEPT ![t] = l]
    BY <1>5, Zenon DEF EndDone, Goto
  <2>3. \A x \in Thread : x # t => sleeping'[x] = sleeping[x]
    BY <1>c, <1>5 DEF EndDone
  <2>4. ~Awake(t)
    <3>1. pc[t] = "ending"
      BY Zenon, <1>5 DEF EndDone
    <3> QED BY <3>1 DEF Awake
  <2> QED BY ZenonT(40), <1>f, <2>1, <2>2, <2>3, <2>4
<1>6. CASE WakeUp(t)
  <2>1. work[p] > 0 /\ UNCHANGED sleeping
    BY Zenon, <1>6 DEF WakeUp, queues
  <2>2. PICK l : pc' = [pc EXCEPT ![t] = l] /\ (~done[At[t]] => l = "run")
    BY Zenon, <1>6 DEF WakeUp, Goto
  <2>3. p = At[t] => Awake(t)'
    BY <1>0, <1>c, <1>d, <2>2 DEF Awake
  <2> QED BY Zenon, <1>f, <2>1, <2>2, <2>3
<1>7. CASE TaskQueues(t)
  <2>1. pc' = [pc EXCEPT ![t] = "cancel"] /\ UNCHANGED sleeping
    BY <1>7, Zenon DEF TaskQueues, QueueTask, Cancel, Goto
  <2>2. Awake(t)'
    BY <1>0, <1>c, <2>1 DEF Awake
  <2>3. CASE p = At[t]
    BY <2>2, <2>3, Zenon DEF SomebodyCares, ThreadsOf
  <2>4. CASE p # At[t]
    <3>1. work[p] > 0
      BY <1>0, <1>c, <1>7, <2>4 DEF TaskQueues, QueueTask
    <3> QED BY Zenon, <1>f, <2>1, <2>2, <3>1
  <2> QED BY <2>3, <2>4
<1>8. CASE TaskEnds(t)
  <2>1. pc' = [pc EXCEPT ![t] = "run"] /\ UNCHANGED <<sleeping, work>>
    BY <1>8 DEF TaskEnds, Goto, queues
  <2>2. Awake(t)'
    BY <1>0, <1>c, <2>1 DEF Awake
  <2> QED BY Zenon, <1>f, <2>1, <2>2
<1>9. CASE \E q \in Proc : TaskSends(t, q)
  <2>1. UNCHANGED <<pc, sleeping, work>>
    BY <1>9 DEF TaskSends
  <2>2. Awake(t) => Awake(t)'
    BY <2>1, ZenonT(40) DEF Awake
  <2> QED BY <1>f, <2>1, <2>2
<1> QED
  BY <1>1, <1>2, <1>3, <1>4, <1>5, <1>6, <1>7, <1>8, <1>9, Zenon DEF ThreadStep

\* A step of a handler leaves no task to sleeping threads.
LEMMA QueueHandler ==
  ASSUME TypeOK, PcInv, QueueInv, NEW h \in Handler, HandlerStep(h)
  PROVE  QueueInv'
<1> SUFFICES ASSUME NEW p \in Proc, work'[p] > 0, ~done'[p]
             PROVE  SomebodyCares(p)'
  BY Zenon DEF QueueInv
<1>0. h \in Agent /\ h \notin Thread /\ At[h] \in Proc
  BY Zenon, ConsensusAssumption DEF Agent
<1>a. /\ \A x \in Thread : x \in Agent /\ x # h
      /\ \A x \in Handler : x \in Agent
  BY Zenon, <1>0 DEF Agent
<1>c. pc \in [Agent -> Label] /\ work \in [Proc -> Nat] /\ done \in [Proc -> BOOLEAN]
  BY DEF TypeOK
<1>d. UNCHANGED sleeping
  BY Zenon DEF HandlerStep, ReceiveTheToken, ForceDone, ReceiveCall, HandlerQueues,
         CountCall, HandlerForwards
<1>e. work[p] > 0 /\ ~done[p] => SomebodyCares(p)
  BY DEF QueueInv
<1>g. /\ \A x \in Handler : x # h => after'[x] = after[x]
      /\ HandlerQueues(h) => after'[h] = "count"
  <2>1. /\ after' = after \/ \E l : after' = [after EXCEPT ![h] = l]
        /\ HandlerQueues(h) => after' = [after EXCEPT ![h] = "count"]
    BY Zenon DEF HandlerStep, ReceiveTheToken, ForceDone, ReceiveCall, HandlerQueues,
                 CountCall, HandlerForwards, QueueTask, Cancel, locals
  <2>2. after \in [Agent -> {"task", "count", "idle"}]
    BY Zenon DEF TypeOK
  <2> QED BY <1>0, <1>a, <2>1, <2>2
<1> USE <1>0, <1>a, <1>c DEF Goto, Cancelling
<1>f. ASSUME NEW l, pc' = [pc EXCEPT ![h] = l], ~Cancelling(h), work[p] > 0, ~done[p]
      PROVE  SomebodyCares(p)'
  <2>1. \A x \in ThreadsOf(p) : Awake(x) => Awake(x)'
    BY <1>d, <1>f DEF Awake, ThreadsOf
  <2>2. \A x \in Handler : At[x] = p /\ Queuing(x) => Queuing(x)'
    BY <1>f, <1>g DEF Queuing
  <2> QED BY Zenon, <1>e, <1>f, <2>1, <2>2, CaresKept
<1>1. CASE ReceiveTheToken(h)
  BY Zenon, <1>1, <1>f DEF ReceiveTheToken, queues
<1>2. CASE ForceDone(h)
  BY Zenon, <1>2, <1>f DEF ForceDone, Cancel, queues
<1>3. CASE ReceiveCall(h)
  BY Zenon, <1>3, <1>f DEF ReceiveCall
<1>4. CASE HandlerQueues(h)
  <2>1. /\ pc' = [pc EXCEPT ![h] = "cancel"] /\ UNCHANGED done /\ after'[h] = "count"
        /\ ~Cancelling(h)
    BY <1>4, <1>g, Zenon DEF HandlerQueues, QueueTask, Cancel
  <2>2. CASE p = At[h]
    BY <2>1, <2>2 DEF SomebodyCares, Queuing
  <2>3. CASE p # At[h]
    <3>1. work[p] > 0
      BY <1>4, <2>3 DEF HandlerQueues, QueueTask
    <3> QED BY Zenon, <1>f, <2>1, <3>1
  <2> QED BY <2>2, <2>3
<1>5. CASE CountCall(h)
  BY Zenon, <1>5, <1>f DEF CountCall
<1>6. CASE \E q \in Proc : HandlerForwards(h, q)
  BY Zenon, <1>6, <1>f DEF HandlerForwards
<1> QED
  BY <1>1, <1>2, <1>3, <1>4, <1>5, <1>6 DEF HandlerStep

\* While cancel() goes on to the mutex, whoever cared for the queue still does.
LEMMA CaresWaking ==
  ASSUME NEW p, NEW a \in Agent, SomebodyCares(p), Cancelling(a),
         pc \in [Agent -> Label], Thread \subseteq Agent, Handler \subseteq Agent,
         pc' = [pc EXCEPT ![a] = "waking"], after' = after,
         \A x \in Thread : sleeping'[x] => sleeping[x]
  PROVE  SomebodyCares(p)'
<1>1. ASSUME NEW x \in ThreadsOf(p), Awake(x) PROVE Awake(x)'
  <2>1. CASE x = a
    BY <2>1 DEF Awake
  <2>2. CASE x # a
    <3>1. x \in Thread /\ pc'[x] = pc[x]
      BY <2>2 DEF ThreadsOf
    <3> QED BY <1>1, <3>1 DEF Awake
  <2> QED BY <2>1, <2>2
<1>2. ASSUME NEW x \in Handler, Queuing(x) PROVE Queuing(x)'
  <2>1. CASE x = a
    BY <1>2, <2>1 DEF Queuing, Cancelling
  <2>2. CASE x # a
    <3>1. pc'[x] = pc[x]
      BY <2>2
    <3> QED BY <1>2, <3>1 DEF Queuing, Cancelling
  <2> QED BY <2>1, <2>2
<1> QED BY <1>1, <1>2, CaresKept

\* A return from cancel() disturbs nobody but the agent that called it.
LEMMA OthersReturn ==
  ASSUME NEW a \in Agent, Return(a), pc \in [Agent -> Label],
         after \in [Agent -> {"task", "count", "idle"}],
         Thread \subseteq Agent, Handler \subseteq Agent,
         \A x \in Thread : sleeping'[x] => sleeping[x]
  PROVE  /\ \A x \in Thread : x # a /\ Awake(x) => Awake(x)'
         /\ \A x \in Handler : x # a /\ Queuing(x) => Queuing(x)'
<1>1. ASSUME NEW x \in Agent, x # a PROVE pc'[x] = pc[x] /\ after'[x] = after[x]
  BY <1>1 DEF Return, Goto
<1>2. ASSUME NEW x \in Thread, x # a, Awake(x) PROVE Awake(x)'
  BY <1>1, <1>2 DEF Awake
<1>3. ASSUME NEW x \in Handler, x # a, Queuing(x) PROVE Queuing(x)'
  BY <1>1, <1>3 DEF Queuing, Cancelling
<1> QED BY <1>2, <1>3

\* A step of pass_the_token, cancel() or cancel_one() leaves no task to sleeping threads.
LEMMA QueueAgent ==
  ASSUME TypeOK, PcInv, QueueInv, NEW a \in Agent, AgentStep(a)
  PROVE  QueueInv'
<1> SUFFICES ASSUME NEW p \in Proc, work'[p] > 0, ~done'[p]
             PROVE  SomebodyCares(p)'
  BY DEF QueueInv
<1>0. /\ \A x \in Thread : x \in Agent /\ At[x] \in Proc /\ x \notin Handler
      /\ \A x \in Handler : x \in Agent
      /\ At[a] \in Proc
  BY Zenon, ConsensusAssumption DEF Agent
<1>c. /\ pc \in [Agent -> Label] /\ sleeping \in [Thread -> BOOLEAN]
      /\ done \in [Proc -> BOOLEAN] /\ wake \in [Agent -> SUBSET Thread]
  BY Zenon DEF TypeOK
<1>d. UNCHANGED work
  BY DEF AgentStep, PassCompleted, PassReadReceived, PassSend, CancelLook, CancelWake, queues
<1>e. ~done[p] => SomebodyCares(p)
  BY Zenon, <1>d DEF QueueInv
<1> USE <1>0, <1>c DEF Goto, Cancelling
<1>1. CASE PassCompleted(a) \/ PassSend(a)
  <2>1. ~done[p] /\ (PassCompleted(a) => p # At[a])
    BY Zenon, <1>1 DEF PassCompleted, PassSend
  <2>2. PassReturns(a) /\ pc[a] \in {"passing", "sending"}
    BY <1>1, ZenonT(40) DEF PassCompleted, PassSend
  <2>3. \A x \in ThreadsOf(p) : Awake(x) => Awake(x)'
    BY <2>2 DEF PassReturns, Awake, ThreadsOf
  <2>4. UNCHANGED after
    BY <1>1, Zenon DEF PassCompleted, PassSend, locals
  <2>5. \A x \in Handler : Queuing(x) => Queuing(x)'
    <3>1. \A x \in Agent : x # a => pc'[x] = pc[x]
      BY Zenon, <2>2 DEF PassReturns
    <3> QED BY <2>2, <2>4, <3>1 DEF Queuing
  <2> QED BY Zenon, <1>e, <2>1, <2>3, <2>5, CaresKept
<1>2. CASE PassReadReceived(a)
  <2>1. /\ pc' = [pc EXCEPT ![a] = "sending"] /\ pc[a] = "passing"
        /\ UNCHANGED <<sleeping, done, after>>
    BY Zenon, <1>2 DEF PassReadReceived
  <2>2. \A x \in Agent : x # a => pc'[x] = pc[x]
    BY Zenon, <2>1
  <2>3. \A x \in ThreadsOf(p) : Awake(x) => Awake(x)'
    BY <2>1, <2>2 DEF Awake, ThreadsOf
  <2>4. \A x \in Handler : Queuing(x) => Queuing(x)'
    BY <2>1, <2>2 DEF Queuing
  <2> QED BY Zenon, <1>e, <2>1, <2>3, <2>4, CaresKept
<1>3. CASE CancelLook(a) \/ CancelWake(a)
  <2> HIDE DEF Goto, Cancelling
  <2>1. ~done[p] /\ \A x \in Thread : sleeping'[x] => sleeping[x]
    BY Zenon, <1>3 DEF CancelLook, CancelWake
  <2>2. Cancelling(a)
    BY Zenon, <1>3 DEF CancelLook, CancelWake, Cancelling
  <2>3. Return(a) \/ (pc' = [pc EXCEPT ![a] = "waking"] /\ after' = after)
    BY Zenon, <1>3 DEF CancelLook, CancelWake, Goto
  <2>4. after \in [Agent -> {"task", "count", "idle"}]
    BY Zenon DEF TypeOK
  <2>5. Thread \subseteq Agent /\ Handler \subseteq Agent /\ SomebodyCares(p)
    BY Zenon, <1>e, <2>1 DEF Agent
  <2>6. CASE ~Return(a)
    BY Zenon, <1>c, <2>1, <2>2, <2>3, <2>5, <2>6, CaresWaking
  <2>7. CASE Return(a)
    <3>1. /\ \A x \in Thread : x # a /\ Awake(x) => Awake(x)'
          /\ \A x \in Handler : x # a /\ Queuing(x) => Queuing(x)'
      BY Zenon, <1>c, <2>1, <2>4, <2>5, <2>7, OthersReturn
    <3>2. pc'[a] = after[a]
      BY Zenon, <1>c, <2>7 DEF Return, Goto
    <3>3. CASE p # At[a]
      <4>1. \A x \in ThreadsOf(p) : x \in Thread /\ x # a
        BY Zenon, <3>3 DEF ThreadsOf
      <4>2. \A x \in Handler : At[x] = p => x # a
        BY Zenon, <3>3
      <4> QED BY Zenon, <2>5, <3>1, <4>1, <4>2, CaresKept
    <3>4. CASE p = At[a] /\ a \in Thread
      <4>1. after[a] = "task"
        BY Zenon, <2>2, <3>4 DEF PcInv
      <4>2. Awake(a)'
        BY Zenon, <3>2, <4>1 DEF Awake
      <4> QED BY Zenon, <3>4, <4>2 DEF SomebodyCares, ThreadsOf
    <3>5. CASE p = At[a] /\ a \in Handler
      <4>1. wake[a] \subseteq ThreadsOf(p) /\ wake[a] # {}
        BY Zenon, <2>2, <3>5 DEF PcInv
      <4>2. PICK t \in wake[a] : t \in ThreadsOf(p)
        BY Zenon, <4>1
      <4>3. t \in Thread /\ t \in Agent /\ t # a /\ At[t] = p
        BY Zenon, <1>0, <3>5, <4>2 DEF ThreadsOf
      <4>4. pc[t] # "left"
        BY Zenon, <2>1, <4>3 DEF PcInv
      <4>5. Awake(t)'
        <5>1. CASE CancelLook(a)
          <6>1. pc[a] = "cancel" /\ (AnybodyToWake(At[a], wake[a]) => Goto(a, "waking"))
            BY Zenon, <5>1 DEF CancelLook
          <6>2. after[a] # "waking"
            BY <2>4
          <6>3. ~AnybodyToWake(At[a], wake[a])
            <7>1. ASSUME Goto(a, "waking") PROVE FALSE
              <8>1. pc'[a] = "waking"
                BY Zenon, <1>c, <7>1 DEF Goto
              <8> QED BY Zenon, <3>2, <6>2, <8>1
            <7> QED BY Zenon, <6>1, <7>1
          <6>4. t \notin TryingToSleep(p)
            BY Zenon, <3>5, <4>2, <6>3 DEF AnybodyToWake
          <6>5. pc[t] \notin Holding \cup {"begin", "sleep"}
            BY Zenon, <4>2, <6>4 DEF TryingToSleep
          <6>6. pc[t] \in {"run", "task", "begin", "sleep", "left", "cancel", "waking"} \cup Holding
            BY Zenon, <4>3 DEF PcInv
          <6>7. Awake(t)
            BY <4>4, <6>5, <6>6 DEF Awake
          <6> QED BY Zenon, <3>1, <4>3, <6>7
        <5>2. CASE CancelWake(a)
          <6>1. Free(p) /\ sleeping' = [x \in Thread |-> sleeping[x] /\ x \notin wake[a] \cap Asleep(p)]
            BY Zenon, <3>5, <5>2 DEF CancelWake
          <6>2. pc[t] \notin Holding
            BY Zenon, <4>3, <6>1 DEF Free
          <6>3. pc'[t] = pc[t]
            BY Zenon, <1>c, <2>7, <4>3 DEF Return, Goto
          <6>4. ~sleeping'[t]
            BY Zenon, <4>2, <4>3, <6>1 DEF Asleep
          <6>5. pc[t] \in {"run", "task", "begin", "sleep", "left", "cancel", "waking"} \cup Holding
            BY Zenon, <4>3 DEF PcInv
          <6> QED BY <4>4, <6>2, <6>3, <6>4, <6>5 DEF Awake
        <5> QED BY Zenon, <1>3, <5>1, <5>2
      <4> QED BY Zenon, <4>2, <4>5 DEF SomebodyCares, ThreadsOf
    <3> QED BY Zenon, <3>3, <3>4, <3>5 DEF Agent
  <2> QED BY Zenon, <2>6, <2>7
<1> QED
  BY Zenon, <1>1, <1>2, <1>3 DEF AgentStep

LEMMA QueueRestart == Restart => QueueInv'
<1> SUFFICES ASSUME Restart, NEW p \in Proc PROVE SomebodyCares(p)'
  BY DEF QueueInv
<1>1. PICK t \in Thread : At[t] = p
  BY SMTT(20), ConsensusAssumption
<1>2. pc'[t] = "run"
  BY DEF Restart, Agent
<1> QED
  BY SMTT(30), <1>1, <1>2 DEF Awake, ThreadsOf, SomebodyCares

LEMMA SleepInvariant == Spec => []SleepInv
<1>1. Init => SleepInv
  BY TypeInit, PcInit, QueueInit DEF SleepInv
<1>2. SleepInv /\ [Next]_vars => SleepInv'
  <2> SUFFICES ASSUME SleepInv, [Next]_vars PROVE SleepInv'
    OBVIOUS
  <2> USE DEF SleepInv
  <2>1. TypeOK'
    BY TypeNext
  <2>2. PcInv'
    BY PcNext
  <2>3. QueueInv'
    <3>1. CASE Finished \/ UNCHANGED vars
      <4>1. UNCHANGED <<pc, after, sleeping, work, done>>
        BY <3>1 DEF Finished, vars
      <4> QED BY <4>1 DEF QueueInv, SomebodyCares, Awake, Queuing, Cancelling, ThreadsOf
    <3> QED BY SMTT(20), <3>1, QueueThread, QueueHandler, QueueAgent, QueueRestart DEF Next
  <2> QED BY <2>1, <2>2, <2>3
<1> QED
  BY <1>1, <1>2, PTL DEF Spec

\* No wakeup is lost between the queue and cancel(): while all threads of a process
\* sleep its queue is empty, unless whoever queued a task is still in cancel().
THEOREM NoLostWakeup == Spec => []NoTaskForgotten
<1>1. SleepInv => NoTaskForgotten
  <2> SUFFICES ASSUME SleepInv, NEW p \in Proc, Asleep(p) = ThreadsOf(p), work[p] > 0,
                      ~done[p]
               PROVE  \E a \in Agent : At[a] = p /\ pc[a] \in {"cancel", "waking"}
    BY DEF NoTaskForgotten
  <2>1. \A t \in ThreadsOf(p) : sleeping[t] /\ t \in Thread
    BY SMTT(20) DEF Asleep, ThreadsOf
  <2>2. \A t \in ThreadsOf(p) : ~Awake(t)
    BY <2>1 DEF SleepInv, PcInv, Awake
  <2>3. SomebodyCares(p)
    BY DEF SleepInv, QueueInv
  <2> QED BY <2>2, <2>3 DEF SomebodyCares, Queuing, Cancelling, Agent
<1> QED
  BY SleepInvariant, <1>1, PTL

==============================================================================

--------------------------- MODULE DetectionProofs ----------------------------
(***************************************************************************)
(* async_consensus is right: consensus is reached only when nothing is left *)
(* to do, for every number of processes, threads, tasks, calls and runs, as *)
(* long as some process other than the last one had counted a call before   *)
(* the first run (Primed).  Without that the first round may end too early, *)
(* which the run ac_fresh shows.                                            *)
(***************************************************************************)
EXTENDS TokenProofs

(* Processes that have nothing left to do.                                   *)

NoCalls == (\A q \in Proc : inflight[q] = 0) /\ InHandler = {}
Still(q) == work[q] = 0 /\ \A t \in ThreadsOf(q) : pc[t] \notin {"task", "cancel", "waking"}

\* Quiet, process by process.
LEMMA QuietStill ==
  ASSUME TypeOK, PcInv
  PROVE  Quiet <=> NoCalls /\ \A q \in Proc : Still(q)
<1>0. /\ \A t \in Thread : t \in Agent /\ At[t] \in Proc
      /\ \A h \in Handler : h \in Agent /\ h \notin Thread
      /\ \A a \in Agent : a \in Thread \/ a \in Handler
  BY ConsensusAssumption DEF Agent
<1>1. ASSUME Quiet PROVE NoCalls /\ \A q \in Proc : Still(q)
  <2>1. \A h \in Handler : ~Handling(h)
    BY <1>0, <1>1 DEF Quiet, Handling, Queuing, Cancelling
  <2>2. NoCalls
    BY <1>1, <2>1 DEF Quiet, NoCalls, InHandler
  <2>3. \A t \in Thread : pc[t] \notin {"task", "cancel", "waking"}
    BY <1>0, <1>1 DEF Quiet, PcInv, Cancelling
  <2>4. \A q \in Proc : Still(q)
    BY <1>1, <2>3 DEF Quiet, Still, ThreadsOf
  <2> QED BY <2>2, <2>4
<1>2. ASSUME NoCalls, \A q \in Proc : Still(q) PROVE Quiet
  <2>1. \A q \in Proc : work[q] = 0 /\ inflight[q] = 0
    BY <1>2 DEF NoCalls, Still
  <2>2. \A h \in Handler : ~Handling(h)
    BY <1>2 DEF NoCalls, InHandler
  <2>3. ASSUME NEW t \in Thread
        PROVE  pc[t] \notin {"task", "cancel", "waking", "handle", "count"}
    <3>1. pc[t] \notin {"task", "cancel", "waking"}
      BY <1>0, <1>2 DEF Still, ThreadsOf
    <3>2. pc[t] \notin {"handle", "count"}
      BY DEF PcInv, Holding
    <3> QED BY <3>1, <3>2
  <2>4. ASSUME NEW h \in Handler
        PROVE  /\ pc[h] \notin {"task", "handle", "count"}
               /\ pc[h] \in {"cancel", "waking"} => after[h] = "idle"
    <3>1. pc[h] \notin {"handle", "count"}
      BY <2>2, Zenon DEF Handling
    <3>2. pc[h] # "task"
      BY DEF PcInv
    <3>3. ASSUME pc[h] \in {"cancel", "waking"} PROVE after[h] = "idle"
      <4>1. after[h] # "count"
        BY <2>2, <3>3, Zenon DEF Handling, Queuing, Cancelling
      <4>2. after[h] # "task"
        BY <1>0, <3>3 DEF PcInv, Cancelling
      <4> QED BY <1>0, <4>1, <4>2 DEF TypeOK
    <3> QED BY <3>1, <3>2, <3>3
  <2> QED BY Zenon, <1>0, <2>1, <2>3, <2>4 DEF Quiet
<1> QED
  BY <1>1, <1>2

\* While no call is on its way, and nobody outside A sends one, the processes of A
\* that have nothing to do get nothing to do.
LEMMA StillKept ==
  ASSUME TypeOK, PcInv, [Next]_vars, ~Restart, NEW A \in SUBSET Proc,
         NoCalls, \A q \in A : Still(q),
         \A q \in Proc \ A : calls_sent'[q] = calls_sent[q]
  PROVE  NoCalls' /\ \A q \in A : Still(q)'
<1>0. /\ pc \in [Agent -> Label] /\ after \in [Agent -> {"task", "count", "idle"}]
      /\ work \in [Proc -> Nat] /\ calls_sent \in [Proc -> Nat] /\ inflight \in [Proc -> Nat]
      /\ Thread \subseteq Agent /\ Handler \subseteq Agent /\ Thread \cap Handler = {}
      /\ At \in [Agent -> Proc]
  BY ConsensusAssumption DEF TypeOK, Agent
<1>h. \A h \in Handler : ~Handling(h)
  BY DEF NoCalls, InHandler
<1>k. ASSUME UNCHANGED inflight, \A h \in Handler : ~Handling(h)' PROVE NoCalls'
  BY <1>k DEF NoCalls, InHandler
<1>s. ASSUME NEW a \in Agent, NEW l, pc' = pc \/ pc' = [pc EXCEPT ![a] = l],
             a \in Thread /\ l \in {"task", "cancel", "waking"} => At[a] \notin A,
             work' = work \/ (At[a] \notin A /\ \E m : work' = [work EXCEPT ![At[a]] = m])
      PROVE  \A q \in A : Still(q)'
  <2> SUFFICES ASSUME NEW q \in A PROVE Still(q)'
    OBVIOUS
  <2>1. Still(q) /\ q \in Proc
    OBVIOUS
  <2>2. work'[q] = 0
    BY <1>0, <1>s, <2>1 DEF Still
  <2>3. ASSUME NEW t \in ThreadsOf(q) PROVE pc'[t] \notin {"task", "cancel", "waking"}
    <3>1. t \in Agent /\ t \in Thread /\ At[t] = q /\ pc[t] \notin {"task", "cancel", "waking"}
      BY <1>0, <2>1 DEF Still, ThreadsOf
    <3> QED BY <1>0, <1>s, <3>1
  <2> QED BY <2>2, <2>3 DEF Still, ThreadsOf
<1> USE DEF Goto
<1>1. ASSUME NEW t \in Thread, ThreadStep(t) PROVE NoCalls' /\ \A q \in A : Still(q)'
  <2>0. t \in Agent /\ At[t] \in Proc /\ t \in ThreadsOf(At[t])
    BY <1>0 DEF ThreadsOf
  <2>a. pc[t] \in {"task", "cancel", "waking"} => At[t] \notin A
    BY <2>0 DEF Still
  <2>b. \A h \in Handler : ~Handling(h)'
    BY <1>1, <1>h, HandlingThread DEF Handling, Queuing, Cancelling
  <2>1. CASE \E q \in Proc : TaskSends(t, q)
    <3>1. pc[t] = "task" /\ calls_sent' = [calls_sent EXCEPT ![At[t]] = @ + 1]
      BY <2>1 DEF TaskSends, SendCall
    <3>2. calls_sent'[At[t]] = calls_sent[At[t]] + 1 /\ At[t] \in Proc \ A
      BY SMTT(30), <1>0, <2>0, <2>a, <3>1
    <3> QED BY SMTT(30), <1>0, <2>0, <3>2
  <2>2. CASE TaskQueues(t)
    <3>1. /\ pc[t] = "task" /\ pc' = [pc EXCEPT ![t] = "cancel"] /\ UNCHANGED inflight
          /\ work' = [work EXCEPT ![At[t]] = @ + 1]
      BY <2>2, Zenon DEF TaskQueues, QueueTask, Cancel
    <3> QED BY Zenon, <1>k, <1>s, <2>0, <2>a, <2>b, <3>1
  <2>3. CASE TakeTask(t)
    <3>1. /\ pc' = [pc EXCEPT ![t] = "task"] /\ UNCHANGED inflight
          /\ work' = [work EXCEPT ![At[t]] = @ - 1] /\ work[At[t]] > 0
      BY <2>3, Zenon DEF TakeTask, HasTask
    <3>2. At[t] \notin A
      BY <1>0, <3>1 DEF Still
    <3> QED BY Zenon, <1>k, <1>s, <2>0, <2>b, <3>1, <3>2
  <2>4. CASE CheckAgain(t)
    <3>1. /\ UNCHANGED inflight
          /\ \/ /\ pc' = [pc EXCEPT ![t] = "task"] /\ work[At[t]] > 0
                /\ work' = [work EXCEPT ![At[t]] = @ - 1]
             \/ pc' = [pc EXCEPT ![t] = "ending"] /\ work' = work
      BY <2>4, Zenon DEF CheckAgain, HasTask
    <3>2. work[At[t]] > 0 => At[t] \notin A
      BY SMTT(30), <1>0 DEF Still
    <3>3. NoCalls'
      BY SMTT(30), <1>k, <2>b, <3>1
    <3>4. CASE pc' = [pc EXCEPT ![t] = "ending"] /\ work' = work
      BY Zenon, <1>s, <2>0, <3>3, <3>4
    <3>5. CASE pc' = [pc EXCEPT ![t] = "task"] /\ work' = [work EXCEPT ![At[t]] = @ - 1]
               /\ work[At[t]] > 0
      BY Zenon, <1>s, <2>0, <3>2, <3>3, <3>5
    <3> QED BY <3>1, <3>4, <3>5
  <2>5. CASE BeginDone(t) \/ EnterCriticalSection(t) \/ EndDone(t) \/ WakeUp(t) \/ TaskEnds(t)
    <3>1. UNCHANGED <<inflight, work>>
      BY <2>5, Zenon DEF BeginDone, EnterCriticalSection, EndDone, WakeUp, TaskEnds, queues
    <3>2. PICK l \in {"begin", "check", "left", "passing", "sleep", "run"} :
                pc' = [pc EXCEPT ![t] = l]
      BY <2>5, Zenon DEF BeginDone, EnterCriticalSection, EndDone, WakeUp, TaskEnds
    <3>3. l \notin {"task", "cancel", "waking"}
      BY <3>2
    <3> QED BY Zenon, <1>k, <1>s, <2>0, <2>b, <3>1, <3>2, <3>3
  <2> QED BY Zenon, <1>1, <2>1, <2>2, <2>3, <2>4, <2>5 DEF ThreadStep
<1>2. ASSUME NEW h \in Handler, HandlerStep(h) PROVE NoCalls' /\ \A q \in A : Still(q)'
  <2>0. h \in Agent /\ h \notin Thread /\ At[h] \in Proc
    BY <1>0
  <2>1. inflight[At[h]] = 0 /\ ~Handling(h)
    BY <1>h, <2>0 DEF NoCalls
  <2>2. ReceiveTheToken(h) \/ ForceDone(h)
    <3>1. ~ReceiveCall(h)
      BY <2>1 DEF ReceiveCall
    <3>2. ~HandlerQueues(h) /\ ~CountCall(h) /\ ~\E q \in Proc : HandlerForwards(h, q)
      BY SMTT(30), <1>2, <2>1, HandlingHandler
    <3> QED BY Zenon, <1>2, <3>1, <3>2 DEF HandlerStep
  <2>3. \A x \in Handler : ~Handling(x)'
    BY <1>2, <1>h, <2>2, HandlingHandler DEF Handling, Queuing, Cancelling
  <2>4. UNCHANGED <<inflight, work>>
    BY <2>2, Zenon DEF ReceiveTheToken, ForceDone, Cancel, queues
  <2>5. PICK l : pc' = [pc EXCEPT ![h] = l]
    BY <2>2, ZenonT(40) DEF ReceiveTheToken, ForceDone, Cancel
  <2> QED BY ZenonT(40), <1>k, <1>s, <2>0, <2>3, <2>4, <2>5
<1>3. ASSUME NEW a \in Agent, AgentStep(a) PROVE NoCalls' /\ \A q \in A : Still(q)'
  <2>1. \A x \in Handler : ~Handling(x)'
    BY <1>3, <1>h, HandlingAgent
  <2>2. UNCHANGED <<inflight, work>>
    BY Zenon, <1>3 DEF AgentStep, PassCompleted, PassReadReceived, PassSend, CancelLook,
                       CancelWake, queues
  <2>3. PICK l : /\ pc' = [pc EXCEPT ![a] = l]
                 /\ l \in {"idle", "left", "sleep", "sending"} \/ pc[a] \in {"cancel", "waking"}
    BY Zenon, <1>3 DEF AgentStep, PassCompleted, PassReadReceived, PassSend, PassReturns,
                       CancelLook, CancelWake, Return
  <2>4. a \in Thread /\ pc[a] \in {"cancel", "waking"} => At[a] \notin A
    BY <1>0 DEF Still, ThreadsOf
  <2>5. a \in Thread /\ l \in {"task", "cancel", "waking"} => At[a] \notin A
    BY <2>3, <2>4
  <2> QED BY Zenon, <1>k, <1>s, <2>1, <2>2, <2>3, <2>5
<1>4. CASE Finished \/ UNCHANGED vars
  <2>1. UNCHANGED <<inflight, work, pc, after>>
    BY <1>4 DEF Finished, vars
  <2> QED BY <2>1 DEF NoCalls, InHandler, Handling, Queuing, Cancelling, Still, ThreadsOf
<1> QED
  BY Zenon, <1>1, <1>2, <1>3, <1>4 DEF Next

-----------------------------------------------------------------------------
(* The round of the token since the last change.                             *)

\* The token, with value x, is at process p or on its way there.
TokenAt(p, x) == \/ hastoken[p] /\ cur_token[p] = x
                 \/ [to |-> p, tok |-> x] \in token

\* The processes that a token at p has still to visit before it is back at c, which
\* changed it last.
Ahead(p, c) == IF p <= c THEN p..(c - 1) ELSE (p..(N - 1)) \cup (0..(c - 1))

\* What the token will find, or has just found, at q is what it found there before.
Same(q) == /\ calls_sent[q] = last_calls_sent[q]
           /\ \/ calls_received[q] = last_calls_received[q]
              \/ \E a \in Agent : /\ At[a] = q /\ pc[a] = "sending"
                                  /\ callsrecv[a] = last_calls_received[q]

\* The token could return to c as it is, and consensus would be found.
MayComplete(p, x) ==
  x.sent <= x.received /\ \A q \in Ahead(p, x.last_change) : Same(q)

\* The token adds up what it has seen.  If it could complete its round as it is, then
\* no call is on its way or in a handler, and the processes it has passed have nothing
\* left to do.
Round(p, x) ==
  /\ x.sent = Total(last_calls_sent) /\ x.received = Total(last_calls_received)
  /\ MayComplete(p, x) =>
       NoCalls /\ \A q \in Proc \ Ahead(p, x.last_change) : Still(q)

RoundInv == \A p \in Proc : \A x \in Token : TokenAt(p, x) => Round(p, x)

\* Some process before the last one had counted a call when the first run started.
Primed == \E p \in 0..(N - 2) : Prior[p] > 0

LEMMA AheadFacts ==
  ASSUME NEW p \in Proc, NEW c \in Proc
  PROVE  /\ Ahead(p, c) \subseteq Proc
         /\ Ahead(p, p) = {}
         /\ Ahead((p + 1) % N, p) = Proc \ {p}
         /\ p # c => /\ p \in Ahead(p, c)
                     /\ Ahead((p + 1) % N, c) = Ahead(p, c) \ {p}
<1>0. N \in Nat \ {0} /\ p \in 0..(N - 1) /\ c \in 0..(N - 1)
  BY ConsensusAssumption DEF Proc
<1>1. (p + 1) % N = IF p = N - 1 THEN 0 ELSE p + 1
  <2>1. CASE p = N - 1
    <3>1. p + 1 = N /\ N % N = 0
      BY <1>0, <2>1
    <3> QED BY <2>1, <3>1
  <2>2. CASE p # N - 1
    <3>1. p + 1 \in 0..(N - 1)
      BY <1>0, <2>2
    <3>2. (p + 1) % N = p + 1
      BY <1>0, <3>1
    <3> QED BY <2>2, <3>2
  <2> QED BY <2>1, <2>2
<1>2. Ahead(p, c) \subseteq Proc /\ Ahead(p, p) = {}
  BY <1>0 DEF Ahead, Proc
<1>3. Ahead((p + 1) % N, p) = Proc \ {p}
  BY <1>0, <1>1 DEF Ahead, Proc
<1>4. p # c => p \in Ahead(p, c)
  BY <1>0 DEF Ahead
<1>5. p # c => Ahead((p + 1) % N, c) = Ahead(p, c) \ {p}
  BY <1>0, <1>1 DEF Ahead
<1> QED
  BY <1>2, <1>3, <1>4, <1>5

\* At the start of a run the token has seen nothing, and it will see a change.
LEMMA RoundStart ==
  ASSUME Primed, TypeOK, token = {}, \A p \in Proc : Prior[p] <= calls_sent[p],
         last_calls_sent = [p \in Proc |-> 0], last_calls_received = [p \in Proc |-> 0],
         hastoken = [p \in Proc |-> p = 0], cur_token = [p \in Proc |-> FirstToken]
  PROVE  RoundInv
<1> SUFFICES ASSUME NEW p \in Proc, NEW x \in Token, TokenAt(p, x)
             PROVE  Round(p, x)
  BY DEF RoundInv
<1>1. p = 0 /\ x = FirstToken
  BY ZenonT(40) DEF TokenAt
<1>2. x.sent = Total(last_calls_sent) /\ x.received = Total(last_calls_received)
  BY <1>1, TotalZero DEF FirstToken
<1>3. PICK q \in 0..(N - 2) : Prior[q] > 0
  BY DEF Primed
<1>4. q \in Proc /\ q \in Ahead(p, x.last_change)
  BY <1>1, <1>3, ConsensusAssumption DEF Proc, Ahead, FirstToken
<1>5. calls_sent[q] \in Nat /\ Prior[q] \in Nat /\ last_calls_sent[q] = 0
  BY <1>4, ConsensusAssumption DEF TypeOK
<1>6. ~Same(q)
  BY SMTT(30), <1>3, <1>4, <1>5 DEF Same
<1> QED
  BY <1>2, <1>4, <1>6 DEF Round, MayComplete

\* A process that still changes the token, or has changed it, does so later as well.
LEMMA SameKept ==
  ASSUME TypeOK, TypeOK', CountersInv, [Next]_vars, NEW q \in Proc, Same(q)',
         last_calls_sent'[q] = last_calls_sent[q],
         last_calls_received'[q] = last_calls_received[q]
  PROVE  Same(q) /\ calls_sent'[q] = calls_sent[q]
<1>0. /\ calls_sent[q] \in Nat /\ calls_received[q] \in Nat
      /\ last_calls_sent[q] \in Nat /\ last_calls_received[q] \in Nat
      /\ calls_sent'[q] \in Nat /\ calls_received'[q] \in Nat
  BY DEF TypeOK
<1>1. calls_sent[q] <= calls_sent'[q] /\ calls_received[q] <= calls_received'[q]
  BY CountersGrow
<1>2. last_calls_sent[q] <= calls_sent[q] /\ last_calls_received[q] <= calls_received[q]
  BY DEF CountersInv
<1>3. calls_sent[q] = last_calls_sent[q] /\ calls_sent'[q] = calls_sent[q]
  BY <1>0, <1>1, <1>2 DEF Same
<1>4. CASE calls_received'[q] = last_calls_received'[q]
  BY SMTT(30), <1>0, <1>1, <1>2, <1>3, <1>4 DEF Same
<1>5. ASSUME NEW a \in Agent, At[a] = q, pc'[a] = "sending",
             callsrecv'[a] = last_calls_received'[q]
      PROVE  Same(q)
  BY <1>3, <1>5, SendingKept DEF Same
<1> QED
  BY ZenonT(40), <1>3, <1>4, <1>5 DEF Same

\* Only pass_the_token gives the token a new value or place; its arrival changes neither.
LEMMA TokenAtKept ==
  ASSUME TypeOK, TokenInv, [Next]_vars, ~Restart, \A a \in Agent : ~PassSend(a),
         NEW p \in Proc, NEW x \in Token, TokenAt(p, x)'
  PROVE  TokenAt(p, x)
<1>1. CASE UNCHANGED <<hastoken, cur_token, token>>
  BY SMTT(30), <1>1 DEF TokenAt
<1>2. ASSUME NEW h \in Handler, ReceiveTheToken(h) PROVE TokenAt(p, x)
  <2>0. /\ hastoken \in [Proc -> BOOLEAN] /\ cur_token \in [Proc -> Token] /\ At[h] \in Proc
        /\ token \subseteq [to : Proc, tok : Token]
    BY ConsensusAssumption DEF TypeOK, Agent
  <2>1. PICK y \in token : /\ y.to = At[h] /\ token' = token \ {y}
                           /\ cur_token' = [cur_token EXCEPT ![At[h]] = y.tok]
    BY <1>2, ZenonT(40) DEF ReceiveTheToken
  <2>2. hastoken' = [hastoken EXCEPT ![At[h]] = TRUE]
    BY SMTT(30), <1>2 DEF ReceiveTheToken
  <2>3. (\A q \in Proc : ~hastoken[q]) /\ token = {y}
    BY <2>1 DEF TokenInv, HeldBy, OnItsWay
  <2>4. hastoken'[p] /\ cur_token'[p] = x
    BY <2>1, <2>3 DEF TokenAt
  <2>5. p = At[h]
    BY SMTT(30), <2>0, <2>2, <2>3, <2>4
  <2>6. y.to = p /\ y.tok = x /\ y \in [to : Proc, tok : Token]
    BY <2>0, <2>1, <2>4, <2>5
  <2>7. y = [to |-> p, tok |-> x]
    BY <2>6
  <2> QED BY SMTT(30), <2>1, <2>7 DEF TokenAt
<1>3. \/ UNCHANGED <<hastoken, cur_token, token>>
      \/ \E h \in Handler : ReceiveTheToken(h)
  <2>1. ASSUME NEW t \in Thread, ThreadStep(t) PROVE UNCHANGED <<hastoken, cur_token, token>>
    BY Zenon, <2>1 DEF ThreadStep, TakeTask, BeginDone, EnterCriticalSection,
         CheckAgain, EndDone, WakeUp, TaskQueues, TaskEnds, TaskSends, tokens
  <2>2. ASSUME NEW h \in Handler, HandlerStep(h), ~ReceiveTheToken(h)
        PROVE  UNCHANGED <<hastoken, cur_token, token>>
    BY Zenon, <2>2 DEF HandlerStep, ForceDone, ReceiveCall, HandlerQueues,
         CountCall, HandlerForwards, tokens
  <2>3. ASSUME NEW a \in Agent, AgentStep(a) PROVE UNCHANGED <<hastoken, cur_token, token>>
    BY Zenon, <2>3 DEF AgentStep, PassCompleted, PassReadReceived, CancelLook, CancelWake,
                       tokens
  <2>4. CASE Finished \/ UNCHANGED vars
    BY SMTT(30), <2>4 DEF Finished, vars
  <2> QED BY Zenon, <2>1, <2>2, <2>3, <2>4 DEF Next
<1> QED
  BY SMTT(30), <1>1, <1>2, <1>3

\* Any step that does not pass the token on preserves RoundInv.
LEMMA RoundKept ==
  ASSUME TypeOK, TypeOK', PcInv, TokenInv, CountersInv, RoundInv, [Next]_vars,
         ~Restart, \A a \in Agent : ~PassSend(a)
  PROVE  RoundInv'
<1> SUFFICES ASSUME NEW p \in Proc, NEW x \in Token, TokenAt(p, x)'
             PROVE  Round(p, x)'
  BY DEF RoundInv
<1>1. TokenAt(p, x) /\ Round(p, x)
  BY TokenAtKept DEF RoundInv
<1>2. UNCHANGED <<last_calls_sent, last_calls_received>>
  BY SMTT(30), CountersGrow
<1>3. x.sent = Total(last_calls_sent') /\ x.received = Total(last_calls_received')
  BY <1>1, <1>2 DEF Round
<1>4. ASSUME MayComplete(p, x)'
      PROVE  NoCalls' /\ \A q \in Proc \ Ahead(p, x.last_change) : Still(q)'
  <2> DEFINE D == Ahead(p, x.last_change)
  <2>0. D \subseteq Proc
    BY AheadFacts DEF Token
  <2>1. x.sent <= x.received /\ \A q \in D : Same(q)'
    BY <1>4 DEF MayComplete
  <2> HIDE DEF D
  <2>2. \A q \in D : Same(q) /\ calls_sent'[q] = calls_sent[q]
    BY SMTT(30), <1>2, <2>0, <2>1, SameKept
  <2>3. NoCalls /\ \A q \in Proc \ D : Still(q)
    BY SMTT(30), <1>1, <2>1, <2>2 DEF Round, MayComplete, D
  <2>4. \A q \in Proc \ (Proc \ D) : calls_sent'[q] = calls_sent[q]
    BY SMTT(30), <2>2
  <2>5. NoCalls' /\ \A q \in Proc \ D : Still(q)'
    BY ZenonT(40), <2>3, <2>4, StillKept
  <2> QED BY <2>5 DEF D
<1> QED
  BY <1>3, <1>4 DEF Round

\* A process that passes the token on has nothing to do, unless a handler of it runs.
LEMMA PassesStill ==
  ASSUME TypeOK, PcInv, QueueInv, NumActiveValid, TokenInv, LastInv, NoCalls,
         NEW a \in Agent, pc[a] = "sending"
  PROVE  Still(At[a])
<1> DEFINE p == At[a]
<1>0. p \in Proc /\ ~done[p] /\ numactive[p] = 0
  BY ConsensusAssumption DEF TokenInv, Detected, LastInv
<1>1. Running(p) = {}
  <2>1. Cardinality(Running(p)) = 0
    BY <1>0 DEF NumActiveValid, Running
  <2>2. IsFiniteSet(Running(p))
    BY ThreadsFinite, Zenon DEF Running
  <2> QED BY <2>1, <2>2, FS_EmptySet
<1>2. ASSUME NEW t \in ThreadsOf(p)
      PROVE  /\ t \in Thread
             /\ sleeping[t] \/ pc[t] \in {"passing", "sending"}
             /\ sleeping[t] => pc[t] \in {"sleep", "left"}
  BY <1>1, Zenon DEF Running, ThreadsOf, PcInv
<1>3. \A t \in ThreadsOf(p) : pc[t] \notin {"task", "cancel", "waking"} /\ ~Awake(t)
  BY <1>2 DEF Awake
<1>4. \A h \in Handler : ~Queuing(h)
  BY DEF NoCalls, InHandler, Handling
<1>5. ~(work[p] > 0)
  BY <1>0, <1>3, <1>4, Zenon DEF QueueInv, SomebodyCares
<1>6. work[p] = 0
  BY SMTT(30), <1>0, <1>5 DEF TypeOK
<1> QED
  BY <1>3, <1>6 DEF Still

\* The token that pass_the_token sends adds up what it has seen.
LEMMA SentTotals ==
  ASSUME TypeOK, CountersInv, NEW a \in Agent, PassSend(a),
         cur_token[At[a]].sent = Total(last_calls_sent),
         cur_token[At[a]].received = Total(last_calls_received),
         NEW tok, tok = Updated(At[a], calls_sent[At[a]], callsrecv[a])
  PROVE  /\ tok.sent = Total(last_calls_sent') /\ tok.received = Total(last_calls_received')
         /\ \/ tok.last_change = At[a]
            \/ /\ tok = cur_token[At[a]] /\ calls_sent[At[a]] = last_calls_sent[At[a]]
               /\ callsrecv[a] = last_calls_received[At[a]]
<1> DEFINE p == At[a]
<1>0. /\ p \in Proc /\ last_calls_sent \in [Proc -> Nat] /\ last_calls_received \in [Proc -> Nat]
      /\ calls_sent[p] \in Nat /\ callsrecv[a] \in Nat
      /\ last_calls_sent[p] \in Nat /\ last_calls_received[p] \in Nat
  BY SMTT(30), ConsensusAssumption DEF TypeOK
<1>1. /\ pc[a] = "sending"
      /\ last_calls_sent' = [last_calls_sent EXCEPT ![p] = calls_sent[p]]
      /\ last_calls_received' = [last_calls_received EXCEPT ![p] = callsrecv[a]]
  BY SMTT(30) DEF PassSend
<1>2. last_calls_sent[p] <= calls_sent[p] /\ last_calls_received[p] <= callsrecv[a]
  BY Zenon, <1>0, <1>1 DEF CountersInv
<1>3. /\ Total(last_calls_sent') = Total(last_calls_sent) + (calls_sent[p] - last_calls_sent[p])
      /\ Total(last_calls_received')
           = Total(last_calls_received) + (callsrecv[a] - last_calls_received[p])
  BY ZenonT(40), <1>0, <1>1, <1>2, TotalRaised
<1>4. Total(last_calls_sent) \in Nat /\ Total(last_calls_received) \in Nat
  BY <1>0, UnitsFinite
<1>5. CASE calls_sent[p] = last_calls_sent[p] /\ callsrecv[a] = last_calls_received[p]
  <2>1. tok = cur_token[p]
    BY SMTT(30), <1>5 DEF Updated
  <2> QED BY <1>0, <1>3, <1>4, <1>5, <2>1
<1>6. CASE ~(calls_sent[p] = last_calls_sent[p] /\ callsrecv[a] = last_calls_received[p])
  <2>1. tok = [sent |-> cur_token[p].sent + calls_sent[p] - last_calls_sent[p],
               received |-> cur_token[p].received + callsrecv[a] - last_calls_received[p],
               last_change |-> p]
    BY ZenonT(40), <1>6 DEF Updated
  <2> QED BY SMTT(30), <1>0, <1>3, <1>4, <2>1
<1> QED
  BY Zenon, <1>5, <1>6

\* Passing the token on preserves RoundInv.
LEMMA RoundSend ==
  ASSUME TypeOK, TypeOK', PcInv, QueueInv, NumActiveValid, TokenInv, TokenInv', LastInv,
         CallsInv, CountersInv, CountersInv', RoundInv, [Next]_vars, ~Restart,
         NEW a \in Agent, PassSend(a)
  PROVE  RoundInv'
<1> SUFFICES ASSUME NEW n \in Proc, NEW tok \in Token, TokenAt(n, tok)'
             PROVE  Round(n, tok)'
  BY SMTT(30) DEF RoundInv
<1> DEFINE p == At[a]
           x == cur_token[p]
<1>0. /\ p \in Proc /\ last_calls_sent \in [Proc -> Nat] /\ last_calls_received \in [Proc -> Nat]
      /\ calls_sent \in [Proc -> Nat] /\ calls_received \in [Proc -> Nat]
      /\ inflight \in [Proc -> Nat] /\ x \in Token /\ hastoken \in [Proc -> BOOLEAN]
      /\ last_calls_sent' \in [Proc -> Nat] /\ last_calls_received' \in [Proc -> Nat]
      /\ At \in [Agent -> Proc]
  BY SMTT(30), ConsensusAssumption DEF TypeOK
<1>1. /\ pc[a] = "sending" /\ UNCHANGED <<calls_sent, calls_received, inflight, work>>
      /\ last_calls_sent' = [last_calls_sent EXCEPT ![p] = calls_sent[p]]
      /\ last_calls_received' = [last_calls_received EXCEPT ![p] = callsrecv[a]]
      /\ hastoken' = [hastoken EXCEPT ![p] = FALSE]
      /\ token' = token \cup {[to |-> (p + 1) % N,
                              tok |-> Updated(p, calls_sent[p], callsrecv[a])]}
  BY Zenon DEF PassSend, queues, TokenGone
<1>2. HeldBy(p)
  BY ZenonT(40), <1>0, <1>1 DEF TokenInv, OnItsWay, HeldBy
<1>3. /\ \A q \in Proc : ~hastoken'[q]
      /\ n = (p + 1) % N /\ tok = Updated(p, calls_sent[p], callsrecv[a])
  <2>1. /\ \A q \in Proc : ~hastoken'[q]
        /\ token' = {[to |-> (p + 1) % N, tok |-> Updated(p, calls_sent[p], callsrecv[a])]}
    BY Zenon, <1>0, <1>1, <1>2 DEF HeldBy
  <2>2. [to |-> n, tok |-> tok]
          = [to |-> (p + 1) % N, tok |-> Updated(p, calls_sent[p], callsrecv[a])]
    BY ZenonT(40), <2>1 DEF TokenAt
  <2> QED BY ZenonT(40), <2>1, <2>2
<1>4. \A b \in Agent : pc'[b] # "sending"
  BY SMTT(30), <1>0, <1>3 DEF TokenInv
<1>5. Round(p, x)
  BY SMTT(30), <1>0, <1>2 DEF RoundInv, TokenAt, HeldBy
<1>6. /\ tok.sent = Total(last_calls_sent') /\ tok.received = Total(last_calls_received')
      /\ \/ tok.last_change = p
         \/ tok = x /\ calls_sent[p] = last_calls_sent[p] /\ callsrecv[a] = last_calls_received[p]
  BY ZenonT(40), <1>3, <1>5, SentTotals DEF Round
<1> DEFINE D == Ahead(n, tok.last_change)
<1>7. ASSUME NEW q \in Proc \ {p}, Same(q)' PROVE Same(q) /\ calls_sent'[q] = last_calls_sent'[q]
                                                 /\ calls_received'[q] = last_calls_received'[q]
  <2>1. /\ last_calls_sent'[q] = last_calls_sent[q]
        /\ last_calls_received'[q] = last_calls_received[q]
    BY ZenonT(40), <1>0, <1>1
  <2>2. calls_sent'[q] = last_calls_sent'[q] /\ calls_received'[q] = last_calls_received'[q]
    BY ZenonT(40), <1>4, <1>7 DEF Same
  <2> QED BY ZenonT(40), <1>7, <2>1, <2>2, SameKept
<1>8. ASSUME MayComplete(n, tok)'
      PROVE  NoCalls' /\ \A q \in Proc \ D : Still(q)'
  <2>1. tok.sent <= tok.received /\ \A q \in D : Same(q)'
    BY <1>8 DEF MayComplete
  <2>2. CASE tok.last_change = p
    <3>1. D = Proc \ {p}
      BY SMTT(30), <1>0, <1>3, <2>2, AheadFacts
    <3>2. last_calls_sent' = calls_sent
      <4>1. \A q \in Proc : last_calls_sent'[q] = calls_sent[q]
        BY ZenonT(40), <1>0, <1>1, <1>7, <2>1, <3>1
      <4> QED BY SMTT(30), <1>0, <4>1
    <3>3. \A q \in Proc : last_calls_received'[q] <= calls_received[q]
      BY Zenon, <1>1 DEF CountersInv
    <3>4. Total(last_calls_received') <= Total(calls_received)
      BY SMTT(30), <1>0, <3>3, TotalMonotone
    <3>5. /\ Total(calls_received) \in Nat /\ Total(inflight) \in Nat
          /\ Total(last_calls_received') \in Nat /\ Cardinality(InHandler) \in Nat
      BY SMTT(30), <1>0, UnitsFinite, HandlersFinite
    <3>6. Total(calls_received) + Total(inflight) + Cardinality(InHandler)
            <= Total(last_calls_received')
      BY Zenon, <1>6, <2>1, <3>2 DEF CallsInv
    <3>7. Total(inflight) = 0 /\ Cardinality(InHandler) = 0
      BY SMTT(30), <3>4, <3>5, <3>6
    <3>8. NoCalls
      BY SMTT(30), <1>0, <3>7, TotalZero, HandlersFinite, FS_EmptySet DEF NoCalls
    <3>9. Still(p)
      BY SMTT(30), <1>1, <3>8, PassesStill
    <3>10. /\ {p} \in SUBSET Proc /\ \A q \in {p} : Still(q)
           /\ \A q \in Proc \ {p} : calls_sent'[q] = calls_sent[q]
      BY ZenonT(40), <1>0, <1>1, <3>9
    <3>11. NoCalls' /\ \A q \in {p} : Still(q)'
      BY Zenon, <3>8, <3>10, StillKept
    <3> QED BY SMTT(30), <1>0, <3>1, <3>11
  <2>3. CASE tok.last_change # p
    <3>1. /\ tok = x /\ calls_sent[p] = last_calls_sent[p]
          /\ callsrecv[a] = last_calls_received[p] /\ x.last_change \in Proc
      BY <1>6, <2>3 DEF Token
    <3> DEFINE E == Ahead(p, x.last_change)
    <3>2. p \in E /\ D = E \ {p} /\ E \subseteq Proc
      BY SMTT(30), <1>0, <1>3, <2>3, <3>1, AheadFacts
    <3>3. Same(p)
      BY SMTT(30), <1>1, <3>1 DEF Same
    <3>4. \A q \in E : Same(q)
      BY Zenon, <1>7, <2>1, <3>2, <3>3
    <3>5. NoCalls /\ \A q \in Proc \ E : Still(q)
      BY ZenonT(40), <1>5, <2>1, <3>1, <3>4 DEF Round, MayComplete
    <3>6. Still(p)
      BY <1>1, <3>5, PassesStill
    <3> HIDE DEF D, E
    <3>7. \A q \in Proc \ D : Still(q)
      BY <3>2, <3>5, <3>6
    <3> QED BY ZenonT(40), <1>1, <3>5, <3>7, StillKept
  <2> QED BY Zenon, <2>2, <2>3
<1> QED
  BY Zenon, <1>6, <1>8 DEF Round

-----------------------------------------------------------------------------
(* Consensus.                                                                *)

\* A computation that is over does not start again by itself.
LEMMA QuietStays ==
  ASSUME TypeOK, TypeOK', PcInv, PcInv', Quiet, [Next]_vars, ~Restart
  PROVE  Quiet'
<1>1. NoCalls /\ \A q \in Proc : Still(q)
  BY QuietStill
<1>2. Proc \in SUBSET Proc /\ \A q \in Proc \ Proc : calls_sent'[q] = calls_sent[q]
  OBVIOUS
<1>3. NoCalls' /\ \A q \in Proc : Still(q)'
  BY <1>1, <1>2, StillKept
<1>4. (TypeOK /\ PcInv => (Quiet <=> NoCalls /\ \A q \in Proc : Still(q)))'
  BY QuietStill, PTL
<1> QED
  BY <1>3, <1>4

\* A token that is back at the process that changed it last, with as many calls
\* received as sent, has made its round over a computation that is over.
LEMMA CompletedQuiet ==
  ASSUME TypeOK, PcInv, TokenInv, RoundInv, NEW a \in Agent, PassCompleted(a)
  PROVE  Quiet
<1> DEFINE p == At[a]
           x == cur_token[p]
<1>1. p \in Proc /\ x \in Token /\ TokenAt(p, x)
  BY SMTT(30), ConsensusAssumption DEF TypeOK, TokenInv, PassCompleted, TokenAt
<1>2. x.last_change = p /\ x.sent = x.received /\ x.sent \in Int
  BY ZenonT(40), <1>1 DEF PassCompleted, Completed, Token
<1>3. Ahead(p, x.last_change) = {}
  BY Zenon, <1>1, <1>2, AheadFacts
<1>4. x.sent <= x.received
  <2> HIDE DEF x
  <2> QED BY <1>2
<1>5. MayComplete(p, x)
  BY Zenon, <1>3, <1>4 DEF MayComplete
<1>6. NoCalls /\ \A q \in Proc : Still(q)
  BY Zenon, <1>1, <1>3, <1>5 DEF RoundInv, Round
<1> QED
  BY Zenon, <1>6, QuietStill

\* Consensus is found by pass_the_token; force_done only passes it on.
LEMMA DetectedBy ==
  ASSUME TypeOK, TokenInv, [Next]_vars, ~Detected, Detected'
  PROVE  \E a \in Agent : PassCompleted(a)
<1>1. ASSUME done' = done PROVE FALSE
  BY <1>1 DEF Detected
<1>2. ASSUME NEW t \in Thread, ThreadStep(t) PROVE FALSE
  BY Zenon, <1>1, <1>2 DEF ThreadStep, TakeTask, BeginDone, EnterCriticalSection,
         CheckAgain, EndDone, WakeUp, TaskQueues, TaskEnds, TaskSends
<1>3. ASSUME NEW h \in Handler, HandlerStep(h) PROVE FALSE
  <2>1. ~ForceDone(h)
    BY DEF TokenInv, ForceDone, Detected
  <2> QED BY ZenonT(40), <1>1, <1>3, <2>1 DEF HandlerStep, ReceiveTheToken, ReceiveCall,
         HandlerQueues, CountCall, HandlerForwards
<1>4. ASSUME NEW a \in Agent, AgentStep(a) PROVE PassCompleted(a)
  BY Zenon, <1>1, <1>4 DEF AgentStep, PassReadReceived, PassSend, CancelLook, CancelWake
<1>5. CASE Restart
  BY <1>5 DEF Restart, Detected
<1>6. CASE Finished \/ UNCHANGED vars
  BY <1>1, <1>6 DEF Finished, vars
<1> QED
  BY Zenon, <1>2, <1>3, <1>4, <1>5, <1>6 DEF Next

\* The inductive invariant.
DetectInv ==
  /\ RingInv /\ QueueInv /\ NumActiveValid /\ LastInv /\ CallsInv /\ CountersInv
  /\ RoundInv /\ DoneOnlyWhenQuiet

LEMMA DetectInit ==
  ASSUME Primed, Init
  PROVE  LastInv /\ CallsInv /\ CountersInv /\ RoundInv /\ DoneOnlyWhenQuiet
<1>1. LastInv /\ CallsInv /\ CountersInv /\ TypeOK
  BY SMTT(30), LastInit, CallsInit, CountersInit, TypeInit
<1>2. RoundInv
  BY <1>1, RoundStart DEF Init, CountersInv
<1>3. ~Detected
  BY DEF Init, Detected
<1> QED
  BY <1>1, <1>2, <1>3 DEF DoneOnlyWhenQuiet

LEMMA DetectNext ==
  ASSUME Primed, DetectInv, [Next]_vars, RingInv', QueueInv', NumActiveValid'
  PROVE  DetectInv'
<1> USE DEF DetectInv, RingInv
<1>1. LastInv' /\ CallsInv' /\ CountersInv'
  BY LastNext, CallsNext, CountersNext
<1>2. RoundInv'
  <2>1. CASE Restart
    <3>1. (Primed /\ TypeOK /\ token = {} /\ (\A p \in Proc : Prior[p] <= calls_sent[p])
           /\ last_calls_sent = [p \in Proc |-> 0] /\ last_calls_received = [p \in Proc |-> 0]
           /\ hastoken = [p \in Proc |-> p = 0] /\ cur_token = [p \in Proc |-> FirstToken]
           => RoundInv)'
      BY RoundStart, PTL
    <3>2. token' = {}
      <4>1. 0 \in Proc /\ hastoken'[0]
        BY ZenonT(40), <2>1, RingClosed DEF Restart
      <4> QED BY Zenon, <4>1 DEF TokenInv, OnItsWay, HeldBy
    <3>3. \A p \in Proc : Prior[p] <= calls_sent'[p]
      BY <1>1 DEF CountersInv
    <3> QED BY <2>1, <3>1, <3>2, <3>3 DEF Restart, Primed
  <2>2. ASSUME ~Restart, NEW a \in Agent, PassSend(a) PROVE RoundInv'
    BY <1>1, <2>2, RoundSend
  <2>3. CASE ~Restart /\ \A a \in Agent : ~PassSend(a)
    BY <2>3, RoundKept
  <2> QED BY SMTT(30), <2>1, <2>2, <2>3
<1>3. DoneOnlyWhenQuiet'
  <2>1. CASE Restart
    BY <2>1 DEF Restart, DoneOnlyWhenQuiet, Detected
  <2>2. ASSUME ~Restart, Detected' PROVE Quiet
    <3>1. CASE Detected
      BY <3>1 DEF DoneOnlyWhenQuiet
    <3>2. CASE ~Detected
      BY SMTT(30), <2>2, <3>2, DetectedBy, CompletedQuiet
    <3> QED BY <3>1, <3>2
  <2>3. ASSUME ~Restart, Detected' PROVE Quiet'
    BY <2>2, <2>3, QuietStays
  <2> QED BY <2>1, <2>3 DEF DoneOnlyWhenQuiet
<1> QED
  BY <1>1, <1>2, <1>3

LEMMA DetectInvariant == Primed => (Spec => []DetectInv)
<1> SUFFICES ASSUME Primed PROVE Spec => []DetectInv
  OBVIOUS
<1>1. Init => LastInv /\ CallsInv /\ CountersInv /\ RoundInv /\ DoneOnlyWhenQuiet
  BY DetectInit
<1>2. DetectInv /\ [Next]_vars /\ RingInv' /\ QueueInv' /\ NumActiveValid' => DetectInv'
  BY DetectNext
<1>3. Spec => [](RingInv /\ QueueInv /\ NumActiveValid)
  BY RingInvariant, SleepInvariant, NumActiveCorrect, PTL DEF SleepInv
<1> QED
  BY <1>1, <1>2, <1>3, PTL DEF Spec, DetectInv

\* Consensus is reached only when no task is queued or running and no call is on its way
\* or in a handler: the promise of the class comment, whatever the order of the calls,
\* the visits of the token and the two reads of the counters in pass_the_token.
THEOREM ConsensusSound == Primed => (Spec => []DoneOnlyWhenQuiet)
<1>1. DetectInv => DoneOnlyWhenQuiet
  BY DEF DetectInv
<1> QED
  BY <1>1, DetectInvariant, PTL

\* Every step of async_consensus is a step of the abstract termination detection or
\* leaves it alone: a run that is over does not start again by itself, consensus is found
\* at most once in a run and only after the run is over, and only reset() starts another.
THEOREM DetectionRefined ==
  Primed => (Spec => Detection!Init /\ [][Detection!Next]_<<Busy, Detected>>)
<1> SUFFICES ASSUME Primed PROVE Spec => Detection!Init /\ [][Detection!Next]_<<Busy, Detected>>
  OBVIOUS
<1>1. Init => Detection!Init
  BY DEF Init, Detection!Init, Busy, Detected
<1>2. DetectInv /\ DetectInv' /\ [Next]_vars => [Detection!Next]_<<Busy, Detected>>
  <2> SUFFICES ASSUME DetectInv, DetectInv', [Next]_vars
               PROVE  [Detection!Next]_<<Busy, Detected>>
    OBVIOUS
  <2>1. (Detected => Quiet) /\ (Detected' => Quiet')
    BY SMTT(30) DEF DetectInv, DoneOnlyWhenQuiet
  <2>2. CASE Restart
    <3>1. Detected /\ ~Detected'
      BY <2>2, AllDone DEF DetectInv, RingInv, Restart, Detected
    <3> QED BY SMTT(30), <3>1 DEF Detection!Next, Detection!NewRun, Busy, Detected
  <2>3. CASE ~Restart
    <3>1. Quiet => Quiet'
      BY SMTT(30), <2>3, QuietStays DEF DetectInv, RingInv
    <3>2. ~Detected /\ Detected' => Quiet
      BY DetectedBy, CompletedQuiet DEF DetectInv, RingInv
    <3>3. Detected => Detected'
      <4>1. ASSUME NEW p \in Proc, done[p] PROVE done'[p]
        <5>0. done \in [Proc -> BOOLEAN]
          BY DEF DetectInv, RingInv, TypeOK
        <5>1. done' = done \/ \E q \in Proc : done' = [done EXCEPT ![q] = TRUE]
          <6>0. \A b \in Thread \cup Handler : At[b] \in Proc
            BY ConsensusAssumption DEF Agent
          <6>1. ASSUME NEW t \in Thread, ThreadStep(t) PROVE done' = done
            BY Zenon, <6>1 DEF ThreadStep, TakeTask, BeginDone, EnterCriticalSection,
                 CheckAgain, EndDone, WakeUp, TaskQueues, TaskEnds, TaskSends
          <6>2. ASSUME NEW h \in Handler, HandlerStep(h)
                PROVE  done' = done \/ done' = [done EXCEPT ![At[h]] = TRUE]
            BY Zenon, <6>2 DEF HandlerStep, ReceiveTheToken, ForceDone, ReceiveCall,
                 HandlerQueues, CountCall, HandlerForwards
          <6>3. ASSUME NEW a \in Agent, AgentStep(a)
                PROVE  done' = done \/ done' = [done EXCEPT ![At[a]] = TRUE]
            BY ZenonT(40), <6>3 DEF AgentStep, PassCompleted, PassReadReceived, PassSend,
                 CancelLook, CancelWake
          <6>4. CASE Finished \/ UNCHANGED vars
            BY SMTT(30), <6>4 DEF Finished, vars
          <6> QED BY ZenonT(40), <2>3, <6>0, <6>1, <6>2, <6>3, <6>4 DEF Next, Agent
        <5> QED BY SMTT(30), <4>1, <5>0, <5>1
      <4> QED BY <4>1 DEF Detected
    <3>4. CASE ~Detected /\ Detected'
      BY Zenon, <2>1, <3>2, <3>4 DEF Detection!Next, Detection!Detect, Busy, Detected
    <3>5. CASE Detected' <=> Detected
      BY <2>1, <3>1, <3>5 DEF Detection!Next, Detection!Compute, Busy, Detected
    <3> QED BY SMTT(30), <3>3, <3>4, <3>5
  <2> QED BY <2>2, <2>3
<1> QED
  BY <1>1, <1>2, DetectInvariant, PTL DEF Spec

==============================================================================

----------------------------- MODULE TokenProofs ------------------------------
(***************************************************************************)
(* What async_consensus counts, for every number of processes, threads and  *)
(* handlers and every number of tasks, calls and runs: there is one token,  *)
(* numactive counts the threads that are awake, and every call is counted   *)
(* once when it is sent and once when it has been handled.  The counters    *)
(* that the token has seen stay below them.                                 *)
(***************************************************************************)
EXTENDS AsyncConsensusProofs

(* The token.                                                                *)


\* The mutex m of a process has one holder.
MutexInv ==
  \A a, b \in Agent : At[a] = At[b] /\ pc[a] \in Holding /\ pc[b] \in Holding => a = b

\* The token is held by one process, or on its way to one.
HeldBy(p) == token = {} /\ \A q \in Proc : hastoken[q] <=> q = p
OnItsWay == (\A q \in Proc : ~hastoken[q]) /\ \E x \in token : token = {x}

\* Whoever is in pass_the_token has the token and nobody has found consensus; once
\* somebody has, the token stays with a process that knows, and the others are told.
TokenInv ==
  /\ OnItsWay \/ \E p \in Proc : HeldBy(p)
  /\ \A a \in Agent : pc[a] \in {"passing", "sending"} => hastoken[At[a]] /\ ~Detected
  /\ \/ ~Detected /\ forced = {}
     \/ (\E p \in Proc : done[p] /\ hastoken[p]) /\ forced = {q \in Proc : ~done[q]}

RingInv == TypeOK /\ PcInv /\ MutexInv /\ TokenInv

LEMMA MutexNext ==
  ASSUME TypeOK, PcInv, MutexInv, [Next]_vars
  PROVE  MutexInv'
<1>a. /\ \A x \in Thread : x \in Agent /\ x \notin Handler
      /\ \A x \in Handler : x \in Agent /\ x \notin Thread
  BY ConsensusAssumption DEF Agent
<1>b. pc \in [Agent -> Label]
  BY DEF TypeOK
<1>1. ASSUME NEW a \in Agent, NEW l, pc' = [pc EXCEPT ![a] = l],
             l \notin Holding \/ pc[a] \in Holding \/ Free(At[a])
      PROVE  MutexInv'
  BY <1>b, <1>1 DEF MutexInv, Free
<1> USE DEF Goto
<1>2. ASSUME NEW t \in Thread, ThreadStep(t) PROVE MutexInv'
  <2> USE <1>a, <1>1, <1>2
  <2>1. CASE TakeTask(t)
    BY Zenon, <2>1 DEF TakeTask, Holding
  <2>2. CASE BeginDone(t)
    BY Zenon, <2>2 DEF BeginDone, Holding
  <2>3. CASE EnterCriticalSection(t)
    BY ZenonT(40), <2>3 DEF EnterCriticalSection, Holding
  <2>4. CASE CheckAgain(t)
    BY SMTT(20), <2>4 DEF CheckAgain, Holding
  <2>5. CASE EndDone(t)
    BY <2>5 DEF EndDone, Holding
  <2>6. CASE WakeUp(t)
    BY ZenonT(40), <2>6 DEF WakeUp, Holding
  <2>7. CASE TaskQueues(t)
    BY <2>7 DEF TaskQueues, QueueTask, Cancel, Holding
  <2>8. CASE TaskEnds(t)
    BY Zenon, <2>8 DEF TaskEnds, Holding
  <2>9. CASE \E q \in Proc : TaskSends(t, q)
    BY Zenon, <2>9 DEF TaskSends, MutexInv
  <2> QED
    BY Zenon, <2>1, <2>2, <2>3, <2>4, <2>5, <2>6, <2>7, <2>8, <2>9 DEF ThreadStep
<1>3. ASSUME NEW h \in Handler, HandlerStep(h) PROVE MutexInv'
  BY Zenon, <1>a, <1>1, <1>3 DEF HandlerStep, ReceiveTheToken, ForceDone, ReceiveCall,
     HandlerQueues, CountCall, HandlerForwards, QueueTask, Cancel, Holding
<1>4. ASSUME NEW a \in Agent, AgentStep(a) PROVE MutexInv'
  <2>1. CASE PassCompleted(a) \/ PassSend(a) \/ PassReadReceived(a)
    BY Zenon, <1>1, <2>1 DEF PassCompleted, PassSend, PassReadReceived, PassReturns, Holding
  <2>2. CASE CancelLook(a) \/ CancelWake(a)
    <3>1. after[a] \notin Holding
      BY SMTT(20) DEF TypeOK, Holding
    <3> QED BY SMTT(30), <1>1, <2>2, <3>1 DEF CancelLook, CancelWake, Return, Holding
  <2> QED BY <1>4, <2>1, <2>2 DEF AgentStep
<1>5. CASE Restart
  BY SMTT(20), <1>5, <1>a DEF Restart, MutexInv, Holding
<1>6. CASE Finished \/ UNCHANGED vars
  BY SMTT(30), <1>6 DEF Finished, vars, MutexInv
<1> QED
  BY <1>2, <1>3, <1>4, <1>5, <1>6 DEF Next

\* Steps that touch neither the token nor done, and do not enter pass_the_token.
LEMMA TokenKeptInv ==
  ASSUME TokenInv, UNCHANGED <<hastoken, token, done, forced>>,
         \A a \in Agent : pc'[a] \in {"passing", "sending"} => pc[a] \in {"passing", "sending"}
  PROVE  TokenInv'
  BY DEF TokenInv, OnItsWay, HeldBy, Detected

\* A step of a thread preserves TokenInv.
LEMMA TokenThread ==
  ASSUME TypeOK, TokenInv, NEW t \in Thread, ThreadStep(t)
  PROVE  TokenInv'
<1>0. t \in Agent /\ At[t] \in Proc
  BY ConsensusAssumption DEF Agent
<1>a. pc \in [Agent -> Label]
  BY DEF TypeOK
<1>b. UNCHANGED <<hastoken, token, done, forced>>
  BY Zenon DEF ThreadStep, TakeTask, BeginDone, EnterCriticalSection, CheckAgain, EndDone,
         WakeUp, TaskQueues, TaskEnds, TaskSends, tokens
<1> USE <1>0, <1>a DEF Goto
<1>1. CASE EndDone(t)
  <2>1. pc'[t] \in {"passing", "sending"} => hastoken[At[t]] /\ ~done[At[t]]
    BY Zenon, <1>1 DEF EndDone
  <2>2. \A a \in Agent : a # t => pc'[a] = pc[a]
    BY Zenon, <1>1 DEF EndDone
  <2>3. hastoken[At[t]] /\ ~done[At[t]] => ~Detected
    BY Zenon DEF TokenInv, OnItsWay, HeldBy, Detected
  <2> QED BY Zenon, <1>b, <2>1, <2>2, <2>3 DEF TokenInv, OnItsWay, HeldBy, Detected
<1>2. CASE ~EndDone(t)
  <2>1. \A a \in Agent : pc'[a] \in {"passing", "sending"} => pc[a] \in {"passing", "sending"}
    BY Zenon, <1>2 DEF ThreadStep, TakeTask, BeginDone, EnterCriticalSection, CheckAgain,
         WakeUp, TaskQueues, QueueTask, Cancel, TaskEnds, TaskSends
  <2> QED BY <1>b, <2>1, TokenKeptInv
<1> QED
  BY <1>1, <1>2

\* A step of a handler preserves TokenInv.
LEMMA TokenHandler ==
  ASSUME TypeOK, MutexInv, TokenInv, NEW h \in Handler, HandlerStep(h)
  PROVE  TokenInv'
<1>0. h \in Agent /\ At[h] \in Proc
  BY ConsensusAssumption DEF Agent
<1>a. pc \in [Agent -> Label] /\ done \in [Proc -> BOOLEAN] /\ hastoken \in [Proc -> BOOLEAN]
  BY SMTT(20) DEF TypeOK
<1> USE <1>0, <1>a DEF Goto
<1>1. CASE ReceiveTheToken(h)
  <2>1. PICK x \in token : x.to = At[h] /\ token' = token \ {x}
    BY <1>1, ZenonT(40) DEF ReceiveTheToken
  <2>2. OnItsWay /\ token' = {}
    BY <2>1 DEF TokenInv, OnItsWay, HeldBy
  <2>3. ~Detected /\ forced = {}
    BY <2>2 DEF TokenInv, OnItsWay
  <2>4. UNCHANGED <<done, forced>> /\ hastoken' = [hastoken EXCEPT ![At[h]] = TRUE]
    BY <1>1, Zenon DEF ReceiveTheToken
  <2>5. HeldBy(At[h])'
    BY SMTT(20), <2>2, <2>4 DEF OnItsWay, HeldBy
  <2>6. \A a \in Agent : a # h => pc'[a] \notin {"passing", "sending"}
    <3>1. \A a \in Agent : At[a] \in Proc
      BY ConsensusAssumption
    <3> QED BY <1>1, <2>2, <3>1 DEF TokenInv, OnItsWay, ReceiveTheToken
  <2>7. hastoken'[At[h]]
    BY SMTT(20), <2>4
  <2> QED BY <2>3, <2>4, <2>5, <2>6, <2>7 DEF TokenInv, Detected
<1>2. CASE ForceDone(h)
  <2>1. /\ UNCHANGED <<hastoken, token>> /\ done' = [done EXCEPT ![At[h]] = TRUE]
        /\ forced' = forced \ {At[h]} /\ At[h] \in forced
    BY <1>2 DEF ForceDone, tokens
  <2>2. Detected /\ (\E p \in Proc : done[p] /\ hastoken[p]) /\ forced = {q \in Proc : ~done[q]}
    BY SMTT(30), <2>1 DEF TokenInv, Detected
  <2>3. \A a \in Agent : pc'[a] \notin {"passing", "sending"}
    BY <1>2, <2>2 DEF TokenInv, ForceDone, Cancel
  <2>4. (\E p \in Proc : done'[p] /\ hastoken'[p]) /\ forced' = {q \in Proc : ~done'[q]}
    BY <2>1, <2>2
  <2>5. (OnItsWay \/ \E p \in Proc : HeldBy(p))'
    BY SMTT(20), <2>1 DEF TokenInv, OnItsWay, HeldBy
  <2> QED BY <2>3, <2>4, <2>5 DEF TokenInv
<1>3. CASE ~ReceiveTheToken(h) /\ ~ForceDone(h)
  <2>1. UNCHANGED <<hastoken, token, done, forced>>
    BY SMTT(20), <1>3 DEF HandlerStep, ReceiveCall, HandlerQueues, CountCall,
                          HandlerForwards, tokens
  <2>2. \A a \in Agent : pc'[a] \in {"passing", "sending"} => pc[a] \in {"passing", "sending"}
    BY <1>3 DEF HandlerStep, ReceiveCall, HandlerQueues, CountCall, HandlerForwards,
                QueueTask, Cancel
  <2> QED BY SMTT(20), <2>1, <2>2, TokenKeptInv
<1> QED
  BY <1>1, <1>2, <1>3

\* A step of pass_the_token, cancel() or cancel_one() preserves TokenInv.
LEMMA TokenAgent ==
  ASSUME TypeOK, MutexInv, TokenInv, NEW a \in Agent, AgentStep(a)
  PROVE  TokenInv'
<1>0. At[a] \in Proc
  BY ConsensusAssumption
<1>a. /\ pc \in [Agent -> Label] /\ done \in [Proc -> BOOLEAN]
      /\ hastoken \in [Proc -> BOOLEAN]
  BY SMTT(30) DEF TypeOK
<1>b. ASSUME pc[a] \in {"passing", "sending"}
      PROVE  /\ HeldBy(At[a]) /\ ~Detected /\ forced = {}
             /\ \A b \in Agent : b # a => pc[b] \notin {"passing", "sending"}
  <2>1. HeldBy(At[a]) /\ ~Detected /\ forced = {}
    BY SMTT(20), <1>0, <1>b DEF TokenInv, OnItsWay, HeldBy, Detected
  <2>2. ASSUME NEW b \in Agent, pc[b] \in {"passing", "sending"} PROVE b = a
    <3>1. At[b] \in Proc /\ hastoken[At[b]]
      BY SMTT(30), <2>2, ConsensusAssumption DEF TokenInv
    <3>2. At[b] = At[a]
      BY SMTT(30), <2>1, <3>1 DEF HeldBy
    <3> QED BY SMTT(20), <1>b, <2>2, <3>2 DEF MutexInv, Holding
  <2> QED BY SMTT(20), <2>1, <2>2
<1> USE <1>0, <1>a DEF Goto
<1>c. ASSUME PassReturns(a)
      PROVE  /\ pc'[a] \notin {"passing", "sending"}
             /\ \A b \in Agent : b # a => pc'[b] = pc[b]
  BY SMTT(20), <1>c DEF PassReturns
<1>1. CASE PassCompleted(a)
  <2>1. /\ pc[a] = "passing" /\ PassReturns(a) /\ UNCHANGED <<hastoken, token>>
        /\ forced' = forced \cup (Proc \ {At[a]})
        /\ done' = [done EXCEPT ![At[a]] = TRUE]
    BY <1>1 DEF PassCompleted, tokens
  <2>2. \A b \in Agent : pc'[b] \notin {"passing", "sending"}
    BY Zenon, <1>b, <1>c, <2>1
  <2>3. HeldBy(At[a])' /\ hastoken'[At[a]] /\ done'[At[a]]
    BY <1>b, <2>1 DEF HeldBy
  <2>4. forced' = {q \in Proc : ~done'[q]}
    BY SMTT(30), <1>b, <2>1 DEF Detected
  <2> QED BY SMTT(30), <2>2, <2>3, <2>4 DEF TokenInv
<1>2. CASE PassReadReceived(a)
  <2>1. UNCHANGED <<hastoken, token, done, forced>>
    BY SMTT(30), <1>2 DEF PassReadReceived, tokens
  <2>2. \A b \in Agent : pc'[b] \in {"passing", "sending"} => pc[b] \in {"passing", "sending"}
    BY SMTT(20), <1>2 DEF PassReadReceived
  <2> QED BY SMTT(30), <2>1, <2>2, TokenKeptInv
<1>3. CASE PassSend(a)
  <2>1. /\ pc[a] = "sending" /\ PassReturns(a) /\ UNCHANGED <<done, forced>>
        /\ hastoken' = [hastoken EXCEPT ![At[a]] = FALSE]
        /\ \E x : token' = token \cup {x}
    BY <1>3, ZenonT(40) DEF PassSend, TokenGone
  <2>2. \A b \in Agent : pc'[b] \notin {"passing", "sending"}
    BY <1>b, <1>c, <2>1
  <2>3. OnItsWay'
    BY <1>b, <2>1 DEF HeldBy, OnItsWay
  <2>4. ~Detected' /\ forced' = {}
    BY SMTT(30), <1>b, <2>1 DEF Detected
  <2> QED BY <2>2, <2>3, <2>4 DEF TokenInv
<1>4. CASE CancelLook(a) \/ CancelWake(a)
  <2>1. UNCHANGED <<hastoken, token, done, forced>>
    BY SMTT(30), <1>4 DEF CancelLook, CancelWake, tokens
  <2>2. after[a] \notin {"passing", "sending"}
    BY SMTT(20) DEF TypeOK
  <2>3. \A b \in Agent : pc'[b] \in {"passing", "sending"} => pc[b] \in {"passing", "sending"}
    BY <1>4, <2>2 DEF CancelLook, CancelWake, Return
  <2> QED BY <2>1, <2>3, TokenKeptInv
<1> QED
  BY <1>1, <1>2, <1>3, <1>4 DEF AgentStep

\* The token and the force_done calls of the last run are gone when the next starts.
LEMMA TokenRestart ==
  ASSUME TypeOK, PcInv, TokenInv, Restart
  PROVE  TokenInv'
<1>1. ASSUME NEW p \in Proc PROVE done[p]
  <2>1. PICK t \in Thread : At[t] = p
    BY ConsensusAssumption, Zenon
  <2>2. pc[t] = "left"
    BY Zenon DEF Restart
  <2> QED BY Zenon, <2>1, <2>2 DEF PcInv
<1>2. 0 \in Proc
  BY SMTT(20), RingClosed
<1>3. token = {} /\ forced = {} /\ \A a \in Agent : pc[a] \notin {"passing", "sending"}
  BY SMTT(30), <1>1, <1>2 DEF TokenInv, HeldBy, OnItsWay, Detected
<1>4. \A a \in Agent : pc'[a] \notin {"passing", "sending"}
  BY <1>3 DEF Restart
<1>5. /\ hastoken' = [p \in Proc |-> p = 0] /\ done' = [p \in Proc |-> FALSE]
      /\ UNCHANGED <<token, forced>>
  BY DEF Restart
<1>6. HeldBy(0)'
  BY Zenon, <1>3, <1>5 DEF HeldBy
<1> QED
  BY Zenon, <1>2, <1>3, <1>4, <1>5, <1>6 DEF TokenInv, Detected

LEMMA RingInvariant == Spec => []RingInv
<1>1. Init => RingInv
  <2> SUFFICES ASSUME Init PROVE MutexInv /\ TokenInv
    BY TypeInit, PcInit DEF RingInv
  <2>1. \A a \in Agent : pc[a] \in {"run", "idle"}
    BY DEF Init
  <2>2. 0 \in Proc /\ HeldBy(0) /\ ~Detected /\ forced = {}
    BY Zenon, RingClosed DEF Init, HeldBy, Detected
  <2> QED BY <2>1, <2>2 DEF MutexInv, TokenInv, Holding
<1>2. RingInv /\ [Next]_vars => RingInv'
  <2> SUFFICES ASSUME RingInv, [Next]_vars PROVE RingInv'
    OBVIOUS
  <2> USE DEF RingInv
  <2>1. TypeOK' /\ PcInv' /\ MutexInv'
    BY TypeNext, PcNext, MutexNext
  <2>2. TokenInv'
    <3>1. CASE Finished \/ UNCHANGED vars
      BY <3>1, TokenKeptInv DEF Finished, vars
    <3> QED BY SMTT(30), <3>1, TokenThread, TokenHandler, TokenAgent, TokenRestart DEF Next
  <2> QED BY <2>1, <2>2
<1> QED
  BY <1>1, <1>2, PTL DEF Spec

\* There is exactly one token, in every process count and across every reset(): the
\* force_done calls and the token of a run are consumed before the next one starts.
THEOREM SingleToken == Spec => []OneToken
<1>1. RingInv => OneToken
  <2> SUFFICES ASSUME RingInv PROVE OneToken
    OBVIOUS
  <2> DEFINE H == {p \in Proc : hastoken[p]}
  <2>1. CASE OnItsWay
    <3>1. H = {} /\ \E x : token = {x}
      BY <2>1 DEF OnItsWay
    <3>2. Cardinality(H) = 0 /\ Cardinality(token) = 1
      BY SMTT(20), <3>1, FS_EmptySet, FS_Singleton
    <3> QED BY <3>2 DEF OneToken
  <2>2. ASSUME NEW p \in Proc, HeldBy(p) PROVE OneToken
    <3>1. H = {p} /\ token = {}
      BY <2>2 DEF HeldBy
    <3>2. Cardinality(H) = 1 /\ Cardinality(token) = 0
      BY <3>1, FS_EmptySet, FS_Singleton
    <3> QED BY <3>2 DEF OneToken
  <2> QED BY <2>1, <2>2 DEF RingInv, TokenInv
<1> QED
  BY RingInvariant, <1>1, PTL

-----------------------------------------------------------------------------
(* The count of active threads.                                              *)

Running(p) == {t \in ThreadsOf(p) : ~sleeping[t] /\ pc[t] \notin {"passing", "sending"}}

\* The size of a disjoint union.
LEMMA DisjointUnion ==
  ASSUME NEW S, NEW T, IsFiniteSet(S), IsFiniteSet(T), S \cap T = {}
  PROVE  Cardinality(S \cup T) = Cardinality(S) + Cardinality(T)
<1>1. Cardinality(S \cup T) = Cardinality(S) + Cardinality(T) - Cardinality(S \cap T)
  BY FS_Union
<1>2. Cardinality(S \cap T) = 0
  BY FS_EmptySet
<1>3. Cardinality(S) \in Nat /\ Cardinality(T) \in Nat
  BY SMTT(30), FS_CardinalityType
<1> QED
  BY <1>1, <1>2, <1>3

\* A step that changes neither the threads that run nor their count.
LEMMA CountKept ==
  ASSUME NEW p \in Proc, NumActiveValid, ~done[p], numactive'[p] = numactive[p],
         \A t \in ThreadsOf(p) :
            ~sleeping'[t] /\ pc'[t] \notin {"passing", "sending"}
              <=> ~sleeping[t] /\ pc[t] \notin {"passing", "sending"}
  PROVE  numactive'[p] = Cardinality(Running(p)')
<1>1. Running(p)' = Running(p)
  BY SMTT(20) DEF Running, ThreadsOf
<1>2. numactive[p] = Cardinality(Running(p))
  BY SMTT(20) DEF NumActiveValid, Running
<1> QED
  BY SMTT(30), <1>1, <1>2

\* A step of a thread keeps the count right: end_done_critical_section lowers it by
\* one, for the one thread that goes to sleep or passes the token.
LEMMA CountThread ==
  ASSUME TypeOK, PcInv, NumActiveValid, NEW t \in Thread, ThreadStep(t),
         NEW p \in Proc, ~done'[p]
  PROVE  numactive'[p] = Cardinality(Running(p)')
<1>0. t \in Agent /\ At[t] \in Proc /\ \A x \in Thread : x \in Agent
  BY ConsensusAssumption DEF Agent
<1>a. /\ pc \in [Agent -> Label] /\ sleeping \in [Thread -> BOOLEAN]
      /\ numactive \in [Proc -> Int]
  BY DEF TypeOK
<1>b. ~done[p]
  BY ZenonT(40) DEF ThreadStep, TakeTask, BeginDone, EnterCriticalSection, CheckAgain, EndDone,
         WakeUp, TaskQueues, TaskEnds, TaskSends
<1> USE <1>0, <1>a DEF Goto
<1>1. CASE EndDone(t) /\ p = At[t]
  <2>1. t \in Running(p)
    BY Zenon, <1>1 DEF EndDone, PcInv, Running, ThreadsOf
  <2>2. Running(p)' = Running(p) \ {t}
    BY Zenon, <1>1, <1>b DEF EndDone, Running, ThreadsOf
  <2>3. numactive'[p] = numactive[p] - 1 /\ numactive[p] = Cardinality(Running(p))
    BY Zenon, <1>1, <1>b DEF EndDone, NumActiveValid, Running
  <2>4. IsFiniteSet(Running(p))
    BY Zenon, ThreadsFinite DEF Running
  <2>5. Cardinality(Running(p) \ {t}) = Cardinality(Running(p)) - 1
    BY Zenon, <2>1, <2>4, FS_RemoveElement
  <2> QED BY <2>2, <2>3, <2>5
<1>2. CASE EndDone(t) /\ p # At[t]
  <2>1. \A x \in ThreadsOf(p) : sleeping'[x] = sleeping[x] /\ pc'[x] = pc[x]
    BY ZenonT(40), <1>2 DEF EndDone, ThreadsOf
  <2>2. numactive'[p] = numactive[p]
    <3>1. numactive' = numactive \/ numactive' = [numactive EXCEPT ![At[t]] = @ - 1]
      BY <1>2, Zenon DEF EndDone
    <3> QED BY <1>2, <3>1
  <2>3. \A x \in ThreadsOf(p) :
            ~sleeping'[x] /\ pc'[x] \notin {"passing", "sending"}
              <=> ~sleeping[x] /\ pc[x] \notin {"passing", "sending"}
    BY <2>1, ZenonT(40)
  <2> QED BY <1>b, <2>2, <2>3, CountKept, ZenonT(40)
<1>3. CASE ~EndDone(t)
  <2>1. UNCHANGED <<numactive, sleeping>>
    BY Zenon, <1>3 DEF ThreadStep, TakeTask, BeginDone, EnterCriticalSection, CheckAgain, 
         WakeUp, TaskQueues, TaskEnds, TaskSends
  <2>2. \A x \in Thread : pc'[x] \in {"passing", "sending"} <=> pc[x] \in {"passing", "sending"}
    BY Zenon, <1>3 DEF ThreadStep, TakeTask, BeginDone, EnterCriticalSection, CheckAgain,
         WakeUp, TaskQueues, QueueTask, Cancel, TaskEnds, TaskSends
  <2> QED BY <1>b, <2>1, <2>2, CountKept DEF ThreadsOf
<1> QED
  BY <1>1, <1>2, <1>3

\* A step of a handler does not touch the count.
LEMMA CountHandler ==
  ASSUME TypeOK, NumActiveValid, NEW h \in Handler, HandlerStep(h), NEW p \in Proc, ~done'[p]
  PROVE  numactive'[p] = Cardinality(Running(p)')
<1>0. /\ h \in Agent /\ At[h] \in Proc /\ \A x \in Thread : x \in Agent /\ x # h
      /\ pc \in [Agent -> Label] /\ done \in [Proc -> BOOLEAN]
  BY ConsensusAssumption DEF Agent, TypeOK
<1>1. ~done[p] /\ UNCHANGED <<numactive, sleeping>>
  BY Zenon, <1>0 DEF HandlerStep, ReceiveTheToken, ForceDone, ReceiveCall, HandlerQueues,
         CountCall, HandlerForwards
<1>2. \A x \in Thread : pc'[x] = pc[x]
  BY Zenon, <1>0 DEF HandlerStep, ReceiveTheToken, ForceDone, ReceiveCall, HandlerQueues,
         CountCall, HandlerForwards, QueueTask, Cancel, Goto
<1> QED
  BY ZenonT(40), <1>1, <1>2, CountKept DEF ThreadsOf

\* cancel() and cancel_one() count exactly the threads they wake.
LEMMA CountAgent ==
  ASSUME TypeOK, PcInv, NumActiveValid, NEW a \in Agent, AgentStep(a), NEW p \in Proc,
         ~done'[p]
  PROVE  numactive'[p] = Cardinality(Running(p)')
<1>0. At[a] \in Proc /\ \A x \in Thread : x \in Agent
  BY SMTT(30), ConsensusAssumption DEF Agent
<1>a. /\ pc \in [Agent -> Label] /\ sleeping \in [Thread -> BOOLEAN]
      /\ numactive \in [Proc -> Int] /\ done \in [Proc -> BOOLEAN]
      /\ after[a] \notin {"passing", "sending"}
  BY DEF TypeOK
<1>b. ~done[p] /\ (PassCompleted(a) => p # At[a])
  BY Zenon, <1>0, <1>a DEF AgentStep, PassCompleted, PassReadReceived, PassSend, CancelLook,
                           CancelWake
<1>c. \A x \in Thread : sleeping[x] => pc[x] \notin {"passing", "sending"}
  BY Zenon DEF PcInv
<1> USE <1>0, <1>a DEF Goto
<1>1. CASE PassCompleted(a) \/ PassSend(a)
  <2>1. numactive'[p] = numactive[p]
    BY Zenon, <1>1, <1>b DEF PassCompleted, PassSend
  <2>2. /\ PassReturns(a) /\ pc[a] \in {"passing", "sending"}
        /\ p = At[a] => ~done'[At[a]]
    BY <1>1, ZenonT(40) DEF PassCompleted, PassSend
  <2>3. \A x \in ThreadsOf(p) :
            ~sleeping'[x] /\ pc'[x] \notin {"passing", "sending"}
              <=> ~sleeping[x] /\ pc[x] \notin {"passing", "sending"}
    BY <2>2 DEF PassReturns, ThreadsOf
  <2> QED BY Zenon, <1>b, <2>1, <2>3, CountKept
<1>2. CASE PassReadReceived(a) \/ CancelLook(a)
  <2>1. UNCHANGED <<numactive, sleeping>>
    BY Zenon, <1>2 DEF PassReadReceived, CancelLook
  <2>2. \A x \in Thread : pc'[x] \in {"passing", "sending"} <=> pc[x] \in {"passing", "sending"}
    BY Zenon, <1>2 DEF PassReadReceived, CancelLook, Return
  <2> QED BY Zenon, <1>b, <2>1, <2>2, CountKept DEF ThreadsOf
<1>3. CASE CancelWake(a)
  <2> DEFINE woken == wake[a] \cap Asleep(At[a])
  <2>1. /\ numactive' = [numactive EXCEPT ![At[a]] = @ + Cardinality(woken)]
        /\ sleeping' = [t \in Thread |-> sleeping[t] /\ t \notin woken]
        /\ pc' = [pc EXCEPT ![a] = after[a]] /\ pc[a] = "waking"
    BY <1>3 DEF CancelWake, Counted, Return
  <2>2. \A x \in Thread : pc'[x] \in {"passing", "sending"} <=> pc[x] \in {"passing", "sending"}
    BY Zenon, <2>1
  <2>3. woken \subseteq ThreadsOf(At[a]) /\ \A x \in woken : sleeping[x]
    BY Zenon DEF Asleep
  <2> HIDE DEF woken
  <2>4. CASE p = At[a]
    <3>1. Running(p)' = Running(p) \cup woken
      BY Zenon, <1>c, <2>1, <2>2, <2>3, <2>4 DEF Running, ThreadsOf
    <3>2. Running(p) \cap woken = {}
      BY Zenon, <2>3 DEF Running
    <3>3. IsFiniteSet(Running(p)) /\ IsFiniteSet(woken)
      <4>1. Running(p) \subseteq ThreadsOf(p) /\ woken \subseteq ThreadsOf(p)
        BY <2>3, <2>4, Zenon DEF Running
      <4>2. \A S \in SUBSET ThreadsOf(p) : IsFiniteSet(S)
        BY ThreadsFinite, ZenonT(40)
      <4> QED BY <4>1, <4>2, Zenon
    <3>4. Cardinality(Running(p) \cup woken) = Cardinality(Running(p)) + Cardinality(woken)
      BY ZenonT(40), <3>2, <3>3, DisjointUnion
    <3>5. numactive[p] = Cardinality(Running(p))
      BY <1>b DEF NumActiveValid, Running
    <3> QED BY Zenon, <2>1, <2>4, <3>1, <3>4, <3>5
  <2>5. CASE p # At[a]
    <3>1. \A x \in ThreadsOf(p) : sleeping'[x] = sleeping[x]
      BY SMTT(30), <2>1, <2>3, <2>5 DEF ThreadsOf
    <3>2. numactive'[p] = numactive[p]
      BY SMTT(30), <2>1, <2>5
    <3> QED BY ZenonT(40), <1>b, <2>2, <3>1, <3>2, CountKept DEF ThreadsOf
  <2> QED BY ZenonT(40), <2>4, <2>5
<1> QED
  BY Zenon, <1>1, <1>2, <1>3 DEF AgentStep

\* When the threads start, in the first or a later run, all of them are counted.
LEMMA CountStart ==
  ASSUME NEW p \in Proc
  PROVE  /\ Init => numactive[p] = Cardinality(Running(p))
         /\ Restart => numactive'[p] = Cardinality(Running(p)')
<1>1. Init => Running(p) = ThreadsOf(p) /\ numactive[p] = ncpus(p)
  BY SMTT(30) DEF Init, Running, ThreadsOf, Agent
<1>2. Restart => Running(p)' = ThreadsOf(p) /\ numactive'[p] = ncpus(p)
  BY DEF Restart, Running, ThreadsOf, Agent
<1> QED
  BY SMTT(30), <1>1, <1>2 DEF ncpus

\* numactive is a valid counter of the threads outside the critical section in every
\* reachable state before consensus: however cancel() and cancel_one() calls of threads
\* and handlers interleave, no thread is counted twice and none is missed, so the test
\* numactive == 0 really finds the last one.
THEOREM NumActiveCorrect == Spec => []NumActiveValid
<1>1. Init => NumActiveValid
  BY ZenonT(40), CountStart DEF NumActiveValid, Running
<1>2. TypeOK /\ PcInv /\ NumActiveValid /\ [Next]_vars => NumActiveValid'
  <2> SUFFICES ASSUME TypeOK, PcInv, NumActiveValid, [Next]_vars, NEW p \in Proc, ~done'[p]
               PROVE  numactive'[p] = Cardinality(Running(p)')
    BY SMTT(20) DEF NumActiveValid, Running, ThreadsOf
  <2>1. CASE Finished \/ UNCHANGED vars
    BY <2>1, CountKept DEF Finished, vars
  <2>2. ASSUME NEW t \in Thread, ThreadStep(t) PROVE numactive'[p] = Cardinality(Running(p)')
    BY <2>2, CountThread
  <2>3. ASSUME NEW h \in Handler, HandlerStep(h) PROVE numactive'[p] = Cardinality(Running(p)')
    BY <2>3, CountHandler
  <2>4. ASSUME NEW a \in Agent, AgentStep(a) PROVE numactive'[p] = Cardinality(Running(p)')
    BY <2>4, CountAgent
  <2>5. CASE Restart
    BY <2>5, CountStart
  <2> QED BY Zenon, <2>1, <2>2, <2>3, <2>4, <2>5 DEF Next
<1> QED
  BY <1>1, <1>2, SleepInvariant, PTL DEF Spec, SleepInv

-----------------------------------------------------------------------------
(* Totals over the processes.  A total is the size of the set of the units   *)
(* counted, so that it rises with each unit, is monotone, and determines the  *)
(* counters below it.                                                        *)

Units(f) == {u \in Proc \X Nat : u[2] < f[u[1]]}
Total(f) == Cardinality(Units(f))

LEMMA UnitsFinite ==
  ASSUME NEW f \in [Proc -> Nat]
  PROVE  IsFiniteSet(Units(f)) /\ Total(f) \in Nat
<1> DEFINE g == [p \in Proc |-> {p} \X (0..(f[p] - 1))]
           R == {g[p] : p \in Proc}
<1>1. IsFiniteSet(Proc)
  BY FS_Interval, ConsensusAssumption DEF Proc
<1>2. g \in Surjection(Proc, R)
  BY Zenon DEF Surjection
<1>3. IsFiniteSet(R)
  BY <1>1, <1>2, FS_Surjection
<1>4. ASSUME NEW p \in Proc PROVE IsFiniteSet(g[p])
  <2>1. IsFiniteSet({p})
    BY FS_Singleton
  <2>2. 0 \in Int /\ f[p] - 1 \in Int
    OBVIOUS
  <2>3. IsFiniteSet(0..(f[p] - 1))
    BY <2>2, FS_Interval
  <2> QED BY <2>1, <2>3, FS_Product
<1>5. \A T \in R : IsFiniteSet(T)
  BY <1>4
<1>6. IsFiniteSet(UNION R)
  BY Zenon, <1>3, <1>5, FS_UNION
<1>7. ASSUME NEW u \in Units(f) PROVE u \in UNION R
  <2>1. u[1] \in Proc /\ u = <<u[1], u[2]>> /\ u[2] \in 0..(f[u[1]] - 1)
    BY <1>7 DEF Units
  <2>2. u \in g[u[1]]
    BY <2>1
  <2> QED BY <2>1, <2>2
<1>8. Units(f) \in SUBSET (UNION R)
  BY <1>7
<1> QED
  BY <1>6, <1>8, FS_Subset, FS_CardinalityType DEF Total

\* Raising one counter raises the total by as much.
LEMMA TotalRaised ==
  ASSUME NEW f \in [Proc -> Nat], NEW p \in Proc, NEW v \in Nat, f[p] <= v
  PROVE  Total([f EXCEPT ![p] = v]) = Total(f) + (v - f[p])
<1> DEFINE new == {p} \X (f[p]..(v - 1))
           g == [f EXCEPT ![p] = v]
<1>1. g \in [Proc -> Nat] /\ g[p] = v /\ \A q \in Proc \ {p} : g[q] = f[q]
  OBVIOUS
<1>2. IsFiniteSet(new) /\ Cardinality(new) = v - f[p]
  <2>1. IsFiniteSet({p}) /\ Cardinality({p}) = 1
    BY FS_Singleton
  <2>a. f[p] \in Int /\ v - 1 \in Int
    OBVIOUS
  <2>b. /\ IsFiniteSet(f[p]..(v - 1))
        /\ Cardinality(f[p]..(v - 1)) = IF f[p] > v - 1 THEN 0 ELSE (v - 1) - f[p] + 1
    BY Zenon, <2>a, FS_Interval
  <2>2. IsFiniteSet(f[p]..(v - 1)) /\ Cardinality(f[p]..(v - 1)) = v - f[p]
    BY <2>b
  <2>3. IsFiniteSet(new)
        /\ Cardinality(new) = Cardinality({p}) * Cardinality(f[p]..(v - 1))
    BY Zenon, <2>1, <2>2, FS_Product
  <2> QED BY <2>1, <2>2, <2>3
<1> HIDE DEF g
<1>3. Units(g) = Units(f) \cup new
  <2>1. ASSUME NEW u \in Proc \X Nat PROVE u \in Units(g) <=> u \in Units(f) \cup new
    <3>1. PICK q \in Proc, i \in Nat : u = <<q, i>>
      BY <2>1
    <3>2. u \in Units(g) <=> i < g[q]
      BY <3>1 DEF Units
    <3>3. u \in Units(f) <=> i < f[q]
      BY <3>1 DEF Units
    <3>4. u \in new <=> q = p /\ i \in f[p]..(v - 1)
      BY <3>1
    <3> QED BY <1>1, <3>2, <3>3, <3>4
  <2>2. new \subseteq Proc \X Nat
    OBVIOUS
  <2> QED BY <2>1, <2>2 DEF Units
<1>4. Units(f) \cap new = {}
  BY DEF Units
<1>5. IsFiniteSet(Units(f)) /\ Total(f) \in Nat
  BY UnitsFinite
<1>6. Total(g) = Total(f) + Cardinality(new)
  BY <1>2, <1>3, <1>4, <1>5, DisjointUnion DEF Total
<1> QED
  BY <1>2, <1>6 DEF g

\* The total is monotone, and a total that is not smaller has no smaller counter.
LEMMA TotalMonotone ==
  ASSUME NEW f \in [Proc -> Nat], NEW g \in [Proc -> Nat], \A p \in Proc : f[p] <= g[p]
  PROVE  /\ Total(f) <= Total(g)
         /\ Total(f) = Total(g) => f = g
<1>1. Units(f) \subseteq Units(g)
  <2> SUFFICES ASSUME NEW u \in Proc \X Nat, u[2] < f[u[1]] PROVE u[2] < g[u[1]]
    BY DEF Units
  <2> QED OBVIOUS
<1>2. IsFiniteSet(Units(g))
  BY UnitsFinite
<1>3. /\ Total(f) <= Total(g)
      /\ Total(f) = Total(g) => Units(f) = Units(g)
  BY <1>1, <1>2, FS_Subset DEF Total
<1>4. ASSUME Units(f) = Units(g), NEW p \in Proc PROVE f[p] = g[p]
  <2>1. CASE f[p] < g[p]
    <3>1. <<p, f[p]>> \in Units(g)
      BY <2>1 DEF Units
    <3>2. <<p, f[p]>> \notin Units(f)
      BY DEF Units
    <3> QED BY <1>4, <3>1, <3>2
  <2> QED BY <2>1
<1> QED
  BY <1>3, <1>4

LEMMA TotalZero ==
  /\ Total([p \in Proc |-> 0]) = 0
  /\ \A f \in [Proc -> Nat] : Total(f) = 0 => \A p \in Proc : f[p] = 0
<1> DEFINE zero == [p \in Proc |-> 0]
<1>1. Units(zero) = {}
  BY DEF Units
<1>2. Total(zero) = 0
  BY <1>1, FS_EmptySet DEF Total
<1>3. ASSUME NEW f \in [Proc -> Nat], Total(f) = 0 PROVE \A p \in Proc : f[p] = 0
  <2>1. zero \in [Proc -> Nat] /\ \A p \in Proc : zero[p] <= f[p]
    OBVIOUS
  <2>2. zero = f
    BY <1>2, <1>3, <2>1, TotalMonotone
  <2> QED BY <2>2
<1> QED
  BY <1>2, <1>3

-----------------------------------------------------------------------------
(* Every call is counted once.                                               *)

\* Handler h runs a call that is not yet counted as received.
Handling(h) == pc[h] \in {"handle", "count"} \/ Queuing(h)
InHandler == {h \in Handler : Handling(h)}

\* A call that was sent is received, or on its way, or in a handler.
CallsInv ==
  Total(calls_sent) = Total(calls_received) + Total(inflight) + Cardinality(InHandler)

\* The handlers that run a call change only when a call arrives or is counted.
LEMMA HandlingThread ==
  ASSUME TypeOK, NEW t \in Thread, ThreadStep(t)
  PROVE  \A h \in Handler : pc'[h] = pc[h] /\ after'[h] = after[h]
<1>1. /\ pc' = pc \/ \E l : pc' = [pc EXCEPT ![t] = l]
      /\ after' = after \/ \E l : after' = [after EXCEPT ![t] = l]
  BY Zenon DEF ThreadStep, TakeTask, BeginDone, EnterCriticalSection, CheckAgain, EndDone,
               WakeUp, TaskQueues, QueueTask, Cancel, TaskEnds, TaskSends, locals, Goto
<1>2. pc \in [Agent -> Label] /\ after \in [Agent -> {"task", "count", "idle"}]
  BY DEF TypeOK
<1>3. \A h \in Handler : h \in Agent /\ h # t
  BY ConsensusAssumption DEF Agent
<1> QED
  BY <1>1, <1>2, <1>3

LEMMA HandlingHandler ==
  ASSUME TypeOK, NEW h \in Handler, HandlerStep(h)
  PROVE  /\ \A x \in Handler \ {h} : pc'[x] = pc[x] /\ after'[x] = after[x]
         /\ ReceiveCall(h) => ~Handling(h) /\ Handling(h)'
         /\ CountCall(h) => Handling(h) /\ ~Handling(h)'
         /\ HandlerQueues(h) \/ (\E q \in Proc : HandlerForwards(h, q))
              => Handling(h) /\ Handling(h)'
         /\ ReceiveTheToken(h) \/ ForceDone(h) => ~Handling(h) /\ ~Handling(h)'
<1>1. pc \in [Agent -> Label] /\ after \in [Agent -> {"task", "count", "idle"}]
  BY DEF TypeOK
<1>2. \A x \in Handler : x \in Agent
  BY DEF Agent
<1>3. /\ \E l : pc' = [pc EXCEPT ![h] = l]
      /\ after' = after \/ \E l : after' = [after EXCEPT ![h] = l]
  BY Zenon DEF HandlerStep, ReceiveTheToken, ForceDone, ReceiveCall, HandlerQueues,
               CountCall, HandlerForwards, QueueTask, Cancel, locals, Goto
<1>4. \A x \in Handler \ {h} : pc'[x] = pc[x] /\ after'[x] = after[x]
  BY <1>1, <1>2, <1>3
<1> USE <1>1, <1>2 DEF Handling, Queuing, Cancelling, Goto
<1>5. ReceiveCall(h) => ~Handling(h) /\ Handling(h)'
  BY DEF ReceiveCall
<1>6. CountCall(h) => Handling(h) /\ ~Handling(h)'
  BY DEF CountCall
<1>7. HandlerQueues(h) => Handling(h) /\ Handling(h)'
  <2> SUFFICES ASSUME HandlerQueues(h) PROVE Handling(h) /\ Handling(h)'
    OBVIOUS
  <2>1. /\ pc[h] = "handle" /\ pc' = [pc EXCEPT ![h] = "cancel"]
        /\ after' = [after EXCEPT ![h] = "count"]
    BY Zenon DEF HandlerQueues, QueueTask, Cancel
  <2> QED BY <2>1
<1>8. ASSUME NEW q \in Proc, HandlerForwards(h, q) PROVE Handling(h) /\ Handling(h)'
  <2>1. pc[h] = "handle" /\ pc' = [pc EXCEPT ![h] = "count"]
    BY <1>8, Zenon DEF HandlerForwards
  <2> QED BY <2>1
<1>9. ReceiveTheToken(h) => ~Handling(h) /\ ~Handling(h)'
  <2> SUFFICES ASSUME ReceiveTheToken(h) PROVE ~Handling(h) /\ ~Handling(h)'
    OBVIOUS
  <2>1. pc[h] = "idle" /\ \E l \in {"passing", "idle"} : pc' = [pc EXCEPT ![h] = l]
    BY Zenon DEF ReceiveTheToken
  <2> QED BY <2>1
<1>10. ForceDone(h) => ~Handling(h) /\ ~Handling(h)'
  <2> SUFFICES ASSUME ForceDone(h) PROVE ~Handling(h) /\ ~Handling(h)'
    OBVIOUS
  <2>1. /\ pc[h] = "idle" /\ pc' = [pc EXCEPT ![h] = "cancel"]
        /\ after' = [after EXCEPT ![h] = "idle"]
    BY Zenon DEF ForceDone, Cancel
  <2> QED BY <2>1
<1> QED
  BY Zenon, <1>4, <1>5, <1>6, <1>7, <1>8, <1>9, <1>10

LEMMA HandlingAgent ==
  ASSUME TypeOK, PcInv, NEW a \in Agent, AgentStep(a)
  PROVE  \A h \in Handler : Handling(h)' <=> Handling(h)
<1>1. /\ pc \in [Agent -> Label] /\ after \in [Agent -> {"task", "count", "idle"}]
      /\ \A x \in Handler : x \in Agent /\ x \notin Thread
  BY ConsensusAssumption DEF TypeOK, Agent
<1>2. /\ \E l : pc' = [pc EXCEPT ![a] = l]
      /\ after' = after \/ \E l : after' = [after EXCEPT ![a] = l]
  BY Zenon DEF AgentStep, PassCompleted, PassReadReceived, PassSend, PassReturns, CancelLook,
               CancelWake, Return, locals, Goto
<1>3. ASSUME NEW h \in Handler, h # a PROVE Handling(h)' <=> Handling(h)
  BY <1>1, <1>2, <1>3 DEF Handling, Queuing, Cancelling
<1>4. ASSUME a \in Handler PROVE Handling(a)' <=> Handling(a)
  <2> USE <1>1, <1>4 DEF Handling, Queuing, Cancelling, Goto
  <2>1. CASE PassCompleted(a) \/ PassReadReceived(a) \/ PassSend(a)
    <3>1. /\ pc[a] \in {"passing", "sending"}
          /\ \E l \in {"sending", "idle"} : pc' = [pc EXCEPT ![a] = l]
      BY <2>1, Zenon DEF PassCompleted, PassReadReceived, PassSend, PassReturns
    <3> QED BY <3>1
  <2>2. CASE CancelLook(a) \/ CancelWake(a)
    <3>1. /\ pc[a] \in {"cancel", "waking"}
          /\ \/ pc' = [pc EXCEPT ![a] = "waking"] /\ after' = after
             \/ /\ pc' = [pc EXCEPT ![a] = after[a]]
                /\ after' = [after EXCEPT ![a] = "idle"]
      BY <2>2, Zenon DEF CancelLook, CancelWake, Return
    <3>2. after[a] \in {"count", "idle"}
      BY <3>1, <1>1 DEF PcInv
    <3> QED BY <3>1, <3>2
  <2> QED BY <1>4, <2>1, <2>2 DEF AgentStep
<1> QED
  BY Zenon, <1>3, <1>4

LEMMA HandlersFinite ==
  IsFiniteSet(InHandler) /\ Cardinality(InHandler) \in Nat
<1>1. InHandler \in SUBSET Handler /\ IsFiniteSet(Handler)
  BY ConsensusAssumption DEF InHandler
<1> QED
  BY <1>1, FS_Subset, FS_CardinalityType

LEMMA CallsInit == Init => CallsInv
<1> SUFFICES ASSUME Init PROVE CallsInv
  OBVIOUS
<1>1. InHandler = {}
  BY ConsensusAssumption DEF Init, InHandler, Handling, Queuing, Cancelling, Agent
<1>2. Cardinality(InHandler) = 0
  BY <1>1, FS_EmptySet
<1>3. Total(inflight) = 0 /\ calls_sent = calls_received /\ calls_received \in [Proc -> Nat]
  BY TotalZero, ConsensusAssumption DEF Init
<1>4. Total(calls_received) \in Nat
  BY <1>3, UnitsFinite
<1> QED
  BY <1>2, <1>3, <1>4 DEF CallsInv

\* Counting one more, or one less, in one process.
LEMMA TotalOne ==
  ASSUME NEW f \in [Proc -> Nat], NEW p \in Proc
  PROVE  /\ Total(f) \in Nat
         /\ Total([f EXCEPT ![p] = @ + 1]) = Total(f) + 1
         /\ f[p] > 0 => Total([f EXCEPT ![p] = @ - 1]) = Total(f) - 1
<1>1. Total(f) \in Nat
  BY UnitsFinite
<1>2. Total([f EXCEPT ![p] = f[p] + 1]) = Total(f) + 1
  <2>1. f[p] + 1 \in Nat /\ f[p] <= f[p] + 1 /\ (f[p] + 1) - f[p] = 1
    OBVIOUS
  <2> HIDE DEF Total
  <2> QED BY Zenon, <2>1, TotalRaised
<1>3. ASSUME f[p] > 0 PROVE Total([f EXCEPT ![p] = f[p] - 1]) = Total(f) - 1
  <2> DEFINE g == [f EXCEPT ![p] = f[p] - 1]
  <2>a. /\ g \in [Proc -> Nat] /\ g[p] = f[p] - 1 /\ f[p] \in Nat /\ g[p] <= f[p]
        /\ \A q \in Proc : q # p => g[q] = f[q]
    BY <1>3
  <2>b. f = [g EXCEPT ![p] = f[p]]
    <3> HIDE DEF g
    <3> QED BY <2>a
  <2>1. /\ g \in [Proc -> Nat] /\ g[p] = f[p] - 1 /\ f[p] \in Nat /\ g[p] <= f[p]
        /\ f = [g EXCEPT ![p] = f[p]]
    BY <2>a, <2>b
  <2> HIDE DEF g
  <2>2. Total(f) = Total(g) + (f[p] - g[p]) /\ Total(g) \in Nat
    BY <2>1, TotalRaised, UnitsFinite
  <2> QED BY <1>1, <2>1, <2>2 DEF g
<1> QED
  BY <1>1, <1>2, <1>3

LEMMA CallsKept ==
  ASSUME CallsInv, UNCHANGED <<calls_sent, calls_received, inflight>>,
         \A h \in Handler : Handling(h)' <=> Handling(h)
  PROVE  CallsInv'
<1>1. InHandler' = InHandler
  BY DEF InHandler
<1> QED
  BY <1>1 DEF CallsInv

LEMMA CallsSent ==
  ASSUME TypeOK, CallsInv, NEW a \in Agent, NEW q \in Proc, SendCall(a, q),
         UNCHANGED calls_received, \A h \in Handler : Handling(h)' <=> Handling(h)
  PROVE  CallsInv'
<1>1. InHandler' = InHandler
  BY DEF InHandler
<1>2. /\ calls_sent \in [Proc -> Nat] /\ inflight \in [Proc -> Nat]
      /\ calls_received \in [Proc -> Nat] /\ At[a] \in Proc
  BY ConsensusAssumption DEF TypeOK
<1>3. /\ Total(calls_sent') = Total(calls_sent) + 1
      /\ Total(inflight') = Total(inflight) + 1
      /\ Total(calls_received') = Total(calls_received)
  BY Zenon, <1>2, TotalOne DEF SendCall
<1>4. /\ Total(calls_sent) \in Nat /\ Total(inflight) \in Nat /\ Total(calls_received) \in Nat
  BY <1>2, UnitsFinite
<1> QED
  BY <1>1, <1>3, <1>4, HandlersFinite DEF CallsInv

LEMMA CallsNext ==
  ASSUME TypeOK, PcInv, CallsInv, [Next]_vars
  PROVE  CallsInv'
<1>t. /\ calls_sent \in [Proc -> Nat] /\ inflight \in [Proc -> Nat]
      /\ calls_received \in [Proc -> Nat]
  BY DEF TypeOK
<1>n. Total(calls_sent) \in Nat /\ Total(inflight) \in Nat /\ Total(calls_received) \in Nat
  BY <1>t, UnitsFinite
<1>1. ASSUME NEW t \in Thread, ThreadStep(t) PROVE CallsInv'
  <2>0. t \in Agent
    BY DEF Agent
  <2>1. \A h \in Handler : Handling(h)' <=> Handling(h)
    BY <1>1, HandlingThread DEF Handling, Queuing, Cancelling
  <2>2. CASE \E q \in Proc : TaskSends(t, q)
    <3>1. PICK q \in Proc : SendCall(t, q) /\ UNCHANGED calls_received
      BY <2>2, Zenon DEF TaskSends
    <3> QED BY <2>0, <2>1, <3>1, CallsSent
  <2>3. CASE ~\E q \in Proc : TaskSends(t, q)
    <3>1. UNCHANGED <<calls_sent, calls_received, inflight>>
      BY Zenon, <1>1, <2>3 DEF ThreadStep, TakeTask, BeginDone, EnterCriticalSection,
           CheckAgain, EndDone, WakeUp, TaskQueues, TaskEnds, queues
    <3> QED BY <2>1, <3>1, CallsKept
  <2> QED BY <2>2, <2>3
<1>2. ASSUME NEW h \in Handler, HandlerStep(h) PROVE CallsInv'
  <2>0. h \in Agent /\ At[h] \in Proc
    BY ConsensusAssumption DEF Agent
  <2>h. \A x \in Handler \ {h} : Handling(x)' <=> Handling(x)
    BY <1>2, HandlingHandler DEF Handling, Queuing, Cancelling
  <2>1. CASE ReceiveCall(h)
    <3>1. ~Handling(h) /\ Handling(h)'
      BY <1>2, <2>1, HandlingHandler
    <3>2. InHandler' = InHandler \cup {h} /\ h \notin InHandler
      BY <2>h, <3>1 DEF InHandler
    <3>3. Cardinality(InHandler') = Cardinality(InHandler) + 1
      BY <3>2, HandlersFinite, FS_AddElement
    <3>4. /\ UNCHANGED <<calls_sent, calls_received>> /\ inflight[At[h]] > 0
          /\ inflight' = [inflight EXCEPT ![At[h]] = @ - 1]
      BY <2>1 DEF ReceiveCall
    <3>5. Total(inflight') = Total(inflight) - 1
      BY Zenon, <1>t, <2>0, <3>4, TotalOne
    <3> QED BY <1>n, <3>3, <3>4, <3>5, HandlersFinite DEF CallsInv
  <2>2. CASE CountCall(h)
    <3>1. Handling(h) /\ ~Handling(h)'
      BY <1>2, <2>2, HandlingHandler
    <3>2. InHandler' = InHandler \ {h} /\ h \in InHandler
      BY <2>h, <3>1 DEF InHandler
    <3>3. Cardinality(InHandler') = Cardinality(InHandler) - 1
      BY <3>2, HandlersFinite, FS_RemoveElement
    <3>4. /\ UNCHANGED <<calls_sent, inflight>>
          /\ calls_received' = [calls_received EXCEPT ![At[h]] = @ + 1]
      BY <2>2 DEF CountCall
    <3>5. Total(calls_received') = Total(calls_received) + 1
      BY Zenon, <1>t, <2>0, <3>4, TotalOne
    <3> QED BY <1>n, <3>3, <3>4, <3>5, HandlersFinite DEF CallsInv
  <2>3. CASE \E q \in Proc : HandlerForwards(h, q)
    <3>1. PICK q \in Proc : SendCall(h, q) /\ UNCHANGED calls_received
      BY <2>3, Zenon DEF HandlerForwards
    <3>2. \A x \in Handler : Handling(x)' <=> Handling(x)
      BY <1>2, <2>h, <2>3, HandlingHandler
    <3> QED BY <2>0, <3>1, <3>2, CallsSent
  <2>4. CASE ReceiveTheToken(h) \/ ForceDone(h) \/ HandlerQueues(h)
    <3>1. UNCHANGED <<calls_sent, calls_received, inflight>>
      BY Zenon, <2>4 DEF ReceiveTheToken, ForceDone, HandlerQueues, queues
    <3>2. \A x \in Handler : Handling(x)' <=> Handling(x)
      BY <1>2, <2>h, <2>4, HandlingHandler
    <3> QED BY <3>1, <3>2, CallsKept
  <2> QED BY Zenon, <1>2, <2>1, <2>2, <2>3, <2>4 DEF HandlerStep
<1>3. ASSUME NEW a \in Agent, AgentStep(a) PROVE CallsInv'
  <2>1. UNCHANGED <<calls_sent, calls_received, inflight>>
    BY Zenon, <1>3 DEF AgentStep, PassCompleted, PassReadReceived, PassSend, CancelLook,
                       CancelWake, queues
  <2> QED BY <1>3, <2>1, HandlingAgent, CallsKept
<1>4. CASE Restart \/ Finished \/ UNCHANGED vars
  <2>1. UNCHANGED <<calls_sent, calls_received, inflight>>
    BY <1>4 DEF Restart, Finished, vars
  <2>2. \A h \in Handler : pc'[h] = pc[h] /\ after'[h] = after[h]
    BY ConsensusAssumption, <1>4 DEF Restart, Finished, vars, locals, Agent
  <2> QED BY <2>1, <2>2, CallsKept DEF Handling, Queuing, Cancelling
<1> QED
  BY <1>1, <1>2, <1>3, <1>4 DEF Next

-----------------------------------------------------------------------------
(* What the token has seen is not more than what there is to see.            *)

CountersInv ==
  /\ \A p \in Proc : /\ Prior[p] <= calls_sent[p]
                     /\ last_calls_sent[p] <= calls_sent[p]
                     /\ last_calls_received[p] <= calls_received[p]
  /\ \A a \in Agent : pc[a] = "sending" => /\ last_calls_received[At[a]] <= callsrecv[a]
                                           /\ callsrecv[a] <= calls_received[At[a]]

\* The token is passed on only while all threads sleep.
LastInv ==
  \A a \in Agent : pc[a] \in {"passing", "sending"} => numactive[At[a]] = 0

\* The counters never go down, and only pass_the_token and reset() touch what the
\* token has seen.
LEMMA CountersGrow ==
  ASSUME TypeOK, [Next]_vars
  PROVE  /\ \A p \in Proc : /\ calls_sent[p] <= calls_sent'[p]
                            /\ calls_received[p] <= calls_received'[p]
         /\ \/ Restart
            \/ \E a \in Agent : PassSend(a)
            \/ UNCHANGED <<last_calls_sent, last_calls_received>>
<1>1. calls_sent \in [Proc -> Nat] /\ calls_received \in [Proc -> Nat]
  BY DEF TypeOK
<1>2. \/ calls_sent' = calls_sent
      \/ \E p \in Proc : calls_sent' = [calls_sent EXCEPT ![p] = @ + 1]
  <2>1. ASSUME NEW t \in Thread, ThreadStep(t)
        PROVE  calls_sent' = calls_sent \/ calls_sent' = [calls_sent EXCEPT ![At[t]] = @ + 1]
    BY Zenon, <2>1 DEF ThreadStep, TakeTask, BeginDone, EnterCriticalSection,
         CheckAgain, EndDone, WakeUp, TaskQueues, TaskEnds, TaskSends, SendCall, queues
  <2>2. ASSUME NEW h \in Handler, HandlerStep(h)
        PROVE  calls_sent' = calls_sent \/ calls_sent' = [calls_sent EXCEPT ![At[h]] = @ + 1]
    BY Zenon, <2>2 DEF HandlerStep, ReceiveTheToken, ForceDone, ReceiveCall, HandlerQueues,
         CountCall, HandlerForwards, SendCall, queues
  <2>3. ASSUME NEW a \in Agent, AgentStep(a) PROVE calls_sent' = calls_sent
    BY Zenon, <2>3 DEF AgentStep, PassCompleted, PassReadReceived, PassSend, CancelLook,
                       CancelWake, queues
  <2>4. CASE Restart \/ Finished \/ UNCHANGED vars
    BY <2>4 DEF Restart, Finished, vars
  <2>5. \A a \in Thread \cup Handler : At[a] \in Proc
    BY ConsensusAssumption DEF Agent
  <2> QED BY Zenon, <2>1, <2>2, <2>3, <2>4, <2>5 DEF Next
<1>3. \/ calls_received' = calls_received
      \/ \E p \in Proc : calls_received' = [calls_received EXCEPT ![p] = @ + 1]
  <2>1. ASSUME NEW t \in Thread, ThreadStep(t) PROVE calls_received' = calls_received
    BY Zenon, <2>1 DEF ThreadStep, TakeTask, BeginDone, EnterCriticalSection,
         CheckAgain, EndDone, WakeUp, TaskQueues, TaskEnds, TaskSends, queues
  <2>2. ASSUME NEW h \in Handler, HandlerStep(h)
        PROVE  \/ calls_received' = calls_received
               \/ calls_received' = [calls_received EXCEPT ![At[h]] = @ + 1]
    BY Zenon, <2>2 DEF HandlerStep, ReceiveTheToken, ForceDone, ReceiveCall, HandlerQueues,
         CountCall, HandlerForwards, queues
  <2>3. ASSUME NEW a \in Agent, AgentStep(a) PROVE calls_received' = calls_received
    BY Zenon, <2>3 DEF AgentStep, PassCompleted, PassReadReceived, PassSend, CancelLook,
                       CancelWake, queues
  <2>4. CASE Restart \/ Finished \/ UNCHANGED vars
    BY <2>4 DEF Restart, Finished, vars
  <2>5. \A a \in Thread \cup Handler : At[a] \in Proc
    BY ConsensusAssumption DEF Agent
  <2> QED BY Zenon, <2>1, <2>2, <2>3, <2>4, <2>5 DEF Next
<1>4. \/ Restart
      \/ \E a \in Agent : PassSend(a)
      \/ UNCHANGED <<last_calls_sent, last_calls_received>>
  <2>1. ASSUME NEW t \in Thread, ThreadStep(t)
        PROVE  UNCHANGED <<last_calls_sent, last_calls_received>>
    BY Zenon, <2>1 DEF ThreadStep, TakeTask, BeginDone, EnterCriticalSection,
         CheckAgain, EndDone, WakeUp, TaskQueues, TaskEnds, TaskSends, tokens
  <2>2. ASSUME NEW h \in Handler, HandlerStep(h)
        PROVE  UNCHANGED <<last_calls_sent, last_calls_received>>
    BY Zenon, <2>2 DEF HandlerStep, ReceiveTheToken, ForceDone, ReceiveCall, HandlerQueues,
         CountCall, HandlerForwards, tokens
  <2>3. ASSUME NEW a \in Agent, AgentStep(a), ~PassSend(a)
        PROVE  UNCHANGED <<last_calls_sent, last_calls_received>>
    BY Zenon, <2>3 DEF AgentStep, PassCompleted, PassReadReceived, CancelLook, CancelWake,
                       tokens
  <2>4. CASE Finished \/ UNCHANGED vars
    BY <2>4 DEF Finished, vars
  <2> QED BY Zenon, <2>1, <2>2, <2>3, <2>4 DEF Next
<1>5. \A p \in Proc : calls_sent[p] <= calls_sent'[p]
  BY <1>1, <1>2
<1>6. \A p \in Proc : calls_received[p] <= calls_received'[p]
  BY <1>1, <1>3
<1> QED
  BY <1>4, <1>5, <1>6

\* Only pass_the_token reads the counter of received calls.
LEMMA SendingKept ==
  ASSUME TypeOK, [Next]_vars, NEW a \in Agent, pc'[a] = "sending"
  PROVE  \/ pc[a] = "sending" /\ callsrecv'[a] = callsrecv[a]
         \/ PassReadReceived(a) /\ callsrecv'[a] = calls_received[At[a]]
<1>0. /\ pc \in [Agent -> Label] /\ callsrecv \in [Agent -> Nat]
      /\ after \in [Agent -> {"task", "count", "idle"}]
      /\ Thread \subseteq Agent /\ Handler \subseteq Agent
  BY DEF TypeOK, Agent
<1> USE DEF Goto
<1>1. ASSUME NEW t \in Thread, ThreadStep(t)
      PROVE  pc[a] = "sending" /\ callsrecv' = callsrecv
  <2>1. callsrecv' = callsrecv
    BY Zenon, <1>1 DEF ThreadStep, TakeTask, BeginDone, EnterCriticalSection, CheckAgain,
         EndDone, WakeUp, TaskQueues, TaskEnds, TaskSends, locals
  <2>2. pc' = pc \/ \E l \in Label \ {"sending"} : pc' = [pc EXCEPT ![t] = l]
    BY Zenon, <1>1 DEF ThreadStep, TakeTask, BeginDone, EnterCriticalSection, CheckAgain,
         EndDone, WakeUp, TaskQueues, QueueTask, Cancel, TaskEnds, TaskSends, Label, Holding
  <2> QED BY <1>0, <2>1, <2>2
<1>2. ASSUME NEW h \in Handler, HandlerStep(h)
      PROVE  pc[a] = "sending" /\ callsrecv' = callsrecv
  <2>1. callsrecv' = callsrecv
    BY Zenon, <1>2 DEF HandlerStep, ReceiveTheToken, ForceDone, ReceiveCall, HandlerQueues,
         CountCall, HandlerForwards, locals
  <2>2. \E l \in Label \ {"sending"} : pc' = [pc EXCEPT ![h] = l]
    BY Zenon, <1>2 DEF HandlerStep, ReceiveTheToken, ForceDone, ReceiveCall, HandlerQueues,
         CountCall, HandlerForwards, QueueTask, Cancel, Label, Holding
  <2> QED BY <1>0, <2>1, <2>2
<1>3. ASSUME NEW b \in Agent, AgentStep(b)
      PROVE  \/ pc[a] = "sending" /\ callsrecv'[a] = callsrecv[a]
             \/ PassReadReceived(a) /\ callsrecv'[a] = calls_received[At[a]]
  <2>1. CASE PassReadReceived(b)
    <3>1. /\ pc' = [pc EXCEPT ![b] = "sending"]
          /\ callsrecv' = [callsrecv EXCEPT ![b] = calls_received[At[b]]]
      BY <2>1, Zenon DEF PassReadReceived
    <3>2. CASE a = b
      BY <1>0, <2>1, <3>1, <3>2
    <3>3. CASE a # b
      BY <1>0, <3>1, <3>3
    <3> QED BY <3>2, <3>3
  <2>2. CASE PassCompleted(b) \/ PassSend(b) \/ CancelLook(b) \/ CancelWake(b)
    <3>1. callsrecv' = callsrecv
      BY <2>2, Zenon DEF PassCompleted, PassSend, CancelLook, CancelWake, locals
    <3>2. /\ after[b] \in Label \ {"sending"}
          /\ {"idle", "left", "sleep", "waking"} \subseteq Label \ {"sending"}
      BY <1>0 DEF Label, Holding
    <3>3. \E l \in Label \ {"sending"} : pc' = [pc EXCEPT ![b] = l]
      BY <2>2, <3>2, Zenon DEF PassCompleted, PassSend, PassReturns, CancelLook, CancelWake,
                               Return
    <3> QED BY <1>0, <3>1, <3>3
  <2> QED BY Zenon, <1>3, <2>1, <2>2 DEF AgentStep
<1>4. CASE Restart \/ Finished \/ UNCHANGED vars
  BY <1>4 DEF Restart, Finished, vars, locals
<1> QED
  BY Zenon, <1>1, <1>2, <1>3, <1>4 DEF Next

\* When the threads are started again every process knew of the consensus, and nobody
\* is in pass_the_token.
LEMMA AllDone ==
  ASSUME PcInv, TokenInv, Restart
  PROVE  /\ \A p \in Proc : done[p]
         /\ Detected /\ \A a \in Agent : pc[a] \notin {"passing", "sending"}
<1>1. ASSUME NEW p \in Proc PROVE done[p]
  <2>1. PICK t \in Thread : At[t] = p
    BY ConsensusAssumption, Zenon
  <2>2. pc[t] = "left"
    BY Zenon DEF Restart
  <2> QED BY Zenon, <2>1, <2>2 DEF PcInv
<1>2. Detected
  BY <1>1, RingClosed DEF Detected
<1> QED
  BY <1>1, <1>2 DEF TokenInv

LEMMA CountersInit == Init => CountersInv
<1> SUFFICES ASSUME Init PROVE CountersInv
  OBVIOUS
<1>1. Prior \in [Proc -> Nat]
  BY ConsensusAssumption
<1>2. \A a \in Agent : pc[a] # "sending"
  BY DEF Init
<1> QED
  BY <1>1, <1>2 DEF Init, CountersInv

LEMMA CountersNext ==
  ASSUME TypeOK, PcInv, TokenInv, CountersInv, [Next]_vars, TypeOK', TokenInv'
  PROVE  CountersInv'
<1>0. /\ calls_sent \in [Proc -> Nat] /\ calls_received \in [Proc -> Nat]
      /\ last_calls_sent \in [Proc -> Nat] /\ last_calls_received \in [Proc -> Nat]
      /\ calls_sent' \in [Proc -> Nat] /\ calls_received' \in [Proc -> Nat]
      /\ callsrecv \in [Agent -> Nat] /\ Prior \in [Proc -> Nat] /\ At \in [Agent -> Proc]
  BY ConsensusAssumption DEF TypeOK
<1>g. \A p \in Proc : calls_sent[p] <= calls_sent'[p] /\ calls_received[p] <= calls_received'[p]
  BY CountersGrow
<1>1. CASE UNCHANGED <<last_calls_sent, last_calls_received>>
  <2>1. \A p \in Proc : /\ Prior[p] <= calls_sent'[p]
                        /\ last_calls_sent'[p] <= calls_sent'[p]
                        /\ last_calls_received'[p] <= calls_received'[p]
    BY <1>0, <1>1, <1>g DEF CountersInv
  <2>2. ASSUME NEW a \in Agent, pc'[a] = "sending"
        PROVE  /\ last_calls_received'[At[a]] <= callsrecv'[a]
               /\ callsrecv'[a] <= calls_received'[At[a]]
    <3>1. CASE pc[a] = "sending" /\ callsrecv'[a] = callsrecv[a]
      BY <1>0, <1>1, <1>g, <3>1 DEF CountersInv
    <3>2. CASE callsrecv'[a] = calls_received[At[a]]
      BY <1>0, <1>1, <1>g, <3>2 DEF CountersInv
    <3> QED BY SMTT(30), <2>2, <3>1, <3>2, SendingKept
  <2> QED BY <2>1, <2>2 DEF CountersInv
<1>2. ASSUME NEW a \in Agent, PassSend(a) PROVE CountersInv'
  <2>1. /\ last_calls_sent' = [last_calls_sent EXCEPT ![At[a]] = calls_sent[At[a]]]
        /\ last_calls_received' = [last_calls_received EXCEPT ![At[a]] = callsrecv[a]]
        /\ UNCHANGED <<calls_sent, calls_received>> /\ pc[a] = "sending"
    BY <1>2 DEF PassSend, queues
  <2>2. \A p \in Proc : /\ Prior[p] <= calls_sent'[p]
                        /\ last_calls_sent'[p] <= calls_sent'[p]
                        /\ last_calls_received'[p] <= calls_received'[p]
    BY <1>0, <2>1 DEF CountersInv
  <2>3. \A b \in Agent : pc'[b] # "sending"
    <3>1. \A q \in Proc : ~hastoken'[q]
      <4>1. HeldBy(At[a])
        BY <1>0, <2>1 DEF TokenInv, OnItsWay, HeldBy
      <4>2. hastoken \in [Proc -> BOOLEAN]
        BY DEF TypeOK
      <4> QED BY SMTT(30), <1>0, <1>2, <4>1, <4>2 DEF HeldBy, PassSend, TokenGone
    <3> QED BY <1>0, <3>1 DEF TokenInv
  <2> QED BY <2>2, <2>3 DEF CountersInv
<1>3. CASE Restart
  <2>1. /\ UNCHANGED <<calls_sent, calls_received>>
        /\ \A p \in Proc : last_calls_sent'[p] = 0 /\ last_calls_received'[p] = 0
    BY <1>3 DEF Restart
  <2>2. \A b \in Agent : pc'[b] # "sending"
    BY <1>3, AllDone, Zenon DEF Restart
  <2> QED BY <1>0, <2>1, <2>2 DEF CountersInv
<1> QED
  BY <1>1, <1>2, <1>3, CountersGrow

LEMMA LastInit == Init => LastInv
  BY DEF Init, LastInv

LEMMA LastNext ==
  ASSUME TypeOK, PcInv, MutexInv, TokenInv, LastInv, [Next]_vars
  PROVE  LastInv'
<1>0. /\ pc \in [Agent -> Label] /\ numactive \in [Proc -> Int]
      /\ after \in [Agent -> {"task", "count", "idle"}]
      /\ Thread \subseteq Agent /\ Handler \subseteq Agent /\ At \in [Agent -> Proc]
  BY ConsensusAssumption DEF TypeOK, Agent
<1> SUFFICES ASSUME NEW b \in Agent, pc'[b] \in {"passing", "sending"}
             PROVE  numactive'[At[b]] = 0
  BY DEF LastInv
<1> USE DEF Goto
<1>1. ASSUME NEW t \in Thread, ThreadStep(t) PROVE numactive'[At[b]] = 0
  <2>1. CASE EndDone(t)
    <3>1. CASE b = t
      BY <1>0, <2>1, <3>1 DEF EndDone
    <3>2. CASE b # t
      <4>1. pc[b] \in {"passing", "sending"} /\ pc[t] = "ending"
        BY <1>0, <2>1, <3>2 DEF EndDone
      <4>2. At[b] # At[t]
        BY <1>0, <3>2, <4>1 DEF MutexInv, Holding
      <4>3. numactive' = numactive \/ numactive' = [numactive EXCEPT ![At[t]] = @ - 1]
        BY <2>1, Zenon DEF EndDone
      <4> QED BY SMTT(30), <1>0, <4>1, <4>2, <4>3 DEF LastInv
    <3> QED BY <3>1, <3>2
  <2>2. CASE ~EndDone(t)
    <3>1. numactive' = numactive
      BY Zenon, <1>1, <2>2 DEF ThreadStep, TakeTask, BeginDone, EnterCriticalSection,
           CheckAgain, WakeUp, TaskQueues, TaskEnds, TaskSends
    <3>2. pc' = pc \/ \E l \in Label \ {"passing", "sending"} : pc' = [pc EXCEPT ![t] = l]
      BY Zenon, <1>1, <2>2 DEF ThreadStep, TakeTask, BeginDone, EnterCriticalSection,
           CheckAgain, WakeUp, TaskQueues, QueueTask, Cancel, TaskEnds, TaskSends, Label, Holding
    <3> QED BY <1>0, <3>1, <3>2 DEF LastInv
  <2> QED BY <2>1, <2>2
<1>2. ASSUME NEW h \in Handler, HandlerStep(h) PROVE numactive'[At[b]] = 0
  <2>1. numactive' = numactive
    BY Zenon, <1>2 DEF HandlerStep, ReceiveTheToken, ForceDone, ReceiveCall, HandlerQueues,
         CountCall, HandlerForwards
  <2>2. \/ \E l \in Label \ {"passing", "sending"} : pc' = [pc EXCEPT ![h] = l]
        \/ pc' = [pc EXCEPT ![h] = "passing"] /\ numactive[At[h]] = 0
    BY Zenon, <1>2 DEF HandlerStep, ReceiveTheToken, ForceDone, ReceiveCall, HandlerQueues,
         CountCall, HandlerForwards, QueueTask, Cancel, Label, Holding
  <2> QED BY <1>0, <2>1, <2>2 DEF LastInv
<1>3. ASSUME NEW a \in Agent, AgentStep(a) PROVE numactive'[At[b]] = 0
  <2>1. CASE PassCompleted(a) \/ PassSend(a)
    <3>1. /\ \E l \in Label \ {"passing", "sending"} : pc' = [pc EXCEPT ![a] = l]
          /\ pc[a] \in {"passing", "sending"}
          /\ \/ numactive' = numactive
             \/ numactive' = [numactive EXCEPT ![At[a]] = @ + Cardinality(Asleep(At[a]))]
      BY <2>1, Zenon DEF PassCompleted, PassSend, PassReturns, Label, Holding
    <3>2. b # a /\ pc[b] \in {"passing", "sending"}
      BY <1>0, <3>1
    <3>3. At[b] # At[a]
      BY <1>0, <3>1, <3>2 DEF MutexInv, Holding
    <3> QED BY <1>0, <3>1, <3>2, <3>3 DEF LastInv
  <2>2. CASE PassReadReceived(a) \/ CancelLook(a)
    <3>1. /\ numactive' = numactive
          /\ \E l : pc' = [pc EXCEPT ![a] = l]
          /\ pc'[a] \in {"passing", "sending"} => pc[a] \in {"passing", "sending"}
      BY SMTT(30), <1>0, <2>2 DEF PassReadReceived, CancelLook, Return
    <3> QED BY <1>0, <3>1 DEF LastInv
  <2>3. CASE CancelWake(a)
    <3>1. /\ pc' = [pc EXCEPT ![a] = after[a]] /\ Free(At[a])
          /\ numactive' = [numactive EXCEPT ![At[a]] = @ + Counted(wake[a] \cap Asleep(At[a]))]
      BY <2>3, Zenon DEF CancelWake, Return
    <3>2. pc[b] \in {"passing", "sending"}
      BY <1>0, <3>1
    <3>3. At[b] # At[a]
      BY <3>1, <3>2 DEF Free, Holding
    <3> QED BY <1>0, <3>1, <3>2, <3>3 DEF LastInv
  <2> QED BY Zenon, <1>3, <2>1, <2>2, <2>3 DEF AgentStep
<1>4. CASE Restart
  BY <1>4, AllDone, Zenon DEF Restart
<1>5. CASE Finished \/ UNCHANGED vars
  BY <1>5 DEF Finished, vars, LastInv
<1> QED
  BY Zenon, <1>1, <1>2, <1>3, <1>4, <1>5 DEF Next

==============================================================================

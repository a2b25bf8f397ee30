------------------------------ MODULE MCThreads ------------------------------
(* The parts whose threads wait for one another, each with the fairness of its *)
(* threads: async_consensus and the thread pool; a behaviour is one of one part. *)
EXTENDS MCAsyncConsensus, ThreadPool

VARIABLE part

(* The threads are replaced while loops run, by one thread and by another.      *)
MCAdminCalls == << <<"resize", 1>>, <<"launch", 1>>, <<"resize", 1>>,
                   <<"set_cpu_affinity", 1>>, <<"join", 1>>, <<"destroy", 1>> >>

ThreadsInit == part \in {"consensus", "pool"} /\ Init /\ ThreadPoolInit

ThreadsNext ==
  \/ part = "consensus" /\ Next /\ UNCHANGED <<part, threadPoolVars>>
  \/ part = "pool" /\ ThreadPoolNext /\ UNCHANGED <<part, vars>>
  \/ part = "pool" /\ ThreadPoolDone /\ UNCHANGED <<part, vars, threadPoolVars>>

(* FairSpec and ThreadPoolFairSpec: the fairness of each part in its own        *)
(* behaviours.                                                                 *)
Consensus(step) == part = "consensus" /\ step
Pool(step) == part = "pool" /\ step

ThreadsSpec ==
  /\ ThreadsInit /\ [][ThreadsNext]_<<part, vars, threadPoolVars>>
  /\ \A t \in Thread : WF_vars(Consensus(ThreadStep(t)))
  /\ \A h \in Handler : /\ WF_vars(Consensus(HandlerQueues(h) \/ CountCall(h)))
                        /\ SF_vars(Consensus(CancelWake(h)))
  /\ \A a \in Agent : WF_vars(Consensus(AgentStep(a)))
  /\ \A p \in Proc :
       /\ WF_vars(Consensus(\E h \in HandlersOf(p) : ReceiveTheToken(h)))
       /\ WF_vars(Consensus(\E h \in HandlersOf(p) : ForceDone(h)))
       /\ SF_vars(Consensus(\E h \in HandlersOf(p) : ReceiveCall(h)))
  /\ \A c \in Caller : WF_threadPoolVars(Pool(OwnerStep(c)))
  /\ \A w \in PoolThread : WF_threadPoolVars(Pool(WorkerStep(w)))
  /\ WF_threadPoolVars(Pool(AdminStep))

(* Everybody who waits goes on in the end.  AllLeave: every thread leaves the   *)
(* consensus of each run.  Every parallel_for returns or throws, also one that  *)
(* is called by a task of another, and so does every operation on the thread    *)
(* pool, while its threads are replaced under the loops.                        *)
EverybodyLeaves ==
  []<> \/ part = "consensus" /\ \A t \in Thread : pc[t] = "left"
       \/ part = "pool" /\ ThreadPoolDone
=============================================================================

------------------------------- MODULE MCTurns -------------------------------
(* What is shared by taking turns, with the fairness of those who wait: the     *)
(* forks of distributed_chandy_misra between two vertices, the pool of lambda  *)
(* workers between evaluators and makers, and the disk between threads, with   *)
(* unfair_lock; a behaviour is one of one part.                                *)
EXTENDS MCChandyMisraTwo, WorkerPool, UnfairLock

VARIABLE part

TurnsInit == part \in {"forks", "workers", "disk"} /\ Init /\ WorkerInit /\ LockInit

(* Nothing is left to do, or the evaluators wait for the worker of an empty slot. *)
WorkersDone ==
  \/ \A a \in Evaluator \cup Maker : worker_pc[a] = "idle" /\ rounds[a] = 0
  \/ \E s \in Slot : connections[s] = Null

TurnsNext ==
  \/ part = "forks" /\ Next /\ UNCHANGED <<part, workerVars, lockVars>>
  \/ part = "workers" /\ WorkerNext /\ UNCHANGED <<part, vars, lockVars>>
  \/ part = "disk" /\ LockNext /\ UNCHANGED <<part, vars, workerVars>>
  \/ /\ \/ part = "workers" /\ WorkersDone
        \/ part = "disk" /\ LocksDone
     /\ UNCHANGED <<part, vars, workerVars, lockVars>>

(* FairSpec, WorkerFairSpec and LockFairSpec: the fairness of each part in its  *)
(* own behaviours.                                                             *)
Forks(step) == part = "forks" /\ step

TurnsSpec ==
  /\ TurnsInit /\ [][TurnsNext]_<<part, vars, workerVars, lockVars>>
  /\ \A t \in Caller : WF_vars(Forks(Step(t)))
  /\ \A h \in Handler : WF_vars(Forks(Receive(h)))
  /\ \A v \in Vertex : WF_vars(Forks(StopsEating(v))) /\ WF_vars(Forks(Released(v)))
  /\ \A a \in PoolUser : WF_workerVars(part = "workers" /\ UserStep(a))
  /\ \A t \in LockThread : WF_lockVars(part = "disk" /\ LockStep(t))

(* AllServed: every call of bulk_eval, make_lambda and release_lambda ends,     *)
(* through crashes of the workers, unless the restart of one failed.  And every *)
(* thread that asks for the disk gets it, once those of lower numbers, which    *)
(* overtake it, ask no more.                                                    *)
AllHaveTheirTurn ==
  []<> \/ part = "forks"
       \/ part = "workers" /\ WorkersDone
       \/ part = "disk" /\ LocksDone
=============================================================================

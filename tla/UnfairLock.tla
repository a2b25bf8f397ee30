------------------------------ MODULE UnfairLock ------------------------------
(***************************************************************************)
(* unfair_lock, sframe/unfair_lock.cpp, which lets the thread of the lowest  *)
(* number read from the disk.  A thread is its priority.  What runs with     *)
(* m_internal_lock held is one step; a wait on the thread's own condition    *)
(* variable may return unsignalled.                                          *)
(***************************************************************************)
EXTENDS Integers, FiniteSets

CONSTANTS
  LockThread,      \* priorities of the threads
  LOCKS_PER_EPOCH,
  MaxLocks         \* bound: how often a thread takes the lock

DELTA == 5

ASSUME LockAssumption ==
  LockThread \subseteq Nat /\ LOCKS_PER_EPOCH \in Nat \ {0} /\ MaxLocks \in Nat

VARIABLES
  m_lock,          \* the threads that locked m_lock and did not unlock it
  m_lock_acquired,
  m_cond,          \* keys of the map: threads in the slow path
  m_previous_owner_priority,
  m_epoch_counter, m_initial, m_previous_sleep_interval, m_current_sleep_interval,
  lock_pc, locks

tuning == <<m_epoch_counter, m_initial, m_previous_sleep_interval, m_current_sleep_interval>>
lockVars == <<m_lock, m_lock_acquired, m_cond, m_previous_owner_priority, tuning, lock_pc, locks>>

LockInit ==
  /\ m_lock = {} /\ m_lock_acquired = FALSE /\ m_cond = {} /\ m_previous_owner_priority = 0
  /\ m_epoch_counter = 0 /\ m_initial = TRUE
  /\ m_previous_sleep_interval = 0 /\ m_current_sleep_interval = 50
  /\ lock_pc = [t \in LockThread |-> "outside"] /\ locks = [t \in LockThread |-> 0]

MustWait(t) == m_lock_acquired \/ \E u \in m_cond : u < t
LockGoto(t, l) == lock_pc' = [lock_pc EXCEPT ![t] = l]

(* The last lines of lock(): m_lock.lock() does not return while it is held.   *)
Acquire(t) ==
  /\ m_lock = {} /\ m_lock' = {t} /\ m_lock_acquired' = TRUE /\ LockGoto(t, "inside")
  /\ UNCHANGED <<m_previous_owner_priority, tuning>>

lock(t) ==
  /\ lock_pc[t] = "outside" /\ locks[t] < MaxLocks
  /\ locks' = [locks EXCEPT ![t] = @ + 1]
  /\ \/ /\ MustWait(t) /\ m_cond' = m_cond \cup {t} /\ LockGoto(t, "waiting")
        /\ UNCHANGED <<m_lock, m_lock_acquired, m_previous_owner_priority, tuning>>
     \/ ~MustWait(t) /\ Acquire(t) /\ UNCHANGED m_cond

(* The test of the loop: wait again, or leave the map and take the lock.       *)
WaitLoop(t) ==
  \/ /\ MustWait(t) /\ LockGoto(t, "waiting")
     /\ UNCHANGED <<m_lock, m_lock_acquired, m_cond, m_previous_owner_priority, tuning>>
  \/ ~MustWait(t) /\ m_cond' = m_cond \ {t} /\ Acquire(t)

(* wait() returned: a thread of a higher number than the previous owner leaves  *)
(* the lock to the threads below it for a while first.                         *)
Woken(t) ==
  /\ lock_pc[t] = "woken"
  /\ \/ /\ t > m_previous_owner_priority /\ LockGoto(t, "sleeping")
        /\ UNCHANGED <<m_lock, m_lock_acquired, m_cond, m_previous_owner_priority, tuning>>
     \/ t <= m_previous_owner_priority /\ WaitLoop(t)
  /\ UNCHANGED locks

Slept(t) == lock_pc[t] = "sleeping" /\ WaitLoop(t) /\ UNCHANGED locks

SpuriousReturn(t) ==
  /\ lock_pc[t] = "waiting" /\ LockGoto(t, "woken")
  /\ UNCHANGED <<m_lock, m_lock_acquired, m_cond, m_previous_owner_priority, tuning, locks>>

(* The next interval: on in the same direction if the epoch was faster than the *)
(* one before, back if it was slower, within bounds, and never the same.       *)
new_sleep_interval(epoch) ==
  LET step == m_current_sleep_interval - m_previous_sleep_interval
      moved == m_current_sleep_interval
               + (CASE epoch = "faster" -> step [] epoch = "slower" -> -step [] OTHER -> 0)
      bounded == IF moved < 0 THEN 0 ELSE IF moved > 100 THEN 100 ELSE moved
  IN IF bounded = m_current_sleep_interval THEN bounded + DELTA ELSE bounded

(* How the time of an epoch compares with that of the one before, which is 0   *)
(* after a reset; "delayed" is slower by half a second.                        *)
Epoch == IF m_initial THEN {"equal", "slower"} ELSE {"faster", "equal", "slower", "delayed"}

Tune ==
  \/ /\ m_epoch_counter + 1 # LOCKS_PER_EPOCH /\ m_epoch_counter' = m_epoch_counter + 1
     /\ UNCHANGED <<m_initial, m_previous_sleep_interval, m_current_sleep_interval>>
  \/ /\ m_epoch_counter + 1 = LOCKS_PER_EPOCH /\ m_epoch_counter' = 0
     /\ \E epoch \in Epoch :
          IF epoch = "delayed"
          THEN /\ m_initial' = TRUE
               /\ m_previous_sleep_interval' = 0 /\ m_current_sleep_interval' = 50
          ELSE /\ m_initial' = FALSE
               /\ m_previous_sleep_interval' = m_current_sleep_interval
               /\ m_current_sleep_interval' = new_sleep_interval(epoch)

LastWoken(u) == u \in m_cond /\ \A w \in m_cond : u >= w
First(u) == u \in m_cond /\ \A w \in m_cond : u <= w

unlock(t) ==
  /\ lock_pc[t] = "inside" /\ Tune
  /\ m_lock' = m_lock \ {t} /\ m_lock_acquired' = FALSE
  /\ m_previous_owner_priority' = t
  /\ lock_pc' = [u \in LockThread |->
       IF u = t THEN "outside"
       ELSE IF First(u) /\ lock_pc[u] = "waiting" THEN "woken" ELSE lock_pc[u]]
  /\ UNCHANGED <<m_cond, locks>>

LockStep(t) == lock(t) \/ Woken(t) \/ Slept(t) \/ unlock(t)
LockNext == \E t \in LockThread : LockStep(t) \/ SpuriousReturn(t)
LockSpec == LockInit /\ [][LockNext]_lockVars

(* A thread goes on when it can, and gives the lock back after its read.       *)
LockFairSpec == LockSpec /\ \A t \in LockThread : WF_lockVars(LockStep(t))

LocksDone == \A t \in LockThread : lock_pc[t] = "outside" /\ locks[t] = MaxLocks

-----------------------------------------------------------------------------
(* Types.                                                                    *)
LockTypeOK ==
  /\ m_lock \subseteq LockThread /\ m_lock_acquired \in BOOLEAN /\ m_cond \subseteq LockThread
  /\ m_previous_owner_priority \in Nat /\ m_epoch_counter \in 0..(LOCKS_PER_EPOCH - 1)
  /\ m_initial \in BOOLEAN /\ locks \in [LockThread -> 0..MaxLocks]
  /\ m_previous_sleep_interval \in Int /\ m_current_sleep_interval \in Int
  /\ lock_pc \in [LockThread -> {"outside", "waiting", "woken", "sleeping", "inside"}]

(* lock() and unlock() of unfair_lock: at most one thread is inside; whoever    *)
(* takes the lock with m_internal_lock held finds m_lock free, and so never     *)
(* blocks the others from unlocking it; a free lock with threads in the map has *)
(* its lowest one on the way, although the signal may find it asleep in its     *)
(* timer or about to wait; and the time a thread sleeps never goes negative.    *)
LockHandedOn ==
  /\ \A t, u \in LockThread : lock_pc[t] = "inside" /\ lock_pc[u] = "inside" => t = u
  /\ (~m_lock_acquired => m_lock = {})
  /\ (~m_lock_acquired => \A u \in m_cond : (\A w \in m_cond : u <= w) => lock_pc[u] # "waiting")
  /\ m_current_sleep_interval \in 0..(100 + DELTA)
=============================================================================

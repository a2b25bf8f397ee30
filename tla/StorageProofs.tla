---------------------------- MODULE StorageProofs -----------------------------
(* That unfair_lock is a lock and loses no wakeup, for every set of threads;    *)
(* and that a stream of the cache manager keeps its block, for every number of  *)
(* threads, ids, blocks, sizes and capacities.  The two share no state.         *)
EXTENDS UnfairLock, CacheManager, TLAPS

(* unfair_lock.                                                                 *)

(* The map holds the threads that wait in one way or another; m_lock is held by *)
(* the thread inside, and m_lock_acquired tells whether there is one.          *)
Bookkept ==
  /\ \A t \in LockThread : t \in m_cond <=> lock_pc[t] \in {"waiting", "woken", "sleeping"}
  /\ \A t \in LockThread : t \in m_lock <=> lock_pc[t] = "inside"
  /\ m_lock_acquired <=> \E t \in LockThread : lock_pc[t] = "inside"

LockInv == LockTypeOK /\ Bookkept /\ LockHandedOn

(* The initial state.                                                          *)
LEMMA LockInitial == LockInit => LockInv
<1> SUFFICES ASSUME LockInit PROVE LockInv
  OBVIOUS
<1>1. LockTypeOK
  <2>1. 0 \in 0..(LOCKS_PER_EPOCH - 1) /\ 0 \in 0..MaxLocks
    BY LockAssumption
  <2>2. m_lock_acquired \in BOOLEAN /\ m_initial \in BOOLEAN
    BY Zenon DEF LockInit
  <2>3. /\ m_lock \subseteq LockThread /\ m_cond \subseteq LockThread
        /\ m_previous_owner_priority \in Nat /\ m_epoch_counter \in 0..(LOCKS_PER_EPOCH - 1)
        /\ m_previous_sleep_interval \in Int /\ m_current_sleep_interval \in Int
        /\ locks \in [LockThread -> 0..MaxLocks]
        /\ lock_pc \in [LockThread -> {"outside", "waiting", "woken", "sleeping", "inside"}]
    BY <2>1 DEF LockInit
  <2> QED
    BY <2>2, <2>3 DEF LockTypeOK
<1>2. Bookkept
  BY DEF LockInit, Bookkept
<1>3. LockHandedOn
  BY DEF LockInit, LockHandedOn, First, DELTA
<1> QED
  BY <1>1, <1>2, <1>3 DEF LockInv

(* A thread that goes to wait has a lower one in the map or the lock is taken, *)
(* so that it is not the one a free lock waits for.                            *)
LEMMA Waits ==
  ASSUME LockInv, NEW t \in LockThread, lock_pc[t] # "inside", MustWait(t),
         LockGoto(t, "waiting"), m_cond' = m_cond \cup {t},
         UNCHANGED <<m_lock, m_lock_acquired, m_previous_owner_priority, tuning>>,
         locks' \in [LockThread -> 0..MaxLocks]
  PROVE  LockInv'
<1>1. LockTypeOK'
  BY DEF LockInv, LockTypeOK, LockGoto, tuning
<1>2. Bookkept'
  BY DEF LockInv, LockTypeOK, Bookkept, LockGoto
<1>3. LockHandedOn'
  <2>1. (\A a, b \in LockThread : lock_pc[a] = "inside" /\ lock_pc[b] = "inside" => a = b)'
    BY DEF LockInv, LockTypeOK, LockHandedOn, LockGoto
  <2>2. ASSUME ~m_lock_acquired', NEW u \in LockThread, First(u)'
        PROVE  lock_pc'[u] # "waiting"
    <3>1. PICK w \in m_cond : w < t
      BY <2>2 DEF MustWait
    <3>2. u # t
      BY <3>1, <2>2, LockAssumption DEF First, LockInv, LockTypeOK
    <3>3. First(u)
      BY <3>2, <2>2 DEF First
    <3>4. lock_pc[u] # "waiting"
      BY <3>3, <2>2 DEF LockInv, LockHandedOn, First
    <3> QED
      BY <3>2, <3>4 DEF LockInv, LockTypeOK, LockGoto
  <2> QED
    BY <1>1, <2>1, <2>2 DEF LockInv, LockTypeOK, LockHandedOn, First, tuning
<1> QED
  BY <1>1, <1>2, <1>3 DEF LockInv

(* A thread that takes the lock finds m_lock free and nobody inside.            *)
LEMMA Acquires ==
  ASSUME LockInv, NEW t \in LockThread, ~MustWait(t), Acquire(t), m_cond' = m_cond \ {t},
         locks' \in [LockThread -> 0..MaxLocks]
  PROVE  LockInv'
<1>0. \A u \in LockThread : lock_pc[u] # "inside"
  BY DEF MustWait, LockInv, Bookkept
<1>1. LockTypeOK'
  BY DEF LockInv, LockTypeOK, Acquire, LockGoto, tuning
<1>2. Bookkept'
  BY <1>0 DEF LockInv, LockTypeOK, Bookkept, Acquire, LockGoto
<1>3. LockHandedOn'
  BY <1>0 DEF LockInv, LockTypeOK, LockHandedOn, Acquire, LockGoto, tuning
<1> QED
  BY <1>1, <1>2, <1>3 DEF LockInv

(* A step between two of the states of a waiting thread, but not into wait().  *)
LEMMA Stirs ==
  ASSUME LockInv, NEW t \in LockThread, NEW l \in {"woken", "sleeping"},
         lock_pc[t] \in {"waiting", "woken"}, LockGoto(t, l),
         UNCHANGED <<m_lock, m_lock_acquired, m_cond, m_previous_owner_priority, tuning, locks>>
  PROVE  LockInv'
<1>1. LockTypeOK'
  BY DEF LockInv, LockTypeOK, LockGoto, tuning
<1>2. Bookkept'
  BY DEF LockInv, LockTypeOK, Bookkept, LockGoto
<1>3. LockHandedOn'
  BY DEF LockInv, LockTypeOK, LockHandedOn, LockGoto, First, tuning
<1> QED
  BY <1>1, <1>2, <1>3 DEF LockInv

(* The interval that new_sleep_interval gives is in its bounds.                *)
LEMMA IntervalBounded ==
  ASSUME LockTypeOK, NEW epoch
  PROVE  new_sleep_interval(epoch) \in 0..105
<1> DEFINE step == m_current_sleep_interval - m_previous_sleep_interval
           move == CASE epoch = "faster" -> step [] epoch = "slower" -> -step [] OTHER -> 0
           moved == m_current_sleep_interval + move
           bounded == IF moved < 0 THEN 0 ELSE IF moved > 100 THEN 100 ELSE moved
<1>1. step \in Int
  BY DEF LockTypeOK
<1>2. move \in Int
  <2> HIDE DEF step
  <2> QED
    BY <1>1
<1>3. bounded \in 0..100
  <2> HIDE DEF move
  <2> QED
    BY <1>2 DEF LockTypeOK
<1>4. new_sleep_interval(epoch)
        = IF bounded = m_current_sleep_interval THEN bounded + 5 ELSE bounded
  BY DEF new_sleep_interval, DELTA
<1> QED
  <2> HIDE DEF bounded
  <2> QED
    BY <1>3, <1>4

(* Each step of the lock.                                                      *)
LEMMA LockInductive == LockInv /\ [LockNext]_lockVars => LockInv'
<1> SUFFICES ASSUME LockInv, [LockNext]_lockVars PROVE LockInv'
  OBVIOUS
<1>1. ASSUME NEW t \in LockThread, lock(t) PROVE LockInv'
  <2>1. locks' \in [LockThread -> 0..MaxLocks]
    BY <1>1, LockAssumption DEF lock, LockInv, LockTypeOK
  <2>2. CASE MustWait(t)
    BY <2>1, <2>2, <1>1, Waits DEF lock
  <2>3. CASE ~MustWait(t)
    <3>1. Acquire(t) /\ m_cond' = m_cond /\ lock_pc[t] = "outside"
      BY <2>3, <1>1 DEF lock
    <3>2. t \notin m_cond
      BY <3>1 DEF LockInv, Bookkept
    <3>3. m_cond' = m_cond \ {t}
      BY <3>1, <3>2
    <3> QED
      BY <2>1, <2>3, <3>1, <3>3, Acquires
  <2> QED
    BY <2>2, <2>3
<1>2. ASSUME NEW t \in LockThread, lock_pc[t] \in {"woken", "sleeping"}, WaitLoop(t),
             UNCHANGED locks
      PROVE  LockInv'
  <2>1. locks' \in [LockThread -> 0..MaxLocks]
    BY <1>2 DEF LockInv, LockTypeOK
  <2>2. CASE MustWait(t)
    <3>1. /\ LockGoto(t, "waiting")
          /\ UNCHANGED <<m_lock, m_lock_acquired, m_cond, m_previous_owner_priority, tuning>>
      BY <2>2, <1>2 DEF WaitLoop
    <3>2. t \in m_cond
      BY <1>2 DEF LockInv, Bookkept
    <3>3. m_cond' = m_cond \cup {t}
      BY <3>1, <3>2
    <3> QED
      BY <1>2, <2>1, <2>2, <3>1, <3>3, Waits
  <2>3. CASE ~MustWait(t)
    BY <2>1, <2>3, <1>2, Acquires DEF WaitLoop
  <2> QED
    BY <2>2, <2>3
<1>3. ASSUME NEW t \in LockThread, Woken(t) PROVE LockInv'
  <2>1. CASE t > m_previous_owner_priority /\ LockGoto(t, "sleeping")
             /\ UNCHANGED <<m_lock, m_lock_acquired, m_cond, m_previous_owner_priority, tuning>>
    BY <2>1, <1>3, Stirs DEF Woken
  <2>2. CASE WaitLoop(t)
    BY <2>2, <1>3, <1>2 DEF Woken
  <2> QED
    BY <2>1, <2>2, <1>3 DEF Woken
<1>4. ASSUME NEW t \in LockThread, Slept(t) PROVE LockInv'
  BY <1>4, <1>2 DEF Slept
<1>5. ASSUME NEW t \in LockThread, SpuriousReturn(t) PROVE LockInv'
  BY <1>5, Stirs DEF SpuriousReturn
<1>6. ASSUME NEW t \in LockThread, unlock(t) PROVE LockInv'
  <2>1. /\ m_epoch_counter' \in 0..(LOCKS_PER_EPOCH - 1) /\ m_initial' \in BOOLEAN
        /\ m_previous_sleep_interval' \in Int /\ m_current_sleep_interval' \in 0..105
    <3>1. CASE m_epoch_counter + 1 # LOCKS_PER_EPOCH
      BY <3>1, <1>6, LockAssumption DEF unlock, Tune, LockInv, LockTypeOK, LockHandedOn, DELTA
    <3>2. CASE m_epoch_counter + 1 = LOCKS_PER_EPOCH
      <4>1. m_epoch_counter' = 0 /\ 0 \in 0..(LOCKS_PER_EPOCH - 1)
        BY <3>2, <1>6, LockAssumption DEF unlock, Tune
      <4>2. PICK epoch \in Epoch :
              IF epoch = "delayed"
              THEN /\ m_initial' = TRUE
                   /\ m_previous_sleep_interval' = 0 /\ m_current_sleep_interval' = 50
              ELSE /\ m_initial' = FALSE
                   /\ m_previous_sleep_interval' = m_current_sleep_interval
                   /\ m_current_sleep_interval' = new_sleep_interval(epoch)
        BY <3>2, <1>6 DEF unlock, Tune
      <4>3. new_sleep_interval(epoch) \in 0..105
        BY IntervalBounded DEF LockInv
      <4>4. m_initial' \in BOOLEAN
        BY <4>2, Zenon
      <4>5. CASE epoch = "delayed"
        BY <4>1, <4>2, <4>4, <4>5
      <4>6. CASE epoch # "delayed"
        BY <4>1, <4>2, <4>3, <4>4, <4>6 DEF LockInv, LockTypeOK
      <4> QED
        BY <4>5, <4>6
    <3> QED
      BY <3>1, <3>2
  <2>2. LockTypeOK'
    <3>1. lock_pc' \in [LockThread -> {"outside", "waiting", "woken", "sleeping", "inside"}]
      BY <1>6 DEF unlock, LockInv, LockTypeOK
    <3>2. /\ m_lock' \subseteq LockThread /\ m_lock_acquired' \in BOOLEAN
          /\ m_cond' \subseteq LockThread /\ m_previous_owner_priority' \in Nat
          /\ locks' \in [LockThread -> 0..MaxLocks]
      BY <1>6, LockAssumption DEF unlock, LockInv, LockTypeOK
    <3> QED
      BY <3>1, <3>2, <2>1 DEF LockTypeOK
  <2>3. Bookkept'
    <3>1. \A u \in LockThread : lock_pc[u] = "inside" <=> u = t
      BY <1>6 DEF unlock, LockInv, LockHandedOn
    <3>2. \A u \in LockThread : u \in m_cond' <=> lock_pc'[u] \in {"waiting", "woken", "sleeping"}
      BY <1>6 DEF unlock, LockInv, Bookkept
    <3>3. \A u \in LockThread : u \notin m_lock' /\ lock_pc'[u] # "inside"
      BY <3>1, <1>6 DEF unlock, LockInv, Bookkept
    <3> QED
      BY <3>2, <3>3, <1>6 DEF unlock, Bookkept
  <2>4. LockHandedOn'
    <3>1. \A u \in LockThread : lock_pc'[u] # "inside" /\ u \notin m_lock'
      BY <2>3, <1>6 DEF unlock, Bookkept
    <3>2. m_lock' = {}
      BY <3>1, <2>2 DEF LockTypeOK
    <3>3. \A u \in LockThread : First(u)' => lock_pc'[u] # "waiting"
      BY <1>6 DEF unlock, First
    <3> QED
      BY <3>1, <3>2, <3>3, <2>1, <2>2 DEF LockHandedOn, LockTypeOK, First, DELTA
  <2> QED
    BY <2>2, <2>3, <2>4 DEF LockInv
<1>7. CASE UNCHANGED lockVars
  BY <1>7 DEF LockInv, LockTypeOK, Bookkept, LockHandedOn, First, lockVars, tuning
<1> QED
  BY <1>1, <1>3, <1>4, <1>5, <1>6, <1>7 DEF LockNext, LockStep

(* lock() and unlock() of unfair_lock, for every number of threads, of locks    *)
(* and of locks per epoch: one thread at a time is inside, m_lock is free when  *)
(* it is taken, no wakeup is lost, and the sleep interval stays in its bounds.  *)
THEOREM LockCorrect == LockSpec => []LockHandedOn
<1>1. LockInv => LockHandedOn
  BY DEF LockInv
<1> QED
  BY <1>1, LockInitial, LockInductive, PTL DEF LockSpec

-----------------------------------------------------------------------------
(* The cache manager.                                                           *)

Stream == {"sink", "grow", "out_file", "in_array", "in_file", "free", "freed"}
Writing == {"sink", "grow", "out_file"}
Field == {"pc", "id", "b", "n", "bytes", "streams"}

(* The shape of the state that the argument needs.                              *)
CacheShaped ==
  /\ cache_blocks \in [CacheId -> CacheBlock \cup {0}]
  /\ DOMAIN block = CacheBlock
  /\ \A b \in CacheBlock : /\ DOMAIN block[b] = {"kind", "maximum_capacity", "capacity", "size"}
                          /\ block[b].kind \in {"none", "memory", "file"}
  /\ DOMAIN user = CacheUser
  /\ \A u \in CacheUser :
       /\ DOMAIN user[u] = Field
       /\ user[u].pc \in InNewCache \cup Stream \cup {"idle"}
       /\ user[u].pc \in InNewCache \cup {"free"} => user[u].id \in CacheId
       /\ IF user[u].pc \in Stream THEN user[u].b \in CacheBlock ELSE user[u].b = 0

(* The mutex excludes, and ids do not share blocks.                             *)
Excluded ==
  /\ \A u, v \in CacheUser : user[u].pc \in InNewCache /\ user[v].pc \in InNewCache => u = v
  /\ \A i, j \in CacheId : cache_blocks[i] # 0 /\ cache_blocks[i] = cache_blocks[j] => i = j

(* A block that anybody refers to is there.                                     *)
ReferredLives ==
  /\ \A u \in CacheUser : user[u].pc \in Stream => block[user[u].b].kind # "none"
  /\ \A i \in CacheId : cache_blocks[i] # 0 => block[cache_blocks[i]].kind # "none"

(* Who writes to a block, or overwrites it, is alone with it; one thread at a   *)
(* time deletes it.                                                             *)
AloneWithBlock ==
  /\ \A u, v \in CacheUser :
       /\ user[u].pc \in Writing /\ user[v].pc \in Stream /\ user[v].b = user[u].b => v = u
       /\ user[u].pc = "free" /\ user[v].pc = "free" /\ user[v].b = user[u].b => v = u
       /\ user[u].pc \in InNewCache /\ user[v].pc \in Stream
            => user[v].b # cache_blocks[user[u].id]
  /\ \A u \in CacheUser : user[u].pc = "clear" => cache_blocks[user[u].id] # 0

CacheInv == CacheShaped /\ Excluded /\ ReferredLives /\ AloneWithBlock /\ StreamsKept
-----------------------------------------------------------------------------
USE DEF InNewCache, Stream, Writing, Field

(* The capacities play no part in what follows.                                 *)
LEMMA NoBlockZero == 0 \notin CacheBlock
BY CacheAssumption

LEMMA InitInv == CacheInit => CacheInv
BY DEF CacheInit, CacheInv, CacheShaped, Excluded, ReferredLives, AloneWithBlock, StreamsKept,
       Idle, Empty

(* new_cache takes the mutex, for an id whose block nobody refers to.           *)
LEMMA NewCache ==
  ASSUME CacheInv, NEW u \in CacheUser, NEW i \in CacheId, new_cache(u, i)
  PROVE  CacheInv'
<1>. USE NoBlockZero
<1>1. CacheShaped /\ Excluded /\ ReferredLives /\ AloneWithBlock /\ StreamsKept
  BY DEF CacheInv
<1>2. /\ DOMAIN user' = CacheUser
      /\ \A v \in CacheUser : v # u => user'[v] = user[v]
      /\ DOMAIN user'[u] = Field
      /\ user'[u].pc \in {"evict", "size"}
      /\ user'[u].b = 0
      /\ block' = block
      /\ cache_blocks' = cache_blocks
      /\ \A v \in CacheUser : user[v].pc \notin InNewCache
      /\ user'[u].id = i
      /\ \A v \in CacheUser : cache_blocks[i] # 0 => user[v].b # cache_blocks[i]
      /\ user[u].pc = "idle"
  BY <1>1 DEF new_cache, Starts, Unlocked, UserAt, Referring, CacheShaped
<1>4. CacheShaped'
  BY <1>1, <1>2 DEF CacheShaped
<1>5. Excluded'
  BY <1>1, <1>2 DEF CacheShaped, Excluded, ReferredLives
<1>6. ReferredLives'
  BY <1>1, <1>2 DEF CacheShaped, Excluded, ReferredLives, AloneWithBlock
<1>7. AloneWithBlock'
  BY <1>1, <1>2 DEF CacheShaped, Excluded, AloneWithBlock, ReferredLives
<1>8. StreamsKept'
  BY <1>1, <1>2 DEF CacheShaped, Excluded, AloneWithBlock, StreamsKept, ReferredLives
<1>. QED
  BY <1>4, <1>5, <1>6, <1>7, <1>8 DEF CacheInv

(* An evicted block has no stream.                                              *)
LEMMA Evict ==
  ASSUME CacheInv, NEW u \in CacheUser, try_cache_evict(u)
  PROVE  CacheInv'
<1>. USE NoBlockZero
<1>1. CacheShaped /\ Excluded /\ ReferredLives /\ AloneWithBlock /\ StreamsKept
  BY DEF CacheInv
<1>2. /\ DOMAIN user' = CacheUser
      /\ \A v \in CacheUser : v # u => user'[v] = user[v]
      /\ DOMAIN user'[u] = Field
      /\ user'[u].pc = "size"
      /\ user'[u].b = 0
      /\ cache_blocks' = cache_blocks
      /\ user'[u].id = user[u].id
      /\ user[u].pc = "evict"
      /\ \/ block' = block
         \/ \E b \in CacheBlock : /\ block' = [block EXCEPT ![b] = Empty("file")]
                               /\ \A v \in CacheUser : user[v].b # b
  BY <1>1 DEF try_cache_evict, UserAt, Evictable, unique, Referring, write_to_file, CacheShaped
<1>. USE DEF Empty
<1>4. CacheShaped'
  BY <1>1, <1>2 DEF CacheShaped
<1>5. Excluded'
  BY <1>1, <1>2 DEF CacheShaped, Excluded, ReferredLives
<1>6. ReferredLives'
  BY <1>1, <1>2 DEF CacheShaped, Excluded, ReferredLives, AloneWithBlock
<1>7. AloneWithBlock'
  BY <1>1, <1>2 DEF CacheShaped, Excluded, AloneWithBlock, ReferredLives
<1>8. StreamsKept'
  BY SMTT(30), <1>1, <1>2 DEF CacheShaped, Excluded, AloneWithBlock, StreamsKept, ReferredLives
<1>. QED
  BY <1>4, <1>5, <1>6, <1>7, <1>8 DEF CacheInv

(* Only the manager's own thread moves.                                         *)
LEMMA SizeStep ==
  ASSUME CacheInv, NEW u \in CacheUser, Size(u)
  PROVE  CacheInv'
<1>. USE NoBlockZero
<1>1. CacheShaped /\ Excluded /\ ReferredLives /\ AloneWithBlock /\ StreamsKept
  BY DEF CacheInv
<1>2. /\ DOMAIN user' = CacheUser
      /\ \A v \in CacheUser : v # u => user'[v] = user[v]
      /\ DOMAIN user'[u] = Field
      /\ user'[u].pc \in {"init", "clear"}
      /\ user'[u].b = 0
      /\ block' = block
      /\ cache_blocks' = cache_blocks
      /\ user'[u].id = user[u].id
      /\ user[u].pc = "size"
      /\ user'[u].pc = "clear" => cache_blocks[user[u].id] # 0
  BY <1>1 DEF Size, UserAt, CacheShaped
<1>4. CacheShaped'
  BY <1>1, <1>2 DEF CacheShaped
<1>5. Excluded'
  BY <1>1, <1>2 DEF CacheShaped, Excluded, ReferredLives
<1>6. ReferredLives'
  BY <1>1, <1>2 DEF CacheShaped, Excluded, ReferredLives, AloneWithBlock
<1>7. AloneWithBlock'
  BY <1>1, <1>2 DEF CacheShaped, Excluded, AloneWithBlock, ReferredLives
<1>8. StreamsKept'
  BY SMTT(30), <1>1, <1>2 DEF CacheShaped, Excluded, AloneWithBlock, StreamsKept, ReferredLives
<1>. QED
  BY <1>4, <1>5, <1>6, <1>7, <1>8 DEF CacheInv

(* A block that is overwritten has no stream.                                   *)
LEMMA Clear ==
  ASSUME CacheInv, NEW u \in CacheUser, clear(u)
  PROVE  CacheInv'
<1>. USE NoBlockZero
<1>1. CacheShaped /\ Excluded /\ ReferredLives /\ AloneWithBlock /\ StreamsKept
  BY DEF CacheInv
<1>2. /\ DOMAIN user' = CacheUser
      /\ \A v \in CacheUser : v # u => user'[v] = user[v]
      /\ DOMAIN user'[u] = Field
      /\ user'[u].pc = "init"
      /\ user'[u].b = 0
      /\ cache_blocks' = cache_blocks
      /\ user'[u].id = user[u].id
      /\ user[u].pc = "clear"
      /\ cache_blocks[user[u].id] \in CacheBlock
      /\ block' = [block EXCEPT ![cache_blocks[user[u].id]] = Empty("memory")]
  BY <1>1 DEF clear, UserAt, CacheShaped, AloneWithBlock
<1>. USE DEF Empty
<1>4. CacheShaped'
  BY <1>1, <1>2 DEF CacheShaped
<1>5. Excluded'
  BY <1>1, <1>2 DEF CacheShaped, Excluded, ReferredLives
<1>6. ReferredLives'
  BY <1>1, <1>2 DEF CacheShaped, Excluded, ReferredLives, AloneWithBlock
<1>7. AloneWithBlock'
  BY <1>1, <1>2 DEF CacheShaped, Excluded, AloneWithBlock, ReferredLives
<1>8. StreamsKept'
  BY SMTT(30), <1>1, <1>2 DEF CacheShaped, Excluded, AloneWithBlock, StreamsKept, ReferredLives
<1>. QED
  BY <1>4, <1>5, <1>6, <1>7, <1>8 DEF CacheInv

(* The entry gets the block it had, or an address nobody refers to.             *)
LEMMA Initialize ==
  ASSUME CacheInv, NEW u \in CacheUser, initialize_memory(u)
  PROVE  CacheInv'
<1>. USE NoBlockZero
<1>1. CacheShaped /\ Excluded /\ ReferredLives /\ AloneWithBlock /\ StreamsKept
  BY DEF CacheInv
<1>. DEFINE i == user[u].id
<1>2. PICK b \in CacheBlock :
        /\ b = cache_blocks[i] \/ (cache_blocks[i] = 0 /\ block[b].kind = "none")
        /\ \A c \in CacheBlock : c # b => block'[c] = block[c]
        /\ DOMAIN block' = CacheBlock
        /\ DOMAIN block'[b] = {"kind", "maximum_capacity", "capacity", "size"}
        /\ block'[b].kind = "memory"
        /\ cache_blocks' = [cache_blocks EXCEPT ![i] = b]
        /\ DOMAIN user'[u] = Field /\ user'[u].pc = "sink" /\ user'[u].b = b
  <2>1. PICK b \in CacheBlock :
          /\ \/ b = cache_blocks[i]
             \/ cache_blocks[i] = 0 /\ Unused(b) /\ \A c \in CacheBlock : Unused(c) => b <= c
          /\ block' = [block EXCEPT ![b] =
               [kind |-> "memory", maximum_capacity |-> user[u].n,
                capacity |-> Smaller(FILEIO_INITIAL_CAPACITY_PER_FILE, user[u].n), size |-> 0]]
          /\ cache_blocks' = [cache_blocks EXCEPT ![i] = b]
          /\ user' = [user EXCEPT ![u].pc = "sink", ![u].b = b, ![u].n = 0]
    BY Zenon DEF initialize_memory
  <2>. QED
    BY ZenonT(40), <1>1, <2>1 DEF Unused, CacheShaped
<1>3. /\ DOMAIN user' = CacheUser
      /\ \A v \in CacheUser : v # u => user'[v] = user[v]
      /\ user[u].pc = "init" /\ i \in CacheId
  BY <1>1 DEF initialize_memory, UserAt, CacheShaped
<1>4. /\ \A v \in CacheUser : user[v].pc \in Stream => user[v].b # b
      /\ \A j \in CacheId : j # i => cache_blocks[j] # b
  BY <1>1, <1>2, <1>3 DEF CacheShaped, Excluded, ReferredLives, AloneWithBlock
<1>5. CacheShaped'
  BY <1>1, <1>2, <1>3 DEF CacheShaped
<1>6. Excluded'
  BY <1>1, <1>2, <1>3, <1>4 DEF CacheShaped, Excluded
<1>7. ReferredLives'
  BY <1>1, <1>2, <1>3, <1>4 DEF CacheShaped, ReferredLives
<1>8. AloneWithBlock'
  BY <1>1, <1>2, <1>3, <1>4 DEF CacheShaped, Excluded, AloneWithBlock
<1>9. StreamsKept'
  BY <1>1, <1>2, <1>3, <1>4 DEF CacheShaped, StreamsKept
<1>. QED
  BY <1>5, <1>6, <1>7, <1>8, <1>9 DEF CacheInv

(* A sink changes only its own block.                                           *)
LEMMA Write ==
  ASSUME CacheInv, NEW u \in CacheUser, NEW bufsize \in BufSize,
         write_bytes_to_memory_cache(u, bufsize)
  PROVE  CacheInv'
<1>. USE NoBlockZero
<1>1. CacheShaped /\ Excluded /\ ReferredLives /\ AloneWithBlock /\ StreamsKept
  BY DEF CacheInv
<1>2. /\ DOMAIN user' = CacheUser
      /\ \A v \in CacheUser : v # u => user'[v] = user[v]
      /\ DOMAIN user'[u] = Field
      /\ user[u].pc = "sink" /\ user'[u].b = user[u].b
      /\ cache_blocks' = cache_blocks
      /\ DOMAIN block' = CacheBlock
      /\ \A c \in CacheBlock : c # user[u].b => block'[c] = block[c]
      /\ DOMAIN block'[user[u].b] = {"kind", "maximum_capacity", "capacity", "size"}
      /\ \/ user'[u].pc \in {"sink", "grow"} /\ block'[user[u].b].kind = block[user[u].b].kind
         \/ user'[u].pc = "out_file" /\ block'[user[u].b].kind = "file"
  BY <1>1 DEF write_bytes_to_memory_cache, UserAt, write_to_file, Empty, CacheShaped
<1>4. CacheShaped'
  BY <1>1, <1>2 DEF CacheShaped
<1>5. Excluded'
  BY <1>1, <1>2 DEF CacheShaped, Excluded, ReferredLives
<1>6. ReferredLives'
  BY <1>1, <1>2 DEF CacheShaped, Excluded, ReferredLives, AloneWithBlock
<1>7. AloneWithBlock'
  BY <1>1, <1>2 DEF CacheShaped, Excluded, AloneWithBlock, ReferredLives
<1>8. StreamsKept'
  BY SMTT(30), <1>1, <1>2 DEF CacheShaped, Excluded, AloneWithBlock, StreamsKept, ReferredLives
<1>. QED
  BY <1>4, <1>5, <1>6, <1>7, <1>8 DEF CacheInv

(* The memory of a sink is extended.                                            *)
LEMMA Extend ==
  ASSUME CacheInv, NEW u \in CacheUser, extend_capacity(u)
  PROVE  CacheInv'
<1>. USE NoBlockZero
<1>1. CacheShaped /\ Excluded /\ ReferredLives /\ AloneWithBlock /\ StreamsKept
  BY DEF CacheInv
<1>2. /\ DOMAIN user' = CacheUser
      /\ \A v \in CacheUser : v # u => user'[v] = user[v]
      /\ DOMAIN user'[u] = Field
      /\ user[u].pc = "grow" /\ user'[u].pc = "sink" /\ user'[u].b = user[u].b
      /\ cache_blocks' = cache_blocks
      /\ DOMAIN block' = CacheBlock
      /\ \A c \in CacheBlock : c # user[u].b => block'[c] = block[c]
      /\ DOMAIN block'[user[u].b] = {"kind", "maximum_capacity", "capacity", "size"}
      /\ block'[user[u].b].kind = block[user[u].b].kind
  BY <1>1 DEF extend_capacity, UserAt, CacheShaped
<1>4. CacheShaped'
  BY <1>1, <1>2 DEF CacheShaped
<1>5. Excluded'
  BY <1>1, <1>2 DEF CacheShaped, Excluded, ReferredLives
<1>6. ReferredLives'
  BY <1>1, <1>2 DEF CacheShaped, Excluded, ReferredLives, AloneWithBlock
<1>7. AloneWithBlock'
  BY <1>1, <1>2 DEF CacheShaped, Excluded, AloneWithBlock, ReferredLives
<1>8. StreamsKept'
  BY SMTT(30), <1>1, <1>2 DEF CacheShaped, Excluded, AloneWithBlock, StreamsKept, ReferredLives
<1>. QED
  BY <1>4, <1>5, <1>6, <1>7, <1>8 DEF CacheInv

(* A source opens on a block that nobody writes to.                             *)
LEMMA Source ==
  ASSUME CacheInv, NEW u \in CacheUser, NEW i \in CacheId, cache_stream_source(u, i)
  PROVE  CacheInv'
<1>. USE NoBlockZero
<1>1. CacheShaped /\ Excluded /\ ReferredLives /\ AloneWithBlock /\ StreamsKept
  BY DEF CacheInv
<1>2. /\ DOMAIN user' = CacheUser
      /\ \A v \in CacheUser : v # u => user'[v] = user[v]
      /\ DOMAIN user'[u] = Field
      /\ user'[u].pc \in {"in_array", "in_file"}
      /\ user'[u].b = cache_blocks[i]
      /\ block' = block
      /\ cache_blocks' = cache_blocks
      /\ \A v \in CacheUser : user[v].pc \notin InNewCache
      /\ user[u].pc = "idle" /\ cache_blocks[i] # 0
      /\ user'[u].pc = "in_array" => /\ block[cache_blocks[i]].kind = "memory"
                                    /\ user'[u].n = block[cache_blocks[i]].size
      /\ user'[u].pc = "in_file" => block[cache_blocks[i]].kind # "memory"
      /\ \A v \in CacheUser : user[v].b = cache_blocks[i] => user[v].pc \notin Writing
  BY <1>1 DEF cache_stream_source, get_cache, Starts, Unlocked, UserAt, Referring, WritingTo, CacheShaped
<1>4. CacheShaped'
  BY <1>1, <1>2 DEF CacheShaped
<1>5. Excluded'
  BY <1>1, <1>2 DEF CacheShaped, Excluded, ReferredLives
<1>6. ReferredLives'
  BY <1>1, <1>2 DEF CacheShaped, Excluded, ReferredLives, AloneWithBlock
<1>7. AloneWithBlock'
  BY <1>1, <1>2 DEF CacheShaped, Excluded, AloneWithBlock, ReferredLives
<1>8. StreamsKept'
  BY SMTT(30), <1>1, <1>2 DEF CacheShaped, Excluded, AloneWithBlock, StreamsKept, ReferredLives
<1>. QED
  BY <1>4, <1>5, <1>6, <1>7, <1>8 DEF CacheInv

(* delete_path refers to a block that nobody writes to or deletes.              *)
LEMMA DeletePath ==
  ASSUME CacheInv, NEW u \in CacheUser, NEW i \in CacheId, delete_path(u, i)
  PROVE  CacheInv'
<1>. USE NoBlockZero
<1>1. CacheShaped /\ Excluded /\ ReferredLives /\ AloneWithBlock /\ StreamsKept
  BY DEF CacheInv
<1>2. /\ DOMAIN user' = CacheUser
      /\ \A v \in CacheUser : v # u => user'[v] = user[v]
      /\ DOMAIN user'[u] = Field
      /\ user'[u].pc = "free"
      /\ user'[u].b = cache_blocks[i]
      /\ block' = block
      /\ cache_blocks' = cache_blocks
      /\ \A v \in CacheUser : user[v].pc \notin InNewCache
      /\ user[u].pc = "idle" /\ cache_blocks[i] # 0 /\ user'[u].id = i
      /\ \A v \in CacheUser : user[v].b = cache_blocks[i] => user[v].pc \notin Writing \cup {"free"}
  BY <1>1 DEF delete_path, get_cache, Starts, Unlocked, UserAt, Referring, WritingTo, CacheShaped
<1>4. CacheShaped'
  BY <1>1, <1>2 DEF CacheShaped
<1>5. Excluded'
  BY <1>1, <1>2 DEF CacheShaped, Excluded, ReferredLives
<1>6. ReferredLives'
  BY <1>1, <1>2 DEF CacheShaped, Excluded, ReferredLives, AloneWithBlock
<1>7. AloneWithBlock'
  BY <1>1, <1>2 DEF CacheShaped, Excluded, AloneWithBlock, ReferredLives
<1>8. StreamsKept'
  BY SMTT(30), <1>1, <1>2 DEF CacheShaped, Excluded, AloneWithBlock, StreamsKept, ReferredLives
<1>. QED
  BY <1>4, <1>5, <1>6, <1>7, <1>8 DEF CacheInv

(* The block leaves the map and stays with its streams.                         *)
LEMMA Free ==
  ASSUME CacheInv, NEW u \in CacheUser, free(u)
  PROVE  CacheInv'
<1>. USE NoBlockZero
<1>1. CacheShaped /\ Excluded /\ ReferredLives /\ AloneWithBlock /\ StreamsKept
  BY DEF CacheInv
<1>2. /\ DOMAIN user' = CacheUser
      /\ \A v \in CacheUser : v # u => user'[v] = user[v]
      /\ DOMAIN user'[u] = Field
      /\ user'[u].pc = "freed"
      /\ user'[u].b = user[u].b
      /\ block' = block
      /\ \A v \in CacheUser : user[v].pc \notin InNewCache
      /\ user[u].pc = "free"
      /\ cache_blocks' = [cache_blocks EXCEPT ![user[u].id] = 0]
  BY <1>1 DEF free, Unlocked, UserAt, CacheShaped
<1>4. CacheShaped'
  BY <1>1, <1>2 DEF CacheShaped
<1>5. Excluded'
  BY <1>1, <1>2 DEF CacheShaped, Excluded, ReferredLives
<1>6. ReferredLives'
  BY <1>1, <1>2 DEF CacheShaped, Excluded, ReferredLives, AloneWithBlock
<1>7. AloneWithBlock'
  BY <1>1, <1>2 DEF CacheShaped, Excluded, AloneWithBlock, ReferredLives
<1>8. StreamsKept'
  BY SMTT(30), <1>1, <1>2 DEF CacheShaped, Excluded, AloneWithBlock, StreamsKept, ReferredLives
<1>. QED
  BY <1>4, <1>5, <1>6, <1>7, <1>8 DEF CacheInv

(* Only the last reference takes the block with it.                             *)
LEMMA Close ==
  ASSUME CacheInv, NEW u \in CacheUser, close(u)
  PROVE  CacheInv'
<1>. USE NoBlockZero
<1>1. CacheShaped /\ Excluded /\ ReferredLives /\ AloneWithBlock /\ StreamsKept
  BY DEF CacheInv
<1>2. /\ DOMAIN user' = CacheUser
      /\ \A v \in CacheUser : v # u => user'[v] = user[v]
      /\ DOMAIN user'[u] = Field
      /\ user'[u].pc = "idle"
      /\ user'[u].b = 0
      /\ cache_blocks' = cache_blocks
      /\ user[u].pc \in Stream
      /\ \/ block' = block
         \/ /\ block' = [block EXCEPT ![user[u].b] = Empty("none")]
            /\ \A i \in CacheId : cache_blocks[i] # user[u].b
            /\ \A v \in CacheUser : v # u => user[v].b # user[u].b
  BY <1>1 DEF close, Idle, Mapped, Referring, CacheShaped
<1>. USE DEF Empty
<1>4. CacheShaped'
  BY <1>1, <1>2 DEF CacheShaped
<1>5. Excluded'
  BY <1>1, <1>2 DEF CacheShaped, Excluded, ReferredLives
<1>6. ReferredLives'
  BY <1>1, <1>2 DEF CacheShaped, Excluded, ReferredLives, AloneWithBlock
<1>7. AloneWithBlock'
  BY <1>1, <1>2 DEF CacheShaped, Excluded, AloneWithBlock, ReferredLives
<1>8. StreamsKept'
  BY SMTT(30), <1>1, <1>2 DEF CacheShaped, Excluded, AloneWithBlock, StreamsKept, ReferredLives
<1>. QED
  BY <1>4, <1>5, <1>6, <1>7, <1>8 DEF CacheInv

(* CacheInv is an invariant of the cache manager and its streams.               *)
THEOREM CacheInvariant == CacheSpec => []CacheInv
<1>1. CacheInv /\ [CacheNext]_cacheVars => CacheInv'
  <2>. SUFFICES ASSUME CacheInv, [CacheNext]_cacheVars PROVE CacheInv'
    OBVIOUS
  <2>1. CASE UNCHANGED cacheVars
    <3>1. CacheShaped'
      BY <2>1 DEF cacheVars, CacheInv, CacheShaped
    <3>2. Excluded' /\ ReferredLives'
      BY <2>1 DEF cacheVars, CacheInv, Excluded, ReferredLives
    <3>3. AloneWithBlock' /\ StreamsKept'
      BY <2>1 DEF cacheVars, CacheInv, AloneWithBlock, StreamsKept
    <3>. QED
      BY <3>1, <3>2, <3>3 DEF CacheInv
  <2>2. CASE CacheNext
    BY <2>2, NewCache, Evict, SizeStep, Clear, Initialize, Write, Extend, Source, DeletePath, Free,
       Close, Zenon DEF CacheNext
  <2>. QED
    BY <2>1, <2>2
<1>. QED
  BY InitInv, <1>1, PTL DEF CacheSpec

(* No stream loses the memory or the file it was opened on to an eviction, an   *)
(* overwriting or a deletion, and free always finds its block.                  *)
THEOREM StreamsSafe == CacheSpec => []StreamsKept
<1>1. CacheInv => StreamsKept
  BY DEF CacheInv
<1>. QED
  BY CacheInvariant, <1>1, PTL

==============================================================================

---------------------------- MODULE CacheManager ----------------------------
(* The cache of fileio: named blocks of memory that writers fill, that grow     *)
(* while the total allows it and are written to a file when it does not, that   *)
(* new_cache evicts when the total is reached and nobody uses them, and that    *)
(* live as long as the manager or a stream refers to them.  The manager's map    *)
(* is under a mutex; the total is an atomic counter that is read and changed     *)
(* without it.  A block of memory without data has capacity 0.                  *)
EXTENDS Integers, FiniteSets
LOCAL INSTANCE FiniteSetsExt

CONSTANTS
  CacheUser,     \* threads
  CacheId,
  CacheBlock,    \* addresses of blocks: numbers
  FILEIO_MAXIMUM_CACHE_CAPACITY,
  FILEIO_MAXIMUM_CACHE_CAPACITY_PER_FILE,
  FILEIO_INITIAL_CAPACITY_PER_FILE,
  BufSize,       \* the sizes of writes
  MaxStreams     \* bound: streams and deletions of one thread

ASSUME CacheAssumption ==
  /\ CacheBlock \subseteq Nat \ {0} /\ BufSize \subseteq Nat \ {0} /\ MaxStreams \in Nat
  /\ {FILEIO_MAXIMUM_CACHE_CAPACITY, FILEIO_MAXIMUM_CACHE_CAPACITY_PER_FILE,
      FILEIO_INITIAL_CAPACITY_PER_FILE} \subseteq Nat

VARIABLES
  cache_blocks,  \* the block of an id, or 0
  block,         \* [kind, maximum_capacity, capacity, size] of an address
  current_cache_utilization,
  user           \* [pc, id, b, n, bytes, streams] of a thread

cacheVars == <<cache_blocks, block, current_cache_utilization, user>>

Smaller(a, b) == IF a < b THEN a ELSE b
Larger(a, b) == IF a < b THEN b ELSE a

Empty(kind) == [kind |-> kind, maximum_capacity |-> 0, capacity |-> 0, size |-> 0]

Idle(streams) ==
  [pc |-> "idle", id |-> 0, b |-> 0, n |-> 0, bytes |-> 0, streams |-> streams]

CacheInit ==
  /\ cache_blocks = [i \in CacheId |-> 0]
  /\ block = [b \in CacheBlock |-> Empty("none")]
  /\ current_cache_utilization = 0
  /\ user = [u \in CacheUser |-> Idle(0)]
-----------------------------------------------------------------------------
(* The mutex is held by the thread in the middle of new_cache.                  *)
InNewCache == {"evict", "size", "clear", "init"}
Unlocked == \A u \in CacheUser : user[u].pc \notin InNewCache

UserAt(u, pc) == user[u].pc = pc

(* The references to a block are those of the streams and that of the map.      *)
Referring(b) == {u \in CacheUser : user[u].b = b}
Mapped(b) == \E i \in CacheId : cache_blocks[i] = b
WritingTo(b) == {u \in Referring(b) : user[u].pc \in {"sink", "grow", "out_file"}}

Starts(u, i, pc, b, n) ==
  /\ UserAt(u, "idle") /\ user[u].streams < MaxStreams /\ Unlocked
  /\ user' = [user EXCEPT ![u] = [pc |-> pc, id |-> i, b |-> b, n |-> n, bytes |-> 0,
                                  streams |-> user[u].streams + 1]]

(* A sink is opened on a new id, or on that of a block nobody has open.         *)
new_cache(u, i) ==
  /\ cache_blocks[i] # 0 => Referring(cache_blocks[i]) = {}
  /\ Starts(u, i, IF current_cache_utilization >= FILEIO_MAXIMUM_CACHE_CAPACITY
                  THEN "evict" ELSE "size", 0, 0)
  /\ UNCHANGED <<cache_blocks, block, current_cache_utilization>>

(* A version that sets the capacity to 0 before it is taken from the total.      *)
released_first(b) ==
  /\ block' = [block EXCEPT ![b] = Empty("file")]
  /\ UNCHANGED current_cache_utilization

(* The block becomes a file and gives its memory back.                          *)
write_to_file(b) ==
  /\ block' = [block EXCEPT ![b] = Empty("file")]
  /\ current_cache_utilization' = current_cache_utilization - block[b].capacity

(* shared_ptr::unique, for a block of the map; a version that always holds.     *)
always_unique(b) == TRUE
unique(b) == Referring(b) = {}

Evictable == {b \in CacheBlock : /\ Mapped(b) /\ unique(b)
                                 /\ block[b].kind = "memory" /\ block[b].size > 0}

(* The largest block of memory that nobody uses is written to a file, if there  *)
(* is one.                                                                      *)
try_cache_evict(u) ==
  /\ UserAt(u, "evict")
  /\ user' = [user EXCEPT ![u].pc = "size"]
  /\ UNCHANGED cache_blocks
  /\ \/ Evictable = {} /\ UNCHANGED <<block, current_cache_utilization>>
     \/ \E b \in Evictable :
          /\ \A c \in Evictable : block[c].size <= block[b].size
          /\ write_to_file(b)

(* What is left for the new entry; an id that has a block keeps it, and its      *)
(* maximum if it is in memory.                                                  *)
Size(u) ==
  LET b == cache_blocks[user[u].id]
      left == IF current_cache_utilization < FILEIO_MAXIMUM_CACHE_CAPACITY
              THEN Smaller(FILEIO_MAXIMUM_CACHE_CAPACITY_PER_FILE,
                           FILEIO_MAXIMUM_CACHE_CAPACITY - current_cache_utilization)
              ELSE 0
  IN /\ UserAt(u, "size")
     /\ user' = [user EXCEPT ![u].pc = IF b = 0 THEN "init" ELSE "clear",
                             ![u].n = IF b # 0 /\ block[b].kind = "memory"
                                      THEN block[b].maximum_capacity ELSE left]
     /\ UNCHANGED <<cache_blocks, block, current_cache_utilization>>

(* The old contents go, memory or file.                                         *)
clear(u) ==
  LET b == cache_blocks[user[u].id]
  IN /\ UserAt(u, "clear")
     /\ block' = [block EXCEPT ![b] = Empty("memory")]
     /\ current_cache_utilization' = current_cache_utilization - block[b].capacity
     /\ user' = [user EXCEPT ![u].pc = "init"]
     /\ UNCHANGED cache_blocks

Unused(b) == b \in CacheBlock /\ block[b].kind = "none"

(* The entry gets its first memory, a new one an address; the sink is open.     *)
initialize_memory(u) ==
  LET i == user[u].id
      capacity == Smaller(FILEIO_INITIAL_CAPACITY_PER_FILE, user[u].n)
  IN \E b \in CacheBlock :
       /\ UserAt(u, "init")
       /\ \/ b = cache_blocks[i]
          \/ cache_blocks[i] = 0 /\ Unused(b) /\ \A c \in CacheBlock : Unused(c) => b <= c
       /\ block' = [block EXCEPT ![b] = [kind |-> "memory", maximum_capacity |-> user[u].n,
                                         capacity |-> capacity, size |-> 0]]
       /\ current_cache_utilization' = current_cache_utilization + capacity
       /\ cache_blocks' = [cache_blocks EXCEPT ![i] = b]
       /\ user' = [user EXCEPT ![u].pc = "sink", ![u].b = b, ![u].n = 0]
-----------------------------------------------------------------------------
Fits(b, bufsize) == block[b].capacity > 0 /\ block[b].size + bufsize <= block[b].capacity

Within(b, capacity) ==
  current_cache_utilization + capacity - block[b].capacity <= FILEIO_MAXIMUM_CACHE_CAPACITY

(* What extend_capacity will make of the capacity, after a look at the total:   *)
(* doubled, or what is asked for, or nothing (0).                               *)
Extended(b, new_capacity) ==
  LET doubled == Smaller(Larger(new_capacity, 2 * block[b].capacity), block[b].maximum_capacity)
  IN IF block[b].capacity = 0 \/ new_capacity > block[b].maximum_capacity THEN 0
     ELSE IF Within(b, doubled) THEN doubled
     ELSE IF Within(b, new_capacity) THEN new_capacity
     ELSE 0

(* A sink writes to memory, decides to extend it, or moves to a file.  What it   *)
(* writes to a file afterwards is between the two.                              *)
write_bytes_to_memory_cache(u, bufsize) ==
  LET b == user[u].b
      capacity == Extended(b, block[b].size + bufsize)
  IN /\ UserAt(u, "sink")
     /\ UNCHANGED cache_blocks
     /\ \/ /\ Fits(b, bufsize)
           /\ block' = [block EXCEPT ![b].size = @ + bufsize]
           /\ UNCHANGED <<current_cache_utilization, user>>
        \/ /\ ~Fits(b, bufsize) /\ capacity > 0
           /\ user' = [user EXCEPT ![u].pc = "grow", ![u].n = capacity, ![u].bytes = bufsize]
           /\ UNCHANGED <<block, current_cache_utilization>>
        \/ /\ ~Fits(b, bufsize) /\ capacity = 0
           /\ write_to_file(b)
           /\ user' = [user EXCEPT ![u].pc = "out_file"]

(* The memory is extended, and the write takes place.                           *)
extend_capacity(u) ==
  LET b == user[u].b
  IN /\ UserAt(u, "grow")
     /\ block' = [block EXCEPT ![b].capacity = user[u].n, ![b].size = @ + user[u].bytes]
     /\ current_cache_utilization' =
          current_cache_utilization + user[u].n - block[b].capacity
     /\ user' = [user EXCEPT ![u].pc = "sink", ![u].n = 0, ![u].bytes = 0]
     /\ UNCHANGED cache_blocks

(* 0 stands for the exception of an id that is not there.                       *)
get_cache(i) == cache_blocks[i]

(* A source is opened on a block that nobody writes to: it keeps the pointer and *)
(* the size of the memory, or opens the file.                                   *)
cache_stream_source(u, i) ==
  LET b == get_cache(i)
  IN /\ b # 0 /\ WritingTo(b) = {}
     /\ Starts(u, i, IF block[b].kind = "memory" THEN "in_array" ELSE "in_file", b, block[b].size)
     /\ UNCHANGED <<cache_blocks, block, current_cache_utilization>>

(* delete_path takes a reference ...                                            *)
delete_path(u, i) ==
  LET b == get_cache(i)
  IN /\ b # 0 /\ WritingTo(b) = {}
     /\ ~\E v \in Referring(b) : UserAt(v, "free")
     /\ Starts(u, i, "free", b, 0)
     /\ UNCHANGED <<cache_blocks, block, current_cache_utilization>>

(* ... and takes the block out of the map.                                      *)
free(u) ==
  /\ UserAt(u, "free") /\ Unlocked
  /\ cache_blocks' = [cache_blocks EXCEPT ![user[u].id] = 0]
  /\ user' = [user EXCEPT ![u].pc = "freed"]
  /\ UNCHANGED <<block, current_cache_utilization>>

(* A stream gives up its reference; the last one destroys the block.            *)
close(u) ==
  LET b == user[u].b
  IN /\ user[u].pc \in {"sink", "out_file", "in_array", "in_file", "freed"}
     /\ user' = [user EXCEPT ![u] = Idle(@.streams)]
     /\ UNCHANGED cache_blocks
     /\ IF Mapped(b) \/ Referring(b) # {u}
        THEN UNCHANGED <<block, current_cache_utilization>>
        ELSE /\ block' = [block EXCEPT ![b] = Empty("none")]
             /\ current_cache_utilization' = current_cache_utilization - block[b].capacity

CacheNext ==
  \E u \in CacheUser :
    \/ \E i \in CacheId : new_cache(u, i) \/ cache_stream_source(u, i) \/ delete_path(u, i)
    \/ try_cache_evict(u) \/ Size(u) \/ clear(u) \/ initialize_memory(u)
    \/ \E bufsize \in BufSize : write_bytes_to_memory_cache(u, bufsize)
    \/ extend_capacity(u) \/ free(u) \/ close(u)

CacheSpec == CacheInit /\ [][CacheNext]_cacheVars

CacheDone == \A u \in CacheUser : UserAt(u, "idle") /\ user[u].streams = MaxStreams
-----------------------------------------------------------------------------
CacheTypeOK ==
  /\ cache_blocks \in [CacheId -> CacheBlock \cup {0}]
  /\ block \in [CacheBlock -> [kind : {"none", "memory", "file"}, maximum_capacity : Nat,
                               capacity : Nat, size : Nat]]
  /\ current_cache_utilization \in Nat
  /\ user \in [CacheUser ->
       [pc : InNewCache \cup {"idle", "sink", "grow", "out_file", "in_array", "in_file", "free",
                             "freed"},
        id : CacheId \cup {0}, b : CacheBlock \cup {0}, n : Nat, bytes : BufSize \cup {0},
        streams : 0..MaxStreams]]

(* The counter is the memory that the blocks really have, whoever grows, spills, *)
(* evicts, overwrites or destroys them at the same time.  The manager promises   *)
(* only to try to keep it below the maximum; races exceed it by at most one      *)
(* full entry for each other thread.                                            *)
CacheAccounted ==
  /\ CacheTypeOK
  /\ current_cache_utilization = MapThenSumSet(LAMBDA b : block[b].capacity, CacheBlock)
  /\ current_cache_utilization <=
       FILEIO_MAXIMUM_CACHE_CAPACITY
         + (Cardinality(CacheUser) - 1) * FILEIO_MAXIMUM_CACHE_CAPACITY_PER_FILE

(* A stream keeps what it was opened on until it is closed, in spite of the      *)
(* evictions, overwritings and deletions of others: a sink its memory until it   *)
(* moves to a file itself, a source the same bytes of memory or its file.  free  *)
(* finds its block in the map (its assertion).                                  *)
StreamsKept ==
  \A u \in CacheUser : LET s == user[u] IN
    /\ s.pc \in {"sink", "grow"} => block[s.b].kind = "memory"
    /\ s.pc \in {"out_file", "in_file"} => block[s.b].kind = "file"
    /\ s.pc = "in_array" => block[s.b].kind = "memory" /\ block[s.b].size = s.n
    /\ s.pc = "free" => cache_blocks[s.id] = s.b
=============================================================================

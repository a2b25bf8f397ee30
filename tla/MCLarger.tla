------------------------------ MODULE MCLarger ------------------------------
(* Larger instances of the two locking and termination protocols, and the cache *)
(* of files in memory, and the parser of CSV files; a behaviour is one of one   *)
(* instance.                                                                   *)
EXTENDS AsyncConsensus, CacheManager, MCCsv, TLC

CONSTANTS A, B, hA, hB, t0, t1, u1, t2, h0, h1, h2

VARIABLES instance,
  fork, clean_fork_count, state, forks_acquired, counter, cancellation_sent, lockid,
  stack, phase, meals, down, up, scatter

tableVars == <<fork, clean_fork_count, state, forks_acquired, counter, cancellation_sent,
               lockid, stack, phase, meals, down, up, scatter>>

MCPlace(a) == CASE a \in {t0, h0} -> 0 [] a \in {t1, u1, h1} -> 1 [] OTHER -> 2

(* The first: two processes, two threads on one of them, of which cancel_one() *)
(* wakes one, and two runs with a reset between.                               *)
MCAt == [a \in Agent |-> MCPlace(a)]
MCTaskAt1 == [p \in Proc |-> IF p = 1 THEN 1 ELSE 0]
MCOneCall == [p \in Proc |-> 1]

(* The second: three processes, so that a call can run ahead of the token and  *)
(* behind it.                                                                  *)
Three == INSTANCE AsyncConsensus WITH
  N <- 3, Thread <- {t0, t1, t2}, Handler <- {h0, h1, h2},
  At <- [a \in {t0, t1, t2, h0, h1, h2} |-> MCPlace(a)],
  Prior <- [p \in 0..2 |-> 1], InitWork <- [p \in 0..2 |-> IF p = 1 THEN 1 ELSE 0],
  WakeAll <- TRUE, MaxOrders <- 2, MaxRuns <- 1

(* The third: three vertices, each joined to both others, on one process.      *)
Triangle == INSTANCE DistributedChandyMisra WITH
  Proc <- {A}, Vertex <- 1..3, Edge <- 1..3, Source <- <<1, 2, 3>>, Target <- <<2, 3, 1>>,
  Home <- <<A, A, A>>, Master <- <<A, A, A>>,
  Adj <- (<<1, A>> :> <<3, 1>>) @@ (<<2, A>> :> <<1, 2>>) @@ (<<3, A>> :> <<2, 3>>),
  Handler <- {}, HandlerProc <- <<>>, MaxMeals <- <<2, 2, 1>>,
  Sequentialized <- TRUE, PerReplica <- FALSE

(* The fourth: two vertices joined by an edge on each of two processes, whose  *)
(* mirrors are released by scatter requests.                                   *)
Scatter == INSTANCE DistributedChandyMisra WITH
  Proc <- {A, B}, Vertex <- {1, 2}, Edge <- {1, 2}, Source <- <<1, 2>>, Target <- <<2, 1>>,
  Home <- <<A, B>>, Master <- <<A, B>>,
  Adj <- (<<1, A>> :> <<1>>) @@ (<<2, A>> :> <<1>>) @@ (<<1, B>> :> <<2>>) @@ (<<2, B>> :> <<2>>),
  Handler <- {hA, hB}, HandlerProc <- (hA :> A) @@ (hB :> B), MaxMeals <- <<1, 2>>,
  Sequentialized <- TRUE, PerReplica <- TRUE

frameVars == <<cacheVars, csvVars>>

LargerInit ==
  /\ \/ instance \in {"two", "triangle", "caches", "csv"} /\ Init /\ Triangle!Init
     \/ instance = "three" /\ Three!Init /\ Triangle!Init
     \/ instance = "scatter" /\ Init /\ Scatter!Init
  /\ CacheInit /\ CsvInit
  /\ instance # "csv" => files = <<<<"x">>>> /\ row_limit = 0 /\ continue_on_failure

LargerNext ==
  \/ instance = "two" /\ Next /\ UNCHANGED <<instance, tableVars, frameVars>>
  \/ instance = "three" /\ Three!Next /\ UNCHANGED <<instance, tableVars, frameVars>>
  \/ instance = "triangle" /\ Triangle!Next /\ UNCHANGED <<instance, vars, frameVars>>
  \/ instance = "scatter" /\ Scatter!Next /\ UNCHANGED <<instance, vars, frameVars>>
  \/ (* after the race of cm_scatter_race the locks may stand still *)
     instance = "scatter" /\ Scatter!Still /\ UNCHANGED <<instance, vars, tableVars, frameVars>>
  \/ instance = "caches" /\ CacheNext /\ UNCHANGED <<instance, vars, tableVars, csvVars>>
  \/ instance = "csv" /\ CsvNext /\ UNCHANGED <<instance, vars, tableVars, cacheVars>>
  \/ (* every stream is closed, the files are read *)
     /\ \/ instance = "caches" /\ CacheDone
        \/ instance = "csv" /\ CsvDone
     /\ UNCHANGED <<instance, vars, tableVars, frameVars>>
LargerSpec == LargerInit /\ [][LargerNext]_<<instance, vars, tableVars, frameVars>>

(* The safety of async_consensus on both rings: num_active and the token are    *)
(* accounted for, no queued task is left with all threads asleep, and           *)
(* consensus is never declared early.                                           *)
RingSafe ==
  /\ instance = "two" => /\ TypeOK /\ NumActiveValid /\ OneToken
                         /\ NoTaskForgotten /\ DoneOnlyWhenQuiet
  /\ instance = "three" => /\ Three!TypeOK /\ Three!NumActiveValid /\ Three!OneToken
                           /\ Three!NoTaskForgotten /\ Three!DoneOnlyWhenQuiet

(* Three-way contention and back-off in distributed_chandy_misra: vertices that *)
(* share an edge never run at the same time, a philosopher at the table owns    *)
(* all its forks, and no hungry philosopher waits for a dirty fork.             *)
TriangleSafe ==
  instance = "triangle" => /\ Triangle!MutualExclusion /\ Triangle!AtTableOwnsForks
                           /\ Triangle!UnacquiredForksClean /\ Triangle!ForksCounted
                           /\ Triangle!EatingOwnsForks

(* Release by unordered scatter requests: vertices that share an edge still     *)
(* never run at the same time, and each replica holds all its forks while its   *)
(* vertex runs.                                                                 *)
ScatterSafe ==
  instance = "scatter" => Scatter!MutualExclusion /\ Scatter!EatingOwnsForks /\ Scatter!ForksCounted
=============================================================================

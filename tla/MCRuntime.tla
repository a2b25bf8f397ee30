------------------------------ MODULE MCRuntime ------------------------------
(* The asynchronous engine and the parts of the runtime below it: a behaviour   *)
(* picks one of them, which then takes all the steps, while the others stay as  *)
(* they started.                                                               *)
EXTENDS RpcBarriers, FiberControl, SendBuffer, QueryObject, CancelOps, AsyncEngine

VARIABLE part

(* Three processes, of which the last sends a call between two full barriers.  *)
MCMaxSends == [p \in Proc |-> [d \in Proc |-> IF p = NumProcs - 1 /\ d = 0 THEN 1 ELSE 0]]

(* Each the child of the one before, so that one is an inner node; no calls.   *)
Chain == INSTANCE RpcBarriers WITH
  BranchFactor <- 1, MaxSends <- [p \in Proc |-> [d \in Proc |-> 0]]

(* The first fiber is tied to the first worker, and yields once.               *)
MCAffinity == [f \in Fiber |-> IF f = 1 THEN {1} ELSE Worker]
MCYields == [f \in Fiber |-> IF f = 1 THEN 1 ELSE 0]

(* One thread sends calls and a write, another a call and a write.             *)
MCSends == <<<<"call", "call", "write", "call">>, <<"call", "write">>>>

(* Two machines with a fiber each; vertex 1 has a mirror on the machine of      *)
(* vertex 2, where the edge is.                                                *)
MCMaster == <<1, 2>>
MCLocalEdges == <<{}, {{1, 2}}>>
MCPlace == [a \in EngineAgent |-> IF a \in {"f1", "h1"} THEN 1 ELSE 2]
MCCpu == [f \in EngineFiber |-> 0]

(* One machine with two fibers, which meet at the vertices; no timeout.        *)
Alone == INSTANCE AsyncEngine WITH
  Machine <- {1}, Master <- <<1, 1>>, LocalEdges <- <<{{1, 2}}>>, EngineHandler <- {"h1"},
  Place <- [a \in EngineFiber \cup {"h1"} |-> 1], Cpu <- [f1 |-> 0, f2 |-> 1], Multi <- 1, MaxSignals <- 3,
  Timed <- FALSE

(* Only the engine's own parts vary in the queue that the first signal is in.  *)
SignalsIn(q) == \A m \in DOMAIN sched : \A p \in {0, 1} \ {q} : sched[m].in[p] = <<>>

RuntimeInit ==
  /\ \/ part \in {"barriers", "chain", "fibers", "sends", "queries", "commands"}
        /\ EngineInit /\ SignalsIn(0)
     \/ part = "engine" /\ EngineInit
     \/ part = "alone" /\ Alone!EngineInit
  /\ IF part = "chain" THEN Chain!CollectiveInit ELSE CollectiveInit
  /\ FiberInit /\ SendInit /\ QueryInit /\ CancelInit

runtimeVars == <<part, barrierVars, fiberVars, sendVars, queryVars, cancelVars, engineVars>>

RuntimeNext ==
  \/ /\ part = "barriers" /\ CollectiveNext
     /\ UNCHANGED <<part, fiberVars, sendVars, queryVars, cancelVars, engineVars>>
  \/ /\ part = "chain" /\ Chain!CollectiveNext
     /\ UNCHANGED <<part, fiberVars, sendVars, queryVars, cancelVars, engineVars>>
  \/ /\ part = "fibers" /\ FiberNext
     /\ UNCHANGED <<part, barrierVars, sendVars, queryVars, cancelVars, engineVars>>
  \/ /\ part = "sends" /\ SendNext
     /\ UNCHANGED <<part, barrierVars, fiberVars, queryVars, cancelVars, engineVars>>
  \/ /\ part = "queries" /\ QueryNext
     /\ UNCHANGED <<part, barrierVars, fiberVars, sendVars, cancelVars, engineVars>>
  \/ /\ part = "commands" /\ CancelNext
     /\ UNCHANGED <<part, barrierVars, fiberVars, sendVars, queryVars, engineVars>>
  \/ /\ part = "engine" /\ EngineNext
     /\ UNCHANGED <<part, barrierVars, fiberVars, sendVars, queryVars, cancelVars>>
  \/ /\ part = "alone" /\ Alone!EngineNext
     /\ UNCHANGED <<part, barrierVars, fiberVars, sendVars, queryVars, cancelVars>>

(* Some thread that can move does: nothing is assumed about which one.         *)
RuntimeSpec ==
  RuntimeInit /\ [][RuntimeNext]_runtimeVars /\ WF_runtimeVars(RuntimeNext)

RuntimeEnded ==
  \/ part \in {"barriers", "chain"} /\ BarriersDone
  \/ part = "fibers" /\ FibersDone
  \/ part = "sends" /\ SendDone
  \/ part = "queries" /\ QueryDone
  \/ part = "commands" /\ CancelDone
  \/ part \in {"engine", "alone"} /\ EngineDone

(* The types of the part that moves; the others stay as they started.          *)
RuntimeTypeOK ==
  /\ part = "barriers" => CollectiveTypeOK
  /\ part = "chain" => Chain!CollectiveTypeOK
  /\ part = "fibers" => FiberTypeOK
  /\ part = "sends" => SendTypeOK
  /\ part = "queries" => QueryTypeOK
  /\ part = "commands" => CancelTypeOK
  /\ part = "engine" => EngineTypeOK
  /\ part = "alone" => Alone!EngineTypeOK

(* A tree of n processes in which a node has up to b children.                 *)
Shape(n, b) == INSTANCE BarrierTree WITH NumProcs <- n, BranchFactor <- b

(* Bounds: four levels with two children a node, three levels with three.      *)
WalksFollowPacking == \A n \in 1..15, b \in 2..3 : Shape(n, b)!WalkFollowsPacking

(* all_gather hands every process what every process put in, in this round and *)
(* at the right index, among siblings and through an inner node, and           *)
(* full_barrier counts exactly (GatherExact); and in the larger trees, whose   *)
(* last level may be incomplete, the walk that unpacks the data follows the    *)
(* order in which they were packed.                                            *)
GathersExact == WalksFollowPacking /\ GatherExact

(* No signal is lost or handled twice in scheduler, message array, calls and    *)
(* programs, and start() returns only when all were handled, unless the engine  *)
(* was stopped.                                                                *)
SignalsHandled ==
  /\ part = "engine" => SignalsKept
  /\ part = "alone" => Alone!SignalsKept

(* Whatever part was picked comes to its end: no barrier waits for ever, no    *)
(* fiber is forgotten, every join returns, every message is sent, a replica   *)
(* comes to serve or gives up, every command is answered, and the engine stops *)
(* once no vertex is signalled any more. Since a behaviour may only stop where  *)
(* no thread can move, no part can lock itself up before that.                 *)
RuntimeEnds == <>RuntimeEnded
=============================================================================

------------------------ MODULE DistributedChandyMisra ------------------------
(***************************************************************************)
(* The distributed lock manager of the asynchronous graph engines,         *)
(* graphlab/engine/distributed_chandy_misra.hpp: dining philosophers over   *)
(* a vertex-cut graph.  A vertex is a philosopher, an edge is a fork.  An   *)
(* edge lives on one process; a vertex has a replica on every process that  *)
(* holds one of its edges, and one replica is its master.  A philosopher    *)
(* may eat once every replica has gathered its local forks; a replica that  *)
(* has (HORS_DOEUVRE) tells the master, and may ask the master to cancel    *)
(* so that it can give up the forks a neighbour is owed.                    *)
(*                                                                         *)
(* A thread runs one operation at a time: the fiber of a vertex (named by   *)
(* the vertex) runs on the vertex's master, handlers run the remote calls.  *)
(* Calls nest, so a thread has a stack of frames.  A step takes the locks   *)
(* the code takes for one edge and runs what the code runs under them;      *)
(* between edges the thread keeps the philosopher's lock, unless it backs   *)
(* off.                                                                     *)
(***************************************************************************)
EXTENDS Integers, Sequences, FiniteSets

CONSTANTS
  Proc,            \* processes
  Vertex,          \* global vertex ids; local ids are assigned in the same order
  Edge,
  Source, Target,  \* the ends of an edge
  Home,            \* the process that holds an edge
  Master,          \* the process that holds the master replica of a vertex
  Adj,             \* edge list of a replica: its in-edges, then its out-edges
  Handler,         \* threads that run remote calls
  HandlerProc,     \* the process of a handler
  MaxMeals,        \* bound: how often each vertex becomes hungry
  Sequentialized,  \* TRUE: remote calls of one vertex run in order, one at a time
                   \* FALSE: the build with RPC_BLOCK_STRIPING and
                   \* RPC_DO_NOT_BREAK_BLOCKS, where keys are ignored
  PerReplica       \* TRUE: each replica is released by a scatter request
                   \* (async_consistent_engine); FALSE: by the master's
                   \* broadcast (warp_engine)

THINKING == 0
HUNGRY == 1
HORS_DOEUVRE == 2
EATING == 3

Ends(e) == {Source[e], Target[e]}
Replica == {r \in Vertex \X Proc :
              r[2] = Master[r[1]] \/ \E e \in Edge : Home[e] = r[2] /\ r[1] \in Ends(e)}
IsMaster(r) == r[2] = Master[r[1]]
MasterOf(v) == <<v, Master[v]>>
Mirrors(v) == {r \in Replica : r[1] = v /\ ~IsMaster(r)}
Edges(r) == {e \in Edge : Home[e] = r[2] /\ r[1] \in Ends(e)}
OtherEnd(e, v) == IF Source[e] = v THEN Target[e] ELSE Source[e]
Other(e, r) == <<OtherEnd(e, r[1]), r[2]>>
num_edges(r) == Len(Adj[r])
num_in_edges(r) == Cardinality({e \in Edges(r) : Target[e] = r[1]})

ASSUME GraphAssumption ==
  /\ Vertex \subseteq Nat
  /\ IsFiniteSet(Edge) /\ IsFiniteSet(Vertex) /\ IsFiniteSet(Proc)
  /\ Source \in [Edge -> Vertex] /\ Target \in [Edge -> Vertex]
  /\ \A e \in Edge : Source[e] # Target[e]
  /\ Home \in [Edge -> Proc] /\ Master \in [Vertex -> Proc]
  /\ HandlerProc \in [Handler -> Proc] /\ Handler \cap Vertex = {}
  /\ MaxMeals \in [Vertex -> Nat] /\ Sequentialized \in BOOLEAN /\ PerReplica \in BOOLEAN

\* Adj[r] lists every edge of r once, the in-edges first.
ASSUME AdjacencyAssumption ==
  /\ Adj \in [Replica -> Seq(Edge)]
  /\ \A r \in Replica :
       /\ Len(Adj[r]) = Cardinality(Edges(r))
       /\ \A e \in Edges(r) : \E i \in 1..Len(Adj[r]) : Adj[r][i] = e
       /\ \A i \in 1..Len(Adj[r]) : Adj[r][i] \in Edges(r)
       /\ \A i \in 1..Len(Adj[r]) : (Target[Adj[r][i]] = r[1]) <=> (i <= num_in_edges(r))

VARIABLES
  fork,               \* forkset: owner, dirty bit and request bits of every edge
  clean_fork_count,
  state, forks_acquired, counter, cancellation_sent, lockid,  \* struct philosopher
  stack,              \* what every thread is running, innermost call last
  phase,              \* of the fiber of a vertex: idle, hungry, eating, releasing
  meals,              \* how often a vertex became hungry
  down, up,           \* calls in flight, master to mirror and mirror to master
  scatter             \* scatter request of a mirror: none, sent, running

forks == <<fork, clean_fork_count, forks_acquired>>
phil == <<state, counter, cancellation_sent, lockid>>
net == <<down, up, scatter>>
vars == <<fork, clean_fork_count, state, forks_acquired, counter, cancellation_sent,
          lockid, stack, phase, meals, down, up, scatter>>

Caller == Vertex \cup Handler
Kinds == {"grab", "grabbing", "relock", "accept", "accepting", "stop", "stopping",
          "issue", "cancel", "enter", "signal", "set_eating"}
\* at: the replica; next: position in Adj of the next edge; held: the thread
\* holds at's lock; ready: replicas that became HORS_DOEUVRE (retval);
\* requestor, lockid: arguments of cancellation_request_unlocked.
Frame == [k : Kinds, at : Replica, next : Nat \ {0}, held : BOOLEAN,
          ready : Seq(Replica), requestor : Proc, lockid : BOOLEAN]
Message == [m : {"hungry", "accept", "eating", "stop", "cancel", "ready"},
            lockid : BOOLEAN]

\* Faulty variant: positions in an edge list counted from 0.
ZeroBasedFrame(k, r) == [k |-> k, at |-> r, next |-> 0, held |-> FALSE, ready |-> <<>>,
                         requestor |-> r[2], lockid |-> FALSE]
NewFrame(k, r) == [k |-> k, at |-> r, next |-> 1, held |-> FALSE, ready |-> <<>>,
                   requestor |-> r[2], lockid |-> FALSE]
Msg(m, id) == [m |-> m, lockid |-> id]

Busy(t) == stack[t] # <<>>
Top(t) == stack[t][Len(stack[t])]
Below(t) == SubSeq(stack[t], 1, Len(stack[t]) - 1)
ReplaceTop(t, f) == stack' = [stack EXCEPT ![t] = Append(Below(t), f)]
Pop(t) == stack' = [stack EXCEPT ![t] = Below(t)]

\* Nobody holds the spinlock of replica r.
Free(r) == \A t \in Caller : ~(Busy(t) /\ Top(t).held /\ Top(t).at = r)

-----------------------------------------------------------------------------
(* compute_initial_fork_arrangement: the end with the smaller id owns the   *)
(* fork, and every fork is dirty.                                           *)
InitialOwner(e) == IF Source[e] > Target[e] THEN Target[e] ELSE Source[e]

Init ==
  /\ fork = [e \in Edge |-> [owner |-> InitialOwner(e), dirty |-> TRUE, request |-> {}]]
  /\ clean_fork_count = [p \in Proc |-> 0]
  /\ state = [r \in Replica |-> THINKING]
  /\ forks_acquired = [r \in Replica |-> Cardinality({e \in Edges(r) : InitialOwner(e) = r[1]})]
  /\ counter = [r \in Replica |-> 0]
  /\ cancellation_sent = [r \in Replica |-> FALSE]
  /\ lockid = [r \in Replica |-> FALSE]
  /\ stack = [t \in Caller |-> <<>>]
  /\ phase = [v \in Vertex |-> "idle"]
  /\ meals = [v \in Vertex |-> 0]
  /\ down = [r \in Replica |-> <<>>]
  /\ up = [r \in Replica |-> <<>>]
  /\ scatter = [r \in Replica |-> "none"]

\* remote_call of message m to every mirror of v.
Broadcast(v, m) == down' = [r \in Replica |->
                              IF r \in Mirrors(v) THEN Append(down[r], m) ELSE down[r]]

\* The owner of fork e hands it over, clean; req are the request bits left on it.
\* Faulty variant: the giver still counts the fork.
HandOverCountedTwice(e, req) ==
  LET taker == OtherEnd(e, fork[e].owner)
  IN /\ fork' = [fork EXCEPT ![e] = [owner |-> taker, dirty |-> FALSE, request |-> req]]
     /\ clean_fork_count' = [clean_fork_count EXCEPT ![Home[e]] = @ + 1]
     /\ forks_acquired' = [forks_acquired EXCEPT ![<<taker, Home[e]>>] = @ + 1]
HandOver(e, req) ==
  LET p == Home[e]
      giver == fork[e].owner
      taker == OtherEnd(e, giver)
  IN /\ fork' = [fork EXCEPT ![e] = [owner |-> taker, dirty |-> FALSE, request |-> req]]
     /\ clean_fork_count' = [clean_fork_count EXCEPT ![p] = @ + 1]
     /\ forks_acquired' = [forks_acquired EXCEPT ![<<giver, p>>] = @ - 1, ![<<taker, p>>] = @ + 1]

\* A philosopher that is hungry and holds all its local forks.
\* Faulty variant: one fork short.
MayEnterEarly(r) == state[r] = HUNGRY /\ forks_acquired'[r] + 1 >= num_edges(r)
MayEnter(r) == state[r] = HUNGRY /\ forks_acquired'[r] = num_edges(r)

EnterHors(R) ==
  /\ state' = [r \in Replica |-> IF r \in R THEN HORS_DOEUVRE ELSE state[r]]
  /\ cancellation_sent' = [r \in Replica |-> IF r \in R THEN FALSE ELSE cancellation_sent[r]]

\* The thread takes the lock of the other end of its next edge, and its own
\* again if it had backed off.
CanLock(f) == /\ f.next <= num_edges(f.at)
              /\ Free(Other(Adj[f.at][f.next], f.at))
              /\ f.held \/ Free(f.at)

\* break out of the loop over the in-edges goes on with the out-edges; out of
\* the loop over the out-edges it ends the loop.
Break(f) == [f EXCEPT !.held = TRUE,
                      !.next = IF @ <= num_in_edges(f.at) THEN num_in_edges(f.at) + 1
                                                          ELSE num_edges(f.at) + 1]
Advance(f) == [f EXCEPT !.held = TRUE, !.next = @ + 1]

\* Caller u may be in the middle of a step that holds the lock of replica o: it
\* runs an operation of o, visits an edge to o, or is about to start one.
Contends(u, o) ==
  \/ /\ Busy(u) /\ Top(u).k \notin {"issue", "enter"}
     /\ \/ Top(u).at = o
        \/ /\ Top(u).k \in {"grabbing", "accepting", "stopping", "relock"}
           /\ Top(u).next <= num_edges(Top(u).at)
           /\ Other(Adj[Top(u).at][Top(u).next], Top(u).at) = o
  \/ /\ ~Busy(u) /\ u = o[1] /\ IsMaster(o)
     /\ phase[u] = "idle" => meals[u] < MaxMeals[u]
  \/ ~Busy(u) /\ u \in Handler /\ HandlerProc[u] = o[2] /\ down[o] # <<>>

(* try_acquire_edge_with_backoff: the other end has the smaller id and       *)
(* try_lock fails, so the thread lets go of its own lock.                    *)
Backoff(t) ==
  /\ Busy(t) /\ Top(t).k \in {"grabbing", "accepting", "stopping"}
  /\ Top(t).held /\ Top(t).next <= num_edges(Top(t).at)
  /\ LET f == Top(t)
         o == Other(Adj[f.at][f.next], f.at)
     IN /\ f.at[1] > o[1]
        /\ \E u \in Caller \ {t} : Contends(u, o)
        /\ ReplaceTop(t, [f EXCEPT !.held = FALSE])
  /\ UNCHANGED <<forks, phil, phase, meals, net>>

-----------------------------------------------------------------------------
\* How many replicas of v have to become ready.  counter is an unsigned char.
\* Faulty variant: the master is forgotten.
MirrorsOnly(v) == Cardinality(Mirrors(v)) % 256
NumReplicas(v) == (Cardinality(Mirrors(v)) + 1) % 256

(* make_philosopher_hungry, called by the fiber of v at the master.          *)
MakeHungry(v) ==
  LET r == MasterOf(v)
  IN /\ phase[v] = "idle" /\ ~Busy(v) /\ meals[v] < MaxMeals[v]
     /\ Free(r)
     /\ phase' = [phase EXCEPT ![v] = "hungry"]
     /\ meals' = [meals EXCEPT ![v] = @ + 1]
     /\ lockid' = [lockid EXCEPT ![r] = ~@]
     /\ state' = [state EXCEPT ![r] = HUNGRY]
     /\ counter' = [counter EXCEPT ![r] = NumReplicas(v)]
     /\ Broadcast(v, Msg("hungry", ~lockid[r]))
     /\ stack' = [stack EXCEPT ![v] = <<NewFrame("grab", r)>>]
     /\ UNCHANGED <<forks, cancellation_sent, up, scatter>>

(* local_philosopher_grabs_forks: take the lock, then visit the edges.       *)
GrabBegin(t) ==
  /\ Busy(t) /\ Top(t).k = "grab" /\ Free(Top(t).at)
  /\ ReplaceTop(t, [Top(t) EXCEPT !.k = "grabbing", !.held = TRUE])
  /\ UNCHANGED <<forks, phil, phase, meals, net>>

(* One edge: request the fork if the other end owns it, then                 *)
(* advance_fork_state_on_lock.  An owner in HORS_DOEUVRE keeps the fork and  *)
(* asks for a cancellation, once, with both locks released.                  *)
GrabEdge(t) ==
  /\ Busy(t) /\ Top(t).k = "grabbing" /\ CanLock(Top(t))
  /\ LET f == Top(t)
         e == Adj[f.at][f.next]
         o == Other(e, f.at)
         wanted == state[f.at] = HUNGRY /\ fork[e].owner # f.at[1]
         owed == wanted /\ state[o] # EATING /\ fork[e].dirty
         requested == [fork EXCEPT ![e].request = @ \cup {f.at[1]}]
     IN \/ /\ ~wanted
           /\ ReplaceTop(t, IF state[f.at] = HUNGRY THEN Advance(f) ELSE Break(f))
           /\ UNCHANGED <<forks, phil>>
        \/ /\ owed /\ state[o] # HORS_DOEUVRE
           /\ HandOver(e, IF state[o] = HUNGRY THEN {o[1]} ELSE {})
           /\ ReplaceTop(t, Advance(f))
           /\ UNCHANGED phil
        \/ /\ owed /\ state[o] = HORS_DOEUVRE /\ ~cancellation_sent[o]
           /\ fork' = requested
           /\ cancellation_sent' = [cancellation_sent EXCEPT ![o] = TRUE]
           /\ stack' = [stack EXCEPT ![t] =
                          Below(t) \o <<[f EXCEPT !.k = "relock", !.held = FALSE],
                                        [NewFrame("issue", o) EXCEPT !.lockid = lockid[o]]>>]
           /\ UNCHANGED <<clean_fork_count, forks_acquired, state, counter, lockid>>
        \/ /\ wanted /\ ~(owed /\ (state[o] = HORS_DOEUVRE => ~cancellation_sent[o]))
           /\ fork' = requested
           /\ ReplaceTop(t, Advance(f))
           /\ UNCHANGED <<clean_fork_count, forks_acquired, phil>>
  /\ UNCHANGED <<phase, meals, net>>

(* Back from the cancellation request: both locks again, on to the next edge. *)
Relock(t) ==
  /\ Busy(t) /\ Top(t).k = "relock" /\ CanLock(Top(t))
  /\ ReplaceTop(t, [Advance(Top(t)) EXCEPT !.k = "grabbing"])
  /\ UNCHANGED <<forks, phil, phase, meals, net>>

(* The end of local_philosopher_grabs_forks and of                           *)
(* cancellation_accept_unlocked: the philosopher itself may enter.           *)
LoopDone(t) == /\ Busy(t) /\ Top(t).held /\ Top(t).next > num_edges(Top(t).at)

FinishHungry(t) ==
  /\ LoopDone(t) /\ Top(t).k \in {"grabbing", "accepting"}
  /\ UNCHANGED forks
  /\ LET f == Top(t)
         R == {r \in {f.at} : MayEnter(r)}
         enter == [f EXCEPT !.k = "enter", !.held = FALSE,
                            !.ready = IF R = {} THEN @ ELSE Append(@, f.at)]
     IN /\ EnterHors(R)
        /\ IF enter.ready = <<>> THEN Pop(t) ELSE ReplaceTop(t, enter)
  /\ UNCHANGED <<counter, lockid, phase, meals, net>>

-----------------------------------------------------------------------------
(* enter_hors_doeuvre_unlocked for the replicas in ready, one after another: *)
(* the master signals itself, a mirror sends rpc_signal_ready.               *)
Enter(t) ==
  /\ Busy(t) /\ Top(t).k = "enter" /\ Top(t).ready # <<>>
  /\ LET f == Top(t)
         r == Head(f.ready)
         rest == IF Len(f.ready) = 1 THEN Below(t)
                   ELSE Append(Below(t), [f EXCEPT !.ready = Tail(@)])
     IN \/ /\ IsMaster(r)
           /\ stack' = [stack EXCEPT ![t] = Append(rest, NewFrame("signal", r))]
           /\ UNCHANGED net
        \/ /\ ~IsMaster(r)
           /\ stack' = [stack EXCEPT ![t] = rest]
           /\ up' = [up EXCEPT ![r] = Append(@, Msg("ready", lockid[r]))]
           /\ UNCHANGED <<down, scatter>>
  /\ UNCHANGED <<forks, phil, phase, meals>>

(* signal_ready_unlocked: one replica less to wait for.  counter is an       *)
(* unsigned char.                                                            *)
SignalReady(t) ==
  /\ Busy(t) /\ Top(t).k = "signal" /\ Free(Top(t).at)
  /\ LET r == Top(t).at
         c == (counter[r] + 255) % 256
     IN /\ counter' = [counter EXCEPT ![r] = c]
        /\ \/ c = 0 /\ Broadcast(r[1], Msg("eating", lockid[r]))
                    /\ ReplaceTop(t, NewFrame("set_eating", r))
           \/ c # 0 /\ Pop(t) /\ UNCHANGED down
  /\ UNCHANGED <<forks, state, cancellation_sent, lockid, phase, meals, up, scatter>>

(* set_eating at the master, and the callback that wakes the fiber of v.     *)
SetEating(t) ==
  /\ Busy(t) /\ Top(t).k = "set_eating" /\ Free(Top(t).at)
  /\ state' = [state EXCEPT ![Top(t).at] = EATING]
  /\ cancellation_sent' = [cancellation_sent EXCEPT ![Top(t).at] = FALSE]
  /\ phase' = [phase EXCEPT ![Top(t).at[1]] = "eating"]
  /\ Pop(t)
  /\ UNCHANGED <<forks, counter, lockid, meals, net>>

-----------------------------------------------------------------------------
(* issue_cancellation_request_unlocked: a local call at the master, a remote *)
(* call to it from a mirror.                                                 *)
IssueCancellation(t) ==
  /\ Busy(t) /\ Top(t).k = "issue"
  /\ LET f == Top(t)
     IN \/ IsMaster(f.at) /\ ReplaceTop(t, [f EXCEPT !.k = "cancel"]) /\ UNCHANGED up
        \/ /\ ~IsMaster(f.at) /\ Pop(t)
           /\ up' = [up EXCEPT ![f.at] = Append(@, Msg("cancel", f.lockid))]
  /\ UNCHANGED <<forks, phil, phase, meals, down, scatter>>

\* Faulty variant: a cancellation is accepted after the last ready signal.
AcceptsAlways(r, id) == lockid[r] = id
AcceptsCancellation(r, id) == lockid[r] = id /\ counter[r] > 0

(* cancellation_request_unlocked at the master replica.                      *)
CancellationRequest(t) ==
  /\ Busy(t) /\ Top(t).k = "cancel" /\ Free(Top(t).at)
  /\ LET f == Top(t)
         r == f.at
         accepted == AcceptsCancellation(r, f.lockid)
         q == <<r[1], f.requestor>>
     IN \/ /\ ~accepted /\ Pop(t)
           /\ UNCHANGED <<counter, down>>
        \/ /\ accepted /\ counter' = [counter EXCEPT ![r] = (@ + 1) % 256]
           /\ \/ /\ q # r /\ Pop(t)
                 /\ down' = [down EXCEPT ![q] = Append(@, Msg("accept", lockid[r]))]
              \/ /\ q = r /\ ReplaceTop(t, NewFrame("accept", r))
                 /\ UNCHANGED down
  /\ UNCHANGED <<forks, state, cancellation_sent, lockid, phase, meals, up, scatter>>

(* cancellation_accept_unlocked: back to HUNGRY, then over the edges.        *)
AcceptBegin(t) ==
  /\ Busy(t) /\ Top(t).k = "accept" /\ Free(Top(t).at)
  /\ state' = [state EXCEPT ![Top(t).at] = HUNGRY]
  /\ cancellation_sent' = [cancellation_sent EXCEPT ![Top(t).at] = FALSE]
  /\ ReplaceTop(t, [Top(t) EXCEPT !.k = "accepting", !.held = TRUE])
  /\ UNCHANGED <<forks, counter, lockid, phase, meals, net>>

(* One edge: a dirty fork the other end has requested is handed over (the    *)
(* philosopher is HUNGRY, so it requests it back), which may complete the    *)
(* other end.                                                                *)
AcceptEdge(t) ==
  /\ Busy(t) /\ Top(t).k = "accepting" /\ CanLock(Top(t))
  /\ LET f == Top(t)
         e == Adj[f.at][f.next]
         o == Other(e, f.at)
         hungry == state[f.at] = HUNGRY
         owed == hungry /\ fork[e].owner = f.at[1] /\ fork[e].dirty /\ o[1] \in fork[e].request
         R == {r \in {o} : owed /\ MayEnter(r)}
     IN /\ IF owed THEN HandOver(e, {f.at[1]}) ELSE UNCHANGED forks
        /\ EnterHors(R)
        /\ ReplaceTop(t, IF ~hungry THEN Break(f)
                         ELSE IF R = {} THEN Advance(f)
                         ELSE [Advance(f) EXCEPT !.ready = Append(@, o)])
  /\ UNCHANGED <<counter, lockid, phase, meals, net>>

-----------------------------------------------------------------------------
(* philosopher_stops_eating at the master (warp_engine), or the scatter      *)
(* phase of eval_sched_task (async_consistent_engine): the mirrors are told  *)
(* to release, then the master releases.                                     *)
StopsEating(v) ==
  LET r == MasterOf(v)
  IN /\ phase[v] = "eating" /\ ~Busy(v)
     /\ stack' = [stack EXCEPT ![v] = <<NewFrame("stop", r)>>]
     /\ \/ /\ ~PerReplica /\ Free(r)
           /\ counter' = [counter EXCEPT ![r] = 0]
           /\ Broadcast(v, Msg("stop", FALSE))
           /\ phase' = [phase EXCEPT ![v] = "idle"]
           /\ UNCHANGED scatter
        \/ /\ PerReplica
           /\ scatter' = [q \in Replica |-> IF q \in Mirrors(v) THEN "sent" ELSE scatter[q]]
           /\ phase' = [phase EXCEPT ![v] = "releasing"]
           /\ UNCHANGED <<counter, down>>
     /\ UNCHANGED <<forks, state, cancellation_sent, lockid, meals, up>>

(* The fiber has the replies of all scatter requests.                        *)
Released(v) ==
  /\ phase[v] = "releasing" /\ ~Busy(v)
  /\ \A r \in Mirrors(v) : scatter[r] = "none"
  /\ phase' = [phase EXCEPT ![v] = "idle"]
  /\ UNCHANGED <<forks, phil, stack, meals, net>>

\* All forks of replica r become dirty.
Dirtied(r) == [e \in Edge |-> IF e \in Edges(r) THEN [fork[e] EXCEPT !.dirty = TRUE]
                                                ELSE fork[e]]

(* local_philosopher_stops_eating.                                           *)
StopBegin(t) ==
  /\ Busy(t) /\ Top(t).k = "stop" /\ Free(Top(t).at)
  /\ LET r == Top(t).at
     IN /\ fork' = Dirtied(r)
        /\ clean_fork_count' = [clean_fork_count EXCEPT ![r[2]] =
                                  @ - Cardinality({e \in Edges(r) : ~fork[e].dirty})]
        /\ state' = [state EXCEPT ![r] = THINKING]
        /\ counter' = [counter EXCEPT ![r] = 0]
  /\ ReplaceTop(t, [Top(t) EXCEPT !.k = "stopping", !.held = TRUE])
  /\ UNCHANGED <<forks_acquired, cancellation_sent, lockid, phase, meals, net>>

\* advance_fork_state_on_unlock moves the fork: whoever does not own it asked for
\* it.  Faulty variant: only if its owner is the source.
MovesFromSource(e) == /\ fork[e].dirty /\ fork[e].owner = Source[e]
                      /\ Target[e] \in fork[e].request
MovesOnUnlock(e) == fork[e].dirty /\ OtherEnd(e, fork[e].owner) \in fork[e].request

(* One edge: the fork may move, and the other end may be complete.           *)
StopEdge(t) ==
  /\ Busy(t) /\ Top(t).k = "stopping" /\ CanLock(Top(t))
  /\ LET f == Top(t)
         e == Adj[f.at][f.next]
         o == Other(e, f.at)
         thinking == state[f.at] = THINKING
         owed == thinking /\ MovesOnUnlock(e)
         R == {r \in {o} : thinking /\ MayEnter(r)}
     IN /\ IF owed THEN HandOver(e, {}) ELSE UNCHANGED forks
        /\ EnterHors(R)
        /\ ReplaceTop(t, IF ~thinking THEN Break(f)
                         ELSE IF R = {} THEN Advance(f)
                         ELSE [Advance(f) EXCEPT !.ready = Append(@, o)])
  /\ UNCHANGED <<counter, lockid, phase, meals, net>>

\* A scatter request is answered here; that the handler may still have to call
\* enter_hors_doeuvre_unlocked for neighbours only lets v go on a little earlier.
FinishStop(t) ==
  /\ LoopDone(t) /\ Top(t).k = "stopping"
  /\ IF Top(t).ready = <<>> THEN Pop(t)
     ELSE ReplaceTop(t, [Top(t) EXCEPT !.k = "enter", !.held = FALSE])
  /\ scatter' = [scatter EXCEPT ![Top(t).at] = "none"]
  /\ UNCHANGED <<forks, phil, phase, meals, down, up>>

-----------------------------------------------------------------------------
(* A handler of replica r's process picks the i-th call of queue q.  With    *)
(* keys honoured only the first call is eligible, and only when no handler   *)
(* of that process is running a call of the same vertex.                     *)
(* Faulty variant: keys ignored.                                             *)
EligibleAnyOrder(h, v, q, i) == ~Busy(h) /\ i \in 1..Len(q)
Eligible(h, v, q, i) ==
  /\ ~Busy(h)
  /\ i \in 1..Len(q)
  /\ Sequentialized => /\ i = 1
                       /\ \A g \in Handler : HandlerProc[g] = HandlerProc[h] /\ Busy(g)
                                               => stack[g][1].at[1] # v
Without(q, i) == SubSeq(q, 1, i - 1) \o SubSeq(q, i + 1, Len(q))

(* rpc_make_philosopher_hungry, rpc_cancellation_accept, rpc_set_eating and   *)
(* rpc_philosopher_stops_eating at mirror r.                                  *)
MirrorCall(h, r, i) ==
  /\ HandlerProc[h] = r[2] /\ Eligible(h, r[1], down[r], i)
  /\ down' = [down EXCEPT ![r] = Without(@, i)]
  /\ LET msg == down[r][i]
     IN \/ /\ msg.m = "hungry" /\ Free(r)
           /\ state' = [state EXCEPT ![r] = HUNGRY]
           /\ lockid' = [lockid EXCEPT ![r] = msg.lockid]
           /\ stack' = [stack EXCEPT ![h] = <<NewFrame("grab", r)>>]
           /\ UNCHANGED cancellation_sent
        \/ /\ msg.m = "accept"
           /\ stack' = [stack EXCEPT ![h] = <<NewFrame("accept", r)>>]
           /\ UNCHANGED <<state, lockid, cancellation_sent>>
        \/ /\ msg.m = "eating" /\ Free(r)
           /\ state' = [state EXCEPT ![r] = EATING]
           /\ cancellation_sent' = [cancellation_sent EXCEPT ![r] = FALSE]
           /\ UNCHANGED <<lockid, stack>>
        \/ /\ msg.m = "stop"
           /\ stack' = [stack EXCEPT ![h] = <<NewFrame("stop", r)>>]
           /\ UNCHANGED <<state, lockid, cancellation_sent>>
  /\ UNCHANGED <<forks, counter, phase, meals, up, scatter>>

(* rpc_cancellation_request and rpc_signal_ready from mirror r at the master. *)
MasterCall(h, r, i) ==
  /\ HandlerProc[h] = Master[r[1]] /\ Eligible(h, r[1], up[r], i)
  /\ up' = [up EXCEPT ![r] = Without(@, i)]
  /\ LET msg == up[r][i]
     IN stack' = [stack EXCEPT ![h] =
          IF msg.m = "ready" THEN <<NewFrame("signal", MasterOf(r[1]))>>
          ELSE <<[NewFrame("cancel", MasterOf(r[1])) EXCEPT !.requestor = r[2],
                                                            !.lockid = msg.lockid]>>]
  /\ UNCHANGED <<forks, phil, phase, meals, down, scatter>>

(* perform_scatter at mirror r; its key is 0, so nothing orders it.          *)
ScatterCall(h, r) ==
  /\ HandlerProc[h] = r[2] /\ ~Busy(h) /\ scatter[r] = "sent"
  /\ scatter' = [scatter EXCEPT ![r] = "running"]
  /\ stack' = [stack EXCEPT ![h] = <<NewFrame("stop", r)>>]
  /\ UNCHANGED <<forks, phil, phase, meals, down, up>>

-----------------------------------------------------------------------------
Step(t) == \/ GrabBegin(t) \/ GrabEdge(t) \/ Relock(t) \/ FinishHungry(t)
           \/ Backoff(t) \/ Enter(t) \/ SignalReady(t) \/ SetEating(t)
           \/ IssueCancellation(t) \/ CancellationRequest(t)
           \/ AcceptBegin(t) \/ AcceptEdge(t)
           \/ StopBegin(t) \/ StopEdge(t) \/ FinishStop(t)

Receive(h) == \E r \in Replica :
                \/ \E i \in DOMAIN down[r] : MirrorCall(h, r, i)
                \/ \E i \in DOMAIN up[r] : MasterCall(h, r, i)
                \/ ScatterCall(h, r)

\* No thread is running and no call is in flight.
Still == /\ \A t \in Caller : ~Busy(t)
         /\ \A r \in Replica : down[r] = <<>> /\ up[r] = <<>> /\ scatter[r] = "none"

\* Every vertex has had its meals.
Terminating == /\ Still
               /\ \A v \in Vertex : phase[v] = "idle" /\ meals[v] = MaxMeals[v]
               /\ UNCHANGED vars

Next == \/ \E v \in Vertex : MakeHungry(v) \/ StopsEating(v) \/ Released(v)
        \/ \E t \in Caller : Step(t)
        \/ \E h \in Handler : Receive(h)
        \/ Terminating

Spec == Init /\ [][Next]_vars

\* Every fiber and handler keeps running, and a vertex program ends.
Fairness == /\ \A t \in Caller : WF_vars(Step(t))
            /\ \A h \in Handler : WF_vars(Receive(h))
            /\ \A v \in Vertex : WF_vars(StopsEating(v)) /\ WF_vars(Released(v))
FairSpec == Spec /\ Fairness

-----------------------------------------------------------------------------
Phase == {"idle", "hungry", "eating", "releasing"}
Fork == [owner : Vertex, dirty : BOOLEAN, request : SUBSET Vertex]

\* Every field of the philosophers and forks, every frame of a thread and every
\* call in flight has its type; counter stays in an unsigned char.
TypeOK ==
  /\ fork \in [Edge -> Fork] /\ \A e \in Edge : fork[e].owner \in Ends(e)
  /\ clean_fork_count \in [Proc -> Int]
  /\ state \in [Replica -> THINKING..EATING]
  /\ forks_acquired \in [Replica -> Int]
  /\ counter \in [Replica -> 0..255]
  /\ cancellation_sent \in [Replica -> BOOLEAN]
  /\ lockid \in [Replica -> BOOLEAN]
  /\ stack \in [Caller -> Seq(Frame)]
  /\ phase \in [Vertex -> Phase]
  /\ meals \in [Vertex -> Nat] /\ \A v \in Vertex : meals[v] <= MaxMeals[v]
  /\ down \in [Replica -> Seq(Message)]
  /\ up \in [Replica -> Seq(Message)]
  /\ scatter \in [Replica -> {"none", "sent", "running"}]

Owned(r) == {e \in Edges(r) : fork[e].owner = r[1]}

\* complete_consistency_check: forks_acquired is the number of forks a replica
\* owns, in every state and not only when all threads are still.
ForksCounted ==
  \A r \in Replica : forks_acquired[r] = Cardinality(Owned(r))

\* A philosopher at the table (HORS_DOEUVRE) owns all of its local forks until a
\* cancellation is accepted or it has eaten, whatever its neighbours do.
AtTableOwnsForks ==
  \A r \in Replica : state[r] = HORS_DOEUVRE => Owned(r) = Edges(r)

\* The lock is exclusive: two vertices that share an edge, on any process, never
\* run at the same time.
MutualExclusion ==
  \A e \in Edge : ~(phase[Source[e]] = "eating" /\ phase[Target[e]] = "eating")

\* While a vertex runs, each replica holds all its forks, wherever it is.
EatingOwnsForks ==
  \A r \in Replica : phase[r[1]] = "eating" => Owned(r) = Edges(r)

\* A vertex runs alone among its neighbours, and because it has all the forks.
EatsWithForks == MutualExclusion /\ EatingOwnsForks

\* complete_consistency_check: a thinking philosopher owns no clean fork.
ThinkingOwnsNoCleanFork ==
  \A r \in Replica : state[r] = THINKING => \A e \in Owned(r) : fork[e].dirty

\* complete_consistency_check: "any fork I am unable to acquire. Must be clean,
\* and the other person must be eating or hungry" (once nothing is running or in
\* flight): a hungry philosopher never waits for a dirty fork nobody will release.
UnacquiredForksClean ==
  Still => \A r \in Replica : state[r] = HUNGRY =>
             \A e \in Edges(r) \ Owned(r) : LET o == Other(e, r) IN
               /\ fork[e].dirty => state[o] = EATING
               /\ state[o] # THINKING

\* complete_consistency_check, for both kinds of philosopher it looks at.
ConsistencyChecked == ThinkingOwnsNoCleanFork /\ UnacquiredForksClean

\* local_philosopher_stops_eating ("FAILED!! Cannot Stop Eating!"): only an
\* eating philosopher is told to stop.
StopsOnlyWhenEating ==
  \A t \in Caller : Busy(t) /\ Top(t).k = "stop" => state[Top(t).at] = EATING

\* signal_ready_unlocked ("Bad signal ready state!!!!").
SignalsOnlyWhenHungry ==
  \A t \in Caller : Busy(t) /\ Top(t).k = "signal" =>
                      state[Top(t).at] \in {HUNGRY, HORS_DOEUVRE}

\* The two checks a running engine can fail on: calls that cross each other
\* never bring a stop or a ready signal to a replica in another state.
CallsFitState == StopsOnlyWhenEating /\ SignalsOnlyWhenHungry

\* Every vertex that asks for its lock gets it, on a mirror-by-mirror count of
\* ready signals and cancellations that must neither be lost nor counted twice.
HungryEats ==
  \A v \in Vertex : phase[v] = "hungry" ~> phase[v] = "eating"
=============================================================================

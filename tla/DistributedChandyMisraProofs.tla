--------------------- MODULE DistributedChandyMisraProofs ---------------------
(* Proofs about the lock manager for every graph, every placement of its     *)
(* edges and masters, every number of handlers and meals, whether or not the *)
(* keys are honoured and whichever engine releases the locks.                *)
EXTENDS DistributedChandyMisra, TLAPS, FiniteSetTheorems, SequenceTheorems

\* An edge has two different ends, each with a replica on the edge's process;
\* the other end of a replica's edge is a replica of another vertex.
LEMMA ReplicaFacts ==
  /\ \A r \in Replica : r[1] \in Vertex /\ r[2] \in Proc /\ r = <<r[1], r[2]>>
  /\ \A v \in Vertex : MasterOf(v) \in Replica
  /\ \A e \in Edge : \A v \in Ends(e) :
       <<v, Home[e]>> \in Replica /\ e \in Edges(<<v, Home[e]>>)
  /\ \A e \in Edge : \A v \in Ends(e) :
       OtherEnd(e, v) \in Ends(e) /\ OtherEnd(e, v) # v /\ Ends(e) = {v, OtherEnd(e, v)}
  /\ \A r \in Replica : \A e \in Edges(r) :
       e \in Edge /\ Home[e] = r[2] /\ r[1] \in Ends(e) /\ Other(e, r) \in Replica
  /\ \A r \in Replica : \A i \in 1..num_edges(r) : Adj[r][i] \in Edges(r)
  /\ \A r \in Replica : num_edges(r) \in Nat /\ num_in_edges(r) \in Nat
<1>1. \A r \in Replica : r[1] \in Vertex /\ r[2] \in Proc /\ r = <<r[1], r[2]>>
  BY DEF Replica
<1>2. \A v \in Vertex : MasterOf(v) \in Replica
  BY GraphAssumption DEF Replica, MasterOf
<1>3. \A e \in Edge : \A v \in Ends(e) :
        <<v, Home[e]>> \in Replica /\ e \in Edges(<<v, Home[e]>>)
  BY GraphAssumption DEF Replica, Ends, Edges
<1>4. \A e \in Edge : \A v \in Ends(e) :
        OtherEnd(e, v) \in Ends(e) /\ OtherEnd(e, v) # v /\ Ends(e) = {v, OtherEnd(e, v)}
  BY GraphAssumption DEF Ends, OtherEnd
<1>5. \A r \in Replica : \A e \in Edges(r) :
        e \in Edge /\ Home[e] = r[2] /\ r[1] \in Ends(e) /\ Other(e, r) \in Replica
  <2> SUFFICES ASSUME NEW r \in Replica, NEW e \in Edges(r)
               PROVE  e \in Edge /\ Home[e] = r[2] /\ r[1] \in Ends(e) /\ Other(e, r) \in Replica
    OBVIOUS
  <2>1. e \in Edge /\ Home[e] = r[2] /\ r[1] \in Ends(e)
    BY DEF Edges
  <2> QED BY <2>1, <1>3, <1>4 DEF Other
<1>6. \A r \in Replica : \A i \in 1..num_edges(r) : Adj[r][i] \in Edges(r)
  BY AdjacencyAssumption DEF num_edges
<1>7. \A r \in Replica : num_edges(r) \in Nat /\ num_in_edges(r) \in Nat
  <2> SUFFICES ASSUME NEW r \in Replica
               PROVE  num_edges(r) \in Nat /\ num_in_edges(r) \in Nat
    OBVIOUS
  <2>1. num_edges(r) \in Nat
    BY AdjacencyAssumption DEF num_edges
  <2>2. {e \in Edges(r) : Target[e] = r[1]} \in SUBSET Edge
    BY DEF Edges
  <2> QED BY <2>1, <2>2, FS_Subset, FS_CardinalityType, GraphAssumption DEF num_in_edges
<1> QED BY <1>1, <1>2, <1>3, <1>4, <1>5, <1>6, <1>7

\* What a thread runs: the innermost frame and the frames below it.
LEMMA TopOfStack ==
  ASSUME NEW t \in Caller, stack \in [Caller -> Seq(Frame)], Busy(t)
  PROVE  /\ Top(t) \in Frame
         /\ Below(t) \in Seq(Frame)
         /\ Len(Below(t)) = Len(stack[t]) - 1
         /\ \A i \in 1..Len(Below(t)) : Below(t)[i] = stack[t][i]
         /\ Len(stack[t]) \in Nat /\ Len(stack[t]) > 0
<1> DEFINE s == stack[t]
<1>1. s \in Seq(Frame) /\ s # <<>>
  BY DEF Busy
<1>2. Len(s) \in Nat /\ Len(s) > 0 /\ \A i \in 1..Len(s) : s[i] \in Frame
  BY <1>1
<1>3. \A i \in 1..(Len(s) - 1) : s[i] \in Frame
  BY <1>2
<1> DEFINE n == Len(s) - 1
           b == SubSeq(s, 1, n)
<1> HIDE DEF s
<1>4. n \in Int /\ n >= 0 /\ \A i \in 1..n : s[i] \in Frame
  BY <1>2, <1>3
<1> HIDE DEF n
<1>5. /\ b \in Seq(Frame)
      /\ Len(b) = IF 1 <= n THEN n - 1 + 1 ELSE 0
      /\ \A i \in 1..(n - 1 + 1) : b[i] = s[1 + i - 1]
  BY <1>4, SubSeqProperties
<1> HIDE DEF b
<1>6. b \in Seq(Frame) /\ Len(b) = n /\ \A i \in 1..n : b[i] = s[i]
  BY <1>4, <1>5
<1>7. Below(t) = b /\ Top(t) = s[Len(s)] /\ stack[t] = s
  BY DEF Top, Below, s, b, n
<1>8. Len(b) = Len(s) - 1
  BY <1>6 DEF n
<1> QED BY <1>2, <1>6, <1>7, <1>8

LEMMA NewFrameType ==
  ASSUME NEW r \in Replica, NEW k \in Kinds
  PROVE  NewFrame(k, r) \in Frame
BY ReplicaFacts DEF NewFrame, Frame

\* A thread that replaces or drops its innermost frame still has a stack.
LEMMA StackSteps ==
  ASSUME NEW t \in Caller, stack \in [Caller -> Seq(Frame)], Busy(t)
  PROVE  /\ \A f \in Frame : Append(Below(t), f) \in Seq(Frame)
         /\ \A f \in Frame : ReplaceTop(t, f) => stack' \in [Caller -> Seq(Frame)]
         /\ Pop(t) => stack' \in [Caller -> Seq(Frame)]
<1>1. Below(t) \in Seq(Frame)
  BY TopOfStack
<1>2. \A f \in Frame : Append(Below(t), f) \in Seq(Frame)
  BY <1>1
<1> QED BY <1>1, <1>2 DEF ReplaceTop, Pop

\* Advance and Break move on in the edge list of the frame's replica.
LEMMA LoopFrames ==
  ASSUME NEW f \in Frame
  PROVE  Advance(f) \in Frame /\ Break(f) \in Frame
<1>1. f.at \in Replica /\ f.next \in Nat \ {0}
  BY DEF Frame
<1>2. num_edges(f.at) \in Nat /\ num_in_edges(f.at) \in Nat
  BY <1>1, ReplicaFacts
<1>3. f.next + 1 \in Nat \ {0} /\ num_edges(f.at) + 1 \in Nat \ {0}
      /\ num_in_edges(f.at) + 1 \in Nat \ {0}
  BY <1>1, <1>2
<1> QED BY <1>3 DEF Advance, Break, Frame

LEMMA ReadyFrame ==
  ASSUME NEW f \in Frame, NEW r \in Replica
  PROVE  [f EXCEPT !.ready = Append(@, r)] \in Frame
<1> DEFINE s == Append(f.ready, r)
<1>1. s \in Seq(Replica)
  BY DEF Frame
<1> HIDE DEF s
<1>2. [f EXCEPT !.ready = s] \in Frame
  BY <1>1 DEF Frame
<1> QED BY <1>2 DEF s

\* The edge a frame visits next, and the replica at its other end.
LEMMA NextEdge ==
  ASSUME NEW f \in Frame, f.next <= num_edges(f.at)
  PROVE  /\ Adj[f.at][f.next] \in Edge /\ Adj[f.at][f.next] \in Edges(f.at)
         /\ f.at \in Replica /\ f.at[1] \in Vertex
         /\ f.at[1] \in Ends(Adj[f.at][f.next])
         /\ Home[Adj[f.at][f.next]] = f.at[2]
         /\ Other(Adj[f.at][f.next], f.at) \in Replica
         /\ Other(Adj[f.at][f.next], f.at)[1] \in Vertex
<1>1. f.at \in Replica /\ f.next \in 1..num_edges(f.at)
  <2>1. f.at \in Replica /\ f.next \in Nat \ {0}
    BY DEF Frame
  <2> QED BY <2>1, ReplicaFacts
<1>2. Adj[f.at][f.next] \in Edges(f.at)
  BY <1>1, ReplicaFacts
<1> QED BY <1>1, <1>2, ReplicaFacts

ForkType == fork \in [Edge -> Fork] /\ \A e \in Edge : fork[e].owner \in Ends(e)

LEMMA HandOverType ==
  ASSUME NEW e \in Edge, NEW req \in SUBSET Vertex, ForkType, HandOver(e, req),
         clean_fork_count \in [Proc -> Int], forks_acquired \in [Replica -> Int]
  PROVE  ForkType' /\ clean_fork_count' \in [Proc -> Int] /\ forks_acquired' \in [Replica -> Int]
<1> DEFINE taker == OtherEnd(e, fork[e].owner)
           new == [owner |-> taker, dirty |-> FALSE, request |-> req]
<1>1. fork[e].owner \in Ends(e)
  BY DEF ForkType
<1>2. taker \in Ends(e)
  BY <1>1, ReplicaFacts
<1>3. Ends(e) \subseteq Vertex
  BY GraphAssumption DEF Ends
<1>4. new \in Fork /\ new.owner \in Ends(e)
  BY <1>2, <1>3 DEF Fork
<1>5. fork' = [fork EXCEPT ![e] = new]
  BY DEF HandOver
<1> HIDE DEF new
<1>6. ForkType'
  BY <1>4, <1>5 DEF ForkType
<1>7. clean_fork_count' \in [Proc -> Int]
  <2>1. Home[e] \in Proc
    BY GraphAssumption
  <2> QED BY <2>1 DEF HandOver
<1>8. forks_acquired' \in [Replica -> Int]
  <2> DEFINE g == <<fork[e].owner, Home[e]>>
             h == <<taker, Home[e]>>
  <2>1. g \in Replica /\ h \in Replica
    BY <1>1, <1>2, ReplicaFacts
  <2>2. forks_acquired' = [forks_acquired EXCEPT ![g] = @ - 1, ![h] = @ + 1]
    BY DEF HandOver
  <2> HIDE DEF g, h
  <2> QED BY <2>1, <2>2
<1> QED BY <1>6, <1>7, <1>8

LEMMA TypeInit == Init => TypeOK
<1> SUFFICES ASSUME Init PROVE TypeOK
  OBVIOUS
<1>1. \A e \in Edge : InitialOwner(e) \in Ends(e) /\ InitialOwner(e) \in Vertex
  BY GraphAssumption DEF InitialOwner, Ends
<1>2. fork \in [Edge -> Fork] /\ \A e \in Edge : fork[e].owner \in Ends(e)
  BY <1>1 DEF Init, Fork
<1>3. forks_acquired \in [Replica -> Int]
  <2>1. \A r \in Replica : Cardinality({e \in Edges(r) : InitialOwner(e) = r[1]}) \in Int
    <3> SUFFICES ASSUME NEW r \in Replica
                 PROVE  Cardinality({e \in Edges(r) : InitialOwner(e) = r[1]}) \in Int
      OBVIOUS
    <3>1. {e \in Edges(r) : InitialOwner(e) = r[1]} \in SUBSET Edge
      BY DEF Edges
    <3> QED BY <3>1, FS_Subset, FS_CardinalityType, GraphAssumption
  <2> QED BY <2>1 DEF Init
<1>4. stack \in [Caller -> Seq(Frame)] /\ down \in [Replica -> Seq(Message)]
      /\ up \in [Replica -> Seq(Message)]
  BY DEF Init
<1>5. meals \in [Vertex -> Nat] /\ \A v \in Vertex : meals[v] <= MaxMeals[v]
  BY GraphAssumption DEF Init
<1> QED BY <1>2, <1>3, <1>4, <1>5 DEF Init, TypeOK, THINKING, EATING, Phase

LEMMA BroadcastType ==
  ASSUME NEW v \in Vertex, NEW m \in Message, Broadcast(v, m), down \in [Replica -> Seq(Message)]
  PROVE  down' \in [Replica -> Seq(Message)]
BY DEF Broadcast

LEMMA TypeMakeHungry ==
  ASSUME TypeOK, NEW v \in Vertex, MakeHungry(v)
  PROVE  TypeOK'
<1> DEFINE r == MasterOf(v)
<1>1. r \in Replica /\ v \in Caller
  BY ReplicaFacts DEF Caller
<1>2. NewFrame("grab", r) \in Frame
  BY <1>1, NewFrameType DEF Kinds
<1>3. stack' \in [Caller -> Seq(Frame)]
  BY <1>1, <1>2 DEF TypeOK, MakeHungry
<1>4. NumReplicas(v) \in 0..255
  <2>1. Mirrors(v) \in SUBSET (Vertex \X Proc)
    BY ReplicaFacts DEF Mirrors, Replica
  <2>2. Cardinality(Mirrors(v)) \in Nat
    BY <2>1, FS_Product, FS_Subset, FS_CardinalityType, GraphAssumption
  <2> QED BY <2>2 DEF NumReplicas
<1>5. Msg("hungry", ~lockid[r]) \in Message
  BY <1>1 DEF Msg, Message, TypeOK
<1>6. down' \in [Replica -> Seq(Message)]
  BY <1>5, BroadcastType DEF MakeHungry, TypeOK
<1>7. state' \in [Replica -> THINKING..EATING] /\ lockid' \in [Replica -> BOOLEAN]
      /\ counter' \in [Replica -> 0..255]
  BY <1>1, <1>4 DEF MakeHungry, TypeOK, THINKING, HUNGRY, EATING
<1>8. meals' \in [Vertex -> Nat] /\ \A u \in Vertex : meals'[u] <= MaxMeals[u]
  <2>1. meals' = [meals EXCEPT ![v] = @ + 1] /\ meals[v] < MaxMeals[v]
    BY DEF MakeHungry
  <2>2. /\ meals \in [Vertex -> Nat] /\ \A u \in Vertex : meals[u] <= MaxMeals[u]
        /\ MaxMeals \in [Vertex -> Nat]
    BY GraphAssumption DEF TypeOK
  <2> QED BY <2>1, <2>2
<1>9. phase' \in [Vertex -> Phase]
  BY DEF MakeHungry, TypeOK, Phase
<1> QED BY <1>3, <1>6, <1>7, <1>8, <1>9 DEF MakeHungry, TypeOK, forks

LEMMA TypeStopsEating ==
  ASSUME TypeOK, NEW v \in Vertex, StopsEating(v)
  PROVE  TypeOK'
<1> DEFINE r == MasterOf(v)
<1>1. r \in Replica /\ v \in Caller
  BY ReplicaFacts DEF Caller
<1>2. NewFrame("stop", r) \in Frame
  BY <1>1, NewFrameType DEF Kinds
<1>3. stack' \in [Caller -> Seq(Frame)]
  BY <1>1, <1>2 DEF TypeOK, StopsEating
<1>4. Msg("stop", FALSE) \in Message
  BY DEF Msg, Message
<1>5. down' \in [Replica -> Seq(Message)]
  <2>1. down \in [Replica -> Seq(Message)]
    BY DEF TypeOK
  <2>2. \/ UNCHANGED down
        \/ Broadcast(v, Msg("stop", FALSE))
    BY DEF StopsEating
  <2> QED BY <1>4, <2>1, <2>2, BroadcastType
<1>6. phase' \in [Vertex -> Phase]
  BY DEF StopsEating, TypeOK, Phase
<1>7. counter' \in [Replica -> 0..255]
  <2>1. counter' = counter \/ counter' = [counter EXCEPT ![r] = 0]
    BY DEF StopsEating
  <2>2. counter \in [Replica -> 0..255]
    BY DEF TypeOK
  <2> QED BY <2>1, <2>2
<1>8. scatter' \in [Replica -> {"none", "sent", "running"}]
  BY DEF StopsEating, TypeOK
<1> QED BY <1>3, <1>5, <1>6, <1>7, <1>8 DEF StopsEating, TypeOK, forks

LEMMA TypeReleased ==
  ASSUME TypeOK, NEW v \in Vertex, Released(v)
  PROVE  TypeOK'
<1>1. phase' \in [Vertex -> Phase]
  BY DEF Released, TypeOK, Phase
<1> QED BY <1>1 DEF Released, TypeOK, forks, phil, net

\* Steps that only move a thread along.
LEMMA TypeQuietSteps ==
  ASSUME TypeOK, NEW t \in Caller,
         GrabBegin(t) \/ Relock(t) \/ Backoff(t)
  PROVE  TypeOK'
<1>1. Busy(t) /\ stack \in [Caller -> Seq(Frame)]
  BY DEF GrabBegin, Relock, Backoff, TypeOK
<1>2. Top(t) \in Frame /\ Advance(Top(t)) \in Frame
  BY <1>1, TopOfStack, LoopFrames
<1>3. \E f \in Frame : ReplaceTop(t, f)
  <2>1. CASE GrabBegin(t)
    <3>1. [Top(t) EXCEPT !.k = "grabbing", !.held = TRUE] \in Frame
      BY <1>2 DEF Frame, Kinds
    <3> QED BY <2>1, <3>1 DEF GrabBegin
  <2>2. CASE Relock(t)
    <3>1. [Advance(Top(t)) EXCEPT !.k = "grabbing"] \in Frame
      BY <1>2 DEF Frame, Kinds
    <3> QED BY <2>2, <3>1 DEF Relock
  <2>3. CASE Backoff(t)
    <3>1. [Top(t) EXCEPT !.held = FALSE] \in Frame
      BY <1>2 DEF Frame
    <3> QED BY <2>3, <3>1 DEF Backoff
  <2> QED BY <2>1, <2>2, <2>3
<1>4. stack' \in [Caller -> Seq(Frame)]
  BY <1>1, <1>3, StackSteps
<1>5. UNCHANGED <<forks, phil, phase, meals, net>>
  BY DEF GrabBegin, Relock, Backoff
<1> QED BY <1>4, <1>5 DEF TypeOK, forks, phil, net

LEMMA TypeGrabEdge ==
  ASSUME TypeOK, NEW t \in Caller, GrabEdge(t)
  PROVE  TypeOK'
<1> DEFINE f == Top(t)
           e == Adj[f.at][f.next]
           o == Other(e, f.at)
           requested == [fork EXCEPT ![e].request = @ \cup {f.at[1]}]
           req == IF state[o] = HUNGRY THEN {o[1]} ELSE {}
<1>1. Busy(t) /\ stack \in [Caller -> Seq(Frame)] /\ f.next <= num_edges(f.at)
  BY DEF GrabEdge, CanLock, TypeOK
<1>2. f \in Frame /\ Below(t) \in Seq(Frame)
  BY <1>1, TopOfStack
<1>3. e \in Edge /\ o \in Replica /\ o[1] \in Vertex /\ f.at[1] \in Vertex
  BY <1>1, <1>2, NextEdge
<1>4. Advance(f) \in Frame /\ Break(f) \in Frame
  BY <1>2, LoopFrames
<1>5. ForkType /\ clean_fork_count \in [Proc -> Int] /\ forks_acquired \in [Replica -> Int]
  BY DEF TypeOK, ForkType
<1>6. requested \in [Edge -> Fork] /\ \A d \in Edge : requested[d].owner \in Ends(d)
  <2> DEFINE new == [fork[e] EXCEPT !.request = @ \cup {f.at[1]}]
  <2>1. new \in Fork /\ new.owner = fork[e].owner
    BY <1>3, <1>5 DEF ForkType, Fork
  <2>2. requested = [fork EXCEPT ![e] = new]
    OBVIOUS
  <2> HIDE DEF new, requested
  <2> QED BY <1>3, <1>5, <2>1, <2>2 DEF ForkType
<1>7. UNCHANGED <<phase, meals, net>>
  BY DEF GrabEdge
<1>8. \/ UNCHANGED <<forks, phil>> /\ \E g \in Frame : ReplaceTop(t, g)
      \/ HandOver(e, req) /\ UNCHANGED phil /\ \E g \in Frame : ReplaceTop(t, g)
      \/ /\ fork' = requested /\ UNCHANGED <<clean_fork_count, forks_acquired, state, counter, lockid>>
         /\ cancellation_sent' = [cancellation_sent EXCEPT ![o] = TRUE]
         /\ stack' = [stack EXCEPT ![t] =
                       Below(t) \o <<[f EXCEPT !.k = "relock", !.held = FALSE],
                                     [NewFrame("issue", o) EXCEPT !.lockid = lockid[o]]>>]
      \/ /\ fork' = requested /\ UNCHANGED <<clean_fork_count, forks_acquired, phil>>
         /\ \E g \in Frame : ReplaceTop(t, g)
  BY <1>4, Zenon DEF GrabEdge
<1> HIDE DEF f, e, o, requested, req
<1>9. CASE UNCHANGED <<forks, phil>> /\ \E g \in Frame : ReplaceTop(t, g)
  BY <1>1, <1>7, <1>9, StackSteps DEF TypeOK, forks, phil, net
<1>10. CASE HandOver(e, req) /\ UNCHANGED phil /\ \E g \in Frame : ReplaceTop(t, g)
  <2>1. req \in SUBSET Vertex
    BY <1>3 DEF req
  <2>2. ForkType' /\ clean_fork_count' \in [Proc -> Int] /\ forks_acquired' \in [Replica -> Int]
    BY <1>3, <1>5, <1>10, <2>1, HandOverType
  <2>3. stack' \in [Caller -> Seq(Frame)]
    BY <1>1, <1>10, StackSteps
  <2> QED BY <1>7, <1>10, <2>2, <2>3 DEF TypeOK, ForkType, phil, net
<1>11. CASE /\ fork' = requested
            /\ UNCHANGED <<clean_fork_count, forks_acquired, state, counter, lockid>>
            /\ cancellation_sent' = [cancellation_sent EXCEPT ![o] = TRUE]
            /\ stack' = [stack EXCEPT ![t] =
                          Below(t) \o <<[f EXCEPT !.k = "relock", !.held = FALSE],
                                        [NewFrame("issue", o) EXCEPT !.lockid = lockid[o]]>>]
  <2> DEFINE a == [f EXCEPT !.k = "relock", !.held = FALSE]
             b == [NewFrame("issue", o) EXCEPT !.lockid = lockid[o]]
  <2>1. a \in Frame
    BY <1>2 DEF Frame, Kinds
  <2>2. b \in Frame
    <3>1. NewFrame("issue", o) \in Frame /\ lockid[o] \in BOOLEAN
      BY <1>3, NewFrameType DEF Kinds, TypeOK
    <3> QED BY <3>1 DEF Frame
  <2>3. stack' = [stack EXCEPT ![t] = Below(t) \o <<a, b>>]
    BY <1>11
  <2> HIDE DEF a, b
  <2>4. Below(t) \o <<a, b>> \in Seq(Frame)
    BY <1>2, <2>1, <2>2
  <2>5. stack' \in [Caller -> Seq(Frame)]
    BY <1>1, <2>3, <2>4
  <2>6. cancellation_sent' \in [Replica -> BOOLEAN]
    BY <1>11 DEF TypeOK
  <2> QED BY <1>6, <1>7, <1>11, <2>5, <2>6 DEF TypeOK, net
<1>12. CASE /\ fork' = requested /\ UNCHANGED <<clean_fork_count, forks_acquired, phil>>
            /\ \E g \in Frame : ReplaceTop(t, g)
  <2>1. stack' \in [Caller -> Seq(Frame)]
    BY <1>1, <1>12, StackSteps
  <2> QED BY <1>6, <1>7, <1>12, <2>1 DEF TypeOK, phil, net
<1> QED BY <1>8, <1>9, <1>10, <1>11, <1>12

LEMMA EnterHorsType ==
  ASSUME NEW R, EnterHors(R), state \in [Replica -> THINKING..EATING],
         cancellation_sent \in [Replica -> BOOLEAN]
  PROVE  state' \in [Replica -> THINKING..EATING] /\ cancellation_sent' \in [Replica -> BOOLEAN]
<1>1. state' \in [Replica -> THINKING..EATING]
  BY DEF EnterHors, THINKING, EATING, HORS_DOEUVRE
<1>2. cancellation_sent' \in [Replica -> BOOLEAN]
  BY DEF EnterHors
<1> QED BY <1>1, <1>2

LEMMA TypeFinishHungry ==
  ASSUME TypeOK, NEW t \in Caller, FinishHungry(t)
  PROVE  TypeOK'
<1> DEFINE f == Top(t)
           R == {r \in {f.at} : MayEnter(r)}
           enter == [f EXCEPT !.k = "enter", !.held = FALSE,
                              !.ready = IF R = {} THEN @ ELSE Append(@, f.at)]
<1>1. Busy(t) /\ stack \in [Caller -> Seq(Frame)]
  BY DEF FinishHungry, LoopDone, TypeOK
<1>2. f \in Frame
  BY <1>1, TopOfStack
<1>3. enter \in Frame
  <2> HIDE DEF R
  <2>1. f.ready \in Seq(Replica) /\ Append(f.ready, f.at) \in Seq(Replica)
    BY <1>2 DEF Frame
  <2> DEFINE rdy == IF R = {} THEN f.ready ELSE Append(f.ready, f.at)
  <2>2. rdy \in Seq(Replica)
    BY <2>1
  <2> HIDE DEF rdy
  <2>3. [f EXCEPT !.k = "enter", !.held = FALSE, !.ready = rdy] \in Frame
    BY <1>2, <2>2 DEF Frame, Kinds
  <2> QED BY <2>3 DEF rdy
<1>4. /\ EnterHors(R) /\ (Pop(t) \/ ReplaceTop(t, enter))
      /\ UNCHANGED <<forks, counter, lockid, phase, meals, net>>
  BY Zenon DEF FinishHungry, forks
<1> HIDE DEF R, enter
<1>5. stack' \in [Caller -> Seq(Frame)]
  BY <1>1, <1>3, <1>4, StackSteps
<1>6. state' \in [Replica -> THINKING..EATING] /\ cancellation_sent' \in [Replica -> BOOLEAN]
  BY <1>4, EnterHorsType DEF TypeOK
<1> QED BY <1>4, <1>5, <1>6 DEF TypeOK, forks, net

\* Setting the state of one philosopher, or one of its bits.
LEMMA PhilosopherUpdates ==
  ASSUME TypeOK, NEW r
  PROVE  /\ [state EXCEPT ![r] = THINKING] \in [Replica -> THINKING..EATING]
         /\ [state EXCEPT ![r] = HUNGRY] \in [Replica -> THINKING..EATING]
         /\ [state EXCEPT ![r] = EATING] \in [Replica -> THINKING..EATING]
         /\ [cancellation_sent EXCEPT ![r] = FALSE] \in [Replica -> BOOLEAN]
         /\ [counter EXCEPT ![r] = 0] \in [Replica -> 0..255]
<1>1. THINKING \in THINKING..EATING /\ HUNGRY \in THINKING..EATING /\ EATING \in THINKING..EATING
  BY DEF THINKING, HUNGRY, EATING
<1>2. /\ state \in [Replica -> THINKING..EATING] /\ cancellation_sent \in [Replica -> BOOLEAN]
      /\ counter \in [Replica -> 0..255]
  BY DEF TypeOK
<1>3. [cancellation_sent EXCEPT ![r] = FALSE] \in [Replica -> BOOLEAN]
  BY <1>2
<1>4. [counter EXCEPT ![r] = 0] \in [Replica -> 0..255]
  <2>1. 0 \in 0..255
    OBVIOUS
  <2>2. \A x \in 0..255 : [counter EXCEPT ![r] = x] \in [Replica -> 0..255]
    BY <1>2
  <2> QED BY <2>1, <2>2
<1>5. \A x \in THINKING..EATING : [state EXCEPT ![r] = x] \in [Replica -> THINKING..EATING]
  BY <1>2
<1> QED BY <1>1, <1>3, <1>4, <1>5

LEMMA TypeSetEating ==
  ASSUME TypeOK, NEW t \in Caller, SetEating(t)
  PROVE  TypeOK'
<1>1. Busy(t) /\ stack \in [Caller -> Seq(Frame)]
  BY DEF SetEating, TypeOK
<1>2. stack' \in [Caller -> Seq(Frame)]
  BY <1>1, StackSteps DEF SetEating
<1>3. state' \in [Replica -> THINKING..EATING]
  BY PhilosopherUpdates DEF SetEating
<1>4. cancellation_sent' \in [Replica -> BOOLEAN]
  BY PhilosopherUpdates DEF SetEating
<1>5. phase' \in [Vertex -> Phase]
  BY DEF SetEating, TypeOK, Phase
<1> QED BY <1>2, <1>3, <1>4, <1>5 DEF SetEating, TypeOK, forks, net

LEMMA TypeSignalReady ==
  ASSUME TypeOK, NEW t \in Caller, SignalReady(t)
  PROVE  TypeOK'
<1> DEFINE r == Top(t).at
           c == (counter[r] + 255) % 256
<1>1. Busy(t) /\ stack \in [Caller -> Seq(Frame)]
  BY DEF SignalReady, TypeOK
<1>2. r \in Replica /\ r[1] \in Vertex
  BY <1>1, TopOfStack, ReplicaFacts DEF Frame
<1>3. c \in 0..255
  <2>1. counter[r] \in 0..255
    BY <1>2 DEF TypeOK
  <2> HIDE DEF r
  <2> QED BY <2>1
<1>4. counter' \in [Replica -> 0..255]
  BY <1>3 DEF SignalReady, TypeOK
<1>5. NewFrame("set_eating", r) \in Frame /\ Msg("eating", lockid[r]) \in Message
  BY <1>2, NewFrameType DEF Kinds, Msg, Message, TypeOK
<1>6. \/ Broadcast(r[1], Msg("eating", lockid[r])) /\ ReplaceTop(t, NewFrame("set_eating", r))
      \/ Pop(t) /\ UNCHANGED down
  BY Zenon DEF SignalReady
<1> HIDE DEF r
<1>7. stack' \in [Caller -> Seq(Frame)]
  BY <1>1, <1>5, <1>6, StackSteps
<1>8. down' \in [Replica -> Seq(Message)]
  <2>1. down \in [Replica -> Seq(Message)]
    BY DEF TypeOK
  <2> QED BY <1>2, <1>5, <1>6, <2>1, BroadcastType
<1> QED BY <1>4, <1>7, <1>8 DEF SignalReady, TypeOK, forks

LEMMA TypeEnter ==
  ASSUME TypeOK, NEW t \in Caller, Enter(t)
  PROVE  TypeOK'
<1> DEFINE f == Top(t)
           r == Head(f.ready)
           rest == IF Len(f.ready) = 1 THEN Below(t)
                     ELSE Append(Below(t), [f EXCEPT !.ready = Tail(@)])
<1>1. Busy(t) /\ stack \in [Caller -> Seq(Frame)]
  BY DEF Enter, TypeOK
<1>2. f \in Frame /\ f.ready \in Seq(Replica) /\ Below(t) \in Seq(Frame)
  BY <1>1, TopOfStack DEF Frame
<1>3. r \in Replica /\ Tail(f.ready) \in Seq(Replica)
  BY <1>2, HeadTailProperties DEF Enter
<1>4. rest \in Seq(Frame)
  <2>1. [f EXCEPT !.ready = Tail(@)] \in Frame
    BY <1>2, <1>3 DEF Frame
  <2> QED BY <1>1, <1>2, <2>1, StackSteps
<1>5. NewFrame("signal", r) \in Frame /\ Msg("ready", lockid[r]) \in Message
  BY <1>3, NewFrameType DEF Kinds, Msg, Message, TypeOK
<1>6. /\ \/ stack' = [stack EXCEPT ![t] = Append(rest, NewFrame("signal", r))] /\ UNCHANGED net
         \/ /\ stack' = [stack EXCEPT ![t] = rest]
            /\ up' = [up EXCEPT ![r] = Append(@, Msg("ready", lockid[r]))]
            /\ UNCHANGED <<down, scatter>>
      /\ UNCHANGED <<forks, phil, phase, meals>>
  BY Zenon DEF Enter
<1> HIDE DEF rest, r, f
<1>7. stack' \in [Caller -> Seq(Frame)]
  <2>1. Append(rest, NewFrame("signal", r)) \in Seq(Frame)
    BY <1>4, <1>5
  <2> QED BY <1>1, <1>4, <1>6, <2>1
<1>8. up' \in [Replica -> Seq(Message)]
  <2>1. up \in [Replica -> Seq(Message)]
    BY DEF TypeOK
  <2>2. Append(up[r], Msg("ready", lockid[r])) \in Seq(Message)
    BY <1>3, <1>5, <2>1
  <2>3. up' = up \/ up' = [up EXCEPT ![r] = Append(@, Msg("ready", lockid[r]))]
    BY <1>6 DEF net
  <2> QED BY <2>1, <2>2, <2>3
<1> QED BY <1>6, <1>7, <1>8 DEF TypeOK, forks, phil, net

LEMMA TypeIssueCancellation ==
  ASSUME TypeOK, NEW t \in Caller, IssueCancellation(t)
  PROVE  TypeOK'
<1> DEFINE f == Top(t)
<1>1. Busy(t) /\ stack \in [Caller -> Seq(Frame)] /\ up \in [Replica -> Seq(Message)]
  BY DEF IssueCancellation, TypeOK
<1>2. f \in Frame /\ f.at \in Replica /\ f.lockid \in BOOLEAN
  BY <1>1, TopOfStack DEF Frame
<1>3. [f EXCEPT !.k = "cancel"] \in Frame
  BY <1>2 DEF Frame, Kinds
<1>4. Msg("cancel", f.lockid) \in Message
  BY <1>2 DEF Msg, Message
<1>5. /\ \/ ReplaceTop(t, [f EXCEPT !.k = "cancel"]) /\ UNCHANGED up
         \/ Pop(t) /\ up' = [up EXCEPT ![f.at] = Append(@, Msg("cancel", f.lockid))]
      /\ UNCHANGED <<forks, phil, phase, meals, down, scatter>>
  BY Zenon DEF IssueCancellation
<1> HIDE DEF f
<1>6. stack' \in [Caller -> Seq(Frame)]
  BY <1>1, <1>3, <1>5, StackSteps
<1>7. up' \in [Replica -> Seq(Message)]
  <2>1. Append(up[f.at], Msg("cancel", f.lockid)) \in Seq(Message)
    BY <1>1, <1>2, <1>4
  <2> QED BY <1>1, <1>5, <2>1
<1> QED BY <1>5, <1>6, <1>7 DEF TypeOK, forks, phil

LEMMA TypeCancellationRequest ==
  ASSUME TypeOK, NEW t \in Caller, CancellationRequest(t)
  PROVE  TypeOK'
<1> DEFINE f == Top(t)
           r == f.at
           q == <<r[1], f.requestor>>
<1>1. /\ Busy(t) /\ stack \in [Caller -> Seq(Frame)]
      /\ down \in [Replica -> Seq(Message)] /\ counter \in [Replica -> 0..255]
  BY DEF CancellationRequest, TypeOK
<1>2. f \in Frame /\ r \in Replica
  BY <1>1, TopOfStack DEF Frame
<1>3. NewFrame("accept", r) \in Frame /\ Msg("accept", lockid[r]) \in Message
  BY <1>2, NewFrameType DEF Kinds, Msg, Message, TypeOK
<1>4. /\ Pop(t) \/ ReplaceTop(t, NewFrame("accept", r))
      /\ UNCHANGED counter \/ counter' = [counter EXCEPT ![r] = (@ + 1) % 256]
      /\ UNCHANGED down \/ down' = [down EXCEPT ![q] = Append(@, Msg("accept", lockid[r]))]
      /\ UNCHANGED <<forks, state, cancellation_sent, lockid, phase, meals, up, scatter>>
  BY Zenon DEF CancellationRequest
<1> HIDE DEF f, r, q
<1>5. stack' \in [Caller -> Seq(Frame)]
  BY <1>1, <1>3, <1>4, StackSteps
<1>6. counter' \in [Replica -> 0..255]
  <2>1. counter[r] \in 0..255
    BY <1>1, <1>2
  <2>2. (counter[r] + 1) % 256 \in 0..255
    BY <2>1
  <2> QED BY <1>1, <1>4, <2>2
<1>7. down' \in [Replica -> Seq(Message)]
  <2>1. q \in Replica => Append(down[q], Msg("accept", lockid[r])) \in Seq(Message)
    BY <1>1, <1>3
  <2> QED BY <1>1, <1>4, <2>1
<1> QED BY <1>4, <1>5, <1>6, <1>7 DEF TypeOK, forks

LEMMA TypeAcceptBegin ==
  ASSUME TypeOK, NEW t \in Caller, AcceptBegin(t)
  PROVE  TypeOK'
<1>1. Busy(t) /\ stack \in [Caller -> Seq(Frame)]
  BY DEF AcceptBegin, TypeOK
<1>2. Top(t) \in Frame
  BY <1>1, TopOfStack
<1>3. [Top(t) EXCEPT !.k = "accepting", !.held = TRUE] \in Frame
  BY <1>2 DEF Frame, Kinds
<1>4. stack' \in [Caller -> Seq(Frame)]
  BY <1>1, <1>3, StackSteps DEF AcceptBegin
<1>5. state' \in [Replica -> THINKING..EATING] /\ cancellation_sent' \in [Replica -> BOOLEAN]
  BY PhilosopherUpdates DEF AcceptBegin
<1> QED BY <1>4, <1>5 DEF AcceptBegin, TypeOK, forks, net

\* What AcceptEdge and StopEdge have in common: a fork may move, the other end
\* may become complete, the thread goes on.
LEMMA TypeEdgeStep ==
  ASSUME TypeOK, NEW t \in Caller, Busy(t), NEW e \in Edge, NEW req \in SUBSET Vertex, NEW R,
         NEW g \in Frame, HandOver(e, req) \/ UNCHANGED forks, EnterHors(R), ReplaceTop(t, g),
         UNCHANGED <<counter, lockid, phase, meals, net>>
  PROVE  TypeOK'
<1>1. ForkType' /\ clean_fork_count' \in [Proc -> Int] /\ forks_acquired' \in [Replica -> Int]
  <2>1. ForkType /\ clean_fork_count \in [Proc -> Int] /\ forks_acquired \in [Replica -> Int]
    BY DEF TypeOK, ForkType
  <2>2. CASE UNCHANGED forks
    BY <2>1, <2>2 DEF ForkType, forks
  <2>3. CASE HandOver(e, req)
    BY <2>1, <2>3, HandOverType
  <2> QED BY <2>2, <2>3
<1>2. stack' \in [Caller -> Seq(Frame)]
  BY StackSteps DEF TypeOK
<1>3. state' \in [Replica -> THINKING..EATING] /\ cancellation_sent' \in [Replica -> BOOLEAN]
  BY EnterHorsType DEF TypeOK
<1> QED BY <1>1, <1>2, <1>3 DEF TypeOK, ForkType, net

LEMMA TypeAcceptEdge ==
  ASSUME TypeOK, NEW t \in Caller, AcceptEdge(t)
  PROVE  TypeOK'
<1> DEFINE f == Top(t)
           e == Adj[f.at][f.next]
           o == Other(e, f.at)
           hungry == state[f.at] = HUNGRY
           owed == hungry /\ fork[e].owner = f.at[1] /\ fork[e].dirty /\ o[1] \in fork[e].request
           R == {r \in {o} : owed /\ MayEnter(r)}
           g == IF ~hungry THEN Break(f)
                ELSE IF R = {} THEN Advance(f)
                ELSE [Advance(f) EXCEPT !.ready = Append(@, o)]
<1>1. Busy(t) /\ stack \in [Caller -> Seq(Frame)] /\ f.next <= num_edges(f.at)
  BY DEF AcceptEdge, CanLock, TypeOK
<1>2. f \in Frame
  BY <1>1, TopOfStack
<1>3. e \in Edge /\ o \in Replica /\ {f.at[1]} \in SUBSET Vertex
  BY <1>1, <1>2, NextEdge
<1>4. Advance(f) \in Frame /\ Break(f) \in Frame
  BY <1>2, LoopFrames
<1>5. [Advance(f) EXCEPT !.ready = Append(@, o)] \in Frame
  BY <1>3, <1>4, ReadyFrame
<1>6. /\ IF owed THEN HandOver(e, {f.at[1]}) ELSE UNCHANGED forks
      /\ EnterHors(R) /\ ReplaceTop(t, g) /\ UNCHANGED <<counter, lockid, phase, meals, net>>
  BY Zenon DEF AcceptEdge
<1> HIDE DEF f, e, o, hungry, owed, R
<1>7. g \in Frame
  BY <1>4, <1>5
<1> HIDE DEF g
<1>8. HandOver(e, {f.at[1]}) \/ UNCHANGED forks
  BY <1>6
<1> QED BY <1>1, <1>3, <1>6, <1>7, <1>8, TypeEdgeStep

LEMMA TypeStopEdge ==
  ASSUME TypeOK, NEW t \in Caller, StopEdge(t)
  PROVE  TypeOK'
<1> DEFINE f == Top(t)
           e == Adj[f.at][f.next]
           o == Other(e, f.at)
           thinking == state[f.at] = THINKING
           owed == thinking /\ MovesOnUnlock(e)
           R == {r \in {o} : thinking /\ MayEnter(r)}
           g == IF ~thinking THEN Break(f)
                ELSE IF R = {} THEN Advance(f)
                ELSE [Advance(f) EXCEPT !.ready = Append(@, o)]
<1>1. Busy(t) /\ stack \in [Caller -> Seq(Frame)] /\ f.next <= num_edges(f.at)
  BY DEF StopEdge, CanLock, TypeOK
<1>2. f \in Frame
  BY <1>1, TopOfStack
<1>3. e \in Edge /\ o \in Replica
  BY <1>1, <1>2, NextEdge
<1>4. Advance(f) \in Frame /\ Break(f) \in Frame
  BY <1>2, LoopFrames
<1>5. [Advance(f) EXCEPT !.ready = Append(@, o)] \in Frame
  BY <1>3, <1>4, ReadyFrame
<1>6. /\ IF owed THEN HandOver(e, {}) ELSE UNCHANGED forks
      /\ EnterHors(R) /\ ReplaceTop(t, g) /\ UNCHANGED <<counter, lockid, phase, meals, net>>
  BY Zenon DEF StopEdge
<1> HIDE DEF f, e, o, thinking, owed, R
<1>7. g \in Frame
  BY <1>4, <1>5
<1> HIDE DEF g
<1>8. HandOver(e, {}) \/ UNCHANGED forks
  BY <1>6
<1>9. {} \in SUBSET Vertex
  OBVIOUS
<1> QED BY <1>1, <1>3, <1>6, <1>7, <1>8, <1>9, TypeEdgeStep

LEMMA TypeStopBegin ==
  ASSUME TypeOK, NEW t \in Caller, StopBegin(t)
  PROVE  TypeOK'
<1> DEFINE r == Top(t).at
           n == Cardinality({e \in Edges(r) : ~fork[e].dirty})
<1>1. Busy(t) /\ stack \in [Caller -> Seq(Frame)]
  BY DEF StopBegin, TypeOK
<1>2. Top(t) \in Frame /\ r \in Replica
  BY <1>1, TopOfStack DEF Frame
<1>3. [Top(t) EXCEPT !.k = "stopping", !.held = TRUE] \in Frame
  BY <1>2 DEF Frame, Kinds
<1>4. stack' \in [Caller -> Seq(Frame)]
  BY <1>1, <1>3, StackSteps DEF StopBegin
<1>5. /\ fork' = Dirtied(r)
      /\ clean_fork_count' = [clean_fork_count EXCEPT ![r[2]] = @ - n]
      /\ state' = [state EXCEPT ![r] = THINKING]
      /\ counter' = [counter EXCEPT ![r] = 0]
      /\ UNCHANGED <<forks_acquired, cancellation_sent, lockid, phase, meals, net>>
  BY DEF StopBegin
<1>6. fork' \in [Edge -> Fork] /\ \A e \in Edge : fork'[e].owner \in Ends(e)
  <2>1. \A e \in Edge : fork[e] \in Fork /\ fork[e].owner \in Ends(e)
    BY DEF TypeOK
  <2>2. \A x \in Fork : [x EXCEPT !.dirty = TRUE] \in Fork /\ [x EXCEPT !.dirty = TRUE].owner = x.owner
    BY DEF Fork
  <2> HIDE DEF r
  <2> QED BY <1>5, <2>1, <2>2 DEF Dirtied
<1>7. clean_fork_count' \in [Proc -> Int]
  <2>1. {e \in Edges(r) : ~fork[e].dirty} \in SUBSET Edge
    BY DEF Edges
  <2>2. n \in Int
    BY <2>1, FS_Subset, FS_CardinalityType, GraphAssumption
  <2>3. r[2] \in Proc /\ clean_fork_count \in [Proc -> Int]
    BY <1>2, ReplicaFacts DEF TypeOK
  <2> HIDE DEF n, r
  <2> QED BY <1>5, <2>2, <2>3
<1>8. state' \in [Replica -> THINKING..EATING] /\ counter' \in [Replica -> 0..255]
  BY <1>5, PhilosopherUpdates
<1> HIDE DEF r, n
<1> QED BY <1>4, <1>5, <1>6, <1>7, <1>8 DEF TypeOK, net

LEMMA TypeFinishStop ==
  ASSUME TypeOK, NEW t \in Caller, FinishStop(t)
  PROVE  TypeOK'
<1>1. Busy(t) /\ stack \in [Caller -> Seq(Frame)]
  BY DEF FinishStop, LoopDone, TypeOK
<1>2. Top(t) \in Frame
  BY <1>1, TopOfStack
<1>3. [Top(t) EXCEPT !.k = "enter", !.held = FALSE] \in Frame
  BY <1>2 DEF Frame, Kinds
<1>4. stack' \in [Caller -> Seq(Frame)]
  BY <1>1, <1>3, StackSteps DEF FinishStop
<1>5. scatter' \in [Replica -> {"none", "sent", "running"}]
  BY DEF FinishStop, TypeOK
<1> QED BY <1>4, <1>5 DEF FinishStop, TypeOK, forks, phil

LEMMA WithoutType ==
  ASSUME NEW S, NEW q \in Seq(S), NEW i \in 1..Len(q)
  PROVE  Without(q, i) \in Seq(S)
<1>1. Len(q) \in Nat /\ \A j \in 1..Len(q) : q[j] \in S
  OBVIOUS
<1>2. (\A j \in 1..(i - 1) : q[j] \in S) /\ (\A j \in (i + 1)..Len(q) : q[j] \in S)
  BY <1>1
<1>3. i - 1 \in Int /\ i + 1 \in Int /\ Len(q) \in Int /\ 1 \in Int
  BY <1>1
<1> DEFINE a == SubSeq(q, 1, i - 1)
           b == SubSeq(q, i + 1, Len(q))
<1>4. a \in Seq(S)
  BY <1>2, <1>3, SubSeqProperties
<1>5. b \in Seq(S)
  BY <1>2, <1>3, SubSeqProperties
<1>6. Without(q, i) = a \o b
  BY DEF Without
<1> HIDE DEF a, b
<1> QED BY <1>4, <1>5, <1>6

LEMMA TypeMirrorCall ==
  ASSUME TypeOK, NEW h \in Handler, NEW r \in Replica, NEW i \in DOMAIN down[r], MirrorCall(h, r, i)
  PROVE  TypeOK'
<1> DEFINE msg == down[r][i]
           grab == <<NewFrame("grab", r)>>
           accept == <<NewFrame("accept", r)>>
           stop == <<NewFrame("stop", r)>>
<1>1. h \in Caller /\ stack \in [Caller -> Seq(Frame)] /\ down \in [Replica -> Seq(Message)]
  BY DEF Caller, TypeOK
<1>2. i \in 1..Len(down[r]) /\ down[r] \in Seq(Message)
  BY <1>1
<1>3. msg \in Message /\ msg.lockid \in BOOLEAN
  <2>1. msg \in Message
    BY <1>2
  <2> HIDE DEF msg
  <2> QED BY <2>1 DEF Message
<1>4. down' = [down EXCEPT ![r] = Without(down[r], i)]
  BY DEF MirrorCall
<1>5. down' \in [Replica -> Seq(Message)]
  BY <1>1, <1>2, <1>4, WithoutType
<1>6. grab \in Seq(Frame) /\ accept \in Seq(Frame) /\ stop \in Seq(Frame)
  BY NewFrameType DEF Kinds
<1>7. /\ \/ stack' = stack
         \/ stack' = [stack EXCEPT ![h] = grab]
         \/ stack' = [stack EXCEPT ![h] = accept]
         \/ stack' = [stack EXCEPT ![h] = stop]
      /\ \/ state' = state
         \/ state' = [state EXCEPT ![r] = HUNGRY]
         \/ state' = [state EXCEPT ![r] = EATING]
      /\ lockid' = lockid \/ lockid' = [lockid EXCEPT ![r] = msg.lockid]
      /\ \/ cancellation_sent' = cancellation_sent
         \/ cancellation_sent' = [cancellation_sent EXCEPT ![r] = FALSE]
      /\ UNCHANGED <<forks, counter, phase, meals, up, scatter>>
  BY Zenon DEF MirrorCall
<1> HIDE DEF msg, grab, accept, stop
<1>8. stack' \in [Caller -> Seq(Frame)]
  BY <1>1, <1>6, <1>7
<1>9. state' \in [Replica -> THINKING..EATING]
  <2>1. state \in [Replica -> THINKING..EATING]
    BY DEF TypeOK
  <2> QED BY <1>7, <2>1, PhilosopherUpdates
<1>10. lockid' \in [Replica -> BOOLEAN]
  <2>1. lockid \in [Replica -> BOOLEAN]
    BY DEF TypeOK
  <2> QED BY <1>3, <1>7, <2>1
<1>11. cancellation_sent' \in [Replica -> BOOLEAN]
  <2>1. cancellation_sent \in [Replica -> BOOLEAN]
    BY DEF TypeOK
  <2> QED BY <1>7, <2>1
<1> QED BY <1>5, <1>7, <1>8, <1>9, <1>10, <1>11 DEF TypeOK, forks

LEMMA TypeMasterCall ==
  ASSUME TypeOK, NEW h \in Handler, NEW r \in Replica, NEW i \in DOMAIN up[r], MasterCall(h, r, i)
  PROVE  TypeOK'
<1> DEFINE msg == up[r][i]
           ready == <<NewFrame("signal", MasterOf(r[1]))>>
           c == [NewFrame("cancel", MasterOf(r[1])) EXCEPT !.requestor = r[2],
                                                           !.lockid = msg.lockid]
<1>1. h \in Caller /\ stack \in [Caller -> Seq(Frame)] /\ up \in [Replica -> Seq(Message)]
  BY DEF Caller, TypeOK
<1>2. i \in 1..Len(up[r]) /\ up[r] \in Seq(Message)
  BY <1>1
<1>3. msg \in Message /\ msg.lockid \in BOOLEAN
  <2>1. msg \in Message
    BY <1>2
  <2> HIDE DEF msg
  <2> QED BY <2>1 DEF Message
<1>4. MasterOf(r[1]) \in Replica /\ r[2] \in Proc
  BY ReplicaFacts
<1>5. up' = [up EXCEPT ![r] = Without(up[r], i)]
  BY DEF MasterCall
<1>6. up' \in [Replica -> Seq(Message)]
  BY <1>1, <1>2, <1>5, WithoutType
<1>7. ready \in Seq(Frame) /\ NewFrame("cancel", MasterOf(r[1])) \in Frame
  BY <1>4, NewFrameType DEF Kinds
<1>8. c \in Frame
  <2> HIDE DEF msg
  <2> QED BY <1>3, <1>4, <1>7 DEF Frame
<1>9. stack' = [stack EXCEPT ![h] = IF msg.m = "ready" THEN ready ELSE <<c>>]
  BY Zenon DEF MasterCall
<1> HIDE DEF msg, ready, c
<1>10. <<c>> \in Seq(Frame)
  BY <1>8
<1>11. stack' \in [Caller -> Seq(Frame)]
  BY <1>1, <1>7, <1>9, <1>10
<1> QED BY <1>6, <1>11 DEF MasterCall, TypeOK, forks, phil

LEMMA TypeScatterCall ==
  ASSUME TypeOK, NEW h \in Handler, NEW r \in Replica, ScatterCall(h, r)
  PROVE  TypeOK'
<1>1. h \in Caller /\ NewFrame("stop", r) \in Frame
  BY NewFrameType DEF Caller, Kinds
<1>2. stack' \in [Caller -> Seq(Frame)]
  BY <1>1 DEF ScatterCall, TypeOK
<1>3. scatter' \in [Replica -> {"none", "sent", "running"}]
  BY DEF ScatterCall, TypeOK
<1> QED BY <1>2, <1>3 DEF ScatterCall, TypeOK, forks, phil

LEMMA TypeNext == TypeOK /\ [Next]_vars => TypeOK'
<1> SUFFICES ASSUME TypeOK, [Next]_vars PROVE TypeOK'
  OBVIOUS
<1>1. CASE UNCHANGED vars
  BY <1>1 DEF TypeOK, vars
<1>2. ASSUME NEW v \in Vertex, MakeHungry(v) \/ StopsEating(v) \/ Released(v) PROVE TypeOK'
  BY <1>2, TypeMakeHungry, TypeStopsEating, TypeReleased
<1>3. ASSUME NEW t \in Caller, Step(t) PROVE TypeOK'
  BY <1>3, TypeQuietSteps, TypeGrabEdge, TypeFinishHungry, TypeEnter, TypeSignalReady,
     TypeSetEating, TypeIssueCancellation, TypeCancellationRequest, TypeAcceptBegin,
     TypeAcceptEdge, TypeStopBegin, TypeStopEdge, TypeFinishStop
     DEF Step
<1>4. ASSUME NEW h \in Handler, Receive(h) PROVE TypeOK'
  BY <1>4, TypeMirrorCall, TypeMasterCall, TypeScatterCall DEF Receive
<1>5. CASE Terminating
  BY <1>5, <1>1 DEF Terminating
<1> QED BY <1>1, <1>2, <1>3, <1>4, <1>5 DEF Next

\* Philosophers, forks, threads and calls in flight keep their types through
\* every operation of distributed_chandy_misra.
THEOREM TypeCorrect == Spec => []TypeOK
<1> QED BY TypeInit, TypeNext, PTL DEF Spec

-----------------------------------------------------------------------------
\* forks_acquired is what complete_consistency_check counts.  Only a fork that
\* is handed over changes it, and it does at both ends.

LEMMA OwnedFinite ==
  ASSUME NEW r
  PROVE  IsFiniteSet(Owned(r)) /\ Cardinality(Owned(r)) \in Nat
<1>1. Owned(r) \in SUBSET Edge
  BY DEF Owned, Edges
<1> QED BY <1>1, FS_Subset, FS_CardinalityType, GraphAssumption

LEMMA CountKept ==
  ASSUME ForksCounted, UNCHANGED forks_acquired, \A e \in Edge : fork'[e].owner = fork[e].owner
  PROVE  ForksCounted'
<1>1. \A r \in Replica : Owned(r)' = Owned(r)
  BY DEF Owned, Edges
<1> QED BY <1>1 DEF ForksCounted

LEMMA CountHandOver ==
  ASSUME ForksCounted, TypeOK, NEW e \in Edge, NEW req, HandOver(e, req)
  PROVE  ForksCounted'
<1> DEFINE giver == fork[e].owner
           taker == OtherEnd(e, giver)
           g == <<giver, Home[e]>>
           h == <<taker, Home[e]>>
<1>1. giver \in Ends(e)
  BY DEF TypeOK
<1>2. taker \in Ends(e) /\ taker # giver /\ Ends(e) = {giver, taker}
  BY <1>1, ReplicaFacts
<1>3. g \in Replica /\ h \in Replica /\ g # h /\ e \in Edges(g) /\ e \in Edges(h)
  BY <1>1, <1>2, ReplicaFacts
<1>4. /\ forks_acquired' = [forks_acquired EXCEPT ![g] = @ - 1, ![h] = @ + 1]
      /\ \A d \in Edge : fork'[d].owner = IF d = e THEN taker ELSE fork[d].owner
  <2>1. fork' = [fork EXCEPT ![e] = [owner |-> taker, dirty |-> FALSE, request |-> req]]
        /\ fork \in [Edge -> Fork]
    BY DEF HandOver, TypeOK
  <2>2. forks_acquired' = [forks_acquired EXCEPT ![g] = @ - 1, ![h] = @ + 1]
    BY DEF HandOver
  <2> HIDE DEF taker, g, h
  <2> QED BY <2>1, <2>2
<1>5. forks_acquired \in [Replica -> Int] /\ g[1] = giver /\ h[1] = taker
  BY DEF TypeOK
<1>6. \A d \in Edges(g) \cup Edges(h) : d \in Edge
  BY DEF Edges
<1> SUFFICES ASSUME NEW r \in Replica
             PROVE  forks_acquired'[r] = Cardinality(Owned(r)')
  BY DEF ForksCounted
<1>7. forks_acquired[r] = Cardinality(Owned(r))
  BY DEF ForksCounted
<1>8. CASE r = g
  <2>1. Owned(r)' = Owned(r) \ {e}
    <3> HIDE DEF taker, h
    <3> QED BY <1>2, <1>3, <1>4, <1>5, <1>6, <1>8 DEF Owned
  <2>2. e \in Owned(r)
    BY <1>3, <1>8 DEF Owned
  <2> HIDE DEF giver, taker, g, h
  <2>3. Cardinality(Owned(r)') = Cardinality(Owned(r)) - 1
    BY <2>1, <2>2, OwnedFinite, FS_RemoveElement
  <2> QED BY <1>3, <1>4, <1>5, <1>7, <1>8, <2>3
<1>9. CASE r = h
  <2>1. Owned(r)' = Owned(r) \cup {e}
    <3> HIDE DEF taker, g
    <3> QED BY <1>2, <1>3, <1>4, <1>5, <1>6, <1>9 DEF Owned
  <2>2. e \notin Owned(r)
    BY <1>2, <1>5, <1>9 DEF Owned
  <2> HIDE DEF giver, taker, g, h
  <2>3. Cardinality(Owned(r)') = Cardinality(Owned(r)) + 1
    BY <2>1, <2>2, OwnedFinite, FS_AddElement
  <2> QED BY <1>3, <1>4, <1>5, <1>7, <1>9, <2>3
<1>10. CASE r # g /\ r # h
  <2>1. e \notin Edges(r)
    BY <1>2, <1>10, ReplicaFacts
  <2>2. Owned(r)' = Owned(r)
    BY <1>4, <2>1 DEF Owned, Edges
  <2> HIDE DEF giver, taker, g, h
  <2>3. forks_acquired'[r] = forks_acquired[r]
    BY <1>3, <1>4, <1>5, <1>10
  <2> QED BY <1>7, <2>2, <2>3
<1> QED BY <1>8, <1>9, <1>10

\* What a step of a thread does to the forks.
LEMMA ForkSteps ==
  ASSUME TypeOK, NEW t \in Caller, Step(t)
  PROVE  \/ UNCHANGED forks_acquired /\ \A e \in Edge : fork'[e].owner = fork[e].owner
         \/ \E e \in Edge, req \in SUBSET Vertex : HandOver(e, req)
<1> DEFINE f == Top(t)
           e == Adj[f.at][f.next]
           o == Other(e, f.at)
<1>1. CASE UNCHANGED forks
  BY <1>1 DEF forks
<1>2. CASE GrabEdge(t)
  <2>1. Busy(t) /\ f.next <= num_edges(f.at) /\ f \in Frame
    BY <1>2, TopOfStack DEF GrabEdge, CanLock, TypeOK
  <2>2. e \in Edge /\ o[1] \in Vertex
    BY <2>1, NextEdge
  <2>3. \/ UNCHANGED forks
        \/ HandOver(e, IF state[o] = HUNGRY THEN {o[1]} ELSE {})
        \/ fork' = [fork EXCEPT ![e].request = @ \cup {f.at[1]}] /\ UNCHANGED forks_acquired
    BY <1>2, Zenon DEF GrabEdge
  <2> HIDE DEF f, e, o
  <2>4. CASE fork' = [fork EXCEPT ![e].request = @ \cup {f.at[1]}] /\ UNCHANGED forks_acquired
    <3>1. fork \in [Edge -> Fork]
      BY DEF TypeOK
    <3> QED BY <2>2, <2>4, <3>1 DEF Fork
  <2>5. (IF state[o] = HUNGRY THEN {o[1]} ELSE {}) \in SUBSET Vertex
    BY <2>2
  <2> QED BY <1>1, <2>2, <2>3, <2>4, <2>5
<1>3. CASE AcceptEdge(t) \/ StopEdge(t)
  <2>1. Busy(t) /\ f.next <= num_edges(f.at) /\ f \in Frame
    BY <1>3, TopOfStack DEF AcceptEdge, StopEdge, CanLock, TypeOK
  <2>2. e \in Edge /\ f.at[1] \in Vertex
    BY <2>1, NextEdge
  <2>3. HandOver(e, {f.at[1]}) \/ HandOver(e, {}) \/ UNCHANGED forks
    BY <1>3, Zenon DEF AcceptEdge, StopEdge
  <2> HIDE DEF f, e
  <2>4. {f.at[1]} \in SUBSET Vertex /\ {} \in SUBSET Vertex
    BY <2>2
  <2> QED BY <1>1, <2>2, <2>3, <2>4
<1>4. CASE StopBegin(t)
  <2>1. fork' = Dirtied(f.at) /\ UNCHANGED forks_acquired
    BY <1>4 DEF StopBegin
  <2>2. \A d \in Edge : fork[d] \in Fork
    BY DEF TypeOK
  <2>3. \A x \in Fork : [x EXCEPT !.dirty = TRUE].owner = x.owner
    BY DEF Fork
  <2> HIDE DEF f
  <2> QED BY <2>1, <2>2, <2>3 DEF Dirtied
<1>5. CASE \/ GrabBegin(t) \/ Relock(t) \/ FinishHungry(t) \/ Backoff(t) \/ Enter(t)
           \/ SignalReady(t) \/ SetEating(t) \/ IssueCancellation(t)
           \/ CancellationRequest(t) \/ AcceptBegin(t) \/ FinishStop(t)
  <2>1. UNCHANGED forks
    BY <1>5, Zenon DEF GrabBegin, Relock, FinishHungry, Backoff, Enter, SignalReady, SetEating,
       IssueCancellation, CancellationRequest, AcceptBegin, FinishStop
  <2> QED BY <1>1, <2>1
<1> QED BY <1>2, <1>3, <1>4, <1>5 DEF Step

LEMMA CountInit == Init => ForksCounted
<1> SUFFICES ASSUME Init PROVE ForksCounted
  OBVIOUS
<1>1. \A r \in Replica : Owned(r) = {e \in Edges(r) : InitialOwner(e) = r[1]}
  BY DEF Init, Owned, Edges
<1> QED BY <1>1 DEF Init, ForksCounted

LEMMA CountNext == TypeOK /\ ForksCounted /\ [Next]_vars => ForksCounted'
<1> SUFFICES ASSUME TypeOK, ForksCounted, [Next]_vars PROVE ForksCounted'
  OBVIOUS
<1>1. CASE UNCHANGED forks
  BY <1>1, CountKept DEF forks
<1>2. ASSUME NEW t \in Caller, Step(t) PROVE ForksCounted'
  BY <1>2, ForkSteps, CountKept, CountHandOver
<1>3. ASSUME NEW v \in Vertex, MakeHungry(v) \/ StopsEating(v) \/ Released(v)
      PROVE  UNCHANGED forks
  BY <1>3, Zenon DEF MakeHungry, StopsEating, Released
<1>4. ASSUME NEW h \in Handler, Receive(h) PROVE UNCHANGED forks
  BY <1>4, Zenon DEF Receive, MirrorCall, MasterCall, ScatterCall
<1>5. CASE UNCHANGED vars
  BY <1>1, <1>5 DEF vars, forks
<1> QED BY <1>1, <1>2, <1>3, <1>4, <1>5 DEF Next, Terminating

\* In every reachable state, also while threads are in the middle of an
\* operation, forks_acquired of each replica is the number of local forks it
\* owns: the count that decides when a philosopher may go to the table.
THEOREM ForkCountCorrect == Spec => []ForksCounted
<1> QED BY CountInit, CountNext, TypeCorrect, PTL DEF Spec

=============================================================================

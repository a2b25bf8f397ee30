----------------------------- MODULE RpcBarriers -----------------------------
(* The collective operations of a distributed object (rpc/dc_dist_object.hpp): *)
(* the tree barrier, all_gather, which is the same tree carrying data, and     *)
(* full_barrier, which exchanges the numbers of calls sent, waits until that   *)
(* many have been executed, and ends in a tree barrier.                        *)
(*                                                                             *)
(* Every process has one main thread, which sends calls and enters             *)
(* full_barrier, and handlers, which execute calls.  A control call (trigger,  *)
(* release) changes state under one mutex, hence in one step; the counting of  *)
(* an ordinary call, in inc_calls_received, takes no lock until its end and is *)
(* cut into its reads and writes.  Calls arrive in any order.                  *)
EXTENDS BarrierTree

CONSTANTS
  Handlers,       \* the handlers of a process
  Rounds,         \* bound: full barriers that the program makes
  MaxSends        \* bound: MaxSends[p][d] calls of p to d in all

VARIABLES
  main,                       \* the main thread: where it is, and its locals
  sleeping,                   \* the condition variable it sleeps on, or "none"
  barrier_sense, barrier_release, child_barrier_counter,
  children_data, alldata,     \* of all_gather
  control,                    \* control calls sent and not yet executed
  callssent, arriving, callsreceived,
  handler,                    \* what each handler is doing
  calls_to_receive, num_proc_recvs_incomplete, procs_complete,
  full_barrier_in_effect,
  all_calls_sent,             \* result of all_gather
  entered, executed           \* history: callssent at each entry of full_barrier,
                              \* calls executed

treeVars == <<barrier_sense, barrier_release, child_barrier_counter, children_data,
              alldata, control>>
callVars == <<callssent, arriving>>
countVars == <<callsreceived, handler>>
fullVars == <<calls_to_receive, num_proc_recvs_incomplete, procs_complete,
              full_barrier_in_effect>>
barrierVars == <<main, sleeping, treeVars, callVars, countVars, fullVars,
                 all_calls_sent, entered, executed>>

Tree == {"gather", "plain"}
-----------------------------------------------------------------------------
CollectiveInit ==
  /\ main = [p \in Proc |-> [pc |-> "user", tree |-> "gather", val |-> 1, next |-> 0]]
  /\ sleeping = [p \in Proc |-> "none"]
  /\ barrier_sense = [b \in Tree |-> [p \in Proc |-> 1]]
  /\ barrier_release = [b \in Tree |-> [p \in Proc |-> -1]]
  /\ child_barrier_counter = [b \in Tree |-> [p \in Proc |-> 0]]
  /\ children_data = [p \in Proc |-> [c \in children(p) |-> <<>>]]
  /\ alldata = [p \in Proc |-> <<>>]
  /\ control = {}
  /\ callssent = [p \in Proc |-> [d \in Proc |-> 0]]
  /\ arriving = [p \in Proc |-> [d \in Proc |-> 0]]
  /\ callsreceived = [d \in Proc |-> [p \in Proc |-> 0]]
  /\ handler = [d \in Proc |-> [h \in Handlers |-> [pc |-> "idle", src |-> 0, t |-> 0]]]
  /\ calls_to_receive = [d \in Proc |-> [p \in Proc |-> 0]]
  /\ num_proc_recvs_incomplete = [d \in Proc |-> 0]
  /\ procs_complete = [d \in Proc |-> {}]
  /\ full_barrier_in_effect = [d \in Proc |-> FALSE]
  /\ all_calls_sent = [p \in Proc |-> <<>>]
  /\ entered = [p \in Proc |-> <<>>]
  /\ executed = [p \in Proc |-> [d \in Proc |-> 0]]

At(p, where) == main[p].pc = where /\ sleeping[p] = "none"
Goto(p, where) == main' = [main EXCEPT ![p].pc = where]

(* The waiter of a condition variable; a process has one for each.             *)
Sleep(p, cond) == sleeping' = [sleeping EXCEPT ![p] = cond]
Signal(p, cond) == sleeping' = [sleeping EXCEPT ![p] = IF @ = cond THEN "none" ELSE @]
-----------------------------------------------------------------------------
(* The main thread: ordinary calls, and the entry of full_barrier.             *)

SendCall(p, d) ==
  /\ At(p, "user")
  /\ callssent[p][d] < MaxSends[p][d]
  /\ callssent' = [callssent EXCEPT ![p][d] = @ + 1]
  /\ arriving' = [arriving EXCEPT ![p][d] = @ + 1]
  /\ UNCHANGED <<main, sleeping, treeVars, countVars, fullVars, all_calls_sent, entered, executed>>

full_barrier(p) ==
  /\ At(p, "user")
  /\ Len(entered[p]) < Rounds
  /\ entered' = [entered EXCEPT ![p] = Append(@, callssent[p])]
  /\ main' = [main EXCEPT ![p] = [pc |-> "up", tree |-> "gather",
                                  val |-> barrier_sense["gather"][p], next |-> 0]]
  /\ UNCHANGED <<sleeping, treeVars, callVars, countVars, fullVars, all_calls_sent, executed>>
-----------------------------------------------------------------------------
(* barrier and all_gather.                                                     *)

(* Faulty variant: every process expects as many children as an inner node.     *)
FullNodesChildrenIn(p, b) ==
  \/ barrier_sense[b][p] = -1 /\ child_barrier_counter[b][p] = 0
  \/ barrier_sense[b][p] = 1 /\ child_barrier_counter[b][p] = BranchFactor

ChildrenIn(p, b) ==
  \/ barrier_sense[b][p] = -1 /\ child_barrier_counter[b][p] = 0
  \/ barrier_sense[b][p] = 1 /\ child_barrier_counter[b][p] = Cardinality(children(p))

(* Phase 1 under the mutex: flip the sense once all children are in.           *)
AwaitChildren(p) ==
  LET b == main[p].tree
  IN  /\ At(p, "up")
      /\ \/ /\ ChildrenIn(p, b)
            /\ barrier_sense' = [barrier_sense EXCEPT ![b][p] = -@]
            /\ Goto(p, "inform")
            /\ UNCHANGED sleeping
         \/ /\ ~ChildrenIn(p, b)
            /\ Sleep(p, b)
            /\ UNCHANGED <<main, barrier_sense>>
      /\ UNCHANGED <<barrier_release, child_barrier_counter, children_data, alldata,
                     control, callVars, countVars, fullVars, all_calls_sent, entered, executed>>

Release(b, p, val, data) ==
  {[type |-> "release", tree |-> b, to |-> c, val |-> val, data |-> data] : c \in children(p)}

(* Then, without it: tell the parent, or, at the root, release everybody.      *)
Inform(p) ==
  LET b == main[p].tree
      data == IF b = "gather"
                THEN <<entered[p][Len(entered[p])]>> \o ChildData(p, children_data[p])
                ELSE <<>>
  IN  /\ At(p, "inform")
      /\ \/ /\ p /= 0
            /\ control' = control \cup
                 {[type |-> "trigger", tree |-> b, to |-> parent(p), from |-> p, data |-> data]}
            /\ UNCHANGED <<barrier_release, alldata>>
         \/ /\ p = 0
            /\ barrier_release' = [barrier_release EXCEPT ![b][0] = main[0].val]
            /\ alldata' = IF b = "gather" THEN [alldata EXCEPT ![0] = data] ELSE alldata
            /\ control' = control \cup Release(b, 0, main[0].val, data)
      /\ Goto(p, "down")
      /\ UNCHANGED <<sleeping, barrier_sense, child_barrier_counter, children_data,
                     callVars, countVars, fullVars, all_calls_sent, entered, executed>>

(* Phase 2 under the mutex: leave when the release has come.                   *)
AwaitRelease(p) ==
  LET b == main[p].tree
      released == barrier_release[b][p] = main[p].val
  IN  /\ At(p, "down")
      /\ \/ /\ ~released
            /\ Sleep(p, b)
            /\ UNCHANGED <<main, all_calls_sent>>
         \/ /\ released /\ b = "gather"
            /\ all_calls_sent' = [all_calls_sent EXCEPT ![p] =
                 [q \in Proc |-> alldata[p][CHOOSE i \in 1..NumProcs : heappos[i] = q]]]
            /\ Goto(p, "expect")
            /\ UNCHANGED sleeping
         \/ /\ released /\ b = "plain"
            /\ Goto(p, "user")
            /\ UNCHANGED <<sleeping, all_calls_sent>>
      /\ UNCHANGED <<treeVars, callVars, countVars, fullVars, entered, executed>>

CountedUp(b, p) == child_barrier_counter[b][p] + 1

Counted(b, p) == child_barrier_counter[b][p] + barrier_sense[b][p]

__child_to_parent_barrier_trigger(m) ==
  /\ m \in control /\ m.type = "trigger"
  /\ control' = control \ {m}
  /\ child_barrier_counter' =
       [child_barrier_counter EXCEPT ![m.tree][m.to] = Counted(m.tree, m.to)]
  /\ children_data' = IF m.tree = "gather"
                        THEN [children_data EXCEPT ![m.to][m.from] = m.data]
                        ELSE children_data
  /\ Signal(m.to, m.tree)
  /\ UNCHANGED <<main, barrier_sense, barrier_release, alldata, callVars, countVars,
                 fullVars, all_calls_sent, entered, executed>>

(* The release is first sent on to the children ...                            *)
__parent_to_child_barrier_release(m) ==
  /\ m \in control /\ m.type = "release"
  /\ alldata' = IF m.tree = "gather" THEN [alldata EXCEPT ![m.to] = m.data] ELSE alldata
  /\ control' = (control \ {m}) \cup Release(m.tree, m.to, m.val, m.data)
                  \cup {[type |-> "released", tree |-> m.tree, to |-> m.to, val |-> m.val]}
  /\ UNCHANGED <<main, sleeping, barrier_sense, barrier_release, child_barrier_counter,
                 children_data, callVars, countVars, fullVars, all_calls_sent, entered, executed>>

(* ... and then takes effect under the mutex.                                  *)
SetRelease(m) ==
  /\ m \in control /\ m.type = "released"
  /\ control' = control \ {m}
  /\ barrier_release' = [barrier_release EXCEPT ![m.tree][m.to] = m.val]
  /\ Signal(m.to, m.tree)
  /\ UNCHANGED <<main, barrier_sense, child_barrier_counter, children_data, alldata,
                 callVars, countVars, fullVars, all_calls_sent, entered, executed>>
-----------------------------------------------------------------------------
(* The middle of full_barrier, at the main thread.                             *)

(* calls_to_receive is emptied, then filled from what was gathered.            *)
Expect(p) ==
  /\ \/ /\ At(p, "expect")
        /\ calls_to_receive' = [calls_to_receive EXCEPT ![p] = [q \in Proc |-> 0]]
        /\ Goto(p, "fill")
     \/ /\ At(p, "fill")
        /\ calls_to_receive' =
             [calls_to_receive EXCEPT ![p] = [q \in Proc |-> all_calls_sent[p][q][p]]]
        /\ Goto(p, "number")
  /\ UNCHANGED <<sleeping, treeVars, callVars, countVars, num_proc_recvs_incomplete,
                 procs_complete, full_barrier_in_effect, all_calls_sent, entered, executed>>

ResetIncomplete(p) ==
  /\ At(p, "number")
  /\ num_proc_recvs_incomplete' = [num_proc_recvs_incomplete EXCEPT ![p] = NumProcs]
  /\ Goto(p, "clear")
  /\ UNCHANGED <<sleeping, treeVars, callVars, countVars, calls_to_receive,
                 procs_complete, full_barrier_in_effect, all_calls_sent, entered, executed>>


Cleared(p) == {}

ClearComplete(p) ==
  /\ At(p, "clear")
  /\ procs_complete' = [procs_complete EXCEPT ![p] = Cleared(p)]
  /\ Goto(p, "activate")
  /\ UNCHANGED <<sleeping, treeVars, callVars, countVars, calls_to_receive,
                 num_proc_recvs_incomplete, full_barrier_in_effect, all_calls_sent, entered, executed>>

Activate(p) ==
  /\ At(p, "activate")
  /\ full_barrier_in_effect' = [full_barrier_in_effect EXCEPT ![p] = TRUE]
  /\ Goto(p, "scan")
  /\ UNCHANGED <<sleeping, treeVars, callVars, countVars, calls_to_receive,
                 num_proc_recvs_incomplete, procs_complete, all_calls_sent, entered, executed>>

AllButOneReceived(p, q) == callsreceived[p][q] + 1 >= calls_to_receive[p][q]

AllReceived(p, q) == callsreceived[p][q] >= calls_to_receive[p][q]

(* One pass over the processes for those whose calls have all come.            *)
Scan(p) ==
  LET q == main[p].next
      first == AllReceived(p, q) /\ q \notin procs_complete[p]
  IN  /\ At(p, "scan")
      /\ procs_complete' = [procs_complete EXCEPT ![p] = IF first THEN @ \cup {q} ELSE @]
      /\ num_proc_recvs_incomplete' =
           [num_proc_recvs_incomplete EXCEPT ![p] = IF first THEN @ - 1 ELSE @]
      /\ main' = IF q + 1 = NumProcs THEN [main EXCEPT ![p].pc = "wait"]
                                     ELSE [main EXCEPT ![p].next = q + 1]
      /\ UNCHANGED <<sleeping, treeVars, callVars, countVars, calls_to_receive,
                     full_barrier_in_effect, all_calls_sent, entered, executed>>

AwaitCalls(p) ==
  /\ At(p, "wait")
  /\ \/ /\ num_proc_recvs_incomplete[p] > 0
        /\ Sleep(p, "full")
        /\ UNCHANGED main
     \/ /\ num_proc_recvs_incomplete[p] <= 0
        /\ Goto(p, "complete")
        /\ UNCHANGED sleeping
  /\ UNCHANGED <<treeVars, callVars, countVars, fullVars, all_calls_sent, entered, executed>>

(* All calls are in: switch the counting off and meet at the tree barrier.     *)
Deactivate(p) ==
  /\ At(p, "complete")
  /\ full_barrier_in_effect' = [full_barrier_in_effect EXCEPT ![p] = FALSE]
  /\ main' = [main EXCEPT ![p] = [pc |-> "up", tree |-> "plain",
                                  val |-> barrier_sense["plain"][p], next |-> 0]]
  /\ UNCHANGED <<sleeping, treeVars, callVars, countVars, calls_to_receive,
                 num_proc_recvs_incomplete, procs_complete, all_calls_sent, entered, executed>>
-----------------------------------------------------------------------------
(* A handler: the call is taken, executed, and then counted.                   *)

Step(d, h, from, to) ==
  /\ handler[d][h].pc = from
  /\ handler' = [handler EXCEPT ![d][h].pc = to]

TakeCall(p, d, h) ==
  /\ handler[d][h].pc = "idle"
  /\ arriving[p][d] > 0
  /\ arriving' = [arriving EXCEPT ![p][d] = @ - 1]
  /\ handler' = [handler EXCEPT ![d][h] = [pc |-> "run", src |-> p, t |-> 0]]
  /\ UNCHANGED <<main, sleeping, treeVars, callssent, callsreceived, fullVars,
                 all_calls_sent, entered, executed>>

RunCall(d, h) ==
  /\ Step(d, h, "run", "look")
  /\ executed' = [executed EXCEPT ![handler[d][h].src][d] = @ + 1]
  /\ UNCHANGED <<main, sleeping, treeVars, callVars, callsreceived, fullVars,
                 all_calls_sent, entered>>

LookInEffect(d, h) ==
  /\ Step(d, h, "look", IF full_barrier_in_effect[d] THEN "count" ELSE "count_quietly")
  /\ UNCHANGED <<main, sleeping, treeVars, callVars, callsreceived, fullVars,
                 all_calls_sent, entered, executed>>

IncReceived(d, h) ==
  LET q == handler[d][h].src
      t == callsreceived[d][q] + 1
  IN  /\ handler[d][h].pc \in {"count", "count_quietly"}
      /\ callsreceived' = [callsreceived EXCEPT ![d][q] = t]
      /\ handler' = [handler EXCEPT ![d][h] =
           [pc |-> IF @.pc = "count" THEN "compare" ELSE "look_again", src |-> q, t |-> t]]
      /\ UNCHANGED <<main, sleeping, treeVars, callVars, fullVars, all_calls_sent, entered, executed>>

LookAgain(d, h) ==
  /\ Step(d, h, "look_again", IF full_barrier_in_effect[d] THEN "compare" ELSE "idle")
  /\ UNCHANGED <<main, sleeping, treeVars, callVars, callsreceived, fullVars,
                 all_calls_sent, entered, executed>>

Compare(d, h) ==
  /\ Step(d, h, "compare",
          IF handler[d][h].t = calls_to_receive[d][handler[d][h].src] THEN "set_bit" ELSE "idle")
  /\ UNCHANGED <<main, sleeping, treeVars, callVars, callsreceived, fullVars,
                 all_calls_sent, entered, executed>>

(* procs_complete.set_bit returned that the bit was not set before.            *)
FirstToMark(d, q) == q \notin procs_complete[d]

SetBit(d, h) ==
  LET q == handler[d][h].src
  IN  /\ Step(d, h, "set_bit", IF FirstToMark(d, q) THEN "decrement" ELSE "idle")
      /\ procs_complete' = [procs_complete EXCEPT ![d] = @ \cup {q}]
      /\ UNCHANGED <<main, sleeping, treeVars, callVars, callsreceived, calls_to_receive,
                     num_proc_recvs_incomplete, full_barrier_in_effect, all_calls_sent, entered, executed>>

LastIncomplete(d) == num_proc_recvs_incomplete[d] = 1

Decrement(d, h) ==
  /\ Step(d, h, "decrement", "idle")
  /\ num_proc_recvs_incomplete' = [num_proc_recvs_incomplete EXCEPT ![d] = @ - 1]
  /\ IF LastIncomplete(d) THEN Signal(d, "full") ELSE UNCHANGED sleeping
  /\ UNCHANGED <<main, treeVars, callVars, callsreceived, calls_to_receive,
                 procs_complete, full_barrier_in_effect, all_calls_sent, entered, executed>>
-----------------------------------------------------------------------------
MainStep(p) ==
  \/ AwaitChildren(p) \/ Inform(p) \/ AwaitRelease(p)
  \/ Expect(p) \/ ResetIncomplete(p) \/ ClearComplete(p) \/ Activate(p)
  \/ Scan(p) \/ AwaitCalls(p) \/ Deactivate(p)

ControlStep ==
  \E m \in control :
    \/ __child_to_parent_barrier_trigger(m)
    \/ __parent_to_child_barrier_release(m)
    \/ SetRelease(m)

HandlerStep(d, h) ==
  \/ \E p \in Proc : TakeCall(p, d, h)
  \/ RunCall(d, h) \/ LookInEffect(d, h) \/ IncReceived(d, h) \/ LookAgain(d, h)
  \/ Compare(d, h) \/ SetBit(d, h) \/ Decrement(d, h)

BarriersDone ==
  /\ \A p \in Proc : main[p].pc = "user" /\ Len(entered[p]) = Rounds
  /\ \A d \in Proc : \A h \in Handlers : handler[d][h].pc = "idle"
  /\ executed = callssent

CollectiveNext ==
  \/ \E p \in Proc : MainStep(p) \/ full_barrier(p)
  \/ \E p, d \in Proc : SendCall(p, d)
  \/ ControlStep
  \/ \E d \in Proc, h \in Handlers : HandlerStep(d, h)

CollectiveSpec == CollectiveInit /\ [][CollectiveNext]_barrierVars
-----------------------------------------------------------------------------
CallCount == [Proc -> Nat]

(* The variables keep their types.  num_proc_recvs_incomplete, unsigned in the *)
(* code, never goes below zero although handlers and the main thread both      *)
(* decrement it, and the counter that one barrier counts up and the next one   *)
(* down stays between 0 and the number of children: a child that is already in *)
(* the next barrier never counts in the wrong direction.                       *)
CollectiveTypeOK ==
  /\ \A p \in Proc :
       /\ main[p].pc \in {"user", "up", "inform", "down", "expect", "fill", "number", "clear",
                         "activate", "scan", "wait", "complete"}
       /\ main[p].tree \in Tree /\ main[p].val \in {1, -1} /\ main[p].next \in Proc
       /\ sleeping[p] \in {"none", "gather", "plain", "full"}
       /\ children_data[p] \in [children(p) -> Seq(CallCount)]
  /\ barrier_sense \in [Tree -> [Proc -> {1, -1}]]
  /\ barrier_release \in [Tree -> [Proc -> {1, -1}]]
  /\ \A b \in Tree, p \in Proc : child_barrier_counter[b][p] \in 0..Cardinality(children(p))
  /\ alldata \in [Proc -> Seq(CallCount)]
  /\ callssent \in [Proc -> CallCount] /\ arriving \in [Proc -> CallCount]
  /\ callsreceived \in [Proc -> CallCount] /\ calls_to_receive \in [Proc -> CallCount]
  /\ num_proc_recvs_incomplete \in [Proc -> 0..NumProcs]
  /\ procs_complete \in [Proc -> SUBSET Proc]
  /\ full_barrier_in_effect \in [Proc -> BOOLEAN]

(* all_gather hands every process what every process put in, in this round and *)
(* at the right index: no late or early message of another round mixes in.     *)
(* While full_barrier then counts, num_proc_recvs_incomplete is the number of  *)
(* processes not marked complete, plus the handlers that have marked one and   *)
(* not yet decremented: handlers left over from an earlier barrier included.   *)
GatherExact ==
  \A p \in Proc :
    /\ main[p].pc \in {"expect", "fill"} =>
         \A q \in Proc : all_calls_sent[p][q] = entered[q][Len(entered[p])]
    /\ main[p].pc \in {"activate", "scan", "wait", "complete"} =>
         num_proc_recvs_incomplete[p] = Cardinality(Proc \ procs_complete[p])
           + Cardinality({h \in Handlers : handler[p][h].pc = "decrement"})

Abstract == INSTANCE FullBarrier WITH
  Process <- Proc,
  issued <- callssent,
  entries <- entered,
  returns <- [p \in Proc |-> IF main[p].pc = "user" THEN Len(entered[p]) ELSE Len(entered[p]) - 1]

(* The comment of full_barrier, "ensures globally across all machines that all *)
(* calls issued prior to this barrier are completed before returning", as a    *)
(* refinement of FullBarrier.                                                  *)
ImplementsFullBarrier == Abstract!FBInit /\ [][Abstract!FBNext]_(Abstract!fbVars)
=============================================================================

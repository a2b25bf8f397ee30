----------------------------- MODULE BarrierTree -----------------------------
(* The tree of the collective operations (rpc/dc_dist_object.hpp): a heap over  *)
(* the processes, the order in which all_gather packs data on the way up, and   *)
(* the walk by which it unpacks them.                                          *)
EXTENDS Integers, Sequences, FiniteSets

CONSTANTS
  NumProcs,       \* numprocs()
  BranchFactor    \* BARRIER_BRANCH_FACTOR

Proc == 0..(NumProcs - 1)

childbase(p) == p * BranchFactor + 1
children(p) == {c \in Proc : childbase(p) <= c /\ c < childbase(p) + BranchFactor}
parent(p) == (p - 1) \div BranchFactor

(* Faulty variant: the last level is taken to be complete.                     *)
NotRightBranch(p) == (p - 1) % BranchFactor /= BranchFactor - 1

HasSibling(p) == (p - 1) % BranchFactor /= BranchFactor - 1 /\ p + 1 < NumProcs

(* Where the unpacking goes from a process with no child left to visit: to its *)
(* sibling, or up.                                                             *)
climb[p \in Proc] ==
  IF p = 0 THEN 0 ELSE IF HasSibling(p) THEN p + 1 ELSE climb[parent(p)]

advance(p) == IF childbase(p) < NumProcs THEN childbase(p) ELSE climb[p]

heappos[i \in 1..NumProcs] == IF i = 1 THEN 0 ELSE advance(heappos[i - 1])

(* A process sends its own data followed by what its children sent it.         *)
ChildData(p, data) ==
  LET numchild == Cardinality(children(p))
      packed[i \in 0..numchild] ==
        IF i = 0 THEN <<>> ELSE packed[i - 1] \o data[childbase(p) + i - 1]
  IN  packed[numchild]

(* The order in which the data of the processes reach the root.                *)
PackingOrder ==
  LET sent[p \in Proc] == <<p>> \o ChildData(p, [c \in children(p) |-> sent[c]])
  IN  sent[0]

(* all_gather unpacks the data in the order in which they were packed, so that *)
(* each piece gets the index of the process it is from.                        *)
WalkFollowsPacking == \A i \in 1..NumProcs : PackingOrder[i] = heappos[i]
=============================================================================

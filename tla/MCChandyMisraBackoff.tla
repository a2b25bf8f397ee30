-------------------------- MODULE MCChandyMisraBackoff --------------------------
(* Vertices 1 and 2 share an edge on each of two processes; on process A     *)
(* vertex 2 has a second neighbour, 3.  All masters are on A.  A thread that *)
(* works for 2 on A backs off from the lock of 1, and while it has let go    *)
(* of the lock of 2 the thread of 3 may find 2 complete.                     *)
EXTENDS DistributedChandyMisra, TLC

CONSTANTS A, B, hA, hB

MCProc == {A, B}
MCVertex == 1..3
MCEdge == 1..3
MCSource == <<1, 2, 1>>
MCTarget == <<2, 3, 2>>
MCHome == <<A, A, B>>
MCMaster == <<A, A, A>>
MCAdj == (<<1, A>> :> <<1>>) @@ (<<2, A>> :> <<1, 2>>) @@ (<<3, A>> :> <<2>>)
         @@ (<<1, B>> :> <<3>>) @@ (<<2, B>> :> <<3>>)
MCHandler == {hA, hB}
MCHandlerProc == (hA :> A) @@ (hB :> B)
MCMaxMeals == <<1, 2, 1>>
=============================================================================

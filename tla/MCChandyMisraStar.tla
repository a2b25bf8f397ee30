--------------------------- MODULE MCChandyMisraStar ---------------------------
(* Vertex 1 has its master on process A, where it has an edge to vertex 3,   *)
(* and a mirror on process B, where it has an edge to vertex 2.  Vertices 1  *)
(* and 2 compete for the edge on B; vertex 3 never runs.                     *)
EXTENDS DistributedChandyMisra, TLC

CONSTANTS A, B, hA, hB

MCProc == {A, B}
MCVertex == 1..3
MCEdge == 1..2
MCSource == <<1, 1>>
MCTarget == <<2, 3>>
MCHome == <<B, A>>
MCMaster == <<A, B, A>>
MCAdj == (<<1, A>> :> <<2>>) @@ (<<3, A>> :> <<2>>) @@ (<<1, B>> :> <<1>>) @@ (<<2, B>> :> <<1>>)
MCHandler == {hA, hB}
MCHandlerProc == (hA :> A) @@ (hB :> B)
MCMaxMeals == <<2, 1, 0>>
=============================================================================

--------------------------- MODULE MCChandyMisraTwo ---------------------------
(* Two vertices joined by an edge on each of two processes.                  *)
EXTENDS DistributedChandyMisra, TLC

CONSTANTS A, B, hA, hB

MCProc == {A, B}
MCVertex == {1, 2}
MCEdge == {1, 2}
MCSource == <<1, 2>>
MCTarget == <<2, 1>>
MCHome == <<A, B>>
MCMaster == <<A, B>>
MCAdj == (<<1, A>> :> <<1>>) @@ (<<2, A>> :> <<1>>) @@ (<<1, B>> :> <<2>>) @@ (<<2, B>> :> <<2>>)
MCHandler == {hA, hB}
MCHandlerProc == (hA :> A) @@ (hB :> B)
MCMaxMeals == <<2, 2>>
MCFewMeals == <<1, 2>>
=============================================================================

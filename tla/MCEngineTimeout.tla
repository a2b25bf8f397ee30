--------------------------- MODULE MCEngineTimeout ---------------------------
(* Vertex 1 on one machine has edges to vertices 2 and 3, which the other owns; *)
(* the engine has a timeout.                                                   *)
EXTENDS AsyncEngine

MCMaster == <<1, 2, 2>>
MCLocalEdges == <<{{1, 2}, {1, 3}}, {}>>
MCPlace == [a \in EngineAgent |-> IF a \in {"f1", "h1"} THEN 1 ELSE 2]
MCCpu == [f \in EngineFiber |-> 0]
=============================================================================

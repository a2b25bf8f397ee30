--------------------------- MODULE MCAsyncConsensus ---------------------------
(* Two or three processes with one handler each; process 1 may have two       *)
(* threads.  A run starts with one task at process 1.                        *)
EXTENDS AsyncConsensus, TLC

CONSTANTS t0, t1, u1, t2, h0, h1, h2

MCAt == [a \in Agent |-> CASE a \in {t0, h0} -> 0
                           [] a \in {t1, u1, h1} -> 1
                           [] OTHER -> 2]
MCTaskAt1 == [p \in Proc |-> IF p = 1 THEN 1 ELSE 0]
MCNoCalls == [p \in Proc |-> 0]
MCOneCall == [p \in Proc |-> 1]
=============================================================================

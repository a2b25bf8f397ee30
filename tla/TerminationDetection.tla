------------------------- MODULE TerminationDetection -------------------------
(***************************************************************************)
(* What async_consensus promises its users: in every run consensus is       *)
(* reached only when the computation is over, a computation that is over    *)
(* does not start again by itself, and consensus is then reached.           *)
(***************************************************************************)
VARIABLES busy,     \* something is left that could create work
          detected  \* some process has found that the run is over

Init == busy \in BOOLEAN /\ detected = FALSE

Compute == busy /\ ~detected /\ busy' \in BOOLEAN /\ UNCHANGED detected
Detect == ~busy /\ ~detected /\ detected' = TRUE /\ UNCHANGED busy
NewRun == detected /\ detected' = FALSE /\ busy' \in BOOLEAN

Next == Compute \/ Detect \/ NewRun
Spec == Init /\ [][Next]_<<busy, detected>> /\ WF_<<busy, detected>>(Detect)
=============================================================================

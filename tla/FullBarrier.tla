----------------------------- MODULE FullBarrier -----------------------------
(* What full_barrier promises its callers: nobody returns from a barrier that  *)
(* somebody has not entered yet, nor while a call that was issued by a process *)
(* before it entered is not executed.                                          *)
EXTENDS Naturals, Sequences

CONSTANT Process

VARIABLES
  issued,     \* issued[p][d]: calls p has sent to d
  executed,   \* executed[p][d]: how many of them have been executed
  entries,    \* entries[p]: issued[p] at each of p's entries
  returns     \* returns[p]: barriers p has returned from

fbVars == <<issued, executed, entries, returns>>

FBInit ==
  /\ issued = [p \in Process |-> [d \in Process |-> 0]]
  /\ executed = [p \in Process |-> [d \in Process |-> 0]]
  /\ entries = [p \in Process |-> <<>>]
  /\ returns = [p \in Process |-> 0]

Outside(p) == returns[p] = Len(entries[p])

Issue(p, d) ==
  /\ Outside(p)
  /\ issued' = [issued EXCEPT ![p][d] = @ + 1]
  /\ UNCHANGED <<executed, entries, returns>>

Execute(p, d) ==
  /\ executed[p][d] < issued[p][d]
  /\ executed' = [executed EXCEPT ![p][d] = @ + 1]
  /\ UNCHANGED <<issued, entries, returns>>

Enter(p) ==
  /\ Outside(p)
  /\ entries' = [entries EXCEPT ![p] = Append(@, issued[p])]
  /\ UNCHANGED <<issued, executed, returns>>

Return(p) ==
  LET r == returns[p] + 1
  IN  /\ ~Outside(p)
      /\ \A q \in Process : Len(entries[q]) >= r
      /\ \A q, d \in Process : executed[q][d] >= entries[q][r][d]
      /\ returns' = [returns EXCEPT ![p] = r]
      /\ UNCHANGED <<issued, executed, entries>>

FBNext ==
  \/ \E p \in Process : Enter(p) \/ Return(p)
  \/ \E p, d \in Process : Issue(p, d) \/ Execute(p, d)

FBSpec == FBInit /\ [][FBNext]_fbVars
=============================================================================

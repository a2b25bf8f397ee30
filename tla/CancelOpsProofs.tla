--------------------------- MODULE CancelOpsProofs ---------------------------
(* Theorems about CancelOps, for any number of commands, signals, pings and     *)
(* checks, whatever is late or given up.                                        *)
EXTENDS CancelOps, TLAPS

Busy == {"send", "wait", "check", "reset"}
Verdict == {"none", "true", "false"}

(* The shape of the state.                                                      *)
CancelShape ==
  /\ caller \in [pc : Busy \cup {"idle"}, cmd : 0..MaxCommands, reply : Verdict]
  /\ running_command \in Nat /\ cancelled_command \in Nat
  /\ commands \in Seq(Command) /\ interrupts \in Seq(Nat)
  /\ srv \in [pc : {"idle", "execute", "reset"}, cmd : Nat, checks : Nat, cancel : Verdict]
  /\ srv_running_command \in Nat \cup {Cancelled}
  /\ \A rep \in replies : rep \in [cmd : Nat, cancel : Verdict]
  /\ interrupted \subseteq Command /\ raised \subseteq Command

(* The client: the running command is the caller's; the handler runs only while *)
(* the caller is caught; what was cancelled, and what a ping carries, was       *)
(* interrupted.                                                                 *)
ClientInv ==
  /\ caller.pc = "idle" => running_command = 0
  /\ caller.pc \in Busy => running_command = caller.cmd /\ caller.cmd \in Command
  /\ handler_at = "store" => caller.pc \in {"send", "wait"}
  /\ cancelled_command \in interrupted \cup {0}
  /\ \A i \in 1..Len(interrupts) : interrupts[i] \in interrupted \cup {0}
  /\ raised \subseteq interrupted

(* The server: the running command is the one it executes, or it is marked.     *)
ServerInv ==
  /\ srv_running_command \in {0, srv.cmd, Cancelled}
  /\ srv_running_command = Cancelled => srv.cmd \in interrupted
  /\ cancelling \subseteq interrupted

(* What a command that called must_cancel leaves behind on its way back.        *)
CheckedInv ==
  /\ cancel_bit_checked => srv.pc # "idle" /\ srv.cmd \in checking
  /\ srv.cancel # "none" => srv.cmd \in checking
  /\ \A rep \in replies : rep.cancel # "none" => rep.cmd \in checking
  /\ caller.reply # "none" => caller.cmd \in checking

(* An interrupted command that is not over is the cancelled one.                *)
KeptInv ==
  /\ \A c \in interrupted : c <= caller.cmd
  /\ caller.cmd \in interrupted /\ caller.pc \in {"send", "wait", "check"}
       => cancelled_command = caller.cmd
  /\ NoInterruptLost

CancelInv == CancelShape /\ ClientInv /\ ServerInv /\ CheckedInv /\ KeptInv
-----------------------------------------------------------------------------
LEMMA CancelInitInv == CancelInit => CancelInv
<1> SUFFICES ASSUME CancelInit PROVE CancelInv
  OBVIOUS
<1>1. CancelShape
  BY CancelAssumption DEF CancelInit, CancelShape, Busy, Verdict
<1>2. ClientInv /\ ServerInv
  BY DEF CancelInit, ClientInv, ServerInv, Busy, Cancelled
<1>3. CheckedInv /\ KeptInv
  BY DEF CancelInit, CheckedInv, KeptInv, NoInterruptLost
<1> QED
  BY <1>1, <1>2, <1>3 DEF CancelInv

\* Every step keeps the shape.
LEMMA ShapeKept ==
  ASSUME CancelInv, [CancelNext]_cancelVars
  PROVE  CancelShape'
<1>0. MaxCommands \in Nat
  BY CancelAssumption
<1> USE <1>0 DEF CancelInv, CancelShape, ClientInv, Busy, Verdict, Command, Cancelled,
           clientVars, messageVars, srvVars, pingVars
<1>1. CASE SetRunning
  BY <1>1 DEF SetRunning, MainAt
<1>2. CASE internal_call
  <2>1. caller.cmd \in Command
    BY <1>2 DEF internal_call, MainAt
  <2>2. commands' \in Seq(Command)
    BY <1>2, <2>1 DEF internal_call
  <2> QED
    BY <1>2, <2>2 DEF internal_call, MainAt
<1>3. CASE Returns
  BY <1>3 DEF Returns, MainAt
<1>4. CASE Reraise
  BY <1>4 DEF Reraise, MainAt
<1>5. CASE ResetRunning
  BY <1>5 DEF ResetRunning, MainAt
<1>6. CASE sigint_handler
  BY <1>6 DEF sigint_handler, Caught
<1>7. CASE StoreCancelled
  BY <1>7 DEF StoreCancelled
<1>8. CASE Ping
  BY <1>8 DEF Ping
<1>9. CASE ResetInterrupted
  BY <1>9 DEF ResetInterrupted
<1>10. CASE SendInterrupt
  BY <1>10 DEF SendInterrupt
<1>11. CASE PingAnswered
  BY <1>11 DEF PingAnswered
<1>12. CASE PingMissed
  BY <1>12 DEF PingMissed
<1>13. CASE ping
  BY <1>13 DEF ping, Marked
<1>14. CASE callback
  BY <1>14 DEF callback
<1>15. CASE Check
  <2>1. PICK n \in Nat : srv' = [srv EXCEPT !.checks = n]
    <3>1. srv.checks + 1 \in Nat
      OBVIOUS
    <3> QED BY <1>15, <3>1, Zenon DEF Check
  <2>2. srv' \in [pc : {"idle", "execute", "reset"}, cmd : Nat, checks : Nat, cancel : Verdict]
    BY <2>1
  <2> QED
    BY <1>15, <2>2 DEF Check
<1>16. CASE Over
  <2>1. PICK x \in Verdict : srv' = [srv EXCEPT !.pc = "reset", !.cancel = x]
    BY <1>16, Zenon DEF Over
  <2>2. srv' \in [pc : {"idle", "execute", "reset"}, cmd : Nat, checks : Nat, cancel : Verdict]
    BY <2>1
  <2> QED
    BY <1>16, <2>2 DEF Over
<1>17. CASE Reply
  <2>1. [cmd |-> srv.cmd, cancel |-> srv.cancel] \in [cmd : Nat, cancel : Verdict]
    OBVIOUS
  <2>2. \A rep \in replies' : rep \in [cmd : Nat, cancel : Verdict]
    BY <1>17, <2>1 DEF Reply
  <2>3. srv' \in [pc : {"idle", "execute", "reset"}, cmd : Nat, checks : Nat, cancel : Verdict]
    BY <1>17 DEF Reply
  <2> QED
    BY <1>17, <2>2, <2>3 DEF Reply
<1>18. CASE UNCHANGED cancelVars
  BY <1>18 DEF cancelVars
<1> QED
  BY <1>1, <1>2, <1>3, <1>4, <1>5, <1>6, <1>7, <1>8, <1>9, <1>10, <1>11,
     <1>12, <1>13, <1>14, <1>15, <1>16, <1>17, <1>18 DEF CancelNext

\* Every step keeps what holds of the client.
LEMMA ClientKept ==
  ASSUME CancelInv, [CancelNext]_cancelVars
  PROVE  ClientInv'
<1>0. MaxCommands \in Nat
  BY CancelAssumption
<1> USE <1>0 DEF CancelInv, CancelShape, ClientInv, Busy, Verdict, Command, Cancelled,
           clientVars, messageVars, srvVars, pingVars
<1>1. CASE SetRunning
  BY <1>1 DEF SetRunning, MainAt
<1>2. CASE internal_call
  BY <1>2 DEF internal_call, MainAt
<1>3. CASE Returns
  BY <1>3 DEF Returns, MainAt
<1>4. CASE Reraise
  BY <1>4 DEF Reraise, MainAt
<1>5. CASE ResetRunning
  BY <1>5 DEF ResetRunning, MainAt
<1>6. CASE sigint_handler
  BY <1>6 DEF sigint_handler, Caught
<1>7. CASE StoreCancelled
  BY <1>7 DEF StoreCancelled
<1>8. CASE Ping
  BY <1>8 DEF Ping
<1>9. CASE ResetInterrupted
  BY <1>9 DEF ResetInterrupted
<1>10. CASE SendInterrupt
  BY <1>10 DEF SendInterrupt
<1>11. CASE PingAnswered
  BY <1>11 DEF PingAnswered
<1>12. CASE PingMissed
  BY <1>12 DEF PingMissed
<1>13. CASE ping
  BY <1>13 DEF ping, Marked
<1>14. CASE callback
  BY <1>14 DEF callback
<1>15. CASE Check
  BY <1>15 DEF Check, Told, must_cancel
<1>16. CASE Over
  BY <1>16 DEF Over, Told, must_cancel
<1>17. CASE Reply
  BY <1>17 DEF Reply
<1>18. CASE UNCHANGED cancelVars
  BY <1>18 DEF cancelVars
<1> QED
  BY <1>1, <1>2, <1>3, <1>4, <1>5, <1>6, <1>7, <1>8, <1>9, <1>10, <1>11,
     <1>12, <1>13, <1>14, <1>15, <1>16, <1>17, <1>18 DEF CancelNext

\* Every step keeps what holds of the server.
LEMMA ServerKept ==
  ASSUME CancelInv, [CancelNext]_cancelVars
  PROVE  ServerInv'
<1>0. MaxCommands \in Nat
  BY CancelAssumption
<1> USE <1>0 DEF CancelInv, CancelShape, ClientInv, ServerInv, Command, Cancelled,
           clientVars, messageVars, srvVars, pingVars
<1>1. CASE SetRunning
  BY <1>1 DEF SetRunning, MainAt
<1>2. CASE internal_call
  BY <1>2 DEF internal_call, MainAt
<1>3. CASE Returns
  BY <1>3 DEF Returns, MainAt
<1>4. CASE Reraise
  BY <1>4 DEF Reraise, MainAt
<1>5. CASE ResetRunning
  BY <1>5 DEF ResetRunning, MainAt
<1>6. CASE sigint_handler
  BY <1>6 DEF sigint_handler, Caught
<1>7. CASE StoreCancelled
  BY <1>7 DEF StoreCancelled
<1>8. CASE Ping
  BY <1>8 DEF Ping
<1>9. CASE ResetInterrupted
  BY <1>9 DEF ResetInterrupted
<1>10. CASE SendInterrupt
  BY <1>10 DEF SendInterrupt
<1>11. CASE PingAnswered
  BY <1>11 DEF PingAnswered
<1>12. CASE PingMissed
  BY <1>12 DEF PingMissed
<1>13. CASE ping
  BY <1>13 DEF ping, Marked
<1>14. CASE callback
  BY <1>14 DEF callback
<1>15. CASE Check
  BY <1>15 DEF Check, Told, must_cancel
<1>16. CASE Over
  BY <1>16 DEF Over, Told, must_cancel
<1>17. CASE Reply
  BY <1>17 DEF Reply
<1>18. CASE UNCHANGED cancelVars
  BY <1>18 DEF cancelVars
<1> QED
  BY <1>1, <1>2, <1>3, <1>4, <1>5, <1>6, <1>7, <1>8, <1>9, <1>10, <1>11,
     <1>12, <1>13, <1>14, <1>15, <1>16, <1>17, <1>18 DEF CancelNext

\* Every step keeps the trace of must_cancel.
LEMMA CheckedKept ==
  ASSUME CancelInv, [CancelNext]_cancelVars
  PROVE  CheckedInv'
<1>0. MaxCommands \in Nat
  BY CancelAssumption
<1> USE <1>0 DEF CancelInv, CancelShape, CheckedInv, Verdict,
           clientVars, messageVars, srvVars, pingVars
<1>1. CASE SetRunning
  BY <1>1 DEF SetRunning, MainAt
<1>2. CASE internal_call
  BY <1>2 DEF internal_call, MainAt
<1>3. CASE Returns
  BY <1>3 DEF Returns, MainAt
<1>4. CASE Reraise
  BY <1>4 DEF Reraise, MainAt
<1>5. CASE ResetRunning
  BY <1>5 DEF ResetRunning, MainAt
<1>6. CASE sigint_handler
  BY <1>6 DEF sigint_handler, Caught
<1>7. CASE StoreCancelled
  BY <1>7 DEF StoreCancelled
<1>8. CASE Ping
  BY <1>8 DEF Ping
<1>9. CASE ResetInterrupted
  BY <1>9 DEF ResetInterrupted
<1>10. CASE SendInterrupt
  BY <1>10 DEF SendInterrupt
<1>11. CASE PingAnswered
  BY <1>11 DEF PingAnswered
<1>12. CASE PingMissed
  BY <1>12 DEF PingMissed
<1>13. CASE ping
  BY <1>13 DEF ping, Marked
<1>14. CASE callback
  BY <1>14 DEF callback
<1>15. CASE Check
  BY <1>15 DEF Check, Told, must_cancel
<1>16. CASE Over
  BY <1>16 DEF Over, Told, must_cancel
<1>17. CASE Reply
  BY <1>17 DEF Reply
<1>18. CASE UNCHANGED cancelVars
  BY <1>18 DEF cancelVars
<1> QED
  BY <1>1, <1>2, <1>3, <1>4, <1>5, <1>6, <1>7, <1>8, <1>9, <1>10, <1>11,
     <1>12, <1>13, <1>14, <1>15, <1>16, <1>17, <1>18 DEF CancelNext

\* Every step keeps the interrupted commands.
LEMMA InterruptsStay ==
  ASSUME CancelInv, [CancelNext]_cancelVars
  PROVE  KeptInv'
<1>0. MaxCommands \in Nat
  BY CancelAssumption
<1> USE <1>0 DEF CancelInv, CancelShape, ClientInv, CheckedInv, KeptInv, NoInterruptLost, Busy, Command,
           clientVars, messageVars, srvVars, pingVars
<1>1. CASE SetRunning
  BY <1>1 DEF SetRunning, MainAt
<1>2. CASE internal_call
  BY <1>2 DEF internal_call, MainAt
<1>3. CASE Returns
  BY <1>3 DEF Returns, MainAt
<1>4. CASE Reraise
  BY <1>4 DEF Reraise, MainAt
<1>5. CASE ResetRunning
  BY <1>5 DEF ResetRunning, MainAt
<1>6. CASE sigint_handler
  BY <1>6 DEF sigint_handler, Caught
<1>7. CASE StoreCancelled
  BY <1>7 DEF StoreCancelled
<1>8. CASE Ping
  BY <1>8 DEF Ping
<1>9. CASE ResetInterrupted
  BY <1>9 DEF ResetInterrupted
<1>10. CASE SendInterrupt
  BY <1>10 DEF SendInterrupt
<1>11. CASE PingAnswered
  BY <1>11 DEF PingAnswered
<1>12. CASE PingMissed
  BY <1>12 DEF PingMissed
<1>13. CASE ping
  BY <1>13 DEF ping, Marked
<1>14. CASE callback
  BY <1>14 DEF callback
<1>15. CASE Check
  BY <1>15 DEF Check, Told, must_cancel
<1>16. CASE Over
  BY <1>16 DEF Over, Told, must_cancel
<1>17. CASE Reply
  BY <1>17 DEF Reply
<1>18. CASE UNCHANGED cancelVars
  BY <1>18 DEF cancelVars
<1> QED
  BY <1>1, <1>2, <1>3, <1>4, <1>5, <1>6, <1>7, <1>8, <1>9, <1>10, <1>11,
     <1>12, <1>13, <1>14, <1>15, <1>16, <1>17, <1>18 DEF CancelNext

\* The invariant holds in every state the client and the server reach.
THEOREM CancelInvariant == CancelSpec => []CancelInv
<1>1. CancelInv /\ [CancelNext]_cancelVars => CancelInv'
  BY ShapeKept, ClientKept, ServerKept, CheckedKept, InterruptsStay DEF CancelInv
<1> QED
  BY <1>1, CancelInitInv, PTL DEF CancelSpec

\* An interrupt hits the command it was meant for and no other (sigint_handler,
\* the ping thread and object_factory_impl::ping).
THEOREM InterruptsExact == CancelSpec => []CancelExact
<1>1. CancelInv => CancelExact
  BY DEF CancelInv, ClientInv, ServerInv, CancelExact
<1> QED
  BY <1>1, CancelInvariant, PTL

\* A signal that was caught during call() is raised again when the command is
\* over, unless the command called must_cancel.
THEOREM InterruptsKept == CancelSpec => []NoInterruptLost
<1>1. CancelInv => NoInterruptLost
  BY DEF CancelInv, KeptInv
<1> QED
  BY <1>1, CancelInvariant, PTL
=============================================================================

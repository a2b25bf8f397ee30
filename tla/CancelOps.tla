------------------------------ MODULE CancelOps ------------------------------
(* CTRL-C during a remote command of cppipc: the main thread of the client in   *)
(* comm_client::call, the SIGINT handler that interrupts it, the ping thread    *)
(* that carries the interrupt, the server thread that runs commands one at a    *)
(* time and the server's control thread that answers pings.  The operating      *)
(* system runs the handler on the main thread.                                  *)
EXTENDS Integers, Sequences

CONSTANTS
  MaxCommands,   \* bound: calls of the main thread; their random ids are 1, 2, ...
  MaxSigints,    \* bound: signals
  MaxPings,      \* bound: pings that carry no interrupt
  MaxChecks,     \* bound: calls of must_cancel by one command
  Tolerable      \* num_tolerable_ping_failures

ASSUME CancelAssumption == MaxCommands \in Nat

VARIABLES
  gl_interrupted, running_command, cancelled_command, server_alive, ping_failure_count,
  caller,        \* [pc, cmd, reply]: the main thread and what it was told of a cancel
  handler_at,    \* the SIGINT handler: "none", or where it is
  ping_at,
  commands,      \* commands on their way to the server
  replies,       \* [cmd, cancel] on their way back
  interrupts,    \* interrupts on their way to the control thread
  srv,           \* [pc, cmd, checks, cancel]: the server thread
  srv_running_command, cancel_bit_checked,
  sigints, pings,
  interrupted,   \* history: commands a handler saw running
  raised,        \* history: commands after which the signal was raised again
  checking,      \* history: commands that called must_cancel
  cancelling     \* history: commands that must_cancel told to stop

clientVars == <<gl_interrupted, running_command, cancelled_command, server_alive,
                ping_failure_count>>
messageVars == <<commands, replies, interrupts>>
srvVars == <<srv, srv_running_command, cancel_bit_checked, checking, cancelling>>
pingVars == <<ping_at, pings>>
cancelVars == <<clientVars, caller, handler_at, pingVars, messageVars, srvVars, sigints,
                interrupted, raised>>

Cancelled == -1   \* uint64_t(-1)

CancelInit ==
  /\ gl_interrupted = FALSE /\ running_command = 0 /\ cancelled_command = 0
  /\ server_alive = TRUE /\ ping_failure_count = 0
  /\ caller = [pc |-> "idle", cmd |-> 0, reply |-> "none"]
  /\ handler_at = "none"
  /\ ping_at = "idle"
  /\ commands = <<>> /\ replies = {} /\ interrupts = <<>>
  /\ srv = [pc |-> "idle", cmd |-> 0, checks |-> 0, cancel |-> "none"]
  /\ srv_running_command = 0 /\ cancel_bit_checked = FALSE
  /\ sigints = 0 /\ pings = 0
  /\ interrupted = {} /\ raised = {} /\ checking = {} /\ cancelling = {}
-----------------------------------------------------------------------------
(* The main thread, which stands still while the handler runs.                  *)
MainAt(at) == caller.pc = at /\ handler_at = "none"

(* A new command becomes the running one; the handler is installed ...          *)
SetRunning ==
  /\ MainAt("idle") /\ caller.cmd < MaxCommands
  /\ caller' = [pc |-> "send", cmd |-> caller.cmd + 1, reply |-> "none"]
  /\ running_command' = caller.cmd + 1
  /\ UNCHANGED <<gl_interrupted, cancelled_command, server_alive, ping_failure_count, handler_at,
                 pingVars, messageVars, srvVars, sigints, interrupted, raised>>

(* ... and the call is sent.                                                    *)
internal_call ==
  /\ MainAt("send")
  /\ caller' = [caller EXCEPT !.pc = "wait"]
  /\ commands' = Append(commands, caller.cmd)
  /\ UNCHANGED <<clientVars, handler_at, pingVars, replies, interrupts, srvVars, sigints,
                 interrupted, raised>>

(* The reply comes, or the server is given up.                                  *)
Returns ==
  /\ MainAt("wait")
  /\ \/ /\ server_alive
        /\ \E rep \in replies : /\ rep.cmd = caller.cmd
                                /\ caller' = [caller EXCEPT !.pc = "check", !.reply = rep.cancel]
                                /\ replies' = replies \ {rep}
     \/ /\ ~server_alive
        /\ caller' = [caller EXCEPT !.pc = "check"]
        /\ UNCHANGED replies
  /\ UNCHANGED <<clientVars, handler_at, pingVars, commands, interrupts, srvVars, sigints,
                 interrupted, raised>>

(* The old handler is back: was CTRL-C pressed for this command and not heeded? *)
Reraise ==
  /\ MainAt("check")
  /\ raised' = IF running_command # 0 /\ running_command = cancelled_command
                  /\ caller.reply = "none"
               THEN raised \cup {caller.cmd} ELSE raised
  /\ caller' = [caller EXCEPT !.pc = "reset"]
  /\ UNCHANGED <<clientVars, handler_at, pingVars, messageVars, srvVars, sigints, interrupted>>

ResetRunning ==
  /\ MainAt("reset")
  /\ running_command' = 0
  /\ caller' = [caller EXCEPT !.pc = "idle"]
  /\ UNCHANGED <<gl_interrupted, cancelled_command, server_alive, ping_failure_count, handler_at,
                 pingVars, messageVars, srvVars, sigints, interrupted, raised>>

(* While the client's handler is installed.  Faulty variant: it is put back only *)
(* after the check.                                                             *)
CaughtLonger == caller.pc \in {"send", "wait", "check", "reset"}
Caught == caller.pc \in {"send", "wait"}

sigint_handler ==
  /\ Caught /\ handler_at = "none" /\ sigints < MaxSigints
  /\ sigints' = sigints + 1
  /\ gl_interrupted' = TRUE
  /\ handler_at' = "store"
  /\ UNCHANGED <<running_command, cancelled_command, server_alive, ping_failure_count, caller,
                 pingVars, messageVars, srvVars, interrupted, raised>>

StoreCancelled ==
  /\ handler_at = "store"
  /\ cancelled_command' = running_command
  /\ interrupted' = interrupted \cup {caller.cmd}
  /\ handler_at' = "none"
  /\ UNCHANGED <<gl_interrupted, running_command, server_alive, ping_failure_count, caller,
                 pingVars, messageVars, srvVars, sigints, raised>>
-----------------------------------------------------------------------------
(* The ping thread looks at gl_interrupted, resets it, and takes the command.   *)
Ping ==
  /\ ping_at = "idle"
  /\ \/ gl_interrupted /\ ping_at' = "reset" /\ UNCHANGED pings
     \/ ~gl_interrupted /\ pings < MaxPings /\ ping_at' = "wait" /\ pings' = pings + 1
  /\ UNCHANGED <<clientVars, caller, handler_at, messageVars, srvVars, sigints,
                 interrupted, raised>>

ResetInterrupted ==
  /\ ping_at = "reset"
  /\ gl_interrupted' = FALSE
  /\ ping_at' = "load"
  /\ UNCHANGED <<running_command, cancelled_command, server_alive, ping_failure_count, caller,
                 handler_at, pings, messageVars, srvVars, sigints, interrupted, raised>>

SendInterrupt ==
  /\ ping_at = "load"
  /\ interrupts' = Append(interrupts, cancelled_command)
  /\ ping_at' = "wait"
  /\ UNCHANGED <<clientVars, caller, handler_at, pings, commands, replies, srvVars,
                 sigints, interrupted, raised>>

(* The wait of three seconds ends with or without an answer; an interrupt that  *)
(* was not answered may still arrive.                                           *)
PingAnswered ==
  /\ ping_at = "wait" /\ interrupts = <<>>
  /\ server_alive' = TRUE /\ ping_failure_count' = 0
  /\ ping_at' = "idle"
  /\ UNCHANGED <<gl_interrupted, running_command, cancelled_command, caller, handler_at,
                 pings, messageVars, srvVars, sigints, interrupted, raised>>

PingMissed ==
  /\ ping_at = "wait"
  /\ ping_failure_count' = ping_failure_count + 1
  /\ server_alive' = IF ping_failure_count + 1 >= Tolerable THEN FALSE ELSE server_alive
  /\ ping_at' = "idle"
  /\ UNCHANGED <<gl_interrupted, running_command, cancelled_command, caller, handler_at,
                 pings, messageVars, srvVars, sigints, interrupted, raised>>
-----------------------------------------------------------------------------
(* The control thread: the running command is marked if it is the one.  Faulty  *)
(* variant: whatever runs is marked.                                            *)
MarkedAnyway(cancel_id) == IF srv_running_command # 0 THEN Cancelled ELSE srv_running_command
Marked(cancel_id) == IF srv_running_command = cancel_id THEN Cancelled ELSE srv_running_command

ping ==
  /\ interrupts # <<>>
  /\ srv_running_command' = IF Head(interrupts) # 0 THEN Marked(Head(interrupts)) ELSE srv_running_command
  /\ interrupts' = Tail(interrupts)
  /\ UNCHANGED <<clientVars, caller, handler_at, pingVars, commands, replies, srv,
                 cancel_bit_checked, checking, cancelling, sigints, interrupted, raised>>

(* comm_server::callback for a command.                                         *)
callback ==
  /\ srv.pc = "idle" /\ commands # <<>>
  /\ srv' = [pc |-> "execute", cmd |-> Head(commands), checks |-> 0, cancel |-> "none"]
  /\ srv_running_command' = Head(commands)
  /\ commands' = Tail(commands)
  /\ UNCHANGED <<clientVars, caller, handler_at, pingVars, replies, interrupts, cancel_bit_checked,
                 checking, cancelling, sigints, interrupted, raised>>

must_cancel == srv_running_command = Cancelled
Told == cancelling' = IF must_cancel THEN cancelling \cup {srv.cmd} ELSE cancelling

Check ==
  /\ srv.pc = "execute" /\ srv.checks < MaxChecks
  /\ cancel_bit_checked' = TRUE
  /\ checking' = checking \cup {srv.cmd}
  /\ Told
  /\ srv' = [srv EXCEPT !.checks = @ + 1]
  /\ UNCHANGED <<clientVars, caller, handler_at, pingVars, messageVars, srv_running_command, sigints,
                 interrupted, raised>>

(* The command is over: the reply says whether it was cancelled, if it looked.  *)
Over ==
  /\ srv.pc = "execute"
  /\ srv' = [srv EXCEPT !.pc = "reset",
                        !.cancel = IF ~cancel_bit_checked THEN "none"
                                   ELSE IF must_cancel THEN "true" ELSE "false"]
  /\ IF cancel_bit_checked THEN Told ELSE UNCHANGED cancelling
  /\ UNCHANGED <<clientVars, caller, handler_at, pingVars, messageVars, srv_running_command,
                 cancel_bit_checked, checking, sigints, interrupted, raised>>

Reply ==
  /\ srv.pc = "reset"
  /\ srv_running_command' = 0 /\ cancel_bit_checked' = FALSE
  /\ replies' = replies \cup {[cmd |-> srv.cmd, cancel |-> srv.cancel]}
  /\ srv' = [srv EXCEPT !.pc = "idle"]
  /\ UNCHANGED <<clientVars, caller, handler_at, pingVars, commands, interrupts, checking, cancelling,
                 sigints, interrupted, raised>>
-----------------------------------------------------------------------------
CancelDone ==
  /\ caller.pc = "idle" /\ caller.cmd = MaxCommands
  /\ srv.pc = "idle" /\ commands = <<>> /\ interrupts = <<>>

CancelNext ==
  \/ SetRunning \/ internal_call \/ Returns \/ Reraise \/ ResetRunning
  \/ sigint_handler \/ StoreCancelled
  \/ Ping \/ ResetInterrupted \/ SendInterrupt \/ PingAnswered \/ PingMissed
  \/ ping \/ callback \/ Check \/ Over \/ Reply

CancelSpec == CancelInit /\ [][CancelNext]_cancelVars
-----------------------------------------------------------------------------
Command == 1..MaxCommands

CancelTypeOK ==
  /\ gl_interrupted \in BOOLEAN /\ server_alive \in BOOLEAN /\ cancel_bit_checked \in BOOLEAN
  /\ running_command \in Command \cup {0} /\ cancelled_command \in Command \cup {0}
  /\ srv_running_command \in Command \cup {0, Cancelled}
  /\ ping_failure_count \in Nat

(* An interrupt hits the command it was meant for and no other, however late    *)
(* the ping that carries it and whatever the server runs by then: must_cancel   *)
(* is true only for a command that was running when a handler was, and the      *)
(* client raises the signal again only after such a command.                    *)
CancelExact ==
  /\ cancelling \subseteq interrupted /\ raised \subseteq interrupted
  /\ srv_running_command = Cancelled => srv.cmd \in interrupted

(* No interrupt disappears: when call() has returned, the signal that was       *)
(* caught during it was raised again, unless the command called must_cancel.    *)
NoInterruptLost ==
  \A c \in interrupted :
    caller.cmd > c \/ (caller.cmd = c /\ caller.pc \in {"reset", "idle"})
      => c \in raised \/ c \in checking
=============================================================================

-------------------------- MODULE AsyncEngineProofs --------------------------
(* The vertex programs of the asynchronous engine exclude each other, for any   *)
(* number of machines, fibers, handlers, vertices and signals.                  *)
EXTENDS AsyncEngine, TLAPS

Field == {"pc", "v", "msg", "phase", "edges", "replies", "from", "to", "ret", "i", "critical"}

Shaped == DOMAIN agent = EngineAgent /\ \A a \in EngineAgent : DOMAIN agent[a] = Field

(* What follows a schedule() of a fiber is inside its program.                  *)
ReturnsToProgram ==
  \A f \in EngineFiber :
    agent[f].pc \in {"schedule", "push", "cancel", "wake"} => agent[f].ret \in {"unlock", "release"}

(* The bit of a vertex is set exactly while a fiber runs its program, and only  *)
(* one does.                                                                    *)
BitsRight ==
  /\ \A f \in EngineFiber : InProgram(f) => agent[f].v \in program_running
  /\ \A v \in program_running : \E f \in EngineFiber : InProgram(f) /\ agent[f].v = v
  /\ \A f, g \in EngineFiber : InProgram(f) /\ InProgram(g) /\ f # g => agent[f].v # agent[g].v
  /\ hasnext \subseteq program_running

ProgramInv == Shaped /\ ReturnsToProgram /\ BitsRight

LEMMA InitProgram == EngineInit => ProgramInv
  <1> SUFFICES ASSUME EngineInit PROVE ProgramInv
    OBVIOUS
  <1>1. Shaped
    BY DEF EngineInit, Shaped, Field
  <1>2. \A f \in EngineFiber : agent[f].pc = "next"
    BY DEF EngineInit, EngineAgent
  <1>3. ReturnsToProgram
    BY <1>2 DEF ReturnsToProgram
  <1>4. \A f \in EngineFiber : ~InProgram(f)
    BY <1>2 DEF InProgram, Outside
  <1>5. program_running = {} /\ hasnext = {}
    BY DEF EngineInit
  <1> QED
    BY <1>1, <1>3, <1>4, <1>5 DEF ProgramInv, BitsRight

(* A step of one agent to another record.                                       *)
LEMMA Becomes ==
  ASSUME Shaped, NEW a \in EngineAgent, NEW now, DOMAIN now = Field, Become(a, now)
  PROVE  Shaped' /\ agent'[a] = now /\ \A b \in EngineAgent \ {a} : agent'[b] = agent[b]
  BY DEF Become, Shaped

(* A step that begins and ends no program keeps the bits right.                 *)
LEMMA SamePrograms ==
  ASSUME BitsRight, UNCHANGED <<program_running, hasnext>>,
         \A f \in EngineFiber : /\ InProgram(f)' <=> InProgram(f)
                                /\ InProgram(f) => agent'[f].v = agent[f].v
  PROVE  BitsRight'
  BY Zenon DEF BitsRight

Schedules == {"schedule", "push", "cancel", "wake"}

(* A step of a fiber on one side of the border of its program.                  *)
LEMMA FiberStep ==
  ASSUME ProgramInv, NEW f \in EngineFiber, NEW now, DOMAIN now = Field, Become(f, now),
         UNCHANGED <<program_running, hasnext>>,
         now.pc \in Outside <=> agent[f].pc \in Outside,
         agent[f].pc \notin Outside => now.v = agent[f].v,
         now.pc \in Schedules => now.ret \in {"unlock", "release"}
  PROVE  ProgramInv'
  <1>1. f \in EngineAgent /\ EngineFiber \subseteq EngineAgent
    BY DEF EngineAgent
  <1>2. Shaped' /\ agent'[f] = now /\ \A b \in EngineAgent \ {f} : agent'[b] = agent[b]
    BY <1>1, Becomes DEF ProgramInv
  <1>3. \A g \in EngineFiber : /\ InProgram(g)' <=> InProgram(g)
                               /\ InProgram(g) => agent'[g].v = agent[g].v
    BY <1>1, <1>2 DEF InProgram
  <1>4. BitsRight'
    BY <1>3, SamePrograms DEF ProgramInv
  <1>5. ReturnsToProgram'
    BY <1>1, <1>2 DEF ProgramInv, ReturnsToProgram, Schedules
  <1> QED
    BY <1>2, <1>4, <1>5 DEF ProgramInv

(* A step of a handler is none of a program.                                    *)
LEMMA HandlerStep ==
  ASSUME ProgramInv, NEW h \in EngineHandler, NEW now, DOMAIN now = Field, Become(h, now),
         UNCHANGED <<program_running, hasnext>>
  PROVE  ProgramInv'
  <1>1. h \in EngineAgent /\ EngineFiber \subseteq EngineAgent /\ h \notin EngineFiber
    BY AgentsApart DEF EngineAgent
  <1>2. Shaped' /\ \A b \in EngineAgent \ {h} : agent'[b] = agent[b]
    BY <1>1, Becomes DEF ProgramInv
  <1>3. \A g \in EngineFiber : agent'[g] = agent[g]
    BY <1>1, <1>2
  <1>4. BitsRight'
    BY <1>3, SamePrograms DEF ProgramInv, InProgram
  <1>5. ReturnsToProgram'
    BY <1>3 DEF ProgramInv, ReturnsToProgram
  <1> QED
    BY <1>2, <1>4, <1>5 DEF ProgramInv

(* A step of either, inside a program if it is a fiber.                         *)
LEMMA AgentStep ==
  ASSUME ProgramInv, NEW a \in EngineAgent, NEW now, DOMAIN now = Field, Become(a, now),
         UNCHANGED <<program_running, hasnext>>,
         now.pc \notin Outside /\ agent[a].pc \notin Outside /\ now.v = agent[a].v,
         a \in EngineFiber /\ now.pc \in Schedules => now.ret \in {"unlock", "release"}
  PROVE  ProgramInv'
  <1>1. CASE a \in EngineFiber
    BY <1>1, FiberStep
  <1>2. CASE a \in EngineHandler
    BY <1>2, HandlerStep
  <1> QED
    BY <1>1, <1>2 DEF EngineAgent

(* A step of a fiber that has no program.                                       *)
LEMMA OutsideStep ==
  ASSUME ProgramInv, NEW f \in EngineFiber, NEW now, DOMAIN now = Field, Become(f, now),
         UNCHANGED <<program_running, hasnext>>,
         agent[f].pc \in Outside, now.pc \in Outside
  PROVE  ProgramInv'
  <1>1. now.pc \notin Schedules
    BY DEF Outside, Schedules
  <1> QED
    BY <1>1, FiberStep

(* The record of an agent has the fields that the actions change.               *)
LEMMA Records ==
  ASSUME ProgramInv, NEW a \in EngineAgent
  PROVE  DOMAIN agent[a] = Field
  BY DEF ProgramInv, Shaped

LEMMA PopKeeps ==
  ASSUME ProgramInv, NEW f \in EngineFiber, NEW queue, NEW rest, Pop(f, queue, rest),
         agent[f].pc \in Outside, UNCHANGED <<program_running, hasnext>>
  PROVE  ProgramInv'
  <1>r. DOMAIN agent[f] = Field
    BY Records DEF EngineAgent
  <1> DEFINE tried(pc) == [agent[f] EXCEPT !.pc = pc]
             found(v) == [agent[f] EXCEPT !.pc = "get", !.v = v, !.i = 0]
  <1>1. \/ \E pc \in {"empty", "try"} : Become(f, tried(pc))
        \/ \E v : Become(f, found(v))
    BY DEF Pop, Go
  <1>2. ASSUME NEW pc \in {"empty", "try"}, Become(f, tried(pc)) PROVE ProgramInv'
    <2>1. DOMAIN tried(pc) = Field /\ tried(pc).pc \in Outside
      BY <1>r DEF Field, Outside
    <2> QED
      BY <1>2, <2>1, OutsideStep
  <1>3. ASSUME NEW v, Become(f, found(v)) PROVE ProgramInv'
    <2>1. DOMAIN found(v) = Field /\ found(v).pc \in Outside
      BY <1>r DEF Field, Outside
    <2> QED
      BY <1>3, <2>1, OutsideStep
  <1> QED
    BY <1>1, <1>2, <1>3

LEMMA SchedulerKeeps ==
  ASSUME ProgramInv, NEW f \in EngineFiber, get_next(f) \/ Steal(f) \/ get_next_sched_task(f)
  PROVE  ProgramInv'
  <1>r. DOMAIN agent[f] = Field
    BY Records DEF EngineAgent
  <1>o. agent[f].pc \in Outside
    BY DEF get_next, Steal, get_next_sched_task, Doing, Outside
  <1>u. UNCHANGED <<program_running, hasnext>>
    BY DEF get_next, Steal, get_next_sched_task, vertexVars
  <1> DEFINE looks(j) == [agent[f] EXCEPT !.pc = "steal", !.i = j]
             more(j) == [agent[f] EXCEPT !.i = j]
             gets(pc, msg) == [agent[f] EXCEPT !.pc = pc, !.msg = msg]
             goes(pc) == [agent[f] EXCEPT !.pc = pc]
  <1>1. CASE get_next(f)
    <2>1. CASE \E queue, rest : Pop(f, queue, rest)
      BY <2>1, <1>o, <1>u, PopKeeps
    <2>2. CASE Become(f, looks(0))
      <3>1. DOMAIN looks(0) = Field /\ looks(0).pc \in Outside
        BY <1>r DEF Field, Outside
      <3> QED
        BY <2>2, <3>1, <1>o, <1>u, OutsideStep
    <2> QED
      BY <1>1, <2>1, <2>2 DEF get_next
  <1>2. CASE Steal(f)
    <2>1. CASE \E queue, rest : Pop(f, queue, rest)
      BY <2>1, <1>o, <1>u, PopKeeps
    <2>2. CASE Become(f, more(agent[f].i + 1))
      <3>1. DOMAIN more(agent[f].i + 1) = Field /\ more(agent[f].i + 1).pc \in Outside
        BY <1>r, <1>o DEF Field
      <3> QED
        BY <2>2, <3>1, <1>o, <1>u, OutsideStep
    <2> QED
      BY <1>2, <2>1, <2>2 DEF Steal
  <1>3. CASE get_next_sched_task(f)
    <2>1. \/ Become(f, goes("next"))
          \/ \E msg : \E pc \in {"checked", "eval"} : Become(f, gets(pc, msg))
      BY <1>3 DEF get_next_sched_task, Go
    <2>2. DOMAIN goes("next") = Field /\ goes("next").pc \in Outside
      BY <1>r DEF Field, Outside
    <2>3. ASSUME NEW msg, NEW pc \in {"checked", "eval"}, Become(f, gets(pc, msg)) PROVE ProgramInv'
      <3>1. DOMAIN gets(pc, msg) = Field /\ gets(pc, msg).pc \in Outside
        BY <1>r DEF Field, Outside
      <3> QED
        BY <2>3, <3>1, <1>o, <1>u, OutsideStep
    <2> QED
      BY <2>1, <2>2, <2>3, <1>o, <1>u, OutsideStep
  <1> QED
    BY <1>1, <1>2, <1>3

LEMMA QuitKeeps ==
  ASSUME ProgramInv, NEW f \in EngineFiber,
         \/ try_to_quit(f) \/ begin_done_critical_section(f) \/ cancel_critical_section(f)
         \/ end_done_critical_section(f) \/ Leave(f) \/ Forward(f)
  PROVE  ProgramInv'
  <1>r. DOMAIN agent[f] = Field
    BY Records DEF EngineAgent
  <1>o. agent[f].pc \in Outside
    BY DEF try_to_quit, begin_done_critical_section, cancel_critical_section,
           end_done_critical_section, Leave, Forward, Doing, Outside
  <1>u. UNCHANGED <<program_running, hasnext>>
    BY DEF try_to_quit, begin_done_critical_section, cancel_critical_section,
           end_done_critical_section, Leave, Forward, vertexVars
  <1> DEFINE goes(pc) == [agent[f] EXCEPT !.pc = pc]
             locks(pc, c) == [agent[f] EXCEPT !.pc = pc, !.critical = c]
             sleeps == [agent[f] EXCEPT !.pc = "sleep", !.critical = FALSE, !.msg = {}]
             sends == [agent[f] EXCEPT !.pc = "next", !.msg = {}]
  <1>1. \E now \in {goes("begin"), goes("lock"), goes("next"), locks("next", TRUE),
                    locks("eval", FALSE), sleeps, sends} : Become(f, now)
    BY DEF try_to_quit, begin_done_critical_section, cancel_critical_section,
           end_done_critical_section, Leave, Forward, Go
  <1>2. \A now \in {goes("begin"), goes("lock"), goes("next"), locks("next", TRUE),
                    locks("eval", FALSE), sleeps, sends} :
          DOMAIN now = Field /\ now.pc \in Outside
    BY <1>r DEF Field, Outside
  <1> QED
    BY <1>1, <1>2, <1>o, <1>u, OutsideStep

(* An agent in cancel() wakes fibers that sleep, and Consensus lets them go.    *)
LEMMA WakeKeeps ==
  ASSUME ProgramInv, UNCHANGED <<program_running, hasnext>>, DOMAIN agent' = EngineAgent,
         \A b \in EngineAgent : DOMAIN agent'[b] = Field,
         \A f \in EngineFiber :
           \/ agent'[f] = agent[f]
           \/ agent[f].pc \in Outside /\ agent'[f].pc \in Outside
           \/ /\ agent[f].pc \notin Outside /\ agent'[f].pc \in {"unlock", "release"}
              /\ agent'[f].v = agent[f].v
  PROVE  ProgramInv'
  <1>1. \A f \in EngineFiber : /\ InProgram(f)' <=> InProgram(f)
                               /\ InProgram(f) => agent'[f].v = agent[f].v
    BY DEF InProgram, Outside
  <1>2. BitsRight'
    BY <1>1, SamePrograms DEF ProgramInv
  <1>3. ReturnsToProgram'
    BY DEF ProgramInv, ReturnsToProgram, Outside
  <1> QED
    BY <1>2, <1>3 DEF ProgramInv, Shaped

LEMMA WakeSleepersKeeps ==
  ASSUME ProgramInv, NEW a \in EngineAgent, WakeSleepers(a)
  PROVE  ProgramInv'
  <1>u. UNCHANGED <<program_running, hasnext>> /\ agent[a].pc = "wake"
    BY DEF WakeSleepers, vertexVars, Doing
  <1>f. EngineFiber \subseteq EngineAgent /\ \A b \in EngineAgent : DOMAIN agent[b] = Field
    BY Records DEF EngineAgent
  <1> DEFINE goes(b, pc) == [agent[b] EXCEPT !.pc = pc]
  <1>1. \A b \in EngineAgent : \A pc : DOMAIN goes(b, pc) = Field /\ goes(b, pc).pc = pc
                                   /\ goes(b, pc).v = agent[b].v
    BY <1>f DEF Field
  <1>2. /\ DOMAIN agent' = EngineAgent /\ agent'[a] = goes(a, agent[a].ret)
        /\ \A b \in EngineAgent \ {a} :
             \/ agent'[b] = agent[b]
             \/ agent[b].pc = "sleep" /\ agent'[b] = goes(b, "woken")
    BY DEF WakeSleepers, Doing
  <1>3. a \in EngineFiber => agent[a].ret \in {"unlock", "release"}
    BY <1>u DEF ProgramInv, ReturnsToProgram
  <1>4. \A b \in EngineAgent : DOMAIN agent'[b] = Field
    BY <1>1, <1>2, <1>f
  <1>5. ASSUME NEW f \in EngineFiber
        PROVE  \/ agent'[f] = agent[f]
               \/ agent[f].pc \in Outside /\ agent'[f].pc \in Outside
               \/ /\ agent[f].pc \notin Outside /\ agent'[f].pc \in {"unlock", "release"}
                  /\ agent'[f].v = agent[f].v
    <2>1. CASE f = a
      BY <2>1, <1>1, <1>2, <1>3, <1>u DEF Outside
    <2>2. CASE f # a
      <3>1. \/ agent'[f] = agent[f]
            \/ agent[f].pc = "sleep" /\ agent'[f] = goes(f, "woken")
        BY <2>2, <1>2, <1>f
      <3>2. goes(f, "woken").pc = "woken"
        BY <1>1, <1>f
      <3> QED
        BY <3>1, <3>2 DEF Outside
    <2> QED
      BY <2>1, <2>2
  <1> QED
    BY <1>u, <1>2, <1>4, <1>5, WakeKeeps

LEMMA ConsensusKeeps ==
  ASSUME ProgramInv, Consensus
  PROVE  ProgramInv'
  <1>u. UNCHANGED <<program_running, hasnext>>
    BY DEF Consensus, vertexVars
  <1>f. EngineFiber \subseteq EngineAgent /\ \A b \in EngineAgent : DOMAIN agent[b] = Field
    BY Records DEF EngineAgent
  <1>1. \A f \in EngineFiber : agent[f].pc \in Outside
    BY DEF Consensus, Doing, Outside
  <1> DEFINE goes(b) == [agent[b] EXCEPT !.pc = "left"]
  <1>2. \A b \in EngineAgent : DOMAIN goes(b) = Field /\ goes(b).pc \in Outside
    BY <1>f DEF Field, Outside
  <1>3. /\ DOMAIN agent' = EngineAgent
        /\ \A b \in EngineAgent : agent'[b] = goes(b) \/ agent'[b] = agent[b]
    BY DEF Consensus
  <1>4. \A b \in EngineAgent : DOMAIN agent'[b] = Field
    BY <1>2, <1>3, <1>f
  <1>5. \A f \in EngineFiber : agent'[f] = agent[f] \/ agent'[f].pc \in Outside
    BY <1>2, <1>3, <1>f
  <1> QED
    BY <1>u, <1>1, <1>3, <1>4, <1>5, WakeKeeps

LEMMA EdgesKeep ==
  ASSUME ProgramInv, NEW a \in EngineAgent,
         \/ Schedule(a) \/ Push(a) \/ cancel(a) \/ LockFirst(a) \/ LockSecond(a)
         \/ internal_signal(a) \/ Unlock(a)
  PROVE  ProgramInv'
  <1>r. DOMAIN agent[a] = Field
    BY Records
  <1>u. UNCHANGED <<program_running, hasnext>>
    BY DEF Schedule, Push, cancel, LockFirst, LockSecond, internal_signal, Unlock, vertexVars
  <1>p. agent[a].pc \in {"schedule", "push", "cancel", "edges", "second", "edge", "unlock"}
    BY DEF Schedule, Push, cancel, LockFirst, LockSecond, internal_signal, Unlock, Doing
  <1> DEFINE goes(pc) == [agent[a] EXCEPT !.pc = pc]
             schedules(w) == [agent[a] EXCEPT !.pc = "schedule", !.to = w, !.ret = "unlock"]
             unlocks(e) == [agent[a] EXCEPT !.pc = "edges", !.edges = e]
  <1>1. CASE Schedule(a) \/ Push(a)
    <2>1. \E pc \in {"push", "cancel"} : Become(a, goes(pc))
      BY <1>1 DEF Schedule, Push, Go
    <2>2. \A pc \in {"push", "cancel"} :
            /\ DOMAIN goes(pc) = Field /\ goes(pc).pc \notin Outside /\ goes(pc).v = agent[a].v
            /\ goes(pc).ret = agent[a].ret
      BY <1>r DEF Field, Outside
    <2>3. agent[a].pc \in {"schedule", "push"}
      BY <1>1 DEF Schedule, Push, Doing
    <2>4. a \in EngineFiber => agent[a].ret \in {"unlock", "release"}
      BY <2>3 DEF ProgramInv, ReturnsToProgram
    <2>5. agent[a].pc \notin Outside
      BY <1>p DEF Outside
    <2> QED
      BY <2>1, <2>2, <2>4, <2>5, <1>u, AgentStep
  <1>2. CASE LockFirst(a) \/ LockSecond(a) \/ internal_signal(a) \/ Unlock(a)
    <2>1. \/ \E pc \in {"second", "edge", "unlock"} : Become(a, goes(pc))
          \/ \E w : Become(a, schedules(w))
          \/ \E e : Become(a, unlocks(e))
      BY <1>2 DEF LockFirst, LockSecond, internal_signal, Unlock, Go
    <2>2. agent[a].pc \notin Outside
      BY <1>p DEF Outside
    <2>3. ASSUME NEW pc \in {"second", "edge", "unlock"}, Become(a, goes(pc)) PROVE ProgramInv'
      <3>1. DOMAIN goes(pc) = Field /\ goes(pc).pc \notin Outside \cup Schedules
            /\ goes(pc).v = agent[a].v
        BY <1>r DEF Field, Outside, Schedules
      <3> QED
        BY <2>2, <2>3, <3>1, <1>u, AgentStep
    <2>4. ASSUME NEW w, Become(a, schedules(w)) PROVE ProgramInv'
      <3>1. DOMAIN schedules(w) = Field /\ schedules(w).pc \notin Outside
            /\ schedules(w).v = agent[a].v /\ schedules(w).ret = "unlock"
        BY <1>r DEF Field, Outside
      <3> QED
        BY <2>2, <2>4, <3>1, <1>u, AgentStep
    <2>5. ASSUME NEW e, Become(a, unlocks(e)) PROVE ProgramInv'
      <3>1. DOMAIN unlocks(e) = Field /\ unlocks(e).pc \notin Outside \cup Schedules
            /\ unlocks(e).v = agent[a].v
        BY <1>r DEF Field, Outside, Schedules
      <3> QED
        BY <2>2, <2>5, <3>1, <1>u, AgentStep
    <2> QED
      BY <2>1, <2>3, <2>4, <2>5
  <1>3. CASE cancel(a)
    <2>1. agent[a].pc = "cancel" /\ (Become(a, goes("wake")) \/ Become(a, goes(agent[a].ret)))
      BY <1>3 DEF cancel, Doing, Go
    <2>2. \A pc : /\ DOMAIN goes(pc) = Field /\ goes(pc).pc = pc /\ goes(pc).v = agent[a].v
                  /\ goes(pc).ret = agent[a].ret
      BY <1>r DEF Field
    <2>3. CASE a \in EngineHandler
      BY <2>1, <2>2, <2>3, <1>u, HandlerStep
    <2>4. CASE a \in EngineFiber
      <3>1. agent[a].ret \in {"unlock", "release"} /\ agent[a].pc \notin Outside
        BY <2>1, <2>4 DEF ProgramInv, ReturnsToProgram, Outside
      <3>2. ASSUME NEW pc \in {"wake", "unlock", "release"}, Become(a, goes(pc)) PROVE ProgramInv'
        <4>1. pc \notin Outside
          BY DEF Outside
        <4> HIDE DEF goes
        <4> QED
          BY <2>2, <2>4, <3>1, <3>2, <4>1, <1>u, FiberStep
      <3> QED
        BY <2>1, <3>1, <3>2
    <2> QED
      BY <2>3, <2>4 DEF EngineAgent
  <1> QED
    BY <1>1, <1>2, <1>3

LEMMA HandlersKeep ==
  ASSUME ProgramInv, NEW h \in EngineHandler, NEW c,
         \/ rpc_signal(h, c) \/ set_endgame_mode(h, c)
         \/ perform_gather(h, c) \/ perform_scatter(h, c)
  PROVE  ProgramInv'
  <1>r. DOMAIN agent[h] = Field
    BY Records DEF EngineAgent
  <1>u. UNCHANGED <<program_running, hasnext>>
    BY DEF rpc_signal, set_endgame_mode, perform_gather, perform_scatter, VisitMirror, vertexVars
  <1> DEFINE takes(v) == [agent[h] EXCEPT !.pc = "schedule", !.to = v, !.ret = "idle"]
             visits(v, f, e, p) ==
               [agent[h] EXCEPT !.pc = "edges", !.phase = p, !.v = v, !.from = f, !.edges = e]
  <1>1. \/ UNCHANGED agent
        \/ \E v : Become(h, takes(v))
        \/ \E v, f, e, p : Become(h, visits(v, f, e, p))
    BY DEF rpc_signal, set_endgame_mode, perform_gather, perform_scatter, VisitMirror, schedVars
  <1>2. \A v : DOMAIN takes(v) = Field
    BY <1>r
  <1>3. \A v, f, e, p : DOMAIN visits(v, f, e, p) = Field
    BY <1>r
  <1>4. CASE UNCHANGED agent
    BY <1>4, <1>u DEF ProgramInv, Shaped, ReturnsToProgram, BitsRight, InProgram
  <1> QED
    BY <1>1, <1>2, <1>3, <1>4, <1>u, HandlerStep

LEMMA AnswerKeeps ==
  ASSUME ProgramInv, NEW h \in EngineHandler, Answer(h)
  PROVE  ProgramInv'
  <1>u. UNCHANGED <<program_running, hasnext>>
    BY DEF Answer, vertexVars
  <1>f. /\ EngineFiber \subseteq EngineAgent /\ h \notin EngineFiber /\ h \in EngineAgent
        /\ \A b \in EngineAgent : DOMAIN agent[b] = Field
    BY Records, AgentsApart DEF EngineAgent
  <1> DEFINE f == agent[h].from
             idle == [agent EXCEPT ![h].pc = "idle"]
  <1>1. DOMAIN idle = EngineAgent /\ \A b \in EngineAgent : DOMAIN idle[b] = Field
    BY <1>f DEF ProgramInv, Shaped
  <1>2. \A b \in EngineFiber : idle[b] = agent[b]
    BY <1>f DEF ProgramInv, Shaped
  <1>3. \E r : agent' = [idle EXCEPT ![f].replies = r]
    BY DEF Answer
  <1>4. DOMAIN agent' = EngineAgent /\ \A b \in EngineAgent : DOMAIN agent'[b] = Field
    BY <1>1, <1>3
  <1>5. \A b \in EngineFiber : agent'[b].pc = agent[b].pc /\ agent'[b].v = agent[b].v
                               /\ agent'[b].ret = agent[b].ret
    BY <1>1, <1>2, <1>3, <1>f DEF Field
  <1>6. BitsRight'
    BY <1>5, <1>u, SamePrograms DEF ProgramInv, InProgram
  <1>7. ReturnsToProgram'
    BY <1>5 DEF ProgramInv, ReturnsToProgram
  <1> QED
    BY <1>4, <1>6, <1>7 DEF ProgramInv, Shaped

LEMMA VisitKeeps ==
  ASSUME ProgramInv, NEW f \in EngineFiber, Gather(f) \/ Apply(f)
  PROVE  ProgramInv'
  <1>r. DOMAIN agent[f] = Field
    BY Records DEF EngineAgent
  <1>u. UNCHANGED <<program_running, hasnext>> /\ agent[f].pc \in {"run", "edges"}
    BY DEF Gather, Apply, Visited, vertexVars, Doing
  <1> DEFINE visits(p, e, m) == [agent[f] EXCEPT !.pc = "edges", !.phase = p, !.msg = {},
                                                !.edges = e, !.replies = m]
  <1>1. PICK p, e, m : Become(f, visits(p, e, m))
    BY DEF Gather, Apply, Visit
  <1>2. /\ DOMAIN visits(p, e, m) = Field /\ visits(p, e, m).pc = "edges"
        /\ visits(p, e, m).v = agent[f].v
    BY <1>r DEF Field
  <1>3. "edges" \notin Outside \cup Schedules /\ "run" \notin Outside
    BY DEF Outside, Schedules
  <1> HIDE DEF visits
  <1> QED
    BY <1>1, <1>2, <1>3, <1>u, FiberStep

(* The fiber enters the program of its vertex, or leaves the message behind for *)
(* the one that is in it.                                                       *)
LEMMA EnterKeeps ==
  ASSUME ProgramInv, NEW f \in EngineFiber, get_exclusive_access_to_vertex(f)
  PROVE  ProgramInv'
  <1>r. DOMAIN agent[f] = Field /\ EngineFiber \subseteq EngineAgent
    BY Records DEF EngineAgent
  <1>p. agent[f].pc = "eval" /\ agent[f].pc \in Outside
    BY DEF get_exclusive_access_to_vertex, Doing, Outside
  <1> DEFINE v == agent[f].v
             leaves == [agent[f] EXCEPT !.pc = "next", !.msg = {}]
             runs == [agent[f] EXCEPT !.pc = "run"]
  <1>0. /\ DOMAIN leaves = Field /\ leaves.pc = "next" /\ leaves.pc \in Outside
        /\ DOMAIN runs = Field /\ runs.pc = "run" /\ runs.v = v
    BY <1>r DEF Field, Outside
  <1>1. CASE v \in program_running
    <2>1. Become(f, leaves) /\ program_running' = program_running /\ hasnext' = hasnext \cup {v}
      BY <1>1 DEF get_exclusive_access_to_vertex, SomeoneElseRunning
    <2>2. Shaped' /\ agent'[f] = leaves /\ \A b \in EngineAgent \ {f} : agent'[b] = agent[b]
      BY <2>1, <1>0, <1>r, Becomes DEF ProgramInv
    <2>3. \A g \in EngineFiber : /\ InProgram(g)' <=> InProgram(g)
                                 /\ InProgram(g) => agent'[g].v = agent[g].v
      BY <2>2, <1>0, <1>p, <1>r DEF InProgram
    <2>4. BitsRight'
      BY <1>1, <2>1, <2>3 DEF ProgramInv, BitsRight
    <2>5. ReturnsToProgram'
      BY <2>2, <1>0, <1>r DEF ProgramInv, ReturnsToProgram
    <2> QED
      BY <2>2, <2>4, <2>5 DEF ProgramInv
  <1>2. CASE v \notin program_running
    <2>1. Become(f, runs) /\ program_running' = program_running \cup {v} /\ hasnext' = hasnext
      BY <1>2 DEF get_exclusive_access_to_vertex, SomeoneElseRunning, Go
    <2>2. Shaped' /\ agent'[f] = runs /\ \A b \in EngineAgent \ {f} : agent'[b] = agent[b]
      BY <2>1, <1>0, <1>r, Becomes DEF ProgramInv
    <2>3. InProgram(f)' /\ agent'[f].v = v /\ ~InProgram(f)
      BY <2>2, <1>0, <1>p DEF InProgram, Outside
    <2>4. \A g \in EngineFiber \ {f} : agent'[g] = agent[g] /\ (InProgram(g)' <=> InProgram(g))
      BY <2>2, <1>r DEF InProgram
    <2>5. \A g \in EngineFiber : InProgram(g) => agent[g].v # v
      BY <1>2 DEF ProgramInv, BitsRight
    <2>6. BitsRight'
      <3>1. (\A g \in EngineFiber : InProgram(g) => agent[g].v \in program_running)'
        BY <2>1, <2>3, <2>4 DEF ProgramInv, BitsRight
      <3>2. (\A w \in program_running : \E g \in EngineFiber : InProgram(g) /\ agent[g].v = w)'
        <4> SUFFICES ASSUME NEW w \in program_running'
                     PROVE  \E g \in EngineFiber : InProgram(g)' /\ agent'[g].v = w
          OBVIOUS
        <4>1. CASE w = v
          BY <4>1, <2>3
        <4>2. CASE w # v
          <5>1. PICK g \in EngineFiber : InProgram(g) /\ agent[g].v = w
            BY <4>2, <2>1 DEF ProgramInv, BitsRight
          <5> QED
            BY <5>1, <2>3, <2>4
        <4> QED
          BY <4>1, <4>2
      <3>3. (\A g, k \in EngineFiber : InProgram(g) /\ InProgram(k) /\ g # k
                                         => agent[g].v # agent[k].v)'
        BY <2>3, <2>4, <2>5 DEF ProgramInv, BitsRight
      <3>4. (hasnext \subseteq program_running)'
        BY <2>1 DEF ProgramInv, BitsRight
      <3> QED
        BY <3>1, <3>2, <3>3, <3>4 DEF BitsRight
    <2>7. ReturnsToProgram'
      BY <2>2, <1>0, <1>r DEF ProgramInv, ReturnsToProgram
    <2> QED
      BY <2>2, <2>6, <2>7 DEF ProgramInv
  <1> QED
    BY <1>1, <1>2

(* The end of a program: its vertex loses the bit, and nobody else had it.      *)
LEMMA LeaveKeeps ==
  ASSUME ProgramInv, NEW f \in EngineFiber, InProgram(f),
         Become(f, [agent[f] EXCEPT !.pc = "next"]),
         program_running' = program_running \ {agent[f].v},
         hasnext' = hasnext \ {agent[f].v}
  PROVE  ProgramInv'
  <1> DEFINE v == agent[f].v
             next == [agent[f] EXCEPT !.pc = "next"]
  <1>r. DOMAIN agent[f] = Field /\ EngineFiber \subseteq EngineAgent
    BY Records DEF EngineAgent
  <1>0. DOMAIN next = Field /\ next.pc = "next" /\ "next" \in Outside
    BY <1>r DEF Field, Outside
  <1>1. Shaped' /\ agent'[f] = next /\ \A b \in EngineAgent \ {f} : agent'[b] = agent[b]
    BY <1>0, <1>r, Becomes DEF ProgramInv
  <1>2. ~InProgram(f)'
    BY <1>0, <1>1 DEF InProgram
  <1>3. \A g \in EngineFiber \ {f} : agent'[g] = agent[g] /\ (InProgram(g)' <=> InProgram(g))
    BY <1>1, <1>r DEF InProgram
  <1>4. \A g \in EngineFiber \ {f} : InProgram(g) => agent[g].v # v
    BY DEF ProgramInv, BitsRight
  <1>5. BitsRight'
    <2>1. (\A g \in EngineFiber : InProgram(g) => agent[g].v \in program_running)'
      BY <1>2, <1>3, <1>4 DEF ProgramInv, BitsRight
    <2>2. (\A w \in program_running : \E g \in EngineFiber : InProgram(g) /\ agent[g].v = w)'
      <3> SUFFICES ASSUME NEW w \in program_running \ {v}
                   PROVE  \E g \in EngineFiber : InProgram(g)' /\ agent'[g].v = w
        OBVIOUS
      <3>1. PICK g \in EngineFiber : InProgram(g) /\ agent[g].v = w
        BY DEF ProgramInv, BitsRight
      <3> QED
        BY <3>1, <1>3
    <2>3. (\A g, k \in EngineFiber : InProgram(g) /\ InProgram(k) /\ g # k
                                       => agent[g].v # agent[k].v)'
      BY <1>2, <1>3 DEF ProgramInv, BitsRight
    <2>4. (hasnext \subseteq program_running)'
      BY DEF ProgramInv, BitsRight
    <2> QED
      BY <2>1, <2>2, <2>3, <2>4 DEF BitsRight
  <1>6. ReturnsToProgram'
    BY <1>1, <1>0, <1>r DEF ProgramInv, ReturnsToProgram
  <1> QED
    BY <1>1, <1>5, <1>6 DEF ProgramInv

LEMMA ReleaseKeeps ==
  ASSUME ProgramInv, NEW f \in EngineFiber, release_exclusive_access_to_vertex(f) \/ ReleaseNext(f)
  PROVE  ProgramInv'
  <1>r. DOMAIN agent[f] = Field
    BY Records DEF EngineAgent
  <1>p. agent[f].pc \in {"edges", "release"} /\ agent[f].pc \notin Outside
    BY DEF release_exclusive_access_to_vertex, ReleaseNext, Visited, Doing, Outside
  <1>1. CASE release_exclusive_access_to_vertex(f) /\ agent[f].v \in hasnext
    <2> DEFINE now == [agent[f] EXCEPT !.pc = "schedule", !.to = agent[f].v, !.ret = "release"]
    <2>1. Become(f, now) /\ UNCHANGED <<program_running, hasnext>>
      BY <1>1 DEF release_exclusive_access_to_vertex
    <2>2. /\ DOMAIN now = Field /\ now.pc \notin Outside /\ now.v = agent[f].v
          /\ now.ret = "release"
      BY <1>r DEF Field, Outside
    <2> QED
      BY <2>1, <2>2, <1>p, FiberStep
  <1>2. CASE release_exclusive_access_to_vertex(f) /\ agent[f].v \notin hasnext
    <2>1. /\ Become(f, [agent[f] EXCEPT !.pc = "next"])
          /\ program_running' = program_running \ {agent[f].v}
          /\ hasnext' = hasnext \ {agent[f].v}
      BY <1>2 DEF release_exclusive_access_to_vertex, Go
    <2> QED
      BY <2>1, <1>p, LeaveKeeps DEF InProgram
  <1>3. CASE ReleaseNext(f)
    <2>1. /\ Become(f, [agent[f] EXCEPT !.pc = "next"])
          /\ program_running' = program_running \ {agent[f].v}
          /\ hasnext' = hasnext \ {agent[f].v}
      BY <1>3 DEF ReleaseNext, Go
    <2> QED
      BY <2>1, <1>p, LeaveKeeps DEF InProgram
  <1> QED
    BY <1>1, <1>2, <1>3

LEMMA NextProgram == ProgramInv /\ [EngineNext]_engineVars => ProgramInv'
  <1> SUFFICES ASSUME ProgramInv, [EngineNext]_engineVars PROVE ProgramInv'
    OBVIOUS
  <1>1. CASE UNCHANGED engineVars
    BY <1>1 DEF engineVars, schedVars, vertexVars, ProgramInv, Shaped, ReturnsToProgram, BitsRight,
                InProgram
  <1>2. CASE \E f \in EngineFiber : get_next(f) \/ Steal(f) \/ get_next_sched_task(f)
    BY <1>2, SchedulerKeeps
  <1>3. CASE \E f \in EngineFiber :
               \/ try_to_quit(f) \/ begin_done_critical_section(f) \/ cancel_critical_section(f)
               \/ end_done_critical_section(f) \/ Leave(f) \/ Forward(f)
    BY <1>3, QuitKeeps
  <1>4. CASE \E f \in EngineFiber : get_exclusive_access_to_vertex(f)
    BY <1>4, EnterKeeps
  <1>5. CASE \E f \in EngineFiber : Gather(f) \/ Apply(f)
    BY <1>5, VisitKeeps
  <1>6. CASE \E f \in EngineFiber : release_exclusive_access_to_vertex(f) \/ ReleaseNext(f)
    BY <1>6, ReleaseKeeps
  <1>7. CASE \E a \in EngineAgent :
               \/ Schedule(a) \/ Push(a) \/ cancel(a) \/ LockFirst(a) \/ LockSecond(a)
               \/ internal_signal(a) \/ Unlock(a)
    BY <1>7, EdgesKeep
  <1>8. CASE \E a \in EngineAgent : WakeSleepers(a)
    BY <1>8, WakeSleepersKeeps
  <1>9. CASE \E h \in EngineHandler : \E c \in calls :
               \/ rpc_signal(h, c) \/ set_endgame_mode(h, c)
               \/ perform_gather(h, c) \/ perform_scatter(h, c)
    BY <1>9, HandlersKeep
  <1>10. CASE \E h \in EngineHandler : Answer(h)
    BY <1>10, AnswerKeeps
  <1>11. CASE Consensus
    BY <1>11, ConsensusKeeps
  <1> QED
    BY <1>1, <1>2, <1>3, <1>4, <1>5, <1>6, <1>7, <1>8, <1>9, <1>10, <1>11 DEF EngineNext

(* The bits program_running and hasnext of get_ and                             *)
(* release_exclusive_access_to_vertex always tell which programs run.           *)
THEOREM ProgramInvariant == EngineSpec => []ProgramInv
  BY InitProgram, NextProgram, PTL DEF EngineSpec

(* Vertex programs exclude each other (get_exclusive_access_to_vertex), and a   *)
(* message left behind has a program that will schedule it when it ends         *)
(* (release_exclusive_access_to_vertex), for any number of machines, fibers,    *)
(* handlers, queues, vertices and signals, with or without a timeout.           *)
THEOREM ProgramsExclusive == EngineSpec => []OneProgram
  <1>1. ProgramInv => OneProgram
    BY DEF ProgramInv, BitsRight, OneProgram
  <1> QED
    BY <1>1, ProgramInvariant, PTL
=============================================================================

------------------------------ MODULE Workflow ------------------------------
(* A workflow as the control plane sees it (core/workflow.py, core/state.py): *)
(* the resolved state graph, the named operations derived from it, and the    *)
(* two ways a task moves along it, the gated transition and the user's free   *)
(* move.  A task is a record; the fields used here are workflow, state, turn  *)
(* and history.                                                               *)
EXTENDS Naturals, Sequences

CONSTANT Graph   \* workflow name -> its resolved graph (see WellFormedGraph)

WorkflowName == DOMAIN Graph
Complete     == "COMPLETE"
Dropped      == "DROPPED"
Actor        == {"user", "agent"}
Status       == {"pending", "met", "failed"}
WakeStatus   == {"pending", "delivered", "skipped"}

Label(w)            == Graph[w].labels
Transitions(w, s)   == Graph[w].dests[s]
IsTerminal(w, s)    == s \in Graph[w].terminals
TurnOnEnter(w, s)   == IF s \in Graph[w].agentTurn THEN "agent" ELSE "user"
AdvancedByAgent(w, s) == s \in Graph[w].agentAdvanced

(* What Workflow._graph validates once per workflow: both built-in terminals  *)
(* exist, a terminal state has no way out, every other state can be dropped,  *)
(* a declared operation targets a legal edge and `drop` targets DROPPED.      *)
WellFormedGraph(g) ==
  /\ {Complete, Dropped} \subseteq g.terminals
  /\ g.terminals \subseteq g.labels
  /\ g.initial \in g.labels \ g.terminals
  /\ g.dests \in [g.labels -> SUBSET g.labels]
  /\ \A s \in g.labels :
       IF s \in g.terminals THEN g.dests[s] = {} ELSE Dropped \in g.dests[s]
  /\ DOMAIN g.declared = g.labels
  /\ \A s \in g.labels : \A v \in DOMAIN g.declared[s] :
       /\ g.declared[s][v] \in g.dests[s]
       /\ v = "drop" => g.declared[s][v] = Dropped
  /\ g.agentTurn \subseteq g.labels \ g.terminals
  /\ g.agentAdvanced \subseteq g.labels
  /\ DOMAIN g.promised = g.labels
  /\ g.reviewed \in BOOLEAN

ASSUME GraphAssumption == \A w \in WorkflowName : WellFormedGraph(Graph[w])

-----------------------------------------------------------------------------
(* Named operations *)

Forward(w, s) == Transitions(w, s) \ {Dropped}

HasSingleForward(w, s) == \E d \in Forward(w, s) : Forward(w, s) = {d}

(* `advance` is derived only from a single forward edge, `drop` is implicit. *)
Verbs(w, s) ==
  IF IsTerminal(w, s) THEN {}
  ELSE DOMAIN Graph[w].declared[s] \cup {"drop"}
         \cup (IF HasSingleForward(w, s) THEN {"advance"} ELSE {})

ResolveOperation(w, s, v) ==
  IF v \in DOMAIN Graph[w].declared[s] THEN Graph[w].declared[s][v]
  ELSE IF v = "drop" THEN Dropped
  ELSE CHOOSE d \in Forward(w, s) : Forward(w, s) = {d}

-----------------------------------------------------------------------------
(* A task in its workflow *)

CurrentEntry(task) == task.history[Len(task.history)]

Outstanding(promises) == {k \in DOMAIN promises : promises[k] = "pending"}

(* The entry recorded on entering state to: its promises, all pending, and    *)
(* whether a runner owes the agent a wake-up.                                 *)
NewEntry(w, from, to, trigger) ==
  [from     |-> from,
   to       |-> to,
   trigger  |-> trigger,
   promises |-> [k \in Graph[w].promised[to] |-> "pending"],
   wake     |-> IF TurnOnEnter(w, to) = "agent" /\ ~IsTerminal(w, to)
                THEN "pending" ELSE "skipped"]

Enter(task, to, trigger) ==
  [task EXCEPT
     !.history = Append(@, NewEntry(task.workflow, task.state, to, trigger)),
     !.state   = to,
     !.turn    = TurnOnEnter(task.workflow, to)]

(* A slip in that guard: the gate is forgotten. *)
MayApplyUngated(task, to) ==
  /\ ~IsTerminal(task.workflow, task.state)
  /\ to \in Transitions(task.workflow, task.state)

(* apply_transition's guard: not terminal, a legal edge and, unless the task  *)
(* is being dropped, nothing promised in the current state is outstanding.    *)
MayApply(task, to) ==
  /\ ~IsTerminal(task.workflow, task.state)
  /\ to \in Transitions(task.workflow, task.state)
  /\ to # Dropped => Outstanding(CurrentEntry(task).promises) = {}

(* force_transition's guard: the target state merely exists. *)
MayForce(task, to) == to \in Label(task.workflow)

StartEntry(w) ==
  [NewEntry(w, "none", Graph[w].initial, "start") EXCEPT !.wake = "skipped"]
=============================================================================

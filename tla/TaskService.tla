---------------------------- MODULE TaskService ----------------------------
(* The task service's mutations of the task records (taskservice/service.py)  *)
(* over the store's whole-row save (core/store.py, store_sqlalchemy.py).      *)
(*                                                                            *)
(* One asyncio loop serves every request; a handler gives up control at each  *)
(* await on the store.  A mutation is therefore several steps: take the locks *)
(* the handler takes, load the task, change the loaded copy, read the stored  *)
(* history the copy is validated against, and write the whole row back.       *)
(* Requests interleave between those steps, and a crash of the service loses  *)
(* the requests and the locks but no committed row.                           *)
(*                                                                            *)
(* Tasks of this module have no recorded workspace and their repository is    *)
(* never paused, so the migration and setup guards of claim hold trivially.   *)
EXTENDS Workflow, FiniteSets

CONSTANTS
  Task,        \* task ids, those still to be created included
  Born,        \* the tasks present at the start: id -> [workflow, governor]
  Runner,      \* session services that may claim a task
  Fact,        \* values of the recorded facts nothing here interprets (url, snooze, estimate)
  Req,         \* request handlers that may be in flight at once
  Call,        \* the calls clients may issue: [op, task, arg]
  MaxCalls,    \* bound on the calls issued in a behaviour
  MayCrash,    \* whether the service process may die
  Nil

VARIABLES
  row,         \* task id -> the persisted task, for the tasks created so far
  request,     \* handler -> what it is executing
  arg,         \* handler -> the argument of its call
  taskLock,    \* _transition_locks: the handler holding each task's lock
  graphLock,   \* _dependency_lock: the handler holding it
  calls        \* calls issued so far

vars == <<row, request, arg, taskLock, graphLock, calls>>

ReviewWorkflow == "review"

(* Handlers entering `async with self._transition_lock(task_id)`, and those   *)
(* entering `async with self._dependency_lock` (inside the former, if both).  *)
TransitionOp  == {"apply_operation", "request_transition", "set_state", "resolve_responsibility"}
TaskLockedOp  == TransitionOp \cup {"record_stage_entry_wake"}
GraphLockedOp == TransitionOp \cup {"create_task", "claim", "set_dependencies", "pause_launch", "retry_task"}
UnlockedOp    == {"release", "set_turn", "set_blocked", "set_attention", "set_fact", "set_governor"}
Op            == TaskLockedOp \cup GraphLockedOp \cup UnlockedOp

(* What the HTTP layer has validated when a handler starts. *)
ValidArg(op, a) ==
  /\ op \in {"claim", "pause_launch"} => a \in Runner
  /\ op = "resolve_responsibility"    => a.status \in {"met", "failed"}
  /\ op = "record_stage_entry_wake"   => a.status \in {"delivered", "skipped"}
  /\ op = "set_dependencies"          => a \subseteq Task
  /\ op = "create_task"               => a.governor \in Task \cup {Nil}
  /\ op = "set_turn"                  => a \in Actor
  /\ op \in {"set_blocked", "set_attention"} => a \in BOOLEAN
  /\ op = "set_fact"                  => a \in Fact

ASSUME CallAssumption ==
  \A c \in Call : /\ c.op \in Op
                  /\ ValidArg(c.op, c.arg)
                  /\ c.op # "create_task" => c.task \in Task
                  /\ c.task \in Task \cup {Nil}

ASSUME BornAssumption ==
  /\ DOMAIN Born \subseteq Task
  /\ \A id \in DOMAIN Born : /\ Born[id].workflow \in WorkflowName
                            /\ Born[id].governor \in Task \cup {Nil}

ASSUME ConstantAssumption ==
  /\ MaxCalls \in Nat
  /\ Nil \notin Req

-----------------------------------------------------------------------------
(* The store *)

TransitionFacts(entry) == <<entry.from, entry.to, entry.trigger>>

(* validate_history_append_only *)
AppendOnly(stored, incoming) ==
  /\ Len(incoming) >= Len(stored)
  /\ \A i \in 1..Len(stored) :
       /\ TransitionFacts(stored[i]) = TransitionFacts(incoming[i])
       /\ stored[i].wake # incoming[i].wake
            => stored[i].wake = "pending" /\ incoming[i].wake # "pending"
       /\ i < Len(stored) => stored[i].promises = incoming[i].promises

(* validate_task_consistency *)
Consistent(task) == task.state = CurrentEntry(task).to

(* The history rows after _update_task: entries the writer knew take its wake *)
(* status, the last of them its promises, the new ones are inserted.          *)
SettledHistory(old, incoming, n) ==
  [i \in 1..Len(old) |->
     IF i < n THEN [old[i] EXCEPT !.wake = incoming[i].wake]
     ELSE IF i = n THEN [old[i] EXCEPT !.wake = incoming[i].wake, !.promises = incoming[i].promises]
     ELSE old[i]]

(* _update_task: every column but the launch pause is overwritten. *)
UpdatedRow(old, task, n) ==
  [task EXCEPT
     !.launchPaused = old.launchPaused,
     !.history = SettledHistory(old.history, task.history, n)
                   \o SubSeq(task.history, n + 1, Len(task.history))]

(* The integrity errors _update_task itself can raise: another promise set on *)
(* the current entry, or a new entry whose sequence number is already taken.  *)
Writable(old, task, n) ==
  /\ DOMAIN old.history[n].promises = DOMAIN task.history[n].promises
  /\ Len(task.history) > n => Len(old.history) = n

NewTask(w, governor) ==
  [workflow     |-> w,
   state        |-> Graph[w].initial,
   turn         |-> TurnOnEnter(w, Graph[w].initial),
   blocked      |-> FALSE,
   attention    |-> FALSE,
   claimed      |-> Nil,
   governor     |-> governor,
   dependsOn    |-> {},
   launchPaused |-> FALSE,
   fact         |-> Nil,
   history      |-> <<StartEntry(w)>>]

Inserted(id, task) == [x \in DOMAIN row \cup {id} |-> IF x = id THEN task ELSE row[x]]

-----------------------------------------------------------------------------
(* Requests *)

Idle == [pc |-> "idle", op |-> Nil, stack |-> <<>>, task |-> Nil,
         stored |-> 0, moved |-> FALSE]

(* The stack has one frame per task whose transition is under way: a dropped  *)
(* governor's request drops its governed tasks while still holding its lock.  *)
Frame(id)  == [task |-> id, todo |-> {}]
Target(r)  == request[r].stack[Len(request[r].stack)].task
Loaded(r)  == row[Target(r)]
At(r, pc, op) == request[r].pc = pc /\ request[r].op = op

(* A slip: settling a wake is treated like the plain recorded facts. *)
FirstStepWakeUnlocked(op) ==
  IF op \in TransitionOp THEN "waitTask" ELSE IF op \in GraphLockedOp THEN "waitGraph" ELSE "load"

FirstStep(op) == IF op \in TaskLockedOp THEN "waitTask"
                 ELSE IF op \in GraphLockedOp THEN "waitGraph" ELSE "load"

Terminal(task) == IsTerminal(task.workflow, task.state)

Init ==
  /\ row = [id \in DOMAIN Born |-> NewTask(Born[id].workflow, Born[id].governor)]
  /\ request = [r \in Req |-> Idle]
  /\ arg = [r \in Req |-> Nil]
  /\ taskLock = [id \in Task |-> Nil]
  /\ graphLock = Nil
  /\ calls = 0

Begin(r) ==
  /\ request[r].pc = "idle"
  /\ calls < MaxCalls
  /\ \E c \in Call :
       /\ c.op # "create_task" => c.task \in DOMAIN row
       /\ request' = [request EXCEPT ![r] =
            [Idle EXCEPT !.pc = FirstStep(c.op), !.op = c.op, !.stack = <<Frame(c.task)>>]]
       /\ arg' = [arg EXCEPT ![r] = c.arg]
  /\ calls' = calls + 1
  /\ UNCHANGED <<row, taskLock, graphLock>>

(* A slip: the task's section is entered without waiting for its holder. *)
AcquireTaskLockAnyway(r) ==
  /\ request[r].pc = "waitTask"
  /\ taskLock' = [taskLock EXCEPT ![Target(r)] = r]
  /\ request' = [request EXCEPT ![r].pc =
       IF request[r].op \in GraphLockedOp THEN "waitGraph" ELSE "load"]
  /\ UNCHANGED <<row, arg, graphLock, calls>>

AcquireTaskLock(r) ==
  /\ request[r].pc = "waitTask"
  /\ taskLock[Target(r)] = Nil
  /\ taskLock' = [taskLock EXCEPT ![Target(r)] = r]
  /\ request' = [request EXCEPT ![r].pc =
       IF request[r].op \in GraphLockedOp THEN "waitGraph" ELSE "load"]
  /\ UNCHANGED <<row, arg, graphLock, calls>>

(* A slip: the section is entered without waiting for its holder. *)
AcquireGraphLockAnyway(r) ==
  /\ request[r].pc = "waitGraph"
  /\ graphLock' = r
  /\ request' = [request EXCEPT ![r].pc = "load"]
  /\ UNCHANGED <<row, arg, taskLock, calls>>

AcquireGraphLock(r) ==
  /\ request[r].pc = "waitGraph"
  /\ graphLock = Nil
  /\ graphLock' = r
  /\ request' = [request EXCEPT ![r].pc = "load"]
  /\ UNCHANGED <<row, arg, taskLock, calls>>

ReleaseGraphLock(r) == graphLock' = IF graphLock = r THEN Nil ELSE graphLock

(* An exception leaves every `async with` the request is inside. *)
Fail(r) ==
  /\ request' = [request EXCEPT ![r] = Idle]
  /\ arg' = [arg EXCEPT ![r] = Nil]
  /\ taskLock' = [id \in Task |-> IF taskLock[id] = r THEN Nil ELSE taskLock[id]]
  /\ ReleaseGraphLock(r)
  /\ UNCHANGED <<row, calls>>

(* The handler of the current task returns: to the governor's cascade that    *)
(* called it, or to the client.                                               *)
ReturnFrom(r) ==
  LET stack == request[r].stack
      outer == SubSeq(stack, 1, Len(stack) - 1)
  IN  /\ taskLock' = IF taskLock[Target(r)] = r
                     THEN [taskLock EXCEPT ![Target(r)] = Nil] ELSE taskLock
      /\ request' = [request EXCEPT ![r] =
           IF outer = <<>> THEN Idle
           ELSE [Idle EXCEPT !.pc = "cascade", !.op = "request_transition", !.stack = outer]]
      /\ arg' = [arg EXCEPT ![r] = IF outer = <<>> THEN Nil ELSE Dropped]

(* The handler goes on to save the task as it changed it. *)
Save(r, task) ==
  /\ request' = [request EXCEPT ![r].pc = "validate", ![r].task = task]
  /\ UNCHANGED <<row, arg, taskLock, graphLock, calls>>
-----------------------------------------------------------------------------
(* Transitions: the handlers that hold both locks *)

(* _commit_transition up to the save: the entry, the cleared block and, on    *)
(* entering a reviewed REVIEW state, the promise to address the verdict.      *)
Transit(r, task, to, trigger) ==
  LET entered  == [Enter(task, to, trigger) EXCEPT !.blocked = FALSE]
      reviewed == to = "REVIEW" /\ Graph[task.workflow].reviewed
      last     == Len(entered.history)
      promised == [k \in DOMAIN entered.history[last].promises \cup {"review-addressed"} |->
                     "pending"]
  IN  /\ request' = [request EXCEPT
           ![r].pc    = IF reviewed THEN "review" ELSE "validate",
           ![r].moved = TRUE,
           ![r].task  = IF reviewed THEN [entered EXCEPT !.history[last].promises = promised]
                        ELSE entered]
      /\ UNCHANGED <<row, arg, taskLock, graphLock, calls>>

(* Every gated handler ends in apply_transition, which raises unless MayApply. *)
Gated(r, task, to, trigger) ==
  IF MayApply(task, to) THEN Transit(r, task, to, trigger) ELSE Fail(r)

ApplyOperation(r) ==
  /\ At(r, "load", "apply_operation")
  /\ LET task == Loaded(r)
         verb == arg[r]
     IN  IF verb \in Verbs(task.workflow, task.state)
         THEN Gated(r, task, ResolveOperation(task.workflow, task.state, verb), verb)
         ELSE Fail(r)

RequestTransition(r) ==
  /\ At(r, "load", "request_transition")
  /\ Gated(r, Loaded(r), arg[r],
           IF Len(request[r].stack) > 1 THEN "cascade-drop" ELSE "request")

SetState(r) ==
  /\ At(r, "load", "set_state")
  /\ IF MayForce(Loaded(r), arg[r])
     THEN Transit(r, Loaded(r), arg[r], "set-state") ELSE Fail(r)

AdvancesItself(task) ==
  /\ "advance" \in Verbs(task.workflow, task.state)
  /\ AdvancedByAgent(task.workflow, task.state)

(* Resolving the last promise of a state the agent leaves by itself advances  *)
(* the very task the promise was resolved on, in the same save.               *)
ResolveResponsibility(r) ==
  /\ At(r, "load", "resolve_responsibility")
  /\ LET task     == Loaded(r)
         key      == arg[r].key
         last     == Len(task.history)
         resolved == [task EXCEPT !.history[last].promises[key] = arg[r].status]
     IN  IF key \notin DOMAIN CurrentEntry(task).promises THEN Fail(r)
         ELSE IF Outstanding(CurrentEntry(resolved).promises) = {} /\ AdvancesItself(task)
              THEN Gated(r, resolved,
                         ResolveOperation(task.workflow, task.state, "advance"), "advance")
              ELSE Save(r, resolved)

(* _create_review_task_on_entry: the governed review task is inserted before  *)
(* the authoring transition is saved; a rejected creation keeps the promise   *)
(* and leaves the author unblocked.                                           *)
CreateReviewTask(r) ==
  /\ request[r].pc = "review"
  /\ \/ \E id \in Task \ DOMAIN row :
          /\ ReviewWorkflow \in WorkflowName
          /\ row' = Inserted(id, NewTask(ReviewWorkflow, Target(r)))
          /\ request' = [request EXCEPT ![r].pc = "validate", ![r].task.blocked = TRUE]
     \/ /\ request' = [request EXCEPT ![r].pc = "validate"]
        /\ UNCHANGED row
  /\ UNCHANGED <<arg, taskLock, graphLock, calls>>

-----------------------------------------------------------------------------
(* Handlers that hold one lock *)

(* Re-recording a settled wake returns at once, settling it otherwise raises: *)
(* either way nothing is saved.                                               *)
RecordStageEntryWake(r) ==
  /\ At(r, "load", "record_stage_entry_wake")
  /\ LET task == Loaded(r)
         i    == arg[r].index
     IN  IF i \in DOMAIN task.history /\ task.history[i].wake = "pending"
         THEN Save(r, [task EXCEPT !.history[i].wake = arg[r].status])
         ELSE Fail(r)

(* A slip: a dropped dependency counts as done. *)
DependencyBlocksUnlessEnded(id) == ~Terminal(row[id])

(* Whether a dependency still withholds the work it was to supply. *)
DependencyBlocks(id) == row[id].state = Dropped \/ ~Terminal(row[id])

DependenciesBlocking(task) ==
  \E id \in task.dependsOn : id \notin DOMAIN row \/ DependencyBlocks(id)

(* claim first looks at the task it loaded, then at its dependencies' rows. *)
Claim(r) ==
  /\ At(r, "load", "claim")
  /\ IF Loaded(r).claimed \in {Nil, arg[r]} /\ ~Loaded(r).launchPaused
     THEN /\ request' = [request EXCEPT ![r].pc = "ready", ![r].task = Loaded(r)]
          /\ UNCHANGED <<row, arg, taskLock, graphLock, calls>>
     ELSE Fail(r)

ClaimIfReady(r) ==
  /\ request[r].pc = "ready"
  /\ LET task == request[r].task
     IN  IF task.claimed = Nil /\ (Terminal(task) \/ DependenciesBlocking(task))
         THEN Fail(r)
         ELSE Save(r, [task EXCEPT !.claimed = arg[r]])

Closed(graph, ids) == \A x \in ids : graph[x] \subseteq ids

(* The tasks that every closed set of tasks with id in it contains. *)
ReachableFrom(graph, id) ==
  {x \in DOMAIN graph : \A ids \in SUBSET DOMAIN graph :
                           (id \in ids /\ Closed(graph, ids)) => x \in ids}

(* _dependency_cycle(graph, id) finds one. *)
CycleFrom(graph, id) ==
  \E x \in ReachableFrom(graph, id) : \E y \in graph[x] : x \in ReachableFrom(graph, y)

DependencyGraph == [id \in DOMAIN row |-> row[id].dependsOn]

SetDependencies(r) ==
  /\ At(r, "load", "set_dependencies")
  /\ IF arg[r] \subseteq DOMAIN row
     THEN /\ request' = [request EXCEPT ![r].pc = "acyclic", ![r].task = Loaded(r)]
          /\ UNCHANGED <<row, arg, taskLock, graphLock, calls>>
     ELSE Fail(r)

(* A slip: the graph that is searched is without the edges to be recorded. *)
ValidateStoredOnly(r) ==
  /\ request[r].pc = "acyclic"
  /\ IF CycleFrom(DependencyGraph, Target(r))
     THEN Fail(r)
     ELSE Save(r, [request[r].task EXCEPT !.dependsOn = arg[r]])

(* _validate_dependencies lists the tasks after the handler loaded its own. *)
ValidateDependencies(r) ==
  /\ request[r].pc = "acyclic"
  /\ IF CycleFrom([DependencyGraph EXCEPT ![Target(r)] = arg[r]], Target(r))
     THEN Fail(r)
     ELSE Save(r, [request[r].task EXCEPT !.dependsOn = arg[r]])

(* The new id is a fresh uuid; a review task must name a governor. *)
CreateTask(r) ==
  /\ At(r, "load", "create_task")
  /\ LET new == arg[r]
     IN  \/ /\ new.workflow \in WorkflowName
            /\ new.workflow = ReviewWorkflow => new.governor # Nil
            /\ new.governor # Nil => new.governor \in DOMAIN row
            /\ new.dependsOn \subseteq DOMAIN row
            /\ \A d \in new.dependsOn : ~CycleFrom(DependencyGraph, d)
            /\ \E id \in Task \ DOMAIN row :
                 row' = Inserted(id, [NewTask(new.workflow, new.governor)
                                        EXCEPT !.dependsOn = new.dependsOn])
            /\ request' = [request EXCEPT ![r] = Idle]
            /\ arg' = [arg EXCEPT ![r] = Nil]
            /\ ReleaseGraphLock(r)
            /\ UNCHANGED <<taskLock, calls>>
         \/ Fail(r)

(* report_lifecycle(FAILED, pause_launch=True) by the claiming runner. *)
PauseLaunch(r) ==
  /\ At(r, "load", "pause_launch")
  /\ IF Loaded(r).claimed = arg[r]
     THEN /\ request' = [request EXCEPT ![r].pc = "target"]
          /\ UNCHANGED <<row, arg, taskLock, graphLock, calls>>
     ELSE Fail(r)

(* Registrations and launch phases, which may also refuse the retry, are      *)
(* connection-scoped facts outside this module.                               *)
RetryTask(r) ==
  /\ At(r, "load", "retry_task")
  /\ \/ /\ ~Terminal(Loaded(r))
        /\ request' = [request EXCEPT ![r].pc = "target"]
        /\ UNCHANGED <<row, arg, taskLock, graphLock, calls>>
     \/ Fail(r)

(* set_task_launch_pause: an UPDATE of its own columns, no row is re-read. *)
SetLaunchPause(r) ==
  /\ request[r].pc = "target"
  /\ row' = IF request[r].op = "pause_launch"
            THEN [row EXCEPT ![Target(r)].launchPaused = TRUE]
            ELSE [row EXCEPT ![Target(r)].launchPaused = FALSE, ![Target(r)].claimed = Nil]
  /\ request' = [request EXCEPT ![r] = Idle]
  /\ arg' = [arg EXCEPT ![r] = Nil]
  /\ ReleaseGraphLock(r)
  /\ UNCHANGED <<taskLock, calls>>
-----------------------------------------------------------------------------
(* Handlers that hold no lock: load, set a field or two, save. *)

Release(r) ==
  At(r, "load", "release") /\ Save(r, [Loaded(r) EXCEPT !.claimed = Nil])

(* Handing the turn to the agent means the user has addressed the task. *)
SetTurn(r) ==
  /\ At(r, "load", "set_turn")
  /\ IF arg[r] = "agent"
     THEN Save(r, [Loaded(r) EXCEPT !.turn = "agent", !.blocked = FALSE, !.attention = FALSE])
     ELSE Save(r, [Loaded(r) EXCEPT !.turn = "user"])

SetBlocked(r) ==
  At(r, "load", "set_blocked") /\ Save(r, [Loaded(r) EXCEPT !.blocked = arg[r]])

SetAttention(r) ==
  At(r, "load", "set_attention") /\ Save(r, [Loaded(r) EXCEPT !.attention = arg[r]])

(* set_url, set_snooze and set_token_estimate *)
SetFact(r) ==
  At(r, "load", "set_fact") /\ Save(r, [Loaded(r) EXCEPT !.fact = arg[r]])

SetGovernor(r) ==
  /\ At(r, "load", "set_governor")
  /\ IF arg[r] \in DOMAIN row \cup {Nil}
     THEN Save(r, [Loaded(r) EXCEPT !.governor = arg[r]])
     ELSE Fail(r)

-----------------------------------------------------------------------------
(* Store.save_task: two awaits, with other handlers' steps in between *)

Validate(r) ==
  /\ request[r].pc = "validate"
  /\ LET stored == Loaded(r).history
         task   == request[r].task
     IN  IF Consistent(task) /\ AppendOnly(stored, task.history)
         THEN /\ request' = [request EXCEPT ![r].pc = "update", ![r].stored = Len(stored)]
              /\ UNCHANGED <<row, arg, taskLock, graphLock, calls>>
         ELSE Fail(r)

(* A task moved to DROPPED goes on to its cascade, which holds the task's     *)
(* lock but no longer the dependency lock.                                    *)
Update(r) ==
  /\ request[r].pc = "update"
  /\ LET task == request[r].task
         n    == request[r].stored
     IN  IF Writable(Loaded(r), task, n)
         THEN /\ row' = [row EXCEPT ![Target(r)] = UpdatedRow(@, task, n)]
              /\ ReleaseGraphLock(r)
              /\ IF request[r].moved /\ task.state = Dropped
                 THEN /\ request' = [request EXCEPT ![r].pc = "list", ![r].task = Nil]
                      /\ UNCHANGED <<arg, taskLock>>
                 ELSE ReturnFrom(r)
              /\ UNCHANGED calls
         ELSE Fail(r)

-----------------------------------------------------------------------------
(* _cascade_drop_governed *)

(* A slip: finished tasks are listed too. *)
ListAllGoverned(r) ==
  /\ request[r].pc = "list"
  /\ request' = [request EXCEPT
       ![r].pc = "cascade",
       ![r].stack[Len(request[r].stack)].todo = {id \in DOMAIN row : row[id].governor = Target(r)}]
  /\ UNCHANGED <<row, arg, taskLock, graphLock, calls>>

ListGoverned(r) ==
  /\ request[r].pc = "list"
  /\ LET governed == {id \in DOMAIN row : row[id].governor = Target(r) /\ ~Terminal(row[id])}
     IN  request' = [request EXCEPT ![r].pc = "cascade",
                                    ![r].stack[Len(request[r].stack)].todo = governed]
  /\ UNCHANGED <<row, arg, taskLock, graphLock, calls>>

(* Ids are uuids, so the order of the loop says nothing about the tasks. *)
DropGoverned(r) ==
  /\ request[r].pc = "cascade"
  /\ LET depth == Len(request[r].stack) IN
     \E id \in request[r].stack[depth].todo :
       request' = [request EXCEPT ![r] =
         [Idle EXCEPT !.pc = "waitTask", !.op = "request_transition",
            !.stack = Append([request[r].stack EXCEPT ![depth].todo = @ \ {id}], Frame(id))]]
  /\ arg' = [arg EXCEPT ![r] = Dropped]
  /\ UNCHANGED <<row, taskLock, graphLock, calls>>

FinishCascade(r) ==
  /\ request[r].pc = "cascade"
  /\ request[r].stack[Len(request[r].stack)].todo = {}
  /\ ReturnFrom(r)
  /\ UNCHANGED <<row, graphLock, calls>>

-----------------------------------------------------------------------------
Handler(r) ==
  \/ ApplyOperation(r) \/ RequestTransition(r) \/ SetState(r) \/ ResolveResponsibility(r)
  \/ CreateReviewTask(r) \/ RecordStageEntryWake(r) \/ Claim(r) \/ ClaimIfReady(r)
  \/ SetDependencies(r) \/ ValidateDependencies(r) \/ CreateTask(r)
  \/ PauseLaunch(r) \/ RetryTask(r) \/ SetLaunchPause(r)
  \/ Release(r) \/ SetTurn(r) \/ SetBlocked(r) \/ SetAttention(r) \/ SetFact(r)
  \/ SetGovernor(r)
  \/ Validate(r) \/ Update(r)
  \/ ListGoverned(r) \/ DropGoverned(r) \/ FinishCascade(r)

(* The process dies: requests and locks live in its memory, rows do not. *)
Crash ==
  /\ MayCrash
  /\ \E r \in Req : request[r].pc # "idle"
  /\ request' = [r \in Req |-> Idle]
  /\ arg' = [r \in Req |-> Nil]
  /\ taskLock' = [id \in Task |-> Nil]
  /\ graphLock' = Nil
  /\ UNCHANGED <<row, calls>>

(* The calls of this behaviour have all been answered. *)
Quiescent == calls = MaxCalls /\ \A r \in Req : request[r].pc = "idle"

Next ==
  \/ \E r \in Req : Begin(r) \/ AcquireTaskLock(r) \/ AcquireGraphLock(r) \/ Handler(r)
  \/ Crash
  \/ Quiescent /\ UNCHANGED vars

Spec == Init /\ [][Next]_vars

(* The loop runs every handler whose await has completed, and asyncio.Lock    *)
(* wakes its waiters in arrival order.                                        *)
Fairness ==
  \A r \in Req : /\ WF_vars(Handler(r))
                 /\ SF_vars(AcquireTaskLock(r))
                 /\ SF_vars(AcquireGraphLock(r))

-----------------------------------------------------------------------------
(* Types *)

AnyLabel == UNION {Label(w) : w \in WorkflowName}
OwnKey   == UNION {UNION {Graph[w].promised[s] : s \in Label(w)} : w \in WorkflowName}
Key      == OwnKey \cup {"review-addressed"}
OwnVerb  == UNION {UNION {DOMAIN Graph[w].declared[s] : s \in Label(w)} : w \in WorkflowName}
Verb     == OwnVerb \cup {"advance", "drop"}

Promises == UNION {[keys -> Status] : keys \in SUBSET Key}

Entry ==
  [from     : AnyLabel \cup {"none"},
   to       : AnyLabel,
   trigger  : Verb \cup {"start", "set-state", "request", "cascade-drop"},
   promises : Promises,
   wake     : WakeStatus]

TaskRecord ==
  [workflow     : WorkflowName,
   state        : AnyLabel,
   turn         : Actor,
   blocked      : BOOLEAN,
   attention    : BOOLEAN,
   claimed      : Runner \cup {Nil},
   governor     : Task \cup {Nil},
   dependsOn    : SUBSET Task,
   launchPaused : BOOLEAN,
   fact         : Fact \cup {Nil},
   history      : Seq(Entry)]

Step == {"idle", "waitTask", "waitGraph", "load", "review", "ready", "acyclic", "target",
         "validate", "update", "list", "cascade"}

RequestRecord ==
  [pc     : Step,
   op     : Op \cup {Nil},
   stack  : Seq([task : Task \cup {Nil}, todo : SUBSET Task]),
   task   : TaskRecord \cup {Nil},
   stored : Nat,
   moved  : BOOLEAN]

(* Every persisted task, request and lock has the shape the code gives it,    *)
(* and a persisted task sits in a state of its own workflow.                  *)
TypeOK ==
  /\ DOMAIN row \subseteq Task
  /\ row \in [DOMAIN row -> TaskRecord]
  /\ \A id \in DOMAIN row : /\ row[id].state \in Label(row[id].workflow)
                           /\ row[id].history # <<>>
  /\ request \in [Req -> RequestRecord]
  /\ arg = [r \in Req |-> arg[r]]
  /\ taskLock \in [Task -> Req \cup {Nil}]
  /\ graphLock \in Req \cup {Nil}
  /\ calls \in 0..MaxCalls

-----------------------------------------------------------------------------
(* Safety *)

Last(task) == Len(task.history)

(* A handler that took either lock still sees the whole persisted history     *)
(* when it writes: no transition was recorded since it loaded the task, so    *)
(* none is undone by its write or decided on an outdated entry.               *)
LockedSaversCurrent ==
  \A r \in Req :
    (request[r].pc = "update" /\ request[r].op \notin UnlockedOp)
      => /\ request[r].stored = Last(Loaded(r))
         /\ Last(request[r].task) = Last(Loaded(r)) + (IF request[r].moved THEN 1 ELSE 0)

(* Only a free move may leave the declared graph: every other recorded        *)
(* transition follows an edge of the task's workflow.                         *)
HistoryFollowsGraph ==
  \A id \in DOMAIN row : \A i \in 2..Last(row[id]) :
    LET entry == row[id].history[i]
    IN  entry.trigger # "set-state" => entry.to \in Transitions(row[id].workflow, entry.from)

(* The persisted state is the one the last history entry records              *)
(* (core/store.py: "the task's state equals the last entry's to_state").      *)
StateMatchesTail == \A id \in DOMAIN row : Consistent(row[id])

(* The history is one path: each entry leaves the state its predecessor       *)
(* entered.                                                                   *)
HistoryIsPath ==
  \A id \in DOMAIN row : \A i \in 2..Last(row[id]) :
    row[id].history[i].from = row[id].history[i - 1].to

(* Promises left behind are resolved: a state left by anything but a free     *)
(* move or a drop has no pending responsibility, ever after.                  *)
LeftPromisesResolved ==
  \A id \in DOMAIN row : \A i \in 2..Last(row[id]) :
    (row[id].history[i].trigger # "set-state" /\ row[id].history[i].to # Dropped)
      => Outstanding(row[id].history[i - 1].promises) = {}

(* The gate at the moment it counts: the write that records a gated           *)
(* transition records the state it leaves with every promise resolved, no     *)
(* matter which other writers touched the row since it was loaded.            *)
GateHoldsAtAppend ==
  [][\A id \in DOMAIN row :
       LET n == Last(row[id]) IN
       (/\ Last(row'[id]) > n
        /\ row'[id].history[n + 1].trigger # "set-state"
        /\ row'[id].history[n + 1].to # Dropped)
         => Outstanding(row'[id].history[n].promises) = {}]_row

(* No handler that saves without a lock is at work. *)
NoUnlockedRequest == \A r \in Req : request[r].pc # "idle" => request[r].op \notin UnlockedOp

(* The dependency graph never has a cycle, whatever edits overlap. *)
DependenciesAcyclic ==
  \A id \in DOMAIN row : ~CycleFrom(DependencyGraph, id)

ReviewsOf(id)     == {c \in DOMAIN row : row[c].workflow = ReviewWorkflow /\ row[c].governor = id}
ReviewEntries(id) == {i \in 1..Last(row[id]) : row[id].history[i].to = "REVIEW"}
SavingReview(id)  == {r \in Req : /\ request[r].pc \in {"validate", "update"}
                                 /\ request[r].moved
                                 /\ Target(r) = id
                                 /\ request[r].task.state = "REVIEW"}

(* One governed review task per entry into REVIEW: none is created for an     *)
(* entry that is not recorded, unless that entry is still being saved.        *)
ReviewPerEntry ==
  \A id \in DOMAIN row :
    Cardinality(ReviewsOf(id)) <= Cardinality(ReviewEntries(id)) + Cardinality(SavingReview(id))

(* While a governor's cascade runs, the governor itself stays dropped: no     *)
(* free move revives it between two of its children's drops.                  *)
GovernorStaysDropped ==
  \A r \in Req : \A j \in 1..Len(request[r].stack) :
    (j < Len(request[r].stack) \/ request[r].pc \in {"list", "cascade"})
      => row[request[r].stack[j].task].state = Dropped

(* Every call is answered: no request waits for a lock for ever, not even a   *)
(* cascade that takes one task's lock after another.                          *)
EveryCallAnswered == \A r \in Req : request[r].pc # "idle" ~> request[r].pc = "idle"
-----------------------------------------------------------------------------
(* The inductive invariant behind the proofs (module TaskServiceProofs) *)

Holding == Step \ {"idle", "waitTask"}                          \* past the task lock
Inside  == Holding \ {"waitGraph", "list", "cascade"}           \* inside the dependency lock
Saving  == {"review", "ready", "acyclic", "validate", "update"}  \* working on a loaded task

Appended(r) == IF request[r].moved THEN 1 ELSE 0

(* Every step belongs to the handlers that take it. *)
StepOK(r) ==
  LET pc == request[r].pc  op == request[r].op
  IN  /\ pc # "idle" => op \in Op
      /\ pc # "idle" => ValidArg(op, arg[r])
      /\ pc = "waitTask"  => op \in TaskLockedOp
      /\ pc = "waitGraph" => op \in GraphLockedOp
      /\ pc \in {"list", "cascade"} => op \in TransitionOp
      /\ pc = "review"  => request[r].moved
      /\ pc = "ready"   => op = "claim"
      /\ pc = "acyclic" => op = "set_dependencies"
      /\ pc = "target"  => op \in {"pause_launch", "retry_task"}
      /\ request[r].moved => op \in TransitionOp
      /\ pc \in {"waitTask", "waitGraph", "load", "ready", "acyclic"} => ~request[r].moved
      /\ op = "create_task" => pc \in {"idle", "waitGraph", "load"}

(* A handler holds the locks of the sections it is inside, and its stack      *)
(* holds the lock of every governor whose cascade is under way.               *)
LocksOK(r) ==
  LET pc == request[r].pc  op == request[r].op
  IN  /\ pc \in Holding /\ op \in TaskLockedOp => taskLock[Target(r)] = r
      /\ pc \in Inside /\ op \in GraphLockedOp => graphLock = r

StackOK(r) ==
  LET stack == request[r].stack  pc == request[r].pc
  IN  pc # "idle" =>
      /\ stack # <<>>
      /\ request[r].op # "create_task" => Target(r) \in DOMAIN row
      /\ Len(stack) > 1 => request[r].op = "request_transition"
      /\ \A j \in 1..Len(stack) : stack[j].todo \subseteq DOMAIN row
      /\ \A j \in 1..(Len(stack) - 1) :
           /\ stack[j].task \in DOMAIN row
           /\ taskLock[stack[j].task] = r
      /\ \A i, j \in 1..Len(stack) :
           (i < j /\ (j < Len(stack) \/ pc # "waitTask")) => stack[i].task # stack[j].task

(* The loaded copy: never ahead of the row by more than the entry it appends, *)
(* never behind it when a lock was taken.                                     *)
CopyOK(r) ==
  LET task == request[r].task  n == request[r].stored
  IN  request[r].pc \in Saving =>
      /\ task \in TaskRecord
      /\ task.state \in Label(task.workflow)
      /\ task.history # <<>>
      /\ task.workflow = Loaded(r).workflow
      /\ request[r].moved =>
           LET entry == task.history[Last(task)]
           IN  entry.trigger # "set-state" => entry.to \in Transitions(task.workflow, entry.from)
      /\ Last(task) <= Last(Loaded(r)) + Appended(r)
      /\ request[r].op \notin UnlockedOp => Last(task) = Last(Loaded(r)) + Appended(r)
      /\ request[r].pc = "update" =>
           /\ Consistent(task)
           /\ n \in 1..Last(Loaded(r))
           /\ Last(task) = n + Appended(r)
           /\ \A i \in 1..n :
                TransitionFacts(task.history[i]) = TransitionFacts(Loaded(r).history[i])

IInv ==
  /\ TypeOK
  /\ \A r \in Req : StepOK(r) /\ LocksOK(r) /\ StackOK(r) /\ CopyOK(r)
  /\ HistoryFollowsGraph

(* A gated transition under way leaves a state with nothing outstanding. *)
GateOK(r) ==
  LET task == request[r].task  n == Last(task)
  IN  (/\ request[r].pc \in Saving
       /\ request[r].moved
       /\ task.history[n].trigger # "set-state"
       /\ task.history[n].to # Dropped)
        => Outstanding(task.history[n - 1].promises) = {}

(* The entry under way leaves the state that the copy was loaded in. *)
PathOK(r) ==
  LET task == request[r].task  n == Last(task)
  IN  (request[r].pc \in Saving /\ request[r].moved)
        => task.history[n].from = task.history[n - 1].to

(* A handler inside the dependency lock decides on the edges that are stored, *)
(* and saves what it decided on.                                              *)
EdgesDecided(r) ==
  LET task == request[r].task
  IN  /\ arg[r] \subseteq DOMAIN row
      /\ request[r].pc # "acyclic" =>
           /\ task.dependsOn = arg[r]
           /\ ~CycleFrom([DependencyGraph EXCEPT ![Target(r)] = arg[r]], Target(r))

SerialOK(r) ==
  request[r].pc \in Saving =>
    IF request[r].op = "set_dependencies" THEN EdgesDecided(r)
    ELSE request[r].task.dependsOn = Loaded(r).dependsOn

(* Where only handlers that take a lock are called, more is inductive. *)
LockedIInv == IInv /\ NoUnlockedRequest /\ StateMatchesTail

PathIInv ==
  /\ LockedIInv
  /\ \A r \in Req : GateOK(r) /\ PathOK(r)
  /\ HistoryIsPath /\ LeftPromisesResolved

(* Of the entries that a moving copy was loaded with at most the promises of  *)
(* the last have changed, and nobody else writes its task: the save succeeds. *)
SameEntries(old, new) ==
  /\ \A i \in 1..Last(old) :
       /\ TransitionFacts(new.history[i]) = TransitionFacts(old.history[i])
       /\ new.history[i].wake = old.history[i].wake
       /\ i < Last(old) => new.history[i].promises = old.history[i].promises
  /\ DOMAIN new.history[Last(old)].promises = DOMAIN old.history[Last(old)].promises

MoveOK(r) ==
  LET task == request[r].task
  IN  (request[r].pc \in Saving /\ request[r].moved) =>
        /\ SameEntries(Loaded(r), task)
        /\ Consistent(task)
        /\ request[r].pc = "review" => task.state = "REVIEW"

GovernorKept(r) == request[r].pc \in Saving => request[r].task.governor = Loaded(r).governor

(* The calls create no review task under a governor, as the entries do. *)
CreatesNoReview(r) ==
  (request[r].pc # "idle" /\ request[r].op = "create_task" /\ arg[r].workflow = ReviewWorkflow)
    => arg[r].governor = Nil

ReviewIInv ==
  /\ LockedIInv
  /\ \A r \in Req : MoveOK(r) /\ GovernorKept(r) /\ CreatesNoReview(r)
  /\ \A c \in DOMAIN row : row[c].workflow = ReviewWorkflow => row[c].governor \in DOMAIN row
  /\ \A id \in DOMAIN row : IsFiniteSet(ReviewsOf(id))
  /\ ReviewPerEntry
=============================================================================

----------------------------- MODULE Authority -----------------------------
(***************************************************************************)
(* The authority of an agent over tasks: every container of a task calls   *)
(* the service with a capability derived from a fleet write token and its  *)
(* task id, over REST or MCP (taskservice/auth.py, auth_scope.py, mcp.py,  *)
(* the middleware and endpoints of api.py, client.py).                     *)
(*                                                                         *)
(* The middleware decides from one reading of the tasks, and the endpoint  *)
(* loads and saves afterwards: other calls, the operator and a restart of  *)
(* the service come in between. The credential file is rotated as          *)
(* docs/auth.md describes.                                                 *)
(*                                                                         *)
(* A surface is what its action does to a task; a token is its generation, *)
(* and a capability is a task with the generation that derived it. Left    *)
(* out: browser origins and the body inspection of the middleware, bearer  *)
(* syntax, reads other than the collection, migration's operator token     *)
(* (Startup), the lost saves of the endpoints (TaskService).               *)
(***************************************************************************)
EXTENDS Naturals, Sequences, FiniteSets

CONSTANTS
  Nil,
  Callers,     \* calls that may be in flight together
  Worlds       \* initial scenes (see Init)

VARIABLES
  board,       \* tasks
  repoDir,     \* repositories: credential_dir
  call,        \* the calls in flight
  tokenFile,   \* generations in the write array of the credential file, oldest first
  active,      \* generations the running service read at its start
  holder,      \* containers: the generation each task's capability was derived from
  world        \* roles, the rotation's progress and the remaining budgets

authorityVars == <<board, repoDir, call, tokenFile, active, holder, world>>

TaskIds == DOMAIN board
Born == {t \in TaskIds : board[t].born}
NoCall == [pc |-> "none", subject |-> Nil, action |-> Nil, target |-> Nil, deps |-> {},
           repo |-> Nil, scope |-> {}]

\* Service.task_orchestrates and task_configures_repo_credentials read the stored workflow.
task_orchestrates(s) == s \in Born /\ board[s].flow = "orchestrator"
task_configures_repo_credentials(s, r) ==
  s \in Born /\ board[s].repo = r /\ ~board[s].terminal /\ board[s].flow = "setup"

-----------------------------------------------------------------------------
(* Scope *)

Parent(t) == IF t \in Born THEN board[t].governor ELSE Nil

\* The walk from a target up to the subject; a governor link may close a cycle.
Climbs(t, s) ==
  \E n \in 1..Cardinality(TaskIds) :
    \E path \in [0..n -> TaskIds] :
      path[0] = t /\ path[n] = s /\ \A i \in 0..(n - 1) : Parent(path[i]) = path[i + 1]
Reaches(t, s) == Climbs(t, s)

_target(s, t) ==
  [relation |-> IF t \notin Born THEN "missing"
                ELSE IF t = s THEN "self"
                ELSE IF Reaches(t, s) THEN "governed" ELSE "unrelated",
   orchestrates |-> task_orchestrates(s)]

\* What the collection shows: the subject, and under an orchestrator the closure of its children.
ChildrenOnce(ids) == ids \cup {t \in Born : board[t].governor \in ids}
Closure(s) ==
  LET grow[n \in Nat] == IF n = 0 THEN {s} \cap Born ELSE ChildrenOnce(grow[n - 1])
  IN grow[Cardinality(TaskIds)]
list_tasks(s) == IF task_orchestrates(s) THEN Closure(s) ELSE {s} \cap Born

-----------------------------------------------------------------------------
(* Decisions *)

\* Every surface of a task, by what a capability may do with it.
SelfActions == {"operate", "drop", "resolve", "preplan", "depend"}
ChildActions == {"preplan", "depend"}
FleetActions == {"claim", "govern"}
TaskTargeted == SelfActions \cup FleetActions

AnyoneGoverns(action, target) ==
  \/ target.relation = "self" /\ action \in SelfActions
  \/ target.relation = "governed" /\ action \in ChildActions
authorize(action, target) ==
  \/ target.relation = "self" /\ action \in SelfActions
  \/ target.relation = "governed" /\ target.orchestrates /\ action \in ChildActions

\* A governed child's responsibility may be resolved while the child is planning.
decide_responsibility(s, t) ==
  LET target == _target(s, t)
  IN IF target.relation = "self" THEN authorize("resolve", target)
     ELSE target.relation = "governed" /\ target.orchestrates /\ board[t].planning

\* Each proposed dependency is a target too.
decide_dependencies(s, t, deps) ==
  authorize("depend", _target(s, t)) /\ \A d \in deps : authorize("depend", _target(s, d))

\* REST creation names a governor and a repository; the MCP tool names the orchestrator alone.
\* Nobody looks at what the new task is to depend on.
decide_create(s, governor, repo) ==
  task_orchestrates(s) /\ governor = s /\ (repo # Nil => repo = board[s].repo)

Decision(s, ask) ==
  LET t == ask.target
  IN CASE ask.action = "resolve" -> decide_responsibility(s, t)
       [] ask.action = "depend" -> decide_dependencies(s, t, ask.deps)
       [] ask.action = "create" -> decide_create(s, t, ask.repo)
       [] ask.action = "credential_dir" -> task_configures_repo_credentials(s, ask.repo)
       [] OTHER -> authorize(ask.action, _target(s, t))

Scope(s) == {t \in Born : t = s \/ (task_orchestrates(s) /\ Reaches(t, s))}

-----------------------------------------------------------------------------
(* A call *)

Repos == DOMAIN repoDir
Asks ==
  [action : TaskTargeted \ {"depend"}, target : TaskIds, deps : {{}}, repo : {Nil}]
  \cup [action : {"depend"}, target : TaskIds, deps : {{t} : t \in TaskIds}, repo : {Nil}]
  \cup [action : {"create"}, target : TaskIds, deps : {{}} \cup {{t} : t \in TaskIds},
        repo : Repos \cup {Nil}]
  \cup [action : {"credential_dir"}, target : {Nil}, deps : {{}}, repo : Repos]

\* The subject comes from the capability alone, verified against every active generation.
environment_token(s) == holder[s]
decode_task_capability(token) == token \in active
authenticate_token(s) == environment_token(s) # 0 /\ decode_task_capability(environment_token(s))

\* One reading of the tasks, after the body was awaited; a refused call changes nothing.
authenticate(c, s, ask) ==
  /\ call[c].pc = "none" /\ world.calls > 0
  /\ authenticate_token(s) /\ Decision(s, ask)
  /\ world' = [world EXCEPT !.calls = @ - 1]
  /\ call' = [call EXCEPT ![c] = [pc |-> "act", subject |-> s, action |-> ask.action,
       target |-> ask.target, deps |-> ask.deps, repo |-> ask.repo, scope |-> Scope(s)]]
  /\ UNCHANGED <<board, repoDir, tokenFile, active, holder>>

Return(c) == call' = [call EXCEPT ![c] = NoCall]

\* Dropping a task drops the tasks it governs.
Cascade(t) == {u \in Born : u = t \/ Reaches(u, t)}
DependencyCycle(t, deps) ==
  \E n \in 1..Cardinality(TaskIds) :
    \E path \in [0..n -> TaskIds] :
      /\ path[0] \in deps /\ path[n] = t
      /\ \A i \in 0..(n - 1) : path[i + 1] \in board[path[i]].deps
InvalidDependencies(t, deps) == t \in deps \/ ~(deps \subseteq Born) \/ DependencyCycle(t, deps)

\* The endpoint loads the target as it is now, acts and saves; what is gone or illegal is refused.
NewChild(governor, repo, flow, deps) ==
  [born |-> TRUE, flow |-> flow, repo |-> repo, governor |-> governor, planning |-> TRUE,
   terminal |-> FALSE, deps |-> deps, notes |-> 0]

Effect(c) ==
  LET t == call[c].target deps == call[c].deps
  IN CASE call[c].action = "operate" ->
            IF board[t].terminal THEN board ELSE [board EXCEPT ![t].planning = ~@]
       [] call[c].action = "drop" ->
            [u \in TaskIds |-> IF u \in Cascade(t) THEN [board[u] EXCEPT !.terminal = TRUE]
                               ELSE board[u]]
       [] call[c].action = "resolve" ->
            IF t = call[c].subject \/ board[t].planning
            THEN [board EXCEPT ![t].notes = @ + 1] ELSE board
       [] call[c].action = "preplan" -> [board EXCEPT ![t].notes = @ + 1]
       [] call[c].action = "depend" ->
            IF InvalidDependencies(t, deps) THEN board ELSE [board EXCEPT ![t].deps = deps]
       [] OTHER -> board

\* MCP creation takes the repository of the orchestrator as it is loaded again; a dependency
\* that is not there refuses it.
create_task_as(c, u) ==
  LET s == call[c].subject
  IN /\ call[c].pc = "act" /\ call[c].action = "create" /\ u \notin Born
     /\ ~InvalidDependencies(u, call[c].deps)
     /\ \E flow \in {"plain", "orchestrator"} :
          board' = [board EXCEPT ![u] = NewChild(call[c].target,
                      IF call[c].repo = Nil THEN board[s].repo ELSE call[c].repo, flow, call[c].deps)]
     /\ Return(c)
     /\ UNCHANGED <<repoDir, tokenFile, active, holder, world>>

Act(c) ==
  /\ call[c].pc = "act"
  /\ call[c].action = "create" => Born = TaskIds \/ ~(call[c].deps \subseteq Born)
  /\ board' = Effect(c)
  /\ \A t \in TaskIds : board'[t].notes <= world.notes
  /\ repoDir' = IF call[c].action = "credential_dir"
                THEN [repoDir EXCEPT ![call[c].repo] = "set"] ELSE repoDir
  /\ Return(c)
  /\ UNCHANGED <<tokenFile, active, holder, world>>

-----------------------------------------------------------------------------
(* The operator *)

set_governor(t, g) ==
  /\ t \in Born /\ g \in Born \cup {Nil} /\ world.moves > 0
  /\ world' = [world EXCEPT !.moves = @ - 1]
  /\ board' = [board EXCEPT ![t].governor = g]
  /\ UNCHANGED <<repoDir, call, tokenFile, active, holder>>

\* A container starts with a capability of the file's last generation; it may stop at any time.
LastOf(tokens) == tokens[Len(tokens)]

snapshot_task_capability(t) ==
  /\ t \in Born /\ ~board[t].terminal
  /\ holder[t] # LastOf(tokenFile) \/ t \in world.old
  /\ holder' = [holder EXCEPT ![t] = LastOf(tokenFile)]
  /\ world' = [world EXCEPT !.old = @ \ {t}]
  /\ UNCHANGED <<board, repoDir, call, tokenFile, active>>

\* Rotation: append, restart the service, respawn every container, remove, restart again.
Restarted(next) ==
  /\ active' = {tokenFile[i] : i \in DOMAIN tokenFile}
  /\ call' = [c \in Callers |-> NoCall]
  /\ world' = [world EXCEPT !.rotation = next,
       !.old = IF next = "respawn" THEN {t \in TaskIds : holder[t] # 0} ELSE @]
  /\ UNCHANGED <<board, repoDir, tokenFile, holder>>

Rewrite(tokens, next) ==
  /\ tokenFile' = tokens /\ world' = [world EXCEPT !.rotation = next]
  /\ UNCHANGED <<board, repoDir, call, active, holder>>

Rotate ==
  \/ world.rotation = "start" /\ Rewrite(Append(tokenFile, LastOf(tokenFile) + 1), "appended")
  \/ world.rotation = "appended" /\ Restarted("respawn")
  \/ world.rotation = "respawn" /\ world.old = {} /\ Rewrite(<<LastOf(tokenFile)>>, "removed")
  \/ world.rotation = "removed" /\ Restarted("done")

-----------------------------------------------------------------------------
Init ==
  /\ \E w \in Worlds :
       /\ board = w.board /\ repoDir = w.repoDir /\ holder = w.holder
       /\ world = [calls |-> w.calls, moves |-> w.moves, notes |-> w.notes,
                   rotation |-> w.rotation, old |-> {}]
  /\ tokenFile = <<1>> /\ active = {1} /\ call = [c \in Callers |-> NoCall]

Next ==
  \/ \E c \in Callers :
       \/ \E s \in TaskIds, ask \in Asks : authenticate(c, s, ask)
       \/ Act(c)
       \/ \E u \in TaskIds : create_task_as(c, u)
  \/ \E t \in TaskIds : \/ snapshot_task_capability(t)
                        \/ \E g \in TaskIds \cup {Nil} : set_governor(t, g)
  \/ Rotate

Spec == Init /\ [][Next]_authorityVars

-----------------------------------------------------------------------------
(* Properties *)

TypeOK ==
  /\ \A t \in TaskIds : /\ board[t].governor \in Born \cup {Nil} /\ board[t].deps \subseteq Born \ {t}
                        /\ board[t].notes \in 0..world.notes /\ holder[t] \in {0, 1, 2}
  /\ \A c \in Callers : /\ call[c].pc \in {"none", "act"}
                        /\ call[c].pc = "act" => call[c].scope \subseteq Born
  /\ active \subseteq {1, 2} /\ active # {}

\* The collection an agent is shown and the single reads it is allowed are the same tasks, also
\* when governor links chain or close a cycle (list_tasks walks down, _target walks up).
ListAgreesWithReads ==
  \A s \in Born : list_tasks(s) = {t \in TaskIds : LET r == _target(s, t)
    IN r.relation = "self" \/ (r.relation = "governed" /\ r.orchestrates)}

Effective(c) == call[c].pc = "act" /\ call'[c].pc = "none" /\ active' = active

\* A call changes nothing outside its subject's subtree: every task it changes was in scope at the
\* decision, except below a task it drops; a child is born under its subject and in its
\* repository; a repository changes only under a task of its own.
Contained ==
  [][\A c \in Callers : Effective(c) =>
       LET s == call[c].subject
       IN /\ \A t \in Born : board'[t] # board[t] =>
               t \in call[c].scope \/ (call[c].action = "drop" /\ Reaches(t, s))
          /\ \A t \in TaskIds \ Born : board'[t].born =>
               board'[t].governor = s /\ board'[t].repo = board[s].repo
          /\ \A r \in Repos : repoDir'[r] # repoDir[r] => board[s].repo = r]_authorityVars

\* An agent finishes or moves another task only by dropping its own.
OnlyOwnStateMoves ==
  [][\A c \in Callers : Effective(c) =>
       \A t \in Born \ {call[c].subject} :
         (board'[t].planning # board[t].planning \/ board'[t].terminal # board[t].terminal) =>
           call[c].action = "drop" /\ Reaches(t, call[c].subject)]_authorityVars

\* An agent makes no task that is there wait for a task outside the scope it was decided in. A
\* task it creates may wait for any task that exists: a creation is not checked for that.
DependenciesStayInScope ==
  [][\A c \in Callers : Effective(c) =>
       /\ \A t \in Born : board'[t].deps \subseteq board[t].deps \cup call[c].scope
       /\ \A t \in TaskIds \ Born : board'[t].born =>
            board'[t].deps \subseteq Born /\ t \notin UNION {board[d].deps : d \in Born}]_authorityVars

\* Rotation as documented locks no agent out: the capability of a container is accepted, but for
\* one started between the edit of the file and the service's restart.
LiveAgentsAreKnown ==
  \A t \in TaskIds : holder[t] # 0 =>
    holder[t] \in active \/ (world.rotation = "appended" /\ holder[t] = LastOf(tokenFile))

\* An agent sees and changes its own subtree, and goes on doing so through a rotation; only what
\* its children wait for may lie outside.
Containment ==
  /\ [](TypeOK /\ ListAgreesWithReads /\ LiveAgentsAreKnown)
  /\ Contained /\ OnlyOwnStateMoves /\ DependenciesStayInScope
=============================================================================

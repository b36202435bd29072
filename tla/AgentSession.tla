---------------------------- MODULE AgentSession ----------------------------
(* The container of one task, from the inside. Its first process holds the    *)
(* liveness stream (container/entrypoint.py); the launcher in the tmux pane   *)
(* checks the credentials, renders the CLI's files, and runs the agent        *)
(* (container/agent.py and one harness of harnesses/); the CLI's hooks tell   *)
(* the task service whose turn it is (container/hook.py). Containers follow   *)
(* one another on one config volume.                                          *)
(*                                                                            *)
(* The rendered skills, prompts and settings are left out, and the claim and  *)
(* the state of the task, which no step here reads. A credential is what it   *)
(* resolves to. The production runner proposes no slug.                       *)
EXTENDS Naturals, Sequences

CONSTANTS
  Envs,       \* harness -> the environments the repository's secrets may give its containers
  MaxConns,   \* the most registrations of the task at a time
  Days        \* the bounds a behaviour may start with: on prompts, containers, exits of the CLI,
              \* repairs by the operator, other writes of the task, and faults

VARIABLES
  harness,     \* the task's harness: its name
  env,         \* what the repository's secrets inject into the next container
  volume,      \* the per-task config volume: credential entry and session files, oldest first
  pane,        \* the step of the launcher in the tmux pane
  told,        \* what the container was created with: the turn, whether there is an initial
               \* prompt, and whether the task has no workspace yet
  agent,       \* the running CLI: what it does, its background work, its thread and its account
  pid1,        \* the entrypoint: off, dark (no stream), live or stopping
  conn,        \* the liveness connection it holds, 0 when none
  regs,        \* the registrations the service keeps
  ball,        \* the turn the service records
  late,        \* turn calls the callback gave up on, still on their way
  copies,      \* the turns in copies of the task: of unlocked calls, and the runner's snapshot
  totals,      \* token totals on their way from detached workers
  used,        \* tokens of the session's transcript
  recorded,    \* the tokens the service records
  failed,      \* whether the task's lifecycle is latched FAILED
  outOfTouch,  \* since a hook's call or a start settled the turn, a call was lost or is late or
               \* something else changed it; a failure report was lost (observed, not stored)
  budget

container == <<pane, told, agent, pid1, conn>>
service   == <<regs, ball, recorded, failed>>
wire      == <<late, copies, totals, outOfTouch>>
disk      == <<env, volume, used>>
sessionVars == <<harness, container, service, wire, disk, budget>>

Actors == {"user", "agent"}
NoAgent == [doing |-> "none", chores |-> FALSE, thread |-> "none", account |-> "none"]

Spend(what) == budget[what] > 0 /\ budget' = [budget EXCEPT ![what] = @ - 1]

-----------------------------------------------------------------------------
(* Credentials. A "link" leads to the mounted credential directory, a         *)
(* "login" is a file the CLI wrote in an earlier container, "junk" a file     *)
(* that holds no usable credential.                                           *)

Account(entry) ==
  CASE entry = "link"  -> IF env.mount = "good" THEN "shared" ELSE "none"
    [] entry = "login" -> "own"
    [] entry = "key"   -> "key"
    [] OTHER           -> "none"

_effective_config_path(persisted) ==
  IF persisted # "none" \/ env.mount = "no" THEN persisted ELSE "link"

PiMissing(entry) == env.key = "no" /\ Account(_effective_config_path(entry)) = "none"

CodexMissing(entry) ==
  env.key = "no" /\ entry \notin {"login", "key", "junk"} /\ env.mount # "good"

(* The live probe rejects a revoked key; a probe that cannot complete does not. *)
ClaudeMissing == env.key \in {"no", "revoked"}

missing_auth(entry) ==
  CASE harness = "pi" -> PiMissing(entry) [] harness = "codex" -> CodexMissing(entry)
    [] OTHER -> ClaudeMissing

(* The host's check, before a task's first container: presence only. *)
missing_task_auth == IF harness = "claude" THEN env.key = "no" ELSE missing_auth("none")

(* What foreground set-up selected: the mount before a key, a key before a token. *)
Configured ==
  IF env.mount # "no" THEN "link" ELSE IF env.key = "key" THEN "key" ELSE "none"

MayReconcile == env.mount = "good" \/ (env.mount = "no" /\ env.key # "no")

(* A slip: a key is written through the existing entry. *)
_reconcile_in_place ==
  IF volume.entry = "link" THEN "link" ELSE Configured

_reconcile_auth == Configured

_ensure_auth ==
  IF env.reconcile THEN _reconcile_auth
  ELSE IF volume.entry # "none" THEN volume.entry
  ELSE IF env.mount = "good" THEN "link"
  ELSE IF env.key = "key" THEN "key" ELSE "none"

_ensure_personal_config ==
  IF volume.entry = "none" /\ env.mount # "no" THEN "link" ELSE volume.entry

Materialized ==
  CASE harness = "codex" -> _ensure_auth [] harness = "pi" -> _ensure_personal_config
    [] OTHER -> volume.entry

-----------------------------------------------------------------------------
(* The hooks *)

(* The callback gives up after two seconds and never says so: its call has    *)
(* been answered, is lost, or is still on its way. The call holds no lock and *)
(* saves the row it read; what it overwrites besides the turn is StaleCopies'. *)
set_turn(actor, b) ==
  \/ /\ ball' = actor
     /\ outOfTouch' = [outOfTouch EXCEPT !.turn = late # {}]
     /\ budget' = b
     /\ UNCHANGED late
  \/ /\ b.faults > 0
     /\ late' \in {late, late \cup {actor}}
     /\ outOfTouch' = [outOfTouch EXCEPT !.turn = TRUE]
     /\ budget' = [b EXCEPT !.faults = @ - 1]
     /\ UNCHANGED ball

NoCall == UNCHANGED <<ball, late, outOfTouch, budget>>

Arrive(actor) ==
  /\ actor \in late
  /\ late' = late \ {actor}
  /\ ball' = actor
  /\ outOfTouch' = [outOfTouch EXCEPT !.turn = TRUE]
  /\ UNCHANGED <<harness, container, regs, recorded, failed, copies, totals, disk, budget>>

(* Whose turn it is changes with the state: an advance of the agent, or of its *)
(* last promise, a free move of the user, a cascade.                          *)
_enter(actor) ==
  /\ Spend("others")
  /\ ball' = actor
  /\ outOfTouch' = [outOfTouch EXCEPT !.turn = @ \/ actor # ball]
  /\ UNCHANGED <<harness, container, regs, recorded, failed, late, copies, totals, disk>>

(* Another call, or the runner's tick, reads the task. *)
get_task ==
  /\ Spend("others")
  /\ copies' = copies \cup {ball}
  /\ UNCHANGED <<harness, container, service, late, outOfTouch, totals, disk>>

(* The call saves its copy whole, with the turn it read. *)
_save_task(turn) ==
  /\ turn \in copies
  /\ copies' = copies \ {turn}
  /\ ball' = turn
  /\ outOfTouch' = [outOfTouch EXCEPT !.turn = @ \/ turn # ball]
  /\ UNCHANGED <<harness, container, regs, recorded, failed, late, totals, disk, budget>>

(* What each CLI is set up to tell: Claude by its settings, Codex by its       *)
(* config.toml, Pi by an extension.                                           *)
ClaudeHooks == {"prompt", "stop", "ask", "answer"}
CodexHooks  == {"prompt", "stop"}
PiHooks     == {"prompt", "stop"}
Hooks == [claude |-> ClaudeHooks, codex |-> CodexHooks, pi |-> PiHooks][harness]

At(doing) == pane = "agent" /\ agent.doing = doing
Do(doing) == agent' = [agent EXCEPT !.doing = doing]

(* A prompt of the user: each CLI calls its hook before it starts to work. *)
Prompt ==
  /\ "prompt" \in Hooks /\ At("idle") /\ budget.prompts > 0
  /\ Do("working")
  /\ used' = used + 1
  /\ set_turn("agent", [budget EXCEPT !.prompts = @ - 1])
  /\ UNCHANGED <<harness, env, volume, pane, told, pid1, conn, regs, recorded, failed, copies, totals>>

(* Only Claude's payload says that background work is still in flight. *)
_has_live_background_task == agent.chores

(* A slip: the stop hook is the plain flip. *)
PlainFlip == set_turn("user", budget)

_run_callback == IF _has_live_background_task THEN NoCall ELSE set_turn("user", budget)

(* The cost-weighted total of the session's transcript. *)
session_tokens == used

(* The turn ends; the detached worker starts once the turn has been told, so *)
(* that a call that gives up is followed by no report.                        *)
Settle ==
  /\ "stop" \in Hooks /\ At("working")
  /\ Do("idle")
  /\ _run_callback
  /\ totals' = IF harness = "claude" /\ budget' = budget THEN totals \cup {session_tokens} ELSE totals
  /\ UNCHANGED <<harness, pane, told, pid1, conn, regs, recorded, failed, copies, disk>>

(* The agent asks its user a question, through the one tool Claude has for it. *)
Ask ==
  /\ "ask" \in Hooks /\ At("working")
  /\ Do("asking")
  /\ set_turn("user", budget)
  /\ UNCHANGED <<harness, pane, told, pid1, conn, regs, recorded, failed, copies, totals, disk>>

Answer ==
  /\ "answer" \in Hooks /\ At("asking")
  /\ Do("working")
  /\ set_turn("agent", budget)
  /\ UNCHANGED <<harness, pane, told, pid1, conn, regs, recorded, failed, copies, totals, disk>>

StartChore ==
  /\ harness = "claude" /\ At("working") /\ ~agent.chores
  /\ agent' = [agent EXCEPT !.chores = TRUE]
  /\ UNCHANGED <<harness, pane, told, pid1, conn, service, wire, disk, budget>>

(* Finished background work wakes an idle agent, with no hook of a prompt. *)
EndChore ==
  /\ agent.chores
  /\ agent' = [agent EXCEPT !.chores = FALSE, !.doing = IF @ = "idle" THEN "working" ELSE @]
  /\ UNCHANGED <<harness, pane, told, pid1, conn, service, wire, disk, budget>>

(* A slip: a report replaces what is recorded. *)
Overwritten(total) == total

_set_tokens_used_max(total) == IF total > recorded THEN total ELSE recorded

_report_tokens(total) ==
  /\ total \in totals
  /\ totals' = totals \ {total}
  /\ recorded' = _set_tokens_used_max(total)
  /\ UNCHANGED <<harness, container, regs, ball, failed, late, copies, outOfTouch, disk, budget>>

LoseTotal(total) ==
  /\ total \in totals /\ Spend("faults")
  /\ totals' = totals \ {total}
  /\ UNCHANGED <<harness, container, service, late, copies, outOfTouch, disk>>

-----------------------------------------------------------------------------
(* The launcher *)

Reported(status) == harness = "pi"

(* An exception ends the pane of any other harness and leaves the container up. *)
Raise(status) == pane' = IF Reported(status) THEN "report" ELSE "dead"

Launcher == UNCHANGED <<harness, told, pid1, conn, service, wire, env, used>>

CheckAuth ==
  /\ pane = "auth"
  /\ pane' = IF missing_auth(volume.entry) THEN "refuse" ELSE "fetch"
  /\ Launcher /\ UNCHANGED <<agent, volume, budget>>

FetchWorkflow ==
  /\ pane = "fetch"
  /\ \/ pane' = "bootstrap" /\ UNCHANGED budget
     \/ Spend("faults") /\ Raise("error")
  /\ Launcher /\ UNCHANGED <<agent, volume>>

bootstrap ==
  /\ pane = "bootstrap"
  /\ IF harness = "codex" /\ env.reconcile /\ ~MayReconcile
     THEN Raise("error") /\ UNCHANGED volume
     ELSE pane' = "launch" /\ volume' = [volume EXCEPT !.entry = Materialized]
  /\ Launcher /\ UNCHANGED <<agent, budget>>

(* The newest rollout of an interactive root thread, never a reviewer's. *)
_resume_target ==
  IF \E i \in DOMAIN volume.files : volume.files[i] = "own" THEN "own" ELSE "none"

(* The newest of them, whoever wrote it. *)
Newest == IF volume.files = <<>> THEN "none" ELSE volume.files[Len(volume.files)]

(* Claude and pi continue whatever their session directory holds. *)
Resumed == IF harness = "codex" THEN _resume_target ELSE Newest

(* On a first run the initial prompt, on the agent's turn a word that it was interrupted. *)
Prompted == IF Resumed = "none" THEN told.prompt ELSE told.turn = "agent"

Began(account) ==
  [NoAgent EXCEPT !.doing = IF Prompted THEN "working" ELSE "idle",
                  !.thread = IF Resumed = "none" THEN "own" ELSE Resumed, !.account = account]

argv ==
  /\ pane = "launch"
  /\ pane' = "agent"
  /\ agent' = Began(Account(volume.entry))
  /\ volume' = [volume EXCEPT !.files = IF Resumed = "none" THEN Append(@, "own") ELSE @]
  /\ used' = IF Prompted THEN used + 1 ELSE used
  /\ IF Prompted THEN set_turn("agent", budget)
     ELSE /\ outOfTouch' = [outOfTouch EXCEPT !.turn = @ \/ (Resumed = "none" /\ ball = "agent")]
          /\ UNCHANGED <<ball, late, budget>>
  /\ UNCHANGED <<harness, env, told, pid1, conn, regs, recorded, failed, copies, totals>>

(* A reviewer that the agent runs as codex exec keeps its rollout beside the agent's. *)
Review ==
  /\ harness = "codex" /\ At("working") /\ volume.files[Len(volume.files)] # "review"
  /\ volume' = [volume EXCEPT !.files = Append(@, "review")]
  /\ UNCHANGED <<harness, container, service, wire, env, used, budget>>

(* The CLI exits; Pi's status is reported, whatever it is. *)
_run_agent(status) ==
  /\ pane = "agent" /\ Spend("exits")
  /\ pane' = IF Reported(status) THEN "report" ELSE "stop"
  /\ agent' = NoAgent
  /\ Launcher /\ UNCHANGED volume

report_failure ==
  /\ pane \in {"report", "refuse"}
  /\ pane' = "stop"
  /\ \/ failed' = TRUE /\ UNCHANGED <<outOfTouch, budget>>
     \/ /\ Spend("faults") /\ UNCHANGED failed
        /\ outOfTouch' = [outOfTouch EXCEPT !.failure = TRUE]
  /\ UNCHANGED <<harness, told, agent, pid1, conn, regs, ball, recorded, late, copies, totals,
                 disk>>

_stop_container ==
  /\ pane = "stop"
  /\ pane' = "stopped"
  /\ pid1' = "stopping"
  /\ UNCHANGED <<harness, told, agent, conn, service, wire, disk, budget>>

-----------------------------------------------------------------------------
(* The entrypoint *)

Conns   == 1 .. MaxConns
Serving == pid1 \in {"dark", "live"}

(* The container is gone, and every process in it. *)
Gone ==
  /\ pid1' = "off" /\ conn' = 0 /\ agent' = NoAgent
  /\ pane' = IF pane = "stopped" THEN "stopped" ELSE "off"

Connect ==
  /\ pid1 = "dark"
  /\ \E c \in Conns \ regs : conn' = c /\ \A d \in Conns \ regs : c <= d
  /\ regs' = regs \cup {conn'}
  /\ pid1' = "live"
  /\ UNCHANGED <<harness, pane, told, agent, ball, recorded, failed, wire, disk, budget>>

Drop ==
  /\ pid1 = "live" /\ Spend("faults")
  /\ pid1' = "dark"
  /\ conn' = 0
  /\ UNCHANGED <<harness, pane, told, agent, service, wire, disk>>

(* A running entrypoint stops when signalled, when it is killed, and when the *)
(* service rejects its credential.                                            *)
Leave ==
  /\ \/ pid1 = "stopping" /\ UNCHANGED budget
     \/ Serving /\ Spend("faults")
  /\ Gone
  /\ UNCHANGED <<harness, told, service, wire, disk>>

deregister(c) == regs \ {c}

(* The service notices that a stream has gone. *)
hold(c) ==
  /\ c \in regs \ {conn}
  /\ regs' = deregister(c)
  /\ UNCHANGED <<harness, container, ball, recorded, failed, wire, disk, budget>>

(* The runner starts a container: not while the last launch is marked failed.  *)
(* It tells it the turn in its snapshot of the task.                          *)
spawn ==
  /\ pid1 = "off" /\ ~failed
  /\ ~told.first \/ ~missing_task_auth
  /\ Spend("containers")
  /\ pid1' = "dark" /\ conn' = 0 /\ pane' = "auth" /\ agent' = NoAgent
  /\ \E turn \in {ball} \cup copies :
       /\ told' = [told EXCEPT !.turn = turn]
       /\ outOfTouch' = [outOfTouch EXCEPT !.turn = late # {} \/ turn # ball]
  /\ UNCHANGED <<harness, service, late, copies, totals, disk>>

(* The operator asks for another start, perhaps after repairing the secrets. *)
respawn(e) ==
  /\ pid1 = "off"
  /\ failed \/ e # env
  /\ failed' = FALSE
  /\ env' = e
  /\ pane' = "off"
  /\ outOfTouch' = [outOfTouch EXCEPT !.failure = FALSE]
  /\ Spend("repairs")
  /\ UNCHANGED <<harness, told, agent, pid1, conn, regs, ball, recorded, late, copies, totals,
                 volume, used>>

-----------------------------------------------------------------------------
Harnesses == DOMAIN Envs
Entries   == {"none", "link", "login", "key", "junk"}

(* A task with no workspace has a fresh volume; a codex login is taken to be good. *)
Init ==
  /\ harness \in Harnesses
  /\ env \in Envs[harness]
  /\ \/ /\ told \in [turn : {"user"}, prompt : BOOLEAN, first : {TRUE}]
        /\ volume = [entry |-> "none", files |-> <<>>]
     \/ /\ told = [turn |-> "user", prompt |-> TRUE, first |-> FALSE]
        /\ volume \in [entry : CASE harness = "pi"    -> {"junk", "link"}
                                  [] harness = "codex" -> {"login", "link"}
                                  [] OTHER             -> {"none"},
                        files : {<<"own">>}]
  /\ ball \in Actors
  /\ budget \in Days
  /\ pane = "off" /\ agent = NoAgent /\ pid1 = "off" /\ conn = 0
  /\ regs = {} /\ recorded = 0 /\ failed = FALSE
  /\ late = {} /\ copies = {} /\ totals = {} /\ used = 0
  /\ outOfTouch = [turn |-> FALSE, failure |-> FALSE]

Turning == Prompt \/ Settle \/ Ask \/ Answer \/ StartChore \/ EndChore \/ Review
Arriving == (\E a \in Actors : Arrive(a)) \/ (\E n \in totals : _report_tokens(n) \/ LoseTotal(n))
Others == get_task \/ (\E a \in Actors : _enter(a) \/ _save_task(a))
Launching ==
  \/ CheckAuth \/ FetchWorkflow \/ bootstrap \/ argv \/ report_failure \/ _stop_container
  \/ \E status \in {"clean", "error"} : _run_agent(status)
Serve == Connect \/ Drop \/ Leave \/ (\E c \in Conns : hold(c))
Next ==
  \/ Turning \/ Arriving \/ Others \/ Launching \/ Serve
  \/ spawn \/ (\E e \in Envs[harness] : respawn(e))

Spec == Init /\ [][Next]_sessionVars

(* The entrypoint's loop, the end of a signalled process, the service's notice of a dropped *)
(* stream, and the launcher's last steps: none of them waits for anybody.                    *)
FairSpec ==
  /\ Spec
  /\ WF_sessionVars(Connect) /\ WF_sessionVars(Leave /\ pid1 = "stopping")
  /\ WF_sessionVars(\E c \in Conns : hold(c))
  /\ WF_sessionVars(report_failure \/ _stop_container)

-----------------------------------------------------------------------------
(* Each variable has its type. *)
TypeOK ==
  /\ harness \in Harnesses /\ env \in Envs[harness]
  /\ volume \in [entry : Entries, files : Seq({"own", "review"})]
  /\ pane \in {"off", "auth", "fetch", "bootstrap", "launch", "agent", "refuse", "report",
               "stop", "stopped", "dead"}
  /\ told \in [turn : Actors, prompt : BOOLEAN, first : BOOLEAN]
  /\ agent \in [doing : {"none", "idle", "working", "asking"}, chores : BOOLEAN,
               thread : {"none", "own", "review"}, account : {"none", "shared", "own", "key"}]
  /\ pid1 \in {"off", "dark", "live", "stopping"}
  /\ conn \in 0 .. MaxConns /\ regs \in SUBSET Conns
  /\ {ball} \cup late \cup copies \subseteq Actors
  /\ {used, recorded} \cup totals \subseteq Nat
  /\ failed \in BOOLEAN /\ outOfTouch \in [turn : BOOLEAN, failure : BOOLEAN]

(* From the moment a hook's call is recorded, or a container is started with  *)
(* the recorded turn, until a transition or a save of an earlier copy changes *)
(* the turn or a call is lost or late, the recorded turn is the agent's       *)
(* exactly when it works or unfinished work of its own will wake it: through  *)
(* questions, background work, respawns and resumed sessions (hook.py:227,    *)
(* the gate of the Stop hook; claude.py:285, the prompt of a resumed turn).   *)
TurnFollowsAgent ==
  pane = "agent" /\ ~outOfTouch.turn =>
    (ball = "agent" <=> agent.doing = "working" \/ (agent.doing = "idle" /\ agent.chores))

(* A respawned Codex container goes back to the agent's own thread: no        *)
(* reviewer's rollout in the same directory is ever resumed, and the thread   *)
(* is not begun a second time (codex.py:67).                                  *)
ResumesOwnThread ==
  harness = "codex" =>
    /\ agent.thread \in {"none", "own"}
    /\ \A i, j \in DOMAIN volume.files :
         volume.files[i] = "own" /\ volume.files[j] = "own" => i = j

(* What the launcher approved is what the CLI then finds: without a key in    *)
(* its environment no agent runs on a credential entry that resolves to       *)
(* nothing (pi.py:486, the precedence shared by preflight and bootstrap).     *)
ApprovedIsUsed == pane = "agent" /\ env.key = "no" => agent.account # "none"

(* After foreground set-up chose a binding, the Codex agent runs on that      *)
(* account, whatever earlier containers left on the volume (codex.py:267).    *)
ReconciledIsUsed ==
  pane = "agent" /\ harness = "codex" /\ env.reconcile => agent.account = Account(Configured)

(* The first container of a task that the host's presence check let through   *)
(* is not refused by the launcher's own (auth_readiness.py:41; Claude's       *)
(* launcher also asks the provider).                                          *)
FirstStartIsApproved == told.first /\ harness # "claude" => pane # "refuse"

(* When Pi's launcher has stopped its container, the failure is latched       *)
(* unless its report was lost: the spawner cannot heal a Pi exit into a       *)
(* respawn loop (agent.py:142).                                                *)
PiStopIsLatched ==
  harness = "pi" /\ pane = "stopped" /\ ~outOfTouch.failure => failed

(* The recorded tokens never fall, whatever the order in which detached       *)
(* workers of several turns report (store_sqlalchemy.py:634).                 *)
TokensNeverFall == [][recorded' >= recorded]_sessionVars

(* Registration is liveness: whenever the service and the container disagree  *)
(* about whether it is up, they come to agree, past drops, reconnections and  *)
(* deaths (entrypoint.py:104, api.py:1708).                                    *)
LivenessIsSeen ==
  /\ (Serving /\ regs = {}) ~> (regs # {} \/ ~Serving)
  /\ (~Serving /\ regs # {}) ~> (regs = {} \/ Serving)

(* What runs in a container is what was approved for it: its account and its  *)
(* thread, and a failure the launcher stops for is on record.                 *)
RunsAsApproved ==
  /\ TypeOK
  /\ ResumesOwnThread /\ ApprovedIsUsed /\ ReconciledIsUsed
  /\ FirstStartIsApproved /\ PiStopIsLatched

(* The service learns what happens in the container, however its calls are    *)
(* cut off and reordered.                                                     *)
ServiceLearns == TokensNeverFall /\ LivenessIsSeen
=============================================================================

----------------------------- MODULE RepoSetup -----------------------------
(***************************************************************************)
(* Foreground set-up: `panopticon setup`, `setup --repo` and `quickstart`  *)
(* connect an agent, register a repository and bind new credential files   *)
(* to it while the service holds the repository's launches                 *)
(* (terminal/setup.py, setup_credentials.py, quickstart.py,                *)
(* source_selection.py, legacy_setup.py; begin_repo_setup,                 *)
(* finish_repo_setup, retry_task and claim of taskservice/service.py;      *)
(* sessionservice/auth_readiness.py).                                      *)
(*                                                                         *)
(* Set-up processes interleave with each other, with the runner that       *)
(* claims, launches and heals tasks, with task creation, a restart of the  *)
(* service and the operator's releases and retries; any set-up may be      *)
(* interrupted between two steps. Two set-ups of one repository overlap    *)
(* only in scenes that say so.                                             *)
(*                                                                         *)
(* A credential file is the set of provider keys it gives a value, whether *)
(* it has the forge token and whether it has other values. Harnesses share *)
(* keys. The file of a browser login has no key: it stands for the         *)
(* directory that came with it, too, whose `login` is the harness it       *)
(* serves. Left out: prompts and their retries, file modes and symlinks,   *)
(* gateways, the default model, the readiness probe (Startup), the stale   *)
(* saves of other handlers (TaskService) and the spawn steps of one launch *)
(* (RunnerFleet).                                                          *)
(***************************************************************************)
EXTENDS Naturals, Sequences, FiniteSets

CONSTANTS
  Nil,
  Setups,      \* the foreground processes
  Kits         \* initial scenes (see Init)

VARIABLES
  repoRow,     \* repositories: source, binding (file and directory), harness, hold
  files,       \* private credential files, by reference
  connections, \* connections.json: the reusable connection of each harness
  lock,        \* who holds setup.lock
  setup,       \* the foreground processes
  backlog,     \* tasks
  owed,        \* history: tasks a set-up has held and nobody retried
  kit          \* the commands to try and the remaining budgets

repoVars == <<repoRow, files, connections, lock, setup, backlog, owed, kit>>

Harnesses == DOMAIN connections
Empty == [auth |-> {}, login |-> {}, forge |-> FALSE, other |-> FALSE]
Absent == [source |-> Nil, env |-> Nil, dir |-> Nil, harness |-> Nil, held |-> FALSE]
Resting == {"idle", "done", "paused", "failed"}
Idle == [pc |-> "idle", command |-> Nil, snapshot |-> Absent, id |-> Nil, candidate |-> 0,
         connection |-> Nil, harness |-> Nil, replace |-> TRUE, ref |-> Nil]

Fresh == Len(files) + 1
Write(content) == files' = Append(files, content)
Content(ref) == IF ref = Nil THEN Empty ELSE files[ref]

To(u, fields) == setup' = [setup EXCEPT ![u] = [f \in DOMAIN @ |->
                   IF f \in DOMAIN fields THEN fields[f] ELSE @[f]]]
End(u, how) == To(u, [pc |-> how]) /\ lock' = IF lock = u THEN Nil ELSE lock

\* Equivalent spellings of a source have one identity: a source of the model is an identity.
\* Its candidate ids widen one digest, so two sources may share the first.
repo_id_candidates(source) == kit.candidates[source]
is_github_source(source) == source \in kit.github
_find_existing_repo(source) == {id \in DOMAIN repoRow : repoRow[id].source = source}

\* The keys that authenticate a harness; no harness is claude. The last are pi and outfitter, which
\* take any provider's.
Keys == {"oauth", "anthropic", "codex", "openai", "gemini"}
AUTH_KEYS(harness) == CASE harness \in {"claude", Nil} -> {"oauth", "anthropic"}
                        [] harness = "codex" -> {"codex", "openai"}
                        [] OTHER -> {"anthropic", "openai", "gemini"}

-----------------------------------------------------------------------------
(* Commands, the lock and the reusable connection *)

\* `setup --repo` names a repository; `setup` and `quickstart` first connect a chosen harness.
Run(u, c) ==
  /\ setup[u].pc \in Resting /\ kit.runs > 0 /\ c \in kit.commands
  /\ c.name = "repair" =>
       /\ repoRow[c.id].source # Nil
       /\ \A v \in Setups : setup[v].pc \notin Resting => kit.overlap
  /\ kit' = [kit EXCEPT !.runs = @ - 1]
  /\ setup' = [setup EXCEPT ![u] = [Idle EXCEPT !.command = c, !.harness = c.harness,
       !.id = IF c.name = "repair" THEN c.id ELSE Nil,
       !.pc = IF c.name = "repair" THEN "inspect" ELSE "lock"]]
  /\ UNCHANGED <<repoRow, files, connections, lock, backlog, owed>>

\* The lock is held for the life of its owner and never waited for.
configure_connection(u) ==
  /\ setup[u].pc = "lock"
  /\ IF lock = Nil THEN lock' = u /\ To(u, [pc |-> "connect"]) ELSE End(u, "failed")
  /\ UNCHANGED <<repoRow, files, connections, backlog, owed, kit>>

\* A connection has the values of its harness and no others, or it is refused.
connection_values(ref, harness) ==
  Content(ref).auth \subseteq AUTH_KEYS(harness) /\ ~Content(ref).forge /\ ~Content(ref).other
configured(ref, harness) ==
  /\ connection_values(ref, harness)
  /\ Content(ref).auth # {} \/ harness \in Content(ref).login

\* What follows a connection: the end of `setup`, registration, or the composition.
After(u, ref) ==
  LET c == setup[u].command
  IN [pc |-> IF setup[u].id # Nil THEN "compose" ELSE IF c.name = "setup" THEN "done" ELSE "find",
      connection |-> ref]
Keep(u) == lock' = IF setup[u].id # Nil THEN lock ELSE Nil

\* What a login that did not raise has produced: a cancelled or empty one raises. Codex takes one
\* kind of key, or logs in with a browser.
Pasted(h) == IF h = "codex" THEN {"openai"} ELSE AUTH_KEYS(h)
Login(h) == {[Empty EXCEPT !.auth = {k}] : k \in Pasted(h)}
              \cup (IF h = "codex" THEN {[Empty EXCEPT !.login = {h}]} ELSE {})

\* The saved connection serves, or a new credential is written to a file of its own; a login that
\* fails keeps what was saved.
connect(u) ==
  /\ setup[u].pc = "connect"
  /\ LET h == setup[u].harness saved == connections[h]
     IN \/ /\ saved # Nil /\ configured(saved, h)
           /\ To(u, After(u, saved)) /\ Keep(u) /\ UNCHANGED files
        \/ /\ saved # Nil => connection_values(saved, h)
           /\ Len(files) < kit.files /\ \E new \in Login(h) : Write(new)
           /\ To(u, [pc |-> "save", ref |-> Fresh]) /\ UNCHANGED lock
        \/ End(u, "failed") /\ UNCHANGED files
  /\ UNCHANGED <<repoRow, connections, backlog, owed, kit>>

\* connections.json is read, changed and atomically replaced under the lock.
save_connection(u) ==
  /\ setup[u].pc = "save"
  /\ connections' = [connections EXCEPT ![setup[u].harness] = setup[u].ref]
  /\ To(u, After(u, setup[u].ref)) /\ Keep(u)
  /\ UNCHANGED <<repoRow, files, backlog, owed, kit>>

\* The legacy authentication workflow takes the same lock in its shell session.
legacy_setup ==
  /\ \/ lock = Nil /\ kit.legacy > 0 /\ lock' = "legacy" /\ kit' = [kit EXCEPT !.legacy = @ - 1]
     \/ lock = "legacy" /\ lock' = Nil /\ UNCHANGED kit
  /\ UNCHANGED <<repoRow, files, connections, setup, backlog, owed>>

-----------------------------------------------------------------------------
(* Registration of the source `quickstart` selected *)

Found(u, ids) == To(u, [pc |-> "inspect", id |-> CHOOSE id \in ids : TRUE])

\* A repository is reused when its source is equivalent, at first and after every conflict.
Widen(u) == To(u, [pc |-> "create", candidate |-> setup[u].candidate + 1])
Reuse(u, ids) == IF ids # {} THEN Found(u, ids) ELSE Widen(u)

setup_repo(u) ==
  LET source == setup[u].command.source
      candidates == repo_id_candidates(source)
  IN /\ \/ /\ setup[u].pc = "find"
           /\ Reuse(u, _find_existing_repo(source)) /\ UNCHANGED <<repoRow, lock>>
        \/ /\ setup[u].pc = "create" /\ setup[u].candidate <= Len(candidates)
           /\ LET id == candidates[setup[u].candidate]
              IN IF repoRow[id].source # Nil
                 THEN To(u, [pc |-> "find"]) /\ UNCHANGED repoRow
                 ELSE /\ repoRow' = [repoRow EXCEPT ![id] =
                           [Absent EXCEPT !.source = source, !.harness = setup[u].harness]]
                      /\ To(u, [pc |-> "inspect", id |-> id])
           /\ UNCHANGED lock
        \/ /\ setup[u].pc = "create" /\ setup[u].candidate > Len(candidates)
           /\ End(u, "failed") /\ UNCHANGED repoRow
     /\ UNCHANGED <<files, connections, backlog, owed, kit>>

-----------------------------------------------------------------------------
(* Binding a repository *)

_legacy_running == lock = "legacy"
\* What a new task of the harness would be given.
Serves(repo, harness) == \/ Content(repo.env).auth \cap AUTH_KEYS(harness) # {}
                         \/ harness \in Content(repo.dir).login
repo_configured(repo) == Serves(repo, repo.harness)
NeedsForge(repo) == is_github_source(repo.source) /\ ~Content(repo.env).forge

\* Everything after this works on the repository as it was read here, before the lock.
Inspect(u) ==
  /\ setup[u].pc = "inspect"
  /\ LET repo == repoRow[setup[u].id]
         keep == [pc |-> "hold", snapshot |-> repo, replace |-> FALSE, connection |-> Nil]
     IN \/ _legacy_running /\ To(u, [pc |-> "failed"])
        \/ ~_legacy_running /\ To(u, [pc |-> "hold", snapshot |-> repo, replace |-> TRUE])
        \/ /\ ~_legacy_running /\ (repo.env # Nil \/ repo.dir # Nil)
           /\ IF ~repo_configured(repo) THEN To(u, [pc |-> "paused"])
              ELSE IF ~repo.held /\ ~NeedsForge(repo) THEN To(u, [pc |-> "done"]) ELSE To(u, keep)
  /\ UNCHANGED <<repoRow, files, connections, lock, backlog, owed, kit>>

\* A claimed task whose launch is neither live nor recorded as failed or held.
MayBeLaunching(t) ==
  t.claimed /\ ~t.registered /\ ~t.held /\ t.lifecycle # "failed"

TasksOf(id) == {t \in DOMAIN backlog : backlog[t].repo = id}

\* One transaction closes the repository's admission and holds its pending tasks; a launch that
\* may be under way refuses the set-up instead.
begin_repo_setup(u) ==
  /\ setup[u].pc = "hold"
  /\ LET id == setup[u].id
         pending == {t \in TasksOf(id) : ~backlog[t].registered}
     IN IF lock # Nil \/ \E t \in pending : MayBeLaunching(backlog[t])
        THEN End(u, "failed") /\ UNCHANGED <<repoRow, backlog, owed>>
        ELSE /\ repoRow' = [repoRow EXCEPT ![id].held = TRUE]
             /\ backlog' = [t \in DOMAIN backlog |->
                  IF t \in pending THEN [backlog[t] EXCEPT !.held = TRUE] ELSE backlog[t]]
             /\ owed' = owed \cup pending
             /\ lock' = u
             /\ To(u, [pc |-> IF setup[u].connection = Nil /\ setup[u].replace
                              THEN "connect" ELSE "compose"])
  /\ UNCHANGED <<files, connections, kit>>

\* A slip: only the selected harness's lines are written.
Rewritten(old, c, h) == [old EXCEPT !.auth = Content(c).auth]

\* The new file keeps every line of the old one but the keys of the selected harness, whichever
\* other harness uses them, too, and has the connection's.
Merged(old, c, h) == [old EXCEPT !.auth = (@ \ AUTH_KEYS(h)) \cup Content(c).auth]

\* Without the forge token its workflows need, the set-up ends and the hold stays.
Compose(u) ==
  /\ setup[u].pc = "compose"
  /\ LET c == setup[u].connection h == setup[u].harness
         old == Content(setup[u].snapshot.env)
         new == IF c = Nil THEN old ELSE Merged(old, c, h)
     IN \/ c # Nil /\ ~configured(c, h) /\ End(u, "failed") /\ UNCHANGED files
        \/ NeedsForge(setup[u].snapshot) /\ End(u, "paused") /\ UNCHANGED files
        \/ /\ c # Nil => configured(c, h)
           /\ Len(files) < kit.files
           /\ Write([new EXCEPT !.forge = @ \/ is_github_source(setup[u].snapshot.source)])
           /\ To(u, [pc |-> "bind", ref |-> Fresh]) /\ UNCHANGED lock
  /\ UNCHANGED <<repoRow, connections, backlog, owed, kit>>

\* One update names the new file, and the connection's harness and directory (or none) ...
Directory(c) == IF Content(c).login # {} THEN c ELSE Nil
Bind(u) ==
  /\ setup[u].pc = "bind"
  /\ repoRow' = [repoRow EXCEPT ![setup[u].id].env = setup[u].ref,
       ![setup[u].id].dir = IF setup[u].connection = Nil THEN @ ELSE Directory(setup[u].connection),
       ![setup[u].id].harness = IF setup[u].connection = Nil THEN @ ELSE setup[u].harness]
  /\ To(u, [pc |-> "finish"])
  /\ UNCHANGED <<files, connections, lock, backlog, owed, kit>>

\* ... and only then does admission reopen, for the repository and not for its tasks.
finish_repo_setup(u) ==
  /\ setup[u].pc = "finish"
  /\ repoRow' = [repoRow EXCEPT ![setup[u].id].held = FALSE]
  /\ End(u, "done")
  /\ UNCHANGED <<files, connections, backlog, owed, kit>>

\* Interrupted: the kernel releases the lock, the service's holds stay.
Interrupt(u) ==
  /\ setup[u].pc \notin Resting /\ kit.faults > 0
  /\ kit' = [kit EXCEPT !.faults = @ - 1]
  /\ End(u, "paused")
  /\ UNCHANGED <<repoRow, files, connections, backlog, owed>>

-----------------------------------------------------------------------------
(* The tasks meanwhile *)

Change(t, fields) == backlog' = [backlog EXCEPT ![t] = [f \in DOMAIN @ |->
                       IF f \in DOMAIN fields THEN fields[f] ELSE @[f]]]

\* Creation and claims share the lock of begin_repo_setup; a task is born with its
\* repository's hold.
BornHeld(id) == repoRow[id].held
Inherited(id) == BornHeld(id)

create_task(t, id) ==
  /\ backlog[t].repo = Nil /\ kit.creations > 0 /\ repoRow[id].source # Nil
  /\ kit' = [kit EXCEPT !.creations = @ - 1]
  /\ Change(t, [repo |-> id, harness |-> repoRow[id].harness, held |-> Inherited(id)])
  /\ owed' = IF repoRow[id].held THEN owed \cup {t} ELSE owed
  /\ UNCHANGED <<repoRow, files, connections, lock, setup>>

claim(t) ==
  /\ backlog[t].repo # Nil /\ ~backlog[t].claimed
  /\ ~backlog[t].held /\ ~repoRow[backlog[t].repo].held
  /\ Change(t, [claimed |-> TRUE, lifecycle |-> "none", spawning |-> TRUE])
  /\ UNCHANGED <<repoRow, files, connections, lock, setup, owed, kit>>

\* A first launch needs a credential of its harness among the repository's; a provisioned task has
\* its own volume. A launch that cannot authenticate is failed and held.
missing_task_auth(t) == ~t.provisioned /\ ~Serves(repoRow[t.repo], t.harness)

\* The spawn that follows a claim looks at no hold; the heal of a claimed task without a session
\* leaves held and failed tasks alone.
Launch(t) ==
  /\ backlog[t].claimed /\ ~backlog[t].running
  /\ backlog[t].spawning \/ (~backlog[t].held /\ backlog[t].lifecycle # "failed")
  /\ Change(t, IF missing_task_auth(backlog[t])
               THEN [lifecycle |-> "failed", held |-> TRUE, spawning |-> FALSE]
               ELSE [running |-> TRUE, provisioned |-> TRUE, lifecycle |-> "starting",
                     spawning |-> FALSE])
  /\ UNCHANGED <<repoRow, files, connections, lock, setup, owed, kit>>

Register(t) ==
  /\ backlog[t].running /\ ~backlog[t].registered
  /\ Change(t, [registered |-> TRUE])
  /\ UNCHANGED <<repoRow, files, connections, lock, setup, owed, kit>>

Exit(t) ==
  /\ backlog[t].running /\ kit.faults > 0 /\ kit' = [kit EXCEPT !.faults = @ - 1]
  /\ Change(t, [running |-> FALSE, registered |-> FALSE, lifecycle |-> "none"])
  /\ UNCHANGED <<repoRow, files, connections, lock, setup, owed>>

\* Registrations and lifecycles live in the service's memory.
ServiceRestarts ==
  /\ kit.faults > 0 /\ kit' = [kit EXCEPT !.faults = @ - 1]
  /\ backlog' = [t \in DOMAIN backlog |->
       [backlog[t] EXCEPT !.registered = FALSE, !.lifecycle = "none"]]
  /\ UNCHANGED <<repoRow, files, connections, lock, setup, owed>>

\* The operator retries one stopped task, or releases the claim of a task that is not starting.
retry_task(t) ==
  /\ backlog[t].repo # Nil /\ ~repoRow[backlog[t].repo].held
  /\ ~backlog[t].registered /\ ~MayBeLaunching(backlog[t])
  /\ backlog[t].held
  /\ Change(t, [held |-> FALSE, claimed |-> FALSE, lifecycle |-> "none"])
  /\ owed' = owed \ {t}
  /\ UNCHANGED <<repoRow, files, connections, lock, setup, kit>>

release(t) ==
  /\ backlog[t].claimed /\ ~backlog[t].running /\ ~backlog[t].held /\ ~backlog[t].spawning
  /\ Change(t, [claimed |-> FALSE, lifecycle |-> "none"])
  /\ UNCHANGED <<repoRow, files, connections, lock, setup, owed, kit>>

-----------------------------------------------------------------------------
Init ==
  /\ \E k \in Kits :
       /\ repoRow = k.repos /\ files = k.written /\ connections = k.connections
       /\ backlog = k.tasks
       /\ kit = [f \in DOMAIN k \ {"repos", "written", "connections", "tasks"} |-> k[f]]
  /\ lock = Nil /\ owed = {} /\ setup = [u \in Setups |-> Idle]

Step(u) ==
  \/ configure_connection(u) \/ connect(u) \/ save_connection(u) \/ setup_repo(u)
  \/ Inspect(u) \/ begin_repo_setup(u) \/ Compose(u) \/ Bind(u) \/ finish_repo_setup(u)

Next ==
  \/ \E u \in Setups : Step(u) \/ Interrupt(u) \/ \E c \in kit.commands : Run(u, c)
  \/ legacy_setup \/ ServiceRestarts
  \/ \E t \in DOMAIN backlog : \/ claim(t) \/ Launch(t) \/ Register(t) \/ Exit(t)
                               \/ retry_task(t) \/ release(t)
                               \/ \E id \in DOMAIN repoRow : create_task(t, id)

Spec == Init /\ [][Next]_repoVars

-----------------------------------------------------------------------------
(* Properties *)

TypeOK ==
  /\ \A id \in DOMAIN repoRow : repoRow[id].held \in BOOLEAN /\ repoRow[id].harness \in Harnesses \cup {Nil}
  /\ lock \in Setups \cup {Nil, "legacy"} /\ owed \subseteq DOMAIN backlog
  /\ \A u \in Setups : lock = u => setup[u].pc \in {"connect", "save", "compose", "bind", "finish"}
  /\ \A t \in DOMAIN backlog : backlog[t].lifecycle \in {"none", "starting", "failed"}

\* Every binding and every saved connection names a file that was written before it was named,
\* wherever a set-up is interrupted (write_private before save_connection and update_repo).
RefsResolve ==
  /\ \A id \in DOMAIN repoRow : {repoRow[id].env, repoRow[id].dir} \subseteq DOMAIN files \cup {Nil}
  /\ \A h \in Harnesses : connections[h] # Nil => configured(connections[h], h)

\* Equivalent sources are registered once, although quickstarts race and ids collide.
OneRepoPerSource ==
  \A a, b \in DOMAIN repoRow :
    repoRow[a].source # Nil /\ repoRow[a].source = repoRow[b].source => a = b

\* A rebinding takes from the current file nothing but keys of the harness it binds: what serves
\* another harness by a key of its own, the forge token and other values survive. A key that both
\* use goes, and so may the directory (configure_repo).
OthersKept ==
  [][\A id \in DOMAIN repoRow :
       LET old == Content(repoRow[id].env) new == (Content(repoRow[id].env))'
       IN repoRow'[id].env # repoRow[id].env =>
            /\ old.auth \ AUTH_KEYS(repoRow'[id].harness) \subseteq new.auth
            /\ (old.forge => new.forge) /\ (old.other => new.other)]_repoVars

\* A rebinding to a connection serves new tasks of its harness, although file and directory were
\* read, composed and named in different steps (configure_repo; the set-up that binds has the lock).
SelectedServes ==
  [][\A id \in DOMAIN repoRow, u \in Setups :
       LET row == repoRow'[id]
       IN row.env # repoRow[id].env /\ lock = u /\ setup[u].connection # Nil =>
            row.harness = setup[u].harness /\ Serves(row, row.harness)]_repoVars

\* No repair starts a backlog: a task that waited while its repository was held, or was created
\* then, is not launched for the first time before the operator retries it.
NoBacklogStarts ==
  \A t \in owed : ~backlog[t].provisioned => ~backlog[t].claimed \/ backlog[t].held

\* A binding never changes under a launch: between a claim and the spawn's reading of the
\* repository no set-up replaces what it will read (begin_repo_setup refuses unsettled claims).
LaunchReadsOneBinding ==
  [][\A id \in DOMAIN repoRow : repoRow'[id].env # repoRow[id].env =>
       \A t \in TasksOf(id) : ~backlog[t].spawning]_repoVars

\* Set-up of one repository serves the harness that was selected and disturbs no key of others' own,
\* no other value, file, repository or task.
SetupDisturbsNothing ==
  /\ [](TypeOK /\ RefsResolve /\ OneRepoPerSource /\ NoBacklogStarts)
  /\ OthersKept /\ SelectedServes /\ LaunchReadsOneBinding
=============================================================================

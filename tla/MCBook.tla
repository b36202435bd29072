------------------------------- MODULE MCBook -------------------------------
(* The start of the stack, the service's record of repositories, set-up,      *)
(* authority scopes, the review gate, the shipped workflows and the redaction *)
(* of tokens, side by side. They share no state, so a behaviour is of one of  *)
(* them (`part`) and the others keep an initial state.                        *)
EXTENDS Naturals, Sequences, FiniteSets, TLC

CONSTANTS
  Nil, Parts,
  Models, Defects, Slots, Work,                               \* see ReviewGate
  Clients, Patches, Touches, MaxTasks, MaxRepos, MaxPatches,  \* see RepoBook
  Starters, Scenes,                                           \* see Startup
  Setups, Kits,                                               \* see RepoSetup
  Callers, Worlds,                                            \* see Authority
  Tokens, Letters, MaxText, Lifespans, Threads, MaxRuns       \* see Redaction

VARIABLES
  part,
  slots, checkout, round, dispatch, rollouts, posted, artifacts, verdict, work,
  repoRow, files, connections, lock, setup, backlog, owed, kit,
  board, repoDir, call, tokenFile, active, holder, world,
  repo, births, request, tasks, form, modal, draft, patches,
  body, sent, pending, out, filters, handle, original, caller, leaked, runs,
  disk, installed, docker, service, runner, containers, starter, stopper, scene,
  task, briefed, told, opener, shepherding, pull, agreed

-----------------------------------------------------------------------------
(* Reviews: two models on two harnesses, one model twice, a bad configuration. *)
R(h, m) == [harness |-> h, model |-> m]
McSlots == {<<R("claude", "opus"), R("codex", "sol")>>, <<R("codex", "sol"), R("codex", "opus")>>,
            <<R("codex", "sol"), R("claude", "none")>>}
McWork == {[dispatches |-> 2, commits |-> 1, edits |-> 0, faults |-> 1],
           [dispatches |-> 1, commits |-> 0, edits |-> 1, faults |-> 1],
           [dispatches |-> 1, commits |-> 1, edits |-> 1, faults |-> 0]}

Review == INSTANCE ReviewGate WITH call <- dispatch

-----------------------------------------------------------------------------
(* Set-up: quickstarts of sources whose first ids collide, and the repair of  *)
(* a bound repository among its tasks.                                        *)
Row(source, env, dir, harness) ==
  [source |-> source, env |-> env, dir |-> dir, harness |-> harness, held |-> FALSE]
Backlog(id, harness, claimed, live) ==
  [repo |-> id, harness |-> harness, held |-> FALSE, claimed |-> claimed, running |-> live,
   registered |-> live, provisioned |-> live, lifecycle |-> "none", spawning |-> FALSE]
Has(keys, login, forge, other) ==
  [auth |-> keys, login |-> login, forge |-> forge, other |-> other]
Repair(id, h) == [name |-> "repair", id |-> id, harness |-> h, source |-> Nil]
Quick(source, h) == [name |-> "quickstart", id |-> Nil, harness |-> h, source |-> source]
Kit(repos, written, connected, waiting, commands, overlap, starts, faults, creations, legacy) ==
  [repos |-> repos, written |-> written, connections |-> connected, tasks |-> waiting,
   commands |-> commands, overlap |-> overlap, runs |-> starts, faults |-> faults,
   creations |-> creations, legacy |-> legacy, files |-> 5, github |-> {"x"},
   candidates |-> [s \in {"x", "y"} |-> IF s = "x" THEN <<"r1", "r2">> ELSE <<"r1", "r3">>]]
NoRepos == [id \in {"r1", "r2", "r3"} |-> Row(Nil, Nil, Nil, Nil)]
Unconnected == [h \in {"claude", "codex", "pi"} |-> Nil]
McKits == {
  Kit(NoRepos, <<>>, Unconnected, "t1" :> Backlog(Nil, Nil, FALSE, FALSE),
      {Quick("x", "claude"), Quick("y", "codex")}, TRUE, 2, 1, 0, 0),
  \* the legacy workflow is about, too; pi's key is claude's
  Kit([NoRepos EXCEPT !["r1"] = Row("x", 1, Nil, "claude")],
      <<Has({"anthropic", "gemini"}, {}, FALSE, TRUE)>>, Unconnected,
      "t1" :> Backlog("r1", "claude", FALSE, FALSE) @@ "t2" :> Backlog(Nil, Nil, FALSE, FALSE),
      {Repair("r1", "claude")}, FALSE, 2, 1, 1, 1),
  \* a browser login is bound, and pi has codex's key
  Kit([NoRepos EXCEPT !["r1"] = Row("y", 1, 2, "codex")],
      <<Has({"openai"}, {}, FALSE, TRUE), Has({}, {"codex"}, FALSE, FALSE)>>,
      [Unconnected EXCEPT !["codex"] = 2],
      "t1" :> Backlog("r1", "codex", TRUE, TRUE) @@ "t2" :> Backlog("r1", "pi", FALSE, FALSE),
      {Repair("r1", h) : h \in {"codex", "pi"}}, FALSE, 2, 1, 0, 0)}

Repos == INSTANCE RepoSetup

KitFields == {"commands", "overlap", "runs", "faults", "creations", "legacy", "files", "github",
              "candidates"}
TaskFields == {"repo", "harness", "held", "claimed", "running", "registered", "provisioned",
               "lifecycle", "spawning"}

\* A task at rest: a live session is that of a claimed task; none is being launched.
AtRest(t) ==
  /\ DOMAIN t = TaskFields
  /\ t.lifecycle \in {"none", "starting", "failed"} /\ t.held \in BOOLEAN /\ ~t.spawning
  /\ t.claimed => t.repo # Nil
  /\ t.running => t.claimed /\ ~t.held /\ t.lifecycle # "failed"
  /\ t.registered => t.running

\* The scenes that count: equivalent sources are registered once, what is bound or saved is on the
\* disk. Either all set-ups bind repositories that are there, one at a time, or they are
\* quickstarts that may overlap, and those of one source connect one harness: the binding is
\* composed from the repository as it was read before the lock, so another harness's would be lost.
KitOK(k) ==
  LET harnesses == DOMAIN k.connections
      ids == DOMAIN k.repos
      sources == DOMAIN k.candidates
  IN /\ DOMAIN k = KitFields \cup {"repos", "written", "connections", "tasks"}
     /\ Nil \notin harnesses \cup ids \cup sources /\ k.overlap \in BOOLEAN
     /\ k.written \in Seq([auth : SUBSET Repos!Keys, login : SUBSET harnesses, forge : BOOLEAN,
                           other : BOOLEAN])
     /\ k.repos \in [ids -> [source : sources \cup {Nil}, env : DOMAIN k.written \cup {Nil},
                             dir : DOMAIN k.written \cup {Nil}, harness : harnesses \cup {Nil},
                             held : BOOLEAN]]
     /\ \A a, b \in ids : k.repos[a].source = k.repos[b].source => a = b \/ k.repos[a].source = Nil
     /\ \A a \in ids : k.repos[a].source = Nil => k.repos[a].env = Nil
     /\ \A h \in harnesses : k.connections[h] # Nil =>
          LET file == k.written[k.connections[h]]
          IN /\ k.connections[h] \in DOMAIN k.written
             /\ file.auth \subseteq Repos!AUTH_KEYS(h) /\ ~file.forge /\ ~file.other
             /\ file.auth # {} \/ h \in file.login
     /\ k.candidates \in [sources -> Seq(ids)]
     /\ \A t \in DOMAIN k.tasks : AtRest(k.tasks[t])
     /\ \A c \in k.commands :
          /\ c.harness \in harnesses
          /\ c.name \in IF k.overlap THEN {"setup", "quickstart"} ELSE {"repair"}
          /\ c.name = "repair" => c.id \in ids
          /\ c.name = "quickstart" =>
               /\ c.source \in sources
               /\ \A a \in ids : k.repos[a].source = c.source => k.repos[a].harness = c.harness
               /\ \A d \in k.commands :
                    d.name = "quickstart" /\ d.source = c.source => d.harness = c.harness

KitsAdmitted ==
  /\ Nil \notin Setups \cup Nat /\ "legacy" \notin Setups \cup {Nil}
  /\ \A k \in Kits : KitOK(k)
ASSUME KitsAssumption == KitsAdmitted

-----------------------------------------------------------------------------
(* Scopes: a chain of governors that may be closed to a cycle, two            *)
(* repositories, a child to be born, and a rotation at two of its points.     *)
T(flow, id, governor) == [born |-> TRUE, flow |-> flow, repo |-> id, governor |-> governor,
  planning |-> TRUE, terminal |-> FALSE, deps |-> {}, notes |-> 0]
Unborn == [T("plain", "r1", Nil) EXCEPT !.born = FALSE]
World(on, run, calls, moves, rotation) ==
  [board |-> on, repoDir |-> [r \in {"r1", "r2"} |-> "unset"],
   holder |-> [t \in DOMAIN on |-> IF t \in run THEN 1 ELSE 0],
   calls |-> calls, moves |-> moves, notes |-> 1, rotation |-> rotation]
McWorlds == {
  World("o" :> T("orchestrator", "r1", Nil) @@ "k" :> T("plain", "r1", "o") @@ "g" :> T("plain", "r1", "k"),
        {"o", "k"}, 2, 1, "done"),
  World("o" :> T("orchestrator", "r1", Nil) @@ "p" :> T("setup", "r2", Nil) @@ "n" :> Unborn,
        {"o", "p"}, 2, 1, "done"),
  World("o" :> T("orchestrator", "r1", Nil) @@ "p" :> T("plain", "r2", Nil), {"o", "p"}, 1, 0, "start")}

Scopes == INSTANCE Authority

\* The worlds that count: finitely many tasks, governors and dependencies that exist, no task that
\* depends on itself, containers of the first generation, a rotation that is ahead or done with.
WorldOK(w) ==
  LET ids == DOMAIN w.board
      born == {t \in ids : w.board[t].born}
  IN /\ IsFiniteSet(ids) /\ Nil \notin ids
     /\ w.board \in [ids -> [born : BOOLEAN, flow : {"plain", "orchestrator", "setup"},
                             repo : DOMAIN w.repoDir, governor : born \cup {Nil}, planning : BOOLEAN,
                             terminal : BOOLEAN, deps : SUBSET born, notes : 0 .. w.notes]]
     /\ \A t \in ids : t \notin w.board[t].deps
     /\ w.holder \in [ids -> {0, 1}] /\ {w.calls, w.moves, w.notes} \subseteq Nat
     /\ w.rotation \in {"start", "done"}

WorldsAdmitted == \A w \in Worlds : WorldOK(w)
ASSUME WorldsAssumption == WorldsAdmitted

-----------------------------------------------------------------------------
(* The record of one repository: another client, the dashboard's two forms.   *)
McPatches == {"harness" :> "codex", "model" :> <<"opus", "">>, "model" :> Nil @@ "harness" :> Nil,
              "env" :> "gone"}
McTouches == {"name" :> "", "effort" :> "high"}

Book == INSTANCE RepoBook WITH Flow <- [harness |-> Nil, model |-> Nil]

\* What the API's schemas and the modal's widgets let through: typed fields, and known keys.
FormsAdmitted ==
  /\ Nil \notin Book!Harness \cup Book!Model \cup Book!Row
  /\ {MaxTasks, MaxRepos, MaxPatches} \subseteq Nat
  /\ \A b \in Patches :
       /\ DOMAIN b \subseteq Book!Fields
       /\ "model" \in DOMAIN b => b["model"] \in Book!Model \cup {Nil}
       /\ "enabled" \in DOMAIN b => b["enabled"] \in BOOLEAN
  /\ \A m \in Touches :
       /\ DOMAIN m \subseteq {"harness", "name", "effort"}
       /\ "harness" \in DOMAIN m => m["harness"] \in Book!Harness
       /\ "name" \in DOMAIN m => m["name"] \in Book!Names
       /\ "effort" \in DOMAIN m => m["effort"] \in Book!Efforts
ASSUME BookAssumption == FormsAdmitted

-----------------------------------------------------------------------------
(* Tokens that begin, contain and end each other; two lifespans, two threads. *)
McTokens == {<<"a", "b">>, <<"a", "b", "c">>, <<"b", "c", "a">>, <<"c", "c", "c", "a">>}

Hidden == INSTANCE Redaction

\* A configured token is not empty.
TokensAdmitted ==
  /\ \A token \in Tokens : token \in Seq(Letters) /\ token # <<>>
  /\ {MaxText, MaxRuns} \subseteq Nat /\ Nil \notin Lifespans \cup {"pristine"}
ASSUME TokensAssumption == TokensAdmitted

-----------------------------------------------------------------------------
(* Starts of the stack, by two foreground processes. *)
Launch(site, mode, operator) == [site |-> site, mode |-> mode, operator |-> operator]
Db(v) == [version |-> v, tasks |-> TRUE]
Disk(auth, operator, home, legacy) ==
  [auth |-> auth, operator |-> operator, home |-> home, legacy |-> legacy]
Scene(d, v, svc, launches, together, starts, faults, stops) ==
  [disk |-> d, installed |-> v, service |-> svc, launches |-> launches, together |-> together,
   starts |-> starts, faults |-> faults, stops |-> stops]
Usual == Launch("a", "default", Nil)
Old(auth) == [instance |-> [site |-> "a", mode |-> "default", operator |-> FALSE], version |-> 0,
  phase |-> "live", auth |-> auth, enforced |-> auth # "off", operator |-> Nil]
McScenes == {
  \* a first start, twice at once; the database of an earlier layout
  Scene(Disk(Nil, Nil, Nil, Db(0)), 1, Nil, {Usual}, TRUE, 2, 1, 0),
  \* with an operator token in the environment, and a stop
  Scene(Disk(Nil, Nil, Nil, Nil), 1, Nil, {Launch("a", "default", "o1")}, TRUE, 2, 0, 1),
  Scene(Disk("s1", "o1", Db(1), Nil), 1, Nil,
        {Launch("a", "default", o) : o \in {Nil, "o1", "o2"}}, FALSE, 2, 1, 1),
  \* an unauthenticated stack, a broken credential, other installations
  Scene(Disk(Nil, Nil, Db(1), Nil), 1, [Old("off") EXCEPT !.version = 1],
        {Usual, Launch("a", "disabled", Nil)}, FALSE, 2, 0, 1),
  Scene(Disk("broken", Nil, Db(1), Nil), 1, Nil, {Launch("a", "disabled", Nil), Usual}, FALSE, 2, 1, 0),
  Scene(Disk("s1", Nil, Db(0), Nil), 1, Old("s1"),
        {Usual, Launch("b", "default", Nil)}, FALSE, 2, 2, 1)}

Stack == INSTANCE Startup

OperatorTokens == {Nil, "o1", "o2"}
Dbs      == [version : 0 .. 2, tasks : BOOLEAN]
Disks    == [auth : Starters \cup {Nil, "broken"}, operator : OperatorTokens,
             home : Dbs \cup {Nil}, legacy : Dbs \cup {Nil}]
Launches == [site : {"a", "b"}, mode : {"default", "disabled"}, operator : OperatorTokens]
Runtimes == [site : {"a", "b"}, mode : {"default", "disabled"}, operator : BOOLEAN]
Sessions == [instance : Runtimes \cup {Nil}, version : 0 .. 2, phase : {"booting", "live"},
             auth : Starters \cup {"off"}, enforced : BOOLEAN, operator : OperatorTokens]

\* The scenes that count: one database, not two; a service that is up has read the credentials.
\* Starts that overlap do not begin under a service older than their package: if it dies between
\* their two looks at it, one of them upgrades the database under the other's new service.
ScenesAdmitted ==
  /\ Nil \notin Starters \cup {"broken", "off", "o1", "o2"} \cup Dbs
  /\ \A sc \in Scenes :
       /\ sc.disk \in Disks /\ sc.installed \in 1 .. 2 /\ sc.launches \in SUBSET Launches
       /\ sc.together \in BOOLEAN /\ {sc.starts, sc.faults, sc.stops} \subseteq Nat
       /\ sc.disk.home # Nil => sc.disk.legacy = Nil
       /\ sc.service # Nil =>
            /\ sc.service \in Sessions /\ sc.service.version <= sc.installed
            /\ sc.service.auth \in {"off", sc.disk.auth}
            /\ sc.service.phase = "live" =>
                 sc.service.operator = sc.disk.operator /\ sc.disk.legacy = Nil
            /\ sc.together => sc.disk.home # Nil /\ sc.disk.home.version = sc.installed
ASSUME ScenesAssumption == ScenesAdmitted

-----------------------------------------------------------------------------
(* Every workflow the repository ships. *)
Flows == INSTANCE Shipped

-----------------------------------------------------------------------------
reviewVars == <<slots, checkout, round, dispatch, rollouts, posted, artifacts, verdict, work>>
repoVars   == <<repoRow, files, connections, lock, setup, backlog, owed, kit>>
scopeVars  == <<board, repoDir, call, tokenFile, active, holder, world>>
bookVars   == <<repo, births, request, tasks, form, modal, draft, patches>>
streamVars == <<body, sent, pending, out>>
logVars    == <<filters, handle, original, caller, leaked, runs>>
stackVars  == <<disk, installed, docker, service, runner, containers, starter, stopper, scene>>
flowVars   == <<task, briefed, told, opener, shepherding, pull, agreed>>

(* A part that is not in play keeps one initial state. *)
BookInit ==
  /\ part \in Parts
  /\ Book!Init
  /\ Review!Init /\ (part = "review" \/ (slots[2].model = "none" /\ work.dispatches = 2))
  /\ Flows!Init /\ (part = "flow" \/ task.workflow = "spike")
  /\ Repos!Init /\ (part = "setup" \/ kit.overlap)
  /\ Scopes!Init /\ (part = "scopes" \/ Cardinality(DOMAIN board) = 2)
  /\ Stack!Init /\ (part = "stack" \/ (scene.stops = 1 /\ disk.auth = Nil /\ disk.home = Nil))
  /\ Hidden!Init /\ (part = "stream" \/ body = <<"c">>)

BookNext ==
  /\ \/ /\ part = "review" /\ Review!Next
        /\ UNCHANGED <<repoVars, scopeVars, bookVars, streamVars, logVars, stackVars, flowVars>>
     \/ /\ part = "setup" /\ Repos!Next
        /\ UNCHANGED <<reviewVars, scopeVars, bookVars, streamVars, logVars, stackVars, flowVars>>
     \/ /\ part = "scopes" /\ Scopes!Next
        /\ UNCHANGED <<reviewVars, repoVars, bookVars, streamVars, logVars, stackVars, flowVars>>
     \/ /\ part = "book" /\ Book!Next
        /\ UNCHANGED <<reviewVars, repoVars, scopeVars, streamVars, logVars, stackVars, flowVars>>
     \/ /\ part = "stream" /\ Hidden!send_redacted
        /\ UNCHANGED <<reviewVars, repoVars, scopeVars, bookVars, stackVars, flowVars>>
     \/ /\ part = "log" /\ Hidden!LogNext
        /\ UNCHANGED <<reviewVars, repoVars, scopeVars, bookVars, stackVars, flowVars>>
     \/ /\ part = "stack" /\ Stack!Next
        /\ UNCHANGED <<reviewVars, repoVars, scopeVars, bookVars, streamVars, logVars, flowVars>>
     \/ /\ part = "flow" /\ Flows!Next
        /\ UNCHANGED <<reviewVars, repoVars, scopeVars, bookVars, streamVars, logVars, stackVars>>
  /\ UNCHANGED part

vars == <<part, reviewVars, repoVars, scopeVars, bookVars, streamVars, logVars, stackVars, flowVars>>
Spec == BookInit /\ [][BookNext]_vars

-----------------------------------------------------------------------------
(* What each part promises, under its own name (see the parts' modules).      *)

\* A review round is what it says it is, from dispatch to completion.
RoundIsSound == Review!RoundIsSound

\* Set-up of one repository disturbs nothing else.
SetupDisturbsNothing == Repos!SetupDisturbsNothing

\* An agent sees and changes its own subtree, also through a rotation.
Containment == Scopes!Containment

\* The record of a repository holds what it was last told.
DefaultsAreHonest == Book!DefaultsAreHonest

\* No token gets out, by a response or by the log.
TokensStayIn == Hidden!TokensStayIn

\* No call of an agent takes its task over a gate that its workflow gives to the user.
GatesStayShut == part = "flow" => Flows!GatesStayShut

\* Several starts make one installation: one credential, one operator, one database.
OneInstallation == Stack!OneInstallation
=============================================================================

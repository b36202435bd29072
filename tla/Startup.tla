------------------------------ MODULE Startup ------------------------------
(***************************************************************************)
(* `panopticon start`, `host`, `quickstart` and `stop`: foreground         *)
(* processes that share one credential directory, one database and one     *)
(* tmux server, and that bring the task service and the host daemon up as  *)
(* tmux sessions (terminal/__main__.py, terminal/runtime.py,               *)
(* taskservice/auth.py, taskservice/operator_auth.py and                   *)
(* taskservice/__main__.py).                                               *)
(*                                                                         *)
(* Every start is a process of its own (`starter`), and other starts, a    *)
(* stop, the service, the daemon and their crashes run between any two of  *)
(* its file, tmux or HTTP steps. A scene says which launches are tried     *)
(* and how many at a time; starts that overlap share their launch          *)
(* environment (what goes wrong otherwise is in the README).               *)
(*                                                                         *)
(* Left out: log files, the choice of bind address, tmux options, the      *)
(* wording of errors and the retry of a probe that times out (`TimeOut`    *)
(* stands for the deadline that passes at any probe).                      *)
(***************************************************************************)
EXTENDS Naturals, FiniteSets

CONSTANTS
  Nil,
  Starters,   \* the foreground processes; also the tokens they would generate
  Scenes      \* initial scenes (see Init)

VARIABLES
  disk,       \* credentials and databases under the configuration directories
  installed,  \* the version of the installed package
  docker,     \* whether the container engine answers
  service,    \* the tmux session `service` and the process in it, or Nil
  runner,     \* the tmux session `runner` and the daemon in it, or Nil
  containers, \* whether labelled task containers exist
  starter,    \* the foreground processes
  stopper,    \* the `panopticon stop` under way
  scene       \* the launches to try and the remaining faults

startupVars == <<disk, installed, docker, service, runner, containers, starter, stopper, scene>>

Idle == [pc |-> "idle", launch |-> Nil, auth |-> Nil, instance |-> Nil, absent |-> FALSE,
         schema |-> 0]
Ended == {"idle", "ready", "failed"}

\* What the fingerprint tells apart: the installation and its settings, and whether an operator
\* credential is selected (by the environment or by the saved file), never which one.
resolve_runtime(launch) ==
  [site |-> launch.site, mode |-> launch.mode,
   operator |-> launch.operator # Nil \/ disk.operator # Nil]

Set(s, fields) == starter' = [starter EXCEPT ![s] = [f \in DOMAIN @ |->
                    IF f \in DOMAIN fields THEN fields[f] ELSE @[f]]]
Goto(s, pc) == Set(s, [pc |-> pc])
Fail(s) == Goto(s, "failed")

-----------------------------------------------------------------------------
(* The command, up to the credential *)

\* `host` and `start` refuse without a container engine before they touch the credential;
\* `quickstart` makes the same check through the doctor.
Begin(s, launch) ==
  /\ starter[s].pc \in Ended /\ scene.starts > 0
  /\ launch \in scene.launches
  /\ \A t \in Starters : starter[t].pc \notin Ended =>
       scene.together /\ starter[t].launch = launch
  /\ scene' = [scene EXCEPT !.starts = @ - 1]
  /\ starter' = [starter EXCEPT ![s] = [Idle EXCEPT !.launch = launch, !.pc =
       IF ~docker THEN "failed" ELSE IF launch.mode = "disabled" THEN "resolve" ELSE "look"]]
  /\ UNCHANGED <<disk, installed, docker, service, runner, containers, stopper>>

\* The zero-configuration path: is there a credential already?
LookForCredential(s) ==
  /\ starter[s].pc = "look"
  /\ Goto(s, IF disk.auth = Nil THEN "unauthenticated" ELSE "load")
  /\ UNCHANGED <<disk, installed, docker, service, runner, containers, stopper, scene>>

\* Without one, a running stack must be an unauthenticated one.
_ensure_integrated_auth(s) ==
  /\ starter[s].pc = "unauthenticated"
  /\ Goto(s, IF service # Nil \/ runner # Nil THEN "failed" ELSE "publish")
  /\ UNCHANGED <<disk, installed, docker, service, runner, containers, stopper, scene>>

\* The credential file is complete before os.link publishes it, and the link fails over another.
Publish(s) == [disk EXCEPT !.auth = IF @ = Nil THEN s ELSE @]

ensure_bootstrap_credential(s) ==
  /\ starter[s].pc = "publish"
  /\ disk' = Publish(s)
  /\ Goto(s, "load")
  /\ UNCHANGED <<installed, docker, service, runner, containers, stopper, scene>>

InvalidCredentials == {Nil, "broken"}

\* Whoever won, every start reads what is on disk; an invalid file ends it.
load_tokens(s) ==
  /\ starter[s].pc = "load"
  /\ Set(s, IF disk.auth \in InvalidCredentials THEN [pc |-> "failed"]
            ELSE [pc |-> "resolve", auth |-> disk.auth])
  /\ UNCHANGED <<disk, installed, docker, service, runner, containers, stopper, scene>>

-----------------------------------------------------------------------------
(* Guard, operator credential and migration *)

Resolve(s) ==
  /\ starter[s].pc = "resolve"
  /\ Set(s, [pc |-> "guard", instance |-> resolve_runtime(starter[s].launch)])
  /\ UNCHANGED <<disk, installed, docker, service, runner, containers, stopper, scene>>

Listening == service # Nil /\ service.phase = "live"

\* The identity is accepted: the credential opens the service, and it is the same runtime.
_verified_identity(s) ==
  /\ service.auth \in {"off", starter[s].auth}
  /\ service.instance = starter[s].instance

\* A refused connection leads to the tmux check; every other answer decides at once.
guard_before_migration(s) ==
  /\ starter[s].pc = "guard"
  /\ Goto(s, IF ~Listening THEN "refused"
             ELSE IF _verified_identity(s) THEN "operator" ELSE "failed")
  /\ UNCHANGED <<disk, installed, docker, service, runner, containers, stopper, scene>>

\* A session whose API does not answer may hold the database.
NothingForbids == FALSE
SessionForbids == service # Nil

integrated_service_session_exists(s) ==
  /\ starter[s].pc = "refused"
  /\ Set(s, IF SessionForbids THEN [pc |-> "failed"] ELSE [pc |-> "operator", absent |-> TRUE])
  /\ UNCHANGED <<disk, installed, docker, service, runner, containers, stopper, scene>>

\* An operator token of the environment is saved once, before the service that will read it, and
\* never over another.
OperatorRefused(s) ==
  LET token == starter[s].launch.operator
  IN token # Nil /\ IF disk.operator # Nil THEN disk.operator # token ELSE ~starter[s].absent

persist_operator_token(s) ==
  /\ starter[s].pc = "operator"
  /\ LET token == starter[s].launch.operator
         next == IF starter[s].absent THEN "migrate" ELSE "service?"
     IN IF OperatorRefused(s) THEN Fail(s) /\ UNCHANGED disk
        ELSE /\ Goto(s, next)
             /\ disk' = [disk EXCEPT !.operator = IF token # Nil THEN token ELSE @]
  /\ UNCHANGED <<installed, docker, service, runner, containers, stopper, scene>>

\* A database of an earlier layout moves to the data directory unless one is there already.
migrate_db_to_home(d) ==
  IF d.home = Nil /\ d.legacy # Nil THEN [d EXCEPT !.home = d.legacy, !.legacy = Nil] ELSE d
\* Alembic's environment calls it too, before it opens (and so creates) the file.
EnvMoves(d) == migrate_db_to_home(d)

\* The recorded revision is read ...
_run_migrate(s) ==
  /\ starter[s].pc = "migrate"
  /\ LET d == EnvMoves(disk)
         home == IF d.home = Nil THEN [version |-> 0, tasks |-> FALSE] ELSE d.home
     IN disk' = [d EXCEPT !.home = home] /\ Set(s, [pc |-> "upgrade", schema |-> home.version])
  /\ UNCHANGED <<installed, docker, service, runner, containers, stopper, scene>>

\* ... and the revisions above it are applied; revisions another upgrade applied meanwhile fail.
Upgrade(s) ==
  /\ starter[s].pc = "upgrade"
  /\ IF starter[s].schema = installed \/ disk.home.version = starter[s].schema
     THEN Goto(s, "service?") /\ disk' = [disk EXCEPT !.home.version = installed]
     ELSE Fail(s) /\ UNCHANGED disk
  /\ UNCHANGED <<installed, docker, service, runner, containers, stopper, scene>>

-----------------------------------------------------------------------------
(* The sessions *)

Session(s) == [instance |-> starter[s].instance, version |-> installed, phase |-> "booting",
               auth |-> "off", enforced |-> starter[s].launch.mode # "disabled", operator |-> Nil]

\* has-session and new-session are two tmux commands: the one that finds the name taken raises.
_start_sessions(s) ==
  /\ \/ /\ starter[s].pc = "service?"
        /\ Goto(s, IF service = Nil THEN "service!" ELSE "runner?")
        /\ UNCHANGED <<service, runner>>
     \/ /\ starter[s].pc = "service!"
        /\ IF service = Nil THEN service' = Session(s) /\ Goto(s, "runner?")
                            ELSE Fail(s) /\ UNCHANGED service
        /\ UNCHANGED runner
     \/ /\ starter[s].pc = "runner?"
        /\ Goto(s, IF runner = Nil THEN "runner!" ELSE "identity")
        /\ UNCHANGED <<service, runner>>
     \/ /\ starter[s].pc = "runner!"
        /\ IF runner = Nil THEN runner' = Session(s) /\ Goto(s, "identity")
                           ELSE Fail(s) /\ UNCHANGED runner
        /\ UNCHANGED service
  /\ UNCHANGED <<disk, installed, docker, containers, stopper, scene>>

Registered == Listening /\ runner # Nil /\ runner.phase = "live"

\* One round of the bounded wait: the identity, then the runner inventory of whatever answers.
wait_until_ready(s) ==
  /\ \/ /\ starter[s].pc = "identity"
        /\ Listening
        /\ Goto(s, IF _verified_identity(s) THEN "runners" ELSE "failed")
     \/ /\ starter[s].pc = "runners"
        /\ Goto(s, IF ~Registered THEN "identity"
                   ELSE IF runner.instance = starter[s].instance THEN "ready" ELSE "failed")
  /\ UNCHANGED <<disk, installed, docker, service, runner, containers, stopper, scene>>

\* Every probe and the wait as a whole are bounded: the command gives up.
Bounded == {"guard", "identity", "runners"}
TimeOut(s) ==
  /\ starter[s].pc \in Bounded
  /\ Fail(s)
  /\ UNCHANGED <<disk, installed, docker, service, runner, containers, stopper, scene>>

-----------------------------------------------------------------------------
(* The processes in the sessions *)

\* The service moves legacy data, reads both credentials and then listens; an invalid credential
\* ends it, and with it its session.
ServiceBoots ==
  /\ service # Nil /\ service.phase = "booting"
  /\ LET auth == IF service.enforced THEN disk.auth ELSE "off"
     IN service' = IF auth \in InvalidCredentials THEN Nil
                   ELSE [service EXCEPT !.phase = "live", !.auth = auth,
                                        !.operator = disk.operator]
  /\ disk' = migrate_db_to_home(disk)
  /\ UNCHANGED <<installed, docker, runner, containers, starter, stopper, scene>>

\* The daemon needs Docker, then holds its registration for as long as the service accepts it.
RunnerBoots ==
  /\ runner # Nil /\ runner.phase = "booting"
  /\ \/ ~docker /\ runner' = Nil
     \/ /\ docker /\ Listening
        /\ LET auth == IF runner.enforced THEN disk.auth ELSE "off"
           IN runner' = IF service.auth \in {"off", auth}
                        THEN [runner EXCEPT !.phase = "live", !.auth = auth] ELSE Nil
  /\ UNCHANGED <<disk, installed, docker, service, containers, starter, stopper, scene>>

RunnerSpawns ==
  /\ Registered /\ docker /\ ~containers
  /\ containers' = TRUE
  /\ UNCHANGED <<disk, installed, docker, service, runner, starter, stopper, scene>>

\* A crash of a process ends its session; registrations live in the service's memory.
Fault ==
  /\ scene.faults > 0 /\ scene' = [scene EXCEPT !.faults = @ - 1]
  /\ \/ service # Nil /\ service' = Nil
        /\ runner' = (IF runner = Nil THEN Nil ELSE [runner EXCEPT !.phase = "booting"])
        /\ UNCHANGED <<installed, docker>>
     \/ runner # Nil /\ runner' = Nil /\ UNCHANGED <<service, installed, docker>>
     \/ docker' = ~docker /\ UNCHANGED <<service, runner, installed>>
     \/ \* the package is replaced while its fleet may run, never under a start
        /\ \A s \in Starters : starter[s].pc \in Ended
        /\ ~scene.together /\ installed < 2 /\ installed' = installed + 1
        /\ UNCHANGED <<service, runner, docker>>
  /\ UNCHANGED <<disk, containers, starter, stopper>>

\* `panopticon stop`: list the labelled containers, remove the listed ones, kill the tmux server.
stop ==
  /\ \/ /\ stopper = "idle" /\ scene.stops > 0
        /\ scene' = [scene EXCEPT !.stops = @ - 1]
        /\ stopper' = IF docker /\ containers THEN "remove" ELSE "kill"
        /\ UNCHANGED <<service, runner, containers>>
     \/ /\ stopper = "remove" /\ stopper' = "kill"
        /\ containers' = (IF docker THEN FALSE ELSE containers)
        /\ UNCHANGED <<service, runner, scene>>
     \/ /\ stopper = "kill" /\ stopper' = "idle"
        /\ service' = Nil /\ runner' = Nil
        /\ UNCHANGED <<containers, scene>>
  /\ UNCHANGED <<disk, installed, docker, starter>>

-----------------------------------------------------------------------------
Init ==
  /\ \E sc \in Scenes :
       /\ disk = sc.disk /\ installed = sc.installed /\ service = sc.service
       /\ scene = [launches |-> sc.launches, together |-> sc.together, starts |-> sc.starts,
                   faults |-> sc.faults, stops |-> sc.stops]
  /\ docker = TRUE /\ runner = Nil /\ containers = FALSE
  /\ starter = [s \in Starters |-> Idle] /\ stopper = "idle"

Start(s) ==
  \/ LookForCredential(s) \/ _ensure_integrated_auth(s) \/ ensure_bootstrap_credential(s)
  \/ load_tokens(s) \/ Resolve(s) \/ guard_before_migration(s)
  \/ integrated_service_session_exists(s) \/ persist_operator_token(s)
  \/ _run_migrate(s) \/ Upgrade(s) \/ _start_sessions(s) \/ wait_until_ready(s) \/ TimeOut(s)

Next ==
  \/ \E s \in Starters : Start(s) \/ \E l \in scene.launches : Begin(s, l)
  \/ ServiceBoots \/ RunnerBoots \/ RunnerSpawns \/ Fault \/ stop

Spec == Init /\ [][Next]_startupVars

-----------------------------------------------------------------------------
(* Properties *)

TypeOK ==
  /\ disk.auth \in Starters \cup {Nil, "broken"} /\ disk.operator \in {Nil, "o1", "o2"}
  /\ installed \in 1..2 /\ {docker, containers} \subseteq BOOLEAN
  /\ \A p \in {service, runner} : p # Nil =>
       p.phase \in {"booting", "live"} /\ p.auth \in Starters \cup {"off"} /\ p.version \in 0..installed
  /\ \A s \in Starters : starter[s].auth \in Starters \cup {Nil}
  /\ \A s \in Starters : starter[s].pc \in Ended \cup {"look", "unauthenticated", "publish", "load",
       "resolve", "guard", "refused", "operator", "migrate", "upgrade", "service?", "service!",
       "runner?", "runner!", "identity", "runners"}

\* However the starts interleave, everyone that authenticates holds the one credential on disk:
\* no start, service or daemon is left with the token of a lost race (ensure_bootstrap_credential
\* publishes with os.link and then loads).
OneCredential ==
  /\ \A s \in Starters : starter[s].auth \in {Nil, disk.auth}
  /\ \A p \in {service, runner} : p # Nil => p.auth \in {"off", disk.auth}

\* The schema changes only while no service session exists: not under a live, a starting or a hung
\* service, and not by the second of two racing starts (guard_before_migration).
EffectiveMigrationIsAlone ==
  [][disk.home # Nil /\ disk'.home.version # disk.home.version => service = Nil]_startupVars

\* The service that listens knows the saved operator credential: none is saved, or replaced,
\* behind the back of a running service (persist_operator_token).
OperatorIsKnown == Listening => service.operator = disk.operator

\* A listening service serves the operator's existing tasks: the database of the earlier layout is
\* never shadowed by a new empty one (migrate_db_to_home, called before Alembic connects).
LegacyTasksCome == Listening => disk.legacy = Nil

\* Several starts make one installation: one credential, one operator, one database, and no
\* migration under a service.
OneInstallation ==
  /\ [](TypeOK /\ OneCredential /\ OperatorIsKnown /\ LegacyTasksCome)
  /\ EffectiveMigrationIsAlone
=============================================================================

---------------------------- MODULE RunnerFleet ----------------------------
(* The hosts that run tasks: the pass a host daemon makes over a snapshot of  *)
(* the tasks (sessionservice/host.py, sessionservice/spawner.py), the         *)
(* containers and tmux sessions it starts (sessionservice/local_runner.py),   *)
(* the agent inside (container/agent.py), and the service's record of claims, *)
(* lifecycle phases and open connections (taskservice/service.py).            *)
(*                                                                            *)
(* Every task here runs in a container, has no dependencies, and has never    *)
(* been provisioned on a host; a finished task keeps no workspace. The phases *)
(* of a spawn in flight (claiming to awaiting), which reconcile treats alike, *)
(* are one. What goes wrong is counted in "spent" and limited by Allowance.   *)
EXTENDS Integers, FiniteSets

CONSTANTS
  Tasks,
  Hosts,
  Nil,          \* no claim, no phase
  MaxRespawns,  \* of spawner.py, 5 in production
  Allowance     \* bound on each disturbance: how often it may strike

Disturbances == {"session", "container", "agent", "docker", "host", "reboot", "service",
                 "flicker", "release", "retry", "finish", "revive", "build", "other",
                 "hold", "rest", "slow"}

Phases == {"healing", "inflight", "failed"}

ASSUME FleetAssumption ==
  /\ Nil \notin Hosts \cup Phases
  /\ MaxRespawns \in Nat \ {0}
  /\ Allowance \in [Disturbances -> Nat]

VARIABLES
  task,         \* the service's record: stage, claimed_by, launch_paused, lifecycle phase
  linked,       \* task -> hosts whose container of it holds a registration open
  online,       \* live_runners(): hosts whose liveness stream is open
  host,         \* host -> the pass its daemon is in
  respawns,     \* host -> task -> count in _respawns (0: no entry)
  window,       \* host -> task -> how far the time since that entry's stamp has run
  preSession,   \* host -> _pre_session_failures
  running,      \* host -> tasks whose container runs there
  session,      \* host -> tasks that have a tmux session there
  workspace,    \* host -> tasks whose checkout is there
  docker,       \* hosts whose Docker daemon answers
  tries,        \* host -> task -> respawns since the reset window last ran out (observed,
                \* not stored)
  spent         \* disturbance -> how often it struck

service == <<task, linked, online>>
budget  == <<respawns, window, preSession, tries>>
machine == <<running, session, workspace, docker>>
vars    == <<service, host, budget, machine, spent>>

Strike(d) == /\ spent[d] < Allowance[d]
             /\ spent' = [spent EXCEPT ![d] = @ + 1]

-----------------------------------------------------------------------------
(* What the service shows *)

Statuses == Phases \cup {"none", "paused", "queued", "live", "disconnected", "down"}

compose_container_status(t) ==
  LET row == task[t] IN
  CASE row.stage # "open"                    -> "none"
    [] row.stage = "open" /\ row.paused /\ linked[t] = {}
                                             -> IF row.phase = "failed" THEN "failed" ELSE "paused"
    [] OTHER ->
         CASE row.claimed = Nil              -> "queued"
           [] row.claimed # Nil /\ linked[t] # {}
                                             -> IF row.phase = "failed" THEN "failed" ELSE "live"
           [] OTHER -> IF row.claimed \notin online THEN "disconnected"
                       ELSE IF row.phase = Nil THEN "down" ELSE row.phase

View(t) == [stage |-> task[t].stage, claimed |-> task[t].claimed, paused |-> task[t].paused,
            phase |-> task[t].phase, status |-> compose_container_status(t)]

(* What the service's handlers leave of the record of t. *)
Reported(t, p) == [task EXCEPT ![t].phase = p]
Released(t)    == [task EXCEPT ![t].claimed = Nil, ![t].phase = Nil]

-----------------------------------------------------------------------------
(* A host daemon's pass *)

NoView == [stage |-> "open", claimed |-> Nil, paused |-> FALSE, phase |-> Nil,
           status |-> "queued"]
Idle   == [pc |-> "idle", todo |-> {}, at |-> Nil, snap |-> [t \in Tasks |-> NoView],
           startup |-> FALSE]

(* The pass of h once it is done with t in the loop it is in. *)
After(h, t) ==
  LET rest == host[h].todo \ {t}
      again == IF host[h].pc \in {"reclaim", "mark"} THEN host[h].pc ELSE "work" IN
  CASE rest # {}                -> [host[h] EXCEPT !.pc = again, !.todo = rest, !.at = Nil]
    [] rest = {} /\ host[h].pc = "reclaim" -> [host[h] EXCEPT !.pc = "mark", !.todo = Tasks]
    [] rest = {} /\ host[h].pc = "mark"    -> [host[h] EXCEPT !.pc = "work", !.todo = Tasks]
    [] OTHER                    -> Idle

Done(h, t)     == host' = [host EXCEPT ![h] = After(h, t)]
Goto(h, t, pc) == host' = [host EXCEPT ![h].pc = pc, ![h].at = t]

(* The loop h is in has yet to look at t. *)
Facing(h, pc, t) == host[h].pc = pc /\ t \in host[h].todo

Mine(h, t) == host[h].snap[t].claimed = h

(* A slip: a task whose launch failed counts as over. *)
OpenUnlessFailed(h, t) == host[h].snap[t].stage = "open" /\ host[h].snap[t].phase # "failed"

Open(h, t) == host[h].snap[t].stage = "open"

(* h is at step pc of its work on t. *)
At(h, t, pc) == host[h].pc = pc /\ host[h].at = t

(* The entry of h for t is stamped with the present time. *)
Stamped(h, t) == [window EXCEPT ![h][t] = "fresh"]

(* A slip: a failed launch is an orphan too; a lost container makes one      *)
(* instead of a lost session; one flagged already is passed over.             *)
OrphanThoughFailed(h, t) ==
  Mine(h, t) /\ Open(h, t) /\ ~host[h].snap[t].paused /\ t \notin session[h]
OrphanUnlessFlagged(h, t) ==
  /\ Mine(h, t) /\ Open(h, t) /\ ~host[h].snap[t].paused
  /\ host[h].snap[t].status \notin {"failed", "healing"}
  /\ t \notin session[h]

is_orphan(h, t) ==
  /\ Mine(h, t) /\ Open(h, t)
  /\ ~host[h].snap[t].paused
  /\ host[h].snap[t].status # "failed"
  /\ t \notin session[h]

(* A slip: the time a launch took that never got to a session counts too. *)
CountWithoutLatch(h, t) ==
  IF window[h][t] \in {"survived", "lapsed"} THEN 0 ELSE respawns[h][t]

respawn_count(h, t) ==
  IF t \notin preSession[h] /\ window[h][t] \in {"survived", "lapsed"} THEN 0 ELSE respawns[h][t]

(* The snapshot list_tasks_versioned returns. A pass is far shorter than the  *)
(* reset window: the time since a stamp counts as the session's own while it  *)
(* is up ("alive"), and as time without one after a whole pass ("ripe").      *)
Poll(h) ==
  /\ host[h].pc = "idle"
  /\ host' = [host EXCEPT ![h] = [pc |-> IF host[h].startup THEN "reclaim" ELSE "mark",
                                  todo |-> Tasks, at |-> Nil,
                                  snap |-> [t \in Tasks |-> View(t)], startup |-> FALSE]]
  /\ window' = [window EXCEPT ![h] = [t \in Tasks |->
                  IF respawns[h][t] = 0 \/ @[t] \in {"survived", "lapsed"} THEN @[t]
                  ELSE IF t \in session[h] THEN "alive"
                  ELSE IF @[t] = "polled" THEN "ripe" ELSE "polled"]]
  /\ UNCHANGED <<service, respawns, preSession, tries, machine, spent>>

(* startup_reclaim. A probe that fails preserves the claim. *)
Reclaim(h, t) ==
  /\ Facing(h, "reclaim", t)
  /\ Done(h, t)
  /\ IF /\ Mine(h, t) /\ Open(h, t)
        /\ ~host[h].snap[t].paused
        /\ host[h].snap[t].status # "failed"
        /\ h \in docker /\ t \notin running[h]
     THEN task' = Released(t)
     ELSE UNCHANGED task
  /\ UNCHANGED <<linked, online, budget, machine, spent>>

mark_healing(h, t) ==
  /\ Facing(h, "mark", t)
  /\ Done(h, t)
  /\ IF /\ is_orphan(h, t)
        /\ respawn_count(h, t) < MaxRespawns
        /\ host[h].snap[t].status # "healing"
     THEN task' = Reported(t, "healing")
     ELSE UNCHANGED task
  /\ UNCHANGED <<linked, online, budget, machine, spent>>

(* A slip: the claim is set without looking whose it is. *)
CanClaimUnchecked(h, t) ==
  ~task[t].paused /\ (task[t].claimed = Nil => task[t].stage = "open")

(* The service's compare-and-set on the claim. *)
CanClaim(h, t) ==
  /\ task[t].claimed \in {Nil, h}
  /\ ~task[t].paused
  /\ task[t].claimed = Nil => task[t].stage = "open"

spawn_one(h, t) ==
  /\ Facing(h, "work", t)
  /\ host[h].snap[t].claimed = Nil /\ Open(h, t) /\ ~host[h].snap[t].paused
  /\ IF h \in docker /\ CanClaim(h, t)
     THEN /\ task' = [task EXCEPT ![t].claimed = h, ![t].phase = Nil]
          /\ respawns' = [respawns EXCEPT ![h][t] = 0]
          /\ window' = Stamped(h, t)
          /\ preSession' = [preSession EXCEPT ![h] = @ \ {t}]
          /\ tries' = [tries EXCEPT ![h][t] = 0]
          /\ Goto(h, t, "launch")
     ELSE Done(h, t) /\ UNCHANGED <<task, budget>>
  /\ UNCHANGED <<linked, online, machine, spent>>

(* reconcile, first of the two for a task of ours. Its probe raises without   *)
(* Docker, which ends the pass for this task.                                 *)
reconcile(h, t) ==
  /\ Facing(h, "work", t)
  /\ Mine(h, t) /\ Open(h, t)
  /\ LET coming == host[h].snap[t].status = "inflight" IN
     /\ IF coming /\ h \notin docker THEN Done(h, t) ELSE Goto(h, t, "heal")
     /\ task' = IF coming /\ h \in docker /\ t \notin running[h] THEN Reported(t, Nil) ELSE task
  /\ UNCHANGED <<linked, online, budget, machine, spent>>

(* A slip: an outage is not noted. *)
DeferUnnoted(h, t)    == FALSE

MayRespawn(h, t) == is_orphan(h, t) /\ h \in docker /\ respawn_count(h, t) < MaxRespawns
Deferred(h, t)   == is_orphan(h, t) /\ h \notin docker

(* heal, up to the respawn. *)
heal(h, t) ==
  /\ At(h, t, "heal")
  /\ IF MayRespawn(h, t)
     THEN /\ Goto(h, t, "launch")
          /\ respawns' = [respawns EXCEPT ![h][t] = respawn_count(h, t) + 1]
          /\ tries' = [tries EXCEPT ![h][t] = IF @ <= MaxRespawns THEN @ + 1 ELSE @]
     ELSE Done(h, t) /\ UNCHANGED <<respawns, tries>>
  /\ window' = IF MayRespawn(h, t) \/ Deferred(h, t) THEN Stamped(h, t) ELSE window
  /\ UNCHANGED <<service, preSession, machine, spent>>

-----------------------------------------------------------------------------
(* _spawn: a claimed task is launched *)

(* The first report, which asks for no claim. *)
Announce(h, t) ==
  /\ At(h, t, "launch")
  /\ Goto(h, t, "start")
  /\ task' = Reported(t, "inflight")
  /\ UNCHANGED <<linked, online, budget, machine, spent>>

(* A launch that took longer than the window, and did not fail for want of an *)
(* image or container, was its last attempt of the window.                    *)
Outlasted(h, t) == IF window[h][t] = "lapsed" THEN [tries EXCEPT ![h][t] = 0] ELSE tries

(* The agent's credentials are missing: the task is held, if the claim is     *)
(* still ours; the service refuses otherwise.                                 *)
HoldLaunch(h, t) ==
  /\ At(h, t, "start")
  /\ Strike("hold")
  /\ Done(h, t)
  /\ task' = IF task[t].claimed = h
             THEN [task EXCEPT ![t].paused = TRUE, ![t].phase = "failed"] ELSE task
  /\ tries' = Outlasted(h, t)
  /\ UNCHANGED <<linked, online, respawns, window, preSession, machine>>

(* A failure outside the image and container commands. *)
FailLaunch(h, t) ==
  /\ At(h, t, "start")
  /\ Strike("other")
  /\ Done(h, t)
  /\ task' = Reported(t, "failed")
  /\ tries' = Outlasted(h, t)
  /\ UNCHANGED <<linked, online, respawns, window, preSession, machine>>

(* An infrastructure failure: before the stale container and session are      *)
(* removed, or after. It is deferred to the next pass while no session exists *)
(* and the budget lasts.                                                      *)
InfraFail(h, t) ==
  /\ At(h, t, "start")
  /\ IF h \in docker THEN Strike("build") ELSE UNCHANGED spent
  /\ Done(h, t)
  /\ \E removed \in BOOLEAN :
       LET gone      == removed /\ h \in docker
           noSession == removed \/ t \notin session[h]
           deferred  == noSession /\ respawns[h][t] < MaxRespawns IN
       /\ session' = IF removed THEN [session EXCEPT ![h] = @ \ {t}] ELSE session
       /\ running' = IF gone THEN [running EXCEPT ![h] = @ \ {t}] ELSE running
       /\ linked' = IF gone THEN [linked EXCEPT ![t] = @ \ {h}] ELSE linked
       /\ workspace' = [workspace EXCEPT ![h] = @ \cup {t}]
       /\ preSession' = IF noSession THEN [preSession EXCEPT ![h] = @ \cup {t}] ELSE preSession
       /\ window' = IF noSession THEN Stamped(h, t) ELSE window
       /\ task' = Reported(t, IF deferred THEN Nil ELSE "failed")
  /\ UNCHANGED <<online, respawns, tries, docker>>

(* LocalRunner.spawn: the stale pair is removed, the container and its session *)
(* come up, and the last phase is reported before the agent starts.            *)
StartBackend(h, t) ==
  /\ At(h, t, "start")
  /\ h \in docker
  /\ Done(h, t)
  /\ running' = [running EXCEPT ![h] = @ \cup {t}]
  /\ session' = [session EXCEPT ![h] = @ \cup {t}]
  /\ workspace' = [workspace EXCEPT ![h] = @ \cup {t}]
  /\ linked' = [linked EXCEPT ![t] = @ \ {h}]
  /\ preSession' = [preSession EXCEPT ![h] = @ \ {t}]
  /\ task' = Reported(t, "inflight")
  /\ tries' = Outlasted(h, t)
  /\ UNCHANGED <<online, respawns, window, docker, spent>>

(* A slip in the step below: a container found running is left. *)
LeaveRunning(h, t) == UNCHANGED <<running, session, linked>>

(* A live container is stopped; of one that exited the session is kept. *)
StopLive(h, t) ==
  IF t \in running[h]
  THEN /\ running' = [running EXCEPT ![h] = @ \ {t}]
       /\ session' = [session EXCEPT ![h] = @ \ {t}]
       /\ linked' = [linked EXCEPT ![t] = @ \ {h}]
  ELSE UNCHANGED <<running, session, linked>>

ReleaseLingering(h, t) == IF Mine(h, t) THEN Released(t) ELSE task

(* A task the snapshot shows finished: heal forgets its budget, then cleanup  *)
(* stops its container, releases its claim and deletes its checkout. Without  *)
(* Docker the probe raises before any of the three.                           *)
cleanup(h, t) ==
  /\ Facing(h, "work", t)
  /\ ~Open(h, t)
  /\ Done(h, t)
  /\ IF Mine(h, t)
     THEN /\ respawns' = [respawns EXCEPT ![h][t] = 0]
          /\ window' = Stamped(h, t)
          /\ preSession' = [preSession EXCEPT ![h] = @ \ {t}]
          /\ tries' = [tries EXCEPT ![h][t] = 0]
     ELSE UNCHANGED budget
  /\ IF h \in docker
     THEN /\ StopLive(h, t)
          /\ task' = ReleaseLingering(h, t)
          /\ workspace' = [workspace EXCEPT ![h] = @ \ {t}]
     ELSE UNCHANGED <<task, linked, running, session, workspace>>
  /\ UNCHANGED <<online, docker, spent>>

(* An open task of another host, or one held without a claim. *)
PassOver(h, t) ==
  /\ Facing(h, "work", t)
  /\ Open(h, t) /\ ~Mine(h, t)
  /\ host[h].snap[t].claimed # Nil \/ host[h].snap[t].paused
  /\ Done(h, t)
  /\ UNCHANGED <<service, budget, machine, spent>>

-----------------------------------------------------------------------------
(* Containers and their agents *)

(* The container's registration stream opens. *)
Link(h, t) ==
  /\ t \in running[h]
  /\ h \notin linked[t]
  /\ linked' = [linked EXCEPT ![t] = @ \cup {h}]
  /\ UNCHANGED <<task, online, host, budget, machine, spent>>

(* The agent reports its failure, then stops its container (ContainerDies). *)
AgentFails(h, t) ==
  /\ t \in running[h] /\ t \in session[h]
  /\ Strike("agent")
  /\ task[t].claimed = h /\ task[t].stage = "open"
  /\ task' = Reported(t, "failed")
  /\ UNCHANGED <<linked, online, host, budget, machine>>

(* A tmux session is killed; its container lives on. *)
SessionDies(h, t) ==
  /\ t \in session[h]
  /\ Strike("session")
  /\ session' = [session EXCEPT ![h] = @ \ {t}]
  /\ UNCHANGED <<service, host, budget, running, workspace, docker>>

(* A container exits, and with it the agent its session shows. *)
ContainerDies(h, t) ==
  /\ t \in running[h]
  /\ Strike("container")
  /\ running' = [running EXCEPT ![h] = @ \ {t}]
  /\ session' = [session EXCEPT ![h] = @ \ {t}]
  /\ linked' = [linked EXCEPT ![t] = @ \ {h}]
  /\ UNCHANGED <<task, online, host, budget, workspace, docker>>

-----------------------------------------------------------------------------
(* Hosts, the service and the operator *)

Gone(h) == /\ running' = [running EXCEPT ![h] = {}]
           /\ session' = [session EXCEPT ![h] = {}]
           /\ linked' = [t \in Tasks |-> linked[t] \ {h}]

(* The Docker daemon stops answering; its containers may have died with it. *)
DockerStops(h) ==
  /\ h \in docker
  /\ Strike("docker")
  /\ docker' = docker \ {h}
  /\ Gone(h) \/ UNCHANGED <<running, session, linked>>
  /\ UNCHANGED <<task, online, host, budget, workspace>>

DockerReturns(h) ==
  /\ h \notin docker
  /\ docker' = docker \cup {h}
  /\ UNCHANGED <<service, host, budget, running, session, workspace, spent>>

(* A new daemon process: what the old one remembered is lost. It starts only  *)
(* while Docker answers.                                                      *)
Fresh(h) ==
  /\ h \in docker
  /\ host' = [host EXCEPT ![h] = [Idle EXCEPT !.startup = TRUE]]
  /\ respawns' = [respawns EXCEPT ![h] = [t \in Tasks |-> 0]]
  /\ window' = [window EXCEPT ![h] = [t \in Tasks |-> "fresh"]]
  /\ tries' = [tries EXCEPT ![h] = [t \in Tasks |-> 0]]
  /\ preSession' = [preSession EXCEPT ![h] = {}]
  /\ online' = online \ {h}

(* The daemon alone restarts; containers and sessions survive. *)
HostRestarts(h) ==
  /\ Strike("host")
  /\ Fresh(h)
  /\ UNCHANGED <<task, linked, machine>>

(* The machine reboots, or a clean stop took the containers down first. *)
Reboots(h) ==
  /\ Strike("reboot")
  /\ Fresh(h)
  /\ Gone(h)
  /\ UNCHANGED <<task, workspace, docker>>

(* hold_runner_liveness: the stream opens, and may drop under a live daemon. *)
GoOnline(h) ==
  /\ h \notin online
  /\ online' = online \cup {h}
  /\ UNCHANGED <<task, linked, host, budget, machine, spent>>

Flickers(h) ==
  /\ h \in online
  /\ Strike("flicker")
  /\ online' = online \ {h}
  /\ UNCHANGED <<task, linked, host, budget, machine>>

(* Phases, registrations and runner streams are kept in memory. *)
ServiceRestarts ==
  /\ Strike("service")
  /\ task' = [t \in Tasks |-> [task[t] EXCEPT !.phase = Nil]]
  /\ linked' = [t \in Tasks |-> {}]
  /\ online' = {}
  /\ UNCHANGED <<host, budget, machine>>

(* The operator releases one claim ... *)
release(t) ==
  /\ task[t].claimed # Nil
  /\ Strike("release")
  /\ task' = Released(t)
  /\ UNCHANGED <<linked, online, host, budget, machine>>

(* ... or all those of a host he takes for dead. *)
reclaim(h) ==
  /\ \E t \in Tasks : task[t].claimed = h
  /\ Strike("release")
  /\ task' = [t \in Tasks |-> IF task[t].claimed = h /\ task[t].stage = "open"
                              THEN [task[t] EXCEPT !.claimed = Nil, !.phase = Nil] ELSE task[t]]
  /\ UNCHANGED <<linked, online, host, budget, machine>>

retry_task(t) ==
  /\ task[t].stage = "open" /\ linked[t] = {}
  /\ task[t].claimed = Nil \/ task[t].paused \/ task[t].phase = "failed"
  /\ Strike("retry")
  /\ task' = [task EXCEPT ![t].paused = FALSE, ![t].claimed = Nil, ![t].phase = Nil]
  /\ UNCHANGED <<linked, online, host, budget, machine>>

(* The task is completed or dropped; its claim stays. *)
Finish(t) ==
  /\ task[t].stage = "open"
  /\ Strike("finish")
  /\ task' = [task EXCEPT ![t].stage = "finished"]
  /\ UNCHANGED <<linked, online, host, budget, machine>>

(* A free move reopens it. *)
Revive(t) ==
  /\ task[t].stage = "finished"
  /\ Strike("revive")
  /\ task' = [task EXCEPT ![t].stage = "open"]
  /\ UNCHANGED <<linked, online, host, budget, machine>>

-----------------------------------------------------------------------------
(* Time *)

(* The reset window runs out for the entry of t on h: its session has been up *)
(* since the stamp ...                                                        *)
Survive(h, t) ==
  /\ window[h][t] = "alive" /\ t \in session[h]
  /\ window' = [window EXCEPT ![h][t] = "survived"]
  /\ tries' = [tries EXCEPT ![h][t] = 0]
  /\ UNCHANGED <<service, host, respawns, preSession, machine, spent>>

(* ... or there was none: Docker is away, or the respawns are used up and t   *)
(* rests, or a launch on h takes as long. A launch that failed since (the     *)
(* latch) keeps the count, and so may the one under way.                      *)
Lapse(h, t) ==
  /\ respawns[h][t] > 0 /\ t \notin session[h]
  /\ \/ /\ window[h][t] = "ripe" /\ host[h].pc = "idle"
        /\ \/ h \notin docker /\ UNCHANGED spent
           \/ h \in docker /\ respawn_count(h, t) >= MaxRespawns /\ Strike("rest")
     \/ /\ host[h].pc = "start" /\ window[h][t] \notin {"survived", "lapsed"}
        /\ Strike("slow")
  /\ window' = [window EXCEPT ![h][t] = "lapsed"]
  /\ tries' = IF t \in preSession[h] \/ At(h, t, "start") THEN tries
              ELSE [tries EXCEPT ![h][t] = 0]
  /\ UNCHANGED <<service, host, respawns, preSession, machine>>

-----------------------------------------------------------------------------
(* The hosts start with no task claimed. *)
Init ==
  /\ task = [t \in Tasks |-> [stage |-> "open", claimed |-> Nil, paused |-> FALSE, phase |-> Nil]]
  /\ linked = [t \in Tasks |-> {}]
  /\ online = Hosts
  /\ host = [h \in Hosts |-> [Idle EXCEPT !.startup = TRUE]]
  /\ respawns = [h \in Hosts |-> [t \in Tasks |-> 0]]
  /\ window = [h \in Hosts |-> [t \in Tasks |-> "fresh"]]
  /\ preSession = [h \in Hosts |-> {}]
  /\ tries = [h \in Hosts |-> [t \in Tasks |-> 0]]
  /\ running = [h \in Hosts |-> {}]
  /\ session = [h \in Hosts |-> {}]
  /\ workspace = [h \in Hosts |-> {}]
  /\ docker = Hosts
  /\ spent = [d \in Disturbances |-> 0]

(* The daemon of h takes a step of its pass. *)
HostStep(h) ==
  \/ Poll(h)
  \/ \E t \in Tasks :
       \/ Reclaim(h, t) \/ mark_healing(h, t)
       \/ spawn_one(h, t) \/ reconcile(h, t) \/ heal(h, t) \/ cleanup(h, t) \/ PassOver(h, t)
       \/ Announce(h, t) \/ StartBackend(h, t)
       \/ HoldLaunch(h, t) \/ FailLaunch(h, t) \/ InfraFail(h, t)

Environment ==
  \/ \E h \in Hosts, t \in Tasks :
       \/ Link(h, t) \/ AgentFails(h, t) \/ SessionDies(h, t) \/ ContainerDies(h, t)
       \/ Survive(h, t) \/ Lapse(h, t)
  \/ \E h \in Hosts :
       \/ DockerStops(h) \/ DockerReturns(h) \/ HostRestarts(h) \/ Reboots(h)
       \/ GoOnline(h) \/ Flickers(h) \/ reclaim(h)
  \/ \E t \in Tasks : release(t) \/ retry_task(t) \/ Finish(t) \/ Revive(t)
  \/ ServiceRestarts

Next == (\E h \in Hosts : HostStep(h)) \/ Environment

Spec == Init /\ [][Next]_vars

(* The daemon never stops looping, its stream reconnects, containers keep     *)
(* trying to register, and an outage of Docker ends.                          *)
Fairness ==
  \A h \in Hosts :
    /\ WF_vars(HostStep(h))
    /\ WF_vars(GoOnline(h))
    /\ WF_vars(DockerReturns(h))
    /\ \A t \in Tasks : WF_vars(Link(h, t))

FairSpec == Spec /\ Fairness

-----------------------------------------------------------------------------
(* Properties *)

TaskRecord == [stage : {"open", "finished"}, claimed : Hosts \cup {Nil}, paused : BOOLEAN,
               phase : Phases \cup {Nil}]
TaskView == [stage : {"open", "finished"}, claimed : Hosts \cup {Nil}, paused : BOOLEAN,
             phase : Phases \cup {Nil}, status : Statuses]
HostRecord == [pc : {"idle", "reclaim", "mark", "work", "heal", "launch", "start"},
               todo : SUBSET Tasks, at : Tasks \cup {Nil}, snap : [Tasks -> TaskView],
               startup : BOOLEAN]

(* The type of every variable. *)
TypeOK ==
  /\ task \in [Tasks -> TaskRecord]
  /\ linked \in [Tasks -> SUBSET Hosts]
  /\ online \subseteq Hosts
  /\ host \in [Hosts -> HostRecord]
  /\ respawns \in [Hosts -> [Tasks -> 0 .. MaxRespawns]]
  /\ window \in [Hosts -> [Tasks -> {"fresh", "alive", "polled", "ripe", "survived", "lapsed"}]]
  /\ preSession \in [Hosts -> SUBSET Tasks]
  /\ tries \in [Hosts -> [Tasks -> 0 .. MaxRespawns + 1]]
  /\ running \in [Hosts -> SUBSET Tasks]
  /\ session \in [Hosts -> SUBSET Tasks]
  /\ workspace \in [Hosts -> SUBSET Tasks]
  /\ docker \subseteq Hosts
  /\ spent \in [Disturbances -> Nat]

(* A task's container runs on one host at most, whatever dies, restarts or is *)
(* reopened while hosts act on snapshots they took before: the claim gate of  *)
(* spawn_one, heal and cleanup.                                               *)
OneHostRuns ==
  \A t \in Tasks : \A g, h \in Hosts : t \in running[g] /\ t \in running[h] => g = h

(* Whoever launches a task holds its claim until the launch is over, though   *)
(* neither heal nor the launch asks for it again (_spawn: "already claimed"). *)
LaunchUnderClaim ==
  \A h \in Hosts, t \in Tasks : At(h, t, "start") => task[t].claimed = h

(* A container runs under the claim of its host: one that runs without would  *)
(* be started a second time, by whoever claims the task next.                 *)
RunsUnderClaim ==
  \A h \in Hosts, t \in Tasks : t \in running[h] => task[t].claimed = h

(* What a daemon may believe of its own claims while nobody else touches      *)
(* them: the tasks its snapshot shows as its own and its pass has yet to deal *)
(* with are still its own; a new process has none to reclaim.                 *)
Believes(h, t) ==
  /\ Mine(h, t)
  /\ \/ host[h].pc = "mark"
     \/ host[h].pc \in {"work", "heal", "launch", "start"} /\ t \in host[h].todo

ClaimInv ==
  /\ \A h \in Hosts : host[h].startup => host[h].pc = "idle"
  /\ \A h \in Hosts, t \in Tasks :
       /\ host[h].startup => task[t].claimed # h
       /\ host[h].pc = "reclaim" => ~Mine(h, t)
       /\ Believes(h, t) => task[t].claimed = h
       /\ At(h, t, "heal") => t \in host[h].todo
       /\ At(h, t, "launch") \/ At(h, t, "start") => t \in host[h].todo /\ task[t].claimed = h
       /\ t \in running[h] => task[t].claimed = h

(* No daemon is replaced, no operator lets go of a claim. *)
ClaimsLeftAlone == \A d \in {"host", "reboot", "release", "retry"} : Allowance[d] = 0

(* A daemon's pass never takes a claim from another host.                     *)
OthersClaimsStand ==
  [][\A h \in Hosts, t \in Tasks :
       host'[h] # host[h] /\ task[t].claimed \notin {Nil, h}
         => task'[t].claimed = task[t].claimed]_vars

(* No agent and no launch has given up for good, and none has taken as long as *)
(* the reset window.                                                           *)
OnlyOutages == \A d \in {"agent", "other", "slow"} : spent[d] = 0

(* A budget not used up starts anew only after a session that lived: neither  *)
(* an outage of Docker, whatever ended with it and however often, nor the wait *)
(* for the next pass counts as survival, whoever stamped the entry last (heal, *)
(* _spawn). It holds until an agent reports its failure, a launch fails        *)
(* outside the image and container commands, or one is slow (OnlyOutages): a   *)
(* task shown failed is not stamped, so once the service forgets the failure   *)
(* its entry is old, and the budget starts anew.                               *)
OutageKeepsBudget ==
  [][\A h \in Hosts, t \in Tasks :
       /\ OnlyOutages
       /\ At(h, t, "heal") /\ host'[h].pc = "launch"
       /\ respawns[h][t] \in 1 .. MaxRespawns - 1
       => respawns'[h][t] = respawns[h][t] + 1 \/ window[h][t] = "survived"]_vars

(* A host respawns a task MaxRespawns times at most in one reset window (heal, *)
(* _respawn_count). The window runs out for a session that lived, for a task   *)
(* at rest, away from Docker or behind a slow launch of another, and for a     *)
(* slow launch that comes up. It does not for launches that fail for want of   *)
(* an image or a container, however slow, nor for a task that rests after one  *)
(* (_pre_session_failures).                                                    *)
CrashLoopCapped ==
  \A h \in Hosts, t \in Tasks : tries[h][t] <= MaxRespawns

(* Past the cap a task is left down until an operator looks (docs/container.md), *)
(* unless its last session lived: what heal's guard on the count is for.        *)
PastCapLeftDown ==
  [][\A h \in Hosts, t \in Tasks :
       At(h, t, "heal") /\ respawns[h][t] = MaxRespawns /\ window[h][t] # "survived"
         => host'[h].pc # "launch"]_vars

(* A host whose snapshot shows a task of its own failed leaves the failure as *)
(* it is and the claim where it is (_is_orphan, startup_reclaim).             *)
FailureSeenStands ==
  [][\A h \in Hosts, t \in Tasks :
       /\ host'[h] # host[h]
       /\ host[h].snap[t].phase = "failed" /\ Mine(h, t) /\ Open(h, t)
       /\ task[t].phase = "failed" /\ task[t].claimed = h
       => task'[t] = task[t]]_vars

(* A checkout is deleted only while its task is finished, though cleanup and   *)
(* the launches of the pass never look again: it holds while nobody reopens a  *)
(* task.                                                                       *)
OpenCheckoutsStay ==
  [][\A h \in Hosts, t \in Tasks :
       t \in workspace[h] \ workspace'[h] => task[t].stage = "finished"]_vars

(* What ends the automatic recovery of a task: an operator has to act. *)
Latched(t) ==
  \/ task[t].paused
  \/ task[t].phase = "failed"
  \/ \E h \in Hosts : task[t].claimed = h /\ respawn_count(h, t) >= MaxRespawns

(* An open task comes to run with a session to attach to, unless it is latched *)
(* for the operator: lost sessions, containers, connections and daemons are    *)
(* all recovered from.                                                         *)
Recovers ==
  \A t \in Tasks :
    task[t].stage = "open" ~>
      \/ \E h \in Hosts : t \in running[h] \cap session[h]
      \/ Latched(t) \/ task[t].stage # "open"

(* A finished task's container stops, on whichever host it runs, and its claim *)
(* is given up (cleanup), unless the task is reopened.                         *)
CleansUp ==
  \A t \in Tasks :
    task[t].stage = "finished" ~>
      \/ task[t].claimed = Nil /\ \A h \in Hosts : t \notin running[h]
      \/ task[t].stage # "finished"
=============================================================================

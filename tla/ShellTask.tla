------------------------------ MODULE ShellTask ------------------------------
(* One task of a workflow that runs as a shell script on the host: the shell  *)
(* runner (sessionservice/shell_runner.py) below the spawner's passes, the    *)
(* tmux session, the shell in its pane, and the detached helpers that hold    *)
(* the task's liveness (sessionservice/shell_liveness.py).                    *)
(*                                                                            *)
(* Everything one spawn makes carries its number; the session has a name      *)
(* only, which is the same for every spawn. The service authenticates its     *)
(* callers. The script is long enough to be spilled to a file or it is not.   *)
EXTENDS Naturals, FiniteSets

CONSTANTS
  Shifts      \* the bounds a behaviour may start with: on spawns, rotations, faults

VARIABLES
  shellTask,  \* what the service records: ended, claimed, phase, and the claims so far
  spawn,      \* the spawn the daemon is in, and its number
  session,    \* the spawn whose shell the tmux session of the task runs, or 0
  panes,      \* the shells that have not exited: booting, running or trapping
  helpers,    \* the liveness helpers: loading their credential, or on
  snapshots,  \* the credential snapshots of the task on disk
  scriptFile, \* the spawn that wrote the spilled script, or 0 for no file
  spilled,    \* whether the script is spilled
  links,      \* the helpers whose liveness request is open
  refused,    \* the spawns whose credential the service no longer takes
  shift       \* what is left of the bounds

shellVars == <<shellTask, spawn, session, panes, helpers, snapshots, scriptFile, spilled,
               links, refused, shift>>

n == spawn.n
InProgress == {"claiming", "starting", "awaiting"}

Spend(what) == shift[what] > 0 /\ shift' = [shift EXCEPT ![what] = @ - 1]
Free == UNCHANGED shift

Phase(phase) == shellTask' = [shellTask EXCEPT !.phase = phase]

(* Killing the session hangs its shell up. *)
kill_session ==
  /\ session' = 0
  /\ panes' = {IF p.n = session THEN [p EXCEPT !.hup = TRUE] ELSE p : p \in panes}

HostFiles == UNCHANGED <<snapshots, scriptFile>>
Processes == UNCHANGED <<session, panes, helpers, links>>
Settled   == UNCHANGED <<spilled, refused>>

-----------------------------------------------------------------------------
(* The daemon's passes over the task *)

(* A slip: a task without a session is an orphan whatever runs it. *)
OrphansToo ==
  ~shellTask.ended /\ (~shellTask.claimed \/ (session = 0 /\ shellTask.phase # "failed"))

(* A shell task is spawned when nobody has claimed it and never healed. *)
_is_orphan == ~shellTask.ended /\ ~shellTask.claimed

spawn_one ==
  /\ spawn.pc = "idle" /\ _is_orphan /\ Spend("spawns")
  /\ shellTask' = [shellTask EXCEPT !.claimed = TRUE, !.phase = "claiming",
                                    !.claims = IF shellTask.claimed THEN @ ELSE @ + 1]
  /\ spawn' = [pc |-> "remove", n |-> n + 1]
  /\ HostFiles /\ Processes /\ Settled

ComingUp == shellTask.phase \in InProgress

reconcile ==
  /\ spawn.pc = "idle" /\ shellTask.claimed /\ ComingUp
  /\ links = {} /\ session = 0
  /\ Phase("none")
  /\ UNCHANGED spawn /\ HostFiles /\ Processes /\ Settled /\ Free

stop == kill_session /\ snapshots' = {}

cleanup ==
  /\ spawn.pc = "idle" /\ shellTask.ended
  /\ shellTask.claimed \/ session # 0 \/ snapshots # {}
  /\ stop
  /\ shellTask' = [shellTask EXCEPT !.claimed = FALSE, !.phase = "none"]
  /\ UNCHANGED <<spawn, scriptFile, helpers, links>> /\ Settled /\ Free

(* Drops and releases come from the dashboard. *)
DropTask ==
  /\ ~shellTask.ended
  /\ shellTask' = [shellTask EXCEPT !.ended = TRUE]
  /\ UNCHANGED spawn /\ HostFiles /\ Processes /\ Settled /\ Free

release ==
  /\ shellTask.claimed /\ ~shellTask.ended /\ spawn.pc = "idle"
  /\ shellTask' = [shellTask EXCEPT !.claimed = FALSE, !.phase = "none"]
  /\ UNCHANGED spawn /\ HostFiles /\ Processes /\ Settled /\ Free

(* The daemon dies in a spawn; what it was doing is not resumed. *)
Die ==
  /\ spawn.pc # "idle" /\ Spend("faults")
  /\ spawn' = [spawn EXCEPT !.pc = "idle"]
  /\ UNCHANGED shellTask /\ HostFiles /\ Processes /\ Settled

-----------------------------------------------------------------------------
(* One spawn of the shell runner *)

At(pc, next) == spawn.pc = pc /\ spawn' = [spawn EXCEPT !.pc = next]

(* A spawn that raises takes its own files away and reports the failure. *)
Raise ==
  /\ spawn.pc \in {"snapshot", "write", "new"} /\ Spend("faults")
  /\ spawn' = [spawn EXCEPT !.pc = "idle"]
  /\ Phase("failed")
  /\ IF spawn.pc = "snapshot" THEN UNCHANGED <<snapshots, scriptFile>>
     ELSE snapshots' = snapshots \ {n} /\ scriptFile' = 0
  /\ Processes /\ Settled

_remove_auth_snapshots ==
  /\ At("remove", "snapshot")
  /\ snapshots' = {}
  /\ UNCHANGED <<shellTask, scriptFile>> /\ Processes /\ Settled /\ Free

snapshot_tokens ==
  /\ At("snapshot", "write")
  /\ snapshots' = snapshots \cup {n}
  /\ UNCHANGED <<shellTask, scriptFile>> /\ Processes /\ Settled /\ Free

WriteScript ==
  /\ At("write", "kill")
  /\ scriptFile' = IF spilled THEN n ELSE scriptFile
  /\ UNCHANGED <<shellTask, snapshots>> /\ Processes /\ Settled /\ Free

ReportStarting == Phase("starting")

KillStale ==
  /\ At("kill", "new")
  /\ kill_session /\ ReportStarting
  /\ UNCHANGED <<helpers, links>> /\ HostFiles /\ Settled /\ Free

NewSession ==
  /\ At("new", "idle")
  /\ session' = n /\ panes' = panes \cup {[n |-> n, at |-> "boot", hup |-> FALSE]}
  /\ Phase("awaiting")
  /\ UNCHANGED <<helpers, links>> /\ HostFiles /\ Settled /\ Free

-----------------------------------------------------------------------------
(* The shell in the pane *)

Gone(p) == panes' = panes \ {p} /\ session' = IF session = p.n THEN 0 ELSE session
Daemon  == UNCHANGED spawn

(* The prologue starts the helper and sets the traps. A spilled script that   *)
(* is not there any more ends the session.                                    *)
Boot(p) ==
  /\ p.at = "boot" /\ ~p.hup
  /\ IF spilled /\ scriptFile # p.n
     THEN Gone(p) /\ UNCHANGED helpers
     ELSE /\ panes' = (panes \ {p}) \cup {[p EXCEPT !.at = "run"]}
          /\ helpers' = helpers \cup {[n |-> p.n, on |-> FALSE]}
          /\ UNCHANGED session
  /\ UNCHANGED <<shellTask, links>> /\ Daemon /\ HostFiles /\ Settled /\ Free

(* The script ends the task with the credential of its own spawn. *)
panopticon_operation(p) ==
  /\ p.at = "run" /\ ~p.hup /\ p.n \in snapshots \ refused /\ ~shellTask.ended
  /\ shellTask' = [shellTask EXCEPT !.ended = TRUE]
  /\ Daemon /\ HostFiles /\ Processes /\ Settled /\ Free

OwnSnapshot(p) == snapshots \ {p.n}

(* The script exits or is hung up: its trap ends the helper and removes the   *)
(* snapshot, and a spilled script's wrapper removes the file, unless the      *)
(* wrapper is a shell that a hang-up ends without its trap.                   *)
_panopticon_cleanup(p) ==
  /\ p.at = "run" /\ Gone(p)
  /\ helpers' = {h \in helpers : h.n # p.n} /\ links' = links \ {p.n}
  /\ snapshots' = OwnSnapshot(p)
  /\ scriptFile' \in IF ~spilled THEN {scriptFile} ELSE IF p.hup THEN {scriptFile, 0} ELSE {0}
  /\ UNCHANGED shellTask /\ Daemon /\ Settled /\ Free

(* A shell that is killed, or hung up before its traps are set, leaves everything. *)
Killed(p) ==
  /\ \/ p.at = "boot" /\ p.hup /\ Free
     \/ p.at = "run" /\ Spend("faults")
  /\ Gone(p)
  /\ UNCHANGED <<shellTask, helpers, links>> /\ Daemon /\ HostFiles /\ Settled

-----------------------------------------------------------------------------
(* The detached helper. It knows its session by the name alone. *)

EndHelper(h) == helpers' = helpers \ {h} /\ links' = links \ {h.n}

Load(h) ==
  /\ ~h.on
  /\ helpers' = (helpers \ {h}) \cup (IF h.n \in snapshots THEN {[h EXCEPT !.on = TRUE]} ELSE {})
  /\ UNCHANGED <<shellTask, session, panes, links>> /\ Daemon /\ HostFiles /\ Settled /\ Free

_session_exists == session # 0

(* A refused credential is refused for good: the helper ends the session. *)
hold_shell_liveness(h) ==
  /\ h.on /\ h.n \notin links /\ _session_exists
  /\ IF h.n \in refused
     THEN kill_session /\ EndHelper(h) /\ snapshots' = snapshots \ {h.n}
     ELSE links' = links \cup {h.n} /\ UNCHANGED <<session, panes, helpers, snapshots>>
  /\ UNCHANGED <<shellTask, scriptFile>> /\ Daemon /\ Settled /\ Free

(* A slip: a helper looks for its session only between two connections. *)
WatchUnlinked(h) == h.n \notin links /\ ~_session_exists

SessionGone(h) == ~_session_exists

watch_session(h) ==
  /\ SessionGone(h)
  /\ EndHelper(h) /\ snapshots' = snapshots \ {h.n}
  /\ UNCHANGED <<shellTask, session, panes, scriptFile>> /\ Daemon /\ Settled /\ Free

(* The thread that connects sees it first: the process ends without the other one. *)
LeaveLoop(h) ==
  /\ h.on /\ h.n \notin links /\ ~_session_exists
  /\ EndHelper(h)
  /\ UNCHANGED <<shellTask, session, panes>> /\ Daemon /\ HostFiles /\ Settled /\ Free

(* The service restarts with new tokens, or just drops the connections. *)
Rotate ==
  /\ Spend("rotations") /\ links' = {}
  /\ refused' \in {refused, 1 .. n}
  /\ UNCHANGED <<shellTask, session, panes, helpers, spilled>> /\ Daemon /\ HostFiles

-----------------------------------------------------------------------------
Init ==
  /\ shellTask = [ended |-> FALSE, claimed |-> FALSE, phase |-> "none", claims |-> 0]
  /\ spawn = [pc |-> "idle", n |-> 0] /\ session = 0
  /\ panes = {} /\ helpers = {} /\ snapshots = {} /\ scriptFile = 0 /\ links = {} /\ refused = {}
  /\ spilled \in BOOLEAN /\ shift \in Shifts

Spawning == _remove_auth_snapshots \/ snapshot_tokens \/ WriteScript \/ KillStale \/ NewSession
Pane(p)   == Boot(p) \/ (p.hup /\ _panopticon_cleanup(p)) \/ (p.hup /\ p.at = "boot" /\ Killed(p))
Helper(h) == Load(h) \/ hold_shell_liveness(h) \/ watch_session(h)

Next ==
  \/ spawn_one \/ reconcile \/ cleanup \/ DropTask \/ release \/ Die \/ Raise \/ Rotate
  \/ Spawning
  \/ \E p \in panes : Boot(p) \/ panopticon_operation(p) \/ _panopticon_cleanup(p) \/ Killed(p)
  \/ \E h \in helpers : Helper(h) \/ LeaveLoop(h)

(* The daemon runs, pass after pass; shells and helpers are processes of the host. *)
Fairness ==
  /\ WF_shellVars(Spawning \/ cleanup \/ reconcile)
  /\ WF_shellVars(\E p \in panes : Pane(p))
  /\ WF_shellVars(\E h \in helpers : Helper(h))

Spec == Init /\ [][Next]_shellVars
FairSpec == Spec /\ Fairness

-----------------------------------------------------------------------------
(* Each variable has its type. *)
TypeOK ==
  /\ shellTask \in [ended : BOOLEAN, claimed : BOOLEAN, claims : Nat,
                    phase : InProgress \cup {"none", "failed"}]
  /\ spawn.pc \in {"idle", "remove", "snapshot", "write", "kill", "new"} /\ n \in Nat
  /\ {session, scriptFile} \cup snapshots \cup links \cup refused \subseteq 0 .. n
  /\ panes \subseteq [n : 1 .. n, at : {"boot", "run"}, hup : BOOLEAN]
  /\ helpers \subseteq [n : 1 .. n, on : BOOLEAN]

(* A script is run once for each claim: no pass of the daemon, no restart and *)
(* no lost session runs it again (spawner.py:482, 619).                       *)
RunOncePerClaim == n <= shellTask.claims

(* The latest session keeps its credential for as long as its script runs:    *)
(* shells and helpers of earlier spawns, still ending under the same session  *)
(* name, remove only their own (shell_runner.py:278, shell_liveness.py:37).   *)
SessionKeepsItsCredential == session = n /\ session # 0 => session \in snapshots

(* Once the task has ended, its session ends and no credential of it stays on *)
(* disk, whichever of shell, helper and daemon died first (spawner.py:663).   *)
EndedLeavesNothing == shellTask.ended ~> [](session = 0 /\ snapshots = {})

(* Liveness is the session's: a helper of the latest spawn gets registered,   *)
(* and when the session is gone no registration stays (shell_runner.py:195).  *)
LiveWithItsSession ==
  /\ \A k \in 1 .. 2 : session = k ~> (k \in links \/ session # k \/ n > k)
  /\ session = 0 /\ links # {} ~> links = {} \/ session # 0

(* A task whose session is gone is not shown as coming up for ever, wherever  *)
(* its spawn was cut short (spawner.py:464).                                  *)
NeverStuckComingUp ==
  shellTask.claimed /\ shellTask.phase \in InProgress /\ session = 0 ~>
    session # 0 \/ shellTask.phase \notin InProgress

(* Each claim runs the script once, under a credential that stays. *)
ScriptHasItsClaim == TypeOK /\ RunOncePerClaim /\ SessionKeepsItsCredential

(* Sessions, helpers and the record of them come to agree. *)
SessionsEndClean == EndedLeavesNothing /\ LiveWithItsSession /\ NeverStuckComingUp
=============================================================================

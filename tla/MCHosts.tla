------------------------------ MODULE MCHosts ------------------------------
(* Two hosts and one task, in two respects that share no state: whose         *)
(* containers run under whose claim (RunnerFleet), and where the workspace is *)
(* (Handover). A behaviour is about one of them (`part`).                     *)
EXTENDS Handover, TLC

CONSTANTS h1, h2, t1, Parts

ASSUME HostsAssumption == Nil \notin {"healing", "inflight", "failed"}

VARIABLES
  part,
  task, linked, online, host, respawns, window, preSession, running, session, workspace, docker,
  tries, spent

workspaceVars == vars
fleetVars == <<task, linked, online, host, respawns, window, preSession, running, session,
               workspace, docker, tries, spent>>

-----------------------------------------------------------------------------
(* A workspace has one scene's trouble, not all of it. *)
Scene(w, r, a, e, s, c, m, f) ==
  [work |-> w, release |-> r, ask |-> a, export |-> e, spawn |-> s, accept |-> c, remove |-> m,
   fault |-> f]

Scenes == {Scene(1, 2, 2, 1, 1, 2, 1, 0),     \* there and back again
           Scene(1, 1, 1, 1, 1, 2, 0, 1),     \* a command is interrupted, and tried again
           Scene(1, 1, 1, 1, 2, 1, 0, 0),     \* the new host's spawner is at it meanwhile
           Scene(2, 1, 1, 1, 1, 1, 0, 0)}     \* the agent goes on after the snapshot

(* What the disagreement with REQ-037 needs. *)
PlainMove == {Scene(0, 1, 1, 1, 2, 1, 0, 0)}

-----------------------------------------------------------------------------
(* A fleet: everything dies once, nobody interferes with a claim. *)
Struck == {"session", "container", "docker", "agent", "other", "finish", "revive"}

Fleet == INSTANCE RunnerFleet WITH
  Tasks <- {t1}, MaxRespawns <- 2,
  Allowance <- [d \in {"session", "container", "docker", "reboot", "agent", "other", "build",
                       "slow", "rest", "service", "flicker", "host", "hold", "release", "retry",
                       "finish", "revive"} |-> IF d \in Struck THEN 1 ELSE 0]

HostSymmetry == Permutations(Hosts)

-----------------------------------------------------------------------------
HostsInit ==
  /\ part \in Parts
  /\ Init /\ Fleet!Init
  /\ part = "fleet" => left = CHOOSE b \in Budgets : TRUE

HostsNext ==
  /\ \/ part = "workspace" /\ Next /\ UNCHANGED fleetVars
     \/ part = "fleet" /\ Fleet!Next /\ UNCHANGED workspaceVars
  /\ UNCHANGED part

HostsSpec == HostsInit /\ [][HostsNext]_<<part, workspaceVars, fleetVars>>

-----------------------------------------------------------------------------
(* What RunnerFleet promises (see there). *)

(* A task's container runs on one host at most. *)
OneHostRuns == Fleet!OneHostRuns

(* No daemon touches another host's claim. *)
OthersClaimsStand == Fleet!OthersClaimsStand

(* A failure a daemon has seen stands. *)
FailureSeenStands == Fleet!FailureSeenStands
=============================================================================

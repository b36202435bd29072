------------------------------- MODULE MCDesk -------------------------------
(* What an operator works with, side by side: an agent's container, a shell   *)
(* task's session and the console. They share no state, so a behaviour is of  *)
(* one of them (`part`) and the others keep an initial state.                 *)
EXTENDS Naturals, Sequences, FiniteSets

CONSTANT Nil

VARIABLES
  part,
  harness, env, volume, pane, told, agent, pid1, conn, regs, ball, late, copies, totals,
  used, recorded, failed, outOfTouch, budget,
  shellTask, spawn, session, panes, helpers, snapshots, scriptFile, spilled, links, refused, shift,
  up, live, known, dash, file, sup, client, picks, left

sessionVars == <<harness, env, volume, pane, told, agent, pid1, conn, regs, ball, late, copies,
                 totals, used, recorded, failed, outOfTouch, budget>>
shellVars   == <<shellTask, spawn, session, panes, helpers, snapshots, scriptFile, spilled,
                 links, refused, shift>>
consoleVars == <<up, live, known, dash, file, sup, client, picks, left>>

-----------------------------------------------------------------------------
(* An agent of each harness, with every credential its repository may give.   *)
Claude == [mount : {"no"}, key : {"no", "key", "revoked"}, reconcile : {FALSE}]
Codex  == [mount : {"no", "good", "bad"}, key : {"no", "key", "token"}, reconcile : BOOLEAN]
Pi     == [mount : {"no", "good", "bad"}, key : {"no", "key"}, reconcile : {FALSE}]
Day(p, c, x, r, o, f) ==
  [prompts |-> p, containers |-> c, exits |-> x, repairs |-> r, others |-> o, faults |-> f]
McDays == {Day(2, 1, 0, 0, 0, 1), Day(2, 1, 0, 0, 2, 0), Day(1, 2, 1, 0, 1, 0),
           Day(0, 2, 0, 1, 0, 1), Day(0, 2, 1, 0, 0, 1)}

Agent == INSTANCE AgentSession WITH
  Envs <- [claude |-> Claude, codex |-> Codex, pi |-> Pi], MaxConns <- 4, Days <- McDays

-----------------------------------------------------------------------------
(* A shell task that is spawned twice, rotates its credential, and has a fault. *)
Shell == INSTANCE ShellTask WITH Shifts <- {[spawns |-> 2, rotations |-> 1, faults |-> 1]}

-----------------------------------------------------------------------------
(* The console over two tasks, invoked twice. *)
Desk == INSTANCE Console WITH
  Tasks <- {"t1", "t2"}, Attempts <- 2, MaxStarts <- 2, MaxKeys <- 2, MaxChanges <- 2

-----------------------------------------------------------------------------
(* One initial state of a part that is not in play. *)
Aside ==
  /\ part = "agent" \/ (/\ harness = "claude" /\ env.key = "no" /\ told.first /\ ~told.prompt
                        /\ ball = "user" /\ budget = Day(2, 1, 0, 0, 0, 1))
  /\ part = "shell" \/ ~spilled
  /\ part = "desk" \/ ~up

DeskInit ==
  /\ part \in {"agent", "shell", "desk"}
  /\ Agent!Init /\ Shell!Init /\ Desk!Init
  /\ Aside

DeskNext ==
  /\ \/ part = "agent" /\ Agent!Next /\ UNCHANGED <<shellVars, consoleVars>>
     \/ part = "shell" /\ Shell!Next /\ UNCHANGED <<sessionVars, consoleVars>>
     \/ part = "desk" /\ Desk!Next /\ UNCHANGED <<sessionVars, shellVars>>
  /\ UNCHANGED part

deskVars == <<part, sessionVars, shellVars, consoleVars>>

(* The fairness each part's module states, for the part in play. *)
DeskFairness ==
  /\ WF_sessionVars(part = "agent" /\ Agent!Connect)
  /\ WF_sessionVars(part = "agent" /\ Agent!Leave /\ pid1 = "stopping")
  /\ WF_sessionVars(part = "agent" /\ \E c \in Agent!Conns : Agent!hold(c))
  /\ WF_sessionVars(part = "agent" /\ (Agent!report_failure \/ Agent!_stop_container))
  /\ WF_shellVars(part = "shell" /\ (Shell!Spawning \/ Shell!cleanup \/ Shell!reconcile))
  /\ WF_shellVars(part = "shell" /\ \E p \in panes : Shell!Pane(p))
  /\ WF_shellVars(part = "shell" /\ \E h \in helpers : Shell!Helper(h))
  /\ WF_consoleVars(part = "desk" /\ Desk!Supervises)
  /\ WF_consoleVars(part = "desk" /\ Desk!Dashes)

DeskSpec == DeskInit /\ [][DeskNext]_deskVars /\ DeskFairness

-----------------------------------------------------------------------------
(* What each part promises, under its own name (see the parts' modules).      *)

(* The recorded turn is the agent's exactly when it works or will wake. *)
TurnFollowsAgent == Agent!TurnFollowsAgent

(* What runs in a container is what was approved for it. *)
RunsAsApproved == Agent!RunsAsApproved

(* The service learns what happens in the container. *)
ServiceLearns == Agent!ServiceLearns

(* Each claim runs the script once, under a credential that stays. *)
ScriptHasItsClaim == Shell!ScriptHasItsClaim

(* A shell task's sessions, helpers and record come to agree. *)
SessionsEndClean == Shell!SessionsEndClean

(* A pick leads to what was picked. *)
PicksAreFollowed == Desk!PicksAreFollowed
=============================================================================

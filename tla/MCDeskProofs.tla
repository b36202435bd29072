---------------------------- MODULE MCDeskProofs ----------------------------
(* What runs in a container, whose turn is on record, and what a shell task's *)
(* session holds: the invariants the run `desk` checks, for behaviours of any *)
(* length. No step of a proof looks at the bounds a behaviour starts with     *)
(* (McDays, Shifts), at the number of connections, or at the console.         *)
EXTENDS MCDesk, TLAPS

-----------------------------------------------------------------------------
(* A shell task *)

(* While a spawn is under way nothing of it runs yet, and from the moment it  *)
(* has taken its snapshot nobody else removes it: shells and helpers remove   *)
(* their own, and a spawn's are made by its last step.                        *)
ShellInv ==
  /\ Shell!TypeOK /\ Shell!RunOncePerClaim /\ Shell!SessionKeepsItsCredential
  /\ spawn \in [pc : {"idle", "remove", "snapshot", "write", "kill", "new"}, n : Nat]
  /\ spawn.pc # "idle" =>
       /\ spawn.n > 0 /\ session # spawn.n
       /\ \A p \in panes : p.n # spawn.n
       /\ \A h \in helpers : h.n # spawn.n
  /\ spawn.pc \in {"write", "kill", "new"} => spawn.n \in snapshots

(* A shell task starts with the invariant. *)
LEMMA ShellStarts == Shell!Init => ShellInv
  BY DEF Shell!Init, ShellInv, Shell!TypeOK, Shell!RunOncePerClaim,
     Shell!SessionKeepsItsCredential, Shell!n, Shell!InProgress

(* What leaves the shell task alone keeps the invariant. *)
LEMMA ShellRests == ShellInv /\ UNCHANGED shellVars => ShellInv'
  BY DEF ShellInv, Shell!TypeOK, Shell!RunOncePerClaim, Shell!SessionKeepsItsCredential,
     Shell!n, Shell!InProgress, shellVars

(* A hang-up keeps the shells, and whose they are.                            *)
LEMMA HangUp ==
  ASSUME ShellInv, Shell!kill_session
  PROVE  /\ session' = 0
         /\ panes' \subseteq [n : 1 .. spawn.n, at : {"boot", "run"}, hup : BOOLEAN]
         /\ \A p \in panes' : \E q \in panes : p.n = q.n
<1>1. ASSUME NEW p \in panes
      PROVE  LET q == IF p.n = session THEN [p EXCEPT !.hup = TRUE] ELSE p
             IN  q \in [n : 1 .. spawn.n, at : {"boot", "run"}, hup : BOOLEAN] /\ q.n = p.n
  BY DEF ShellInv, Shell!TypeOK, Shell!n
<1>2. session' = 0
  BY DEF Shell!kill_session
<1>3. ASSUME NEW r \in panes'
      PROVE  /\ r \in [n : 1 .. spawn.n, at : {"boot", "run"}, hup : BOOLEAN]
             /\ \E q \in panes : r.n = q.n
  <2>1. PICK p \in panes : r = IF p.n = session THEN [p EXCEPT !.hup = TRUE] ELSE p
    BY DEF Shell!kill_session
  <2> QED
    BY <2>1, <1>1
<1> QED
  BY <1>2, <1>3

(* The passes of the daemon, and what the operator does, keep it. *)
LEMMA DaemonKeeps ==
  ASSUME ShellInv,
         Shell!spawn_one \/ Shell!reconcile \/ Shell!cleanup \/ Shell!DropTask
           \/ Shell!release \/ Shell!Die \/ Shell!Raise \/ Shell!Rotate
  PROVE  ShellInv'
<1> USE DEF ShellInv, Shell!TypeOK, Shell!RunOncePerClaim, Shell!SessionKeepsItsCredential,
        Shell!n, Shell!InProgress
<1> USE DEF Shell!HostFiles, Shell!Processes, Shell!Settled, Shell!Free, Shell!Spend, Shell!Phase
<1>1. CASE Shell!spawn_one
  <2>1. /\ spawn' = [pc |-> "remove", n |-> spawn.n + 1]
        /\ shellTask' = [ended |-> shellTask.ended, claimed |-> TRUE, phase |-> "claiming",
                         claims |-> shellTask.claims + 1]
        /\ UNCHANGED <<session, panes, helpers, snapshots, scriptFile, links, refused>>
    BY <1>1 DEF Shell!spawn_one, Shell!_is_orphan
  <2>2. /\ shellTask'.claims = shellTask.claims + 1
        /\ shellTask' \in [ended : BOOLEAN, claimed : BOOLEAN, claims : Nat,
                           phase : {"claiming", "starting", "awaiting", "none", "failed"}]
    BY <2>1
  <2>3. /\ spawn'.pc = "remove" /\ spawn'.n = spawn.n + 1
        /\ spawn' \in [pc : {"idle", "remove", "snapshot", "write", "kill", "new"}, n : Nat]
    BY <2>1
  <2>4. Shell!TypeOK'
    BY <2>1, <2>2, <2>3
  <2> QED
    BY <2>1, <2>2, <2>3, <2>4
<1>2. CASE Shell!reconcile
  BY <1>2 DEF Shell!reconcile
<1>3. CASE Shell!cleanup
  <2>1. /\ shellTask' = [shellTask EXCEPT !.claimed = FALSE, !.phase = "none"]
        /\ spawn.pc = "idle" /\ snapshots' = {}
        /\ UNCHANGED <<spawn, scriptFile, helpers, links, refused>>
        /\ Shell!kill_session
    BY <1>3 DEF Shell!cleanup, Shell!stop
  <2>2. /\ session' = 0
        /\ panes' \subseteq [n : 1 .. spawn.n, at : {"boot", "run"}, hup : BOOLEAN]
    BY <2>1, HangUp
  <2>3. /\ shellTask'.claims = shellTask.claims
        /\ shellTask' \in [ended : BOOLEAN, claimed : BOOLEAN, claims : Nat,
                           phase : {"claiming", "starting", "awaiting", "none", "failed"}]
    BY <2>1
  <2> QED
    BY <2>1, <2>2, <2>3
<1>4. CASE Shell!DropTask
  BY <1>4 DEF Shell!DropTask
<1>5. CASE Shell!release
  BY <1>5 DEF Shell!release
<1>6. CASE Shell!Die
  BY <1>6 DEF Shell!Die
<1>7. CASE Shell!Raise
  BY <1>7 DEF Shell!Raise
<1>8. CASE Shell!Rotate
  <2>1. /\ links' = {} /\ refused' \in {refused, 1 .. spawn.n}
        /\ UNCHANGED <<shellTask, spawn, session, panes, helpers, snapshots, scriptFile>>
    BY <1>8 DEF Shell!Rotate, Shell!Daemon
  <2>2. refused' \subseteq 0 .. spawn.n
    <3>1. 1 .. spawn.n \subseteq 0 .. spawn.n
      OBVIOUS
    <3> QED
      BY <2>1, <3>1
  <2> QED
    BY <2>1, <2>2
<1> QED
  BY <1>1, <1>2, <1>3, <1>4, <1>5, <1>6, <1>7, <1>8

(* The steps of a spawn keep it. *)
LEMMA SpawnKeeps ==
  ASSUME ShellInv, Shell!Spawning
  PROVE  ShellInv'
<1> USE DEF ShellInv, Shell!TypeOK, Shell!RunOncePerClaim, Shell!SessionKeepsItsCredential,
        Shell!n, Shell!InProgress
<1> USE DEF Shell!HostFiles, Shell!Processes, Shell!Settled, Shell!Free, Shell!At, Shell!Phase
<1>1. CASE Shell!_remove_auth_snapshots
  BY <1>1 DEF Shell!_remove_auth_snapshots
<1>2. CASE Shell!snapshot_tokens
  BY <1>2 DEF Shell!snapshot_tokens
<1>3. CASE Shell!WriteScript
  BY <1>3 DEF Shell!WriteScript
<1>4. CASE Shell!KillStale
  <2>1. /\ spawn.pc = "kill" /\ spawn' = [spawn EXCEPT !.pc = "new"]
        /\ shellTask' = [shellTask EXCEPT !.phase = "starting"]
        /\ UNCHANGED <<helpers, links, snapshots, scriptFile, refused>>
        /\ Shell!kill_session
    BY <1>4 DEF Shell!KillStale, Shell!ReportStarting
  <2>2. /\ session' = 0
        /\ panes' \subseteq [n : 1 .. spawn.n, at : {"boot", "run"}, hup : BOOLEAN]
        /\ \A p \in panes' : p.n # spawn.n
    BY <2>1, HangUp
  <2> QED
    BY <2>1, <2>2
<1>5. CASE Shell!NewSession
  <2>1. /\ spawn.pc = "new" /\ spawn' = [spawn EXCEPT !.pc = "idle"]
        /\ shellTask' = [shellTask EXCEPT !.phase = "awaiting"]
        /\ session' = spawn.n
        /\ panes' = panes \cup {[n |-> spawn.n, at |-> "boot", hup |-> FALSE]}
        /\ UNCHANGED <<helpers, links, snapshots, scriptFile, refused>>
    BY <1>5 DEF Shell!NewSession
  <2>2. [n |-> spawn.n, at |-> "boot", hup |-> FALSE]
          \in [n : 1 .. spawn.n, at : {"boot", "run"}, hup : BOOLEAN]
    BY <2>1
  <2>3. spawn'.n = spawn.n /\ spawn'.pc = "idle" /\ spawn.n \in snapshots
    BY <2>1
  <2>4. Shell!TypeOK'
    <3>1. shellTask' \in [ended : BOOLEAN, claimed : BOOLEAN, claims : Nat,
                          phase : {"claiming", "starting", "awaiting", "none", "failed"}]
      BY <2>1
    <3>2. spawn'.n = spawn.n /\ spawn'.pc = "idle" /\ spawn'.n \in Nat /\ session' = spawn.n
      BY <2>1, <2>3
    <3>3. {session', scriptFile'} \cup snapshots' \cup links' \cup refused' \subseteq 0 .. spawn.n
      BY <2>1, <3>2
    <3>4. panes' \subseteq [n : 1 .. spawn.n, at : {"boot", "run"}, hup : BOOLEAN]
      BY <2>1, <2>2
    <3>5. helpers' \subseteq [n : 1 .. spawn.n, on : BOOLEAN]
      BY <2>1
    <3> QED
      BY <3>1, <3>2, <3>3, <3>4, <3>5
  <2> QED
    BY <2>1, <2>3, <2>4
<1> QED
  BY <1>1, <1>2, <1>3, <1>4, <1>5 DEF Shell!Spawning

(* The shell in a pane keeps it. *)
LEMMA PaneKeeps ==
  ASSUME ShellInv, NEW p \in panes,
         Shell!Boot(p) \/ Shell!panopticon_operation(p) \/ Shell!_panopticon_cleanup(p)
           \/ Shell!Killed(p)
  PROVE  ShellInv'
<1> USE DEF ShellInv, Shell!TypeOK, Shell!RunOncePerClaim, Shell!SessionKeepsItsCredential,
        Shell!n, Shell!InProgress
<1> USE DEF Shell!HostFiles, Shell!Processes, Shell!Settled, Shell!Free, Shell!Spend,
        Shell!Daemon, Shell!Gone
<1>1. CASE Shell!Boot(p)
  <2>1. UNCHANGED <<shellTask, links, spawn, snapshots, scriptFile, refused>>
    BY <1>1 DEF Shell!Boot
  <2>2. CASE /\ panes' = panes \ {p} /\ session' = (IF session = p.n THEN 0 ELSE session)
             /\ UNCHANGED helpers
    BY <2>1, <2>2
  <2>3. CASE /\ panes' = (panes \ {p}) \cup {[p EXCEPT !.at = "run"]}
             /\ helpers' = helpers \cup {[n |-> p.n, on |-> FALSE]}
             /\ UNCHANGED session
    <3>1. /\ [p EXCEPT !.at = "run"] \in [n : 1 .. spawn.n, at : {"boot", "run"}, hup : BOOLEAN]
          /\ [p EXCEPT !.at = "run"].n = p.n
          /\ [n |-> p.n, on |-> FALSE] \in [n : 1 .. spawn.n, on : BOOLEAN]
      OBVIOUS
    <3>2. spawn.pc # "idle" =>
            (\A q \in panes' : q.n # spawn.n) /\ (\A h \in helpers' : h.n # spawn.n)
      BY <2>3, <3>1
    <3> QED
      BY <2>1, <2>3, <3>1, <3>2
  <2> QED
    BY <1>1, <2>2, <2>3 DEF Shell!Boot
<1>2. CASE Shell!panopticon_operation(p)
  BY <1>2 DEF Shell!panopticon_operation
<1>3. CASE Shell!_panopticon_cleanup(p)
  BY <1>3 DEF Shell!_panopticon_cleanup, Shell!OwnSnapshot
<1>4. CASE Shell!Killed(p)
  BY <1>4 DEF Shell!Killed
<1> QED
  BY <1>1, <1>2, <1>3, <1>4

(* A helper keeps it. *)
LEMMA HelperKeeps ==
  ASSUME ShellInv, NEW h \in helpers, Shell!Helper(h) \/ Shell!LeaveLoop(h)
  PROVE  ShellInv'
<1> USE DEF ShellInv, Shell!TypeOK, Shell!RunOncePerClaim, Shell!SessionKeepsItsCredential,
        Shell!n, Shell!InProgress
<1> USE DEF Shell!HostFiles, Shell!Settled, Shell!Free, Shell!Daemon, Shell!EndHelper,
        Shell!_session_exists
<1>1. CASE Shell!Load(h)
  BY <1>1 DEF Shell!Load
<1>2. CASE Shell!hold_shell_liveness(h)
  <2>1. UNCHANGED <<shellTask, spawn, scriptFile, refused>>
    BY <1>2 DEF Shell!hold_shell_liveness
  <2>2. CASE /\ Shell!kill_session
             /\ helpers' = helpers \ {h} /\ links' = links \ {h.n}
             /\ snapshots' = snapshots \ {h.n}
    <3>1. /\ session' = 0
          /\ panes' \subseteq [n : 1 .. spawn.n, at : {"boot", "run"}, hup : BOOLEAN]
          /\ \A p \in panes' : \E q \in panes : p.n = q.n
      BY <2>2, HangUp
    <3> QED
      BY <2>1, <2>2, <3>1
  <2>3. CASE /\ links' = links \cup {h.n}
             /\ UNCHANGED <<session, panes, helpers, snapshots>>
    BY <2>1, <2>3
  <2> QED
    BY <1>2, <2>2, <2>3 DEF Shell!hold_shell_liveness
<1>3. CASE Shell!watch_session(h)
  BY <1>3 DEF Shell!watch_session, Shell!SessionGone
<1>4. CASE Shell!LeaveLoop(h)
  BY <1>4 DEF Shell!LeaveLoop
<1> QED
  BY <1>1, <1>2, <1>3, <1>4 DEF Shell!Helper

(* So does every step of a shell task. *)
LEMMA ShellKeeps == ShellInv /\ Shell!Next => ShellInv'
  BY DaemonKeeps, SpawnKeeps, PaneKeeps, HelperKeeps DEF Shell!Next

-----------------------------------------------------------------------------
(* An agent's container *)

(* The turn: no call is late that is not known to be, the launcher was told   *)
(* the recorded turn unless the runner's copy was old or something changed it *)
(* since, and while the agent runs the turn follows it.                       *)
TurnInv ==
  /\ ~outOfTouch.turn => late = {}
  /\ pane \in {"auth", "fetch", "bootstrap", "launch"} /\ ~outOfTouch.turn => told.turn = ball
  /\ Agent!TurnFollowsAgent

(* The credential: what the host's check and the launcher's preflight found   *)
(* stands until the agent runs, since only a respawn changes the environment. *)
CredentialInv ==
  /\ harness = "codex" => volume.entry # "junk"
  /\ harness = "pi" /\ told.first => volume.entry \in {"none", "link"}
  /\ pane = "auth" /\ told.first /\ harness # "claude" => ~Agent!missing_auth("none")
  /\ pane \in {"fetch", "bootstrap"} => ~Agent!missing_auth(volume.entry)
  /\ pane = "launch" /\ env.key = "no" => Agent!Account(volume.entry) # "none"
  /\ pane = "launch" /\ harness = "codex" /\ env.reconcile => volume.entry = Agent!Configured
  /\ Agent!ApprovedIsUsed /\ Agent!ReconciledIsUsed /\ Agent!FirstStartIsApproved

(* The thread: Codex began one of its own at most, and runs no other.         *)
ThreadInv ==
  harness = "codex" =>
    /\ agent.thread \in {"none", "own"}
    /\ \A i, j \in DOMAIN volume.files :
         volume.files[i] = "own" /\ volume.files[j] = "own" => i = j

(* The stop: what Pi's launcher stops for has been latched, or its report lost. *)
StopInv ==
  harness = "pi" /\ pane \in {"stop", "stopped"} /\ ~outOfTouch.failure => failed

(* The types, with a name for each set of records.                            *)
Settings == [claude |-> Claude, codex |-> Codex, pi |-> Pi][harness]
Volumes  == [entry : {"none", "link", "login", "key", "junk"}, files : Seq({"own", "review"})]
Orders   == [turn : {"user", "agent"}, prompt : BOOLEAN, first : BOOLEAN]
Clis     == [doing : {"none", "idle", "working", "asking"}, chores : BOOLEAN,
             thread : {"none", "own", "review"}, account : {"none", "shared", "own", "key"}]
Signs    == [turn : BOOLEAN, failure : BOOLEAN]
Panes    == {"off", "auth", "fetch", "bootstrap", "launch", "agent", "refuse", "report",
             "stop", "stopped", "dead"}

Typed ==
  /\ harness \in {"claude", "codex", "pi"} /\ env \in Settings
  /\ volume \in Volumes /\ pane \in Panes /\ told \in Orders /\ agent \in Clis
  /\ pid1 \in {"off", "dark", "live", "stopping"}
  /\ conn \in 0 .. 4 /\ regs \in SUBSET (1 .. 4)
  /\ ball \in {"user", "agent"} /\ late \in SUBSET {"user", "agent"}
  /\ copies \in SUBSET {"user", "agent"}
  /\ used \in Nat /\ recorded \in Nat /\ totals \in SUBSET Nat
  /\ failed \in BOOLEAN /\ outOfTouch \in Signs

AgentInv == Typed /\ TurnInv /\ CredentialInv /\ ThreadInv /\ StopInv

(* A call of a hook keeps the types.                                          *)
LEMMA TurnTyped ==
  ASSUME Typed, NEW x \in {"user", "agent"}, NEW b, Agent!set_turn(x, b)
  PROVE  ball' \in {"user", "agent"} /\ late' \in SUBSET {"user", "agent"} /\ outOfTouch' \in Signs
<1>1. CASE /\ ball' = x /\ outOfTouch' = [outOfTouch EXCEPT !.turn = late # {}]
           /\ UNCHANGED late
  BY <1>1 DEF Typed, Signs
<1>2. CASE /\ late' \in {late, late \cup {x}} /\ outOfTouch' = [outOfTouch EXCEPT !.turn = TRUE]
           /\ UNCHANGED ball
  BY <1>2 DEF Typed, Signs
<1> QED
  BY <1>1, <1>2 DEF Agent!set_turn

(* Every step of a container keeps the types.                                 *)
LEMMA TypesKept ==
  ASSUME AgentInv, Agent!Next
  PROVE  Typed'
<1> USE DEF AgentInv, Typed, Settings
<1> USE DEF Agent!container, Agent!service, Agent!wire, Agent!disk
<1>1. ASSUME Agent!Prompt
      PROVE  Typed'
  <2>1. /\ agent' \in Clis /\ used' \in Nat
        /\ Agent!set_turn("agent", [budget EXCEPT !.prompts = @ - 1])
        /\ UNCHANGED <<harness, env, volume, pane, told, pid1, conn, regs, recorded, failed, copies,
                       totals>>
    BY <1>1 DEF Agent!Prompt, Agent!Do, Clis
  <2> QED
    BY <2>1, TurnTyped
<1>2. ASSUME Agent!Settle
      PROVE  Typed'
  BY <1>2 DEF Agent!Settle, Agent!Hooks, Agent!At, Agent!Do, Agent!set_turn,
     Agent!_run_callback, Agent!_has_live_background_task, Agent!NoCall, Agent!session_tokens,
     Clis, Signs, Agent!Actors
<1>3. ASSUME Agent!Ask
      PROVE  Typed'
  BY <1>3 DEF Agent!Ask, Agent!Hooks, Agent!At, Agent!Do, Agent!set_turn, Clis, Signs,
     Agent!Actors
<1>4. ASSUME Agent!Answer
      PROVE  Typed'
  BY <1>4 DEF Agent!Answer, Agent!Hooks, Agent!At, Agent!Do, Agent!set_turn, Clis, Signs,
     Agent!Actors
<1>5. ASSUME Agent!StartChore
      PROVE  Typed'
  BY <1>5 DEF Agent!StartChore, Agent!At, Clis
<1>6. ASSUME Agent!EndChore
      PROVE  Typed'
  BY <1>6 DEF Agent!EndChore, Agent!At, Clis
<1>7. ASSUME Agent!Review
      PROVE  Typed'
  <2>1. volume' \in Volumes
    BY <1>7 DEF Agent!Review, Volumes
  <2> QED
    BY <1>7, <2>1 DEF Agent!Review
<1>8. ASSUME NEW a \in Agent!Actors, Agent!Arrive(a)
      PROVE  Typed'
  BY <1>8 DEF Agent!Arrive, Agent!Actors, Signs
<1>9. ASSUME NEW k \in totals, Agent!_report_tokens(k)
      PROVE  Typed'
  BY <1>9 DEF Agent!_report_tokens, Agent!_set_tokens_used_max
<1>10. ASSUME NEW k \in totals, Agent!LoseTotal(k)
      PROVE  Typed'
  BY <1>10 DEF Agent!LoseTotal, Agent!Spend, Signs
<1>11. ASSUME Agent!CheckAuth
      PROVE  Typed'
  BY <1>11 DEF Agent!CheckAuth, Agent!Launcher, Panes
<1>12. ASSUME Agent!FetchWorkflow
      PROVE  Typed'
  BY <1>12 DEF Agent!FetchWorkflow, Agent!Launcher, Agent!Spend, Agent!Raise, Agent!Reported,
     Panes
<1>13. ASSUME Agent!bootstrap
      PROVE  Typed'
  BY <1>13 DEF Agent!bootstrap, Agent!Launcher, Agent!Raise, Agent!Reported,
     Agent!Materialized, Agent!_ensure_auth, Agent!_ensure_personal_config,
     Agent!_reconcile_auth, Agent!Configured, Agent!MayReconcile, Panes, Volumes,
     Agent!Entries
<1>14. ASSUME Agent!argv
      PROVE  Typed'
  <2>1. volume' \in Volumes
    <3>1. Append(volume.files, "own") \in Seq({"own", "review"})
      BY DEF Volumes
    <3>2. CASE volume' = [volume EXCEPT !.files = Append(volume.files, "own")]
      BY <3>1, <3>2 DEF Volumes
    <3>3. CASE volume' = [volume EXCEPT !.files = volume.files]
      BY <3>3 DEF Volumes
    <3> QED
      BY <1>14, <3>2, <3>3 DEF Agent!argv
  <2>2. pane' = "agent" /\ used' \in Nat
        /\ UNCHANGED <<harness, env, told, pid1, conn, regs, recorded, failed, copies, totals>>
    BY <1>14 DEF Agent!argv
  <2>3. Agent!Account(volume.entry) \in {"none", "shared", "own", "key"}
    BY DEF Agent!Account
  <2>4. Agent!Resumed \in {"none", "own", "review"}
    <3>1. volume.files \in Seq({"own", "review"})
      BY DEF Volumes
    <3>2. volume.files # <<>> => volume.files[Len(volume.files)] \in {"own", "review"}
      BY <3>1
    <3>3. Agent!Newest \in {"none", "own", "review"}
      BY <3>2 DEF Agent!Newest
    <3> QED
      BY <3>3 DEF Agent!Resumed, Agent!_resume_target
  <2>5. agent' \in Clis
    <3> DEFINE doing  == IF Agent!Prompted THEN "working" ELSE "idle"
               thread == IF Agent!Resumed = "none" THEN "own" ELSE Agent!Resumed
    <3>1. agent' = [doing |-> doing, chores |-> FALSE, thread |-> thread,
                    account |-> Agent!Account(volume.entry)]
      BY <1>14 DEF Agent!argv, Agent!Began, Agent!NoAgent
    <3>2. doing \in {"working", "idle"} /\ thread \in {"own", "review"}
      BY <2>4
    <3> HIDE DEF doing, thread
    <3> QED
      BY <2>3, <3>1, <3>2 DEF Clis
  <2>6. ball' \in {"user", "agent"} /\ late' \in SUBSET {"user", "agent"} /\ outOfTouch' \in Signs
    <3>1. CASE Agent!Prompted
      BY <1>14, <3>1, TurnTyped DEF Agent!argv
    <3>2. CASE ~Agent!Prompted
      BY <1>14, <3>2 DEF Agent!argv, Signs
    <3> QED
      BY <3>1, <3>2
  <2> QED
    BY <2>1, <2>2, <2>5, <2>6 DEF Panes
<1>15. ASSUME Agent!report_failure
      PROVE  Typed'
  BY <1>15 DEF Agent!report_failure, Agent!Spend, Panes, Signs
<1>16. ASSUME Agent!_stop_container
      PROVE  Typed'
  BY <1>16 DEF Agent!_stop_container, Panes
<1>17. ASSUME NEW r \in {"clean", "error"}, Agent!_run_agent(r)
      PROVE  Typed'
  BY <1>17 DEF Agent!_run_agent, Agent!Spend, Agent!Reported, Agent!NoAgent, Agent!Launcher,
     Panes, Clis
<1>18. ASSUME Agent!Connect
      PROVE  Typed'
  BY <1>18 DEF Agent!Connect, Agent!Conns
<1>19. ASSUME Agent!Drop
      PROVE  Typed'
  BY <1>19 DEF Agent!Drop, Agent!Spend
<1>20. ASSUME Agent!Leave
      PROVE  Typed'
  BY <1>20 DEF Agent!Leave, Agent!Serving, Agent!Spend, Agent!Gone, Agent!NoAgent, Panes, Clis
<1>21. ASSUME NEW c \in Agent!Conns, Agent!hold(c)
      PROVE  Typed'
  BY <1>21 DEF Agent!hold, Agent!Conns, Agent!deregister
<1>22. ASSUME Agent!spawn
      PROVE  Typed'
  <2>1. PICK turn \in {ball} \cup copies :
          /\ told' = [told EXCEPT !.turn = turn]
          /\ outOfTouch' = [outOfTouch EXCEPT !.turn = late # {} \/ turn # ball]
    BY <1>22 DEF Agent!spawn
  <2>2. told' \in Orders /\ outOfTouch' \in Signs
    BY <2>1 DEF Orders, Signs
  <2>3. /\ pid1' = "dark" /\ conn' = 0 /\ pane' = "auth" /\ agent' = Agent!NoAgent
        /\ UNCHANGED <<harness, regs, ball, recorded, failed, late, copies, totals, env, volume, used>>
    BY <1>22 DEF Agent!spawn
  <2> QED
    BY <2>2, <2>3 DEF Agent!NoAgent, Panes, Clis
<1>23. ASSUME NEW e \in [claude |-> Claude, codex |-> Codex, pi |-> Pi][harness], Agent!respawn(e)
      PROVE  Typed'
  BY <1>23 DEF Agent!respawn, Agent!Spend, Panes, Signs, Settings
<1>24. ASSUME Agent!Others
      PROVE  Typed'
  <2>1. ASSUME Agent!get_task
        PROVE  Typed'
    BY <2>1 DEF Agent!get_task, Agent!Spend
  <2>2. ASSUME NEW a \in Agent!Actors, Agent!_enter(a)
        PROVE  Typed'
    BY <2>2 DEF Agent!_enter, Agent!Spend, Signs, Agent!Actors
  <2>3. ASSUME NEW a \in Agent!Actors, Agent!_save_task(a)
        PROVE  Typed'
    BY <2>3 DEF Agent!_save_task, Signs, Agent!Actors
  <2> QED
    BY <1>24, <2>1, <2>2, <2>3 DEF Agent!Others
<1> QED
  BY <1>1, <1>2, <1>3, <1>4, <1>5, <1>6, <1>7, <1>8, <1>9, <1>10, <1>11, <1>12, <1>13, <1>14,
     <1>15, <1>16, <1>17, <1>18, <1>19, <1>20, <1>21, <1>22, <1>23, <1>24 DEF Agent!Next,
     Agent!Turning, Agent!Arriving, Agent!Launching, Agent!Serve

(* Hooks that answer, are lost or come late, and a launcher that tells nobody *)
(* but the agent, keep the turn.                                              *)
LEMMA TurnKept ==
  ASSUME AgentInv, Agent!Next
  PROVE  TurnInv'
<1> USE DEF AgentInv, TurnInv, Agent!TurnFollowsAgent, Typed, Orders, Clis, Signs, Agent!Actors
<1> USE DEF Agent!container, Agent!service, Agent!wire, Agent!disk
<1>1. ASSUME Agent!Prompt
      PROVE  TurnInv'
  BY <1>1 DEF Agent!Prompt, Agent!Hooks, Agent!At, Agent!Do, Agent!set_turn
<1>2. ASSUME Agent!Settle
      PROVE  TurnInv'
  BY <1>2 DEF Agent!Settle, Agent!Hooks, Agent!At, Agent!Do, Agent!set_turn,
     Agent!_run_callback, Agent!_has_live_background_task, Agent!NoCall, Agent!session_tokens
<1>3. ASSUME Agent!Ask
      PROVE  TurnInv'
  BY <1>3 DEF Agent!Ask, Agent!Hooks, Agent!At, Agent!Do, Agent!set_turn
<1>4. ASSUME Agent!Answer
      PROVE  TurnInv'
  BY <1>4 DEF Agent!Answer, Agent!Hooks, Agent!At, Agent!Do, Agent!set_turn
<1>5. ASSUME Agent!StartChore
      PROVE  TurnInv'
  BY <1>5 DEF Agent!StartChore, Agent!At
<1>6. ASSUME Agent!EndChore
      PROVE  TurnInv'
  BY <1>6 DEF Agent!EndChore, Agent!At
<1>7. ASSUME Agent!Review
      PROVE  TurnInv'
  BY <1>7 DEF Agent!Review, Agent!At
<1>8. ASSUME NEW a \in Agent!Actors, Agent!Arrive(a)
      PROVE  TurnInv'
  BY <1>8 DEF Agent!Arrive, Agent!Actors
<1>9. ASSUME NEW k \in totals, Agent!_report_tokens(k)
      PROVE  TurnInv'
  BY <1>9 DEF Agent!_report_tokens, Agent!_set_tokens_used_max
<1>10. ASSUME NEW k \in totals, Agent!LoseTotal(k)
      PROVE  TurnInv'
  BY <1>10 DEF Agent!LoseTotal, Agent!Spend
<1>11. ASSUME Agent!CheckAuth
      PROVE  TurnInv'
  BY <1>11 DEF Agent!CheckAuth, Agent!Launcher
<1>12. ASSUME Agent!FetchWorkflow
      PROVE  TurnInv'
  BY <1>12 DEF Agent!FetchWorkflow, Agent!Launcher, Agent!Spend, Agent!Raise, Agent!Reported
<1>13. ASSUME Agent!bootstrap
      PROVE  TurnInv'
  BY <1>13 DEF Agent!bootstrap, Agent!Launcher, Agent!Raise, Agent!Reported,
     Agent!Materialized, Agent!_ensure_auth, Agent!_ensure_personal_config,
     Agent!_reconcile_auth, Agent!Configured, Agent!MayReconcile
<1>14. ASSUME Agent!argv
      PROVE  TurnInv'
  BY <1>14 DEF Agent!argv, Agent!Began, Agent!Prompted, Agent!Resumed, Agent!_resume_target,
     Agent!Newest, Agent!NoAgent, Agent!Account, Agent!set_turn
<1>15. ASSUME Agent!report_failure
      PROVE  TurnInv'
  BY <1>15 DEF Agent!report_failure, Agent!Spend
<1>16. ASSUME Agent!_stop_container
      PROVE  TurnInv'
  BY <1>16 DEF Agent!_stop_container
<1>17. ASSUME NEW r \in {"clean", "error"}, Agent!_run_agent(r)
      PROVE  TurnInv'
  BY <1>17 DEF Agent!_run_agent, Agent!Spend, Agent!Reported, Agent!NoAgent, Agent!Launcher
<1>18. ASSUME Agent!Connect
      PROVE  TurnInv'
  BY <1>18 DEF Agent!Connect, Agent!Conns
<1>19. ASSUME Agent!Drop
      PROVE  TurnInv'
  BY <1>19 DEF Agent!Drop, Agent!Spend
<1>20. ASSUME Agent!Leave
      PROVE  TurnInv'
  BY <1>20 DEF Agent!Leave, Agent!Serving, Agent!Spend, Agent!Gone, Agent!NoAgent
<1>21. ASSUME NEW c \in Agent!Conns, Agent!hold(c)
      PROVE  TurnInv'
  BY <1>21 DEF Agent!hold, Agent!Conns, Agent!deregister
<1>22. ASSUME Agent!spawn
      PROVE  TurnInv'
  BY <1>22 DEF Agent!spawn, Agent!Spend, Agent!NoAgent, Agent!missing_task_auth
<1>23. ASSUME NEW e \in [claude |-> Claude, codex |-> Codex, pi |-> Pi][harness], Agent!respawn(e)
      PROVE  TurnInv'
  BY <1>23 DEF Agent!respawn, Agent!Spend
<1>24. ASSUME Agent!Others
      PROVE  TurnInv'
  BY <1>24 DEF Agent!Others, Agent!get_task, Agent!_enter, Agent!_save_task, Agent!Spend
<1> QED
  BY <1>1, <1>2, <1>3, <1>4, <1>5, <1>6, <1>7, <1>8, <1>9, <1>10, <1>11, <1>12, <1>13, <1>14,
     <1>15, <1>16, <1>17, <1>18, <1>19, <1>20, <1>21, <1>22, <1>23, <1>24 DEF Agent!Next,
     Agent!Turning, Agent!Arriving, Agent!Launching, Agent!Serve

(* Nothing between the check and the agent changes what the check found.      *)
LEMMA CredentialKept ==
  ASSUME AgentInv, Agent!Next
  PROVE  CredentialInv'
<1> USE DEF AgentInv, CredentialInv, Agent!ApprovedIsUsed, Agent!ReconciledIsUsed,
      Agent!FirstStartIsApproved, Typed, Volumes, Orders, Clis, Settings, Claude, Codex, Pi,
      Agent!missing_auth, Agent!PiMissing, Agent!CodexMissing, Agent!ClaudeMissing,
      Agent!_effective_config_path, Agent!Account, Agent!Configured, Agent!Harnesses,
      Agent!Entries
<1> USE DEF Agent!container, Agent!service, Agent!wire, Agent!disk
<1>1. ASSUME Agent!Prompt
      PROVE  CredentialInv'
  BY <1>1 DEF Agent!Prompt, Agent!Hooks, Agent!At, Agent!Do, Agent!set_turn
<1>2. ASSUME Agent!Settle
      PROVE  CredentialInv'
  BY <1>2 DEF Agent!Settle, Agent!Hooks, Agent!At, Agent!Do, Agent!set_turn,
     Agent!_run_callback, Agent!_has_live_background_task, Agent!NoCall, Agent!session_tokens
<1>3. ASSUME Agent!Ask
      PROVE  CredentialInv'
  BY <1>3 DEF Agent!Ask, Agent!Hooks, Agent!At, Agent!Do, Agent!set_turn
<1>4. ASSUME Agent!Answer
      PROVE  CredentialInv'
  BY <1>4 DEF Agent!Answer, Agent!Hooks, Agent!At, Agent!Do, Agent!set_turn
<1>5. ASSUME Agent!StartChore
      PROVE  CredentialInv'
  BY <1>5 DEF Agent!StartChore, Agent!At
<1>6. ASSUME Agent!EndChore
      PROVE  CredentialInv'
  BY <1>6 DEF Agent!EndChore, Agent!At
<1>7. ASSUME Agent!Review
      PROVE  CredentialInv'
  BY <1>7 DEF Agent!Review, Agent!At
<1>8. ASSUME NEW a \in Agent!Actors, Agent!Arrive(a)
      PROVE  CredentialInv'
  BY <1>8 DEF Agent!Arrive, Agent!Actors
<1>9. ASSUME NEW k \in totals, Agent!_report_tokens(k)
      PROVE  CredentialInv'
  BY <1>9 DEF Agent!_report_tokens, Agent!_set_tokens_used_max
<1>10. ASSUME NEW k \in totals, Agent!LoseTotal(k)
      PROVE  CredentialInv'
  BY <1>10 DEF Agent!LoseTotal, Agent!Spend
<1>11. ASSUME Agent!CheckAuth
      PROVE  CredentialInv'
  BY <1>11 DEF Agent!CheckAuth, Agent!Launcher
<1>12. ASSUME Agent!FetchWorkflow
      PROVE  CredentialInv'
  BY <1>12 DEF Agent!FetchWorkflow, Agent!Launcher, Agent!Spend, Agent!Raise, Agent!Reported
<1>13. ASSUME Agent!bootstrap
      PROVE  CredentialInv'
  <2>1. /\ pane = "bootstrap" /\ UNCHANGED <<harness, told, env>>
        /\ \/ volume' = volume /\ pane' \in {"report", "dead"} /\ harness = "codex"
           \/ /\ pane' = "launch" /\ volume' = [volume EXCEPT !.entry = Agent!Materialized]
              /\ harness = "codex" /\ env.reconcile => Agent!MayReconcile
    BY <1>13 DEF Agent!bootstrap, Agent!Launcher, Agent!Raise, Agent!Reported
  <2>2. CASE volume' = volume /\ pane' \in {"report", "dead"} /\ harness = "codex"
    BY <2>1, <2>2
  <2>3. CASE /\ pane' = "launch" /\ volume' = [volume EXCEPT !.entry = Agent!Materialized]
             /\ harness = "codex" /\ env.reconcile => Agent!MayReconcile
    <3>1. volume'.entry = Agent!Materialized
      BY <2>3
    <3>2. CASE harness = "codex"
      <4>1. volume'.entry = Agent!_ensure_auth
        BY <3>1, <3>2 DEF Agent!Materialized
      <4>2. volume'.entry # "junk"
        BY <4>1, <3>2 DEF Agent!_ensure_auth, Agent!_reconcile_auth
      <4>3. CASE env.reconcile
        <5>1. volume'.entry = Agent!Configured /\ Agent!MayReconcile
          BY <2>3, <3>2, <4>1, <4>3 DEF Agent!_ensure_auth, Agent!_reconcile_auth
        <5>2. env.key = "no" => env.mount = "good" /\ volume'.entry = "link"
          BY <5>1 DEF Agent!MayReconcile
        <5> QED
          BY <2>1, <2>3, <3>2, <4>2, <4>3, <5>1, <5>2
      <4>4. CASE ~env.reconcile
        <5>1. env.key = "no" => Agent!Account(volume.entry)' # "none"
          BY <2>1, <3>2, <4>1, <4>4 DEF Agent!_ensure_auth
        <5> QED
          BY <2>1, <2>3, <3>2, <4>2, <4>4, <5>1
      <4> QED
        BY <4>3, <4>4
    <3>3. CASE harness = "pi"
      BY <2>1, <2>3, <3>1, <3>3 DEF Agent!Materialized, Agent!_ensure_personal_config
    <3>4. CASE harness = "claude"
      BY <2>1, <2>3, <3>1, <3>4 DEF Agent!Materialized
    <3> QED
      BY <3>2, <3>3, <3>4
  <2> QED
    BY <2>1, <2>2, <2>3
<1>14. ASSUME Agent!argv
      PROVE  CredentialInv'
  BY <1>14 DEF Agent!argv, Agent!Began, Agent!Prompted, Agent!Resumed, Agent!_resume_target,
     Agent!Newest, Agent!NoAgent, Agent!Account, Agent!set_turn
<1>15. ASSUME Agent!report_failure
      PROVE  CredentialInv'
  BY <1>15 DEF Agent!report_failure, Agent!Spend
<1>16. ASSUME Agent!_stop_container
      PROVE  CredentialInv'
  BY <1>16 DEF Agent!_stop_container
<1>17. ASSUME NEW r \in {"clean", "error"}, Agent!_run_agent(r)
      PROVE  CredentialInv'
  BY <1>17 DEF Agent!_run_agent, Agent!Spend, Agent!Reported, Agent!NoAgent, Agent!Launcher
<1>18. ASSUME Agent!Connect
      PROVE  CredentialInv'
  BY <1>18 DEF Agent!Connect, Agent!Conns
<1>19. ASSUME Agent!Drop
      PROVE  CredentialInv'
  BY <1>19 DEF Agent!Drop, Agent!Spend
<1>20. ASSUME Agent!Leave
      PROVE  CredentialInv'
  BY <1>20 DEF Agent!Leave, Agent!Serving, Agent!Spend, Agent!Gone, Agent!NoAgent
<1>21. ASSUME NEW c \in Agent!Conns, Agent!hold(c)
      PROVE  CredentialInv'
  BY <1>21 DEF Agent!hold, Agent!Conns, Agent!deregister
<1>22. ASSUME Agent!spawn
      PROVE  CredentialInv'
  BY <1>22 DEF Agent!spawn, Agent!Spend, Agent!NoAgent, Agent!missing_task_auth
<1>23. ASSUME NEW e \in [claude |-> Claude, codex |-> Codex, pi |-> Pi][harness], Agent!respawn(e)
      PROVE  CredentialInv'
  BY <1>23 DEF Agent!respawn, Agent!Spend
<1>24. ASSUME Agent!Others
      PROVE  CredentialInv'
  BY <1>24 DEF Agent!Others, Agent!get_task, Agent!_enter, Agent!_save_task, Agent!Spend
<1> QED
  BY <1>1, <1>2, <1>3, <1>4, <1>5, <1>6, <1>7, <1>8, <1>9, <1>10, <1>11, <1>12, <1>13, <1>14,
     <1>15, <1>16, <1>17, <1>18, <1>19, <1>20, <1>21, <1>22, <1>23, <1>24 DEF Agent!Next,
     Agent!Turning, Agent!Arriving, Agent!Launching, Agent!Serve

(* Codex appends its own thread only when it finds none to resume.            *)
LEMMA ThreadKept ==
  ASSUME AgentInv, Agent!Next
  PROVE  ThreadInv'
<1> USE DEF AgentInv, ThreadInv, Typed, Volumes, Clis, Agent!Harnesses
<1> USE DEF Agent!container, Agent!service, Agent!wire, Agent!disk
<1>1. ASSUME Agent!Prompt
      PROVE  ThreadInv'
  BY <1>1 DEF Agent!Prompt, Agent!Hooks, Agent!At, Agent!Do, Agent!set_turn
<1>2. ASSUME Agent!Settle
      PROVE  ThreadInv'
  BY <1>2 DEF Agent!Settle, Agent!Hooks, Agent!At, Agent!Do, Agent!set_turn,
     Agent!_run_callback, Agent!_has_live_background_task, Agent!NoCall, Agent!session_tokens
<1>3. ASSUME Agent!Ask
      PROVE  ThreadInv'
  BY <1>3 DEF Agent!Ask, Agent!Hooks, Agent!At, Agent!Do, Agent!set_turn
<1>4. ASSUME Agent!Answer
      PROVE  ThreadInv'
  BY <1>4 DEF Agent!Answer, Agent!Hooks, Agent!At, Agent!Do, Agent!set_turn
<1>5. ASSUME Agent!StartChore
      PROVE  ThreadInv'
  BY <1>5 DEF Agent!StartChore, Agent!At
<1>6. ASSUME Agent!EndChore
      PROVE  ThreadInv'
  BY <1>6 DEF Agent!EndChore, Agent!At
<1>7. ASSUME Agent!Review
      PROVE  ThreadInv'
  BY <1>7 DEF Agent!Review, Agent!At
<1>8. ASSUME NEW a \in Agent!Actors, Agent!Arrive(a)
      PROVE  ThreadInv'
  BY <1>8 DEF Agent!Arrive, Agent!Actors
<1>9. ASSUME NEW k \in totals, Agent!_report_tokens(k)
      PROVE  ThreadInv'
  BY <1>9 DEF Agent!_report_tokens, Agent!_set_tokens_used_max
<1>10. ASSUME NEW k \in totals, Agent!LoseTotal(k)
      PROVE  ThreadInv'
  BY <1>10 DEF Agent!LoseTotal, Agent!Spend
<1>11. ASSUME Agent!CheckAuth
      PROVE  ThreadInv'
  BY <1>11 DEF Agent!CheckAuth, Agent!Launcher
<1>12. ASSUME Agent!FetchWorkflow
      PROVE  ThreadInv'
  BY <1>12 DEF Agent!FetchWorkflow, Agent!Launcher, Agent!Spend, Agent!Raise, Agent!Reported
<1>13. ASSUME Agent!bootstrap
      PROVE  ThreadInv'
  BY <1>13 DEF Agent!bootstrap, Agent!Launcher, Agent!Raise, Agent!Reported,
     Agent!Materialized, Agent!_ensure_auth, Agent!_ensure_personal_config,
     Agent!_reconcile_auth, Agent!Configured, Agent!MayReconcile
<1>14. ASSUME Agent!argv
      PROVE  ThreadInv'
  BY <1>14 DEF Agent!argv, Agent!Began, Agent!Prompted, Agent!Resumed, Agent!_resume_target,
     Agent!Newest, Agent!NoAgent, Agent!Account, Agent!set_turn
<1>15. ASSUME Agent!report_failure
      PROVE  ThreadInv'
  BY <1>15 DEF Agent!report_failure, Agent!Spend
<1>16. ASSUME Agent!_stop_container
      PROVE  ThreadInv'
  BY <1>16 DEF Agent!_stop_container
<1>17. ASSUME NEW r \in {"clean", "error"}, Agent!_run_agent(r)
      PROVE  ThreadInv'
  BY <1>17 DEF Agent!_run_agent, Agent!Spend, Agent!Reported, Agent!NoAgent, Agent!Launcher
<1>18. ASSUME Agent!Connect
      PROVE  ThreadInv'
  BY <1>18 DEF Agent!Connect, Agent!Conns
<1>19. ASSUME Agent!Drop
      PROVE  ThreadInv'
  BY <1>19 DEF Agent!Drop, Agent!Spend
<1>20. ASSUME Agent!Leave
      PROVE  ThreadInv'
  BY <1>20 DEF Agent!Leave, Agent!Serving, Agent!Spend, Agent!Gone, Agent!NoAgent
<1>21. ASSUME NEW c \in Agent!Conns, Agent!hold(c)
      PROVE  ThreadInv'
  BY <1>21 DEF Agent!hold, Agent!Conns, Agent!deregister
<1>22. ASSUME Agent!spawn
      PROVE  ThreadInv'
  BY <1>22 DEF Agent!spawn, Agent!Spend, Agent!NoAgent, Agent!missing_task_auth
<1>23. ASSUME NEW e \in [claude |-> Claude, codex |-> Codex, pi |-> Pi][harness], Agent!respawn(e)
      PROVE  ThreadInv'
  BY <1>23 DEF Agent!respawn, Agent!Spend
<1>24. ASSUME Agent!Others
      PROVE  ThreadInv'
  BY <1>24 DEF Agent!Others, Agent!get_task, Agent!_enter, Agent!_save_task, Agent!Spend
<1> QED
  BY <1>1, <1>2, <1>3, <1>4, <1>5, <1>6, <1>7, <1>8, <1>9, <1>10, <1>11, <1>12, <1>13, <1>14,
     <1>15, <1>16, <1>17, <1>18, <1>19, <1>20, <1>21, <1>22, <1>23, <1>24 DEF Agent!Next,
     Agent!Turning, Agent!Arriving, Agent!Launching, Agent!Serve

(* Only an operator who asks for another start takes the latch away.          *)
LEMMA StopKept ==
  ASSUME AgentInv, Agent!Next
  PROVE  StopInv'
<1> USE DEF AgentInv, StopInv, Typed, Signs, Agent!Harnesses
<1> USE DEF Agent!container, Agent!service, Agent!wire, Agent!disk
<1>1. ASSUME Agent!Prompt
      PROVE  StopInv'
  BY <1>1 DEF Agent!Prompt, Agent!Hooks, Agent!At, Agent!Do, Agent!set_turn
<1>2. ASSUME Agent!Settle
      PROVE  StopInv'
  BY <1>2 DEF Agent!Settle, Agent!Hooks, Agent!At, Agent!Do, Agent!set_turn,
     Agent!_run_callback, Agent!_has_live_background_task, Agent!NoCall, Agent!session_tokens
<1>3. ASSUME Agent!Ask
      PROVE  StopInv'
  BY <1>3 DEF Agent!Ask, Agent!Hooks, Agent!At, Agent!Do, Agent!set_turn
<1>4. ASSUME Agent!Answer
      PROVE  StopInv'
  BY <1>4 DEF Agent!Answer, Agent!Hooks, Agent!At, Agent!Do, Agent!set_turn
<1>5. ASSUME Agent!StartChore
      PROVE  StopInv'
  BY <1>5 DEF Agent!StartChore, Agent!At
<1>6. ASSUME Agent!EndChore
      PROVE  StopInv'
  BY <1>6 DEF Agent!EndChore, Agent!At
<1>7. ASSUME Agent!Review
      PROVE  StopInv'
  BY <1>7 DEF Agent!Review, Agent!At
<1>8. ASSUME NEW a \in Agent!Actors, Agent!Arrive(a)
      PROVE  StopInv'
  BY <1>8 DEF Agent!Arrive, Agent!Actors
<1>9. ASSUME NEW k \in totals, Agent!_report_tokens(k)
      PROVE  StopInv'
  BY <1>9 DEF Agent!_report_tokens, Agent!_set_tokens_used_max
<1>10. ASSUME NEW k \in totals, Agent!LoseTotal(k)
      PROVE  StopInv'
  BY <1>10 DEF Agent!LoseTotal, Agent!Spend
<1>11. ASSUME Agent!CheckAuth
      PROVE  StopInv'
  BY <1>11 DEF Agent!CheckAuth, Agent!Launcher
<1>12. ASSUME Agent!FetchWorkflow
      PROVE  StopInv'
  BY <1>12 DEF Agent!FetchWorkflow, Agent!Launcher, Agent!Spend, Agent!Raise, Agent!Reported
<1>13. ASSUME Agent!bootstrap
      PROVE  StopInv'
  BY <1>13 DEF Agent!bootstrap, Agent!Launcher, Agent!Raise, Agent!Reported,
     Agent!Materialized, Agent!_ensure_auth, Agent!_ensure_personal_config,
     Agent!_reconcile_auth, Agent!Configured, Agent!MayReconcile
<1>14. ASSUME Agent!argv
      PROVE  StopInv'
  BY <1>14 DEF Agent!argv, Agent!Began, Agent!Prompted, Agent!Resumed, Agent!_resume_target,
     Agent!Newest, Agent!NoAgent, Agent!Account, Agent!set_turn
<1>15. ASSUME Agent!report_failure
      PROVE  StopInv'
  BY <1>15 DEF Agent!report_failure, Agent!Spend
<1>16. ASSUME Agent!_stop_container
      PROVE  StopInv'
  BY <1>16 DEF Agent!_stop_container
<1>17. ASSUME NEW r \in {"clean", "error"}, Agent!_run_agent(r)
      PROVE  StopInv'
  BY <1>17 DEF Agent!_run_agent, Agent!Spend, Agent!Reported, Agent!NoAgent, Agent!Launcher
<1>18. ASSUME Agent!Connect
      PROVE  StopInv'
  BY <1>18 DEF Agent!Connect, Agent!Conns
<1>19. ASSUME Agent!Drop
      PROVE  StopInv'
  BY <1>19 DEF Agent!Drop, Agent!Spend
<1>20. ASSUME Agent!Leave
      PROVE  StopInv'
  BY <1>20 DEF Agent!Leave, Agent!Serving, Agent!Spend, Agent!Gone, Agent!NoAgent
<1>21. ASSUME NEW c \in Agent!Conns, Agent!hold(c)
      PROVE  StopInv'
  BY <1>21 DEF Agent!hold, Agent!Conns, Agent!deregister
<1>22. ASSUME Agent!spawn
      PROVE  StopInv'
  BY <1>22 DEF Agent!spawn, Agent!Spend, Agent!NoAgent, Agent!missing_task_auth
<1>23. ASSUME NEW e \in [claude |-> Claude, codex |-> Codex, pi |-> Pi][harness], Agent!respawn(e)
      PROVE  StopInv'
  BY <1>23 DEF Agent!respawn, Agent!Spend
<1>24. ASSUME Agent!Others
      PROVE  StopInv'
  BY <1>24 DEF Agent!Others, Agent!get_task, Agent!_enter, Agent!_save_task, Agent!Spend
<1> QED
  BY <1>1, <1>2, <1>3, <1>4, <1>5, <1>6, <1>7, <1>8, <1>9, <1>10, <1>11, <1>12, <1>13, <1>14,
     <1>15, <1>16, <1>17, <1>18, <1>19, <1>20, <1>21, <1>22, <1>23, <1>24 DEF Agent!Next,
     Agent!Turning, Agent!Arriving, Agent!Launching, Agent!Serve

(* Every step of a container keeps the whole.                                 *)
LEMMA AgentKeeps == AgentInv /\ Agent!Next => AgentInv'
  BY TypesKept, TurnKept, CredentialKept, ThreadKept, StopKept DEF AgentInv

(* A container starts with it.                                                *)
LEMMA AgentStarts == Agent!Init => AgentInv
<1> SUFFICES ASSUME Agent!Init PROVE AgentInv
  OBVIOUS
<1>1. harness \in {"claude", "codex", "pi"} /\ env \in Settings
  BY DEF Agent!Init, Agent!Harnesses, Settings
<1>2. PICK e \in {"none", "login", "link", "junk"}, f \in {<<>>, <<"own">>} :
        /\ volume = [entry |-> e, files |-> f]
        /\ harness = "codex" => e # "junk"
        /\ harness = "pi" /\ told.first => e = "none"
  <2>1. CASE volume = [entry |-> "none", files |-> <<>>]
    BY <2>1
  <2>2. CASE /\ told = [turn |-> "user", prompt |-> TRUE, first |-> FALSE]
             /\ volume \in [entry : CASE harness = "pi"    -> {"junk", "link"}
                                      [] harness = "codex" -> {"login", "link"}
                                      [] OTHER             -> {"none"},
                            files : {<<"own">>}]
    <3>1. CASE harness = "pi"
      BY <2>2, <3>1
    <3>2. CASE harness = "codex"
      BY <2>2, <3>2
    <3>3. CASE harness = "claude"
      BY <2>2, <3>3
    <3> QED
      BY <1>1, <3>1, <3>2, <3>3
  <2> QED
    BY <2>1, <2>2 DEF Agent!Init
<1>3. told \in Orders
  <2>1. CASE told \in [turn : {"user"}, prompt : BOOLEAN, first : {TRUE}]
    BY <2>1 DEF Orders
  <2>2. CASE told = [turn |-> "user", prompt |-> TRUE, first |-> FALSE]
    BY <2>2 DEF Orders
  <2> QED
    BY <2>1, <2>2 DEF Agent!Init
<1>4. /\ pane = "off" /\ late = {} /\ failed = FALSE /\ ball \in {"user", "agent"}
      /\ agent = [doing |-> "none", chores |-> FALSE, thread |-> "none", account |-> "none"]
      /\ outOfTouch = [turn |-> FALSE, failure |-> FALSE]
  BY DEF Agent!Init, Agent!NoAgent, Agent!Actors
<1>5. Typed
  <2>1. f \in Seq({"own", "review"})
    <3>1. <<>> \in Seq({"own", "review"}) /\ <<"own">> \in Seq({"own", "review"})
      OBVIOUS
    <3> QED
      BY <3>1
  <2>2. volume \in Volumes
    BY <1>2, <2>1 DEF Volumes
  <2>3. pane \in Panes /\ agent \in Clis /\ outOfTouch \in Signs
    BY <1>4 DEF Clis, Signs, Panes
  <2>4. pid1 = "off" /\ conn \in 0 .. 4 /\ used \in Nat /\ recorded \in Nat
    BY DEF Agent!Init
  <2>5. regs \in SUBSET (1 .. 4) /\ late \in SUBSET {"user", "agent"} /\ totals \in SUBSET Nat
        /\ copies \in SUBSET {"user", "agent"}
    BY DEF Agent!Init
  <2> QED
    BY <1>1, <1>3, <1>4, <2>2, <2>3, <2>4, <2>5 DEF Typed
<1>6. TurnInv /\ StopInv
  BY <1>4 DEF TurnInv, StopInv, Agent!TurnFollowsAgent
<1>7. CredentialInv
  BY <1>2, <1>4 DEF CredentialInv, Agent!ApprovedIsUsed, Agent!ReconciledIsUsed,
     Agent!FirstStartIsApproved
<1>8. ThreadInv
  BY <1>2, <1>4 DEF ThreadInv
<1> QED
  BY <1>5, <1>6, <1>7, <1>8 DEF AgentInv

(* What leaves the container alone keeps it.                                  *)
LEMMA AgentRests == AgentInv /\ UNCHANGED sessionVars => AgentInv'
<1> SUFFICES ASSUME AgentInv, UNCHANGED sessionVars PROVE AgentInv'
  OBVIOUS
<1> USE DEF sessionVars, AgentInv
<1>1. Typed'
  BY DEF Typed, Settings
<1>2. TurnInv' /\ ThreadInv' /\ StopInv'
  BY DEF TurnInv, ThreadInv, StopInv, Agent!TurnFollowsAgent
<1>3. CredentialInv'
  BY DEF CredentialInv, Agent!ApprovedIsUsed, Agent!ReconciledIsUsed, Agent!FirstStartIsApproved,
     Agent!missing_auth, Agent!PiMissing, Agent!CodexMissing, Agent!ClaudeMissing,
     Agent!_effective_config_path, Agent!Account, Agent!Configured
<1> QED
  BY <1>1, <1>2, <1>3

(* What the run checks of a container follows.                                *)
LEMMA AgentShows == AgentInv => TurnFollowsAgent /\ RunsAsApproved
<1> SUFFICES ASSUME AgentInv PROVE TurnFollowsAgent /\ RunsAsApproved
  OBVIOUS
<1>1. Agent!TypeOK
  BY DEF AgentInv, Typed, Settings, Volumes, Orders, Clis, Signs, Panes, Agent!TypeOK,
     Agent!Harnesses, Agent!Entries, Agent!Actors, Agent!Conns
<1>2. Agent!PiStopIsLatched
  BY DEF AgentInv, StopInv, Agent!PiStopIsLatched
<1> QED
  BY <1>1, <1>2 DEF AgentInv, TurnInv, ThreadInv, Agent!ResumesOwnThread, CredentialInv,
     TurnFollowsAgent, RunsAsApproved,
     Agent!RunsAsApproved

-----------------------------------------------------------------------------
(* What an operator works with *)

(* Every part of a behaviour keeps its invariant, the one in play and those   *)
(* beside it.                                                                 *)
LEMMA DeskKeeps ==
  /\ DeskInit => AgentInv /\ ShellInv
  /\ AgentInv /\ ShellInv /\ [DeskNext]_deskVars => (AgentInv /\ ShellInv)'
<1>1. DeskInit => AgentInv /\ ShellInv
  BY AgentStarts, ShellStarts DEF DeskInit
<1>2. AgentInv /\ ShellInv /\ DeskNext => (AgentInv /\ ShellInv)'
  BY AgentKeeps, AgentRests, ShellKeeps, ShellRests DEF DeskNext
<1>3. AgentInv /\ ShellInv /\ UNCHANGED deskVars => (AgentInv /\ ShellInv)'
  BY AgentRests, ShellRests DEF deskVars
<1> QED
  BY <1>1, <1>2, <1>3

(* From a hook's call that is recorded, or a start with the recorded turn,    *)
(* until something else changes the turn or a call is lost or late, the       *)
(* recorded turn is the agent's exactly when it works or will be woken        *)
(* (hook.py, and workflow.py's _enter and unlocked saves as what ends it).    *)
THEOREM TurnFollows == DeskSpec => []TurnFollowsAgent
<1>1. AgentInv => TurnFollowsAgent
  BY AgentShows
<1> QED
  BY <1>1, DeskKeeps, PTL DEF DeskSpec

(* An agent runs on what the host's check and the launcher's approved, Codex  *)
(* on the account set-up bound and in its own thread, and what Pi's launcher  *)
(* stops for is latched (harnesses/codex.py, pi.py, container/agent.py).      *)
THEOREM ApprovedRuns == DeskSpec => []RunsAsApproved
<1>1. AgentInv => RunsAsApproved
  BY AgentShows
<1> QED
  BY <1>1, DeskKeeps, PTL DEF DeskSpec

(* The recorded tokens never fall, whatever the order of the reports          *)
(* (store_sqlalchemy.py, set_tokens_used_max).                                *)
THEOREM TokensGrow == DeskSpec => Agent!TokensNeverFall
<1>1. AgentInv /\ Agent!Next => recorded' >= recorded
  <2> SUFFICES ASSUME AgentInv, Agent!Next PROVE recorded' >= recorded
    OBVIOUS
  <2>1. ASSUME NEW k \in totals, Agent!_report_tokens(k)
        PROVE  recorded' >= recorded
    BY <2>1 DEF AgentInv, Typed, Agent!_report_tokens, Agent!_set_tokens_used_max
  <2>2. CASE UNCHANGED recorded
    BY <2>2 DEF AgentInv, Typed
  <2>3. Agent!Turning \/ Agent!Others \/ Agent!Launching \/ Agent!Serve \/ Agent!spawn
          => UNCHANGED recorded
    BY DEF Agent!Turning, Agent!Prompt, Agent!Settle, Agent!Ask, Agent!Answer, Agent!StartChore,
       Agent!EndChore, Agent!Review, Agent!Others, Agent!get_task, Agent!_enter,
       Agent!_save_task, Agent!Launching, Agent!CheckAuth, Agent!FetchWorkflow,
       Agent!bootstrap, Agent!argv, Agent!report_failure, Agent!_stop_container,
       Agent!_run_agent, Agent!Serve, Agent!Connect, Agent!Drop, Agent!Leave, Agent!hold,
       Agent!spawn, Agent!Launcher, Agent!container, Agent!service, Agent!wire, Agent!disk
  <2>4. ASSUME NEW e, Agent!respawn(e)
        PROVE  UNCHANGED recorded
    BY <2>4 DEF Agent!respawn
  <2>5. ASSUME NEW a, Agent!Arrive(a)
        PROVE  UNCHANGED recorded
    BY <2>5 DEF Agent!Arrive
  <2>6. ASSUME NEW k, Agent!LoseTotal(k)
        PROVE  UNCHANGED recorded
    BY <2>6 DEF Agent!LoseTotal, Agent!service
  <2> QED
    BY <2>1, <2>2, <2>3, <2>4, <2>5, <2>6 DEF Agent!Next, Agent!Arriving
<1>2. AgentInv /\ [DeskNext]_deskVars => [recorded' >= recorded]_(Agent!sessionVars)
  BY <1>1 DEF DeskNext, deskVars, sessionVars, Agent!sessionVars, Agent!container, Agent!service,
     Agent!wire, Agent!disk
<1> QED
  BY <1>2, DeskKeeps, PTL DEF DeskSpec, Agent!TokensNeverFall

(* A shell task's script runs once for each claim, and its session keeps its  *)
(* credential, whatever spawns, shells and helpers end under its name         *)
(* meanwhile (shell_runner.py, shell_liveness.py).                            *)
THEOREM ScriptClaimed == DeskSpec => []ScriptHasItsClaim
<1>1. ShellInv => ScriptHasItsClaim
  BY DEF ShellInv, ScriptHasItsClaim, Shell!ScriptHasItsClaim
<1> QED
  BY <1>1, DeskKeeps, PTL DEF DeskSpec

=============================================================================

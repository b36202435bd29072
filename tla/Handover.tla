------------------------------ MODULE Handover ------------------------------
(* One task's workspace and session history, and how they move between hosts: *)
(* the spawner prepares a checkout (sessionservice/spawn.py, spawner.py), the *)
(* provisioner branches it once the task has a slug (provisioner.py), the     *)
(* operator's migration commands ask for a move, export the source and accept *)
(* it on the destination (migration.py), and the service records claims,      *)
(* provisioning and migrations (taskservice/service.py).                      *)
(*                                                                            *)
(* A handler of the service is one step here: whole-row saves that overlap    *)
(* are TaskService's topic, and claims, container failures and respawn        *)
(* budgets RunnerFleet's. The task is open, unpaused and run in a container;  *)
(* its repository never changes; it is released only while its host neither   *)
(* runs nor starts its container. Work is a count: what an agent did so far.  *)
EXTENDS Naturals, FiniteSets

CONSTANTS
  Hosts,
  Nil,       \* nobody, nothing
  Budgets    \* what a behaviour may start with: bounds on work, releases, moves asked for,
             \* exports, spawns and accepts tried, old checkouts removed, and faults

(* A checkout: the base branch, until the task has a branch of its own. *)
Checkout == [branch : {"base", "task"}, work : Nat]

Methods == {"archive", "forge-first"}

MigrationRecord ==
  [source : Hosts, destination : Hosts, workspace : {"pending", "installed", "accepted"},
   method : Methods, session : {"requested", "accepted", "omitted"}, discarded : BOOLEAN,
   by_user : BOOLEAN, was_requested : BOOLEAN]

ASSUME HandoverAssumption ==
  /\ Nil \notin Hosts \cup Checkout \cup MigrationRecord
  /\ Budgets \subseteq [work : Nat, release : Nat, ask : Nat, export : Nat, spawn : Nat,
                        accept : Nat, remove : Nat, fault : Nat]

VARIABLES
  row,        \* the service's record of the task
  checkout,   \* host -> the canonical per-task checkout
  forge,      \* the work pushed to the recorded branch (Nil: the branch is not on the forge)
  volume,     \* host -> the work the session history in the config volume covers
  agent,      \* hosts whose container of the task runs
  file,       \* what the operator last exported
  spawning,   \* host -> spawn under way
  naming,     \* host -> the provisioner has branched, and not recorded it yet
  accepting,  \* host -> accept command under way
  late,       \* the ways of moving whose snapshot the agent has worked past (observed)
  asked,      \* the hosts the present owner's workspace was asked to move to (observed)
  left        \* what is left of the budget

records  == <<row, asked>>
machines == <<checkout, volume, agent>>
vars     == <<row, checkout, forge, volume, agent, file, spawning, naming, accepting, late,
              asked, left>>

Use(what) == left[what] > 0 /\ left' = [left EXCEPT ![what] = @ - 1]

Base        == [branch |-> "base", work |-> 0]
OnTask(c)   == c # Nil /\ c.branch = "task"
Work(c)     == IF c = Nil THEN 0 ELSE c.work

-----------------------------------------------------------------------------
(* The service's record *)

NewRow == [claimed |-> Nil, slug |-> FALSE, branch |-> FALSE, owner |-> Nil, verified |-> Nil,
           migration |-> Nil]

Foreign(t, h) == t.owner \notin {Nil, h}

MayClaim(h) ==
  /\ row.claimed \in {Nil, h}
  /\ row.claimed = Nil /\ Foreign(row, h) =>
       /\ row.migration # Nil
       /\ row.migration.source = row.owner
       /\ row.migration.destination = h
       /\ row.migration.workspace \in {"installed", "accepted"}

claim(h) == row' = [row EXCEPT !.claimed = h]

(* A slip: a host may report what it did under a claim it has lost.          *)
MayRecordUnclaimed(h) ==
  /\ row.slug
  /\ row.migration # Nil /\ row.migration.destination = h =>
       row.migration.workspace \in {"installed", "accepted"}

MayRecordProvisioning(h) ==
  /\ row.slug
  /\ row.claimed = h
  /\ row.migration # Nil /\ row.migration.destination = h =>
       row.migration.workspace \in {"installed", "accepted"}

record_provisioning(h) ==
  /\ row' = [row EXCEPT !.branch = TRUE, !.owner = h, !.verified = h]
  /\ asked' = IF row.owner = h THEN asked ELSE {}

(* The record a move of workspace by method is, at the stage given. *)
Migration(s, d, workspace, method, session, discarded) ==
  LET before == row.migration
      requested == before # Nil /\ (before.session = "requested" \/ before.was_requested)
  IN [source |-> s, destination |-> d, workspace |-> workspace, method |-> method,
      session |-> session, discarded |-> discarded,
      by_user |-> requested /\ session = "omitted",
      was_requested |-> requested \/ session = "requested"]

MayRecordMigration(m) ==
  /\ row.owner # Nil /\ m.source = row.owner /\ m.destination # m.source
  /\ m.workspace \in {"installed", "accepted"} =>
       /\ row.migration # Nil
       /\ row.migration.source = m.source /\ row.migration.destination = m.destination
       /\ row.migration.method = m.method
       /\ row.migration.workspace \in
            (IF m.workspace = "installed" THEN {"pending"} ELSE {"pending", "installed"})

record_migration(m) ==
  /\ row' = [row EXCEPT !.migration = m]
  /\ asked' = asked \cup {m.destination}

(* The task presents as provisioned. *)
provisioned(t) ==
  /\ t.migration # Nil => t.migration.workspace = "accepted"
  /\ t.branch /\ t.claimed # Nil
  /\ t.claimed = t.owner /\ t.owner = t.verified

-----------------------------------------------------------------------------
(* The agent and its operator *)

set_slug ==
  /\ agent # {} /\ ~row.slug
  /\ row' = [row EXCEPT !.slug = TRUE]
  /\ UNCHANGED <<checkout, forge, volume, agent, file, spawning, naming, accepting, late, asked,
                 left>>

(* The agent edits, commits and talks: none of it is on the forge yet. *)
AgentWorks(h) ==
  /\ h \in agent
  /\ Use("work")
  /\ checkout' = [checkout EXCEPT ![h].work = @ + 1]
  /\ volume' = [volume EXCEPT ![h] = checkout'[h].work]
  /\ late' = Methods
  /\ UNCHANGED <<records, forge, agent, file, spawning, naming, accepting>>

Push(h) ==
  /\ h \in agent /\ OnTask(checkout[h]) /\ forge # checkout[h].work
  /\ forge' = checkout[h].work
  /\ UNCHANGED <<records, machines, file, spawning, naming, accepting, late, left>>

(* The container goes away: its session died, or the host stopped it. *)
Stop(h) ==
  /\ h \in agent
  /\ agent' = agent \ {h}
  /\ UNCHANGED <<records, checkout, forge, volume, file, spawning, naming, accepting, late, left>>

(* The claim is given up, by the operator or by a host that starts again. *)
release(h) ==
  /\ row.claimed = h /\ h \notin agent /\ spawning[h].pc = "idle"
  /\ Use("release")
  /\ row' = [row EXCEPT !.claimed = Nil]
  /\ UNCHANGED <<machines, forge, file, spawning, naming, accepting, late, asked>>

-----------------------------------------------------------------------------
(* A host's spawner *)

Resting == [pc |-> "idle", task |-> NewRow]

(* The pass reads the task: unclaimed it may be claimed, and its own without  *)
(* a container is healed.                                                     *)
Consider(h) ==
  /\ spawning[h].pc = "idle" /\ h \notin naming
  /\ row.claimed \in {Nil, h} /\ h \notin agent
  /\ Use("spawn")
  /\ spawning' = [spawning EXCEPT ![h] =
       [pc |-> IF row.claimed = h THEN "prepare" ELSE "claim", task |-> row]]
  /\ UNCHANGED <<records, machines, forge, file, naming, accepting, late>>

spawn_one(h) ==
  /\ spawning[h].pc = "claim"
  /\ IF MayClaim(h)
     THEN /\ claim(h)
          /\ spawning' = [spawning EXCEPT ![h].pc = "prepare", ![h].task.claimed = h]
     ELSE row' = row /\ spawning' = [spawning EXCEPT ![h] = Resting]
  /\ UNCHANGED <<machines, forge, file, naming, accepting, late, asked, left>>

(* What the spawner asks of the record it read, as it would be once h is the  *)
(* recorded owner.                                                            *)
SessionReady(m) ==
  \/ m.session = "accepted"
  \/ m.session = "omitted" /\ (m.was_requested => m.by_user)
spawn_allowed(t, h) ==
  t.migration # Nil => /\ t.migration.destination = h
                       /\ t.migration.workspace = "accepted"
                       /\ SessionReady(t.migration)

(* The checkout of a task that is nobody's, or this host's, is cloned from    *)
(* the cache; another host's must be here already, moved in by a migration.   *)
Clones(h) == checkout[h] = Nil /\ ~Foreign(spawning[h].task, h)

Inherits(h) ==
  /\ Foreign(spawning[h].task, h)
  /\ OnTask(checkout[h])
  /\ spawn_allowed(spawning[h].task, h)
  /\ MayRecordProvisioning(h)

_prepare_task_dir(h) ==
  /\ spawning[h].pc = "prepare"
  /\ \/ /\ Clones(h)
        /\ checkout' = [checkout EXCEPT ![h] = Base]
        /\ spawning' = [spawning EXCEPT ![h].pc = "start"]
        /\ UNCHANGED records
     \/ /\ checkout[h] # Nil /\ ~Foreign(spawning[h].task, h)
        /\ spawning' = [spawning EXCEPT ![h].pc = "start"]
        /\ UNCHANGED <<records, checkout>>
     \/ /\ Inherits(h)
        /\ record_provisioning(h)
        /\ spawning' = [spawning EXCEPT ![h].pc = "start"]
        /\ UNCHANGED checkout
     \/ /\ Foreign(spawning[h].task, h) /\ ~Clones(h) /\ ~Inherits(h)
        /\ spawning' = [spawning EXCEPT ![h] = Resting]     \* MigrationRequired, conflict, 409
        /\ UNCHANGED <<records, checkout>>
  /\ UNCHANGED <<forge, volume, agent, file, naming, accepting, late, left>>

_spawn_container(h) ==
  /\ spawning[h].pc = "start"
  /\ agent' = agent \cup {h}
  /\ spawning' = [spawning EXCEPT ![h] = Resting]
  /\ UNCHANGED <<records, checkout, forge, volume, file, naming, accepting, late, left>>

-----------------------------------------------------------------------------
(* A host's provisioner, in the same pass: a claimed task with a slug and no  *)
(* branch gets one; a recorded branch is looked for in the checkout; one that *)
(* was moved in by way of the forge is checked out from there.                *)

ForgeFirst(h) ==
  /\ Foreign(row, h) /\ row.migration # Nil
  /\ row.migration.destination = h /\ row.migration.workspace = "accepted"
  /\ row.migration.method = "forge-first"

Due(h) ==
  /\ row.slug /\ row.claimed = h
  /\ IF Foreign(row, h) THEN ForgeFirst(h) ELSE ~provisioned(row)
  /\ checkout[h] # Nil

(* git checkout -b refuses a branch that is there; the whole pass over the    *)
(* task fails then, here as in the pass after.                                *)
CanBranch(h) ==
  CASE ForgeFirst(h)               -> forge # Nil
    [] ~ForgeFirst(h) /\ row.branch -> OnTask(checkout[h])
    [] OTHER                       -> ~OnTask(checkout[h])

(* A slip: the branch is reported, and the checkout left as it is.           *)
ReportBranch(h) ==
  /\ h \notin naming /\ Due(h) /\ CanBranch(h)
  /\ spawning[h].pc = "idle"
  /\ naming' = naming \cup {h}
  /\ UNCHANGED <<records, machines, forge, file, spawning, accepting, late, left>>

provision(h) ==
  /\ h \notin naming /\ Due(h) /\ CanBranch(h)
  /\ spawning[h].pc = "idle"
  /\ checkout' = [checkout EXCEPT ![h] =
       IF ForgeFirst(h) THEN [branch |-> "task", work |-> forge]
                        ELSE [@ EXCEPT !.branch = "task"]]
  /\ naming' = naming \cup {h}
  /\ UNCHANGED <<records, forge, volume, agent, file, spawning, accepting, late, left>>

RecordBranch(h) ==
  /\ h \in naming
  /\ IF MayRecordProvisioning(h) THEN record_provisioning(h) ELSE UNCHANGED records
  /\ naming' = naming \ {h}
  /\ UNCHANGED <<machines, forge, file, spawning, accepting, late, left>>

-----------------------------------------------------------------------------
(* The migration commands *)

(* What a move by way of the forge leaves behind. *)
Losses(c) == c.branch # "task" \/ forge = Nil \/ c.work > forge

(* A slip: the operator need not agree to the losses. *)
AgreeToNothing(discard) == TRUE
Agreed(discard) == discard = Losses(checkout[row.owner])

(* The snapshot for method is taken anew; an accept that began has its own. *)
Retaken(method) ==
  IF /\ \A h \in Hosts : accepting[h].pc = "idle"
     /\ row.migration # Nil => row.migration.workspace # "installed"
  THEN late \ {method} ELSE late

request_migration(d, method, transfer, discard) ==
  /\ row.owner # Nil
  /\ Use("ask")
  /\ method = "archive" => ~discard
  /\ method = "forge-first" => checkout[row.owner] # Nil /\ Agreed(discard)
  /\ LET m == Migration(row.owner, d, "pending", method,
                        IF transfer THEN "requested" ELSE "omitted", discard)
     IN MayRecordMigration(m) /\ record_migration(m)
  /\ late' = IF method = "forge-first" THEN Retaken(method) ELSE late
  /\ UNCHANGED <<machines, forge, file, spawning, naming, accepting>>

Export ==
  /\ row.owner # Nil /\ checkout[row.owner] # Nil
  /\ Use("export")
  /\ file' = [from |-> row.owner, checkout |-> checkout[row.owner],
               volume |-> volume[row.owner]]
  /\ late' = Retaken("archive")
  /\ UNCHANGED <<records, machines, forge, spawning, naming, accepting>>

(* The operator has an export of m's source to hand in. *)
Exported(m) == file # Nil /\ file.from = m.source

NoAccept == [pc |-> "idle", task |-> NewRow, staged |-> Nil, session |-> Nil]

Abandon(d) == accepting' = [accepting EXCEPT ![d] = NoAccept]

(* The command reads the record, and stages what it will install. *)
accept_migration(d) ==
  LET m == row.migration IN
  /\ accepting[d].pc = "idle"
  /\ Use("accept")
  /\ m # Nil /\ m.workspace \in {"pending", "installed", "accepted"} /\ m.destination = d
  /\ m.workspace = "pending" =>
       /\ checkout[d] = Nil
       /\ IF m.method = "archive" THEN Exported(m) ELSE forge # Nil
  /\ accepting' = [accepting EXCEPT ![d] =
       [pc |-> "install", task |-> row, session |-> m.session,
        staged |-> CASE m.workspace # "pending" -> checkout[d]
                     [] m.workspace = "pending" /\ m.method = "archive" -> file.checkout
                     [] OTHER -> [branch |-> "task", work |-> forge]]]
  /\ UNCHANGED <<records, machines, forge, file, spawning, naming, late>>

History(d, withHistory) == IF withHistory THEN file.volume ELSE 0

(* It is verified and put in place, and the session history with it. *)
accept_workspace(d) ==
  LET t == accepting[d].task IN
  /\ accepting[d].pc = "install"
  /\ IF OnTask(accepting[d].staged)
          /\ (t.migration.workspace = "pending" => checkout[d] = Nil)
     THEN /\ checkout' = [checkout EXCEPT ![d] =
               IF t.migration.workspace = "pending" THEN accepting[d].staged ELSE @]
          /\ \E archived \in BOOLEAN :
               /\ archived => Exported(t.migration)
               /\ IF accepting[d].session = "requested" /\ ~archived
                  THEN volume' = volume /\ Abandon(d)
                  ELSE /\ volume' = IF accepting[d].session = "accepted" THEN volume
                                    ELSE [volume EXCEPT ![d] =
                                            History(d, accepting[d].session = "requested")]
                       /\ accepting' = [accepting EXCEPT ![d].pc = "record",
                            ![d].session = IF @ = "requested" THEN "accepted" ELSE @]
     ELSE UNCHANGED <<checkout, volume>> /\ Abandon(d)
  /\ UNCHANGED <<records, forge, agent, file, spawning, naming, late, left>>

(* The stage of the move the command reports, to the facts it read. *)
Reported(d, workspace) ==
  LET m == accepting[d].task.migration
  IN Migration(m.source, d, workspace, m.method, accepting[d].session, m.discarded)

RecordInstalled(d) ==
  LET t == accepting[d].task
      moved == t.claimed \in {Nil, d} IN
  /\ accepting[d].pc = "record"
  /\ IF t.migration.workspace = "pending"
     THEN IF MayRecordMigration(Reported(d, "installed"))
          THEN /\ record_migration(Reported(d, "installed"))
               /\ IF moved THEN accepting' = [accepting EXCEPT ![d].pc = "claim"] ELSE Abandon(d)
          ELSE UNCHANGED records /\ Abandon(d)
     ELSE /\ UNCHANGED records
          /\ IF moved THEN accepting' = [accepting EXCEPT ![d].pc = "claim"] ELSE Abandon(d)
  /\ UNCHANGED <<machines, forge, file, spawning, naming, late, left>>

ClaimMoved(d) ==
  /\ accepting[d].pc = "claim"
  /\ IF accepting[d].task.claimed = d \/ MayClaim(d)
     THEN /\ IF accepting[d].task.claimed = d THEN row' = row ELSE claim(d)
          /\ accepting' = [accepting EXCEPT ![d].pc = "provision"]
     ELSE row' = row /\ Abandon(d)
  /\ UNCHANGED <<machines, forge, file, spawning, naming, late, asked, left>>

RecordMoved(d) ==
  /\ accepting[d].pc = "provision"
  /\ IF MayRecordProvisioning(d)
     THEN /\ record_provisioning(d)
          /\ IF accepting[d].task.migration.workspace = "accepted" THEN Abandon(d)
             ELSE accepting' = [accepting EXCEPT ![d].pc = "publish"]
     ELSE UNCHANGED records /\ Abandon(d)
  /\ UNCHANGED <<machines, forge, file, spawning, naming, late, left>>

(* The source of the record is no longer the owner: the service refuses it. *)
PublishAccepted(d) ==
  /\ accepting[d].pc = "publish"
  /\ IF MayRecordMigration(Reported(d, "accepted")) THEN record_migration(Reported(d, "accepted"))
                                                    ELSE UNCHANGED records
  /\ Abandon(d)
  /\ UNCHANGED <<machines, forge, file, spawning, naming, late, left>>

(* An accept refuses a host that still has a checkout: the operator clears it. *)
RemoveOld(h) ==
  /\ h # row.owner /\ row.owner # Nil /\ row.claimed # h /\ accepting[h].pc = "idle"
  /\ checkout[h] # Nil
  /\ Use("remove")
  /\ checkout' = [checkout EXCEPT ![h] = Nil]
  /\ UNCHANGED <<records, volume, agent, forge, file, spawning, naming, accepting, late>>

(* The command is interrupted, or a daemon dies before it records a branch. *)
Interrupted(h) ==
  /\ Use("fault")
  /\ \/ accepting[h].pc # "idle" /\ Abandon(h) /\ UNCHANGED naming
     \/ h \in naming /\ naming' = naming \ {h} /\ UNCHANGED accepting
  /\ UNCHANGED <<records, machines, forge, file, spawning, late>>

-----------------------------------------------------------------------------

Init ==
  /\ row = NewRow /\ forge = Nil /\ agent = {} /\ file = Nil /\ naming = {}
  /\ checkout = [h \in Hosts |-> Nil]
  /\ volume = [h \in Hosts |-> 0]
  /\ spawning = [h \in Hosts |-> Resting]
  /\ accepting = [h \in Hosts |-> NoAccept]
  /\ late = {} /\ asked = {}
  /\ left \in Budgets

Spawner(h) == spawn_one(h) \/ _prepare_task_dir(h) \/ _spawn_container(h)

Provisioner(h) == provision(h) \/ RecordBranch(h)

Accept(h) ==
  \/ accept_workspace(h) \/ RecordInstalled(h) \/ ClaimMoved(h) \/ RecordMoved(h)
  \/ PublishAccepted(h)

Operator ==
  \/ \E d \in Hosts, method \in Methods, transfer, discard \in BOOLEAN :
       request_migration(d, method, transfer, discard)
  \/ Export
  \/ \E d \in Hosts : accept_migration(d) \/ RemoveOld(d)

Next ==
  \/ set_slug
  \/ \E h \in Hosts : AgentWorks(h) \/ Push(h) \/ Stop(h) \/ release(h)
  \/ \E h \in Hosts : Consider(h) \/ Spawner(h) \/ Provisioner(h) \/ Accept(h) \/ Interrupted(h)
  \/ Operator

Spec == Init /\ [][Next]_vars

-----------------------------------------------------------------------------

TaskRow ==
  [claimed : Hosts \cup {Nil}, slug : BOOLEAN, branch : BOOLEAN, owner : Hosts \cup {Nil},
   verified : Hosts \cup {Nil}, migration : MigrationRecord \cup {Nil}]

ExportFile == [from : Hosts, checkout : Checkout, volume : Nat]

SpawnRecord == [pc : {"idle", "claim", "prepare", "start"}, task : TaskRow]

AcceptRecord ==
  [pc : {"idle", "install", "record", "claim", "provision", "publish"}, task : TaskRow,
   staged : Checkout \cup {Nil}, session : {"requested", "accepted", "omitted", Nil}]

(* The program's records and files have the shape the code gives them. *)
TypeOK ==
  /\ row \in TaskRow
  /\ checkout \in [Hosts -> Checkout \cup {Nil}]
  /\ forge \in Nat \cup {Nil}
  /\ volume \in [Hosts -> Nat]
  /\ agent \subseteq Hosts /\ naming \subseteq Hosts
  /\ file \in ExportFile \cup {Nil}
  /\ spawning \in [Hosts -> SpawnRecord]
  /\ accepting \in [Hosts -> AcceptRecord]
  /\ late \subseteq Methods /\ asked \subseteq Hosts

(* The recorded owner has the task's branch checked out (REQ-037.2.4), however *)
(* its spawner, its provisioner and the accept commands of the operator       *)
(* interleave.                                                                *)
OwnerHasBranch == row.owner # Nil => OnTask(checkout[row.owner])

(* migration.py, record_migration and claim together keep the promise of      *)
(* WorkspaceOwner: one owner, one agent, and no move but where it was asked.  *)
O == INSTANCE WorkspaceOwner WITH owner <- row.owner, named <- asked, agents <- agent
Ownership == O!Spec

(* A workspace that changes hosts takes the work along: all the source did up *)
(* to the export or the inspection of the forge, unless the operator agreed   *)
(* to discard it (REQ-037.4.2, 037.5.1).                                      *)
WorkKept ==
  [][row.owner # Nil /\ row'.owner # row.owner =>
       \/ Work(checkout[row'.owner]) >= Work(checkout[row.owner])
       \/ row.migration.discarded
       \/ row.migration.method \in late]_vars

(* The session history of the workspace's new host is what the migration says *)
(* of it when its agent starts: the source's, or none at all, never what an   *)
(* earlier stay left there (REQ-037.6.2, 037.6.3).                            *)
HistoryFollows ==
  [][(row.owner # Nil /\ row'.owner # row.owner
      /\ row.migration.destination = row'.owner /\ agent = {}) =>
       LET d == row'.owner IN
       CASE row.migration.session = "accepted" ->
              volume[d] = volume[row.owner] \/ "archive" \in late
         [] row.migration.session = "omitted" -> volume[d] = 0 \/ row.migration.method \in late
         [] OTHER -> FALSE]_vars

(* specs/REQ-037: a destination runs the task's container only once workspace *)
(* acceptance is recorded.                                                    *)
SpawnAwaitsAcceptance ==
  \A h \in agent : row.migration # Nil /\ row.migration.destination = h =>
                     row.migration.workspace = "accepted"

(* What there is of a task goes where the task goes: its work, and the        *)
(* history of its session.                                                    *)
NothingLeftBehind == WorkKept /\ HistoryFollows
=============================================================================

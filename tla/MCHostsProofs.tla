--------------------------- MODULE MCHostsProofs ---------------------------
(* What is proved of two hosts. First of Handover, for every set of hosts and *)
(* every budget: the types; that the recorded owner has the task's branch;    *)
(* that the records keep the promise of WorkspaceOwner. Then what             *)
(* RunnerFleetProofs proves, as properties of the composition that the run    *)
(* `fleet` checks: whichever part a behaviour is of, its steps are steps of   *)
(* RunnerFleet or leave the fleet alone. There, too, the hosts and the        *)
(* budgets of the moves are any.                                              *)
EXTENDS MCHosts, TLAPS

-----------------------------------------------------------------------------
(* The workspace *)

(* Who holds the claim runs the agent, starts it, and owns the workspace, was *)
(* asked to take it over, or finds it nobody's.                               *)
ClaimInv ==
  /\ \A h \in agent : row.claimed = h
  /\ \A h \in Hosts : spawning[h].pc \in {"prepare", "start"} => row.claimed = h
  /\ \A h \in Hosts : spawning[h].pc # "idle" => h \notin naming
  /\ row.claimed # Nil => row.owner \in {Nil, row.claimed} \/ row.claimed \in asked

(* The present migration starts from the owner exactly while there are hosts  *)
(* the workspace was asked to move to.                                        *)
MoveInv ==
  /\ row.owner = Nil => row.migration = Nil
  /\ asked # {} => row.migration # Nil /\ row.migration.source = row.owner
  /\ row.migration # Nil /\ row.migration.source = row.owner =>
       row.migration.destination \in asked

(* Where a checkout is needed there is one, and on the task's branch where it *)
(* is about to be recorded.                                                   *)
PlaceInv ==
  /\ \A h \in Hosts : spawning[h].pc = "start" \/ h \in agent => checkout[h] # Nil
  /\ OwnerHasBranch
  /\ \A h \in naming : row.claimed = h => OnTask(checkout[h])
  /\ \A h \in Hosts :
       /\ accepting[h].pc \in {"record", "claim", "provision"} => OnTask(checkout[h])
       /\ accepting[h].pc = "install" /\ accepting[h].task.migration.workspace # "pending" =>
            (OnTask(accepting[h].staged) => OnTask(checkout[h]))

(* An accept under way carries a migration to its host, and once past the     *)
(* session history knows what became of that.                                 *)
AcceptInv ==
  \A h \in Hosts :
    /\ accepting[h].pc # "idle" =>
         /\ accepting[h].task.migration # Nil
         /\ accepting[h].task.migration.destination = h
    /\ accepting[h].pc = "install" =>
         accepting[h].session \in {"requested", "accepted", "omitted"}
    /\ accepting[h].pc \in {"record", "claim", "provision", "publish"} =>
         accepting[h].session \in {"accepted", "omitted"}

IInv == TypeOK /\ ClaimInv /\ MoveInv /\ PlaceInv /\ AcceptInv


-----------------------------------------------------------------------------
(* Records *)

(* What the handlers leave of the record is a record. *)
LEMMA RowTypes ==
  ASSUME row \in TaskRow, NEW h \in Hosts
  PROVE  /\ [row EXCEPT !.claimed = h] \in TaskRow
         /\ [row EXCEPT !.claimed = Nil] \in TaskRow
         /\ [row EXCEPT !.slug = TRUE] \in TaskRow
         /\ [row EXCEPT !.branch = TRUE, !.owner = h, !.verified = h] \in TaskRow
         /\ \A m \in MigrationRecord : [row EXCEPT !.migration = m] \in TaskRow
BY DEF TaskRow

(* A spawn or an accept that is over leaves a well typed place behind, and    *)
(* one that begins holds the record it read.                                  *)
LEMMA PlaceTypes ==
  ASSUME row \in TaskRow
  PROVE  /\ Resting \in SpawnRecord /\ NoAccept \in AcceptRecord
         /\ \A pc \in {"claim", "prepare"} : [pc |-> pc, task |-> row] \in SpawnRecord
BY DEF Resting, NoAccept, NewRow, TaskRow, SpawnRecord, AcceptRecord

(* A spawn that goes on keeps its type. *)
LEMMA SpawnTypes ==
  ASSUME spawning \in [Hosts -> SpawnRecord], NEW h \in Hosts
  PROVE  /\ \A x \in SpawnRecord : [spawning EXCEPT ![h] = x] \in [Hosts -> SpawnRecord]
         /\ [spawning EXCEPT ![h].pc = "start"] \in [Hosts -> SpawnRecord]
         /\ [spawning EXCEPT ![h].pc = "prepare", ![h].task.claimed = h]
               \in [Hosts -> SpawnRecord]
<1>1. spawning[h] \in SpawnRecord
  OBVIOUS
<1>2. [spawning[h] EXCEPT !.pc = "start"] \in SpawnRecord
  BY <1>1 DEF SpawnRecord
<1>3. [spawning[h].task EXCEPT !.claimed = h] \in TaskRow
  BY <1>1 DEF SpawnRecord, TaskRow
<1>4. [spawning[h] EXCEPT !.pc = "prepare", !.task.claimed = h] \in SpawnRecord
  BY <1>1, <1>3 DEF SpawnRecord
<1>5. /\ [spawning EXCEPT ![h].pc = "start"] \in [Hosts -> SpawnRecord]
      /\ [spawning EXCEPT ![h].pc = "prepare", ![h].task.claimed = h] \in [Hosts -> SpawnRecord]
  BY <1>2, <1>4
<1> QED
  BY <1>5

(* So does an accept. *)
LEMMA AcceptTypes ==
  ASSUME accepting \in [Hosts -> AcceptRecord], NEW h \in Hosts
  PROVE  /\ \A x \in AcceptRecord : [accepting EXCEPT ![h] = x] \in [Hosts -> AcceptRecord]
         /\ \A pc \in {"claim", "provision", "publish"} :
              [accepting EXCEPT ![h].pc = pc] \in [Hosts -> AcceptRecord]
         /\ [accepting EXCEPT ![h].pc = "record",
              ![h].session = IF @ = "requested" THEN "accepted" ELSE @]
               \in [Hosts -> AcceptRecord]
<1>1. accepting[h] \in AcceptRecord
  OBVIOUS
<1>2. \A pc \in {"claim", "provision", "publish"} :
        [accepting[h] EXCEPT !.pc = pc] \in AcceptRecord
  BY <1>1 DEF AcceptRecord
<1>3. [accepting[h] EXCEPT !.pc = "record", !.session = IF @ = "requested" THEN "accepted" ELSE @]
        \in AcceptRecord
  BY <1>1 DEF AcceptRecord
<1>4. \A pc \in {"claim", "provision", "publish"} :
        [accepting EXCEPT ![h].pc = pc] \in [Hosts -> AcceptRecord]
  BY <1>2
<1>5. [accepting EXCEPT ![h].pc = "record",
         ![h].session = IF @ = "requested" THEN "accepted" ELSE @] \in [Hosts -> AcceptRecord]
  BY <1>3
<1> QED
  BY <1>4, <1>5

(* The record of a move that is allowed keeps what the records say of moves.  *)
LEMMA MigrationRecorded ==
  ASSUME IInv, NEW m \in MigrationRecord, MayRecordMigration(m), record_migration(m)
  PROVE  /\ row' \in TaskRow /\ asked' \subseteq Hosts /\ asked \subseteq asked'
         /\ row'.claimed = row.claimed /\ row'.owner = row.owner
         /\ row'.branch = row.branch /\ row'.slug = row.slug
         /\ MoveInv'
<1>1. row \in TaskRow /\ asked \subseteq Hosts
  BY DEF IInv, TypeOK
<1>2. row' = [row EXCEPT !.migration = m] /\ asked' = asked \cup {m.destination}
  BY DEF record_migration
<1>3. row' \in TaskRow
  BY <1>1, <1>2 DEF TaskRow
<1>4. /\ row'.claimed = row.claimed /\ row'.owner = row.owner
      /\ row'.branch = row.branch /\ row'.slug = row.slug /\ row'.migration = m
  BY <1>1, <1>2 DEF TaskRow
<1>5. m.destination \in Hosts /\ m # Nil
  BY HandoverAssumption DEF MigrationRecord
<1>6. MoveInv'
  BY <1>1, <1>2, <1>4, <1>5 DEF IInv, MoveInv, MayRecordMigration
<1> QED
  BY <1>1, <1>2, <1>3, <1>4, <1>5, <1>6

(* So does the record of a workspace by its claimant.                         *)
LEMMA ProvisioningRecorded ==
  ASSUME IInv, NEW h \in Hosts, MayRecordProvisioning(h), record_provisioning(h)
  PROVE  /\ row' \in TaskRow /\ asked' \subseteq Hosts
         /\ row'.claimed = h /\ row.claimed = h /\ row'.owner = h
         /\ MoveInv'
<1>1. row \in TaskRow /\ asked \subseteq Hosts /\ h # Nil
  BY HandoverAssumption DEF IInv, TypeOK
<1>2. /\ row' = [row EXCEPT !.branch = TRUE, !.owner = h, !.verified = h]
      /\ asked' = IF row.owner = h THEN asked ELSE {}
  BY DEF record_provisioning
<1>3. row' \in TaskRow /\ asked' \subseteq Hosts
  BY <1>1, <1>2, RowTypes
<1>4. /\ row'.claimed = row.claimed /\ row'.owner = h /\ row'.migration = row.migration
  BY <1>1, <1>2 DEF TaskRow
<1>5. row.claimed = h
  BY DEF MayRecordProvisioning
<1>6. CASE row.owner = h
  <2>1. asked' = asked
    BY <1>2, <1>6
  <2>2. MoveInv'
    BY <1>1, <1>4, <1>6, <2>1 DEF IInv, MoveInv
  <2> QED
    BY <1>3, <1>4, <1>5, <2>2
<1>7. CASE row.owner # h
  <2>1. asked' = {}
    BY <1>2, <1>7
  <2>2. row.migration # Nil => row.migration.source # h
    BY <1>1, <1>5, <1>7 DEF IInv, ClaimInv, MoveInv
  <2>3. MoveInv'
    BY <1>1, <1>4, <2>1, <2>2 DEF MoveInv
  <2> QED
    BY <1>3, <1>4, <1>5, <2>3
<1> QED
  BY <1>6, <1>7

(* An accept goes on to its next stage, or is over; the others stay as they are. *)
LEMMA AcceptMoves ==
  ASSUME accepting \in [Hosts -> AcceptRecord], NEW h \in Hosts, NEW pc \in STRING,
         accepting' = [accepting EXCEPT ![h].pc = pc]
  PROVE  /\ accepting'[h].pc = pc /\ accepting'[h].task = accepting[h].task
         /\ accepting'[h].session = accepting[h].session
         /\ \A q \in Hosts \ {h} : accepting'[q] = accepting[q]
<1>1. accepting[h] \in AcceptRecord
  OBVIOUS
<1>2. accepting'[h] = [accepting[h] EXCEPT !.pc = pc]
  OBVIOUS
<1>3. /\ accepting'[h].pc = pc /\ accepting'[h].task = accepting[h].task
      /\ accepting'[h].session = accepting[h].session
  BY <1>1, <1>2 DEF AcceptRecord
<1> QED
  BY <1>3

LEMMA AcceptEnds ==
  ASSUME accepting \in [Hosts -> AcceptRecord], NEW h \in Hosts,
         accepting' = [accepting EXCEPT ![h] = NoAccept]
  PROVE  /\ accepting'[h] = NoAccept
         /\ \A q \in Hosts \ {h} : accepting'[q] = accepting[q]
OBVIOUS

-----------------------------------------------------------------------------
(* The agent and its operator *)

LEMMA Step_set_slug ==
  ASSUME IInv, set_slug
  PROVE  IInv'
<1>1. TypeOK'
  BY RowTypes DEF IInv, TypeOK, records, machines, set_slug
<1>2. ClaimInv'
  BY DEF IInv, TypeOK, ClaimInv, records, machines, TaskRow, set_slug
<1>3. MoveInv'
  BY DEF IInv, TypeOK, MoveInv, records, machines, TaskRow, set_slug
<1>4. PlaceInv'
  BY DEF IInv, TypeOK, ClaimInv, PlaceInv, OwnerHasBranch, OnTask, records, machines,
            TaskRow, set_slug
<1>5. AcceptInv'
  BY DEF IInv, TypeOK, AcceptInv, records, machines, set_slug
<1> QED
  BY <1>1, <1>2, <1>3, <1>4, <1>5 DEF IInv

LEMMA Step_AgentWorks ==
  ASSUME IInv, NEW h \in Hosts, AgentWorks(h)
  PROVE  IInv'
<1>1. TypeOK'
  <2>1. checkout \in [Hosts -> Checkout \cup {Nil}] /\ volume \in [Hosts -> Nat] /\ h \in agent
    BY DEF IInv, TypeOK, AgentWorks
  <2>2. checkout[h] \in Checkout
    BY <2>1 DEF IInv, PlaceInv
  <2>3. [checkout[h] EXCEPT !.work = @ + 1] \in Checkout
    BY <2>2 DEF Checkout
  <2>4. checkout' = [checkout EXCEPT ![h] = [checkout[h] EXCEPT !.work = @ + 1]]
    BY DEF AgentWorks
  <2>5. checkout' \in [Hosts -> Checkout \cup {Nil}]
    BY <2>1, <2>3, <2>4
  <2>6. checkout'[h] = [checkout[h] EXCEPT !.work = @ + 1] /\ checkout'[h].work \in Nat
    BY <2>1, <2>3, <2>4 DEF Checkout
  <2>7. volume' \in [Hosts -> Nat]
    BY <2>1, <2>6 DEF AgentWorks
  <2> QED
    BY <2>5, <2>7 DEF IInv, TypeOK, records, Methods, AgentWorks
<1>2. ClaimInv'
  BY DEF IInv, TypeOK, ClaimInv, records, machines, TaskRow, AgentWorks, Use
<1>3. MoveInv'
  BY DEF IInv, TypeOK, MoveInv, records, machines, TaskRow, AgentWorks, Use
<1>4. PlaceInv'
  <2>1. checkout \in [Hosts -> Checkout \cup {Nil}] /\ h \in agent
    BY DEF IInv, TypeOK, AgentWorks
  <2>2. checkout[h] \in Checkout
    BY <2>1 DEF IInv, PlaceInv
  <2>3. checkout' = [checkout EXCEPT ![h] = [checkout[h] EXCEPT !.work = @ + 1]]
    BY DEF AgentWorks
  <2>4. checkout'[h] \in Checkout /\ checkout'[h].branch = checkout[h].branch
    BY <2>1, <2>2, <2>3 DEF Checkout
  <2>5. checkout'[h] # Nil /\ (OnTask(checkout[h]) => OnTask(checkout'[h]))
    BY <2>4, HandoverAssumption DEF OnTask
  <2>6. \A q \in Hosts \ {h} : checkout'[q] = checkout[q]
    BY <2>1, <2>3
  <2>7. \A q \in Hosts : /\ checkout[q] # Nil => checkout'[q] # Nil
                         /\ OnTask(checkout[q]) => OnTask(checkout'[q])
    BY <2>5, <2>6
  <2>8. row' = row /\ agent' = agent /\ UNCHANGED <<spawning, naming, accepting>>
    BY DEF AgentWorks, records
  <2>9. row.owner \in Hosts \cup {Nil} /\ agent \subseteq Hosts /\ naming \subseteq Hosts
    BY DEF IInv, TypeOK, TaskRow
  <2>10. OwnerHasBranch'
    BY <2>7, <2>8, <2>9 DEF IInv, PlaceInv, OwnerHasBranch
  <2> QED
    BY <2>7, <2>8, <2>9, <2>10 DEF IInv, PlaceInv
<1>5. AcceptInv'
  BY DEF IInv, TypeOK, AcceptInv, records, machines, AgentWorks, Use
<1> QED
  BY <1>1, <1>2, <1>3, <1>4, <1>5 DEF IInv

LEMMA Step_Push ==
  ASSUME IInv, NEW h \in Hosts, Push(h)
  PROVE  IInv'
<1>1. TypeOK'
  <2>1. checkout[h] \in Checkout /\ checkout[h].work \in Nat
    BY DEF IInv, TypeOK, Push, OnTask, Checkout
  <2> QED
    BY <2>1 DEF IInv, TypeOK, records, machines, Push
<1>2. ClaimInv'
  BY DEF IInv, TypeOK, ClaimInv, records, machines, TaskRow, Push
<1>3. MoveInv'
  BY DEF IInv, TypeOK, MoveInv, records, machines, TaskRow, Push
<1>4. PlaceInv'
  BY DEF IInv, TypeOK, ClaimInv, PlaceInv, OwnerHasBranch, OnTask, records, machines,
            TaskRow, Push
<1>5. AcceptInv'
  BY DEF IInv, TypeOK, AcceptInv, records, machines, Push
<1> QED
  BY <1>1, <1>2, <1>3, <1>4, <1>5 DEF IInv

LEMMA Step_Stop ==
  ASSUME IInv, NEW h \in Hosts, Stop(h)
  PROVE  IInv'
<1>1. TypeOK'
  BY RowTypes DEF IInv, TypeOK, records, machines, Stop
<1>2. ClaimInv'
  BY DEF IInv, TypeOK, ClaimInv, records, machines, TaskRow, Stop
<1>3. MoveInv'
  BY DEF IInv, TypeOK, MoveInv, records, machines, TaskRow, Stop
<1>4. PlaceInv'
  BY DEF IInv, TypeOK, ClaimInv, PlaceInv, OwnerHasBranch, OnTask, records, machines,
            TaskRow, Stop
<1>5. AcceptInv'
  BY DEF IInv, TypeOK, AcceptInv, records, machines, Stop
<1> QED
  BY <1>1, <1>2, <1>3, <1>4, <1>5 DEF IInv

LEMMA Step_release ==
  ASSUME IInv, NEW h \in Hosts, release(h)
  PROVE  IInv'
<1>1. TypeOK'
  BY RowTypes DEF IInv, TypeOK, records, machines, release, Use
<1>2. ClaimInv'
  BY DEF IInv, TypeOK, ClaimInv, records, machines, TaskRow, release, Use
<1>3. MoveInv'
  BY DEF IInv, TypeOK, MoveInv, records, machines, TaskRow, release, Use
<1>4. PlaceInv'
  <2>1. /\ row'.claimed = Nil /\ row'.owner = row.owner
        /\ UNCHANGED <<checkout, agent, spawning, naming, accepting>>
    BY DEF IInv, TypeOK, TaskRow, release, machines
  <2>2. \A q \in naming : q # Nil
    BY HandoverAssumption DEF IInv, TypeOK
  <2> QED
    BY <2>1, <2>2 DEF IInv, PlaceInv, OwnerHasBranch
<1>5. AcceptInv'
  BY DEF IInv, TypeOK, AcceptInv, records, machines, release, Use
<1> QED
  BY <1>1, <1>2, <1>3, <1>4, <1>5 DEF IInv

-----------------------------------------------------------------------------
(* A host's spawner *)

LEMMA Step_Consider ==
  ASSUME IInv, NEW h \in Hosts, Consider(h)
  PROVE  IInv'
<1>1. TypeOK'
  <2>1. \E pc \in {"claim", "prepare"} :
          spawning' = [spawning EXCEPT ![h] = [pc |-> pc, task |-> row]]
    BY DEF Consider
  <2>2. spawning' \in [Hosts -> SpawnRecord]
    <3>1. row \in TaskRow /\ spawning \in [Hosts -> SpawnRecord]
      BY DEF IInv, TypeOK
    <3>2. PICK pc \in {"claim", "prepare"} :
            spawning' = [spawning EXCEPT ![h] = [pc |-> pc, task |-> row]]
      BY <2>1
    <3>3. [pc |-> pc, task |-> row] \in SpawnRecord
      BY <3>1, <3>2, PlaceTypes
    <3> QED
      BY <3>1, <3>2, <3>3, SpawnTypes
  <2> QED
    BY <2>2 DEF IInv, TypeOK, records, machines, Consider
<1>2. ClaimInv'
  BY DEF IInv, TypeOK, ClaimInv, records, machines, TaskRow, Consider, Use
<1>3. MoveInv'
  BY DEF IInv, TypeOK, MoveInv, records, machines, TaskRow, Consider, Use
<1>4. PlaceInv'
  BY DEF IInv, TypeOK, ClaimInv, PlaceInv, OwnerHasBranch, OnTask, records, machines,
            TaskRow, Consider, Use
<1>5. AcceptInv'
  BY DEF IInv, TypeOK, AcceptInv, records, machines, Consider, Use
<1> QED
  BY <1>1, <1>2, <1>3, <1>4, <1>5 DEF IInv

LEMMA Step_spawn_one ==
  ASSUME IInv, NEW h \in Hosts, spawn_one(h)
  PROVE  IInv'
<1>1. TypeOK'
  <2>1. row' \in TaskRow
    BY RowTypes DEF IInv, TypeOK, spawn_one, claim
  <2>2. spawning' \in [Hosts -> SpawnRecord]
    <3>1. spawning \in [Hosts -> SpawnRecord] /\ Resting \in SpawnRecord
      BY PlaceTypes DEF IInv, TypeOK
    <3>2. \/ spawning' = [spawning EXCEPT ![h].pc = "prepare", ![h].task.claimed = h]
          \/ spawning' = [spawning EXCEPT ![h] = Resting]
      BY DEF spawn_one
    <3> QED
      BY <3>1, <3>2, SpawnTypes
  <2> QED
    BY <2>1, <2>2 DEF IInv, TypeOK, machines, spawn_one
<1>2. ClaimInv'
  <2>1. row \in TaskRow /\ spawning \in [Hosts -> SpawnRecord] /\ h # Nil
    BY HandoverAssumption DEF IInv, TypeOK
  <2>2. CASE MayClaim(h)
    <3>1. /\ row'.claimed = h /\ row'.owner = row.owner /\ row.claimed \in {Nil, h}
          /\ UNCHANGED <<agent, naming, asked>>
      BY <2>1, <2>2 DEF spawn_one, claim, MayClaim, machines, TaskRow
    <3>2. spawning'[h].pc = "prepare" /\ \A q \in Hosts \ {h} : spawning'[q] = spawning[q]
      BY <2>1, <2>2 DEF spawn_one, SpawnRecord
    <3>3. row.owner \in {Nil, h} \/ h \in asked
      BY <2>1, <2>2 DEF MayClaim, Foreign, IInv, ClaimInv, MoveInv
    <3>4. \A q \in agent : q = h
      BY <2>1, <3>1, HandoverAssumption DEF IInv, TypeOK, ClaimInv
    <3>5. \A q \in Hosts \ {h} : spawning[q].pc \notin {"prepare", "start"}
      BY <2>1, <3>1, HandoverAssumption DEF IInv, ClaimInv
    <3>6. h \notin naming
      BY DEF IInv, ClaimInv, spawn_one
    <3> QED
      BY <3>1, <3>2, <3>3, <3>4, <3>5, <3>6 DEF IInv, ClaimInv
  <2>3. CASE ~MayClaim(h)
    <3>1. row' = row /\ UNCHANGED <<agent, naming, asked>>
      BY <2>3 DEF spawn_one, machines
    <3>2. spawning'[h].pc = "idle" /\ \A q \in Hosts \ {h} : spawning'[q] = spawning[q]
      BY <2>1, <2>3 DEF spawn_one, Resting
    <3> QED
      BY <3>1, <3>2 DEF IInv, ClaimInv
  <2> QED
    BY <2>2, <2>3
<1>3. MoveInv'
  BY DEF IInv, TypeOK, MoveInv, records, machines, TaskRow, spawn_one, MayClaim, claim, Foreign, Resting, NewRow
<1>4. PlaceInv'
  <2>1. row \in TaskRow /\ spawning \in [Hosts -> SpawnRecord]
    BY DEF IInv, TypeOK
  <2>2. /\ UNCHANGED <<checkout, agent, naming, accepting>> /\ row'.owner = row.owner
        /\ row'.claimed \in {row.claimed, h}
    BY <2>1 DEF spawn_one, claim, machines, TaskRow
  <2>3. h \notin naming
    BY DEF IInv, ClaimInv, spawn_one
  <2>4. \A q \in Hosts : spawning'[q].pc = "start" => spawning[q].pc = "start"
    BY <2>1 DEF spawn_one, SpawnRecord, Resting
  <2>5. OwnerHasBranch'
    BY <2>2 DEF IInv, PlaceInv, OwnerHasBranch
  <2>6. naming \subseteq Hosts /\ \A q \in naming : row'.claimed = q => OnTask(checkout[q])
    BY <2>2, <2>3 DEF IInv, TypeOK, PlaceInv
  <2> QED
    BY <2>2, <2>4, <2>5, <2>6 DEF IInv, PlaceInv
<1>5. AcceptInv'
  BY DEF IInv, TypeOK, AcceptInv, records, machines, spawn_one, MayClaim, claim, Foreign, Resting, NewRow
<1> QED
  BY <1>1, <1>2, <1>3, <1>4, <1>5 DEF IInv

LEMMA Step_spawn_container ==
  ASSUME IInv, NEW h \in Hosts, _spawn_container(h)
  PROVE  IInv'
<1>1. TypeOK'
  <2>1. spawning' \in [Hosts -> SpawnRecord]
    BY SpawnTypes, PlaceTypes DEF IInv, TypeOK, _spawn_container
  <2> QED
    BY <2>1 DEF IInv, TypeOK, records, _spawn_container
<1>2. ClaimInv'
  BY DEF IInv, TypeOK, ClaimInv, records, machines, TaskRow, _spawn_container, Resting, NewRow
<1>3. MoveInv'
  BY DEF IInv, TypeOK, MoveInv, records, machines, TaskRow, _spawn_container, Resting, NewRow
<1>4. PlaceInv'
  <2>1. /\ UNCHANGED <<row, checkout, naming, accepting>> /\ agent' = agent \cup {h}
        /\ checkout[h] # Nil
    BY DEF IInv, PlaceInv, _spawn_container, records
  <2>2. spawning'[h].pc = "idle" /\ \A q \in Hosts \ {h} : spawning'[q] = spawning[q]
    BY DEF IInv, TypeOK, _spawn_container, Resting
  <2> QED
    BY <2>1, <2>2 DEF IInv, PlaceInv, OwnerHasBranch, OnTask
<1>5. AcceptInv'
  BY DEF IInv, TypeOK, AcceptInv, records, machines, _spawn_container, Resting, NewRow
<1> QED
  BY <1>1, <1>2, <1>3, <1>4, <1>5 DEF IInv

-----------------------------------------------------------------------------
(* A host's provisioner *)

LEMMA Step_provision ==
  ASSUME IInv, NEW h \in Hosts, provision(h)
  PROVE  IInv'
<1>1. TypeOK'
  <2>1. checkout \in [Hosts -> Checkout \cup {Nil}] /\ checkout[h] # Nil
    BY DEF IInv, TypeOK, provision, Due
  <2>2. [checkout[h] EXCEPT !.branch = "task"] \in Checkout
    BY <2>1 DEF Checkout
  <2>3. ForgeFirst(h) => [branch |-> "task", work |-> forge] \in Checkout
    BY DEF IInv, TypeOK, provision, CanBranch, Checkout
  <2>4. checkout' \in [Hosts -> Checkout \cup {Nil}]
    BY <2>1, <2>2, <2>3 DEF provision
  <2> QED
    BY <2>4 DEF IInv, TypeOK, records, provision
<1>2. ClaimInv'
  BY DEF IInv, TypeOK, ClaimInv, records, machines, TaskRow, provision, Due, CanBranch, ForgeFirst, Foreign
<1>3. MoveInv'
  BY DEF IInv, TypeOK, MoveInv, records, machines, TaskRow, provision, Due, CanBranch, ForgeFirst, Foreign
<1>4. PlaceInv'
  <2>1. checkout \in [Hosts -> Checkout \cup {Nil}] /\ checkout[h] \in Checkout
    BY DEF IInv, TypeOK, provision, Due
  <2>2. \A w : [branch |-> "task", work |-> w].branch = "task"
    OBVIOUS
  <2>3. /\ [checkout[h] EXCEPT !.branch = "task"] \in Checkout
        /\ [checkout[h] EXCEPT !.branch = "task"].branch = "task"
        /\ ForgeFirst(h) => [branch |-> "task", work |-> forge] \in Checkout
    BY <2>1 DEF Checkout, IInv, TypeOK, provision, CanBranch
  <2>4. OnTask(checkout'[h])
    BY <2>1, <2>2, <2>3, HandoverAssumption DEF provision, OnTask
  <2>5. \A q \in Hosts : q # h => checkout'[q] = checkout[q]
    BY <2>1 DEF provision
  <2>6. /\ row' = row /\ naming' = naming \cup {h}
        /\ UNCHANGED <<agent, spawning, accepting>>
    BY DEF provision, records
  <2>7. \A q \in Hosts : /\ checkout[q] # Nil => checkout'[q] # Nil
                         /\ OnTask(checkout[q]) => OnTask(checkout'[q])
    BY <2>4, <2>5 DEF OnTask
  <2>8. row.owner \in Hosts \cup {Nil} /\ agent \subseteq Hosts /\ naming \subseteq Hosts
    BY DEF IInv, TypeOK, TaskRow
  <2>9. OwnerHasBranch'
    BY <2>6, <2>7, <2>8 DEF IInv, PlaceInv, OwnerHasBranch
  <2> QED
    BY <2>4, <2>6, <2>7, <2>8, <2>9 DEF IInv, PlaceInv
<1>5. AcceptInv'
  BY DEF IInv, TypeOK, AcceptInv, records, machines, provision, Due, CanBranch, ForgeFirst, Foreign
<1> QED
  BY <1>1, <1>2, <1>3, <1>4, <1>5 DEF IInv

-----------------------------------------------------------------------------
(* The migration commands *)

LEMMA Step_Export ==
  ASSUME IInv, Export
  PROVE  IInv'
<1>1. TypeOK'
  <2>1. row.owner \in Hosts
    BY DEF IInv, TypeOK, TaskRow, Export
  <2>2. file' \in ExportFile
    BY <2>1 DEF IInv, TypeOK, Export, ExportFile
  <2>3. late' \subseteq Methods
    BY DEF IInv, TypeOK, Export, Retaken
  <2> QED
    BY <2>2, <2>3 DEF IInv, TypeOK, records, machines, Export
<1>2. ClaimInv'
  BY DEF IInv, TypeOK, ClaimInv, records, machines, TaskRow, Export, Use
<1>3. MoveInv'
  BY DEF IInv, TypeOK, MoveInv, records, machines, TaskRow, Export, Use
<1>4. PlaceInv'
  BY DEF IInv, TypeOK, ClaimInv, PlaceInv, OwnerHasBranch, OnTask, records, machines,
            TaskRow, Export, Use
<1>5. AcceptInv'
  BY DEF IInv, TypeOK, AcceptInv, records, machines, Export, Use
<1> QED
  BY <1>1, <1>2, <1>3, <1>4, <1>5 DEF IInv

LEMMA Step_accept_migration ==
  ASSUME IInv, NEW h \in Hosts, accept_migration(h)
  PROVE  IInv'
<1>1. TypeOK'
  <2> DEFINE m == row.migration
  <2>1. row \in TaskRow /\ m \in MigrationRecord /\ accepting \in [Hosts -> AcceptRecord]
    BY DEF IInv, TypeOK, accept_migration, TaskRow
  <2>2. PICK s : accepting' = [accepting EXCEPT ![h] =
          [pc |-> "install", task |-> row, session |-> m.session, staged |-> s]]
        /\ s = (CASE m.workspace # "pending" -> checkout[h]
                  [] m.workspace = "pending" /\ m.method = "archive" -> file.checkout
                  [] OTHER -> [branch |-> "task", work |-> forge])
    BY DEF accept_migration
  <2>3. s \in Checkout \cup {Nil}
    <3>1. CASE m.workspace # "pending"
      BY <2>2, <3>1 DEF IInv, TypeOK
    <3>2. CASE m.workspace = "pending" /\ m.method = "archive"
      <4>1. file \in ExportFile
        BY <3>2 DEF IInv, TypeOK, accept_migration, Exported
      <4> QED
        BY <2>2, <3>2, <4>1 DEF ExportFile
    <3>3. CASE m.workspace = "pending" /\ m.method # "archive"
      <4>1. forge \in Nat
        BY <3>3 DEF IInv, TypeOK, accept_migration
      <4> QED
        BY <2>2, <3>3, <4>1 DEF Checkout
    <3> QED
      BY <3>1, <3>2, <3>3
  <2>4. [pc |-> "install", task |-> row, session |-> m.session, staged |-> s] \in AcceptRecord
    BY <2>1, <2>3 DEF AcceptRecord, MigrationRecord
  <2>5. accepting' \in [Hosts -> AcceptRecord]
    BY <2>1, <2>2, <2>4, AcceptTypes
  <2> QED
    BY <2>5 DEF IInv, TypeOK, records, machines, accept_migration
<1>2. ClaimInv'
  BY DEF IInv, TypeOK, ClaimInv, records, machines, TaskRow, accept_migration, Use, Exported
<1>3. MoveInv'
  BY DEF IInv, TypeOK, MoveInv, records, machines, TaskRow, accept_migration, Use, Exported
<1>4. PlaceInv'
  BY DEF IInv, TypeOK, ClaimInv, PlaceInv, OwnerHasBranch, OnTask, records, machines,
            TaskRow, accept_migration, Use, Exported
<1>5. AcceptInv'
  <2> DEFINE m == row.migration
  <2>1. /\ accepting \in [Hosts -> AcceptRecord] /\ m \in MigrationRecord /\ m.destination = h
        /\ m # Nil
    BY DEF IInv, TypeOK, accept_migration, TaskRow
  <2>2. /\ accepting'[h].pc = "install" /\ accepting'[h].task = row
        /\ accepting'[h].session = m.session
        /\ \A q \in Hosts \ {h} : accepting'[q] = accepting[q]
    BY <2>1 DEF accept_migration
  <2>3. m.session \in {"requested", "accepted", "omitted"}
    BY <2>1 DEF MigrationRecord
  <2> QED
    BY <2>1, <2>2, <2>3 DEF IInv, AcceptInv
<1> QED
  BY <1>1, <1>2, <1>3, <1>4, <1>5 DEF IInv

LEMMA Step_RemoveOld ==
  ASSUME IInv, NEW h \in Hosts, RemoveOld(h)
  PROVE  IInv'
<1>1. TypeOK'
  BY RowTypes DEF IInv, TypeOK, records, machines, RemoveOld, Use
<1>2. ClaimInv'
  BY DEF IInv, TypeOK, ClaimInv, records, machines, TaskRow, RemoveOld, Use
<1>3. MoveInv'
  BY DEF IInv, TypeOK, MoveInv, records, machines, TaskRow, RemoveOld, Use
<1>4. PlaceInv'
  BY DEF IInv, TypeOK, ClaimInv, PlaceInv, OwnerHasBranch, OnTask, records, machines,
            TaskRow, RemoveOld, Use
<1>5. AcceptInv'
  BY DEF IInv, TypeOK, AcceptInv, records, machines, RemoveOld, Use
<1> QED
  BY <1>1, <1>2, <1>3, <1>4, <1>5 DEF IInv

LEMMA Step_Interrupted ==
  ASSUME IInv, NEW h \in Hosts, Interrupted(h)
  PROVE  IInv'
<1>1. TypeOK'
  <2>1. accepting' \in [Hosts -> AcceptRecord]
    <3>1. accepting \in [Hosts -> AcceptRecord] /\ NoAccept \in AcceptRecord
      BY PlaceTypes DEF IInv, TypeOK
    <3>2. accepting' = accepting \/ accepting' = [accepting EXCEPT ![h] = NoAccept]
      BY DEF Interrupted, Abandon
    <3> QED
      BY <3>1, <3>2, AcceptTypes
  <2>2. naming' \subseteq Hosts
    BY DEF IInv, TypeOK, Interrupted
  <2> QED
    BY <2>1, <2>2 DEF IInv, TypeOK, records, machines, Interrupted
<1>2. ClaimInv'
  BY DEF IInv, TypeOK, ClaimInv, records, machines, TaskRow, Interrupted, Use, Abandon, NoAccept, NewRow
<1>3. MoveInv'
  BY DEF IInv, TypeOK, MoveInv, records, machines, TaskRow, Interrupted, Use, Abandon, NoAccept, NewRow
<1>4. PlaceInv'
  BY DEF IInv, TypeOK, ClaimInv, PlaceInv, OwnerHasBranch, OnTask, records, machines,
            TaskRow, Interrupted, Use, Abandon, NoAccept, NewRow
<1>5. AcceptInv'
  BY DEF IInv, TypeOK, AcceptInv, records, machines, Interrupted, Use, Abandon, NoAccept, NewRow
<1> QED
  BY <1>1, <1>2, <1>3, <1>4, <1>5 DEF IInv

(* What a claim that is granted means to the hosts.                           *)
LEMMA Claimed ==
  ASSUME IInv, NEW h \in Hosts, MayClaim(h), claim(h)
  PROVE  /\ row' \in TaskRow /\ row'.claimed = h /\ row'.owner = row.owner
         /\ row'.migration = row.migration
         /\ row.owner \in {Nil, h} \/ h \in asked
         /\ \A q \in agent : q = h
         /\ \A q \in Hosts \ {h} : spawning[q].pc \notin {"prepare", "start"}
<1>1. row \in TaskRow /\ h # Nil /\ agent \subseteq Hosts /\ row.claimed \in {Nil, h}
  BY HandoverAssumption DEF IInv, TypeOK, MayClaim
<1>2. /\ row' \in TaskRow /\ row'.claimed = h /\ row'.owner = row.owner
      /\ row'.migration = row.migration
  BY <1>1, RowTypes DEF claim, TaskRow
<1>3. row.owner \in {Nil, h} \/ h \in asked
  BY <1>1 DEF MayClaim, Foreign, IInv, ClaimInv, MoveInv
<1>4. \A q \in agent : q = h
  BY <1>1, HandoverAssumption DEF IInv, ClaimInv
<1>5. \A q \in Hosts \ {h} : spawning[q].pc \notin {"prepare", "start"}
  BY <1>1, HandoverAssumption DEF IInv, ClaimInv
<1> QED
  BY <1>2, <1>3, <1>4, <1>5

LEMMA Step_prepare_task_dir ==
  ASSUME IInv, NEW h \in Hosts, _prepare_task_dir(h)
  PROVE  IInv'

<1>1. /\ row \in TaskRow /\ checkout \in [Hosts -> Checkout \cup {Nil}]
      /\ spawning \in [Hosts -> SpawnRecord] /\ Resting \in SpawnRecord /\ asked \subseteq Hosts
  BY PlaceTypes DEF IInv, TypeOK
<1>2. row.claimed = h /\ h \notin naming
  BY DEF IInv, ClaimInv, _prepare_task_dir
<1>3. /\ row' \in TaskRow /\ asked' \subseteq Hosts /\ row'.claimed = h /\ MoveInv'
      /\ \/ row'.owner = row.owner /\ asked' = asked
         \/ row'.owner = h /\ OnTask(checkout[h]) /\ checkout' = checkout
  <2>1. CASE UNCHANGED records
    BY <1>1, <1>2, <2>1 DEF records, IInv, MoveInv
  <2>2. CASE Inherits(h) /\ record_provisioning(h) /\ UNCHANGED checkout
    BY <2>2, ProvisioningRecorded DEF Inherits
  <2> QED
    BY <2>1, <2>2 DEF _prepare_task_dir
<1>4. Base \in Checkout /\ Base # Nil
  BY HandoverAssumption DEF Base, Checkout
<1>5. /\ checkout' \in [Hosts -> Checkout \cup {Nil}]
      /\ \A q \in Hosts \ {h} : checkout'[q] = checkout[q]
      /\ checkout'[h] = checkout[h] \/ (checkout[h] = Nil /\ checkout'[h] # Nil)
  <2>1. \/ checkout' = checkout
        \/ checkout[h] = Nil /\ checkout' = [checkout EXCEPT ![h] = Base]
    BY DEF _prepare_task_dir, Clones
  <2> QED
    BY <1>1, <1>4, <2>1
<1>6. \/ spawning' = [spawning EXCEPT ![h].pc = "start"] /\ checkout'[h] # Nil
      \/ spawning' = [spawning EXCEPT ![h] = Resting]
  <2>1. Clones(h) /\ checkout' = [checkout EXCEPT ![h] = Base] => checkout'[h] # Nil
    BY <1>1, <1>4
  <2> QED
    BY <2>1 DEF _prepare_task_dir, Inherits, OnTask
<1>7. spawning' \in [Hosts -> SpawnRecord]
  <2>1. \/ spawning' = [spawning EXCEPT ![h].pc = "start"]
        \/ spawning' = [spawning EXCEPT ![h] = Resting]
    BY <1>6
  <2>2. /\ [spawning EXCEPT ![h].pc = "start"] \in [Hosts -> SpawnRecord]
        /\ [spawning EXCEPT ![h] = Resting] \in [Hosts -> SpawnRecord]
    BY <1>1, SpawnTypes
  <2> QED
    BY <2>1, <2>2
<1>8. /\ spawning'[h].pc \in {"idle", "start"}
      /\ spawning'[h].pc = "start" => checkout'[h] # Nil
      /\ \A q \in Hosts \ {h} : spawning'[q] = spawning[q]
  BY <1>1, <1>6 DEF SpawnRecord, Resting
<1>9. UNCHANGED <<forge, volume, agent, file, naming, accepting, late>>
  BY DEF _prepare_task_dir
<1>10. \A q \in Hosts : /\ checkout[q] # Nil => checkout'[q] # Nil
                        /\ OnTask(checkout[q]) => OnTask(checkout'[q])
  BY <1>5 DEF OnTask
<1>11. TypeOK'
  BY <1>3, <1>5, <1>7, <1>9 DEF IInv, TypeOK
<1>12. ClaimInv'
  BY <1>2, <1>3, <1>8, <1>9 DEF IInv, ClaimInv
<1>13. row.owner \in Hosts \cup {Nil} /\ agent \subseteq Hosts /\ naming \subseteq Hosts
  BY DEF IInv, TypeOK, TaskRow
<1>14. OwnerHasBranch'
  BY <1>3, <1>10, <1>13 DEF IInv, PlaceInv, OwnerHasBranch
<1>15. PlaceInv'
  <2>1. \A q \in Hosts : (spawning[q].pc = "start" \/ q \in agent) => checkout'[q] # Nil
    BY <1>10 DEF IInv, PlaceInv
  <2>2. \A q \in Hosts : (spawning'[q].pc = "start" \/ q \in agent') => checkout'[q] # Nil
    BY <1>8, <1>9, <2>1
  <2> QED
    BY <1>2, <1>3, <1>9, <1>10, <1>13, <1>14, <2>2 DEF IInv, PlaceInv
<1>16. AcceptInv'
  BY <1>9 DEF IInv, AcceptInv
<1> QED
  BY <1>3, <1>11, <1>12, <1>15, <1>16 DEF IInv

LEMMA Step_RecordBranch ==
  ASSUME IInv, NEW h \in Hosts, RecordBranch(h)
  PROVE  IInv'

<1>1. /\ row' \in TaskRow /\ asked' \subseteq Hosts /\ row'.claimed = row.claimed /\ MoveInv'
      /\ \/ row'.owner = row.owner /\ asked' = asked
         \/ row'.owner = h /\ OnTask(checkout[h]) /\ row.claimed = h
  <2>1. CASE MayRecordProvisioning(h)
    <3>1. record_provisioning(h) /\ row.claimed = h
      BY <2>1 DEF RecordBranch, MayRecordProvisioning
    <3>2. OnTask(checkout[h])
      BY <3>1 DEF IInv, PlaceInv, RecordBranch
    <3> QED
      BY <2>1, <3>1, <3>2, ProvisioningRecorded
  <2>2. CASE ~MayRecordProvisioning(h)
    BY <2>2 DEF RecordBranch, records, IInv, TypeOK, MoveInv
  <2> QED
    BY <2>1, <2>2
<1>2. naming' = naming \ {h}
  BY DEF RecordBranch
<1>3. UNCHANGED <<checkout, volume, agent, forge, file, spawning, accepting, late>>
  BY DEF RecordBranch, machines
<1>4. TypeOK'
  BY <1>1, <1>2, <1>3 DEF IInv, TypeOK
<1>5. ClaimInv'
  BY <1>1, <1>2, <1>3 DEF IInv, ClaimInv
<1>6. PlaceInv'
  BY <1>1, <1>2, <1>3 DEF IInv, PlaceInv, OwnerHasBranch
<1>7. AcceptInv'
  BY <1>3 DEF IInv, AcceptInv
<1> QED
  BY <1>1, <1>4, <1>5, <1>6, <1>7 DEF IInv

(* The record of a move between two hosts is a migration's record.            *)
LEMMA MigrationTypes ==
  ASSUME NEW s \in Hosts, NEW d \in Hosts, NEW place \in {"pending", "installed", "accepted"},
         NEW method \in Methods, NEW history \in {"requested", "accepted", "omitted"},
         NEW discarded \in BOOLEAN
  PROVE  Migration(s, d, place, method, history, discarded) \in MigrationRecord
BY DEF Migration, MigrationRecord

(* A step that at most records a move, and changes no machine, keeps what the *)
(* claims and the places are held to.                                         *)
LEMMA Recorded ==
  ASSUME IInv, row' \in TaskRow, asked' \subseteq Hosts, asked \subseteq asked',
         row'.claimed = row.claimed, row'.owner = row.owner,
         UNCHANGED <<checkout, agent, spawning, naming>>,
         \A h \in Hosts : \/ accepting'[h] = accepting[h]
                          \/ accepting'[h].pc \in {"idle", "publish"}
                          \/ /\ accepting'[h].pc \in {"record", "claim", "provision"}
                             /\ OnTask(checkout[h])
  PROVE  ClaimInv' /\ PlaceInv'
<1>1. ClaimInv'
  BY DEF IInv, ClaimInv
<1>2. OwnerHasBranch'
  BY DEF IInv, PlaceInv, OwnerHasBranch
<1>3. \A h \in Hosts :
        /\ accepting'[h].pc \in {"record", "claim", "provision"} => OnTask(checkout[h])
        /\ accepting'[h].pc = "install" /\ accepting'[h].task.migration.workspace # "pending" =>
            (OnTask(accepting'[h].staged) => OnTask(checkout[h]))
  BY DEF IInv, PlaceInv
<1>4. PlaceInv'
  BY <1>2, <1>3 DEF IInv, PlaceInv
<1> QED
  BY <1>1, <1>4

LEMMA Step_request_migration ==
  ASSUME IInv, NEW d \in Hosts, NEW method \in Methods, NEW transfer \in BOOLEAN,
         NEW discard \in BOOLEAN, request_migration(d, method, transfer, discard)
  PROVE  IInv'
<1> DEFINE m == Migration(row.owner, d, "pending", method,
                          IF transfer THEN "requested" ELSE "omitted", discard)
<1>1. row.owner \in Hosts
  BY DEF IInv, TypeOK, TaskRow, request_migration
<1>2. m \in MigrationRecord
  BY <1>1, MigrationTypes
<1>3. MayRecordMigration(m) /\ record_migration(m)
  BY DEF request_migration
<1> HIDE DEF m
<1>4. /\ row' \in TaskRow /\ asked' \subseteq Hosts /\ asked \subseteq asked'
      /\ row'.claimed = row.claimed /\ row'.owner = row.owner
      /\ MoveInv'
  BY <1>2, <1>3, MigrationRecorded
<1>5. /\ UNCHANGED <<checkout, volume, agent, forge, file, spawning, naming, accepting>>
      /\ late' \in {late, late \ {"forge-first"}}
  BY DEF request_migration, machines, Retaken
<1>6. TypeOK'
  BY <1>4, <1>5 DEF IInv, TypeOK
<1>7. ClaimInv' /\ PlaceInv'
  BY <1>4, <1>5, Recorded
<1>8. AcceptInv'
  BY <1>5 DEF IInv, AcceptInv
<1> QED
  BY <1>4, <1>6, <1>7, <1>8 DEF IInv

LEMMA Step_accept_workspace ==
  ASSUME IInv, NEW h \in Hosts, accept_workspace(h)
  PROVE  IInv'
<1> DEFINE t == accepting[h].task
<1>1. /\ checkout \in [Hosts -> Checkout \cup {Nil}] /\ volume \in [Hosts -> Nat]
      /\ accepting \in [Hosts -> AcceptRecord] /\ NoAccept \in AcceptRecord
      /\ t \in TaskRow /\ accepting[h].staged \in Checkout \cup {Nil}
  BY PlaceTypes DEF IInv, TypeOK, AcceptRecord
<1>2. t.migration \in MigrationRecord
  BY <1>1 DEF IInv, AcceptInv, accept_workspace, TaskRow
<1>3. UNCHANGED <<row, asked, forge, agent, file, spawning, naming, late>>
  BY DEF accept_workspace, records
<1>4. \/ UNCHANGED <<checkout, volume>> /\ Abandon(h)
      \/ /\ OnTask(accepting[h].staged) /\ (t.migration.workspace = "pending" => checkout[h] = Nil)
         /\ checkout' = [checkout EXCEPT ![h] =
               IF t.migration.workspace = "pending" THEN accepting[h].staged ELSE @]
         /\ \E archived \in BOOLEAN :
               /\ archived => Exported(t.migration)
               /\ \/ volume' = volume /\ Abandon(h)
                  \/ /\ ~(accepting[h].session = "requested" /\ ~archived)
                     /\ volume' = IF accepting[h].session = "accepted" THEN volume
                                    ELSE [volume EXCEPT ![h] =
                                            History(h, accepting[h].session = "requested")]
                     /\ accepting' = [accepting EXCEPT ![h].pc = "record",
                            ![h].session = IF @ = "requested" THEN "accepted" ELSE @]
  BY DEF accept_workspace
<1>5. /\ checkout' \in [Hosts -> Checkout \cup {Nil}]
      /\ \A q \in Hosts \ {h} : checkout'[q] = checkout[q]
      /\ checkout[h] # Nil => checkout'[h] = checkout[h]
  BY <1>1, <1>4 DEF OnTask
<1>6. volume' \in [Hosts -> Nat]
  <2>1. Exported(t.migration) => file.volume \in Nat
    BY DEF IInv, TypeOK, ExportFile, Exported
  <2>2. \A b \in BOOLEAN : History(h, b) = IF b THEN file.volume ELSE 0
    BY DEF History
  <2> QED
    <3>1. CASE volume' = volume
      BY <1>1, <3>1
    <3>2. CASE volume' # volume
      <4>1. PICK archived \in BOOLEAN :
              /\ archived => Exported(t.migration)
              /\ ~(accepting[h].session = "requested" /\ ~archived)
              /\ volume' = [volume EXCEPT ![h] = History(h, accepting[h].session = "requested")]
        BY <1>4, <3>2
      <4>2. History(h, accepting[h].session = "requested") \in Nat
        <5>1. CASE accepting[h].session = "requested"
          BY <2>1, <4>1, <5>1 DEF History
        <5>2. CASE accepting[h].session # "requested"
          BY <5>2 DEF History
        <5> QED
          BY <5>1, <5>2
      <4> HIDE DEF t
      <4> QED
        BY <1>1, <4>1, <4>2
    <3> QED
      BY <3>1, <3>2
<1>7. /\ accepting' \in [Hosts -> AcceptRecord]
      /\ \A q \in Hosts \ {h} : accepting'[q] = accepting[q]
      /\ \/ accepting'[h] = NoAccept
         \/ /\ accepting'[h].pc = "record" /\ accepting'[h].task = t
            /\ accepting'[h].session \in {"accepted", "omitted"}
            /\ OnTask(checkout'[h])
  <2>1. CASE Abandon(h)
    BY <1>1, <2>1 DEF Abandon
  <2>2. CASE ~Abandon(h)
    <3>1. accepting' = [accepting EXCEPT ![h].pc = "record",
                            ![h].session = IF @ = "requested" THEN "accepted" ELSE @]
      BY <1>4, <2>2
    <3>2. accepting' \in [Hosts -> AcceptRecord]
      BY <1>1, <3>1, AcceptTypes
    <3>3. /\ accepting'[h].pc = "record" /\ accepting'[h].task = t
          /\ accepting'[h].session = IF accepting[h].session = "requested" THEN "accepted"
                                       ELSE accepting[h].session
          /\ \A q \in Hosts \ {h} : accepting'[q] = accepting[q]
      BY <1>1, <3>1 DEF AcceptRecord
    <3>4. accepting[h].session \in {"requested", "accepted", "omitted"}
      BY DEF IInv, AcceptInv, accept_workspace
    <3>5. OnTask(checkout'[h])
      <4>1. CASE t.migration.workspace = "pending"
        BY <1>1, <1>4, <2>2, <4>1
      <4>2. CASE t.migration.workspace # "pending"
        <5>1. OnTask(accepting[h].staged) /\ checkout' = checkout
          BY <1>1, <1>4, <2>2, <4>2
        <5>2. accepting[h].pc = "install"
          BY DEF accept_workspace
        <5> QED
          BY <4>2, <5>1, <5>2 DEF IInv, PlaceInv
      <4> QED
        BY <4>1, <4>2
    <3> QED
      BY <3>2, <3>3, <3>4, <3>5
  <2> QED
    BY <2>1, <2>2
<1>8. NoAccept.pc = "idle"
  BY DEF NoAccept
<1>9. \A q \in Hosts : /\ checkout[q] # Nil => checkout'[q] # Nil
                       /\ OnTask(checkout[q]) => OnTask(checkout'[q])
  BY <1>5 DEF OnTask
<1>10. row.owner \in Hosts \cup {Nil} /\ agent \subseteq Hosts /\ naming \subseteq Hosts
  BY DEF IInv, TypeOK, TaskRow
<1>11. TypeOK'
  BY <1>3, <1>5, <1>6, <1>7 DEF IInv, TypeOK
<1>12. ClaimInv' /\ MoveInv'
  BY <1>3 DEF IInv, ClaimInv, MoveInv
<1>13. OwnerHasBranch'
  BY <1>3, <1>9, <1>10 DEF IInv, PlaceInv, OwnerHasBranch
<1>14. \A q \in Hosts :
       /\ accepting'[q].pc \in {"record", "claim", "provision"} => OnTask(checkout'[q])
       /\ accepting'[q].pc = "install" /\ accepting'[q].task.migration.workspace # "pending" =>
            (OnTask(accepting'[q].staged) => OnTask(checkout'[q]))
  BY <1>7, <1>8, <1>9 DEF IInv, PlaceInv
<1>15. PlaceInv'
  BY <1>3, <1>9, <1>10, <1>13, <1>14 DEF IInv, PlaceInv
<1>16. AcceptInv'
  <2>1. accepting[h].pc = "install"
    BY DEF accept_workspace
  <2>2. t.migration # Nil /\ t.migration.destination = h
    BY <2>1 DEF IInv, AcceptInv
  <2> QED
    BY <1>7, <1>8, <2>2 DEF IInv, AcceptInv
<1> QED
  BY <1>11, <1>12, <1>15, <1>16 DEF IInv

(* What an accept reports is a migration's record.                            *)
LEMMA ReportedTypes ==
  ASSUME IInv, NEW h \in Hosts, accepting[h].pc \in {"record", "claim", "provision", "publish"},
         NEW place \in {"installed", "accepted"}
  PROVE  Reported(h, place) \in MigrationRecord
<1>1. accepting[h].task \in TaskRow
  BY DEF IInv, TypeOK, AcceptRecord
<1>2. /\ accepting[h].task.migration \in MigrationRecord
      /\ accepting[h].session \in {"accepted", "omitted"}
  BY <1>1 DEF IInv, AcceptInv, TaskRow
<1>3. /\ accepting[h].task.migration.source \in Hosts
      /\ accepting[h].task.migration.method \in Methods
      /\ accepting[h].task.migration.discarded \in BOOLEAN
  BY <1>2 DEF MigrationRecord
<1> QED
  BY <1>2, <1>3, MigrationTypes DEF Reported

LEMMA Step_RecordInstalled ==
  ASSUME IInv, NEW h \in Hosts, RecordInstalled(h)
  PROVE  IInv'

<1>1. /\ accepting \in [Hosts -> AcceptRecord] /\ NoAccept \in AcceptRecord
      /\ NoAccept.pc = "idle" /\ accepting[h].pc = "record"
  BY PlaceTypes DEF IInv, TypeOK, NoAccept, RecordInstalled
<1>2. /\ row' \in TaskRow /\ asked' \subseteq Hosts /\ asked \subseteq asked'
      /\ row'.claimed = row.claimed /\ row'.owner = row.owner /\ MoveInv'
  <2>1. CASE UNCHANGED records
    BY <2>1 DEF records, IInv, TypeOK, MoveInv
  <2>2. CASE /\ MayRecordMigration(Reported(h, "installed"))
             /\ record_migration(Reported(h, "installed"))
    <3>1. Reported(h, "installed") \in MigrationRecord
      BY <1>1, ReportedTypes
    <3> QED
      BY <2>2, <3>1, MigrationRecorded
  <2> QED
    BY <2>1, <2>2 DEF RecordInstalled
<1>3. UNCHANGED <<checkout, volume, agent, forge, file, spawning, naming, late>>
  BY DEF RecordInstalled, machines

<1>4. /\ accepting' \in [Hosts -> AcceptRecord]
      /\ \A q \in Hosts \ {h} : accepting'[q] = accepting[q]
      /\ \/ accepting'[h] = NoAccept
         \/ /\ accepting'[h].pc = "claim" /\ accepting'[h].task = accepting[h].task
            /\ accepting'[h].session = accepting[h].session
  <2>1. \/ accepting' = [accepting EXCEPT ![h].pc = "claim"]
        \/ accepting' = [accepting EXCEPT ![h] = NoAccept]
    BY DEF RecordInstalled, Abandon
  <2>2. accepting' \in [Hosts -> AcceptRecord]
    <3>1. [accepting EXCEPT ![h].pc = "claim"] \in [Hosts -> AcceptRecord]
      BY <1>1, AcceptTypes
    <3>2. [accepting EXCEPT ![h] = NoAccept] \in [Hosts -> AcceptRecord]
      BY <1>1
    <3> QED
      BY <2>1, <3>1, <3>2
  <2>3. CASE accepting' = [accepting EXCEPT ![h].pc = "claim"]
    BY <1>1, <2>2, <2>3, AcceptMoves
  <2>4. CASE accepting' = [accepting EXCEPT ![h] = NoAccept]
    BY <1>1, <2>2, <2>4, AcceptEnds
  <2> QED
    BY <2>1, <2>3, <2>4
<1>5. TypeOK'
  BY <1>2, <1>3, <1>4 DEF IInv, TypeOK
<1>6. OnTask(checkout[h]) \/ accepting'[h].pc = "idle"
  BY <1>1, <1>4 DEF IInv, PlaceInv
<1>7. ClaimInv' /\ PlaceInv'
  BY <1>1, <1>2, <1>3, <1>4, <1>6, Recorded
<1>8. AcceptInv'
  BY <1>1, <1>4 DEF IInv, AcceptInv
<1> QED
  BY <1>2, <1>5, <1>7, <1>8 DEF IInv

LEMMA Step_PublishAccepted ==
  ASSUME IInv, NEW h \in Hosts, PublishAccepted(h)
  PROVE  IInv'

<1>1. /\ accepting \in [Hosts -> AcceptRecord] /\ NoAccept \in AcceptRecord
      /\ NoAccept.pc = "idle" /\ accepting[h].pc = "publish"
  BY PlaceTypes DEF IInv, TypeOK, NoAccept, PublishAccepted
<1>2. /\ row' \in TaskRow /\ asked' \subseteq Hosts /\ asked \subseteq asked'
      /\ row'.claimed = row.claimed /\ row'.owner = row.owner /\ MoveInv'
  <2>1. CASE UNCHANGED records
    BY <2>1 DEF records, IInv, TypeOK, MoveInv
  <2>2. CASE /\ MayRecordMigration(Reported(h, "accepted"))
             /\ record_migration(Reported(h, "accepted"))
    <3>1. Reported(h, "accepted") \in MigrationRecord
      BY <1>1, ReportedTypes
    <3> QED
      BY <2>2, <3>1, MigrationRecorded
  <2> QED
    BY <2>1, <2>2 DEF PublishAccepted
<1>3. UNCHANGED <<checkout, volume, agent, forge, file, spawning, naming, late>>
  BY DEF PublishAccepted, machines

<1>4. /\ accepting' \in [Hosts -> AcceptRecord]
      /\ \A q \in Hosts \ {h} : accepting'[q] = accepting[q]
      /\ accepting'[h] = NoAccept
  BY <1>1, AcceptTypes DEF PublishAccepted, Abandon
<1>5. TypeOK'
  BY <1>2, <1>3, <1>4 DEF IInv, TypeOK
<1>6. OnTask(checkout[h]) \/ accepting'[h].pc = "idle"
  BY <1>1, <1>4 DEF IInv, PlaceInv
<1>7. ClaimInv' /\ PlaceInv'
  BY <1>1, <1>2, <1>3, <1>4, <1>6, Recorded
<1>8. AcceptInv'
  BY <1>1, <1>4 DEF IInv, AcceptInv
<1> QED
  BY <1>2, <1>5, <1>7, <1>8 DEF IInv

LEMMA Step_ClaimMoved ==
  ASSUME IInv, NEW h \in Hosts, ClaimMoved(h)
  PROVE  IInv'

<1>1. /\ accepting \in [Hosts -> AcceptRecord] /\ NoAccept \in AcceptRecord
      /\ NoAccept.pc = "idle" /\ accepting[h].pc = "claim"
      /\ row \in TaskRow /\ OnTask(checkout[h])
  BY PlaceTypes DEF IInv, TypeOK, PlaceInv, NoAccept, ClaimMoved
<1>2. UNCHANGED <<checkout, volume, agent, forge, file, spawning, naming, late, asked>>
  BY DEF ClaimMoved, machines
<1>3. row' = row \/ (MayClaim(h) /\ claim(h))
  BY DEF ClaimMoved
<1>4. /\ accepting' \in [Hosts -> AcceptRecord]
      /\ \A q \in Hosts \ {h} : accepting'[q] = accepting[q]
      /\ \/ accepting'[h] = NoAccept
         \/ /\ accepting'[h].pc = "provision" /\ accepting'[h].task = accepting[h].task
            /\ accepting'[h].session = accepting[h].session
  <2>1. \/ accepting' = [accepting EXCEPT ![h].pc = "provision"]
        \/ accepting' = [accepting EXCEPT ![h] = NoAccept]
    BY DEF ClaimMoved, Abandon
  <2>2. accepting' \in [Hosts -> AcceptRecord]
    <3>1. [accepting EXCEPT ![h].pc = "provision"] \in [Hosts -> AcceptRecord]
      BY <1>1, AcceptTypes
    <3>2. [accepting EXCEPT ![h] = NoAccept] \in [Hosts -> AcceptRecord]
      BY <1>1
    <3> QED
      BY <2>1, <3>1, <3>2
  <2>3. CASE accepting' = [accepting EXCEPT ![h].pc = "provision"]
    BY <1>1, <2>2, <2>3, AcceptMoves
  <2>4. CASE accepting' = [accepting EXCEPT ![h] = NoAccept]
    BY <1>1, <2>2, <2>4, AcceptEnds
  <2> QED
    BY <2>1, <2>3, <2>4
<1>5. AcceptInv'
  BY <1>1, <1>4 DEF IInv, AcceptInv
<1>6. \A q \in Hosts :
       /\ accepting'[q].pc \in {"record", "claim", "provision"} => OnTask(checkout[q])
       /\ accepting'[q].pc = "install" /\ accepting'[q].task.migration.workspace # "pending" =>
            (OnTask(accepting'[q].staged) => OnTask(checkout[q]))
  BY <1>1, <1>4 DEF IInv, PlaceInv
<1>7. CASE row' = row
  <2>1. TypeOK'
    BY <1>2, <1>4, <1>7 DEF IInv, TypeOK
  <2>2. ClaimInv' /\ MoveInv'
    BY <1>2, <1>7 DEF IInv, ClaimInv, MoveInv
  <2>3. PlaceInv'
    BY <1>2, <1>6, <1>7 DEF IInv, PlaceInv, OwnerHasBranch
  <2> QED
    BY <1>5, <2>1, <2>2, <2>3 DEF IInv
<1>8. CASE MayClaim(h) /\ claim(h)
  <2>1. /\ row' \in TaskRow /\ row'.claimed = h /\ row'.owner = row.owner
        /\ row'.migration = row.migration
        /\ row.owner \in {Nil, h} \/ h \in asked
        /\ \A q \in agent : q = h
        /\ \A q \in Hosts \ {h} : spawning[q].pc \notin {"prepare", "start"}
    BY <1>8, Claimed
  <2>2. TypeOK'
    BY <1>2, <1>4, <2>1 DEF IInv, TypeOK
  <2>3. ClaimInv'
    BY <1>2, <2>1 DEF IInv, ClaimInv
  <2>4. MoveInv'
    BY <1>2, <2>1 DEF IInv, MoveInv
  <2>5. PlaceInv'
    BY <1>1, <1>2, <1>6, <2>1 DEF IInv, PlaceInv, OwnerHasBranch
  <2> QED
    BY <1>5, <2>2, <2>3, <2>4, <2>5 DEF IInv
<1> QED
  BY <1>3, <1>7, <1>8

LEMMA Step_RecordMoved ==
  ASSUME IInv, NEW h \in Hosts, RecordMoved(h)
  PROVE  IInv'

<1>1. /\ accepting \in [Hosts -> AcceptRecord] /\ NoAccept \in AcceptRecord
      /\ NoAccept.pc = "idle" /\ accepting[h].pc = "provision"
      /\ row \in TaskRow /\ OnTask(checkout[h])
  BY PlaceTypes DEF IInv, TypeOK, PlaceInv, NoAccept, RecordMoved
<1>2. UNCHANGED <<checkout, volume, agent, forge, file, spawning, naming, late>>
  BY DEF RecordMoved, machines
<1>3. /\ row' \in TaskRow /\ asked' \subseteq Hosts /\ row'.claimed = row.claimed /\ MoveInv'
      /\ \/ row'.owner = row.owner /\ asked' = asked
         \/ row'.owner = h /\ row.claimed = h
  <2>1. CASE MayRecordProvisioning(h)
    <3>1. record_provisioning(h)
      BY <2>1 DEF RecordMoved
    <3> QED
      BY <2>1, <3>1, ProvisioningRecorded
  <2>2. CASE ~MayRecordProvisioning(h)
    BY <2>2 DEF RecordMoved, records, IInv, TypeOK, MoveInv
  <2> QED
    BY <2>1, <2>2
<1>4. /\ accepting' \in [Hosts -> AcceptRecord]
      /\ \A q \in Hosts \ {h} : accepting'[q] = accepting[q]
      /\ \/ accepting'[h] = NoAccept
         \/ /\ accepting'[h].pc = "publish" /\ accepting'[h].task = accepting[h].task
            /\ accepting'[h].session = accepting[h].session
  <2>1. \/ accepting' = [accepting EXCEPT ![h].pc = "publish"]
        \/ accepting' = [accepting EXCEPT ![h] = NoAccept]
    BY DEF RecordMoved, Abandon
  <2>2. accepting' \in [Hosts -> AcceptRecord]
    <3>1. [accepting EXCEPT ![h].pc = "publish"] \in [Hosts -> AcceptRecord]
      BY <1>1, AcceptTypes
    <3>2. [accepting EXCEPT ![h] = NoAccept] \in [Hosts -> AcceptRecord]
      BY <1>1
    <3> QED
      BY <2>1, <3>1, <3>2
  <2>3. CASE accepting' = [accepting EXCEPT ![h].pc = "publish"]
    BY <1>1, <2>2, <2>3, AcceptMoves
  <2>4. CASE accepting' = [accepting EXCEPT ![h] = NoAccept]
    BY <1>1, <2>2, <2>4, AcceptEnds
  <2> QED
    BY <2>1, <2>3, <2>4
<1>5. TypeOK'
  BY <1>2, <1>3, <1>4 DEF IInv, TypeOK
<1>6. ClaimInv'
  BY <1>2, <1>3 DEF IInv, ClaimInv
<1>7. PlaceInv'
  BY <1>1, <1>2, <1>3, <1>4 DEF IInv, PlaceInv, OwnerHasBranch
<1>8. AcceptInv'
  BY <1>1, <1>4 DEF IInv, AcceptInv
<1> QED
  BY <1>3, <1>5, <1>6, <1>7, <1>8 DEF IInv

-----------------------------------------------------------------------------
(* Every behaviour starts inside the invariant. *)
LEMMA InitIInv == Init => IInv
<1> SUFFICES ASSUME Init
             PROVE  IInv
  OBVIOUS
<1>1. NewRow \in TaskRow /\ row = NewRow
  BY DEF NewRow, TaskRow, Init
<1>2. Resting \in SpawnRecord /\ NoAccept \in AcceptRecord
  BY <1>1, PlaceTypes DEF Init
<1>3. TypeOK
  BY <1>1, <1>2 DEF Init, TypeOK
<1>4. ClaimInv /\ MoveInv /\ PlaceInv
  BY <1>1 DEF Init, NewRow, Resting, NoAccept, ClaimInv, MoveInv, PlaceInv, OwnerHasBranch
<1>5. AcceptInv
  BY DEF Init, NoAccept, AcceptInv
<1> QED
  BY <1>3, <1>4, <1>5 DEF IInv

(* Every step stays inside it. *)
LEMMA NextIInv == IInv /\ [Next]_vars => IInv'
<1> SUFFICES ASSUME IInv, [Next]_vars
             PROVE  IInv'
  OBVIOUS
<1>1. CASE UNCHANGED vars
  BY <1>1 DEF vars, IInv, TypeOK, ClaimInv, MoveInv, PlaceInv, OwnerHasBranch, AcceptInv
<1>2. CASE set_slug
  BY <1>2, Step_set_slug
<1>3. ASSUME NEW h \in Hosts, AgentWorks(h) \/ Push(h) \/ Stop(h) \/ release(h)
      PROVE  IInv'
  BY <1>3, Step_AgentWorks, Step_Push, Step_Stop, Step_release
<1>4. ASSUME NEW h \in Hosts, Consider(h) \/ Spawner(h)
      PROVE  IInv'
  BY <1>4, Step_Consider, Step_spawn_one, Step_prepare_task_dir, Step_spawn_container DEF Spawner
<1>5. ASSUME NEW h \in Hosts, Provisioner(h)
      PROVE  IInv'
  BY <1>5, Step_provision, Step_RecordBranch DEF Provisioner
<1>6. ASSUME NEW h \in Hosts, Accept(h) \/ Interrupted(h)
      PROVE  IInv'
  BY <1>6, Step_accept_workspace, Step_RecordInstalled, Step_ClaimMoved, Step_RecordMoved,
     Step_PublishAccepted, Step_Interrupted DEF Accept
<1>7. CASE Operator
  BY <1>7, Step_request_migration, Step_Export, Step_accept_migration, Step_RemoveOld DEF Operator
<1> QED
  BY <1>1, <1>2, <1>3, <1>4, <1>5, <1>6, <1>7 DEF Next

LEMMA Invariance == Spec => []IInv
  BY InitIInv, NextIInv, PTL DEF Spec

(* Every record, checkout and file has the shape the code gives it, for every *)
(* set of hosts.                                                              *)
THEOREM TypeCorrect == Spec => []TypeOK
<1>1. IInv => TypeOK
  BY DEF IInv
<1> QED
  BY <1>1, Invariance, PTL

(* The recorded owner has the task's branch checked out, however the spawner, *)
(* the provisioner, the accept commands and the interruptions interleave.     *)
THEOREM OwnerAlwaysHasBranch == Spec => []OwnerHasBranch
<1>1. IInv => OwnerHasBranch
  BY DEF IInv, PlaceInv
<1> QED
  BY <1>1, Invariance, PTL

-----------------------------------------------------------------------------
(* Towards Ownership: what each step is to the abstract machine. *)

(* A host that records a workspace adopts it, moves it where it was asked to  *)
(* go, or only says again what is known.                                      *)
LEMMA RecordedMaps ==
  ASSUME IInv, NEW h \in Hosts, MayRecordProvisioning(h), record_provisioning(h), agent' = agent
  PROVE  [O!Next]_(O!abstract)
<1>1. /\ row \in TaskRow /\ row'.owner = h /\ row.claimed = h /\ h # Nil
      /\ agent \subseteq {h}
  BY ProvisioningRecorded, HandoverAssumption DEF IInv, TypeOK, ClaimInv
<1>2. asked' = IF row.owner = h THEN asked ELSE {}
  BY DEF record_provisioning
<1>3. CASE row.owner = h
  BY <1>1, <1>2, <1>3 DEF O!abstract
<1>4. CASE row.owner = Nil
  <2>1. asked = {}
    BY <1>4 DEF IInv, MoveInv
  <2>2. O!Adopt(h)
    BY <1>1, <1>2, <1>4, <2>1 DEF O!Adopt
  <2> QED
    BY <2>2 DEF O!Next
<1>5. CASE row.owner \notin {Nil, h}
  <2>1. h \in asked
    BY <1>1, <1>5 DEF IInv, ClaimInv
  <2>2. O!Move(h)
    BY <1>1, <1>2, <1>5, <2>1 DEF O!Move
  <2> QED
    BY <2>2 DEF O!Next
<1> QED
  BY <1>3, <1>4, <1>5

(* A recorded move names its destination. *)
LEMMA NamedMaps ==
  ASSUME IInv, NEW m \in MigrationRecord, MayRecordMigration(m), record_migration(m),
         agent' = agent
  PROVE  [O!Next]_(O!abstract)
<1>1. /\ row'.owner = row.owner /\ row.owner # Nil /\ asked' = asked \cup {m.destination}
      /\ m.destination \in Hosts /\ m.destination # row.owner
  BY MigrationRecorded DEF MayRecordMigration, record_migration, MigrationRecord
<1>2. O!Name(m.destination)
  BY <1>1 DEF O!Name
<1> QED
  BY <1>1, <1>2 DEF O!Next

(* A claim, a slug and whatever happens on the hosts only are nothing to it.  *)
LEMMA QuietMaps ==
  ASSUME row'.owner = row.owner, asked' = asked, agent' = agent
  PROVE  [O!Next]_(O!abstract)
BY DEF O!abstract

(* Every step of the code's machine is a step, or nothing, to the abstract one. *)
LEMMA NextMaps == IInv /\ [Next]_vars => [O!Next]_(O!abstract)
<1> SUFFICES ASSUME IInv, [Next]_vars
             PROVE  [O!Next]_(O!abstract)
  OBVIOUS
<1>0. row \in TaskRow
  BY DEF IInv, TypeOK
<1>1. CASE UNCHANGED vars
  BY <1>1, QuietMaps DEF vars
<1>2. CASE set_slug
  BY <1>0, <1>2, QuietMaps DEF set_slug, TaskRow
<1>3. ASSUME NEW h \in Hosts, AgentWorks(h) \/ Push(h)
      PROVE  [O!Next]_(O!abstract)
  BY <1>3, QuietMaps DEF AgentWorks, Push, records, machines
<1>4. ASSUME NEW h \in Hosts, Stop(h)
      PROVE  [O!Next]_(O!abstract)
  BY <1>4 DEF Stop, records, O!Next, O!Stop
<1>5. ASSUME NEW h \in Hosts, release(h)
      PROVE  [O!Next]_(O!abstract)
  BY <1>0, <1>5, QuietMaps DEF release, machines, TaskRow
<1>6. ASSUME NEW h \in Hosts, Consider(h)
      PROVE  [O!Next]_(O!abstract)
  BY <1>6, QuietMaps DEF Consider, records, machines
<1>7. ASSUME NEW h \in Hosts, spawn_one(h)
      PROVE  [O!Next]_(O!abstract)
  BY <1>0, <1>7, QuietMaps DEF spawn_one, claim, machines, TaskRow
<1>8. ASSUME NEW h \in Hosts, _prepare_task_dir(h)
      PROVE  [O!Next]_(O!abstract)
  <2>1. agent' = agent
    BY <1>8 DEF _prepare_task_dir
  <2>2. UNCHANGED records \/ (MayRecordProvisioning(h) /\ record_provisioning(h))
    BY <1>8 DEF _prepare_task_dir, Inherits
  <2> QED
    BY <2>1, <2>2, RecordedMaps, QuietMaps DEF records
<1>9. ASSUME NEW h \in Hosts, _spawn_container(h)
      PROVE  [O!Next]_(O!abstract)
  <2>1. row.claimed = h /\ h # Nil
    BY <1>9, HandoverAssumption DEF IInv, ClaimInv, _spawn_container
  <2>2. agent \subseteq {h} /\ (row.owner \in {Nil, h} \/ h \in asked)
    BY <2>1 DEF IInv, ClaimInv
  <2>3. UNCHANGED <<row, asked>> /\ agent' = agent \cup {h}
    BY <1>9 DEF _spawn_container, records
  <2>4. O!Start(h)
    BY <2>2, <2>3 DEF O!Start
  <2> QED
    BY <2>4 DEF O!Next
<1>10. ASSUME NEW h \in Hosts, Provisioner(h)
       PROVE  [O!Next]_(O!abstract)
  <2>1. CASE provision(h)
    BY <2>1, QuietMaps DEF provision, records
  <2>2. CASE RecordBranch(h)
    <3>1. agent' = agent
      BY <2>2 DEF RecordBranch, machines
    <3>2. UNCHANGED records \/ (MayRecordProvisioning(h) /\ record_provisioning(h))
      BY <2>2 DEF RecordBranch
    <3> QED
      BY <3>1, <3>2, RecordedMaps, QuietMaps DEF records
  <2> QED
    BY <1>10, <2>1, <2>2 DEF Provisioner
<1>11. ASSUME NEW h \in Hosts, Accept(h) \/ Interrupted(h)
       PROVE  [O!Next]_(O!abstract)
  <2>1. agent' = agent
    BY <1>11 DEF Accept, accept_workspace, RecordInstalled, ClaimMoved, RecordMoved,
                 PublishAccepted, Interrupted, machines
  <2>2. CASE accept_workspace(h) \/ Interrupted(h)
    BY <2>1, <2>2, QuietMaps DEF accept_workspace, Interrupted, records
  <2>3. CASE RecordInstalled(h)
    <3>1. Reported(h, "installed") \in MigrationRecord
      BY <2>3, ReportedTypes DEF RecordInstalled
    <3>2. \/ UNCHANGED records
          \/ /\ MayRecordMigration(Reported(h, "installed"))
             /\ record_migration(Reported(h, "installed"))
      BY <2>3 DEF RecordInstalled
    <3> QED
      BY <2>1, <3>1, <3>2, NamedMaps, QuietMaps DEF records
  <2>4. CASE ClaimMoved(h)
    BY <1>0, <2>1, <2>4, QuietMaps DEF ClaimMoved, claim, TaskRow
  <2>5. CASE RecordMoved(h)
    <3>1. UNCHANGED records \/ (MayRecordProvisioning(h) /\ record_provisioning(h))
      BY <2>5 DEF RecordMoved
    <3> QED
      BY <2>1, <3>1, RecordedMaps, QuietMaps DEF records
  <2>6. CASE PublishAccepted(h)
    <3>1. Reported(h, "accepted") \in MigrationRecord
      BY <2>6, ReportedTypes DEF PublishAccepted
    <3>2. \/ UNCHANGED records
          \/ /\ MayRecordMigration(Reported(h, "accepted"))
             /\ record_migration(Reported(h, "accepted"))
      BY <2>6 DEF PublishAccepted
    <3> QED
      BY <2>1, <3>1, <3>2, NamedMaps, QuietMaps DEF records
  <2> QED
    BY <1>11, <2>2, <2>3, <2>4, <2>5, <2>6 DEF Accept
<1>12. CASE Operator
  <2>1. ASSUME NEW d \in Hosts, NEW method \in Methods, NEW transfer \in BOOLEAN,
               NEW discard \in BOOLEAN, request_migration(d, method, transfer, discard)
        PROVE  [O!Next]_(O!abstract)
    <3> DEFINE m == Migration(row.owner, d, "pending", method,
                              IF transfer THEN "requested" ELSE "omitted", discard)
    <3>1. row.owner \in Hosts
      BY <1>0, <2>1 DEF TaskRow, request_migration
    <3>2. m \in MigrationRecord
      BY <3>1, MigrationTypes
    <3>3. MayRecordMigration(m) /\ record_migration(m) /\ agent' = agent
      BY <2>1 DEF request_migration, machines
    <3> HIDE DEF m
    <3> QED
      BY <3>2, <3>3, NamedMaps
  <2>2. CASE Export
    BY <2>2, QuietMaps DEF Export, records, machines
  <2>3. ASSUME NEW d \in Hosts, accept_migration(d) \/ RemoveOld(d)
        PROVE  [O!Next]_(O!abstract)
    BY <2>3, QuietMaps DEF accept_migration, RemoveOld, records, machines
  <2> QED
    BY <1>12, <2>1, <2>2, <2>3 DEF Operator
<1> QED
  BY <1>1, <1>2, <1>3, <1>4, <1>5, <1>6, <1>7, <1>8, <1>9, <1>10, <1>11, <1>12
     DEF Next, Spawner

(* The spawner, the provisioner and the migration commands implement          *)
(* WorkspaceOwner: at every moment one owner and at most one agent, and no    *)
(* move but to a host the workspace was asked to go to.                       *)
THEOREM Refinement == Spec => Ownership
<1>1. Init => O!Init
  BY DEF Init, NewRow, O!Init
<1>2. IInv /\ [Next]_vars => [O!Next]_(O!abstract)
  BY NextMaps
<1> QED
  BY <1>1, <1>2, Invariance, PTL DEF Spec, Ownership, O!Spec

-----------------------------------------------------------------------------
(* The fleet *)

Facts == INSTANCE RunnerFleetProofs WITH
  Tasks <- {t1}, MaxRespawns <- 2,
  Allowance <- [d \in {"session", "container", "docker", "reboot", "agent", "other", "build",
                       "slow", "rest", "service", "flicker", "host", "hold", "release", "retry",
                       "finish", "revive"} |-> IF d \in Struck THEN 1 ELSE 0]

(* The instance meets what RunnerFleet assumes of its constants.              *)
LEMMA FleetIsAFleet ==
  /\ Nil \notin Hosts \cup Facts!Phases
  /\ 2 \in Nat \ {0}
  /\ [d \in {"session", "container", "docker", "reboot", "agent", "other", "build",
             "slow", "rest", "service", "flicker", "host", "hold", "release", "retry",
             "finish", "revive"} |-> IF d \in Struck THEN 1 ELSE 0]
       \in [Facts!Disturbances -> Nat]
<1>1. Nil \notin Hosts \cup Facts!Phases
  BY HandoverAssumption, HostsAssumption DEF Facts!Phases
<1>2. {"session", "container", "docker", "reboot", "agent", "other", "build", "slow", "rest",
       "service", "flicker", "host", "hold", "release", "retry", "finish", "revive"}
         = Facts!Disturbances
  BY DEF Facts!Disturbances
<1> QED
  BY <1>1, <1>2

(* The fleet of the run is that of the proofs.                                *)
LEMMA SameFleet == (Fleet!Init <=> Facts!Init) /\ (Fleet!Next <=> Facts!Next)
<1>1. Fleet!Init <=> Facts!Init
  BY DEF Fleet!Init, Facts!Init, Fleet!Idle, Facts!Idle, Fleet!NoView, Facts!NoView,
     Fleet!Disturbances, Facts!Disturbances
<1>2. Fleet!Next <=> Facts!Next
  BY DEF
     Fleet!service, Facts!service, Fleet!budget, Facts!budget, Fleet!machine, Facts!machine,
     Fleet!Strike, Facts!Strike, Fleet!compose_container_status,
     Facts!compose_container_status, Fleet!View, Facts!View, Fleet!Reported, Facts!Reported,
     Fleet!Released, Facts!Released, Fleet!NoView, Facts!NoView, Fleet!Idle, Facts!Idle,
     Fleet!After, Facts!After, Fleet!Done, Facts!Done, Fleet!Goto, Facts!Goto, Fleet!Facing,
     Facts!Facing, Fleet!Mine, Facts!Mine, Fleet!Open, Facts!Open, Fleet!At, Facts!At,
     Fleet!Stamped, Facts!Stamped, Fleet!is_orphan, Facts!is_orphan, Fleet!respawn_count,
     Facts!respawn_count, Fleet!Poll, Facts!Poll, Fleet!Reclaim, Facts!Reclaim,
     Fleet!mark_healing, Facts!mark_healing, Fleet!CanClaim, Facts!CanClaim, Fleet!spawn_one,
     Facts!spawn_one, Fleet!reconcile, Facts!reconcile, Fleet!MayRespawn, Facts!MayRespawn,
     Fleet!Deferred, Facts!Deferred, Fleet!heal, Facts!heal, Fleet!Announce, Facts!Announce,
     Fleet!Outlasted, Facts!Outlasted, Fleet!HoldLaunch, Facts!HoldLaunch, Fleet!FailLaunch, Facts!FailLaunch, Fleet!InfraFail,
     Facts!InfraFail, Fleet!StartBackend, Facts!StartBackend, Fleet!StopLive, Facts!StopLive,
     Fleet!ReleaseLingering, Facts!ReleaseLingering, Fleet!cleanup, Facts!cleanup,
     Fleet!PassOver, Facts!PassOver, Fleet!Link, Facts!Link, Fleet!AgentFails,
     Facts!AgentFails, Fleet!SessionDies, Facts!SessionDies, Fleet!ContainerDies,
     Facts!ContainerDies, Fleet!Gone, Facts!Gone, Fleet!DockerStops, Facts!DockerStops,
     Fleet!DockerReturns, Facts!DockerReturns, Fleet!Fresh, Facts!Fresh, Fleet!HostRestarts,
     Facts!HostRestarts, Fleet!Reboots, Facts!Reboots, Fleet!GoOnline, Facts!GoOnline,
     Fleet!Flickers, Facts!Flickers, Fleet!ServiceRestarts, Facts!ServiceRestarts,
     Fleet!release, Facts!release, Fleet!reclaim, Facts!reclaim, Fleet!retry_task,
     Facts!retry_task, Fleet!Finish, Facts!Finish, Fleet!Revive, Facts!Revive, Fleet!Survive,
     Facts!Survive, Fleet!Lapse, Facts!Lapse, Fleet!HostStep, Facts!HostStep,
     Fleet!Environment, Facts!Environment, Fleet!Next, Facts!Next
<1> QED
  BY <1>1, <1>2

(* So the run behaves as a fleet does, or leaves it alone.                    *)
LEMMA FleetSpec == HostsSpec => Facts!Spec
<1>1. HostsInit => Facts!Init
  BY SameFleet DEF HostsInit
<1>2. [HostsNext]_<<part, workspaceVars, fleetVars>> => [Facts!Next]_(Facts!vars)
  BY SameFleet
  DEF HostsNext, fleetVars, Facts!vars, Facts!service, Facts!budget, Facts!machine
<1> QED
  BY <1>1, <1>2, PTL DEF HostsSpec, Facts!Spec

(* Nobody interferes with a claim in this fleet, and no stream drops.         *)
LEMMA QuietFleet == Facts!ClaimsLeftAlone /\ Facts!StreamsStayOpen
BY DEF Facts!ClaimsLeftAlone, Facts!StreamsStayOpen, Struck

(* A task runs on one host at most, whatever dies meanwhile, on any number of *)
(* hosts (spawn_one, heal and cleanup of spawner.py behind the service's      *)
(* compare-and-set on the claim).                                             *)
THEOREM FleetRunsOnce == HostsSpec => []OneHostRuns
<1>1. Facts!Spec => [](Facts!RunsUnderClaim /\ Facts!OneHostRuns)
  BY Facts!RunsAlone, FleetIsAFleet, QuietFleet
<1>2. Facts!OneHostRuns => OneHostRuns
  BY DEF Facts!OneHostRuns, OneHostRuns, Fleet!OneHostRuns
<1> QED
  BY FleetSpec, <1>1, <1>2, PTL

(* No pass takes a claim from another host.                                   *)
THEOREM FleetKeepsClaims == HostsSpec => OthersClaimsStand
<1>1. Facts!Spec => Facts!OthersClaimsStand
  BY Facts!OthersKeepClaims, FleetIsAFleet, QuietFleet
<1>2. Facts!OthersClaimsStand <=> OthersClaimsStand
  BY DEF Facts!OthersClaimsStand, OthersClaimsStand, Fleet!OthersClaimsStand,
    Facts!vars, Fleet!vars, Facts!service, Fleet!service, Facts!budget, Fleet!budget,
    Facts!machine, Fleet!machine
<1> QED
  BY FleetSpec, <1>1, <1>2

(* A failure that a daemon's snapshot shows stays for the operator.           *)
THEOREM FleetKeepsFailures == HostsSpec => FailureSeenStands
<1>1. Facts!Spec => Facts!FailureSeenStands
  BY Facts!FailuresStand, FleetIsAFleet, QuietFleet
<1>2. Facts!FailureSeenStands <=> FailureSeenStands
  BY DEF Facts!FailureSeenStands, FailureSeenStands, Fleet!FailureSeenStands,
    Facts!Mine, Fleet!Mine, Facts!Open, Fleet!Open,
    Facts!vars, Fleet!vars, Facts!service, Fleet!service, Facts!budget, Fleet!budget,
    Facts!machine, Fleet!machine
<1> QED
  BY FleetSpec, <1>1, <1>2
=============================================================================

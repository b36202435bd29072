------------------------- MODULE RunnerFleetProofs -------------------------
(* What is proved of RunnerFleet for every set of tasks and hosts, every      *)
(* respawn limit and every number of disturbances: the types; that crash      *)
(* loops are capped; of a host on its own, that outages refill no budget;     *)
(* while no daemon is replaced and no operator lets go of a claim, that a     *)
(* task runs on one host only; while nobody reopens a task, that no open one  *)
(* loses its checkout; while no stream drops, that a failure seen stands.     *)
EXTENDS RunnerFleet, TLAPS

-----------------------------------------------------------------------------
(* Types *)

(* What the service shows of a task is well typed. *)
LEMMA ViewType ==
  ASSUME TypeOK, NEW t \in Tasks
  PROVE  View(t) \in TaskView
<1>1. task[t] \in TaskRecord
  BY DEF TypeOK
<1>2. compose_container_status(t) \in Statuses
  BY <1>1 DEF compose_container_status, TaskRecord, Statuses, Phases
<1> QED
  BY <1>1, <1>2 DEF View, TaskView, TaskRecord

(* A daemon's next place in its pass is one. *)
LEMMA PassType ==
  ASSUME TypeOK, NEW h \in Hosts, NEW t \in Tasks
  PROVE  /\ After(h, t) \in HostRecord
         /\ \A pc \in {"heal", "launch", "start"} :
              [host[h] EXCEPT !.pc = pc, !.at = t] \in HostRecord
         /\ Idle \in HostRecord
         /\ [Idle EXCEPT !.startup = TRUE] \in HostRecord
<1>1. host[h] \in HostRecord
  BY DEF TypeOK
<1>2. NoView \in TaskView
  BY DEF NoView, TaskView, Statuses
<1>3. Idle \in HostRecord /\ [Idle EXCEPT !.startup = TRUE] \in HostRecord
  BY <1>2 DEF Idle, HostRecord
<1>4. host[h].todo \ {t} \in SUBSET Tasks /\ host[h].todo \in SUBSET Tasks
  BY <1>1 DEF HostRecord
<1>5. After(h, t) \in HostRecord
  BY <1>1, <1>3, <1>4 DEF After, HostRecord
<1> QED
  BY <1>1, <1>3, <1>5 DEF HostRecord

(* Which daemon moves, and where to. *)
LEMMA MoveType ==
  ASSUME TypeOK, NEW h \in Hosts, NEW t \in Tasks,
         Done(h, t) \/ Goto(h, t, "heal") \/ Goto(h, t, "launch") \/ Goto(h, t, "start")
  PROVE  host' \in [Hosts -> HostRecord]
<1>1. host \in [Hosts -> HostRecord]
  BY DEF TypeOK
<1>2. PICK x \in HostRecord : host' = [host EXCEPT ![h] = x]
  <2>1. CASE Done(h, t)
    BY <2>1, PassType DEF Done
  <2>2. ASSUME NEW pc \in {"heal", "launch", "start"}, Goto(h, t, pc)
        PROVE  \E x \in HostRecord : host' = [host EXCEPT ![h] = x]
    <3>1. [host[h] EXCEPT !.pc = pc, !.at = t] \in HostRecord
      BY PassType
    <3>2. host' = [host EXCEPT ![h] = [host[h] EXCEPT !.pc = pc, !.at = t]]
      BY <2>2, <1>1 DEF Goto
    <3> QED
      BY <3>1, <3>2
  <2> QED
    BY <2>1, <2>2
<1> QED
  BY <1>1, <1>2

(* The record of a task after a report, a release or another update of one    *)
(* field.                                                                     *)
LEMMA RecordType ==
  ASSUME TypeOK, NEW t \in Tasks
  PROVE  /\ \A p \in Phases \cup {Nil} : Reported(t, p) \in [Tasks -> TaskRecord]
         /\ Released(t) \in [Tasks -> TaskRecord]
         /\ \A h \in Hosts :
              [task EXCEPT ![t].claimed = h, ![t].phase = Nil] \in [Tasks -> TaskRecord]
         /\ [task EXCEPT ![t].paused = TRUE, ![t].phase = "failed"] \in [Tasks -> TaskRecord]
         /\ [task EXCEPT ![t].paused = FALSE, ![t].claimed = Nil, ![t].phase = Nil]
              \in [Tasks -> TaskRecord]
         /\ [task EXCEPT ![t].stage = "finished"] \in [Tasks -> TaskRecord]
         /\ [task EXCEPT ![t].stage = "open"] \in [Tasks -> TaskRecord]
<1>1. task \in [Tasks -> TaskRecord] /\ task[t] \in TaskRecord
  BY DEF TypeOK
<1>2. /\ \A p \in Phases \cup {Nil} : [task[t] EXCEPT !.phase = p] \in TaskRecord
      /\ \A h \in Hosts \cup {Nil} : [task[t] EXCEPT !.claimed = h, !.phase = Nil] \in TaskRecord
      /\ [task[t] EXCEPT !.paused = TRUE, !.phase = "failed"] \in TaskRecord
      /\ [task[t] EXCEPT !.paused = FALSE, !.claimed = Nil, !.phase = Nil] \in TaskRecord
      /\ [task[t] EXCEPT !.stage = "finished"] \in TaskRecord
      /\ [task[t] EXCEPT !.stage = "open"] \in TaskRecord
  BY <1>1 DEF TaskRecord, Phases
<1>3. \A x \in TaskRecord : [task EXCEPT ![t] = x] \in [Tasks -> TaskRecord]
  BY <1>1
<1>4. \A p \in Phases \cup {Nil} : Reported(t, p) \in [Tasks -> TaskRecord]
  BY <1>1, <1>2, <1>3 DEF Reported
<1>5. Released(t) \in [Tasks -> TaskRecord]
  BY <1>1, <1>2, <1>3 DEF Released
<1> QED
  BY <1>1, <1>2, <1>3, <1>4, <1>5

(* What is counted and kept per host and task. *)
LEMMA BudgetType ==
  ASSUME TypeOK, NEW h \in Hosts, NEW t \in Tasks
  PROVE  /\ respawn_count(h, t) \in 0 .. MaxRespawns
         /\ \A n \in 0 .. MaxRespawns :
              [respawns EXCEPT ![h][t] = n] \in [Hosts -> [Tasks -> 0 .. MaxRespawns]]
         /\ \A n \in 0 .. MaxRespawns + 1 :
              [tries EXCEPT ![h][t] = n] \in [Hosts -> [Tasks -> 0 .. MaxRespawns + 1]]
         /\ \A w \in {"fresh", "survived", "lapsed"} :
              [window EXCEPT ![h][t] = w]
                \in [Hosts -> [Tasks -> {"fresh", "alive", "polled", "ripe", "survived", "lapsed"}]]
         /\ Stamped(h, t)
              \in [Hosts -> [Tasks -> {"fresh", "alive", "polled", "ripe", "survived", "lapsed"}]]
         /\ [preSession EXCEPT ![h] = @ \ {t}] \in [Hosts -> SUBSET Tasks]
         /\ [preSession EXCEPT ![h] = @ \cup {t}] \in [Hosts -> SUBSET Tasks]
         /\ Outlasted(h, t) \in [Hosts -> [Tasks -> 0 .. MaxRespawns + 1]]
<1> USE DEF TypeOK
<1>1. MaxRespawns \in Nat
  BY FleetAssumption
<1>2. respawns[h] \in [Tasks -> 0 .. MaxRespawns] /\ respawns[h][t] \in 0 .. MaxRespawns
  OBVIOUS
<1>3. respawn_count(h, t) \in 0 .. MaxRespawns
  BY <1>1, <1>2 DEF respawn_count
<1>4. ASSUME NEW n \in 0 .. MaxRespawns
      PROVE  [respawns EXCEPT ![h][t] = n] \in [Hosts -> [Tasks -> 0 .. MaxRespawns]]
  <2>1. [respawns[h] EXCEPT ![t] = n] \in [Tasks -> 0 .. MaxRespawns]
    BY <1>2
  <2> QED
    BY <2>1
<1>5. ASSUME NEW n \in 0 .. MaxRespawns + 1
      PROVE  [tries EXCEPT ![h][t] = n] \in [Hosts -> [Tasks -> 0 .. MaxRespawns + 1]]
  <2>1. [tries[h] EXCEPT ![t] = n] \in [Tasks -> 0 .. MaxRespawns + 1]
    OBVIOUS
  <2> QED
    BY <2>1
<1>6. ASSUME NEW w \in {"fresh", "survived", "lapsed"}
      PROVE  [window EXCEPT ![h][t] = w]
               \in [Hosts -> [Tasks -> {"fresh", "alive", "polled", "ripe", "survived", "lapsed"}]]
  <2>1. [window[h] EXCEPT ![t] = w]
          \in [Tasks -> {"fresh", "alive", "polled", "ripe", "survived", "lapsed"}]
    OBVIOUS
  <2> QED
    BY <2>1
<1>7. /\ [preSession EXCEPT ![h] = @ \ {t}] \in [Hosts -> SUBSET Tasks]
      /\ [preSession EXCEPT ![h] = @ \cup {t}] \in [Hosts -> SUBSET Tasks]
  OBVIOUS
<1>8. Outlasted(h, t) \in [Hosts -> [Tasks -> 0 .. MaxRespawns + 1]]
  <2>1. 0 \in 0 .. MaxRespawns + 1
    BY <1>1
  <2> QED
    BY <1>5, <2>1 DEF Outlasted
<1> QED
  BY <1>3, <1>4, <1>5, <1>6, <1>7, <1>8 DEF Stamped

(* A disturbance that strikes is counted. *)
LEMMA StrikeType ==
  ASSUME TypeOK, NEW d \in Disturbances, Strike(d)
  PROVE  /\ spent' \in [Disturbances -> Nat]
         /\ Allowance[d] # 0
<1>1. spent[d] \in Nat /\ Allowance[d] \in Nat
  BY FleetAssumption DEF TypeOK
<1> QED
  BY <1>1 DEF Strike, TypeOK

(* A host's machine after one of its containers or sessions comes or goes.    *)
LEMMA MachineType ==
  ASSUME TypeOK, NEW h \in Hosts, NEW t \in Tasks
  PROVE  /\ [running EXCEPT ![h] = @ \cup {t}] \in [Hosts -> SUBSET Tasks]
         /\ [running EXCEPT ![h] = @ \ {t}] \in [Hosts -> SUBSET Tasks]
         /\ [session EXCEPT ![h] = @ \cup {t}] \in [Hosts -> SUBSET Tasks]
         /\ [session EXCEPT ![h] = @ \ {t}] \in [Hosts -> SUBSET Tasks]
         /\ [workspace EXCEPT ![h] = @ \cup {t}] \in [Hosts -> SUBSET Tasks]
         /\ [workspace EXCEPT ![h] = @ \ {t}] \in [Hosts -> SUBSET Tasks]
         /\ [linked EXCEPT ![t] = @ \cup {h}] \in [Tasks -> SUBSET Hosts]
         /\ [linked EXCEPT ![t] = @ \ {h}] \in [Tasks -> SUBSET Hosts]
         /\ Gone(h) => /\ running' \in [Hosts -> SUBSET Tasks]
                       /\ session' \in [Hosts -> SUBSET Tasks]
                       /\ linked' \in [Tasks -> SUBSET Hosts]
<1>1. /\ running \in [Hosts -> SUBSET Tasks] /\ session \in [Hosts -> SUBSET Tasks]
      /\ workspace \in [Hosts -> SUBSET Tasks] /\ linked \in [Tasks -> SUBSET Hosts]
  BY DEF TypeOK
<1>2. \A f \in [Hosts -> SUBSET Tasks] : /\ [f EXCEPT ![h] = @ \cup {t}] \in [Hosts -> SUBSET Tasks]
                                        /\ [f EXCEPT ![h] = @ \ {t}] \in [Hosts -> SUBSET Tasks]
                                        /\ [f EXCEPT ![h] = {}] \in [Hosts -> SUBSET Tasks]
  OBVIOUS
<1>3. \A f \in [Tasks -> SUBSET Hosts] : /\ [f EXCEPT ![t] = @ \cup {h}] \in [Tasks -> SUBSET Hosts]
                                        /\ [f EXCEPT ![t] = @ \ {h}] \in [Tasks -> SUBSET Hosts]
  OBVIOUS
<1>4. [x \in Tasks |-> linked[x] \ {h}] \in [Tasks -> SUBSET Hosts]
  BY <1>1
<1> QED
  BY <1>1, <1>2, <1>3, <1>4 DEF Gone

(* The steps of a daemon keep the types. *)
LEMMA HostTypeStep ==
  ASSUME TypeOK, NEW h \in Hosts, HostStep(h)
  PROVE  TypeOK'
<1> USE DEF service, budget, machine
<1>1. CASE Poll(h)
  <2>1. [t \in Tasks |-> View(t)] \in [Tasks -> TaskView]
    BY ViewType
  <2>2. [pc |-> IF host[h].startup THEN "reclaim" ELSE "mark", todo |-> Tasks, at |-> Nil,
         snap |-> [t \in Tasks |-> View(t)], startup |-> FALSE] \in HostRecord
    BY <2>1 DEF HostRecord
  <2>3. host' \in [Hosts -> HostRecord]
    BY <1>1, <2>2 DEF Poll, TypeOK
  <2>4. window' \in [Hosts -> [Tasks -> {"fresh", "alive", "polled", "ripe", "survived", "lapsed"}]]
    <3> DEFINE W == {"fresh", "alive", "polled", "ripe", "survived", "lapsed"}
               n == [t \in Tasks |->
                       IF respawns[h][t] = 0 \/ window[h][t] \in {"survived", "lapsed"} THEN window[h][t]
                       ELSE IF t \in session[h] THEN "alive"
                       ELSE IF window[h][t] = "polled" THEN "ripe" ELSE "polled"]
    <3>1. n \in [Tasks -> W]
      <4>1. ASSUME NEW t \in Tasks PROVE n[t] \in W
        <5>1. window[h][t] \in W
          BY DEF TypeOK
        <5> QED
          BY <5>1
      <4> QED
        BY <4>1
    <3>2. window' = [window EXCEPT ![h] = n]
      BY <1>1 DEF Poll, TypeOK
    <3> HIDE DEF n
    <3> QED
      BY <3>1, <3>2 DEF TypeOK
  <2> QED
    BY <1>1, <2>3, <2>4 DEF Poll, TypeOK
<1>2. /\ task \in [Tasks -> TaskRecord]
      /\ \A t \in Tasks : /\ Released(t) \in [Tasks -> TaskRecord]
                          /\ Reported(t, Nil) \in [Tasks -> TaskRecord]
                          /\ Reported(t, "healing") \in [Tasks -> TaskRecord]
                          /\ Reported(t, "inflight") \in [Tasks -> TaskRecord]
                          /\ Reported(t, "failed") \in [Tasks -> TaskRecord]
  <2>1. {"healing", "inflight", "failed", Nil} \subseteq Phases \cup {Nil}
    BY DEF Phases
  <2>2. task \in [Tasks -> TaskRecord]
    BY DEF TypeOK
  <2> QED
    BY <2>1, <2>2, RecordType
<1>3. ASSUME NEW t \in Tasks,
             \/ Reclaim(h, t) \/ mark_healing(h, t)
             \/ spawn_one(h, t) \/ reconcile(h, t) \/ heal(h, t) \/ cleanup(h, t) \/ PassOver(h, t)
             \/ Announce(h, t) \/ StartBackend(h, t)
             \/ HoldLaunch(h, t) \/ FailLaunch(h, t) \/ InfraFail(h, t)
      PROVE  TypeOK'
  <2>1. CASE Reclaim(h, t)
    <3>1. host' \in [Hosts -> HostRecord]
      BY <2>1, MoveType DEF Reclaim
    <3>2. task' \in [Tasks -> TaskRecord]
      BY <2>1, <1>2 DEF Reclaim
    <3> QED
      BY <2>1, <3>1, <3>2 DEF Reclaim, TypeOK
  <2>2. CASE mark_healing(h, t)
    <3>1. task' \in [Tasks -> TaskRecord]
      BY <2>2, <1>2 DEF mark_healing
    <3>2. host' \in [Hosts -> HostRecord]
      BY <2>2, MoveType DEF mark_healing
    <3> QED
      BY <2>2, <3>1, <3>2 DEF mark_healing, TypeOK
  <2>3. CASE spawn_one(h, t)
    <3>1. host' \in [Hosts -> HostRecord]
      BY <2>3, MoveType DEF spawn_one
    <3>2. CASE h \in docker /\ CanClaim(h, t)
      <4>1. 0 \in 0 .. MaxRespawns /\ 0 \in 0 .. MaxRespawns + 1
        BY FleetAssumption
      <4>4. /\ task' = [task EXCEPT ![t].claimed = h, ![t].phase = Nil]
            /\ respawns' = [respawns EXCEPT ![h][t] = 0]
            /\ window' = Stamped(h, t)
            /\ preSession' = [preSession EXCEPT ![h] = @ \ {t}]
            /\ tries' = [tries EXCEPT ![h][t] = 0]
        BY <2>3, <3>2 DEF spawn_one
      <4>2. /\ respawns' \in [Hosts -> [Tasks -> 0 .. MaxRespawns]]
            /\ tries' \in [Hosts -> [Tasks -> 0 .. MaxRespawns + 1]]
            /\ window' \in [Hosts -> [Tasks -> {"fresh", "alive", "polled", "ripe", "survived", "lapsed"}]]
            /\ preSession' \in [Hosts -> SUBSET Tasks]
        BY <4>1, <4>4, BudgetType, Zenon
      <4>3. task' \in [Tasks -> TaskRecord]
        BY <4>4, RecordType, Zenon
      <4> QED
        BY <2>3, <3>1, <4>2, <4>3 DEF spawn_one, TypeOK
    <3>3. CASE ~(h \in docker /\ CanClaim(h, t))
      BY <2>3, <3>1, <3>3 DEF spawn_one, TypeOK
    <3> QED
      BY <3>2, <3>3
  <2>4. CASE reconcile(h, t)
    <3>1. host' \in [Hosts -> HostRecord]
      BY <2>4, MoveType DEF reconcile
    <3>2. task' \in [Tasks -> TaskRecord]
      BY <2>4, <1>2 DEF reconcile
    <3> QED
      BY <2>4, <3>1, <3>2 DEF reconcile, TypeOK
  <2>5. CASE heal(h, t)
    <3>1. host' \in [Hosts -> HostRecord]
      BY <2>5, MoveType DEF heal
    <3>2. window' \in [Hosts -> [Tasks -> {"fresh", "alive", "polled", "ripe", "survived", "lapsed"}]]
      BY <2>5, BudgetType DEF heal, TypeOK
    <3>3. CASE MayRespawn(h, t)
      <4>1. respawn_count(h, t) + 1 \in 0 .. MaxRespawns
        BY <3>3, BudgetType, FleetAssumption DEF MayRespawn
      <4>7. respawns' = [respawns EXCEPT ![h][t] = respawn_count(h, t) + 1]
        BY <2>5, <3>3 DEF heal
      <4>2. respawns' \in [Hosts -> [Tasks -> 0 .. MaxRespawns]]
        BY <4>1, <4>7, BudgetType
      <4>3. tries[h][t] \in 0 .. MaxRespawns + 1
        BY DEF TypeOK
      <4>4. (IF tries[h][t] <= MaxRespawns THEN tries[h][t] + 1 ELSE tries[h][t])
              \in 0 .. MaxRespawns + 1
        BY <4>3, FleetAssumption
      <4>5. tries' = [tries EXCEPT ![h][t] = IF tries[h][t] <= MaxRespawns
                                             THEN tries[h][t] + 1 ELSE tries[h][t]]
        BY <2>5, <3>3 DEF heal, TypeOK
      <4>6. tries' \in [Hosts -> [Tasks -> 0 .. MaxRespawns + 1]]
        BY <4>4, <4>5, BudgetType
      <4> QED
        BY <2>5, <3>1, <3>2, <4>2, <4>6 DEF heal, TypeOK
    <3>4. CASE ~MayRespawn(h, t)
      BY <2>5, <3>1, <3>2, <3>4 DEF heal, TypeOK
    <3> QED
      BY <3>3, <3>4
  <2>6. CASE cleanup(h, t)
    <3>1. host' \in [Hosts -> HostRecord]
      BY <2>6, MoveType DEF cleanup
    <3>2. 0 \in 0 .. MaxRespawns /\ 0 \in 0 .. MaxRespawns + 1
      BY FleetAssumption
    <3>3. /\ respawns' \in [Hosts -> [Tasks -> 0 .. MaxRespawns]]
          /\ tries' \in [Hosts -> [Tasks -> 0 .. MaxRespawns + 1]]
          /\ window' \in [Hosts -> [Tasks -> {"fresh", "alive", "polled", "ripe", "survived", "lapsed"}]]
          /\ preSession' \in [Hosts -> SUBSET Tasks]
      <4>1. CASE Mine(h, t)
        <5>1. /\ respawns' = [respawns EXCEPT ![h][t] = 0]
              /\ window' = Stamped(h, t)
              /\ preSession' = [preSession EXCEPT ![h] = @ \ {t}]
              /\ tries' = [tries EXCEPT ![h][t] = 0]
          BY <2>6, <4>1 DEF cleanup
        <5> QED
          BY <3>2, <5>1, BudgetType, Zenon
      <4>2. CASE ~Mine(h, t)
        BY <2>6, <4>2 DEF cleanup, TypeOK
      <4> QED
        BY <4>1, <4>2
    <3>4. /\ task' \in [Tasks -> TaskRecord]
          /\ running' \in [Hosts -> SUBSET Tasks]
          /\ session' \in [Hosts -> SUBSET Tasks]
          /\ workspace' \in [Hosts -> SUBSET Tasks]
          /\ linked' \in [Tasks -> SUBSET Hosts]
      <4>1. CASE h \in docker
        <5>1. StopLive(h, t) => /\ running' \in [Hosts -> SUBSET Tasks]
                                /\ session' \in [Hosts -> SUBSET Tasks]
                                /\ linked' \in [Tasks -> SUBSET Hosts]
          <6>1. CASE t \in running[h]
            BY <6>1, MachineType DEF StopLive
          <6>2. CASE t \notin running[h]
            BY <6>2 DEF StopLive, TypeOK
          <6> QED
            BY <6>1, <6>2
        <5>2. ReleaseLingering(h, t) \in [Tasks -> TaskRecord]
          BY <1>2 DEF ReleaseLingering
        <5> QED
          BY <2>6, <4>1, <5>1, <5>2, MachineType DEF cleanup
      <4>2. CASE h \notin docker
        BY <2>6, <4>2 DEF cleanup, TypeOK
      <4> QED
        BY <4>1, <4>2
    <3> QED
      BY <2>6, <3>1, <3>3, <3>4 DEF cleanup, TypeOK
  <2>7. CASE PassOver(h, t)
    BY <2>7, MoveType DEF PassOver, TypeOK
  <2>8. CASE Announce(h, t)
    <3>1. task' \in [Tasks -> TaskRecord]
      BY <2>8, <1>2 DEF Announce
    <3>2. host' \in [Hosts -> HostRecord]
      BY <2>8, MoveType DEF Announce
    <3> QED
      BY <2>8, <3>1, <3>2 DEF Announce, TypeOK
  <2>9. CASE StartBackend(h, t)
    <3>1. task' \in [Tasks -> TaskRecord]
      BY <2>9, <1>2 DEF StartBackend
    <3>2. host' \in [Hosts -> HostRecord]
      BY <2>9, MoveType DEF StartBackend
    <3>3. /\ running' \in [Hosts -> SUBSET Tasks]
          /\ session' \in [Hosts -> SUBSET Tasks]
          /\ workspace' \in [Hosts -> SUBSET Tasks]
          /\ linked' \in [Tasks -> SUBSET Hosts]
          /\ preSession' \in [Hosts -> SUBSET Tasks]
          /\ tries' \in [Hosts -> [Tasks -> 0 .. MaxRespawns + 1]]
      BY <2>9, MachineType, BudgetType DEF StartBackend
    <3> QED
      BY <2>9, <3>1, <3>2, <3>3 DEF StartBackend, TypeOK
  <2>10. CASE HoldLaunch(h, t)
    <3>1. host' \in [Hosts -> HostRecord] /\ spent' \in [Disturbances -> Nat]
      BY <2>10, MoveType, StrikeType DEF HoldLaunch, Disturbances
    <3>2. task' \in [Tasks -> TaskRecord]
      BY <2>10, <1>2, RecordType DEF HoldLaunch
    <3>3. tries' \in [Hosts -> [Tasks -> 0 .. MaxRespawns + 1]]
      BY <2>10, BudgetType DEF HoldLaunch
    <3> QED
      BY <2>10, <3>1, <3>2, <3>3 DEF HoldLaunch, TypeOK
  <2>11. CASE FailLaunch(h, t)
    <3>1. host' \in [Hosts -> HostRecord] /\ spent' \in [Disturbances -> Nat]
      BY <2>11, MoveType, StrikeType DEF FailLaunch, Disturbances
    <3>2. task' \in [Tasks -> TaskRecord]
      BY <2>11, <1>2 DEF FailLaunch
    <3>3. tries' \in [Hosts -> [Tasks -> 0 .. MaxRespawns + 1]]
      BY <2>11, BudgetType DEF FailLaunch
    <3> QED
      BY <2>11, <3>1, <3>2, <3>3 DEF FailLaunch, TypeOK
  <2>12. CASE InfraFail(h, t)
    <3>1. spent' \in [Disturbances -> Nat]
      BY <2>12, StrikeType DEF InfraFail, TypeOK, Disturbances
    <3>2. host' \in [Hosts -> HostRecord]
      BY <2>12, MoveType DEF InfraFail
    <3>3. task' = Reported(t, Nil) \/ task' = Reported(t, "failed")
      BY <2>12 DEF InfraFail
    <3>4. task' \in [Tasks -> TaskRecord]
      BY <3>3, <1>2
    <3>5. /\ running' \in [Hosts -> SUBSET Tasks]
          /\ session' \in [Hosts -> SUBSET Tasks]
          /\ workspace' \in [Hosts -> SUBSET Tasks]
          /\ linked' \in [Tasks -> SUBSET Hosts]
      BY <2>12, MachineType DEF InfraFail, TypeOK
    <3>6. /\ window' \in [Hosts -> [Tasks -> {"fresh", "alive", "polled", "ripe", "survived", "lapsed"}]]
          /\ preSession' \in [Hosts -> SUBSET Tasks]
      BY <2>12, BudgetType DEF InfraFail, TypeOK
    <3> QED
      BY <2>12, <3>1, <3>2, <3>4, <3>5, <3>6 DEF InfraFail, TypeOK
  <2> QED
    BY <1>3, <2>1, <2>2, <2>3, <2>4, <2>5, <2>6, <2>7, <2>8, <2>9, <2>10, <2>11, <2>12
<1> QED
  BY <1>1, <1>3 DEF HostStep

(* The steps of everything else keep the types.                               *)
LEMMA EnvironmentTypeStep ==
  ASSUME TypeOK, Environment
  PROVE  TypeOK'
<1> USE DEF service, budget, machine
<1>1. ASSUME NEW h \in Hosts, NEW t \in Tasks,
             \/ Link(h, t) \/ AgentFails(h, t) \/ SessionDies(h, t) \/ ContainerDies(h, t)
             \/ Survive(h, t) \/ Lapse(h, t)
      PROVE  TypeOK'
  <2>1. CASE Link(h, t)
    <3>1. linked' \in [Tasks -> SUBSET Hosts]
      BY <2>1, MachineType DEF Link
    <3> QED
      BY <2>1, <3>1 DEF Link, TypeOK
  <2>2. CASE AgentFails(h, t)
    <3>1. spent' \in [Disturbances -> Nat]
      BY <2>2, StrikeType DEF AgentFails, Disturbances
    <3>2. "failed" \in Phases \cup {Nil}
      BY DEF Phases
    <3>3. task' \in [Tasks -> TaskRecord]
      BY <2>2, <3>2, RecordType DEF AgentFails
    <3> QED
      BY <2>2, <3>1, <3>3 DEF AgentFails, TypeOK
  <2>3. CASE SessionDies(h, t)
    <3>1. spent' \in [Disturbances -> Nat]
      BY <2>3, StrikeType DEF SessionDies, Disturbances
    <3>2. session' \in [Hosts -> SUBSET Tasks]
      BY <2>3, MachineType DEF SessionDies
    <3> QED
      BY <2>3, <3>1, <3>2 DEF SessionDies, TypeOK
  <2>4. CASE ContainerDies(h, t)
    <3>1. spent' \in [Disturbances -> Nat]
      BY <2>4, StrikeType DEF ContainerDies, Disturbances
    <3>2. /\ running' \in [Hosts -> SUBSET Tasks]
          /\ session' \in [Hosts -> SUBSET Tasks]
          /\ linked' \in [Tasks -> SUBSET Hosts]
      BY <2>4, MachineType DEF ContainerDies
    <3> QED
      BY <2>4, <3>1, <3>2 DEF ContainerDies, TypeOK
  <2>5. CASE Survive(h, t)
    <3>1. 0 \in 0 .. MaxRespawns + 1
      BY FleetAssumption
    <3>2. window' = [window EXCEPT ![h][t] = "survived"] /\ tries' = [tries EXCEPT ![h][t] = 0]
      BY <2>5 DEF Survive
    <3>3. /\ window' \in [Hosts -> [Tasks -> {"fresh", "alive", "polled", "ripe", "survived", "lapsed"}]]
          /\ tries' \in [Hosts -> [Tasks -> 0 .. MaxRespawns + 1]]
      BY <3>1, <3>2, BudgetType, Zenon
    <3> QED
      BY <2>5, <3>3 DEF Survive, TypeOK
  <2>6. CASE Lapse(h, t)
    <3>1. spent' \in [Disturbances -> Nat]
      BY <2>6, StrikeType DEF Lapse, TypeOK, Disturbances
    <3>2. window' = [window EXCEPT ![h][t] = "lapsed"]
      BY <2>6 DEF Lapse
    <3>3. window' \in [Hosts -> [Tasks -> {"fresh", "alive", "polled", "ripe", "survived", "lapsed"}]]
      BY <3>2, BudgetType, Zenon
    <3>4. tries' \in [Hosts -> [Tasks -> 0 .. MaxRespawns + 1]]
      <4>1. 0 \in 0 .. MaxRespawns + 1
        BY FleetAssumption
      <4>2. tries' = tries \/ tries' = [tries EXCEPT ![h][t] = 0]
        BY <2>6 DEF Lapse
      <4>3. CASE tries' = [tries EXCEPT ![h][t] = 0]
        BY <4>1, <4>3, BudgetType, Zenon
      <4>4. CASE tries' = tries
        BY <4>4 DEF TypeOK
      <4> QED
        BY <4>2, <4>3, <4>4
    <3> QED
      BY <2>6, <3>1, <3>3, <3>4 DEF Lapse, TypeOK
  <2> QED
    BY <1>1, <2>1, <2>2, <2>3, <2>4, <2>5, <2>6
<1>2. ASSUME NEW h \in Hosts,
             \/ DockerStops(h) \/ DockerReturns(h) \/ HostRestarts(h) \/ Reboots(h)
             \/ GoOnline(h) \/ Flickers(h) \/ reclaim(h)
      PROVE  TypeOK'
  <2>1. Gone(h) => /\ running' \in [Hosts -> SUBSET Tasks]
                   /\ session' \in [Hosts -> SUBSET Tasks]
                   /\ linked' \in [Tasks -> SUBSET Hosts]
    <3>1. [t \in Tasks |-> linked[t] \ {h}] \in [Tasks -> SUBSET Hosts]
      BY DEF TypeOK
    <3> QED
      BY <3>1 DEF Gone, TypeOK
  <2>2. Fresh(h) => /\ host' \in [Hosts -> HostRecord]
                    /\ respawns' \in [Hosts -> [Tasks -> 0 .. MaxRespawns]]
                    /\ window' \in [Hosts -> [Tasks -> {"fresh", "alive", "polled", "ripe", "survived", "lapsed"}]]
                    /\ tries' \in [Hosts -> [Tasks -> 0 .. MaxRespawns + 1]]
                    /\ preSession' \in [Hosts -> SUBSET Tasks]
                    /\ online' \subseteq Hosts
    <3>1. 0 \in 0 .. MaxRespawns /\ 0 \in 0 .. MaxRespawns + 1
      BY FleetAssumption
    <3>2. [Idle EXCEPT !.startup = TRUE] \in HostRecord
      <4>1. NoView \in TaskView
        BY DEF NoView, TaskView, Statuses
      <4> QED
        BY <4>1 DEF Idle, HostRecord
    <3> QED
      BY <3>1, <3>2 DEF Fresh, TypeOK
  <2>3. CASE DockerStops(h)
    <3>1. spent' \in [Disturbances -> Nat]
      BY <2>3, StrikeType DEF DockerStops, Disturbances
    <3> QED
      BY <2>1, <2>3, <3>1 DEF DockerStops, TypeOK
  <2>4. CASE DockerReturns(h)
    BY <2>4 DEF DockerReturns, TypeOK
  <2>5. CASE HostRestarts(h)
    <3>1. spent' \in [Disturbances -> Nat]
      BY <2>5, StrikeType DEF HostRestarts, Disturbances
    <3> QED
      BY <2>2, <2>5, <3>1 DEF HostRestarts, TypeOK
  <2>6. CASE Reboots(h)
    <3>1. spent' \in [Disturbances -> Nat]
      BY <2>6, StrikeType DEF Reboots, Disturbances
    <3> QED
      BY <2>1, <2>2, <2>6, <3>1 DEF Reboots, TypeOK
  <2>7. CASE GoOnline(h)
    BY <2>7 DEF GoOnline, TypeOK
  <2>8. CASE Flickers(h)
    <3>1. spent' \in [Disturbances -> Nat]
      BY <2>8, StrikeType DEF Flickers, Disturbances
    <3> QED
      BY <2>8, <3>1 DEF Flickers, TypeOK
  <2>9. CASE reclaim(h)
    <3>1. spent' \in [Disturbances -> Nat]
      BY <2>9, StrikeType DEF reclaim, Disturbances
    <3>2. ASSUME NEW t \in Tasks
          PROVE  task[t] \in TaskRecord /\ [task[t] EXCEPT !.claimed = Nil, !.phase = Nil] \in TaskRecord
      <4>1. task[t] \in TaskRecord
        BY DEF TypeOK
      <4> QED
        BY <4>1 DEF TaskRecord
    <3>3. task' \in [Tasks -> TaskRecord]
      <4> DEFINE freed(t) == IF task[t].claimed = h /\ task[t].stage = "open"
                             THEN [task[t] EXCEPT !.claimed = Nil, !.phase = Nil] ELSE task[t]
      <4>1. \A t \in Tasks : freed(t) \in TaskRecord
        BY <3>2
      <4>2. task' = [t \in Tasks |-> freed(t)]
        BY <2>9 DEF reclaim
      <4>3. [t \in Tasks |-> freed(t)] \in [Tasks -> TaskRecord]
        <5> HIDE DEF freed
        <5> QED
          BY <4>1, Zenon
      <4> QED
        BY <4>2, <4>3, Zenon
    <3> QED
      BY <2>9, <3>1, <3>3 DEF reclaim, TypeOK
  <2> QED
    BY <1>2, <2>3, <2>4, <2>5, <2>6, <2>7, <2>8, <2>9
<1>3. ASSUME NEW t \in Tasks, release(t) \/ retry_task(t) \/ Finish(t) \/ Revive(t)
      PROVE  TypeOK'
  <2>1. spent' \in [Disturbances -> Nat]
    BY <1>3, StrikeType DEF release, retry_task, Finish, Revive, Disturbances
  <2>2. task' \in [Tasks -> TaskRecord]
    <3>1. \/ task' = Released(t)
          \/ task' = [task EXCEPT ![t].paused = FALSE, ![t].claimed = Nil, ![t].phase = Nil]
          \/ task' = [task EXCEPT ![t].stage = "finished"]
          \/ task' = [task EXCEPT ![t].stage = "open"]
      BY <1>3 DEF release, retry_task, Finish, Revive
    <3>2. /\ Released(t) \in [Tasks -> TaskRecord]
          /\ [task EXCEPT ![t].paused = FALSE, ![t].claimed = Nil, ![t].phase = Nil]
               \in [Tasks -> TaskRecord]
          /\ [task EXCEPT ![t].stage = "finished"] \in [Tasks -> TaskRecord]
          /\ [task EXCEPT ![t].stage = "open"] \in [Tasks -> TaskRecord]
      BY RecordType
    <3> HIDE DEF service
    <3> QED
      BY <3>1, <3>2, Zenon
  <2> QED
    BY <1>3, <2>1, <2>2 DEF release, retry_task, Finish, Revive, TypeOK
<1>4. CASE ServiceRestarts
  <2>1. spent' \in [Disturbances -> Nat]
    BY <1>4, StrikeType DEF ServiceRestarts, Disturbances
  <2>2. ASSUME NEW t \in Tasks
        PROVE  [task[t] EXCEPT !.phase = Nil] \in TaskRecord
    <3>1. task[t] \in TaskRecord
      BY DEF TypeOK
    <3> QED
      BY <3>1 DEF TaskRecord
  <2>3. task' \in [Tasks -> TaskRecord] /\ linked' \in [Tasks -> SUBSET Hosts] /\ online' \subseteq Hosts
    BY <1>4, <2>2 DEF ServiceRestarts
  <2> QED
    BY <1>4, <2>1, <2>3 DEF ServiceRestarts, TypeOK
<1> QED
  BY <1>1, <1>2, <1>3, <1>4 DEF Environment

(* The fleet starts with the types it has.                                    *)
LEMMA InitType == Init => TypeOK
<1> SUFFICES ASSUME Init PROVE TypeOK
  OBVIOUS
<1>1. NoView \in TaskView
  BY DEF NoView, TaskView, Statuses
<1>2. [Idle EXCEPT !.startup = TRUE] \in HostRecord
  BY <1>1 DEF Idle, HostRecord
<1>3. 0 \in 0 .. MaxRespawns /\ 0 \in 0 .. MaxRespawns + 1 /\ 0 \in Nat
  BY FleetAssumption
<1>4. [stage |-> "open", claimed |-> Nil, paused |-> FALSE, phase |-> Nil] \in TaskRecord
  BY DEF TaskRecord
<1> QED
  BY <1>2, <1>3, <1>4 DEF Init, TypeOK

(* Whatever happens to the fleet, every variable keeps its type: no budget    *)
(* exceeds its limit, no pass is anywhere but at one of its steps.            *)
THEOREM FleetTypes == Spec => []TypeOK
<1>1. TypeOK /\ [Next]_vars => TypeOK'
  <2> SUFFICES ASSUME TypeOK, [Next]_vars PROVE TypeOK'
    OBVIOUS
  <2>1. CASE \E h \in Hosts : HostStep(h)
    BY <2>1, HostTypeStep
  <2>2. CASE Environment
    BY <2>2, EnvironmentTypeStep
  <2>3. CASE UNCHANGED vars
    BY <2>3 DEF vars, service, budget, machine, TypeOK
  <2> QED
    BY <2>1, <2>2, <2>3 DEF Next
<1> QED
  BY InitType, <1>1, PTL DEF Spec

-----------------------------------------------------------------------------
(* Claims *)

(* A step that moves no daemon, changes no claim and starts no container      *)
(* leaves every daemon right about its claims.                                *)
LEMMA StillClaims ==
  ASSUME ClaimInv, host' = host,
         \A t \in Tasks : task'[t].claimed = task[t].claimed,
         \A h \in Hosts : running'[h] \subseteq running[h]
  PROVE  ClaimInv'
  BY DEF ClaimInv, Believes, Mine, At

(* Neither does a step with which the daemon of h goes on with t and at most  *)
(* starts what it has claimed.                                                *)
LEMMA MoveClaims ==
  ASSUME TypeOK, ClaimInv, NEW h \in Hosts, NEW t \in Tasks,
         \A u \in Tasks : task'[u].claimed = task[u].claimed,
         \A g \in Hosts : running'[g] \subseteq running[g] \cup {u \in {t} : g = h},
         t \in running'[h] => task[t].claimed = h,
         t \in host[h].todo, host[h].pc # "idle",
         \/ Done(h, t)
         \/ Goto(h, t, "heal") /\ host[h].pc = "work"
         \/ /\ Goto(h, t, "launch") \/ Goto(h, t, "start")
            /\ host[h].pc \in {"work", "heal", "launch"}
            /\ task[t].claimed = h
  PROVE  ClaimInv'
<1>1. host \in [Hosts -> HostRecord] /\ host[h] \in HostRecord
  BY DEF TypeOK
<1>2. Nil \notin Hosts
  BY FleetAssumption
<1> DEFINE Right(g, u, r) ==
             /\ r.startup => r.pc = "idle"
             /\ r.startup => task[u].claimed # g
             /\ r.pc = "reclaim" => r.snap[u].claimed # g
             /\ r.snap[u].claimed = g /\ r.pc = "mark" => task[u].claimed = g
             /\ r.snap[u].claimed = g /\ r.pc \in {"work", "heal", "launch", "start"} /\ u \in r.todo
                  => task[u].claimed = g
             /\ r.pc = "heal" /\ r.at = u => u \in r.todo
             /\ r.pc \in {"launch", "start"} /\ r.at = u => u \in r.todo /\ task[u].claimed = g
<1>3. \A g \in Hosts, u \in Tasks : Right(g, u, host[g])
  BY DEF ClaimInv, Believes, Mine, At
<1>4. PICK r : host' = [host EXCEPT ![h] = r] /\ \A u \in Tasks : Right(h, u, r)
  <2>1. CASE Done(h, t)
    <3>1. host' = [host EXCEPT ![h] = After(h, t)]
      BY <2>1 DEF Done
    <3>2. ASSUME NEW u \in Tasks PROVE Right(h, u, After(h, t))
      <4>1. host[h].todo \in SUBSET Tasks /\ host[h].snap \in [Tasks -> TaskView]
        BY <1>1 DEF HostRecord
      <4>2. Right(h, u, host[h])
        BY <1>3
      <4>3. Right(h, u, Idle)
        BY <1>2 DEF Idle, NoView
      <4>4. CASE After(h, t) = Idle
        BY <4>3, <4>4
      <4>5. CASE host[h].todo \ {t} # {}
                 /\ After(h, t) = [host[h] EXCEPT !.pc = IF host[h].pc \in {"reclaim", "mark"} THEN host[h].pc ELSE "work",
                                                  !.todo = host[h].todo \ {t}, !.at = Nil]
        <5> DEFINE r == After(h, t)
        <5>1. /\ r.pc \in {"reclaim", "mark", "work"} /\ r.todo = host[h].todo \ {t}
              /\ r.pc \in {"reclaim", "mark"} => r.pc = host[h].pc
              /\ r.pc = "work" => host[h].pc \notin {"reclaim", "mark"}
              /\ r.snap = host[h].snap /\ r.startup = host[h].startup
              /\ r.startup \in BOOLEAN
          BY <1>1, <4>5 DEF HostRecord
        <5> HIDE DEF r
        <5>2. (r.startup => r.pc = "idle") /\ (r.startup => task[u].claimed # h)
          BY <4>2, <5>1, host[h].pc # "idle"
        <5>3. host[h].pc \in {"reclaim", "mark", "work", "heal", "launch", "start"}
          BY <1>1, host[h].pc # "idle" DEF HostRecord
        <5>4. r.snap[u].claimed = h /\ r.pc = "mark" => task[u].claimed = h
          BY <4>2, <5>1
        <5>5. r.snap[u].claimed = h /\ r.pc \in {"work", "heal", "launch", "start"} /\ u \in r.todo
                => task[u].claimed = h
          BY <4>2, <5>1, <5>3
        <5>7. r.pc \notin {"heal", "launch", "start"}
          BY <5>1
        <5>6. r.pc = "reclaim" => r.snap[u].claimed # h
          BY <4>2, <5>1
        <5>8. Right(h, u, r)
          BY <5>2, <5>4, <5>6, <5>5, <5>7
        <5> QED
          BY <5>8 DEF r
      <4>6. CASE host[h].pc = "reclaim" /\ After(h, t) = [host[h] EXCEPT !.pc = "mark", !.todo = Tasks]
        <5> DEFINE r == After(h, t)
        <5>1. /\ r.pc = "mark" /\ r.snap = host[h].snap /\ r.startup = host[h].startup
              /\ r.startup \in BOOLEAN
          BY <1>1, <4>6 DEF HostRecord
        <5> HIDE DEF r
        <5>2. Right(h, u, r)
          BY <4>2, <4>6, <5>1
        <5> QED
          BY <5>2 DEF r
      <4>7. CASE host[h].pc = "mark" /\ After(h, t) = [host[h] EXCEPT !.pc = "work", !.todo = Tasks]
        <5> DEFINE r == After(h, t)
        <5>1. /\ r.pc = "work" /\ r.snap = host[h].snap /\ r.startup = host[h].startup
              /\ r.startup \in BOOLEAN
          BY <1>1, <4>7 DEF HostRecord
        <5> HIDE DEF r
        <5>2. Right(h, u, r)
          BY <4>2, <4>7, <5>1
        <5> QED
          BY <5>2 DEF r
      <4>8. \/ After(h, t) = Idle
            \/ /\ host[h].todo \ {t} # {}
               /\ After(h, t) = [host[h] EXCEPT !.pc = IF host[h].pc \in {"reclaim", "mark"} THEN host[h].pc ELSE "work",
                                                !.todo = host[h].todo \ {t}, !.at = Nil]
            \/ host[h].pc = "reclaim" /\ After(h, t) = [host[h] EXCEPT !.pc = "mark", !.todo = Tasks]
            \/ host[h].pc = "mark" /\ After(h, t) = [host[h] EXCEPT !.pc = "work", !.todo = Tasks]
        BY DEF After
      <4> HIDE DEF Right
      <4> QED
        BY <4>4, <4>5, <4>6, <4>7, <4>8
    <3> QED
      BY <3>1, <3>2
  <2>2. CASE Goto(h, t, "heal") /\ host[h].pc = "work"
    <3>1. host' = [host EXCEPT ![h] = [host[h] EXCEPT !.pc = "heal", !.at = t]]
      BY <1>1, <2>2 DEF Goto
    <3>2. \A u \in Tasks : Right(h, u, [host[h] EXCEPT !.pc = "heal", !.at = t])
      BY <1>1, <1>3, <2>2, t \in host[h].todo DEF HostRecord
    <3> QED
      BY <3>1, <3>2
  <2>3. ASSUME NEW pc \in {"launch", "start"}, Goto(h, t, pc),
               host[h].pc \in {"work", "heal", "launch"}, task[t].claimed = h
        PROVE  \E r : host' = [host EXCEPT ![h] = r] /\ \A u \in Tasks : Right(h, u, r)
    <3>1. host' = [host EXCEPT ![h] = [host[h] EXCEPT !.pc = pc, !.at = t]]
      BY <1>1, <2>3 DEF Goto
    <3>2. \A u \in Tasks : Right(h, u, [host[h] EXCEPT !.pc = pc, !.at = t])
      BY <1>1, <1>3, <2>3, t \in host[h].todo DEF HostRecord
    <3> QED
      BY <3>1, <3>2
  <2> QED
    BY <2>1, <2>2, <2>3
<1>5. \A g \in Hosts, u \in Tasks : Right(g, u, host'[g])
  BY <1>1, <1>3, <1>4
<1>6. ASSUME NEW g \in Hosts, NEW u \in Tasks, u \in running'[g]
      PROVE  task'[u].claimed = g
  BY <1>6 DEF ClaimInv
<1>7. \A g \in Hosts : host'[g].startup => host'[g].pc = "idle"
  BY <1>1, <1>3, <1>4 DEF ClaimInv
<1>8. ASSUME NEW g \in Hosts, NEW u \in Tasks
      PROVE  /\ host'[g].startup => task'[u].claimed # g
             /\ host'[g].pc = "reclaim" => ~Mine(g, u)'
             /\ Believes(g, u)' => task'[u].claimed = g
             /\ At(g, u, "heal")' => u \in host'[g].todo
             /\ At(g, u, "launch")' \/ At(g, u, "start")'
                  => u \in host'[g].todo /\ task'[u].claimed = g
  <2>1. Right(g, u, host'[g]) /\ task'[u].claimed = task[u].claimed
    BY <1>5
  <2>2. host'[g].startup \in BOOLEAN
    BY MoveType DEF HostRecord
  <2>3. /\ host'[g].startup => task'[u].claimed # g
        /\ host'[g].pc = "reclaim" => ~Mine(g, u)'
    BY <2>1, <2>2 DEF Mine
  <2>4. Believes(g, u)' => task'[u].claimed = g
    BY <2>1 DEF Believes, Mine
  <2>5. At(g, u, "heal")' => u \in host'[g].todo
    BY <2>1 DEF At
  <2>6. At(g, u, "launch")' \/ At(g, u, "start")' => u \in host'[g].todo /\ task'[u].claimed = g
    BY <2>1 DEF At
  <2> QED
    BY <2>3, <2>4, <2>5, <2>6
<1> HIDE DEF Right
<1> QED
  BY <1>6, <1>7, <1>8 DEF ClaimInv

(* What a handler reports of a task leaves every claim as it is.              *)
LEMMA ReportClaims ==
  ASSUME TypeOK, NEW t \in Tasks, NEW u \in Tasks, NEW p
  PROVE  Reported(t, p)[u].claimed = task[u].claimed
<1>1. task \in [Tasks -> TaskRecord] /\ task[t] \in TaskRecord /\ task[u] \in TaskRecord
  BY DEF TypeOK
<1> QED
  BY <1>1 DEF Reported, TaskRecord

(* So does a hold of its launch.                                              *)
LEMMA HoldClaims ==
  ASSUME TypeOK, NEW t \in Tasks, NEW u \in Tasks, NEW p
  PROVE  [task EXCEPT ![t].paused = TRUE, ![t].phase = p][u].claimed = task[u].claimed
<1>1. task \in [Tasks -> TaskRecord] /\ task[t] \in TaskRecord /\ task[u] \in TaskRecord
  BY DEF TypeOK
<1> QED
  BY <1>1 DEF TaskRecord

(* So does the end or the reopening of a task.                                *)
LEMMA StageClaims ==
  ASSUME TypeOK, NEW t \in Tasks, NEW u \in Tasks, NEW p
  PROVE  [task EXCEPT ![t].stage = p][u].claimed = task[u].claimed
<1>1. task \in [Tasks -> TaskRecord] /\ task[t] \in TaskRecord /\ task[u] \in TaskRecord
  BY DEF TypeOK
<1> QED
  BY <1>1 DEF TaskRecord

(* A poll shows the daemon its claims as they are, and a new process none.    *)
LEMMA PollClaims ==
  ASSUME TypeOK, ClaimInv, NEW h \in Hosts, Poll(h)
  PROVE  ClaimInv'
<1>1. /\ host \in [Hosts -> HostRecord] /\ host[h] \in HostRecord
      /\ task' = task /\ running' = running
  BY DEF TypeOK, Poll, service, machine
<1> DEFINE r == [pc |-> IF host[h].startup THEN "reclaim" ELSE "mark",
                 todo |-> Tasks, at |-> Nil,
                 snap |-> [t \in Tasks |-> View(t)], startup |-> FALSE]
<1>2. host' = [host EXCEPT ![h] = r]
  BY DEF Poll
<1>3. host'[h] = r /\ \A g \in Hosts \ {h} : host'[g] = host[g]
  BY <1>1, <1>2
<1>4. ASSUME NEW t \in Tasks
      PROVE  r.snap[t].claimed = task[t].claimed
  BY DEF View
<1>5. /\ r.startup = FALSE
      /\ host[h].startup => r.pc = "reclaim"
      /\ ~host[h].startup => r.pc = "mark"
  BY <1>1 DEF HostRecord
<1>6. r.pc \in {"reclaim", "mark"}
  OBVIOUS
<1> HIDE DEF r
<1>7. ASSUME NEW t \in Tasks
      PROVE  /\ r.pc = "reclaim" => r.snap[t].claimed # h
             /\ r.snap[t].claimed = h => task[t].claimed = h
  BY <1>4, <1>5 DEF ClaimInv
<1>8. \A g \in Hosts : host'[g].startup => host'[g].pc = "idle"
  BY <1>3, <1>5 DEF ClaimInv
<1>9. ASSUME NEW g \in Hosts, NEW t \in Tasks
      PROVE  /\ host'[g].startup => task'[t].claimed # g
             /\ host'[g].pc = "reclaim" => ~Mine(g, t)'
             /\ Believes(g, t)' => task'[t].claimed = g
             /\ At(g, t, "heal")' => t \in host'[g].todo
             /\ At(g, t, "launch")' \/ At(g, t, "start")'
                  => t \in host'[g].todo /\ task'[t].claimed = g
             /\ t \in running'[g] => task'[t].claimed = g
  <2>1. CASE g = h
    BY <1>1, <1>3, <1>5, <1>6, <1>7, <2>1 DEF ClaimInv, Believes, Mine, At
  <2>2. CASE g # h
    BY <1>1, <1>3, <2>2 DEF ClaimInv, Believes, Mine, At
  <2> QED
    BY <2>1, <2>2
<1> QED
  BY <1>8, <1>9 DEF ClaimInv

(* A task that nobody held is launched under the claim of h.                  *)
LEMMA TakeClaims ==
  ASSUME TypeOK, ClaimInv, NEW h \in Hosts, NEW t \in Tasks, spawn_one(h, t)
  PROVE  ClaimInv'
<1>1. /\ host \in [Hosts -> HostRecord] /\ host[h] \in HostRecord
      /\ task \in [Tasks -> TaskRecord] /\ task[t] \in TaskRecord
      /\ running' = running
      /\ t \in host[h].todo /\ host[h].pc = "work"
  BY DEF TypeOK, spawn_one, machine, Facing
<1>2. CASE ~(h \in docker /\ CanClaim(h, t))
  <2>1. Done(h, t) /\ task' = task
    BY <1>2 DEF spawn_one
  <2>2. t \in running'[h] => task[t].claimed = h
    BY <1>1 DEF ClaimInv
  <2> QED
    BY <1>1, <2>1, <2>2, MoveClaims
<1>3. CASE h \in docker /\ CanClaim(h, t)
  <2>1. /\ task' = [task EXCEPT ![t].claimed = h, ![t].phase = Nil]
        /\ host' = [host EXCEPT ![h].pc = "launch", ![h].at = t]
        /\ task[t].claimed \in {Nil, h}
    BY <1>3 DEF spawn_one, Goto, CanClaim
  <2>2. task'[t].claimed = h /\ \A u \in Tasks \ {t} : task'[u] = task[u]
    BY <1>1, <2>1 DEF TaskRecord
  <2>3. /\ host'[h].pc = "launch" /\ host'[h].at = t
        /\ host'[h].todo = host[h].todo /\ host'[h].snap = host[h].snap
        /\ host'[h].startup = host[h].startup
        /\ host[h].startup \in BOOLEAN
        /\ \A g \in Hosts \ {h} : host'[g] = host[g]
    BY <1>1, <2>1 DEF HostRecord
  <2>4. Nil \notin Hosts
    BY FleetAssumption
  <2>5. ~host[h].startup
    BY <1>1 DEF ClaimInv
  <2>6. \A g \in Hosts : host'[g].startup => host'[g].pc = "idle"
    BY <2>3, <2>5 DEF ClaimInv
  <2>7. ASSUME NEW g \in Hosts, NEW u \in Tasks
        PROVE  /\ host'[g].startup => task'[u].claimed # g
               /\ host'[g].pc = "reclaim" => ~Mine(g, u)'
               /\ Believes(g, u)' => task'[u].claimed = g
               /\ At(g, u, "heal")' => u \in host'[g].todo
               /\ At(g, u, "launch")' \/ At(g, u, "start")'
                    => u \in host'[g].todo /\ task'[u].claimed = g
               /\ u \in running'[g] => task'[u].claimed = g
    <3>1. CASE g = h
      BY <1>1, <2>1, <2>2, <2>3, <2>4, <2>5, <3>1 DEF ClaimInv, Believes, Mine, At
    <3>2. CASE g # h /\ u = t
      BY <1>1, <2>1, <2>2, <2>3, <2>4, <3>2 DEF ClaimInv, Believes, Mine, At
    <3>3. CASE g # h /\ u # t
      BY <1>1, <2>2, <2>3, <3>3 DEF ClaimInv, Believes, Mine, At
    <3> QED
      BY <3>1, <3>2, <3>3
  <2> QED
    BY <2>6, <2>7 DEF ClaimInv
<1> QED
  BY <1>2, <1>3

(* A claim that cleanup gives up is the daemon's own, and nothing of the task *)
(* is left running under it.                                                  *)
LEMMA CleanupClaims ==
  ASSUME TypeOK, ClaimInv, NEW h \in Hosts, NEW t \in Tasks, cleanup(h, t)
  PROVE  ClaimInv'
<1>1. /\ host \in [Hosts -> HostRecord] /\ host[h] \in HostRecord
      /\ task \in [Tasks -> TaskRecord] /\ running \in [Hosts -> SUBSET Tasks]
      /\ t \in host[h].todo /\ host[h].pc = "work" /\ Done(h, t)
  BY DEF TypeOK, cleanup, Facing
<1>2. Nil \notin Hosts
  BY FleetAssumption
<1>3. /\ \A g \in Hosts : running'[g] \subseteq running[g]
      /\ task' # task => t \notin running'[h]
  <2>1. CASE h \in docker
    BY <1>1, <2>1 DEF cleanup, StopLive
  <2>2. CASE h \notin docker
    BY <2>2 DEF cleanup
  <2> QED
    BY <2>1, <2>2
<1>4. CASE task' = task
  <2>1. t \in running'[h] => task[t].claimed = h
    BY <1>3 DEF ClaimInv
  <2> QED
    BY <1>1, <1>3, <1>4, <2>1, MoveClaims
<1>5. CASE task' # task
  <2>1. task' = Released(t) /\ Mine(h, t)
    BY <1>5 DEF cleanup, ReleaseLingering
  <2>2. task'[t].claimed = Nil /\ \A u \in Tasks \ {t} : task'[u] = task[u]
    BY <1>1, <2>1 DEF Released, TaskRecord
  <2>3. task[t].claimed = h
    BY <1>1, <2>1 DEF ClaimInv, Believes
  <2>4. host' = [host EXCEPT ![h] = After(h, t)]
    BY <1>1 DEF Done
  <2>5. host'[h] = After(h, t) /\ \A g \in Hosts \ {h} : host'[g] = host[g]
    BY <1>1, <2>4
  <2>6. /\ host[h].startup \in BOOLEAN /\ ~host[h].startup
    BY <1>1 DEF ClaimInv, HostRecord
  <2> DEFINE r == After(h, t)
  <2>7. \/ r = Idle
        \/ r = [host[h] EXCEPT !.pc = "work", !.todo = host[h].todo \ {t}, !.at = Nil]
    BY <1>1 DEF After
  <2>8. /\ r.pc \in {"idle", "work"} /\ ~r.startup /\ t \notin r.todo
        /\ r.pc = "work" => r.todo \subseteq host[h].todo /\ r.snap = host[h].snap
    <3>1. CASE r = Idle
      BY <3>1 DEF Idle
    <3>2. CASE r = [host[h] EXCEPT !.pc = "work", !.todo = host[h].todo \ {t}, !.at = Nil]
      <4>1. /\ r.pc = "work" /\ r.todo = host[h].todo \ {t}
            /\ r.snap = host[h].snap /\ r.startup = host[h].startup
        BY <1>1, <3>2 DEF HostRecord
      <4> HIDE DEF r
      <4> QED
        BY <2>6, <4>1
    <3> QED
      BY <2>7, <3>1, <3>2
  <2> HIDE DEF r
  <2>9. host'[h] = r
    BY <2>5 DEF r
  <2>10. \A g \in Hosts : host'[g].startup => host'[g].pc = "idle"
    BY <2>5, <2>8, <2>9 DEF ClaimInv
  <2>11. ASSUME NEW g \in Hosts, NEW u \in Tasks
         PROVE  /\ host'[g].startup => task'[u].claimed # g
                /\ host'[g].pc = "reclaim" => ~Mine(g, u)'
                /\ Believes(g, u)' => task'[u].claimed = g
                /\ At(g, u, "heal")' => u \in host'[g].todo
                /\ At(g, u, "launch")' \/ At(g, u, "start")'
                     => u \in host'[g].todo /\ task'[u].claimed = g
                /\ u \in running'[g] => task'[u].claimed = g
    <3>1. CASE g = h /\ u = t
      BY <1>3, <1>5, <2>8, <2>9, <3>1 DEF Believes, Mine, At
    <3>2. CASE g = h /\ u # t
      BY <1>1, <1>3, <2>2, <2>8, <2>9, <3>2 DEF ClaimInv, Believes, Mine, At
    <3>3. CASE g # h /\ u = t
      BY <1>2, <1>3, <2>2, <2>3, <2>5, <3>3 DEF ClaimInv, Believes, Mine, At
    <3>4. CASE g # h /\ u # t
      BY <1>3, <2>2, <2>5, <3>4 DEF ClaimInv, Believes, Mine, At
    <3> QED
      BY <3>1, <3>2, <3>3, <3>4
  <2> QED
    BY <2>10, <2>11 DEF ClaimInv
<1> QED
  BY <1>4, <1>5

(* Every step of a daemon leaves all daemons right about their claims.        *)
LEMMA HostClaimStep ==
  ASSUME TypeOK, ClaimInv, NEW h \in Hosts, HostStep(h)
  PROVE  ClaimInv'
<1>1. CASE Poll(h)
  BY <1>1, PollClaims
<1>2. ASSUME NEW t \in Tasks, spawn_one(h, t)
      PROVE  ClaimInv'
  BY <1>2, TakeClaims
<1>3. ASSUME NEW t \in Tasks, cleanup(h, t)
      PROVE  ClaimInv'
  BY <1>3, CleanupClaims
<1>4. ASSUME NEW t \in Tasks,
             \/ Reclaim(h, t) \/ mark_healing(h, t) \/ reconcile(h, t) \/ heal(h, t) \/ PassOver(h, t)
             \/ Announce(h, t) \/ StartBackend(h, t)
             \/ HoldLaunch(h, t) \/ FailLaunch(h, t) \/ InfraFail(h, t)
      PROVE  ClaimInv'
  <2>1. t \in running[h] => task[t].claimed = h
    BY DEF ClaimInv
  <2>2. At(h, t, "launch") \/ At(h, t, "start") => t \in host[h].todo /\ task[t].claimed = h
    BY DEF ClaimInv
  <2>3. \A p : \A u \in Tasks : Reported(t, p)[u].claimed = task[u].claimed
    BY ReportClaims
  <2>4. running \in [Hosts -> SUBSET Tasks]
    BY DEF TypeOK
  <2>5. CASE Reclaim(h, t)
    <3>1. task' = task
      BY <2>5 DEF Reclaim, Facing, ClaimInv
    <3> QED
      BY <2>1, <2>5, <3>1, MoveClaims DEF Reclaim, Facing, machine
  <2>6. CASE mark_healing(h, t)
    BY <2>1, <2>3, <2>6, MoveClaims DEF mark_healing, Facing, machine
  <2>7. CASE reconcile(h, t)
    <3>1. \A u \in Tasks : task'[u].claimed = task[u].claimed
      BY <2>3, <2>7 DEF reconcile
    <3> QED
      BY <2>1, <2>7, <3>1, MoveClaims DEF reconcile, Facing, machine
  <2>8. CASE heal(h, t)
    <3>1. t \in host[h].todo /\ host[h].pc = "heal" /\ task' = task /\ running' = running
      BY <2>8 DEF heal, At, ClaimInv, service, machine
    <3>2. CASE MayRespawn(h, t)
      <4>1. task[t].claimed = h
        BY <3>1, <3>2 DEF MayRespawn, is_orphan, ClaimInv, Believes
      <4>2. Goto(h, t, "launch")
        BY <2>8, <3>2 DEF heal
      <4> QED
        BY <3>1, <4>1, <4>2, MoveClaims
    <3>3. CASE ~MayRespawn(h, t)
      BY <2>1, <2>8, <3>1, <3>3, MoveClaims DEF heal
    <3> QED
      BY <3>2, <3>3
  <2>9. CASE PassOver(h, t)
    BY <2>1, <2>9, MoveClaims DEF PassOver, Facing, service, machine
  <2>10. CASE Announce(h, t)
    <3>1. host[h].pc = "launch" /\ Goto(h, t, "start") /\ running' = running
      BY <2>10 DEF Announce, At, machine
    <3>2. \A u \in Tasks : task'[u].claimed = task[u].claimed
      BY <2>3, <2>10 DEF Announce
    <3> QED
      BY <2>2, <2>10, <3>1, <3>2, MoveClaims DEF Announce
  <2>11. CASE StartBackend(h, t)
    <3>1. \A g \in Hosts : running'[g] \subseteq running[g] \cup {u \in {t} : g = h}
      BY <2>4, <2>11 DEF StartBackend
    <3>2. \A u \in Tasks : task'[u].claimed = task[u].claimed
      BY <2>3, <2>11 DEF StartBackend
    <3>3. Done(h, t) /\ At(h, t, "start") /\ host[h].pc = "start"
      BY <2>11 DEF StartBackend, At
    <3> QED
      BY <2>2, <3>1, <3>2, <3>3, MoveClaims
  <2>12. CASE HoldLaunch(h, t) \/ FailLaunch(h, t)
    <3>1. running' = running /\ Done(h, t) /\ At(h, t, "start") /\ host[h].pc = "start"
      BY <2>12 DEF HoldLaunch, FailLaunch, At, machine
    <3>2. \/ task' = task \/ task' = Reported(t, "failed")
          \/ task' = [task EXCEPT ![t].paused = TRUE, ![t].phase = "failed"]
      BY <2>12 DEF HoldLaunch, FailLaunch
    <3>3. \A u \in Tasks : task'[u].claimed = task[u].claimed
      <4>1. \A u \in Tasks :
              [task EXCEPT ![t].paused = TRUE, ![t].phase = "failed"][u].claimed = task[u].claimed
        BY HoldClaims
      <4>2. \A u \in Tasks : Reported(t, "failed")[u].claimed = task[u].claimed
        BY <2>3
      <4> QED
        BY <3>2, <4>1, <4>2, Zenon
    <3> QED
      BY <2>2, <3>1, <3>3, MoveClaims
  <2>13. CASE InfraFail(h, t)
    <3>1. \A g \in Hosts : running'[g] \subseteq running[g]
      BY <2>4, <2>13 DEF InfraFail
    <3>2. \A u \in Tasks : task'[u].claimed = task[u].claimed
      BY <2>3, <2>13 DEF InfraFail
    <3>3. Done(h, t) /\ At(h, t, "start") /\ host[h].pc = "start"
      BY <2>13 DEF InfraFail, At
    <3> QED
      BY <2>2, <3>1, <3>2, <3>3, MoveClaims
  <2> QED
    BY <1>4, <2>5, <2>6, <2>7, <2>8, <2>9, <2>10, <2>11, <2>12, <2>13
<1> QED
  BY <1>1, <1>2, <1>3, <1>4 DEF HostStep

(* So does everything else, while nobody replaces a daemon or lets go of a    *)
(* claim.                                                                     *)
LEMMA EnvironmentClaimStep ==
  ASSUME ClaimsLeftAlone, TypeOK, ClaimInv, Environment
  PROVE  ClaimInv'
<1>1. ASSUME NEW d \in {"host", "reboot", "release", "retry"}, Strike(d)
      PROVE  FALSE
  <2>1. spent[d] \in Nat /\ Allowance[d] = 0
    BY DEF TypeOK, Disturbances, ClaimsLeftAlone
  <2> QED
    BY <1>1, <2>1 DEF Strike
<1>2. running \in [Hosts -> SUBSET Tasks] /\ task \in [Tasks -> TaskRecord]
  BY DEF TypeOK
<1>3. ASSUME NEW h \in Hosts, NEW t \in Tasks,
             \/ Link(h, t) \/ AgentFails(h, t) \/ SessionDies(h, t) \/ ContainerDies(h, t)
             \/ Survive(h, t) \/ Lapse(h, t)
      PROVE  ClaimInv'
  <2>1. host' = host
    BY <1>3 DEF Link, AgentFails, SessionDies, ContainerDies, Survive, Lapse, service
  <2>2. task' = task \/ task' = Reported(t, "failed")
    BY <1>3 DEF Link, AgentFails, SessionDies, ContainerDies, Survive, Lapse, service
  <2>3. \A u \in Tasks : task'[u].claimed = task[u].claimed
    BY <2>2, ReportClaims
  <2>4. running' = running \/ running' = [running EXCEPT ![h] = @ \ {t}]
    BY <1>3 DEF Link, AgentFails, SessionDies, ContainerDies, Survive, Lapse, machine
  <2>5. \A g \in Hosts : running'[g] \subseteq running[g]
    BY <1>2, <2>4
  <2> QED
    BY <2>1, <2>3, <2>5, StillClaims
<1>4. ASSUME NEW h \in Hosts, DockerStops(h) \/ DockerReturns(h) \/ GoOnline(h) \/ Flickers(h)
      PROVE  ClaimInv'
  <2>1. host' = host /\ task' = task
    BY <1>4 DEF DockerStops, DockerReturns, GoOnline, Flickers, service
  <2>2. running' = running \/ running' = [running EXCEPT ![h] = {}]
    BY <1>4 DEF DockerStops, DockerReturns, GoOnline, Flickers, machine, Gone
  <2>3. \A g \in Hosts : running'[g] \subseteq running[g]
    BY <1>2, <2>2
  <2> QED
    BY <2>1, <2>3, StillClaims
<1>5. ASSUME NEW h \in Hosts, HostRestarts(h) \/ Reboots(h) \/ reclaim(h)
      PROVE  FALSE
  BY <1>1, <1>5 DEF HostRestarts, Reboots, reclaim
<1>6. ASSUME NEW t \in Tasks, release(t) \/ retry_task(t)
      PROVE  FALSE
  BY <1>1, <1>6 DEF release, retry_task
<1>7. ASSUME NEW t \in Tasks, Finish(t) \/ Revive(t)
      PROVE  ClaimInv'
  <2>1. host' = host /\ running' = running
    BY <1>7 DEF Finish, Revive, machine
  <2>2. \A u \in Tasks : task'[u].claimed = task[u].claimed
    <3>1. \/ task' = [task EXCEPT ![t].stage = "finished"]
          \/ task' = [task EXCEPT ![t].stage = "open"]
      BY <1>7 DEF Finish, Revive
    <3>2. \A u \in Tasks : /\ [task EXCEPT ![t].stage = "finished"][u].claimed = task[u].claimed
                           /\ [task EXCEPT ![t].stage = "open"][u].claimed = task[u].claimed
      BY StageClaims
    <3> QED
      BY <3>1, <3>2, Zenon
  <2> QED
    BY <2>1, <2>2, StillClaims
<1>8. CASE ServiceRestarts
  <2>1. host' = host /\ running' = running
    BY <1>8 DEF ServiceRestarts, machine
  <2>2. \A u \in Tasks : task'[u].claimed = task[u].claimed
    BY <1>2, <1>8 DEF ServiceRestarts, TaskRecord
  <2> QED
    BY <2>1, <2>2, StillClaims
<1> QED
  BY <1>3, <1>4, <1>5, <1>6, <1>7, <1>8 DEF Environment

(* No daemon believes anything before its first poll.                         *)
LEMMA InitClaim == Init => ClaimInv
<1> SUFFICES ASSUME Init PROVE ClaimInv
  OBVIOUS
<1>1. Nil \notin Hosts
  BY FleetAssumption
<1>2. ASSUME NEW h \in Hosts
      PROVE  host[h].pc = "idle" /\ running[h] = {}
  BY DEF Init, Idle
<1>3. \A t \in Tasks : task[t].claimed = Nil
  BY DEF Init
<1> QED
  BY <1>1, <1>2, <1>3 DEF ClaimInv, Believes, At

(* While nobody replaces a daemon or lets go of a claim, whatever sessions,   *)
(* containers, Docker and the service itself do, every daemon is right about  *)
(* the claims it acts on: the inductive invariant of the theorems below.      *)
THEOREM ClaimsKnown == ASSUME ClaimsLeftAlone PROVE Spec => []ClaimInv
<1>1. TypeOK /\ ClaimInv /\ [Next]_vars => ClaimInv'
  <2> SUFFICES ASSUME TypeOK, ClaimInv, [Next]_vars PROVE ClaimInv'
    OBVIOUS
  <2>1. CASE \E h \in Hosts : HostStep(h)
    BY <2>1, HostClaimStep
  <2>2. CASE Environment
    BY <2>2, EnvironmentClaimStep
  <2>3. CASE UNCHANGED vars
    BY <2>3, StillClaims DEF vars, service, machine
  <2> QED
    BY <2>1, <2>2, <2>3 DEF Next
<1> QED
  BY InitClaim, FleetTypes, <1>1, PTL DEF Spec

(* Then a container runs under the claim of its host, and nowhere else.       *)
THEOREM RunsAlone == ASSUME ClaimsLeftAlone PROVE Spec => [](RunsUnderClaim /\ OneHostRuns)
<1>1. ClaimInv => RunsUnderClaim /\ OneHostRuns
  BY DEF ClaimInv, RunsUnderClaim, OneHostRuns
<1> QED
  BY ClaimsKnown, <1>1, PTL

(* And a launch, which never looks at the claim, still has it to its end.     *)
THEOREM LaunchesClaimed == ASSUME ClaimsLeftAlone PROVE Spec => []LaunchUnderClaim
<1>1. ClaimInv => LaunchUnderClaim
  BY DEF ClaimInv, LaunchUnderClaim
<1> QED
  BY ClaimsKnown, <1>1, PTL

(* A daemon's step moves no other daemon, and leaves the claims of other      *)
(* hosts as they are.                                                         *)
LEMMA StepLeavesOthers ==
  ASSUME TypeOK, ClaimInv, NEW h \in Hosts, HostStep(h)
  PROVE  /\ \A g \in Hosts \ {h} : host'[g] = host[g]
         /\ \A u \in Tasks : task[u].claimed \notin {Nil, h} => task'[u].claimed = task[u].claimed
<1> DEFINE Stands(g) == host'[g] = host[g]
           Keeps(u)  == task[u].claimed \notin {Nil, h} => task'[u].claimed = task[u].claimed
<1>1. host \in [Hosts -> HostRecord] /\ task \in [Tasks -> TaskRecord]
  BY DEF TypeOK
<1>2. CASE Poll(h)
  <2>1. task' = task
    BY <1>2 DEF Poll, service
  <2>2. \A g \in Hosts \ {h} : Stands(g)
    BY <1>1, <1>2 DEF Poll
  <2> QED
    BY <2>1, <2>2
<1>3. ASSUME NEW t \in Tasks,
             \/ Reclaim(h, t) \/ mark_healing(h, t)
             \/ spawn_one(h, t) \/ reconcile(h, t) \/ heal(h, t) \/ cleanup(h, t) \/ PassOver(h, t)
             \/ Announce(h, t) \/ StartBackend(h, t)
             \/ HoldLaunch(h, t) \/ FailLaunch(h, t) \/ InfraFail(h, t)
      PROVE  (\A g \in Hosts \ {h} : Stands(g)) /\ \A u \in Tasks : Keeps(u)
  <2>1. Done(h, t) \/ (\E pc \in {"heal", "launch", "start"} : Goto(h, t, pc))
    BY <1>3 DEF Reclaim, mark_healing, spawn_one, reconcile, heal, cleanup, PassOver, Announce,
                StartBackend, HoldLaunch, FailLaunch, InfraFail
  <2>2. \A g \in Hosts \ {h} : Stands(g)
    BY <1>1, <2>1 DEF Done, Goto
  <2> SUFFICES \A u \in Tasks : Keeps(u)
    BY <2>2
  <2>3. ASSUME NEW p, NEW u \in Tasks
        PROVE  Reported(t, p)[u].claimed = task[u].claimed
    BY ReportClaims
  <2>4. CASE Reclaim(h, t)
    BY <2>4 DEF Reclaim, Facing, ClaimInv
  <2>5. CASE mark_healing(h, t) \/ reconcile(h, t)
    BY <2>3, <2>5 DEF mark_healing, reconcile
  <2>6. CASE spawn_one(h, t)
    <3>1. \/ task' = task
          \/ task' = [task EXCEPT ![t].claimed = h, ![t].phase = Nil] /\ task[t].claimed \in {Nil, h}
      BY <2>6 DEF spawn_one, CanClaim
    <3> QED
      BY <1>1, <3>1
  <2>7. CASE heal(h, t) \/ PassOver(h, t)
    BY <2>7 DEF heal, PassOver, service
  <2>8. CASE cleanup(h, t)
    <3>1. \/ task' = task
          \/ task' = Released(t) /\ Mine(h, t)
      BY <2>8 DEF cleanup, ReleaseLingering
    <3>2. Mine(h, t) => task[t].claimed = h
      BY <2>8 DEF cleanup, Facing, ClaimInv, Believes
    <3> QED
      BY <1>1, <3>1, <3>2 DEF Released
  <2>9. CASE Announce(h, t) \/ StartBackend(h, t) \/ FailLaunch(h, t) \/ InfraFail(h, t)
    BY <2>3, <2>9 DEF Announce, StartBackend, FailLaunch, InfraFail
  <2>10. CASE HoldLaunch(h, t)
    <3>1. \/ task' = task
          \/ task' = [task EXCEPT ![t].paused = TRUE, ![t].phase = "failed"]
      BY <2>10 DEF HoldLaunch
    <3>2. \A u \in Tasks : [task EXCEPT ![t].paused = TRUE, ![t].phase = "failed"][u].claimed
                            = task[u].claimed
      BY HoldClaims
    <3> QED
      BY <3>1, <3>2
  <2> QED
    BY <1>3, <2>4, <2>5, <2>6, <2>7, <2>8, <2>9, <2>10
<1> QED
  BY <1>2, <1>3 DEF HostStep

(* What the environment leaves alone: no checkout is made or lost by it, and   *)
(* one of its steps either keeps passes, Docker and streams, or is of those few. *)
LEMMA EnvironmentLeaves ==
  ASSUME Environment
  PROVE  /\ workspace' = workspace
         /\ \/ UNCHANGED <<host, docker, online>>
            \/ \E h \in Hosts : (DockerStops(h) \/ DockerReturns(h)) /\ UNCHANGED <<host, online>>
            \/ \E h \in Hosts : (HostRestarts(h) \/ Reboots(h)) /\ UNCHANGED <<task, docker>>
            \/ \E h \in Hosts : GoOnline(h) /\ UNCHANGED <<host, docker>>
            \/ (ServiceRestarts \/ \E h \in Hosts : Flickers(h)) /\ UNCHANGED <<host, docker>>
<1> DEFINE Still == UNCHANGED <<host, docker, online, workspace>>
<1>1. ASSUME NEW h \in Hosts, NEW t \in Tasks,
             Link(h, t) \/ AgentFails(h, t) \/ SessionDies(h, t)
      PROVE  Still
  BY <1>1 DEF Link, AgentFails, SessionDies, service, machine
<1>2. ASSUME NEW h \in Hosts, NEW t \in Tasks, ContainerDies(h, t) \/ Survive(h, t) \/ Lapse(h, t)
      PROVE  Still
  BY <1>2 DEF ContainerDies, Survive, Lapse, service, machine
<1>3. ASSUME NEW h \in Hosts, DockerStops(h) \/ DockerReturns(h)
      PROVE  UNCHANGED <<host, online, workspace>>
  BY <1>3 DEF DockerStops, DockerReturns, service
<1>4. ASSUME NEW h \in Hosts, HostRestarts(h) \/ Reboots(h)
      PROVE  UNCHANGED <<task, docker, workspace>>
  BY <1>4 DEF HostRestarts, Reboots, machine
<1>5. ASSUME NEW h \in Hosts, GoOnline(h) \/ Flickers(h)
      PROVE  UNCHANGED <<host, docker, workspace>>
  BY <1>5 DEF GoOnline, Flickers, machine
<1>6. ASSUME NEW h \in Hosts, reclaim(h)
      PROVE  Still
  BY <1>6 DEF reclaim, machine
<1>7. ASSUME NEW t \in Tasks, release(t) \/ retry_task(t) \/ Finish(t) \/ Revive(t)
      PROVE  Still
  BY <1>7 DEF release, retry_task, Finish, Revive, machine
<1>8. ASSUME ServiceRestarts
      PROVE  UNCHANGED <<host, docker, workspace>>
  BY <1>8 DEF ServiceRestarts, machine
<1>9. CASE Still
  BY <1>9
<1> HIDE DEF Still
<1> QED
  BY <1>1, <1>2, <1>3, <1>4, <1>5, <1>6, <1>7, <1>8, <1>9 DEF Environment

(* And no pass takes a claim from another host.                               *)
THEOREM OthersKeepClaims == ASSUME ClaimsLeftAlone PROVE Spec => OthersClaimsStand
<1>1. TypeOK /\ ClaimInv /\ [Next]_vars
        => [\A h \in Hosts, t \in Tasks :
              host'[h] # host[h] /\ task[t].claimed \notin {Nil, h}
                => task'[t].claimed = task[t].claimed]_vars
  <2> DEFINE Stand(h, t) == host'[h] # host[h] /\ task[t].claimed \notin {Nil, h}
                              => task'[t].claimed = task[t].claimed
  <2> SUFFICES ASSUME TypeOK, ClaimInv, Next, NEW h \in Hosts, NEW t \in Tasks PROVE Stand(h, t)
    OBVIOUS
  <2>1. ASSUME NEW g \in Hosts, HostStep(g)
        PROVE  Stand(h, t)
    BY <2>1, StepLeavesOthers
  <2>2. CASE Environment
    <3>1. host' = host \/ task' = task
      BY <2>2, EnvironmentLeaves
    <3> QED
      BY <3>1
  <2> QED
    BY <2>1, <2>2 DEF Next
<1> QED
  BY FleetTypes, ClaimsKnown, <1>1, PTL DEF Spec, OthersClaimsStand
-----------------------------------------------------------------------------
(* Budgets *)

(* The respawns counted are no fewer than those made since the window last    *)
(* ran out; a count that starts anew at the next respawn belongs to a task     *)
(* without such respawns, and only a failed launch, or one under way, keeps it *)
(* from that. Nothing is respawned but a task without a session.               *)
Counted(h, t) ==
  /\ tries[h][t] <= respawns[h][t]
  /\ window[h][t] = "survived" => tries[h][t] = 0
  /\ window[h][t] = "lapsed" => tries[h][t] = 0 \/ t \in preSession[h] \/ At(h, t, "start")
  /\ At(h, t, "launch") \/ At(h, t, "start") => respawns[h][t] = 0 \/ t \notin session[h]

BudgetInv == /\ TypeOK
             /\ \A h \in Hosts, t \in Tasks : Counted(h, t)

(* A disturbance that is not allowed for never strikes.                       *)
LEMMA NeverStrikes ==
  ASSUME TypeOK, NEW d \in Disturbances, Allowance[d] = 0
  PROVE  ~Strike(d)
<1>1. spent[d] \in Nat
  BY DEF TypeOK
<1> QED
  BY <1>1 DEF Strike

(* What a daemon is at once it is done with a task, or goes on with it. *)
LEMMA WhereNext ==
  ASSUME host \in [Hosts -> HostRecord], NEW g \in Hosts, NEW u \in Tasks,
         NEW h \in Hosts, NEW t \in Tasks
  PROVE  /\ Done(g, u) /\ (At(h, t, "launch") \/ At(h, t, "start"))' =>
              g # h /\ host'[h] = host[h]
         /\ \A pc \in {"heal", "launch", "start"} : Goto(g, u, pc) =>
              IF g = h THEN host'[h].pc = pc /\ host'[h].at = u ELSE host'[h] = host[h]
         /\ Done(g, u) \/ Goto(g, u, "heal") \/ Goto(g, u, "launch") \/ Goto(g, u, "start") =>
              g = h \/ host'[h] = host[h]
<1>1. ASSUME Done(g, u), g = h
      PROVE  host'[h].pc \in {"idle", "reclaim", "mark", "work"}
  <2>1. host'[h] = After(h, u) /\ host[h] \in HostRecord
    BY <1>1 DEF Done
  <2>2. DOMAIN host[h] = {"pc", "todo", "at", "snap", "startup"}
    BY <2>1 DEF HostRecord
  <2> QED
    BY <2>1, <2>2 DEF After, Idle
<1>2. Done(g, u) /\ g # h => host'[h] = host[h]
  BY DEF Done
<1>3. ASSUME NEW pc \in {"heal", "launch", "start"}, Goto(g, u, pc)
      PROVE  IF g = h THEN host'[h].pc = pc /\ host'[h].at = u ELSE host'[h] = host[h]
  BY <1>3 DEF Goto, HostRecord
<1> QED
  BY <1>1, <1>2, <1>3 DEF At

(* A step that leaves the budget of (h, t), its session and its launch alone, *)
(* or starts the budget anew, leaves it counted.                              *)
LEMMA CountedStays ==
  ASSUME NEW h \in Hosts, NEW t \in Tasks, Counted(h, t),
         respawns \in [Hosts -> [Tasks -> 0 .. MaxRespawns]],
         tries \in [Hosts -> [Tasks -> 0 .. MaxRespawns + 1]],
         At(h, t, "launch")' \/ At(h, t, "start")' =>
           \/ respawns'[h][t] = 0
           \/ t \notin session'[h]
           \/ /\ At(h, t, "launch") \/ At(h, t, "start")
              /\ respawns'[h][t] = respawns[h][t]
              /\ t \in session'[h] => t \in session[h],
         \/ /\ respawns'[h][t] = respawns[h][t] /\ tries'[h][t] = tries[h][t]
            /\ \/ window'[h][t] \in {"fresh", "alive", "polled", "ripe"}
               \/ /\ window'[h][t] = window[h][t]
                  /\ t \in preSession[h] => t \in preSession'[h]
                  /\ window[h][t] = "lapsed" /\ At(h, t, "start") => At(h, t, "start")'
         \/ /\ respawns'[h][t] = 0 /\ tries'[h][t] = 0
         \/ /\ respawns'[h][t] = respawns[h][t] /\ tries'[h][t] = 0
  PROVE  Counted(h, t)'
<1>1. respawns[h][t] \in 0 .. MaxRespawns
  OBVIOUS
<1>2. (At(h, t, "launch") \/ At(h, t, "start") => respawns[h][t] = 0 \/ t \notin session[h])'
  BY DEF Counted
<1>3. tries'[h][t] <= respawns'[h][t]
  BY <1>1, FleetAssumption DEF Counted
<1>4. window'[h][t] = "survived" => tries'[h][t] = 0
  BY DEF Counted
<1>5. window'[h][t] = "lapsed" => tries'[h][t] = 0 \/ t \in preSession'[h] \/ At(h, t, "start")'
  BY DEF Counted
<1> QED
  BY <1>2, <1>3, <1>4, <1>5 DEF Counted

(* Every step of a daemon leaves every budget counted. *)
LEMMA HostCounts ==
  ASSUME BudgetInv, NEW g \in Hosts, HostStep(g), NEW h \in Hosts, NEW t \in Tasks
  PROVE  Counted(h, t)'
<1>1. /\ respawns \in [Hosts -> [Tasks -> 0 .. MaxRespawns]]
      /\ tries \in [Hosts -> [Tasks -> 0 .. MaxRespawns + 1]]
      /\ window \in [Hosts -> [Tasks -> {"fresh", "alive", "polled", "ripe", "survived", "lapsed"}]]
      /\ preSession \in [Hosts -> SUBSET Tasks] /\ session \in [Hosts -> SUBSET Tasks]
      /\ host \in [Hosts -> HostRecord]
      /\ Counted(h, t)
  BY DEF BudgetInv, TypeOK
<1> DEFINE Launch == At(h, t, "launch") \/ At(h, t, "start")
<1>2. CASE Poll(g)
  <2>1. respawns' = respawns /\ tries' = tries /\ preSession' = preSession /\ session' = session
    BY <1>2 DEF Poll, machine
  <2>2. window'[h][t] \in {window[h][t], "alive", "polled", "ripe"}
    BY <1>1, <1>2 DEF Poll
  <2>3. At(h, t, "launch")' \/ At(h, t, "start")' => host'[h] = host[h]
    BY <1>1, <1>2 DEF Poll, At
  <2>4. At(h, t, "start") => At(h, t, "start")'
    BY <1>1, <1>2 DEF Poll, At
  <2> QED
    BY <1>1, <2>1, <2>2, <2>3, <2>4, CountedStays DEF At
<1>3. ASSUME NEW u \in Tasks, heal(g, u)
      PROVE  Counted(h, t)'
  <2>0. At(g, u, "heal") /\ session' = session /\ preSession' = preSession
    BY <1>3 DEF heal, machine
  <2>1. CASE g = h /\ u = t /\ MayRespawn(g, u)
    <3>1. /\ respawn_count(h, t) < MaxRespawns
          /\ respawns'[h][t] = respawn_count(h, t) + 1
          /\ tries'[h][t] = IF tries[h][t] <= MaxRespawns THEN tries[h][t] + 1 ELSE tries[h][t]
          /\ window'[h][t] = "fresh" /\ t \notin session'[h]
      BY <1>1, <1>3, <2>0, <2>1 DEF heal, MayRespawn, Stamped, is_orphan
    <3>2. tries[h][t] <= respawn_count(h, t)
      <4>1. ~At(h, t, "start")
        BY <2>0, <2>1 DEF At
      <4> QED
        BY <1>1, <4>1 DEF respawn_count, Counted
    <3>3. /\ respawn_count(h, t) \in Nat /\ tries[h][t] \in Nat /\ MaxRespawns \in Nat
      BY <1>1, FleetAssumption DEF respawn_count
    <3> QED
      BY <3>1, <3>2, <3>3 DEF Counted
  <2>2. CASE ~(g = h /\ u = t /\ MayRespawn(g, u))
    <3>1. respawns'[h][t] = respawns[h][t] /\ tries'[h][t] = tries[h][t]
      BY <1>1, <1>3, <2>2 DEF heal
    <3>2. window'[h][t] \in {window[h][t], "fresh"}
      BY <1>1, <1>3 DEF heal, Stamped
    <3>3. At(h, t, "launch")' \/ At(h, t, "start")' => host'[h] = host[h]
      BY <1>1, <1>3, <2>2, WhereNext DEF heal, At
    <3>4. At(h, t, "start") => At(h, t, "start")'
      <4>1. Done(g, u) \/ Goto(g, u, "launch")
        BY <1>3 DEF heal
      <4>2. g = h \/ host'[h] = host[h]
        BY <1>1, <4>1, WhereNext
      <4> QED
        BY <2>0, <4>2 DEF At
    <3> QED
      BY <1>1, <2>0, <3>1, <3>2, <3>3, <3>4, CountedStays DEF At
  <2> QED
    BY <2>1, <2>2
<1>4. ASSUME NEW u \in Tasks, spawn_one(g, u) \/ cleanup(g, u)
      PROVE  Counted(h, t)'
  <2>0. host[g].pc = "work" /\ (Done(g, u) \/ Goto(g, u, "launch"))
    BY <1>4 DEF spawn_one, cleanup, Facing
  <2>1. \/ UNCHANGED budget /\ Done(g, u)
        \/ /\ respawns' = [respawns EXCEPT ![g][u] = 0]
           /\ tries' = [tries EXCEPT ![g][u] = 0]
           /\ window' = Stamped(g, u)
           /\ preSession' = [preSession EXCEPT ![g] = @ \ {u}]
    BY <1>4 DEF spawn_one, cleanup
  <2>2. \/ /\ respawns'[h][t] = respawns[h][t] /\ tries'[h][t] = tries[h][t]
           /\ window'[h][t] = window[h][t]
           /\ t \in preSession[h] => t \in preSession'[h]
           /\ h # g \/ t # u \/ Done(g, u)
        \/ respawns'[h][t] = 0 /\ tries'[h][t] = 0
    BY <1>1, <2>1 DEF budget, Stamped
  <2>3. t \in session'[h] => t \in session[h]
    <3>1. session' = session \/ session' = [session EXCEPT ![g] = @ \ {u}]
      BY <1>4 DEF spawn_one, cleanup, StopLive, machine
    <3>2. CASE session' = [session EXCEPT ![g] = @ \ {u}]
      BY <1>1, <3>2
    <3> QED
      BY <3>1, <3>2
  <2>4. (h # g \/ t # u \/ Done(g, u)) /\ (At(h, t, "launch")' \/ At(h, t, "start")') =>
          host'[h] = host[h]
    BY <1>1, <2>0, WhereNext DEF At
  <2>5. At(h, t, "start") => At(h, t, "start")'
    <3>1. g = h \/ host'[h] = host[h]
      BY <1>1, <2>0, WhereNext
    <3> QED
      BY <2>0, <3>1 DEF At
  <2> QED
    BY <1>1, <2>2, <2>3, <2>4, <2>5, CountedStays DEF At
<1>5. ASSUME NEW u \in Tasks, InfraFail(g, u)
      PROVE  Counted(h, t)'
  <2>0. At(g, u, "start") /\ Done(g, u) /\ respawns' = respawns /\ tries' = tries
    BY <1>5 DEF InfraFail
  <2>1. \/ window' = Stamped(g, u)
        \/ window' = window /\ preSession' = preSession /\ u \in session[g]
    BY <1>5 DEF InfraFail
  <2>2. /\ session' = session \/ session' = [session EXCEPT ![g] = @ \ {u}]
        /\ preSession' = preSession \/ preSession' = [preSession EXCEPT ![g] = @ \cup {u}]
    BY <1>5 DEF InfraFail
  <2>3. /\ t \in session'[h] => t \in session[h]
        /\ t \in preSession[h] => t \in preSession'[h]
    BY <1>1, <2>2
  <2>4. At(h, t, "launch")' \/ At(h, t, "start")' => host'[h] = host[h]
    BY <1>1, <2>0, WhereNext
  <2>5. CASE g = h /\ u = t
    <3>1. window'[h][t] = "fresh" \/ (window' = window /\ respawns[h][t] = 0)
      BY <1>1, <2>0, <2>1, <2>5 DEF Stamped, Counted
    <3>2. respawns[h][t] = 0 => tries[h][t] = 0
      BY <1>1 DEF Counted
    <3> QED
      BY <1>1, <2>0, <2>3, <2>4, <3>1, <3>2, CountedStays DEF At
  <2>6. CASE ~(g = h /\ u = t)
    <3>1. window'[h][t] \in {window[h][t], "fresh"}
      <4>1. CASE window' = Stamped(g, u)
        BY <1>1, <4>1 DEF Stamped
      <4> QED
        BY <2>1, <4>1
    <3>2. At(h, t, "start") => At(h, t, "start")'
      BY <1>1, <2>0, <2>6, WhereNext DEF At
    <3> QED
      BY <1>1, <2>0, <2>3, <2>4, <3>1, <3>2, CountedStays DEF At
  <2> QED
    BY <2>5, <2>6
<1>6. ASSUME NEW u \in Tasks, StartBackend(g, u) \/ HoldLaunch(g, u) \/ FailLaunch(g, u)
      PROVE  Counted(h, t)'
  <2>0. At(g, u, "start") /\ Done(g, u) /\ respawns' = respawns /\ window' = window
        /\ tries' = Outlasted(g, u)
    BY <1>6 DEF StartBackend, HoldLaunch, FailLaunch
  <2>1. /\ session' = session \/ session' = [session EXCEPT ![g] = @ \cup {u}]
        /\ preSession' = preSession \/ preSession' = [preSession EXCEPT ![g] = @ \ {u}]
    BY <1>6 DEF StartBackend, HoldLaunch, FailLaunch, machine
  <2>2. At(h, t, "launch")' \/ At(h, t, "start")' => host'[h] = host[h] /\ g # h
    BY <1>1, <2>0, WhereNext
  <2>3. CASE g = h /\ u = t
    <3>1. tries'[h][t] = IF window[h][t] = "lapsed" THEN 0 ELSE tries[h][t]
      BY <1>1, <2>0, <2>3 DEF Outlasted
    <3>2. ~(At(h, t, "launch")' \/ At(h, t, "start")')
      BY <2>2, <2>3
    <3>3. 0 <= respawns[h][t]
      BY <1>1, FleetAssumption
    <3> QED
      BY <1>1, <2>0, <3>1, <3>2, <3>3 DEF Counted
  <2>4. CASE ~(g = h /\ u = t)
    <3>1. tries'[h][t] = tries[h][t]
      BY <1>1, <2>0, <2>4 DEF Outlasted
    <3>2. /\ t \in session'[h] => t \in session[h]
          /\ t \in preSession[h] => t \in preSession'[h]
      BY <1>1, <2>1, <2>4
    <3>3. At(h, t, "start") => At(h, t, "start")'
      BY <1>1, <2>0, <2>4, WhereNext DEF At
    <3> QED
      BY <1>1, <2>0, <2>2, <3>1, <3>2, <3>3, CountedStays DEF At
  <2> QED
    BY <2>3, <2>4
<1>7. ASSUME NEW u \in Tasks,
             \/ Reclaim(g, u) \/ mark_healing(g, u) \/ reconcile(g, u) \/ PassOver(g, u)
             \/ Announce(g, u)
      PROVE  Counted(h, t)'
  <2>1. UNCHANGED budget /\ session' = session
    BY <1>7 DEF Reclaim, mark_healing, reconcile, PassOver, Announce, machine
  <2>2. \/ (Done(g, u) \/ Goto(g, u, "heal")) /\ host[g].pc \in {"reclaim", "mark", "work"}
        \/ At(g, u, "launch") /\ Goto(g, u, "start")
    BY <1>7 DEF Reclaim, mark_healing, reconcile, PassOver, Announce, Facing
  <2>3. (At(h, t, "launch") \/ At(h, t, "start"))' => At(h, t, "launch") \/ At(h, t, "start")
    BY <1>1, <2>2, WhereNext DEF At
  <2>4. At(h, t, "start") => At(h, t, "start")'
    <3>1. g = h \/ host'[h] = host[h]
      BY <1>1, <2>2, WhereNext
    <3>2. CASE At(g, u, "launch") /\ Goto(g, u, "start")
      BY <1>1, <3>1, <3>2 DEF At
    <3>3. CASE host[g].pc \in {"reclaim", "mark", "work"}
      BY <3>1, <3>3 DEF At
    <3> QED
      BY <2>2, <3>2, <3>3
  <2> QED
    BY <1>1, <2>1, <2>3, <2>4, CountedStays DEF budget, At
<1> QED
  BY <1>2, <1>3, <1>4, <1>5, <1>6, <1>7 DEF HostStep

(* A host respawns a task MaxRespawns times at most in one reset window (heal *)
(* and _spawn, spawner.py), whatever fails, restarts, is slow or is released  *)
(* meanwhile, and however often.                                              *)
THEOREM RespawnsCapped == Spec => []CrashLoopCapped
<1>1. Init => BudgetInv
  BY InitType, FleetAssumption DEF Init, BudgetInv, Counted, At, Idle
<1>2. BudgetInv /\ TypeOK' /\ [Next]_vars => BudgetInv'
  <2> SUFFICES ASSUME BudgetInv, TypeOK', [Next]_vars, NEW h \in Hosts, NEW t \in Tasks
               PROVE  Counted(h, t)'
    BY DEF BudgetInv
  <2>3. /\ respawns \in [Hosts -> [Tasks -> 0 .. MaxRespawns]]
        /\ tries \in [Hosts -> [Tasks -> 0 .. MaxRespawns + 1]]
        /\ window \in [Hosts -> [Tasks -> {"fresh", "alive", "polled", "ripe", "survived", "lapsed"}]]
        /\ session \in [Hosts -> SUBSET Tasks] /\ host \in [Hosts -> HostRecord]
        /\ Counted(h, t)
    BY DEF BudgetInv, TypeOK
  <2>4. ASSUME NEW g \in Hosts, NEW u \in Tasks, Survive(g, u)
        PROVE  Counted(h, t)'
    <3>1. /\ respawns' = respawns /\ session' = session /\ host' = host /\ preSession' = preSession
          /\ window' = [window EXCEPT ![g][u] = "survived"]
          /\ tries' = [tries EXCEPT ![g][u] = 0]
      BY <2>4 DEF Survive, machine
    <3>2. \/ respawns'[h][t] = respawns[h][t] /\ tries'[h][t] = tries[h][t]
               /\ window'[h][t] = window[h][t]
          \/ respawns'[h][t] = respawns[h][t] /\ tries'[h][t] = 0
      BY <2>3, <3>1
    <3> QED
      BY <2>3, <3>1, <3>2, CountedStays DEF At
  <2>5. ASSUME NEW g \in Hosts, Fresh(g), session' = session \/ session' = [session EXCEPT ![g] = {}]
        PROVE  Counted(h, t)'
    <3>1. \/ /\ respawns'[h][t] = respawns[h][t] /\ tries'[h][t] = tries[h][t]
             /\ window'[h][t] = window[h][t] /\ preSession'[h] = preSession[h]
             /\ host'[h] = host[h]
          \/ respawns'[h][t] = 0 /\ tries'[h][t] = 0
      BY <2>3, <2>5 DEF Fresh, BudgetInv, TypeOK
    <3>2. t \in session'[h] => t \in session[h]
      BY <2>3, <2>5
    <3> QED
      BY <2>3, <3>1, <3>2, CountedStays DEF At
  <2>6. ASSUME NEW g \in Hosts, NEW u \in Tasks, Lapse(g, u)
        PROVE  Counted(h, t)'
    <3>1. /\ respawns' = respawns /\ session' = session /\ host' = host /\ preSession' = preSession
          /\ window' = [window EXCEPT ![g][u] = "lapsed"]
          /\ tries' = IF u \in preSession[g] \/ At(g, u, "start") THEN tries
                      ELSE [tries EXCEPT ![g][u] = 0]
      BY <2>6 DEF Lapse, machine
    <3>2. CASE g = h /\ u = t
      <4>1. CASE t \in preSession[h] \/ At(h, t, "start")
        BY <2>3, <3>1, <3>2, <4>1 DEF Counted, At
      <4>2. CASE ~(t \in preSession[h] \/ At(h, t, "start"))
        BY <2>3, <3>1, <3>2, <4>2, CountedStays DEF At
      <4> QED
        BY <4>1, <4>2
    <3>3. CASE ~(g = h /\ u = t)
      <4>1. tries'[h][t] = tries[h][t] /\ window'[h][t] = window[h][t]
        BY <2>3, <3>1, <3>3
      <4> QED
        BY <2>3, <3>1, <4>1, CountedStays DEF At
    <3> QED
      BY <3>2, <3>3
  <2>7. ASSUME UNCHANGED budget, host' = host, t \in session'[h] => t \in session[h]
        PROVE  Counted(h, t)'
    BY <2>3, <2>7, CountedStays DEF budget, At
  <2>8. CASE Environment
    <3>1. ASSUME NEW g \in Hosts, NEW u \in Tasks,
                 Link(g, u) \/ AgentFails(g, u) \/ SessionDies(g, u) \/ ContainerDies(g, u)
          PROVE  Counted(h, t)'
      <4>1. UNCHANGED budget /\ host' = host
        BY <3>1 DEF Link, AgentFails, SessionDies, ContainerDies
      <4>2. session' = session \/ session' = [session EXCEPT ![g] = @ \ {u}]
        BY <3>1 DEF Link, AgentFails, SessionDies, ContainerDies, machine
      <4> QED
        BY <2>3, <2>7, <4>1, <4>2
    <3>2. ASSUME NEW g \in Hosts,
                 DockerStops(g) \/ DockerReturns(g) \/ GoOnline(g) \/ Flickers(g) \/ reclaim(g)
          PROVE  Counted(h, t)'
      <4>1. UNCHANGED budget /\ host' = host
        BY <3>2, Zenon DEF DockerStops, DockerReturns, GoOnline, Flickers, reclaim
      <4>2. session' = session \/ session' = [session EXCEPT ![g] = {}]
        BY <3>2, Zenon DEF DockerStops, DockerReturns, GoOnline, Flickers, reclaim, Gone, machine
      <4> QED
        BY <2>3, <2>7, <4>1, <4>2
    <3>3. ASSUME NEW g \in Hosts, HostRestarts(g) \/ Reboots(g)
          PROVE  Counted(h, t)'
      BY <2>5, <3>3 DEF HostRestarts, Reboots, Gone, machine
    <3>4. ASSUME \/ \E u \in Tasks : release(u) \/ retry_task(u) \/ Finish(u) \/ Revive(u)
                 \/ ServiceRestarts
          PROVE  Counted(h, t)'
      <4>1. UNCHANGED <<host, budget, machine>>
        BY <3>4, Zenon DEF release, retry_task, Finish, Revive, ServiceRestarts
      <4> QED
        BY <2>7, <4>1 DEF machine
    <3> QED
      BY <2>4, <2>6, <2>8, <3>1, <3>2, <3>3, <3>4 DEF Environment
  <2>9. CASE UNCHANGED vars
    BY <2>7, <2>9 DEF vars, machine
  <2> QED
    BY <2>8, <2>9, HostCounts DEF Next
<1>3. BudgetInv => CrashLoopCapped
  <2> SUFFICES ASSUME BudgetInv, NEW h \in Hosts, NEW t \in Tasks PROVE tries[h][t] <= MaxRespawns
    BY DEF CrashLoopCapped
  <2>1. respawns[h][t] \in 0 .. MaxRespawns /\ tries[h][t] <= respawns[h][t]
        /\ tries[h][t] \in 0 .. MaxRespawns + 1
    BY DEF BudgetInv, TypeOK, Counted
  <2> QED
    BY <2>1, FleetAssumption
<1> QED
  BY FleetTypes, <1>1, <1>2, <1>3, PTL DEF Spec
-----------------------------------------------------------------------------
(* Outages *)

(* The host is on its own. *)
OneHost == \A g, h \in Hosts : g = h

Snap(h, t)      == host[h].snap[t]
Launching(h, t) == host[h].pc \in {"launch", "start"} /\ host[h].at = t
Ours(h, t)      == task[t].claimed = h /\ ~task[t].paused
Partial(h, t)   == respawns[h][t] \in 1 .. MaxRespawns - 1

(* The pass under way has yet to come to t, or to mark it.                    *)
Ahead(h, t)  == (host[h].pc \in {"reclaim", "mark"} \/ t \in host[h].todo) /\ ~Launching(h, t)
ToMark(h, t) == host[h].pc = "reclaim" \/ Facing(h, "mark", t)

(* What a pass knows of t until it comes to it: a claim the host has and that *)
(* is not held, it has had since the poll; so it is with a launch under way.  *)
PassFits(h, t) ==
  /\ \A p \in Phases : Snap(h, t).status = p => Snap(h, t).phase = p
  /\ host[h].pc = "idle" => host[h].todo = {}
  /\ At(h, t, "heal") => t \in host[h].todo /\ Open(h, t)
  /\ Ahead(h, t) /\ Ours(h, t) => Mine(h, t) /\ ~Snap(h, t).paused
  /\ Ahead(h, t) /\ task[t].phase = "inflight" => Snap(h, t).phase = "inflight"
  /\ Launching(h, t) =>
       window[h][t] = "fresh" /\ (respawns[h][t] > 0 => t \notin session[h])

(* A budget in use starts anew for a session that lived, or for no session at *)
(* all: a pass marks what it finds without one, so that the next pass cannot  *)
(* take it for a launch under way, and stamps it; two polls without a stamp   *)
(* in between, after which the window may run out, mean that the task is no   *)
(* longer the host's, or held, and of that the budget ends.                   *)
BudgetFits(h, t) ==
  Partial(h, t) =>
    /\ window[h][t] \in {"polled", "ripe", "lapsed"} => t \notin session[h]
    /\ Ours(h, t) /\ task[t].phase = "failed" => At(h, t, "launch")
    /\ ~Ahead(h, t) /\ Ours(h, t) => window[h][t] \notin {"ripe", "lapsed"}
    /\ ~Ahead(h, t) /\ Ours(h, t) /\ window[h][t] = "polled" => task[t].phase # "inflight"
    /\ Ahead(h, t) /\ Ours(h, t) => Snap(h, t).status # "failed"
    /\ Ahead(h, t) /\ Ours(h, t) /\ Open(h, t) /\ window[h][t] = "polled"
         /\ task[t].phase = "inflight" => ToMark(h, t)
    /\ Ahead(h, t) /\ Ours(h, t) /\ window[h][t] = "ripe" => Snap(h, t).status # "inflight"
    /\ Ahead(h, t) /\ window[h][t] = "lapsed" => ~Mine(h, t) \/ Snap(h, t).paused

OutageInv == \A h \in Hosts, t \in Tasks : PassFits(h, t) /\ BudgetFits(h, t)

(* The types an argument about one task of one host needs.                    *)
Typed(h, t) ==
  /\ host \in [Hosts -> HostRecord] /\ task \in [Tasks -> TaskRecord]
  /\ session \in [Hosts -> SUBSET Tasks]
  /\ respawns \in [Hosts -> [Tasks -> 0 .. MaxRespawns]]
  /\ window \in [Hosts -> [Tasks -> {"fresh", "alive", "polled", "ripe", "survived", "lapsed"}]]
  /\ host[h] \in HostRecord /\ Snap(h, t) \in TaskView /\ task[t] \in TaskRecord
  /\ respawns[h][t] \in 0 .. MaxRespawns /\ MaxRespawns \in Nat \ {0} /\ Nil \notin Hosts \cup Phases

LEMMA AreTyped ==
  ASSUME TypeOK, NEW h \in Hosts, NEW t \in Tasks
  PROVE  Typed(h, t)
BY FleetAssumption DEF TypeOK, Typed, HostRecord, Snap

(* A step counts one disturbance at most. *)
LEMMA SpentGrows ==
  ASSUME [Next]_vars
  PROVE  spent' = spent \/ \E e \in Disturbances : spent' = [spent EXCEPT ![e] = @ + 1]
<1>1. ASSUME NEW e \in Disturbances, Strike(e)
      PROVE  \E d \in Disturbances : spent' = [spent EXCEPT ![d] = @ + 1]
  BY <1>1 DEF Strike
<1>2. {"session", "container", "agent", "docker", "host", "reboot", "service", "flicker", "release",
       "retry", "finish", "revive", "build", "other", "hold", "rest", "slow"} \subseteq Disturbances
  BY DEF Disturbances
<1>3. ASSUME NEW g \in Hosts, HostStep(g)
      PROVE  spent' = spent \/ \E e \in Disturbances : Strike(e)
  BY <1>2, <1>3, Zenon DEF HostStep, Poll, Reclaim, mark_healing, spawn_one, reconcile, heal, cleanup,
     PassOver, Announce, StartBackend, HoldLaunch, FailLaunch, InfraFail
<1>4. ASSUME Environment
      PROVE  spent' = spent \/ \E e \in Disturbances : Strike(e)
  BY <1>2, <1>4, Zenon DEF Environment, Link, AgentFails, SessionDies, ContainerDies, Survive, Lapse,
     DockerStops, DockerReturns, HostRestarts, Reboots, GoOnline, Flickers, reclaim, release,
     retry_task, Finish, Revive, ServiceRestarts
<1> QED
  BY <1>1, <1>3, <1>4 DEF Next, vars

(* A disturbance that has struck has been counted.                            *)
LEMMA StruckShows ==
  ASSUME TypeOK, NEW d \in Disturbances, Strike(d)
  PROVE  spent'[d] # 0
<1>1. spent[d] \in Nat /\ spent'[d] = spent[d] + 1
  BY DEF TypeOK, Strike
<1> QED
  BY <1>1

(* What has not struck had not struck before.                                 *)
LEMMA StillOutages ==
  ASSUME TypeOK, [Next]_vars, OnlyOutages'
  PROVE  OnlyOutages
<1>1. ASSUME NEW d \in Disturbances, spent'[d] = 0
      PROVE  spent[d] = 0
  <2>1. spent \in [Disturbances -> Nat]
    BY DEF TypeOK
  <2>2. spent' = spent \/ \E e \in Disturbances : spent' = [spent EXCEPT ![e] = @ + 1]
    BY SpentGrows
  <2> QED
    BY <1>1, <2>1, <2>2
<1> QED
  BY <1>1 DEF OnlyOutages, Disturbances

(* A step that leaves the budget of t, and where the pass is as to t, leaves   *)
(* what is known of it, if it starts no launch and no claim.                   *)
LEMMA StaysKnown ==
  ASSUME NEW h \in Hosts, NEW t \in Tasks, PassFits(h, t), BudgetFits(h, t),
         /\ Ours(h, t)' => Ours(h, t)
         /\ task'[t].phase \in {"inflight", "failed"} => task'[t].phase = task[t].phase
         /\ respawns'[h][t] = respawns[h][t] /\ window'[h][t] = window[h][t]
         /\ t \in session'[h] => t \in session[h]
         /\ Snap(h, t)' = Snap(h, t) \/ (~Ahead(h, t)' /\ Snap(h, t)' = NoView)
         /\ host'[h].pc = "idle" => host'[h].todo = {}
         /\ Ahead(h, t)' <=> Ahead(h, t)
         /\ Launching(h, t)' => Launching(h, t)
         /\ At(h, t, "launch") => At(h, t, "launch")'
         /\ At(h, t, "heal")' => t \in host'[h].todo /\ Open(h, t)'
         /\ ToMark(h, t) => ToMark(h, t)'
  PROVE  PassFits(h, t)' /\ BudgetFits(h, t)'
<1>1. Snap(h, t)' = NoView => \A p \in Phases : Snap(h, t)'.status # p
  BY DEF NoView, Phases
<1>2. Snap(h, t)' = Snap(h, t) => (Mine(h, t)' <=> Mine(h, t)) /\ (Open(h, t)' <=> Open(h, t))
  BY DEF Mine, Open, Snap
<1>3. PassFits(h, t)'
  <2>1. \A p \in Phases : Snap(h, t)'.status = p => Snap(h, t)'.phase = p
    BY <1>1 DEF PassFits
  <2>2. Ahead(h, t)' => Snap(h, t)' = Snap(h, t) /\ Ahead(h, t)
    <3>1. Ahead(h, t) => ~(~Ahead(h, t)' /\ Snap(h, t)' = NoView)
      OBVIOUS
    <3> QED
      BY <3>1
  <2>3. Launching(h, t)' => Launching(h, t)
    OBVIOUS
  <2> QED
    BY <1>2, <2>1, <2>2, <2>3 DEF PassFits
<1>4. BudgetFits(h, t)'
  <2>1. Ahead(h, t)' => Snap(h, t)' = Snap(h, t)
    OBVIOUS
  <2>2. Partial(h, t)' => Partial(h, t)
    BY DEF Partial
  <2> QED
    BY <1>2, <2>1, <2>2 DEF BudgetFits
<1> QED
  BY <1>3, <1>4

(* Where the pass is after one of its steps on u.                             *)
LEMMA PlaceAfter ==
  ASSUME NEW h \in Hosts, NEW t \in Tasks, Typed(h, t), NEW u \in Tasks, Done(h, u)
  PROVE  /\ host'[h].pc = "idle" => host'[h].todo = {}
         /\ host'[h].pc \in {"idle", "reclaim", "mark", "work"}
         /\ host'[h].snap = host[h].snap \/ (host'[h] = Idle /\ Snap(h, t)' = NoView)
         /\ host'[h] # Idle =>
              \/ /\ host'[h].pc = IF host[h].pc \in {"reclaim", "mark"} THEN host[h].pc ELSE "work"
                 /\ host'[h].todo = host[h].todo \ {u}
              \/ /\ host'[h].pc = IF host[h].pc = "reclaim" THEN "mark" ELSE "work"
                 /\ host[h].pc \in {"reclaim", "mark"} /\ host'[h].todo = Tasks
                 /\ host[h].todo \subseteq {u}
         /\ host'[h] = Idle => host[h].pc \notin {"reclaim", "mark"} /\ host[h].todo \subseteq {u}
<1>1. host'[h] = After(h, u) /\ host[h] \in HostRecord
  BY DEF Typed, Done
<1>2. DOMAIN host[h] = {"pc", "todo", "at", "snap", "startup"}
  BY <1>1 DEF HostRecord
<1> DEFINE rest == host[h].todo \ {u}
           again == IF host[h].pc \in {"reclaim", "mark"} THEN host[h].pc ELSE "work"
<1>3. CASE rest # {}
  <2>1. After(h, u) = [host[h] EXCEPT !.pc = again, !.todo = rest, !.at = Nil]
    BY <1>3 DEF After
  <2>2. /\ After(h, u).pc = again /\ After(h, u).todo = rest /\ After(h, u).snap = host[h].snap
    BY <1>1, <2>1 DEF HostRecord
  <2>3. After(h, u) # Idle
    BY <1>3, <2>2 DEF Idle
  <2> QED
    BY <1>1, <2>2, <2>3
<1>4. ASSUME rest = {}, NEW p \in {"reclaim", "mark"}, host[h].pc = p
      PROVE  LET q == IF p = "reclaim" THEN "mark" ELSE "work"
             IN /\ After(h, u).pc = q /\ After(h, u).todo = Tasks
                /\ After(h, u).snap = host[h].snap /\ After(h, u) # Idle
  <2>1. After(h, u) = [host[h] EXCEPT !.pc = IF p = "reclaim" THEN "mark" ELSE "work", !.todo = Tasks]
    BY <1>4 DEF After
  <2>2. /\ After(h, u).pc = IF p = "reclaim" THEN "mark" ELSE "work"
        /\ After(h, u).todo = Tasks /\ After(h, u).snap = host[h].snap
    BY <1>1, <2>1 DEF HostRecord
  <2>3. Idle.pc = "idle"
    BY DEF Idle
  <2> QED
    BY <2>2, <2>3
<1>5. CASE rest = {} /\ host[h].pc \notin {"reclaim", "mark"}
  <2>1. After(h, u) = Idle
    BY <1>5 DEF After
  <2>2. Idle.pc = "idle" /\ Idle.todo = {} /\ Idle.snap[t] = NoView
    BY DEF Idle
  <2> QED
    BY <1>1, <1>5, <2>1, <2>2 DEF Snap
<1>6. CASE rest = {} /\ host[h].pc \in {"reclaim", "mark"}
  BY <1>1, <1>4, <1>6
<1> QED
  BY <1>3, <1>5, <1>6

LEMMA PlaceOn ==
  ASSUME NEW h \in Hosts, NEW t \in Tasks, Typed(h, t), NEW u \in Tasks,
         NEW pc \in {"heal", "launch", "start"}, Goto(h, u, pc)
  PROVE  host'[h].pc = pc /\ host'[h].at = u /\ host'[h].todo = host[h].todo
         /\ host'[h].snap = host[h].snap
BY DEF Typed, Goto, HostRecord

(* A step of the pass on another task leaves it where it is as to t.          *)
LEMMA OthersPlace ==
  ASSUME NEW h \in Hosts, NEW t \in Tasks, Typed(h, t), PassFits(h, t), NEW u \in Tasks, u # t,
         \/ /\ Facing(h, "reclaim", u) \/ Facing(h, "mark", u) \/ Facing(h, "work", u)
               \/ At(h, u, "heal") \/ At(h, u, "start")
            /\ Done(h, u)
         \/ Facing(h, "work", u) /\ (Goto(h, u, "heal") \/ Goto(h, u, "launch"))
         \/ At(h, u, "heal") /\ Goto(h, u, "launch")
         \/ At(h, u, "launch") /\ Goto(h, u, "start")
  PROVE  /\ Snap(h, t)' = Snap(h, t) \/ (~Ahead(h, t)' /\ Snap(h, t)' = NoView)
         /\ host'[h].pc = "idle" => host'[h].todo = {}
         /\ Ahead(h, t)' <=> Ahead(h, t)
         /\ Launching(h, t)' => Launching(h, t)
         /\ At(h, t, "launch") => At(h, t, "launch")'
         /\ At(h, t, "heal")' => t \in host'[h].todo /\ Open(h, t)'
         /\ ToMark(h, t) => ToMark(h, t)'
<1>1. ~Launching(h, t) /\ ~At(h, t, "launch")
  BY DEF Launching, At, Facing
<1>2. CASE Done(h, u)
  <2>1. host'[h] = Idle => Idle.pc = "idle" /\ Idle.todo = {}
    BY DEF Idle
  <2>2. /\ host'[h].pc = "idle" => host'[h].todo = {}
        /\ host'[h].pc \in {"idle", "reclaim", "mark", "work"}
        /\ host'[h].snap = host[h].snap \/ (host'[h] = Idle /\ Snap(h, t)' = NoView)
        /\ host'[h] # Idle =>
              \/ /\ host'[h].pc = IF host[h].pc \in {"reclaim", "mark"} THEN host[h].pc ELSE "work"
                 /\ host'[h].todo = host[h].todo \ {u}
              \/ /\ host'[h].pc = IF host[h].pc = "reclaim" THEN "mark" ELSE "work"
                 /\ host[h].pc \in {"reclaim", "mark"} /\ host'[h].todo = Tasks
                 /\ host[h].todo \subseteq {u}
        /\ host'[h] = Idle => host[h].pc \notin {"reclaim", "mark"} /\ host[h].todo \subseteq {u}
    BY <1>2, PlaceAfter
  <2>3. ~Launching(h, t)' /\ ~At(h, t, "heal")'
    BY <2>2 DEF Launching, At
  <2>4. Ahead(h, t)' <=> Ahead(h, t)
    BY <1>1, <2>1, <2>2, <2>3 DEF Ahead
  <2>5. host'[h] = Idle => ~Ahead(h, t)'
    BY <2>1 DEF Ahead
  <2>6. ToMark(h, t) => ToMark(h, t)'
    BY <2>1, <2>2 DEF ToMark, Facing
  <2>7. host'[h].snap = host[h].snap => Snap(h, t)' = Snap(h, t)
    BY DEF Snap
  <2> QED
    BY <1>1, <2>2, <2>3, <2>4, <2>5, <2>6, <2>7
<1>3. ASSUME NEW pc \in {"heal", "launch", "start"}, Goto(h, u, pc),
             host[h].pc \in {"work", "heal", "launch"}
      PROVE  /\ Snap(h, t)' = Snap(h, t) /\ host'[h].pc # "idle"
             /\ Ahead(h, t)' <=> Ahead(h, t)
             /\ ~Launching(h, t)' /\ ~At(h, t, "heal")' /\ ~ToMark(h, t)
  BY <1>1, <1>3, PlaceOn DEF Snap, Ahead, Launching, At, ToMark, Facing
<1> QED
  BY <1>1, <1>2, <1>3 DEF Facing, At

(* The pass is through with t.                                                *)
LEMMA PlacePast ==
  ASSUME NEW h \in Hosts, NEW t \in Tasks, Typed(h, t), Done(h, t),
         host[h].pc \notin {"reclaim", "mark"}
  PROVE  /\ ~Ahead(h, t)' /\ ~Launching(h, t)' /\ ~At(h, t, "heal")'
         /\ host'[h].pc = "idle" => host'[h].todo = {}
         /\ Snap(h, t)' = Snap(h, t) \/ Snap(h, t)' = NoView
<1>1. host'[h] = Idle => Idle.pc = "idle" /\ Idle.todo = {}
  BY DEF Idle
<1>2. host'[h].snap = host[h].snap => Snap(h, t)' = Snap(h, t)
  BY DEF Snap
<1> QED
  BY <1>1, <1>2, PlaceAfter DEF Ahead, Launching, At

(* It is through rightly if t is not the host's any more, or freshly stamped.  *)
LEMMA PastKnown ==
  ASSUME NEW h \in Hosts, NEW t \in Tasks, Typed(h, t), PassFits(h, t), Done(h, t),
         host[h].pc \notin {"reclaim", "mark"},
         Partial(h, t)' =>
           /\ window'[h][t] \in {"polled", "ripe", "lapsed"} => t \notin session'[h]
           /\ Ours(h, t)' => /\ task'[t].phase # "failed"
                             /\ window'[h][t] \notin {"ripe", "lapsed"}
                             /\ window'[h][t] = "polled" => task'[t].phase # "inflight"
  PROVE  PassFits(h, t)' /\ BudgetFits(h, t)'
<1>1. /\ ~Ahead(h, t)' /\ ~Launching(h, t)' /\ ~At(h, t, "heal")'
      /\ host'[h].pc = "idle" => host'[h].todo = {}
      /\ Snap(h, t)' = Snap(h, t) \/ Snap(h, t)' = NoView
  BY PlacePast
<1>2. \A p \in Phases : Snap(h, t)'.status = p => Snap(h, t)'.phase = p
  BY <1>1 DEF PassFits, NoView, Phases
<1>3. PassFits(h, t)'
  BY <1>1, <1>2 DEF PassFits
<1>4. BudgetFits(h, t)'
  BY <1>1 DEF BudgetFits
<1> QED
  BY <1>3, <1>4

(* Polls *)

LEMMA ViewShows ==
  ASSUME NEW t \in Tasks, task[t] \in TaskRecord, Nil \notin Hosts \cup Phases
  PROVE  /\ View(t).claimed = task[t].claimed /\ View(t).paused = task[t].paused
         /\ View(t).phase = task[t].phase
         /\ \A p \in Phases : View(t).status = p => task[t].phase = p
<1>1. ASSUME NEW p \in Phases, compose_container_status(t) = p
      PROVE  task[t].phase = p
  BY <1>1 DEF compose_container_status, Phases, TaskRecord
<1> QED
  BY <1>1 DEF View

LEMMA PollKnows ==
  ASSUME NEW h \in Hosts, NEW t \in Tasks, Typed(h, t), PassFits(h, t), BudgetFits(h, t), Poll(h)
  PROVE  PassFits(h, t)' /\ BudgetFits(h, t)'
<1>1. /\ host[h].pc = "idle" /\ host'[h].pc \in {"reclaim", "mark"} /\ host'[h].todo = Tasks
      /\ Snap(h, t)' = View(t)
  BY DEF Poll, Typed, Snap
<1>2. /\ task' = task /\ respawns' = respawns /\ session' = session
      /\ window'[h][t] = IF respawns[h][t] = 0 \/ window[h][t] \in {"survived", "lapsed"}
                         THEN window[h][t]
                         ELSE IF t \in session[h] THEN "alive"
                         ELSE IF window[h][t] = "polled" THEN "ripe" ELSE "polled"
  BY DEF Poll, Typed, service, machine
<1>3. /\ View(t).claimed = task[t].claimed /\ View(t).paused = task[t].paused
      /\ View(t).phase = task[t].phase
      /\ \A p \in Phases : View(t).status = p => task[t].phase = p
  BY ViewShows DEF Typed
<1>4. ~Ahead(h, t) /\ ~At(h, t, "launch") /\ ~Launching(h, t)
  BY <1>1 DEF PassFits, Ahead, At, Launching
<1>5. Ahead(h, t)' /\ ~Launching(h, t)' /\ ~At(h, t, "heal")' /\ ToMark(h, t)'
  BY <1>1 DEF Ahead, Launching, At, ToMark, Facing
<1>6. Ours(h, t)' <=> Ours(h, t)
  BY <1>2 DEF Ours
<1>7. Mine(h, t)' /\ ~Snap(h, t)'.paused <=> Ours(h, t)
  BY <1>1, <1>3 DEF Mine, Ours, Snap
<1>8. PassFits(h, t)'
  BY <1>1, <1>2, <1>3, <1>5, <1>6, <1>7 DEF PassFits
<1>9. ASSUME Partial(h, t)' PROVE BudgetFits(h, t)'
  <2>1. Partial(h, t) /\ respawns[h][t] # 0
    BY <1>2, <1>9 DEF Partial
  <2>2. /\ window[h][t] \in {"polled", "ripe", "lapsed"} => t \notin session[h]
        /\ Ours(h, t) => task[t].phase # "failed" /\ window[h][t] \notin {"ripe", "lapsed"}
        /\ Ours(h, t) /\ window[h][t] = "polled" => task[t].phase # "inflight"
    BY <1>4, <2>1 DEF BudgetFits
  <2>3. /\ window'[h][t] \in {"polled", "ripe", "lapsed"} => t \notin session[h]
        /\ window'[h][t] = "lapsed" => window[h][t] = "lapsed"
        /\ window'[h][t] = "ripe" => window[h][t] = "polled"
    BY <1>2, <2>1, <2>2
  <2>4. /\ View(t).status = "failed" => task[t].phase = "failed"
        /\ View(t).status = "inflight" => task[t].phase = "inflight"
    BY <1>3 DEF Phases
  <2> QED
    BY <1>1, <1>2, <1>5, <1>6, <1>7, <2>2, <2>3, <2>4 DEF BudgetFits
<1> QED
  BY <1>8, <1>9 DEF BudgetFits

(* The turn of t in a pass *)

LEMMA MarkKnows ==
  ASSUME NEW h \in Hosts, NEW t \in Tasks, Typed(h, t), PassFits(h, t), BudgetFits(h, t),
         mark_healing(h, t)
  PROVE  PassFits(h, t)' /\ BudgetFits(h, t)'
<1>1. Facing(h, "mark", t) /\ Done(h, t) /\ host[h].pc = "mark" /\ host[h].pc # "reclaim"
  BY DEF mark_healing, Facing
<1>2. UNCHANGED <<respawns, window, session>>
  BY DEF mark_healing, budget, machine
<1>3. /\ host'[h].pc \in {"mark", "work"} /\ host'[h].snap = host[h].snap
      /\ host'[h].pc = "work" => t \in host'[h].todo
  BY <1>1, PlaceAfter DEF Idle, Facing
<1>4. Ahead(h, t) /\ Ahead(h, t)' /\ ~Launching(h, t)' /\ ~At(h, t, "heal")' /\ ~At(h, t, "launch")
  BY <1>1, <1>3 DEF Ahead, Launching, At
<1>5. task' = task \/ task' = Reported(t, "healing")
  BY DEF mark_healing
<1>6. /\ task'[t].claimed = task[t].claimed /\ task'[t].paused = task[t].paused
      /\ task'[t].phase \in {task[t].phase, "healing"}
      /\ task' = Reported(t, "healing") => task'[t].phase = "healing"
  BY <1>5 DEF Reported, Typed, TaskRecord
<1>7. /\ Snap(h, t)' = Snap(h, t) /\ (Mine(h, t)' <=> Mine(h, t)) /\ (Open(h, t)' <=> Open(h, t))
      /\ (Ours(h, t)' <=> Ours(h, t)) /\ (Partial(h, t)' <=> Partial(h, t))
      /\ window'[h][t] = window[h][t] /\ (t \in session'[h] <=> t \in session[h])
  BY <1>2, <1>3, <1>6 DEF Snap, Mine, Open, Ours, Partial
<1>8. ASSUME Partial(h, t), Ours(h, t), Open(h, t), window[h][t] = "polled",
             task[t].phase = "inflight"
      PROVE  task'[t].phase = "healing"
  <2>1. /\ Mine(h, t) /\ ~Snap(h, t).paused /\ Snap(h, t).phase = "inflight"
        /\ Snap(h, t).status # "failed" /\ t \notin session[h]
    BY <1>4, <1>8 DEF PassFits, BudgetFits
  <2>2. Snap(h, t).status # "healing"
    BY <2>1 DEF PassFits, Phases
  <2>3. is_orphan(h, t)
    BY <1>8, <2>1 DEF is_orphan, Snap
  <2>4. respawn_count(h, t) < MaxRespawns
    BY <1>8 DEF respawn_count, Partial, Typed
  <2> QED
    BY <1>6, <2>2, <2>3, <2>4 DEF mark_healing, Snap
<1>9. PassFits(h, t)'
  BY <1>3, <1>4, <1>6, <1>7 DEF PassFits
<1>10. BudgetFits(h, t)'
  BY <1>4, <1>6, <1>7, <1>8 DEF BudgetFits
<1> QED
  BY <1>9, <1>10

LEMMA SpawnKnows ==
  ASSUME NEW h \in Hosts, NEW t \in Tasks, Typed(h, t), PassFits(h, t), BudgetFits(h, t),
         spawn_one(h, t) \/ cleanup(h, t) \/ PassOver(h, t)
  PROVE  PassFits(h, t)' /\ BudgetFits(h, t)'
<1>1. host[h].pc = "work" /\ t \in host[h].todo
  BY DEF spawn_one, cleanup, PassOver, Facing
<1>2. Ahead(h, t) /\ ~Launching(h, t)
  BY <1>1 DEF Ahead, Launching
<1>3. Ours(h, t) => Mine(h, t)
  BY <1>2 DEF PassFits
<1>4. \/ ~Mine(h, t) /\ Done(h, t) /\ task' = task
      \/ Done(h, t) /\ respawns'[h][t] = 0
      \/ Goto(h, t, "launch") /\ respawns'[h][t] = 0 /\ window'[h][t] = "fresh"
  <2>1. respawns' = [respawns EXCEPT ![h][t] = 0] => respawns'[h][t] = 0
    BY DEF Typed
  <2>2. window' = Stamped(h, t) => window'[h][t] = "fresh"
    BY DEF Typed, Stamped
  <2>3. CASE spawn_one(h, t)
    <3>1. ~Mine(h, t)
      BY <2>3 DEF spawn_one, Mine, Typed
    <3> QED
      BY <2>1, <2>2, <2>3, <3>1 DEF spawn_one
  <2>4. CASE cleanup(h, t)
    BY <2>1, <2>4 DEF cleanup, ReleaseLingering
  <2>5. CASE PassOver(h, t)
    BY <2>5 DEF PassOver, service
  <2> QED
    BY <2>3, <2>4, <2>5
<1>5. respawns'[h][t] = 0 => ~Partial(h, t)'
  BY DEF Partial
<1>6. CASE ~Mine(h, t) /\ Done(h, t) /\ task' = task
  <2>1. ~Ours(h, t)'
    BY <1>3, <1>6 DEF Ours
  <2>2. Partial(h, t)' /\ window'[h][t] \in {"polled", "ripe", "lapsed"} => t \notin session'[h]
    <3>1. respawns'[h][t] = 0 \/ (respawns' = respawns /\ window' = window)
      <4>1. respawns' = [respawns EXCEPT ![h][t] = 0] \/ UNCHANGED budget
        BY DEF spawn_one, cleanup, PassOver
      <4> QED
        BY <4>1 DEF budget, Typed
    <3>2. t \in session'[h] => t \in session[h]
      <4>1. session' = session \/ session' = [session EXCEPT ![h] = @ \ {t}]
        BY DEF spawn_one, cleanup, PassOver, StopLive, machine
      <4> QED
        BY <4>1 DEF Typed
    <3> QED
      BY <1>5, <3>1, <3>2 DEF BudgetFits, Partial
  <2> QED
    BY <1>1, <1>6, <2>1, <2>2, PastKnown
<1>7. CASE Done(h, t) /\ respawns'[h][t] = 0
  BY <1>1, <1>5, <1>7, PastKnown
<1>8. CASE Goto(h, t, "launch") /\ respawns'[h][t] = 0 /\ window'[h][t] = "fresh"
  <2>1. host'[h].pc = "launch" /\ host'[h].at = t /\ host'[h].snap = host[h].snap
    BY <1>8, PlaceOn
  <2>2. ~Ahead(h, t)' /\ ~At(h, t, "heal")' /\ Snap(h, t)' = Snap(h, t)
    BY <2>1 DEF Ahead, Launching, At, Snap
  <2> QED
    BY <1>5, <1>8, <2>1, <2>2 DEF PassFits, BudgetFits
<1> QED
  BY <1>4, <1>6, <1>7, <1>8

LEMMA ReconcileKnows ==
  ASSUME NEW h \in Hosts, NEW t \in Tasks, Typed(h, t), PassFits(h, t), BudgetFits(h, t),
         reconcile(h, t)
  PROVE  PassFits(h, t)' /\ BudgetFits(h, t)'
<1>1. /\ host[h].pc = "work" /\ t \in host[h].todo /\ Mine(h, t) /\ Open(h, t)
      /\ UNCHANGED <<respawns, window, session>>
  BY DEF reconcile, Facing, budget, machine
<1>2. Ahead(h, t) /\ ~Launching(h, t) /\ ~ToMark(h, t) /\ ~At(h, t, "launch")
  BY <1>1 DEF Ahead, Launching, ToMark, Facing, At
<1>3. CASE Goto(h, t, "heal")
  <2>1. host'[h].pc = "heal" /\ host'[h].at = t /\ host'[h].todo = host[h].todo
        /\ host'[h].snap = host[h].snap
    BY <1>3, PlaceOn
  <2>2. /\ Snap(h, t)' = Snap(h, t) /\ Ahead(h, t)' /\ ~Launching(h, t)' /\ Open(h, t)'
    BY <1>1, <2>1 DEF Snap, Ahead, Launching, Open
  <2>3. task' = task \/ task' = Reported(t, Nil)
    BY DEF reconcile
  <2>4. /\ task'[t].claimed = task[t].claimed /\ task'[t].paused = task[t].paused
        /\ task'[t].phase \in {task[t].phase, Nil}
    BY <2>3 DEF Reported, Typed, TaskRecord
  <2>5. Nil \notin {"inflight", "failed"}
    BY DEF Typed, Phases
  <2>6. Ours(h, t)' => Ours(h, t)
    BY <2>4 DEF Ours
  <2> QED
    BY <1>1, <1>2, <2>1, <2>2, <2>4, <2>5, <2>6, StaysKnown
<1>4. CASE Done(h, t) /\ ~Goto(h, t, "heal")
  <2>1. Snap(h, t).status = "inflight" /\ task' = task
    BY <1>4 DEF reconcile, Snap
  <2>2. Partial(h, t)' => Partial(h, t)
    BY <1>1 DEF Partial
  <2>3. Ours(h, t)' => Ours(h, t) /\ ~Snap(h, t).paused
    BY <1>2, <2>1 DEF Ours, PassFits
  <2>4. ASSUME Partial(h, t)
        PROVE  /\ window[h][t] \in {"polled", "ripe", "lapsed"} => t \notin session[h]
               /\ Ours(h, t)' => /\ task[t].phase # "failed"
                                 /\ window[h][t] \notin {"ripe", "lapsed"}
                                 /\ window[h][t] = "polled" => task[t].phase # "inflight"
    BY <1>1, <1>2, <2>1, <2>3, <2>4 DEF BudgetFits
  <2> QED
    BY <1>1, <1>4, <2>1, <2>2, <2>4, PastKnown
<1> QED
  BY <1>3, <1>4 DEF reconcile

(* What heal finds in a budget that is in use.                                *)
LEMMA HealSees ==
  ASSUME NEW h \in Hosts, NEW t \in Tasks, Typed(h, t), PassFits(h, t), BudgetFits(h, t),
         At(h, t, "heal"), Partial(h, t)
  PROVE  /\ is_orphan(h, t) => window[h][t] # "lapsed"
         /\ Ours(h, t) /\ window[h][t] \in {"polled", "ripe", "lapsed"} => is_orphan(h, t)
         /\ respawn_count(h, t) < MaxRespawns
<1>1. host[h].pc = "heal" /\ host[h].at = t /\ t \in host[h].todo /\ Open(h, t)
  BY DEF PassFits, At
<1>2. Ahead(h, t)
  BY <1>1 DEF Ahead, Launching
<1>3. is_orphan(h, t) => window[h][t] # "lapsed"
  BY <1>2 DEF is_orphan, BudgetFits, Snap
<1>4. ASSUME Ours(h, t), window[h][t] \in {"polled", "ripe", "lapsed"}
      PROVE  is_orphan(h, t)
  <2>1. Mine(h, t) /\ ~Snap(h, t).paused /\ Snap(h, t).status # "failed" /\ t \notin session[h]
    BY <1>2, <1>4 DEF PassFits, BudgetFits
  <2> QED
    BY <1>1, <2>1 DEF is_orphan, Snap
<1>5. respawn_count(h, t) < MaxRespawns
  BY DEF respawn_count, Partial, Typed
<1> QED
  BY <1>3, <1>4, <1>5

LEMMA HealKnows ==
  ASSUME NEW h \in Hosts, NEW t \in Tasks, Typed(h, t), PassFits(h, t), BudgetFits(h, t),
         heal(h, t)
  PROVE  PassFits(h, t)' /\ BudgetFits(h, t)'
<1>1. /\ At(h, t, "heal") /\ host[h].pc = "heal" /\ ~At(h, t, "launch")
      /\ UNCHANGED <<task, session>>
  BY DEF heal, At, service, machine
<1>2. window' = Stamped(h, t) => window'[h][t] = "fresh"
  BY DEF Typed, Stamped
<1>3. CASE MayRespawn(h, t)
  <2>1. Goto(h, t, "launch") /\ window'[h][t] = "fresh" /\ t \notin session[h]
    BY <1>2, <1>3 DEF heal, MayRespawn, is_orphan
  <2>2. host'[h].pc = "launch" /\ host'[h].at = t /\ host'[h].snap = host[h].snap
    BY <2>1, PlaceOn
  <2>3. ~Ahead(h, t)' /\ ~At(h, t, "heal")' /\ Snap(h, t)' = Snap(h, t) /\ At(h, t, "launch")'
    BY <2>2 DEF Ahead, Launching, At, Snap
  <2>4. PassFits(h, t)'
    BY <1>1, <2>1, <2>2, <2>3 DEF PassFits
  <2>5. BudgetFits(h, t)'
    BY <2>1, <2>3 DEF BudgetFits
  <2> QED
    BY <2>4, <2>5
<1>4. CASE ~MayRespawn(h, t)
  <2>1. Done(h, t) /\ respawns' = respawns /\ (Deferred(h, t) \/ window' = window)
    BY <1>4 DEF heal
  <2>2. Deferred(h, t) => window'[h][t] = "fresh"
    BY <1>2 DEF heal
  <2>3. Partial(h, t)' => Partial(h, t)
    BY <2>1 DEF Partial
  <2>4. Ours(h, t)' => Ours(h, t)
    BY <1>1 DEF Ours
  <2>5. ASSUME Partial(h, t)
        PROVE  /\ window'[h][t] \in {"polled", "ripe", "lapsed"} => t \notin session[h]
               /\ Ours(h, t) => /\ task[t].phase # "failed"
                                /\ window'[h][t] \notin {"polled", "ripe", "lapsed"}
    <3>1. Ours(h, t) => task[t].phase # "failed"
      BY <1>1, <2>5 DEF BudgetFits
    <3>2. window[h][t] \in {"polled", "ripe", "lapsed"} => t \notin session[h]
      BY <2>5 DEF BudgetFits
    <3>3. is_orphan(h, t) => Deferred(h, t)
      BY <1>1, <1>4, <2>5, HealSees DEF MayRespawn, Deferred
    <3>4. Ours(h, t) /\ window[h][t] \in {"polled", "ripe", "lapsed"} => Deferred(h, t)
      BY <1>1, <2>5, <3>3, HealSees
    <3> QED
      BY <2>1, <2>2, <3>1, <3>2, <3>4
  <2> QED
    BY <1>1, <2>1, <2>3, <2>4, <2>5, PastKnown
<1> QED
  BY <1>3, <1>4

LEMMA LaunchKnows ==
  ASSUME NEW h \in Hosts, NEW t \in Tasks, Typed(h, t), PassFits(h, t), BudgetFits(h, t),
         Announce(h, t) \/ StartBackend(h, t) \/ HoldLaunch(h, t) \/ InfraFail(h, t)
  PROVE  PassFits(h, t)' /\ BudgetFits(h, t)'
<1>1. /\ Launching(h, t) /\ window[h][t] = "fresh" /\ (respawns[h][t] > 0 => t \notin session[h])
      /\ host[h].pc \in {"launch", "start"} /\ respawns' = respawns
  BY DEF Announce, StartBackend, HoldLaunch, InfraFail, PassFits, Launching, At, budget
<1>2. Partial(h, t)' => Partial(h, t) /\ t \notin session[h] /\ respawns[h][t] < MaxRespawns
  BY <1>1 DEF Partial, Typed
<1>3. \A p : /\ Reported(t, p)[t].phase = p /\ Reported(t, p)[t].claimed = task[t].claimed
             /\ Reported(t, p)[t].paused = task[t].paused
  BY DEF Reported, Typed, TaskRecord
<1>4. CASE Announce(h, t)
  <2>1. /\ Goto(h, t, "start") /\ task' = Reported(t, "inflight")
        /\ UNCHANGED <<window, session>>
    BY <1>4 DEF Announce, budget, machine
  <2>2. host'[h].pc = "start" /\ host'[h].at = t /\ host'[h].snap = host[h].snap
    BY <2>1, PlaceOn
  <2>3. ~Ahead(h, t)' /\ ~At(h, t, "heal")' /\ Snap(h, t)' = Snap(h, t)
    BY <2>2 DEF Ahead, Launching, At, Snap
  <2>4. task'[t].phase = "inflight"
    BY <1>3, <2>1
  <2>5. PassFits(h, t)'
    BY <1>1, <2>1, <2>2, <2>3 DEF PassFits
  <2>6. BudgetFits(h, t)'
    BY <1>1, <2>1, <2>3, <2>4 DEF BudgetFits
  <2> QED
    BY <2>5, <2>6
<1>5. CASE StartBackend(h, t)
  <2>1. Done(h, t) /\ window' = window /\ task' = Reported(t, "inflight")
    BY <1>5 DEF StartBackend
  <2>2. task'[t].phase = "inflight"
    BY <1>3, <2>1
  <2> QED
    BY <1>1, <2>1, <2>2, PastKnown
<1>6. CASE HoldLaunch(h, t)
  <2>1. Done(h, t) /\ window' = window
    BY <1>6 DEF HoldLaunch, budget
  <2>2. ~Ours(h, t)'
    <3>1. task[t].claimed = h => task' = [task EXCEPT ![t].paused = TRUE, ![t].phase = "failed"]
      BY <1>6 DEF HoldLaunch
    <3>2. task[t].claimed # h => task' = task
      BY <1>6 DEF HoldLaunch
    <3>3. [task EXCEPT ![t].paused = TRUE, ![t].phase = "failed"][t].paused
      BY DEF Typed, TaskRecord
    <3> QED
      BY <3>1, <3>2, <3>3 DEF Ours
  <2> QED
    BY <1>1, <2>1, <2>2, PastKnown
<1>7. CASE InfraFail(h, t)
  <2>1. Done(h, t) /\ (window' = window \/ window' = Stamped(h, t))
    BY <1>7 DEF InfraFail
  <2>2. window'[h][t] = "fresh"
    BY <1>1, <2>1 DEF Stamped, Typed
  <2>3. Partial(h, t)' => task'[t].phase # "failed"
    <3>1. ASSUME Partial(h, t)' PROVE task' = Reported(t, Nil)
      BY <1>2, <1>7, <3>1 DEF InfraFail
    <3>2. Nil # "failed"
      BY DEF Typed, Phases
    <3> QED
      BY <1>3, <3>1, <3>2
  <2> QED
    BY <1>1, <2>1, <2>2, <2>3, PastKnown
<1> QED
  BY <1>4, <1>5, <1>6, <1>7

LEMMA ReclaimKnows ==
  ASSUME NEW h \in Hosts, NEW t \in Tasks, Typed(h, t), PassFits(h, t), BudgetFits(h, t),
         Reclaim(h, t)
  PROVE  PassFits(h, t)' /\ BudgetFits(h, t)'
<1>1. /\ Facing(h, "reclaim", t) /\ Done(h, t) /\ host[h].pc = "reclaim"
      /\ UNCHANGED <<respawns, window, session>>
  BY DEF Reclaim, Facing, budget, machine
<1>2. /\ host'[h].snap = host[h].snap
      /\ \/ host'[h].pc = "reclaim"
         \/ (host'[h].pc = "mark" /\ host'[h].todo = Tasks)
  BY <1>1, PlaceAfter DEF Idle
<1>3. /\ Ahead(h, t) /\ Ahead(h, t)' /\ ~Launching(h, t)' /\ ~At(h, t, "launch")
      /\ ~At(h, t, "heal")' /\ ToMark(h, t)' /\ Snap(h, t)' = Snap(h, t)
      /\ host'[h].pc # "idle"
  BY <1>1, <1>2 DEF Ahead, Launching, At, ToMark, Facing, Snap
<1>4. task' = task \/ task' = Released(t)
  BY DEF Reclaim
<1>5. Nil \notin {"inflight", "failed"} /\ Nil # h
  BY DEF Typed, Phases
<1>6. task' = Released(t) => task'[t].claimed = Nil /\ task'[t].phase = Nil
  BY DEF Released, Typed, TaskRecord
<1>7. /\ Ours(h, t)' => Ours(h, t)
      /\ task'[t].phase \in {"inflight", "failed"} => task'[t].phase = task[t].phase
  BY <1>4, <1>5, <1>6 DEF Ours
<1> QED
  BY <1>1, <1>3, <1>7, StaysKnown

(* A step of the pass on another task.                                        *)
LEMMA OthersKnow ==
  ASSUME NEW h \in Hosts, NEW t \in Tasks, Typed(h, t), PassFits(h, t), BudgetFits(h, t),
         NEW u \in Tasks, u # t,
         \/ Reclaim(h, u) \/ mark_healing(h, u)
         \/ spawn_one(h, u) \/ reconcile(h, u) \/ heal(h, u) \/ cleanup(h, u) \/ PassOver(h, u)
         \/ Announce(h, u) \/ StartBackend(h, u) \/ HoldLaunch(h, u) \/ InfraFail(h, u)
  PROVE  PassFits(h, t)' /\ BudgetFits(h, t)'
<1>1. \/ /\ Facing(h, "reclaim", u) \/ Facing(h, "mark", u) \/ Facing(h, "work", u)
            \/ At(h, u, "heal") \/ At(h, u, "start")
         /\ Done(h, u)
      \/ Facing(h, "work", u) /\ (Goto(h, u, "heal") \/ Goto(h, u, "launch"))
      \/ At(h, u, "heal") /\ Goto(h, u, "launch")
      \/ At(h, u, "launch") /\ Goto(h, u, "start")
  BY Zenon DEF Reclaim, mark_healing, spawn_one, reconcile, heal, cleanup, PassOver, Announce,
               StartBackend, HoldLaunch, InfraFail
<1>2. task'[t] = task[t]
  <2>1. ASSUME NEW p PROVE Reported(u, p)[t] = task[t]
    BY DEF Reported, Typed
  <2>2. Released(u)[t] = task[t]
    BY DEF Released, Typed
  <2>3. /\ [task EXCEPT ![u].claimed = h, ![u].phase = Nil][t] = task[t]
        /\ [task EXCEPT ![u].paused = TRUE, ![u].phase = "failed"][t] = task[t]
    BY DEF Typed
  <2>4. \/ task' = task \/ (\E p : task' = Reported(u, p)) \/ task' = Released(u)
        \/ task' = [task EXCEPT ![u].claimed = h, ![u].phase = Nil]
        \/ task' = [task EXCEPT ![u].paused = TRUE, ![u].phase = "failed"]
    BY DEF Reclaim, mark_healing, spawn_one, reconcile, heal, cleanup, PassOver, Announce,
           StartBackend, HoldLaunch, InfraFail, ReleaseLingering, service
  <2> QED
    BY <2>1, <2>2, <2>3, <2>4, Zenon
<1>3. respawns'[h][t] = respawns[h][t]
  <2>1. respawns' = respawns \/ (\E n : respawns' = [respawns EXCEPT ![h][u] = n])
    BY DEF Reclaim, mark_healing, spawn_one, reconcile, heal, cleanup, PassOver, Announce,
           StartBackend, HoldLaunch, InfraFail, budget
  <2> QED
    BY <2>1 DEF Typed
<1>4. window'[h][t] = window[h][t]
  <2>1. window' = window \/ window' = Stamped(h, u)
    BY DEF Reclaim, mark_healing, spawn_one, reconcile, heal, cleanup, PassOver, Announce,
           StartBackend, HoldLaunch, InfraFail, budget
  <2> QED
    BY <2>1 DEF Typed, Stamped
<1>5. t \in session'[h] => t \in session[h]
  <2>1. \/ session' = session \/ session' = [session EXCEPT ![h] = @ \ {u}]
        \/ session' = [session EXCEPT ![h] = @ \cup {u}]
    BY DEF Reclaim, mark_healing, spawn_one, reconcile, heal, cleanup, PassOver, Announce,
           StartBackend, HoldLaunch, InfraFail, StopLive, machine
  <2> QED
    BY <2>1 DEF Typed
<1>6. Ours(h, t)' => Ours(h, t)
  BY <1>2 DEF Ours
<1>7. /\ Snap(h, t)' = Snap(h, t) \/ (~Ahead(h, t)' /\ Snap(h, t)' = NoView)
      /\ host'[h].pc = "idle" => host'[h].todo = {}
      /\ Ahead(h, t)' <=> Ahead(h, t)
      /\ Launching(h, t)' => Launching(h, t)
      /\ At(h, t, "launch") => At(h, t, "launch")'
      /\ At(h, t, "heal")' => t \in host'[h].todo /\ Open(h, t)'
      /\ ToMark(h, t) => ToMark(h, t)'
  BY <1>1, OthersPlace
<1> QED
  BY <1>2, <1>3, <1>4, <1>5, <1>6, <1>7, StaysKnown

LEMMA PassKnows ==
  ASSUME OnlyOutages', TypeOK, NEW h \in Hosts, NEW t \in Tasks, PassFits(h, t), BudgetFits(h, t),
         HostStep(h)
  PROVE  PassFits(h, t)' /\ BudgetFits(h, t)'
<1>1. Typed(h, t)
  BY AreTyped
<1>2. ASSUME NEW u \in Tasks PROVE ~FailLaunch(h, u)
  BY StruckShows DEF OnlyOutages, Disturbances, FailLaunch
<1>3. CASE Poll(h)
  BY <1>1, <1>3, PollKnows
<1>4. ASSUME NEW u \in Tasks, u # t,
         \/ Reclaim(h, u) \/ mark_healing(h, u)
         \/ spawn_one(h, u) \/ reconcile(h, u) \/ heal(h, u) \/ cleanup(h, u) \/ PassOver(h, u)
         \/ Announce(h, u) \/ StartBackend(h, u) \/ HoldLaunch(h, u) \/ InfraFail(h, u)
      PROVE  PassFits(h, t)' /\ BudgetFits(h, t)'
  BY <1>1, <1>4, OthersKnow
<1>5. ASSUME \/ Reclaim(h, t) \/ mark_healing(h, t)
             \/ spawn_one(h, t) \/ reconcile(h, t) \/ heal(h, t) \/ cleanup(h, t) \/ PassOver(h, t)
             \/ Announce(h, t) \/ StartBackend(h, t) \/ HoldLaunch(h, t) \/ InfraFail(h, t)
      PROVE  PassFits(h, t)' /\ BudgetFits(h, t)'
  BY <1>1, <1>5, ReclaimKnows, MarkKnows, SpawnKnows, ReconcileKnows, HealKnows, LaunchKnows
<1> QED
  BY <1>2, <1>3, <1>4, <1>5, Zenon DEF HostStep


(* Everything but the passes. *)

(* While the passes stand still, and the budgets, what is known stays, if     *)
(* nobody claims a task, no session appears and no agent gives up.            *)
LEMMA StillKnown ==
  ASSUME NEW h \in Hosts, NEW t \in Tasks, PassFits(h, t), BudgetFits(h, t),
         host' = host, UNCHANGED budget,
         t \in session'[h] => t \in session[h],
         Ours(h, t)' => Ours(h, t),
         task'[t].phase \in {"inflight", "failed"} => task'[t].phase = task[t].phase
  PROVE  PassFits(h, t)' /\ BudgetFits(h, t)'
<1>1. /\ Snap(h, t)' = Snap(h, t) /\ (Ahead(h, t)' <=> Ahead(h, t))
      /\ (Launching(h, t)' <=> Launching(h, t)) /\ (ToMark(h, t)' <=> ToMark(h, t))
      /\ (At(h, t, "launch")' <=> At(h, t, "launch")) /\ (At(h, t, "heal")' <=> At(h, t, "heal"))
      /\ (Open(h, t)' <=> Open(h, t)) /\ host'[h] = host[h]
  BY DEF Snap, Ahead, Launching, ToMark, At, Open, Facing
<1>2. respawns'[h][t] = respawns[h][t] /\ window'[h][t] = window[h][t]
  BY DEF budget
<1>3. /\ host[h].pc = "idle" => host[h].todo = {}
      /\ At(h, t, "heal") => t \in host[h].todo /\ Open(h, t)
  BY DEF PassFits
<1> QED
  BY <1>1, <1>2, <1>3, StaysKnown

(* The record of a task after what operators and containers do to it. *)
LEMMA NobodyClaims ==
  ASSUME TypeOK, OnlyOutages', NEW h \in Hosts, NEW t \in Tasks,
         \/ \E g \in Hosts, u \in Tasks :
              Link(g, u) \/ AgentFails(g, u) \/ SessionDies(g, u) \/ ContainerDies(g, u)
         \/ \E g \in Hosts :
              DockerStops(g) \/ DockerReturns(g) \/ GoOnline(g) \/ Flickers(g) \/ reclaim(g)
         \/ \E u \in Tasks : release(u) \/ retry_task(u) \/ Finish(u) \/ Revive(u)
         \/ ServiceRestarts
  PROVE  /\ host' = host /\ UNCHANGED budget
         /\ t \in session'[h] => t \in session[h]
         /\ Ours(h, t)' => Ours(h, t)
         /\ task'[t].phase \in {"inflight", "failed"} => task'[t].phase = task[t].phase
<1>1. ASSUME NEW g \in Hosts, NEW u \in Tasks PROVE ~AgentFails(g, u)
  BY StruckShows DEF AgentFails, OnlyOutages, Disturbances
<1>2. Typed(h, t)
  BY AreTyped
<1>3. Nil \notin {"inflight", "failed"} /\ Nil # h
  BY <1>2 DEF Typed, Phases
<1>4. host' = host /\ UNCHANGED budget
  BY <1>1, Zenon DEF Link, SessionDies, ContainerDies, DockerStops, DockerReturns, GoOnline, Flickers,
                     reclaim, release, retry_task, Finish, Revive, ServiceRestarts
<1>5. t \in session'[h] => t \in session[h]
  <2>1. \/ session' = session
        \/ \E g \in Hosts, u \in Tasks : session' = [session EXCEPT ![g] = @ \ {u}]
        \/ \E g \in Hosts : session' = [session EXCEPT ![g] = {}]
    BY <1>1, Zenon DEF Link, SessionDies, ContainerDies, DockerStops, DockerReturns, GoOnline,
                       Flickers, reclaim, release, retry_task, Finish, Revive, ServiceRestarts,
                       Gone, machine
  <2> QED
    BY <1>2, <2>1 DEF Typed
<1>6. \/ task' = task
      \/ \E u \in Tasks : \/ task' = Released(u)
                          \/ task' = [task EXCEPT ![u].paused = FALSE, ![u].claimed = Nil,
                                                  ![u].phase = Nil]
                          \/ task' = [task EXCEPT ![u].stage = "finished"]
                          \/ task' = [task EXCEPT ![u].stage = "open"]
      \/ task' = [x \in Tasks |-> [task[x] EXCEPT !.phase = Nil]]
      \/ \E g \in Hosts :
           task' = [x \in Tasks |-> IF task[x].claimed = g /\ task[x].stage = "open"
                                    THEN [task[x] EXCEPT !.claimed = Nil, !.phase = Nil]
                                    ELSE task[x]]
  BY <1>1, Zenon DEF Link, SessionDies, ContainerDies, DockerStops, DockerReturns, GoOnline, Flickers,
                     reclaim, release, retry_task, Finish, Revive, ServiceRestarts, service
<1> DEFINE Less == /\ \/ task'[t].claimed = task[t].claimed /\ task'[t].paused = task[t].paused
                      \/ task'[t].claimed = Nil
                   /\ task'[t].phase \in {task[t].phase, Nil}
<1>7. Less
  <2>1. task \in [Tasks -> TaskRecord] /\ task[t] \in TaskRecord
    BY <1>2 DEF Typed
  <2>2. ASSUME NEW u \in Tasks, task' = Released(u)
        PROVE  Less
    BY <2>1, <2>2 DEF Released, TaskRecord
  <2>3. ASSUME NEW u \in Tasks,
               task' = [task EXCEPT ![u].paused = FALSE, ![u].claimed = Nil, ![u].phase = Nil]
        PROVE  Less
    BY <2>1, <2>3 DEF TaskRecord
  <2>4. ASSUME NEW u \in Tasks, NEW s \in {"finished", "open"}, task' = [task EXCEPT ![u].stage = s]
        PROVE  Less
    BY <2>1, <2>4 DEF TaskRecord
  <2>5. ASSUME task' = [x \in Tasks |-> [task[x] EXCEPT !.phase = Nil]]
        PROVE  Less
    BY <2>1, <2>5 DEF TaskRecord
  <2>6. ASSUME NEW g \in Hosts,
               task' = [x \in Tasks |-> IF task[x].claimed = g /\ task[x].stage = "open"
                                        THEN [task[x] EXCEPT !.claimed = Nil, !.phase = Nil]
                                        ELSE task[x]]
        PROVE  Less
    BY <2>1, <2>6 DEF TaskRecord
  <2>7. CASE task' = task
    BY <2>7
  <2> HIDE DEF Less
  <2> QED
    BY <1>6, <2>2, <2>3, <2>4, <2>5, <2>6, <2>7, Zenon
<1> QED
  BY <1>3, <1>4, <1>5, <1>7 DEF Ours

(* Time passes for a session, or for a task that is not the host's. *)
LEMMA TimeKnows ==
  ASSUME TypeOK, OnlyOutages', NEW h \in Hosts, NEW t \in Tasks, PassFits(h, t), BudgetFits(h, t),
         NEW g \in Hosts, NEW u \in Tasks, Survive(g, u) \/ Lapse(g, u)
  PROVE  PassFits(h, t)' /\ BudgetFits(h, t)'
<1>1. Typed(h, t)
  BY AreTyped
<1>2. UNCHANGED <<task, session, respawns, host>>
  BY DEF Survive, Lapse, service, machine
<1>3. ~Strike("slow")
  BY StruckShows DEF OnlyOutages, Disturbances
<1>4. /\ Snap(h, t)' = Snap(h, t) /\ (Ahead(h, t)' <=> Ahead(h, t))
      /\ (Launching(h, t)' <=> Launching(h, t)) /\ (ToMark(h, t)' <=> ToMark(h, t))
      /\ (At(h, t, "launch")' <=> At(h, t, "launch")) /\ (At(h, t, "heal")' <=> At(h, t, "heal"))
      /\ (Open(h, t)' <=> Open(h, t)) /\ (Mine(h, t)' <=> Mine(h, t)) /\ host'[h] = host[h]
      /\ (Ours(h, t)' <=> Ours(h, t)) /\ (Partial(h, t)' <=> Partial(h, t))
  BY <1>2 DEF Snap, Ahead, Launching, ToMark, At, Open, Facing, Mine, Ours, Partial
<1>5. \/ window'[h][t] = window[h][t]
      \/ window[h][t] = "alive" /\ window'[h][t] = "survived"
      \/ /\ window[h][t] = "ripe" /\ window'[h][t] = "lapsed" /\ host[h].pc = "idle"
         /\ t \notin session[h]
  <2>1. \/ window[g][u] = "alive" /\ window' = [window EXCEPT ![g][u] = "survived"]
        \/ /\ window[g][u] = "ripe" /\ window' = [window EXCEPT ![g][u] = "lapsed"]
           /\ host[g].pc = "idle" /\ u \notin session[g]
    BY <1>3 DEF Survive, Lapse
  <2>2. CASE g = h /\ u = t
    BY <1>1, <2>1, <2>2 DEF Typed
  <2>3. CASE ~(g = h /\ u = t)
    BY <1>1, <2>1, <2>3 DEF Typed
  <2> QED
    BY <2>2, <2>3
<1>6. host[h].pc = "idle" => ~Ahead(h, t) /\ ~Launching(h, t)
  BY DEF PassFits, Ahead, Launching
<1>7. PassFits(h, t)'
  BY <1>2, <1>4, <1>5, <1>6 DEF PassFits
<1>8. BudgetFits(h, t)'
  BY <1>2, <1>4, <1>5, <1>6 DEF BudgetFits
<1> QED
  BY <1>7, <1>8

LEMMA EnvironmentKnows ==
  ASSUME TypeOK, OneHost, OnlyOutages', NEW h \in Hosts, NEW t \in Tasks,
         PassFits(h, t), BudgetFits(h, t), Environment
  PROVE  PassFits(h, t)' /\ BudgetFits(h, t)'
<1>1. CASE \/ \E g \in Hosts, u \in Tasks :
                Link(g, u) \/ AgentFails(g, u) \/ SessionDies(g, u) \/ ContainerDies(g, u)
           \/ \E g \in Hosts :
                DockerStops(g) \/ DockerReturns(g) \/ GoOnline(g) \/ Flickers(g) \/ reclaim(g)
           \/ \E u \in Tasks : release(u) \/ retry_task(u) \/ Finish(u) \/ Revive(u)
           \/ ServiceRestarts
  BY <1>1, NobodyClaims, StillKnown
<1>2. ASSUME NEW g \in Hosts, NEW u \in Tasks, Survive(g, u) \/ Lapse(g, u)
      PROVE  PassFits(h, t)' /\ BudgetFits(h, t)'
  BY <1>2, TimeKnows
<1>3. ASSUME NEW g \in Hosts, HostRestarts(g) \/ Reboots(g)
      PROVE  PassFits(h, t)' /\ BudgetFits(h, t)'
  <2>1. g = h
    BY DEF OneHost
  <2>2. Fresh(h)
    BY <1>3, <2>1 DEF HostRestarts, Reboots
  <2>3. Typed(h, t)
    BY AreTyped
  <2>4. host'[h] = [Idle EXCEPT !.startup = TRUE] /\ respawns'[h][t] = 0
    BY <2>2, <2>3 DEF Fresh, Typed
  <2>5. /\ host'[h].pc = "idle" /\ host'[h].todo = {} /\ Snap(h, t)' = NoView
    BY <2>4 DEF Idle, Snap
  <2>6. ~Ahead(h, t)' /\ ~Launching(h, t)' /\ ~At(h, t, "heal")' /\ ~Partial(h, t)'
    BY <2>4, <2>5 DEF Ahead, Launching, At, Partial
  <2>7. \A p \in Phases : Snap(h, t)'.status # p
    BY <2>5 DEF NoView, Phases
  <2> QED
    BY <2>5, <2>6, <2>7 DEF PassFits, BudgetFits
<1> QED
  BY <1>1, <1>2, <1>3, Zenon DEF Environment

(* Of a host on its own, an outage of Docker, a crash of the service or of the *)
(* machine, or an operator, refills no budget that is in use (heal,           *)
(* spawner.py), however often they strike.                                    *)
THEOREM OutagesKeepBudget == ASSUME OneHost PROVE Spec => OutageKeepsBudget
<1>1. Init => (OnlyOutages => OutageInv)
  <2> SUFFICES ASSUME Init, NEW h \in Hosts, NEW t \in Tasks PROVE PassFits(h, t) /\ BudgetFits(h, t)
    BY DEF OutageInv
  <2>1. host[h] = [Idle EXCEPT !.startup = TRUE] /\ respawns[h][t] = 0
    BY DEF Init
  <2>2. /\ host[h].pc = "idle" /\ host[h].todo = {} /\ Snap(h, t) = NoView
    BY <2>1 DEF Idle, Snap
  <2>3. ~Ahead(h, t) /\ ~Launching(h, t) /\ ~At(h, t, "heal") /\ ~Partial(h, t)
    BY <2>1, <2>2 DEF Ahead, Launching, At, Partial
  <2>4. \A p \in Phases : Snap(h, t).status # p
    BY <2>2 DEF NoView, Phases
  <2> QED
    BY <2>2, <2>3, <2>4 DEF PassFits, BudgetFits
<1>2. TypeOK /\ (OnlyOutages => OutageInv) /\ [Next]_vars => (OnlyOutages => OutageInv)'
  <2> SUFFICES ASSUME TypeOK, OnlyOutages => OutageInv, [Next]_vars, OnlyOutages',
                      NEW h \in Hosts, NEW t \in Tasks
               PROVE  PassFits(h, t)' /\ BudgetFits(h, t)'
    BY DEF OutageInv
  <2>1. OnlyOutages
    BY StillOutages
  <2>2. PassFits(h, t) /\ BudgetFits(h, t)
    BY <2>1 DEF OutageInv
  <2>3. ASSUME NEW g \in Hosts, HostStep(g)
        PROVE  PassFits(h, t)' /\ BudgetFits(h, t)'
    <3>1. g = h
      BY DEF OneHost
    <3> QED
      BY <2>2, <2>3, <3>1, PassKnows
  <2>4. CASE Environment
    BY <2>2, <2>4, EnvironmentKnows
  <2>5. CASE UNCHANGED vars
    <3>1. host' = host /\ UNCHANGED budget /\ session' = session /\ task' = task
      BY <2>5 DEF vars, machine, service
    <3> QED
      BY <2>2, <3>1, StillKnown DEF Ours
  <2> QED
    BY <2>3, <2>4, <2>5 DEF Next
<1>3. TypeOK /\ (OnlyOutages => OutageInv) /\ [Next]_vars =>
        [\A h \in Hosts, t \in Tasks :
           /\ OnlyOutages
           /\ At(h, t, "heal") /\ host'[h].pc = "launch"
           /\ respawns[h][t] \in 1 .. MaxRespawns - 1
           => respawns'[h][t] = respawns[h][t] + 1 \/ window[h][t] = "survived"]_vars
  <2> SUFFICES ASSUME TypeOK, OutageInv, Next, NEW h \in Hosts, NEW t \in Tasks,
                      At(h, t, "heal"), host'[h].pc = "launch",
                      respawns[h][t] \in 1 .. MaxRespawns - 1
               PROVE  respawns'[h][t] = respawns[h][t] + 1 \/ window[h][t] = "survived"
    OBVIOUS
  <2>1. Typed(h, t) /\ PassFits(h, t) /\ BudgetFits(h, t) /\ Partial(h, t)
    BY AreTyped DEF OutageInv, Partial
  <2>2. heal(h, t) /\ MayRespawn(h, t)
    <3>1. host[h].pc = "heal" /\ host[h].at = t
      BY DEF At
    <3>2. ~Environment
      <4>1. Environment => host' = host \/ \E g \in Hosts : Fresh(g)
        BY EnvironmentLeaves DEF DockerStops, DockerReturns, HostRestarts, Reboots, GoOnline,
                                 Flickers, ServiceRestarts
      <4>2. ASSUME NEW g \in Hosts, Fresh(g) PROVE host'[h].pc \in {"idle", "heal"}
        BY <2>1, <3>1, <4>2 DEF Fresh, Typed, Idle
      <4> QED
        BY <3>1, <4>1, <4>2
    <3>3. ASSUME NEW g \in Hosts, HostStep(g) PROVE g = h
      BY DEF OneHost
    <3>4. HostStep(h)
      BY <3>2, <3>3 DEF Next
    <3>5. ~Poll(h) /\ \A u \in Tasks :
            /\ ~Reclaim(h, u) /\ ~mark_healing(h, u) /\ ~spawn_one(h, u) /\ ~reconcile(h, u)
            /\ ~cleanup(h, u) /\ ~PassOver(h, u) /\ ~Announce(h, u) /\ ~StartBackend(h, u)
            /\ ~HoldLaunch(h, u) /\ ~FailLaunch(h, u) /\ ~InfraFail(h, u)
      BY <3>1 DEF Poll, Reclaim, mark_healing, spawn_one, reconcile, cleanup, PassOver, Announce,
                  StartBackend, HoldLaunch, FailLaunch, InfraFail, Facing, At
    <3>6. \E u \in Tasks : heal(h, u)
      BY <3>4, <3>5, Zenon DEF HostStep
    <3>7. heal(h, t)
      BY <3>1, <3>6 DEF heal, At
    <3>8. MayRespawn(h, t)
      <4>1. Done(h, t) => host'[h].pc \in {"idle", "work"}
        BY <2>1, <3>1, PlaceAfter DEF Idle
      <4> QED
        BY <3>7, <4>1 DEF heal
    <3> QED
      BY <3>7, <3>8
  <2>3. window[h][t] # "lapsed"
    BY <2>1, <2>2, HealSees DEF MayRespawn
  <2>4. respawns'[h][t] = respawn_count(h, t) + 1
    BY <2>1, <2>2 DEF heal, Typed
  <2> QED
    BY <2>3, <2>4 DEF respawn_count
<1> QED
  BY FleetTypes, <1>1, <1>2, <1>3, PTL DEF Spec, OutageKeepsBudget
-----------------------------------------------------------------------------
(* Checkouts *)

(* Nobody reopens a task. *)
NobodyReopens == Allowance["revive"] = 0

(* What a snapshot shows finished is finished. *)
FinishedStays ==
  \A h \in Hosts, t \in Tasks :
    host[h].snap[t].stage = "finished" => task[t].stage = "finished"

(* A daemon's step changes the stage of no task. *)
LEMMA StepKeepsStage ==
  ASSUME TypeOK, NEW h \in Hosts, HostStep(h), NEW u \in Tasks
  PROVE  task'[u].stage = task[u].stage
<1>1. task \in [Tasks -> TaskRecord] /\ task[u] \in TaskRecord
  BY DEF TypeOK
<1>2. ASSUME NEW t \in Tasks
      PROVE  /\ \A p : Reported(t, p)[u].stage = task[u].stage
             /\ Released(t)[u].stage = task[u].stage
             /\ [task EXCEPT ![t].claimed = h, ![t].phase = Nil][u].stage = task[u].stage
             /\ [task EXCEPT ![t].paused = TRUE, ![t].phase = "failed"][u].stage = task[u].stage
  BY <1>1 DEF Reported, Released, TaskRecord
<1>3. CASE Poll(h)
  BY <1>3 DEF Poll, service
<1>4. ASSUME NEW t \in Tasks,
             \/ Reclaim(h, t) \/ mark_healing(h, t) \/ reconcile(h, t) \/ Announce(h, t)
             \/ StartBackend(h, t) \/ FailLaunch(h, t) \/ InfraFail(h, t)
      PROVE  task'[u].stage = task[u].stage
  <2>1. task' = task \/ task' = Released(t) \/ \E p : task' = Reported(t, p)
    BY <1>4 DEF Reclaim, mark_healing, reconcile, Announce, StartBackend, FailLaunch, InfraFail
  <2>2. ASSUME NEW p, task' = Reported(t, p)
        PROVE  task'[u].stage = task[u].stage
    BY <1>2, <2>2
  <2> QED
    BY <1>2, <2>1, <2>2
<1>5. ASSUME NEW t \in Tasks,
             \/ spawn_one(h, t) \/ heal(h, t) \/ cleanup(h, t) \/ PassOver(h, t) \/ HoldLaunch(h, t)
      PROVE  task'[u].stage = task[u].stage
  <2>1. \/ task' = task \/ task' = Released(t)
        \/ task' = [task EXCEPT ![t].claimed = h, ![t].phase = Nil]
        \/ task' = [task EXCEPT ![t].paused = TRUE, ![t].phase = "failed"]
    BY <1>5 DEF spawn_one, heal, cleanup, PassOver, HoldLaunch, ReleaseLingering, service
  <2> QED
    BY <1>2, <2>1
<1> QED
  BY <1>3, <1>4, <1>5 DEF HostStep

(* A daemon's snapshot is of the moment of its poll. *)
LEMMA SnapshotOfPoll ==
  ASSUME TypeOK, NEW h \in Hosts, HostStep(h), NEW g \in Hosts, NEW u \in Tasks
  PROVE  host'[g].snap[u].stage \in {host[g].snap[u].stage, task[u].stage, "open"}
<1>1. host \in [Hosts -> HostRecord] /\ host[g] \in HostRecord
  BY DEF TypeOK
<1>2. CASE Poll(h)
  BY <1>1, <1>2 DEF Poll, View
<1>3. ASSUME NEW t \in Tasks, Done(h, t) \/ (\E pc : Goto(h, t, pc))
      PROVE  host'[g].snap[u].stage \in {host[g].snap[u].stage, "open"}
  <2>1. After(h, t).snap = host[h].snap \/ After(h, t) = Idle
    BY <1>1 DEF After, TypeOK, HostRecord
  <2>2. Idle.snap[u].stage = "open"
    BY DEF Idle, NoView
  <2>3. CASE Done(h, t)
    BY <1>1, <2>1, <2>2, <2>3 DEF Done
  <2>4. ASSUME NEW pc, Goto(h, t, pc) PROVE host'[g].snap = host[g].snap
    BY <1>1, <2>4 DEF Goto, HostRecord
  <2> QED
    BY <1>3, <2>3, <2>4
<1> QED
  BY <1>2, <1>3
     DEF HostStep, Reclaim, mark_healing, spawn_one, reconcile, heal, cleanup, PassOver, Announce,
         StartBackend, HoldLaunch, FailLaunch, InfraFail

(* Only the cleanup of a task removes its checkout. *)
LEMMA OnlyCleanupRemoves ==
  ASSUME TypeOK, Next, NEW h \in Hosts, NEW t \in Tasks, t \in workspace[h] \ workspace'[h]
  PROVE  cleanup(h, t)
<1>1. workspace \in [Hosts -> SUBSET Tasks]
  BY DEF TypeOK
<1>2. workspace' # workspace
  OBVIOUS
<1>3. ~Environment
  BY <1>2, EnvironmentLeaves
<1>4. PICK g \in Hosts : HostStep(g)
  BY <1>3 DEF Next
<1>5. ~Poll(g)
  BY <1>2 DEF Poll, machine
<1>6. ASSUME NEW u \in Tasks, StartBackend(g, u) \/ InfraFail(g, u)
      PROVE  FALSE
  <2>1. workspace' = [workspace EXCEPT ![g] = @ \cup {u}]
    BY <1>6 DEF StartBackend, InfraFail
  <2> QED
    BY <1>1, <2>1
<1>7. PICK u \in Tasks : cleanup(g, u)
  BY <1>2, <1>4, <1>5, <1>6
     DEF HostStep, machine, Reclaim, mark_healing, spawn_one, reconcile, heal, PassOver, Announce,
         HoldLaunch, FailLaunch
<1>8. workspace' = workspace \/ workspace' = [workspace EXCEPT ![g] = @ \ {u}]
  BY <1>7 DEF cleanup
<1> QED
  BY <1>1, <1>2, <1>7, <1>8

(* While nobody reopens a task, a checkout is deleted only when its task is   *)
(* finished at that very moment, however old the snapshot the deletion is     *)
(* decided on (cleanup_workspaces, host.py).                                  *)
THEOREM CheckoutsStay == ASSUME NobodyReopens PROVE Spec => OpenCheckoutsStay
<1> DEFINE Inv == TypeOK /\ FinishedStays
<1>1. Init => Inv
  <2> SUFFICES ASSUME Init PROVE Inv
    OBVIOUS
  <2>1. ASSUME NEW h \in Hosts, NEW t \in Tasks
        PROVE  host[h].snap[t].stage = "open"
    BY DEF Init, Idle, NoView
  <2> QED
    BY <2>1, InitType DEF FinishedStays
<1>2. Inv /\ TypeOK' /\ [Next]_vars => Inv'
  <2> SUFFICES ASSUME TypeOK, FinishedStays, [Next]_vars, NEW g \in Hosts, NEW u \in Tasks
               PROVE  (host[g].snap[u].stage = "finished" => task[u].stage = "finished")'
    BY DEF FinishedStays
  <2>1. host[g].snap[u].stage = "finished" => task[u].stage = "finished"
    BY DEF FinishedStays
  <2>2. task \in [Tasks -> TaskRecord] /\ task[u] \in TaskRecord
    BY DEF TypeOK
  <2>3. ASSUME NEW h \in Hosts, HostStep(h)
        PROVE  (host[g].snap[u].stage = "finished" => task[u].stage = "finished")'
    BY <2>1, <2>3, StepKeepsStage, SnapshotOfPoll
  <2>4. CASE Environment
    <3>1. ~Strike("revive")
      BY NeverStrikes DEF NobodyReopens, Disturbances
    <3>2. task'[u].stage \in {task[u].stage, "finished"}
      <4>1. ASSUME NEW t \in Tasks
            PROVE  /\ release(t) \/ retry_task(t) => task'[u].stage = task[u].stage
                   /\ Finish(t) => task'[u].stage \in {task[u].stage, "finished"}
                   /\ ~Revive(t)
        BY <2>2, <3>1 DEF release, retry_task, Finish, Revive, Released, TaskRecord
      <4>2. ASSUME NEW h \in Hosts
            PROVE  /\ reclaim(h) => task'[u].stage = task[u].stage
                   /\ \A t \in Tasks : AgentFails(h, t) => task'[u].stage = task[u].stage
        <5>1. ASSUME reclaim(h) PROVE task'[u].stage = task[u].stage
          <6>1. task'[u] \in {task[u], [task[u] EXCEPT !.claimed = Nil, !.phase = Nil]}
            BY <2>2, <5>1 DEF reclaim
          <6> QED
            BY <2>2, <6>1 DEF TaskRecord
        <5>2. ASSUME NEW t \in Tasks, AgentFails(h, t) PROVE task'[u].stage = task[u].stage
          BY <2>2, <5>2 DEF AgentFails, Reported, TaskRecord
        <5> QED
          BY <5>1, <5>2
      <4>3. ServiceRestarts => task'[u].stage = task[u].stage
        BY <2>2 DEF ServiceRestarts, TaskRecord
      <4> QED
        BY <2>4, <4>1, <4>2, <4>3
           DEF Environment, service, Link, SessionDies, ContainerDies, Survive, Lapse, DockerStops,
               DockerReturns, HostRestarts, Reboots, GoOnline, Flickers
    <3>3. host'[g].snap[u].stage \in {host[g].snap[u].stage, "open"}
      <4>1. host \in [Hosts -> HostRecord]
        BY DEF TypeOK
      <4>2. ASSUME NEW h \in Hosts, Fresh(h)
            PROVE  host'[g].snap[u].stage \in {host[g].snap[u].stage, "open"}
        BY <4>1, <4>2 DEF Fresh, Idle, NoView
      <4> QED
        BY <2>4, <4>2, EnvironmentLeaves DEF HostRestarts, Reboots
    <3> QED
      BY <2>1, <3>2, <3>3
  <2>5. CASE UNCHANGED vars
    BY <2>1, <2>5 DEF vars, service
  <2> QED
    BY <2>3, <2>4, <2>5 DEF Next
<1>3. Inv /\ [Next]_vars
        => [\A h \in Hosts, t \in Tasks :
              t \in workspace[h] \ workspace'[h] => task[t].stage = "finished"]_vars
  <2> SUFFICES ASSUME TypeOK, FinishedStays, Next, NEW h \in Hosts, NEW t \in Tasks,
                      t \in workspace[h] \ workspace'[h]
               PROVE  task[t].stage = "finished"
    OBVIOUS
  <2>1. cleanup(h, t)
    BY OnlyCleanupRemoves
  <2>2. host[h].snap[t].stage \in {"open", "finished"}
    BY DEF TypeOK, HostRecord, TaskView
  <2> QED
    BY <2>1, <2>2 DEF cleanup, Open, FinishedStays
<1> QED
  BY FleetTypes, <1>1, <1>2, <1>3, PTL DEF Spec, OpenCheckoutsStay

-----------------------------------------------------------------------------
(* Failures *)

(* No liveness stream of a daemon drops. *)
StreamsStayOpen == \A d \in {"flicker", "service", "host", "reboot"} : Allowance[d] = 0

(* The snapshot of h shows a task of its own failed. *)
ShowsFailure(h, t) == Mine(h, t) /\ Open(h, t) /\ host[h].snap[t].phase = "failed"

(* Then it shows the status failed, too, and its pass launches nothing.       *)
FailuresShown ==
  /\ online = Hosts
  /\ \A h \in Hosts, t \in Tasks :
       ShowsFailure(h, t) =>
         host[h].snap[t].status = "failed" /\ ~At(h, t, "launch") /\ ~At(h, t, "start")

(* While the claimant is connected the service shows a failure as one.        *)
LEMMA FailureView ==
  ASSUME TypeOK, online = Hosts, NEW h \in Hosts, NEW t \in Tasks,
         task[t].stage = "open", task[t].claimed = h, task[t].phase = "failed"
  PROVE  View(t).status = "failed"
<1>1. h # Nil /\ h \in online /\ "failed" # Nil
  BY FleetAssumption DEF Phases
<1>2. View(t).status = compose_container_status(t)
  BY DEF View
<1>3. CASE task[t].paused /\ linked[t] = {}
  BY <1>2, <1>3 DEF compose_container_status
<1>4. CASE ~(task[t].paused /\ linked[t] = {})
  <2>1. CASE linked[t] # {}
    BY <1>1, <1>2, <1>4, <2>1 DEF compose_container_status
  <2>2. CASE linked[t] = {}
    <3>1. task[t].stage = "open" /\ ~task[t].paused /\ task[t].claimed # Nil
          /\ task[t].claimed \in online /\ task[t].phase = "failed" /\ task[t].phase # Nil
      BY <1>1, <1>4, <2>2
    <3> QED
      BY <1>2, <2>2, <3>1 DEF compose_container_status
  <2> QED
    BY <2>1, <2>2
<1> QED
  BY <1>3, <1>4

(* No step but a stream's own takes a daemon off line.                        *)
LEMMA StaysOnline ==
  ASSUME StreamsStayOpen, TypeOK, online = Hosts, [Next]_vars
  PROVE  online' = Hosts
<1>1. ~Strike("flicker") /\ ~Strike("service") /\ ~Strike("host") /\ ~Strike("reboot")
  BY NeverStrikes DEF StreamsStayOpen, Disturbances
<1>2. ASSUME NEW h \in Hosts, HostStep(h)
      PROVE  online' = online
  BY <1>2 DEF HostStep, service, Poll, Reclaim, mark_healing, spawn_one, reconcile, heal, cleanup,
              PassOver, Announce, StartBackend, HoldLaunch, FailLaunch, InfraFail
<1>3. ASSUME Environment
      PROVE  online' = online
  <2>1. ASSUME NEW h \in Hosts, HostRestarts(h) \/ Reboots(h) \/ Flickers(h)
        PROVE  FALSE
    BY <1>1, <2>1 DEF HostRestarts, Reboots, Flickers
  <2>2. ~ServiceRestarts
    BY <1>1 DEF ServiceRestarts
  <2>3. ASSUME NEW h \in Hosts, GoOnline(h)
        PROVE  FALSE
    BY <2>3 DEF GoOnline
  <2> QED
    BY <1>3, <2>1, <2>2, <2>3, EnvironmentLeaves
<1> QED
  BY <1>2, <1>3 DEF Next, vars, service

(* While no daemon is replaced, the pass of one is its own alone.             *)
LEMMA OwnStep ==
  ASSUME StreamsStayOpen, TypeOK, [Next]_vars, NEW h \in Hosts, host'[h] # host[h]
  PROVE  HostStep(h)
<1>1. ~Strike("host") /\ ~Strike("reboot")
  BY NeverStrikes DEF StreamsStayOpen, Disturbances
<1>2. ~Environment
  <2>1. ASSUME NEW g \in Hosts, HostRestarts(g) \/ Reboots(g)
        PROVE  FALSE
    BY <1>1, <2>1 DEF HostRestarts, Reboots
  <2> QED
    BY <2>1, EnvironmentLeaves
<1>3. PICK g \in Hosts : HostStep(g)
  BY <1>2 DEF Next, vars
<1>4. g = h
  <2> SUFFICES ASSUME g # h PROVE host'[h] = host[h]
    OBVIOUS
  <2>1. host \in [Hosts -> HostRecord]
    BY DEF TypeOK
  <2>2. ASSUME NEW u \in Tasks, Done(g, u) \/ (\E pc : Goto(g, u, pc))
        PROVE  host'[h] = host[h]
    BY <2>1, <2>2 DEF Done, Goto
  <2>3. CASE Poll(g)
    BY <2>1, <2>3 DEF Poll
  <2>4. ASSUME NEW u \in Tasks,
               \/ Reclaim(g, u) \/ mark_healing(g, u) \/ spawn_one(g, u) \/ reconcile(g, u)
               \/ heal(g, u) \/ cleanup(g, u) \/ PassOver(g, u) \/ Announce(g, u)
               \/ StartBackend(g, u) \/ HoldLaunch(g, u) \/ FailLaunch(g, u) \/ InfraFail(g, u)
        PROVE  Done(g, u) \/ (\E pc : Goto(g, u, pc))
    BY <2>4 DEF Reclaim, mark_healing, spawn_one, reconcile, heal, cleanup, PassOver, Announce,
                StartBackend, HoldLaunch, FailLaunch, InfraFail
  <2> QED
    BY <1>3, <2>2, <2>3, <2>4 DEF HostStep
<1> QED
  BY <1>3, <1>4

(* What a pass goes on to never launches a task whose failure it shows.       *)
LEMMA PassShows ==
  ASSUME TypeOK, FailuresShown, NEW h \in Hosts, HostStep(h), NEW t \in Tasks
  PROVE  (ShowsFailure(h, t) =>
            host[h].snap[t].status = "failed" /\ ~At(h, t, "launch") /\ ~At(h, t, "start"))'
<1> DEFINE Goal == (ShowsFailure(h, t) =>
              host[h].snap[t].status = "failed" /\ ~At(h, t, "launch") /\ ~At(h, t, "start"))'
<1>1. /\ host \in [Hosts -> HostRecord] /\ host[h] \in HostRecord
      /\ host[h].snap \in [Tasks -> TaskView]
  BY DEF TypeOK, HostRecord
<1>2. ShowsFailure(h, t) =>
        host[h].snap[t].status = "failed" /\ ~At(h, t, "launch") /\ ~At(h, t, "start")
  BY DEF FailuresShown
<1>3. ASSUME Poll(h) PROVE Goal
  <2>1. /\ host'[h].snap[t] = View(t)
        /\ host'[h].pc \in {"reclaim", "mark"}
    BY <1>1, <1>3 DEF Poll
  <2>2. ShowsFailure(h, t)' => View(t).status = "failed"
    BY <2>1, FailureView DEF ShowsFailure, Mine, Open, View, FailuresShown
  <2> QED
    BY <2>1, <2>2 DEF At, Goal
<1>4. ASSUME NEW u \in Tasks, Done(h, u) PROVE Goal
  <2>1. host'[h] = After(h, u)
    BY <1>1, <1>4 DEF Done
  <2>2. \/ After(h, u) = Idle
        \/ After(h, u).snap = host[h].snap /\ After(h, u).pc \in {"reclaim", "mark", "work"}
    BY <1>1 DEF After, HostRecord
  <2>3. Idle.snap[t].claimed = Nil /\ Nil # h
    BY FleetAssumption DEF Idle, NoView
  <2>4. CASE After(h, u) = Idle
    BY <2>1, <2>3, <2>4 DEF ShowsFailure, Mine
  <2>5. CASE After(h, u).snap = host[h].snap /\ After(h, u).pc \in {"reclaim", "mark", "work"}
    BY <1>2, <2>1, <2>5 DEF ShowsFailure, Mine, Open, At
  <2> QED
    BY <2>2, <2>4, <2>5
<1>5. ASSUME NEW u \in Tasks, NEW pc, Goto(h, u, pc),
             pc \in {"launch", "start"} => ~ShowsFailure(h, u)
      PROVE  Goal
  <2>1. host'[h].snap = host[h].snap /\ host'[h].pc = pc /\ host'[h].at = u
    BY <1>1, <1>5 DEF Goto, HostRecord
  <2>2. ShowsFailure(h, t)' <=> ShowsFailure(h, t)
    BY <2>1 DEF ShowsFailure, Mine, Open
  <2> QED
    BY <1>2, <1>5, <2>1, <2>2 DEF At
<1>6. ASSUME NEW u \in Tasks
      PROVE  /\ spawn_one(h, u) => Goal
             /\ heal(h, u) => Goal
             /\ Announce(h, u) => Goal
             /\ reconcile(h, u) => Goal
  <2>1. Nil # h
    BY FleetAssumption
  <2>2. ASSUME spawn_one(h, u) PROVE Goal
    BY <1>4, <1>5, <2>1, <2>2 DEF spawn_one, ShowsFailure, Mine
  <2>3. ASSUME heal(h, u) PROVE Goal
    <3>1. MayRespawn(h, u) => ~ShowsFailure(h, u)
      BY DEF MayRespawn, is_orphan, FailuresShown
    <3> QED
      BY <1>4, <1>5, <2>3, <3>1 DEF heal
  <2>4. ASSUME Announce(h, u) PROVE Goal
    BY <1>5, <2>4 DEF Announce, FailuresShown
  <2>5. ASSUME reconcile(h, u) PROVE Goal
    BY <1>4, <1>5, <2>5 DEF reconcile
  <2> QED
    BY <2>2, <2>3, <2>4, <2>5
<1> HIDE DEF Goal
<1>7. ASSUME NEW u \in Tasks,
             \/ Reclaim(h, u) \/ mark_healing(h, u) \/ cleanup(h, u) \/ PassOver(h, u)
             \/ StartBackend(h, u) \/ HoldLaunch(h, u) \/ FailLaunch(h, u) \/ InfraFail(h, u)
      PROVE  Goal
  BY <1>4, <1>7 DEF Reclaim, mark_healing, cleanup, PassOver, StartBackend, HoldLaunch, FailLaunch,
                    InfraFail
<1>8. Goal
  BY <1>3, <1>6, <1>7 DEF HostStep
<1> QED
  BY <1>8 DEF Goal

(* No step of a pass touches a task whose failure its snapshot shows.         *)
LEMMA FailureLeft ==
  ASSUME TypeOK, FailuresShown, NEW h \in Hosts, HostStep(h), NEW t \in Tasks, ShowsFailure(h, t)
  PROVE  task'[t] = task[t]
<1>1. /\ task \in [Tasks -> TaskRecord]
      /\ host[h].snap[t].status = "failed" /\ ~At(h, t, "launch") /\ ~At(h, t, "start")
      /\ host[h].snap[t].claimed = h /\ h # Nil /\ host[h].snap[t].stage = "open"
  BY FleetAssumption DEF TypeOK, FailuresShown, ShowsFailure, Mine, Open
<1>2. CASE Poll(h)
  BY <1>2 DEF Poll, service
<1>3. ASSUME NEW u \in Tasks,
             \/ Reclaim(h, u) \/ mark_healing(h, u) \/ reconcile(h, u) \/ cleanup(h, u)
             \/ spawn_one(h, u) \/ heal(h, u) \/ PassOver(h, u)
      PROVE  task'[t] = task[t]
  <2>1. CASE u = t
    BY <1>1, <1>3, <2>1 DEF Reclaim, mark_healing, reconcile, cleanup, spawn_one, heal, PassOver,
                            is_orphan, Open, service
  <2>2. CASE u # t
    <3>1. \/ task' = task \/ task' = Released(u) \/ (\E p : task' = Reported(u, p))
          \/ task' = [task EXCEPT ![u].claimed = h, ![u].phase = Nil]
      BY <1>3 DEF Reclaim, mark_healing, reconcile, cleanup, spawn_one, heal, PassOver,
                  ReleaseLingering, service
    <3>2. ASSUME NEW p, task' = Reported(u, p) PROVE task'[t] = task[t]
      BY <1>1, <2>2, <3>2 DEF Reported
    <3>3. CASE task' = Released(u)
      BY <1>1, <2>2, <3>3 DEF Released
    <3>4. CASE task' = [task EXCEPT ![u].claimed = h, ![u].phase = Nil]
      BY <1>1, <2>2, <3>4
    <3> QED
      BY <3>1, <3>2, <3>3, <3>4
  <2> QED
    BY <2>1, <2>2
<1>4. ASSUME NEW u \in Tasks,
             \/ Announce(h, u) \/ StartBackend(h, u) \/ HoldLaunch(h, u) \/ FailLaunch(h, u)
             \/ InfraFail(h, u)
      PROVE  task'[t] = task[t]
  <2>1. u # t
    BY <1>1, <1>4 DEF Announce, StartBackend, HoldLaunch, FailLaunch, InfraFail
  <2>2. \/ task' = task \/ (\E p : task' = Reported(u, p))
        \/ task' = [task EXCEPT ![u].paused = TRUE, ![u].phase = "failed"]
    BY <1>4 DEF Announce, StartBackend, HoldLaunch, FailLaunch, InfraFail
  <2>3. ASSUME NEW p, task' = Reported(u, p) PROVE task'[t] = task[t]
    BY <1>1, <2>1, <2>3 DEF Reported
  <2>4. CASE task' = [task EXCEPT ![u].paused = TRUE, ![u].phase = "failed"]
    BY <1>1, <2>1, <2>4
  <2> QED
    BY <2>2, <2>3, <2>4
<1> QED
  BY <1>2, <1>3, <1>4 DEF HostStep

(* While the daemons' streams stay open, a daemon leaves a failure its        *)
(* snapshot shows to the operator, with the claim (_is_orphan, heal and       *)
(* startup_reclaim, host.py).                                                 *)
THEOREM FailuresStand == ASSUME StreamsStayOpen PROVE Spec => FailureSeenStands
<1>1. Init => FailuresShown
  <2> SUFFICES ASSUME Init, NEW h \in Hosts, NEW t \in Tasks
               PROVE  ~ShowsFailure(h, t)
    BY DEF FailuresShown, Init
  <2>1. host[h].snap[t].claimed = Nil
    BY DEF Init, Idle, NoView
  <2> QED
    BY <2>1, FleetAssumption DEF ShowsFailure, Mine
<1>2. TypeOK /\ FailuresShown /\ [Next]_vars => FailuresShown'
  <2> SUFFICES ASSUME TypeOK, FailuresShown, [Next]_vars, NEW h \in Hosts, NEW t \in Tasks
               PROVE  (ShowsFailure(h, t) => host[h].snap[t].status = "failed"
                                               /\ ~At(h, t, "launch") /\ ~At(h, t, "start"))'
    BY StaysOnline DEF FailuresShown
  <2>1. CASE host'[h] = host[h]
    BY <2>1 DEF FailuresShown, ShowsFailure, Mine, Open, At
  <2>2. CASE host'[h] # host[h]
    BY <2>2, PassShows, OwnStep
  <2> QED
    BY <2>1, <2>2
<1>3. TypeOK /\ FailuresShown /\ [Next]_vars
        => [\A h \in Hosts, t \in Tasks :
              /\ host'[h] # host[h]
              /\ host[h].snap[t].phase = "failed" /\ Mine(h, t) /\ Open(h, t)
              /\ task[t].phase = "failed" /\ task[t].claimed = h
              => task'[t] = task[t]]_vars
  BY OwnStep, FailureLeft DEF ShowsFailure
<1> QED
  BY FleetTypes, <1>1, <1>2, <1>3, PTL DEF Spec, FailureSeenStands
=============================================================================

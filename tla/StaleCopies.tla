---------------------------- MODULE StaleCopies ----------------------------
(* What a save may undo.  A handler saves the whole row from the copy it      *)
(* loaded, so another handler's write in between is lost unless a lock kept   *)
(* the two apart (service.py: _transition_locks, _dependency_lock).  set_turn *)
(* and the other lock-free setters hold neither lock, claim and               *)
(* set_dependencies only the dependency lock, record_stage_entry_wake only    *)
(* the task's: their saves, and the saves of others beside them, can be       *)
(* stale.  `missed` records which are, and the properties here say that       *)
(* nothing else than such a save undoes a settled wake or a claim.            *)
EXTENDS TaskService

VARIABLE missed   \* lock -> the handlers at work on a copy that a write the lock
                  \* does not exclude has outdated

noted == <<vars, missed>>

Lock == {"task", "dependency"}

(* By the kind of the call, not by what is held: that a handler of a kind     *)
(* that takes the lock is kept apart from its like is what is to be shown.    *)
LockedOp(lock) == IF lock = "task" THEN TaskLockedOp ELSE GraphLockedOp

KeptApart(lock, r, s) == {request[r].op, request[s].op} \subseteq LockedOp(lock)

(* What the copy of a handler rests on: the wakes of the entries there were,  *)
(* and what a claim is decided by.                                            *)
WakesOverwritten(r) ==
  \E i \in DOMAIN Loaded(r).history : Loaded(r)'.history[i].wake # Loaded(r).history[i].wake

Readiness(r) ==
  <<Loaded(r).claimed, Loaded(r).state, Loaded(r).dependsOn, DependenciesBlocking(Loaded(r))>>

Outdated(lock, r) ==
  IF lock = "task" THEN WakesOverwritten(r) ELSE Readiness(r)' # Readiness(r)

AtWork(r) == request[r].pc \in Saving

Note ==
  missed' = [lock \in Lock |->
    {r \in Req : /\ AtWork(r) /\ AtWork(r)'
                 /\ \/ r \in missed[lock]
                    \/ /\ Outdated(lock, r)
                       /\ \E s \in Req \ {r} : /\ request'[s] # request[s]
                                               /\ ~KeptApart(lock, r, s)}]

NotedInit == Init /\ missed = [lock \in Lock |-> {}]

NotedSpec == NotedInit /\ [][Next /\ Note]_noted

-----------------------------------------------------------------------------
(* The step saves a copy of the task that such a write has outdated. *)
StaleSave(lock, id) ==
  \E r \in missed[lock] : /\ request[r].pc = "update" /\ request'[r] # request[r]
                          /\ Target(r) = id

(* A stage-entry wake once delivered or skipped never becomes pending again,  *)
(* so the agent is not woken twice for one entry (record_stage_entry_wake     *)
(* under the task's lock): it does only when a handler outside that lock      *)
(* (set_turn, claim) saves the copy it loaded while the wake was pending, or  *)
(* its write comes between the load and the save of another.                  *)
SettledWakeStays ==
  [][\A id \in DOMAIN row : \A i \in 1..Last(row[id]) :
       (row[id].history[i].wake # "pending" /\ row'[id].history[i].wake # row[id].history[i].wake)
         => StaleSave("task", id)]_row

GivesUp(id) ==
  /\ row'[id].claimed = Nil
  /\ \E r \in Req : request[r].op \in {"release", "retry_task"} /\ Target(r) = id

(* A claimed task loses its runner only by being given up: no write of        *)
(* another handler drops or replaces the claim, but the save of a copy that a *)
(* write outside the dependency lock has outdated (a set_turn or a recorded   *)
(* wake across a claim).                                                      *)
ClaimGivenUpOnly ==
  [][\A id \in DOMAIN row :
       (row[id].claimed # Nil /\ row'[id].claimed # row[id].claimed)
         => GivesUp(id) \/ StaleSave("dependency", id)]_row

(* A task is newly claimed only while it can run: not finished, not held, and *)
(* every dependency complete at the very moment the claim is recorded; but    *)
(* for such a save, which writes a claim that was given up back.              *)
ClaimOnlyReady ==
  [][\A id \in DOMAIN row :
       (row[id].claimed = Nil /\ row'[id].claimed # Nil)
         => \/ /\ ~Terminal(row[id])
               /\ ~row[id].launchPaused
               /\ \A d \in row[id].dependsOn : Terminal(row[d]) /\ row[d].state # Dropped
            \/ StaleSave("dependency", id)]_row

-----------------------------------------------------------------------------
(* The inductive invariants behind the proofs (module TaskServiceProofs) *)

(* The copy agrees with the row on every wake that is settled there. *)
WakeOK(r) ==
  (AtWork(r) /\ r \notin missed["task"]) =>
    \A i \in DOMAIN Loaded(r).history \cap DOMAIN request[r].task.history :
      Loaded(r).history[i].wake # "pending"
        => request[r].task.history[i].wake = Loaded(r).history[i].wake

(* A claim that is under way found its task ready, and it still is. *)
ClaimDecided(r) ==
  LET task == request[r].task  old == Loaded(r)
  IN  /\ old.claimed \in {Nil, arg[r]}
      /\ ~old.launchPaused
      /\ request[r].pc = "ready" =>
           /\ task.claimed = old.claimed
           /\ task.state = old.state
           /\ task.dependsOn = old.dependsOn
      /\ request[r].pc # "ready" =>
           /\ task.claimed = arg[r]
           /\ old.claimed = Nil => ~Terminal(old) /\ ~DependenciesBlocking(old)

(* The copy holds the claim that is stored, but for a claim and a release. *)
ClaimOK(r) ==
  (AtWork(r) /\ r \notin missed["dependency"]) =>
    /\ request[r].op = "claim"   => ClaimDecided(r)
    /\ request[r].op = "release" => request[r].task.claimed = Nil
    /\ request[r].op \notin {"claim", "release"} => request[r].task.claimed = Loaded(r).claimed
=============================================================================

----------------------------- MODULE ChangeFeed -----------------------------
(* The long-poll on which hosts and dashboards follow the tasks: the counter  *)
(* a mutation bumps after its commit (core/store.py, service.tasks_version),  *)
(* the broadcast that parks a request (ChangeFeed in taskservice/api.py), the *)
(* listing it then makes, and the cursor the client sends back                *)
(* (client.list_tasks_versioned).                                             *)
(*                                                                            *)
(* What a listing shows is abstracted to the number of mutations committed    *)
(* when its query ran.                                                        *)
EXTENDS Integers, FiniteSets

CONSTANTS
  Client,       \* followers of the feed: host daemons, dashboards
  Writer,       \* handlers that mutate tasks
  MaxCommits,   \* bound on the mutations of a behaviour
  MaxPulses,    \* bound on the changes that are not stored (liveness, phases)
  MaxRestarts   \* bound on the restarts of the service

ASSUME FeedAssumption ==
  /\ IsFiniteSet(Writer)
  /\ MaxCommits \in Nat /\ MaxPulses \in Nat /\ MaxRestarts \in Nat

VARIABLES
  committed,    \* mutations in the database
  owing,        \* handlers that have committed and not yet bumped the counter
  version,      \* tasks_version()
  poll,         \* client -> its request: where it is, the version it will report, what it read
  cursor,       \* client -> the version it saw last
  seen,         \* client -> how many mutations the listing it saw last reflects
  issued,       \* client -> its cursor comes from the process now running (observed, not stored)
  pulses,
  restarts

vars == <<committed, owing, version, poll, cursor, seen, issued, pulses, restarts>>

NoPoll == [pc |-> "idle", reported |-> 0, read |-> 0]

(* A client starts with the cursor 0, which no service gave it; tasks may     *)
(* have been stored before.                                                   *)
Init ==
  /\ committed \in {n \in {0, 1} : n <= MaxCommits}
  /\ owing = {}
  /\ version = 0
  /\ poll = [c \in Client |-> NoPoll]
  /\ cursor = [c \in Client |-> 0]
  /\ seen = [c \in Client |-> 0]
  /\ issued = [c \in Client |-> FALSE]
  /\ pulses = 0
  /\ restarts = 0

-----------------------------------------------------------------------------
(* Mutations *)

(* The write of a mutation; its handler is resumed later. *)
Commit(w) ==
  /\ w \notin owing
  /\ committed < MaxCommits
  /\ committed' = committed + 1
  /\ owing' = owing \cup {w}
  /\ UNCHANGED <<version, poll, cursor, seen, issued, pulses, restarts>>

(* ChangeFeed.notify, before it a slip that leaves whoever already waits on   *)
(* the event it replaces asleep: the event is set, a fresh one is armed.      *)
NotifyFreshEvent == UNCHANGED poll

Notify ==
  poll' = [c \in Client |->
             IF poll[c].pc = "parked" THEN [poll[c] EXCEPT !.pc = "woken"] ELSE poll[c]]

(* Store._bump_version *)
Bump(w) ==
  /\ w \in owing
  /\ owing' = owing \ {w}
  /\ version' = version + 1
  /\ Notify
  /\ UNCHANGED <<committed, cursor, seen, issued, pulses, restarts>>

(* TaskService._notify_change: a registration, a runner, a launch phase. *)
Pulse ==
  /\ pulses < MaxPulses
  /\ pulses' = pulses + 1
  /\ version' = version + 1
  /\ Notify
  /\ UNCHANGED <<committed, owing, cursor, seen, issued, restarts>>

-----------------------------------------------------------------------------
(* GET /tasks *)

Report(c) == poll' = [poll EXCEPT ![c] = [pc |-> "query", reported |-> version, read |-> 0]]

Rest == <<committed, owing, version, cursor, seen, issued, pulses, restarts>>

(* Without ?wait the version is read just before the query. *)
Snapshot(c) ==
  /\ poll[c].pc = "idle"
  /\ Report(c)
  /\ UNCHANGED Rest

(* ChangeFeed.wait up to its await: the check and the capture of the event    *)
(* are one step of the loop.                                                  *)
Wait(c) ==
  /\ poll[c].pc = "idle"
  /\ IF version # cursor[c] THEN Report(c)
     ELSE poll' = [poll EXCEPT ![c].pc = "parked"]
  /\ UNCHANGED Rest

Resume(c) ==
  /\ poll[c].pc = "woken"
  /\ Report(c)
  /\ UNCHANGED Rest

(* A slip: the wait goes on until the counter differs from the cursor. *)
TimeoutOnceMoved(c) ==
  /\ poll[c].pc = "parked"
  /\ IF version # cursor[c] THEN Report(c) ELSE UNCHANGED poll
  /\ UNCHANGED Rest

Timeout(c) ==
  /\ poll[c].pc = "parked"
  /\ Report(c)
  /\ UNCHANGED Rest

(* list_tasks_summary *)
Query(c) ==
  /\ poll[c].pc = "query"
  /\ poll' = [poll EXCEPT ![c] = [@ EXCEPT !.pc = "respond", !.read = committed]]
  /\ UNCHANGED Rest

(* A slip: the response carries the version of the moment it is built. *)
ReceiveLateVersion(c) ==
  /\ poll[c].pc = "respond"
  /\ cursor' = [cursor EXCEPT ![c] = version]
  /\ seen' = [seen EXCEPT ![c] = poll[c].read]
  /\ issued' = [issued EXCEPT ![c] = TRUE]
  /\ poll' = [poll EXCEPT ![c] = NoPoll]
  /\ UNCHANGED <<committed, owing, version, pulses, restarts>>

(* The response arrives: the client keeps the listing and the new cursor. *)
Receive(c) ==
  /\ poll[c].pc = "respond"
  /\ cursor' = [cursor EXCEPT ![c] = poll[c].reported]
  /\ seen' = [seen EXCEPT ![c] = poll[c].read]
  /\ issued' = [issued EXCEPT ![c] = TRUE]
  /\ poll' = [poll EXCEPT ![c] = NoPoll]
  /\ UNCHANGED <<committed, owing, version, pulses, restarts>>

(* The service dies and comes back: the counters start over, handlers and     *)
(* requests are gone, and clients retry with the cursor they have.            *)
Restart ==
  /\ restarts < MaxRestarts
  /\ restarts' = restarts + 1
  /\ version' = 0
  /\ owing' = {}
  /\ poll' = [c \in Client |-> NoPoll]
  /\ issued' = [c \in Client |-> FALSE]
  /\ UNCHANGED <<committed, cursor, seen, pulses>>

Next ==
  \/ \E w \in Writer : Commit(w) \/ Bump(w)
  \/ Pulse
  \/ \E c \in Client :
       \/ Snapshot(c) \/ Wait(c) \/ Resume(c) \/ Timeout(c) \/ Query(c) \/ Receive(c)
  \/ Restart

Spec == Init /\ [][Next]_vars

(* The loop resumes a handler whose await has completed; wait_for's timer     *)
(* runs out; a client (host.run, the dashboard's worker) polls again at once. *)
Fairness ==
  /\ \A w \in Writer : WF_vars(Bump(w))
  /\ \A c \in Client : /\ WF_vars(Wait(c))
                       /\ WF_vars(Resume(c))
                       /\ WF_vars(Timeout(c))
                       /\ WF_vars(Query(c))
                       /\ WF_vars(Receive(c))

FairSpec == Spec /\ Fairness
-----------------------------------------------------------------------------
(* Counters, handlers and requests have their shape, and no client has seen   *)
(* more than is stored.                                                       *)
TypeOK ==
  /\ committed \in Nat /\ version \in Nat /\ pulses \in Nat /\ restarts \in Nat
  /\ owing \subseteq Writer
  /\ poll \in [Client -> [pc : {"idle", "parked", "woken", "query", "respond"},
                          reported : Nat, read : Nat]]
  /\ cursor \in [Client -> Nat]
  /\ seen \in [Client -> Nat]
  /\ issued \in [Client -> BOOLEAN]

(* The version reported is a lower bound: a client that holds a cursor of the *)
(* running service has missed no more mutations than the counter has moved    *)
(* past it or is about to (service.py, _tasks_snapshot).                      *)
CursorIsLowerBound ==
  \A c \in Client :
    issued[c] => committed - seen[c] <= (version - cursor[c]) + Cardinality(owing)

(* No change is slept through: while a client with a cursor of the running    *)
(* service is parked and every committed mutation has been announced, there   *)
(* is nothing it has not seen.                                                *)
NothingSleptThrough ==
  \A c \in Client :
    (poll[c].pc = "parked" /\ issued[c] /\ owing = {}) => seen[c] = committed

(* Every client comes to see every mutation, also one that was never          *)
(* announced because the service died, and also when the restarted counter    *)
(* happens to equal the client's old cursor.                                  *)
EveryChangeSeen ==
  \A c \in Client : \A n \in 1..MaxCommits : committed >= n ~> seen[c] >= n

(* The inductive invariant behind the first two: the same bound holds of the  *)
(* listing a request is about to deliver.                                     *)
Unseen(n, v) == committed - n <= (version - v) + Cardinality(owing)

ClientOK(c) ==
  /\ seen[c] <= committed
  /\ issued[c] => cursor[c] <= version /\ Unseen(seen[c], cursor[c])
  /\ poll[c].pc = "parked" => version = cursor[c]
  /\ poll[c].pc \in {"query", "respond"} => poll[c].reported <= version
  /\ poll[c].pc = "respond" =>
       poll[c].read <= committed /\ Unseen(poll[c].read, poll[c].reported)

FeedInv == TypeOK /\ \A c \in Client : ClientOK(c)
=============================================================================

----------------------------- MODULE HostSession -----------------------------
(* The terminal session of one task, and the two threads of a host daemon     *)
(* that type into it: the waker, which tells the agent of each workflow state *)
(* it has entered (sessionservice/stage_entry_wake.py), and the session I/O   *)
(* worker, which types the operator's input and publishes what the pane shows *)
(* (sessionservice/session_io.py). LocalRunner creates and removes the        *)
(* session (sessionservice/local_runner.py, sessionservice/prefill.py), the   *)
(* service keeps the wakes and the inputs (taskservice/service.py).           *)
(*                                                                            *)
(* Of a time only two things matter here: whether it is still the task's      *)
(* present updated_at, and which history entries it covers. No host opts out  *)
(* of waking, and no launch is marked failed while its container is linked.   *)
EXTENDS Naturals, Sequences, FiniteSets

CONSTANTS
  Hosts,
  Keys,         \* idempotency keys of operator inputs, each also the input's id
  Nil,          \* nobody
  MaxEntries,   \* the most history entries that want a wake
  MaxPanes,     \* the most tmux panes created
  Budgets       \* what a behaviour may start with: the hosts whose daemons run, and the bounds
                \* on entries that want a wake, inputs, turns handed over, claims, panes, and
                \* faults (crashes, failed calls, lost sessions and containers)

ASSUME SessionAssumption ==
  /\ Nil \notin Hosts \cup Keys \cup (1 .. MaxEntries)
  /\ {MaxEntries, MaxPanes} \subseteq Nat
  /\ Budgets \subseteq [hosts : SUBSET Hosts, entries : 0 .. MaxEntries, inputs : Nat,
                        turns : Nat, claims : Nat, panes : 0 .. MaxPanes, faults : Nat]

VARIABLES
  owner,        \* the task's claimed_by
  turn,         \* the task's turn
  linked,       \* hosts whose container of the task holds a registration open
  wakes,        \* the wake_status of each history entry
  inputs,       \* key -> session input record
  accepting,    \* create_session_input calls past their checks, not yet stored
  settling,     \* settle_session_input calls past their checks, not yet stored
  transcript,   \* runner_id of the stored transcript
  memo,         \* hosts whose _observed holds the task's present updated_at
  threads,      \* the waker and I/O threads running
  spawn,        \* host -> step of LocalRunner.spawn
  container,    \* host -> the task's container there
  session,      \* host -> the task's tmux session there
  marker,       \* hosts with a readiness marker file
  snapshots,    \* hosts with a snapshot of the task's capability
  left,         \* what is left of each bound
  pasted,       \* text -> whether it was pasted never, once or more often (observed, not stored)
  doubtful,     \* texts whose delivery lost its outcome (observed, not stored)
  seenDown,     \* entries a pass saw while the task was not live (observed, not stored)
  torn          \* hosts whose daemon died in the middle of a spawn (observed, not stored)

record   == <<owner, turn, linked, wakes>>
queue    == <<inputs, accepting, settling, transcript>>
daemon   == <<memo, threads, spawn>>
machine  == <<container, session, marker, snapshots>>
observed == <<pasted, doubtful, seenDown, torn>>
vars     == <<record, queue, daemon, machine, left, observed>>

Entries == 1 .. MaxEntries
Texts   == ({"wake"} \X Entries) \cup ({"input"} \X Keys)
Writing == {"poll", "paste", "enter"}     \* holding the session lock
Typing  == {"enter", "record", "settle", "reply"}   \* past the paste

NoSession == [pane |-> 0, stage |-> "none", armed |-> FALSE, ready |-> FALSE, composer |-> {}]
NoInput   == [status |-> "none", submit |-> FALSE]

Live == owner # Nil /\ linked # {}
Pending == {i \in DOMAIN wakes : wakes[i] = "pending"}
PendingInputs == {k \in Keys : inputs[k].status = "pending"}

Text(t)   == <<t.kind, t.item>>
Submit(t) == t.kind = "wake" \/ inputs[t.item].submit

Use(what) == left[what] > 0 /\ left' = [left EXCEPT ![what] = @ - 1]
Fault     == Use("faults")

(* Thread t becomes the threads of set S: itself one step on, or none. *)
Become(t, S) == threads' = (threads \ {t}) \cup S
Goto(t, pc)  == Become(t, {[t EXCEPT !.pc = pc]})
Exit(t)      == Become(t, {})

(* The service stamps the task: no memo and no observation is current. *)
Stamped == [u \in threads |-> IF u.pc = "load" THEN [u EXCEPT !.seen.current = FALSE] ELSE u]
Stamp   == memo' = {} /\ threads' = {Stamped[u] : u \in threads}

-----------------------------------------------------------------------------
(* The service *)

(* A transition enters a state in which it is the agent's turn. *)
EnterState ==
  /\ accepting = {}                     \* _transition_lock
  /\ Use("entries")
  /\ wakes' = Append(wakes, "pending")
  /\ turn' = "agent"
  /\ Stamp
  /\ UNCHANGED <<owner, linked, queue, spawn, machine, observed>>

set_turn ==
  /\ Use("turns")
  /\ turn' \in {"user", "agent"} \ {turn}
  /\ Stamp
  /\ UNCHANGED <<owner, linked, wakes, queue, spawn, machine, observed>>

claim(h) ==
  /\ owner = Nil /\ h \in left.hosts
  /\ owner' = h
  /\ Use("claims")
  /\ UNCHANGED <<turn, linked, wakes, queue, daemon, machine, observed>>

(* What is being delivered when the claim goes may be delivered again. *)
release ==
  /\ owner # Nil
  /\ owner' = Nil
  /\ doubtful' = doubtful \cup {Text(t) : t \in {u \in threads : u.item # Nil}}
  /\ UNCHANGED <<turn, linked, wakes, queue, daemon, machine, left, pasted, seenDown, torn>>

register(h) ==
  /\ container[h] = "running" /\ h \notin linked
  /\ linked' = linked \cup {h}
  /\ UNCHANGED <<owner, turn, wakes, queue, daemon, machine, left, observed>>

unregister(h) ==
  /\ h \in linked
  /\ container[h] # "running"
  /\ linked' = linked \ {h}
  /\ UNCHANGED <<owner, turn, wakes, queue, daemon, machine, left, observed>>

create_session_input(k, submit) ==
  /\ accepting = {}                     \* _transition_lock
  /\ inputs[k] = NoInput /\ PendingInputs = {}
  /\ Live /\ turn = "user"
  /\ accepting' = accepting \cup {[key |-> k, submit |-> submit]}
  /\ Use("inputs")
  /\ UNCHANGED <<record, inputs, settling, transcript, daemon, machine, observed>>

StoreInput(a) ==
  /\ a \in accepting
  /\ accepting' = accepting \ {a}
  /\ inputs' = [inputs EXCEPT ![a.key] = [status |-> "pending", submit |-> a.submit]]
  /\ UNCHANGED <<record, settling, transcript, daemon, machine, left, observed>>

(* record_stage_entry_wake(i, status) is refused, or leaves the wake settled. *)
Refused(i, status) == wakes[i] \notin {"pending", status}

RecordWake(t, status, next) ==
  /\ accepting = {}                     \* _transition_lock
  /\ IF Refused(t.item, status)
     THEN Exit(t) /\ UNCHANGED <<wakes, memo>>
     ELSE /\ wakes' = [wakes EXCEPT ![t.item] = status]
          /\ LET done == [t EXCEPT !.pc = next, !.item = Nil] IN
             IF wakes[t.item] = status THEN Become(t, {done}) /\ UNCHANGED memo
             ELSE memo' = {} /\ threads' = {Stamped[u] : u \in threads \ {t}} \cup {done}
  /\ UNCHANGED <<owner, turn, linked, queue, spawn, machine, left, observed>>

(* settle_session_input reads the task and the input without a lock ... *)
SettleRead(t) ==
  /\ t.pc = "settle"
  /\ IF owner = t.host /\ inputs[t.item].status = "pending"
     THEN /\ settling' = settling \cup {[host |-> t.host, key |-> t.item, ok |-> t.ok]}
          /\ Goto(t, "reply")
     ELSE /\ IF owner = t.host THEN Goto(t, "next") ELSE Exit(t)
          /\ UNCHANGED settling
  /\ UNCHANGED <<record, inputs, accepting, transcript, memo, spawn, machine, left, observed>>

(* ... and overwrites the input later. *)
SettleWrite(s) ==
  /\ s \in settling
  /\ settling' = settling \ {s}
  /\ inputs' = [inputs EXCEPT ![s.key].status = IF s.ok THEN "delivered" ELSE "failed"]
  /\ threads' = {IF <<u.host, u.pc, u.item>> = <<s.host, "reply", s.key>>
                 THEN [u EXCEPT !.pc = "next"] ELSE u : u \in threads}
  /\ UNCHANGED <<record, accepting, transcript, memo, spawn, machine, left, observed>>

-----------------------------------------------------------------------------
(* The waker and the I/O worker *)

Flying(h, kind) == \E t \in threads : t.host = h /\ t.kind = kind

Observe(h, kind) ==
  [host |-> h, kind |-> kind, pc |-> "load",
   seen |-> [entries |-> Len(wakes), live |-> Live, turn |-> turn, current |-> TRUE],
   todo |-> {}, item |-> Nil, pane |-> 0, early |-> FALSE, ok |-> FALSE]

(* What the thread does once it has no more use for its observation. *)
Begin(t, pc, todo) == Become(t, {[t EXCEPT !.pc = pc, !.seen = Nil, !.todo = todo]})

(* A pass of h looks at the task it has listed. *)
wake(h) ==
  /\ h \in left.hosts
  /\ owner \in {Nil, h} /\ h \notin memo
  /\ ~Flying(h, "wake")
  /\ threads' = threads \cup {Observe(h, "wake")}
  /\ seenDown' = seenDown \cup (IF Live THEN {} ELSE DOMAIN wakes)
  /\ UNCHANGED <<record, queue, memo, spawn, machine, left, pasted, doubtful, torn>>

Due(t) == {i \in Pending : i <= t.seen.entries}

(* A slip: the observation is remembered whatever is left to do. *)
RememberAlways(t) ==
  memo' = IF t.seen.current THEN memo \cup {t.host} ELSE memo \ {t.host}

_remember(t) ==
  memo' = CASE Due(t) # {}                     -> memo
            [] Due(t) = {} /\ t.seen.current  -> memo \cup {t.host}
            [] Due(t) = {} /\ ~t.seen.current -> memo \ {t.host}

(* _deliver loads the task anew and finds what is due. *)
LoadWakes(t) ==
  /\ t.kind = "wake" /\ t.pc = "load"
  /\ _remember(t)
  /\ CASE Due(t) = {} \/ owner # t.host -> Exit(t)
       [] Due(t) # {} /\ owner = t.host /\ ~t.seen.live -> Begin(t, "skip", Due(t))
       [] OTHER -> IF Live THEN Begin(t, "check", Due(t)) ELSE Exit(t)
  /\ UNCHANGED <<record, queue, spawn, machine, left, observed>>

First(S) == CHOOSE i \in S : \A j \in S : i <= j

(* The thread goes on with item i, or past it. *)
TakeUp(t, i, pc) == Become(t, {[t EXCEPT !.pc = pc, !.todo = @ \ {i}, !.item = i]})
PassOver(t, i)   == Become(t, {[t EXCEPT !.todo = @ \ {i}]})

(* Before each entry the task is read again. *)
CheckWake(t) ==
  /\ t.kind = "wake" /\ t.pc \in {"check", "skip"}
  /\ IF t.todo = {} \/ owner # t.host \/ (t.pc = "check" /\ ~Live) THEN Exit(t)
     ELSE LET i == First(t.todo) IN
          IF i \in Pending THEN TakeUp(t, i, IF t.pc = "check" THEN "prefill" ELSE "drop")
          ELSE PassOver(t, i)
  /\ UNCHANGED <<record, queue, memo, spawn, machine, left, observed>>

SkipWake(t)    == t.kind = "wake" /\ t.pc = "drop" /\ RecordWake(t, "skipped", "skip")
DeliverWake(t) == t.kind = "wake" /\ t.pc = "record" /\ RecordWake(t, "delivered", "check")

process(h) ==
  /\ owner = h /\ Live
  /\ ~Flying(h, "input")
  /\ threads' = threads \cup {Observe(h, "input")}
  /\ UNCHANGED <<record, queue, memo, spawn, machine, left, observed>>

(* A slip: every input the service holds is listed. *)
AllInputs == {k \in Keys : inputs[k].status # "none"}

pending_session_input == PendingInputs

LoadInputs(t) ==
  /\ t.kind = "input" /\ t.pc = "load"
  /\ CASE t.seen.turn # "user" -> Begin(t, "capture", {})
       [] t.seen.turn = "user" /\ owner # t.host -> Exit(t)
       [] OTHER -> Begin(t, "check", pending_session_input)
  /\ UNCHANGED <<record, queue, memo, spawn, machine, left, observed>>

CheckInput(t) ==
  /\ t.kind = "input" /\ t.pc = "check"
  /\ IF t.todo = {} \/ owner # t.host \/ ~Live \/ turn # "user" THEN Goto(t, "capture")
     ELSE \E k \in t.todo : TakeUp(t, k, "prefill")
  /\ UNCHANGED <<record, queue, memo, spawn, machine, left, observed>>

(* A submitted input hands the turn over: the rest waits for another pass. *)
NextInput(t) ==
  /\ t.pc = "next"
  /\ Become(t, {[t EXCEPT !.pc = IF t.ok /\ Submit(t) THEN "capture" ELSE "check",
                           !.item = Nil, !.ok = FALSE]})
  /\ UNCHANGED <<record, queue, memo, spawn, machine, left, observed>>

Captured(h) == session[h].pane # 0

PublishTranscript(t) ==
  /\ t.kind = "input" /\ t.pc = "capture"
  /\ transcript' = IF owner = t.host /\ Live /\ Captured(t.host) THEN t.host ELSE transcript
  /\ Exit(t)
  /\ UNCHANGED <<record, inputs, accepting, settling, memo, spawn, machine, left, observed>>

(* A call to the service fails, and with it the thread. *)
FailCall(t) ==
  /\ Fault
  /\ t.pc \notin Writing \cup {"prefill"}
  /\ doubtful' = doubtful \cup (IF t.pc \in Typing THEN {Text(t)} ELSE {})
  /\ Exit(t)
  /\ UNCHANGED <<record, queue, memo, spawn, machine, pasted, seenDown, torn>>

-----------------------------------------------------------------------------
(* Typing into the pane (prefill.py) *)

(* A slip: nobody waits for the session lock. *)
Unlocked(h) == TRUE

_session_lock(h) == ~\E t \in threads : t.host = h /\ t.pc \in Writing

(* prefill_pane returned ok: the waker gives up on False, the worker settles. *)
Return(t, ok) ==
  LET back == [t EXCEPT !.pane = 0, !.early = FALSE] IN
  Become(t, IF t.kind = "wake" THEN IF ok THEN {[back EXCEPT !.pc = "record"]} ELSE {}
            ELSE {[back EXCEPT !.pc = "settle", !.ok = ok]})

(* The lock is taken and the pane's id noted. *)
FindPane(t) ==
  /\ t.pc = "prefill" /\ _session_lock(t.host)
  /\ IF session[t.host].pane = 0 THEN Return(t, FALSE)
     ELSE Become(t, {[t EXCEPT !.pc = "poll", !.pane = session[t.host].pane]})
  /\ UNCHANGED <<record, queue, memo, spawn, machine, left, observed>>

(* Polling asks for any pane of that session name, and for the marker file. *)
SeeMarker(t) ==
  /\ t.pc = "poll" /\ session[t.host].pane # 0 /\ t.host \in marker
  /\ Become(t, {[t EXCEPT !.pc = "paste", !.early = session[t.host].stage = "placeholder"]})
  /\ UNCHANGED <<record, queue, memo, spawn, machine, left, observed>>

GiveUp(t) ==
  /\ t.pc = "poll" /\ (session[t.host].pane = 0 \/ t.host \notin marker)
  /\ Return(t, FALSE)
  /\ UNCHANGED <<record, queue, memo, spawn, machine, left, observed>>

(* Once, or more often. *)
Typed(n) == IF n = 0 THEN 1 ELSE 2

There(t) == session[t.host].pane = t.pane

Paste(t) ==
  /\ t.pc = "paste"
  /\ IF There(t)
     THEN /\ session' = [session EXCEPT ![t.host].composer = @ \cup {Text(t)}]
          /\ pasted' = [pasted EXCEPT ![Text(t)] = Typed(@)]
          /\ IF Submit(t) THEN Goto(t, "enter") ELSE Return(t, TRUE)
     ELSE Return(t, FALSE) /\ UNCHANGED <<session, pasted>>
  /\ UNCHANGED <<record, queue, memo, spawn, container, marker, snapshots, left, doubtful,
                 seenDown, torn>>

Enter(t) ==
  /\ t.pc = "enter"
  /\ Return(t, There(t))
  /\ session' = IF There(t) THEN [session EXCEPT ![t.host].composer = {}] ELSE session
  /\ doubtful' = doubtful \cup (IF There(t) THEN {} ELSE {Text(t)})
  /\ UNCHANGED <<record, queue, memo, spawn, container, marker, snapshots, left, pasted,
                 seenDown, torn>>

-----------------------------------------------------------------------------
(* LocalRunner.spawn and stop *)

Spawning(h, pc) == spawn' = [spawn EXCEPT ![h] = pc]

(* Old snapshots go, a new one is taken, the old session and container go; if *)
(* either stays, the new snapshot goes again.                                 *)
SpawnClear(h) ==
  /\ spawn[h] = "idle" /\ owner = h /\ left.panes > 0
  /\ \/ /\ session' = [session EXCEPT ![h] = NoSession]
        /\ container' = [container EXCEPT ![h] = "none"]
        /\ snapshots' = snapshots \cup {h}
        /\ Spawning(h, "run") /\ UNCHANGED left
     \/ /\ Fault
        /\ snapshots' = snapshots \ {h}
        /\ session' = [session EXCEPT ![h] = NoSession]
        /\ UNCHANGED <<spawn, container>>
  /\ torn' = torn \ {h}
  /\ UNCHANGED <<record, queue, memo, threads, marker, pasted, doubtful, seenDown>>

SpawnRun(h) ==
  /\ spawn[h] = "run"
  /\ \/ container' = [container EXCEPT ![h] = "running"] /\ Spawning(h, "session")
        /\ UNCHANGED <<snapshots, left>>
     \/ Fault /\ Spawning(h, "idle") /\ snapshots' = snapshots \ {h} /\ UNCHANGED container
  /\ UNCHANGED <<record, queue, memo, threads, session, marker, observed>>

(* An inert placeholder holds the pane until the readiness watch is armed. *)
SpawnSession(h) ==
  /\ spawn[h] = "session"
  /\ session' = [session EXCEPT ![h] = [NoSession EXCEPT !.pane = left.panes,
                                                         !.stage = "placeholder"]]
  /\ Use("panes")
  /\ Spawning(h, "watch")
  /\ UNCHANGED <<record, queue, memo, threads, container, marker, snapshots, observed>>

watch_pane(h) ==
  /\ spawn[h] = "watch"
  /\ session' = IF session[h].pane = 0 THEN session
                ELSE [session EXCEPT ![h].stage = "watched", ![h].armed = TRUE]
  /\ marker' = IF session[h].pane = 0 THEN marker ELSE marker \ {h}
  /\ Spawning(h, "agent")
  /\ UNCHANGED <<record, queue, memo, threads, container, snapshots, left, observed>>

(* respawn-pane: what was typed at the placeholder is gone. *)
SpawnAgent(h) ==
  /\ spawn[h] = "agent" /\ session[h].pane # 0
  /\ session' = [session EXCEPT ![h].stage = "agent", ![h].composer = {}]
  /\ Spawning(h, "idle")
  /\ UNCHANGED <<record, queue, memo, threads, container, marker, snapshots, left, observed>>

(* Past docker run, a failure takes everything down again. *)
SpawnFail(h) ==
  /\ spawn[h] \in {"session", "watch", "agent"}
  /\ IF spawn[h] = "agent" /\ session[h].pane = 0 THEN UNCHANGED left ELSE Fault
  /\ session' = [session EXCEPT ![h] = NoSession]
  /\ container' = [container EXCEPT ![h] = "none"]
  /\ snapshots' = snapshots \ {h}
  /\ Spawning(h, "idle")
  /\ UNCHANGED <<record, queue, memo, threads, marker, observed>>

stop(h) ==
  /\ spawn[h] = "idle" /\ owner # h
  /\ session' = [session EXCEPT ![h] = NoSession]
  /\ container' = [container EXCEPT ![h] = "none"]
  /\ snapshots' = snapshots \ {h}
  /\ UNCHANGED <<record, queue, daemon, marker, left, observed>>

(* The agent asks for input: the watch notes it. *)
AgentReady(h) ==
  /\ session[h].stage = "agent" /\ ~session[h].ready
  /\ session' = [session EXCEPT ![h].ready = TRUE]
  /\ marker' = IF session[h].armed THEN marker \cup {h} ELSE marker
  /\ UNCHANGED <<record, queue, daemon, container, snapshots, left, observed>>

(* The session is lost: its agent ends, or the tmux server does. *)
LoseSession(h) ==
  /\ Fault /\ session[h].pane # 0
  /\ session' = [session EXCEPT ![h] = NoSession]
  /\ UNCHANGED <<record, queue, daemon, container, marker, snapshots, observed>>

LoseContainer(h) ==
  /\ Fault /\ container[h] = "running"
  /\ container' = [container EXCEPT ![h] = "exited"]
  /\ UNCHANGED <<record, queue, daemon, session, marker, snapshots, observed>>

(* The daemon dies: its threads and its memo are gone, tmux and Docker stay. *)
CrashDaemon(h) ==
  /\ Fault
  /\ threads' = {t \in threads : t.host # h}
  /\ memo' = memo \ {h}
  /\ Spawning(h, "idle")
  /\ doubtful' = doubtful \cup {Text(t) : t \in {u \in threads : u.host = h /\ u.pc \in Typing}}
  /\ torn' = IF spawn[h] = "run" THEN torn \cup {h} ELSE torn
  /\ UNCHANGED <<record, queue, machine, pasted, seenDown>>

-----------------------------------------------------------------------------
Init ==
  /\ owner = Nil /\ turn = "user" /\ linked = {} /\ wakes = <<>>
  /\ inputs = [k \in Keys |-> NoInput] /\ accepting = {} /\ settling = {} /\ transcript = Nil
  /\ memo = {} /\ threads = {} /\ spawn = [h \in Hosts |-> "idle"]
  /\ container = [h \in Hosts |-> "none"] /\ session = [h \in Hosts |-> NoSession]
  /\ marker = {} /\ snapshots = {}
  /\ left \in Budgets
  /\ pasted = [x \in Texts |-> 0] /\ doubtful = {} /\ seenDown = {} /\ torn = {}

Service ==
  \/ EnterState \/ set_turn \/ release
  \/ \E h \in Hosts : claim(h) \/ register(h) \/ unregister(h)
  \/ \E k \in Keys, submit \in BOOLEAN : create_session_input(k, submit)
  \/ \E a \in accepting : StoreInput(a)
  \/ \E s \in settling : SettleWrite(s)

ThreadStep(t) ==
  \/ LoadWakes(t) \/ CheckWake(t) \/ SkipWake(t) \/ DeliverWake(t)
  \/ LoadInputs(t) \/ CheckInput(t) \/ SettleRead(t) \/ NextInput(t) \/ PublishTranscript(t)
  \/ FindPane(t) \/ SeeMarker(t) \/ GiveUp(t) \/ Paste(t) \/ Enter(t)

SpawnStep(h) ==
  SpawnRun(h) \/ SpawnSession(h) \/ watch_pane(h) \/ SpawnAgent(h) \/ SpawnFail(h)

Host(h) ==
  \/ wake(h) \/ process(h)
  \/ SpawnClear(h) \/ SpawnStep(h) \/ stop(h)
  \/ AgentReady(h) \/ LoseSession(h) \/ LoseContainer(h) \/ CrashDaemon(h)

Next ==
  \/ Service
  \/ \E h \in Hosts : Host(h)
  \/ \E t \in threads : ThreadStep(t) \/ FailCall(t)

Spec == Init /\ [][Next]_vars

(* Threads, passes and stored requests keep running; what the operator, the   *)
(* agent and the faults do is left open.                                      *)
Fairness ==
  /\ \A h \in Hosts : WF_vars(wake(h)) /\ WF_vars(process(h))
  /\ \A h \in Hosts, kind \in {"wake", "input"} :
       WF_vars(\E t \in threads : t.host = h /\ t.kind = kind /\ ThreadStep(t))
  /\ WF_vars(\E a \in accepting : StoreInput(a))
  /\ WF_vars(\E s \in settling : SettleWrite(s))

FairSpec == Spec /\ Fairness

-----------------------------------------------------------------------------
(* Properties *)

Thread == [host : Hosts, kind : {"wake", "input"},
           pc : {"load", "check", "skip", "drop", "prefill", "poll", "paste", "enter", "record",
                 "settle", "reply", "next", "capture"},
           seen : [entries : 0 .. MaxEntries, live : BOOLEAN, turn : {"user", "agent"},
                   current : BOOLEAN] \cup {Nil},
           todo : SUBSET (Entries \cup Keys), item : Entries \cup Keys \cup {Nil}, pane : Nat,
           early : BOOLEAN, ok : BOOLEAN]

(* The records hold what their fields promise. *)
TypeOK ==
  /\ owner \in Hosts \cup {Nil} /\ turn \in {"user", "agent"} /\ linked \subseteq Hosts
  /\ wakes \in Seq({"pending", "delivered", "skipped"}) /\ Len(wakes) <= MaxEntries
  /\ inputs \in [Keys -> [status : {"none", "pending", "delivered", "failed"},
                          submit : BOOLEAN]]
  /\ accepting \subseteq [key : Keys, submit : BOOLEAN]
  /\ settling \subseteq [host : Hosts, key : Keys, ok : BOOLEAN]
  /\ transcript \in Hosts \cup {Nil} /\ memo \subseteq Hosts /\ threads \subseteq Thread
  /\ spawn \in [Hosts -> {"idle", "run", "session", "watch", "agent"}]
  /\ container \in [Hosts -> {"none", "running", "exited"}]
  /\ session \in [Hosts -> [pane : Nat, stage : {"none", "placeholder", "watched", "agent"},
                            armed : BOOLEAN, ready : BOOLEAN, composer : SUBSET Texts]]
  /\ marker \subseteq Hosts /\ snapshots \subseteq Hosts
  /\ pasted \in [Texts -> Nat] /\ doubtful \subseteq Texts
  /\ seenDown \subseteq Entries /\ torn \subseteq Hosts

(* A task never has two pending inputs: the checks of create_session_input    *)
(* and its insert are one step to every other create (REQ-045.5.8).           *)
OnePendingInput == Cardinality(PendingInputs) <= 1

(* What is recorded as delivered was typed into a pane: no failed attempt is  *)
(* recorded as a success.                                                     *)
DeliveredWasTyped ==
  /\ \A i \in DOMAIN wakes : wakes[i] = "delivered" => pasted[<<"wake", i>>] > 0
  /\ \A k \in Keys : inputs[k].status = "delivered" => pasted[<<"input", k>>] > 0

(* A text is typed a second time only after the outcome of an earlier typing  *)
(* was lost: its thread died or its pane went before Enter, or the claim      *)
(* moved while it was being delivered.                                        *)
TypedOnce == \A x \in Texts : pasted[x] = 2 => x \in doubtful

(* A wake is skipped only if some pass listed the task, with that entry in    *)
(* its history, while no container was live: never on an older observation.   *)
SkippedWasSeenDown == \A i \in DOMAIN wakes : wakes[i] = "skipped" => i \in seenDown

(* A snapshot of the task's capability lies on a host only with the container *)
(* it was taken for, or while that container is being started; or its daemon  *)
(* died between the two.                                                      *)
SnapshotHasContainer ==
  \A h \in snapshots : container[h] # "none" \/ spawn[h] = "run" \/ h \in torn

(* An Enter never sends a text whose own writer has still to press Enter: the *)
(* two threads of a host that type into one pane are serialized.              *)
EnterSendsOwnText ==
  [][\A h \in Hosts :
       session[h].composer # {} /\ session'[h].composer = {} /\ session'[h].pane = session[h].pane
         /\ session'[h].stage = session[h].stage
       => Cardinality({t \in threads : t.host = h /\ t.pc = "enter" /\ There(t)}) = 1]_vars

(* A text is pasted only where the agent has asked for input. The one gap is  *)
(* a writer that found the new pane with the marker of the session before it, *)
(* between new-session and watch_pane.                                        *)
PasteMeetsPrompt ==
  [][\A h \in Hosts :
       session[h].composer \subseteq session'[h].composer
         /\ session[h].composer # session'[h].composer
       => session[h].ready \/ \E t \in threads : t.host = h /\ t.pc = "paste" /\ t.early]_vars

Steady(h)  == owner = h /\ Live /\ session[h].ready /\ h \in marker
Asleep(h)  == owner = h /\ ~Live

(* Every wake is settled in the end on a host that keeps the claim, either    *)
(* with an agent that takes input or without a live container.                *)
WakesSettle == \A h \in Hosts : <>[]Steady(h) \/ <>[]Asleep(h) => <>[](Pending = {})

(* Every input is settled in the end on such a host while the turn stays with *)
(* the user.                                                                  *)
InputsSettle == \A h \in Hosts : <>[](Steady(h) /\ turn = "user") => <>[](PendingInputs = {})

(* The records of what was typed are true: one input at a time, nothing       *)
(* delivered that was not typed, nothing typed twice without a doubt, nothing *)
(* skipped while it could be typed, no capability left without a container.   *)
RecordsAreTrue ==
  /\ TypeOK /\ OnePendingInput
  /\ DeliveredWasTyped /\ TypedOnce /\ SkippedWasSeenDown
  /\ SnapshotHasContainer

(* The two threads that type into a pane never spoil each other's text.       *)
TypingIsOrderly == EnterSendsOwnText /\ PasteMeetsPrompt

(* Whatever is to be typed is settled in the end. *)
EverythingSettles == WakesSettle /\ InputsSettle
=============================================================================

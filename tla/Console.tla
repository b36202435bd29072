------------------------------ MODULE Console ------------------------------
(***************************************************************************)
(* The supervisor that owns the operator's terminal (terminal/console.py,  *)
(* attach.py, the attach key of dashboard.py): it shows the dashboard's    *)
(* tmux session, and when the dashboard has written a pick in the switch   *)
(* file and detached the client, it attaches the picked session until the  *)
(* operator detaches, and shows the same dashboard again.                  *)
(*                                                                         *)
(* The dashboard outlives the invocations of the supervisor and handles a  *)
(* key some time after it was typed; sessions begin and end, and the       *)
(* service may stop. One supervisor runs at a time. The host prefix, the   *)
(* footer label and the two encodings of a pick carry the session through  *)
(* unchanged. tmux is external: attaching blocks until the client is       *)
(* detached or the session ends.                                           *)
(***************************************************************************)
EXTENDS Naturals, Sequences, FiniteSets

CONSTANTS Nil,
          Tasks,            \* the sessions of tasks
          Attempts,         \* polls of wait_for_service and of resolve_join
          MaxStarts, MaxKeys, MaxChanges    \* bounds: invocations, keys, changes of the world

Dashboard == "dashboard"
Service == "service"
Sessions == Tasks \cup {Service}

VARIABLES
    up,        \* the service answers
    live,      \* task sessions that exist; the service's exists while it is up
    known,     \* tasks whose container has registered
    dash,      \* the dashboard's process, its unhandled keys and its file
    file,      \* the switch files, by path
    sup,       \* the supervisor: what it does next, its pick, polls so far
    client,    \* the session this terminal is attached to
    picks,     \* history: the picks taken that were not cleared away
    left       \* keys and changes so far, invocations

consoleVars == <<up, live, known, dash, file, sup, client, picks, left>>

TypeOK ==
    /\ live \subseteq Tasks /\ known \subseteq live
    /\ dash.pc \in {"down", "idle", "writing", "detaching"} /\ dash.pick \in Sessions \cup {Nil}
    /\ sup.pc \in {"off", "wait", "join", "clear", "ensure", "show", "shown", "read", "attach", "attached"}
    /\ sup.tries \in 0 .. Attempts
    /\ client \in Sessions \cup {Dashboard, Nil}
    /\ client = Dashboard => dash.pc # "down" /\ sup.pc = "shown"
    /\ picks \subseteq Sessions

\* One path per socket, whichever invocation asks.
switch_file_path(invocation) == 1

Init ==
    /\ up \in BOOLEAN /\ live = {} /\ known = {}
    /\ dash = [pc |-> "down", keys |-> <<>>, pick |-> Nil, path |-> 1]
    /\ file = [p \in 1 .. MaxStarts |-> Nil]
    /\ sup = [pc |-> "off", pick |-> Nil, tries |-> 0, join |-> Nil]
    /\ client = Nil /\ picks = {}
    /\ left = [starts |-> 0, keys |-> 0, changes |-> 0]

Exists(session) == IF session = Service THEN up ELSE session \in live

-----------------------------------------------------------------------------
(* The supervisor.                                                         *)

Move(pc) == sup' = [sup EXCEPT !.pc = pc, !.tries = 0]
SupOnly == UNCHANGED <<up, live, known, left>>

run_console_local ==
    /\ sup.pc = "off" /\ left.starts < MaxStarts
    /\ \E t \in Tasks \cup {Nil} :
         sup' = [pc |-> "wait", pick |-> Nil, tries |-> 0, join |-> t]
    /\ left' = [left EXCEPT !.starts = @ + 1]
    /\ UNCHANGED <<up, live, known, dash, file, client, picks>>

\* No dashboard before the service answers: it would end on its first read.
wait_for_service ==
    /\ sup.pc = "wait"
    /\ IF up THEN Move(IF sup.join = Nil THEN "clear" ELSE "join")
       ELSE IF sup.tries + 1 < Attempts THEN sup' = [sup EXCEPT !.tries = @ + 1]
       ELSE Move("off")
    /\ UNCHANGED <<dash, file, client, picks>> /\ SupOnly

\* The task named on the command line, once its container is registered. A
\* service gone meanwhile ends the console.
resolve_join ==
    /\ sup.pc = "join"
    /\ IF ~ up THEN Move("off")
       ELSE IF sup.join \in known THEN sup' = [sup EXCEPT !.pc = "attach", !.pick = sup.join]
       ELSE IF sup.tries + 1 < Attempts THEN sup' = [sup EXCEPT !.tries = @ + 1]
       ELSE Move("clear")
    /\ UNCHANGED <<dash, file, client, picks>> /\ SupOnly

\* show_dashboard: forget the last round's pick, start the dashboard unless
\* it runs, attach to it, and read what was picked.
Clear ==
    /\ sup.pc = "clear" /\ Move("ensure")
    /\ file' = [file EXCEPT ![switch_file_path(left.starts)] = Nil]
    /\ picks' = IF dash.pc = "writing" THEN {dash.pick} ELSE {}
    /\ UNCHANGED <<dash, client>> /\ SupOnly

ensure_dashboard_session ==
    /\ sup.pc = "ensure" /\ Move("show")
    /\ dash' = IF dash.pc # "down" THEN dash
               ELSE [pc |-> "idle", keys |-> <<>>, pick |-> Nil, path |-> switch_file_path(left.starts)]
    /\ UNCHANGED <<file, client, picks>> /\ SupOnly

Show ==
    /\ sup.pc = "show" /\ Move("shown")
    /\ client' = IF dash.pc = "down" THEN Nil ELSE Dashboard
    /\ UNCHANGED <<dash, file, picks>> /\ SupOnly

Returned ==
    /\ sup.pc \in {"shown", "attached"} /\ client = Nil
    /\ Move(IF sup.pc = "shown" THEN "read" ELSE "clear")
    /\ UNCHANGED <<dash, file, client, picks>> /\ SupOnly

\* The loop of run_console: no pick, no further round.
run_console ==
    /\ sup.pc = "read"
    /\ LET pick == file[switch_file_path(left.starts)]
       IN sup' = [sup EXCEPT !.pc = IF pick = Nil THEN "off" ELSE "attach", !.pick = pick]
    /\ UNCHANGED <<dash, file, client, picks>> /\ SupOnly

\* A session that ended meanwhile leads straight back to the dashboard.
attach_target ==
    /\ sup.pc = "attach" /\ Move("attached")
    /\ client' = IF Exists(sup.pick) THEN sup.pick ELSE Nil
    /\ UNCHANGED <<dash, file, picks>> /\ SupOnly

-----------------------------------------------------------------------------
(* The dashboard and the operator.                                         *)

\* A key, or C-b d, which tmux itself takes.
Type ==
    /\ left.keys < MaxKeys
    /\ left' = [left EXCEPT !.keys = @ + 1]
    /\ \/ /\ client = Dashboard
          /\ \E k \in Sessions \cup {"q"} : dash' = [dash EXCEPT !.keys = Append(@, k)]
          /\ UNCHANGED client
       \/ client # Nil /\ client' = Nil /\ UNCHANGED dash
    /\ UNCHANGED <<up, live, known, file, sup, picks>>

DashOnly == UNCHANGED <<up, live, known, sup, left>>

\* `t` on an attachable task, `s` while the session exists; else a notice.
action_attach ==
    /\ dash.pc = "idle" /\ dash.keys # <<>> /\ Head(dash.keys) # "q"
    /\ LET pick == Head(dash.keys) IN
       IF Exists(pick)
       THEN /\ dash' = [dash EXCEPT !.pc = "writing", !.keys = Tail(@), !.pick = pick]
            /\ picks' = picks \cup {pick}
       ELSE dash' = [dash EXCEPT !.keys = Tail(@)] /\ UNCHANGED picks
    /\ UNCHANGED <<file, client>> /\ DashOnly

Detached == IF client = Dashboard THEN Nil ELSE client

DetachFirst ==
    \/ /\ dash.pc = "writing"
       /\ client' = Detached
       /\ dash' = [dash EXCEPT !.pc = "detaching"]
       /\ UNCHANGED <<file, picks>> /\ DashOnly
    \/ /\ dash.pc = "detaching"
       /\ file' = [file EXCEPT ![dash.path] = dash.pick]
       /\ dash' = [dash EXCEPT !.pc = "idle", !.pick = Nil]
       /\ UNCHANGED <<client, picks>> /\ DashOnly

\* The pick is in the file before the client is let go.
switch_to ==
    \/ /\ dash.pc = "writing"
       /\ file' = [file EXCEPT ![dash.path] = dash.pick]
       /\ dash' = [dash EXCEPT !.pc = "detaching"]
       /\ UNCHANGED <<client, picks>> /\ DashOnly
    \/ /\ dash.pc = "detaching"
       /\ client' = Detached
       /\ dash' = [dash EXCEPT !.pc = "idle", !.pick = Nil]
       /\ UNCHANGED <<file, picks>> /\ DashOnly

\* It ends on `q`, or when the service is not there for a read.
DashboardEnds ==
    /\ dash.pc = "idle"
    /\ ~ up \/ (dash.keys # <<>> /\ Head(dash.keys) = "q")
    /\ dash' = [dash EXCEPT !.pc = "down", !.keys = <<>>]
    /\ client' = Detached
    /\ UNCHANGED <<file, picks>> /\ DashOnly

World ==
    /\ left.changes < MaxChanges
    /\ left' = [left EXCEPT !.changes = @ + 1]
    /\ \/ \E t \in Tasks \ live : live' = live \cup {t} /\ UNCHANGED <<up, known, client>>
       \/ \E t \in live \ known : up /\ known' = known \cup {t} /\ UNCHANGED <<up, live, client>>
       \/ \E t \in live : /\ live' = live \ {t} /\ known' = known \ {t}
                          /\ client' = IF client = t THEN Nil ELSE client
                          /\ UNCHANGED up
       \/ /\ up' = ~ up /\ known' = {}
          /\ client' = IF client = Service THEN Nil ELSE client
          /\ UNCHANGED live
    /\ UNCHANGED <<dash, file, sup, picks>>

Supervises ==
    \/ wait_for_service \/ resolve_join \/ Clear \/ ensure_dashboard_session \/ Show
    \/ Returned \/ run_console \/ attach_target
Dashes == action_attach \/ switch_to

Next == run_console_local \/ Supervises \/ Dashes \/ DashboardEnds \/ Type \/ World

Spec == Init /\ [][Next]_consoleVars

\* Both processes go on by themselves; the operator and the world need not.
Fairness == WF_consoleVars(Supervises) /\ WF_consoleVars(Dashes)
FairSpec == Spec /\ Fairness

-----------------------------------------------------------------------------
(* Properties.                                                             *)

\* The console goes back to the shell from the dashboard only when nothing
\* was picked in that round, whichever invocation started the dashboard (or
\* when the operator detached by hand before the pick was in the file).
PickIsNeverAQuit ==
    [][sup.pc = "read" /\ sup'.pc = "off" => picks = {} \/ dash.pc = "writing"]_consoleVars

\* The session attached is one the dashboard took a pick for in this round,
\* never one left over from an earlier round or an earlier invocation.
AttachedWasPicked ==
    [][sup.pc = "read" /\ sup'.pc = "attach" => sup'.pick \in picks]_consoleVars

\* A pick taken while the dashboard is shown gets the operator out of it, to
\* the session: the hand-over cannot stop half way.
PickLeavesDashboard ==
    (client = Dashboard /\ dash.pc = "writing") ~> (sup.pc \in {"attach", "off"})

\* A pick leads to what was picked.
PicksAreFollowed == []TypeOK /\ PickIsNeverAQuit /\ AttachedWasPicked /\ PickLeavesDashboard
=============================================================================

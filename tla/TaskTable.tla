----------------------------- MODULE TaskTable -----------------------------
(***************************************************************************)
(* The dashboard's task table (terminal/dashboard.py): the snapshot of the *)
(* service it holds, the rows painted from it, the highlight the keys act  *)
(* on, the thread that follows the change feed and the timer that wakes a  *)
(* snoozed task.                                                           *)
(*                                                                         *)
(* A task keeps what places its row: governor, end, turn, attention,       *)
(* snooze, the time of its last update, and whether it matches the search. *)
(* Identifiers are numbers in the order of creation. A row is the task's   *)
(* number, or minus a governor's for the line that stands for its          *)
(* collapsed ensemble. Cells, columns and the detail pane are left out,    *)
(* and of a countdown only its end. Mouse clicks are left out, and the     *)
(* restarts of the service that reset its counter (see ChangeFeed).        *)
(***************************************************************************)
EXTENDS Integers, Sequences, FiniteSets, SequencesExt

CONSTANTS Nil,
          Screens,    \* where a dashboard starts: tasks, and what may still happen
          Duration,   \* of a snooze
          MaxNow      \* bound of the clock

VARIABLES
  tasks,      \* the service: its rows
  version,    \* and its change counter
  now,        \* the display clock
  snapshot,   \* _task_snapshot
  cursor,     \* _version, which both threads write
  table,      \* the painted rows, and which of them read as snoozed
  current,    \* _current, the highlighted task
  collapsed,  \* _collapsed
  view,       \* the active search and the sort order
  timer,      \* when the table is redrawn by itself, or Nil
  ui,         \* the UI thread: idle, or in a refresh with the answer it got
  feed,       \* the feed thread
  alive,      \* an error nobody catches ends the dashboard
  left        \* changes, keys and faults left

tableVars == <<tasks, version, now, snapshot, cursor, table, current, collapsed, view, timer, ui,
               feed, alive, left>>

Sticky == 99    \* the reserved deadline of an indefinite snooze
Idle == [pc |-> "idle", answer |-> Nil]
Fetching == [pc |-> "fetch", answer |-> Nil]

-----------------------------------------------------------------------------
(* Which rows, in which order                                              *)

_snooze_remaining(t, at) == IF t.snooze = Nil \/ t.snooze <= at THEN Nil ELSE t.snooze - at
_snooze_label(t, at) == _snooze_remaining(t, at) # Nil
_snooze_is_pierced(t) == t.attention
ReadsSnoozed(t, at) == _snooze_label(t, at) /\ ~_snooze_is_pierced(t)

\* Active tasks, then snoozed roots, then ended ones; whose turn counts; the newest first.
SortKey(i, t, at, byUpdated) ==
  LET root == t.governor = Nil
      section == IF t.terminal THEN 2 ELSE IF root /\ ReadsSnoozed(t, at) THEN 1 ELSE 0
      after == IF t.turn = (IF t.terminal THEN "agent" ELSE "user") THEN 0 ELSE 1
      stamp == IF t.terminal \/ byUpdated THEN t.updated ELSE i
  IN <<section, after, -stamp, i>>

Before(a, b) ==
  \E n \in DOMAIN a : a[n] < b[n] /\ \A m \in 1 .. n - 1 : a[m] = b[m]

_make_sort_key(snap, ids, at, byUpdated) ==
  LET key == [i \in ids |-> SortKey(i, snap[i], at, byUpdated)]
  IN SetToSortSeq(ids, LAMBDA a, b : Before(key[a], key[b]))

Governor(snap, i) == snap[i].governor

\* A task and its governors, up to the first that is missing or seen before.
Upwards(snap, i) ==
  LET step[n \in Nat] ==
        IF n = 0 THEN {i}
        ELSE LET seen == step[n - 1]
             IN seen \cup ({Governor(snap, j) : j \in seen} \cap DOMAIN snap)
  IN step[Cardinality(DOMAIN snap)]

\* A search shows each match together with its governors.
_matches(snap, query) == IF ~query THEN DOMAIN snap ELSE {i \in DOMAIN snap : snap[i].match}
Searched(snap, query) == UNION {Upwards(snap, i) : i \in _matches(snap, query)}

\* Tasks joined by governor links; a tree with one open task stays among the active ones.
Linked(snap, i, j) == Governor(snap, i) = j \/ Governor(snap, j) = i
Component(snap, ids, i) ==
  LET grow[n \in Nat] ==
        IF n = 0 THEN {i}
        ELSE LET seen == grow[n - 1]
             IN seen \cup {j \in ids : \E k \in seen : Linked(snap, j, k)}
  IN grow[Cardinality(ids)]

\* Each root is followed by its tree; a collapsed governor by one line.
_group_section(snap, order, shut) ==
  LET ids == Range(order)
      Children(i) == SelectSeq(order, LAMBDA j : Governor(snap, j) = i)
      roots == SelectSeq(order, LAMBDA j : Governor(snap, j) \notin ids)
      RECURSIVE Expand(_)
      Expand(i) ==
        IF Children(i) = <<>> THEN <<i>>
        ELSE IF i \in shut THEN <<i, -i>>
        ELSE <<i>> \o FlattenSeq([n \in DOMAIN Children(i) |-> Expand(Children(i)[n])])
  IN FlattenSeq([n \in DOMAIN roots |-> Expand(roots[n])])

_group_by_governor(snap, order, shut) ==
  LET ids == Range(order)
      Active(i) == \E j \in Component(snap, ids, i) : ~snap[j].terminal
  IN _group_section(snap, SelectSeq(order, Active), shut)
       \o _group_section(snap, SelectSeq(order, LAMBDA i : ~Active(i)), shut)

Governors(snap) == {Governor(snap, i) : i \in DOMAIN snap} \ {Nil}

\* While a search is on, every ensemble is open.
Rows(snap, at, shut, how) ==
  LET order == _make_sort_key(snap, Searched(snap, how.query), at, how.byUpdated)
  IN _group_by_governor(snap, order, IF how.query THEN {} ELSE shut)

Shown(rows) == {i \in Range(rows) : i > 0}
Painting(snap, at, shut, how) ==
  LET rows == Rows(snap, at, shut, how)
  IN [rows |-> rows, snoozed |-> {i \in Shown(rows) : ReadsSnoozed(snap[i], at)}]

-----------------------------------------------------------------------------
(* Painting                                                                *)

\* A redraw is due when the first of the shown countdowns changes or ends.
_schedule_snooze_refresh(snap, rows, at) ==
  LET remaining == {_snooze_remaining(snap[i], at) : i \in Shown(rows)} \ {Nil}
      finite == {s \in remaining : at + s < Sticky}
  IN IF finite = {} THEN {Nil}
     ELSE {at + d : d \in 1 .. CHOOSE s \in finite : \A u \in finite : s <= u}

FirstOf(rows) == IF rows = <<>> THEN Nil ELSE rows[1]

\* A slip in the choice below: the highlight goes back to the top.
TopRow(selected, rows) == FirstOf(rows)

\* The highlight stays on its task while the table shows it.
Target(selected, rows) == IF selected \in Shown(rows) THEN selected ELSE FirstOf(rows)

_render_task_snapshot(snap, shut, how) ==
  LET kept == shut \cap Governors(snap)
      painting == Painting(snap, now, kept, how)
  IN /\ snapshot' = snap /\ collapsed' = kept /\ view' = how
     /\ table' = painting
     /\ current' = Target(current, painting.rows)
     /\ timer' \in _schedule_snooze_refresh(snap, painting.rows, now)

-----------------------------------------------------------------------------
(* The UI thread                                                           *)

\* The answer to list_tasks_versioned; an error ends the dashboard.
Answered ==
  /\ alive /\ ui = Fetching
  /\ \/ ui' = [ui EXCEPT !.answer = [tasks |-> tasks, version |-> version]]
        /\ UNCHANGED <<alive, left>>
     \/ /\ left.faults > 0 /\ left' = [left EXCEPT !.faults = @ - 1]
        /\ alive' = FALSE /\ UNCHANGED ui
  /\ UNCHANGED <<tasks, version, now, snapshot, cursor, table, current, collapsed, view, timer, feed>>

\* The rest of action_refresh; a waiting feed thread goes on.
action_refresh ==
  /\ alive /\ ui.pc = "fetch" /\ ui.answer # Nil
  /\ cursor' = ui.answer.version
  /\ _render_task_snapshot(ui.answer.tasks, collapsed, view)
  /\ ui' = Idle
  /\ feed' = IF feed.pc = "wait" THEN [feed EXCEPT !.pc = "poll"] ELSE feed
  /\ UNCHANGED <<tasks, version, now, alive, left>>

\* A key that changes the view asks for a refresh.
Key == alive /\ ui = Idle /\ left.keys > 0 /\ left' = [left EXCEPT !.keys = @ - 1]

Toggle ==
  /\ Key /\ ui' = Fetching
  /\ \/ view' \in {[view EXCEPT !.query = ~@], [view EXCEPT !.byUpdated = ~@]}
        /\ UNCHANGED collapsed
     \/ /\ current \in Governors(snapshot) /\ ~view.query
        /\ collapsed' = IF current \in collapsed THEN collapsed \ {current}
                        ELSE collapsed \cup {current}
        /\ UNCHANGED view
  /\ UNCHANGED <<tasks, version, now, snapshot, cursor, table, current, timer, feed, alive>>

\* Up and down step over the lines of collapsed ensembles.
_move_skipping(direction) ==
  /\ Key /\ current # Nil
  /\ LET rows == table.rows
         from == CHOOSE n \in DOMAIN rows : rows[n] = current
         ahead == {n \in DOMAIN rows : (n - from) * direction > 0 /\ rows[n] > 0}
     IN /\ ahead # {}
        /\ current' = rows[CHOOSE n \in ahead :
                             \A m \in ahead : (n - from) * direction <= (m - from) * direction]
  /\ UNCHANGED <<tasks, version, now, snapshot, cursor, table, collapsed, view, timer, ui, feed, alive>>

\* The service changes a row and announces it.
Writes(i, t) ==
  /\ tasks' = [tasks EXCEPT ![i] = [t EXCEPT !.updated = version + 1]]
  /\ version' = version + 1

\* Snoozing the highlighted task, for a while or for good, or waking it.
SnoozeKey(i, until) ==
  /\ Key
  /\ Writes(i, [tasks[i] EXCEPT !.snooze = until])
  /\ ui' = Fetching
  /\ UNCHANGED <<now, snapshot, cursor, table, current, collapsed, view, timer, feed, alive>>

action_snooze ==
  /\ current # Nil
  /\ SnoozeKey(current, IF _snooze_label(snapshot[current], now) THEN Nil ELSE now + Duration)

action_snooze_indefinitely == current # Nil /\ SnoozeKey(current, Sticky)

\* Dropping the highlighted task; refused when it has ended meanwhile. (The cascade over the
\* tasks it governs reaches the table as changes of the service.)
action_drop ==
  /\ current # Nil /\ Key
  /\ IF tasks[current].terminal THEN UNCHANGED <<tasks, version, ui>>
     ELSE Writes(current, [tasks[current] EXCEPT !.terminal = TRUE]) /\ ui' = Fetching
  /\ UNCHANGED <<now, snapshot, cursor, table, current, collapsed, view, timer, feed, alive>>

\* The timer redraws what is cached.
Due == IF timer = Nil THEN FALSE ELSE now >= timer

_refresh_snooze_display ==
  /\ alive /\ ui = Idle /\ Due
  /\ _render_task_snapshot(snapshot, collapsed, view)
  /\ UNCHANGED <<tasks, version, now, cursor, ui, feed, alive, left>>

-----------------------------------------------------------------------------
(* The feed thread                                                         *)

\* A poll is parked while the counter stands at the cursor it was sent with.
_watch_feed ==
  /\ alive
  /\ \/ /\ feed.pc = "poll"
        /\ feed' = [feed EXCEPT !.pc = "parked", !.version = cursor] /\ UNCHANGED <<cursor, ui>>
     \/ /\ feed.pc = "parked" /\ version # feed.version
        /\ feed' = [feed EXCEPT !.pc = "answered", !.version = version] /\ UNCHANGED <<cursor, ui>>
     \/ /\ feed.pc = "answered" /\ feed.version = cursor
        /\ feed' = [feed EXCEPT !.pc = "poll"] /\ UNCHANGED <<cursor, ui>>
     \/ /\ feed.pc = "answered" /\ feed.version # cursor
        /\ cursor' = feed.version
        /\ feed' = [feed EXCEPT !.pc = "call"] /\ UNCHANGED ui
     \/ /\ feed.pc = "call" /\ ui = Idle     \* call_from_thread(action_refresh)
        /\ ui' = Fetching
        /\ feed' = [feed EXCEPT !.pc = "wait"] /\ UNCHANGED cursor
  /\ UNCHANGED <<tasks, version, now, snapshot, table, current, collapsed, view, timer, alive, left>>

\* The wait of a long poll may end without a change.
PollTimesOut ==
  /\ alive /\ feed.pc = "parked"
  /\ feed' = [feed EXCEPT !.pc = "answered", !.version = version]
  /\ UNCHANGED <<tasks, version, now, snapshot, cursor, table, current, collapsed, view, timer, ui,
                 alive, left>>

-----------------------------------------------------------------------------
(* The rest of the world                                                   *)

\* What other clients, agents and handlers of the service change of one task.
ServiceChange(i) ==
  /\ left.changes > 0 /\ left' = [left EXCEPT !.changes = @ - 1]
  /\ \E t \in {[tasks[i] EXCEPT !.governor = g] : g \in (DOMAIN tasks \cup {Nil}) \ {tasks[i].governor}}
              \cup {[tasks[i] EXCEPT !.terminal = ~@], [tasks[i] EXCEPT !.attention = ~@],
                    [tasks[i] EXCEPT !.match = ~@],
                    [tasks[i] EXCEPT !.turn = IF @ = "user" THEN "agent" ELSE "user"]} :
       Writes(i, t)
  /\ UNCHANGED <<now, snapshot, cursor, table, current, collapsed, view, timer, ui, feed, alive>>

create_task ==
  /\ left.changes > 0 /\ left' = [left EXCEPT !.changes = @ - 1]
  /\ \E g \in DOMAIN tasks \cup {Nil} :
       LET i == Cardinality(DOMAIN tasks) + 1
       IN tasks' = [j \in 1 .. i |-> IF j < i THEN tasks[j] ELSE
             [governor |-> g, terminal |-> FALSE, turn |-> "user", attention |-> FALSE,
              snooze |-> Nil, updated |-> version + 1, match |-> TRUE]]
  /\ version' = version + 1
  /\ UNCHANGED <<now, snapshot, cursor, table, current, collapsed, view, timer, ui, feed, alive>>

\* Time passes; a timer that is due goes first, as do the steps of the UI thread.
Tick ==
  /\ now < MaxNow /\ alive /\ ui = Idle /\ ~Due
  /\ now' = now + 1
  /\ UNCHANGED <<tasks, version, snapshot, cursor, table, current, collapsed, view, timer, ui, feed,
                 alive, left>>

\* The first paint: every governor is collapsed.
Init ==
  /\ \E s \in Screens :
       LET how == [query |-> FALSE, byUpdated |-> FALSE]
           painting == Painting(s.tasks, 0, Governors(s.tasks), how)
       IN /\ tasks = s.tasks /\ snapshot = s.tasks
          /\ left = [changes |-> s.changes, keys |-> s.keys, faults |-> s.faults]
          /\ collapsed = Governors(s.tasks) /\ view = how /\ table = painting
          /\ current = FirstOf(painting.rows)
          /\ timer \in _schedule_snooze_refresh(s.tasks, painting.rows, 0)
  /\ version = 0 /\ cursor = 0 /\ now = 0 /\ ui = Idle /\ alive = TRUE
  /\ feed = [pc |-> "poll", version |-> 0]

Next ==
  \/ Answered \/ action_refresh \/ _refresh_snooze_display \/ _watch_feed \/ PollTimesOut
  \/ Toggle \/ (\E d \in {-1, 1} : _move_skipping(d))
  \/ action_snooze \/ action_snooze_indefinitely \/ action_drop
  \/ (\E i \in DOMAIN tasks : ServiceChange(i)) \/ create_task \/ Tick

Spec == Init /\ [][Next]_tableVars

-----------------------------------------------------------------------------
(* Properties                                                              *)

\* What is painted is what the snapshot and the clock say, though nothing but a timer redraws it
\* when a snooze ends: at a deadline the task reads as it did before the snooze.
PaintedIsTrue ==
  alive /\ ui = Idle /\ ~Due
    => table = Painting(snapshot, now, collapsed, view)

Circular(i) == \E j \in Upwards(snapshot, i) : Governor(snapshot, j) \in Upwards(snapshot, j)
                 /\ j \in Upwards(snapshot, Governor(snapshot, j))

\* Without a search every task is on the table exactly once, as its row or under the one line of
\* a collapsed governor, unless its governors go in a circle; and no row is there twice.
EveryTaskOnce ==
  /\ IsInjective(table.rows)
  /\ (ui = Idle /\ ~view.query) => \A i \in DOMAIN snapshot :
       Circular(i) \/ Cardinality((Range(table.rows) \cap {i})
                        \cup {a \in Upwards(snapshot, i) \ {i} : -a \in Range(table.rows)}) = 1

\* specs/REQ-038: an ungoverned snoozed task comes after every other ungoverned open task and
\* before every ungoverned ended one.
SnoozedSink ==
  \A n, m \in DOMAIN table.rows :
    LET a == table.rows[n] b == table.rows[m]
    IN a > 0 /\ b > 0 /\ a \in table.snoozed /\ ~snapshot[a].terminal
         /\ snapshot[a].governor = Nil /\ snapshot[b].governor = Nil /\ b \notin table.snoozed
         /\ ui = Idle
       => (n < m <=> snapshot[b].terminal)

\* The highlight leaves a task only by the operator's move, or when the table shows it no more:
\* no reordering puts another task under the operator's next key.
HighlightStays ==
  [][current' # current =>
       \/ left'.keys # left.keys
       \/ current \notin Shown(table'.rows)]_tableVars

\* While the feed thread waits for a change the table is at least as new as what the thread
\* waits past, whichever thread wrote the cursor last: no change is slept through.
SleepsOnTheTable ==
  alive /\ ui = Idle /\ feed.pc = "parked" /\ feed.version = version => snapshot = tasks

\* The table tells the truth about the service, and the keys hit what is highlighted.
TableIsTrue ==
  [](PaintedIsTrue /\ EveryTaskOnce /\ SnoozedSink /\ SleepsOnTheTable) /\ HighlightStays
=============================================================================

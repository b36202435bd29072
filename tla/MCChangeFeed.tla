---------------------------- MODULE MCChangeFeed ----------------------------
(* The change feed with two clients and two writers, and beside it what one   *)
(* client does with the changes: the dashboard's task table. The table's      *)
(* module has a feed of its own, so a behaviour is of one of them (`part`)    *)
(* and the other keeps an initial state.                                      *)
EXTENDS ChangeFeed

CONSTANTS Nil, c1, c2, w1, w2

VARIABLES
  part,
  tasks, tableVersion, now, snapshot, tableCursor, table, current, collapsed, view, timer, ui,
  feed, alive, left

tableVars == <<tasks, tableVersion, now, snapshot, tableCursor, table, current, collapsed, view,
               timer, ui, feed, alive, left>>

-----------------------------------------------------------------------------
(* A table of a governor, the task it governs and another: the service changes *)
(* twice, or changes once while the operator presses a key.                    *)
Row(g, ended, turn, snooze) ==
  [governor |-> g, terminal |-> ended, turn |-> turn, attention |-> FALSE, snooze |-> snooze,
   updated |-> 0, match |-> TRUE]
Open == <<Row(Nil, FALSE, "user", Nil), Row(1, FALSE, "agent", Nil), Row(Nil, FALSE, "user", Nil)>>
Snoozed == <<Row(Nil, TRUE, "user", Nil), Row(1, FALSE, "agent", Nil), Row(Nil, FALSE, "user", 1)>>
Screen(rows, c, k, f) == [tasks |-> rows, changes |-> c, keys |-> k, faults |-> f]

Table == INSTANCE TaskTable WITH
  Screens <- {Screen(Open, 2, 0, 1), Screen(Open, 1, 1, 0), Screen(Snoozed, 1, 1, 0)},
  Duration <- 2, MaxNow <- 2, version <- tableVersion, cursor <- tableCursor

-----------------------------------------------------------------------------
ClientInit ==
  /\ part \in {"feed", "table"}
  /\ Init /\ (part = "feed" \/ committed = 0)
  /\ Table!Init /\ (part = "table" \/ left.faults = 1)

ClientNext ==
  /\ \/ part = "feed" /\ Next /\ UNCHANGED tableVars
     \/ part = "table" /\ Table!Next /\ UNCHANGED vars
  /\ UNCHANGED part

clientVars == <<part, vars, tableVars>>

(* ChangeFeed's Fairness, while the feed is in play. *)
ClientFairness ==
  /\ \A w \in Writer : WF_vars(part = "feed" /\ Bump(w))
  /\ \A c \in Client : /\ WF_vars(part = "feed" /\ Wait(c))
                       /\ WF_vars(part = "feed" /\ Resume(c))
                       /\ WF_vars(part = "feed" /\ Timeout(c))
                       /\ WF_vars(part = "feed" /\ Query(c))
                       /\ WF_vars(part = "feed" /\ Receive(c))

ClientSpec == ClientInit /\ [][ClientNext]_clientVars /\ ClientFairness

-----------------------------------------------------------------------------
(* The table tells the truth about the service, and the keys hit what is      *)
(* highlighted (see TaskTable).                                               *)
TableIsTrue == Table!TableIsTrue
=============================================================================

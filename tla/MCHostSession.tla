--------------------------- MODULE MCHostSession ---------------------------
(* One task on a host or two. No behaviour has everything happen to it: each  *)
(* starts with the bounds of one scene.                                       *)
EXTENDS HostSession, TLC

CONSTANTS h1, h2, k1, k2

Scene(hosts, e, i, t, c, p, f) ==
  [hosts |-> hosts, entries |-> e, inputs |-> i, turns |-> t, claims |-> c, panes |-> p,
   faults |-> f]

Scenes ==
  {Scene({h1, h2}, 1, 0, 0, 1, 1, 0), Scene({h1}, 1, 0, 0, 2, 2, 0),  \* the claim moves
   Scene({h1}, 1, 0, 0, 1, 1, 1), Scene({h1}, 0, 1, 1, 1, 1, 1),      \* something fails
   Scene({h1}, 1, 1, 1, 1, 1, 0),                                     \* both threads type
   Scene({h1}, 2, 0, 0, 1, 1, 0), Scene({h1}, 0, 2, 0, 1, 1, 0)}      \* two things to type
=============================================================================

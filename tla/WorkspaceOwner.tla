--------------------------- MODULE WorkspaceOwner ---------------------------
(* What moving a task between hosts promises, without the records that bring  *)
(* it about: the task's workspace belongs to one host; it goes only to a host *)
(* that its operator named while its present owner had it; and at any time at *)
(* most one agent works on the task: on the owner, or on a host named next.   *)
CONSTANTS Hosts, Nil

VARIABLES
  owner,   \* the host the workspace belongs to
  named,   \* the hosts named as its next owner
  agents   \* the hosts where an agent of the task runs

abstract == <<owner, named, agents>>

Init == owner = Nil /\ named = {} /\ agents = {}

(* The workspace gets its first owner. *)
Adopt(h) ==
  /\ owner = Nil /\ agents \subseteq {h}
  /\ owner' = h
  /\ UNCHANGED <<named, agents>>

Name(h) ==
  /\ owner \notin {Nil, h}
  /\ named' = named \cup {h}
  /\ UNCHANGED <<owner, agents>>

(* It moves, while no agent works but on the new owner. *)
Move(h) ==
  /\ h \in named /\ agents \subseteq {h}
  /\ owner' = h /\ named' = {}
  /\ UNCHANGED agents

Start(h) ==
  /\ owner \in {Nil, h} \/ h \in named
  /\ agents \subseteq {h}
  /\ agents' = {h}
  /\ UNCHANGED <<owner, named>>

Stop(h) ==
  /\ h \in agents
  /\ agents' = agents \ {h}
  /\ UNCHANGED <<owner, named>>

Next == \E h \in Hosts : Adopt(h) \/ Name(h) \/ Move(h) \/ Start(h) \/ Stop(h)

Spec == Init /\ [][Next]_abstract
=============================================================================

------------------------------ MODULE MCTasks ------------------------------
(* The run `tasks`: StaleCopies under four groups of calls; a behaviour is of *)
(* one group. One task that moves, under three overlapping calls; two tasks   *)
(* that others depend on, are claimed, held and created; one task under all   *)
(* its writers, with and without the lock, cut short by crashes; and the      *)
(* writers of a claim and of a wake that no lock keeps apart.                 *)
EXTENDS MCTaskService, StaleCopies

VARIABLE group

(* The tasks and the runner that the calls name are there, and their workflow *)
(* is served.                                                                 *)
ASSUME InstanceAssumption ==
  /\ {t1, t2} \subseteq Task
  /\ {h1, h2} \subseteq Runner
  /\ "code" \in WorkflowName

AllCalls == TransitionCalls \cup ClaimCalls \cup WriterCalls \cup CrossingCalls

Moving   == INSTANCE TaskService WITH Call <- TransitionCalls, Born <- OneTask, MayCrash <- FALSE
Claiming == INSTANCE TaskService WITH Call <- ClaimCalls, Born <- TwoTasks, MayCrash <- FALSE
Writing  == INSTANCE TaskService WITH Call <- WriterCalls, Born <- OneTask, MaxCalls <- 3
Crossing == INSTANCE TaskService WITH Call <- CrossingCalls, Born <- OneTask, MayCrash <- FALSE

GroupInit ==
  /\ \/ group = "moving" /\ Moving!Init
     \/ group = "claiming" /\ Claiming!Init
     \/ group = "writing" /\ Writing!Init
     \/ group = "crossing" /\ Crossing!Init
  /\ missed = [lock \in Lock |-> {}]

GroupNext ==
  /\ \/ group = "moving" /\ Moving!Next
     \/ group = "claiming" /\ Claiming!Next
     \/ group = "writing" /\ Writing!Next
     \/ group = "crossing" /\ Crossing!Next
  /\ Note
  /\ UNCHANGED group

GroupSpec == GroupInit /\ [][GroupNext]_<<group, missed, vars>>

(* Where nothing dies half way and nothing is saved without a lock, the state *)
(* is the history's last entry, a history is a path of the graph, what was    *)
(* left is settled, and an entry into REVIEW makes one review child (see the  *)
(* conjuncts in TaskService). A stale save breaks the first three (run        *)
(* stale_turn); a crash between the child and the saved entry leaves one more *)
(* child (workflow _commit_transition, service.py).                           *)
OrderlyHistory ==
  group \in {"moving", "claiming"} =>
    StateMatchesTail /\ HistoryIsPath /\ LeftPromisesResolved /\ ReviewPerEntry

=============================================================================

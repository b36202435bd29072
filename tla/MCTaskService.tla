--------------------------- MODULE MCTaskService ---------------------------
(* Instances of TaskService for TLC: two small workflows and, per run, the    *)
(* calls its clients may issue.                                               *)
EXTENDS TaskService

CONSTANTS t1, t2, t3, r1, r2, r3, h1, h2

(* PLAN (user turn, gated by one promise) -> BUILD (agent turn, left by the   *)
(* agent) -> REVIEW -> COMPLETE, with a way back from REVIEW to BUILD, which  *)
(* makes `advance` a declared operation there.                                *)
CodeGraph ==
  [labels        |-> {"PLAN", "BUILD", "REVIEW", Complete, Dropped},
   terminals     |-> {Complete, Dropped},
   initial       |-> "PLAN",
   dests         |-> [s \in {"PLAN", "BUILD", "REVIEW", Complete, Dropped} |->
                        CASE s = "PLAN"   -> {"BUILD", Dropped}
                          [] s = "BUILD"  -> {"REVIEW", Dropped}
                          [] s = "REVIEW" -> {"BUILD", Complete, Dropped}
                          [] OTHER        -> {}],
   declared      |-> [s \in {"PLAN", "BUILD", "REVIEW", Complete, Dropped} |->
                        IF s = "REVIEW" THEN [v \in {"advance"} |-> Complete]
                        ELSE [v \in {} |-> Complete]],
   agentTurn     |-> {"BUILD"},
   agentAdvanced |-> {"BUILD"},
   promised      |-> [s \in {"PLAN", "BUILD", "REVIEW", Complete, Dropped} |->
                        IF s = "BUILD" THEN {"tested"} ELSE {}],
   reviewed      |-> TRUE]

(* The review workflow: one state, left by the agent. *)
ReviewGraph ==
  [labels        |-> {"JUDGE", Complete, Dropped},
   terminals     |-> {Complete, Dropped},
   initial       |-> "JUDGE",
   dests         |-> [s \in {"JUDGE", Complete, Dropped} |->
                        IF s = "JUDGE" THEN {Complete, Dropped} ELSE {}],
   declared      |-> [s \in {"JUDGE", Complete, Dropped} |-> [v \in {} |-> Complete]],
   agentTurn     |-> {"JUDGE"},
   agentAdvanced |-> {"JUDGE"},
   promised      |-> [s \in {"JUDGE", Complete, Dropped} |-> {}],
   reviewed      |-> FALSE]

Graphs == [w \in {"code", "review"} |-> IF w = "code" THEN CodeGraph ELSE ReviewGraph]

OneTask == [id \in {t1} |-> [workflow |-> "code", governor |-> Nil]]
TwoTasks == [id \in {t1, t2} |-> [workflow |-> "code", governor |-> Nil]]
Ring == [id \in {t1, t2, t3} |->
            [workflow |-> "code", governor |-> IF id = t1 THEN t3 ELSE IF id = t2 THEN t1 ELSE t2]]

CallOf(op, ids, args) == [op : {op}, task : ids, arg : args]

TransitionCalls ==
  CallOf("apply_operation", {t1}, {"advance", "drop"})
    \cup CallOf("request_transition", {t1}, {"BUILD"})
    \cup CallOf("set_state", {t1}, {"BUILD", "REVIEW"})
    \cup CallOf("resolve_responsibility", {t1}, [key : {"tested"}, status : {"met"}])
    \cup CallOf("record_stage_entry_wake", {t1}, [index : {2}, status : {"delivered", "skipped"}])

ClaimCalls ==
  CallOf("claim", {t1, t2}, {h1, h2})
    \cup CallOf("apply_operation", {t2}, {"advance", "drop"})
    \cup CallOf("set_state", {t2}, {Complete, "BUILD"})
    \cup CallOf("set_dependencies", {t1}, {{}, {t2}})
    \cup CallOf("set_dependencies", {t2}, {{t1}})
    \cup CallOf("pause_launch", {t1}, {h1})
    \cup CallOf("retry_task", {t1}, {Nil})
    \cup CallOf("create_task", {Nil}, {[workflow |-> "code", governor |-> t1, dependsOn |-> {t2}],
                                       [workflow |-> "review", governor |-> Nil, dependsOn |-> {}]})

DropCalls ==
  CallOf("apply_operation", {t1, t2, t3}, {"drop"}) \cup CallOf("set_state", {t1, t2}, {"PLAN"})

(* Next where DropCalls are all the calls: the steps they are handled by. *)
DropNext ==
  \/ \E r \in Req :
       \/ Begin(r) \/ AcquireTaskLock(r) \/ AcquireGraphLock(r)
       \/ ApplyOperation(r) \/ SetState(r) \/ RequestTransition(r)
       \/ Validate(r) \/ Update(r)
       \/ ListGoverned(r) \/ DropGoverned(r) \/ FinishCascade(r)
  \/ Quiescent /\ UNCHANGED vars

DropSpec == Init /\ [][DropNext]_vars /\ Fairness

WriterCalls ==
  CallOf("apply_operation", {t1}, {"advance"})
    \cup CallOf("request_transition", {t1}, {"REVIEW"})
    \cup CallOf("resolve_responsibility", {t1}, [key : {"tested"}, status : {"met"}])
    \cup CallOf("set_state", {t1}, {"BUILD"})
    \cup CallOf("set_turn", {t1}, {"agent", "user"})
    \cup CallOf("set_governor", {t1}, {Nil})
    \cup CallOf("set_blocked", {t1}, {TRUE})
    \cup CallOf("set_attention", {t1}, {TRUE})
    \cup CallOf("set_fact", {t1}, {1})
    \cup CallOf("release", {t1}, {Nil})
    \cup CallOf("claim", {t1}, {h1})

(* A claim, its release and a wake, with the writers that no lock keeps apart *)
(* from them.                                                                 *)
CrossingCalls ==
  CallOf("apply_operation", {t1}, {"advance", "drop"})
    \cup CallOf("record_stage_entry_wake", {t1}, [index : {2}, status : {"delivered"}])
    \cup CallOf("set_turn", {t1}, {"agent"})
    \cup CallOf("claim", {t1}, {h1})
    \cup CallOf("release", {t1}, {Nil})

(* The fewest calls that break StateMatchesTail. *)
StaleTurnCalls ==
  CallOf("apply_operation", {t1}, {"drop"}) \cup CallOf("set_turn", {t1}, {"agent"})

=============================================================================

------------------------------ MODULE Shipped ------------------------------
(***************************************************************************)
(* One task walked along one of the workflows the repository ships (module *)
(* WorkflowRegistry) by its agent and its user: a phase is left by the     *)
(* user's `advance`, or by the agent once its promises are resolved. The   *)
(* agent knows the phase it was last briefed on, which the task may have   *)
(* left since: resolving the last promise advances the task by itself, and *)
(* the briefing tells the agent to advance as well. The service takes an   *)
(* `advance` from the agent in every phase; the skills of the GitHub       *)
(* workflows have it advance once its pull request has landed, whoever is  *)
(* to leave the phase the task is in then.                                 *)
(***************************************************************************)
EXTENDS WorkflowRegistry

VARIABLES
  task,     \* workflow, state, turn and the current history entry
  briefed,  \* the phase the agent's last briefing named
  told,     \* what that briefing says of the end of the phase
  opener,   \* who brought the task to its present phase: the user, the agent by its briefing,
            \* or the agent by a skill (history variable)
  shepherding, \* whether the agent has babysit-merge under way
  pull,     \* the pull request: open, queued or merged
  agreed    \* whether the user ever let the task into MERGING, or the change be merged (history)

landing     == <<shepherding, pull>>
shippedVars == <<task, briefed, told, opener, landing, agreed>>

-----------------------------------------------------------------------------
(* The task. Only the current entry of its history is kept.                *)
Entered(t, to, trigger) ==
  LET entered == W!Enter(t, to, trigger)
  IN [entered EXCEPT !.history = <<W!CurrentEntry(entered)>>]

\* Who moved the task, and whether the user let it into MERGING by that.
Opens(who) ==
  /\ opener' = who
  /\ agreed' = (agreed \/ (who = "user" /\ task'.state = "MERGING"))

Promises == W!CurrentEntry(task).promises
Leads(s) == "advance" \in W!Verbs(task.workflow, s)
Forward(s) == W!ResolveOperation(task.workflow, s, "advance")

\* What a briefing ends with: who leaves the phase once its promises are met.
BriefedEnd(s) == IF W!AdvancedByAgent(task.workflow, s) THEN "advance" ELSE "hand back"

\* Every prompt, the user's or a wake-up, comes with the briefing of the phase as it is now.
briefing ==
  /\ ~W!IsTerminal(task.workflow, task.state)
  /\ briefed' = task.state /\ told' = BriefedEnd(task.state)
  /\ UNCHANGED <<task, opener, landing, agreed>>

\* The service lets `advance` through once nothing promised is outstanding.
Advance(who) ==
  /\ Leads(task.state) /\ W!MayApply(task, Forward(task.state))
  /\ task' = Entered(task, Forward(task.state), "advance")
  /\ Opens(who)
  /\ UNCHANGED <<briefed, told>>

\* A slip in the condition below: whose phase it is is forgotten.
AdvancesAnyway(s) == Leads(s)

AdvancesItself(s) == Leads(s) /\ W!AdvancedByAgent(task.workflow, s)

\* The agent resolves a promise of the phase it was briefed on, or opens it again. With the
\* last one resolved, a phase that the agent advances is left at once.
resolve_responsibility(k, status) ==
  /\ k \in discover_workflows[task.workflow].promised[briefed]
  /\ LET noted == [task EXCEPT !.history[1].promises[k] = status]
     IN IF W!Outstanding(W!CurrentEntry(noted).promises) = {} /\ AdvancesItself(task.state)
        THEN task' = Entered(noted, Forward(task.state), "advance") /\ Opens("agent")
        ELSE task' = noted /\ UNCHANGED <<opener, agreed>>
  /\ UNCHANGED <<briefed, told, landing>>

\* "When these are met, advance the task yourself": the agent does, also when
\* the last resolution has moved the task already.
AgentAdvances ==
  /\ told = "advance"
  /\ task.state = briefed => W!Outstanding(Promises) = {}
  /\ Advance("agent")
  /\ UNCHANGED landing

\* The merge skills give a change that cannot be merged back to the coding phase, wherever the
\* task has gone meanwhile.
MergeRecovery ==
  /\ briefed = "MERGING" \/ shepherding
  /\ pull # "merged"
  /\ task' = Entered(task, merge_recovery_state(task.workflow), "set_state")
  /\ shepherding' = FALSE
  /\ Opens("agent")
  /\ UNCHANGED <<briefed, told, pull>>

Forge == {"github_peer_reviewed", "github_self_reviewed", "human_spec", "auto_spec", "auto_sol"}

\* babysit-ci, which any phase may run, hands a queued pull request over to babysit-merge.
babysit_ci ==
  /\ task.workflow \in Forge /\ pull = "queued"
  /\ shepherding' = TRUE
  /\ UNCHANGED <<task, briefed, told, opener, pull, agreed>>

\* babysit-merge is the skill of the merging phase; the task may have left it. It queues what is
\* open, and advances the task once the change has landed, in whatever phase it finds it.
babysit_merge ==
  /\ task.workflow \in Forge
  /\ shepherding \/ briefed = "MERGING"
  /\ \/ /\ pull = "open" /\ pull' = "queued" /\ shepherding' = TRUE
        /\ UNCHANGED <<task, briefed, told, opener, agreed>>
     \/ /\ pull = "merged" /\ Advance("skill") /\ shepherding' = FALSE
        /\ UNCHANGED pull
     \/ /\ pull # "open" /\ shepherding' = ~shepherding
        /\ UNCHANGED <<task, briefed, told, opener, pull, agreed>>

\* GitHub merges a queued pull request, or throws it out of the queue.
Queue ==
  /\ pull = "queued" /\ pull' \in {"open", "merged"}
  /\ UNCHANGED <<task, briefed, told, opener, shepherding, agreed>>

\* The user queues the change, or tells the agent to.
UserLands ==
  /\ task.workflow \in Forge /\ pull = "open"
  /\ agreed' = TRUE
  /\ \/ pull' = "queued" /\ UNCHANGED shepherding
     \/ shepherding' = TRUE /\ UNCHANGED pull
  /\ UNCHANGED <<task, briefed, told, opener>>

\* The user redirects the task to any phase, or drops it, by hand or by its word to the agent,
\* whose free move the service takes as well.
UserMoves ==
  /\ \/ \E to \in W!Label(task.workflow) :
          W!MayForce(task, to) /\ task' = Entered(task, to, "set_state")
     \/ W!MayApply(task, W!Dropped) /\ task' = Entered(task, W!Dropped, "drop")
  /\ Opens("user")
  /\ UNCHANGED <<briefed, told, landing>>

Init ==
  /\ \E w \in DOMAIN Lines :
       LET start == discover_workflows[w].initial
       IN task = [workflow |-> w, state |-> start, turn |-> W!TurnOnEnter(w, start),
                  history |-> <<W!StartEntry(w)>>]
  /\ briefed = task.state /\ told = BriefedEnd(task.state) /\ opener = "user"
  /\ shepherding = FALSE /\ pull = "open" /\ agreed = FALSE

Next ==
  \/ briefing
  \/ \E k \in DOMAIN Promises, status \in {"pending", "met"} : resolve_responsibility(k, status)
  \/ AgentAdvances
  \/ MergeRecovery \/ babysit_ci \/ babysit_merge \/ Queue
  \/ Advance("user") /\ UNCHANGED landing
  \/ UserMoves \/ UserLands

Spec == Init /\ [][Next]_shippedVars

-----------------------------------------------------------------------------
(* Properties                                                              *)

\* The phases each workflow's `when_to_use` says the user lets the task into.
Gates ==
  [github_peer_reviewed |-> {"ITERATING", "REVIEW", "MERGING"},
   github_self_reviewed |-> {"ITERATING", "MERGING"},
   local_git_self_reviewed |-> {"ITERATING", "MERGING"},
   spike |-> {"COMPLETE"}, orchestrator |-> {"COMPLETE"}, setup_repo |-> {"COMPLETE"},
   review |-> {}, human_spec |-> {"BUILDING", "MERGING"},
   auto_spec |-> {"MERGING"}, auto_sol |-> {"MERGING"}]

\* "you approve the spec, then review the final PR before merge": the service leads no task over
\* a gate by itself, and no briefing has the agent do so, late or repeated; what remains is a free
\* move back to coding, and babysit-merge, which leaves a gated phase only once the change has
\* landed (the service asks nobody who advances).
UserOpensGates ==
  task.state \in Gates[task.workflow]
    => \/ opener = "user" \/ W!CurrentEntry(task).trigger = "set_state"
       \/ opener = "skill" /\ pull = "merged"

\* What is being merged was let through by the user since the agent last sent it back, or has
\* landed already; and nothing is queued or merged to which the user never agreed.
MergingWasApproved ==
  /\ task.state = "MERGING" => opener = "user" \/ (opener = "skill" /\ pull = "merged")
  /\ pull # "open" => agreed

\* The user's gates stay the user's, and the overview of the task shows every phase.
GatesStayShut ==
  task.workflow \in WholeOverviews /\ UserOpensGates /\ MergingWasApproved
=============================================================================

-------------------------- MODULE WorkflowRegistry --------------------------
(***************************************************************************)
(* The workflows the repository ships (workflows/*.py), as graphs of the   *)
(* engine in module Workflow. Each shipped graph is a line of phases.      *)
(***************************************************************************)
EXTENDS Naturals, Sequences, FiniteSets, SequencesExt

-----------------------------------------------------------------------------
(* Phases: a label, who advances out of it, whose turn it is on entering,   *)
(* and the keys of its promises.                                           *)
Phase(label, advancedBy, turn, promised) ==
  [label |-> label, advancedBy |-> advancedBy, turn |-> turn, promised |-> promised]
InitialState(label, promised) == Phase(label, "user", "user", promised)
State(label, promised) == Phase(label, "user", "agent", promised)
ByAgent(phase) == [phase EXCEPT !.advancedBy = "agent"]

Planned == {"plan-written", "token-estimated"}
Coded == {"plan-implemented", "requests-implemented", "tests-pass"}
Published == {"committed-pushed", "ci-passing", "pr-updated", "url-recorded"}

GithubPeerReviewed ==
  <<InitialState("PLANNING", Planned), State("ITERATING", Coded \cup Published),
    State("REVIEW", {"pr-reviewed"}), ByAgent(State("MERGING", {"pr-merged"}))>>
GithubSelfReviewed ==
  <<InitialState("PLANNING", Planned), State("ITERATING", Coded \cup Published),
    ByAgent(State("MERGING", {"pr-merged"}))>>
LocalGitSelfReviewed ==
  <<InitialState("PLANNING", Planned), State("ITERATING", Coded \cup {"committed"}),
    ByAgent(State("MERGING", {"local-merged"}))>>
Spike == <<InitialState("ITERATING", {})>>
Orchestrator == <<InitialState("ORCHESTRATING", {})>>
SetupRepo == <<InitialState("RUNNING", {})>>
Review == <<ByAgent([InitialState("REVIEWING", {}) EXCEPT !.turn = "agent"])>>

_Specifying ==
  InitialState("SPECIFYING", {"spec-written", "spec-artifact", "tests-annotated", "tests-judged"})
_Building ==
  ByAgent(State("BUILDING", {"spec-implemented", "committed", "pr-opened", "url-recorded"}))
_Testing == ByAgent(State("TESTING", {"suite-green", "check-green", "repo-gate-green", "ci-green"}))
_Reviewing(recorded) == State("REVIEWING", {recorded, "findings-triaged"})
_Merging == ByAgent(State("MERGING", {"deferred-issues-filed", "pr-merged"}))

Spec2119Human ==
  <<_Specifying, _Building, _Testing, _Reviewing("reviews-recorded"), _Merging>>
Spec2119Auto ==
  <<ByAgent(_Specifying), _Building, _Testing, _Reviewing("reviews-recorded"), _Merging>>
Spec2119AutoSol ==
  <<ByAgent(_Specifying), _Building, _Testing, _Reviewing("reviews-recorded-sol"), _Merging>>

-----------------------------------------------------------------------------
(* The registry, each line resolved to a graph: a phase leads to the next,  *)
(* the last one to COMPLETE, every one to DROPPED.                         *)
Lines ==
  [github_peer_reviewed |-> GithubPeerReviewed, github_self_reviewed |-> GithubSelfReviewed,
   local_git_self_reviewed |-> LocalGitSelfReviewed, spike |-> Spike,
   orchestrator |-> Orchestrator, setup_repo |-> SetupRepo, review |-> Review,
   human_spec |-> Spec2119Human, auto_spec |-> Spec2119Auto, auto_sol |-> Spec2119AutoSol]

Labels(line) == {line[i].label : i \in DOMAIN line}
Terminals == {"COMPLETE", "DROPPED"}
After(line, i) == IF i = Len(line) THEN "COMPLETE" ELSE line[i + 1].label
Where(line, label) == CHOOSE i \in DOMAIN line : line[i].label = label

Resolved(line) ==
  LET all == Labels(line) \cup Terminals
      Of(test(_)) == {line[i].label : i \in {j \in DOMAIN line : test(line[j])}}
  IN [labels |-> all, terminals |-> Terminals, initial |-> line[1].label,
      dests |-> [s \in all |-> IF s \in Terminals THEN {}
                               ELSE {After(line, Where(line, s)), "DROPPED"}],
      declared |-> [s \in all |-> <<>>],
      agentTurn |-> Of(LAMBDA p : p.turn = "agent"),
      agentAdvanced |-> Of(LAMBDA p : p.advancedBy = "agent"),
      promised |-> [s \in all |-> IF s \in Terminals THEN {}
                                  ELSE line[Where(line, s)].promised],
      reviewed |-> FALSE]

discover_workflows == [name \in DOMAIN Lines |-> Resolved(Lines[name])]
W == INSTANCE Workflow WITH Graph <- discover_workflows

\* The phases in the order the overview lists them: along `advance` until a terminal state.
ordered_phases(w) ==
  LET Next(s) == W!ResolveOperation(w, s, "advance")
      walk[n \in Nat] ==
        IF n = 0 THEN <<discover_workflows[w].initial>>
        ELSE LET sofar == walk[n - 1] last == sofar[Len(sofar)]
             IN IF "advance" \notin W!Verbs(w, last) \/ Next(last) \in Range(sofar) THEN sofar
                ELSE Append(sofar, Next(last))
  IN walk[Cardinality(W!Label(w))]

\* Where the merge skills send a task that cannot be merged as it is.
merge_recovery_state(w) == IF "BUILDING" \in W!Label(w) THEN "BUILDING" ELSE "ITERATING"

\* The workflows whose graph is well formed and whose overview shows every phase and ends in
\* COMPLETE.
OverviewIsWhole(w) ==
  LET phases == ordered_phases(w)
  IN /\ W!WellFormedGraph(discover_workflows[w])
     /\ Range(phases) = W!Label(w) \ {"DROPPED"} /\ phases[Len(phases)] = "COMPLETE"
WholeOverviews == {w \in DOMAIN Lines : OverviewIsWhole(w)}
=============================================================================

---------------------------- MODULE MCTasksProofs ----------------------------
(* What the run `tasks` checks of the groups without a crash or a lock-free   *)
(* save, proved: each is an instance of TaskService that meets the conditions *)
(* of the theorems about it, and a behaviour stays in its group.              *)
EXTENDS MCTasks, TLAPS

Moves  == INSTANCE TaskServiceProofs WITH Call <- TransitionCalls, Born <- OneTask, MayCrash <- FALSE
Claims == INSTANCE TaskServiceProofs WITH Call <- ClaimCalls, Born <- TwoTasks, MayCrash <- FALSE

-----------------------------------------------------------------------------
(* The groups as instances *)

(* The group that moves a task is the instance that the proofs are about.     *)
LEMMA SameMoves == (Moving!Init <=> Moves!Init) /\ (Moving!Next <=> Moves!Next)
<1>1. Moving!Init <=> Moves!Init
  BY DEF
     Moving!NewTask, Moves!NewTask, Moving!StartEntry, Moves!StartEntry, Moving!NewEntry,
     Moves!NewEntry, Moving!TurnOnEnter, Moves!TurnOnEnter, Moving!IsTerminal, Moves!IsTerminal,
     Moving!Idle, Moves!Idle, Moving!Init, Moves!Init
<1>2. ASSUME NEW r \in Req
      PROVE  /\ Moving!Begin(r) <=> Moves!Begin(r)
             /\ Moving!AcquireTaskLock(r) <=> Moves!AcquireTaskLock(r)
             /\ Moving!AcquireGraphLock(r) <=> Moves!AcquireGraphLock(r)
             /\ Moving!Handler(r) <=> Moves!Handler(r)
  <2>1. Moving!Begin(r) <=> Moves!Begin(r)
    BY DEF
       Moving!Begin, Moves!Begin, Moving!Idle, Moves!Idle, Moving!Frame, Moves!Frame,
       Moving!FirstStep, Moves!FirstStep, Moving!Target, Moves!Target, Moving!TransitionOp,
       Moves!TransitionOp, Moving!TaskLockedOp, Moves!TaskLockedOp, Moving!GraphLockedOp,
       Moves!GraphLockedOp
  <2>2. Moving!AcquireTaskLock(r) <=> Moves!AcquireTaskLock(r)
    BY DEF
       Moving!AcquireTaskLock, Moves!AcquireTaskLock, Moving!Idle, Moves!Idle, Moving!Frame,
       Moves!Frame, Moving!FirstStep, Moves!FirstStep, Moving!Target, Moves!Target,
       Moving!TransitionOp, Moves!TransitionOp, Moving!TaskLockedOp, Moves!TaskLockedOp,
       Moving!GraphLockedOp, Moves!GraphLockedOp
  <2>3. Moving!AcquireGraphLock(r) <=> Moves!AcquireGraphLock(r)
    BY DEF
       Moving!AcquireGraphLock, Moves!AcquireGraphLock, Moving!Idle, Moves!Idle, Moving!Frame,
       Moves!Frame, Moving!FirstStep, Moves!FirstStep, Moving!Target, Moves!Target,
       Moving!TransitionOp, Moves!TransitionOp, Moving!TaskLockedOp, Moves!TaskLockedOp,
       Moving!GraphLockedOp, Moves!GraphLockedOp
  <2>4. Moving!ApplyOperation(r) <=> Moves!ApplyOperation(r)
    BY DEF
       Moving!ApplyOperation, Moves!ApplyOperation, Moving!At, Moves!At, Moving!Target,
       Moves!Target, Moving!Loaded, Moves!Loaded, Moving!Fail, Moves!Fail, Moving!Idle,
       Moves!Idle, Moving!ReleaseGraphLock, Moves!ReleaseGraphLock, Moving!Save, Moves!Save,
       Moving!Transit, Moves!Transit, Moving!Gated, Moves!Gated, Moving!AdvancesItself,
       Moves!AdvancesItself, Moving!Complete, Moves!Complete, Moving!Dropped, Moves!Dropped,
       Moving!Label, Moves!Label, Moving!Transitions, Moves!Transitions, Moving!IsTerminal,
       Moves!IsTerminal, Moving!TurnOnEnter, Moves!TurnOnEnter, Moving!AdvancedByAgent,
       Moves!AdvancedByAgent, Moving!Forward, Moves!Forward, Moving!HasSingleForward,
       Moves!HasSingleForward, Moving!Verbs, Moves!Verbs, Moving!ResolveOperation,
       Moves!ResolveOperation, Moving!CurrentEntry, Moves!CurrentEntry, Moving!Outstanding,
       Moves!Outstanding, Moving!NewEntry, Moves!NewEntry, Moving!Enter, Moves!Enter,
       Moving!MayApply, Moves!MayApply, Moving!MayForce, Moves!MayForce
  <2>5. Moving!RequestTransition(r) <=> Moves!RequestTransition(r)
    BY DEF
       Moving!RequestTransition, Moves!RequestTransition, Moving!At, Moves!At, Moving!Target,
       Moves!Target, Moving!Loaded, Moves!Loaded, Moving!Fail, Moves!Fail, Moving!Idle,
       Moves!Idle, Moving!ReleaseGraphLock, Moves!ReleaseGraphLock, Moving!Save, Moves!Save,
       Moving!Transit, Moves!Transit, Moving!Gated, Moves!Gated, Moving!AdvancesItself,
       Moves!AdvancesItself, Moving!Complete, Moves!Complete, Moving!Dropped, Moves!Dropped,
       Moving!Label, Moves!Label, Moving!Transitions, Moves!Transitions, Moving!IsTerminal,
       Moves!IsTerminal, Moving!TurnOnEnter, Moves!TurnOnEnter, Moving!AdvancedByAgent,
       Moves!AdvancedByAgent, Moving!Forward, Moves!Forward, Moving!HasSingleForward,
       Moves!HasSingleForward, Moving!Verbs, Moves!Verbs, Moving!ResolveOperation,
       Moves!ResolveOperation, Moving!CurrentEntry, Moves!CurrentEntry, Moving!Outstanding,
       Moves!Outstanding, Moving!NewEntry, Moves!NewEntry, Moving!Enter, Moves!Enter,
       Moving!MayApply, Moves!MayApply, Moving!MayForce, Moves!MayForce
  <2>6. Moving!SetState(r) <=> Moves!SetState(r)
    BY DEF
       Moving!SetState, Moves!SetState, Moving!At, Moves!At, Moving!Target, Moves!Target,
       Moving!Loaded, Moves!Loaded, Moving!Fail, Moves!Fail, Moving!Idle, Moves!Idle,
       Moving!ReleaseGraphLock, Moves!ReleaseGraphLock, Moving!Save, Moves!Save, Moving!Transit,
       Moves!Transit, Moving!Gated, Moves!Gated, Moving!AdvancesItself, Moves!AdvancesItself,
       Moving!Complete, Moves!Complete, Moving!Dropped, Moves!Dropped, Moving!Label,
       Moves!Label, Moving!Transitions, Moves!Transitions, Moving!IsTerminal, Moves!IsTerminal,
       Moving!TurnOnEnter, Moves!TurnOnEnter, Moving!AdvancedByAgent, Moves!AdvancedByAgent,
       Moving!Forward, Moves!Forward, Moving!HasSingleForward, Moves!HasSingleForward,
       Moving!Verbs, Moves!Verbs, Moving!ResolveOperation, Moves!ResolveOperation,
       Moving!CurrentEntry, Moves!CurrentEntry, Moving!Outstanding, Moves!Outstanding,
       Moving!NewEntry, Moves!NewEntry, Moving!Enter, Moves!Enter, Moving!MayApply,
       Moves!MayApply, Moving!MayForce, Moves!MayForce
  <2>7. Moving!ResolveResponsibility(r) <=> Moves!ResolveResponsibility(r)
    BY DEF
       Moving!ResolveResponsibility, Moves!ResolveResponsibility, Moving!At, Moves!At,
       Moving!Target, Moves!Target, Moving!Loaded, Moves!Loaded, Moving!Fail, Moves!Fail,
       Moving!Idle, Moves!Idle, Moving!ReleaseGraphLock, Moves!ReleaseGraphLock, Moving!Save,
       Moves!Save, Moving!Transit, Moves!Transit, Moving!Gated, Moves!Gated,
       Moving!AdvancesItself, Moves!AdvancesItself, Moving!Complete, Moves!Complete,
       Moving!Dropped, Moves!Dropped, Moving!Label, Moves!Label, Moving!Transitions,
       Moves!Transitions, Moving!IsTerminal, Moves!IsTerminal, Moving!TurnOnEnter,
       Moves!TurnOnEnter, Moving!AdvancedByAgent, Moves!AdvancedByAgent, Moving!Forward,
       Moves!Forward, Moving!HasSingleForward, Moves!HasSingleForward, Moving!Verbs,
       Moves!Verbs, Moving!ResolveOperation, Moves!ResolveOperation, Moving!CurrentEntry,
       Moves!CurrentEntry, Moving!Outstanding, Moves!Outstanding, Moving!NewEntry,
       Moves!NewEntry, Moving!Enter, Moves!Enter, Moving!MayApply, Moves!MayApply,
       Moving!MayForce, Moves!MayForce
  <2>8. Moving!CreateReviewTask(r) <=> Moves!CreateReviewTask(r)
    BY DEF
       Moving!CreateReviewTask, Moves!CreateReviewTask, Moving!ReviewWorkflow,
       Moves!ReviewWorkflow, Moving!WorkflowName, Moves!WorkflowName, Moving!NewTask,
       Moves!NewTask, Moving!StartEntry, Moves!StartEntry, Moving!NewEntry, Moves!NewEntry,
       Moving!TurnOnEnter, Moves!TurnOnEnter, Moving!IsTerminal, Moves!IsTerminal,
       Moving!Inserted, Moves!Inserted, Moving!Idle, Moves!Idle, Moving!Fail, Moves!Fail,
       Moving!ReleaseGraphLock, Moves!ReleaseGraphLock, Moving!Target, Moves!Target, Moving!At,
       Moves!At, Moving!Closed, Moves!Closed, Moving!ReachableFrom, Moves!ReachableFrom,
       Moving!CycleFrom, Moves!CycleFrom, Moving!DependencyGraph, Moves!DependencyGraph,
       Moving!Dropped, Moves!Dropped, Moving!Complete, Moves!Complete
  <2>9. Moving!CreateTask(r) <=> Moves!CreateTask(r)
    BY DEF
       Moving!CreateTask, Moves!CreateTask, Moving!ReviewWorkflow, Moves!ReviewWorkflow,
       Moving!WorkflowName, Moves!WorkflowName, Moving!NewTask, Moves!NewTask,
       Moving!StartEntry, Moves!StartEntry, Moving!NewEntry, Moves!NewEntry, Moving!TurnOnEnter,
       Moves!TurnOnEnter, Moving!IsTerminal, Moves!IsTerminal, Moving!Inserted, Moves!Inserted,
       Moving!Idle, Moves!Idle, Moving!Fail, Moves!Fail, Moving!ReleaseGraphLock,
       Moves!ReleaseGraphLock, Moving!Target, Moves!Target, Moving!At, Moves!At, Moving!Closed,
       Moves!Closed, Moving!ReachableFrom, Moves!ReachableFrom, Moving!CycleFrom,
       Moves!CycleFrom, Moving!DependencyGraph, Moves!DependencyGraph, Moving!Dropped,
       Moves!Dropped, Moving!Complete, Moves!Complete
  <2>10. Moving!RecordStageEntryWake(r) <=> Moves!RecordStageEntryWake(r)
    BY DEF
       Moving!RecordStageEntryWake, Moves!RecordStageEntryWake, Moving!At, Moves!At,
       Moving!Target, Moves!Target, Moving!Loaded, Moves!Loaded, Moving!Fail, Moves!Fail,
       Moving!Idle, Moves!Idle, Moving!ReleaseGraphLock, Moves!ReleaseGraphLock, Moving!Save,
       Moves!Save, Moving!Terminal, Moves!Terminal, Moving!IsTerminal, Moves!IsTerminal,
       Moving!Dropped, Moves!Dropped, Moving!DependencyBlocks, Moves!DependencyBlocks,
       Moving!DependenciesBlocking, Moves!DependenciesBlocking, Moving!Closed, Moves!Closed,
       Moving!ReachableFrom, Moves!ReachableFrom, Moving!CycleFrom, Moves!CycleFrom,
       Moving!DependencyGraph, Moves!DependencyGraph
  <2>11. Moving!Claim(r) <=> Moves!Claim(r)
    BY DEF
       Moving!Claim, Moves!Claim, Moving!At, Moves!At, Moving!Target, Moves!Target,
       Moving!Loaded, Moves!Loaded, Moving!Fail, Moves!Fail, Moving!Idle, Moves!Idle,
       Moving!ReleaseGraphLock, Moves!ReleaseGraphLock, Moving!Save, Moves!Save,
       Moving!Terminal, Moves!Terminal, Moving!IsTerminal, Moves!IsTerminal, Moving!Dropped,
       Moves!Dropped, Moving!DependencyBlocks, Moves!DependencyBlocks,
       Moving!DependenciesBlocking, Moves!DependenciesBlocking, Moving!Closed, Moves!Closed,
       Moving!ReachableFrom, Moves!ReachableFrom, Moving!CycleFrom, Moves!CycleFrom,
       Moving!DependencyGraph, Moves!DependencyGraph
  <2>12. Moving!ClaimIfReady(r) <=> Moves!ClaimIfReady(r)
    BY DEF
       Moving!ClaimIfReady, Moves!ClaimIfReady, Moving!At, Moves!At, Moving!Target,
       Moves!Target, Moving!Loaded, Moves!Loaded, Moving!Fail, Moves!Fail, Moving!Idle,
       Moves!Idle, Moving!ReleaseGraphLock, Moves!ReleaseGraphLock, Moving!Save, Moves!Save,
       Moving!Terminal, Moves!Terminal, Moving!IsTerminal, Moves!IsTerminal, Moving!Dropped,
       Moves!Dropped, Moving!DependencyBlocks, Moves!DependencyBlocks,
       Moving!DependenciesBlocking, Moves!DependenciesBlocking, Moving!Closed, Moves!Closed,
       Moving!ReachableFrom, Moves!ReachableFrom, Moving!CycleFrom, Moves!CycleFrom,
       Moving!DependencyGraph, Moves!DependencyGraph
  <2>13. Moving!SetDependencies(r) <=> Moves!SetDependencies(r)
    BY DEF
       Moving!SetDependencies, Moves!SetDependencies, Moving!At, Moves!At, Moving!Target,
       Moves!Target, Moving!Loaded, Moves!Loaded, Moving!Fail, Moves!Fail, Moving!Idle,
       Moves!Idle, Moving!ReleaseGraphLock, Moves!ReleaseGraphLock, Moving!Save, Moves!Save,
       Moving!Terminal, Moves!Terminal, Moving!IsTerminal, Moves!IsTerminal, Moving!Dropped,
       Moves!Dropped, Moving!DependencyBlocks, Moves!DependencyBlocks,
       Moving!DependenciesBlocking, Moves!DependenciesBlocking, Moving!Closed, Moves!Closed,
       Moving!ReachableFrom, Moves!ReachableFrom, Moving!CycleFrom, Moves!CycleFrom,
       Moving!DependencyGraph, Moves!DependencyGraph
  <2>14. Moving!ValidateDependencies(r) <=> Moves!ValidateDependencies(r)
    BY DEF
       Moving!ValidateDependencies, Moves!ValidateDependencies, Moving!At, Moves!At,
       Moving!Target, Moves!Target, Moving!Loaded, Moves!Loaded, Moving!Fail, Moves!Fail,
       Moving!Idle, Moves!Idle, Moving!ReleaseGraphLock, Moves!ReleaseGraphLock, Moving!Save,
       Moves!Save, Moving!Terminal, Moves!Terminal, Moving!IsTerminal, Moves!IsTerminal,
       Moving!Dropped, Moves!Dropped, Moving!DependencyBlocks, Moves!DependencyBlocks,
       Moving!DependenciesBlocking, Moves!DependenciesBlocking, Moving!Closed, Moves!Closed,
       Moving!ReachableFrom, Moves!ReachableFrom, Moving!CycleFrom, Moves!CycleFrom,
       Moving!DependencyGraph, Moves!DependencyGraph
  <2>15. Moving!PauseLaunch(r) <=> Moves!PauseLaunch(r)
    BY DEF
       Moving!PauseLaunch, Moves!PauseLaunch, Moving!At, Moves!At, Moving!Target, Moves!Target,
       Moving!Loaded, Moves!Loaded, Moving!Fail, Moves!Fail, Moving!Idle, Moves!Idle,
       Moving!ReleaseGraphLock, Moves!ReleaseGraphLock, Moving!Save, Moves!Save,
       Moving!Terminal, Moves!Terminal, Moving!IsTerminal, Moves!IsTerminal
  <2>16. Moving!RetryTask(r) <=> Moves!RetryTask(r)
    BY DEF
       Moving!RetryTask, Moves!RetryTask, Moving!At, Moves!At, Moving!Target, Moves!Target,
       Moving!Loaded, Moves!Loaded, Moving!Fail, Moves!Fail, Moving!Idle, Moves!Idle,
       Moving!ReleaseGraphLock, Moves!ReleaseGraphLock, Moving!Save, Moves!Save,
       Moving!Terminal, Moves!Terminal, Moving!IsTerminal, Moves!IsTerminal
  <2>17. Moving!SetLaunchPause(r) <=> Moves!SetLaunchPause(r)
    BY DEF
       Moving!SetLaunchPause, Moves!SetLaunchPause, Moving!At, Moves!At, Moving!Target,
       Moves!Target, Moving!Loaded, Moves!Loaded, Moving!Fail, Moves!Fail, Moving!Idle,
       Moves!Idle, Moving!ReleaseGraphLock, Moves!ReleaseGraphLock, Moving!Save, Moves!Save,
       Moving!Terminal, Moves!Terminal, Moving!IsTerminal, Moves!IsTerminal
  <2>18. Moving!Release(r) <=> Moves!Release(r)
    BY DEF
       Moving!Release, Moves!Release, Moving!At, Moves!At, Moving!Target, Moves!Target,
       Moving!Loaded, Moves!Loaded, Moving!Fail, Moves!Fail, Moving!Idle, Moves!Idle,
       Moving!ReleaseGraphLock, Moves!ReleaseGraphLock, Moving!Save, Moves!Save,
       Moving!Terminal, Moves!Terminal, Moving!IsTerminal, Moves!IsTerminal
  <2>19. Moving!SetTurn(r) <=> Moves!SetTurn(r)
    BY DEF
       Moving!SetTurn, Moves!SetTurn, Moving!At, Moves!At, Moving!Target, Moves!Target,
       Moving!Loaded, Moves!Loaded, Moving!Fail, Moves!Fail, Moving!Idle, Moves!Idle,
       Moving!ReleaseGraphLock, Moves!ReleaseGraphLock, Moving!Save, Moves!Save,
       Moving!Terminal, Moves!Terminal, Moving!IsTerminal, Moves!IsTerminal
  <2>20. Moving!SetBlocked(r) <=> Moves!SetBlocked(r)
    BY DEF
       Moving!SetBlocked, Moves!SetBlocked, Moving!At, Moves!At, Moving!Target, Moves!Target,
       Moving!Loaded, Moves!Loaded, Moving!Fail, Moves!Fail, Moving!Idle, Moves!Idle,
       Moving!ReleaseGraphLock, Moves!ReleaseGraphLock, Moving!Save, Moves!Save,
       Moving!Terminal, Moves!Terminal, Moving!IsTerminal, Moves!IsTerminal
  <2>21. Moving!SetAttention(r) <=> Moves!SetAttention(r)
    BY DEF
       Moving!SetAttention, Moves!SetAttention, Moving!At, Moves!At, Moving!Target,
       Moves!Target, Moving!Loaded, Moves!Loaded, Moving!Fail, Moves!Fail, Moving!Idle,
       Moves!Idle, Moving!ReleaseGraphLock, Moves!ReleaseGraphLock, Moving!Save, Moves!Save,
       Moving!Terminal, Moves!Terminal, Moving!IsTerminal, Moves!IsTerminal
  <2>22. Moving!SetFact(r) <=> Moves!SetFact(r)
    BY DEF
       Moving!SetFact, Moves!SetFact, Moving!At, Moves!At, Moving!Target, Moves!Target,
       Moving!Loaded, Moves!Loaded, Moving!Fail, Moves!Fail, Moving!Idle, Moves!Idle,
       Moving!ReleaseGraphLock, Moves!ReleaseGraphLock, Moving!Save, Moves!Save,
       Moving!Terminal, Moves!Terminal, Moving!IsTerminal, Moves!IsTerminal
  <2>23. Moving!SetGovernor(r) <=> Moves!SetGovernor(r)
    BY DEF
       Moving!SetGovernor, Moves!SetGovernor, Moving!At, Moves!At, Moving!Target, Moves!Target,
       Moving!Loaded, Moves!Loaded, Moving!Fail, Moves!Fail, Moving!Idle, Moves!Idle,
       Moving!ReleaseGraphLock, Moves!ReleaseGraphLock, Moving!Save, Moves!Save,
       Moving!Terminal, Moves!Terminal, Moving!IsTerminal, Moves!IsTerminal
  <2>24. Moving!Validate(r) <=> Moves!Validate(r)
    BY DEF
       Moving!Validate, Moves!Validate, Moving!Target, Moves!Target, Moving!Loaded,
       Moves!Loaded, Moving!Fail, Moves!Fail, Moving!Idle, Moves!Idle, Moving!ReleaseGraphLock,
       Moves!ReleaseGraphLock, Moving!ReturnFrom, Moves!ReturnFrom, Moving!Dropped,
       Moves!Dropped, Moving!Consistent, Moves!Consistent, Moving!CurrentEntry,
       Moves!CurrentEntry, Moving!AppendOnly, Moves!AppendOnly, Moving!TransitionFacts,
       Moves!TransitionFacts, Moving!Writable, Moves!Writable, Moving!UpdatedRow,
       Moves!UpdatedRow, Moving!SettledHistory, Moves!SettledHistory
  <2>25. Moving!Update(r) <=> Moves!Update(r)
    BY DEF
       Moving!Update, Moves!Update, Moving!Target, Moves!Target, Moving!Loaded, Moves!Loaded,
       Moving!Fail, Moves!Fail, Moving!Idle, Moves!Idle, Moving!ReleaseGraphLock,
       Moves!ReleaseGraphLock, Moving!ReturnFrom, Moves!ReturnFrom, Moving!Dropped,
       Moves!Dropped, Moving!Consistent, Moves!Consistent, Moving!CurrentEntry,
       Moves!CurrentEntry, Moving!AppendOnly, Moves!AppendOnly, Moving!TransitionFacts,
       Moves!TransitionFacts, Moving!Writable, Moves!Writable, Moving!UpdatedRow,
       Moves!UpdatedRow, Moving!SettledHistory, Moves!SettledHistory
  <2>26. Moving!ListGoverned(r) <=> Moves!ListGoverned(r)
    BY DEF
       Moving!ListGoverned, Moves!ListGoverned, Moving!Target, Moves!Target, Moving!Idle,
       Moves!Idle, Moving!ReturnFrom, Moves!ReturnFrom, Moving!Frame, Moves!Frame,
       Moving!Terminal, Moves!Terminal, Moving!IsTerminal, Moves!IsTerminal, Moving!Dropped,
       Moves!Dropped
  <2>27. Moving!DropGoverned(r) <=> Moves!DropGoverned(r)
    BY DEF
       Moving!DropGoverned, Moves!DropGoverned, Moving!Target, Moves!Target, Moving!Idle,
       Moves!Idle, Moving!ReturnFrom, Moves!ReturnFrom, Moving!Frame, Moves!Frame,
       Moving!Terminal, Moves!Terminal, Moving!IsTerminal, Moves!IsTerminal, Moving!Dropped,
       Moves!Dropped
  <2>28. Moving!FinishCascade(r) <=> Moves!FinishCascade(r)
    BY DEF
       Moving!FinishCascade, Moves!FinishCascade, Moving!Target, Moves!Target, Moving!Idle,
       Moves!Idle, Moving!ReturnFrom, Moves!ReturnFrom, Moving!Frame, Moves!Frame,
       Moving!Terminal, Moves!Terminal, Moving!IsTerminal, Moves!IsTerminal, Moving!Dropped,
       Moves!Dropped
  <2> QED
    BY <2>1, <2>2, <2>3, <2>4, <2>5, <2>6, <2>7, <2>8, <2>9, <2>10, <2>11, <2>12, <2>13, <2>14, <2>15, <2>16, <2>17, <2>18, <2>19, <2>20, <2>21, <2>22, <2>23, <2>24, <2>25, <2>26, <2>27, <2>28 DEF Moving!Handler, Moves!Handler
<1>3. Moving!Crash <=> Moves!Crash
  BY DEF Moving!Crash, Moves!Crash, Moving!Idle, Moves!Idle
<1>4. Moving!Quiescent /\ UNCHANGED Moving!vars <=> Moves!Quiescent /\ UNCHANGED Moves!vars
  BY DEF Moving!Quiescent, Moves!Quiescent, Moving!vars, Moves!vars
<1> QED
  BY <1>1, <1>2, <1>3, <1>4 DEF Moving!Next, Moves!Next

(* So is the group that claims.                                               *)
LEMMA SameClaims == (Claiming!Init <=> Claims!Init) /\ (Claiming!Next <=> Claims!Next)
<1>1. Claiming!Init <=> Claims!Init
  BY DEF
     Claiming!NewTask, Claims!NewTask, Claiming!StartEntry, Claims!StartEntry,
     Claiming!NewEntry, Claims!NewEntry, Claiming!TurnOnEnter, Claims!TurnOnEnter,
     Claiming!IsTerminal, Claims!IsTerminal, Claiming!Idle, Claims!Idle, Claiming!Init,
     Claims!Init
<1>2. ASSUME NEW r \in Req
      PROVE  /\ Claiming!Begin(r) <=> Claims!Begin(r)
             /\ Claiming!AcquireTaskLock(r) <=> Claims!AcquireTaskLock(r)
             /\ Claiming!AcquireGraphLock(r) <=> Claims!AcquireGraphLock(r)
             /\ Claiming!Handler(r) <=> Claims!Handler(r)
  <2>1. Claiming!Begin(r) <=> Claims!Begin(r)
    BY DEF
       Claiming!Begin, Claims!Begin, Claiming!Idle, Claims!Idle, Claiming!Frame, Claims!Frame,
       Claiming!FirstStep, Claims!FirstStep, Claiming!Target, Claims!Target,
       Claiming!TransitionOp, Claims!TransitionOp, Claiming!TaskLockedOp, Claims!TaskLockedOp,
       Claiming!GraphLockedOp, Claims!GraphLockedOp
  <2>2. Claiming!AcquireTaskLock(r) <=> Claims!AcquireTaskLock(r)
    BY DEF
       Claiming!AcquireTaskLock, Claims!AcquireTaskLock, Claiming!Idle, Claims!Idle,
       Claiming!Frame, Claims!Frame, Claiming!FirstStep, Claims!FirstStep, Claiming!Target,
       Claims!Target, Claiming!TransitionOp, Claims!TransitionOp, Claiming!TaskLockedOp,
       Claims!TaskLockedOp, Claiming!GraphLockedOp, Claims!GraphLockedOp
  <2>3. Claiming!AcquireGraphLock(r) <=> Claims!AcquireGraphLock(r)
    BY DEF
       Claiming!AcquireGraphLock, Claims!AcquireGraphLock, Claiming!Idle, Claims!Idle,
       Claiming!Frame, Claims!Frame, Claiming!FirstStep, Claims!FirstStep, Claiming!Target,
       Claims!Target, Claiming!TransitionOp, Claims!TransitionOp, Claiming!TaskLockedOp,
       Claims!TaskLockedOp, Claiming!GraphLockedOp, Claims!GraphLockedOp
  <2>4. Claiming!ApplyOperation(r) <=> Claims!ApplyOperation(r)
    BY DEF
       Claiming!ApplyOperation, Claims!ApplyOperation, Claiming!At, Claims!At, Claiming!Target,
       Claims!Target, Claiming!Loaded, Claims!Loaded, Claiming!Fail, Claims!Fail, Claiming!Idle,
       Claims!Idle, Claiming!ReleaseGraphLock, Claims!ReleaseGraphLock, Claiming!Save,
       Claims!Save, Claiming!Transit, Claims!Transit, Claiming!Gated, Claims!Gated,
       Claiming!AdvancesItself, Claims!AdvancesItself, Claiming!Complete, Claims!Complete,
       Claiming!Dropped, Claims!Dropped, Claiming!Label, Claims!Label, Claiming!Transitions,
       Claims!Transitions, Claiming!IsTerminal, Claims!IsTerminal, Claiming!TurnOnEnter,
       Claims!TurnOnEnter, Claiming!AdvancedByAgent, Claims!AdvancedByAgent, Claiming!Forward,
       Claims!Forward, Claiming!HasSingleForward, Claims!HasSingleForward, Claiming!Verbs,
       Claims!Verbs, Claiming!ResolveOperation, Claims!ResolveOperation, Claiming!CurrentEntry,
       Claims!CurrentEntry, Claiming!Outstanding, Claims!Outstanding, Claiming!NewEntry,
       Claims!NewEntry, Claiming!Enter, Claims!Enter, Claiming!MayApply, Claims!MayApply,
       Claiming!MayForce, Claims!MayForce
  <2>5. Claiming!RequestTransition(r) <=> Claims!RequestTransition(r)
    BY DEF
       Claiming!RequestTransition, Claims!RequestTransition, Claiming!At, Claims!At,
       Claiming!Target, Claims!Target, Claiming!Loaded, Claims!Loaded, Claiming!Fail,
       Claims!Fail, Claiming!Idle, Claims!Idle, Claiming!ReleaseGraphLock,
       Claims!ReleaseGraphLock, Claiming!Save, Claims!Save, Claiming!Transit, Claims!Transit,
       Claiming!Gated, Claims!Gated, Claiming!AdvancesItself, Claims!AdvancesItself,
       Claiming!Complete, Claims!Complete, Claiming!Dropped, Claims!Dropped, Claiming!Label,
       Claims!Label, Claiming!Transitions, Claims!Transitions, Claiming!IsTerminal,
       Claims!IsTerminal, Claiming!TurnOnEnter, Claims!TurnOnEnter, Claiming!AdvancedByAgent,
       Claims!AdvancedByAgent, Claiming!Forward, Claims!Forward, Claiming!HasSingleForward,
       Claims!HasSingleForward, Claiming!Verbs, Claims!Verbs, Claiming!ResolveOperation,
       Claims!ResolveOperation, Claiming!CurrentEntry, Claims!CurrentEntry,
       Claiming!Outstanding, Claims!Outstanding, Claiming!NewEntry, Claims!NewEntry,
       Claiming!Enter, Claims!Enter, Claiming!MayApply, Claims!MayApply, Claiming!MayForce,
       Claims!MayForce
  <2>6. Claiming!SetState(r) <=> Claims!SetState(r)
    BY DEF
       Claiming!SetState, Claims!SetState, Claiming!At, Claims!At, Claiming!Target,
       Claims!Target, Claiming!Loaded, Claims!Loaded, Claiming!Fail, Claims!Fail, Claiming!Idle,
       Claims!Idle, Claiming!ReleaseGraphLock, Claims!ReleaseGraphLock, Claiming!Save,
       Claims!Save, Claiming!Transit, Claims!Transit, Claiming!Gated, Claims!Gated,
       Claiming!AdvancesItself, Claims!AdvancesItself, Claiming!Complete, Claims!Complete,
       Claiming!Dropped, Claims!Dropped, Claiming!Label, Claims!Label, Claiming!Transitions,
       Claims!Transitions, Claiming!IsTerminal, Claims!IsTerminal, Claiming!TurnOnEnter,
       Claims!TurnOnEnter, Claiming!AdvancedByAgent, Claims!AdvancedByAgent, Claiming!Forward,
       Claims!Forward, Claiming!HasSingleForward, Claims!HasSingleForward, Claiming!Verbs,
       Claims!Verbs, Claiming!ResolveOperation, Claims!ResolveOperation, Claiming!CurrentEntry,
       Claims!CurrentEntry, Claiming!Outstanding, Claims!Outstanding, Claiming!NewEntry,
       Claims!NewEntry, Claiming!Enter, Claims!Enter, Claiming!MayApply, Claims!MayApply,
       Claiming!MayForce, Claims!MayForce
  <2>7. Claiming!ResolveResponsibility(r) <=> Claims!ResolveResponsibility(r)
    BY DEF
       Claiming!ResolveResponsibility, Claims!ResolveResponsibility, Claiming!At, Claims!At,
       Claiming!Target, Claims!Target, Claiming!Loaded, Claims!Loaded, Claiming!Fail,
       Claims!Fail, Claiming!Idle, Claims!Idle, Claiming!ReleaseGraphLock,
       Claims!ReleaseGraphLock, Claiming!Save, Claims!Save, Claiming!Transit, Claims!Transit,
       Claiming!Gated, Claims!Gated, Claiming!AdvancesItself, Claims!AdvancesItself,
       Claiming!Complete, Claims!Complete, Claiming!Dropped, Claims!Dropped, Claiming!Label,
       Claims!Label, Claiming!Transitions, Claims!Transitions, Claiming!IsTerminal,
       Claims!IsTerminal, Claiming!TurnOnEnter, Claims!TurnOnEnter, Claiming!AdvancedByAgent,
       Claims!AdvancedByAgent, Claiming!Forward, Claims!Forward, Claiming!HasSingleForward,
       Claims!HasSingleForward, Claiming!Verbs, Claims!Verbs, Claiming!ResolveOperation,
       Claims!ResolveOperation, Claiming!CurrentEntry, Claims!CurrentEntry,
       Claiming!Outstanding, Claims!Outstanding, Claiming!NewEntry, Claims!NewEntry,
       Claiming!Enter, Claims!Enter, Claiming!MayApply, Claims!MayApply, Claiming!MayForce,
       Claims!MayForce
  <2>8. Claiming!CreateReviewTask(r) <=> Claims!CreateReviewTask(r)
    BY DEF
       Claiming!CreateReviewTask, Claims!CreateReviewTask, Claiming!ReviewWorkflow,
       Claims!ReviewWorkflow, Claiming!WorkflowName, Claims!WorkflowName, Claiming!NewTask,
       Claims!NewTask, Claiming!StartEntry, Claims!StartEntry, Claiming!NewEntry,
       Claims!NewEntry, Claiming!TurnOnEnter, Claims!TurnOnEnter, Claiming!IsTerminal,
       Claims!IsTerminal, Claiming!Inserted, Claims!Inserted, Claiming!Idle, Claims!Idle,
       Claiming!Fail, Claims!Fail, Claiming!ReleaseGraphLock, Claims!ReleaseGraphLock,
       Claiming!Target, Claims!Target, Claiming!At, Claims!At, Claiming!Closed, Claims!Closed,
       Claiming!ReachableFrom, Claims!ReachableFrom, Claiming!CycleFrom, Claims!CycleFrom,
       Claiming!DependencyGraph, Claims!DependencyGraph, Claiming!Dropped, Claims!Dropped,
       Claiming!Complete, Claims!Complete
  <2>9. Claiming!CreateTask(r) <=> Claims!CreateTask(r)
    BY DEF
       Claiming!CreateTask, Claims!CreateTask, Claiming!ReviewWorkflow, Claims!ReviewWorkflow,
       Claiming!WorkflowName, Claims!WorkflowName, Claiming!NewTask, Claims!NewTask,
       Claiming!StartEntry, Claims!StartEntry, Claiming!NewEntry, Claims!NewEntry,
       Claiming!TurnOnEnter, Claims!TurnOnEnter, Claiming!IsTerminal, Claims!IsTerminal,
       Claiming!Inserted, Claims!Inserted, Claiming!Idle, Claims!Idle, Claiming!Fail,
       Claims!Fail, Claiming!ReleaseGraphLock, Claims!ReleaseGraphLock, Claiming!Target,
       Claims!Target, Claiming!At, Claims!At, Claiming!Closed, Claims!Closed,
       Claiming!ReachableFrom, Claims!ReachableFrom, Claiming!CycleFrom, Claims!CycleFrom,
       Claiming!DependencyGraph, Claims!DependencyGraph, Claiming!Dropped, Claims!Dropped,
       Claiming!Complete, Claims!Complete
  <2>10. Claiming!RecordStageEntryWake(r) <=> Claims!RecordStageEntryWake(r)
    BY DEF
       Claiming!RecordStageEntryWake, Claims!RecordStageEntryWake, Claiming!At, Claims!At,
       Claiming!Target, Claims!Target, Claiming!Loaded, Claims!Loaded, Claiming!Fail,
       Claims!Fail, Claiming!Idle, Claims!Idle, Claiming!ReleaseGraphLock,
       Claims!ReleaseGraphLock, Claiming!Save, Claims!Save, Claiming!Terminal, Claims!Terminal,
       Claiming!IsTerminal, Claims!IsTerminal, Claiming!Dropped, Claims!Dropped,
       Claiming!DependencyBlocks, Claims!DependencyBlocks, Claiming!DependenciesBlocking,
       Claims!DependenciesBlocking, Claiming!Closed, Claims!Closed, Claiming!ReachableFrom,
       Claims!ReachableFrom, Claiming!CycleFrom, Claims!CycleFrom, Claiming!DependencyGraph,
       Claims!DependencyGraph
  <2>11. Claiming!Claim(r) <=> Claims!Claim(r)
    BY DEF
       Claiming!Claim, Claims!Claim, Claiming!At, Claims!At, Claiming!Target, Claims!Target,
       Claiming!Loaded, Claims!Loaded, Claiming!Fail, Claims!Fail, Claiming!Idle, Claims!Idle,
       Claiming!ReleaseGraphLock, Claims!ReleaseGraphLock, Claiming!Save, Claims!Save,
       Claiming!Terminal, Claims!Terminal, Claiming!IsTerminal, Claims!IsTerminal,
       Claiming!Dropped, Claims!Dropped, Claiming!DependencyBlocks, Claims!DependencyBlocks,
       Claiming!DependenciesBlocking, Claims!DependenciesBlocking, Claiming!Closed,
       Claims!Closed, Claiming!ReachableFrom, Claims!ReachableFrom, Claiming!CycleFrom,
       Claims!CycleFrom, Claiming!DependencyGraph, Claims!DependencyGraph
  <2>12. Claiming!ClaimIfReady(r) <=> Claims!ClaimIfReady(r)
    BY DEF
       Claiming!ClaimIfReady, Claims!ClaimIfReady, Claiming!At, Claims!At, Claiming!Target,
       Claims!Target, Claiming!Loaded, Claims!Loaded, Claiming!Fail, Claims!Fail, Claiming!Idle,
       Claims!Idle, Claiming!ReleaseGraphLock, Claims!ReleaseGraphLock, Claiming!Save,
       Claims!Save, Claiming!Terminal, Claims!Terminal, Claiming!IsTerminal, Claims!IsTerminal,
       Claiming!Dropped, Claims!Dropped, Claiming!DependencyBlocks, Claims!DependencyBlocks,
       Claiming!DependenciesBlocking, Claims!DependenciesBlocking, Claiming!Closed,
       Claims!Closed, Claiming!ReachableFrom, Claims!ReachableFrom, Claiming!CycleFrom,
       Claims!CycleFrom, Claiming!DependencyGraph, Claims!DependencyGraph
  <2>13. Claiming!SetDependencies(r) <=> Claims!SetDependencies(r)
    BY DEF
       Claiming!SetDependencies, Claims!SetDependencies, Claiming!At, Claims!At,
       Claiming!Target, Claims!Target, Claiming!Loaded, Claims!Loaded, Claiming!Fail,
       Claims!Fail, Claiming!Idle, Claims!Idle, Claiming!ReleaseGraphLock,
       Claims!ReleaseGraphLock, Claiming!Save, Claims!Save, Claiming!Terminal, Claims!Terminal,
       Claiming!IsTerminal, Claims!IsTerminal, Claiming!Dropped, Claims!Dropped,
       Claiming!DependencyBlocks, Claims!DependencyBlocks, Claiming!DependenciesBlocking,
       Claims!DependenciesBlocking, Claiming!Closed, Claims!Closed, Claiming!ReachableFrom,
       Claims!ReachableFrom, Claiming!CycleFrom, Claims!CycleFrom, Claiming!DependencyGraph,
       Claims!DependencyGraph
  <2>14. Claiming!ValidateDependencies(r) <=> Claims!ValidateDependencies(r)
    BY DEF
       Claiming!ValidateDependencies, Claims!ValidateDependencies, Claiming!At, Claims!At,
       Claiming!Target, Claims!Target, Claiming!Loaded, Claims!Loaded, Claiming!Fail,
       Claims!Fail, Claiming!Idle, Claims!Idle, Claiming!ReleaseGraphLock,
       Claims!ReleaseGraphLock, Claiming!Save, Claims!Save, Claiming!Terminal, Claims!Terminal,
       Claiming!IsTerminal, Claims!IsTerminal, Claiming!Dropped, Claims!Dropped,
       Claiming!DependencyBlocks, Claims!DependencyBlocks, Claiming!DependenciesBlocking,
       Claims!DependenciesBlocking, Claiming!Closed, Claims!Closed, Claiming!ReachableFrom,
       Claims!ReachableFrom, Claiming!CycleFrom, Claims!CycleFrom, Claiming!DependencyGraph,
       Claims!DependencyGraph
  <2>15. Claiming!PauseLaunch(r) <=> Claims!PauseLaunch(r)
    BY DEF
       Claiming!PauseLaunch, Claims!PauseLaunch, Claiming!At, Claims!At, Claiming!Target,
       Claims!Target, Claiming!Loaded, Claims!Loaded, Claiming!Fail, Claims!Fail, Claiming!Idle,
       Claims!Idle, Claiming!ReleaseGraphLock, Claims!ReleaseGraphLock, Claiming!Save,
       Claims!Save, Claiming!Terminal, Claims!Terminal, Claiming!IsTerminal, Claims!IsTerminal
  <2>16. Claiming!RetryTask(r) <=> Claims!RetryTask(r)
    BY DEF
       Claiming!RetryTask, Claims!RetryTask, Claiming!At, Claims!At, Claiming!Target,
       Claims!Target, Claiming!Loaded, Claims!Loaded, Claiming!Fail, Claims!Fail, Claiming!Idle,
       Claims!Idle, Claiming!ReleaseGraphLock, Claims!ReleaseGraphLock, Claiming!Save,
       Claims!Save, Claiming!Terminal, Claims!Terminal, Claiming!IsTerminal, Claims!IsTerminal
  <2>17. Claiming!SetLaunchPause(r) <=> Claims!SetLaunchPause(r)
    BY DEF
       Claiming!SetLaunchPause, Claims!SetLaunchPause, Claiming!At, Claims!At, Claiming!Target,
       Claims!Target, Claiming!Loaded, Claims!Loaded, Claiming!Fail, Claims!Fail, Claiming!Idle,
       Claims!Idle, Claiming!ReleaseGraphLock, Claims!ReleaseGraphLock, Claiming!Save,
       Claims!Save, Claiming!Terminal, Claims!Terminal, Claiming!IsTerminal, Claims!IsTerminal
  <2>18. Claiming!Release(r) <=> Claims!Release(r)
    BY DEF
       Claiming!Release, Claims!Release, Claiming!At, Claims!At, Claiming!Target, Claims!Target,
       Claiming!Loaded, Claims!Loaded, Claiming!Fail, Claims!Fail, Claiming!Idle, Claims!Idle,
       Claiming!ReleaseGraphLock, Claims!ReleaseGraphLock, Claiming!Save, Claims!Save,
       Claiming!Terminal, Claims!Terminal, Claiming!IsTerminal, Claims!IsTerminal
  <2>19. Claiming!SetTurn(r) <=> Claims!SetTurn(r)
    BY DEF
       Claiming!SetTurn, Claims!SetTurn, Claiming!At, Claims!At, Claiming!Target, Claims!Target,
       Claiming!Loaded, Claims!Loaded, Claiming!Fail, Claims!Fail, Claiming!Idle, Claims!Idle,
       Claiming!ReleaseGraphLock, Claims!ReleaseGraphLock, Claiming!Save, Claims!Save,
       Claiming!Terminal, Claims!Terminal, Claiming!IsTerminal, Claims!IsTerminal
  <2>20. Claiming!SetBlocked(r) <=> Claims!SetBlocked(r)
    BY DEF
       Claiming!SetBlocked, Claims!SetBlocked, Claiming!At, Claims!At, Claiming!Target,
       Claims!Target, Claiming!Loaded, Claims!Loaded, Claiming!Fail, Claims!Fail, Claiming!Idle,
       Claims!Idle, Claiming!ReleaseGraphLock, Claims!ReleaseGraphLock, Claiming!Save,
       Claims!Save, Claiming!Terminal, Claims!Terminal, Claiming!IsTerminal, Claims!IsTerminal
  <2>21. Claiming!SetAttention(r) <=> Claims!SetAttention(r)
    BY DEF
       Claiming!SetAttention, Claims!SetAttention, Claiming!At, Claims!At, Claiming!Target,
       Claims!Target, Claiming!Loaded, Claims!Loaded, Claiming!Fail, Claims!Fail, Claiming!Idle,
       Claims!Idle, Claiming!ReleaseGraphLock, Claims!ReleaseGraphLock, Claiming!Save,
       Claims!Save, Claiming!Terminal, Claims!Terminal, Claiming!IsTerminal, Claims!IsTerminal
  <2>22. Claiming!SetFact(r) <=> Claims!SetFact(r)
    BY DEF
       Claiming!SetFact, Claims!SetFact, Claiming!At, Claims!At, Claiming!Target, Claims!Target,
       Claiming!Loaded, Claims!Loaded, Claiming!Fail, Claims!Fail, Claiming!Idle, Claims!Idle,
       Claiming!ReleaseGraphLock, Claims!ReleaseGraphLock, Claiming!Save, Claims!Save,
       Claiming!Terminal, Claims!Terminal, Claiming!IsTerminal, Claims!IsTerminal
  <2>23. Claiming!SetGovernor(r) <=> Claims!SetGovernor(r)
    BY DEF
       Claiming!SetGovernor, Claims!SetGovernor, Claiming!At, Claims!At, Claiming!Target,
       Claims!Target, Claiming!Loaded, Claims!Loaded, Claiming!Fail, Claims!Fail, Claiming!Idle,
       Claims!Idle, Claiming!ReleaseGraphLock, Claims!ReleaseGraphLock, Claiming!Save,
       Claims!Save, Claiming!Terminal, Claims!Terminal, Claiming!IsTerminal, Claims!IsTerminal
  <2>24. Claiming!Validate(r) <=> Claims!Validate(r)
    BY DEF
       Claiming!Validate, Claims!Validate, Claiming!Target, Claims!Target, Claiming!Loaded,
       Claims!Loaded, Claiming!Fail, Claims!Fail, Claiming!Idle, Claims!Idle,
       Claiming!ReleaseGraphLock, Claims!ReleaseGraphLock, Claiming!ReturnFrom,
       Claims!ReturnFrom, Claiming!Dropped, Claims!Dropped, Claiming!Consistent,
       Claims!Consistent, Claiming!CurrentEntry, Claims!CurrentEntry, Claiming!AppendOnly,
       Claims!AppendOnly, Claiming!TransitionFacts, Claims!TransitionFacts, Claiming!Writable,
       Claims!Writable, Claiming!UpdatedRow, Claims!UpdatedRow, Claiming!SettledHistory,
       Claims!SettledHistory
  <2>25. Claiming!Update(r) <=> Claims!Update(r)
    BY DEF
       Claiming!Update, Claims!Update, Claiming!Target, Claims!Target, Claiming!Loaded,
       Claims!Loaded, Claiming!Fail, Claims!Fail, Claiming!Idle, Claims!Idle,
       Claiming!ReleaseGraphLock, Claims!ReleaseGraphLock, Claiming!ReturnFrom,
       Claims!ReturnFrom, Claiming!Dropped, Claims!Dropped, Claiming!Consistent,
       Claims!Consistent, Claiming!CurrentEntry, Claims!CurrentEntry, Claiming!AppendOnly,
       Claims!AppendOnly, Claiming!TransitionFacts, Claims!TransitionFacts, Claiming!Writable,
       Claims!Writable, Claiming!UpdatedRow, Claims!UpdatedRow, Claiming!SettledHistory,
       Claims!SettledHistory
  <2>26. Claiming!ListGoverned(r) <=> Claims!ListGoverned(r)
    BY DEF
       Claiming!ListGoverned, Claims!ListGoverned, Claiming!Target, Claims!Target,
       Claiming!Idle, Claims!Idle, Claiming!ReturnFrom, Claims!ReturnFrom, Claiming!Frame,
       Claims!Frame, Claiming!Terminal, Claims!Terminal, Claiming!IsTerminal, Claims!IsTerminal,
       Claiming!Dropped, Claims!Dropped
  <2>27. Claiming!DropGoverned(r) <=> Claims!DropGoverned(r)
    BY DEF
       Claiming!DropGoverned, Claims!DropGoverned, Claiming!Target, Claims!Target,
       Claiming!Idle, Claims!Idle, Claiming!ReturnFrom, Claims!ReturnFrom, Claiming!Frame,
       Claims!Frame, Claiming!Terminal, Claims!Terminal, Claiming!IsTerminal, Claims!IsTerminal,
       Claiming!Dropped, Claims!Dropped
  <2>28. Claiming!FinishCascade(r) <=> Claims!FinishCascade(r)
    BY DEF
       Claiming!FinishCascade, Claims!FinishCascade, Claiming!Target, Claims!Target,
       Claiming!Idle, Claims!Idle, Claiming!ReturnFrom, Claims!ReturnFrom, Claiming!Frame,
       Claims!Frame, Claiming!Terminal, Claims!Terminal, Claiming!IsTerminal, Claims!IsTerminal,
       Claiming!Dropped, Claims!Dropped
  <2> QED
    BY <2>1, <2>2, <2>3, <2>4, <2>5, <2>6, <2>7, <2>8, <2>9, <2>10, <2>11, <2>12, <2>13, <2>14, <2>15, <2>16, <2>17, <2>18, <2>19, <2>20, <2>21, <2>22, <2>23, <2>24, <2>25, <2>26, <2>27, <2>28 DEF Claiming!Handler, Claims!Handler
<1>3. Claiming!Crash <=> Claims!Crash
  BY DEF Claiming!Crash, Claims!Crash, Claiming!Idle, Claims!Idle
<1>4. Claiming!Quiescent /\ UNCHANGED Claiming!vars <=> Claims!Quiescent /\ UNCHANGED Claims!vars
  BY DEF Claiming!Quiescent, Claims!Quiescent, Claiming!vars, Claims!vars
<1> QED
  BY <1>1, <1>2, <1>3, <1>4 DEF Claiming!Next, Claims!Next

(* A behaviour that starts in a group stays there: it is one of the instance. *)
LEMMA MovingBehaves == GroupSpec /\ group = "moving" => Moves!Spec /\ [](group = "moving")
<1>1. GroupInit /\ group = "moving" => Moves!Init
  BY SameMoves DEF GroupInit
<1>2. [GroupNext]_<<group, missed, vars>> /\ group = "moving" =>
        (group = "moving")' /\ [Moves!Next]_(Moves!vars)
  BY SameMoves DEF GroupNext, vars, Moves!vars
<1> QED
  BY <1>1, <1>2, PTL DEF GroupSpec, Moves!Spec

(* The same of the group that claims.                                         *)
LEMMA ClaimingBehaves == GroupSpec /\ group = "claiming" => Claims!Spec /\ [](group = "claiming")
<1>1. GroupInit /\ group = "claiming" => Claims!Init
  BY SameClaims DEF GroupInit
<1>2. [GroupNext]_<<group, missed, vars>> /\ group = "claiming" =>
        (group = "claiming")' /\ [Claims!Next]_(Claims!vars)
  BY SameClaims DEF GroupNext, vars, Claims!vars
<1> QED
  BY <1>1, <1>2, PTL DEF GroupSpec, Claims!Spec

(* A behaviour is of one of the groups throughout. *)
LEMMA OneGroup ==
  GroupSpec => \/ group = "moving"
               \/ group = "claiming"
               \/ [](group \in {"writing", "crossing"})
<1>1. GroupInit => group = "moving" \/ group = "claiming" \/ group \in {"writing", "crossing"}
  BY DEF GroupInit
<1>2. [GroupNext]_<<group, missed, vars>> /\ group \in {"writing", "crossing"}
        => (group \in {"writing", "crossing"})'
  BY DEF GroupNext, vars
<1> QED
  BY <1>1, <1>2, PTL DEF GroupSpec

(* The instance that moves a task meets what TaskService assumes of its       *)
(* constants.                                                                 *)
LEMMA MovesMeet ==
  /\ \A w \in Moves!WorkflowName : Moves!WellFormedGraph(Graph[w])
  /\ \A c \in TransitionCalls : /\ c.op \in Moves!Op
                                /\ Moves!ValidArg(c.op, c.arg)
                                /\ c.op # "create_task" => c.task \in Task
                                /\ c.task \in Task \cup {Nil}
  /\ /\ DOMAIN OneTask \subseteq Task
     /\ \A id \in DOMAIN OneTask : /\ OneTask[id].workflow \in Moves!WorkflowName
                                   /\ OneTask[id].governor \in Task \cup {Nil}
  /\ /\ MaxCalls \in Nat
     /\ Nil \notin Req
<1>1. \A w \in Moves!WorkflowName : Moves!WellFormedGraph(Graph[w])
  BY GraphAssumption
     DEF Moves!WorkflowName, WorkflowName, Moves!WellFormedGraph, WellFormedGraph,
         Moves!Complete, Complete, Moves!Dropped, Dropped
<1>2. ASSUME NEW c \in TransitionCalls
      PROVE  /\ c.op \in Moves!Op
             /\ Moves!ValidArg(c.op, c.arg)
             /\ c.op # "create_task" => c.task \in Task
             /\ c.task \in Task \cup {Nil}
  BY InstanceAssumption
     DEF TransitionCalls, CallOf, Moves!Op, Moves!TaskLockedOp, Moves!TransitionOp, Moves!ValidArg
<1>3. /\ DOMAIN OneTask \subseteq Task
      /\ \A id \in DOMAIN OneTask : /\ OneTask[id].workflow \in Moves!WorkflowName
                                    /\ OneTask[id].governor \in Task \cup {Nil}
  BY InstanceAssumption DEF OneTask, Moves!WorkflowName, WorkflowName
<1> QED
  BY <1>1, <1>2, <1>3, ConstantAssumption

(* So does the one that claims.                                               *)
LEMMA ClaimsMeet ==
  /\ \A w \in Claims!WorkflowName : Claims!WellFormedGraph(Graph[w])
  /\ \A c \in ClaimCalls : /\ c.op \in Claims!Op
                           /\ Claims!ValidArg(c.op, c.arg)
                           /\ c.op # "create_task" => c.task \in Task
                           /\ c.task \in Task \cup {Nil}
  /\ /\ DOMAIN TwoTasks \subseteq Task
     /\ \A id \in DOMAIN TwoTasks : /\ TwoTasks[id].workflow \in Claims!WorkflowName
                                    /\ TwoTasks[id].governor \in Task \cup {Nil}
  /\ /\ MaxCalls \in Nat
     /\ Nil \notin Req
<1>1. \A w \in Claims!WorkflowName : Claims!WellFormedGraph(Graph[w])
  BY GraphAssumption
     DEF Claims!WorkflowName, WorkflowName, Claims!WellFormedGraph, WellFormedGraph,
         Claims!Complete, Complete, Claims!Dropped, Dropped
<1>2. ASSUME NEW c \in ClaimCalls
      PROVE  /\ c.op \in Claims!Op
             /\ Claims!ValidArg(c.op, c.arg)
             /\ c.op # "create_task" => c.task \in Task
             /\ c.task \in Task \cup {Nil}
  BY InstanceAssumption
     DEF ClaimCalls, CallOf, Claims!Op, Claims!GraphLockedOp, Claims!TransitionOp,
         Claims!ValidArg
<1>3. /\ DOMAIN TwoTasks \subseteq Task
      /\ \A id \in DOMAIN TwoTasks : /\ TwoTasks[id].workflow \in Claims!WorkflowName
                                     /\ TwoTasks[id].governor \in Task \cup {Nil}
  BY InstanceAssumption DEF TwoTasks, Claims!WorkflowName, WorkflowName
<1> QED
  BY <1>1, <1>2, <1>3, ConstantAssumption

(* No call of either saves without a lock or creates a review task under a    *)
(* governor, and no task is a review at the start.                            *)
LEMMA WhatTheyCall ==
  /\ \A c \in TransitionCalls : c.op \notin Moves!UnlockedOp
  /\ \A c \in TransitionCalls : (c.op = "create_task" /\ c.arg.workflow = Moves!ReviewWorkflow)
                                  => c.arg.governor = Nil
  /\ \A id \in DOMAIN OneTask : OneTask[id].workflow # Moves!ReviewWorkflow
  /\ \A c \in ClaimCalls : c.op \notin Claims!UnlockedOp
  /\ \A c \in ClaimCalls : (c.op = "create_task" /\ c.arg.workflow = Claims!ReviewWorkflow)
                             => c.arg.governor = Nil
  /\ \A id \in DOMAIN TwoTasks : TwoTasks[id].workflow # Claims!ReviewWorkflow
<1>1. /\ \A c \in TransitionCalls : c.op \notin Moves!UnlockedOp
      /\ \A c \in TransitionCalls : c.op # "create_task"
  BY DEF TransitionCalls, CallOf, Moves!Op, Moves!TaskLockedOp, Moves!TransitionOp,
         Moves!UnlockedOp
<1>2. \A c \in ClaimCalls : c.op \notin Claims!UnlockedOp
  BY DEF ClaimCalls, CallOf, Claims!GraphLockedOp, Claims!TransitionOp, Claims!UnlockedOp
<1>3. ASSUME NEW c \in ClaimCalls, c.op = "create_task", c.arg.workflow = Claims!ReviewWorkflow
      PROVE  c.arg.governor = Nil
  BY <1>3 DEF ClaimCalls, CallOf, Claims!ReviewWorkflow
<1>4. /\ \A id \in DOMAIN OneTask : OneTask[id].workflow # Moves!ReviewWorkflow
      /\ \A id \in DOMAIN TwoTasks : TwoTasks[id].workflow # Claims!ReviewWorkflow
  BY DEF OneTask, TwoTasks, Moves!ReviewWorkflow, Claims!ReviewWorkflow
<1> QED
  BY <1>1, <1>2, <1>3, <1>4

-----------------------------------------------------------------------------
(* Histories *)

(* What the theorems about an instance say is what the run checks.            *)
LEMMA SameHistories ==
  /\ Moves!StateMatchesTail /\ Moves!HistoryIsPath /\ Moves!LeftPromisesResolved
       /\ Moves!ReviewPerEntry
     => StateMatchesTail /\ HistoryIsPath /\ LeftPromisesResolved /\ ReviewPerEntry
  /\ Claims!StateMatchesTail /\ Claims!HistoryIsPath /\ Claims!LeftPromisesResolved
       /\ Claims!ReviewPerEntry
     => StateMatchesTail /\ HistoryIsPath /\ LeftPromisesResolved /\ ReviewPerEntry
<1>1. (Moves!StateMatchesTail <=> StateMatchesTail) /\ (Claims!StateMatchesTail <=> StateMatchesTail)
  BY DEF Moves!StateMatchesTail, Claims!StateMatchesTail, StateMatchesTail,
         Moves!Consistent, Claims!Consistent, Consistent,
         Moves!CurrentEntry, Claims!CurrentEntry, CurrentEntry
<1>2. (Moves!HistoryIsPath <=> HistoryIsPath) /\ (Claims!HistoryIsPath <=> HistoryIsPath)
  BY DEF Moves!HistoryIsPath, Claims!HistoryIsPath, HistoryIsPath, Moves!Last, Claims!Last, Last
<1>3. /\ Moves!LeftPromisesResolved <=> LeftPromisesResolved
      /\ Claims!LeftPromisesResolved <=> LeftPromisesResolved
  BY DEF Moves!LeftPromisesResolved, Claims!LeftPromisesResolved, LeftPromisesResolved,
         Moves!Last, Claims!Last, Last, Moves!Outstanding, Claims!Outstanding, Outstanding,
         Moves!Dropped, Claims!Dropped, Dropped
<1>4. (Moves!ReviewPerEntry <=> ReviewPerEntry) /\ (Claims!ReviewPerEntry <=> ReviewPerEntry)
  BY DEF Moves!ReviewPerEntry, Claims!ReviewPerEntry, ReviewPerEntry,
         Moves!ReviewsOf, Claims!ReviewsOf, ReviewsOf,
         Moves!ReviewEntries, Claims!ReviewEntries, ReviewEntries,
         Moves!SavingReview, Claims!SavingReview, SavingReview,
         Moves!ReviewWorkflow, Claims!ReviewWorkflow, ReviewWorkflow,
         Moves!Last, Claims!Last, Last, Moves!Target, Claims!Target, Target,
         Moves!Cardinality, Claims!Cardinality, Cardinality
<1> QED
  BY <1>1, <1>2, <1>3, <1>4

(* Where nothing dies half way and nothing is saved without a lock, the       *)
(* state is the history's last entry, a history is a path of the graph, what  *)
(* was left is settled and an entry into REVIEW makes one review child (the   *)
(* conjuncts of OrderlyHistory; service.py _commit_transition and             *)
(* _create_review_task_on_entry under both locks).                            *)
THEOREM HistoriesAreOrderly == GroupSpec => []OrderlyHistory
<1>1. Moves!Spec => []Moves!StateMatchesTail
  BY Moves!LocksKeepTail, MovesMeet, WhatTheyCall
<1>2. Moves!Spec => [](Moves!HistoryIsPath /\ Moves!LeftPromisesResolved)
  BY Moves!LocksKeepPath, MovesMeet, WhatTheyCall
<1>3. Moves!Spec => []Moves!ReviewPerEntry
  BY Moves!ReviewsHaveEntries, MovesMeet, WhatTheyCall
<1>4. Claims!Spec => []Claims!StateMatchesTail
  BY Claims!LocksKeepTail, ClaimsMeet, WhatTheyCall
<1>5. Claims!Spec => [](Claims!HistoryIsPath /\ Claims!LeftPromisesResolved)
  BY Claims!LocksKeepPath, ClaimsMeet, WhatTheyCall
<1>6. Claims!Spec => []Claims!ReviewPerEntry
  BY Claims!ReviewsHaveEntries, ClaimsMeet, WhatTheyCall
<1>7. /\ StateMatchesTail /\ HistoryIsPath /\ LeftPromisesResolved /\ ReviewPerEntry
           => OrderlyHistory
      /\ group \in {"writing", "crossing"} => OrderlyHistory
  BY DEF OrderlyHistory
<1> QED
  BY <1>1, <1>2, <1>3, <1>4, <1>5, <1>6, <1>7, SameHistories,
     MovingBehaves, ClaimingBehaves, OneGroup, PTL
==============================================================================

----------------------------- MODULE MCRecovery -----------------------------
(* One host over one task, under one of three sets of disturbances; a        *)
(* behaviour meets one of the sets (`trouble`).                               *)
EXTENDS MCRunnerFleet

VARIABLE trouble

Retrying == INSTANCE RunnerFleet WITH Allowance <- RetryFaults
Crashing == INSTANCE RunnerFleet WITH Allowance <- CrashFaults

TroubleInit == trouble \in {"retry", "recover", "crash"} /\ Init

TroubleNext ==
  /\ \/ trouble = "recover" /\ Next
     \/ trouble = "retry" /\ Retrying!Next
     \/ trouble = "crash" /\ Crashing!Next
  /\ UNCHANGED trouble

Pass(h) == \/ trouble = "recover" /\ HostStep(h)
           \/ trouble = "retry" /\ Retrying!HostStep(h)
           \/ trouble = "crash" /\ Crashing!HostStep(h)

TroubleFairness ==
  \A h \in Hosts :
    /\ WF_vars(Pass(h))
    /\ WF_vars(GoOnline(h))
    /\ WF_vars(DockerReturns(h))
    /\ \A t \in Tasks : WF_vars(Link(h, t))

TroubleSpec == TroubleInit /\ [][TroubleNext]_<<trouble, vars>> /\ TroubleFairness
=============================================================================

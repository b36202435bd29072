--------------------------- MODULE MCRunnerFleet ---------------------------
(* The disturbances that a fleet meets in each run. *)
EXTENDS RunnerFleet, TLC

CONSTANTS h1, h2, t1

Times(f) == f @@ [d \in Disturbances |-> 0]

(* Launches fail before there is a session, slowly or at rest, and what the   *)
(* service remembers of them is lost.                                         *)
RetryFaults == Times("build" :> 4 @@ "slow" :> 2 @@ "rest" :> 1 @@ "service" :> 1
                     @@ "flicker" :> 1 @@ "host" :> 1)

(* Sessions, Docker, the machine and the service fail; the operator releases, *)
(* retries and finishes.                                                      *)
RecoveryFaults == Times("session" :> 1 @@ "docker" :> 1 @@ "reboot" :> 1 @@ "service" :> 1
                        @@ "hold" :> 1 @@ "release" :> 1 @@ "retry" :> 1 @@ "finish" :> 1)

(* Sessions are lost over and over, more often than the cap allows for, while *)
(* Docker comes and goes and a launch fails.                                  *)
CrashFaults == Times("session" :> 4 @@ "docker" :> 2 @@ "build" :> 1
                     @@ "slow" :> 1)

(* Those that a disagreement with the documents needs. *)
RebootFaults == Times("reboot" :> 1)
RestFaults   == Times("session" :> 4 @@ "rest" :> 1)
=============================================================================

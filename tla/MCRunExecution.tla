--------------------------- MODULE MCRunExecution ---------------------------
(***************************************************************************)
(* Instances of RunExecution for TLC, and what the repository says of runs *)
(* that the code does not do.                                              *)
(***************************************************************************)
EXTENDS RunExecution, TLC

Symmetry == Permutations(Run) \cup Permutations(Worker)

(* run_mc_execute: "Execute run with deterministic engine + MC; store      *)
(* results and update run status": a task that was delivered changes the   *)
(* status of its run.                                                      *)
DeliveredRunsLeaveQueued ==
    \A r \in Run : InFlight(r) ~> status[r] # "queued"

(* The same sentence: the results of a run that has succeeded are stored.  *)
StoresResults == SucceededHasResults
=============================================================================

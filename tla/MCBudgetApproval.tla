-------------------------- MODULE MCBudgetApproval --------------------------
(***************************************************************************)
(* Instances of BudgetApproval for TLC, and what the user manual says of a *)
(* reforecast that the handler does not ensure.                            *)
(***************************************************************************)
EXTENDS BudgetApproval, TLC

Symmetry == Permutations(Req) \cup Permutations(Instance)

(* Reforecast: "The system copies the current budget into a reforecast     *)
(* version": the version that replaces the current one has its line items. *)
ReforecastCopiesCurrent ==
    [][budget'.current # budget.current
        => lines[budget.current] \subseteq lines'[budget'.current]]_vars
=============================================================================

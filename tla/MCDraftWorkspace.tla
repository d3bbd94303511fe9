-------------------------- MODULE MCDraftWorkspace --------------------------
(***************************************************************************)
(* Instances of DraftWorkspace for TLC, and what the user manual says of a *)
(* draft that the handlers do not ensure.                                  *)
(***************************************************************************)
EXTENDS DraftWorkspace, TLC

Symmetry == Permutations(Req) \cup Permutations(Proposal)

(* "Accepted proposals are immediately applied to the workspace            *)
(* assumptions. Rejected proposals are removed from the pending list."     *)
DecisionsStick == Decided
=============================================================================

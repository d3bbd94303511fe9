-------------------------- MODULE MCModelLifecycle --------------------------
(***************************************************************************)
(* Instances of ModelLifecycle for TLC.                                    *)
(***************************************************************************)
EXTENDS ModelLifecycle, TLC

Symmetry == Permutations(Req) \cup Permutations(Baseline)
                \cup Permutations(Draft) \cup Permutations(Changeset)
=============================================================================

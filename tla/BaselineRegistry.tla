-------------------------- MODULE BaselineRegistry --------------------------
(***************************************************************************)
(* What the baseline tables promise, with no transactions, locks or        *)
(* concurrent requests: a tenant has a set of baseline versions, at most   *)
(* one of which is the current one.  Publishing a version makes it current, *)
(* restoring makes an old one current, archiving retires some.             *)
(* docs/user-manual/10-baselines.md:95 states it; ModelLifecycle, which    *)
(* models the handlers, is shown to implement it.                          *)
(***************************************************************************)
CONSTANT Key            \* the versions a tenant could ever hold

VARIABLES versions,     \* the versions that exist
          current,      \* those that are is_active
          retired       \* those whose status is 'archived'

vars == <<versions, current, retired>>

Init == versions = {} /\ current = {} /\ retired = {}

(* A new version appears and is the only current one.                      *)
Publish(k) ==
    /\ k \notin versions
    /\ versions' = versions \cup {k}
    /\ current' = {k}
    /\ UNCHANGED retired

(* An existing version becomes the only current one again.                 *)
Restore(k) ==
    /\ k \in versions
    /\ current' = {k}
    /\ retired' = retired \ {k}
    /\ UNCHANGED versions

(* Existing versions are retired.                                          *)
Archive(S) ==
    /\ S \subseteq versions
    /\ current' = current \ S
    /\ retired' = retired \cup S
    /\ UNCHANGED versions

(* A restore of a baseline id that does not exist: patch_baseline does not *)
(* look for it, so that the tenant is left without a current version.      *)
RestoreNothing == current' = {} /\ UNCHANGED <<versions, retired>>

Next == \/ RestoreNothing
        \/ \E k \in Key : Publish(k) \/ Restore(k)
        \/ \E S \in SUBSET Key : Archive(S)

Spec == Init /\ [][Next]_vars
=============================================================================

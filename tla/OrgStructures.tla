--------------------------- MODULE OrgStructures ---------------------------
(***************************************************************************)
(* An organisation structure, its entities and ownership links, and the    *)
(* consolidated runs made of it (routers/org_structures.py, migration      *)
(* 0045; the figures are in Consolidation).                                *)
(*                                                                         *)
(* One structure.  Requests hold no transaction across their statements    *)
(* except create_ownership, whose transaction locks nothing it reads: each *)
(* statement is a step.  An entity's baseline_id is a text the user gives: *)
(* None, the name of a stored model, or one that names none, as the bare   *)
(* id of a baseline does (models are stored by baseline and version).      *)
(***************************************************************************)
EXTENDS Integers, FiniteSets, FiniteSetsExt

CONSTANTS
    Entity, Req,
    Pct,            \* percentages that are entered
    MaxEdits,       \* requests of users altogether (bounds the run)
    None

VARIABLES
    entity,         \* org_entities: status and base, or None
    owned,          \* org_ownership_links: percentage by parent and child, or None
    exists,         \* the org_structures row
    run,            \* consolidated_runs: by the request that made it, or None
    results,        \* the runs whose consolidated_result is stored
    req,            \* requests in progress
    overlapped,     \* children whose creations of ownership overlapped
    edits

vars == <<entity, owned, exists, run, results, req, overlapped, edits>>
-----------------------------------------------------------------------------
Base == {None, "stored", "bare"}
EntityStatus == {"active", "dormant", "disposed"}
Link == {l \in Entity \X Entity : l[1] # l[2]}
Idle == [at |-> "idle"]

TypeOK ==
    /\ entity \in [Entity -> [status : EntityStatus, base : Base] \cup {None}]
    /\ owned \in [Link -> Pct \cup {None}]
    /\ exists \in BOOLEAN
    /\ \A r \in Req : run[r] = None \/ run[r].status \in {"running", "succeeded", "failed"}
    /\ results \subseteq Req
    /\ overlapped \subseteq Entity
    /\ edits \in 0..MaxEdits

Init ==
    /\ entity = [e \in Entity |-> None]
    /\ owned = [l \in Link |-> None]
    /\ exists = TRUE
    /\ run = [r \in Req |-> None]
    /\ results = {}
    /\ req = [r \in Req |-> Idle]
    /\ overlapped = {}
    /\ edits = 0

Edit == edits < MaxEdits /\ edits' = edits + 1
Parents(child) == {l \in DOMAIN owned : l[2] = child /\ owned[l] # None}
TotalOwned(links) == SumFunctionOnSet(owned, links)

(* The links of an entity go with it.                                      *)
WithoutEntities(gone) == [l \in DOMAIN owned |-> IF {l[1], l[2]} \cap gone # {} THEN None ELSE owned[l]]
-----------------------------------------------------------------------------
(* Faulty versions, which the properties tell from the ones below.         *)

(* The other parents count for nothing.                                    *)
OtherLinks_None(l) == {}

(* The row says succeeded before the result is stored.                     *)
SaveResult_Later(r) ==
    /\ run' = [run EXCEPT ![r].status = "succeeded"]
    /\ req' = [req EXCEPT ![r].at = "saving"]
    /\ UNCHANGED <<entity, owned, exists, results, overlapped, edits>>
-----------------------------------------------------------------------------
(* Structures and entities.                                                *)

create_entity(e) ==
    /\ Edit
    /\ exists
    /\ entity[e] = None
    /\ \E b \in Base : entity' = [entity EXCEPT ![e] = [status |-> "active", base |-> b]]
    /\ UNCHANGED <<owned, exists, run, results, req, overlapped>>

update_entity(e) ==
    /\ Edit
    /\ entity[e] # None
    /\ \/ \E s \in EntityStatus : entity' = [entity EXCEPT ![e].status = s]
       \/ \E b \in Base : entity' = [entity EXCEPT ![e].base = b]
    /\ UNCHANGED <<owned, exists, run, results, req, overlapped>>

delete_entity(e) ==
    /\ Edit
    /\ entity[e] # None
    /\ entity' = [entity EXCEPT ![e] = None]
    /\ owned' = WithoutEntities({e})
    /\ UNCHANGED <<exists, run, results, req, overlapped>>

(* Entities, links and runs go with the structure; results stay stored.    *)
delete_org_structure ==
    /\ Edit
    /\ exists
    /\ exists' = FALSE
    /\ entity' = [e \in Entity |-> None]
    /\ owned' = [l \in Link |-> None]
    /\ run' = [r \in Req |-> None]
    /\ UNCHANGED <<results, req, overlapped>>

delete_ownership(l) ==
    /\ Edit
    /\ owned[l] # None
    /\ owned' = [owned EXCEPT ![l] = None]
    /\ UNCHANGED <<entity, exists, run, results, req, overlapped>>
-----------------------------------------------------------------------------
(* create_ownership: the other parents' percentages are added up, then the *)
(* link is inserted or replaced.  The insert fails for an entity that is   *)
(* not there.                                                              *)

OtherLinks(l) == {k \in Parents(l[2]) : k # l}

create_ownership(r, l) ==
    /\ Edit
    /\ req[r] = Idle
    /\ \E pct \in Pct :
         /\ TotalOwned(OtherLinks(l)) + pct <= 100
         /\ req' = [req EXCEPT ![r] = [at |-> "owning", link |-> l, pct |-> pct]]
    /\ overlapped' = overlapped \cup
         {c \in {l[2]} : \E q \in Req : req[q].at = "owning" /\ req[q].link[2] = c}
    /\ UNCHANGED <<entity, owned, exists, run, results>>

InsertOwnership(r) ==
    /\ req[r].at = "owning"
    /\ LET l == req[r].link IN
       owned' = IF entity[l[1]] = None \/ entity[l[2]] = None THEN owned
                ELSE [owned EXCEPT ![l] = req[r].pct]
    /\ req' = [req EXCEPT ![r] = Idle]
    /\ UNCHANGED <<entity, exists, run, results, overlapped, edits>>
-----------------------------------------------------------------------------
(* trigger_consolidated_run: structure and entities, then links, are read  *)
(* and the row is inserted.                                                *)

ReadEntities(r) ==
    /\ Edit
    /\ exists /\ req[r] = Idle /\ run[r] = None /\ r \notin results
    /\ \E e \in Entity : entity[e] # None /\ entity[e].status = "active"
    /\ req' = [req EXCEPT ![r] = [at |-> "reading", base |->
            [e \in {x \in Entity : entity[x] # None /\ entity[x].status = "active"} |-> entity[e].base]]]
    /\ UNCHANGED <<entity, owned, exists, run, results, overlapped>>

(* Of several owners the one with most counts; an entity without one is    *)
(* the group's own.                                                        *)
ShareOf(e) == IF Parents(e) = {} THEN 100 ELSE Max({owned[l] : l \in Parents(e)})

(* The insert fails when the structure is gone.                            *)
ReadLinks(r) ==
    /\ req[r].at = "reading"
    /\ IF exists
       THEN /\ req' = [req EXCEPT ![r] = [at |-> "computing", base |-> req[r].base,
                            share |-> [e \in DOMAIN req[r].base |-> ShareOf(e)]]]
            /\ run' = [run EXCEPT ![r] = [status |-> "running", used |-> <<>>]]
       ELSE req' = [req EXCEPT ![r] = Idle] /\ UNCHANGED run
    /\ UNCHANGED <<entity, owned, exists, results, overlapped, edits>>

(* A model that is not stored raises a StorageError, which is not one of   *)
(* the errors the loading loop goes on after: the run fails.               *)
Loadable(r) == {e \in DOMAIN req[r].base : req[r].base[e] = "stored"}
Raises(r) == \E e \in DOMAIN req[r].base : req[r].base[e] = "bare"

SaveResult(r) ==
    /\ results' = results \cup {r}
    /\ req' = [req EXCEPT ![r].at = "saving"]
    /\ UNCHANGED <<entity, owned, exists, run, overlapped, edits>>

Compute(r) ==
    /\ req[r].at = "computing"
    /\ ~Raises(r) /\ Loadable(r) # {}
    /\ SaveResult(r)

UpdateRun(r, status, used) ==
    run' = IF run[r] = None THEN run ELSE [run EXCEPT ![r] = [status |-> status, used |-> used]]

Succeed(r) ==
    /\ req[r].at = "saving"
    /\ UpdateRun(r, "succeeded", [e \in Loadable(r) |-> req[r].share[e]])
    /\ req' = [req EXCEPT ![r] = Idle]
    /\ UNCHANGED <<entity, owned, exists, results, overlapped, edits>>

(* Nothing to consolidate, a model that cannot be loaded or computed, or a *)
(* store that fails.                                                       *)
FailRun(r) ==
    /\ req[r].at = "computing"
    /\ UpdateRun(r, "failed", <<>>)
    /\ req' = [req EXCEPT ![r] = Idle]
    /\ UNCHANGED <<entity, owned, exists, results, overlapped, edits>>

(* The server stops: requests in progress end, and a run stays running.    *)
Crash ==
    /\ \E r \in Req : req[r] # Idle
    /\ req' = [r \in Req |-> Idle]
    /\ UNCHANGED <<entity, owned, exists, run, results, overlapped, edits>>
-----------------------------------------------------------------------------
Next ==
    \/ \E e \in Entity : create_entity(e) \/ update_entity(e) \/ delete_entity(e)
    \/ delete_org_structure
    \/ \E l \in Link : delete_ownership(l) \/ \E r \in Req : create_ownership(r, l)
    \/ \E r \in Req : InsertOwnership(r) \/ ReadEntities(r) \/ ReadLinks(r)
                      \/ Compute(r) \/ Succeed(r) \/ FailRun(r)
    \/ Crash

Spec == Init /\ [][Next]_vars
-----------------------------------------------------------------------------
(* No entity is owned for more than the whole (the check of                *)
(* create_ownership), unless two requests gave it owners at the same time, *)
(* each before it could see the other's.                                   *)
OwnedAtMostWhole ==
    \A c \in Entity : TotalOwned(Parents(c)) <= 100 \/ c \in overlapped

(* A consolidated run that says it succeeded has its result stored and     *)
(* counts at least one entity, each with more than nothing and at most     *)
(* whole, whatever was edited or deleted while it was computed.            *)
SucceededHasResult ==
    \A r \in Req : run[r] # None /\ run[r].status = "succeeded" =>
        /\ r \in results
        /\ DOMAIN run[r].used # {}
        /\ \A e \in DOMAIN run[r].used : run[r].used[e] \in 1..100
=============================================================================

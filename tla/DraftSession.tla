---------------------------- MODULE DraftSession ----------------------------
(***************************************************************************)
(* What a draft promises its clients, with no locks, copies of the         *)
(* workspace or requests in flight: a chat's answer, a decision, an edit   *)
(* and a commit are one step each, on the workspace as it is, and a        *)
(* proposal is decided once.  After a loss (of a connection, of an upload) *)
(* the workspace may be any, but the status goes on as the table says and  *)
(* a draft is still published once.  DraftWorkspace, which models the      *)
(* handlers of routers/drafts.py, is shown to implement it.                *)
(***************************************************************************)
EXTENDS Naturals, Sequences

CONSTANT Proposal       \* the proposals a draft could ever have

VARIABLES
    state,              \* where the draft is
    document,           \* its workspace
    decided,            \* the proposals somebody accepted or rejected
    published,          \* the workspaces that became baselines
    broken              \* something has been lost

vars == <<state, document, decided, published, broken>>

Document == [assumptions : SUBSET Proposal, pending : SUBSET Proposal, turns : Nat]

Moves == {<<"active", "ready_to_commit">>, <<"ready_to_commit", "active">>,
          <<"ready_to_commit", "committed">>,
          <<"active", "abandoned">>, <<"ready_to_commit", "abandoned">>}

Init ==
    /\ state = "active"
    /\ document = [assumptions |-> {}, pending |-> {}, turns |-> 0]
    /\ decided = {} /\ published = <<>> /\ broken = FALSE

(* The model answers a turn of an active draft, with new proposals P.      *)
Answer(P) ==
    /\ state = "active"
    /\ P \cap (document.pending \cup decided) = {}
    /\ document' = [document EXCEPT !.pending = @ \cup P, !.turns = @ + 1]
    /\ UNCHANGED decided

(* A pending proposal is accepted or rejected, once.                       *)
Decide(p) ==
    /\ p \in document.pending /\ p \notin decided
    /\ decided' = decided \cup {p}
    /\ \/ document' = [document EXCEPT !.assumptions = @ \cup {p}, !.pending = @ \ {p}]
       \/ document' = [document EXCEPT !.pending = @ \ {p}]

(* A client replaces the assumptions.                                      *)
Edit(A) ==
    /\ document' = [document EXCEPT !.assumptions = A]
    /\ UNCHANGED decided

Work ==
    /\ ~broken /\ ~broken'
    /\ \/ \E P \in SUBSET Proposal : Answer(P) \/ Edit(P)
       \/ \E p \in Proposal : Decide(p)
    /\ UNCHANGED <<state, published>>

(* A draft is moved along the table, also to committed without a baseline. *)
Mark(s) ==
    /\ <<state, s>> \in Moves
    /\ state' = s
    /\ UNCHANGED <<document, decided, published, broken>>

(* The workspace becomes a baseline, and the draft is over.                *)
Publish ==
    /\ state = "ready_to_commit" /\ state' = "committed"
    /\ published = <<>>
    /\ published' \in Seq(Document) /\ Len(published') = 1
    /\ ~broken => published' = <<document>>
    /\ UNCHANGED <<document, decided, broken>>

(* Something is or was lost, and the workspace may be any.                 *)
Lose ==
    /\ broken' = TRUE
    /\ document' \in Document /\ decided \subseteq decided'
    /\ UNCHANGED <<state, published>>

Next == \/ Work \/ Publish \/ Lose
        \/ \E s \in {"active", "ready_to_commit", "committed", "abandoned"} : Mark(s)

Spec == Init /\ [][Next]_vars
=============================================================================

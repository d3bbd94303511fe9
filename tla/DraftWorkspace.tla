--------------------------- MODULE DraftWorkspace ---------------------------
(***************************************************************************)
(* The workspace of one draft session (routers/drafts.py): a document in   *)
(* the artifact store that chat, accept, reject, PATCH and commit load,    *)
(* change and save whole, each under SELECT ... FOR UPDATE of the draft's  *)
(* row.  draft_chat awaits the language model between its load and its     *)
(* save, with the transaction open; the others do not await in between.    *)
(*                                                                         *)
(* A row lock belongs to a database connection.  If the connection is lost *)
(* the server frees the lock at once, and the handler finds out at its     *)
(* next statement, which for these handlers is the COMMIT after the save.  *)
(*                                                                         *)
(* Assumptions are abstracted to the proposals in force in them: accepting *)
(* one puts it there, a PATCH replaces them as the client likes.           *)
(***************************************************************************)
EXTENDS Naturals, Sequences

CONSTANTS
    Req,            \* requests that may be in flight together
    Proposal,       \* proposal ids uuid4 may produce (bounds the run)
    MaxTurns,       \* chat turns of the draft (bounds the run)
    LoseConnections,\* TRUE: the server may lose a connection at any time
    LoseUploads,    \* TRUE: the upload of a saved document may fail
    Nobody          \* nobody holds the row lock

ASSUME WorkspaceConstants ==
    /\ MaxTurns \in Nat
    /\ LoseConnections \in BOOLEAN /\ LoseUploads \in BOOLEAN
    /\ Nobody \notin Req

VARIABLES
    status,         \* draft_sessions.status
    ws,             \* the document in the store
    lock,           \* the request whose connection holds the row lock
    req,            \* per request: operation, place, copy it loaded, argument
    offered,        \* proposals a chat has saved as pending (history)
    accepted,       \* proposals an accept has saved (history)
    rejected,       \* proposals a reject has saved (history)
    chats,          \* chats that have saved (history)
    compiled,       \* the workspaces commit_draft published (history)
    faulty          \* a connection or an upload has been lost (history)

vars == <<status, ws, lock, req, offered, accepted, rejected, chats, compiled, faulty>>
decisions == <<accepted, rejected>>
-----------------------------------------------------------------------------
DraftStatus == {"active", "ready_to_commit", "committed", "abandoned"}
Terminal == {"committed", "abandoned"}

VALID_TRANSITIONS ==
    [s \in DraftStatus |->
        CASE s = "active"          -> {"ready_to_commit", "abandoned"}
          [] s = "ready_to_commit" -> {"active", "committed", "abandoned"}
          [] OTHER                 -> {}]

Workspace == [assumptions : SUBSET Proposal, pending : SUBSET Proposal,
              turns : 0 .. MaxTurns]
Empty == [assumptions |-> {}, pending |-> {}, turns |-> 0]

Ops == {"none", "chat", "accept", "reject", "patch", "commit_draft"}
Pcs == {"idle", "lock", "model", "compile", "commit"}

\* arg: the proposal to decide, or the assumptions a PATCH brings;
\* to: the status the transaction sets, "" for none.
Request == [op : Ops, pc : Pcs, copy : Workspace, arg : SUBSET Proposal,
            to : DraftStatus \cup {""}]
NoRequest == [op |-> "none", pc |-> "idle", copy |-> Empty, arg |-> {}, to |-> ""]

Init ==
    /\ status = "active" /\ ws = Empty /\ lock = Nobody
    /\ req = [r \in Req |-> NoRequest]
    /\ offered = {} /\ accepted = {} /\ rejected = {} /\ chats = 0
    /\ compiled = <<>> /\ faulty = FALSE

(* What a transaction that is over leaves: its lock is free.               *)
Ends(r) ==
    /\ req' = [req EXCEPT ![r] = NoRequest]
    /\ lock' = IF lock = r THEN Nobody ELSE lock

Rollback(r) ==
    Ends(r) /\ UNCHANGED <<status, ws, faulty, offered, decisions, chats, compiled>>

Starts(r, op, arg, to) ==
    /\ req[r].pc = "idle"
    /\ req' = [req EXCEPT ![r] = [op |-> op, pc |-> "lock", copy |-> Empty,
                                   arg |-> arg, to |-> to]]
    /\ UNCHANGED <<status, ws, faulty, lock, offered, decisions, chats, compiled>>

(* SELECT ... FOR UPDATE returns.                                          *)
Locks(r, op) ==
    /\ req[r].op = op /\ req[r].pc = "lock"
    /\ lock = Nobody

(* ArtifactStore.save, COMMIT is next.  When the upload fails the document *)
(* goes to the process's memory, and load goes on to find the bucket's.    *)
Saves(r, w) ==
    /\ \/ ws' = w /\ UNCHANGED faulty
       \/ LoseUploads /\ faulty' = TRUE /\ UNCHANGED ws
    /\ req' = [req EXCEPT ![r].pc = "commit"]
-----------------------------------------------------------------------------
(* Faulty handlers, which the properties tell from the ones below.         *)

(* draft_chat without FOR UPDATE.                                          *)
ChatLoads_NoForUpdate(r) ==
    /\ req[r].op = "chat" /\ req[r].pc = "lock" /\ status = "active"
    /\ req' = [req EXCEPT ![r].pc = "model", ![r].copy = ws]
    /\ UNCHANGED <<status, ws, faulty, lock, offered, decisions, chats, compiled>>

(* A chat that keeps the proposals of its own turn only.                   *)
ModelAnswers_Replaces(r, P) ==
    /\ req[r].pc = "model" /\ chats < MaxTurns
    /\ Saves(r, [req[r].copy EXCEPT !.pending = P, !.turns = @ + 1])
    /\ offered' = offered \cup P
    /\ chats' = chats + 1
    /\ UNCHANGED <<status, lock, decisions, compiled>>

(* A COMMIT that another connection would carry out.                       *)
Commit_NewConnection(r) ==
    /\ req[r].pc = "commit" /\ lock \in {r, Nobody}
    /\ Ends(r)
    /\ status' = IF req[r].to = "" THEN status ELSE req[r].to
    /\ compiled' = IF req[r].op = "commit_draft"
                   THEN Append(compiled, req[r].copy) ELSE compiled
    /\ UNCHANGED <<ws, faulty, offered, decisions, chats>>
-----------------------------------------------------------------------------
(* draft_chat takes the lock, wants an active draft, loads the workspace   *)
(* and asks the model.                                                     *)
ChatLoads(r) ==
    /\ Locks(r, "chat")
    /\ \/ /\ status = "active"
          /\ lock' = r
          /\ req' = [req EXCEPT ![r].pc = "model", ![r].copy = ws]
          /\ UNCHANGED <<status, ws, faulty, offered, decisions, chats, compiled>>
       \/ status # "active" /\ Rollback(r)                          \* 409

(* The model's answer: its valid proposals get ids of their own and join   *)
(* the copy's pending ones, the turn is logged, the copy is saved.         *)
ModelAnswers(r, P) ==
    /\ req[r].pc = "model" /\ chats < MaxTurns
    /\ Saves(r, [req[r].copy EXCEPT !.pending = @ \cup P, !.turns = @ + 1])
    /\ offered' = offered \cup P
    /\ chats' = chats + 1
    /\ UNCHANGED <<status, lock, decisions, compiled>>

(* No answer, quota or provider error, timeout: 429 or 503.                *)
ModelFails(r) == req[r].pc = "model" /\ Rollback(r)

(* accept_proposal: the path is set and the proposal leaves the list; 404  *)
(* without it, 422 when the path does not apply.  No look at the status.   *)
accept_proposal(r) ==
    /\ Locks(r, "accept")
    /\ \/ /\ req[r].arg \subseteq ws.pending
          /\ lock' = r
          /\ Saves(r, [ws EXCEPT !.assumptions = @ \cup req[r].arg,
                                 !.pending = @ \ req[r].arg])
          /\ accepted' = accepted \cup req[r].arg
          /\ UNCHANGED <<status, offered, rejected, chats, compiled>>
       \/ Rollback(r)

reject_proposal(r) ==
    /\ Locks(r, "reject")
    /\ \/ /\ req[r].arg \subseteq ws.pending
          /\ lock' = r
          /\ Saves(r, [ws EXCEPT !.pending = @ \ req[r].arg])
          /\ rejected' = rejected \cup req[r].arg
          /\ UNCHANGED <<status, offered, accepted, chats, compiled>>
       \/ ~(req[r].arg \subseteq ws.pending) /\ Rollback(r)         \* 404

(* patch_draft: 410 when the draft is over, 409 outside the table, then    *)
(* the status of the row and the keys of the document that the body names; *)
(* pending proposals and chat history are not among them.                  *)
patch_draft(r) ==
    /\ Locks(r, "patch")
    /\ \/ /\ status \notin Terminal
          /\ req[r].to \in VALID_TRANSITIONS[status] \cup {""}
          /\ lock' = r
          /\ \/ Saves(r, [ws EXCEPT !.assumptions = req[r].arg])
             \/ /\ req' = [req EXCEPT ![r].pc = "commit"]   \* no workspace in the body
                /\ UNCHANGED <<ws, faulty>>
          /\ UNCHANGED <<status, offered, decisions, chats, compiled>>
       \/ /\ \/ status \in Terminal
             \/ req[r].to \notin VALID_TRANSITIONS[status] \cup {""}
          /\ Rollback(r)

(* commit_draft compiles what it loads under the lock.  Its statements on  *)
(* the baseline tables are in ModelLifecycle; here they fail or succeed.   *)
CompileLoads(r) ==
    /\ Locks(r, "commit_draft")
    /\ \/ /\ status = "ready_to_commit"
          /\ lock' = r
          /\ req' = [req EXCEPT ![r].pc = "compile", ![r].copy = ws]
          /\ UNCHANGED <<status, ws, faulty, offered, decisions, chats, compiled>>
       \/ status # "ready_to_commit" /\ Rollback(r)                 \* 409

PublishBaseline(r) ==
    /\ req[r].pc = "compile" /\ lock = r
    /\ req' = [req EXCEPT ![r].pc = "commit", ![r].to = "committed"]
    /\ UNCHANGED <<status, ws, faulty, lock, offered, decisions, chats, compiled>>

(* COMMIT, which needs the connection: with it lost the status stays, and  *)
(* what was saved in the store stays too.                                  *)
Commit(r) ==
    /\ req[r].pc = "commit" /\ lock = r
    /\ Ends(r)
    /\ status' = IF req[r].to = "" THEN status ELSE req[r].to
    /\ compiled' = IF req[r].op = "commit_draft"
                   THEN Append(compiled, req[r].copy) ELSE compiled
    /\ UNCHANGED <<ws, faulty, offered, decisions, chats>>

CommitFails(r) == req[r].pc \in {"compile", "commit"} /\ lock # r /\ Rollback(r)

(* delete_draft: one guarded UPDATE, which waits for the lock.             *)
delete_draft ==
    /\ lock = Nobody /\ status \notin Terminal
    /\ status' = "abandoned"
    /\ UNCHANGED <<ws, faulty, lock, req, offered, decisions, chats, compiled>>

(* The server loses the connection of the request that holds the lock.     *)
LoseConnection ==
    /\ LoseConnections /\ lock # Nobody
    /\ lock' = Nobody
    /\ faulty' = TRUE
    /\ UNCHANGED <<status, ws, req, offered, decisions, chats, compiled>>

(* A save, a statement or the process fails before anything was saved.     *)
Fail(r) == req[r].pc \in {"lock", "model", "compile"} /\ Rollback(r)
-----------------------------------------------------------------------------
(* Ids nobody has been given.                                              *)
Fresh == Proposal \ (offered \cup accepted \cup rejected)

Arrive(r) ==
    \/ Starts(r, "chat", {}, "")
    \/ \E p \in offered : Starts(r, "accept", {p}, "") \/ Starts(r, "reject", {p}, "")
    \/ \E A \in SUBSET accepted, s \in DraftStatus \cup {""} : Starts(r, "patch", A, s)
    \/ Starts(r, "commit_draft", {}, "")

Step(r) ==
    \/ ChatLoads(r) \/ (\E P \in SUBSET Fresh : ModelAnswers(r, P)) \/ ModelFails(r)
    \/ accept_proposal(r) \/ reject_proposal(r) \/ patch_draft(r)
    \/ CompileLoads(r) \/ PublishBaseline(r) \/ Commit(r) \/ CommitFails(r)

Next ==
    \/ delete_draft \/ LoseConnection
    \/ \E r \in Req : Arrive(r) \/ Step(r) \/ Fail(r)

Spec == Init /\ [][Next]_vars
-----------------------------------------------------------------------------
TypeOK ==
    /\ status \in DraftStatus
    /\ ws \in Workspace
    /\ lock \in Req \cup {Nobody}
    /\ req \in [Req -> Request]
    /\ offered \subseteq Proposal
    /\ accepted \subseteq Proposal /\ rejected \subseteq Proposal
    /\ chats \in 0 .. MaxTurns
    /\ compiled \in Seq(Workspace)
    /\ faulty \in BOOLEAN

(* A proposal is decided once: no accept or reject is undone by a chat     *)
(* that was waiting for the model with an older copy of the workspace.     *)
(* This and the next three are promises of the lock and the store: they    *)
(* end with the first connection or upload that is lost.                   *)
Decided ==
    /\ accepted \cap rejected = {}
    /\ ws.pending \cap (accepted \cup rejected) = {}
DecidedOnce == ~faulty => Decided

(* Nothing a chat saved is lost: every proposal offered is pending or      *)
(* decided, and the history has every turn.                                *)
NothingLost ==
    ~faulty => /\ offered \subseteq ws.pending \cup accepted \cup rejected
               /\ ws.turns = chats

(* A chat changes an active draft only, although the status was read       *)
(* before the model answered.                                              *)
ChatOnlyWhileActive ==
    [][chats' # chats /\ ~faulty' => status = "active"]_vars

(* What commit_draft publishes is what the workspace holds at the moment   *)
(* the draft becomes committed.                                            *)
CompiledAsCommitted ==
    [][compiled' # compiled /\ ~faulty' => compiled' = <<ws>>]_vars

(* With connections and uploads lost at any point too, a draft is published*)
(* once, and by the commit that takes it from ready_to_commit to committed:*)
(* a transaction whose lock went with its connection changes no row.       *)
PublishedOnce ==
    [][compiled' # compiled =>
        compiled = <<>> /\ status = "ready_to_commit" /\ status' = "committed"]_vars
-----------------------------------------------------------------------------
(* The handlers, with their locks, copies and losses, implement the draft  *)
(* as its clients see it: what a chat, an accept, a reject or a PATCH does *)
(* it does in the step that saves, on the document as it is then, and      *)
(* commit_draft in the step that commits.                                  *)
Session == INSTANCE DraftSession
               WITH state <- status, document <- ws, decided <- accepted \cup rejected,
                    published <- compiled, broken <- faulty
ImplementsSession == Session!Spec
=============================================================================

------------------------ MODULE DraftWorkspaceProofs ------------------------
(***************************************************************************)
(* The inductive invariant of DraftWorkspace, and what follows from it for *)
(* any number of requests, proposals and chats: who holds the row lock has *)
(* the document in the store as its copy, and finds the status it read.    *)
(* Until a connection or an upload is lost nothing is lost, decided twice  *)
(* or published but what the workspace holds; publishing once needs no     *)
(* such condition.  At the end, DraftWorkspace implements DraftSession.    *)
(***************************************************************************)
EXTENDS DraftWorkspace, TLAPS

USE WorkspaceConstants

(* The place of a request fits its operation, and only commit_draft is     *)
(* about to publish.                                                       *)
Fits(q) ==
    /\ q.pc = "model" => q.op = "chat"
    /\ q.pc = "compile" => q.op = "commit_draft"
    /\ q.op \in {"chat", "accept", "reject"} => q.to = ""
    /\ q.op = "commit_draft" /\ q.pc = "lock" => q.to = ""
    /\ q.op = "commit_draft" /\ q.pc = "commit" => q.to = "committed"

(* What the holder of the lock relies on of the status it has read.        *)
FindsStatus(q, st) ==
    /\ q.pc = "model" => st = "active"
    /\ q.op = "commit_draft" /\ q.pc \in {"compile", "commit"} => st = "ready_to_commit"
    /\ q.pc = "commit" => q.to \in VALID_TRANSITIONS[st] \cup {""}

(* A request that is past its load is the holder, and has the document.    *)
HasDocument(q, r, holder, doc) ==
    /\ q.pc \in {"model", "compile", "commit"} => holder = r
    /\ q.pc \in {"model", "compile"} => q.copy = doc
    /\ q.pc = "commit" /\ q.op = "commit_draft" => q.copy = doc

Requests ==
    \A r \in Req :
        /\ Fits(req[r])
        /\ lock = r => FindsStatus(req[r], status)
        /\ ~faulty => HasDocument(req[r], r, lock, ws)
        /\ req[r].copy.turns <= chats

IInv ==
    /\ TypeOK
    /\ Requests
    /\ ws.turns <= chats
    /\ compiled # <<>> => status = "committed"
    /\ DecidedOnce
    /\ NothingLost
-----------------------------------------------------------------------------
(* A step of request r, which leaves it at q: the other requests keep what *)
(* they rely on, for what r may change it changes under the lock.          *)
LEMMA StepKeepsRequests ==
    ASSUME IInv, NEW r \in Req, NEW q \in Request,
           req' = [req EXCEPT ![r] = q],
           Fits(q), q.copy.turns <= chats',
           lock' = r => FindsStatus(q, status'),
           ~faulty' => ~faulty /\ HasDocument(q, r, lock', ws'),
           lock' \in {lock, r, Nobody},
           status' = status \/ lock' = Nobody,
           ~faulty' => (ws' = ws /\ lock' = lock) \/ lock \in {r, Nobody},
           chats' \in Nat, chats <= chats'
    PROVE  req' \in [Req -> Request] /\ Requests'
  <1>1. /\ req' \in [Req -> Request] /\ req'[r] = q
        /\ \A s \in Req : s # r => req'[s] = req[s]
    BY DEF IInv, TypeOK
  <1>2. ASSUME NEW s \in Req, s # r
        PROVE  /\ Fits(req[s])
               /\ lock' = s => FindsStatus(req[s], status')
               /\ ~faulty' => HasDocument(req[s], s, lock', ws')
               /\ req[s].copy.turns <= chats'
    <2>1. /\ Fits(req[s]) /\ (lock = s => FindsStatus(req[s], status))
          /\ ~faulty => HasDocument(req[s], s, lock, ws)
          /\ req[s].copy.turns <= chats
      BY DEF IInv, Requests
    <2>2. lock' = s => FindsStatus(req[s], status')
      BY <2>1, <1>2
    <2>3. ASSUME ~faulty' PROVE HasDocument(req[s], s, lock', ws')
      <3>1. CASE ws' = ws /\ lock' = lock
        BY <2>1, <2>3, <3>1
      <3>2. CASE lock \in {r, Nobody}
        BY <2>1, <2>3, <3>2, <1>2 DEF HasDocument
      <3>3. QED
        BY <2>3, <3>1, <3>2
    <2>4. req[s].copy.turns <= chats'
      <3>1. req[s].copy.turns \in 0 .. MaxTurns /\ chats \in 0 .. MaxTurns
        BY DEF IInv, TypeOK, Request, Workspace
      <3>2. QED
        BY <2>1, <3>1
    <2>5. QED
      BY <2>1, <2>2, <2>3, <2>4
  <1>3. ~faulty' => HasDocument(q, r, lock', ws')
    OBVIOUS
  <1>4. QED
    BY <1>1, <1>2, <1>3 DEF Requests

LEMMA EmptyFacts ==
    /\ Empty \in Workspace /\ Empty.turns = 0
    /\ NoRequest \in Request
    /\ NoRequest = [op |-> "none", pc |-> "idle", copy |-> Empty, arg |-> {}, to |-> ""]
  <1>1. Empty \in Workspace /\ Empty.turns = 0
    BY DEF Empty, Workspace
  <1>2. QED
    BY <1>1 DEF NoRequest, Request, Ops, Pcs

LEMMA InitHolds == Init => IInv
  <1> SUFFICES ASSUME Init PROVE IInv
    OBVIOUS
  <1>1. Empty \in Workspace /\ NoRequest \in Request
    BY EmptyFacts
  <1>2. TypeOK
    <2>1. compiled \in Seq(Workspace) /\ chats \in 0 .. MaxTurns
      BY DEF Init
    <2>2. req \in [Req -> Request] /\ ws \in Workspace /\ faulty \in BOOLEAN
      BY <1>1 DEF Init
    <2>3. QED
      BY <2>1, <2>2 DEF Init, TypeOK, DraftStatus
  <1>3. Requests
    <2>1. Fits(NoRequest) /\ NoRequest.copy.turns <= 0
      BY DEF NoRequest, Empty, Fits
    <2>2. \A r \in Req : HasDocument(NoRequest, r, lock, ws) /\ lock # r
      BY DEF Init, NoRequest, HasDocument
    <2>3. \A r \in Req : req[r] = NoRequest
      BY DEF Init
    <2>4. QED
      BY <2>1, <2>2, <2>3 DEF Init, Requests
  <1>4. ws.turns <= chats /\ DecidedOnce /\ NothingLost
    BY DEF Init, Empty, DecidedOnce, Decided, NothingLost
  <1>5. QED
    BY <1>2, <1>3, <1>4 DEF IInv, Init

LEMMA LeqTransitive ==
    ASSUME NEW a \in Nat, NEW b \in Nat, NEW c \in Nat, a <= b, b <= c
    PROVE  a <= c
  OBVIOUS

LEMMA BoundFacts ==
    ASSUME NEW n \in 0 .. MaxTurns
    PROVE  n \in Nat /\ 0 <= n /\ n <= n
  OBVIOUS

(* The documents that the handlers save.                                   *)
LEMMA DocumentFacts ==
    ASSUME NEW d \in Workspace
    PROVE  /\ d.assumptions \in SUBSET Proposal /\ d.pending \in SUBSET Proposal
           /\ d.turns \in 0 .. MaxTurns
  BY DEF Workspace

LEMMA AcceptedFacts ==
    ASSUME NEW d \in Workspace, NEW P \in SUBSET Proposal
    PROVE  LET w == [d EXCEPT !.assumptions = @ \cup P, !.pending = @ \ P]
           IN  w \in Workspace /\ w.pending = d.pending \ P /\ w.turns = d.turns
  <1>1. /\ d.assumptions \cup P \in SUBSET Proposal /\ d.pending \ P \in SUBSET Proposal
    BY DocumentFacts
  <1>2. QED
    BY <1>1 DEF Workspace

LEMMA RejectedFacts ==
    ASSUME NEW d \in Workspace, NEW P \in SUBSET Proposal
    PROVE  LET w == [d EXCEPT !.pending = @ \ P]
           IN  w \in Workspace /\ w.pending = d.pending \ P /\ w.turns = d.turns
  <1>1. d.pending \ P \in SUBSET Proposal
    BY DocumentFacts
  <1>2. QED
    BY <1>1 DEF Workspace

LEMMA PatchedFacts ==
    ASSUME NEW d \in Workspace, NEW P \in SUBSET Proposal
    PROVE  LET w == [d EXCEPT !.assumptions = P]
           IN  w \in Workspace /\ w.pending = d.pending /\ w.turns = d.turns
  BY DEF Workspace

LEMMA AnsweredFacts ==
    ASSUME NEW d \in Workspace, NEW P \in SUBSET Proposal, d.turns < MaxTurns
    PROVE  LET w == [d EXCEPT !.pending = @ \cup P, !.turns = @ + 1]
           IN  w \in Workspace /\ w.pending = d.pending \cup P /\ w.turns = d.turns + 1
  <1>1. d.pending \cup P \in SUBSET Proposal /\ d.turns + 1 \in 0 .. MaxTurns
    BY DocumentFacts
  <1>2. QED
    BY <1>1 DEF Workspace

LEMMA TurnFacts ==
    ASSUME IInv
    PROVE  /\ chats \in Nat /\ 0 <= chats /\ chats <= chats
           /\ \A r \in Req : req[r] \in Request /\ req[r].copy \in Workspace
           /\ \A w \in Workspace : w.turns \in Nat
  <1>1. chats \in 0 .. MaxTurns /\ \A r \in Req : req[r] \in Request
    BY DEF IInv, TypeOK
  <1>2. chats \in Nat /\ 0 <= chats /\ chats <= chats
    BY <1>1
  <1>3. \A q \in Request : q.copy \in Workspace
    BY DEF Request
  <1>4. \A w \in Workspace : w.turns \in Nat
    BY DEF Workspace
  <1>5. QED
    BY <1>1, <1>2, <1>3, <1>4

(* A transaction that is over.                                             *)
LEMMA RollbackKeeps ==
    ASSUME IInv, NEW r \in Req, Rollback(r)
    PROVE  IInv'
  <1>1. /\ req' = [req EXCEPT ![r] = NoRequest]
        /\ lock' = IF lock = r THEN Nobody ELSE lock
        /\ UNCHANGED <<status, ws, faulty, offered, accepted, rejected, chats, compiled>>
    BY DEF Rollback, Ends, decisions
  <1>2. NoRequest \in Request /\ Fits(NoRequest) /\ NoRequest.copy.turns = 0
    BY EmptyFacts DEF Fits
  <1>3. HasDocument(NoRequest, r, lock', ws')
    BY DEF HasDocument, NoRequest
  <1>4. chats \in Nat
    BY DEF IInv, TypeOK
  <1>5. req' \in [Req -> Request] /\ Requests'
    <2>1. lock' # r /\ lock' \in {lock, r, Nobody} /\ chats <= chats'
      BY <1>1, <1>4
    <2>2. NoRequest.copy.turns <= chats'
      BY <1>1, <1>2, <1>4
    <2>3. QED
      BY <1>1, <1>2, <1>3, <1>4, <2>1, <2>2, StepKeepsRequests
  <1>6. QED
    BY <1>1, <1>5 DEF IInv, TypeOK, DecidedOnce, Decided, NothingLost
(* A request that has arrived waits for the lock.                          *)
LEMMA ArriveKeeps ==
    ASSUME IInv, NEW r \in Req, Arrive(r)
    PROVE  IInv'
  <1>1. ASSUME NEW op \in Ops, NEW arg \in SUBSET Proposal, NEW to \in DraftStatus \cup {""},
               op = "patch" \/ to = "", Starts(r, op, arg, to)
        PROVE  IInv'
    <2>1. PICK q \in Request :
            /\ q.op = op /\ q.pc = "lock" /\ q.to = to /\ q.copy = Empty
            /\ req' = [req EXCEPT ![r] = q]
      <3> DEFINE v == [op |-> op, pc |-> "lock", copy |-> Empty, arg |-> arg, to |-> to]
      <3>1. v \in Request
        BY EmptyFacts DEF Request, Pcs
      <3>2. req' = [req EXCEPT ![r] = v]
        BY <1>1 DEF Starts
      <3>3. QED
        BY <3>1, <3>2
    <2>2. UNCHANGED <<status, ws, faulty, lock, offered, accepted, rejected, chats, compiled>>
      BY <1>1 DEF Starts, decisions
    <2>3. /\ req[r].pc = "idle"
          /\ Fits(q) /\ FindsStatus(q, status) /\ HasDocument(q, r, lock', ws')
      BY <1>1, <2>1 DEF Starts, Fits, FindsStatus, HasDocument
    <2>4. chats \in Nat /\ chats <= chats /\ q.copy.turns <= chats
      BY <2>1, EmptyFacts, TurnFacts, Zenon
    <2>5. req' \in [Req -> Request] /\ Requests'
      <3>1. chats' \in Nat /\ chats <= chats' /\ q.copy.turns <= chats'
        BY <2>2, <2>4, Zenon
      <3>2. FindsStatus(q, status') /\ HasDocument(q, r, lock', ws')
        BY <2>2, <2>3
      <3>3. QED
        BY <2>1, <2>2, <2>3, <3>1, <3>2, StepKeepsRequests
    <2>6. QED
      BY <2>2, <2>5 DEF IInv, TypeOK, DecidedOnce, Decided, NothingLost
  <1> USE DEF Ops, DraftStatus
  <1>2. offered \subseteq Proposal /\ accepted \subseteq Proposal
    BY DEF IInv, TypeOK
  <1>3. CASE Starts(r, "chat", {}, "") \/ Starts(r, "commit_draft", {}, "")
    BY <1>1, <1>3
  <1>4. CASE \E p \in offered : Starts(r, "accept", {p}, "") \/ Starts(r, "reject", {p}, "")
    <2>1. PICK p \in offered : Starts(r, "accept", {p}, "") \/ Starts(r, "reject", {p}, "")
      BY <1>4
    <2>2. {p} \in SUBSET Proposal
      BY <1>2
    <2>3. QED
      BY <1>1, <2>1, <2>2
  <1>5. CASE \E A \in SUBSET accepted, s \in DraftStatus \cup {""} : Starts(r, "patch", A, s)
    <2>1. PICK A \in SUBSET accepted, s \in DraftStatus \cup {""} : Starts(r, "patch", A, s)
      BY <1>5
    <2>2. A \in SUBSET Proposal
      BY <1>2
    <2>3. QED
      BY <1>1, <2>1, <2>2
  <1>6. QED
    BY <1>3, <1>4, <1>5 DEF Arrive
-----------------------------------------------------------------------------
(* The record of a request that goes on to another place.                  *)
LEMMA LoadFacts ==
    ASSUME IInv, NEW r \in Req, NEW pc \in Pcs,
           req' = [req EXCEPT ![r].pc = pc, ![r].copy = ws]
    PROVE  \E q \in Request :
              /\ q.op = req[r].op /\ q.pc = pc /\ q.to = req[r].to /\ q.copy = ws
              /\ req' = [req EXCEPT ![r] = q]
  <1> DEFINE v == [req[r] EXCEPT !.pc = pc, !.copy = ws]
  <1>1. req \in [Req -> Request] /\ req[r] \in Request /\ ws \in Workspace
    BY DEF IInv, TypeOK
  <1>2. /\ v \in Request /\ v.op = req[r].op /\ v.pc = pc /\ v.to = req[r].to
        /\ v.copy = ws
    BY <1>1 DEF Request
  <1>3. req' = [req EXCEPT ![r] = v]
    BY <1>1 DEF Request
  <1>4. QED
    BY <1>2, <1>3

LEMMA GoFacts ==
    ASSUME IInv, NEW r \in Req, NEW pc \in Pcs, req' = [req EXCEPT ![r].pc = pc]
    PROVE  \E q \in Request :
              /\ q.op = req[r].op /\ q.pc = pc /\ q.to = req[r].to
              /\ q.copy = req[r].copy
              /\ req' = [req EXCEPT ![r] = q]
  <1> DEFINE v == [req[r] EXCEPT !.pc = pc]
  <1>1. req \in [Req -> Request] /\ req[r] \in Request
    BY DEF IInv, TypeOK
  <1>2. /\ v \in Request /\ v.op = req[r].op /\ v.pc = pc /\ v.to = req[r].to
        /\ v.copy = req[r].copy
    BY <1>1 DEF Request
  <1>3. req' = [req EXCEPT ![r] = v]
    BY <1>1 DEF Request
  <1>4. QED
    BY <1>2, <1>3

(* Nothing but the record and the lock changes.                            *)
LEMMA QuietKeeps ==
    ASSUME IInv, NEW r \in Req, NEW q \in Request,
           req' = [req EXCEPT ![r] = q],
           Fits(q), q.copy.turns <= chats,
           lock' = r => FindsStatus(q, status),
           ~faulty => HasDocument(q, r, lock', ws),
           lock' \in Req \cup {Nobody},
           lock' = lock \/ lock \in {r, Nobody},
           lock' \in {lock, r, Nobody},
           UNCHANGED <<status, ws, faulty, offered, accepted, rejected, chats, compiled>>
    PROVE  IInv'
  <1>1. /\ status' = status /\ ws' = ws /\ faulty' = faulty /\ offered' = offered
        /\ accepted' = accepted /\ rejected' = rejected /\ chats' = chats
        /\ compiled' = compiled /\ (faulty' <=> faulty)
    OBVIOUS
  <1>2. /\ q.copy.turns <= chats' /\ chats' \in Nat /\ chats <= chats'
        /\ lock' = r => FindsStatus(q, status')
        /\ ~faulty' => ~faulty /\ HasDocument(q, r, lock', ws')
        /\ ~faulty' => (ws' = ws /\ lock' = lock) \/ lock \in {r, Nobody}
    <2>1. q.copy.turns <= chats' /\ chats' \in Nat /\ chats <= chats'
      BY <1>1, TurnFacts, Zenon
    <2>2. lock' = r => FindsStatus(q, status')
      BY <1>1, Zenon
    <2>3. ~faulty' => ~faulty /\ HasDocument(q, r, lock', ws')
      BY <1>1, Zenon
    <2>4. QED
      BY <1>1, <2>1, <2>2, <2>3, Zenon
  <1>3. req' \in [Req -> Request] /\ Requests'
    BY <1>1, <1>2, StepKeepsRequests, Zenon
  <1>4. QED
    BY <1>1, <1>3 DEF IInv, TypeOK, DecidedOnce, Decided, NothingLost

LEMMA LoadsKeep ==
    ASSUME IInv, NEW r \in Req, ChatLoads(r) \/ CompileLoads(r)
    PROVE  IInv'
  <1>1. CASE Rollback(r)
    BY <1>1, RollbackKeeps
  <1> DEFINE Finds(pc) ==
        \/ pc = "model" /\ req[r].op = "chat" /\ status = "active"
        \/ pc = "compile" /\ req[r].op = "commit_draft" /\ status = "ready_to_commit"
  <1>2. ASSUME NEW pc \in Pcs, lock = Nobody, lock' = r, req[r].pc = "lock", Finds(pc),
               req' = [req EXCEPT ![r].pc = pc, ![r].copy = ws],
               UNCHANGED <<status, ws, faulty, offered, decisions, chats, compiled>>
        PROVE  IInv'
    <2>1. PICK q \in Request :
              /\ q.op = req[r].op /\ q.pc = pc /\ q.to = req[r].to /\ q.copy = ws
              /\ req' = [req EXCEPT ![r] = q]
      BY <1>2, LoadFacts
    <2>2. Fits(req[r])
      BY DEF IInv, Requests
    <2>3. Fits(q) /\ FindsStatus(q, status) /\ HasDocument(q, r, lock', ws)
      BY <1>2, <2>1, <2>2 DEF Fits, FindsStatus, HasDocument
    <2>4. q.copy.turns <= chats
      BY <2>1 DEF IInv
    <2>5. UNCHANGED <<status, ws, faulty, offered, accepted, rejected, chats, compiled>>
      BY <1>2 DEF decisions
    <2>6. QED
      BY <1>2, <2>1, <2>3, <2>4, <2>5, QuietKeeps
  <1>3. CASE ChatLoads(r)
    <2>1. "model" \in Pcs
      BY DEF Pcs
    <2>2. CASE /\ status = "active" /\ lock' = r
               /\ req' = [req EXCEPT ![r].pc = "model", ![r].copy = ws]
               /\ UNCHANGED <<status, ws, faulty, offered, decisions, chats, compiled>>
      <3>1. lock = Nobody /\ req[r].pc = "lock" /\ Finds("model")
        BY <1>3, <2>2 DEF ChatLoads, Locks
      <3>2. QED
        <4> HIDE DEF Finds
        <4> QED
          BY <1>2, <2>1, <2>2, <3>1
    <2>3. QED
      BY <1>1, <1>3, <2>2 DEF ChatLoads
  <1>4. CASE CompileLoads(r)
    <2>1. "compile" \in Pcs
      BY DEF Pcs
    <2>2. CASE /\ status = "ready_to_commit" /\ lock' = r
               /\ req' = [req EXCEPT ![r].pc = "compile", ![r].copy = ws]
               /\ UNCHANGED <<status, ws, faulty, offered, decisions, chats, compiled>>
      <3>1. lock = Nobody /\ req[r].pc = "lock" /\ Finds("compile")
        BY <1>4, <2>2 DEF CompileLoads, Locks
      <3>2. QED
        <4> HIDE DEF Finds
        <4> QED
          BY <1>2, <2>1, <2>2, <3>1
    <2>3. QED
      BY <1>1, <1>4, <2>2 DEF CompileLoads
  <1>5. QED
    BY <1>3, <1>4

LEMMA PublishBaselineKeeps ==
    ASSUME IInv, NEW r \in Req, PublishBaseline(r)
    PROVE  IInv'
  <1> DEFINE v == [req[r] EXCEPT !.pc = "commit", !.to = "committed"]
  <1>1. req \in [Req -> Request] /\ req[r] \in Request
    BY DEF IInv, TypeOK
  <1>2. /\ v \in Request /\ v.op = req[r].op /\ v.pc = "commit" /\ v.to = "committed"
        /\ v.copy = req[r].copy
    BY <1>1 DEF Request, DraftStatus, Pcs
  <1>3. req' = [req EXCEPT ![r] = v]
    BY <1>1 DEF PublishBaseline, Request
  <1>4. PICK q \in Request :
            /\ q.op = req[r].op /\ q.pc = "commit" /\ q.to = "committed"
            /\ q.copy = req[r].copy /\ req' = [req EXCEPT ![r] = q]
    BY <1>2, <1>3
  <1>5. /\ req[r].pc = "compile" /\ lock = r /\ lock' = lock
        /\ UNCHANGED <<status, ws, faulty, offered, accepted, rejected, chats, compiled>>
    BY DEF PublishBaseline, decisions
  <1>6. /\ Fits(req[r]) /\ FindsStatus(req[r], status)
        /\ ~faulty => HasDocument(req[r], r, lock, ws)
        /\ req[r].copy.turns <= chats
    BY <1>5 DEF IInv, Requests
  <1>7. Fits(q) /\ FindsStatus(q, status)
    BY <1>4, <1>5, <1>6 DEF Fits, FindsStatus, VALID_TRANSITIONS, DraftStatus
  <1>8. ~faulty => HasDocument(q, r, lock', ws)
    BY <1>4, <1>5, <1>6 DEF HasDocument
  <1>9. QED
    BY <1>4, <1>5, <1>6, <1>7, <1>8, QuietKeeps
-----------------------------------------------------------------------------
(* A request that saves the document w.                                    *)
LEMMA SavesKeep ==
    ASSUME IInv, NEW r \in Req, NEW w \in Workspace, Saves(r, w),
           req[r].op # "commit_draft",
           lock' = r => req[r].to \in VALID_TRANSITIONS[status] \cup {""},
           ~faulty => lock \in {r, Nobody} /\ lock' = r,
           lock' \in {lock, r, Nobody}, lock' \in Req \cup {Nobody},
           status' = status, compiled' = compiled,
           chats' \in 0 .. MaxTurns, chats <= chats', w.turns <= chats',
           offered' \subseteq Proposal, accepted' \subseteq Proposal,
           rejected' \subseteq Proposal,
           ~faulty => /\ accepted' \cap rejected' = {}
                      /\ w.pending \cap (accepted' \cup rejected') = {}
                      /\ offered' \subseteq w.pending \cup accepted' \cup rejected'
                      /\ w.turns = chats'
    PROVE  IInv'
  <1>1. /\ req' = [req EXCEPT ![r].pc = "commit"]
        /\ ws' \in {ws, w}
        /\ faulty => faulty'
        /\ ~faulty' => ws' = w
        /\ faulty' \in BOOLEAN
    BY DEF Saves, IInv, TypeOK
  <1>2. "commit" \in Pcs
    BY DEF Pcs
  <1>3. PICK q \in Request :
            /\ q.op = req[r].op /\ q.pc = "commit" /\ q.to = req[r].to
            /\ q.copy = req[r].copy /\ req' = [req EXCEPT ![r] = q]
    BY <1>1, <1>2, GoFacts, ZenonT(30)
  <1>4. Fits(req[r]) /\ req[r].copy.turns <= chats
    BY DEF IInv, Requests
  <1>5. Fits(q) /\ (lock' = r => FindsStatus(q, status'))
    BY <1>3, <1>4 DEF Fits, FindsStatus
  <1>6. ~faulty' => ~faulty /\ HasDocument(q, r, lock', ws')
    BY <1>1, <1>3 DEF HasDocument
  <1>7. q.copy.turns <= chats' /\ chats' \in Nat
    <2>1. req[r].copy.turns \in Nat /\ chats \in Nat /\ chats' \in Nat
      BY TurnFacts, BoundFacts, Zenon
    <2>2. QED
      BY <1>3, <1>4, <2>1, LeqTransitive, Zenon
  <1>8. ~faulty' => lock \in {r, Nobody}
    BY <1>1
  <1>9. req' \in [Req -> Request] /\ Requests'
    BY <1>3, <1>5, <1>6, <1>7, <1>8, StepKeepsRequests
  <1>10. TypeOK'
    BY <1>1, <1>9 DEF IInv, TypeOK
  <1>11. ws'.turns <= chats'
    <2>1. ws.turns \in Nat /\ chats \in Nat /\ ws.turns <= chats
      BY TurnFacts DEF IInv, TypeOK
    <2>2. ws.turns <= chats' /\ w.turns <= chats'
      <3>1. chats' \in Nat
        BY BoundFacts, Zenon
      <3>2. QED
        BY <2>1, <3>1, LeqTransitive, Zenon
    <2>3. QED
      BY <1>1, <2>2, Zenon
  <1>12. DecidedOnce' /\ NothingLost'
    BY <1>1 DEF DecidedOnce, Decided, NothingLost
  <1>13. QED
    BY <1>9, <1>10, <1>11, <1>12 DEF IInv

LEMMA DecideKeeps ==
    ASSUME IInv, NEW r \in Req, accept_proposal(r) \/ reject_proposal(r)
    PROVE  IInv'
  <1>1. CASE Rollback(r)
    BY <1>1, RollbackKeeps
  <1> DEFINE P == req[r].arg
  <1>2. /\ ws \in Workspace /\ P \in SUBSET Proposal /\ chats \in 0 .. MaxTurns
        /\ ws.turns <= chats /\ Fits(req[r])
    BY DEF IInv, Requests, TypeOK, Request
  <1>3. /\ ws.pending \in SUBSET Proposal /\ ws.assumptions \in SUBSET Proposal
        /\ ws.turns \in 0 .. MaxTurns
    BY <1>2, DocumentFacts
  <1>4. /\ offered \subseteq Proposal /\ accepted \subseteq Proposal
        /\ rejected \subseteq Proposal
        /\ ~faulty => /\ accepted \cap rejected = {}
                      /\ ws.pending \cap (accepted \cup rejected) = {}
                      /\ offered \subseteq ws.pending \cup accepted \cup rejected
                      /\ ws.turns = chats
    BY DEF IInv, TypeOK, DecidedOnce, Decided, NothingLost
  <1>5. ASSUME NEW w \in Workspace, w.pending = ws.pending \ P, w.turns = ws.turns,
               P \subseteq ws.pending, Saves(r, w),
               lock = Nobody, lock' = r, req[r].op \in {"accept", "reject"},
               \/ accepted' = accepted \cup P /\ rejected' = rejected
               \/ rejected' = rejected \cup P /\ accepted' = accepted,
               UNCHANGED <<status, offered, chats, compiled>>
        PROVE  IInv'
    <2>1. req[r].op # "commit_draft" /\ req[r].to = ""
      BY <1>2, <1>5 DEF Fits
    <2>2. accepted' \subseteq Proposal /\ rejected' \subseteq Proposal /\ offered' \subseteq Proposal
      BY <1>2, <1>4, <1>5
    <2>3. ~faulty => /\ accepted' \cap rejected' = {}
                     /\ w.pending \cap (accepted' \cup rejected') = {}
                     /\ offered' \subseteq w.pending \cup accepted' \cup rejected'
                     /\ w.turns = chats'
      BY <1>4, <1>5
    <2>4. chats' \in 0 .. MaxTurns /\ chats <= chats' /\ w.turns <= chats'
      BY <1>2, <1>5
    <2>5. QED
      BY <1>5, <2>1, <2>2, <2>3, <2>4, SavesKeep
  <1>6. CASE accept_proposal(r)
    <2> DEFINE w == [ws EXCEPT !.assumptions = @ \cup P, !.pending = @ \ P]
    <2>1. w \in Workspace /\ w.pending = ws.pending \ P /\ w.turns = ws.turns
      BY <1>2, AcceptedFacts
    <2>2. QED
      BY <1>1, <1>5, <1>6, <2>1 DEF accept_proposal, Locks
  <1>7. CASE reject_proposal(r)
    <2> DEFINE w == [ws EXCEPT !.pending = @ \ P]
    <2>1. w \in Workspace /\ w.pending = ws.pending \ P /\ w.turns = ws.turns
      BY <1>2, RejectedFacts
    <2>2. QED
      BY <1>1, <1>5, <1>7, <2>1 DEF reject_proposal, Locks
  <1>8. QED
    BY <1>6, <1>7

LEMMA PatchKeeps ==
    ASSUME IInv, NEW r \in Req, patch_draft(r)
    PROVE  IInv'
  <1>1. CASE Rollback(r)
    BY <1>1, RollbackKeeps
  <1> DEFINE w == [ws EXCEPT !.assumptions = req[r].arg]
  <1>2. /\ ws \in Workspace /\ req[r].arg \in SUBSET Proposal /\ chats \in 0 .. MaxTurns
        /\ ws.turns <= chats /\ Fits(req[r]) /\ req[r].copy.turns <= chats
    BY DEF IInv, Requests, TypeOK, Request
  <1>3. w \in Workspace /\ w.pending = ws.pending /\ w.turns = ws.turns
    BY <1>2, PatchedFacts
  <1>4. /\ offered \subseteq Proposal /\ accepted \subseteq Proposal
        /\ rejected \subseteq Proposal
        /\ ~faulty => /\ accepted \cap rejected = {}
                      /\ w.pending \cap (accepted \cup rejected) = {}
                      /\ offered \subseteq w.pending \cup accepted \cup rejected
                      /\ w.turns = chats
    BY <1>3 DEF IInv, TypeOK, DecidedOnce, Decided, NothingLost
  <1>5. ASSUME ~Rollback(r)
        PROVE  /\ req[r].op = "patch" /\ req[r].pc = "lock" /\ lock = Nobody /\ lock' = r
               /\ req[r].to \in VALID_TRANSITIONS[status] \cup {""}
               /\ \/ Saves(r, w)
                  \/ /\ req' = [req EXCEPT ![r].pc = "commit"]
                     /\ UNCHANGED <<ws, faulty>>
               /\ UNCHANGED <<status, offered, accepted, rejected, chats, compiled>>
    BY <1>5 DEF patch_draft, Locks, decisions
  <1>6. CASE ~Rollback(r) /\ Saves(r, w)
    <2>1. /\ lock' \in {lock, r, Nobody} /\ lock' \in Req \cup {Nobody}
          /\ ~faulty => lock \in {r, Nobody} /\ lock' = r
          /\ req[r].op # "commit_draft"
      BY <1>5, <1>6
    <2>2. chats <= chats /\ w.turns <= chats
      BY <1>2, <1>3, BoundFacts
    <2>3. /\ chats' = chats /\ offered' = offered /\ accepted' = accepted
          /\ rejected' = rejected /\ status' = status /\ compiled' = compiled
      BY <1>5, <1>6
    <2>4. /\ chats' \in 0 .. MaxTurns /\ chats <= chats' /\ w.turns <= chats'
          /\ offered' \subseteq Proposal /\ accepted' \subseteq Proposal
          /\ rejected' \subseteq Proposal
          /\ ~faulty => /\ accepted' \cap rejected' = {}
                        /\ w.pending \cap (accepted' \cup rejected') = {}
                        /\ offered' \subseteq w.pending \cup accepted' \cup rejected'
                        /\ w.turns = chats'
      BY <1>2, <1>4, <2>2, <2>3
    <2>5. QED
      <3> HIDE DEF w
      <3> QED
        BY <1>3, <1>5, <1>6, <2>1, <2>3, <2>4, SavesKeep
  <1>7. CASE ~Rollback(r) /\ req' = [req EXCEPT ![r].pc = "commit"] /\ UNCHANGED <<ws, faulty>>
    <2>1. "commit" \in Pcs
      BY DEF Pcs
    <2>2. PICK q \in Request :
            /\ q.op = req[r].op /\ q.pc = "commit" /\ q.to = req[r].to
            /\ q.copy = req[r].copy /\ req' = [req EXCEPT ![r] = q]
      BY <1>7, <2>1, GoFacts
    <2>3. /\ Fits(q) /\ FindsStatus(q, status) /\ HasDocument(q, r, lock', ws)
          /\ q.copy.turns <= chats
      BY <1>2, <1>5, <1>7, <2>2 DEF Fits, FindsStatus, HasDocument
    <2>4. QED
      BY <1>5, <1>7, <2>2, <2>3, QuietKeeps
  <1>8. QED
    BY <1>1, <1>5, <1>6, <1>7

(* The proposals of an answer get ids that nobody has been given.          *)
LEMMA ModelAnswersKeeps ==
    ASSUME IInv, NEW r \in Req, NEW P \in SUBSET Fresh, ModelAnswers(r, P)
    PROVE  IInv'
  <1> DEFINE d == req[r].copy
             w == [d EXCEPT !.pending = @ \cup P, !.turns = @ + 1]
  <1>1. /\ d \in Workspace /\ chats \in 0 .. MaxTurns /\ d.turns <= chats
        /\ Fits(req[r]) /\ (lock = r => FindsStatus(req[r], status))
        /\ ~faulty => HasDocument(req[r], r, lock, ws)
        /\ lock \in Req \cup {Nobody}
    BY TurnFacts DEF IInv, Requests, TypeOK
  <1>2. /\ req[r].pc = "model" /\ chats < MaxTurns
        /\ offered' = offered \cup P /\ chats' = chats + 1
        /\ UNCHANGED <<status, lock, accepted, rejected, compiled>>
    BY DEF ModelAnswers, decisions
  <1>3. /\ d.assumptions \in SUBSET Proposal /\ d.pending \in SUBSET Proposal
        /\ d.turns \in 0 .. MaxTurns /\ P \in SUBSET Proposal
    BY <1>1, DocumentFacts DEF Fresh
  <1>4. /\ chats' \in 0 .. MaxTurns /\ chats <= chats'
        /\ d.turns + 1 <= chats' /\ d.turns < MaxTurns
    BY <1>1, <1>2, <1>3
  <1>5. w \in Workspace /\ w.pending = d.pending \cup P /\ w.turns = d.turns + 1
    BY <1>1, <1>3, <1>4, AnsweredFacts
  <1>6. Saves(r, w)
    BY DEF ModelAnswers
  <1>7. req[r].op # "commit_draft" /\ req[r].to = ""
    BY <1>1, <1>2 DEF Fits
  <1>8. /\ offered' \subseteq Proposal /\ accepted' \subseteq Proposal
        /\ rejected' \subseteq Proposal
    BY <1>2, <1>3 DEF IInv, TypeOK
  <1>9. ASSUME ~faulty
        PROVE  /\ lock = r
               /\ accepted' \cap rejected' = {}
               /\ w.pending \cap (accepted' \cup rejected') = {}
               /\ offered' \subseteq w.pending \cup accepted' \cup rejected'
               /\ w.turns = chats'
    <2>1. lock = r /\ d = ws
      BY <1>1, <1>2, <1>9 DEF HasDocument
    <2>2. /\ accepted \cap rejected = {}
          /\ ws.pending \cap (accepted \cup rejected) = {}
          /\ offered \subseteq ws.pending \cup accepted \cup rejected
          /\ ws.turns = chats
      BY <1>9 DEF IInv, DecidedOnce, Decided, NothingLost
    <2>3. w.pending = ws.pending \cup P /\ w.turns = ws.turns + 1
      BY <1>5, <2>1
    <2>4. P \cap (accepted \cup rejected) = {}
      BY DEF Fresh
    <2>5. QED
      BY <1>2, <2>1, <2>2, <2>3, <2>4
  <1>10. w.turns <= chats'
    BY <1>4, <1>5
  <1>11. QED
    <2> HIDE DEF w
    <2> QED
      BY <1>1, <1>2, <1>4, <1>5, <1>6, <1>7, <1>8, <1>9, <1>10, SavesKeep
-----------------------------------------------------------------------------
(* COMMIT: the status stays one that the holder may set, and what          *)
(* commit_draft publishes is the document it has.                          *)
LEMMA CommitFacts ==
    ASSUME IInv, NEW r \in Req, Commit(r)
    PROVE  /\ req[r].to \in VALID_TRANSITIONS[status] \cup {""}
           /\ status \in DraftStatus /\ status' \in DraftStatus
           /\ status = "committed" => status' = "committed"
           /\ req[r].op = "commit_draft" =>
                /\ status = "ready_to_commit" /\ status' = "committed" /\ compiled = <<>>
                /\ ~faulty => req[r].copy = ws
  <1>1. /\ Fits(req[r]) /\ FindsStatus(req[r], status)
        /\ ~faulty => HasDocument(req[r], r, lock, ws)
        /\ req[r] \in Request /\ status \in DraftStatus
    BY DEF Commit, IInv, Requests, TypeOK
  <1>2. /\ req[r].pc = "commit"
        /\ status' = IF req[r].to = "" THEN status ELSE req[r].to
    BY DEF Commit
  <1>3. req[r].to \in VALID_TRANSITIONS[status] \cup {""}
    BY <1>1, <1>2 DEF FindsStatus
  <1>4. VALID_TRANSITIONS[status] \subseteq DraftStatus
    BY <1>1 DEF VALID_TRANSITIONS, DraftStatus
  <1>5. status' \in DraftStatus
    BY <1>1, <1>2, <1>3, <1>4
  <1>6. status = "committed" => status' = "committed"
    BY <1>2, <1>3 DEF VALID_TRANSITIONS, DraftStatus
  <1>7. ASSUME req[r].op = "commit_draft"
        PROVE  /\ status = "ready_to_commit" /\ status' = "committed" /\ compiled = <<>>
               /\ ~faulty => req[r].copy = ws
    <2>1. status = "ready_to_commit" /\ req[r].to = "committed"
      BY <1>1, <1>2, <1>7 DEF Fits, FindsStatus
    <2>2. compiled = <<>>
      BY <2>1 DEF IInv
    <2>3. ~faulty => req[r].copy = ws
      BY <1>1, <1>2, <1>7 DEF HasDocument
    <2>4. QED
      BY <1>2, <2>1, <2>2, <2>3
  <1>8. QED
    BY <1>1, <1>3, <1>5, <1>6, <1>7

LEMMA CommitKeeps ==
    ASSUME IInv, NEW r \in Req, Commit(r)
    PROVE  IInv'
  <1>1. /\ lock = r /\ lock' = Nobody
        /\ req' = [req EXCEPT ![r] = NoRequest]
        /\ ws' = ws /\ (faulty' <=> faulty) /\ faulty' \in BOOLEAN /\ chats' = chats
        /\ offered' = offered /\ accepted' = accepted /\ rejected' = rejected
        /\ compiled' = IF req[r].op = "commit_draft"
                       THEN Append(compiled, req[r].copy) ELSE compiled
    BY DEF Commit, Ends, decisions, IInv, TypeOK
  <1>2. NoRequest \in Request /\ Fits(NoRequest)
    BY EmptyFacts DEF Fits
  <1>3. HasDocument(NoRequest, r, lock', ws')
    BY DEF HasDocument, NoRequest
  <1>4. NoRequest.copy.turns <= chats' /\ chats' \in Nat /\ chats <= chats'
    BY <1>1, EmptyFacts, TurnFacts, Zenon
  <1>5. req' \in [Req -> Request] /\ Requests'
    <2>1. lock' # r /\ lock' \in {lock, r, Nobody} /\ lock \in {r, Nobody}
      BY <1>1
    <2>2. ~faulty' => ~faulty /\ HasDocument(NoRequest, r, lock', ws')
      BY <1>1, <1>3
    <2>3. QED
      BY <1>1, <1>2, <1>4, <2>1, <2>2, StepKeepsRequests
  <1>6. status' \in DraftStatus /\ (compiled' # <<>> => status' = "committed")
    BY <1>1, CommitFacts DEF IInv
  <1>7. compiled' \in Seq(Workspace)
    <2>1. compiled \in Seq(Workspace) /\ req[r].copy \in Workspace
      BY TurnFacts DEF IInv, TypeOK
    <2>2. QED
      BY <1>1, <2>1
  <1>8. TypeOK'
    BY <1>1, <1>5, <1>6, <1>7 DEF IInv, TypeOK
  <1>9. ws'.turns <= chats' /\ DecidedOnce' /\ NothingLost'
    BY <1>1 DEF IInv, DecidedOnce, Decided, NothingLost
  <1>10. QED
    BY <1>5, <1>6, <1>8, <1>9 DEF IInv

(* Steps of no request: a DELETE, a lost connection.                       *)
LEMMA DeleteKeeps ==
    ASSUME IInv, delete_draft
    PROVE  IInv'
  <1>1. /\ lock = Nobody /\ status # "committed" /\ status' = "abandoned"
        /\ UNCHANGED <<ws, faulty, lock, req, offered, accepted, rejected, chats, compiled>>
    BY DEF delete_draft, decisions, Terminal
  <1>2. TypeOK'
    BY <1>1 DEF IInv, TypeOK, DraftStatus
  <1>3. Requests'
    BY <1>1 DEF IInv, Requests
  <1>4. QED
    BY <1>1, <1>2, <1>3 DEF IInv, DecidedOnce, Decided, NothingLost

LEMMA LoseConnectionKeeps ==
    ASSUME IInv, LoseConnection
    PROVE  IInv'
  <1>1. /\ lock' = Nobody /\ faulty' = TRUE
        /\ UNCHANGED <<status, ws, req, offered, accepted, rejected, chats, compiled>>
    BY DEF LoseConnection, decisions
  <1>2. TypeOK'
    BY <1>1 DEF IInv, TypeOK
  <1>3. Requests'
    BY <1>1 DEF IInv, Requests
  <1>4. DecidedOnce' /\ NothingLost'
    BY <1>1 DEF DecidedOnce, NothingLost
  <1>5. QED
    BY <1>1, <1>2, <1>3, <1>4 DEF IInv

LEMMA NextKeeps ==
    ASSUME IInv, [Next]_vars
    PROVE  IInv'
  <1>1. ASSUME NEW r \in Req, Step(r) PROVE IInv'
    BY <1>1, LoadsKeep, ModelAnswersKeeps, DecideKeeps, PatchKeeps, PublishBaselineKeeps,
       CommitKeeps, RollbackKeeps DEF Step, ModelFails, CommitFails
  <1>2. ASSUME NEW r \in Req, Arrive(r) \/ Fail(r) PROVE IInv'
    BY <1>2, ArriveKeeps, RollbackKeeps DEF Fail
  <1>3. CASE UNCHANGED vars
    <2>1. TypeOK' /\ Requests'
      BY <1>3 DEF vars, decisions, IInv, TypeOK, Requests
    <2>2. QED
      BY <1>3, <2>1 DEF vars, decisions, IInv, DecidedOnce, Decided, NothingLost
  <1>4. QED
    BY <1>1, <1>2, <1>3, DeleteKeeps, LoseConnectionKeeps DEF Next
-----------------------------------------------------------------------------
(* The invariant of the specification.                                     *)
THEOREM Inductive == Spec => []IInv
  BY InitHolds, NextKeeps, PTL DEF Spec

(* draft_chat, accept_proposal, reject_proposal, patch_draft: until a      *)
(* connection or an upload is lost, every proposal that a chat saved is    *)
(* pending or decided, and the history has every turn, although the        *)
(* document is written whole from a copy that is as old as the model is    *)
(* slow.                                                                   *)
THEOREM NothingIsLost == Spec => []NothingLost
  <1>1. IInv => NothingLost
    BY DEF IInv
  <1>2. QED
    BY Inductive, <1>1, PTL

(* The same, for decisions: no proposal is accepted and rejected, and none *)
(* that was decided is pending again.                                      *)
THEOREM DecidedAtMostOnce == Spec => []DecidedOnce
  <1>1. IInv => DecidedOnce
    BY DEF IInv
  <1>2. QED
    BY Inductive, <1>1, PTL

(* draft_chat saves into an active draft only, although it read the status *)
(* before the model answered.                                              *)
THEOREM ChatsWhileActive == Spec => ChatOnlyWhileActive
  <1>1. ASSUME NEW r \in Req, IInv, NEW P \in SUBSET Fresh, ModelAnswers(r, P), ~faulty'
        PROVE  status = "active"
    <2>1. ~faulty
      BY <1>1 DEF ModelAnswers, Saves
    <2>2. HasDocument(req[r], r, lock, ws) /\ req[r].pc = "model"
      BY <1>1, <2>1 DEF ModelAnswers, IInv, Requests
    <2>3. lock = r
      BY <2>2 DEF HasDocument
    <2>4. QED
      BY <1>1, <2>2, <2>3 DEF IInv, Requests, FindsStatus
  <1>2. ASSUME IInv, [Next]_vars, chats' # chats
        PROVE  \E r \in Req, P \in SUBSET Fresh : ModelAnswers(r, P)
    BY <1>2 DEF Next, Step, Arrive, Starts, Fail, Rollback, ChatLoads, ModelFails,
        accept_proposal, reject_proposal, patch_draft, CompileLoads, PublishBaseline,
        Commit, CommitFails, delete_draft, LoseConnection, vars
  <1>3. IInv /\ [Next]_vars => [chats' # chats /\ ~faulty' => status = "active"]_vars
    BY <1>1, <1>2
  <1>4. QED
    BY Inductive, <1>3, PTL DEF Spec, ChatOnlyWhileActive

(* A step that publishes is a COMMIT of commit_draft.                      *)
LEMMA PublishedByCommit ==
    ASSUME IInv, [Next]_vars, compiled' # compiled
    PROVE  \E r \in Req : /\ Commit(r) /\ req[r].op = "commit_draft"
                          /\ compiled' = Append(compiled, req[r].copy)
  <1>1. PICK r \in Req : Commit(r)
    BY DEF Next, Step, Arrive, Starts, Fail, Rollback, ChatLoads, ModelAnswers, ModelFails,
        accept_proposal, reject_proposal, patch_draft, CompileLoads, PublishBaseline,
        CommitFails, delete_draft, LoseConnection, vars
  <1>2. QED
    BY <1>1 DEF Commit

(* commit_draft: what is published is what the workspace holds when the    *)
(* draft becomes committed, until a connection or an upload is lost.       *)
THEOREM CompiledIsCommitted == Spec => CompiledAsCommitted
  <1>1. ASSUME IInv, [Next]_vars, compiled' # compiled, ~faulty'
        PROVE  compiled' = <<ws>>
    <2>1. PICK r \in Req : /\ Commit(r) /\ req[r].op = "commit_draft"
                           /\ compiled' = Append(compiled, req[r].copy)
      BY <1>1, PublishedByCommit
    <2>2. ~faulty
      BY <1>1, <2>1 DEF Commit
    <2>3. compiled = <<>> /\ req[r].copy = ws
      BY <1>1, <2>1, <2>2, CommitFacts
    <2>4. QED
      BY <2>1, <2>3
  <1>2. IInv /\ [Next]_vars => [compiled' # compiled /\ ~faulty' => compiled' = <<ws>>]_vars
    BY <1>1
  <1>3. QED
    BY Inductive, <1>2, PTL DEF Spec, CompiledAsCommitted

(* commit_draft: with connections and uploads lost at any point too, a     *)
(* draft is published once, by the COMMIT that takes it from               *)
(* ready_to_commit to committed.                                           *)
THEOREM PublishedAtMostOnce == Spec => PublishedOnce
  <1>1. ASSUME IInv, [Next]_vars, compiled' # compiled
        PROVE  compiled = <<>> /\ status = "ready_to_commit" /\ status' = "committed"
    BY <1>1, PublishedByCommit, CommitFacts
  <1>2. IInv /\ [Next]_vars =>
            [compiled' # compiled => /\ compiled = <<>> /\ status = "ready_to_commit"
                                     /\ status' = "committed"]_vars
    BY <1>1
  <1>3. QED
    BY Inductive, <1>2, PTL DEF Spec, PublishedOnce
-----------------------------------------------------------------------------
(* Refinement.  Besides the invariant it takes that a request decides one  *)
(* proposal, and that until a loss what is pending was offered: the ids of *)
(* an answer, which nobody has been given, are then new to the document.   *)
OneEach == \A r \in Req : req[r].op \in {"accept", "reject"} => \E p \in Proposal : req[r].arg = {p}
Offered == ~faulty => ws.pending \subseteq offered
MapInv == IInv /\ OneEach /\ Offered

Asks(q) == [op |-> q.op, arg |-> q.arg]

LEMMA NothingAsked == NoRequest.op = "none"
  BY DEF NoRequest

(* A request keeps what it asks for until it is over.                      *)
LEMMA KeepsArgument ==
    ASSUME IInv, NEW r \in Req, Step(r) \/ Fail(r), NEW s \in Req
    PROVE  req'[s] = NoRequest \/ Asks(req'[s]) = Asks(req[s])
  <1>1. req \in [Req -> Request]
    BY DEF IInv, TypeOK
  <1>2. \/ req' = [req EXCEPT ![r] = NoRequest]
        \/ \E pc \in Pcs : \/ req' = [req EXCEPT ![r].pc = pc]
                           \/ req' = [req EXCEPT ![r].pc = pc, ![r].copy = ws]
                           \/ req' = [req EXCEPT ![r].pc = pc, ![r].to = "committed"]
    BY DEF Step, Fail, ChatLoads, ModelAnswers, ModelFails, accept_proposal, reject_proposal,
       patch_draft, CompileLoads, PublishBaseline, Commit, CommitFails, Rollback, Ends, Saves, Pcs
  <1>3. CASE req' = [req EXCEPT ![r] = NoRequest]
    BY <1>1, <1>3
  <1>4. ASSUME NEW pc \in Pcs, req' = [req EXCEPT ![r].pc = pc] PROVE Asks(req'[s]) = Asks(req[s])
    BY <1>1, <1>4 DEF Asks, Request
  <1>5. ASSUME NEW pc \in Pcs, req' = [req EXCEPT ![r].pc = pc, ![r].copy = ws]
        PROVE  Asks(req'[s]) = Asks(req[s])
    BY <1>1, <1>5 DEF Asks, Request
  <1>6. ASSUME NEW pc \in Pcs, req' = [req EXCEPT ![r].pc = pc, ![r].to = "committed"]
        PROVE  Asks(req'[s]) = Asks(req[s])
    BY <1>1, <1>6 DEF Asks, Request
  <1>7. QED
    BY <1>2, <1>3, <1>4, <1>5, <1>6

LEMMA OneEachKeeps ==
    ASSUME IInv, OneEach, [Next]_vars
    PROVE  OneEach'
  <1>1. req \in [Req -> Request] /\ offered \subseteq Proposal
    BY DEF IInv, TypeOK
  <1>2. CASE \E r \in Req : Step(r) \/ Fail(r)
    <2>1. ASSUME NEW s \in Req, req'[s].op \in {"accept", "reject"}
          PROVE  \E p \in Proposal : req'[s].arg = {p}
      <3>1. req'[s] # NoRequest
        <4> SUFFICES ASSUME req'[s] = NoRequest PROVE FALSE
          OBVIOUS
        <4>1. req'[s].op = "none"
          BY NothingAsked
        <4>2. QED
          BY <2>1, <4>1
      <3>2. Asks(req'[s]) = Asks(req[s])
        BY <1>2, <3>1, KeepsArgument
      <3>3. QED
        BY <2>1, <3>2 DEF Asks, OneEach
    <2>2. QED
      BY <2>1 DEF OneEach
  <1>3. ASSUME NEW r \in Req, Arrive(r) PROVE OneEach'
    <2>1. ASSUME NEW op, NEW arg, NEW to, Starts(r, op, arg, to),
                 op \in {"accept", "reject"} => \E p \in Proposal : arg = {p}
          PROVE  OneEach'
      BY <1>1, <2>1 DEF Starts, OneEach
    <2>2. QED
      BY <1>1, <1>3, <2>1 DEF Arrive
  <1>4. CASE delete_draft \/ LoseConnection \/ UNCHANGED vars
    BY <1>4 DEF delete_draft, LoseConnection, vars, OneEach
  <1>5. QED
    BY <1>2, <1>3, <1>4 DEF Next

(* An answer that is saved while nothing has been lost is given to the     *)
(* document it was asked for.                                              *)
LEMMA AnswersInTime ==
    ASSUME IInv, NEW r \in Req, NEW P \in SUBSET Fresh, ModelAnswers(r, P), ~faulty'
    PROVE  /\ ~faulty /\ status = "active"
           /\ ws' = [ws EXCEPT !.pending = @ \cup P, !.turns = @ + 1]
           /\ offered' = offered \cup P
           /\ UNCHANGED <<status, accepted, rejected, compiled>>
  <1>1. /\ req[r].pc = "model" /\ ~faulty
        /\ ws' = [req[r].copy EXCEPT !.pending = @ \cup P, !.turns = @ + 1]
        /\ offered' = offered \cup P /\ UNCHANGED <<status, accepted, rejected, compiled>>
    BY DEF ModelAnswers, Saves, decisions
  <1>2. lock = r /\ req[r].copy = ws
    BY <1>1 DEF IInv, Requests, HasDocument
  <1>3. status = "active"
    BY <1>1, <1>2 DEF IInv, Requests, FindsStatus
  <1>4. QED
    BY <1>1, <1>2, <1>3

(* What a decision or an edit saves.                                       *)
LEMMA DecidesInTime ==
    ASSUME IInv, NEW r \in Req, accept_proposal(r) \/ reject_proposal(r), ~Rollback(r), ~faulty'
    PROVE  LET P == req[r].arg
           IN  /\ ~faulty /\ P \subseteq ws.pending
               /\ req[r].op \in {"accept", "reject"}
               /\ accepted' \cup rejected' = accepted \cup rejected \cup P
               /\ \/ ws' = [ws EXCEPT !.assumptions = @ \cup P, !.pending = @ \ P]
                  \/ ws' = [ws EXCEPT !.pending = @ \ P]
               /\ UNCHANGED <<status, compiled, offered>>
  BY DEF accept_proposal, reject_proposal, Saves, Locks

LEMMA EditsInTime ==
    ASSUME IInv, NEW r \in Req, patch_draft(r), ~Rollback(r), ~faulty'
    PROVE  /\ ~faulty
           /\ ws' = [ws EXCEPT !.assumptions = req[r].arg] \/ ws' = ws
           /\ UNCHANGED <<faulty, status, compiled, offered, accepted, rejected>>
  <1>1. CASE Saves(r, [ws EXCEPT !.assumptions = req[r].arg])
    <2>1. ~faulty /\ ws' = [ws EXCEPT !.assumptions = req[r].arg] /\ faulty' = faulty
      <3>1. PICK w : w = [ws EXCEPT !.assumptions = req[r].arg]
        OBVIOUS
      <3>2. Saves(r, w)
        BY <1>1, <3>1
      <3>3. ws' = w /\ faulty' = faulty
        BY <3>2 DEF Saves
      <3>4. QED
        BY <3>1, <3>3, Zenon
    <2>2. UNCHANGED <<status, compiled, offered, accepted, rejected>>
      BY DEF patch_draft, decisions
    <2>3. QED
      BY <2>1, <2>2
  <1>2. CASE UNCHANGED <<ws, faulty>>
    <2>1. ~faulty /\ ws' = ws /\ faulty' = faulty
      BY <1>2, Zenon
    <2>2. UNCHANGED <<status, compiled, offered, accepted, rejected>>
      BY DEF patch_draft, decisions
    <2>3. QED
      BY <2>1, <2>2
  <1>3. QED
    BY <1>1, <1>2, Zenon DEF patch_draft

LEMMA OfferedKeeps ==
    ASSUME IInv, Offered, [Next]_vars
    PROVE  Offered'
  <1> SUFFICES ASSUME ~faulty' PROVE ws'.pending \subseteq offered'
    BY DEF Offered
  <1>1. ws \in Workspace
    BY DEF IInv, TypeOK
  <1>2. ASSUME NEW r \in Req, NEW P \in SUBSET Fresh, ModelAnswers(r, P)
        PROVE  ws'.pending \subseteq offered'
    <2>1. /\ ~faulty /\ offered' = offered \cup P
          /\ ws' = [ws EXCEPT !.pending = @ \cup P, !.turns = @ + 1]
      BY <1>2, AnswersInTime
    <2>2. ws'.pending = ws.pending \cup P
      BY <1>1, <2>1 DEF Workspace
    <2>3. QED
      BY <2>1, <2>2 DEF Offered
  <1>3. ASSUME NEW r \in Req, accept_proposal(r) \/ reject_proposal(r), ~Rollback(r)
        PROVE  ws'.pending \subseteq offered'
    <2>1. /\ ~faulty /\ offered' = offered
          /\ \/ ws' = [ws EXCEPT !.assumptions = @ \cup req[r].arg, !.pending = @ \ req[r].arg]
             \/ ws' = [ws EXCEPT !.pending = @ \ req[r].arg]
      BY <1>3, DecidesInTime
    <2>2. ws'.pending \subseteq ws.pending
      BY <1>1, <2>1 DEF Workspace
    <2>3. QED
      BY <2>1, <2>2 DEF Offered
  <1>4. ASSUME NEW r \in Req, patch_draft(r), ~Rollback(r)
        PROVE  ws'.pending \subseteq offered'
    <2>1. ws'.pending = ws.pending
      BY <1>1, <1>4, EditsInTime DEF Workspace
    <2>2. QED
      BY <1>4, <2>1, EditsInTime DEF Offered
  <1>5. CASE UNCHANGED <<ws, offered, faulty>>
    BY <1>5 DEF Offered
  <1>6. QED
    BY <1>2, <1>3, <1>4, <1>5 DEF Next, Step, Arrive, Starts, Fail, Rollback, ChatLoads, ModelFails,
       CompileLoads, PublishBaseline, Commit, CommitFails, delete_draft, LoseConnection, vars

(* Both hold with the invariant, whatever interleaves.                     *)
THEOREM MapInductive == Spec => []MapInv
  <1>1. Init => OneEach /\ Offered
    <2> SUFFICES ASSUME Init PROVE OneEach /\ Offered
      OBVIOUS
    <2>1. \A r \in Req : req[r].op = "none"
      BY NothingAsked DEF Init
    <2>2. OneEach
      BY <2>1 DEF OneEach
    <2>3. ws.pending = {}
      BY DEF Init, Empty
    <2>4. QED
      BY <2>2, <2>3 DEF Offered
  <1>2. IInv /\ OneEach /\ Offered /\ [Next]_vars => OneEach' /\ Offered'
    BY OneEachKeeps, OfferedKeeps
  <1>3. QED
    BY <1>1, <1>2, Inductive, PTL DEF Spec, MapInv
-----------------------------------------------------------------------------
(* Until a loss, what a request saves is one step of the draft.            *)
LEMMA WorkMaps ==
    ASSUME MapInv, NEW r \in Req, Step(r), ~Commit(r), ~Rollback(r), ~faulty'
    PROVE  Session!Work \/ UNCHANGED Session!vars
  <1>1. ws \in Workspace /\ req[r] \in Request
    BY DEF MapInv, IInv, TypeOK
  <1>2. ASSUME NEW P \in SUBSET Fresh, ModelAnswers(r, P) PROVE Session!Work
    <2>1. P \cap (ws.pending \cup (accepted \cup rejected)) = {} /\ P \in SUBSET Proposal
      BY <1>2, AnswersInTime DEF Fresh, MapInv, Offered
    <2>2. Session!Answer(P)
      BY <1>2, <2>1, AnswersInTime DEF Session!Answer, MapInv
    <2>3. QED
      BY <1>2, <2>1, <2>2, AnswersInTime DEF Session!Work, MapInv
  <1>3. CASE accept_proposal(r) \/ reject_proposal(r)
    <2>1. PICK p \in Proposal : req[r].arg = {p}
      BY <1>3, DecidesInTime DEF MapInv, OneEach
    <2>2. /\ ~faulty /\ p \in ws.pending
          /\ accepted' \cup rejected' = (accepted \cup rejected) \cup {p}
          /\ \/ ws' = [ws EXCEPT !.assumptions = @ \cup {p}, !.pending = @ \ {p}]
             \/ ws' = [ws EXCEPT !.pending = @ \ {p}]
          /\ UNCHANGED <<status, compiled>>
      BY <1>3, <2>1, DecidesInTime DEF MapInv
    <2>3. p \notin accepted \cup rejected
      BY <2>2 DEF MapInv, IInv, DecidedOnce, Decided
    <2>4. Session!Decide(p)
      BY <2>2, <2>3 DEF Session!Decide
    <2>5. QED
      BY <2>2, <2>4 DEF Session!Work
  <1>4. CASE patch_draft(r)
    <2>1. req[r].arg \in SUBSET Proposal
      BY <1>1 DEF Request
    <2>2. ~faulty /\ UNCHANGED <<status, compiled, accepted, rejected, faulty>>
      BY <1>4, EditsInTime DEF MapInv
    <2>3. CASE ws' = [ws EXCEPT !.assumptions = req[r].arg]
      BY <2>1, <2>2, <2>3 DEF Session!Edit, Session!Work
    <2>4. CASE ws' = ws
      BY <2>2, <2>4 DEF Session!vars
    <2>5. QED
      BY <1>4, <2>3, <2>4, EditsInTime DEF MapInv
  <1>5. CASE ChatLoads(r) \/ CompileLoads(r) \/ PublishBaseline(r)
    BY <1>5 DEF ChatLoads, CompileLoads, PublishBaseline, decisions, Session!vars
  <1>6. QED
    <2>1. \/ \E P \in SUBSET Fresh : ModelAnswers(r, P)
          \/ accept_proposal(r) \/ reject_proposal(r) \/ patch_draft(r)
          \/ ChatLoads(r) \/ CompileLoads(r) \/ PublishBaseline(r)
      BY DEF Step, ModelFails, CommitFails
    <2>2. ASSUME NEW P \in SUBSET Fresh, ModelAnswers(r, P)
          PROVE  Session!Work \/ UNCHANGED Session!vars
      BY <1>2, <2>2, Zenon
    <2>3. QED
      BY <1>3, <1>4, <1>5, <2>1, <2>2, Zenon

(* From a loss on, whatever is saved.                                      *)
LEMMA LossMaps ==
    ASSUME TypeOK', faulty', accepted \subseteq accepted', rejected \subseteq rejected',
           UNCHANGED <<status, compiled>>
    PROVE  Session!Lose
  <1>1. ws' \in Session!Document /\ faulty' = TRUE
    BY DEF TypeOK, Workspace, Session!Document
  <1>2. QED
    BY <1>1 DEF Session!Lose

LEMMA LaterMaps ==
    ASSUME MapInv, IInv', NEW r \in Req, Step(r), ~Commit(r), faulty'
    PROVE  Session!Lose
  <1>1. accepted \subseteq accepted' /\ rejected \subseteq rejected' /\ UNCHANGED <<status, compiled>>
    BY DEF Step, ChatLoads, ModelAnswers, ModelFails, accept_proposal, reject_proposal,
       patch_draft, CompileLoads, PublishBaseline, CommitFails, Rollback, decisions
  <1>2. QED
    BY <1>1, LossMaps DEF IInv

LEMMA MoveMaps ==
    ASSUME status \in DraftStatus, NEW s \in VALID_TRANSITIONS[status], status' = s,
           UNCHANGED <<ws, accepted, rejected, compiled, faulty>>
    PROVE  Session!Next
  <1>1. <<status, s>> \in Session!Moves /\ s \in {"active", "ready_to_commit", "committed", "abandoned"}
    BY DEF VALID_TRANSITIONS, DraftStatus, Session!Moves
  <1>2. Session!Mark(s)
    BY <1>1 DEF Session!Mark
  <1>3. QED
    BY <1>1, <1>2 DEF Session!Next

LEMMA CommitMaps ==
    ASSUME IInv, IInv', NEW r \in Req, Commit(r)
    PROVE  Session!Next \/ UNCHANGED Session!vars
  <1>1. /\ status' = IF req[r].to = "" THEN status ELSE req[r].to
        /\ compiled' = IF req[r].op = "commit_draft" THEN Append(compiled, req[r].copy) ELSE compiled
        /\ UNCHANGED <<ws, accepted, rejected, faulty>>
    BY DEF Commit, decisions
  <1>2. CASE req[r].op = "commit_draft"
    <2>1. /\ status = "ready_to_commit" /\ status' = "committed" /\ compiled = <<>>
          /\ ~faulty => req[r].copy = ws
      BY <1>2, CommitFacts
    <2>2. compiled' = <<req[r].copy>>
      <3>1. compiled' = Append(<<>>, req[r].copy)
        BY <1>1, <1>2, <2>1
      <3>2. QED
        BY <3>1
    <2>3. compiled' \in Seq(Session!Document) /\ Len(compiled') = 1
      <3>1. req[r].copy \in Session!Document
        BY TurnFacts DEF Workspace, Session!Document
      <3>2. QED
        BY <2>2, <3>1
    <2>4. Session!Publish
      BY <1>1, <2>1, <2>2, <2>3 DEF Session!Publish
    <2>5. QED
      BY <2>4 DEF Session!Next
  <1>3. CASE req[r].op # "commit_draft" /\ req[r].to = ""
    BY <1>1, <1>3 DEF Session!vars
  <1>4. CASE req[r].op # "commit_draft" /\ req[r].to # ""
    <2>1. req[r].to \in VALID_TRANSITIONS[status] /\ status \in DraftStatus
      BY <1>4, CommitFacts
    <2>2. QED
      BY <1>1, <1>4, <2>1, MoveMaps
  <1>5. QED
    BY <1>2, <1>3, <1>4

LEMMA OthersMap ==
    ASSUME IInv, IInv', delete_draft \/ LoseConnection
    PROVE  Session!Next
  <1>1. CASE delete_draft
    <2>1. "abandoned" \in VALID_TRANSITIONS[status] /\ status \in DraftStatus
      BY <1>1 DEF delete_draft, IInv, TypeOK, VALID_TRANSITIONS, DraftStatus, Terminal
    <2>2. QED
      BY <1>1, <2>1, MoveMaps DEF delete_draft, decisions
  <1>2. CASE LoseConnection
    BY <1>2, LossMaps DEF LoseConnection, decisions, IInv, Session!Next
  <1>3. QED
    BY <1>1, <1>2

(* routers/drafts.py, behind its locks, copies and losses, is a draft as   *)
(* its clients see it: chats, decisions and edits take effect one after    *)
(* the other on the document as it is, each proposal is decided once, the  *)
(* status follows the table, and the document becomes a baseline once, in  *)
(* the step that commits it.                                               *)
THEOREM SessionRefinement == Spec => ImplementsSession
  <1>1. Init => Session!Init
    BY DEF Init, Empty, Session!Init
  <1>2. ASSUME MapInv, MapInv', [Next]_vars
        PROVE  [Session!Next]_(Session!vars)
    <2>1. IInv /\ IInv'
      BY <1>2 DEF MapInv
    <2>2. ASSUME NEW r \in Req, Step(r) PROVE Session!Next \/ UNCHANGED Session!vars
      <3>1. CASE Commit(r)
        BY <2>1, <3>1, CommitMaps
      <3>2. CASE Rollback(r)
        BY <3>2 DEF Rollback, decisions, Session!vars
      <3>3. CASE ~Commit(r) /\ ~Rollback(r)
        BY <1>2, <2>1, <2>2, <3>3, WorkMaps, LaterMaps DEF Session!Next
      <3>4. QED
        BY <3>1, <3>2, <3>3
    <2>3. CASE \E r \in Req : Arrive(r) \/ Fail(r)
      BY <2>3 DEF Arrive, Starts, Fail, Rollback, decisions, Session!vars
    <2>4. CASE UNCHANGED vars
      BY <2>4 DEF vars, decisions, Session!vars
    <2>5. QED
      BY <1>2, <2>1, <2>2, <2>3, <2>4, OthersMap DEF Next
  <1>3. QED
    BY <1>1, <1>2, MapInductive, PTL DEF Spec, ImplementsSession, Session!Spec
=============================================================================

---------------------------- MODULE ExcelIngestion ----------------------------
(***************************************************************************)
(* The import of one Excel workbook (routers/excel_ingestion.py,           *)
(* services/excel_ingestion.py, services/agent/session_manager.py,         *)
(* excel_mcp_server.py, excel_agent.py).                                   *)
(*                                                                         *)
(* A workbook is uploaded, parsed, classified and mapped, by calls to the  *)
(* language model or by an agent whose events are streamed to the client,  *)
(* and a draft is made of the mapping.  The row of                         *)
(* excel_ingestion_sessions, the artifacts and the drafts are written one  *)
(* after the other, on connections that commit every statement, except in  *)
(* create_draft_from_mapping, which is one transaction.  Requests overlap  *)
(* and may fail between any two writes.                                    *)
(*                                                                         *)
(* One ingestion of one tenant.  What a mapping or a classification says   *)
(* is left out: they are there or not.  JsonDecoded says whether a jsonb   *)
(* column is read as an object, which the readers take for granted, or as  *)
(* text, which asyncpg answers unless a codec is registered.               *)
(***************************************************************************)
EXTENDS Naturals, Sequences

CONSTANTS
    Req,            \* requests in flight together
    Draft,          \* draft ids uuid4 may produce (bounds the run)
    MaxAsks,        \* what users ask for altogether (bounds the run)
    JsonDecoded,    \* jsonb is read as an object
    None

VARIABLES
    row,            \* the row of excel_ingestion_sessions
    art,            \* artifacts stored under the ingestion id
    draft,          \* rows of draft_sessions
    workspace,      \* drafts whose workspace is stored
    asks,           \* what users have asked for so far
    req

vars == <<row, art, draft, workspace, asks, req>>
-----------------------------------------------------------------------------
Found == {"classification", "mapping"}  \* what the agent may submit

NoRow == [status |-> "none", mapping |-> FALSE, draft |-> None, agent |-> "pending",
          session |-> FALSE, question |-> FALSE, state |-> {}]
Row == [status : {"none", "uploaded", "parsing", "parsed", "analyzing", "analyzed",
                  "failed", "draft_created", "deleted"},
        mapping : BOOLEAN, draft : Draft \cup {None},
        agent : {"pending", "running", "paused", "complete", "error"},
        session : BOOLEAN, question : BOOLEAN, state : SUBSET Found]

Event == {"session_start", "session_resume", "classification", "mapping",
          "question", "complete", "error"}

Idle == [pc |-> "idle"]
Request == {Idle} \cup
    [pc : {"insert", "parsing", "parse", "classify", "savecls", "analyzing", "load",
           "map", "save", "commit", "loop", "merge"},
     mode : {"llm", "agent", "stream", "draft"},
     found : SUBSET Found,          \* what the agent has submitted to its tools
     out : Seq(Event),              \* events the stream goes on with
     read : SUBSET Found,           \* agent_state_json as it was read
     draft : Draft \cup {None}]

Init ==
    /\ row = NoRow
    /\ art = {}
    /\ draft = [d \in Draft |-> "none"]
    /\ workspace = {}
    /\ asks = 0
    /\ req = [r \in Req |-> Idle]

Starts(r, pc, mode, found, out) ==
    /\ asks < MaxAsks /\ asks' = asks + 1
    /\ req[r] = Idle
    /\ req' = [req EXCEPT ![r] = [pc |-> pc, mode |-> mode, found |-> found, out |-> out,
                                  read |-> {}, draft |-> None]]
Goes(r, pc) == req' = [req EXCEPT ![r].pc = pc]
Ends(r) == req' = [req EXCEPT ![r] = Idle]

Exists == row.status \notin {"none", "deleted"}
(* An UPDATE of a row that has been deleted changes nothing.               *)
Update(new) == row' = IF Exists THEN new ELSE row
Readable(json) == JsonDecoded \/ json = {}
-----------------------------------------------------------------------------
(* Faulty versions, which the properties tell from the ones below.         *)

(* The draft is committed before its workspace is stored.                  *)
SaveWorkspace_Later(r) ==
    /\ req[r].pc = "save"
    /\ \E d \in Draft :
        /\ draft[d] = "none"
        /\ draft' = [draft EXCEPT ![d] = "active"]
        /\ req' = [req EXCEPT ![r].pc = "commit", ![r].draft = d]
    /\ UNCHANGED <<row, art, workspace, asks>>

(* The question of a stream that has ended is asked with its status only.  *)
Recorded_NoQuestion(event, read) ==
    IF event = "question" THEN [row EXCEPT !.agent = "paused"] ELSE row
-----------------------------------------------------------------------------
(* Upload.                                                                 *)

(* start_ingestion: the file and its artifact are stored ...               *)
start_ingestion(r) ==
    /\ row = NoRow /\ art = {}
    /\ \E mode \in {"llm", "agent", "stream"} : Starts(r, "insert", mode, {}, <<>>)
    /\ art' = art \cup {"upload"}
    /\ UNCHANGED <<row, draft, workspace>>

(* ... before the row.                                                     *)
InsertRow(r) ==
    /\ req[r].pc = "insert"
    /\ row' = [NoRow EXCEPT !.status = "uploaded"]
    /\ IF req[r].mode = "stream"
       THEN req' = [req EXCEPT ![r].pc = "loop", ![r].out = <<"session_start">>]
       ELSE Goes(r, "parsing")
    /\ UNCHANGED <<art, draft, workspace, asks>>

(* parse_and_classify and parse_classify_and_map_agent.                    *)
MarkParsing(r) ==
    /\ req[r].pc = "parsing"
    /\ Update([row EXCEPT !.status = "parsing"])
    /\ Goes(r, "parse")
    /\ UNCHANGED <<art, draft, workspace, asks>>

SaveParse(r) ==
    /\ req[r].pc = "parse"
    /\ art' = art \cup {"parse"}
    /\ Goes(r, "classify")
    /\ UNCHANGED <<row, draft, workspace, asks>>

Classified(r) ==
    /\ req[r].pc = "classify" /\ req[r].mode = "llm"
    /\ Update([row EXCEPT !.status = "parsed"])
    /\ Goes(r, "savecls")
    /\ UNCHANGED <<art, draft, workspace, asks>>

ClassifiedAndMapped(r) ==
    /\ req[r].pc = "classify" /\ req[r].mode = "agent"
    /\ Update([row EXCEPT !.status = "analyzed", !.mapping = TRUE])
    /\ Goes(r, "savecls")
    /\ UNCHANGED <<art, draft, workspace, asks>>

(* An LLMError, or any error of the agent, in either half.                 *)
MarkFailed(r) ==
    /\ req[r].pc \in {"classify", "map"}
    /\ Update([row EXCEPT !.status = "failed"])
    /\ Ends(r)
    /\ UNCHANGED <<art, draft, workspace, asks>>

SaveClassification(r) ==
    /\ req[r].pc = "savecls"
    /\ art' = art \cup {"classification"}
    /\ Ends(r)
    /\ UNCHANGED <<row, draft, workspace, asks>>
-----------------------------------------------------------------------------
(* Analysis, also with the answers to the model's questions.               *)

trigger_analyze(r) ==
    /\ row.status \in {"parsed", "analyzed"}
    /\ Starts(r, "analyzing", "llm", {}, <<>>)
    /\ UNCHANGED <<row, art, draft, workspace>>

MarkAnalyzing(r) ==
    /\ req[r].pc = "analyzing"
    /\ Update([row EXCEPT !.status = "analyzing"])
    /\ Goes(r, "load")
    /\ UNCHANGED <<art, draft, workspace, asks>>

(* Without one of the artifacts the row stays analyzing.                   *)
LoadArtifacts(r) ==
    /\ req[r].pc = "load"
    /\ IF {"parse", "classification"} \subseteq art THEN Goes(r, "map") ELSE Ends(r)
    /\ UNCHANGED <<row, art, draft, workspace, asks>>

Mapped(r) ==
    /\ req[r].pc = "map"
    /\ Update([row EXCEPT !.status = "analyzed", !.mapping = TRUE])
    /\ Ends(r)
    /\ UNCHANGED <<art, draft, workspace, asks>>
-----------------------------------------------------------------------------
(* create_draft reads the row without a lock ...                           *)
create_draft(r) ==
    /\ row.status = "analyzed"
    /\ Readable({"mapping"})
    /\ Starts(r, "save", "draft", {}, <<>>)
    /\ UNCHANGED <<row, art, draft, workspace>>

(* ... stores the workspace within the transaction ...                     *)
SaveWorkspace(r) ==
    /\ req[r].pc = "save"
    /\ \E d \in Draft \ workspace :
        /\ workspace' = workspace \cup {d}
        /\ req' = [req EXCEPT ![r].pc = "commit", ![r].draft = d]
    /\ UNCHANGED <<row, art, draft, asks>>

(* ... that inserts the draft and links it.                                *)
create_draft_from_mapping(r) ==
    /\ req[r].pc = "commit"
    /\ draft' = [draft EXCEPT ![req[r].draft] = "active"]
    /\ Update([row EXCEPT !.status = "draft_created", !.draft = req[r].draft])
    /\ Ends(r)
    /\ UNCHANGED <<art, workspace, asks>>

delete_ingestion ==
    /\ Exists
    /\ asks < MaxAsks /\ asks' = asks + 1
    /\ row' = [NoRow EXCEPT !.status = "deleted"]
    /\ UNCHANGED <<art, draft, workspace, req>>
-----------------------------------------------------------------------------
(* The agent's stream.                                                     *)

(* answer_and_stream resumes the session that is paused when it is read,   *)
(* with the state that was recorded.                                       *)
answer_and_stream(r) ==
    /\ row.agent = "paused" /\ row.session
    /\ "upload" \in art
    /\ Readable(row.state)
    /\ Starts(r, "loop", "stream", row.state, <<"session_resume">>)
    /\ UNCHANGED <<row, art, draft, workspace>>

(* The tools note what the agent submits and asks in the state of the      *)
(* stream.                                                                 *)
Submitted(r) == {S \in SUBSET Found : req[r].found \subseteq S}

(* _run_agent_loop, one message: what is new is announced, classification  *)
(* first; a question ends the stream before a mapping is looked for.       *)
AgentTurn(r) ==
    /\ req[r].pc = "loop" /\ req[r].out = <<>>
    /\ \E S \in Submitted(r), asked \in BOOLEAN :
        LET new(x) == IF x \in S \ req[r].found THEN <<x>> ELSE <<>>
        IN  /\ asked \/ S # req[r].found
            /\ req' = [req EXCEPT ![r].found = S,
                  ![r].out = new("classification") \o
                             (IF asked THEN <<"question">> ELSE new("mapping"))]
    /\ UNCHANGED <<row, art, draft, workspace, asks>>

(* ResultMessage, the end of the messages, or an exception.                *)
AgentEnds(r) ==
    /\ req[r].pc = "loop" /\ req[r].out = <<>>
    /\ \E e \in {"complete", "error"} : req' = [req EXCEPT ![r].out = <<e>>]
    /\ UNCHANGED <<row, art, draft, workspace, asks>>

(* What _persist_stream_state makes of the row for an event; read is what  *)
(* the agent has found for complete, what the row held for the others.     *)
Recorded(event, read) ==
    CASE event = "session_start" -> [row EXCEPT !.session = TRUE, !.agent = "running"]
      [] event = "session_resume" -> [row EXCEPT !.agent = "running", !.question = FALSE]
      [] event = "question" -> [row EXCEPT !.agent = "paused", !.question = TRUE]
      [] event = "complete" ->
            [row EXCEPT !.agent = "complete", !.state = read, !.question = FALSE]
      [] event = "error" -> [row EXCEPT !.agent = "error"]
      [] OTHER -> [row EXCEPT !.state = read \cup {event}]

(* The frame has been sent; a snapshot reads the state it merges into ...  *)
ReadState(r) ==
    /\ req[r].pc = "loop" /\ req[r].out # <<>>
    /\ Head(req[r].out) \in Found
    /\ req' = [req EXCEPT ![r].pc = "merge", ![r].read = row.state]
    /\ UNCHANGED <<row, art, draft, workspace, asks>>

(* ... and every event is recorded by one UPDATE.                          *)
_persist_stream_state(r) ==
    /\ req[r].pc \in {"loop", "merge"} /\ req[r].out # <<>>
    /\ LET event == Head(req[r].out)
       IN  /\ event \in Found => req[r].pc = "merge"
           /\ Update(Recorded(event, IF event = "complete" THEN req[r].found ELSE req[r].read))
           /\ IF event \in {"question", "complete", "error"} THEN Ends(r)
              ELSE req' = [req EXCEPT ![r].pc = "loop", ![r].out = Tail(@)]
    /\ UNCHANGED <<art, draft, workspace, asks>>
-----------------------------------------------------------------------------
(* A statement or a store fails, the client goes away, the server stops.   *)
Fail(r) ==
    /\ req[r] # Idle
    /\ Ends(r)
    /\ UNCHANGED <<row, art, draft, workspace, asks>>

Next ==
    \/ delete_ingestion
    \/ \E r \in Req :
        \/ start_ingestion(r) \/ InsertRow(r) \/ MarkParsing(r) \/ SaveParse(r)
        \/ Classified(r) \/ ClassifiedAndMapped(r) \/ MarkFailed(r) \/ SaveClassification(r)
        \/ trigger_analyze(r) \/ MarkAnalyzing(r) \/ LoadArtifacts(r) \/ Mapped(r)
        \/ create_draft(r) \/ SaveWorkspace(r) \/ create_draft_from_mapping(r)
        \/ answer_and_stream(r) \/ AgentTurn(r) \/ AgentEnds(r)
        \/ ReadState(r) \/ _persist_stream_state(r) \/ Fail(r)

Spec == Init /\ [][Next]_vars
-----------------------------------------------------------------------------
TypeOK ==
    /\ row \in Row
    /\ art \subseteq {"upload", "parse", "classification"}
    /\ draft \in [Draft -> {"none", "active"}]
    /\ workspace \subseteq Draft
    /\ asks \in 0..MaxAsks
    /\ \A r \in Req : req[r] \in Request

(* Whatever overlaps and wherever it fails, the row keeps its promises: a  *)
(* status that lets a draft be made comes with a mapping and the parse it  *)
(* was made from, a link leads to a draft whose workspace is stored, as    *)
(* every draft's is, and a paused session has a question to answer and the *)
(* session to resume.                                                      *)
RowKeepsPromises ==
    /\ row.status \in {"analyzed", "draft_created"} => row.mapping /\ "parse" \in art
    /\ row.status = "draft_created" => draft[row.draft] = "active"
    /\ \A d \in Draft : draft[d] = "active" => d \in workspace
    /\ row.agent = "paused" => row.question /\ row.session

(* session_manager.py:139-144: what the agent submits is announced, and so *)
(* recorded: when a stream pauses, the row holds what its agent has found. *)
PausedStateIsWhole ==
    [][\A r \in Req :
        (req[r].pc = "loop" /\ req[r].out = <<"question">> /\ row'.agent = "paused"
            /\ row'.question /\ ~row.question)
          => req[r].found \subseteq row'.state]_vars
=============================================================================

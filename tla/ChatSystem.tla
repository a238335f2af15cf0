----------------------------- MODULE ChatSystem -----------------------------
(***************************************************************************)
(* The chat path: chat-gateway's sessions and chat-agent, joined by the    *)
(* requests and responses of AgentStream.  A step is a step of one of the  *)
(* two; browsers, Postgres, Redis, the model and the backends appear as    *)
(* the choices those steps leave open.                                     *)
(***************************************************************************)
EXTENDS ChatGateway, ChatAgent

vars == <<wire, gatewayVars, agentVars>>

NoRequest == [role |-> "customer", actor |-> NoCustomer, target |-> NoCustomer,
              turn |-> 0, history |-> <<>>]

Init ==
  /\ GatewayInit /\ AgentInit
  /\ request = [s \in Sessions |-> NoRequest]
  /\ stream = [s \in Sessions |-> <<>>]
  /\ got = [s \in Sessions |-> 0]
  /\ body = [s \in Sessions |-> "none"]

Next ==
  \/ GatewayNext /\ UNCHANGED agentVars
  \/ AgentNext /\ UNCHANGED gatewayVars

Spec == Init /\ [][Next]_vars

\* The goroutine of a session goes on, and so does the agent: the model, the
\* backends (behind a 15 s timeout) and the stores answer, and a run is
\* finite because the agent loop is.  Nobody has to write, fail or leave.
AgentProgress(s) ==
  \/ StartRun(s) \/ ModelText(s) \/ ToolStart(s)
  \/ ToolTakesEffect(s) \/ ToolEnd(s) \/ ToolError(s)
  \/ WriteText(s) \/ WriteCall(s) \/ WriteResult(s) \/ Finish(s)

FairSpec ==
  /\ Spec
  /\ \A s \in Sessions :
       /\ WF_vars(TurnStep(s) /\ UNCHANGED agentVars)
       /\ WF_vars(AgentProgress(s) /\ UNCHANGED gatewayVars)

InTurn(s) == pc[s] \notin {"down", "read"}

-----------------------------------------------------------------------------
TypeOK == GatewayTypeOK /\ AgentTypeOK

(***************************************************************************)
(* "On done, the assembled assistant reply is persisted": a reply is only  *)
(* stored when the response came to its regular end, and then it holds     *)
(* every token of that response, in order, and nothing of another turn.    *)
(***************************************************************************)
StoredReplyWhole ==
  [][\A c \in Conversations : messages'[c] # messages[c] =>
       LET row == messages'[c][Len(messages'[c])]
       IN  row.role = "assistant" =>
             \E s \in Sessions :
               /\ turn[s] = row.turn /\ conversationID[s] = c
               /\ Complete(stream[s]) /\ Assembles(row.text, Tokens(stream[s]))]_vars

(***************************************************************************)
(* Rows of a conversation make sense to whoever reads it back: the         *)
(* conversation exists, a turn has at most one row of each role, and a     *)
(* reply stands after the message it answers, however the sessions that    *)
(* share the conversation interleave.                                      *)
(***************************************************************************)
RowsInOrder ==
  \A c \in Conversations :
    /\ messages[c] # <<>> => conversations[c] # NoCustomer
    /\ \A i, j \in 1..Len(messages[c]) :
         i < j /\ messages[c][i].turn = messages[c][j].turn =>
           messages[c][i].role = "user" /\ messages[c][j].role = "assistant"
    /\ \A j \in 1..Len(messages[c]) : messages[c][j].role = "assistant" =>
         \E i \in 1..(j - 1) : messages[c][i].turn = messages[c][j].turn

(***************************************************************************)
(* A turn that is over has been answered by exactly one done or error      *)
(* frame, on every path through the handler, also when chat-agent cannot   *)
(* be reached or dies before it responds, unless the browser has left or   *)
(* chat-agent died in the middle of the response to this very turn.        *)
(***************************************************************************)
OneAnswerPerTurn ==
  \A s \in Sessions :
    /\ answers[s] <= 1
    /\ pc[s] = "read" /\ turn[s] # 0 /\ ~left[s] => answers[s] = 1 \/ turn[s] \in cut

Audited(e) == \E row \in auditLog : row.turn = e.turn /\ row.at = e.at

(***************************************************************************)
(* "tool_call events with audit:true are recorded to audit_log": once the  *)
(* line that announces it has been read, a change of a backend has its row *)
(* in audit_log, as long as the browser stays and nothing fails.           *)
(***************************************************************************)
ReadEffectsAudited ==
  \A s \in Sessions : ~left[s] /\ faults = 0 /\ crashes = 0 =>
    \A e \in effects[s] :
      Audited(e) \/ (e.turn = request[s].turn /\ InTurn(s) /\ got[s] < e.at)

(***************************************************************************)
(* The same without the exception for browsers that leave: what the        *)
(* gateway's README says, and the handler does not do.                     *)
(***************************************************************************)
EffectsAudited ==
  \A s \in Sessions : faults = 0 /\ crashes = 0 =>
    \A e \in effects[s] :
      Audited(e) \/ (e.turn = request[s].turn /\ InTurn(s) /\ got[s] < e.at)

(***************************************************************************)
(* "Never trust a client-supplied id for a customer's own scope": whatever *)
(* a customer's client asks for, what the turn changes in the backends,    *)
(* what it is audited as and whom it is sent to the agent for is that      *)
(* customer, in the customer's role.                                       *)
(***************************************************************************)
CustomerScope ==
  \A s \in Sessions : SubOf[s] \in Customers =>
    /\ \A e \in effects[s] : e.customer = SubOf[s]
    /\ \A row \in auditLog : row.actor = SubOf[s] =>
         row.target = SubOf[s] /\ row.name \in CustomerTools
    /\ body[s] # "none" => request[s].target = SubOf[s] /\ request[s].actor = SubOf[s]

(***************************************************************************)
(* A turn that the limiter refused, or that failed before its message was  *)
(* stored, never reaches chat-agent: a request in flight, or a change a    *)
(* run has made, belongs to a turn whose message is on record.             *)
(***************************************************************************)
OnlyStoredTurnsRun ==
  \A s \in Sessions : body[s] # "none" =>
    \E c \in Conversations : \E i \in 1..Len(messages[c]) :
      messages[c][i] = UserRow(request[s].turn)

(***************************************************************************)
(* "up to limit prior messages": the messages the model is given           *)
(* (_build_messages: the history, then the message) hold no message twice. *)
(***************************************************************************)
ModelInput(s) == request[s].history \o <<UserRow(request[s].turn)>>

NoMessageTwice ==
  \A s \in Sessions : body[s] # "none" =>
    \A i, j \in 1..Len(ModelInput(s)) :
      i # j => ModelInput(s)[i] # ModelInput(s)[j]

(***************************************************************************)
(* "a conversation's subject is always the customer it concerns": the      *)
(* target of a turn is the subject of the conversation it is stored in.    *)
(***************************************************************************)
SubjectIsTarget ==
  \A s \in Sessions : pc[s] \in {"persist", "history", "post", "call", "stream"} =>
    conversations[conversationID[s]] = target[s]

(***************************************************************************)
(* What a browser sees of all this is TurnFrames: whatever fails, in the   *)
(* agent or in the gateway, a turn is answered once at most, and no frame  *)
(* follows the answer.                                                     *)
(***************************************************************************)
Frames ==
  INSTANCE TurnFrames WITH
    Connections <- Sessions,
    phase <- [s \in Sessions |-> CASE pc[s] = "down" -> "down"
                                   [] pc[s] = "read" -> "idle"
                                   [] OTHER -> "turn"],
    answered <- answers,
    forwarded <- [s \in Sessions |-> IF pc[s] = "stream" THEN got[s] ELSE 0]

ImplementsTurnFrames == Frames!FramesSpec

(***************************************************************************)
(* Every turn comes to an end: the session is ready for the next message,  *)
(* or it is over; also when the browser leaves or chat-agent dies.         *)
(***************************************************************************)
TurnsEnd == \A s \in Sessions : InTurn(s) ~> ~InTurn(s)
=============================================================================

---------------------------- MODULE ChatGateway ----------------------------
(***************************************************************************)
(* chat-gateway's websocket sessions, `handlers_ws.go` over `db.go` and    *)
(* `agent.go`.  One goroutine per connection serves its turns one after    *)
(* the other: resolve target and conversation, make sure the conversation  *)
(* row exists, ask the rate limiter, insert the user's message, load the   *)
(* history, call chat-agent, and act on each line of the response.  Each   *)
(* of these is a round trip to Postgres, Redis or chat-agent and a step of *)
(* its own, so the sessions interleave between them, a call may fail with  *)
(* or without its effect, the browser may go and the process may die.      *)
(*                                                                         *)
(* The rate limiter is seen from here as what it answers; RateLimiter says *)
(* which answers it gives.  A message is its turn's number, a reply the    *)
(* positions of its tokens in the response.                                *)
(***************************************************************************)
EXTENDS AgentStream, FiniteSets

CONSTANTS
  SubOf,            \* the JWT subject of each session
  Employees,        \* agent ids; every other subject is a customer
  Conversations,    \* conversation ids
  NoConversation,   \* no id supplied or none established yet
  HistoryLimit,     \* historyLimit
  MayLeave,         \* bound: sessions whose browser may go away
  MaxTurns,         \* bound: turns modelled
  MaxFaults         \* bound: failed calls and crashes of the gateway

ASSUME SubOfAssumption == SubOf \in [Sessions -> Customers \cup Employees]
ASSUME RolesAssumption == Customers \cap Employees = {}
ASSUME ConversationAssumption == NoConversation \notin Conversations
ASSUME HistoryLimitAssumption == HistoryLimit \in Nat \ {0}
ASSUME BoundsAssumption == {MaxTurns, MaxFaults} \subseteq Nat

VARIABLES
  pc,               \* where each session is in its turn
  conn,             \* "up", "gone" (the browser left), "broken" (a write failed)
  conversationID,   \* wsSession.conversationID
  target,           \* targetCustomerID of the turn
  turn,             \* number of the session's last turn
  reply,            \* assembledReply
  conversations,    \* subject of each conversation row; NoCustomer without a row
  messages,         \* rows of each conversation in the order of their ids
  auditLog,         \* rows of audit_log
  answers,          \* history: done and error frames written in this turn
  left,             \* history: the browser of the session has left once
  turns,            \* turns so far
  faults            \* faults so far

gatewayVars ==
  <<pc, conn, conversationID, target, turn, reply, conversations, messages,
    auditLog, answers, left, turns, faults>>

session == <<conversationID, target, turn, reply>>
store == <<conversations, messages, auditLog>>
bounds == <<left, turns>>

Role(s) == IF SubOf[s] \in Employees THEN "employee" ELSE "customer"

\* The schema, of a database that holds nothing yet.
StoreInit ==
  /\ conversations = [c \in Conversations |-> NoCustomer]
  /\ messages = [c \in Conversations |-> <<>>]
  /\ auditLog = {}

GatewayInit ==
  /\ StoreInit
  /\ pc = [s \in Sessions |-> "down"]
  /\ conn = [s \in Sessions |-> "up"]
  /\ conversationID = [s \in Sessions |-> NoConversation]
  /\ target = [s \in Sessions |-> NoCustomer]
  /\ turn = [s \in Sessions |-> 0]
  /\ reply = [s \in Sessions |-> <<>>]
  /\ answers = [s \in Sessions |-> 0]
  /\ left = [s \in Sessions |-> FALSE]
  /\ turns = 0 /\ faults = 0

Fault == faults < MaxFaults /\ faults' = faults + 1
Go(s, next) == pc' = [pc EXCEPT ![s] = next]

UserRow(t) == [role |-> "user", turn |-> t, text |-> <<>>]
AssistantRow(t, text) == [role |-> "assistant", turn |-> t, text |-> text]

\* insertMessage
Insert(c, row) == messages' = [messages EXCEPT ![c] = Append(@, row)]

\* sendError: the turn is over whether or not the browser gets the frame; a
\* connection that failed a write fails every later one.
SendError(s) ==
  /\ Go(s, "read")
  /\ \/ /\ conn[s] # "broken" /\ UNCHANGED conn
        /\ answers' = [answers EXCEPT ![s] = @ + 1]
     \/ /\ conn[s] # "up" /\ conn' = [conn EXCEPT ![s] = "broken"]
        /\ UNCHANGED answers

\* handleWebSocket: a valid token, an upgraded connection, a new session.
Connect(s) ==
  /\ pc[s] = "down" /\ Go(s, "read")
  /\ conn' = [conn EXCEPT ![s] = "up"]
  /\ conversationID' = [conversationID EXCEPT ![s] = NoConversation]
  /\ turn' = [turn EXCEPT ![s] = 0]
  /\ answers' = [answers EXCEPT ![s] = 0]
  /\ UNCHANGED <<wire, target, reply, store, bounds, faults>>

\* A frame that is not a chat message, or an employee's without a target.
ReceiveInvalid(s) ==
  /\ pc[s] = "read"
  /\ \/ conn[s] # "broken" /\ UNCHANGED conn /\ answers' = [answers EXCEPT ![s] = 1]
     \/ /\ conn[s] # "up" /\ conn' = [conn EXCEPT ![s] = "broken"]
        /\ answers' = [answers EXCEPT ![s] = 0]
  /\ UNCHANGED <<wire, pc, session, store, bounds, faults>>

\* newConversationID: an id nobody has seen.
Fresh == {c \in Conversations : conversations[c] = NoCustomer
                                /\ \A s \in Sessions : conversationID[s] # c}

\* Mutant of Receive: the client's targetCustomerId is believed.
ReceiveTrusting(s) ==
  /\ pc[s] = "read" /\ turns < MaxTurns
  /\ \E asked \in Customers : target' = [target EXCEPT ![s] = asked]
  /\ \E c \in Conversations : conversationID' = [conversationID EXCEPT ![s] = c]
  /\ turns' = turns + 1
  /\ turn' = [turn EXCEPT ![s] = turns + 1]
  /\ reply' = [reply EXCEPT ![s] = <<>>]
  /\ answers' = [answers EXCEPT ![s] = 0]
  /\ Go(s, "ensure")
  /\ UNCHANGED <<wire, conn, store, left, faults>>

\* A chat message: target and conversation are resolved.
Receive(s) ==
  /\ pc[s] = "read" /\ turns < MaxTurns
  /\ \E asked \in Customers :
       target' = [target EXCEPT ![s] = IF Role(s) = "customer" THEN SubOf[s] ELSE asked]
  /\ \E supplied \in Conversations \cup {NoConversation} :
       \E c \in (CASE supplied # NoConversation -> {supplied}
                   [] conversationID[s] # NoConversation -> {conversationID[s]}
                   [] OTHER -> Fresh) :
         conversationID' = [conversationID EXCEPT ![s] = c]
  /\ turns' = turns + 1
  /\ turn' = [turn EXCEPT ![s] = turns + 1]
  /\ reply' = [reply EXCEPT ![s] = <<>>]
  /\ answers' = [answers EXCEPT ![s] = 0]
  /\ Go(s, "ensure")
  /\ UNCHANGED <<wire, conn, store, left, faults>>

\* Mutant of Ensure: an id the client supplied is taken to exist.
EnsureNothing(c, customer) == UNCHANGED conversations

\* ensureConversation: INSERT ... ON CONFLICT DO NOTHING
Ensure(c, customer) ==
  conversations' = [conversations EXCEPT ![c] = IF @ = NoCustomer THEN customer ELSE @]

EnsureConversation(s) ==
  /\ pc[s] = "ensure" /\ Go(s, "allow")
  /\ Ensure(conversationID[s], target[s])
  /\ UNCHANGED <<wire, conn, session, messages, auditLog, answers, bounds, faults>>

EnsureFails(s) ==
  /\ pc[s] = "ensure" /\ Fault /\ SendError(s)
  /\ Ensure(conversationID[s], target[s]) \/ UNCHANGED conversations
  /\ UNCHANGED <<wire, session, messages, auditLog, bounds>>

Allowed(s) ==
  /\ pc[s] = "allow" /\ Go(s, "persist")
  /\ UNCHANGED <<wire, conn, session, store, answers, bounds, faults>>

\* Mutant of Denied: the refusal is only logged.
DeniedSilently(s) ==
  /\ pc[s] = "allow" /\ Go(s, "read")
  /\ UNCHANGED <<wire, conn, session, store, answers, bounds, faults>>

Denied(s) ==
  /\ pc[s] = "allow" /\ SendError(s)
  /\ UNCHANGED <<wire, session, store, bounds, faults>>

AllowFails(s) ==
  /\ pc[s] = "allow" /\ Fault /\ SendError(s)
  /\ UNCHANGED <<wire, session, store, bounds>>

\* Mutant of PersistUser: the message is not stored.
PersistNothing(s) ==
  /\ pc[s] = "persist" /\ Go(s, "history")
  /\ UNCHANGED <<wire, conn, session, store, answers, bounds, faults>>

PersistUser(s) ==
  /\ pc[s] = "persist" /\ Go(s, "history")
  /\ Insert(conversationID[s], UserRow(turn[s]))
  /\ UNCHANGED <<wire, conn, session, conversations, auditLog, answers, bounds, faults>>

\* Mutant of PersistFails: the failure is only logged.
PersistFailsOnlyLogged(s) ==
  /\ pc[s] = "persist" /\ Fault /\ Go(s, "history")
  /\ UNCHANGED <<wire, conn, session, store, answers, bounds>>

PersistFails(s) ==
  /\ pc[s] = "persist" /\ Fault /\ SendError(s)
  /\ Insert(conversationID[s], UserRow(turn[s])) \/ UNCHANGED messages
  /\ UNCHANGED <<wire, session, conversations, auditLog, bounds>>

\* recentHistory: the last rows of the conversation, oldest first.
RecentHistory(c) ==
  LET n == Len(messages[c])
  IN  SubSeq(messages[c], IF n > HistoryLimit THEN n - HistoryLimit + 1 ELSE 1, n)

LoadHistory(s) ==
  /\ pc[s] = "history" /\ Go(s, "post")
  /\ request' = [request EXCEPT ![s] =
       [role |-> Role(s), actor |-> SubOf[s], target |-> target[s], turn |-> turn[s],
        history |-> RecentHistory(conversationID[s])]]
  /\ UNCHANGED <<stream, got, body, conn, session, store, answers, bounds, faults>>

HistoryFails(s) ==
  /\ pc[s] = "history" /\ Fault /\ SendError(s)
  /\ UNCHANGED <<wire, session, store, bounds>>

\* StreamTurn sends the request ...
PostTurn(s) ==
  /\ pc[s] = "post" /\ Go(s, "call")
  /\ body' = [body EXCEPT ![s] = "called"]
  /\ stream' = [stream EXCEPT ![s] = <<>>]
  /\ got' = [got EXCEPT ![s] = 0]
  /\ UNCHANGED <<request, conn, session, store, answers, bounds, faults>>

\* ... and returns the body of a successful response, or an error.
StreamStarts(s) ==
  /\ pc[s] = "call" /\ body[s] \in {"open", "closed"} /\ Go(s, "stream")
  /\ UNCHANGED <<wire, conn, session, store, answers, bounds, faults>>

AgentUnavailable(s) ==
  /\ pc[s] = "call" /\ body[s] = "refused" /\ SendError(s)
  /\ body' = [body EXCEPT ![s] = "none"]
  /\ UNCHANGED <<request, stream, got, session, store, bounds, faults>>

Reading(s) == pc[s] = "stream" /\ got[s] < Len(stream[s])
Line(s) == stream[s][got[s] + 1]
Consume(s) == got' = [got EXCEPT ![s] = @ + 1]

\* handleAgentLine forwards the line first ...
Forward(s, type) ==
  /\ Reading(s) /\ Line(s).type = type /\ Consume(s)
  /\ conn[s] # "broken"
  /\ UNCHANGED <<request, stream, body, pc, conn, conversationID, target, turn,
                 conversations, bounds>>

\* ... and does nothing else with a line the browser cannot be sent.
ForwardFails(s) ==
  /\ Reading(s) /\ Consume(s)
  /\ conn[s] # "up" /\ conn' = [conn EXCEPT ![s] = "broken"]
  /\ UNCHANGED <<request, stream, body, pc, session, store, answers, bounds, faults>>

OnToken(s) ==
  /\ Forward(s, "token")
  /\ reply' = [reply EXCEPT ![s] = Append(@, got[s] + 1)]
  /\ UNCHANGED <<messages, auditLog, answers, faults>>

AuditRow(s, line) ==
  [actor |-> SubOf[s], role |-> Role(s), turn |-> turn[s], at |-> got[s] + 1,
   name |-> line.call.name,
   target |-> IF line.target = NoCustomer THEN target[s] ELSE line.target]

\* Mutant of OnToolCall: customers' own changes are not audited.
OnToolCallEmployeesOnly(s) ==
  /\ Forward(s, "tool_call")
  /\ IF Line(s).audit /\ Role(s) = "employee"
       THEN auditLog' = auditLog \cup {AuditRow(s, Line(s))}
       ELSE UNCHANGED auditLog
  /\ UNCHANGED <<reply, messages, answers, faults>>

\* A failed insertAudit is only logged, and may have been applied.
OnToolCall(s) ==
  /\ Forward(s, "tool_call")
  /\ \/ Line(s).audit /\ auditLog' = auditLog \cup {AuditRow(s, Line(s))} /\ UNCHANGED faults
     \/ Line(s).audit /\ Fault /\ UNCHANGED auditLog
     \/ ~Line(s).audit /\ UNCHANGED <<auditLog, faults>>
  /\ UNCHANGED <<reply, messages, answers>>

OnToolResult(s) ==
  /\ Forward(s, "tool_result")
  /\ UNCHANGED <<reply, messages, auditLog, answers, faults>>

\* The assembled reply is stored; a failed insert is only logged.
OnDone(s) ==
  /\ Forward(s, "done")
  /\ \/ reply[s] = <<>> /\ UNCHANGED <<messages, faults>>
     \/ /\ reply[s] # <<>> /\ UNCHANGED faults
        /\ Insert(conversationID[s], AssistantRow(turn[s], reply[s]))
     \/ reply[s] # <<>> /\ Fault /\ UNCHANGED messages
  /\ reply' = [reply EXCEPT ![s] = <<>>]
  /\ answers' = [answers EXCEPT ![s] = @ + 1]
  /\ UNCHANGED auditLog

\* Mutant of OnError: what there is of the reply is stored.
OnErrorStoresPartial(s) ==
  /\ Forward(s, "error")
  /\ IF reply[s] = <<>> THEN UNCHANGED messages
       ELSE Insert(conversationID[s], AssistantRow(turn[s], reply[s]))
  /\ answers' = [answers EXCEPT ![s] = @ + 1]
  /\ UNCHANGED <<reply, auditLog, faults>>

OnError(s) ==
  /\ Forward(s, "error")
  /\ answers' = [answers EXCEPT ![s] = @ + 1]
  /\ UNCHANGED <<reply, messages, auditLog, faults>>

\* Mutants of StreamEnds: a response without done is reported as an error,
\* reading goes on until done or error has been seen.
StreamEndsReporting(s) ==
  /\ pc[s] = "stream" /\ body[s] = "closed" /\ got[s] = Len(stream[s])
  /\ IF Complete(stream[s]) THEN Go(s, "read") /\ UNCHANGED <<conn, answers>> ELSE SendError(s)
  /\ body' = [body EXCEPT ![s] = "none"]
  /\ UNCHANGED <<request, stream, got, session, store, bounds, faults>>

StreamEndsByTerminator(s) ==
  /\ pc[s] = "stream" /\ body[s] = "closed" /\ got[s] = Len(stream[s])
  /\ got[s] > 0 /\ stream[s][got[s]] \in Terminators
  /\ Go(s, "read")
  /\ body' = [body EXCEPT ![s] = "none"]
  /\ UNCHANGED <<request, stream, got, conn, session, store, answers, bounds, faults>>

\* The response has been read to its end, regular or not.
StreamEnds(s) ==
  /\ pc[s] = "stream" /\ body[s] = "closed" /\ got[s] = Len(stream[s])
  /\ Go(s, "read")
  /\ body' = [body EXCEPT ![s] = "none"]
  /\ UNCHANGED <<request, stream, got, conn, session, store, answers, bounds, faults>>

\* ReadMessage fails: the session is over.
Disconnect(s) ==
  /\ pc[s] = "read" /\ conn[s] # "up" /\ Go(s, "down")
  /\ UNCHANGED <<wire, conn, session, store, answers, bounds, faults>>

\* The browser goes away; the gateway learns of it by a failing call.
BrowserLeaves(s) ==
  /\ s \in MayLeave /\ ~left[s] /\ pc[s] # "down"
  /\ conn' = [conn EXCEPT ![s] = "gone"]
  /\ left' = [left EXCEPT ![s] = TRUE]
  /\ UNCHANGED <<wire, pc, session, store, answers, turns, faults>>

\* The process stops, with whatever its sessions were doing: Shutdown does
\* not wait for upgraded connections.
GatewayCrash ==
  /\ Fault
  /\ pc' = [s \in Sessions |-> "down"]
  /\ body' = [s \in Sessions |-> "none"]
  /\ UNCHANGED <<request, stream, got, conn, session, store, answers, bounds>>

TurnStep(s) ==
  \/ EnsureConversation(s) \/ EnsureFails(s)
  \/ Allowed(s) \/ Denied(s) \/ AllowFails(s)
  \/ PersistUser(s) \/ PersistFails(s)
  \/ LoadHistory(s) \/ HistoryFails(s)
  \/ PostTurn(s) \/ StreamStarts(s) \/ AgentUnavailable(s)
  \/ ForwardFails(s) \/ OnToken(s) \/ OnToolCall(s) \/ OnToolResult(s) \/ OnDone(s)
  \/ OnError(s) \/ StreamEnds(s)

BrowserStep(s) ==
  Connect(s) \/ ReceiveInvalid(s) \/ Receive(s) \/ Disconnect(s) \/ BrowserLeaves(s)

GatewayNext == GatewayCrash \/ \E s \in Sessions : TurnStep(s) \/ BrowserStep(s)

-----------------------------------------------------------------------------
Rows == [role : {"user", "assistant"}, turn : 1..MaxTurns, text : Seq(Nat)]

GatewayTypeOK ==
  /\ pc \in [Sessions -> {"down", "read", "ensure", "allow", "persist", "history",
                         "post", "call", "stream"}]
  /\ conn \in [Sessions -> {"up", "gone", "broken"}]
  /\ conversationID \in [Sessions -> Conversations \cup {NoConversation}]
  /\ target \in [Sessions -> Customers \cup {NoCustomer}]
  /\ conversations \in [Conversations -> Customers \cup {NoCustomer}]
  /\ messages \in [Conversations -> Seq(Rows)]
  /\ \A row \in auditLog :
       row.actor \in Customers \cup Employees /\ row.target \in Customers
  /\ answers \in [Sessions -> 0..1]
  /\ faults \in 0..MaxFaults
=============================================================================

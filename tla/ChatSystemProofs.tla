-------------------------- MODULE ChatSystemProofs --------------------------
(***************************************************************************)
(* Proofs about the chat path, for any number of sessions, conversations,  *)
(* turns, lines and faults: a customer's turn concerns that customer only, *)
(* in the gateway, in the agent and in what the gateway records of it.     *)
(***************************************************************************)
EXTENDS ChatSystem, TLAPS

\* A session whose user is a customer.
Own(s) == SubOf[s] \in Customers

MaybeCustomer == Customers \cup {NoCustomer}

\* AnyLine, of turns whose customer may be anybody.
SomeLine ==
  {Token} \cup Terminators
  \cup [type : {"tool_call"}, call : AllCalls, audit : BOOLEAN, target : MaybeCustomer]
  \cup [type : {"tool_result"}, at : Nat, failed : BOOLEAN]

Busy == {"ensure", "allow", "persist", "history", "post", "call", "stream"}
Sending == {"post", "call", "stream"}
Waiting == {"call", "stream"}

(***************************************************************************)
(* What the proof has to know of the state's types.                        *)
(***************************************************************************)
WireTyped ==
  /\ DOMAIN pc = Sessions /\ DOMAIN body = Sessions
  /\ target \in [Sessions -> MaybeCustomer]
  /\ DOMAIN request = Sessions /\ \A s \in Sessions : request[s].target \in MaybeCustomer
  /\ stream \in [Sessions -> Seq(SomeLine)]
  /\ events \in [Sessions -> Seq(SomeLine)]
  /\ got \in [Sessions -> Nat]
  /\ inflight \in [Sessions -> SUBSET InFlight]
  /\ DOMAIN effects = Sessions

(***************************************************************************)
(* The inductive invariant: chat-agent answers only while the session      *)
(* waits for it, and for each session of a customer, its turns and the     *)
(* requests it makes for them concern that customer, and the calls, the    *)
(* events, the lines and the changes of the run are those of that          *)
(* customer's tools.                                                       *)
(***************************************************************************)
Scoped(line, customer) ==
  line.type = "tool_call" => line.call.name \in CustomerTools /\ line.target = customer

OwnTurn(s) == pc[s] \in Busy => target[s] = SubOf[s]
OwnRequest(s) ==
  pc[s] \in Sending =>
    request[s].role = "customer" /\ request[s].target = SubOf[s] /\ request[s].actor = SubOf[s]
Awaited(s) == body[s] # "none" => pc[s] \in Waiting
OwnLines(s) == \A i \in 1..Len(stream[s]) : Scoped(stream[s][i], SubOf[s])
OwnEvents(s) == \A i \in 1..Len(events[s]) : Scoped(events[s][i], SubOf[s])
OwnCalls(s) == \A f \in inflight[s] : f.call \in Calls("customer")
OwnEffects(s) == \A e \in effects[s] : e.customer = SubOf[s]

OwnAudit ==
  \A row \in auditLog : row.actor \in Customers =>
    row.target = row.actor /\ row.name \in CustomerTools

TurnsOwn == \A s \in Sessions : Awaited(s) /\ (Own(s) => OwnTurn(s) /\ OwnRequest(s))
RunsOwn == \A s \in Sessions : Own(s) => OwnLines(s) /\ OwnEvents(s) /\ OwnCalls(s) /\ OwnEffects(s)

ScopeInv == WireTyped /\ TurnsOwn /\ RunsOwn /\ OwnAudit

-----------------------------------------------------------------------------
(***************************************************************************)
(* A customer's tools take no customer id: what they are announced with    *)
(* and what they affect is the target of the turn.                         *)
(***************************************************************************)
LEMMA CustomerCalls ==
  ASSUME NEW call \in Calls("customer"), NEW customer
  PROVE  /\ call.name \in CustomerTools
         /\ ComputeTarget(call, customer) = customer
         /\ Affected(call, customer) = customer
BY DEF Calls, BuildTools, CustomerTools, ComputeTarget, Affected, CustomerIdArgTools

(* A tool_call line is one, whoever calls what. *)
LEMMA ToolCallTyped ==
  ASSUME NEW call \in AllCalls, NEW customer \in MaybeCustomer
  PROVE  ToolCall(call, customer) \in SomeLine
<1>1. ComputeTarget(call, customer) \in MaybeCustomer
  BY AbsentAssumption
     DEF MaybeCustomer, AllCalls, ComputeTarget, CustomerIdArgTools, CustomerTools
<1>2. ComputeAudit(call) \in BOOLEAN
  BY DEF ComputeAudit
<1> QED
  BY <1>1, <1>2 DEF ToolCall, SomeLine

(* A line of the customer's, appended to lines of the customer's. *)
LEMMA AppendScoped ==
  ASSUME NEW lines \in Seq(SomeLine), NEW line \in SomeLine, NEW customer,
         \A i \in 1..Len(lines) : Scoped(lines[i], customer), Scoped(line, customer)
  PROVE  /\ Append(lines, line) \in Seq(SomeLine)
         /\ \A i \in 1..Len(Append(lines, line)) : Scoped(Append(lines, line)[i], customer)
<1> DEFINE longer == Append(lines, line)
<1>1. /\ longer \in Seq(SomeLine) /\ Len(longer) = Len(lines) + 1 /\ Len(lines) \in Nat
      /\ longer[Len(lines) + 1] = line
      /\ \A i \in 1..Len(lines) : longer[i] = lines[i]
  OBVIOUS
<1> HIDE DEF longer
<1>2. \A i \in 1..Len(longer) : Scoped(longer[i], customer)
  BY <1>1
<1> QED
  BY <1>1, <1>2 DEF longer

(* The lines that are no calls concern nobody. *)
LEMMA PlainLines ==
  /\ Token \in SomeLine /\ Done \in SomeLine /\ Error \in SomeLine
  /\ \A customer : Scoped(Token, customer) /\ Scoped(Done, customer) /\ Scoped(Error, customer)
  /\ \A at \in Nat, failed \in BOOLEAN : \A customer :
       ToolResult(at, failed) \in SomeLine /\ Scoped(ToolResult(at, failed), customer)
BY DEF Token, Done, Error, ToolResult, SomeLine, Terminators, Scoped

(* At first there is no session and no row. *)
LEMMA InitScope == Init => ScopeInv
<1> SUFFICES ASSUME Init PROVE ScopeInv
  OBVIOUS
<1> USE DEF Init, GatewayInit, StoreInit, AgentInit
<1>1. WireTyped
  BY DEF WireTyped, MaybeCustomer, NoRequest
<1>2. TurnsOwn
  BY DEF TurnsOwn, OwnTurn, OwnRequest, Awaited, Busy, Sending
<1>3. RunsOwn /\ OwnAudit
  BY DEF RunsOwn, OwnLines, OwnEvents, OwnCalls, OwnEffects, OwnAudit
<1> QED
  BY <1>1, <1>2, <1>3 DEF ScopeInv
-----------------------------------------------------------------------------
(***************************************************************************)
(* Most steps of the gateway concern neither whom a turn is about nor the  *)
(* response: they take a session on within its turn, or end it.            *)
(***************************************************************************)
Onward(s) ==
  /\ pc'[s] \in Busy => pc[s] \in Busy
  /\ pc'[s] \in Sending => pc[s] \in Sending
  /\ pc[s] \in Waiting => pc'[s] \in Waiting

Calm ==
  /\ DOMAIN pc' = Sessions /\ \A s \in Sessions : Onward(s)
  /\ UNCHANGED <<request, stream, body, target, auditLog>>
  /\ got' = got \/ \E s \in Sessions : got' = [got EXCEPT ![s] = @ + 1]

CalmStep(s) ==
  \/ EnsureConversation(s) \/ EnsureFails(s) \/ Allowed(s) \/ Denied(s) \/ AllowFails(s)
  \/ PersistUser(s) \/ PersistFails(s) \/ HistoryFails(s)
  \/ StreamStarts(s) \/ ForwardFails(s) \/ OnToken(s) \/ OnToolResult(s) \/ OnDone(s) \/ OnError(s)
  \/ Connect(s) \/ ReceiveInvalid(s) \/ Disconnect(s) \/ BrowserLeaves(s)

(* From one place in the turn to the next. *)
LEMMA GoesOnward ==
  ASSUME DOMAIN pc = Sessions, NEW s \in Sessions, NEW next, Go(s, next),
         next \in Busy => pc[s] \in Busy, next \in Sending => pc[s] \in Sending,
         pc[s] \in Waiting => next \in Waiting
  PROVE  DOMAIN pc' = Sessions /\ \A t \in Sessions : Onward(t)
BY DEF Go, Onward

(* They are such steps. *)
LEMMA CalmSteps ==
  ASSUME WireTyped, NEW s \in Sessions, CalmStep(s)
  PROVE  Calm
<1> USE DEF wire, session, store, bounds, Busy, Sending, Waiting
<1>0. DOMAIN pc = Sessions
  BY DEF WireTyped
<1>1. CASE EnsureConversation(s)
  BY <1>0, <1>1, GoesOnward DEF EnsureConversation, Calm
<1>2. CASE EnsureFails(s)
  BY <1>0, <1>2, GoesOnward DEF EnsureFails, SendError, Calm
<1>3. CASE Allowed(s)
  BY <1>0, <1>3, GoesOnward DEF Allowed, Calm
<1>4. CASE Denied(s)
  BY <1>0, <1>4, GoesOnward DEF Denied, SendError, Calm
<1>5. CASE AllowFails(s)
  BY <1>0, <1>5, GoesOnward DEF AllowFails, SendError, Calm
<1>6. CASE PersistUser(s)
  BY <1>0, <1>6, GoesOnward DEF PersistUser, Calm
<1>7. CASE PersistFails(s)
  BY <1>0, <1>7, GoesOnward DEF PersistFails, SendError, Calm
<1>8. CASE HistoryFails(s)
  BY <1>0, <1>8, GoesOnward DEF HistoryFails, SendError, Calm
<1>9. CASE StreamStarts(s)
  BY <1>0, <1>9, GoesOnward DEF StreamStarts, Calm
<1>10. CASE Connect(s)
  BY <1>0, <1>10, GoesOnward DEF Connect, Calm
<1>11. CASE Disconnect(s)
  BY <1>0, <1>11, GoesOnward DEF Disconnect, Calm
<1>12. CASE ForwardFails(s)
  BY <1>0, <1>12 DEF ForwardFails, Consume, Calm, Onward
<1>13. CASE OnToken(s) \/ OnToolResult(s) \/ OnDone(s) \/ OnError(s)
  BY <1>0, <1>13 DEF OnToken, OnToolResult, OnDone, OnError, Forward, Consume, Calm, Onward
<1>14. CASE ReceiveInvalid(s)
  BY <1>0, <1>14 DEF ReceiveInvalid, Calm, Onward
<1>15. CASE BrowserLeaves(s)
  BY <1>0, <1>15 DEF BrowserLeaves, Calm, Onward
<1> QED
  BY <1>1, <1>2, <1>3, <1>4, <1>5, <1>6, <1>7, <1>8, <1>9, <1>10, <1>11, <1>12, <1>13,
     <1>14, <1>15 DEF CalmStep

(* And leave everybody in scope. *)
LEMMA CalmKeeps ==
  ASSUME ScopeInv, Calm, UNCHANGED agentVars
  PROVE  ScopeInv'
<1>0. WireTyped /\ TurnsOwn /\ RunsOwn /\ OwnAudit
  BY DEF ScopeInv
<1>1. got' \in [Sessions -> Nat]
  <2>1. got \in [Sessions -> Nat]
    BY <1>0 DEF WireTyped
  <2>2. ASSUME NEW s \in Sessions, got' = [got EXCEPT ![s] = @ + 1] PROVE got' \in [Sessions -> Nat]
    BY <2>1, <2>2
  <2> QED
    BY <2>1, <2>2 DEF Calm
<1>2. WireTyped'
  BY <1>0, <1>1 DEF Calm, WireTyped, agentVars
<1>3. TurnsOwn'
  BY <1>0 DEF Calm, Onward, TurnsOwn, OwnTurn, OwnRequest, Awaited, agentVars
<1>4. RunsOwn' /\ OwnAudit'
  BY <1>0 DEF Calm, RunsOwn, OwnLines, OwnEvents, OwnCalls, OwnEffects, OwnAudit, agentVars
<1> QED
  BY <1>2, <1>3, <1>4 DEF ScopeInv

(* Runs go on when only the gateway's side of a turn changes. *)
LEMMA SameRuns ==
  ASSUME RunsOwn, UNCHANGED <<stream, events, inflight, effects>>
  PROVE  RunsOwn'
BY DEF RunsOwn, OwnLines, OwnEvents, OwnCalls, OwnEffects

(***************************************************************************)
(* The others: where the customer of a turn is resolved, put into the      *)
(* request and recorded, and where a response begins and ends.             *)
(***************************************************************************)
LEMMA GatewayScope ==
  ASSUME ScopeInv, GatewayNext, UNCHANGED agentVars
  PROVE  ScopeInv'
<1>0. WireTyped /\ TurnsOwn /\ RunsOwn /\ OwnAudit
  BY DEF ScopeInv
<1>r. \A s \in Sessions : Own(s) => Role(s) = "customer"
  BY RolesAssumption DEF Own, Role
<1> USE DEF wire, session, store, bounds, agentVars
<1>1. ASSUME NEW s \in Sessions, CalmStep(s) PROVE ScopeInv'
  BY <1>0, <1>1, CalmSteps, CalmKeeps
<1>2. ASSUME NEW s \in Sessions, Receive(s) PROVE ScopeInv'
  <2>1. PICK asked \in Customers :
          target' = [target EXCEPT ![s] = IF Role(s) = "customer" THEN SubOf[s] ELSE asked]
    BY <1>2 DEF Receive
  <2>2. pc' = [pc EXCEPT ![s] = "ensure"] /\ pc[s] = "read"
        /\ UNCHANGED <<request, stream, got, body, auditLog>>
    BY <1>2 DEF Receive, Go
  <2>3. Role(s) = "customer" => SubOf[s] \in Customers
    BY SubOfAssumption DEF Role
  <2>4. WireTyped'
    BY <1>0, <2>1, <2>2, <2>3 DEF WireTyped, MaybeCustomer
  <2>5. TurnsOwn'
    BY <1>0, <1>r, <2>1, <2>2
       DEF WireTyped, TurnsOwn, OwnTurn, OwnRequest, Awaited, Busy, Sending, Waiting
  <2> QED
    BY <1>0, <2>2, <2>4, <2>5, SameRuns DEF ScopeInv, OwnAudit
<1>3. ASSUME NEW s \in Sessions, LoadHistory(s) PROVE ScopeInv'
  <2> DEFINE r == [role |-> Role(s), actor |-> SubOf[s], target |-> target[s], turn |-> turn[s],
                   history |-> RecentHistory(conversationID[s])]
  <2>1. /\ request' = [request EXCEPT ![s] = r]
        /\ pc' = [pc EXCEPT ![s] = "post"] /\ pc[s] = "history"
        /\ UNCHANGED <<stream, got, body, target, auditLog>>
    BY <1>3 DEF LoadHistory, Go
  <2>2. r.role = Role(s) /\ r.actor = SubOf[s] /\ r.target = target[s]
    OBVIOUS
  <2> HIDE DEF r
  <2>3. WireTyped'
    BY <1>0, <2>1, <2>2 DEF WireTyped
  <2>4. TurnsOwn'
    BY <1>0, <1>r, <2>1, <2>2
       DEF WireTyped, TurnsOwn, OwnTurn, OwnRequest, Awaited, Busy, Sending, Waiting
  <2> QED
    BY <1>0, <2>1, <2>3, <2>4, SameRuns DEF ScopeInv, OwnAudit
<1>4. ASSUME NEW s \in Sessions, PostTurn(s) PROVE ScopeInv'
  <2>1. /\ pc' = [pc EXCEPT ![s] = "call"] /\ pc[s] = "post"
        /\ body' = [body EXCEPT ![s] = "called"]
        /\ stream' = [stream EXCEPT ![s] = <<>>] /\ got' = [got EXCEPT ![s] = 0]
        /\ UNCHANGED <<request, target, auditLog, events, inflight, effects>>
    BY <1>4 DEF PostTurn, Go
  <2>2. WireTyped'
    BY <1>0, <2>1 DEF WireTyped
  <2>3. TurnsOwn'
    BY <1>0, <2>1
       DEF WireTyped, TurnsOwn, OwnTurn, OwnRequest, Awaited, Busy, Sending, Waiting
  <2>4. RunsOwn'
    BY <1>0, <2>1 DEF WireTyped, RunsOwn, OwnLines, OwnEvents, OwnCalls, OwnEffects
  <2> QED
    BY <1>0, <2>1, <2>2, <2>3, <2>4 DEF ScopeInv, OwnAudit
<1>5. ASSUME NEW s \in Sessions, AgentUnavailable(s) \/ StreamEnds(s) PROVE ScopeInv'
  <2>1. /\ pc' = [pc EXCEPT ![s] = "read"] /\ body' = [body EXCEPT ![s] = "none"]
        /\ UNCHANGED <<request, stream, got, target, auditLog>>
    BY <1>5 DEF AgentUnavailable, StreamEnds, SendError, Go
  <2>2. WireTyped'
    BY <1>0, <2>1 DEF WireTyped
  <2>3. TurnsOwn'
    BY <1>0, <2>1
       DEF WireTyped, TurnsOwn, OwnTurn, OwnRequest, Awaited, Busy, Sending
  <2> QED
    BY <1>0, <2>1, <2>2, <2>3, SameRuns DEF ScopeInv, OwnAudit
<1>6. CASE GatewayCrash
  <2>1. /\ pc' = [s \in Sessions |-> "down"] /\ body' = [s \in Sessions |-> "none"]
        /\ UNCHANGED <<request, stream, got, target, auditLog>>
    BY <1>6 DEF GatewayCrash
  <2>2. WireTyped'
    BY <1>0, <2>1 DEF WireTyped
  <2>3. TurnsOwn'
    BY <2>1 DEF TurnsOwn, OwnTurn, OwnRequest, Awaited, Busy, Sending
  <2> QED
    BY <1>0, <2>1, <2>2, <2>3, SameRuns DEF ScopeInv, OwnAudit
<1>7. ASSUME NEW s \in Sessions, OnToolCall(s) PROVE ScopeInv'
  <2> DEFINE i == got[s] + 1
             row == AuditRow(s, stream[s][i])
  <2>1. /\ pc[s] = "stream" /\ got[s] < Len(stream[s]) /\ stream[s][i].type = "tool_call"
        /\ auditLog' = auditLog \/ auditLog' = auditLog \cup {row}
        /\ got' = [got EXCEPT ![s] = @ + 1] /\ UNCHANGED <<pc, request, stream, body, target>>
    BY <1>7 DEF OnToolCall, Forward, Reading, Line, Consume
  <2>2. WireTyped'
    BY <1>0, <2>1 DEF WireTyped
  <2>3. TurnsOwn'
    BY <1>0, <2>1 DEF TurnsOwn, OwnTurn, OwnRequest, Awaited
  <2>4. row.actor = SubOf[s] /\ row.name = stream[s][i].call.name
        /\ row.target = IF stream[s][i].target = NoCustomer THEN target[s] ELSE stream[s][i].target
    BY DEF AuditRow
  <2>5. ASSUME Own(s) PROVE row.target = SubOf[s] /\ row.name \in CustomerTools
    <3>1. i \in 1..Len(stream[s])
      BY <1>0, <2>1 DEF WireTyped
    <3>2. Scoped(stream[s][i], SubOf[s])
      BY <1>0, <2>5, <3>1 DEF RunsOwn, OwnLines
    <3>3. target[s] = SubOf[s]
      BY <1>0, <2>1, <2>5 DEF TurnsOwn, OwnTurn, Busy
    <3> QED
      BY <2>1, <2>4, <3>2, <3>3 DEF Scoped
  <2> HIDE DEF row
  <2>6. OwnAudit'
    BY <1>0, <2>1, <2>4, <2>5 DEF OwnAudit, Own
  <2> QED
    BY <1>0, <2>1, <2>2, <2>3, <2>6, SameRuns DEF ScopeInv
<1> QED
  BY <1>1, <1>2, <1>3, <1>4, <1>5, <1>6, <1>7 DEF GatewayNext, TurnStep, BrowserStep, CalmStep
-----------------------------------------------------------------------------
(***************************************************************************)
(* chat-agent leaves the gateway and its requests alone, and takes no      *)
(* response up again that the gateway does not wait for.                   *)
(***************************************************************************)
Answering ==
  /\ UNCHANGED <<gatewayVars, request, got>>
  /\ DOMAIN body' = Sessions /\ \A s \in Sessions : body'[s] # "none" => body[s] # "none"

(* Turns are as they were. *)
LEMMA AnsweringTurns ==
  ASSUME TurnsOwn, OwnAudit, Answering
  PROVE  TurnsOwn' /\ OwnAudit'
BY DEF TurnsOwn, OwnAudit, OwnTurn, OwnRequest, Awaited, Answering, gatewayVars

(* Every step of chat-agent answers. *)
LEMMA AgentAnswers ==
  ASSUME WireTyped, AgentNext, UNCHANGED gatewayVars
  PROVE  Answering
<1> USE DEF wire, agentVars, Answering, WireTyped
<1>1. CASE AgentCrash
  BY <1>1 DEF AgentCrash
<1>2. ASSUME NEW s \in Sessions, StartRun(s) \/ InitFails(s) \/ AgentRefuses(s)
      PROVE  Answering
  BY <1>2 DEF StartRun, InitFails, AgentRefuses, CloseBody
<1>3. ASSUME NEW s \in Sessions, ModelText(s) \/ ToolStart(s) \/ ToolTakesEffect(s)
      PROVE  Answering
  BY <1>3 DEF ModelText, ToolStart, ToolTakesEffect
<1>4. ASSUME NEW s \in Sessions, ToolEnd(s) \/ ToolError(s)
      PROVE  Answering
  BY <1>4 DEF ToolEnd, ToolError, Answer
<1>5. ASSUME NEW s \in Sessions, WriteText(s) \/ WriteCall(s) \/ WriteResult(s)
      PROVE  Answering
  BY <1>5 DEF WriteText, WriteCall, WriteResult, Write
<1>6. ASSUME NEW s \in Sessions, Finish(s) \/ AgentFails(s)
      PROVE  Answering
  BY <1>6 DEF Finish, AgentFails, CloseBody, Running
<1> QED
  BY <1>1, <1>2, <1>3, <1>4, <1>5, <1>6 DEF AgentNext, AgentStep

(* One more line in one response. *)
LEMMA LineYielded ==
  ASSUME WireTyped, RunsOwn, NEW s \in Sessions, NEW line \in SomeLine, Yield(s, line),
         Own(s) => Scoped(line, SubOf[s])
  PROVE  /\ stream' \in [Sessions -> Seq(SomeLine)]
         /\ \A t \in Sessions : Own(t) => OwnLines(t)'
<1>1. stream \in [Sessions -> Seq(SomeLine)] /\ stream' = [stream EXCEPT ![s] = Append(@, line)]
  BY DEF WireTyped, Yield
<1>2. Append(stream[s], line) \in Seq(SomeLine)
  BY <1>1
<1>3. stream' \in [Sessions -> Seq(SomeLine)]
  BY <1>1, <1>2
<1>4. ASSUME NEW t \in Sessions, Own(t) PROVE OwnLines(t)'
  <2>1. CASE t # s
    BY <1>1, <1>4, <2>1 DEF RunsOwn, OwnLines
  <2>2. CASE t = s
    <3>1. \A i \in 1..Len(Append(stream[s], line)) : Scoped(Append(stream[s], line)[i], SubOf[s])
      BY <1>1, <1>4, <2>2, AppendScoped DEF RunsOwn, OwnLines
    <3> QED
      BY <1>1, <2>2, <3>1 DEF OwnLines
  <2> QED
    BY <2>1, <2>2
<1> QED
  BY <1>3, <1>4

(* One more event in one queue. *)
LEMMA EventQueued ==
  ASSUME WireTyped, RunsOwn, NEW s \in Sessions, NEW line \in SomeLine, Queue(s, line),
         Own(s) => Scoped(line, SubOf[s])
  PROVE  /\ events' \in [Sessions -> Seq(SomeLine)]
         /\ \A t \in Sessions : Own(t) => OwnEvents(t)'
<1>1. events \in [Sessions -> Seq(SomeLine)] /\ events' = [events EXCEPT ![s] = Append(@, line)]
  BY DEF WireTyped, Queue
<1>2. Append(events[s], line) \in Seq(SomeLine)
  BY <1>1
<1>3. events' \in [Sessions -> Seq(SomeLine)]
  BY <1>1, <1>2
<1>4. ASSUME NEW t \in Sessions, Own(t) PROVE OwnEvents(t)'
  <2>1. CASE t # s
    BY <1>1, <1>4, <2>1 DEF RunsOwn, OwnEvents
  <2>2. CASE t = s
    <3>1. \A i \in 1..Len(Append(events[s], line)) : Scoped(Append(events[s], line)[i], SubOf[s])
      BY <1>1, <1>4, <2>2, AppendScoped DEF RunsOwn, OwnEvents
    <3> QED
      BY <1>1, <2>2, <3>1 DEF OwnEvents
  <2> QED
    BY <2>1, <2>2
<1> QED
  BY <1>3, <1>4

(* The regular end: an explanation perhaps, and done. *)
LEMMA LastWordsAppended ==
  ASSUME NEW s, stream[s] \in Seq(SomeLine)
  PROVE  \/ stream[s] \o LastWords(s) \o <<Done>> = Append(Append(stream[s], Token), Done)
         \/ stream[s] \o LastWords(s) \o <<Done>> = Append(stream[s], Done)
<1>1. Append(stream[s], Token) \in Seq(SomeLine)
  BY PlainLines
<1>2. CASE LastWords(s) = <<Token>>
  <2>1. stream[s] \o <<Token>> = Append(stream[s], Token)
    BY PlainLines
  <2>2. Append(stream[s], Token) \o <<Done>> = Append(Append(stream[s], Token), Done)
    BY <1>1, PlainLines
  <2> QED
    BY <1>2, <2>1, <2>2
<1>3. CASE LastWords(s) = <<>>
  <2>1. stream[s] \o <<>> = stream[s]
    OBVIOUS
  <2>2. stream[s] \o <<Done>> = Append(stream[s], Done)
    BY PlainLines
  <2> QED
    BY <1>3, <2>1, <2>2
<1> QED
  BY <1>2, <1>3 DEF LastWords

(***************************************************************************)
(* A run calls tools of the role in the request, announces them with the   *)
(* customer in the request, and the backends change that customer's data.  *)
(***************************************************************************)
LEMMA AgentScope ==
  ASSUME ScopeInv, AgentNext, UNCHANGED gatewayVars
  PROVE  ScopeInv'
<1>0. WireTyped /\ TurnsOwn /\ RunsOwn /\ OwnAudit
  BY DEF ScopeInv
<1>1. Answering
  BY <1>0, AgentAnswers
<1>2. TurnsOwn' /\ OwnAudit'
  BY <1>0, <1>1, AnsweringTurns
<1> DEFINE Goal == /\ stream' \in [Sessions -> Seq(SomeLine)]
                   /\ events' \in [Sessions -> Seq(SomeLine)]
                   /\ inflight' \in [Sessions -> SUBSET InFlight] /\ DOMAIN effects' = Sessions
                   /\ RunsOwn'
           Run == /\ inflight' \in [Sessions -> SUBSET InFlight] /\ DOMAIN effects' = Sessions
                  /\ \A t \in Sessions : Own(t) => OwnCalls(t)' /\ OwnEffects(t)'
<1>3. SUFFICES Goal
  BY <1>0, <1>1, <1>2 DEF ScopeInv, WireTyped, Answering, gatewayVars
<1>4. ASSUME NEW s \in Sessions, Own(s), body[s] # "none"
      PROVE  request[s].role = "customer" /\ request[s].target = SubOf[s]
  BY <1>0, <1>4 DEF TurnsOwn, OwnRequest, Awaited, Waiting, Sending
<1>s. ASSUME UNCHANGED stream
      PROVE  /\ stream' \in [Sessions -> Seq(SomeLine)]
             /\ \A t \in Sessions : Own(t) => OwnLines(t)'
  BY <1>0, <1>s DEF WireTyped, RunsOwn, OwnLines
<1>e. ASSUME UNCHANGED events
      PROVE  /\ events' \in [Sessions -> Seq(SomeLine)]
             /\ \A t \in Sessions : Own(t) => OwnEvents(t)'
  BY <1>0, <1>e DEF WireTyped, RunsOwn, OwnEvents
<1>n. ASSUME NEW s \in Sessions, events' = [events EXCEPT ![s] = <<>>]
      PROVE  /\ events' \in [Sessions -> Seq(SomeLine)]
             /\ \A t \in Sessions : Own(t) => OwnEvents(t)'
  BY <1>0, <1>n DEF WireTyped, RunsOwn, OwnEvents
<1>5. ASSUME NEW s \in Sessions, NEW line \in SomeLine, Queue(s, line), UNCHANGED stream,
             Own(s) => Scoped(line, SubOf[s]), Run
      PROVE  Goal
  BY <1>0, <1>5, <1>s, EventQueued DEF RunsOwn
<1>y. ASSUME NEW s \in Sessions, NEW line \in SomeLine, Yield(s, line), UNCHANGED events,
             Own(s) => Scoped(line, SubOf[s]), Run
      PROVE  Goal
  BY <1>0, <1>y, <1>e, LineYielded DEF RunsOwn
<1>6. ASSUME UNCHANGED <<inflight, effects>> PROVE Run
  BY <1>0, <1>6 DEF WireTyped, RunsOwn, OwnCalls, OwnEffects
<1>c. ASSUME NEW s \in Sessions, inflight' = [inflight EXCEPT ![s] = {}],
             effects' = [effects EXCEPT ![s] = {}]
      PROVE  Run
  BY <1>0, <1>c DEF WireTyped, RunsOwn, OwnCalls, OwnEffects
<1> HIDE DEF Goal, Run
<1> USE DEF agentVars
<1>7. ASSUME NEW s \in Sessions, StartRun(s) PROVE Goal
  <2>1. /\ inflight' = [inflight EXCEPT ![s] = {}] /\ effects' = [effects EXCEPT ![s] = {}]
        /\ events' = [events EXCEPT ![s] = <<>>] /\ UNCHANGED stream
    BY <1>7 DEF StartRun
  <2> QED
    BY <1>s, <1>n, <1>c, <2>1 DEF RunsOwn, Goal, Run
<1>8. ASSUME NEW s \in Sessions, InitFails(s) PROVE Goal
  <2>1. /\ inflight' = [inflight EXCEPT ![s] = {}] /\ effects' = [effects EXCEPT ![s] = {}]
        /\ events' = [events EXCEPT ![s] = <<>>] /\ Yield(s, Error)
    BY <1>8 DEF InitFails
  <2>2. /\ stream' \in [Sessions -> Seq(SomeLine)]
        /\ \A t \in Sessions : Own(t) => OwnLines(t)'
    BY <1>0, <2>1, LineYielded, PlainLines
  <2> QED
    BY <1>n, <1>c, <2>1, <2>2 DEF RunsOwn, Goal, Run
<1>9. ASSUME NEW s \in Sessions, ModelText(s) PROVE Goal
  BY <1>5, <1>6, <1>9, PlainLines DEF ModelText, wire
<1>10. ASSUME NEW s \in Sessions, AgentFails(s) PROVE Goal
  BY <1>y, <1>6, <1>10, PlainLines DEF AgentFails
<1>11. ASSUME NEW s \in Sessions, ToolStart(s) PROVE Goal
  <2>1. PICK call \in ModelCalls \cap Calls(request[s].role) :
          /\ Queue(s, ToolCall(call, request[s].target))
          /\ inflight' = [inflight EXCEPT ![s] =
               @ \cup {[at |-> Len(events[s]) + 1, call |-> call, ran |-> FALSE]}]
    BY <1>11 DEF ToolStart
  <2> DEFINE f == [at |-> Len(events[s]) + 1, call |-> call, ran |-> FALSE]
             line == ToolCall(call, request[s].target)
  <2>2. call \in AllCalls /\ f \in InFlight /\ f.call = call /\ UNCHANGED <<stream, effects>>
    BY <1>0, <1>11 DEF ToolStart, Calls, InFlight, WireTyped, wire
  <2>3. line \in SomeLine
    BY <1>0, <2>2, ToolCallTyped DEF WireTyped
  <2>4. ASSUME Own(s) PROVE call \in Calls("customer") /\ Scoped(line, SubOf[s])
    <3>1. request[s].role = "customer" /\ request[s].target = SubOf[s]
      BY <1>4, <1>11, <2>4 DEF ToolStart, Running
    <3>2. call \in Calls("customer")
      BY <3>1
    <3>3. /\ line.call = call /\ line.target = ComputeTarget(call, request[s].target)
      BY DEF ToolCall
    <3> QED
      BY <3>1, <3>2, <3>3, CustomerCalls DEF Scoped
  <2> HIDE DEF f, line
  <2>5. inflight' = [inflight EXCEPT ![s] = @ \cup {f}] /\ Queue(s, line)
    BY <2>1 DEF f, line
  <2>6. inflight' \in [Sessions -> SUBSET InFlight]
    BY <1>0, <2>2, <2>5 DEF WireTyped
  <2>7. \A t \in Sessions : Own(t) => OwnCalls(t)' /\ OwnEffects(t)'
    BY <1>0, <2>2, <2>4, <2>5 DEF WireTyped, RunsOwn, OwnCalls, OwnEffects
  <2>8. DOMAIN effects' = Sessions
    BY <1>0, <2>2 DEF WireTyped
  <2> QED
    BY <1>5, <2>2, <2>3, <2>4, <2>5, <2>6, <2>7, <2>8 DEF Run
<1>12. ASSUME NEW s \in Sessions, ToolTakesEffect(s) PROVE Goal
  <2>1. PICK f \in inflight[s] :
          /\ inflight' = [inflight EXCEPT ![s] = (@ \ {f}) \cup {[f EXCEPT !.ran = TRUE]}]
          /\ effects' = [effects EXCEPT ![s] = @ \cup
               {[turn |-> request[s].turn, at |-> f.at, call |-> f.call,
                 customer |-> Affected(f.call, request[s].target)]}]
    BY <1>12 DEF ToolTakesEffect
  <2> DEFINE ran == [f EXCEPT !.ran = TRUE]
             e == [turn |-> request[s].turn, at |-> f.at, call |-> f.call,
                   customer |-> Affected(f.call, request[s].target)]
  <2>2. f \in InFlight /\ body[s] # "none" /\ UNCHANGED <<stream, events>>
    BY <1>0, <1>12 DEF WireTyped, ToolTakesEffect, wire
  <2>3. ran \in InFlight /\ ran.call = f.call /\ e.customer = Affected(f.call, request[s].target)
    BY <2>2 DEF InFlight
  <2>4. ASSUME Own(s) PROVE ran.call \in Calls("customer") /\ e.customer = SubOf[s]
    BY <1>0, <1>4, <2>2, <2>3, <2>4, CustomerCalls DEF RunsOwn, OwnCalls
  <2> HIDE DEF ran, e
  <2>5. /\ inflight' = [inflight EXCEPT ![s] = (@ \ {f}) \cup {ran}]
        /\ effects' = [effects EXCEPT ![s] = @ \cup {e}]
    BY <2>1 DEF ran, e
  <2>6. inflight' \in [Sessions -> SUBSET InFlight] /\ DOMAIN effects' = Sessions
    BY <1>0, <2>3, <2>5 DEF WireTyped
  <2>7. \A t \in Sessions : Own(t) => OwnCalls(t)' /\ OwnEffects(t)'
    BY <1>0, <2>2, <2>4, <2>5 DEF WireTyped, RunsOwn, OwnCalls, OwnEffects
  <2> QED
    BY <1>s, <1>e, <2>2, <2>6, <2>7 DEF RunsOwn, Goal
<1>13. ASSUME NEW s \in Sessions, NEW f \in inflight[s], NEW failed \in BOOLEAN,
              Answer(s, f, failed)
       PROVE  Goal
  <2>1. /\ Queue(s, ToolResult(f.at, failed)) /\ UNCHANGED <<stream, effects>>
        /\ inflight' = [inflight EXCEPT ![s] = @ \ {f}]
    BY <1>13 DEF Answer, wire
  <2>2. f.at \in Nat
    BY <1>0 DEF WireTyped, InFlight
  <2>3. inflight' \in [Sessions -> SUBSET InFlight] /\ DOMAIN effects' = Sessions
    BY <1>0, <2>1 DEF WireTyped
  <2>4. \A t \in Sessions : Own(t) => OwnCalls(t)' /\ OwnEffects(t)'
    BY <1>0, <2>1 DEF WireTyped, RunsOwn, OwnCalls, OwnEffects
  <2> QED
    BY <1>5, <2>1, <2>2, <2>3, <2>4, PlainLines DEF Run
<1>14. ASSUME NEW s \in Sessions, Finish(s) PROVE Goal
  <2> DEFINE ended == stream[s] \o LastWords(s) \o <<Done>>
  <2>1. stream' = [stream EXCEPT ![s] = ended] /\ UNCHANGED <<events, inflight, effects>>
    BY <1>14 DEF Finish
  <2>2. stream[s] \in Seq(SomeLine)
    BY <1>0 DEF WireTyped
  <2>9. ended \in {Append(Append(stream[s], Token), Done), Append(stream[s], Done)}
    BY <2>2, LastWordsAppended
  <2> HIDE DEF ended
  <2>3. ended \in Seq(SomeLine)
    <3>1. Append(stream[s], Token) \in Seq(SomeLine) /\ Append(stream[s], Done) \in Seq(SomeLine)
      BY <2>2, PlainLines
    <3>2. Append(Append(stream[s], Token), Done) \in Seq(SomeLine)
      BY <3>1, PlainLines
    <3> QED
      BY <2>9, <3>1, <3>2
  <2>4. ASSUME Own(s) PROVE \A i \in 1..Len(ended) : Scoped(ended[i], SubOf[s])
    <3>1. \A i \in 1..Len(stream[s]) : Scoped(stream[s][i], SubOf[s])
      BY <1>0, <2>4 DEF RunsOwn, OwnLines
    <3> DEFINE told == Append(stream[s], Token)
    <3>2. told \in Seq(SomeLine) /\ \A i \in 1..Len(told) : Scoped(told[i], SubOf[s])
      BY <2>2, <3>1, AppendScoped, PlainLines
    <3> HIDE DEF told
    <3>3. \A i \in 1..Len(Append(told, Done)) : Scoped(Append(told, Done)[i], SubOf[s])
      BY <3>2, AppendScoped, PlainLines
    <3>4. \A i \in 1..Len(Append(stream[s], Done)) : Scoped(Append(stream[s], Done)[i], SubOf[s])
      BY <2>2, <3>1, AppendScoped, PlainLines
    <3> QED
      BY <2>9, <3>3, <3>4 DEF told
  <2>5. stream' \in [Sessions -> Seq(SomeLine)]
    BY <1>0, <2>1, <2>3 DEF WireTyped
  <2>6. \A t \in Sessions : Own(t) => OwnLines(t)'
    BY <1>0, <2>1, <2>4 DEF WireTyped, RunsOwn, OwnLines
  <2> QED
    BY <1>6, <1>e, <2>1, <2>5, <2>6 DEF RunsOwn, Goal, Run
<1>15. ASSUME NEW s \in Sessions, AgentRefuses(s) PROVE Goal
  BY <1>6, <1>s, <1>e, <1>15 DEF AgentRefuses, RunsOwn, Goal, Run
<1>16. ASSUME AgentCrash PROVE Goal
  <2>1. PICK kept \in [Sessions -> 0..MaxResponse] :
          /\ \A s \in Sessions :
               kept[s] \in (IF body[s] = "open" THEN got[s] ELSE Len(stream[s]))..Len(stream[s])
          /\ stream' = [s \in Sessions |-> SubSeq(stream[s], 1, kept[s])]
    BY <1>16 DEF AgentCrash
  <2>2. UNCHANGED <<events, inflight, effects>>
    BY <1>16 DEF AgentCrash
  <2>3. ASSUME NEW s \in Sessions
        PROVE  /\ stream'[s] \in Seq(SomeLine) /\ Len(stream'[s]) <= Len(stream[s])
               /\ \A i \in 1..Len(stream'[s]) : stream'[s][i] = stream[s][i]
    <3>1. kept[s] \in 0..Len(stream[s]) /\ stream[s] \in Seq(SomeLine)
      BY <1>0, <2>1 DEF WireTyped
    <3>2. stream'[s] = SubSeq(stream[s], 1, kept[s])
      BY <2>1
    <3> QED
      BY <3>1, <3>2
  <2>4. stream' \in [Sessions -> Seq(SomeLine)]
    BY <2>1, <2>3
  <2>5. \A t \in Sessions : Own(t) => OwnLines(t)'
    <3>1. ASSUME NEW t \in Sessions PROVE Len(stream'[t]) \in Nat /\ Len(stream[t]) \in Nat
      BY <1>0, <2>4 DEF WireTyped
    <3> QED
      BY <1>0, <2>3, <3>1 DEF RunsOwn, OwnLines
  <2> QED
    BY <1>6, <1>e, <2>2, <2>4, <2>5 DEF RunsOwn, Goal, Run
<1>17. ASSUME NEW s \in Sessions, ToolEnd(s) \/ ToolError(s) PROVE Goal
  <2>1. \E f \in inflight[s], failed \in BOOLEAN : Answer(s, f, failed)
    BY <1>17 DEF ToolEnd, ToolError
  <2> QED
    BY <1>13, <2>1
<1>18. ASSUME NEW s \in Sessions, NEW type, Write(s, type) PROVE Goal
  <2> DEFINE line == NextEvent(s)
  <2>1. Yield(s, line) /\ UNCHANGED <<events, inflight, effects>> /\ Len(stream[s]) < Len(events[s])
    BY <1>18 DEF Write
  <2>2. Len(stream[s]) + 1 \in 1..Len(events[s]) /\ events[s] \in Seq(SomeLine)
    BY <1>0, <2>1 DEF WireTyped
  <2>3. line \in SomeLine
    BY <2>2 DEF NextEvent
  <2>4. Own(s) => Scoped(line, SubOf[s])
    BY <1>0, <2>2 DEF RunsOwn, OwnEvents, NextEvent
  <2> QED
    BY <1>y, <1>6, <2>1, <2>3, <2>4
<1>19. Goal
  <2>1. AgentCrash \/ \E s \in Sessions : AgentStep(s) \/ AgentRefuses(s)
    BY DEF AgentNext
  <2>2. ASSUME NEW s \in Sessions, AgentStep(s) PROVE Goal
    BY <1>7, <1>8, <1>9, <1>10, <1>11, <1>12, <1>14, <1>17, <1>18, <2>2
       DEF AgentStep, WriteText, WriteCall, WriteResult
  <2> QED
    BY <1>15, <1>16, <2>1, <2>2
<1> QED
  BY <1>19 DEF Goal

(* No step of the two takes a customer's turn out of scope. *)
LEMMA ScopeStep == ScopeInv /\ [Next]_vars => ScopeInv'
<1> SUFFICES ASSUME ScopeInv, [Next]_vars PROVE ScopeInv'
  OBVIOUS
<1>1. CASE UNCHANGED vars
  BY <1>1 DEF vars, wire, gatewayVars, session, store, bounds, agentVars, ScopeInv, WireTyped,
              TurnsOwn, OwnTurn, OwnRequest, Awaited, RunsOwn, OwnLines, OwnEvents, OwnCalls,
              OwnEffects, OwnAudit
<1> QED
  BY <1>1, GatewayScope, AgentScope DEF Next

(***************************************************************************)
(* Whatever the customers' clients ask for, and whatever the model calls:  *)
(* a customer's turns concern that customer.                               *)
(***************************************************************************)
THEOREM SystemScope == Spec => []CustomerScope
<1>1. ScopeInv => CustomerScope
  <2> SUFFICES ASSUME ScopeInv, NEW s \in Sessions, SubOf[s] \in Customers
               PROVE  /\ \A e \in effects[s] : e.customer = SubOf[s]
                      /\ \A row \in auditLog : row.actor = SubOf[s] =>
                           row.target = SubOf[s] /\ row.name \in CustomerTools
                      /\ body[s] # "none" =>
                           request[s].target = SubOf[s] /\ request[s].actor = SubOf[s]
    BY DEF CustomerScope
  <2>1. \A e \in effects[s] : e.customer = SubOf[s]
    BY DEF ScopeInv, RunsOwn, Own, OwnEffects
  <2>2. \A row \in auditLog : row.actor = SubOf[s] =>
          row.target = SubOf[s] /\ row.name \in CustomerTools
    BY DEF ScopeInv, OwnAudit
  <2>3. body[s] # "none" => request[s].target = SubOf[s] /\ request[s].actor = SubOf[s]
    BY DEF ScopeInv, TurnsOwn, Own, OwnRequest, Awaited, Waiting, Sending
  <2> QED
    BY <2>1, <2>2, <2>3
<1> QED
  BY InitScope, ScopeStep, <1>1, PTL DEF Spec

=============================================================================

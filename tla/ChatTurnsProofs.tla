-------------------------- MODULE ChatTurnsProofs --------------------------
(***************************************************************************)
(* Proofs about the turns of the chat path, for any number of sessions,    *)
(* conversations, turns, lines and faults: how a response ends, what is    *)
(* stored of a turn and in which order, and that a browser sees            *)
(* TurnFrames.                                                             *)
(***************************************************************************)
EXTENDS ChatSystemProofs

Ending == {"done", "error"}

(***************************************************************************)
(* Nothing is written after done or error, the gateway reads no further    *)
(* than the response goes, and a response that has begun is the one being  *)
(* read.  Only an agent that dies in the middle of it leaves a response    *)
(* without its end.                                                        *)
(***************************************************************************)
Ends(s) ==
  /\ got[s] <= Len(stream[s])
  /\ body[s] = "called" => stream[s] = <<>>
  /\ \A i \in 1..Len(stream[s]) : stream[s][i].type \in Ending =>
       i = Len(stream[s]) /\ body[s] \notin {"called", "open"}
  /\ body[s] = "closed" /\ turn[s] \notin cut =>
       Len(stream[s]) > 0 /\ stream[s][Len(stream[s])].type \in Ending
  /\ pc[s] = "call" => got[s] = 0
  /\ pc[s] = "stream" => body[s] \in {"open", "closed"}

EndInv == \A s \in Sessions : Ends(s)

(***************************************************************************)
(* The request of a turn carries the number of the turn.                   *)
(***************************************************************************)
OwnNumber(s) == pc[s] \in Sending => request[s].turn = turn[s]

NumberInv == DOMAIN turn = Sessions /\ \A s \in Sessions : OwnNumber(s)

-----------------------------------------------------------------------------
(***************************************************************************)
(* What a step of chat-agent does to a response: it leaves the lines       *)
(* alone, adds some, an end only as the last, or dies and takes some of    *)
(* what nobody has read with it.                                           *)
(***************************************************************************)
Untouched(s) ==
  /\ stream'[s] = stream[s]
  /\ body'[s] = body[s] \/ (body[s] = "called" /\ body'[s] \in {"open", "refused"})

Longer(s) ==
  /\ body[s] \in {"called", "open"} /\ body'[s] \in {"open", "closed"}
  /\ Len(stream'[s]) > Len(stream[s])
  /\ \A i \in 1..Len(stream[s]) : stream'[s][i] = stream[s][i]
  /\ \A i \in (Len(stream[s]) + 1)..Len(stream'[s]) :
       stream'[s][i].type \in Ending <=> i = Len(stream'[s]) /\ body'[s] = "closed"

Cut(s) ==
  /\ body[s] = "open" /\ body'[s] = "closed" /\ request[s].turn \in cut'
  /\ Len(stream'[s]) \in got[s]..Len(stream[s])
  /\ \A i \in 1..Len(stream'[s]) : stream'[s][i] = stream[s][i]

Responds(s) == Untouched(s) \/ Longer(s) \/ Cut(s)

(* One line more, which may be the last. *)
LEMMA OneLonger ==
  ASSUME WireTyped, NEW s \in Sessions, NEW line \in SomeLine, Yield(s, line),
         body[s] \in {"called", "open"}, body'[s] \in {"open", "closed"},
         line.type \in Ending <=> body'[s] = "closed"
  PROVE  Longer(s)
<1> DEFINE lines == stream[s]
<1>1. lines \in Seq(SomeLine) /\ stream'[s] = Append(lines, line)
  BY DEF WireTyped, Yield
<1>2. /\ Len(stream'[s]) = Len(lines) + 1 /\ Len(lines) \in Nat /\ stream'[s][Len(lines) + 1] = line
      /\ \A i \in 1..Len(lines) : stream'[s][i] = lines[i]
  BY <1>1
<1> QED
  BY <1>2 DEF Longer

(* The other responses are not concerned. *)
LEMMA OthersUntouched ==
  ASSUME WireTyped, NEW s \in Sessions, NEW line, Yield(s, line),
         NEW state, body' = [body EXCEPT ![s] = state], NEW t \in Sessions, t # s
  PROVE  Untouched(t)
BY DEF WireTyped, Yield, Untouched

(* The regular end. *)
LEMMA FinishLonger ==
  ASSUME WireTyped, NEW s \in Sessions, Finish(s)
  PROVE  Longer(s)
<1> DEFINE lines == stream[s]
           told == Append(lines, Token)
<1>1. lines \in Seq(SomeLine) /\ Len(lines) \in Nat /\ Token.type \notin Ending /\ Done.type \in Ending
  BY DEF WireTyped, Token, Done, Ending
<1>2. body[s] = "open" /\ body'[s] = "closed" /\ stream'[s] = lines \o LastWords(s) \o <<Done>>
  BY DEF Finish, Running, CloseBody, WireTyped
<1>3. told \in Seq(SomeLine) /\ Len(told) = Len(lines) + 1 /\ told[Len(lines) + 1] = Token
      /\ \A i \in 1..Len(lines) : told[i] = lines[i]
  BY <1>1, PlainLines
<1> HIDE DEF told
<1>4. CASE stream'[s] = Append(told, Done)
  <2>1. /\ Len(stream'[s]) = Len(lines) + 2 /\ stream'[s][Len(lines) + 2] = Done
        /\ \A i \in 1..(Len(lines) + 1) : stream'[s][i] = told[i]
    BY <1>1, <1>3, <1>4, PlainLines
  <2>2. /\ stream'[s][Len(lines) + 1] = Token
        /\ \A i \in 1..Len(lines) : stream'[s][i] = lines[i]
    BY <1>1, <1>3, <2>1
  <2>3. \A i \in (Len(lines) + 1)..(Len(lines) + 2) : i = Len(lines) + 1 \/ i = Len(lines) + 2
    BY <1>1
  <2>4. Len(stream'[s]) > Len(lines) /\ Len(lines) + 1 # Len(stream'[s])
    BY <1>1, <2>1
  <2>5. \A i \in (Len(lines) + 1)..Len(stream'[s]) :
          stream'[s][i].type \in Ending <=> i = Len(stream'[s])
    <3> SUFFICES ASSUME NEW i \in (Len(lines) + 1)..(Len(lines) + 2)
                 PROVE  stream'[s][i].type \in Ending <=> i = Len(stream'[s])
      BY <2>1
    <3>1. CASE i = Len(lines) + 1
      BY <1>1, <2>2, <2>4, <3>1
    <3>2. CASE i = Len(lines) + 2
      BY <1>1, <2>1, <3>2
    <3> QED
      BY <2>3, <3>1, <3>2
  <2> QED
    BY <1>2, <2>2, <2>4, <2>5 DEF Longer
<1>5. CASE stream'[s] = Append(lines, Done)
  <2>1. /\ Len(stream'[s]) = Len(lines) + 1 /\ stream'[s][Len(lines) + 1] = Done
        /\ \A i \in 1..Len(lines) : stream'[s][i] = lines[i]
    BY <1>1, <1>5, PlainLines
  <2> QED
    BY <1>1, <1>2, <2>1 DEF Longer
<1> QED
  BY <1>1, <1>2, <1>4, <1>5, LastWordsAppended DEF told

(* Every step of chat-agent is one of these for every response. *)
LEMMA AgentResponds ==
  ASSUME WireTyped, AgentNext
  PROVE  \A s \in Sessions : Responds(s)
<1> USE DEF Responds
<1>0. DOMAIN body = Sessions /\ stream \in [Sessions -> Seq(SomeLine)]
  BY DEF WireTyped
<1>1. ASSUME NEW s \in Sessions, NEW line \in SomeLine, Yield(s, line), NEW state,
             body' = [body EXCEPT ![s] = state], body[s] \in {"called", "open"},
             state \in {"open", "closed"}, line.type \in Ending <=> state = "closed"
      PROVE  \A t \in Sessions : Responds(t)
  <2>1. body'[s] = state
    BY <1>0, <1>1
  <2>2. Longer(s)
    BY <1>1, <2>1, OneLonger
  <2>3. \A t \in Sessions : t # s => Untouched(t)
    BY <1>1, OthersUntouched
  <2> QED
    BY <2>2, <2>3
<1>2. ASSUME NEW s \in Sessions, NEW line \in SomeLine, Yield(s, line), UNCHANGED body,
             body[s] = "open", line.type \notin Ending
      PROVE  \A t \in Sessions : Responds(t)
  <2>1. Longer(s)
    BY <1>2, OneLonger
  <2>2. \A t \in Sessions : t # s => Untouched(t)
    BY <1>0, <1>2 DEF Yield, Untouched
  <2> QED
    BY <2>1, <2>2
<1>3. Token.type \notin Ending /\ Error.type \in Ending
      /\ (\A call, customer : ToolCall(call, customer).type \notin Ending)
      /\ (\A at, failed : ToolResult(at, failed).type \notin Ending)
  BY DEF Token, Error, ToolCall, ToolResult, Ending
<1>4. ASSUME NEW s \in Sessions, InitFails(s) PROVE \A t \in Sessions : Responds(t)
  BY <1>1, <1>3, <1>4, PlainLines DEF InitFails, CloseBody
<1>5. ASSUME NEW s \in Sessions, AgentFails(s) PROVE \A t \in Sessions : Responds(t)
  BY <1>1, <1>3, <1>5, PlainLines DEF AgentFails, CloseBody, Running
<1>6. ASSUME NEW s \in Sessions,
             ModelText(s) \/ ToolStart(s) \/ ToolTakesEffect(s) \/ ToolEnd(s) \/ ToolError(s)
      PROVE  \A t \in Sessions : Responds(t)
  BY <1>6 DEF ModelText, ToolStart, ToolTakesEffect, ToolEnd, ToolError, Answer, wire, Untouched
<1>7. ASSUME NEW s \in Sessions, NEW type, type \notin Ending, Write(s, type)
      PROVE  \A t \in Sessions : Responds(t)
  <2>1. Len(stream[s]) + 1 \in 1..Len(events[s]) /\ events[s] \in Seq(SomeLine)
    BY <1>7 DEF Write, WireTyped
  <2>2. NextEvent(s) \in SomeLine /\ NextEvent(s).type \notin Ending
    BY <1>7, <2>1 DEF Write, NextEvent
  <2> QED
    BY <1>2, <1>7, <2>2 DEF Write, Running
<1>8. ASSUME NEW s \in Sessions, WriteText(s) \/ WriteCall(s) \/ WriteResult(s)
      PROVE  \A t \in Sessions : Responds(t)
  <2>1. \E type : type \notin Ending /\ Write(s, type)
    BY <1>8 DEF WriteText, WriteCall, WriteResult, Ending
  <2> QED
    BY <1>7, <2>1
<1>9. ASSUME NEW s \in Sessions, Finish(s) PROVE \A t \in Sessions : Responds(t)
  <2>1. \A t \in Sessions : t # s => Untouched(t)
    BY <1>0, <1>9 DEF Finish, CloseBody, Untouched
  <2> QED
    BY <1>9, <2>1, FinishLonger
<1>10. ASSUME NEW s \in Sessions, StartRun(s) \/ AgentRefuses(s)
       PROVE  \A t \in Sessions : Responds(t)
  BY <1>0, <1>10 DEF StartRun, AgentRefuses, Untouched
<1>11. ASSUME AgentCrash PROVE \A t \in Sessions : Responds(t)
  <2>1. PICK kept \in [Sessions -> 0..MaxResponse] :
          /\ \A s \in Sessions :
               kept[s] \in (IF body[s] = "open" THEN got[s] ELSE Len(stream[s]))..Len(stream[s])
          /\ stream' = [s \in Sessions |-> SubSeq(stream[s], 1, kept[s])]
    BY <1>11 DEF AgentCrash
  <2>2. \A t \in Sessions : body[t] = "open" => request[t].turn \in cut'
    BY <1>11 DEF AgentCrash
  <2>3. ASSUME NEW t \in Sessions PROVE Responds(t)
    <3>1. /\ stream[t] \in Seq(SomeLine) /\ Len(stream[t]) \in Nat /\ got[t] \in Nat
          /\ kept[t] \in (IF body[t] = "open" THEN got[t] ELSE Len(stream[t]))..Len(stream[t])
          /\ stream'[t] = SubSeq(stream[t], 1, kept[t])
      BY <1>0, <2>1 DEF WireTyped
    <3>2. kept[t] \in 0..Len(stream[t])
      BY <3>1
    <3>3. Len(stream'[t]) = kept[t] /\ \A i \in 1..Len(stream'[t]) : stream'[t][i] = stream[t][i]
      BY <3>1, <3>2
    <3>4. CASE body[t] = "open"
      <4>1. body'[t] = "closed"
        BY <1>11, <3>4 DEF AgentCrash
      <4> QED
        BY <2>2, <3>1, <3>3, <3>4, <4>1 DEF Cut
    <3>5. CASE body[t] # "open"
      <4>1. kept[t] = Len(stream[t])
        BY <3>1, <3>5
      <4>2. stream'[t] = stream[t]
        BY <3>1, <4>1
      <4>3. body'[t] = body[t] \/ (body[t] = "called" /\ body'[t] = "refused")
        BY <1>11, <3>5 DEF AgentCrash
      <4> QED
        BY <4>2, <4>3 DEF Untouched
    <3> QED
      BY <3>4, <3>5
  <2> QED
    BY <2>3
<1> QED
  BY <1>4, <1>5, <1>6, <1>8, <1>9, <1>10, <1>11 DEF AgentNext, AgentStep

(* A turn that has been cut stays so. *)
LEMMA CutsGrow ==
  ASSUME AgentNext
  PROVE  cut \subseteq cut'
<1>1. ASSUME NEW s \in Sessions, AgentStep(s) \/ AgentRefuses(s) PROVE UNCHANGED cut
  BY <1>1 DEF AgentStep, AgentRefuses, StartRun, InitFails, ModelText, ToolStart, ToolTakesEffect,
              ToolEnd, ToolError, Answer, Write, WriteText, WriteCall, WriteResult, Finish,
              AgentFails, agentVars
<1> QED
  BY <1>1 DEF AgentNext, AgentCrash
-----------------------------------------------------------------------------
(***************************************************************************)
(* What a step of the gateway does to the reading of one response: it goes *)
(* on elsewhere in the turn, begins to read, reads a line, asks for a new  *)
(* response or is done with the one there is.                              *)
(***************************************************************************)
SameWire(s) == stream'[s] = stream[s] /\ body'[s] = body[s]

Elsewhere(s) == /\ SameWire(s) /\ got'[s] = got[s]
                /\ pc'[s] \in Waiting => pc'[s] = pc[s]
Opens(s) == /\ SameWire(s) /\ got'[s] = got[s]
            /\ pc[s] = "call" /\ pc'[s] = "stream" /\ body[s] \in {"open", "closed"}
ReadsLine(s) == /\ SameWire(s) /\ got'[s] = got[s] + 1 /\ got[s] < Len(stream[s])
                /\ pc[s] = "stream" /\ pc'[s] = "stream"
Posts(s) == /\ stream'[s] = <<>> /\ body'[s] = "called" /\ got'[s] = 0
            /\ pc[s] = "post" /\ pc'[s] = "call"
Finishes(s) == /\ stream'[s] = stream[s] /\ body'[s] = "none" /\ got'[s] = got[s]
               /\ pc'[s] \in {"read", "down"}

Reads(s) == Elsewhere(s) \/ Opens(s) \/ ReadsLine(s) \/ Posts(s) \/ Finishes(s)

(* Every step of the gateway is one of these for every session. *)
LEMMA GatewayReads ==
  ASSUME WireTyped, GatewayNext
  PROVE  \A s \in Sessions : Reads(s)
<1> USE DEF wire, session, store, bounds, Waiting, Reads, SameWire
<1>0. DOMAIN pc = Sessions /\ DOMAIN body = Sessions /\ got \in [Sessions -> Nat]
      /\ stream \in [Sessions -> Seq(SomeLine)]
  BY DEF WireTyped
<1>1. ASSUME NEW s \in Sessions, NEW next, Go(s, next), next \notin Waiting,
             UNCHANGED <<stream, body, got>>
      PROVE  \A t \in Sessions : Reads(t)
  BY <1>0, <1>1 DEF Go, Elsewhere
<1>2. ASSUME NEW s \in Sessions,
             \/ EnsureConversation(s) \/ EnsureFails(s) \/ Allowed(s) \/ Denied(s) \/ AllowFails(s)
             \/ PersistUser(s) \/ PersistFails(s)
      PROVE  \A t \in Sessions : Reads(t)
  <2>1. \E next : Go(s, next) /\ next \notin Waiting
    BY <1>2 DEF EnsureConversation, EnsureFails, Allowed, Denied, AllowFails, PersistUser,
                PersistFails, SendError
  <2>2. UNCHANGED <<stream, body, got>>
    BY <1>2 DEF EnsureConversation, EnsureFails, Allowed, Denied, AllowFails, PersistUser,
                PersistFails
  <2> QED
    BY <1>1, <2>1, <2>2
<1>3. ASSUME NEW s \in Sessions,
             LoadHistory(s) \/ HistoryFails(s) \/ Connect(s) \/ Disconnect(s) \/ Receive(s)
      PROVE  \A t \in Sessions : Reads(t)
  <2>1. \E next : Go(s, next) /\ next \notin Waiting
    BY <1>3 DEF LoadHistory, HistoryFails, Connect, Disconnect, Receive, SendError
  <2>2. UNCHANGED <<stream, body, got>>
    BY <1>3 DEF LoadHistory, HistoryFails, Connect, Disconnect, Receive
  <2> QED
    BY <1>1, <2>1, <2>2
<1>4. ASSUME NEW s \in Sessions, ReceiveInvalid(s) \/ BrowserLeaves(s)
      PROVE  \A t \in Sessions : Reads(t)
  BY <1>4 DEF ReceiveInvalid, BrowserLeaves, Elsewhere
<1>5. ASSUME NEW s \in Sessions, PostTurn(s) PROVE \A t \in Sessions : Reads(t)
  BY <1>0, <1>5 DEF PostTurn, Go, Posts, Elsewhere
<1>6. ASSUME NEW s \in Sessions, StreamStarts(s) PROVE \A t \in Sessions : Reads(t)
  BY <1>0, <1>6 DEF StreamStarts, Go, Opens, Elsewhere
<1>7. ASSUME NEW s \in Sessions, AgentUnavailable(s) \/ StreamEnds(s)
      PROVE  \A t \in Sessions : Reads(t)
  <2>1. Go(s, "read") /\ body' = [body EXCEPT ![s] = "none"] /\ UNCHANGED <<stream, got>>
    BY <1>7 DEF AgentUnavailable, StreamEnds, SendError
  <2> QED
    BY <1>0, <2>1 DEF Go, Finishes, Elsewhere
<1>8. ASSUME NEW s \in Sessions,
             ForwardFails(s) \/ OnToken(s) \/ OnToolCall(s) \/ OnToolResult(s) \/ OnDone(s) \/ OnError(s)
      PROVE  \A t \in Sessions : Reads(t)
  <2>1. Reading(s) /\ Consume(s) /\ UNCHANGED <<pc, stream, body>>
    BY <1>8 DEF ForwardFails, OnToken, OnToolCall, OnToolResult, OnDone, OnError, Forward
  <2> QED
    BY <1>0, <2>1 DEF Reading, Consume, ReadsLine, Elsewhere
<1>9. ASSUME GatewayCrash PROVE \A t \in Sessions : Reads(t)
  BY <1>9 DEF GatewayCrash, Finishes
<1> QED
  BY <1>2, <1>3, <1>4, <1>5, <1>6, <1>7, <1>8, <1>9 DEF GatewayNext, TurnStep, BrowserStep

(***************************************************************************)
(* The gateway numbers a request when it makes it, and begins the next     *)
(* turn when it waits for none.                                            *)
(***************************************************************************)
LEMMA GatewayNumbers ==
  ASSUME WireTyped, NumberInv, GatewayNext
  PROVE  NumberInv' /\ \A s \in Sessions : pc[s] \in Waiting => turn'[s] = turn[s]
<1> DEFINE Goal == NumberInv' /\ \A s \in Sessions : pc[s] \in Waiting => turn'[s] = turn[s]
<1> USE DEF wire, session, store, bounds, Sending, Waiting
<1>0. DOMAIN pc = Sessions /\ DOMAIN request = Sessions /\ DOMAIN turn = Sessions
      /\ \A s \in Sessions : OwnNumber(s)
  BY DEF WireTyped, NumberInv
<1>1. ASSUME NEW s \in Sessions, LoadHistory(s) PROVE Goal
  BY <1>0, <1>1 DEF LoadHistory, Go, NumberInv, OwnNumber
<1>2. ASSUME NEW s \in Sessions, Connect(s) \/ Receive(s) PROVE Goal
  BY <1>0, <1>2 DEF Connect, Receive, Go, NumberInv, OwnNumber
<1>3. ASSUME UNCHANGED <<request, turn>>,
             \A s \in Sessions : pc'[s] \in Sending => pc[s] \in Sending
      PROVE  Goal
  BY <1>0, <1>3 DEF NumberInv, OwnNumber
<1>4. ASSUME NEW s \in Sessions, NEW next, Go(s, next), UNCHANGED <<request, turn>>,
             next \in Sending => pc[s] \in Sending
      PROVE  Goal
  BY <1>0, <1>3, <1>4 DEF Go
<1>5. ASSUME NEW s \in Sessions,
             \/ EnsureConversation(s) \/ EnsureFails(s) \/ Allowed(s) \/ Denied(s)
             \/ AllowFails(s) \/ PersistUser(s) \/ PersistFails(s) \/ HistoryFails(s)
             \/ PostTurn(s) \/ StreamStarts(s) \/ AgentUnavailable(s) \/ StreamEnds(s)
             \/ Disconnect(s)
      PROVE  Goal
  <2>1. \E next : Go(s, next) /\ (next \in Sending => pc[s] \in Sending)
    BY <1>5 DEF EnsureConversation, EnsureFails, Allowed, Denied, AllowFails, PersistUser,
                PersistFails, HistoryFails, PostTurn, StreamStarts, AgentUnavailable, StreamEnds,
                Disconnect, SendError
  <2>2. UNCHANGED <<request, turn>>
    BY <1>5 DEF EnsureConversation, EnsureFails, Allowed, Denied, AllowFails, PersistUser,
                PersistFails, HistoryFails, PostTurn, StreamStarts, AgentUnavailable, StreamEnds,
                Disconnect
  <2> QED
    BY <1>4, <2>1, <2>2
<1>6. ASSUME NEW s \in Sessions,
             \/ ForwardFails(s) \/ OnToken(s) \/ OnToolCall(s) \/ OnToolResult(s)
             \/ OnDone(s) \/ OnError(s) \/ ReceiveInvalid(s) \/ BrowserLeaves(s)
      PROVE  Goal
  <2>1. UNCHANGED <<pc, request, turn>>
    BY <1>6 DEF ForwardFails, OnToken, OnToolCall, OnToolResult, OnDone, OnError, Forward,
                ReceiveInvalid, BrowserLeaves
  <2> QED
    BY <1>3, <2>1
<1>7. ASSUME GatewayCrash PROVE Goal
  BY <1>3, <1>7 DEF GatewayCrash
<1> QED
  BY <1>1, <1>2, <1>5, <1>6, <1>7 DEF GatewayNext, TurnStep, BrowserStep

(* At first there is no response. *)
LEMMA InitEnds == Init => EndInv /\ NumberInv
BY DEF Init, GatewayInit, AgentInit, EndInv, Ends, NumberInv, OwnNumber, Sending

(* Neither writes after an end, or reads past it. *)
LEMMA EndsStep ==
  ASSUME ScopeInv, EndInv, NumberInv, [Next]_vars
  PROVE  EndInv' /\ NumberInv'
<1>0. WireTyped /\ TurnsOwn
  BY DEF ScopeInv
<1>1. ASSUME NEW s \in Sessions, Reads(s), UNCHANGED cut,
             pc[s] \in Waiting => turn'[s] = turn[s]
      PROVE  Ends(s)'
  <2>1. Ends(s) /\ Len(stream[s]) \in Nat /\ got[s] \in Nat
    BY <1>0 DEF EndInv, WireTyped
  <2>a. body[s] # "none" => turn'[s] = turn[s]
    BY <1>0, <1>1 DEF TurnsOwn, Awaited
  <2>2. CASE Elsewhere(s) \/ Opens(s)
    BY <1>1, <2>1, <2>a, <2>2 DEF Elsewhere, Opens, SameWire, Ends, Waiting
  <2>3. CASE ReadsLine(s)
    BY <1>1, <2>1, <2>a, <2>3 DEF ReadsLine, SameWire, Ends
  <2>4. CASE Posts(s)
    BY <2>4 DEF Posts, Ends
  <2>5. CASE Finishes(s)
    BY <1>1, <2>1, <2>5 DEF Finishes, Ends
  <2> QED
    BY <1>1, <2>2, <2>3, <2>4, <2>5 DEF Reads
<1>2. ASSUME NEW s \in Sessions, Responds(s), cut \subseteq cut',
             UNCHANGED <<pc, got, turn>>, WireTyped'
      PROVE  Ends(s)'
  <2>1. Ends(s) /\ Len(stream[s]) \in Nat /\ Len(stream'[s]) \in Nat /\ got[s] \in Nat
    BY <1>0, <1>2 DEF EndInv, WireTyped
  <2>2. CASE Untouched(s)
    BY <1>2, <2>1, <2>2 DEF Untouched, Ends
  <2>3. CASE Longer(s)
    <3> DEFINE lines == stream[s]
               longer == stream'[s]
    <3>1. \A i \in 1..Len(longer) : i \in 1..Len(lines) \/ i \in (Len(lines) + 1)..Len(longer)
      BY <2>1
    <3>2. \A i \in 1..Len(lines) : longer[i].type \notin Ending
      BY <2>1, <2>3 DEF Longer, Ends
    <3>3. \A i \in 1..Len(longer) : longer[i].type \in Ending =>
            i = Len(longer) /\ body'[s] = "closed"
      BY <2>3, <3>1, <3>2 DEF Longer
    <3>4. body'[s] = "closed" => Len(longer) > 0 /\ longer[Len(longer)].type \in Ending
      BY <2>1, <2>3 DEF Longer
    <3>5. got'[s] <= Len(longer) /\ body'[s] \in {"open", "closed"}
      BY <1>2, <2>1, <2>3 DEF Longer, Ends
    <3>6. pc'[s] = "call" => got'[s] = 0
      BY <1>2, <2>1 DEF Ends
    <3> HIDE DEF lines, longer
    <3> QED
      BY <3>3, <3>4, <3>5, <3>6 DEF Ends, lines, longer
  <2>4. CASE Cut(s)
    <3>1. turn[s] = request[s].turn
      BY <1>0, <2>4 DEF Cut, TurnsOwn, Awaited, NumberInv, OwnNumber, Waiting, Sending
    <3> QED
      BY <1>2, <2>1, <2>4, <3>1 DEF Cut, Ends
  <2> QED
    BY <1>2, <2>2, <2>3, <2>4 DEF Responds
<1>3. ScopeInv'
  BY ScopeStep
<1>4. ASSUME GatewayNext, UNCHANGED agentVars PROVE EndInv' /\ NumberInv'
  BY <1>0, <1>1, <1>4, GatewayReads, GatewayNumbers DEF EndInv, agentVars
<1>5. ASSUME AgentNext, UNCHANGED gatewayVars PROVE EndInv' /\ NumberInv'
  <2>1. UNCHANGED <<pc, got, turn, request>>
    BY <1>0, <1>5, AgentAnswers DEF Answering, gatewayVars
  <2>2. \A s \in Sessions : Ends(s)'
    BY <1>0, <1>2, <1>3, <1>5, <2>1, AgentResponds, CutsGrow DEF ScopeInv
  <2> QED
    BY <2>1, <2>2 DEF EndInv, NumberInv, OwnNumber
<1>6. ASSUME UNCHANGED vars PROVE EndInv' /\ NumberInv'
  BY <1>6 DEF vars, wire, gatewayVars, agentVars, EndInv, Ends, NumberInv, OwnNumber
<1> QED
  BY <1>4, <1>5, <1>6 DEF Next
-----------------------------------------------------------------------------
(***************************************************************************)
(* A turn under way has been answered only if its response is over, a line *)
(* that ends it has been answered unless the browser left, and so has      *)
(* every turn that is over, unless its response was cut off.               *)
(***************************************************************************)
Over(s) == pc[s] = "stream" /\ got[s] = Len(stream[s]) /\ body[s] = "closed"

Answers(s) ==
  /\ answers[s] \in 0..1
  /\ pc[s] \in Busy /\ answers[s] # 0 => Over(s)
  /\ ~left[s] => conn[s] = "up"
  /\ pc[s] = "stream" /\ ~left[s] /\ got[s] > 0 /\ stream[s][got[s]].type \in Ending =>
       answers[s] = 1
  /\ pc[s] = "read" /\ turn[s] # 0 /\ ~left[s] => answers[s] = 1 \/ turn[s] \in cut

AnswersTyped ==
  DOMAIN answers = Sessions /\ DOMAIN conn = Sessions /\ DOMAIN left = Sessions
  /\ DOMAIN turn = Sessions

AnswerInv == AnswersTyped /\ \A s \in Sessions : Answers(s)

TurnInv == ScopeInv /\ EndInv /\ NumberInv /\ AnswerInv

(* At first no turn has begun. *)
LEMMA InitAnswers == Init => AnswerInv
BY DEF Init, GatewayInit, AnswerInv, AnswersTyped, Answers, Busy

(* A step of one session is no other's. *)
OthersSame(s) ==
  \A t \in Sessions \ {s} :
    /\ pc'[t] = pc[t] /\ got'[t] = got[t] /\ stream'[t] = stream[t] /\ body'[t] = body[t]
    /\ answers'[t] = answers[t] /\ conn'[t] = conn[t] /\ left'[t] = left[t] /\ turn'[t] = turn[t]

(* So it is enough to look at that session. *)
LEMMA OneSession ==
  ASSUME AnswerInv, NEW s \in Sessions, OthersSame(s), AnswersTyped', UNCHANGED cut, Answers(s)'
  PROVE  AnswerInv'
BY DEF AnswerInv, OthersSame, Answers, Over

(* An error of the gateway's own answers a turn that was not answered. *)
LEMMA ErrorAnswers ==
  ASSUME TurnInv, NEW s \in Sessions, SendError(s), pc[s] \in Busy \ {"stream"},
         UNCHANGED <<stream, got, turn, left, cut>>,
         body' = body \/ body' = [body EXCEPT ![s] = "none"]
  PROVE  AnswerInv'
<1>0. /\ AnswersTyped /\ Answers(s) /\ DOMAIN pc = Sessions /\ DOMAIN body = Sessions
  BY DEF TurnInv, AnswerInv, ScopeInv, WireTyped
<1>1. answers[s] = 0
  BY <1>0 DEF Answers, Over
<1>2. OthersSame(s) /\ AnswersTyped'
  BY <1>0 DEF SendError, Go, OthersSame, AnswersTyped
<1>3. pc'[s] = "read"
  BY <1>0 DEF SendError, Go
<1>4. \/ conn' = conn /\ answers'[s] = 1
      \/ conn[s] # "up" /\ answers'[s] = 0
  BY <1>0, <1>1 DEF SendError, AnswersTyped
<1>5. Answers(s)'
  BY <1>0, <1>3, <1>4 DEF Answers, Busy, AnswersTyped
<1> QED
  BY <1>2, <1>5, OneSession DEF TurnInv

(***************************************************************************)
(* The gateway answers a turn once: with an error of its own, or with the  *)
(* line that ends the response.                                            *)
(***************************************************************************)
LEMMA GatewayAnswersOnce ==
  ASSUME TurnInv, GatewayNext, UNCHANGED agentVars
  PROVE  AnswerInv'
<1> USE DEF wire, session, store, bounds, agentVars
<1>0. /\ AnswerInv /\ AnswersTyped /\ (\A s \in Sessions : Answers(s) /\ Ends(s))
      /\ DOMAIN pc = Sessions /\ DOMAIN body = Sessions /\ got \in [Sessions -> Nat]
      /\ (\A s \in Sessions : Len(stream[s]) \in Nat)
      /\ UNCHANGED cut
  BY DEF TurnInv, AnswerInv, ScopeInv, WireTyped, EndInv
<1>1. ASSUME NEW s \in Sessions, NEW next \in Busy \ {"stream"}, Go(s, next),
             pc[s] \in Busy \ {"stream"},
             UNCHANGED <<stream, body, got, answers, conn, left, turn>>
      PROVE  AnswerInv'
  <2>1. OthersSame(s) /\ AnswersTyped' /\ pc'[s] = next
    BY <1>0, <1>1 DEF Go, OthersSame, AnswersTyped
  <2>2. Answers(s)'
    BY <1>0, <1>1, <2>1 DEF Answers, Busy, Over
  <2> QED
    BY <1>0, <2>1, <2>2, OneSession
<1>2. ASSUME NEW s \in Sessions,
             EnsureConversation(s) \/ Allowed(s) \/ PersistUser(s) \/ LoadHistory(s)
      PROVE  AnswerInv'
  <2>1. pc[s] \in Busy \ {"stream"} /\ \E next \in Busy \ {"stream"} : Go(s, next)
    BY <1>2 DEF EnsureConversation, Allowed, PersistUser, LoadHistory, Busy
  <2>2. UNCHANGED <<stream, body, got, answers, conn, left, turn>>
    BY <1>2 DEF EnsureConversation, Allowed, PersistUser, LoadHistory
  <2> QED
    BY <1>1, <2>1, <2>2
<1>3. ASSUME NEW s \in Sessions,
             EnsureFails(s) \/ Denied(s) \/ AllowFails(s) \/ PersistFails(s) \/ HistoryFails(s)
             \/ AgentUnavailable(s)
      PROVE  AnswerInv'
  <2>1. SendError(s) /\ pc[s] \in Busy \ {"stream"}
    BY <1>3 DEF EnsureFails, Denied, AllowFails, PersistFails, HistoryFails, AgentUnavailable, Busy
  <2>2. /\ UNCHANGED <<stream, got, turn, left, cut>>
        /\ body' = body \/ body' = [body EXCEPT ![s] = "none"]
    BY <1>3 DEF EnsureFails, Denied, AllowFails, PersistFails, HistoryFails, AgentUnavailable
  <2> QED
    BY <2>1, <2>2, ErrorAnswers
<1>4. ASSUME NEW s \in Sessions, PostTurn(s) PROVE AnswerInv'
  <2>1. OthersSame(s) /\ AnswersTyped' /\ pc'[s] = "call" /\ pc[s] = "post"
        /\ UNCHANGED <<answers, conn, left, turn>>
    BY <1>0, <1>4 DEF PostTurn, Go, OthersSame, AnswersTyped
  <2>2. Answers(s)'
    BY <1>0, <2>1 DEF Answers, Busy, Over
  <2> QED
    BY <1>0, <2>1, <2>2, OneSession
<1>5. ASSUME NEW s \in Sessions, StreamStarts(s) PROVE AnswerInv'
  <2>1. OthersSame(s) /\ AnswersTyped' /\ pc'[s] = "stream" /\ pc[s] = "call"
        /\ UNCHANGED <<answers, conn, left, turn, got, stream, body>>
    BY <1>0, <1>5 DEF StreamStarts, Go, OthersSame, AnswersTyped
  <2>2. got[s] = 0 /\ answers[s] = 0
    BY <1>0, <2>1 DEF Ends, Answers, Busy, Over
  <2>3. Answers(s)'
    BY <1>0, <2>1, <2>2 DEF Answers, Busy
  <2> QED
    BY <1>0, <2>1, <2>3, OneSession
<1>6. ASSUME NEW s \in Sessions, OnToken(s) \/ OnToolCall(s) \/ OnToolResult(s) PROVE AnswerInv'
  <2>1. Reading(s) /\ Consume(s) /\ Line(s).type \notin Ending
        /\ UNCHANGED <<pc, answers, conn, left, turn, stream, body>>
    BY <1>6 DEF OnToken, OnToolCall, OnToolResult, Forward, Ending
  <2>2. OthersSame(s) /\ AnswersTyped' /\ got'[s] = got[s] + 1 /\ answers[s] = 0
    BY <1>0, <2>1 DEF Reading, Consume, OthersSame, AnswersTyped, Answers, Over, Busy
  <2>3. Answers(s)'
    BY <1>0, <2>1, <2>2 DEF Answers, Busy, Reading, Line
  <2> QED
    BY <1>0, <2>2, <2>3, OneSession
<1>7. ASSUME NEW s \in Sessions, ForwardFails(s) PROVE AnswerInv'
  <2>1. Reading(s) /\ Consume(s) /\ conn[s] # "up" /\ conn' = [conn EXCEPT ![s] = "broken"]
        /\ UNCHANGED <<pc, answers, left, turn, stream, body>>
    BY <1>7 DEF ForwardFails
  <2>2. OthersSame(s) /\ AnswersTyped' /\ left[s] /\ answers[s] = 0
    BY <1>0, <2>1 DEF Reading, Consume, OthersSame, AnswersTyped, Answers, Over, Busy
  <2>3. Answers(s)'
    BY <1>0, <2>1, <2>2 DEF Answers, Busy, Reading
  <2> QED
    BY <1>0, <2>2, <2>3, OneSession
<1>8. ASSUME NEW s \in Sessions, OnDone(s) \/ OnError(s) PROVE AnswerInv'
  <2>1. Reading(s) /\ Consume(s) /\ Line(s).type \in Ending
        /\ answers' = [answers EXCEPT ![s] = @ + 1]
        /\ UNCHANGED <<pc, conn, left, turn, stream, body>>
    BY <1>8 DEF OnDone, OnError, Forward, Ending
  <2>2. OthersSame(s) /\ AnswersTyped' /\ got'[s] = got[s] + 1 /\ answers'[s] = 1
    BY <1>0, <2>1 DEF Reading, Consume, OthersSame, AnswersTyped, Answers, Over, Busy
  <2>3. got[s] + 1 = Len(stream[s]) /\ body[s] = "closed"
    <3>1. got[s] + 1 \in 1..Len(stream[s]) /\ stream[s][got[s] + 1].type \in Ending
          /\ pc[s] = "stream"
      BY <1>0, <2>1 DEF Reading, Line
    <3> QED
      BY <1>0, <3>1 DEF Ends
  <2>4. Answers(s)'
    BY <1>0, <2>1, <2>2, <2>3 DEF Answers, Over, Reading
  <2> QED
    BY <1>0, <2>2, <2>4, OneSession
<1>9. ASSUME NEW s \in Sessions, StreamEnds(s) PROVE AnswerInv'
  <2>1. /\ pc[s] = "stream" /\ body[s] = "closed" /\ got[s] = Len(stream[s]) /\ pc'[s] = "read"
        /\ OthersSame(s) /\ AnswersTyped'
        /\ UNCHANGED <<answers, conn, left, turn, got, stream>>
    BY <1>0, <1>9 DEF StreamEnds, Go, OthersSame, AnswersTyped
  <2>2. ~left[s] => answers[s] = 1 \/ turn[s] \in cut
    BY <1>0, <2>1 DEF Ends, Answers
  <2>3. Answers(s)'
    BY <1>0, <2>1, <2>2 DEF Answers, Busy
  <2> QED
    BY <1>0, <2>1, <2>3, OneSession
<1>10. ASSUME NEW s \in Sessions, Connect(s) \/ Receive(s) PROVE AnswerInv'
  <2>1. /\ OthersSame(s) /\ AnswersTyped' /\ answers'[s] = 0 /\ UNCHANGED <<left, got, stream, body>>
        /\ \/ pc'[s] = "read" /\ turn'[s] = 0 /\ conn'[s] = "up"
           \/ pc'[s] = "ensure" /\ UNCHANGED conn
    BY <1>0, <1>10 DEF Connect, Receive, Go, OthersSame, AnswersTyped
  <2>2. Answers(s)'
    BY <1>0, <2>1 DEF Answers
  <2> QED
    BY <1>0, <2>1, <2>2, OneSession
<1>11. ASSUME NEW s \in Sessions, ReceiveInvalid(s) PROVE AnswerInv'
  <2>1. /\ pc[s] = "read" /\ OthersSame(s) /\ AnswersTyped'
        /\ UNCHANGED <<pc, left, got, stream, body, turn>>
        /\ \/ UNCHANGED conn /\ answers'[s] = 1
           \/ conn[s] # "up" /\ answers'[s] = 0
    BY <1>0, <1>11 DEF ReceiveInvalid, OthersSame, AnswersTyped
  <2>2. Answers(s)'
    BY <1>0, <2>1 DEF Answers, Busy
  <2> QED
    BY <1>0, <2>1, <2>2, OneSession
<1>12. ASSUME NEW s \in Sessions, Disconnect(s) PROVE AnswerInv'
  <2>1. /\ OthersSame(s) /\ AnswersTyped' /\ pc'[s] = "down"
        /\ UNCHANGED <<left, got, stream, body, turn, conn, answers>>
    BY <1>0, <1>12 DEF Disconnect, Go, OthersSame, AnswersTyped
  <2>2. Answers(s)'
    BY <1>0, <2>1 DEF Answers, Busy
  <2> QED
    BY <1>0, <2>1, <2>2, OneSession
<1>13. ASSUME NEW s \in Sessions, BrowserLeaves(s) PROVE AnswerInv'
  <2>1. /\ OthersSame(s) /\ AnswersTyped' /\ left'[s]
        /\ UNCHANGED <<pc, got, stream, body, turn, answers>>
    BY <1>0, <1>13 DEF BrowserLeaves, OthersSame, AnswersTyped
  <2>2. Answers(s)'
    BY <1>0, <2>1 DEF Answers, Over
  <2> QED
    BY <1>0, <2>1, <2>2, OneSession
<1>14. ASSUME GatewayCrash PROVE AnswerInv'
  <2>1. /\ pc' = [s \in Sessions |-> "down"] /\ UNCHANGED <<answers, conn, left, turn, got, stream>>
    BY <1>14 DEF GatewayCrash
  <2> QED
    BY <1>0, <2>1 DEF AnswerInv, AnswersTyped, Answers, Busy
<1> QED
  BY <1>2, <1>3, <1>4, <1>5, <1>6, <1>7, <1>8, <1>9, <1>10, <1>11, <1>12, <1>13, <1>14
     DEF GatewayNext, TurnStep, BrowserStep

(* The agent takes no line back that has been read. *)
LEMMA AgentAnswersNot ==
  ASSUME TurnInv, AgentNext, UNCHANGED gatewayVars
  PROVE  AnswerInv'
<1>0. /\ AnswerInv /\ WireTyped
      /\ (\A s \in Sessions : Answers(s) /\ Ends(s) /\ Responds(s) /\ Len(stream[s]) \in Nat)
      /\ got \in [Sessions -> Nat]
  BY AgentResponds DEF TurnInv, AnswerInv, ScopeInv, WireTyped, EndInv
<1>1. UNCHANGED <<pc, got, answers, conn, left, turn>>
  BY <1>0, AgentAnswers DEF Answering, gatewayVars
<1>2. cut \subseteq cut'
  BY CutsGrow
<1>3. ASSUME NEW s \in Sessions PROVE Answers(s)'
  <2>1. Over(s) => Over(s)'
    BY <1>0, <1>1 DEF Over, Responds, Untouched, Longer, Cut
  <2>2. got[s] > 0 => stream'[s][got[s]] = stream[s][got[s]]
    BY <1>0 DEF Responds, Untouched, Longer, Cut, Ends
  <2> QED
    BY <1>0, <1>1, <1>2, <2>1, <2>2 DEF Answers
<1> QED
  BY <1>0, <1>1, <1>3 DEF AnswerInv, AnswersTyped

(* A turn is answered once, and the answer is its last line. *)
LEMMA TurnStepped == TurnInv /\ [Next]_vars => TurnInv'
<1> SUFFICES ASSUME TurnInv, [Next]_vars PROVE TurnInv'
  OBVIOUS
<1>1. ScopeInv' /\ EndInv' /\ NumberInv'
  BY ScopeStep, EndsStep DEF TurnInv
<1>2. CASE UNCHANGED vars
  BY <1>1, <1>2 DEF vars, wire, gatewayVars, agentVars, TurnInv, AnswerInv, AnswersTyped, Answers, Over
<1> QED
  BY <1>1, <1>2, GatewayAnswersOnce, AgentAnswersNot DEF Next, TurnInv

(* So it is at first. *)
LEMMA InitTurn == Init => TurnInv
BY InitScope, InitEnds, InitAnswers DEF TurnInv

(***************************************************************************)
(* However sessions, agent and faults interleave, a turn that is over has  *)
(* been answered exactly once, except when the browser has left or the     *)
(* agent died in the middle of the response to that turn.                  *)
(***************************************************************************)
THEOREM AnsweredOnce == Spec => []OneAnswerPerTurn
<1>1. TurnInv => OneAnswerPerTurn
  BY DEF TurnInv, AnswerInv, Answers, OneAnswerPerTurn
<1> QED
  BY InitTurn, TurnStepped, <1>1, PTL DEF Spec
-----------------------------------------------------------------------------
(***************************************************************************)
(* The refinement: the phase of a session and the lines it has forwarded.  *)
(***************************************************************************)
PhaseOf == [s \in Sessions |-> CASE pc[s] = "down" -> "down"
                                 [] pc[s] = "read" -> "idle"
                                 [] OTHER -> "turn"]
ForwardedOf == [s \in Sessions |-> IF pc[s] = "stream" THEN got[s] ELSE 0]

(* A step of one session is a step of that connection. *)
LEMMA FramesMove ==
  ASSUME NEW s \in Sessions, OthersSame(s), NEW phase, NEW forwarded,
         phase = PhaseOf'[s], forwarded = ForwardedOf'[s]
  PROVE  /\ PhaseOf' = [PhaseOf EXCEPT ![s] = phase]
         /\ ForwardedOf' = [ForwardedOf EXCEPT ![s] = forwarded]
<1>1. PhaseOf' = [PhaseOf EXCEPT ![s] = phase]
  <2>1. \A t \in Sessions \ {s} : PhaseOf'[t] = PhaseOf[t]
    BY DEF OthersSame, PhaseOf
  <2>2. DOMAIN PhaseOf = Sessions /\ PhaseOf' = [t \in Sessions |-> PhaseOf'[t]]
    BY DEF PhaseOf
  <2> QED
    BY <2>1, <2>2
<1>2. ForwardedOf' = [ForwardedOf EXCEPT ![s] = forwarded]
  <2>1. \A t \in Sessions \ {s} : ForwardedOf'[t] = ForwardedOf[t]
    BY DEF OthersSame, ForwardedOf
  <2>2. DOMAIN ForwardedOf = Sessions /\ ForwardedOf' = [t \in Sessions |-> ForwardedOf'[t]]
    BY DEF ForwardedOf
  <2> QED
    BY <2>1, <2>2
<1> QED
  BY <1>1, <1>2

(* The phase of a session, by where it is. *)
LEMMA PhaseIs ==
  ASSUME NEW s \in Sessions
  PROVE  /\ pc[s] = "down" => PhaseOf[s] = "down" /\ ForwardedOf[s] = 0
         /\ pc[s] = "read" => PhaseOf[s] = "idle" /\ ForwardedOf[s] = 0
         /\ pc[s] \in Busy => PhaseOf[s] = "turn"
         /\ pc[s] \in Busy \ {"stream"} => ForwardedOf[s] = 0
         /\ pc[s] = "stream" => ForwardedOf[s] = got[s]
         /\ pc'[s] = "down" => PhaseOf'[s] = "down" /\ ForwardedOf'[s] = 0
         /\ pc'[s] = "read" => PhaseOf'[s] = "idle" /\ ForwardedOf'[s] = 0
         /\ pc'[s] \in Busy => PhaseOf'[s] = "turn"
         /\ pc'[s] \in Busy \ {"stream"} => ForwardedOf'[s] = 0
         /\ pc'[s] = "stream" => ForwardedOf'[s] = got'[s]
BY DEF PhaseOf, ForwardedOf, Busy

(***************************************************************************)
(* The gateway's steps, as the browser sees them: most of a turn is none,  *)
(* an error of its own comes before any line of the response, done and     *)
(* error of the response come once, and reading to the end says no more.   *)
(***************************************************************************)
LEMMA GatewayFrames ==
  ASSUME TurnInv, GatewayNext, UNCHANGED agentVars
  PROVE  Frames!FramesNext \/ UNCHANGED <<PhaseOf, answers, ForwardedOf>>
<1> DEFINE Goal == Frames!FramesNext \/ UNCHANGED <<PhaseOf, answers, ForwardedOf>>
<1> USE DEF wire, session, store, bounds
<1>0. /\ AnswersTyped /\ (\A s \in Sessions : Answers(s) /\ Ends(s))
      /\ DOMAIN pc = Sessions /\ DOMAIN body = Sessions /\ got \in [Sessions -> Nat]
      /\ stream \in [Sessions -> Seq(SomeLine)]
      /\ (\A s \in Sessions : Len(stream[s]) \in Nat)
  BY DEF TurnInv, AnswerInv, ScopeInv, WireTyped, EndInv
<1>1. ASSUME NEW s \in Sessions, OthersSame(s), UNCHANGED answers,
             pc[s] \in Busy \ {"stream"}, pc'[s] \in Busy, pc'[s] = "stream" => got'[s] = 0
      PROVE  Goal
  <2>1. PhaseOf' = [PhaseOf EXCEPT ![s] = "turn"] /\ ForwardedOf' = [ForwardedOf EXCEPT ![s] = 0]
        /\ PhaseOf[s] = "turn" /\ ForwardedOf[s] = 0
    BY <1>1, FramesMove, PhaseIs
  <2>2. PhaseOf' = PhaseOf /\ ForwardedOf' = ForwardedOf
    BY <2>1 DEF PhaseOf, ForwardedOf
  <2> QED
    BY <1>1, <2>2
<1>2. ASSUME NEW s \in Sessions,
             EnsureConversation(s) \/ Allowed(s) \/ PersistUser(s) \/ LoadHistory(s)
      PROVE  Goal
  <2>1. pc[s] \in Busy \ {"stream"} /\ \E next \in Busy \ {"stream"} : Go(s, next)
    BY <1>2 DEF EnsureConversation, Allowed, PersistUser, LoadHistory, Busy
  <2>2. UNCHANGED <<stream, body, got, answers, conn, left, turn>>
    BY <1>2 DEF EnsureConversation, Allowed, PersistUser, LoadHistory
  <2> QED
    BY <1>0, <1>1, <2>1, <2>2 DEF Go, OthersSame
<1>3. ASSUME NEW s \in Sessions, PostTurn(s) \/ StreamStarts(s) PROVE Goal
  <2>1. /\ OthersSame(s) /\ UNCHANGED answers
        /\ \/ pc[s] = "post" /\ pc'[s] = "call"
           \/ pc[s] = "call" /\ pc'[s] = "stream" /\ got'[s] = 0
    BY <1>0, <1>3 DEF PostTurn, StreamStarts, Go, OthersSame, Ends
  <2> QED
    BY <1>1, <2>1 DEF Busy
<1>4. ASSUME NEW s \in Sessions, SendError(s), pc[s] \in Busy \ {"stream"},
             UNCHANGED <<stream, got, turn, left>>,
             body' = body \/ body' = [body EXCEPT ![s] = "none"]
      PROVE  Goal
  <2>1. OthersSame(s) /\ pc'[s] = "read"
    BY <1>0, <1>4 DEF SendError, Go, OthersSame, AnswersTyped
  <2>2. /\ PhaseOf[s] = "turn" /\ ForwardedOf[s] = 0 /\ answers[s] = 0
        /\ PhaseOf' = [PhaseOf EXCEPT ![s] = "idle"]
        /\ ForwardedOf' = [ForwardedOf EXCEPT ![s] = 0]
    BY <1>0, <1>4, <2>1, FramesMove, PhaseIs DEF Answers, Over
  <2>3. ForwardedOf' = ForwardedOf
    BY <2>2 DEF ForwardedOf
  <2>4. answers' = [answers EXCEPT ![s] = 1] \/ answers' = answers
    BY <1>4, <2>2 DEF SendError
  <2>5. Frames!Refuse(s) \/ Frames!End(s)
    BY <2>2, <2>3, <2>4
       DEF Frames!Refuse, Frames!End, Frames!InPhase, Frames!AnsweredIs, Frames!ForwardedIs,
           PhaseOf, ForwardedOf
  <2> QED
    BY <2>5 DEF Frames!FramesNext
<1>5. ASSUME NEW s \in Sessions,
             EnsureFails(s) \/ Denied(s) \/ AllowFails(s) \/ PersistFails(s) \/ HistoryFails(s)
             \/ AgentUnavailable(s)
      PROVE  Goal
  <2>1. SendError(s) /\ pc[s] \in Busy \ {"stream"}
    BY <1>5 DEF EnsureFails, Denied, AllowFails, PersistFails, HistoryFails, AgentUnavailable, Busy
  <2>2. /\ UNCHANGED <<stream, got, turn, left>>
        /\ body' = body \/ body' = [body EXCEPT ![s] = "none"]
    BY <1>5 DEF EnsureFails, Denied, AllowFails, PersistFails, HistoryFails, AgentUnavailable
  <2> QED
    BY <1>4, <2>1, <2>2
<1>6. ASSUME NEW s \in Sessions, Reading(s), Consume(s), UNCHANGED <<pc, stream, body, left, turn>>,
             \A t \in Sessions \ {s} : conn'[t] = conn[t],
             UNCHANGED answers \/ answers' = [answers EXCEPT ![s] = @ + 1]
      PROVE  Goal
  <2>1. /\ pc[s] = "stream" /\ pc'[s] = "stream" /\ answers[s] = 0 /\ got'[s] = got[s] + 1
        /\ OthersSame(s)
    BY <1>0, <1>6 DEF Reading, Consume, OthersSame, Answers, Over, Busy, AnswersTyped
  <2>2. /\ PhaseOf[s] = "turn" /\ PhaseOf' = [PhaseOf EXCEPT ![s] = "turn"]
        /\ ForwardedOf' = [ForwardedOf EXCEPT ![s] = ForwardedOf[s] + 1]
    BY <2>1, FramesMove, PhaseIs DEF Busy
  <2>3. PhaseOf' = PhaseOf
    BY <2>2 DEF PhaseOf
  <2>4. Frames!Frame(s) \/ Frames!Answer(s)
    BY <1>6, <2>1, <2>2, <2>3
       DEF Frames!Frame, Frames!Answer, Frames!AnsweredIs, Frames!ForwardedIs, PhaseOf, ForwardedOf
  <2> QED
    BY <2>4 DEF Frames!FramesNext
<1>7. ASSUME NEW s \in Sessions,
             ForwardFails(s) \/ OnToken(s) \/ OnToolCall(s) \/ OnToolResult(s) \/ OnDone(s) \/ OnError(s)
      PROVE  Goal
  <2>1. Reading(s) /\ Consume(s) /\ UNCHANGED <<pc, stream, body, left, turn>>
    BY <1>7 DEF ForwardFails, OnToken, OnToolCall, OnToolResult, OnDone, OnError, Forward
  <2>2. UNCHANGED answers \/ answers' = [answers EXCEPT ![s] = @ + 1]
    BY <1>7 DEF ForwardFails, OnToken, OnToolCall, OnToolResult, OnDone, OnError
  <2>3. UNCHANGED conn \/ conn' = [conn EXCEPT ![s] = "broken"]
    BY <1>7 DEF ForwardFails, OnToken, OnToolCall, OnToolResult, OnDone, OnError, Forward
  <2> QED
    BY <1>0, <1>6, <2>1, <2>2, <2>3 DEF AnswersTyped
<1>8. ASSUME NEW s \in Sessions, StreamEnds(s) \/ Disconnect(s) PROVE Goal
  <2>1. /\ OthersSame(s) /\ UNCHANGED answers
        /\ \/ pc[s] = "stream" /\ pc'[s] = "read"
           \/ pc[s] = "read" /\ pc'[s] = "down"
    BY <1>0, <1>8 DEF StreamEnds, Disconnect, Go, OthersSame
  <2>2. /\ ForwardedOf' = [ForwardedOf EXCEPT ![s] = 0]
        /\ \/ PhaseOf[s] = "turn" /\ PhaseOf' = [PhaseOf EXCEPT ![s] = "idle"]
           \/ /\ PhaseOf[s] = "idle" /\ PhaseOf' = [PhaseOf EXCEPT ![s] = "down"]
              /\ ForwardedOf[s] = 0
    BY <2>1, FramesMove, PhaseIs DEF Busy
  <2>3. Frames!End(s) \/ Frames!Drop(s)
    BY <2>1, <2>2
       DEF Frames!End, Frames!Drop, Frames!InPhase, Frames!ForwardedIs, PhaseOf, ForwardedOf
  <2> QED
    BY <2>3 DEF Frames!FramesNext
<1>9. ASSUME NEW s \in Sessions, Connect(s) \/ Receive(s) PROVE Goal
  <2>1. /\ OthersSame(s) /\ answers' = [answers EXCEPT ![s] = 0]
        /\ \/ pc[s] = "down" /\ pc'[s] = "read"
           \/ pc[s] = "read" /\ pc'[s] = "ensure"
    BY <1>0, <1>9 DEF Connect, Receive, Go, OthersSame, AnswersTyped
  <2>2. /\ ForwardedOf[s] = 0 /\ ForwardedOf' = [ForwardedOf EXCEPT ![s] = 0]
        /\ \/ PhaseOf[s] = "down" /\ PhaseOf' = [PhaseOf EXCEPT ![s] = "idle"]
           \/ PhaseOf[s] = "idle" /\ PhaseOf' = [PhaseOf EXCEPT ![s] = "turn"]
    BY <2>1, FramesMove, PhaseIs DEF Busy
  <2>3. Frames!Connect(s) \/ Frames!Begin(s)
    BY <2>1, <2>2
       DEF Frames!Connect, Frames!Begin, Frames!InPhase, Frames!AnsweredIs, PhaseOf, ForwardedOf
  <2> QED
    BY <2>3 DEF Frames!FramesNext
<1>10. ASSUME NEW s \in Sessions, ReceiveInvalid(s) PROVE Goal
  <2>1. /\ pc[s] = "read" /\ UNCHANGED <<pc, got>>
        /\ answers' = [answers EXCEPT ![s] = 0] \/ answers' = [answers EXCEPT ![s] = 1]
    BY <1>10 DEF ReceiveInvalid
  <2>2. Frames!Reject(s)
    BY <2>1, PhaseIs DEF Frames!Reject, Frames!AnsweredIs, PhaseOf, ForwardedOf
  <2> QED
    BY <2>2 DEF Frames!FramesNext
<1>11. ASSUME NEW s \in Sessions, BrowserLeaves(s) PROVE Goal
  BY <1>11 DEF BrowserLeaves, PhaseOf, ForwardedOf
<1>12. ASSUME GatewayCrash PROVE Goal
  <2>1. Frames!Restart
    BY <1>12 DEF GatewayCrash, Frames!Restart, PhaseOf, ForwardedOf
  <2> QED
    BY <2>1 DEF Frames!FramesNext
<1> HIDE DEF Goal
<1>13. Goal
  BY <1>2, <1>3, <1>5, <1>7, <1>8, <1>9, <1>10, <1>11, <1>12 DEF GatewayNext, TurnStep, BrowserStep
<1> QED
  BY <1>13 DEF Goal

(***************************************************************************)
(* What a browser sees of the chat path is TurnFrames.                     *)
(***************************************************************************)
THEOREM FramesImplemented == Spec => ImplementsTurnFrames
<1>1. Init => Frames!FramesInit
  BY DEF Init, GatewayInit, Frames!FramesInit
<1>2. TurnInv /\ [Next]_vars => [Frames!FramesNext]_Frames!frameVars
  <2> SUFFICES ASSUME TurnInv, [Next]_vars
               PROVE  Frames!FramesNext \/ UNCHANGED <<PhaseOf, answers, ForwardedOf>>
    BY DEF Frames!frameVars, PhaseOf, ForwardedOf
  <2>1. CASE AgentNext /\ UNCHANGED gatewayVars
    <3>1. UNCHANGED <<pc, answers, got>>
      BY <2>1, AgentAnswers DEF TurnInv, ScopeInv, Answering, gatewayVars
    <3> QED
      BY <3>1 DEF PhaseOf, ForwardedOf
  <2>2. CASE UNCHANGED vars
    BY <2>2 DEF vars, wire, gatewayVars, PhaseOf, ForwardedOf
  <2> QED
    BY <2>1, <2>2, GatewayFrames DEF Next
<1> QED
  BY InitTurn, TurnStepped, <1>1, <1>2, PTL DEF Spec, ImplementsTurnFrames, Frames!FramesSpec

=============================================================================

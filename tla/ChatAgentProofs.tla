-------------------------- MODULE ChatAgentProofs --------------------------
(* chat-agent keeps AgentProtocol, stays in its customer's scope and       *)
(* announces what it changes, for every number of sessions, length of      *)
(* responses and set of calls.                                             *)
EXTENDS ChatAgentAlone, SequenceTheorems, TLAPS

(***************************************************************************)
(* What the tool catalog says of a call, over all calls.                   *)
(***************************************************************************)
LEMMA TargetTyped ==
  ASSUME NEW call \in AllCalls, NEW target \in Customers
  PROVE  /\ ComputeTarget(call, target) \in Customers \cup {NoCustomer}
         /\ ComputeTarget(call, target) = NoCustomer => ~ValidArgs(call)
  BY AbsentAssumption
  DEF AllCalls, ComputeTarget, CustomerIdArgTools, CustomerTools, ValidArgs

\* A change concerns some customer, whether its customer is an argument or the backend's.
LEMMA AffectedTyped ==
  ASSUME NEW call \in AllCalls, NEW target \in Customers, Mutates(call)
  PROVE  Affected(call, target) \in Customers
  BY OwnerAssumption
  DEF AllCalls, Affected, CustomerIdArgTools, CustomerTools, Mutates, ValidArgs, StaticAudit

\* The audit flag is set or not.
LEMMA AuditTyped ==
  ASSUME NEW call PROVE ComputeAudit(call) \in BOOLEAN
  BY DEF ComputeAudit

\* The lines are lines.
LEMMA ToolCallTyped ==
  ASSUME NEW call \in AllCalls, NEW target \in Customers
  PROVE  ToolCall(call, target) \in AnyLine /\ ToolCall(call, target).type = "tool_call"
<1> DEFINE audit == ComputeAudit(call)
           about == ComputeTarget(call, target)
<1>1. /\ audit \in BOOLEAN /\ about \in Customers \cup {NoCustomer}
      /\ about = NoCustomer => ~ValidArgs(call)
  BY TargetTyped, AuditTyped
<1>2. ToolCall(call, target) = [type |-> "tool_call", call |-> call, audit |-> audit, target |-> about]
  BY DEF ToolCall
<1> HIDE DEF audit, about
<1> QED
  BY <1>1, <1>2 DEF AnyLine

LEMMA LinesTyped ==
  /\ Token \in AnyLine /\ Done \in AnyLine /\ Error \in AnyLine
  /\ \A at \in Nat, failed \in BOOLEAN : ToolResult(at, failed) \in AnyLine
  BY DEF AnyLine, Terminators, ToolResult

\* ... and their types tell them apart.
LEMMA LineKinds ==
  ASSUME NEW line \in AnyLine
  PROVE  /\ line.type = "token" <=> line = Token
         /\ line \in Terminators <=> line.type \in {"done", "error"}
         /\ line.type = "tool_result" =>
              line.at \in Nat /\ line.failed \in BOOLEAN /\ line = ToolResult(line.at, line.failed)
  BY DEF AnyLine, Terminators, Token, Done, Error, ToolResult

(***************************************************************************)
(* A customer's tools take no customer id: what they are announced with    *)
(* and what they affect is the target of the turn.                         *)
(***************************************************************************)
LEMMA CustomerCalls ==
  ASSUME NEW call \in Calls("customer"), NEW target
  PROVE  /\ call.name \in CustomerTools
         /\ ComputeTarget(call, target) = target
         /\ Affected(call, target) = target
  BY DEF Calls, BuildTools, CustomerTools, ComputeTarget, Affected, CustomerIdArgTools

\* A role is offered calls of the catalog only.
LEMMA RoleCalls ==
  ASSUME NEW role PROVE Calls(role) \subseteq AllCalls
  BY DEF Calls

\* What changes a backend is audited.
LEMMA MutationsAudited ==
  ASSUME NEW call, Mutates(call) PROVE ComputeAudit(call)
  BY DEF Mutates, ComputeAudit

(***************************************************************************)
(* What one more line does to the failures nobody has talked about.        *)
(***************************************************************************)
LEMMA AppendToken ==
  ASSUME NEW lines \in Seq(AnyLine)
  PROVE  Narrated(Append(lines, Token))
<1> DEFINE longer == Append(lines, Token)
<1>1. /\ Len(longer) = Len(lines) + 1 /\ longer[Len(lines) + 1] = Token
      /\ Len(lines) \in Nat
  BY LinesTyped
<1> HIDE DEF longer
<1>2. Narrated(longer)
  BY <1>1 DEF Narrated
<1> QED
  BY <1>2 DEF longer

\* Any other line leaves them, and a failure adds itself.
LEMMA AppendOther ==
  ASSUME NEW lines \in Seq(AnyLine), NEW line \in AnyLine, line # Token
  PROVE  Narrated(Append(lines, line)) <=>
           Narrated(lines) /\ ~(line.type = "tool_result" /\ line.failed)
<1> DEFINE longer == Append(lines, line)
           fails == line.type = "tool_result" /\ line.failed
<1>1. /\ Len(longer) = Len(lines) + 1 /\ longer[Len(lines) + 1] = line
      /\ \A i \in 1..Len(lines) : longer[i] = lines[i]
      /\ Len(lines) \in Nat
  OBVIOUS
<1> HIDE DEF longer
<1>2. Narrated(longer) <=> Narrated(lines) /\ ~fails
  <2>1. CASE fails
    <3> DEFINE last == Len(lines) + 1
    <3>1. last \in 1..Len(longer) /\ longer[last].type = "tool_result" /\ longer[last].failed
      BY <1>1, <2>1
    <3>2. ~ \E j \in last..Len(longer) : longer[j] = Token
      BY <1>1
    <3> HIDE DEF last, fails
    <3> QED
      BY <2>1, <3>1, <3>2 DEF Narrated
  <2>2. CASE ~fails
    <3>1. \A i \in 1..Len(longer) : i \in 1..Len(lines) \/ i = Len(longer)
      BY <1>1
    <3>2. \A i \in 1..Len(lines) : i \in 1..Len(longer)
      BY <1>1
    <3>3. \A i \in 1..Len(lines) :
            (\E j \in i..Len(longer) : longer[j] = Token) <=>
            (\E j \in i..Len(lines) : lines[j] = Token)
      <4> SUFFICES ASSUME NEW i \in 1..Len(lines)
                   PROVE  (\E j \in i..Len(longer) : longer[j] = Token) <=>
                          (\E j \in i..Len(lines) : lines[j] = Token)
        OBVIOUS
      <4>1. ASSUME NEW j \in i..Len(longer), longer[j] = Token
            PROVE  j \in i..Len(lines) /\ lines[j] = Token
        BY <1>1, <4>1
      <4>2. ASSUME NEW j \in i..Len(lines), lines[j] = Token
            PROVE  j \in i..Len(longer) /\ longer[j] = Token
        BY <1>1, <4>2
      <4> QED
        BY <4>1, <4>2
    <3>4. ~(longer[Len(longer)].type = "tool_result" /\ longer[Len(longer)].failed)
      BY <1>1, <2>2
    <3>5. ASSUME Narrated(lines) PROVE Narrated(longer)
      <4> SUFFICES ASSUME NEW i \in 1..Len(longer),
                          longer[i].type = "tool_result", longer[i].failed
                   PROVE  \E j \in i..Len(longer) : longer[j] = Token
        BY DEF Narrated
      <4>1. i \in 1..Len(lines) /\ longer[i] = lines[i]
        BY <1>1, <3>1, <3>4
      <4> QED
        BY <3>3, <3>5, <4>1 DEF Narrated
    <3>6. ASSUME Narrated(longer) PROVE Narrated(lines)
      BY <1>1, <3>2, <3>3, <3>6 DEF Narrated
    <3> HIDE DEF fails
    <3> QED
      BY <2>2, <3>5, <3>6
  <2> QED
    BY <2>1, <2>2
<1> QED
  BY <1>2 DEF longer

(***************************************************************************)
(* What one more event does to the open calls.  Each result answers a call *)
(* above it that no result has answered before.                            *)
(***************************************************************************)
AnswersOnce(lines) ==
  \A j \in 1..Len(lines) : lines[j].type = "tool_result" =>
    /\ lines[j].at \in 1..(j - 1) /\ lines[lines[j].at].type = "tool_call"
    /\ \A k \in 1..(j - 1) : lines[k].type = "tool_result" => lines[k].at # lines[j].at

\* An event that is no result leaves the calls unanswered; a call is one more.
LEMMA AppendEvent ==
  ASSUME NEW lines \in Seq(AnyLine), AnswersOnce(lines),
         NEW line \in AnyLine, line.type # "tool_result"
  PROVE  LET longer == Append(lines, line)
         IN  /\ AnswersOnce(longer)
             /\ \A i : Unanswered(longer, i) <=>
                         \/ Unanswered(lines, i)
                         \/ line.type = "tool_call" /\ i = Len(lines) + 1
<1> DEFINE longer == Append(lines, line)
<1>1. /\ Len(longer) = Len(lines) + 1 /\ longer[Len(lines) + 1] = line
      /\ \A i \in 1..Len(lines) : longer[i] = lines[i]
      /\ Len(lines) \in Nat
  OBVIOUS
<1> HIDE DEF longer
<1>2. \A j \in 1..Len(lines) : lines[j].type = "tool_result" => lines[j].at \in 1..(j - 1)
  BY DEF AnswersOnce
<1>3. AnswersOnce(longer)
  <2> SUFFICES ASSUME NEW j \in 1..Len(longer), longer[j].type = "tool_result"
               PROVE  /\ longer[j].at \in 1..(j - 1) /\ longer[longer[j].at].type = "tool_call"
                      /\ \A k \in 1..(j - 1) :
                           longer[k].type = "tool_result" => longer[k].at # longer[j].at
    BY DEF AnswersOnce
  <2>1. j \in 1..Len(lines) /\ longer[j] = lines[j]
    BY <1>1
  <2>2. /\ lines[j].at \in 1..(j - 1) /\ lines[lines[j].at].type = "tool_call"
        /\ \A k \in 1..(j - 1) : lines[k].type = "tool_result" => lines[k].at # lines[j].at
    BY <2>1 DEF AnswersOnce
  <2>3. \A k \in 1..(j - 1) : k \in 1..Len(lines) /\ longer[k] = lines[k]
    BY <1>1, <2>1
  <2> QED
    BY <2>1, <2>2, <2>3
<1>4. \A i : Unanswered(longer, i) <=>
               Unanswered(lines, i) \/ (line.type = "tool_call" /\ i = Len(lines) + 1)
  BY <1>1, <1>2 DEF Unanswered
<1> QED
  BY <1>3, <1>4 DEF longer

\* One more result: the call it answers is unanswered no more, the others are as before.
LEMMA AppendResult ==
  ASSUME NEW lines \in Seq(AnyLine), AnswersOnce(lines),
         NEW at, Unanswered(lines, at), NEW failed
  PROVE  LET longer == Append(lines, ToolResult(at, failed))
         IN  /\ AnswersOnce(longer)
             /\ \A i : Unanswered(longer, i) <=> Unanswered(lines, i) /\ i # at
<1> DEFINE line == ToolResult(at, failed)
           longer == Append(lines, line)
<1>1. line.type = "tool_result" /\ line.at = at
  BY DEF ToolResult
<1> HIDE DEF line
<1>2. /\ Len(longer) = Len(lines) + 1 /\ longer[Len(lines) + 1] = line
      /\ \A i \in 1..Len(lines) : longer[i] = lines[i]
      /\ Len(lines) \in Nat
  OBVIOUS
<1> HIDE DEF longer
<1>3. /\ at \in 1..Len(lines) /\ lines[at].type = "tool_call"
      /\ \A k \in 1..Len(lines) : lines[k].type = "tool_result" => lines[k].at # at
  BY DEF Unanswered
<1>4. \A i : Unanswered(longer, i) <=> Unanswered(lines, i) /\ i # at
  BY <1>1, <1>2 DEF Unanswered
<1>5. AnswersOnce(longer)
  <2> SUFFICES ASSUME NEW j \in 1..Len(longer), longer[j].type = "tool_result"
               PROVE  /\ longer[j].at \in 1..(j - 1) /\ longer[longer[j].at].type = "tool_call"
                      /\ \A k \in 1..(j - 1) :
                           longer[k].type = "tool_result" => longer[k].at # longer[j].at
    BY DEF AnswersOnce
  <2>1. \A k \in 1..(j - 1) : k \in 1..Len(lines) /\ longer[k] = lines[k]
    BY <1>2
  <2>2. CASE j \in 1..Len(lines)
    <3>1. /\ lines[j].at \in 1..(j - 1) /\ lines[lines[j].at].type = "tool_call"
          /\ \A k \in 1..(j - 1) : lines[k].type = "tool_result" => lines[k].at # lines[j].at
      BY <1>2, <2>2 DEF AnswersOnce
    <3> QED
      BY <1>2, <2>1, <2>2, <3>1
  <2>3. CASE j = Len(lines) + 1
    BY <1>1, <1>2, <1>3, <2>1, <2>3
  <2> QED
    BY <1>2, <2>2, <2>3
<1> QED
  BY <1>4, <1>5 DEF longer, line

-----------------------------------------------------------------------------
(***************************************************************************)
(* Type correctness.                                                       *)
(***************************************************************************)
LEMMA InitTypeOK == Init => TypeOK
<1> SUFFICES ASSUME Init PROVE TypeOK
  OBVIOUS
<1>1. << >> \in Seq(AnyLine)
  OBVIOUS
<1>2. stream \in [Sessions -> Seq(AnyLine)] /\ events \in [Sessions -> Seq(AnyLine)]
  BY <1>1 DEF Init, AgentInit
<1>3. crashes \in 0..AgentFaults /\ cut \subseteq Nat
  BY FaultsAssumption DEF Init, AgentInit
<1> QED
  BY <1>2, <1>3 DEF Init, AgentInit, TypeOK, AgentTypeOK

\* Every step keeps the types.
LEMMA TypeStep == TypeOK /\ [Next]_vars => TypeOK'
<1> SUFFICES ASSUME TypeOK, [Next]_vars PROVE TypeOK'
  OBVIOUS
<1> USE DEF TypeOK, AgentTypeOK
<1>1. ASSUME NEW s \in Sessions, StartRun(s) PROVE TypeOK'
  BY <1>1 DEF StartRun
<1>2. ASSUME NEW s \in Sessions, InitFails(s) PROVE TypeOK'
  BY LinesTyped, <1>2 DEF InitFails, Yield, CloseBody
<1>3. ASSUME NEW s \in Sessions, ModelText(s) PROVE TypeOK'
  BY LinesTyped, <1>3 DEF ModelText, Queue, wire
<1>4. ASSUME NEW s \in Sessions, ToolStart(s) PROVE TypeOK'
  <2>1. PICK call \in ModelCalls \cap Calls(request[s].role) :
          /\ Queue(s, ToolCall(call, request[s].target))
          /\ inflight' = [inflight EXCEPT ![s] =
               @ \cup {[at |-> Len(events[s]) + 1, call |-> call, ran |-> FALSE]}]
    BY <1>4 DEF ToolStart
  <2>2. call \in AllCalls /\ request[s].target \in Customers
    BY <2>1, RoleCalls, RequestsAssumption
  <2>3. events' \in [Sessions -> Seq(AnyLine)]
    <3> DEFINE line == ToolCall(call, request[s].target)
    <3>1. line \in AnyLine
      BY <2>2, ToolCallTyped
    <3>2. events' = [events EXCEPT ![s] = Append(@, line)]
      BY <2>1 DEF Queue
    <3> HIDE DEF line
    <3> QED
      BY <3>1, <3>2
  <2>4. [at |-> Len(events[s]) + 1, call |-> call, ran |-> FALSE] \in InFlight
    BY <2>2 DEF InFlight
  <2>5. inflight' \in [Sessions -> SUBSET InFlight]
    BY <2>1, <2>4
  <2> QED
    BY <1>4, <2>3, <2>5 DEF ToolStart, wire
<1>5. ASSUME NEW s \in Sessions, ToolTakesEffect(s) PROVE TypeOK'
  <2>1. PICK f \in inflight[s] :
          /\ Mutates(f.call)
          /\ inflight' = [inflight EXCEPT ![s] = (@ \ {f}) \cup {[f EXCEPT !.ran = TRUE]}]
          /\ effects' = [effects EXCEPT ![s] = @ \cup
               {[turn |-> request[s].turn, at |-> f.at, call |-> f.call,
                 customer |-> Affected(f.call, request[s].target)]}]
    BY <1>5 DEF ToolTakesEffect
  <2>2. f \in InFlight /\ request[s] \in [role : Roles, target : Customers, turn : Nat]
    BY <2>1, RequestsAssumption
  <2>3. Affected(f.call, request[s].target) \in Customers
    BY <2>1, <2>2, AffectedTyped DEF InFlight
  <2>4. inflight' \in [Sessions -> SUBSET InFlight]
    <3>1. [f EXCEPT !.ran = TRUE] \in InFlight
      BY <2>2 DEF InFlight
    <3> QED
      BY <2>1, <3>1
  <2>5. effects' \in [Sessions -> SUBSET [turn : Nat, at : Nat, call : AllCalls, customer : Customers]]
    BY <2>1, <2>2, <2>3 DEF InFlight
  <2> QED
    BY <1>5, <2>4, <2>5 DEF ToolTakesEffect, wire
<1>6. ASSUME NEW s \in Sessions, NEW f \in inflight[s], NEW failed \in BOOLEAN, Answer(s, f, failed)
      PROVE TypeOK'
  <2>1. ToolResult(f.at, failed) \in AnyLine
    BY LinesTyped DEF InFlight
  <2>2. events' \in [Sessions -> Seq(AnyLine)]
    BY <1>6, <2>1 DEF Answer, Queue
  <2>3. inflight' \in [Sessions -> SUBSET InFlight]
    BY <1>6 DEF Answer
  <2> QED
    BY <1>6, <2>2, <2>3 DEF Answer, wire
<1>7. ASSUME NEW s \in Sessions, WriteText(s) \/ WriteCall(s) \/ WriteResult(s) PROVE TypeOK'
  <2>1. PICK type : Write(s, type)
    BY <1>7 DEF WriteText, WriteCall, WriteResult
  <2>2. NextEvent(s) \in AnyLine
    BY <2>1 DEF Write, NextEvent
  <2>3. stream' \in [Sessions -> Seq(AnyLine)]
    BY <2>1, <2>2 DEF Write, Yield
  <2>4. pending' \in [Sessions -> BOOLEAN] /\ narrated' \in [Sessions -> BOOLEAN]
    <3>1. NextEvent(s).type = "tool_result" => NextEvent(s).failed \in BOOLEAN
      BY <2>2, LineKinds
    <3> QED
      BY <1>7, <3>1 DEF WriteText, WriteCall, WriteResult, Write
  <2> QED
    BY <2>1, <2>3, <2>4 DEF Write
<1>8. ASSUME NEW s \in Sessions, Finish(s) PROVE TypeOK'
  <2>1. stream[s] \o LastWords(s) \o <<Done>> \in Seq(AnyLine)
    BY LinesTyped DEF LastWords
  <2>2. stream' \in [Sessions -> Seq(AnyLine)]
    BY <1>8, <2>1 DEF Finish
  <2>3. body' \in [Sessions -> {"none", "called", "refused", "open", "closed"}]
    BY <1>8 DEF Finish, CloseBody
  <2> QED
    BY <1>8, <2>2, <2>3 DEF Finish, agentVars
<1>9. ASSUME NEW s \in Sessions, AgentFails(s) PROVE TypeOK'
  BY LinesTyped, <1>9 DEF AgentFails, Yield, CloseBody, agentVars
<1>10. ASSUME NEW s \in Sessions, AgentRefuses(s) PROVE TypeOK'
  BY <1>10 DEF AgentRefuses, agentVars
<1>11. CASE AgentCrash
  <2>1. PICK kept \in [Sessions -> 0..MaxResponse] :
          /\ \A s \in Sessions :
               kept[s] \in (IF body[s] = "open" THEN got[s] ELSE Len(stream[s]))..Len(stream[s])
          /\ stream' = [s \in Sessions |-> SubSeq(stream[s], 1, kept[s])]
    BY <1>11 DEF AgentCrash
  <2>2. ASSUME NEW s \in Sessions PROVE SubSeq(stream[s], 1, kept[s]) \in Seq(AnyLine)
    BY <2>1, MaxLinesAssumption DEF MaxResponse
  <2>3. stream' \in [Sessions -> Seq(AnyLine)]
    BY <2>1, <2>2
  <2>4. cut' \subseteq Nat
    BY <1>11, RequestsAssumption DEF AgentCrash
  <2>5. crashes' \in 0..AgentFaults
    BY <1>11, FaultsAssumption DEF AgentCrash
  <2>6. body' \in [Sessions -> {"none", "called", "refused", "open", "closed"}]
    BY <1>11 DEF AgentCrash
  <2> QED
    BY <1>11, <2>3, <2>4, <2>5, <2>6 DEF AgentCrash
<1>12. ASSUME NEW s \in Sessions, Call(s) PROVE TypeOK'
  <2>1. << >> \in Seq(AnyLine)
    OBVIOUS
  <2>2. stream' \in [Sessions -> Seq(AnyLine)]
    BY <1>12, <2>1 DEF Call
  <2> QED
    BY <1>12, <2>2 DEF Call, agentVars
<1>13. ASSUME NEW s \in Sessions, Leave(s) PROVE TypeOK'
  BY <1>13 DEF Leave
<1>14. CASE UNCHANGED vars
  BY <1>14 DEF vars, wire, agentVars
<1> QED
  BY <1>1, <1>2, <1>3, <1>4, <1>5, <1>6, <1>7, <1>8, <1>9, <1>10, <1>11, <1>12, <1>13, <1>14
  DEF Next, AgentNext, AgentStep, Client, ToolEnd, ToolError

(***************************************************************************)
(* Every reachable state is typed, whatever the calls of the model.        *)
(***************************************************************************)
THEOREM TypeCorrect == Spec => []TypeOK
  BY InitTypeOK, TypeStep, PTL DEF Spec

-----------------------------------------------------------------------------
(***************************************************************************)
(* FlagsAgree is not inductive: answering a call removes it from the calls *)
(* in flight, so no two of them may stand for one event, and a result must *)
(* answer a call above it, or the next call would be answered at once.     *)
(***************************************************************************)
FlagsTell(s) == (pending[s] /\ ~narrated[s]) <=> ~Narrated(stream[s])

OpenCalls(s) ==
  /\ AnswersOnce(events[s])
  /\ \A i : Unanswered(events[s], i) <=> \E f \in inflight[s] : f.at = i
  /\ \A f, g \in inflight[s] : f.at = g.at => f = g

RunInv ==
  \A s \in Sessions :
    /\ body[s] = "called" => stream[s] = << >>
    /\ body[s] = "open" => FlagsTell(s) /\ OpenCalls(s)

\* At first no run is open.
LEMMA InitRunInv == Init => RunInv
  BY DEF Init, RunInv

\* A step that is not this session's and no crash leaves its run alone.
LEMMA OthersKeepRun ==
  ASSUME RunInv, NEW s \in Sessions,
         \A t \in Sessions \ {s} :
           /\ stream'[t] = stream[t] /\ body'[t] = body[t]
           /\ events'[t] = events[t] /\ inflight'[t] = inflight[t]
           /\ pending'[t] = pending[t] /\ narrated'[t] = narrated[t],
         body'[s] = "called" => stream'[s] = << >>,
         body'[s] = "open" => FlagsTell(s)' /\ OpenCalls(s)'
  PROVE  RunInv'
<1> SUFFICES ASSUME NEW t \in Sessions
             PROVE  /\ body'[t] = "called" => stream'[t] = << >>
                    /\ body'[t] = "open" => FlagsTell(t)' /\ OpenCalls(t)'
  BY DEF RunInv
<1>1. CASE t = s
  BY <1>1
<1>2. CASE t # s
  <2>1. (FlagsTell(t) => FlagsTell(t)') /\ (OpenCalls(t) => OpenCalls(t)')
    BY <1>2 DEF FlagsTell, OpenCalls
  <2> QED
    BY <1>2, <2>1 DEF RunInv
<1> QED
  BY <1>1, <1>2

\* Every step of a run, of its response, and every step elsewhere, keeps RunInv.
LEMMA RunStep == TypeOK /\ RunInv /\ [Next]_vars => RunInv'
<1> SUFFICES ASSUME TypeOK, RunInv, [Next]_vars PROVE RunInv'
  OBVIOUS
<1> USE DEF TypeOK, AgentTypeOK
<1>1. ASSUME NEW s \in Sessions, StartRun(s) PROVE RunInv'
  <2>1. stream'[s] = << >> /\ events'[s] = << >> /\ inflight'[s] = {} /\ ~pending'[s]
    BY <1>1 DEF StartRun, RunInv
  <2>2. FlagsTell(s)' /\ OpenCalls(s)'
    BY <2>1 DEF FlagsTell, OpenCalls, AnswersOnce, Narrated, Unanswered
  <2> QED
    BY <1>1, <2>2, OthersKeepRun DEF StartRun
<1>2. ASSUME NEW s \in Sessions, InitFails(s) PROVE RunInv'
  BY <1>2, OthersKeepRun DEF InitFails, Yield, CloseBody
<1>3. ASSUME NEW s \in Sessions, ModelText(s) PROVE RunInv'
  <2>1. /\ events'[s] = Append(events[s], Token) /\ inflight'[s] = inflight[s]
        /\ UNCHANGED <<stream, body, pending, narrated>>
        /\ FlagsTell(s) /\ OpenCalls(s) /\ events[s] \in Seq(AnyLine)
    BY <1>3 DEF ModelText, Queue, Running, RunInv, wire
  <2>2. Token.type = "token"
    BY DEF Token
  <2>3. OpenCalls(s)' /\ FlagsTell(s)'
    BY <2>1, <2>2, LinesTyped, AppendEvent DEF OpenCalls, FlagsTell
  <2> QED
    BY <1>3, <2>1, <2>3, OthersKeepRun DEF ModelText, Queue, Running
<1>4. ASSUME NEW s \in Sessions, ToolStart(s) PROVE RunInv'
  <2>1. PICK call \in ModelCalls \cap Calls(request[s].role) :
          /\ Queue(s, ToolCall(call, request[s].target))
          /\ inflight' = [inflight EXCEPT ![s] =
               @ \cup {[at |-> Len(events[s]) + 1, call |-> call, ran |-> FALSE]}]
    BY <1>4 DEF ToolStart
  <2>2. call \in AllCalls /\ request[s].target \in Customers
    BY <2>1, RoleCalls, RequestsAssumption
  <2> DEFINE new == [at |-> Len(events[s]) + 1, call |-> call, ran |-> FALSE]
             line == ToolCall(call, request[s].target)
  <2>3. /\ events'[s] = Append(events[s], line)
        /\ inflight'[s] = inflight[s] \cup {new}
        /\ UNCHANGED <<stream, body, pending, narrated>>
        /\ FlagsTell(s) /\ OpenCalls(s) /\ events[s] \in Seq(AnyLine)
    BY <1>4, <2>1 DEF ToolStart, Queue, Running, RunInv, wire
  <2>4. line \in AnyLine /\ line.type = "tool_call"
    BY <2>2, ToolCallTyped
  <2>5. new.at = Len(events[s]) + 1
    OBVIOUS
  <2> HIDE DEF new, line
  <2>6. /\ AnswersOnce(events'[s])
        /\ \A i : Unanswered(events'[s], i) <=>
                    Unanswered(events[s], i) \/ i = Len(events[s]) + 1
    BY <2>3, <2>4, AppendEvent DEF OpenCalls
  <2>7. ASSUME NEW f \in inflight[s] PROVE f.at # Len(events[s]) + 1
    <3>1. Unanswered(events[s], f.at)
      BY <2>3 DEF OpenCalls
    <3>2. f.at \in 1..Len(events[s])
      BY <3>1 DEF Unanswered
    <3>3. Len(events[s]) \in Nat
      BY <2>3
    <3> QED
      BY <3>2, <3>3
  <2>8. OpenCalls(s)' /\ FlagsTell(s)'
    BY <2>3, <2>5, <2>6, <2>7 DEF OpenCalls, FlagsTell
  <2> QED
    BY <1>4, <2>1, <2>3, <2>8, OthersKeepRun DEF ToolStart, Queue, Running
<1>5. ASSUME NEW s \in Sessions, ToolTakesEffect(s) PROVE RunInv'
  <2>1. PICK f \in inflight[s] :
          inflight' = [inflight EXCEPT ![s] = (@ \ {f}) \cup {[f EXCEPT !.ran = TRUE]}]
    BY <1>5 DEF ToolTakesEffect
  <2> DEFINE g == [f EXCEPT !.ran = TRUE]
  <2>2. g.at = f.at
    BY <2>1 DEF InFlight
  <2>3. inflight'[s] = (inflight[s] \ {f}) \cup {g}
    BY <2>1
  <2> HIDE DEF g
  <2>4. UNCHANGED <<stream, body, events, pending, narrated>>
    BY <1>5 DEF ToolTakesEffect, wire
  <2>5. ASSUME OpenCalls(s) PROVE OpenCalls(s)'
    <3>1. \A i : (\E h \in inflight'[s] : h.at = i) <=> (\E h \in inflight[s] : h.at = i)
      BY <2>1, <2>2, <2>3
    <3>2. \A h, k \in inflight[s] : h.at = k.at => h = k
      BY <2>5 DEF OpenCalls
    <3>3. \A h, k \in inflight'[s] : h.at = k.at => h = k
      <4> SUFFICES ASSUME NEW h \in inflight'[s], NEW k \in inflight'[s], h.at = k.at
                   PROVE  h = k
        OBVIOUS
      <4>1. CASE h = g /\ k # g
        BY <4>1, <2>1, <2>2, <2>3, <3>2
      <4>2. CASE h # g /\ k = g
        BY <4>2, <2>1, <2>2, <2>3, <3>2
      <4>3. CASE h # g /\ k # g
        BY <4>3, <2>3, <3>2
      <4> QED
        BY <4>1, <4>2, <4>3
    <3> QED
      BY <2>4, <2>5, <3>1, <3>3 DEF OpenCalls
  <2>6. FlagsTell(s) => FlagsTell(s)'
    BY <2>4 DEF FlagsTell
  <2> QED
    BY <2>1, <2>4, <2>5, <2>6, OthersKeepRun DEF RunInv
<1>6. ASSUME NEW s \in Sessions, NEW f \in inflight[s], NEW failed \in BOOLEAN,
             Running(s), Answer(s, f, failed)
      PROVE RunInv'
  <2>1. /\ events'[s] = Append(events[s], ToolResult(f.at, failed))
        /\ inflight'[s] = inflight[s] \ {f}
        /\ UNCHANGED <<stream, body, pending, narrated>>
        /\ FlagsTell(s) /\ OpenCalls(s) /\ events[s] \in Seq(AnyLine)
    BY <1>6 DEF Answer, Queue, Running, RunInv, wire
  <2>2. Unanswered(events[s], f.at)
    BY <2>1 DEF OpenCalls
  <2>3. /\ \A i : Unanswered(events'[s], i) <=> Unanswered(events[s], i) /\ i # f.at
        /\ AnswersOnce(events'[s])
    BY <2>1, <2>2, AppendResult DEF OpenCalls
  <2>4. OpenCalls(s)' /\ FlagsTell(s)'
    BY <2>1, <2>3 DEF OpenCalls, FlagsTell
  <2> QED
    BY <1>6, <2>1, <2>4, OthersKeepRun DEF Answer, Queue, Running
<1>7. ASSUME NEW s \in Sessions, WriteText(s) \/ WriteCall(s) \/ WriteResult(s) PROVE RunInv'
  <2> DEFINE line == NextEvent(s)
  <2>1. PICK type : Write(s, type)
    BY <1>7 DEF WriteText, WriteCall, WriteResult
  <2>2. /\ stream'[s] = Append(stream[s], line) /\ stream[s] \in Seq(AnyLine)
        /\ body[s] = "open" /\ FlagsTell(s) /\ OpenCalls(s)
        /\ UNCHANGED <<body, events, inflight>>
        /\ \A t \in Sessions \ {s} :
             stream'[t] = stream[t] /\ pending'[t] = pending[t] /\ narrated'[t] = narrated[t]
    BY <1>7, <2>1 DEF Write, WriteText, WriteCall, WriteResult, Yield, Running, RunInv
  <2>3. line \in AnyLine
    BY <2>1 DEF Write, NextEvent
  <2>4. FlagsTell(s)'
    <3>1. CASE WriteText(s)
      <4>1. line = Token /\ pending'[s] = pending[s] /\ narrated'[s] = (pending[s] \/ narrated[s])
        BY <2>3, <3>1, LineKinds DEF WriteText, Write
      <4> HIDE DEF line
      <4> QED
        BY <2>2, <4>1, AppendToken DEF FlagsTell
    <3>2. CASE WriteCall(s)
      <4>1. line.type = "tool_call" /\ pending'[s] = pending[s] /\ narrated'[s] = narrated[s]
        BY <3>2 DEF WriteCall, Write
      <4>2. line # Token
        BY <4>1 DEF Token
      <4> HIDE DEF line
      <4> QED
        BY <2>2, <2>3, <4>1, <4>2, AppendOther DEF FlagsTell
    <3>3. CASE WriteResult(s)
      <4>1. /\ line.type = "tool_result"
            /\ pending'[s] = (pending[s] \/ line.failed)
            /\ narrated'[s] = (narrated[s] /\ ~line.failed)
        BY <3>3 DEF WriteResult, Write
      <4>2. line # Token
        BY <4>1 DEF Token
      <4> HIDE DEF line
      <4>3. Narrated(stream'[s]) <=> Narrated(stream[s]) /\ ~line.failed
        BY <2>2, <2>3, <4>1, <4>2, AppendOther
      <4>4. CASE line.failed
        BY <4>1, <4>3, <4>4 DEF FlagsTell
      <4>5. CASE ~line.failed
        BY <2>2, <4>1, <4>3, <4>5 DEF FlagsTell
      <4> QED
        BY <4>4, <4>5
    <3> QED
      BY <1>7, <3>1, <3>2, <3>3
  <2>5. OpenCalls(s)'
    BY <2>2 DEF OpenCalls
  <2> QED
    BY <2>2, <2>4, <2>5, OthersKeepRun
<1>8. ASSUME NEW s \in Sessions, Finish(s) PROVE RunInv'
  BY <1>8, OthersKeepRun DEF Finish, CloseBody, agentVars
<1>9. ASSUME NEW s \in Sessions, AgentFails(s) PROVE RunInv'
  BY <1>9, OthersKeepRun DEF AgentFails, Yield, CloseBody, agentVars
<1>10. ASSUME NEW s \in Sessions, AgentRefuses(s) PROVE RunInv'
  BY <1>10, OthersKeepRun DEF AgentRefuses, agentVars
<1>11. CASE AgentCrash
  <2>1. \A s \in Sessions : body'[s] \notin {"called", "open"}
    BY <1>11 DEF AgentCrash
  <2> QED
    BY <2>1 DEF RunInv
<1>12. ASSUME NEW s \in Sessions, Call(s) PROVE RunInv'
  BY <1>12, OthersKeepRun DEF Call, agentVars
<1>13. ASSUME NEW s \in Sessions, Leave(s) PROVE RunInv'
  BY <1>13, OthersKeepRun DEF Leave
<1>14. CASE UNCHANGED vars
  BY <1>14 DEF vars, wire, agentVars, RunInv, FlagsTell, OpenCalls
<1> QED
  BY <1>1, <1>2, <1>3, <1>4, <1>5, <1>6, <1>7, <1>8, <1>9, <1>10, <1>11, <1>12, <1>13, <1>14
  DEF Next, AgentNext, AgentStep, Client, ToolEnd, ToolError

\* The flags of stream_chat say what the lines say.
LEMMA RunInvFlags == TypeOK /\ RunInv => FlagsAgree
<1> SUFFICES ASSUME RunInv, NEW s \in Sessions, body[s] = "open"
             PROVE  /\ (pending[s] /\ ~narrated[s]) <=> ~Narrated(stream[s])
                    /\ {f.at : f \in inflight[s]} =
                         {i \in 1..Len(events[s]) : Unanswered(events[s], i)}
  BY DEF FlagsAgree
<1>1. FlagsTell(s) /\ OpenCalls(s)
  BY DEF RunInv
<1>2. \A i : Unanswered(events[s], i) => i \in 1..Len(events[s])
  BY DEF Unanswered
<1>3. \A i : Unanswered(events[s], i) <=> i \in {f.at : f \in inflight[s]}
  BY <1>1 DEF OpenCalls
<1>4. {f.at : f \in inflight[s]} = {i \in 1..Len(events[s]) : Unanswered(events[s], i)}
  BY <1>2, <1>3
<1> QED
  BY <1>1, <1>4 DEF FlagsTell

(***************************************************************************)
(* The two flags agree with the lines written and the calls in flight with *)
(* the events queued, however far the run is ahead of the response.        *)
(***************************************************************************)
THEOREM FlagsTrue == Spec => []FlagsAgree
<1>1. Init => TypeOK /\ RunInv
  BY InitTypeOK, InitRunInv
<1>2. TypeOK /\ RunInv /\ [Next]_vars => TypeOK' /\ RunInv'
  BY TypeStep, RunStep
<1> QED
  BY <1>1, <1>2, RunInvFlags, PTL DEF Spec

-----------------------------------------------------------------------------
(***************************************************************************)
(* The response follows the queue: each line but the last words is the     *)
(* event of its position.  While the run is open the response is behind or *)
(* level; one that has ended has no event left; only a crash, which leaves *)
(* a response without an end, loses events.                                *)
(***************************************************************************)
Responds(s) == body[s] \in {"open", "closed"}

Copies(s) ==
  \A i \in 1..Len(stream[s]) :
    IF i <= Len(events[s]) THEN stream[s][i] = events[s][i]
                           ELSE stream[s][i].type \notin {"tool_call", "tool_result"}

Follows(s) ==
  /\ Copies(s)
  /\ \A i \in 1..Len(events[s]) : events[s][i] \notin Terminators
  /\ body[s] = "open" => Len(stream[s]) <= Len(events[s])
  /\ body[s] = "closed" /\ Ended(stream[s]) => Len(events[s]) <= Len(stream[s])

FollowInv == \A s \in Sessions : Responds(s) => Follows(s)

\* At first there is no response.
LEMMA InitFollowInv == Init => FollowInv
  BY DEF Init, FollowInv, Responds

\* A step that is not this session's and no crash leaves its response alone.
LEMMA OthersFollow ==
  ASSUME FollowInv, NEW s \in Sessions,
         \A t \in Sessions \ {s} :
           stream'[t] = stream[t] /\ body'[t] = body[t] /\ events'[t] = events[t],
         Responds(s)' => Follows(s)'
  PROVE  FollowInv'
<1> SUFFICES ASSUME NEW t \in Sessions, Responds(t)' PROVE Follows(t)'
  BY DEF FollowInv
<1>1. CASE t = s
  BY <1>1
<1>2. CASE t # s
  BY <1>2 DEF FollowInv, Responds, Follows, Copies
<1> QED
  BY <1>1, <1>2

\* One more event, of an open run.
LEMMA QueueFollows ==
  ASSUME NEW s, events[s] \in Seq(AnyLine), stream[s] \in Seq(AnyLine),
         NEW line, line \notin Terminators,
         events'[s] = Append(events[s], line),
         stream'[s] = stream[s], body'[s] = body[s], body[s] = "open", Follows(s)
  PROVE  Follows(s)'
<1>1. /\ Len(events'[s]) = Len(events[s]) + 1 /\ events'[s][Len(events[s]) + 1] = line
      /\ \A i \in 1..Len(events[s]) : events'[s][i] = events[s][i]
      /\ Len(events[s]) \in Nat /\ Len(stream[s]) \in Nat /\ Len(stream[s]) <= Len(events[s])
  BY DEF Follows
<1>2. Copies(s)'
  <2> SUFFICES ASSUME NEW i \in 1..Len(stream[s])
               PROVE  i <= Len(events'[s]) /\ stream[s][i] = events'[s][i]
    BY DEF Copies
  <2>1. stream[s][i] = events[s][i] /\ i \in 1..Len(events[s])
    BY <1>1 DEF Follows, Copies
  <2> QED
    BY <1>1, <2>1
<1>3. \A i \in 1..Len(events'[s]) : events'[s][i] \notin Terminators
  BY <1>1 DEF Follows
<1> QED
  BY <1>1, <1>2, <1>3 DEF Follows

\* The next event written, of an open run.
LEMMA WriteFollows ==
  ASSUME NEW s, stream[s] \in Seq(AnyLine), events[s] \in Seq(AnyLine),
         Len(stream[s]) < Len(events[s]),
         stream'[s] = Append(stream[s], NextEvent(s)),
         events'[s] = events[s], body'[s] = body[s], body[s] = "open", Follows(s)
  PROVE  Follows(s)'
<1> DEFINE line == NextEvent(s)
<1>1. line = events[s][Len(stream[s]) + 1]
  BY DEF NextEvent
<1> HIDE DEF line
<1>2. /\ Len(stream'[s]) = Len(stream[s]) + 1 /\ stream'[s][Len(stream[s]) + 1] = line
      /\ \A i \in 1..Len(stream[s]) : stream'[s][i] = stream[s][i]
      /\ Len(events[s]) \in Nat /\ Len(stream[s]) \in Nat
  BY DEF line
<1>3. Copies(s)'
  <2> SUFFICES ASSUME NEW i \in 1..Len(stream'[s])
               PROVE  i <= Len(events[s]) /\ stream'[s][i] = events[s][i]
    BY DEF Copies
  <2>1. CASE i \in 1..Len(stream[s])
    BY <1>2, <2>1 DEF Follows, Copies
  <2>2. CASE i = Len(stream[s]) + 1
    BY <1>1, <1>2, <2>2
  <2> QED
    BY <1>2, <2>1, <2>2
<1> QED
  BY <1>2, <1>3 DEF Follows

\* Lines of another kind after the last event: the response ends.
LEMMA CloseFollows ==
  ASSUME NEW s, stream[s] \in Seq(AnyLine), Drained(s), Follows(s),
         Len(stream'[s]) \in Nat, Len(stream[s]) <= Len(stream'[s]),
         \A i \in 1..Len(stream[s]) : stream'[s][i] = stream[s][i],
         \A i \in 1..Len(stream'[s]) :
           i > Len(stream[s]) => stream'[s][i].type \notin {"tool_call", "tool_result"},
         events'[s] = events[s], body'[s] = "closed"
  PROVE  Follows(s)'
<1>1. Copies(s)'
  <2> SUFFICES ASSUME NEW i \in 1..Len(stream'[s])
               PROVE  IF i <= Len(events[s])
                        THEN stream'[s][i] = events[s][i]
                        ELSE stream'[s][i].type \notin {"tool_call", "tool_result"}
    BY DEF Copies
  <2>1. CASE i \in 1..Len(stream[s])
    BY <2>1 DEF Follows, Copies
  <2>2. CASE i > Len(stream[s])
    BY <2>2 DEF Drained
  <2> QED
    BY <2>1, <2>2
<1> QED
  BY <1>1 DEF Follows, Drained

\* Finish appends one line or two, one after the other.
LEMMA LastWordsAppended ==
  ASSUME NEW s, stream[s] \in Seq(AnyLine)
  PROVE  stream[s] \o LastWords(s) \o <<Done>> =
           IF pending[s] /\ ~narrated[s] THEN Append(Append(stream[s], Token), Done)
                                         ELSE Append(stream[s], Done)
<1>1. Token \in AnyLine /\ Done \in AnyLine
  BY LinesTyped
<1>2. CASE pending[s] /\ ~narrated[s]
  <2>1. stream[s] \o <<Token>> = Append(stream[s], Token)
    BY <1>1
  <2>2. Append(stream[s], Token) \o <<Done>> = Append(Append(stream[s], Token), Done)
    BY <1>1
  <2> QED
    BY <1>2, <2>1, <2>2 DEF LastWords
<1>3. CASE ~(pending[s] /\ ~narrated[s])
  <2>1. stream[s] \o << >> = stream[s]
    OBVIOUS
  <2>2. stream[s] \o <<Done>> = Append(stream[s], Done)
    BY <1>1
  <2>3. LastWords(s) = << >>
    BY <1>3 DEF LastWords
  <2> QED
    BY <1>3, <2>1, <2>2, <2>3
<1> QED
  BY <1>2, <1>3

\* ... after which all that is new is text or the end.
LEMMA EndAppended ==
  ASSUME NEW lines \in Seq(AnyLine), NEW longer,
         \/ longer = Append(Append(lines, Token), Done)
         \/ longer = Append(lines, Done)
  PROVE  /\ Len(longer) \in Nat /\ Len(lines) <= Len(longer)
         /\ \A i \in 1..Len(lines) : longer[i] = lines[i]
         /\ \A i \in 1..Len(longer) : i > Len(lines) => longer[i] \in {Token, Done}
<1>1. CASE longer = Append(lines, Done)
  BY <1>1, LinesTyped
<1>2. CASE longer = Append(Append(lines, Token), Done)
  <2> DEFINE more == Append(lines, Token)
  <2>1. /\ more \in Seq(AnyLine) /\ Len(more) = Len(lines) + 1 /\ Len(lines) \in Nat
        /\ more[Len(lines) + 1] = Token
        /\ \A i \in 1..Len(lines) : more[i] = lines[i]
    BY LinesTyped
  <2>2. longer = Append(more, Done)
    BY <1>2
  <2> HIDE DEF more
  <2>3. /\ Len(longer) = Len(more) + 1 /\ longer[Len(more) + 1] = Done
        /\ \A i \in 1..Len(more) : longer[i] = more[i]
    BY <2>1, <2>2, LinesTyped
  <2>4. Len(longer) = Len(lines) + 2
    BY <2>1, <2>3
  <2>5. \A i \in 1..Len(lines) : longer[i] = lines[i]
    BY <2>1, <2>3
  <2>6. ASSUME NEW i \in 1..Len(longer), i > Len(lines) PROVE longer[i] \in {Token, Done}
    <3>1. i = Len(lines) + 1 \/ i = Len(lines) + 2
      BY <2>1, <2>4, <2>6
    <3>2. longer[Len(lines) + 1] = Token
      BY <2>1, <2>3
    <3>3. longer[Len(lines) + 2] = Done
      BY <2>1, <2>3
    <3> QED
      BY <3>1, <3>2, <3>3
  <2> QED
    BY <2>1, <2>4, <2>5, <2>6
<1> QED
  BY <1>1, <1>2

\* Every step keeps FollowInv.
LEMMA FollowStep == TypeOK /\ RunInv /\ FollowInv /\ [Next]_vars => FollowInv'
<1> SUFFICES ASSUME TypeOK, RunInv, FollowInv, [Next]_vars PROVE FollowInv'
  OBVIOUS
<1> USE DEF TypeOK, AgentTypeOK
<1>0. /\ Token.type = "token" /\ Done.type = "done" /\ Error.type = "error"
      /\ Done \in Terminators /\ Error \in Terminators
  BY DEF Token, Done, Error, Terminators
<1>1. ASSUME NEW s \in Sessions, StartRun(s) PROVE FollowInv'
  <2>1. stream'[s] = << >> /\ events'[s] = << >>
    BY <1>1 DEF StartRun, RunInv
  <2>2. Follows(s)'
    BY <2>1 DEF Follows, Copies, Ended
  <2> QED
    BY <1>1, <2>2, OthersFollow DEF StartRun
<1>2. ASSUME NEW s \in Sessions, InitFails(s) PROVE FollowInv'
  <2>1. stream'[s] = <<Error>> /\ events'[s] = << >>
    <3>1. stream[s] = << >> /\ stream'[s] = Append(stream[s], Error)
      BY <1>2 DEF InitFails, Yield, RunInv
    <3>2. Append(<< >>, Error) = <<Error>>
      OBVIOUS
    <3> QED
      BY <1>2, <3>1, <3>2 DEF InitFails
  <2>2. body'[s] = "closed"
    BY <1>2 DEF InitFails, CloseBody
  <2>3. Follows(s)'
    BY <1>0, <2>1, <2>2 DEF Follows, Copies
  <2> QED
    BY <1>2, <2>3, OthersFollow DEF InitFails, Yield, CloseBody
<1>3. ASSUME NEW s \in Sessions, NEW line, line \notin Terminators,
             Running(s), Queue(s, line), UNCHANGED wire
      PROVE  FollowInv'
  <2>1. /\ events'[s] = Append(events[s], line) /\ events[s] \in Seq(AnyLine)
        /\ stream[s] \in Seq(AnyLine) /\ UNCHANGED <<stream, body>> /\ body[s] = "open"
    BY <1>3 DEF Queue, Running, wire
  <2>2. Follows(s)
    BY <2>1 DEF FollowInv, Responds
  <2>3. Follows(s)'
    BY <1>3, <2>1, <2>2, QueueFollows
  <2> QED
    BY <1>3, <2>1, <2>3, OthersFollow DEF Queue
<1>4. ASSUME NEW s \in Sessions, ToolTakesEffect(s) PROVE FollowInv'
  BY <1>4 DEF ToolTakesEffect, wire, FollowInv, Responds, Follows, Copies
<1>5. ASSUME NEW s \in Sessions, WriteText(s) \/ WriteCall(s) \/ WriteResult(s) PROVE FollowInv'
  <2>1. PICK type : Write(s, type)
    BY <1>5 DEF WriteText, WriteCall, WriteResult
  <2>2. /\ stream'[s] = Append(stream[s], NextEvent(s)) /\ stream[s] \in Seq(AnyLine)
        /\ events[s] \in Seq(AnyLine) /\ Len(stream[s]) < Len(events[s])
        /\ UNCHANGED <<events, body>> /\ body[s] = "open"
    BY <2>1 DEF Write, Yield, Running
  <2>3. Follows(s)
    BY <2>2 DEF FollowInv, Responds
  <2>4. Follows(s)'
    BY <2>2, <2>3, WriteFollows
  <2> QED
    BY <2>1, <2>2, <2>4, OthersFollow DEF Write, Yield
<1>6. ASSUME NEW s \in Sessions, Finish(s) PROVE FollowInv'
  <2>1. /\ stream'[s] = stream[s] \o LastWords(s) \o <<Done>> /\ stream[s] \in Seq(AnyLine)
        /\ UNCHANGED events /\ body[s] = "open" /\ body'[s] = "closed" /\ Drained(s)
    BY <1>6 DEF Finish, CloseBody, Running, agentVars
  <2>2. \/ stream'[s] = Append(Append(stream[s], Token), Done)
        \/ stream'[s] = Append(stream[s], Done)
    BY <2>1, LastWordsAppended
  <2>3. /\ Len(stream'[s]) \in Nat /\ Len(stream[s]) <= Len(stream'[s])
        /\ \A i \in 1..Len(stream[s]) : stream'[s][i] = stream[s][i]
        /\ \A i \in 1..Len(stream'[s]) :
             i > Len(stream[s]) => stream'[s][i] \in {Token, Done}
    BY <2>1, <2>2, EndAppended
  <2>4. \A i \in 1..Len(stream'[s]) :
          i > Len(stream[s]) => stream'[s][i].type \notin {"tool_call", "tool_result"}
    BY <1>0, <2>3
  <2>5. Follows(s)
    BY <2>1 DEF FollowInv, Responds
  <2>6. Follows(s)'
    BY <2>1, <2>3, <2>4, <2>5, CloseFollows
  <2> QED
    BY <1>6, <2>1, <2>6, OthersFollow DEF Finish, CloseBody
<1>7. ASSUME NEW s \in Sessions, AgentFails(s) PROVE FollowInv'
  <2>1. /\ stream'[s] = Append(stream[s], Error) /\ stream[s] \in Seq(AnyLine)
        /\ UNCHANGED events /\ body[s] = "open" /\ body'[s] = "closed" /\ Drained(s)
    BY <1>7 DEF AgentFails, Yield, CloseBody, Running, agentVars
  <2>2. /\ Len(stream'[s]) \in Nat /\ Len(stream[s]) <= Len(stream'[s])
        /\ \A i \in 1..Len(stream[s]) : stream'[s][i] = stream[s][i]
        /\ \A i \in 1..Len(stream'[s]) : i > Len(stream[s]) => stream'[s][i] = Error
    BY <2>1, LinesTyped
  <2>3. Follows(s)
    BY <2>1 DEF FollowInv, Responds
  <2>4. \A i \in 1..Len(stream'[s]) :
          i > Len(stream[s]) => stream'[s][i].type \notin {"tool_call", "tool_result"}
    BY <1>0, <2>2
  <2>5. Follows(s)'
    BY <2>1, <2>2, <2>3, <2>4, CloseFollows
  <2> QED
    BY <1>7, <2>1, <2>5, OthersFollow DEF AgentFails, Yield, CloseBody
<1>8. ASSUME NEW s \in Sessions, AgentRefuses(s) PROVE FollowInv'
  BY <1>8, OthersFollow DEF AgentRefuses, agentVars, Responds
<1>9. CASE AgentCrash
  <2> SUFFICES ASSUME NEW s \in Sessions, Responds(s)' PROVE Follows(s)'
    BY DEF FollowInv
  <2>1. PICK kept \in [Sessions -> 0..MaxResponse] :
          /\ \A t \in Sessions :
               kept[t] \in (IF body[t] = "open" THEN got[t] ELSE Len(stream[t]))..Len(stream[t])
          /\ stream' = [t \in Sessions |-> SubSeq(stream[t], 1, kept[t])]
    BY <1>9 DEF AgentCrash
  <2>2. /\ stream'[s] = SubSeq(stream[s], 1, kept[s]) /\ stream[s] \in Seq(AnyLine)
        /\ kept[s] \in Nat /\ kept[s] <= Len(stream[s])
        /\ UNCHANGED events /\ body'[s] = "closed" /\ Responds(s)
    BY <1>9, <2>1, MaxLinesAssumption DEF AgentCrash, Responds, MaxResponse
  <2>3. Len(stream'[s]) = kept[s] /\ \A i \in 1..kept[s] : stream'[s][i] = stream[s][i]
    BY <2>2
  <2>4. Follows(s)
    BY <2>2 DEF FollowInv
  <2>5. Copies(s)'
    <3> SUFFICES ASSUME NEW i \in 1..Len(stream'[s])
                 PROVE  IF i <= Len(events[s])
                          THEN stream'[s][i] = events[s][i]
                          ELSE stream'[s][i].type \notin {"tool_call", "tool_result"}
      BY <2>2 DEF Copies
    <3>1. i \in 1..Len(stream[s]) /\ stream'[s][i] = stream[s][i]
      BY <2>2, <2>3
    <3> QED
      BY <2>4, <3>1 DEF Follows, Copies
  <2>6. Ended(stream'[s]) => Len(events[s]) <= Len(stream'[s])
    <3>1. CASE body[s] = "open"
      <4>1. ASSUME Ended(stream'[s]) PROVE FALSE
        <5>1. kept[s] \in 1..Len(stream[s]) /\ stream[s][kept[s]] \in Terminators
          BY <2>2, <2>3, <4>1 DEF Ended
        <5>2. kept[s] \in 1..Len(events[s]) /\ stream[s][kept[s]] = events[s][kept[s]]
          BY <2>2, <2>4, <3>1, <5>1 DEF Follows, Copies
        <5> QED
          BY <2>4, <5>1, <5>2 DEF Follows
      <4> QED
        BY <4>1
    <3>2. CASE body[s] = "closed"
      <4>1. kept[s] \in Len(stream[s])..Len(stream[s]) /\ Len(stream[s]) \in Nat
        <5>1. body[s] # "open"
          BY <3>2
        <5>2. kept[s] \in Len(stream[s])..Len(stream[s])
          BY <2>1, <5>1
        <5>3. stream[s] \in Seq(AnyLine)
          OBVIOUS
        <5> QED
          BY <5>2, <5>3
      <4>2. kept[s] = Len(stream[s])
        BY <4>1
      <4>3. stream'[s] = stream[s]
        BY <2>2, <4>2, SubSeqFull
      <4> QED
        BY <2>4, <3>2, <4>3 DEF Follows
    <3> QED
      BY <2>2, <3>1, <3>2 DEF Responds
  <2> QED
    BY <2>2, <2>4, <2>5, <2>6 DEF Follows
<1>10. ASSUME NEW s \in Sessions, Call(s) PROVE FollowInv'
  BY <1>10, OthersFollow DEF Call, agentVars, Responds
<1>11. ASSUME NEW s \in Sessions, Leave(s) PROVE FollowInv'
  BY <1>11, OthersFollow DEF Leave, Responds
<1>12. CASE UNCHANGED vars
  BY <1>12 DEF vars, wire, agentVars, FollowInv, Responds, Follows, Copies
<1>13. ASSUME NEW s \in Sessions, ModelText(s) PROVE FollowInv'
  <2>1. Token \notin Terminators
    BY DEF Token, Terminators, Done, Error
  <2> QED
    BY <1>3, <1>13, <2>1 DEF ModelText
<1>14. ASSUME NEW s \in Sessions, ToolStart(s) PROVE FollowInv'
  <2>1. \A call, target : ToolCall(call, target) \notin Terminators
    BY DEF ToolCall, Terminators, Done, Error
  <2> QED
    BY <1>3, <1>14, <2>1 DEF ToolStart
<1>15. ASSUME NEW s \in Sessions, NEW f \in inflight[s], NEW failed \in BOOLEAN,
              Running(s), Answer(s, f, failed)
       PROVE  FollowInv'
  <2>1. ToolResult(f.at, failed) \notin Terminators
    BY DEF ToolResult, Terminators, Done, Error
  <2> QED
    BY <1>3, <1>15, <2>1 DEF Answer
<1> QED
  BY <1>1, <1>2, <1>4, <1>5, <1>6, <1>7, <1>8, <1>9, <1>10, <1>11, <1>12, <1>13, <1>14, <1>15
  DEF Next, AgentNext, AgentStep, Client, ToolEnd, ToolError

-----------------------------------------------------------------------------
(***************************************************************************)
(* What a run does to the backends is in its calls in flight, and each of  *)
(* these, also of a response that is closed, has its event; a run that     *)
(* begins has neither calls nor changes, of a former run.                  *)
(***************************************************************************)
Own(s, call) == call \in Calls(request[s].role)

AnnouncedAt(s, at, call) ==
  at \in 1..Len(events[s]) /\ events[s][at] = ToolCall(call, request[s].target)

OwnEvents(s) ==
  \A i \in 1..Len(events[s]) : events[s][i].type = "tool_call" =>
    \E call : Own(s, call) /\ events[s][i] = ToolCall(call, request[s].target)

Announced(s) ==
  /\ OwnEvents(s)
  /\ \A f \in inflight[s] : AnnouncedAt(s, f.at, f.call) /\ Own(s, f.call)
  /\ \A e \in effects[s] :
       /\ AnnouncedAt(s, e.at, e.call) /\ Own(s, e.call)
       /\ Mutates(e.call) /\ e.customer = Affected(e.call, request[s].target)

AnnounceInv == \A s \in Sessions : Responds(s) => Announced(s)

\* What a step does to a session: a run begins ...
Fresh(s) == events'[s] = << >> /\ inflight'[s] = {} /\ effects'[s] = {}
\* ... or queues an event, and calls in flight are those of before, or announced ...
Lengthens(s) ==
  /\ Responds(s) /\ request'[s] = request[s]
  /\ \A i \in 1..Len(events[s]) : i \in 1..Len(events'[s]) /\ events'[s][i] = events[s][i]
  /\ \A i \in 1..Len(events'[s]) : i \in 1..Len(events[s]) \/
       (events'[s][i].type = "tool_call" =>
          \E call : Own(s, call) /\ events'[s][i] = ToolCall(call, request[s].target))
Carries(s) ==
  \A f \in inflight'[s] :
    \/ \E g \in inflight[s] : f.at = g.at /\ f.call = g.call
    \/ AnnouncedAt(s, f.at, f.call)' /\ Own(s, f.call)
Effects(s) ==
  \A e \in effects'[s] : e \in effects[s] \/ \E f \in inflight[s] :
    /\ e.at = f.at /\ e.call = f.call /\ Mutates(f.call)
    /\ e.customer = Affected(f.call, request[s].target)
\* ... or the step is about something else.
SameRun(s) ==
  /\ request'[s] = request[s] /\ events'[s] = events[s]
  /\ inflight'[s] = inflight[s] /\ effects'[s] = effects[s]
  /\ Responds(s)' => Responds(s)

Announces(s) ==
  ~Responds(s)' \/ Fresh(s) \/ (Lengthens(s) /\ Carries(s) /\ Effects(s)) \/ SameRun(s)

\* One such step keeps a session's announcements.
LEMMA AnnouncesOn ==
  ASSUME NEW s \in Sessions, Announces(s),
         Responds(s) => Announced(s), Responds(s)'
  PROVE  Announced(s)'
<1>1. CASE Fresh(s)
  BY <1>1 DEF Fresh, Announced, OwnEvents
<1>2. CASE SameRun(s)
  <2>1. Announced(s)
    BY <1>2 DEF SameRun
  <2> QED
    BY <1>2, <2>1 DEF SameRun, Announced, AnnouncedAt, OwnEvents, Own
<1>3. CASE Lengthens(s) /\ Carries(s) /\ Effects(s)
  <2>1. Announced(s) /\ request'[s] = request[s]
    BY <1>3 DEF Lengthens
  <2>2. OwnEvents(s)'
    <3> SUFFICES ASSUME NEW i \in 1..Len(events'[s]), events'[s][i].type = "tool_call"
                 PROVE  \E call : Own(s, call) /\ events'[s][i] = ToolCall(call, request[s].target)
      BY <2>1 DEF OwnEvents, Own
    <3>1. CASE i \in 1..Len(events[s])
      BY <1>3, <2>1, <3>1 DEF Lengthens, Announced, OwnEvents
    <3>2. CASE i \notin 1..Len(events[s])
      BY <1>3, <3>2 DEF Lengthens
    <3> QED
      BY <3>1, <3>2
  <2>3. ASSUME NEW at, NEW call, AnnouncedAt(s, at, call) PROVE AnnouncedAt(s, at, call)'
    BY <1>3, <2>1, <2>3 DEF AnnouncedAt, Lengthens
  <2>4. \A call : Own(s, call)' <=> Own(s, call)
    BY <2>1 DEF Own
  <2>5. \A f \in inflight'[s] : AnnouncedAt(s, f.at, f.call)' /\ Own(s, f.call)
    BY <1>3, <2>1, <2>3 DEF Carries, Announced
  <2>6. \A e \in effects'[s] : /\ AnnouncedAt(s, e.at, e.call)' /\ Own(s, e.call)
                               /\ Mutates(e.call) /\ e.customer = Affected(e.call, request[s].target)
    BY <1>3, <2>1, <2>3 DEF Effects, Announced
  <2> QED
    BY <2>1, <2>2, <2>4, <2>5, <2>6 DEF Announced
<1> QED
  BY <1>1, <1>2, <1>3 DEF Announces

\* One more event, of a call of the role's or of no call.
LEMMA EventMore ==
  ASSUME NEW s \in Sessions, events \in [Sessions -> Seq(AnyLine)], Responds(s),
         NEW line, Queue(s, line), request'[s] = request[s],
         line.type = "tool_call" =>
           \E call : Own(s, call) /\ line = ToolCall(call, request[s].target)
  PROVE  /\ Lengthens(s)
         /\ Len(events[s]) + 1 \in 1..Len(events'[s]) /\ events'[s][Len(events[s]) + 1] = line
<1>1. events'[s] = Append(events[s], line) /\ events[s] \in Seq(AnyLine)
  BY DEF Queue
<1>2. /\ \A i \in 1..Len(events[s]) : i \in 1..Len(events'[s]) /\ events'[s][i] = events[s][i]
      /\ \A i \in 1..Len(events'[s]) : i \in 1..Len(events[s]) \/ i = Len(events[s]) + 1
      /\ Len(events[s]) + 1 \in 1..Len(events'[s]) /\ events'[s][Len(events[s]) + 1] = line
  BY <1>1
<1> QED
  BY <1>2 DEF Lengthens

\* Every step is, in every session, one of these.
LEMMA AnnounceSteps ==
  ASSUME TypeOK, RunInv, [Next]_vars
  PROVE  \A s \in Sessions : Announces(s)
<1> USE DEF TypeOK, AgentTypeOK
<1> DEFINE Result == \A s \in Sessions : Announces(s)
           Others(s) == \A t \in Sessions \ {s} : SameRun(t)
<1>0. ASSUME NEW s \in Sessions, Others(s), Announces(s) PROVE Result
  BY <1>0 DEF Announces
<1>1. ASSUME NEW s \in Sessions, StartRun(s) \/ InitFails(s) PROVE Result
  <2>1. Fresh(s) /\ Others(s)
    BY <1>1 DEF StartRun, InitFails, Yield, CloseBody, Fresh, SameRun, Responds
  <2> QED
    BY <1>0, <2>1 DEF Announces
<1>2. ASSUME NEW s \in Sessions, ModelText(s) PROVE Result
  <2>1. /\ Responds(s) /\ Queue(s, Token) /\ Others(s)
        /\ request' = request /\ inflight' = inflight /\ effects' = effects
    BY <1>2 DEF ModelText, Running, Responds, Queue, SameRun, wire
  <2>2. Lengthens(s)
    BY <2>1, EventMore DEF Token
  <2>3. Carries(s) /\ Effects(s)
    BY <2>1 DEF Carries, Effects
  <2> QED
    BY <1>0, <2>1, <2>2, <2>3 DEF Announces
<1>3. ASSUME NEW s \in Sessions, ToolStart(s) PROVE Result
  <2>1. PICK call \in ModelCalls \cap Calls(request[s].role) :
          /\ Queue(s, ToolCall(call, request[s].target))
          /\ inflight' = [inflight EXCEPT ![s] =
               @ \cup {[at |-> Len(events[s]) + 1, call |-> call, ran |-> FALSE]}]
    BY <1>3 DEF ToolStart
  <2> DEFINE line == ToolCall(call, request[s].target)
             new == [at |-> Len(events[s]) + 1, call |-> call, ran |-> FALSE]
  <2>2. /\ Responds(s) /\ Others(s) /\ Own(s, call)
        /\ request' = request /\ effects' = effects
    BY <1>3, <2>1 DEF ToolStart, Running, Responds, Queue, SameRun, wire, Own
  <2>3. /\ Lengthens(s)
        /\ Len(events[s]) + 1 \in 1..Len(events'[s]) /\ events'[s][Len(events[s]) + 1] = line
    BY <2>1, <2>2, EventMore
  <2>4. new.at = Len(events[s]) + 1 /\ new.call = call
    OBVIOUS
  <2>5. \A f \in inflight'[s] : f \in inflight[s] \/ f = new
    BY <2>1
  <2> HIDE DEF new
  <2>6. \A f : f = new => AnnouncedAt(s, f.at, f.call)' /\ Own(s, f.call)
    BY <2>2, <2>3, <2>4 DEF AnnouncedAt
  <2>7. Carries(s)
    BY <2>5, <2>6 DEF Carries
  <2>8. Effects(s)
    BY <2>2 DEF Effects
  <2> QED
    BY <1>0, <2>2, <2>3, <2>7, <2>8 DEF Announces
<1>4. ASSUME NEW s \in Sessions, ToolTakesEffect(s) PROVE Result
  <2>1. PICK f \in inflight[s] :
          /\ ~f.ran /\ Mutates(f.call)
          /\ inflight' = [inflight EXCEPT ![s] = (@ \ {f}) \cup {[f EXCEPT !.ran = TRUE]}]
          /\ effects' = [effects EXCEPT ![s] = @ \cup
               {[turn |-> request[s].turn, at |-> f.at, call |-> f.call,
                 customer |-> Affected(f.call, request[s].target)]}]
    BY <1>4 DEF ToolTakesEffect
  <2> DEFINE ran == [f EXCEPT !.ran = TRUE]
             change == [turn |-> request[s].turn, at |-> f.at, call |-> f.call,
                        customer |-> Affected(f.call, request[s].target)]
  <2>2. /\ Responds(s) /\ Others(s)
        /\ request' = request /\ events' = events
    BY <1>4, <2>1 DEF ToolTakesEffect, Responds, SameRun, wire
  <2>3. f \in InFlight
    BY <2>1
  <2>4. ran.at = f.at /\ ran.call = f.call
    BY <2>3 DEF InFlight
  <2>5. \A g \in inflight'[s] : g \in inflight[s] \/ g = ran
    BY <2>1
  <2>6. Carries(s)
    BY <2>1, <2>4, <2>5 DEF Carries
  <2>7. Effects(s)
    <3>1. /\ change.at = f.at /\ change.call = f.call
          /\ change.customer = Affected(f.call, request[s].target)
      OBVIOUS
    <3>2. \A e \in effects'[s] : e \in effects[s] \/ e = change
      BY <2>1
    <3> HIDE DEF change
    <3> QED
      BY <2>1, <3>1, <3>2 DEF Effects
  <2>8. Lengthens(s)
    BY <2>2 DEF Lengthens
  <2> QED
    BY <1>0, <2>2, <2>6, <2>7, <2>8 DEF Announces
<1>5. ASSUME NEW s \in Sessions, NEW f \in inflight[s], NEW failed \in BOOLEAN,
             Running(s), Answer(s, f, failed)
      PROVE  Result
  <2>1. /\ Responds(s) /\ Queue(s, ToolResult(f.at, failed)) /\ Others(s)
        /\ request' = request /\ effects' = effects
        /\ \A g \in inflight'[s] : g \in inflight[s]
    BY <1>5 DEF Answer, Running, Responds, Queue, SameRun, wire
  <2>2. Lengthens(s)
    BY <2>1, EventMore DEF ToolResult
  <2>3. Carries(s) /\ Effects(s)
    BY <2>1 DEF Carries, Effects
  <2> QED
    BY <1>0, <2>1, <2>2, <2>3 DEF Announces
<1>6. ASSUME NEW s \in Sessions, WriteText(s) \/ WriteCall(s) \/ WriteResult(s) PROVE Result
  BY <1>6 DEF WriteText, WriteCall, WriteResult, Write, Announces, SameRun, Responds
<1>7. ASSUME NEW s \in Sessions, Finish(s) \/ AgentFails(s) \/ AgentRefuses(s) PROVE Result
  <2>1. \A t \in Sessions : Responds(t)' => Responds(t)
    BY <1>7 DEF Finish, AgentFails, AgentRefuses, Running, CloseBody, Responds
  <2> QED
    BY <1>7, <2>1 DEF Finish, AgentFails, AgentRefuses, agentVars, Announces, SameRun
<1>8. CASE AgentCrash
  <2>1. \A t \in Sessions : Responds(t)' => Responds(t)
    BY <1>8 DEF AgentCrash, Responds
  <2> QED
    BY <1>8, <2>1 DEF AgentCrash, Announces, SameRun
<1>9. ASSUME NEW s \in Sessions, Call(s) \/ Leave(s) PROVE Result
  <2>1. ~Responds(s)' /\ Others(s)
    BY <1>9 DEF Call, Leave, agentVars, Responds, SameRun
  <2> QED
    BY <1>0, <2>1 DEF Announces
<1>10. CASE UNCHANGED vars
  BY <1>10 DEF vars, wire, agentVars, Announces, SameRun, Responds
<1> QED
  BY <1>1, <1>2, <1>3, <1>4, <1>5, <1>6, <1>7, <1>8, <1>9, <1>10
  DEF Next, AgentNext, AgentStep, Client, ToolEnd, ToolError

\* So every step keeps AnnounceInv.
LEMMA AnnounceStep == TypeOK /\ RunInv /\ AnnounceInv /\ [Next]_vars => AnnounceInv'
  BY AnnounceSteps, AnnouncesOn DEF AnnounceInv

\* The invariant of all that follows.
LEMMA Invariant == Spec => [](TypeOK /\ RunInv /\ FollowInv /\ AnnounceInv)
<1>1. Init => TypeOK /\ RunInv /\ FollowInv /\ AnnounceInv
  BY InitTypeOK, InitRunInv, InitFollowInv DEF Init, AnnounceInv, Responds
<1>2. TypeOK /\ RunInv /\ FollowInv /\ AnnounceInv /\ [Next]_vars
        => TypeOK' /\ RunInv' /\ FollowInv' /\ AnnounceInv'
  BY TypeStep, RunStep, FollowStep, AnnounceStep
<1> QED
  BY <1>1, <1>2, PTL DEF Spec

\* A call that has been written is the run's, about the customer of the turn's.
LEMMA WrittenCalls ==
  ASSUME FollowInv, AnnounceInv, NEW s \in Sessions, Responds(s),
         stream[s] \in Seq(AnyLine), events[s] \in Seq(AnyLine),
         NEW i \in 1..Len(stream[s]), stream[s][i].type = "tool_call"
  PROVE  \E call : Own(s, call) /\ stream[s][i] = ToolCall(call, request[s].target)
<1>1. Follows(s) /\ Announced(s)
  BY DEF FollowInv, AnnounceInv
<1>2. i \in 1..Len(events[s]) /\ stream[s][i] = events[s][i]
  BY <1>1 DEF Follows, Copies
<1> QED
  BY <1>1, <1>2 DEF Announced, OwnEvents

(***************************************************************************)
(* A turn calls the tools of its own role only, and a customer's changes   *)
(* nobody else's data, whatever the model asks for.                        *)
(***************************************************************************)
THEOREM Scoped == Spec => []CustomerScope
<1>1. TypeOK /\ FollowInv /\ AnnounceInv => CustomerScope
  <2> SUFFICES ASSUME TypeOK, FollowInv, AnnounceInv, NEW s \in Sessions, Responds(s)
               PROVE  /\ \A i \in 1..Len(stream[s]) : stream[s][i].type = "tool_call" =>
                           IF request[s].role = "customer"
                             THEN /\ stream[s][i].call.name \in CustomerTools
                                  /\ stream[s][i].target = request[s].target
                             ELSE stream[s][i].call.name \in EmployeeTools
                      /\ \A e \in effects[s] : request[s].role = "customer" =>
                           e.call.name \in CustomerTools /\ e.customer = request[s].target
    BY DEF CustomerScope, Responds
  <2>1. ASSUME NEW i \in 1..Len(stream[s]), stream[s][i].type = "tool_call"
        PROVE  IF request[s].role = "customer"
                 THEN /\ stream[s][i].call.name \in CustomerTools
                      /\ stream[s][i].target = request[s].target
                 ELSE stream[s][i].call.name \in EmployeeTools
    <3>1. stream[s] \in Seq(AnyLine) /\ events[s] \in Seq(AnyLine)
      BY DEF TypeOK, AgentTypeOK
    <3>2. PICK call : Own(s, call) /\ stream[s][i] = ToolCall(call, request[s].target)
      BY <2>1, <3>1, WrittenCalls
    <3>3. /\ stream[s][i].call = call
          /\ stream[s][i].target = ComputeTarget(call, request[s].target)
      BY <3>2 DEF ToolCall
    <3>4. CASE request[s].role = "customer"
      BY <3>2, <3>3, <3>4, CustomerCalls DEF Own
    <3>5. CASE request[s].role # "customer"
      BY <3>2, <3>3, <3>5 DEF Own, Calls, BuildTools
    <3> QED
      BY <3>4, <3>5
  <2>2. ASSUME NEW e \in effects[s], request[s].role = "customer"
        PROVE  e.call.name \in CustomerTools /\ e.customer = request[s].target
    <3>1. Own(s, e.call) /\ e.customer = Affected(e.call, request[s].target)
      BY DEF AnnounceInv, Announced
    <3> QED
      BY <2>2, <3>1, CustomerCalls DEF Own
  <2> QED
    BY <2>1, <2>2
<1> QED
  BY <1>1, Invariant, PTL

(***************************************************************************)
(* A response that ends with `done` or `error` has told of every change    *)
(* its run makes, with the audit flag: the queue has been emptied by then, *)
(* however many calls run at once and whenever they take effect, even      *)
(* after the response has ended.                                           *)
(***************************************************************************)
THEOREM ChangesAnnounced == Spec => []EffectsAnnounced
<1>1. TypeOK /\ FollowInv /\ AnnounceInv => EffectsAnnounced
  <2> SUFFICES ASSUME TypeOK, FollowInv, AnnounceInv, NEW s \in Sessions,
                      body[s] = "closed", Ended(stream[s]), NEW e \in effects[s]
               PROVE  /\ e.at <= Len(stream[s]) /\ stream[s][e.at].type = "tool_call"
                      /\ stream[s][e.at].call = e.call /\ stream[s][e.at].audit
    BY DEF EffectsAnnounced
  <2>1. Responds(s)
    BY DEF Responds
  <2>2. AnnouncedAt(s, e.at, e.call) /\ Mutates(e.call) /\ Follows(s)
    BY <2>1 DEF AnnounceInv, Announced, FollowInv
  <2>3. e.at \in 1..Len(stream[s]) /\ e.at <= Len(events[s])
    <3>1. Len(events[s]) <= Len(stream[s]) /\ e.at \in 1..Len(events[s])
      BY <2>2 DEF Follows, AnnouncedAt
    <3>2. stream[s] \in Seq(AnyLine) /\ events[s] \in Seq(AnyLine)
      BY DEF TypeOK, AgentTypeOK
    <3> QED
      BY <3>1, <3>2
  <2>4. stream[s][e.at] = ToolCall(e.call, request[s].target)
    BY <2>2, <2>3 DEF Follows, Copies, AnnouncedAt
  <2> QED
    BY <2>2, <2>3, <2>4, MutationsAudited DEF ToolCall
<1> QED
  BY <1>1, Invariant, PTL

(***************************************************************************)
(* ... and a line that tells of a change names the customer whose data was *)
(* changed, whether the tool has the customer from the turn or from its    *)
(* arguments.                                                              *)
(***************************************************************************)
THEOREM TargetNamed == Spec => []TargetIsAffected
<1>1. TypeOK /\ FollowInv /\ AnnounceInv => TargetIsAffected
  <2> SUFFICES ASSUME TypeOK, FollowInv, AnnounceInv, NEW s \in Sessions, Responds(s),
                      NEW e \in effects[s], e.at <= Len(stream[s]),
                      e.call.name # "manage_service_reports"
               PROVE  stream[s][e.at].target = e.customer
    BY DEF TargetIsAffected, Responds
  <2>1. /\ AnnouncedAt(s, e.at, e.call) /\ Follows(s)
        /\ e.customer = Affected(e.call, request[s].target)
    BY DEF AnnounceInv, Announced, FollowInv
  <2>2. e.at \in 1..Len(stream[s]) /\ e.at <= Len(events[s])
    <3>1. stream[s] \in Seq(AnyLine) /\ events[s] \in Seq(AnyLine)
      BY DEF TypeOK, AgentTypeOK
    <3> QED
      BY <2>1, <3>1 DEF AnnouncedAt
  <2>3. stream[s][e.at] = ToolCall(e.call, request[s].target)
    BY <2>1, <2>2 DEF Follows, Copies, AnnouncedAt
  <2>4. ComputeTarget(e.call, request[s].target) = Affected(e.call, request[s].target)
    BY DEF ComputeTarget, Affected
  <2> QED
    BY <2>1, <2>3, <2>4 DEF ToolCall
<1> QED
  BY <1>1, Invariant, PTL

-----------------------------------------------------------------------------
(***************************************************************************)
(* Refinement: a step of chat-agent is a step of the protocol for each     *)
(* session, or leaves that session's response alone.                       *)
(***************************************************************************)
Untouched(s) == stream'[s] = stream[s] /\ body'[s] = body[s]

ProtocolStep(s) == Protocol!PNext(s) \/ Untouched(s)

\* The protocol speaks of the same lines.
LEMMA SameLines ==
  /\ Protocol!Token = Token /\ Protocol!Done = Done /\ Protocol!Error = Error
  /\ \A at, failed : Protocol!ToolResult(at, failed) = ToolResult(at, failed)
  /\ \A lines, i : Protocol!Unanswered(lines, i) <=> Unanswered(lines, i)
  /\ \A lines : Protocol!Narrated(lines) <=> Narrated(lines)
  /\ \A lines : Protocol!Answered(lines) <=> Answered(lines)
  BY DEF Protocol!Token, Token, Protocol!Done, Done, Protocol!Error, Error,
         Protocol!ToolResult, ToolResult, Protocol!Unanswered, Unanswered,
         Protocol!Narrated, Narrated, Protocol!Answered, Answered

\* ... and of the same calls.
LEMMA SameCalls ==
  /\ \A role : Protocol!Calls(role) = Calls(role)
  /\ \A call, target : Protocol!ToolCall(call, target) = ToolCall(call, target)
<1>1. \A role : Protocol!BuildTools(role) = BuildTools(role)
  BY DEF Protocol!BuildTools, BuildTools, Protocol!CustomerTools, CustomerTools,
         Protocol!EmployeeTools, EmployeeTools
<1>2. Protocol!AllCalls = AllCalls
  BY DEF Protocol!AllCalls, AllCalls, Protocol!CustomerTools, CustomerTools,
         Protocol!CustomerIdArgTools, CustomerIdArgTools, Protocol!PlanActions, PlanActions
<1>3. \A role : Protocol!Calls(role) = Calls(role)
  BY <1>1, <1>2 DEF Protocol!Calls, Calls
<1>4. \A call : Protocol!ComputeAudit(call) = ComputeAudit(call)
  BY DEF Protocol!ComputeAudit, ComputeAudit, Protocol!StaticAudit, StaticAudit
<1>5. \A call, target : Protocol!ComputeTarget(call, target) = ComputeTarget(call, target)
  BY DEF Protocol!ComputeTarget, ComputeTarget, Protocol!CustomerIdArgTools, CustomerIdArgTools
<1> QED
  BY <1>3, <1>4, <1>5 DEF Protocol!ToolCall, ToolCall

\* The initial states map to initial states.
LEMMA InitProtocol == Init => Protocol!PInit
  BY DEF Init, Protocol!PInit, Protocol!Lines

\* A step of one session is a stutter of the protocol in the others.
LEMMA OthersUntouched ==
  ASSUME NEW s \in Sessions, \A t \in Sessions \ {s} : Untouched(t), ProtocolStep(s)
  PROVE  \A t \in Sessions : ProtocolStep(t)
  BY DEF ProtocolStep

\* What PDone asks of the lines before `done`.
LEMMA FinishNarrates ==
  ASSUME NEW s, stream[s] \in Seq(AnyLine),
         (pending[s] /\ ~narrated[s]) <=> ~Narrated(stream[s])
  PROVE  /\ LastWords(s) \in {<< >>, <<Token>>}
         /\ Narrated(stream[s] \o LastWords(s))
<1>1. CASE pending[s] /\ ~narrated[s]
  <2>1. LastWords(s) = <<Token>>
    BY <1>1 DEF LastWords
  <2>2. stream[s] \o <<Token>> = Append(stream[s], Token)
    BY LinesTyped
  <2>3. Narrated(Append(stream[s], Token))
    BY AppendToken
  <2> QED
    BY <2>1, <2>2, <2>3
<1>2. CASE ~(pending[s] /\ ~narrated[s])
  <2>1. LastWords(s) = << >>
    BY <1>2 DEF LastWords
  <2>2. stream[s] \o << >> = stream[s]
    OBVIOUS
  <2> QED
    BY <1>2, <2>1, <2>2
<1> QED
  BY <1>1, <1>2

\* A response that has caught up with its run has the same open calls.
LEMMA DrainedCalls ==
  ASSUME NEW s, stream[s] \in Seq(AnyLine), events[s] \in Seq(AnyLine),
         Copies(s), Drained(s)
  PROVE  \A i : Unanswered(stream[s], i) <=> Unanswered(events[s], i)
<1>1. \A i \in 1..Len(events[s]) : stream[s][i] = events[s][i]
  BY DEF Copies, Drained
<1>2. Len(stream[s]) = Len(events[s])
  BY DEF Drained
<1> QED
  BY <1>1, <1>2 DEF Unanswered

\* The result that is written next answers a call written before.
LEMMA NextAnswers ==
  ASSUME NEW s, stream[s] \in Seq(AnyLine), events[s] \in Seq(AnyLine),
         Copies(s), AnswersOnce(events[s]), Len(stream[s]) < Len(events[s]),
         NextEvent(s).type = "tool_result"
  PROVE  /\ NextEvent(s).at \in 1..Len(stream[s])
         /\ Unanswered(stream[s], NextEvent(s).at)
<1> DEFINE j == Len(stream[s]) + 1
           at == NextEvent(s).at
<1>1. j \in 1..Len(events[s]) /\ j - 1 = Len(stream[s]) /\ NextEvent(s) = events[s][j]
  BY DEF NextEvent
<1>2. /\ at \in 1..(j - 1) /\ events[s][at].type = "tool_call"
      /\ \A k \in 1..(j - 1) : events[s][k].type = "tool_result" => events[s][k].at # at
  BY <1>1 DEF AnswersOnce
<1>3. \A k \in 1..Len(stream[s]) : stream[s][k] = events[s][k]
  BY DEF Copies
<1> HIDE DEF j, at
<1>4. Unanswered(stream[s], at)
  BY <1>1, <1>2, <1>3 DEF Unanswered
<1> QED
  BY <1>1, <1>2, <1>4 DEF at

\* Every step is, in every session, a step of the protocol or a stutter.
LEMMA ProtocolStepped ==
  TypeOK /\ RunInv /\ FollowInv /\ AnnounceInv /\ [Next]_vars
    => \A s \in Sessions : ProtocolStep(s)
<1> SUFFICES ASSUME TypeOK, RunInv, FollowInv, AnnounceInv, [Next]_vars
             PROVE  \A s \in Sessions : ProtocolStep(s)
  OBVIOUS
<1> USE DEF TypeOK, AgentTypeOK
<1>1. ASSUME NEW s \in Sessions, StartRun(s) PROVE \A t \in Sessions : ProtocolStep(t)
  <2>1. Protocol!POpen(s)
    BY <1>1 DEF StartRun, Protocol!POpen
  <2> QED
    BY <1>1, <2>1, OthersUntouched DEF StartRun, Untouched, ProtocolStep, Protocol!PNext
<1>2. ASSUME NEW s \in Sessions, InitFails(s) PROVE \A t \in Sessions : ProtocolStep(t)
  <2>1. Protocol!PError(s)
    BY <1>2, SameLines DEF InitFails, Yield, CloseBody, Protocol!PError, Protocol!Lines
  <2> QED
    BY <1>2, <2>1, OthersUntouched
    DEF InitFails, Yield, CloseBody, Untouched, ProtocolStep, Protocol!PNext
<1>3. ASSUME UNCHANGED wire PROVE \A t \in Sessions : ProtocolStep(t)
  BY <1>3 DEF wire, ProtocolStep, Untouched
<1>4. ASSUME NEW s \in Sessions, NEW type, Write(s, type), WriteText(s) \/ WriteCall(s) \/ WriteResult(s)
      PROVE  \A t \in Sessions : ProtocolStep(t)
  <2> DEFINE line == NextEvent(s)
  <2>1. /\ stream'[s] = Append(stream[s], line) /\ UNCHANGED body /\ body[s] = "open"
        /\ Len(stream[s]) < Len(events[s]) /\ Responds(s)
        /\ \A t \in Sessions \ {s} : Untouched(t)
    BY <1>4 DEF Write, Yield, Running, Untouched, Responds
  <2>2. stream[s] \in Seq(AnyLine) /\ events[s] \in Seq(AnyLine)
    OBVIOUS
  <2>3. line = events[s][Len(stream[s]) + 1] /\ Len(stream[s]) + 1 \in 1..Len(events[s])
    BY <2>1, <2>2 DEF NextEvent
  <2>4. line \in AnyLine
    BY <2>2, <2>3
  <2>5. CASE WriteText(s)
    <3>1. line = Token
      BY <2>4, <2>5, LineKinds DEF WriteText, Write
    <3>2. Protocol!PText(s)
      BY <2>1, <3>1, SameLines DEF Protocol!PText, Protocol!Lines
    <3> QED
      BY <2>1, <3>2, OthersUntouched DEF ProtocolStep, Protocol!PNext
  <2>6. CASE WriteCall(s)
    <3>1. line.type = "tool_call" /\ OwnEvents(s)
      BY <2>1, <2>6 DEF WriteCall, Write, AnnounceInv, Announced
    <3>2. PICK call : Own(s, call) /\ line = ToolCall(call, request[s].target)
      BY <2>3, <3>1 DEF OwnEvents
    <3>3. Protocol!PCall(s)
      BY <2>1, <3>2, SameCalls DEF Own, Protocol!PCall, Protocol!Lines
    <3> QED
      BY <2>1, <3>3, OthersUntouched DEF ProtocolStep, Protocol!PNext
  <2>7. CASE WriteResult(s)
    <3>1. line.type = "tool_result" /\ AnswersOnce(events[s]) /\ Copies(s)
      BY <2>1, <2>7 DEF WriteResult, Write, RunInv, OpenCalls, FollowInv, Follows
    <3>2. line.failed \in BOOLEAN /\ line = ToolResult(line.at, line.failed)
      BY <2>4, <3>1, LineKinds
    <3>3. line.at \in 1..Len(stream[s]) /\ Unanswered(stream[s], line.at)
      BY <2>1, <2>2, <3>1, NextAnswers
    <3> HIDE DEF line
    <3>4. Protocol!PResult(s)
      BY <2>1, <3>2, <3>3, SameLines DEF Protocol!PResult, Protocol!Lines
    <3> QED
      BY <2>1, <3>4, OthersUntouched DEF ProtocolStep, Protocol!PNext
  <2> QED
    BY <1>4, <2>5, <2>6, <2>7
<1>5. ASSUME NEW s \in Sessions, Finish(s) PROVE \A t \in Sessions : ProtocolStep(t)
  <2>1. /\ FlagsTell(s) /\ OpenCalls(s) /\ Copies(s) /\ Drained(s) /\ inflight[s] = {}
        /\ stream[s] \in Seq(AnyLine) /\ events[s] \in Seq(AnyLine)
    BY <1>5 DEF Finish, Running, RunInv, FollowInv, Follows, Responds
  <2>2. Answered(stream[s])
    BY <2>1, DrainedCalls DEF OpenCalls, Answered
  <2>3. LastWords(s) \in {<< >>, <<Token>>} /\ Narrated(stream[s] \o LastWords(s))
    BY <2>1, FinishNarrates DEF FlagsTell
  <2>4. Protocol!PDone(s)
    BY <1>5, <2>2, <2>3, SameLines DEF Finish, Running, CloseBody, Protocol!PDone, Protocol!Lines
  <2> QED
    BY <1>5, <2>4, OthersUntouched DEF Finish, CloseBody, Untouched, ProtocolStep, Protocol!PNext
<1>6. ASSUME NEW s \in Sessions, AgentFails(s) PROVE \A t \in Sessions : ProtocolStep(t)
  <2>1. Protocol!PError(s)
    BY <1>6, SameLines DEF AgentFails, Running, Yield, CloseBody, Protocol!PError, Protocol!Lines
  <2> QED
    BY <1>6, <2>1, OthersUntouched
    DEF AgentFails, Yield, CloseBody, Untouched, ProtocolStep, Protocol!PNext
<1>7. ASSUME NEW s \in Sessions, AgentRefuses(s) PROVE \A t \in Sessions : ProtocolStep(t)
  <2>1. Protocol!PRefuse(s)
    BY <1>7 DEF AgentRefuses, Protocol!PRefuse
  <2> QED
    BY <1>7, <2>1, OthersUntouched DEF AgentRefuses, Untouched, ProtocolStep, Protocol!PNext
<1>8. ASSUME AgentCrash, NEW s \in Sessions PROVE ProtocolStep(s)
  <2>1. PICK kept \in [Sessions -> 0..MaxResponse] :
          /\ \A t \in Sessions :
               kept[t] \in (IF body[t] = "open" THEN got[t] ELSE Len(stream[t]))..Len(stream[t])
          /\ stream' = [t \in Sessions |-> SubSeq(stream[t], 1, kept[t])]
    BY <1>8 DEF AgentCrash
  <2>2. stream'[s] = SubSeq(stream[s], 1, kept[s]) /\ stream[s] \in Seq(AnyLine)
    BY <2>1
  <2>3. CASE body[s] = "open"
    <3>1. body'[s] = "closed"
      BY <1>8, <2>3 DEF AgentCrash
    <3>2. kept[s] \in got[s]..Len(stream[s])
      BY <2>1, <2>3
    <3>3. Protocol!PCut(s)
      BY <2>2, <2>3, <3>1, <3>2 DEF Protocol!PCut, Protocol!Lines
    <3> QED
      BY <3>3 DEF ProtocolStep, Protocol!PNext
  <2>4. CASE body[s] # "open"
    <3>1. kept[s] = Len(stream[s])
      <4>1. kept[s] \in Len(stream[s])..Len(stream[s]) /\ Len(stream[s]) \in Nat
        BY <2>1, <2>2, <2>4
      <4> QED
        BY <4>1
    <3>2. stream'[s] = stream[s]
      BY <2>2, <3>1, SubSeqFull
    <3>3. CASE body[s] = "called"
      <4>1. body'[s] = "refused"
        BY <1>8, <3>3 DEF AgentCrash
      <4> QED
        BY <3>2, <3>3, <4>1 DEF ProtocolStep, Protocol!PNext, Protocol!PRefuse
    <3>4. CASE body[s] # "called"
      <4>1. body'[s] = body[s]
        BY <1>8, <2>4, <3>4 DEF AgentCrash
      <4> QED
        BY <3>2, <4>1 DEF ProtocolStep, Untouched
    <3> QED
      BY <3>3, <3>4
  <2> QED
    BY <2>3, <2>4
<1>9. ASSUME NEW s \in Sessions, Call(s) PROVE \A t \in Sessions : ProtocolStep(t)
  <2>1. Protocol!PRequest(s)
    BY <1>9 DEF Call, Protocol!PRequest
  <2> QED
    BY <1>9, <2>1, OthersUntouched DEF Call, Untouched, ProtocolStep, Protocol!PNext
<1>10. ASSUME NEW s \in Sessions, Leave(s) PROVE \A t \in Sessions : ProtocolStep(t)
  <2>1. Protocol!PDispose(s)
    BY <1>10 DEF Leave, Protocol!PDispose
  <2> QED
    BY <1>10, <2>1, OthersUntouched DEF Leave, Untouched, ProtocolStep, Protocol!PNext
<1>11. CASE UNCHANGED vars
  BY <1>3, <1>11 DEF vars
<1>12. ASSUME NEW s \in Sessions, ModelText(s) \/ ToolStart(s) \/ ToolTakesEffect(s) \/ ToolEnd(s) \/ ToolError(s)
       PROVE  UNCHANGED wire
  BY <1>12 DEF ModelText, ToolStart, ToolTakesEffect, ToolEnd, ToolError, Answer
<1>13. ASSUME NEW s \in Sessions, WriteText(s) \/ WriteCall(s) \/ WriteResult(s)
       PROVE  \A t \in Sessions : ProtocolStep(t)
  BY <1>4, <1>13 DEF WriteText, WriteCall, WriteResult
<1> QED
  BY <1>1, <1>2, <1>3, <1>5, <1>6, <1>7, <1>8, <1>9, <1>10, <1>11, <1>12, <1>13
  DEF Next, AgentNext, AgentStep, Client

(***************************************************************************)
(* Every response keeps the protocol its reader relies on.                 *)
(***************************************************************************)
THEOREM Implements == Spec => KeepsProtocol
<1>1. Init => Protocol!PInit
  BY InitProtocol
<1>2. TypeOK /\ RunInv /\ FollowInv /\ AnnounceInv /\ [Next]_vars =>
        [\A s \in Sessions : Protocol!PNext(s) \/ UNCHANGED <<stream[s], body[s]>>]_<<stream, body>>
  BY ProtocolStepped DEF ProtocolStep, Untouched
<1> QED
  BY <1>1, <1>2, Invariant, PTL DEF Spec, KeepsProtocol, Protocol!PSpec
=============================================================================

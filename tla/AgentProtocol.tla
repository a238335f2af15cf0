--------------------------- MODULE AgentProtocol ---------------------------
(***************************************************************************)
(* What the NDJSON response of POST /agent/stream promises its reader, one *)
(* response at a time and without saying how chat-agent keeps the promise: *)
(* lines are only appended, a tool result answers an earlier call that had *)
(* no answer, `done` comes last and only when every call is answered and   *)
(* every failure has been talked about, `error` comes last too, and only a *)
(* dying process may end the response otherwise, losing lines not yet read.*)
(***************************************************************************)
EXTENDS AgentStream

Lines(s) == stream[s]

PInit == \A s \in Sessions : body[s] = "none" /\ Lines(s) = <<>>

\* A new turn's request is on its way, or the old response is disposed of.
PRequest(s) == body'[s] = "called" /\ stream'[s] = <<>>
PDispose(s) == body[s] # "none" /\ body'[s] = "none" /\ UNCHANGED stream[s]

PRefuse(s) == body[s] = "called" /\ body'[s] = "refused" /\ UNCHANGED stream[s]

POpen(s) == body[s] = "called" /\ body'[s] = "open" /\ UNCHANGED stream[s]

PText(s) ==
  /\ body[s] = "open" /\ UNCHANGED body[s]
  /\ stream'[s] = Append(Lines(s), Token)

PCall(s) ==
  /\ body[s] = "open" /\ UNCHANGED body[s]
  /\ \E call \in Calls(request[s].role) :
       stream'[s] = Append(Lines(s), ToolCall(call, request[s].target))

PResult(s) ==
  /\ body[s] = "open" /\ UNCHANGED body[s]
  /\ \E i \in 1..Len(Lines(s)), failed \in BOOLEAN :
       /\ Unanswered(Lines(s), i)
       /\ stream'[s] = Append(Lines(s), ToolResult(i, failed))

\* The last words may be an explanation nobody else has given.
PDone(s) ==
  /\ body[s] = "open" /\ body'[s] = "closed"
  /\ \E last \in {<<>>, <<Token>>} :
       /\ stream'[s] = Lines(s) \o last \o <<Done>>
       /\ Narrated(Lines(s) \o last)
  /\ Answered(Lines(s))

PError(s) ==
  /\ body[s] \in {"called", "open"} /\ body'[s] = "closed"
  /\ stream'[s] = Append(Lines(s), Error)

PCut(s) ==
  /\ body[s] = "open" /\ body'[s] = "closed"
  /\ \E n \in got[s]..Len(Lines(s)) : stream'[s] = SubSeq(Lines(s), 1, n)

PNext(s) ==
  \/ PRequest(s) \/ PRefuse(s) \/ POpen(s) \/ PDispose(s)
  \/ PText(s) \/ PCall(s) \/ PResult(s) \/ PDone(s) \/ PError(s) \/ PCut(s)

\* A crash may disturb several responses in one step.
PSpec ==
  PInit /\ [][\A s \in Sessions : PNext(s) \/ UNCHANGED <<stream[s], body[s]>>]_<<stream, body>>
=============================================================================

---------------------------- MODULE AgentStream ----------------------------
(***************************************************************************)
(* The interface of chat-gateway and chat-agent: per websocket session one *)
(* POST /agent/stream at a time and the NDJSON response to it.  `stream`   *)
(* is what chat-agent has written of the response, `got` how many of its   *)
(* lines chat-gateway has read; the rest is on its way.                    *)
(***************************************************************************)
EXTENDS Naturals, Sequences, ToolCatalog

CONSTANTS
  Sessions,   \* websocket connections, each with its own goroutine
  MaxLines    \* bound: a run that has queued so many lines starts nothing more

ASSUME MaxLinesAssumption == MaxLines \in Nat

VARIABLES
  request,   \* request[s]: the AgentRequest of the current turn of s
  stream,    \* stream[s]: the lines chat-agent has written in answer to it
  got,       \* got[s]: how many of them chat-gateway has read
  body       \* "none", "called" (no status yet), "refused", "open", "closed"

wire == <<request, stream, got, body>>

\* agentEvent: one NDJSON line.  Only a call its tool will reject has no target.
Token == [type |-> "token"]

ToolCall(call, target) ==
  [type |-> "tool_call", call |-> call,
   audit |-> ComputeAudit(call), target |-> ComputeTarget(call, target)]

\* The event names the tool; `at`, the line of the call it answers, stands
\* for the name.
ToolResult(at, failed) == [type |-> "tool_result", at |-> at, failed |-> failed]

Done == [type |-> "done"]
Error == [type |-> "error"]
Terminators == {Done, Error}

AnyLine ==
  {Token} \cup Terminators
  \cup {line \in [type : {"tool_call"}, call : AllCalls, audit : BOOLEAN,
                  target : Customers \cup {NoCustomer}] :
          line.target = NoCustomer => ~ValidArgs(line.call)}
  \cup [type : {"tool_result"}, at : Nat, failed : BOOLEAN]

\* The call at line i has no answer yet.
Unanswered(lines, i) ==
  /\ i \in 1..Len(lines) /\ lines[i].type = "tool_call"
  /\ \A j \in 1..Len(lines) : lines[j].type = "tool_result" => lines[j].at # i

\* Every tool call has been answered.
Answered(lines) == \A i \in 1..Len(lines) : ~Unanswered(lines, i)

\* Every failed tool result is followed by text for the user.
Narrated(lines) ==
  \A i \in 1..Len(lines) : lines[i].type = "tool_result" /\ lines[i].failed =>
    \E j \in i..Len(lines) : lines[j] = Token

\* The positions of the text of a response, and a text put together from them.
Tokens(lines) == {i \in 1..Len(lines) : lines[i] = Token}
Assembles(text, positions) ==
  /\ \A i, j \in DOMAIN text : i < j => text[i] < text[j]
  /\ {text[i] : i \in DOMAIN text} = positions

\* The response came to its regular end ...
Complete(lines) == lines # <<>> /\ lines[Len(lines)] = Done
\* ... or to an end at all.
Ended(lines) == lines # <<>> /\ lines[Len(lines)] \in Terminators
=============================================================================

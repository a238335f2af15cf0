----------------------------- MODULE ChatAgent -----------------------------
(***************************************************************************)
(* chat-agent: `stream_chat` of agent/streaming.py over the events of one  *)
(* agent run.  The run goes on in a task of its own, which queues its      *)
(* events; `stream_chat` takes them off one by one and writes a line for   *)
(* each, when its reader lets it.  The language model and the LangGraph    *)
(* loop are external: they alternate between text and batches of tool      *)
(* calls, and the calls of a batch run concurrently, so their starts,      *)
(* effects and ends interleave.  The tool bodies of agent/tools.py send    *)
(* requests to the backends, which take effect some time between start and *)
(* end, or, when the answer is lost or late, without the tool knowing.     *)
(***************************************************************************)
EXTENDS AgentStream

CONSTANTS
  ModelCalls,    \* bound: the calls the model may think of
  MaxCalls,      \* bound: calls of one run
  AgentFaults    \* bound: crashes of the chat-agent process

ASSUME FaultsAssumption == AgentFaults \in Nat

VARIABLES
  events,     \* events[s]: what the run has queued, as the lines it becomes;
              \* the first Len(stream[s]) of them have been written
  inflight,   \* inflight[s]: started calls, [at, call, ran]
  pending,    \* pending_tool_error is not None
  narrated,   \* narrated_since_error
  effects,    \* history: effects[s], changes the run made to the backends
  crashes,    \* crashes so far
  cut         \* history: the turns whose response a crash has cut off

agentVars == <<events, inflight, pending, narrated, effects, crashes, cut>>

InFlight == [at : Nat, call : AllCalls, ran : BOOLEAN]

AgentInit ==
  /\ events = [s \in Sessions |-> <<>>]
  /\ inflight = [s \in Sessions |-> {}]
  /\ pending = [s \in Sessions |-> FALSE]
  /\ narrated = [s \in Sessions |-> TRUE]
  /\ effects = [s \in Sessions |-> {}]
  /\ crashes = 0
  /\ cut = {}

Yield(s, line) == stream' = [stream EXCEPT ![s] = Append(@, line)]
Queue(s, line) == events' = [events EXCEPT ![s] = Append(@, line)]
CloseBody(s) == body' = [body EXCEPT ![s] = "closed"]
Running(s) == body[s] = "open"
Room(s) == Len(events[s]) < MaxLines
MoreCalls(s) ==
  Room(s) /\ Len(SelectSeq(events[s], LAMBDA line : line.type = "tool_call")) < MaxCalls
Drained(s) == Len(stream[s]) = Len(events[s])

\* The tools, the model and the agent are built: the run starts.
StartRun(s) ==
  /\ body[s] = "called"
  /\ body' = [body EXCEPT ![s] = "open"]
  /\ events' = [events EXCEPT ![s] = <<>>]
  /\ inflight' = [inflight EXCEPT ![s] = {}]
  /\ pending' = [pending EXCEPT ![s] = FALSE]
  /\ narrated' = [narrated EXCEPT ![s] = TRUE]
  /\ effects' = [effects EXCEPT ![s] = {}]
  /\ UNCHANGED <<request, stream, got, crashes, cut>>

\* Building them failed: the response is one error line.
InitFails(s) ==
  /\ body[s] = "called"
  /\ Yield(s, Error) /\ CloseBody(s)
  /\ events' = [events EXCEPT ![s] = <<>>]
  /\ inflight' = [inflight EXCEPT ![s] = {}]
  /\ effects' = [effects EXCEPT ![s] = {}]
  /\ UNCHANGED <<request, got, pending, narrated, crashes, cut>>

\* The run: on_chat_model_stream with some text, while no call is running.
ModelText(s) ==
  /\ Running(s) /\ Room(s) /\ inflight[s] = {}
  /\ Queue(s, Token)
  /\ UNCHANGED <<wire, inflight, pending, narrated, effects, crashes, cut>>

\* The run: on_tool_start, a call of a tool bound for the role.
ToolStart(s) ==
  /\ Running(s) /\ MoreCalls(s)
  /\ \E call \in ModelCalls \cap Calls(request[s].role) :
       /\ Queue(s, ToolCall(call, request[s].target))
       /\ inflight' = [inflight EXCEPT ![s] =
            @ \cup {[at |-> Len(events[s]) + 1, call |-> call, ran |-> FALSE]}]
  /\ UNCHANGED <<wire, pending, narrated, effects, crashes, cut>>

\* The backend applies the request of a started call, also when the run
\* that sent it has failed meanwhile.
ToolTakesEffect(s) ==
  /\ body[s] \in {"open", "closed"}
  /\ \E f \in inflight[s] :
       /\ ~f.ran /\ Mutates(f.call)
       /\ inflight' = [inflight EXCEPT ![s] = (@ \ {f}) \cup {[f EXCEPT !.ran = TRUE]}]
       /\ effects' = [effects EXCEPT ![s] = @ \cup
            {[turn |-> request[s].turn, at |-> f.at, call |-> f.call,
              customer |-> Affected(f.call, request[s].target)]}]
  /\ UNCHANGED <<wire, events, pending, narrated, crashes, cut>>

Answer(s, f, failed) ==
  /\ Queue(s, ToolResult(f.at, failed))
  /\ inflight' = [inflight EXCEPT ![s] = @ \ {f}]
  /\ UNCHANGED <<wire, pending, narrated, effects, crashes, cut>>

\* The run: on_tool_end, the body returned.  _safe makes a failed request a
\* result with an error; a mutation reported to succeed has been applied,
\* one reported to fail may have been.
ToolEnd(s) ==
  /\ Running(s)
  /\ \E f \in inflight[s], failed \in BOOLEAN :
       /\ ValidArgs(f.call)
       /\ Mutates(f.call) /\ ~failed => f.ran
       /\ Answer(s, f, failed)

\* The run: on_tool_error, the call was rejected before its body ran.
ToolError(s) ==
  /\ Running(s)
  /\ \E f \in inflight[s] : ~f.ran /\ Answer(s, f, TRUE)

NextEvent(s) == events[s][Len(stream[s]) + 1]

\* stream_chat takes the next event off the queue and writes its line.
Write(s, type) ==
  /\ Running(s) /\ Len(stream[s]) < Len(events[s])
  /\ NextEvent(s).type = type
  /\ Yield(s, NextEvent(s))
  /\ UNCHANGED <<request, got, body, events, inflight, effects, crashes, cut>>

WriteText(s) ==
  /\ Write(s, "token")
  /\ narrated' = [narrated EXCEPT ![s] = pending[s] \/ @]
  /\ UNCHANGED pending

WriteCall(s) == Write(s, "tool_call") /\ UNCHANGED <<pending, narrated>>

\* Mutant of WriteResult: the flag is not taken back by a second failure.
WriteResultKeepsNarrated(s) ==
  /\ Write(s, "tool_result")
  /\ pending' = [pending EXCEPT ![s] = @ \/ NextEvent(s).failed]
  /\ narrated' = [narrated EXCEPT ![s] = @ /\ (pending[s] \/ ~NextEvent(s).failed)]

WriteResult(s) ==
  /\ Write(s, "tool_result")
  /\ pending' = [pending EXCEPT ![s] = @ \/ NextEvent(s).failed]
  /\ narrated' = [narrated EXCEPT ![s] = @ /\ ~NextEvent(s).failed]

\* Mutant of LastWords: nobody explains a failure the model passed over.
NoLastWords(s) == <<>>

\* The explanation injected when the model has not talked about a failure.
LastWords(s) == IF pending[s] /\ ~narrated[s] THEN <<Token>> ELSE <<>>

\* The model has answered without asking for tools: the run is over, and so
\* is the response once all its events are written.
Finish(s) ==
  /\ Running(s) /\ inflight[s] = {} /\ Drained(s)
  /\ stream' = [stream EXCEPT ![s] = @ \o LastWords(s) \o <<Done>>]
  /\ CloseBody(s)
  /\ UNCHANGED <<request, got, agentVars>>

\* Mutant of AgentFails: the error is reported and the run goes on.
AgentFailsGoesOn(s) ==
  /\ Running(s) /\ Room(s) /\ Drained(s)
  /\ Yield(s, Error)
  /\ Queue(s, Error)
  /\ UNCHANGED <<request, got, body, inflight, pending, narrated, effects, crashes, cut>>

\* Mutant of AgentFails: the error overtakes the events still queued.
AgentFailsAtOnce(s) ==
  /\ Running(s)
  /\ Yield(s, Error) /\ CloseBody(s)
  /\ UNCHANGED <<request, got, agentVars>>

\* An exception escapes the run, in the model or in a tool; stream_chat gets
\* it when it has written the events queued before.
AgentFails(s) ==
  /\ Running(s) /\ Drained(s)
  /\ Yield(s, Error) /\ CloseBody(s)
  /\ UNCHANGED <<request, got, agentVars>>

\* The service cannot be reached or answers with an error status.
AgentRefuses(s) ==
  /\ body[s] = "called"
  /\ body' = [body EXCEPT ![s] = "refused"]
  /\ UNCHANGED <<request, stream, got, agentVars>>

\* Lines of the longest response: its calls and texts, an answer to each
\* call, the last words and `done`.
MaxResponse == 2 * MaxLines + 2

\* The process dies: what it has written and nobody has read may be lost.
AgentCrash ==
  /\ crashes < AgentFaults /\ crashes' = crashes + 1
  /\ cut' = cut \cup {request[s].turn : s \in {t \in Sessions : body[t] = "open"}}
  /\ body' = [s \in Sessions |->
                CASE body[s] = "called" -> "refused"
                  [] body[s] = "open" -> "closed"
                  [] OTHER -> body[s]]
  /\ \E kept \in [Sessions -> 0..MaxResponse] :
       /\ \A s \in Sessions :
            kept[s] \in (IF body[s] = "open" THEN got[s] ELSE Len(stream[s]))..Len(stream[s])
       /\ stream' = [s \in Sessions |-> SubSeq(stream[s], 1, kept[s])]
  /\ UNCHANGED <<request, got, events, inflight, pending, narrated, effects>>

AgentStep(s) ==
  \/ StartRun(s) \/ InitFails(s)
  \/ ModelText(s) \/ ToolStart(s) \/ ToolTakesEffect(s) \/ ToolEnd(s) \/ ToolError(s)
  \/ WriteText(s) \/ WriteCall(s) \/ WriteResult(s)
  \/ Finish(s) \/ AgentFails(s)

AgentNext == AgentCrash \/ \E s \in Sessions : AgentStep(s) \/ AgentRefuses(s)

-----------------------------------------------------------------------------
AgentTypeOK ==
  /\ inflight \in [Sessions -> SUBSET InFlight]
  /\ pending \in [Sessions -> BOOLEAN]
  /\ narrated \in [Sessions -> BOOLEAN]
  /\ crashes \in 0..AgentFaults
  /\ cut \subseteq Nat
  /\ events \in [Sessions -> Seq(AnyLine)]
  /\ stream \in [Sessions -> Seq(AnyLine)]
  /\ effects \in [Sessions -> SUBSET [turn : Nat, at : Nat, call : AllCalls, customer : Customers]]
=============================================================================

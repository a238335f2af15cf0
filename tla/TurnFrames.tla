----------------------------- MODULE TurnFrames -----------------------------
(***************************************************************************)
(* What chat-gateway promises the browser at the other end of a websocket: *)
(* turns come one after the other; within a turn frames are forwarded      *)
(* until one of them, done or error, answers it, and nothing follows the   *)
(* answer; a turn may end without an answer, and a message that is refused *)
(* at once is answered without a turn.  How the turn is served is not      *)
(* said: ChatSystem implements this module, ChatSocket builds on it.       *)
(***************************************************************************)
EXTENDS Naturals

CONSTANT Connections

VARIABLES
  phase,     \* "down", "idle" (the next message is awaited) or "turn"
  answered,  \* answered[k]: done and error frames since the last message
  forwarded  \* forwarded[k]: lines of the response forwarded in this turn

frameVars == <<phase, answered, forwarded>>

FramesInit ==
  /\ phase = [k \in Connections |-> "down"]
  /\ answered = [k \in Connections |-> 0]
  /\ forwarded = [k \in Connections |-> 0]

InPhase(k, from, to) == phase[k] = from /\ phase' = [phase EXCEPT ![k] = to]
AnsweredIs(k, n) == answered' = [answered EXCEPT ![k] = n]
ForwardedIs(k, n) == forwarded' = [forwarded EXCEPT ![k] = n]

Connect(k) == InPhase(k, "down", "idle") /\ AnsweredIs(k, 0) /\ UNCHANGED forwarded

\* An invalid message is answered, or cannot be.
Reject(k) ==
  /\ phase[k] = "idle" /\ \E n \in 0..1 : AnsweredIs(k, n)
  /\ UNCHANGED <<phase, forwarded>>

Begin(k) == InPhase(k, "idle", "turn") /\ AnsweredIs(k, 0) /\ UNCHANGED forwarded

\* A line that does not answer the turn, or one the browser cannot be sent.
Frame(k) ==
  /\ phase[k] = "turn" /\ answered[k] = 0
  /\ ForwardedIs(k, forwarded[k] + 1)
  /\ UNCHANGED <<phase, answered>>

\* The gateway gives up on the turn with an error of its own ...
Refuse(k) ==
  /\ answered[k] = 0 /\ AnsweredIs(k, 1)
  /\ InPhase(k, "turn", "idle") /\ UNCHANGED forwarded
  /\ forwarded[k] = 0

\* ... or forwards the line that answers it, and then reads to the end.
Answer(k) ==
  /\ phase[k] = "turn" /\ answered[k] = 0 /\ AnsweredIs(k, 1)
  /\ ForwardedIs(k, forwarded[k] + 1) /\ UNCHANGED phase

End(k) == InPhase(k, "turn", "idle") /\ ForwardedIs(k, 0) /\ UNCHANGED answered

Drop(k) == InPhase(k, "idle", "down") /\ UNCHANGED <<answered, forwarded>>

Restart ==
  /\ phase' = [k \in Connections |-> "down"]
  /\ forwarded' = [k \in Connections |-> 0]
  /\ UNCHANGED answered

FramesNext ==
  \/ Restart
  \/ \E k \in Connections :
       \/ Connect(k) \/ Reject(k) \/ Begin(k) \/ Frame(k) \/ Refuse(k)
       \/ Answer(k) \/ End(k) \/ Drop(k)

FramesSpec == FramesInit /\ [][FramesNext]_frameVars
=============================================================================

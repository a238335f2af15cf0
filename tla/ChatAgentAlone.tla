--------------------------- MODULE ChatAgentAlone ---------------------------
(***************************************************************************)
(* chat-agent with the most general client: any session may call it with   *)
(* any request and go away at any time.  `got` stays 0: a client that has  *)
(* read nothing is the one a crash of chat-agent can do most harm to.      *)
(***************************************************************************)
EXTENDS ChatAgent

CONSTANT Requests   \* the requests of the client

ASSUME RequestsAssumption ==
  Requests \subseteq [role : Roles, target : Customers, turn : Nat]

vars == <<wire, agentVars>>

Init ==
  /\ AgentInit
  /\ request \in [Sessions -> Requests]
  /\ stream = [s \in Sessions |-> <<>>]
  /\ got = [s \in Sessions |-> 0]
  /\ body = [s \in Sessions |-> "none"]

Call(s) ==
  /\ body[s] = "none"
  /\ body' = [body EXCEPT ![s] = "called"]
  /\ stream' = [stream EXCEPT ![s] = <<>>]
  /\ got' = [got EXCEPT ![s] = 0]
  /\ \E r \in Requests : request' = [request EXCEPT ![s] = r]
  /\ UNCHANGED agentVars

\* The generator is closed, the run is cancelled, and their state is gone.
Leave(s) ==
  /\ body[s] # "none"
  /\ body' = [body EXCEPT ![s] = "none"]
  /\ events' = [events EXCEPT ![s] = <<>>]
  /\ inflight' = [inflight EXCEPT ![s] = {}]
  /\ effects' = [effects EXCEPT ![s] = {}]
  /\ pending' = [pending EXCEPT ![s] = FALSE]
  /\ narrated' = [narrated EXCEPT ![s] = TRUE]
  /\ UNCHANGED <<request, stream, got, crashes, cut>>

Client(s) == Call(s) \/ Leave(s)

Next == AgentNext \/ \E s \in Sessions : Client(s)

Spec == Init /\ [][Next]_vars

-----------------------------------------------------------------------------
TypeOK ==
  /\ AgentTypeOK
  /\ request \in [Sessions -> Requests]
  /\ got \in [Sessions -> Nat]
  /\ body \in [Sessions -> {"none", "called", "refused", "open", "closed"}]

(***************************************************************************)
(* The flags pending_tool_error and narrated_since_error agree with the    *)
(* lines already written, however far the run is ahead of them, and the    *)
(* calls in flight are those the run has not answered: what makes Finish's *)
(* promise true.                                                           *)
(***************************************************************************)
FlagsAgree ==
  \A s \in Sessions : body[s] = "open" =>
    /\ (pending[s] /\ ~narrated[s]) <=> ~Narrated(stream[s])
    /\ {f.at : f \in inflight[s]} =
         {i \in 1..Len(events[s]) : Unanswered(events[s], i)}

(***************************************************************************)
(* build_tools scopes the run and the tools scope themselves: a turn calls *)
(* tools of its own role only, and what a customer's turn announces and    *)
(* changes concerns that customer.                                         *)
(***************************************************************************)
CustomerScope ==
  \A s \in Sessions : body[s] \in {"open", "closed"} =>
    /\ \A i \in 1..Len(stream[s]) : stream[s][i].type = "tool_call" =>
         IF request[s].role = "customer"
           THEN /\ stream[s][i].call.name \in CustomerTools
                /\ stream[s][i].target = request[s].target
           ELSE stream[s][i].call.name \in EmployeeTools
    /\ \A e \in effects[s] : request[s].role = "customer" =>
         e.call.name \in CustomerTools /\ e.customer = request[s].target

(***************************************************************************)
(* A change of a backend may come before the line that announces it, which *)
(* waits in the queue, and a reader that goes away or a process that dies  *)
(* may lose that line.  But a response that ends with `done` or `error`    *)
(* has announced, with the audit flag, every change its run has made, and  *)
(* every change a call it left running may still make.                     *)
(***************************************************************************)
EffectsAnnounced ==
  \A s \in Sessions : body[s] = "closed" /\ Ended(stream[s]) =>
    \A e \in effects[s] :
      /\ e.at <= Len(stream[s]) /\ stream[s][e.at].type = "tool_call"
      /\ stream[s][e.at].call = e.call /\ stream[s][e.at].audit

(***************************************************************************)
(* "The customer id a tool call concerned", which the audit log will name, *)
(* is that of the account the call has changed.  An update of a service    *)
(* report is left out: compute_target_customer_id does not know whose      *)
(* report it is and announces the assisted customer.                       *)
(***************************************************************************)
TargetIsAffected ==
  \A s \in Sessions : body[s] \in {"open", "closed"} =>
    \A e \in effects[s] :
      e.at <= Len(stream[s]) /\ e.call.name # "manage_service_reports" =>
        stream[s][e.at].target = e.customer

Protocol == INSTANCE AgentProtocol

(***************************************************************************)
(* Every response keeps the protocol its reader relies on.                 *)
(***************************************************************************)
KeepsProtocol == Protocol!PSpec
=============================================================================

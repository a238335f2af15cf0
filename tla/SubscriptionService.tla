------------------------- MODULE SubscriptionService -------------------------
(***************************************************************************)
(* subscription-service: the handlers of handlers.go, one SQL statement a  *)
(* step, called by concurrent tools of chat-agent.  A caller runs one tool *)
(* at a time; manage_plan_catalog's update is two requests of the tool, a  *)
(* GET of the catalog and a PUT of the whole plan.                         *)
(***************************************************************************)
EXTENDS SubscriptionSeeding

CONSTANTS
  Callers,    \* turns of chat-agent with a tool call in flight
  NewPlans,   \* details a create may give
  Edits,      \* what an update may ask for: some fields and their values
  MaxCalls    \* bound: tool calls and further replicas

ASSUME CallsAssumption ==
  /\ NewPlans \subseteq Details
  /\ Edits \subseteq UNION {[S -> Values] : S \in SUBSET Fields}
  /\ MaxCalls \in Nat

VARIABLES
  call,     \* call[c]: the tool call of c and the statement it is at
  calls,    \* calls and further replicas so far
  asked,    \* history: <<plan, field, value>> somebody asked for
  retired,  \* history: retired[p], calls begun when p was deactivated
  moves     \* history: subscriptions set, [customer, plan, born]

vars == <<seedVars, call, calls, asked, retired, moves>>
history == <<calls, asked, retired, moves>>

\* Not every tool has a plan, a customer and details.
Idle ==
  [tool |-> "none", step |-> "done", on |-> "none", plan |-> "none", customer |-> "none",
   wants |-> <<>>, shown |-> "none", born |-> 0, moved |-> 0]

Active == {p \in DOMAIN plans : plans[p].active}

Init ==
  /\ SeedInit
  /\ call = [c \in Callers |-> Idle]
  /\ calls = 0 /\ asked = {} /\ retired = [p \in Plans |-> MaxCalls + 1] /\ moves = <<>>

AtStep(c, step) == call[c].step = step
Goes(c, step) == call' = [call EXCEPT ![c].step = step]
\* The tool has its answer, or an error, and nothing of the call is left.
Ends(c) == call' = [call EXCEPT ![c] = Idle]

\* Callers are interchangeable: the next call is the first idle one's.
NextCaller ==
  LET idle == {c \in Callers : AtStep(c, "done")}
  IN  IF idle = {} THEN {} ELSE {CHOOSE c \in idle : TRUE}

\* A tool sends its first request to a replica that is serving.
Begin(c, r, request) ==
  /\ c \in NextCaller /\ At(r, "serving") /\ calls < MaxCalls
  /\ calls' = calls + 1
  /\ call' = [call EXCEPT ![c] =
       [Idle EXCEPT !.tool = request.tool, !.step = request.step, !.on = r,
                    !.plan = request.plan, !.customer = request.customer,
                    !.wants = request.wants, !.born = calls',
                    !.moved = IF request.tool = "show" THEN Len(moves) ELSE 0]]
  /\ UNCHANGED <<seedVars, asked, retired, moves>>

Requests ==
  [tool : {"create"}, step : {"insert plan"}, plan : Plans, customer : {"none"}, wants : NewPlans]
  \cup [tool : {"update"}, step : {"get plans"}, plan : Plans, customer : {"none"}, wants : Edits]
  \cup [tool : {"deactivate"}, step : {"delete plan"}, plan : Plans, customer : {"none"},
        wants : {<<>>}]
  \cup [tool : {"change"}, step : {"exists"}, plan : Plans, customer : Customers, wants : {<<>>}]
  \cup [tool : {"show"}, step : {"exists"}, plan : {"none"}, customer : Customers, wants : {<<>>}]

Asks(p, wants) == asked' = asked \cup {<<p, f, wants[f]>> : f \in DOMAIN wants}

\* Mutant of CreatePlan: an existing plan is taken back into the catalog.
CreateOrRevive(c) ==
  /\ AtStep(c, "insert plan")
  /\ LET p == call[c].plan IN
       /\ plans' = Put(plans, p, [details |-> call[c].wants, active |-> TRUE])
       /\ Asks(p, call[c].wants) /\ Ends(c)
  /\ UNCHANGED <<customers, subs, boot, faults, calls, retired, moves>>

\* createPlan: an id that is taken, by an inactive plan too, is an error.
CreatePlan(c) ==
  /\ AtStep(c, "insert plan")
  /\ LET p == call[c].plan IN
       IF p \in DOMAIN plans
         THEN Ends(c) /\ UNCHANGED <<plans, asked>>
         ELSE /\ plans' = Put(plans, p, [details |-> call[c].wants, active |-> TRUE])
              /\ Asks(p, call[c].wants) /\ Ends(c)
  /\ UNCHANGED <<customers, subs, boot, faults, calls, retired, moves>>

\* Mutant of Merged: the PUT says the fields that were asked for only.
Blanked(wants, existing) ==
  [f \in Fields |-> IF f \in DOMAIN wants THEN wants[f] ELSE "null"]

\* The body of the PUT.
Merged(wants, existing) ==
  [f \in Fields |-> IF f \in DOMAIN wants THEN wants[f] ELSE existing[f]]

\* listPlans, and the tool merges its arguments into what it read: it is
\* between two requests, and no replica's death hurts it.
GetPlans(c) ==
  /\ AtStep(c, "get plans")
  /\ IF call[c].plan \in Active
       THEN /\ call' = [call EXCEPT ![c].step = "put plan", ![c].on = "none",
                 ![c].wants = Merged(@, plans[call[c].plan].details)]
            /\ Asks(call[c].plan, call[c].wants)
       ELSE Ends(c) /\ UNCHANGED asked
  /\ UNCHANGED <<seedVars, calls, retired, moves>>

\* No replica serves: the tool's PUT is refused.
PutRefused(c) ==
  /\ AtStep(c, "put plan") /\ \A r \in Replicas : ~At(r, "serving")
  /\ Ends(c)
  /\ UNCHANGED <<seedVars, history>>

\* updatePlan: the whole row but `active`, of an inactive plan as well.
PutPlan(c) ==
  /\ AtStep(c, "put plan") /\ \E r \in Replicas : At(r, "serving")
  /\ plans' = [plans EXCEPT ![call[c].plan].details = call[c].wants]
  /\ Ends(c)
  /\ UNCHANGED <<customers, subs, boot, faults, history>>

\* deletePlan
DeletePlan(c) ==
  /\ AtStep(c, "delete plan")
  /\ LET p == call[c].plan IN
       IF p \in DOMAIN plans
         THEN /\ plans' = [plans EXCEPT ![p].active = FALSE]
              /\ retired' = [retired EXCEPT ![p] = IF plans[p].active THEN calls ELSE @]
              /\ Ends(c)
         ELSE Ends(c) /\ UNCHANGED <<plans, retired>>
  /\ UNCHANGED <<customers, subs, boot, faults, calls, asked, moves>>

\* setSubscription and getSubscription, statement by statement:
\* customerExists, ...
CustomerExists(c) ==
  /\ AtStep(c, "exists")
  /\ IF call[c].customer \in customers
       THEN Goes(c, IF call[c].tool = "show" THEN "fetch" ELSE "check plan")
       ELSE Ends(c)
  /\ UNCHANGED <<seedVars, history>>

\* Mutant of CheckPlan: any plan there is will do.
CheckPlanExists(c) ==
  /\ AtStep(c, "check plan")
  /\ IF call[c].plan \in DOMAIN plans THEN Goes(c, "upsert") ELSE Ends(c)
  /\ UNCHANGED <<seedVars, history>>

CheckPlan(c) ==
  /\ AtStep(c, "check plan")
  /\ IF call[c].plan \in Active THEN Goes(c, "upsert") ELSE Ends(c)
  /\ UNCHANGED <<seedVars, history>>

Move(c) == [customer |-> call[c].customer, plan |-> call[c].plan, born |-> call[c].born]

\* Mutant of Upsert: the answer is read before the row is written.
UpsertAfterFetch(c) ==
  /\ AtStep(c, "upsert")
  /\ subs' = Put(subs, call[c].customer, call[c].plan)
  /\ moves' = Append(moves, Move(c))
  /\ call' = [call EXCEPT ![c].step = "done", ![c].moved = Len(moves'),
       ![c].shown = IF call[c].customer \in DOMAIN subs THEN subs[call[c].customer]
                                                        ELSE call[c].plan]
  /\ UNCHANGED <<plans, customers, boot, faults, calls, asked, retired>>

Upsert(c) ==
  /\ AtStep(c, "upsert")
  /\ subs' = Put(subs, call[c].customer, call[c].plan)
  /\ moves' = Append(moves, Move(c))
  /\ call' = [call EXCEPT ![c].step = "fetch", ![c].moved = Len(moves')]
  /\ UNCHANGED <<plans, customers, boot, faults, calls, asked, retired>>

\* fetchSubscription: a customer without a subscription is an error.
Fetch(c) ==
  /\ AtStep(c, "fetch")
  /\ IF call[c].customer \in DOMAIN subs
       THEN call' = [call EXCEPT ![c] =
              [Idle EXCEPT !.customer = call[c].customer, !.moved = call[c].moved,
                           !.shown = subs[call[c].customer]]]
       ELSE Ends(c)
  /\ UNCHANGED <<seedVars, history>>

\* A statement fails, its answer is lost, or the tool's 15 s are over and
\* the handler's context is cancelled.
CallFails(c) ==
  /\ ~AtStep(c, "done") /\ faults < MaxFaults /\ faults' = faults + 1
  /\ Ends(c)
  /\ UNCHANGED <<tables, boot, history>>

\* The platform runs a further replica.
ScaleUp(r) ==
  /\ At(r, "absent") /\ GoTo(r, "down", {})
  /\ calls < MaxCalls /\ calls' = calls + 1
  /\ UNCHANGED <<tables, faults, call, asked, retired, moves>>

\* With a replica its requests die, applied or not.
ReplicaCrash(r) ==
  /\ Crash(r)
  /\ call' = [c \in Callers |->
       IF call[c].on = r /\ ~AtStep(c, "done") THEN Idle ELSE call[c]]
  /\ UNCHANGED history

BootStep(r) ==
  /\ Boot(r) /\ UNCHANGED <<call, calls, retired, moves>>
  \* The demo data asks for its values.
  /\ asked' = asked \cup {<<p, f, SeedDetails[p][f]>> : p \in DOMAIN plans' \ DOMAIN plans,
                                                        f \in Fields}

CallStep(c) ==
  \/ CreatePlan(c) \/ GetPlans(c) \/ PutRefused(c) \/ PutPlan(c) \/ DeletePlan(c)
  \/ CustomerExists(c) \/ CheckPlan(c) \/ Upsert(c) \/ Fetch(c)

Next ==
  \/ \E r \in Replicas : ScaleUp(r) \/ BootStep(r) \/ ReplicaCrash(r)
  \/ \E c \in Callers : CallStep(c) \/ CallFails(c)
  \/ \E c \in Callers, r \in Replicas, request \in Requests : Begin(c, r, request)

Spec == Init /\ [][Next]_vars

\* The platform starts a replica again and again, and a starting replica
\* waits for nobody.
FairSpec == Spec /\ \A r \in Replicas : WF_vars(BootStep(r))

-----------------------------------------------------------------------------
(***************************************************************************)
(* Every field of a plan was asked for, by the demo data, a create or an   *)
(* update of that plan: a PUT of the whole row blanks nothing, even when   *)
(* the catalog changes between the tool's GET and its PUT.                 *)
(***************************************************************************)
ValuesAsked ==
  \A p \in DOMAIN plans, f \in Fields : <<p, f, plans[p].details[f]>> \in asked

(***************************************************************************)
(* A plan withdrawn from the catalog never comes back, also not by the PUT *)
(* of a tool that read it before.                                          *)
(***************************************************************************)
WithdrawnForGood ==
  [][\A p \in DOMAIN plans : ~plans[p].active => p \in DOMAIN plans' /\ ~plans'[p].active]_vars

(***************************************************************************)
(* A customer is moved to a withdrawn plan only by a request that was      *)
(* already running when the plan was withdrawn.                            *)
(***************************************************************************)
NoMoveToWithdrawn == \A i \in 1..Len(moves) : moves[i].born <= retired[moves[i].plan]

(***************************************************************************)
(* A plan that is shown was in force when it was read: for a change that   *)
(* is the caller's or a later one, for a question the plan there was when  *)
(* it was asked or a later one.                                            *)
(***************************************************************************)
InForce(customer, n) ==
  LET of == {i \in 1..n : moves[i].customer = customer}
  IN  IF of = {} THEN SeedPlanOf[customer]
      ELSE moves[CHOOSE i \in of : \A j \in of : j <= i].plan

AnswerInForce ==
  \A c \in Callers : call[c].shown # "none" =>
    \E n \in call[c].moved..Len(moves) : call[c].shown = InForce(call[c].customer, n)

(***************************************************************************)
(* A replica that starts adds demo rows, and takes back nothing of what    *)
(* callers of another replica have changed meanwhile.                      *)
(***************************************************************************)
StartOnlyAdds ==
  [][boot' # boot =>
       /\ \A p \in DOMAIN plans : p \in DOMAIN plans' /\ plans'[p] = plans[p]
       /\ \A c \in DOMAIN subs : c \in DOMAIN subs' /\ subs'[c] = subs[c]
       /\ customers \subseteq customers']_vars

(***************************************************************************)
(* Whatever a crash or another replica leaves half seeded, every replica   *)
(* there is serves in the end.                                             *)
(***************************************************************************)
EventuallyServes ==
  \A r \in Replicas : <>[](At(r, "absent") \/ At(r, "serving"))

(***************************************************************************)
(* "Safe to restart": once a replica serves, every demo customer has a     *)
(* subscription.                                                           *)
(***************************************************************************)
SeededBeforeServing ==
  (\E r \in Replicas : At(r, "serving")) =>
    \A c \in IdsOf(SeedCustomers) : c \in DOMAIN subs
=============================================================================

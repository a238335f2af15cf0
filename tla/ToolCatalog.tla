---------------------------- MODULE ToolCatalog ----------------------------
(***************************************************************************)
(* chat-agent's tool catalog, `tools.py`: which tools a role gets, which   *)
(* calls the audit flag marks, which customer a call is reported to        *)
(* concern, and which calls really change an account, a plan or a report.  *)
(*                                                                         *)
(* A call is a record of the arguments that matter here: the tool's name,  *)
(* the action of the two tools that have one, the customer id and the      *)
(* report id, NoCustomer and NoReport where the tool or the model omits    *)
(* the argument.                                                           *)
(***************************************************************************)
CONSTANTS
  Customers,
  Reports,       \* ids of service reports
  ReportOwner,   \* the customer each report was filed for
  NoCustomer,    \* no customer_id argument
  NoReport       \* no report_id argument

ASSUME OwnerAssumption == ReportOwner \in [Reports -> Customers]
ASSUME AbsentAssumption == NoCustomer \notin Customers /\ NoReport \notin Reports

Roles == {"customer", "employee"}

\* ToolContext: the role, the JWT subject and the resolved target.
CustomerTools ==
  {"get_my_subscription", "list_available_plans", "change_my_subscription",
   "get_my_usage", "report_service_issue"}

EmployeeTools ==
  {"lookup_customer", "get_customer_account", "change_customer_subscription",
   "manage_plan_catalog", "manage_service_reports"}

\* Mutant of BuildTools: every tool is bound and the prompt does the rest.
BuildAllTools(role) == CustomerTools \cup EmployeeTools

BuildTools(role) == IF role = "customer" THEN CustomerTools ELSE EmployeeTools

\* The tools whose customer is an argument of theirs.
CustomerIdArgTools == {"get_customer_account", "change_customer_subscription"}

\* The calls a model can make, by the tools' argument schemas, and those
\* without the customer id a schema asks for.
PlanActions == {"list", "create", "update", "deactivate"}

AllCalls ==
  [name : CustomerTools \cup {"lookup_customer"}, action : {"none"},
   customer : {NoCustomer}, report : {NoReport}]
  \cup [name : CustomerIdArgTools, action : {"none"},
        customer : Customers \cup {NoCustomer}, report : {NoReport}]
  \cup [name : {"manage_plan_catalog"}, action : PlanActions,
        customer : {NoCustomer}, report : {NoReport}]
  \cup [name : {"manage_service_reports"}, action : {"list", "update"},
        customer : Customers \cup {NoCustomer}, report : Reports \cup {NoReport}]

Calls(role) == {call \in AllCalls : call.name \in BuildTools(role)}

StaticAudit ==
  {"change_my_subscription", "report_service_issue", "change_customer_subscription"}

ComputeAudit(call) ==
  \/ call.name \in {"manage_plan_catalog", "manage_service_reports"} /\ call.action # "list"
  \/ call.name \in StaticAudit

\* The schema accepts the arguments, and the body is run.
ValidArgs(call) == call.name \in CustomerIdArgTools => call.customer # NoCustomer

\* Mutant of ComputeTarget: an omitted customer_id is passed on.
TargetFromArgs(call, target) ==
  IF call.name \in CustomerIdArgTools \cup {"manage_service_reports"}
    THEN call.customer
    ELSE target

\* Mutant of ComputeTarget: a call is about the customer of the turn.
TargetOfTurn(call, target) == target

\* compute_target_customer_id
ComputeTarget(call, target) ==
  IF \/ call.name \in CustomerIdArgTools
     \/ call.name = "manage_service_reports" /\ call.customer # NoCustomer
    THEN call.customer
    ELSE target

\* The tool bodies: whether a call sends a request that changes a backend.
\* An update without a report id is answered by the tool itself; a create
\* without arguments, or an update of an unknown plan, may be too.
Mutates(call) ==
  \/ call.name \in StaticAudit /\ ValidArgs(call)
  \/ call.name = "manage_plan_catalog" /\ call.action # "list"
  \/ call.name = "manage_service_reports" /\ call.action = "update" /\ call.report # NoReport

\* The customer whose data the request is about, by its URL or its body.
Affected(call, target) ==
  IF call.name \in CustomerIdArgTools THEN call.customer
  ELSE IF call.name = "manage_service_reports" /\ call.action = "update"
          /\ call.report # NoReport
    THEN ReportOwner[call.report]
    ELSE target
=============================================================================

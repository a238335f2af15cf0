----------------------- MODULE MCSubscriptionService -----------------------
(* Small instances of SubscriptionService. *)
EXTENDS SubscriptionService
TwoPlans == <<"basic", "family">>
TwoCustomers == <<"cust1", "cust2">>
Cheap == [name |-> "plain", price |-> "low"]
Dear == [name |-> "plain", price |-> "high"]
DetailsOf == [p \in Plans |-> IF p = "basic" THEN Cheap ELSE Dear]
PlanOf == [c \in Customers |-> IF c = "cust2" THEN "family" ELSE "basic"]
OneNewPlan == {Cheap}
Reprice == [price |-> "high"]
OneEdit == {Reprice}
=============================================================================

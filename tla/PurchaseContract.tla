--------------------------- MODULE PurchaseContract ---------------------------
(***************************************************************************)
(* What buying tickets promises, per payment: tickets are credited at most *)
(* once and only for money PayApp has taken, they are revoked only after   *)
(* the money went back, and a revoked credit is never given again.         *)
(***************************************************************************)
CONSTANT Payments

VARIABLES
    money,      \* what PayApp holds of the customer's money
    credit      \* the tickets issued for the payment, as a whole

contractVars == <<money, credit>>

ContractInit ==
    /\ money = [p \in Payments |-> "none"]
    /\ credit = [p \in Payments |-> "none"]

Take(p) ==
    /\ money[p] = "none"
    /\ money' = [money EXCEPT ![p] = "taken"]
    /\ UNCHANGED credit

Return(p) ==
    /\ money[p] = "taken"
    /\ money' = [money EXCEPT ![p] = "returned"]
    /\ UNCHANGED credit

Credit(p) ==
    /\ money[p] = "taken"
    /\ credit[p] = "none"
    /\ credit' = [credit EXCEPT ![p] = "credited"]
    /\ UNCHANGED money

Revoke(p) ==
    /\ money[p] = "returned"
    /\ credit[p] = "credited"
    /\ credit' = [credit EXCEPT ![p] = "revoked"]
    /\ UNCHANGED money

ContractNext == \E p \in Payments : Take(p) \/ Return(p) \/ Credit(p) \/ Revoke(p)

ContractSpec == ContractInit /\ [][ContractNext]_contractVars
=============================================================================

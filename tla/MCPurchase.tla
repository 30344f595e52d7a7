------------------------------ MODULE MCPurchase ------------------------------
(* Small instances of Purchase for TLC. *)
EXTENDS Purchase, TLC

MCUntil == [s \in Sources |-> Never]
Symmetry == Permutations(Tickets) \cup Permutations(Payments)
        \cup Permutations(Webhooks) \cup Permutations(Cancels) \cup Permutations(Requests)
=============================================================================

--------------------------- MODULE MCTicketLedger ---------------------------
(* Small pools for TLC: a feedback event, rewarded again and again with     *)
(* tickets that never lapse, and one weekly grant, whose tickets lapse at   *)
(* time 1.                                                                  *)
EXTENDS TicketLedger, TLC

CONSTANTS feedback, weekly

MCUntil == (feedback :> Never) @@ (weekly :> 1)
Symmetry == Permutations(Tickets) \cup Permutations(Requests)
=============================================================================

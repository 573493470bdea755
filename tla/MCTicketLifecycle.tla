------------------------- MODULE MCTicketLifecycle --------------------------
(***************************************************************************)
(* Instances of TicketLifecycle for TLC.                                   *)
(***************************************************************************)
EXTENDS TicketLifecycle, TLC

TicketSymmetry == Permutations(Tickets) \cup Permutations(Activators)
=============================================================================

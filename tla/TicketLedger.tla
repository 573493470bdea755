---------------------------- MODULE TicketLedger ----------------------------
(***************************************************************************)
(* What the tickets API promises about its table and the router, whatever  *)
(* the interleaving of the requests, and whatever becomes of their calls:  *)
(*                                                                         *)
(*   - a hotspot user is created for a ticket that has been generated, at  *)
(*     most one for each activation, under a name no other user has;       *)
(*   - a ticket becomes active, again or after a cancellation included,    *)
(*     only in exchange for a user that is on the router for it and that   *)
(*     no ticket has been activated with before, whose .id it records, or  *)
(*     none if the router does not tell it;                                *)
(*   - a ticket that was deleted is neither activated nor cancelled.       *)
(*                                                                         *)
(* TicketLifecycle, visit by visit, is shown to implement it.              *)
(***************************************************************************)
CONSTANTS
  Tickets,
  Activators, \* activations, and the RouterOS .id of the user each may create
  Names,      \* usernames that may be asked for
  Null

VARIABLES
  status,      \* Ticket.status; "none" before generation, "deleted" after DELETE
  mk_user_id,  \* Ticket.mk_user_id; Null when it is blank
  users,       \* the hotspot users of the router
  unrecorded   \* those that no ticket has been activated with

vars == <<status, mk_user_id, users, unrecorded>>

HotspotUser == [name : Tickets \cup Names, ticket : Tickets, id : Activators]
Stored(k) == status[k] \notin {"none", "deleted"}

Init ==
  /\ status = [k \in Tickets |-> "none"]
  /\ mk_user_id = [k \in Tickets |-> Null]
  /\ users = {}
  /\ unrecorded = {}

Generate(batch) ==
  /\ \A k \in batch : status[k] = "none"
  /\ status' = [k \in Tickets |-> IF k \in batch THEN "pending" ELSE status[k]]
  /\ UNCHANGED <<mk_user_id, users, unrecorded>>

\* The router creates u for its ticket, which may have gone by now.
Grant(u) ==
  /\ status[u.ticket] # "none"
  /\ \A v \in users : v.name # u.name /\ v.id # u.id
  /\ users' = users \cup {u}
  /\ unrecorded' = unrecorded \cup {u}
  /\ UNCHANGED <<status, mk_user_id>>

Activate(u) ==
  /\ u \in unrecorded
  /\ Stored(u.ticket)
  /\ status' = [status EXCEPT ![u.ticket] = "active"]
  /\ \E told \in {u.id, Null} : mk_user_id' = [mk_user_id EXCEPT ![u.ticket] = told]
  /\ unrecorded' = unrecorded \ {u}
  /\ UNCHANGED users

Cancel(k) ==
  /\ Stored(k)
  /\ status' = [status EXCEPT ![k] = "cancelled"]
  /\ UNCHANGED <<mk_user_id, users, unrecorded>>

Delete(k) ==
  /\ status[k] # "none"
  /\ status' = [status EXCEPT ![k] = "deleted"]
  /\ UNCHANGED <<mk_user_id, users, unrecorded>>

Next ==
  \/ \E batch \in SUBSET Tickets : Generate(batch)
  \/ \E u \in HotspotUser : Grant(u)
  \/ \E u \in unrecorded : Activate(u)
  \/ \E k \in Tickets : Cancel(k) \/ Delete(k)

Spec == Init /\ [][Next]_vars
=============================================================================

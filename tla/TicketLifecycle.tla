--------------------------- MODULE TicketLifecycle --------------------------
(***************************************************************************)
(* The life of a WiFi ticket: POST /api/tickets/generate/, .../activate/,  *)
(* .../cancel/ and DELETE (apps/tickets), with the hotspot users that      *)
(* activations create on a MikroTik router over HTTP (services/mikrotik).  *)
(* All tickets are of one router, on which only tickets create users.      *)
(*                                                                         *)
(* A request is a process: one handler, whose actions are its visits to    *)
(* the database and its exchange with the router.  What it sends to the    *)
(* router may be applied before its timeout, after it, or never, and the   *)
(* answer may be lost.  RouterOS keeps the names of hotspot users unique.  *)
(* A readable answer without an error status is taken to come from it once *)
(* it has created the user; the answer may lack the .id.                   *)
(*                                                                         *)
(* Durations, profiles, comments and dates are left out.  A hotspot user   *)
(* is identified by the activation that asked for it (its RouterOS .id),   *)
(* and the name derived from a ticket's code is the ticket itself.         *)
(***************************************************************************)
EXTENDS Naturals, FiniteSets

CONSTANTS
  Tickets,     \* codes
  Generators,  \* requests POST /api/tickets/generate/
  Activators,  \* requests POST /api/tickets/{id}/activate/
  Cancellers,  \* requests POST /api/tickets/{id}/cancel/
  Destroyers,  \* requests DELETE /api/tickets/{id}/
  Names,       \* usernames an activation may ask for, names of tickets included
  Null

Loaders == Activators \cup Cancellers \cup Destroyers
Requests == Generators \cup Loaders
HotspotUser == [name : Tickets \cup Names, ticket : Tickets, id : Activators]

ASSUME RequestsDisjoint ==
  /\ Generators \cap Loaders = {}
  /\ Activators \cap Cancellers = {}
  /\ Activators \cap Destroyers = {}
  /\ Cancellers \cap Destroyers = {}

ASSUME NullAssumption == Null \notin Requests \cup Tickets \cup Names

VARIABLES
  status,      \* Ticket.status; "none" before generation, "deleted" after DELETE
  mk_user_id,  \* Ticket.mk_user_id; Null when it is blank
  users,       \* the hotspot users of the router
  sent,        \* activations whose POST to the router is on its way
  answer,      \* the router's answer to each activation, "none" before it
  pc,          \* where each request stands
  ticket,      \* the Ticket a request loaded
  name         \* the username an activation sends

vars == <<status, mk_user_id, users, sent, answer, pc, ticket, name>>

TypeOK ==
  /\ status \in [Tickets -> {"none", "pending", "active", "cancelled", "deleted"}]
  /\ mk_user_id \in [Tickets -> Activators \cup {Null}]
  /\ users \subseteq HotspotUser
  /\ sent \subseteq Activators
  /\ answer \in [Activators -> {"none", "created", "unnamed", "refused"}]
  /\ pc \in [Requests -> {"idle", "router", "save", "cancel", "delete", "done",
                          "failed", "crashed"}]
  /\ ticket \in [Loaders -> Tickets \cup {Null}]
  /\ name \in [Activators -> Tickets \cup Names \cup {Null}]

Init ==
  /\ status = [k \in Tickets |-> "none"]
  /\ mk_user_id = [k \in Tickets |-> Null]
  /\ users = {}
  /\ sent = {}
  /\ answer = [p \in Activators |-> "none"]
  /\ pc = [p \in Requests |-> "idle"]
  /\ ticket = [p \in Loaders |-> Null]
  /\ name = [p \in Activators |-> Null]

-----------------------------------------------------------------------------

Stored(k) == status[k] \notin {"none", "deleted"}

InFlight == {p \in Requests : pc[p] \notin {"idle", "done", "failed", "crashed"}}

Step(p, from, to) == pc[p] = from /\ pc' = [pc EXCEPT ![p] = to]

\* get_object
Load(p, k, to) ==
  /\ Stored(k)
  /\ Step(p, "idle", to)
  /\ ticket' = [ticket EXCEPT ![p] = k]

\* generate_tickets: one bulk_create, all or nothing.  POST /api/tickets/, which
\* the view set inherits, is the batch of one.
Generate(p, batch) ==
  /\ batch # {}
  /\ \A k \in batch : status[k] = "none"
  /\ Step(p, "idle", "done")
  /\ status' = [k \in Tickets |-> IF k \in batch THEN "pending" ELSE status[k]]
  /\ UNCHANGED <<mk_user_id, users, sent, answer, ticket, name>>

-----------------------------------------------------------------------------
(* activate_ticket *)

\* Mutant: an absent username is not replaced.
HotspotNameAsAsked(k, asked) == asked

\* "username or the first 12 hexadecimal digits of the code"
HotspotName(k, asked) == IF asked = Null THEN k ELSE asked

\* The status is checked on the object get_object returned, then the router
\* is called.
ActivateLoad(p, k, asked) ==
  /\ Load(p, k, IF status[k] = "pending" THEN "router" ELSE "failed")
  /\ name' = [name EXCEPT ![p] = HotspotName(k, asked)]
  /\ sent' = IF status[k] = "pending" THEN sent \cup {p} ELSE sent
  /\ UNCHANGED <<status, mk_user_id, users, answer>>

\* Mutant: RouterOS lets names repeat.
NeverTaken(p) == FALSE

NameTaken(p) == \E u \in users : u.name = name[p]

NewUser(p) == [name |-> name[p], ticket |-> ticket[p], id |-> p]

\* The router creates the user, and tells its .id or not, or refuses a name that is
\* taken.
RouterApplies(p) ==
  /\ p \in sent
  /\ sent' = sent \ {p}
  /\ users' = IF NameTaken(p) THEN users ELSE users \cup {NewUser(p)}
  /\ \E what \in IF NameTaken(p) THEN {"refused"} ELSE {"created", "unnamed"} :
       answer' = [answer EXCEPT ![p] = what]
  /\ UNCHANGED <<status, mk_user_id, pc, ticket, name>>

\* The POST never arrives.
RouterMisses(p) ==
  /\ p \in sent
  /\ sent' = sent \ {p}
  /\ UNCHANGED <<status, mk_user_id, users, answer, pc, ticket, name>>

\* Mutant: an error status is taken for an answer.
AnswerReceivedUnchecked(p) ==
  /\ answer[p] # "none"
  /\ Step(p, "router", "save")
  /\ UNCHANGED <<status, mk_user_id, users, sent, answer, ticket, name>>

\* MikroTikClient._request returns, or raises for the router's error status.
AnswerReceived(p) ==
  /\ answer[p] # "none"
  /\ Step(p, "router", IF answer[p] = "refused" THEN "failed" ELSE "save")
  /\ UNCHANGED <<status, mk_user_id, users, sent, answer, ticket, name>>

\* Mutant: the call has no timeout.
NoTimeout(p) ==
  /\ answer[p] = "refused"
  /\ Step(p, "router", "failed")
  /\ UNCHANGED <<status, mk_user_id, users, sent, answer, ticket, name>>

\* It raises on a connection error, a timeout or an unreadable answer,
\* whatever the router has done or will do.
RequestFails(p) ==
  /\ Step(p, "router", "failed")
  /\ UNCHANGED <<status, mk_user_id, users, sent, answer, ticket, name>>

\* result.get(".id", "")
ReportedId(p) == IF answer[p] = "created" THEN p ELSE Null

\* Mutant: save() without update_fields inserts a missing row.
ActivateSavesRow(p) ==
  /\ Step(p, "save", "done")
  /\ status' = [status EXCEPT ![ticket[p]] = "active"]
  /\ mk_user_id' = [mk_user_id EXCEPT ![ticket[p]] = ReportedId(p)]
  /\ UNCHANGED <<users, sent, answer, ticket, name>>

\* save(update_fields=...) updates the row, and fails if there is none.
ActivateSave(p) ==
  /\ Step(p, "save", IF Stored(ticket[p]) THEN "done" ELSE "failed")
  /\ IF Stored(ticket[p])
     THEN /\ status' = [status EXCEPT ![ticket[p]] = "active"]
          /\ mk_user_id' = [mk_user_id EXCEPT ![ticket[p]] = ReportedId(p)]
     ELSE UNCHANGED <<status, mk_user_id>>
  /\ UNCHANGED <<users, sent, answer, ticket, name>>

-----------------------------------------------------------------------------
(* cancel and destroy *)

CancelLoad(p, k) ==
  /\ Load(p, k, IF status[k] = "pending" THEN "cancel" ELSE "failed")
  /\ UNCHANGED <<status, mk_user_id, users, sent, answer, name>>

CancelSave(p) ==
  /\ Step(p, "cancel", IF Stored(ticket[p]) THEN "done" ELSE "failed")
  /\ status' = IF Stored(ticket[p])
               THEN [status EXCEPT ![ticket[p]] = "cancelled"] ELSE status
  /\ UNCHANGED <<mk_user_id, users, sent, answer, ticket, name>>

DestroyLoad(p, k) ==
  /\ Load(p, k, "delete")
  /\ UNCHANGED <<status, mk_user_id, users, sent, answer, name>>

\* The row goes; the hotspot user stays on the router.
DestroyDelete(p) ==
  /\ Step(p, "delete", "done")
  /\ status' = [status EXCEPT ![ticket[p]] = "deleted"]
  /\ UNCHANGED <<mk_user_id, users, sent, answer, ticket, name>>

\* The worker that serves p dies.
Crash(p) ==
  /\ p \in InFlight
  /\ pc' = [pc EXCEPT ![p] = "crashed"]
  /\ UNCHANGED <<status, mk_user_id, users, sent, answer, ticket, name>>

-----------------------------------------------------------------------------

\* What the thread serving p may do next.
ActivateServe(p) == AnswerReceived(p) \/ RequestFails(p) \/ ActivateSave(p)
Network(p) == RouterApplies(p) \/ RouterMisses(p)

Next ==
  \/ \E p \in Generators, batch \in SUBSET Tickets : Generate(p, batch)
  \/ \E p \in Activators :
       \/ ActivateServe(p)
       \/ Network(p)
       \/ \E k \in Tickets, asked \in Names \cup {Null} : ActivateLoad(p, k, asked)
  \/ \E p \in Cancellers : CancelSave(p) \/ \E k \in Tickets : CancelLoad(p, k)
  \/ \E p \in Destroyers : DestroyDelete(p) \/ \E k \in Tickets : DestroyLoad(p, k)
  \/ \E p \in Requests : Crash(p)

Spec == Init /\ [][Next]_vars

\* Threads go on when they can.  Nothing is asked of the router or the network.
FairSpec ==
  /\ Spec
  /\ \A p \in Activators : WF_vars(ActivateServe(p))
  /\ \A p \in Cancellers : WF_vars(CancelSave(p))
  /\ \A p \in Destroyers : WF_vars(DestroyDelete(p))

-----------------------------------------------------------------------------
(* Properties *)

\* A ticket shown as active can be used: a hotspot user was made for it on the
\* router, and the .id it records, if any, is that of such a user and of no other
\* ticket's, whatever activations raced for it, and whichever of them found the name
\* taken, timed out or died.  An answer without .id leaves the record blank.
ActiveTicketHasItsUser ==
  \A k \in Tickets :
    status[k] = "active" =>
      \E u \in users : u.ticket = k /\ mk_user_id[k] \in {u.id, Null}

\* A ticket for which no activation asked a username of its own gives access
\* once, whatever is asked for other tickets: the name derived from its code
\* stops repeated and concurrent activations, those sent again after a lost
\* answer included.
OneUserPerTicket ==
  \A u, v \in users :
    /\ u.ticket = v.ticket
    /\ \A p \in Activators : ticket[p] = u.ticket => name[p] = u.ticket
    => u = v

\* A deleted ticket does not come back when a request that had loaded it saves.
DeletedStaysDeleted ==
  [][\A k \in Tickets : status[k] = "deleted" => status'[k] = "deleted"]_vars

\* Users of the router whose activation has not been saved: it is under way,
\* failed, died, or found its ticket gone.
Unrecorded == {u \in users : pc[u.id] # "done"}

Ledger == INSTANCE TicketLedger WITH unrecorded <- Unrecorded

\* Visit by visit, and whatever becomes of the calls to the router, the requests do
\* to the tickets and to the router's users what TicketLedger promises.
ImplementsLedger == Ledger!Spec

\* Every request that reached a thread is answered, or its worker dies, even if
\* the router never answers.
EveryRequestIsAnswered ==
  \A p \in Requests : p \in InFlight ~> p \notin InFlight

-----------------------------------------------------------------------------
(* The inductive invariant behind the safety properties *)

\* What an activation holds from the moment it is sent.
ActivatorControl(p) ==
  /\ pc[p] = "idle" => p \notin sent /\ answer[p] = "none"
  /\ pc[p] # "idle" => ticket[p] \in Tickets /\ name[p] \in Tickets \cup Names
  /\ p \in sent => answer[p] = "none"
  /\ answer[p] \in {"created", "unnamed"} =>
       \E u \in users : u.ticket = ticket[p] /\ u.id = p
  /\ pc[p] \in {"save", "done"} => answer[p] \in {"created", "unnamed"}
  /\ pc[p] \in {"idle", "router", "save", "done", "failed", "crashed"}

LoaderControl(p) ==
  pc[p] # "idle" => ticket[p] \in Tickets

\* Every user of the router bears a name of its own, the one its activation sent.
NamesAreUnique == \A u, v \in users : u.name = v.name => u = v
UsersAreAsAsked ==
  \A u \in users : pc[u.id] # "idle" /\ ticket[u.id] = u.ticket /\ name[u.id] = u.name

IInv ==
  /\ TypeOK
  /\ \A p \in Activators : ActivatorControl(p)
  /\ \A p \in Loaders : LoaderControl(p)
  /\ NamesAreUnique
  /\ UsersAreAsAsked
  /\ ActiveTicketHasItsUser

-----------------------------------------------------------------------------
(* Statements of the documentation that the code does not live up to *)

\* "Only tickets in PENDING status may be cancelled."
OnlyPendingIsCancelled ==
  [][\A k \in Tickets :
       status'[k] = "cancelled" => status[k] \in {"pending", "cancelled"}]_vars
=============================================================================

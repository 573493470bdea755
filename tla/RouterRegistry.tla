--------------------------- MODULE RouterRegistry ---------------------------
(***************************************************************************)
(* What the routers API promises about its two tables, Router and          *)
(* UserRouter, whatever the interleaving of the requests behind it:        *)
(*                                                                         *)
(*   - a registration appears at once, the router together with its        *)
(*     owner's membership, under an identifier no other row uses;          *)
(*   - a deletion is logical: it only clears is_active;                    *)
(*   - an edit replaces one row and keeps port and api_username unique;    *)
(*   - a row never disappears.                                             *)
(*                                                                         *)
(* RouterLifecycle, statement by statement, is shown to implement it.      *)
(***************************************************************************)
EXTENDS Integers

CONSTANTS
  Routers,      \* primary keys of Router
  Users,        \* accounts
  MinId, MaxId, \* range of the identifiers handed out (10001..15000)
  CustomNames,  \* api_usernames that are not of the form U<identifier>
  Null          \* no row

VARIABLES
  router,       \* the committed Router table
  user_router   \* the committed OWNER memberships, pairs <<user, router>>

Ids == MinId..MaxId
Usernames == Ids \cup CustomNames
RouterRow == [port : Nat, username : Usernames, is_active : BOOLEAN]

\* No router but r uses one of row's unique columns.
KeysFree(r, row) ==
  \A s \in Routers \ {r} :
    router[s] # Null => /\ router[s].port # row.port
                        /\ router[s].username # row.username

Init ==
  /\ router = [r \in Routers |-> Null]
  /\ user_router = {}

Register(r, u) ==
  /\ router[r] = Null
  /\ \E n \in Ids :
       LET row == [port |-> n, username |-> n, is_active |-> TRUE]
       IN  /\ KeysFree(r, row)
           /\ router' = [router EXCEPT ![r] = row]
  /\ user_router' = user_router \cup {<<u, r>>}

Deactivate(r) ==
  /\ router[r] # Null
  /\ router' = [router EXCEPT ![r].is_active = FALSE]
  /\ UNCHANGED user_router

Edit(r) ==
  /\ router[r] # Null
  /\ router'[r] \in RouterRow
  /\ KeysFree(r, router'[r])
  /\ router' = [router EXCEPT ![r] = router'[r]]
  /\ UNCHANGED user_router

Next ==
  \E r \in Routers :
    \/ \E u \in Users : Register(r, u)
    \/ Deactivate(r)
    \/ Edit(r)

Spec == Init /\ [][Next]_<<router, user_router>>
=============================================================================

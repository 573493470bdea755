--------------------------- MODULE RouterLifecycle --------------------------
(***************************************************************************)
(* The life of a router record: POST, PATCH/PUT and DELETE on              *)
(* /api/routers/ and POST .../generate-vpn-token/ (apps/routers), with the *)
(* FreeRADIUS credentials they provision and revoke (apps/radius).         *)
(*                                                                         *)
(* Every request is a process: a gunicorn thread running one handler.      *)
(* An action is a visit to a database with the code that leads to the next *)
(* one, so requests interleave as they do under PostgreSQL's READ          *)
(* COMMITTED; the SELECTs of one purpose (an object, its permission and    *)
(* its validators; the two columns of identifiers) are one visit.  The     *)
(* tables live on two connections, 'default' and 'radius': the transaction *)
(* that registers a router is open on the first while its credentials are  *)
(* committed on the second.                                                *)
(*                                                                         *)
(* Data that no property tells apart is left out (name, host, description, *)
(* api_password, RADIUS replies and groups, which routers never set).      *)
(* A generated RADIUS password is named by the request that generated it,  *)
(* and a new Router's primary key by the request that inserts it.          *)
(***************************************************************************)
EXTENDS Integers, FiniteSets

CONSTANTS
  Creators,     \* requests POST /api/routers/
  Updaters,     \* requests PUT or PATCH /api/routers/{id}/
  Deleters,     \* requests DELETE /api/routers/{id}/
  Tokeners,     \* requests POST /api/routers/{id}/generate-vpn-token/
  Users,        \* authenticated accounts
  Staff,        \* accounts with is_staff
  Pro,          \* other accounts without a limit: pro plan, is_superuser
  PlanLimit,    \* active routers a free account may own (3)
  Workers,      \* threads that serve requests (2 workers of 2 threads)
  PortBase,     \* client_id = port - PortBase (10000)
  MinId, MaxId, \* identifiers handed out (10001..15000)
  CustomNames,  \* api_usernames not of the form U<identifier>
  Patches,      \* bodies of updates: a field that is Null is not submitted
  Null

Routers == Creators
Loaders == Updaters \cup Deleters \cup Tokeners
Requests == Creators \cup Loaders
Ids == MinId..MaxId
Usernames == Ids \cup CustomNames
RouterRow == [port : Nat, username : Usernames, is_active : BOOLEAN]
RadCheckRow == [username : Usernames, password : Requests, client_id : Nat]
ScriptToken == [router : Routers, username : Usernames, password : Requests]
Patch == [port : Nat \cup {Null}, username : Usernames \cup {Null},
          is_active : BOOLEAN \cup {Null}]

ASSUME RequestsDisjoint ==
  /\ Creators \cap Loaders = {}
  /\ Updaters \cap Deleters = {}
  /\ Updaters \cap Tokeners = {}
  /\ Deleters \cap Tokeners = {}

ASSUME ConstantsAssumption ==
  /\ Staff \subseteq Users /\ Pro \subseteq Users
  /\ PlanLimit \in Nat \ {0} /\ Workers \in Nat \ {0}
  /\ PortBase \in Nat /\ MinId \in Nat /\ MaxId \in Nat
  /\ PortBase < MinId
  /\ Patches \subseteq Patch

ASSUME NullAssumption ==
  /\ Null \notin Nat \cup Usernames \cup BOOLEAN
  /\ Null \notin Requests \cup Users
  /\ Null \notin RouterRow \cup ScriptToken

VARIABLES
  router,       \* Router, committed rows: primary key -> row or Null
  user_router,  \* UserRouter, committed: pairs <<owner, router>>
  radcheck,     \* radcheck, committed: the Cleartext-Password rows
  token,        \* ScriptDownloadToken created by each token request, or Null
  pc,           \* where each request stands
  crashed,      \* requests whose worker died
  user,         \* request.user of a registration
  target,       \* the router a request loaded
  instance,     \* the Router object a request holds in memory
  doomed,       \* radcheck rows deleted by an open 'radius' transaction
  password      \* RADIUS password a token request is about to hand out

tables == <<router, user_router, radcheck, token>>
memory == <<user, target, instance, doomed, password>>
vars == <<tables, pc, crashed, memory>>

TypeOK ==
  /\ router \in [Routers -> RouterRow \cup {Null}]
  /\ user_router \subseteq Users \X Routers
  /\ radcheck \subseteq RadCheckRow
  /\ token \in [Tokeners -> ScriptToken \cup {Null}]
  /\ pc \in [Requests -> {"idle", "validate", "provision", "insert",
                          "radius_delete", "radius_insert", "commit", "purge",
                          "deactivate", "renumber", "save", "radius_read",
                          "create_token", "done", "failed"}]
  /\ crashed \subseteq Requests
  /\ user \in [Creators -> Users \cup {Null}]
  /\ target \in [Loaders -> Routers \cup {Null}]
  /\ instance \in [Requests -> RouterRow \cup {Null}]
  /\ doomed \in [Requests -> SUBSET RadCheckRow]
  /\ password \in [Tokeners -> Requests \cup {Null}]

Init ==
  /\ router = [r \in Routers |-> Null]
  /\ user_router = {}
  /\ radcheck = {}
  /\ token = [t \in Tokeners |-> Null]
  /\ pc = [p \in Requests |-> "idle"]
  /\ crashed = {}
  /\ user = [p \in Creators |-> Null]
  /\ target = [p \in Loaders |-> Null]
  /\ instance = [p \in Requests |-> Null]
  /\ doomed = [p \in Requests |-> {}]
  /\ password = [t \in Tokeners |-> Null]

-----------------------------------------------------------------------------
(* Requests and their threads *)

Exists(r) == router[r] # Null

\* Requests a thread is serving.
InFlight == {p \in Requests \ crashed : pc[p] \notin {"idle", "done", "failed"}}

\* p goes from one point of its handler to the next.
Step(p, from, to) ==
  /\ p \notin crashed
  /\ pc[p] = from
  /\ pc' = [pc EXCEPT ![p] = to]

\* A free thread picks p up.
Arrive(p, to) ==
  /\ Cardinality(InFlight) < Workers
  /\ Step(p, "idle", to)

-----------------------------------------------------------------------------
(* The plan limit and the identifiers *)

Owned(u) ==
  {r \in Routers : <<u, r>> \in user_router /\ Exists(r) /\ router[r].is_active}

\* Mutant: the router being added is not counted.
CanAddRouterOffByOne(u) ==
  u \in Staff \cup Pro \/ Cardinality(Owned(u)) <= PlanLimit

CanAddRouter(u) ==
  u \in Staff \cup Pro \/ Cardinality(Owned(u)) < PlanLimit

\* Both columns count, and so do inactive routers.
UsedIds ==
  Ids \cap UNION {{router[r].port, router[r].username} :
                    r \in {s \in Routers : Exists(s)}}

\* Mutant: the upper bound is off by one.
FreeIdsPastMax == (MinId..(MaxId + 1)) \ UsedIds

FreeIds == Ids \ UsedIds

NextIdentifier == CHOOSE i \in FreeIds : \A j \in FreeIds : i <= j

\* Mutant: api_username is not unique.
UniqueViolationOfPort(row, self) ==
  \E r \in Routers \ {self} : Exists(r) /\ router[r].port = row.port

\* A committed row other than self has row's port or api_username: the
\* statement fails with an IntegrityError.
UniqueViolation(row, self) ==
  \E r \in Routers \ {self} :
    /\ Exists(r)
    /\ router[r].port = row.port \/ router[r].username = row.username

\* Mutant: the locks of a dead worker are not released.
InsertingAfterDeath(p) ==
  p \in Creators /\ pc[p] \in {"radius_delete", "radius_insert", "commit"}

\* The transaction that inserts router p is open.
Inserting(p) ==
  p \in Creators \ crashed /\ pc[p] \in {"radius_delete", "radius_insert", "commit"}

\* Mutant: uniqueness is checked on committed rows alone.
NeverKeyLocked(row, self) == FALSE

\* An open transaction has inserted one of the keys: the statement waits.
KeyLocked(row, self) ==
  \E p \in Creators \ {self} :
    /\ Inserting(p)
    /\ instance[p].port = row.port \/ instance[p].username = row.username

-----------------------------------------------------------------------------
(* FreeRADIUS *)

Credentials(name) == {k \in radcheck : k.username = name}

\* Mutants: add_user leaves the old rows, or deletes those of every name.
RadiusDeleteNothing(p) ==
  /\ Step(p, "radius_delete", "radius_insert")
  /\ UNCHANGED <<tables, crashed, memory>>
RadiusDeleteAll(p) ==
  /\ Step(p, "radius_delete", "radius_insert")
  /\ doomed' = [doomed EXCEPT ![p] = radcheck]
  /\ UNCHANGED <<tables, crashed, user, target, instance, password>>

\* RadiusService.add_user is a transaction of its own: what its DELETE saw
\* is gone, and the new row is there, when it commits.
RadiusDelete(p) ==
  /\ Step(p, "radius_delete", "radius_insert")
  /\ doomed' = [doomed EXCEPT ![p] = Credentials(instance[p].username)]
  /\ UNCHANGED <<tables, crashed, user, target, instance, password>>

ClientId(row) == row.port - PortBase

NewCredential(p) ==
  [username |-> instance[p].username, password |-> p,
   client_id |-> ClientId(instance[p])]

\* Mutant: the new row is created first, and deleted with the old ones.
RadiusInsertThenDelete(p) ==
  /\ Step(p, "radius_insert", IF p \in Creators THEN "commit" ELSE "create_token")
  /\ radcheck' = radcheck \ Credentials(instance[p].username)
  /\ password' = [t \in Tokeners |-> IF t = p THEN p ELSE password[t]]
  /\ UNCHANGED <<router, user_router, token, crashed, user, target, instance, doomed>>

RadiusInsert(p) ==
  /\ Step(p, "radius_insert", IF p \in Creators THEN "commit" ELSE "create_token")
  /\ radcheck' = (radcheck \ doomed[p]) \cup {NewCredential(p)}
  /\ doomed' = [doomed EXCEPT ![p] = {}]
  /\ password' = [t \in Tokeners |-> IF t = p THEN p ELSE password[t]]
  /\ UNCHANGED <<router, user_router, token, crashed, user, target, instance>>

\* The 'radius' connection fails: add_user rolls back and the exception ends
\* the handler, and with it the transaction of a registration.
RadiusFails(p) ==
  /\ pc[p] \in {"radius_delete", "radius_insert"}
  /\ Step(p, pc[p], "failed")
  /\ doomed' = [doomed EXCEPT ![p] = {}]
  /\ UNCHANGED <<tables, crashed, user, target, instance, password>>

-----------------------------------------------------------------------------
(* POST /api/routers/ *)

\* RouterViewSet.create: the first reading of the plan limit.
CreateArrives(p, u) ==
  /\ Arrive(p, IF CanAddRouter(u) THEN "validate" ELSE "failed")
  /\ user' = [user EXCEPT ![p] = u]
  /\ UNCHANGED <<tables, crashed, target, instance, doomed, password>>

\* RouterCreateSerializer.validate: the second reading.
CreateValidate(p) ==
  /\ Step(p, "validate", IF CanAddRouter(user[p]) THEN "provision" ELSE "failed")
  /\ UNCHANGED <<tables, crashed, memory>>

\* provision_router_defaults, on what is committed.
CreateProvision(p) ==
  /\ Step(p, "provision", IF FreeIds = {} THEN "failed" ELSE "insert")
  /\ instance' = IF FreeIds = {} THEN instance ELSE
       [instance EXCEPT ![p] = [port |-> NextIdentifier,
                                username |-> NextIdentifier,
                                is_active |-> TRUE]]
  /\ UNCHANGED <<tables, crashed, user, target, doomed, password>>

\* Mutant: the INSERTs are committed one statement at a time.
CreateInsertAutocommits(p) ==
  /\ Step(p, "insert", IF UniqueViolation(instance[p], p)
                       THEN "failed" ELSE "radius_delete")
  /\ ~KeyLocked(instance[p], p)
  /\ IF UniqueViolation(instance[p], p)
     THEN UNCHANGED <<router, user_router>>
     ELSE /\ router' = [router EXCEPT ![p] = instance[p]]
          /\ user_router' = user_router \cup {<<user[p], p>>}
  /\ UNCHANGED <<radcheck, token, crashed, memory>>

\* The INSERTs of the Router and of its owner's UserRouter, uncommitted.
CreateInsert(p) ==
  /\ Step(p, "insert", IF UniqueViolation(instance[p], p)
                       THEN "failed" ELSE "radius_delete")
  /\ ~KeyLocked(instance[p], p)
  /\ UNCHANGED <<tables, crashed, memory>>

\* @transaction.atomic commits on 'default'.
CreateCommit(p) ==
  /\ Step(p, "commit", "done")
  /\ router' = [router EXCEPT ![p] = instance[p]]
  /\ user_router' = user_router \cup {<<user[p], p>>}
  /\ UNCHANGED <<radcheck, token, crashed, memory>>

-----------------------------------------------------------------------------
(* get_object: what the queryset shows u and the permission lets u act on *)

Visible(u, r) ==
  /\ Exists(r)
  /\ u \in Staff \/ (router[r].is_active /\ <<u, r>> \in user_router)

IsRouterOwner(u, r) == u \in Staff \/ <<u, r>> \in user_router

Load(p, u, r, to, row) ==
  /\ Visible(u, r)
  /\ Arrive(p, to)
  /\ target' = [target EXCEPT ![p] = r]
  /\ instance' = [instance EXCEPT ![p] = row]
  /\ UNCHANGED <<tables, crashed, user, doomed, password>>

-----------------------------------------------------------------------------
(* PUT, PATCH /api/routers/{id}/ *)

\* ModelSerializer.update sets the submitted fields on the loaded object.
Patched(row, patch) ==
  [port |-> IF patch.port = Null THEN row.port ELSE patch.port,
   username |-> IF patch.username = Null THEN row.username ELSE patch.username,
   is_active |-> IF patch.is_active = Null THEN row.is_active ELSE patch.is_active]

\* The serializer's UniqueValidators look at the submitted fields only.
Rejected(r, patch) ==
  \E s \in Routers \ {r} :
    /\ Exists(s)
    /\ router[s].port = patch.port \/ router[s].username = patch.username

\* Router.save gives a falsy port the next identifier.
AfterValidation(row) == IF row.port = 0 THEN "renumber" ELSE "save"

UpdateLoad(p, u, r, patch) ==
  /\ IsRouterOwner(u, r)
  /\ Load(p, u, r,
          IF Rejected(r, patch) THEN "failed"
          ELSE AfterValidation(Patched(router[r], patch)),
          Patched(router[r], patch))

UpdateRenumber(p) ==
  /\ Step(p, "renumber", IF FreeIds = {} THEN "failed" ELSE "save")
  /\ instance' = IF FreeIds = {} THEN instance
                 ELSE [instance EXCEPT ![p].port = NextIdentifier]
  /\ UNCHANGED <<tables, crashed, user, target, doomed, password>>

\* The columns Router.save() writes: all of them, from the object in memory.
Saved(stored, held) == held

UpdateSave(p) ==
  LET r == target[p] IN
  /\ Step(p, "save", IF UniqueViolation(instance[p], r) THEN "failed" ELSE "done")
  /\ ~KeyLocked(instance[p], r)
  /\ router' = IF UniqueViolation(instance[p], r) THEN router
               ELSE [router EXCEPT ![r] = Saved(router[r], instance[p])]
  /\ UNCHANGED <<user_router, radcheck, token, crashed, memory>>

-----------------------------------------------------------------------------
(* DELETE /api/routers/{id}/ *)

\* Only the owner may destroy, staff or not.
DeleteLoad(p, u, r) ==
  /\ <<u, r>> \in user_router
  /\ Load(p, u, r, "purge", router[r])

\* Router.soft_delete: revoke the credentials of the api_username in memory...
DeletePurge(p) ==
  /\ Step(p, "purge", "deactivate")
  /\ radcheck' = radcheck \ Credentials(instance[p].username)
  /\ UNCHANGED <<router, user_router, token, crashed, memory>>

\* ... swallow the exception if that fails ...
DeletePurgeFails(p) ==
  /\ Step(p, "purge", "deactivate")
  /\ UNCHANGED <<tables, crashed, memory>>

\* ... and write is_active alone.
DeleteDeactivate(p) ==
  /\ Step(p, "deactivate", "done")
  /\ router' = [router EXCEPT ![target[p]].is_active = FALSE]
  /\ UNCHANGED <<user_router, radcheck, token, crashed, memory>>

-----------------------------------------------------------------------------
(* POST /api/routers/{id}/generate-vpn-token/ *)

TokenLoad(p, u, r) ==
  /\ IsRouterOwner(u, r)
  /\ Load(p, u, r, "radius_read", router[r])

\* A stored password is handed out again...
TokenReads(p) ==
  /\ Step(p, "radius_read", "create_token")
  /\ \E k \in Credentials(instance[p].username) :
       password' = [password EXCEPT ![p] = k.password]
  /\ UNCHANGED <<tables, crashed, user, target, instance, doomed>>

\* ... a missing one is provisioned, unless the client_id would be negative.
TokenMisses(p) ==
  /\ Step(p, "radius_read", IF ClientId(instance[p]) < 0 THEN "failed"
                            ELSE "radius_delete")
  /\ Credentials(instance[p].username) = {}
  /\ UNCHANGED <<tables, crashed, memory>>

TokenCreate(p) ==
  /\ Step(p, "create_token", "done")
  /\ token' = [token EXCEPT ![p] = [router |-> target[p],
                                    username |-> instance[p].username,
                                    password |-> password[p]]]
  /\ UNCHANGED <<router, user_router, radcheck, crashed, memory>>

\* No active node or no template; a node without internal_ip, found out
\* once the credentials are provisioned.
TokenFails(p) ==
  /\ pc[p] \in {"radius_read", "create_token"}
  /\ Step(p, pc[p], "failed")
  /\ UNCHANGED <<tables, crashed, memory>>

-----------------------------------------------------------------------------
(* A worker dies: its connections are closed, open transactions rolled back *)

Crash(p) ==
  /\ p \in InFlight
  /\ crashed' = crashed \cup {p}
  /\ UNCHANGED <<tables, pc, memory>>

-----------------------------------------------------------------------------

\* What a thread serving p may do next.
RadiusServe(p) == RadiusDelete(p) \/ RadiusInsert(p) \/ RadiusFails(p)
CreateServe(p) ==
  \/ CreateValidate(p)
  \/ CreateProvision(p)
  \/ CreateInsert(p)
  \/ RadiusServe(p)
  \/ CreateCommit(p)
UpdateServe(p) == UpdateRenumber(p) \/ UpdateSave(p)
DeleteServe(p) == DeletePurge(p) \/ DeletePurgeFails(p) \/ DeleteDeactivate(p)
TokenServe(p) ==
  \/ TokenReads(p)
  \/ TokenMisses(p)
  \/ RadiusServe(p)
  \/ TokenCreate(p)
  \/ TokenFails(p)

Next ==
  \/ \E p \in Creators : CreateServe(p) \/ \E u \in Users : CreateArrives(p, u)
  \/ \E p \in Updaters :
       \/ UpdateServe(p)
       \/ \E u \in Users, r \in Routers, patch \in Patches : UpdateLoad(p, u, r, patch)
  \/ \E p \in Deleters :
       DeleteServe(p) \/ \E u \in Users, r \in Routers : DeleteLoad(p, u, r)
  \/ \E p \in Tokeners :
       TokenServe(p) \/ \E u \in Users, r \in Routers : TokenLoad(p, u, r)
  \/ \E p \in Requests : Crash(p)

Spec == Init /\ [][Next]_vars

\* A thread that can go on does: gunicorn schedules its threads, PostgreSQL
\* grants a lock once it is released.  Clients need not call, nothing need crash.
FairSpec ==
  /\ Spec
  /\ \A p \in Creators : WF_vars(CreateServe(p))
  /\ \A p \in Updaters : WF_vars(UpdateServe(p))
  /\ \A p \in Deleters : WF_vars(DeleteServe(p))
  /\ \A p \in Tokeners : WF_vars(TokenServe(p))

-----------------------------------------------------------------------------
(* Safety *)

\* No two rows share a port or an api_username, the rows of open transactions
\* included: two requests that computed the same next identifier, or one that
\* computed it while a PATCH took it, never both commit.
HoldsKeys(r) == Exists(r) \/ Inserting(r)
KeysOf(r) == IF Exists(r) THEN router[r] ELSE instance[r]
UniqueKeys ==
  \A r, s \in Routers :
    r # s /\ HoldsKeys(r) /\ HoldsKeys(s) =>
      /\ KeysOf(r).port # KeysOf(s).port
      /\ KeysOf(r).username # KeysOf(s).username

\* A registration that was not answered 201 left neither router nor membership,
\* whichever of the limit, the unique columns, RADIUS or the worker failed; one
\* that was has both.
RegistrationIsAtomic ==
  \A p \in Creators :
    IF pc[p] = "done"
    THEN Exists(p) /\ <<user[p], p>> \in user_router
    ELSE ~Exists(p) /\ \A u \in Users : <<u, p>> \notin user_router

\* A purge under that name has run, or been skipped because it failed.
Purged(name) ==
  \E d \in Deleters : /\ pc[d] \in {"deactivate", "done"}
                      /\ instance[d].username = name

\* An active router that kept its api_username has credentials in RADIUS,
\* unless a deletion purged that name: add_user's delete-then-insert, raced
\* by others and cut by crashes, never loses them.
ActiveRouterHasCredentials ==
  \A r \in Routers :
    /\ Exists(r)
    /\ router[r].is_active
    /\ router[r].username = instance[r].username
    => Credentials(router[r].username) # {} \/ Purged(router[r].username)

\* Password w was generated for router r.
GeneratedFor(w, r) == w = r \/ (w \in Tokeners /\ target[w] = r)

\* While no update touches port or api_username, what RADIUS stores under a
\* router's name was generated for that router and carries its client_id, also
\* after a registration that died between the two commits had left its own
\* credentials under that name; and so it is with what tokens hand out.
CredentialsMatchRouter ==
  /\ \A r \in Routers, k \in radcheck :
       Exists(r) /\ k.username = router[r].username =>
         GeneratedFor(k.password, r) /\ k.client_id = ClientId(router[r])
  /\ \A t \in Tokeners :
       token[t] # Null => GeneratedFor(token[t].password, token[t].router)

\* Both checks of the limit are read before the insert, so a free account can
\* exceed it, but by no more than the other threads that can be registering:
\* a create that passes the check finds at most PlanLimit - 1 routers, and at
\* most Workers requests are in flight.
OverLimitBoundedByThreads ==
  \A u \in Users \ (Staff \cup Pro) :
    Cardinality(Owned(u)) <= PlanLimit + Workers - 1

\* The tables change as the registry promises.
Registry == INSTANCE RouterRegistry WITH
  Routers <- Creators, Users <- Users, MinId <- MinId, MaxId <- MaxId,
  CustomNames <- CustomNames, Null <- Null, router <- router,
  user_router <- user_router
ImplementsRegistry == Registry!Spec

-----------------------------------------------------------------------------
(* The inductive invariant behind the safety properties *)

\* What a registration has gathered when it stands at a point of its handler.
CreatorControl(p) ==
  /\ pc[p] \in {"idle", "validate", "provision", "insert", "radius_delete",
                "radius_insert", "commit", "done", "failed"}
  /\ pc[p] \notin {"idle", "failed"} => user[p] \in Users
  /\ pc[p] \in {"insert", "radius_delete", "radius_insert", "commit", "done"} =>
       \E n \in Ids : instance[p] = [port |-> n, username |-> n, is_active |-> TRUE]

\* The same for the requests that begin by loading a router.
LoaderControl(p) ==
  /\ pc[p] # "idle" =>
       /\ target[p] \in Routers /\ Exists(target[p])
       /\ instance[p] \in RouterRow
  /\ p \in Updaters => pc[p] \in {"idle", "renumber", "save", "done", "failed"}
  /\ p \in Deleters => pc[p] \in {"idle", "purge", "deactivate", "done"}
  /\ p \in Tokeners =>
       /\ pc[p] \in {"idle", "radius_read", "radius_delete", "radius_insert",
                     "create_token", "done", "failed"}
       /\ pc[p] \in {"radius_delete", "radius_insert"} => ClientId(instance[p]) >= 0
       /\ pc[p] = "create_token" => password[p] \in Requests

Control ==
  /\ \A p \in Creators : CreatorControl(p)
  /\ \A p \in Loaders : LoaderControl(p)

\* Once provisioned, a name keeps credentials until a deletion purges it.
CredentialsKept ==
  \A p \in Creators :
    pc[p] \in {"commit", "done"} =>
      Credentials(instance[p].username) # {} \/ Purged(instance[p].username)

\* What add_user has deleted, and not yet replaced, is of its own name.
DoomedShareName ==
  \A p \in Requests :
    pc[p] = "radius_insert" => \A k \in doomed[p] : k.username = instance[p].username

IInv ==
  /\ TypeOK
  /\ Control
  /\ UniqueKeys
  /\ RegistrationIsAtomic
  /\ DoomedShareName
  /\ CredentialsKept

-----------------------------------------------------------------------------
(* Liveness *)

\* Every request a thread picked up is answered, or its worker died: waiting
\* for the key of an open registration cannot go on for ever.
EveryRequestIsAnswered ==
  \A p \in Requests : p \in InFlight ~> p \notin InFlight

-----------------------------------------------------------------------------
(* Statements of the documentation that the code does not live up to *)

\* A logical deletion lasts until a client submits is_active: no other request
\* makes the router active again.
DeletionIsFinal ==
  [][\A r \in Routers :
       Exists(r) /\ ~router[r].is_active /\ router'[r].is_active =>
         \E patch \in Patches : patch.is_active = TRUE]_router
=============================================================================

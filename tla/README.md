# Formal models of the WiFi-tickets backend

The program is a Django REST backend that registers MikroTik routers, gives each
of them RADIUS credentials and an IKEv2 VPN, hands out set-up scripts through
single-use links, and sells WiFi tickets that become hotspot users on a router.
This directory holds TLA+ models of the parts where concurrency and failure
matter, the TLC runs that check them and the TLAPS proofs about them.

`PROJECT.json` lists the components, the runs, the mutants, the source lines of
every definition, the findings, the hazards and the theorems.

## 1. The system

**Processes.** Gunicorn runs two workers of two threads (`deploy/gunicorn.conf.py`
15-17), so at most four requests are served at once; the rest wait. There is no
task queue and no in-process state shared between requests: everything is in two
PostgreSQL databases, on the routers, and in the memory of the handlers.

**Databases.** `default` holds the application's tables, `radius` those of
FreeRADIUS (`config/settings/base.py` 90-109). They are two connections: no
transaction spans both. `ATOMIC_REQUESTS` is off, the isolation level is
PostgreSQL's READ COMMITTED, and no code locks a row it reads (`select_for_update`
is never used). A handler is therefore a sequence of statements that each commit,
except where it opens `transaction.atomic`.

**Routers** are called over HTTPS with a 10-second timeout
(`services/mikrotik/client.py`); a call may be applied although its answer is lost.

### Components

| Component | State | Operations | Hard behaviours | What makes it correct | Model |
|---|---|---|---|---|---|
| Routers (`apps/routers`) | `Router`, `UserRouter` | register (`RouterViewSet.create`), PUT/PATCH, soft delete, VPN and bootstrap tokens | check-then-insert of the plan limit and of the identifier; a transaction open on `default` while another commits on `radius`; `save()` of a stale object | unique `port` and `api_username`; router and owner together or neither; plan limit; deletion is final and revokes credentials | `RouterLifecycle`, but for the admin |
| RADIUS (`apps/radius`) | `radcheck`, `radreply`, `radusergroup`, `nas`; reads `radacct` | `add_user` (delete, then insert), `delete_user`, `update_user_password`, `register_nas`, reports | no unique column in `radcheck`; two `add_user` of one name | one password per name, that of the router which bears it | what the routers API calls, in `RouterLifecycle` |
| VPN status (`apps/routers/services.py` 245-366) | none (reads `radacct`) | single and batch reading | two implementations of one rule, two queries each, sessions that start and stop between them | both agree, with each other and with the sessions | `VpnStatus` |
| Memberships (`UserRouterViewSet`) | `UserRouter` | administrators' CRUD | check before insert | `UNIQUE (user, router)` | none (section 5) |
| Scripts (`apps/scripts`) | `ScriptTemplate`, `RouterScriptExecution`, `ScriptDownloadToken` | dispatch, edit, delete, issue a token, download | check, burn, render in three steps; links to a row that may go | a token is served once, to one reader, with what it was issued for | `ScriptDownload`, but for the admin and `mark_completed` |
| Tickets (`apps/tickets`) | `Ticket`, and hotspot users on the router | generate, activate, cancel, delete | HTTP call between the check and the save; timeout with late effect | single use; only pending tickets are cancelled; an active one is usable | `TicketLifecycle` |
| Accounts (`apps/users`) | `User`, `EmailVerificationCode`, `PasswordResetCode` | register, verify OTP, resend, Google sign-in, reset and change password, edit of the profile | e-mail sent inside a transaction; check, burn and effect of a code in three statements; `save()` of a stale object; a registration that reuses an unverified account | an account is verified by whoever holds a mailed code; codes are single-use and superseded by the next; a suspension holds | `Accounts` |
| Hotspot (`apps/hotspot`, `services/mikrotik/hotspot.py`) | `HotspotProfile`, `HotspotUser`, and the router | CRUD and sync of profiles, CRUD, enable and disable of users | database and router written one after the other, answers lost, calls applied late | they agree after every outcome, or the difference is known; a sync writes its own row's profile | `HotspotMirror`: profiles and the creation of users |
| Portal templates (`apps/hotspot`) | files | render, pack | none | | none |
| VPN nodes (`apps/vpn`) | `VpnNode`, certificate files | administrators' CRUD, download of certificates | none | the first active node with an internal IP is used | a choice in `TokenFails` |
| MikroTik client (`services/mikrotik`) | HTTP session | REST calls; live router actions | lost answers, timeouts | each failure reaches its caller as an exception | in `TicketLifecycle` and `HotspotMirror` |
| Glue (`core`, `config`) | none | permissions, envelopes, exception handler, locale | none | | none, but `core/mixins.py`'s `update` |

### How they interact

* Registering a router writes `Router` and `UserRouter`, then calls RADIUS'
  `add_user` **inside** the open transaction of `default`; `add_user` commits on
  its own connection.
* A VPN token reads `Router`, `VpnNode`, `ScriptTemplate` and `radcheck`, may call
  `add_user`, and creates a `ScriptDownloadToken`, which the router later downloads.
* Deleting a router calls `delete_user`, whose failure is swallowed, then clears
  `is_active`. The row stays; so do its tickets, tokens and memberships.
* Activating a ticket calls the router between reading and saving the ticket.
* The plan limit of an account is a count over `UserRouter` and `Router`.
* Syncing a hotspot profile, and creating a hotspot user, call the router between
  reading and writing the row.
* Registering an account and resending a code mail the code, the former inside its
  transaction, the latter after its statements have committed.
* FreeRADIUS writes `radacct` while `VpnStatus`'s readings query it.

## 2. Modules

| Module | Models | State |
|---|---|---|
| `RouterRegistry` | what the routers API promises of `Router` and `UserRouter`: atomic register, edit, deactivate | abstract specification |
| `RouterLifecycle` | POST, PUT/PATCH, DELETE `/api/routers/` and `generate-vpn-token`, with `add_user` and `delete_user` | detailed; implements `RouterRegistry` |
| `RouterLifecycle_proofs` | theorems about it | |
| `TicketLedger` | what the tickets API promises of its table and of the router's users | abstract specification |
| `TicketLifecycle` | tickets and the exchange with the router | detailed; implements `TicketLedger` |
| `TicketLifecycle_proofs` | theorems about it | |
| `ScriptDownload` | executions, tokens, downloads | |
| `ScriptDownload_proofs` | theorems about it | |
| `AccountBook` | what the accounts API promises: what each change of an account costs | abstract specification |
| `AccountBook_proofs` | what those promises amount to | |
| `Accounts` | every writing endpoint of `UserViewSet`: `User`, both code tables, the mails sent | detailed; implements `AccountBook` |
| `Accounts_proofs` | theorems about it | |
| `ProfileMirror` | what the hotspot API promises of its profiles and their doubles on the router | abstract specification |
| `HotspotMirror` | hotspot profiles, the creation of hotspot users, and the router | detailed; implements `ProfileMirror` |
| `HotspotMirror_proofs` | theorems about it | |
| `VpnStatus` | both readings of `radacct`, and FreeRADIUS' sessions (external) | `radacct` and the readings |
| `VpnStatus_proofs` | theorems about it | |
| `MCRouterLifecycle`, `MCTicketLifecycle`, `MCScriptDownload`, `MCAccounts`, `MCHotspotMirror`, `MCVpnStatus` | instances for TLC: bodies of requests, symmetry | |

Conventions shared by the models:

* **A request is a process**, an element of a constant set per endpoint
  (`Creators`, `Activators`, `Downloaders`, ...), or, in `Accounts` and
  `HotspotMirror`, of one set `Requests` whose elements choose their endpoint. It runs
  once. A retry by a client is another element of the set.
* **An action is one visit to a database (or to the router)** with the code up to
  the next visit; `pc` says where a request stands. Statements that read for one
  purpose (an object, its permission, its validators; the two columns of used
  identifiers) are one visit. What a handler keeps in memory between visits is a
  variable (`instance`, `ticket`, `token_record`, `password`), because that is what
  becomes stale.
* **New rows are named by the request that inserts them**, generated passwords by
  the request that generated them, contents by the request that wrote them. No
  formatting is modelled.
* **A crash** (`Crash`) stops a request between any two visits. PostgreSQL rolls back
  its open transactions and releases their locks; in `RouterLifecycle` that is what
  `Inserting` and `doomed` express.
* `CHECK_DEADLOCK FALSE` is in every configuration because requests run once: when
  all have been answered nothing is left to do. Waiting for ever is what
  `EveryRequestIsAnswered` excludes.

### RouterLifecycle

| Model | Code |
|---|---|
| `CreateArrives` | `RouterViewSet.create`: authentication and the first `can_add_router` (views.py 144-156) |
| `CreateValidate` | `RouterCreateSerializer.validate`: the second (serializers.py 168-200) |
| `CreateProvision` | `get_next_router_identifier`, `provision_router_defaults` (services.py 17-80) |
| `CreateInsert`, `CreateCommit` | the `transaction.atomic` of `perform_create` (views.py 158-168) |
| `RadiusDelete`, `RadiusInsert`, `RadiusFails` | `RadiusService.add_user` (radius/services.py 31-107) |
| `UpdateLoad`, `UpdateRenumber`, `UpdateSave` | `StandardResponseMixin.update`, `RouterWriteSerializer`, `Router.save` |
| `DeleteLoad`, `DeletePurge`, `DeletePurgeFails`, `DeleteDeactivate` | `perform_destroy`, `Router.soft_delete` (models.py 99-110) |
| `TokenLoad`, `TokenReads`, `TokenMisses`, `TokenCreate`, `TokenFails` | `generate_vpn_token`, `generate_router_vpn_provisioning_token` (services.py 144-242) |
| `UniqueViolation`, `KeyLocked` | PostgreSQL's unique columns: a committed key fails the statement, an uncommitted one makes it wait |

A `Router` is its `port`, `api_username` and `is_active`; an identifier `n` stands
both for the port `n` and for the name `U<n>`. `radcheck` holds the
`Cleartext-Password` rows as *(name, password, client_id)*.

### TicketLifecycle

`ActivateLoad` is `get_object`, the status check and the sending of the POST;
`RouterApplies` and `RouterMisses` are what becomes of it, at any later time;
`AnswerReceived` and `RequestFails` are the two ways `MikroTikClient._request` ends
(`RequestFails` covers connection errors, timeouts, error statuses unrelated to the
name, and answers that cannot be read, whatever the router did or will do);
`ActivateSave` is `save(update_fields=...)`, which fails when the row is gone. A readable
answer without an error status is taken to come from the router, once it has created the
user; it may lack the `.id` (`"unnamed"`), and `ReportedId` is `result.get(".id", "")`:
the ticket then becomes active with a blank `mk_user_id`.
`Generate` is `bulk_create`, and the inherited POST with a batch of one. No code
sets the status `EXPIRED`, which docs/domains/tickets.md:32 draws as a transition,
so the model has none. `activate` does not look at the router's `is_active`,
and the model has no router record.
`TicketLedger` has no requests, calls or answers: a user appears on the router
(`Grant`), and a ticket is activated in exchange for one, of which it records the `.id`
or nothing. The refinement mapping is the
identity but for `unrecorded`, the users whose activation has not been saved
(`Unrecorded`): its answer is on the way or lost, or it failed or found no ticket.
RouterOS (external) refuses a second hotspot user of one name. The name derived
from a code is its first 12 hexadecimal digits; two codes are taken to differ in
them. No user is created or removed behind the API's back.

### ScriptDownload

`DownloadLoad` is the lookup and `is_valid`, `DownloadBurn` is `burn()`,
`DownloadRender` the evaluation of `rendered_content`, which reads the linked
execution (and fails if it has been deleted since) or else the token's own
variables; `DownloadRenderFails` is any exception of the rendering. `EditSave` is
Django's `save()`: it writes the object it loaded, and inserts the row if a DELETE
has removed it. `DestroyDelete` unlinks tokens in the transaction that deletes the
row (`on_delete=SET_NULL`). `TokenIssue` fails on the foreign key when the
execution is gone. `Expire` is the clock.

### Accounts

| Model | Code |
|---|---|
| `RegisterLoad`, `RegisterSave`, `RegisterCommit` | `RegisterSerializer.create` and `register`, one `transaction.atomic` with the mail in it (serializers.py 78-133, emails.py) |
| `VerifyLoad`, `ConfirmLoad`, `CheckCode` | `verify_otp`, `password_reset_confirm` up to their first write: the latest unused code, `can_attempt`, the comparison |
| `CountAttempt`, `BurnCode`, `Activate`, `SetPassword` | the four `save(update_fields=...)` after it |
| `ResendLoad`, `ResetLoad`, `SendLoad` | `resend_otp`, `password_reset_request` up to the cooldown |
| `Invalidate`, `Issue` | the UPDATE of the old codes, the INSERT of the new one and its mail |
| `MeLoad`, `SaveAll` | `me` (PUT, PATCH): the object that authentication loaded, saved whole |
| `ChangeLoad` | `change_password` |
| `GoogleFinds`, `GoogleMisses`, `GoogleCreate` | `google`: Django's `get_or_create`, then `save()` |
| `Locked`, `RowLocked`, `CodeLocked` | rows and keys that an open registration holds |
| `Age` | the clock: the cooldown of a code ends, the code expires |

A code is named by the request that issued it: entering its digits is entering that
name, which anyone may who was mailed it (`Entered`); all wrong guesses are one value.
A password is named by the request that chose it. `user` and `code` are the committed
tables; what an open registration has written is in `instance` and `doomed`. A
request refused before it writes leaves no trace and is no step.

`AccountBook` has no requests in flight, objects in memory, locks or clock. A
registration is one step; a verification costs a used verification code of that account
or Google's word, a first password a registration or a used reset code; a profile that
is saved may bring back what the account had. The refinement mapping gives `account` the
table `user`; `code` the codes without attempts and age (`BookCode`); `vouched` the
accounts that a Google token named (`Vouched`); `proven` those with evidence of a
verification (`Proven`); `chosen` the passwords of the requests that succeeded
(`ChosenBy`).

### HotspotMirror

`SyncLoad` and `CreateUser` are the checks and the call; the router's side is
`RouterCreatesProfile`, `RouterPatchesProfile`, `RouterCreatesUser`, `RouterRefuses` and
`RouterMisses` (external), at any later time; `AnswerReceived` and `RequestFails` end the
call as in `TicketLifecycle`; `Link` is `save(update_fields=["mk_id"])`, with the `.id`
that the answer gave, or none (`ReportedId`). There are several routers, which give the
same `.id`s: `Around` is what is on the router of the object that a sync loaded,
`Addressed` what `PROFILES_PATH/mk_id` finds there. `Edited` writes every field that
`HotspotProfileSerializer` lets a client submit, `router` included, and keeps the read-only
`mk_id`: a row that is moved takes its link along. `SeedRow` gives the rows there before,
each with its double on the router if it is linked. `ProfileMirror`
has no requests, calls or hotspot users: rows are read, saved and linked, profiles made and
patched, the latter by a row that was on their router and recorded their `.id`. The
refinement mapping is the identity on `profile` and `remote`; `read` is what
the edits and syncs hold of each row (`RowsRead`), `made_for` the row a profile was made
for (`MadeForRow`). `UpdateSave` is
Django's `save()` of every column. `PersistUser` is the `serializer.save()` that raises.
The first sync of a profile does not send the session timeout, and later ones omit fields
that are blank: `CreatedProfile` and `PatchedProfile` say so.

### VpnStatus

A reading is `Retrieve` (one router, `get_vpn_connection_info`) or `List` (a page,
`get_vpn_connection_info_batch`), then `QueryActive` and `QueryHistory`, the two queries
of `radacct`, or `QueryFails`, the `except` that reports every router as
NEVER_CONNECTED. `LastSession` orders as PostgreSQL does, NULL stop times first. `Start`,
`Stop` and `Tick` are FreeRADIUS and the clock. `seen` and `known` are auxiliary: what was
true of each router since the first query of a reading, and which routers an earlier
reading had reported.

## 3. What the runs show

Passing runs:

| Run | Instance | Shows |
|---|---|---|
| `router_register` | three registrations and a re-keying PATCH, a free and a pro account, two threads, limit 1, three identifiers | a registration leaves both rows or none (`RegistrationIsAtomic`), the free account exceeds its limit by no more than the other thread (`OverLimitBoundedByThreads`), and `RouterLifecycle` implements `RouterRegistry` (`ImplementsRegistry`) |
| `router_identity` | two registrations, a re-keying PATCH, a deletion, a VPN token, by a staff account, which also sees inactive routers; with fairness | `UniqueKeys`, the inductive invariant `IInv`, and `EveryRequestIsAnswered`: no request waits for ever for another's key |
| `router_stable` | two registrations, a plain PATCH, a deletion and two VPN tokens of an owner | `CredentialsMatchRouter`, `ActiveRouterHasCredentials` |
| `script_single` | three downloads of two tokens on two threads, an edit, a deletion | `ServedBoundedByThreads`, `NoReadAfterServing`, and `ServedAsIssuedOrEdited`: what a token serves is what it was issued for or what an edit of its execution wrote |
| `ticket_activate` | two activations that may ask for a username, that of the other ticket included, a cancellation, a deletion, two tickets; fairness of the threads alone | `OneUserPerTicket`; `ActiveTicketHasItsUser`: an active ticket has a user on the router, and records its `.id` or, if the answer had none, nothing; `DeletedStaysDeleted`, the inductive invariant `IInv`, that `TicketLifecycle` implements `TicketLedger` (`ImplementsLedger`), and `EveryRequestIsAnswered` though the router may never answer |
| `accounts` | any three requests on two threads; one verified account, two other e-mails, two Google accounts; one failed attempt per code; profile edits that rename, suspend or change the e-mail | `RegistrationIsAtomic`, `LiveCodesBoundedByThreads`, `VerifiedHasEvidence`, `UsedCodesStayUsed`, `NoLateRedemption`, `SuspensionHolds`, the inductive invariant `IInv`, that `Accounts` implements `AccountBook` (`ImplementsBook`), and what follows from it (`BookIsSafe`): keys are unique, a password is that of the account it was chosen for, a verified account used a code of its own or is Google's |
| `hotspot_sync` | any three requests over two routers, two `.id`s and two names, a linked profile on one router and one never synced on the other; edits that move, rename, set and blank limits; answers without `.id`; fairness of the threads alone | `LinksAreTrue`: an `mk_id` is that of a profile made for that row, on its router unless an edit moved the row; `OrphansAreExplained`: a linked profile stops being the row's only by a deletion, a move, another link, an answer without `.id` or a stale edit; `RemoteSettingsWereLocal`: a router has only settings of the row its profile was made for, or of one moved there with the profile's `.id`; that `HotspotMirror` implements `ProfileMirror` (`ImplementsMirror`); `EveryRequestIsAnswered` |
| `vpn_status` | two readings of either form, two routers, two sessions, three instants | `StatusWasTrue`: what is reported was true during the reading; `NoReadingForgets`: neither form reports NEVER_CONNECTED for a router that any reading had reported otherwise |

`TypeOK` is checked once per module, in `router_register`, `script_single`,
`ticket_activate`, `accounts`, `hotspot_sync` and `vpn_status`.

Runs that find the code at odds with what its documentation says (each is a finding
of `PROJECT.json` with both places quoted):

| Run | Statement | What happens |
|---|---|---|
| `router_final` | deletion sets `is_active` to false (routers.md:63) | a PATCH loaded before it saves the old value after it |
| `ticket_cancel` | only pending tickets are cancelled (tickets.md:40) | the ticket becomes active between the check and the save |
| `accounts_verified` | registering again with a verified e-mail is refused (users.md:43) | the account is verified between the check and the save, and loses its verification and its password |
| `hotspot_user` | the user is created on the router, then persisted (hotspot/views.py:114) | the row is never written: the submitted password is no field of `HotspotUser` |

The models also contain behaviours that a reader of the code should know of. Some are
the reason why a property says less than the documentation:

* two registrations exceed the plan limit of a free account (routers.md:84), by at most
  the other threads (`OverLimitBoundedByThreads`);
* a token is served to two downloads that both pass `is_valid` (scripts.md:49), by at
  most the threads (`ServedBoundedByThreads`); after an edit of its execution
  (scripts.md:20) it serves what the edit wrote (`ServedAsIssuedOrEdited`);
* two activations that ask for different usernames give one ticket two hotspot users
  (tickets/models.py:2); `OneUserPerTicket` is about tickets for which no username is
  asked;
* concurrent requests leave several usable codes of one account
  (`LiveCodesBoundedByThreads`) and redeem one code twice; `NoLateRedemption` says that
  only requests in flight together can;
* a session whose stop time is NULL sorts first: a router whose session starts
  between the two queries is reported DISCONNECTED with no `last_seen`, the exception in
  `StatusWasTrue`;
* a database error makes a reading report NEVER_CONNECTED for the whole page, the
  exception in `NoReadingForgets`;
* a profile row that an edit moves to another router keeps its `mk_id`, and its next sync
  writes on whatever has this `.id` there: nothing, or the profile of another row, which
  is not what "push local profile settings" and "creates the profile if it does not exist"
  (hotspot/views.py:66-67) suggest. `RemoteSettingsWereLocal` and `Patch` of
  `ProfileMirror` allow it, for moved rows only;
* an answer without `.id` makes a ticket active with a blank `mk_user_id`, and ends a sync
  well with a blank `mk_id`, after which every sync tries to create the profile again.

Others are modelled and claimed by no property:

* a deletion whose purge failed is answered with the credentials in place
  (`DeletePurgeFails`); a VPN token can be created with a password that a deletion or
  another token request has just replaced;
* an activation whose answer was lost leaves a pending ticket with a live hotspot user,
  and its name then refuses every further activation; in the same way a profile whose
  first sync lost its answer is created again, and refused, by every later one;
* a download that fails to render has burnt its token;
* while one Google sign-up is between its two saves, or died there, its row has the
  username "", which is unique, and every other sign-up fails (`GoogleCreate`);
* `attempts += 1` counts concurrent wrong guesses once (`CountAttempt`).

A profile edit brings back whatever columns another request replaced since it was
authenticated (`SaveAll`): `SaveProfile` of `AccountBook` says how far that goes, to a
password once chosen for that account, a verification it once had, and keys that are
still free.

### Bounds

The violations above need two requests each, and so do the collisions the passing
runs exclude: two that compute one identifier, two `add_user` of one name, a save
that races a delete. The passing runs take one request more than that wherever the
state space allows, so that a third can find what the first two left (credentials of
a dead registration, a refused hotspot user, a burnt token). `Workers` is 2 in the
runs where the bound of the threads is at stake, so that three requests exceed it, and
larger elsewhere, so that it does not hide an interleaving. Three identifiers for
three registrations run out when a PATCH has taken one; the numbers 0, `PortBase - 1` and
`MinId + 1` are the falsy port, the first that gives a negative `client_id` and one that
another registration will compute.

In `accounts` three requests are what the longest story of one property takes (one that
registers, one that verifies, one that interferes), and `MaxAttempts = 1` lets a code run
out of attempts within them; the same properties, `ImplementsBook` included, were also
checked with four requests on three e-mails (985281 states). In `hotspot_sync` three requests make a profile, edit
it and sync it, in any order, over two names, so that a name can be taken; with two
routers and two `.id`s, one request links a row on the second router, one moves the first
row there, and one syncs it, onto the profile of the other if both got the same `.id`. In `vpn_status`
two sessions give a router two open ones, or each of two routers one; `MaxTime = 2`
gives stop times that differ and that tie; sessions need not be numbered further
because the queries keep one per router.

Requests run once, so every state space is finite without a state constraint. Symmetry
(of requests, tickets, e-mails, routers, sessions) is used in the runs that check
no liveness and can be permuted: `script_single`, `ticket_cancel`, `accounts`,
`accounts_verified`, `vpn_status`.

### Fairness

`router_identity`, `ticket_activate` and `hotspot_sync` assume weak fairness of what the
thread serving a request may do next, and no other run assumes any. Gunicorn's threads
are scheduled by the operating system; PostgreSQL grants a lock to a waiting statement
once its holder commits, rolls back or loses its connection, and the models disable the
waiting action for as long as the key is held, so weak fairness asks no more than that.
Nothing is assumed of clients (requests need not come), of crashes, of RADIUS (it may
fail or succeed) or of the router and the network (a call may never be applied or
answered: the client's 10-second timeout, `RequestFails`, is what ends the request).
`Accounts` states no fairness: mail is sent with no `EMAIL_TIMEOUT`, so nothing makes a
registration end that waits for the mail server.

## 4. What is proved

All theorems hold for every value of the constants that meets the `ASSUME`s of the
modules: that the sets of requests are disjoint, that `Null` is none of the values,
that the thread count and the limits are positive, that identifiers lie above
`PortBase`, that bodies of edits are bodies, in
`HotspotMirror` that the rows there before respect the unique columns, and in `ScriptDownload` and `Accounts` that
the set of requests is finite.

**RouterLifecycle_proofs.** `Invariance` proves `Spec => []IInv`. `IInv` is the
conjunction of

* `TypeOK`;
* `Control`, what each handler holds in memory at each point: without it nothing is
  known of the row a registration commits, or that a token request only provisions
  non-negative client ids;
* `UniqueKeys`, stated over committed rows **and** rows of open transactions: the
  statement over committed rows alone is not inductive, because a commit publishes
  a row that was checked earlier. `KeyLocked` is what keeps two open transactions
  from holding one key;
* `RegistrationIsAtomic`;
* `DoomedShareName`, that what `add_user` has deleted and not yet replaced is of its own
  name: needed so that its commit does not take away another router's credentials;
* `CredentialsKept`, that a provisioned name keeps credentials until a purge.

`TypeCorrect`, `KeysAreUnique`, `RegistrationAtomicity` and `CredentialsSurvive` follow
from it. `Implementation` proves `Spec => ImplementsRegistry`, that is
`Spec => Registry!Spec` with `Registry == INSTANCE RouterRegistry WITH ...`: every
action maps to a step of `RouterRegistry` under the identity on `router` and
`user_router`, or stutters, using `UniqueKeys` for the commit of a registration and
`UniqueViolation` for a save.

Two properties that hold of some deployments only are proved under what they need.
`OverLimitIsBounded` assumes `NoReactivation` (no update; or no deletion and no body with
`is_active`), because an update saves the `is_active` it loaded and so can bring back a
router deactivated since. Its invariant, `LimitInv`, bounds the routers an account owns
**together with** its registrations past their last check: a commit moves a router from
the second set to the first, and only a check adds to the second, when the first has
fewer than `PlanLimit` and the second is among the requests in flight.
`CredentialsMatch` assumes `KeepsIdentity` (no body with `port` or `api_username`;
re-keying is what `router_identity` explores). Its invariant, `MatchInv`, says that a
router is known everywhere by the identifier it was registered with (`IdentityKept`),
that a credential carries the identity of the request that made it (`RowsAreGenerated`),
and that what a dead registration left under an identifier is among the rows that the
next holder of the identifier has deleted when it commits (`Replaced`, with `UniqueKeys`
for why no third registration adds one meanwhile).

**TicketLifecycle_proofs.** `IInv` adds to the types what an activation holds
(`ActivatorControl`: an answer "created" or "unnamed" means that its user is on the
router; this is where a readable answer is taken at its word), the
uniqueness of names (`NamesAreUnique`) and that each user of the router bears the name
its activation sent (`UsersAreAsAsked`). From it: `ActiveTicketsAreUsable`,
`TicketsAreSingleUse` and `DeletionsAreFinal`.

`Implementation` proves `Spec => Ledger!Spec`. A visit that loads, waits or fails maps to
a stutter because it makes no activation succeed (`UnrecordedKept`); the router's creation
of a user maps to `Grant`, the save of an activation to `Activate` of the one user that
it created, recorded if the answer named it. Two facts beside `IInv` are needed (`LInv`): a loaded ticket had been
generated, and a user of the router is the answer to its activation, so that an
activation without an answer has none yet.

**ScriptDownload_proofs.** `ServedBoundedByThreads` is not inductive. `IInv` bounds
instead the downloads *let in* with a token, served or not. A download is let in only
while the token is not burnt, when all those let in before are still in flight
(`DownloadControl`: none can have rendered), so that a free thread leaves room for one
more. `ServingsAreBounded` and `ServedTokensAreRefused` follow. `ServedFaithfully` is
proved from `CopyInv`: from the load of an execution to its token and on to the download,
the execution renders to the copy taken, unless an edit of it has been saved since.

**Accounts_proofs.** `IInv` joins to the types, for each request, the endpoints that reach
its point (`Route`), that rows and codes named by it appear only with its commit
(`Written`), the object it is to save (`Holds`: a registration saves an inactive,
unverified row with its own password; an edit that saves "verified" has loaded it from
a row with evidence) and the codes it has loaded (`Codes`: past `burn` they are used).
`PasswordsAreSettled` says that no row has the password of a request that was not
answered; it is what keeps a stale `me` from bringing one back, and so makes
`RegistrationAtomic` provable. `VerificationEvidence` is a conjunct of `IInv`;
`UsedCodes`, `LateRedemption` and `Suspension` are action properties proved from it step
by step. `CodesAreBounded` needs a second invariant, `LInv`: usable codes of an account
together with the requests about to issue one are no more than the threads, because
the request that invalidates leaves only such requests, all in flight; and, since a
registration invalidates and issues at its commit, the same holds of what an open
registration would leave. `LInv` is preserved together with `IInv`.

`BookImplementation` proves `Spec => Book!Spec`, one action at a time (`BookNext`). What
keeps the two apart is time: a request checks, and writes later. So a third invariant,
`BInv`, carries each check to the write that relies on it:

* keys are unique, and those of an open registration are free and no one else's
  (`KeysAreHeld`, the reason why its commit may insert a row checked before: `Locked`
  keeps every other writer from the keys it holds);
* the codes that a request has loaded, or will invalidate, are of the account it works on
  and of the kind its endpoint checks; one that is to set a password has loaded such a
  code, or its account has a password (`Matches`; that the code is used by then is in
  `IInv`);
* the password of a row was chosen for that account (`PasswordsBelong`), and so was that
  of an object still to be saved (`Matches`), because a stale `me` writes it back.

Four lemmas say what a step does to the mapped variables, so that no action has to:
`ProvenNext`, `ChosenByNext` (a request that succeeds is what adds to either),
`VouchedNext` and `VouchedKept`.

**AccountBook_proofs.** `Safety` is about the book alone: whatever the order of its
operations, `KeysAreUnique`, `PasswordsAreOwn` and `VerificationsArePaid`. Its inductive
invariant says of whatever has *once* been verified that it was paid for, because a stale
profile may bring a verification back. `Safety` assumes what `Accounts` assumes of its
constants (`BookAssumption`). `BookSafety`, in `Accounts_proofs`, instantiates it with the
refinement mapping: the requests implement the book, so what the book guarantees holds of
their tables.

**HotspotMirror_proofs.** The argument follows the `.id`s. `IInv` relates each point of a
handler to what it has loaded (`Control`) and a call and its answer to what is then on the
router (`Exchange`); `Identified` says that a profile stays on the router where it was
made, alone with its `.id`. An `.id` that a row or a loaded object records is that of a
profile linked to this row (`HasLink`), on the router the object names or one that an edit
moved the row away from (`LinkedAs`). `RowInvariant` says this of the rows, and that a row
is on the router every sync of it has read unless an edit moved it, and that it records
nothing only for one of the listed reasons. `LinksHold` concludes: `TrueLinks` and
`ExplainedOrphans` follow. `RemoteSettingsWereLocal` is a conjunct of `IInv`
(`LocalSettings`): the profile a PATCH finds is the one the row was linked to, because
`.id`s are unique on a router, or else the row was moved. `Implementation` proves
`Spec => Mirror!Spec`, one action at a time (`MirrorNext`): what is saved or sent has been
read from the row (`HeldIsRead`), a call under way has made no profile (`Exchange`), and
`Identified` makes the profile that a PATCH addresses the only one.

**VpnStatus_proofs.** `IInv` is `TypeOK` and, for each reading, that what it has
found so far is in `seen`, and that routers in `known` have a session (`Reading`).
`LastSessionTells` is the heart of `StatusIsTrue`: with NULL stop times first, a closed
session is the last one only if no session is open.

Model-checked only: liveness (`EveryRequestIsAnswered`), which is out of the prover's
reach. Every other property of a passing run is stated by a theorem.

## 5. What is not modelled

* The admin site: hard deletion of routers (which cascades to memberships, tickets and
  tokens), edits of templates and tokens. It is used by staff, one object at a time.
* Memberships (`UserRouterViewSet`): administrators' CRUD, one statement per request,
  behind `UNIQUE (user, router)`, which turns the race of two creations into one
  IntegrityError. A PUT without `user` moves the membership to the administrator
  (`CurrentUserDefault`), and a PATCH that saves after a DELETE inserts the row again;
  neither contradicts a statement of the repository.
* Replies and groups of RADIUS, `update_user_password`, NAS registration, accounting
  reports: nothing in the repository but tests calls them.
* Hotspot users after their creation: no row is ever written by the API. Rows the admin
  enters have a blank `mk_id`, which is read-only, so that enabling or disabling one is
  refused by the router and changes nothing.
* Live router actions, which read a router or reboot it and keep no state here; portal
  templates, which render files; VPN nodes, whose absence is a choice of `TokenFails`.
* Log-in and the refresh of JWTs, which write nothing the other endpoints read; locale,
  pagination, envelopes and validation of formats. A request of the models is
  authenticated where it must be, and well-formed unless a rejection changes state.
* The clock, but for expiry and the ages of codes as events, and the times of sessions.

## 6. Plan

Done: `RouterRegistry` and `RouterLifecycle`, `TicketLedger` and `TicketLifecycle`,
`ScriptDownload`, `AccountBook` and `Accounts`, `ProfileMirror` and `HotspotMirror`,
`VpnStatus`, and their proofs. Left, in the order of importance:

1. A composition of `ScriptDownload` with `RouterLifecycle`, for the deletion of a router
   under its tokens; VPN tokens behave as tokens without execution.
2. `UserRouterViewSet`, if memberships come to be edited by others than administrators.

---------------------------- MODULE HotspotMirror ---------------------------
(***************************************************************************)
(* Hotspot profiles and users (apps/hotspot), rows that mirror what is on  *)
(* MikroTik routers, and the calls that keep the two in step: CRUD and     *)
(* sync of profiles, creation of users.                                    *)
(*                                                                         *)
(* A request is a process that a thread runs once.  The database and the   *)
(* router are written one after the other.  What is sent to the router may *)
(* be applied before the client's timeout, after it, or never, and the     *)
(* answer may be lost.  A RouterOS router keeps the names of its profiles  *)
(* and their .id's unique, but two routers give the same .id's.  A         *)
(* readable answer without an error status is taken to come from the       *)
(* router, once it has done what was asked; that of a creation may lack    *)
(* the .id.                                                                *)
(*                                                                         *)
(* A row is named by the request that inserted it, and a profile of a      *)
(* router by the one that created it.  Left out: shared_users, comments    *)
(* and passwords; profiles that came to a router by other ways, or were    *)
(* removed from it, which nothing here does.                               *)
(***************************************************************************)
EXTENDS Naturals, FiniteSets

CONSTANTS
  Requests,   \* POST, PUT, PATCH or DELETE under /api/hotspot/
  Routers,
  MkIds,      \* .id's that a router gives to its profiles
  Names,      \* of profiles
  Rates,      \* rate limits
  Timeouts,   \* session timeouts
  Usernames,  \* of hotspot users, each with its router
  Bodies,     \* of profiles submitted: a field that is Null is left out
  Seeds,      \* profiles there before the start
  SeedRow,    \* their rows; one that has a link has its double on the router
  Blank,      \* the empty rate limit or timeout
  Null

Ids == Requests \cup Seeds
Row == [router : Routers, mk_id : MkIds \cup {Null}, name : Names,
        rate : Rates \cup {Blank}, timeout : Timeouts \cup {Blank}]
RemoteProfile == [router : Routers, id : MkIds, name : Names,
                  rate : Rates \cup {Blank}, timeout : Timeouts \cup {Blank}]
Body == [router : Routers \cup {Null}, name : Names \cup {Null},
         rate : Rates \cup {Blank, Null}, timeout : Timeouts \cup {Blank, Null}]

ASSUME ConstantsAssumption ==
  /\ Seeds \cap Requests = {} /\ Bodies \subseteq Body

ASSUME SeedAssumption ==
  /\ SeedRow \in [Seeds -> Row]
  /\ \A r, s \in Seeds :
       r # s /\ SeedRow[r].router = SeedRow[s].router =>
         /\ SeedRow[r].name # SeedRow[s].name
         /\ SeedRow[r].mk_id # SeedRow[s].mk_id \/ SeedRow[r].mk_id = Null

ASSUME NullAssumption ==
  Null \notin Ids \cup Routers \cup MkIds \cup Names \cup Rates \cup Timeouts \cup Usernames
              \cup {Blank} \cup Row \cup RemoteProfile

VARIABLES
  profile,       \* HotspotProfile: the row inserted by a request, or there before
  hotspot_user,  \* HotspotUser: usernames that have a row
  remote,        \* the profile that a request, or an earlier sync, created on a router
  guest,         \* the user that a request created on a router
  sent,          \* requests whose call to the router is on its way
  answer,        \* and the router's answer, "none" before it
  endpoint,      \* what each request asks for
  pc,            \* where it stands
  target,        \* the row, or the username, it is about
  instance       \* the HotspotProfile it loaded

database == <<profile, hotspot_user>>
router == <<remote, guest, sent, answer>>
memory == <<endpoint, target, instance>>
vars == <<database, router, memory, pc>>

TypeOK ==
  /\ profile \in [Ids -> Row \cup {Null}]
  /\ hotspot_user \subseteq Usernames
  /\ remote \in [Ids -> RemoteProfile \cup {Null}]
  /\ guest \in [Requests -> Usernames \cup {Null}]
  /\ sent \subseteq Requests
  /\ answer \in [Requests -> {"none", "created", "unnamed", "updated", "refused"}]
  /\ endpoint \in [Requests -> {"none", "create", "update", "destroy", "sync",
                                "create_user"}]
  /\ pc \in [Requests -> {"idle", "save", "delete", "router", "link", "persist",
                          "done", "failed", "crashed"}]
  /\ target \in [Requests -> Ids \cup Usernames \cup {Null}]
  /\ instance \in [Requests -> Row \cup {Null}]

Double(row, id) ==
  [router |-> row.router, id |-> id, name |-> row.name,
   rate |-> row.rate, timeout |-> row.timeout]

Init ==
  /\ profile = [r \in Ids |-> IF r \in Seeds THEN SeedRow[r] ELSE Null]
  /\ hotspot_user = {}
  /\ remote = [r \in Ids |-> IF r \in Seeds /\ SeedRow[r].mk_id # Null
                             THEN Double(SeedRow[r], SeedRow[r].mk_id) ELSE Null]
  /\ guest = [p \in Requests |-> Null]
  /\ sent = {}
  /\ answer = [p \in Requests |-> "none"]
  /\ endpoint = [p \in Requests |-> "none"]
  /\ pc = [p \in Requests |-> "idle"]
  /\ target = [p \in Requests |-> Null]
  /\ instance = [p \in Requests |-> Null]

-----------------------------------------------------------------------------

InFlight == {p \in Requests : pc[p] \notin {"idle", "done", "failed", "crashed"}}

Step(p, from, to) == pc[p] = from /\ pc' = [pc EXCEPT ![p] = to]

\* A thread picks p up, which is about x and holds the object row.
Arrive(p, what, to, x, row) ==
  /\ Step(p, "idle", to)
  /\ endpoint' = [endpoint EXCEPT ![p] = what]
  /\ target' = [target EXCEPT ![p] = x]
  /\ instance' = [instance EXCEPT ![p] = row]

\* unique_together = [("router", "name")]
UniqueViolation(row, r) ==
  \E s \in Ids \ {r} :
    profile[s] # Null /\ profile[s].router = row.router /\ profile[s].name = row.name

\* Every field but the read-only mk_id may be submitted, the router included.
Edited(row, body) ==
  [row EXCEPT !.router = IF body.router = Null THEN @ ELSE body.router,
              !.name = IF body.name = Null THEN @ ELSE body.name,
              !.rate = IF body.rate = Null THEN @ ELSE body.rate,
              !.timeout = IF body.timeout = Null THEN @ ELSE body.timeout]

-----------------------------------------------------------------------------
(* Rows of profiles: POST, PUT, PATCH and DELETE touch the database only *)

NewRow(body) ==
  [router |-> body.router, mk_id |-> Null, name |-> body.name,
   rate |-> IF body.rate = Null THEN Blank ELSE body.rate,
   timeout |-> IF body.timeout = Null THEN Blank ELSE body.timeout]

\* A router and a name are required.
Create(p, body) ==
  LET row == NewRow(body) IN
  /\ body.router # Null /\ body.name # Null
  /\ ~UniqueViolation(row, p)
  /\ Arrive(p, "create", "done", p, Null)
  /\ profile' = [profile EXCEPT ![p] = row]
  /\ UNCHANGED <<hotspot_user, router>>

UpdateLoad(p, r, body) ==
  /\ profile[r] # Null
  /\ ~UniqueViolation(Edited(profile[r], body), r)
  /\ Arrive(p, "update", "save", r, Edited(profile[r], body))
  /\ UNCHANGED <<database, router>>

\* save() writes every column of the object in memory, mk_id included, and
\* inserts the row again if it was deleted.
UpdateSave(p) ==
  /\ pc[p] = "save"
  /\ IF UniqueViolation(instance[p], target[p])
     THEN Step(p, "save", "failed") /\ UNCHANGED profile
     ELSE Step(p, "save", "done") /\ profile' = [profile EXCEPT ![target[p]] = instance[p]]
  /\ UNCHANGED <<hotspot_user, router, memory>>

DestroyLoad(p, r) ==
  /\ profile[r] # Null
  /\ Arrive(p, "destroy", "delete", r, Null)
  /\ UNCHANGED <<database, router>>

\* The row goes; the router keeps its profile.
DestroyDelete(p) ==
  /\ Step(p, "delete", "done")
  /\ profile' = [profile EXCEPT ![target[p]] = Null]
  /\ UNCHANGED <<hotspot_user, router, memory>>

-----------------------------------------------------------------------------
(* The routers *)

Creates(p) == endpoint[p] = "sync" /\ instance[p].mk_id = Null

\* The profiles of the router that p calls.
Around(p) == {m \in Ids : remote[m] # Null /\ remote[m].router = instance[p].router}

\* PROFILES_PATH/mk_id: at most one of them, made for this row or for another.
Addressed(p) == {m \in Around(p) : remote[m].id = instance[p].mk_id}

NameTaken(p) == \E m \in Around(p) \ Addressed(p) : remote[m].name = instance[p].name

\* Mutant: the timeout is passed for the rate limit.
CreatedProfileMisnamed(p, id) ==
  [Double(instance[p], id) EXCEPT !.rate = instance[p].timeout, !.timeout = Blank]

\* create_profile(name, rate_limit): the session timeout is not sent.
CreatedProfile(p, id) == [Double(instance[p], id) EXCEPT !.timeout = Blank]

\* PATCH, without the fields that are blank.
PatchedProfile(p, old) ==
  [old EXCEPT !.name = instance[p].name,
              !.rate = IF instance[p].rate = Blank THEN @ ELSE instance[p].rate,
              !.timeout = IF instance[p].timeout = Blank THEN @ ELSE instance[p].timeout]

Answered(p, what) ==
  /\ sent' = sent \ {p}
  /\ answer' = [answer EXCEPT ![p] = what]
  /\ UNCHANGED <<database, memory, pc>>

\* The .id is told or not.
RouterCreatesProfile(p) ==
  /\ p \in sent /\ Creates(p) /\ ~NameTaken(p)
  /\ \E id \in MkIds \ {remote[m].id : m \in Around(p)} :
       remote' = [remote EXCEPT ![p] = CreatedProfile(p, id)]
  /\ Answered(p, "created") \/ Answered(p, "unnamed")
  /\ UNCHANGED guest

RouterPatchesProfile(p) ==
  /\ p \in sent /\ endpoint[p] = "sync" /\ ~Creates(p) /\ ~NameTaken(p)
  /\ \E m \in Addressed(p) : remote' = [remote EXCEPT ![m] = PatchedProfile(p, @)]
  /\ Answered(p, "updated")
  /\ UNCHANGED guest

RouterCreatesUser(p) ==
  /\ p \in sent /\ endpoint[p] = "create_user"
  /\ \A q \in Requests : guest[q] # target[p]
  /\ guest' = [guest EXCEPT ![p] = target[p]]
  /\ Answered(p, "created")
  /\ UNCHANGED remote

\* The name is taken, or there is nothing to patch.
RouterRefuses(p) ==
  /\ p \in sent
  /\ IF endpoint[p] = "sync"
     THEN NameTaken(p) \/ (~Creates(p) /\ Addressed(p) = {})
     ELSE \E q \in Requests : guest[q] = target[p]
  /\ Answered(p, "refused")
  /\ UNCHANGED <<remote, guest>>

\* The call never arrives.
RouterMisses(p) ==
  /\ p \in sent
  /\ sent' = sent \ {p}
  /\ UNCHANGED <<database, remote, guest, answer, memory, pc>>

\* MikroTikClient._request returns, or raises for the router's error status.
AnswerReceived(p) ==
  /\ answer[p] # "none"
  /\ Step(p, "router", CASE answer[p] = "refused" -> "failed"
                         [] answer[p] = "updated" -> "done"
                         [] OTHER -> IF endpoint[p] = "sync" THEN "link" ELSE "persist")
  /\ UNCHANGED <<database, router, memory>>

\* Mutant: the call has no timeout.
NoTimeout(p) ==
  /\ answer[p] = "refused"
  /\ Step(p, "router", "failed")
  /\ UNCHANGED <<database, router, memory>>

\* It raises on a connection error, a timeout or an unreadable answer,
\* whatever the router has done or will do.
RequestFails(p) ==
  /\ Step(p, "router", "failed")
  /\ UNCHANGED <<database, router, memory>>

-----------------------------------------------------------------------------
(* POST /api/hotspot/profiles/{id}/sync/ *)

SyncLoad(p, r) ==
  /\ profile[r] # Null
  /\ Arrive(p, "sync", "router", r, profile[r])
  /\ sent' = sent \cup {p}
  /\ UNCHANGED <<database, remote, guest, answer>>

\* result.get(".id", "")
ReportedId(p) == IF answer[p] = "created" THEN remote[p].id ELSE Null

\* Mutant: mk_id is set and not saved.
LinkUnsaved(p) ==
  /\ Step(p, "link", "done")
  /\ UNCHANGED <<database, router, memory>>

\* Mutant: save() without update_fields.
LinkSavesRow(p) ==
  /\ Step(p, "link", "done")
  /\ profile' = [profile EXCEPT ![target[p]] = [instance[p] EXCEPT !.mk_id = ReportedId(p)]]
  /\ UNCHANGED <<hotspot_user, router, memory>>

\* Mutant: filter(name=...).update(mk_id=...), whatever the router of the rows.
LinkNamesakes(p) ==
  /\ Step(p, "link", "done")
  /\ profile' = [r \in Ids |->
       IF profile[r] # Null /\ profile[r].name = instance[p].name
       THEN [profile[r] EXCEPT !.mk_id = ReportedId(p)] ELSE profile[r]]
  /\ UNCHANGED <<hotspot_user, router, memory>>

\* save(update_fields=["mk_id"]) fails if there is no row.
Link(p) ==
  /\ Step(p, "link", IF profile[target[p]] # Null THEN "done" ELSE "failed")
  /\ profile' = IF profile[target[p]] = Null THEN profile
                ELSE [profile EXCEPT ![target[p]].mk_id = ReportedId(p)]
  /\ UNCHANGED <<hotspot_user, router, memory>>

-----------------------------------------------------------------------------
(* POST /api/hotspot/users/ *)

\* HotspotUserWriteSerializer's UniqueTogetherValidator finds a row.
Registered(username) == username \in hotspot_user

CreateUser(p, username) ==
  /\ ~Registered(username)
  /\ Arrive(p, "create_user", "router", username, Null)
  /\ sent' = sent \cup {p}
  /\ UNCHANGED <<database, remote, guest, answer>>

\* serializer.save(mk_id=...) hands the submitted password to HotspotUser(),
\* which has no such field: TypeError, and no row.
PersistUser(p) ==
  /\ Step(p, "persist", "failed")
  /\ UNCHANGED <<database, router, memory>>

\* The worker that serves p dies.
Crash(p) ==
  /\ p \in InFlight
  /\ pc' = [pc EXCEPT ![p] = "crashed"]
  /\ UNCHANGED <<database, router, memory>>

-----------------------------------------------------------------------------

Load(p) ==
  \/ \E body \in Bodies : Create(p, body)
  \/ \E r \in Ids :
       SyncLoad(p, r) \/ DestroyLoad(p, r) \/ \E body \in Bodies : UpdateLoad(p, r, body)
  \/ \E username \in Usernames : CreateUser(p, username)

\* What the thread serving p may do next.
Serve(p) ==
  \/ UpdateSave(p)
  \/ DestroyDelete(p)
  \/ AnswerReceived(p)
  \/ RequestFails(p)
  \/ Link(p)
  \/ PersistUser(p)

Network(p) ==
  \/ RouterCreatesProfile(p)
  \/ RouterPatchesProfile(p)
  \/ RouterCreatesUser(p)
  \/ RouterRefuses(p)
  \/ RouterMisses(p)

Next == \E p \in Requests : Load(p) \/ Serve(p) \/ Network(p) \/ Crash(p)

Spec == Init /\ [][Next]_vars

\* Threads go on when they can.  Nothing is asked of the router or the network.
FairSpec == Spec /\ \A p \in Requests : WF_vars(Serve(p))

-----------------------------------------------------------------------------
(* Properties *)

Syncs(r) == {p \in Requests : endpoint[p] = "sync" /\ target[p] = r}
SavedEdits(r) ==
  {p \in Requests : endpoint[p] = "update" /\ pc[p] = "done" /\ target[p] = r}

\* Profile m of a router was there for row r from the start, or made by a sync of it
\* that ended well.
Linked(m, r) ==
  /\ remote[m] # Null
  /\ IF m \in Seeds THEN m = r ELSE m \in Syncs(r) /\ Creates(m) /\ pc[m] = "done"

\* An edit has put row r on this router.
MovedTo(r, device) == \E q \in SavedEdits(r) : instance[q].router = device

\* The .id a row records is that of a profile which a sync of this very row made,
\* whatever edits, deletions, lost answers and other syncs came in between, and on
\* the row's router unless an edit, which keeps the link, has moved the row there.
LinksAreTrue ==
  \A r \in Ids :
    profile[r] # Null /\ profile[r].mk_id # Null =>
      \E m \in Ids :
        /\ Linked(m, r) /\ remote[m].id = profile[r].mk_id
        /\ remote[m].router = profile[r].router \/ MovedTo(r, profile[r].router)

\* A profile that a sync has linked stays the one its row records, unless the row was
\* deleted, was moved to another router, records a profile that another sync linked,
\* or records none, because of an answer without .id or of an edit that had loaded the
\* row before the link was made and saved it after.
OrphansAreExplained ==
  \A r, m \in Ids :
    Linked(m, r) /\ profile[r] # Null =>
      \/ profile[r].mk_id = remote[m].id /\ profile[r].router = remote[m].router
      \/ profile[r].router # remote[m].router /\ MovedTo(r, profile[r].router)
      \/ \E n \in Ids \ {m} : Linked(n, r) /\ profile[r].mk_id = remote[n].id
      \/ /\ profile[r].mk_id = Null
         /\ \/ \E q \in Syncs(r) : pc[q] = "done" /\ answer[q] = "unnamed"
            \/ \E q \in SavedEdits(r) : instance[q].mk_id = Null

\* The row that profile m of a router was made for.
MadeFor(m) == IF m \in Seeds THEN m ELSE target[m]

\* A router has only settings that a sync loaded from the very row a profile was made
\* for, or from a row that an edit put on this router with the .id another had given:
\* its next sync writes on whatever has this .id there.
RemoteSettingsWereLocal ==
  \A m \in Ids, field \in {"name", "rate", "timeout"} :
    remote[m] # Null =>
      \/ remote[m][field] = Blank
      \/ m \in Seeds /\ remote[m][field] = SeedRow[m][field]
      \/ \E q \in Requests :
           /\ endpoint[q] = "sync" /\ instance[q][field] = remote[m][field]
           /\ \/ target[q] = MadeFor(m)
              \/ /\ MovedTo(target[q], remote[m].router)
                 /\ instance[q].router = remote[m].router /\ instance[q].mk_id = remote[m].id

\* What edits and syncs have loaded from each row.
RowsRead ==
  [r \in Ids |->
     {instance[q] :
        q \in {p \in Requests : endpoint[p] \in {"update", "sync"} /\ target[p] = r}}]

MadeForRow == [m \in Ids |-> IF remote[m] = Null THEN Null ELSE MadeFor(m)]

Mirror == INSTANCE ProfileMirror WITH read <- RowsRead, made_for <- MadeForRow

\* Call by call, and however late or lost, the requests do to the rows and to the
\* routers' profiles what ProfileMirror promises.
ImplementsMirror == Mirror!Spec

\* A request that waits for the router is answered even if the router is not
\* there, by the client's timeout.
EveryRequestIsAnswered ==
  \A p \in Requests : p \in InFlight ~> p \notin InFlight

-----------------------------------------------------------------------------
(* Statements of the documentation that the code does not live up to *)

\* "Create the user on the router first, then persist locally": when the router
\* has confirmed a user, the row is written before the request ends.
CreatedUserIsPersisted ==
  [][\A p \in Requests :
       pc[p] = "persist" /\ pc'[p] \in {"done", "failed"} =>
         target[p] \in hotspot_user']_vars
=============================================================================

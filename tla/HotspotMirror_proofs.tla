-------------------------- MODULE HotspotMirror_proofs ------------------------
(***************************************************************************)
(* Proofs about HotspotMirror, for any number of requests, routers, .id's, *)
(* names and profiles there before.                                        *)
(*                                                                         *)
(* The argument follows the .id's.  A profile of a router keeps the router *)
(* and the .id it was made with.  What a row, or a request that loaded it, *)
(* records is the .id of a profile linked to that row; and the router a    *)
(* row is on is the one where its profiles were made, or an edit's.        *)
(***************************************************************************)
EXTENDS HotspotMirror, TLAPS

AboutProfile == {"update", "destroy", "sync"}

\* Row r has been linked to a profile of this .id.
HasLink(r, id) == \E m \in Ids : Linked(m, r) /\ remote[m].id = id

\* And was then on the router of this profile, or moved by an edit.
LinkedAs(r, row) ==
  \E m \in Ids :
    /\ Linked(m, r) /\ remote[m].id = row.mk_id
    /\ remote[m].router = row.router \/ MovedTo(r, row.router)

\* Which endpoints come by each point, and what they hold there.
Control(p) ==
  /\ pc[p] = "idle" =>
       endpoint[p] = "none" /\ p \notin sent /\ answer[p] = "none" /\ remote[p] = Null
  /\ pc[p] = "save" => endpoint[p] = "update"
  /\ pc[p] = "delete" => endpoint[p] = "destroy"
  /\ pc[p] = "router" => endpoint[p] \in {"sync", "create_user"}
  /\ pc[p] = "link" => endpoint[p] = "sync" /\ answer[p] \in {"created", "unnamed"}
  /\ pc[p] = "persist" => endpoint[p] = "create_user"
  /\ endpoint[p] \in AboutProfile =>
       /\ target[p] \in Ids
       /\ target[p] \in Requests => pc[target[p]] = "done" /\ endpoint[target[p]] = "create"
  /\ endpoint[p] \in {"update", "sync"} =>
       /\ instance[p] \in Row
       /\ instance[p].mk_id # Null => HasLink(target[p], instance[p].mk_id)
  /\ endpoint[p] = "sync" /\ instance[p].mk_id # Null => LinkedAs(target[p], instance[p])

\* What has become of its call to the router.
Exchange(p) ==
  /\ p \in sent =>
       endpoint[p] \in {"sync", "create_user"} /\ answer[p] = "none" /\ remote[p] = Null
  /\ answer[p] # "none" => endpoint[p] \in {"sync", "create_user"}
  /\ endpoint[p] = "create_user" => target[p] \in Usernames
  /\ remote[p] # Null => endpoint[p] = "sync" /\ Creates(p)
  /\ endpoint[p] = "sync" =>
       /\ answer[p] \in {"created", "unnamed"} => Creates(p) /\ remote[p] # Null
       /\ answer[p] = "updated" => ~Creates(p)
       /\ pc[p] = "done" /\ Creates(p) => remote[p] # Null

\* A profile is on the router where it was made, alone with its .id.
Identified(m) ==
  remote[m] # Null =>
    /\ remote[m].router = (IF m \in Seeds THEN SeedRow[m].router ELSE instance[m].router)
    /\ \A n \in Ids \ {m} :
         remote[n] # Null /\ remote[n].router = remote[m].router => remote[n].id # remote[m].id

\* This is the router of row r, or an edit has moved it since.
OnOrMoved(r, device) == device = profile[r].router \/ MovedTo(r, profile[r].router)

\* Row r records nothing because of an answer without .id, or of an edit.
Unlinked(r) ==
  \/ \E q \in Syncs(r) : pc[q] = "done" /\ answer[q] = "unnamed"
  \/ \E q \in SavedEdits(r) : instance[q].mk_id = Null

RowInvariant(r) ==
  /\ r \in Requests => pc[r] = "done" /\ endpoint[r] = "create"
  /\ r \in Seeds => OnOrMoved(r, SeedRow[r].router)
  /\ \A q \in Syncs(r) : OnOrMoved(r, instance[q].router)
  /\ profile[r].mk_id # Null => LinkedAs(r, profile[r])
  /\ profile[r].mk_id = Null => Unlinked(r) \/ \A m \in Ids : ~Linked(m, r)

Rows == \A r \in Ids : profile[r] # Null => RowInvariant(r)

IInv ==
  /\ TypeOK
  /\ \A p \in Requests : Control(p) /\ Exchange(p)
  /\ \A m \in Ids : Identified(m)
  /\ Rows
  /\ RemoteSettingsWereLocal

-----------------------------------------------------------------------------
(* Operators *)

LEMMA NewRowType ==
  ASSUME NEW body \in Bodies, body.router # Null, body.name # Null
  PROVE  NewRow(body) \in Row /\ NewRow(body).mk_id = Null
BY ConstantsAssumption DEF NewRow, Row, Body

LEMMA EditedType ==
  ASSUME NEW row \in Row, NEW body \in Bodies
  PROVE  Edited(row, body) \in Row /\ Edited(row, body).mk_id = row.mk_id
BY ConstantsAssumption DEF Edited, Row, Body

LEMMA DoubleType ==
  ASSUME NEW row \in Row, NEW id \in MkIds
  PROVE  /\ Double(row, id) \in RemoteProfile
         /\ Double(row, id).router = row.router /\ Double(row, id).id = id
         /\ Double(row, id).name = row.name /\ Double(row, id).rate = row.rate
         /\ Double(row, id).timeout = row.timeout
BY DEF Double, Row, RemoteProfile

LEMMA CreatedType ==
  ASSUME NEW p, instance[p] \in Row, NEW id \in MkIds
  PROVE  /\ CreatedProfile(p, id) \in RemoteProfile
         /\ CreatedProfile(p, id).router = instance[p].router
         /\ CreatedProfile(p, id).id = id
         /\ CreatedProfile(p, id).name = instance[p].name
         /\ CreatedProfile(p, id).rate = instance[p].rate
         /\ CreatedProfile(p, id).timeout = Blank
BY DEF CreatedProfile, Double, Row, RemoteProfile

LEMMA PatchedType ==
  ASSUME NEW p, instance[p] \in Row, NEW old \in RemoteProfile
  PROVE  /\ PatchedProfile(p, old) \in RemoteProfile
         /\ PatchedProfile(p, old).router = old.router
         /\ PatchedProfile(p, old).id = old.id
         /\ PatchedProfile(p, old).name = instance[p].name
         /\ PatchedProfile(p, old).rate \in {old.rate, instance[p].rate}
         /\ PatchedProfile(p, old).timeout \in {old.timeout, instance[p].timeout}
BY DEF PatchedProfile, Row, RemoteProfile

\* A creation on a router, at the profile of the request.
LEMMA CreationStep ==
  ASSUME IInv, NEW p \in Requests, RouterCreatesProfile(p)
  PROVE  /\ p \in sent /\ endpoint[p] = "sync" /\ Creates(p) /\ remote[p] = Null
         /\ target[p] \in Ids /\ instance[p] \in Row /\ instance[p].mk_id = Null
         /\ UNCHANGED <<database, memory, pc, guest>> /\ sent' = sent \ {p}
         /\ \/ answer' = [answer EXCEPT ![p] = "created"]
            \/ answer' = [answer EXCEPT ![p] = "unnamed"]
         /\ \E id \in MkIds :
              /\ remote' = [remote EXCEPT ![p] = CreatedProfile(p, id)]
              /\ CreatedProfile(p, id) \in RemoteProfile
              /\ \A m \in Around(p) : remote[m].id # id
<1>1. Control(p) /\ Exchange(p)
  BY DEF IInv
<1>2. endpoint[p] = "sync" /\ instance[p] \in Row /\ instance[p].mk_id = Null
  BY <1>1 DEF RouterCreatesProfile, Creates, Control
<1>3. PICK id \in MkIds \ {remote[m].id : m \in Around(p)} :
        remote' = [remote EXCEPT ![p] = CreatedProfile(p, id)]
  BY DEF RouterCreatesProfile
<1>4. CreatedProfile(p, id) \in RemoteProfile
  BY <1>2, <1>3, CreatedType
<1>5. \A m \in Around(p) : remote[m].id # id
  BY <1>3
<1> QED
  BY <1>1, <1>2, <1>3, <1>4, <1>5
     DEF RouterCreatesProfile, Answered, Control, Exchange, AboutProfile

\* A PATCH on a router, of some profile that has the .id the request loaded.
LEMMA PatchStep ==
  ASSUME IInv, NEW p \in Requests, RouterPatchesProfile(p)
  PROVE  /\ p \in sent /\ endpoint[p] = "sync" /\ ~Creates(p)
         /\ target[p] \in Ids /\ instance[p] \in Row /\ instance[p].mk_id # Null
         /\ UNCHANGED <<database, memory, pc, guest>> /\ sent' = sent \ {p}
         /\ answer' = [answer EXCEPT ![p] = "updated"]
         /\ \E m \in Ids :
              /\ remote[m] # Null /\ remote[m] \in RemoteProfile
              /\ remote[m].router = instance[p].router /\ remote[m].id = instance[p].mk_id
              /\ remote' = [remote EXCEPT ![m] = PatchedProfile(p, remote[m])]
              /\ PatchedProfile(p, remote[m]) \in RemoteProfile
<1>1. TypeOK /\ Control(p) /\ Exchange(p)
  BY DEF IInv
<1>2. /\ p \in sent /\ endpoint[p] = "sync" /\ ~Creates(p)
      /\ instance[p] \in Row /\ instance[p].mk_id # Null
  BY <1>1 DEF RouterPatchesProfile, Creates, Control
<1>3. PICK m \in Addressed(p) : remote' = [remote EXCEPT ![m] = PatchedProfile(p, remote[m])]
  BY DEF RouterPatchesProfile
<1>4. /\ m \in Ids /\ remote[m] # Null /\ remote[m] \in RemoteProfile
      /\ remote[m].router = instance[p].router /\ remote[m].id = instance[p].mk_id
  BY <1>1, <1>3 DEF Addressed, Around, TypeOK
<1>5. PatchedProfile(p, remote[m]) \in RemoteProfile
  BY <1>2, <1>4, PatchedType
<1> QED
  BY <1>1, <1>2, <1>3, <1>4, <1>5 DEF RouterPatchesProfile, Answered, Control, AboutProfile

-----------------------------------------------------------------------------
(* The steps of a request, by what they change *)

StepOf(p) == Load(p) \/ Serve(p) \/ Network(p) \/ Crash(p)

\* A request is picked up; a creation is answered at once.
Arrival(p) ==
  \E what, to, x, row :
    /\ Arrive(p, what, to, x, row)
    /\ UNCHANGED <<hotspot_user, remote, guest, answer>>
    /\ \/ /\ what = "create" /\ to = "done" /\ x = p /\ row = Null
          /\ \E new \in Row :
               new.mk_id = Null /\ profile' = [profile EXCEPT ![p] = new]
          /\ sent' = sent
       \/ /\ what = "update" /\ to = "save" /\ x \in Ids /\ profile[x] # Null
          /\ row \in Row /\ row.mk_id = profile[x].mk_id
          /\ UNCHANGED <<profile, sent>>
       \/ /\ what = "destroy" /\ to = "delete" /\ x \in Ids /\ profile[x] # Null
          /\ row = Null
          /\ UNCHANGED <<profile, sent>>
       \/ /\ what = "sync" /\ to = "router" /\ x \in Ids /\ profile[x] # Null
          /\ row \in Row /\ row = profile[x]
          /\ profile' = profile /\ sent' = sent \cup {p}
       \/ /\ what = "create_user" /\ to = "router" /\ x \in Usernames /\ row = Null
          /\ profile' = profile /\ sent' = sent \cup {p}

\* It goes on with what it has, or ends.
Progress(p) ==
  /\ UNCHANGED <<database, router, memory>>
  /\ pc[p] \notin {"idle", "done", "failed", "crashed"}
  /\ \/ pc' = [pc EXCEPT ![p] = "failed"]
     \/ pc' = [pc EXCEPT ![p] = "crashed"]
     \/ /\ pc' = [pc EXCEPT ![p] = "done"]
        /\ pc[p] = "router" /\ answer[p] = "updated"
     \/ /\ pc' = [pc EXCEPT ![p] = "link"]
        /\ endpoint[p] = "sync" /\ pc[p] = "router" /\ answer[p] \in {"created", "unnamed"}
     \/ /\ pc' = [pc EXCEPT ![p] = "persist"]
        /\ endpoint[p] = "create_user" /\ pc[p] = "router"

\* Its call has an outcome that leaves the routers' profiles alone.
Outcome(p) ==
  /\ p \in sent /\ sent' = sent \ {p}
  /\ UNCHANGED <<database, remote, memory, pc>>
  /\ guest' \in [Requests -> Usernames \cup {Null}]
  /\ \/ answer' = answer
     \/ answer' = [answer EXCEPT ![p] = "refused"]
     \/ endpoint[p] = "create_user" /\ answer' = [answer EXCEPT ![p] = "created"]

LEMMA Steps ==
  ASSUME IInv, NEW p \in Requests, StepOf(p)
  PROVE  \/ Arrival(p)
         \/ Progress(p)
         \/ Outcome(p)
         \/ UpdateSave(p)
         \/ DestroyDelete(p)
         \/ Link(p)
         \/ RouterCreatesProfile(p)
         \/ RouterPatchesProfile(p)
<1>0. TypeOK /\ Control(p) /\ Exchange(p)
  BY DEF IInv
<1>1. ASSUME NEW body \in Bodies, Create(p, body)
      PROVE  Arrival(p)
  <2>1. NewRow(body) \in Row /\ NewRow(body).mk_id = Null
    BY <1>1, NewRowType DEF Create
  <2>2. /\ Arrive(p, "create", "done", p, Null)
        /\ profile' = [profile EXCEPT ![p] = NewRow(body)]
        /\ UNCHANGED <<hotspot_user, router>>
    BY <1>1 DEF Create
  <2> QED
    BY <2>1, <2>2 DEF Arrival, router
<1>2. ASSUME NEW r \in Ids, SyncLoad(p, r) PROVE Arrival(p)
  BY <1>0, <1>2 DEF SyncLoad, Arrival, database, TypeOK
<1>3. ASSUME NEW r \in Ids, DestroyLoad(p, r) PROVE Arrival(p)
  BY <1>3 DEF DestroyLoad, Arrival, database, router
<1>4. ASSUME NEW r \in Ids, NEW body \in Bodies, UpdateLoad(p, r, body)
      PROVE  Arrival(p)
  <2>1. /\ profile[r] # Null /\ Arrive(p, "update", "save", r, Edited(profile[r], body))
        /\ UNCHANGED <<database, router>>
    BY <1>4 DEF UpdateLoad
  <2>2. Edited(profile[r], body) \in Row /\ Edited(profile[r], body).mk_id = profile[r].mk_id
    BY <1>0, <2>1, EditedType DEF TypeOK
  <2> QED
    BY <2>1, <2>2 DEF Arrival, database, router
<1>5. ASSUME NEW username \in Usernames, CreateUser(p, username)
      PROVE  Arrival(p)
  BY <1>5 DEF CreateUser, Arrival, database
<1>6. CASE AnswerReceived(p)
  <2>1. pc[p] = "router" /\ UNCHANGED <<database, router, memory>> /\ answer[p] # "none"
        /\ pc' = [pc EXCEPT ![p] =
                    CASE answer[p] = "refused" -> "failed"
                      [] answer[p] = "updated" -> "done"
                      [] OTHER -> IF endpoint[p] = "sync" THEN "link" ELSE "persist"]
    BY <1>6 DEF AnswerReceived, Step
  <2>2. answer[p] \in {"created", "unnamed", "updated", "refused"}
        /\ endpoint[p] \in {"sync", "create_user"}
    BY <1>0, <2>1 DEF TypeOK, Control
  <2> QED
    BY <2>1, <2>2 DEF Progress
<1>7. CASE RequestFails(p) \/ PersistUser(p) \/ Crash(p)
  BY <1>7 DEF RequestFails, PersistUser, Crash, InFlight, Step, Progress
<1>8. CASE RouterCreatesUser(p)
  <2>1. guest' \in [Requests -> Usernames \cup {Null}]
    <3>1. endpoint[p] = "create_user" /\ guest' = [guest EXCEPT ![p] = target[p]]
      BY <1>8 DEF RouterCreatesUser
    <3> QED
      BY <1>0, <3>1 DEF TypeOK, Exchange
  <2> QED
    BY <1>8, <2>1 DEF RouterCreatesUser, Answered, Outcome
<1>9. CASE RouterRefuses(p) \/ RouterMisses(p)
  BY <1>0, <1>9 DEF RouterRefuses, RouterMisses, Answered, Outcome, TypeOK
<1> QED
  BY <1>1, <1>2, <1>3, <1>4, <1>5, <1>6, <1>7, <1>8, <1>9
     DEF StepOf, Load, Serve, Network

-----------------------------------------------------------------------------
(* Types *)

LEMMA TypeNext ==
  ASSUME IInv, NEW p \in Requests, StepOf(p)
  PROVE  TypeOK'
<1>0. TypeOK /\ Control(p) /\ Exchange(p) /\ p \in Ids
  BY DEF IInv, Ids
<1>1. CASE Arrival(p)
  <2>1. PICK what, to, x, row :
          /\ Arrive(p, what, to, x, row)
          /\ what \in {"create", "update", "destroy", "sync", "create_user"}
          /\ to \in {"done", "save", "delete", "router"}
          /\ x \in Ids \cup Usernames /\ row \in Row \cup {Null}
    BY <1>0, <1>1 DEF Arrival
  <2>2. /\ profile' \in [Ids -> Row \cup {Null}] /\ sent' \subseteq Requests
        /\ UNCHANGED <<hotspot_user, remote, guest, answer>>
    BY <1>0, <1>1 DEF Arrival, TypeOK
  <2> QED
    BY <1>0, <2>1, <2>2 DEF Arrive, Step, TypeOK
<1>2. CASE Progress(p)
  BY <1>0, <1>2 DEF Progress, database, router, memory, TypeOK
<1>3. CASE Outcome(p)
  BY <1>0, <1>3 DEF Outcome, database, memory, TypeOK
<1>4. CASE UpdateSave(p)
  <2>1. target[p] \in Ids /\ instance[p] \in Row
    BY <1>0, <1>4 DEF UpdateSave, Control, AboutProfile
  <2> QED
    BY <1>0, <1>4, <2>1 DEF UpdateSave, Step, router, memory, TypeOK
<1>5. CASE DestroyDelete(p)
  BY <1>0, <1>5 DEF DestroyDelete, Step, router, memory, TypeOK
<1>6. CASE Link(p)
  <2>1. target[p] \in Ids /\ ReportedId(p) \in MkIds \cup {Null}
    <3>1. endpoint[p] = "sync" /\ remote[p] # Null
      BY <1>0, <1>6 DEF Link, Step, Control, Exchange
    <3> QED
      BY <1>0, <3>1 DEF Control, AboutProfile, ReportedId, TypeOK, RemoteProfile
  <2>2. profile' \in [Ids -> Row \cup {Null}]
    <3>1. profile' = profile \/ profile' = [profile EXCEPT ![target[p]].mk_id = ReportedId(p)]
      BY <1>6 DEF Link
    <3>2. profile[target[p]] # Null => profile[target[p]] \in Row
      BY <1>0, <2>1 DEF TypeOK
    <3>3. profile[target[p]] \in Row =>
            [profile[target[p]] EXCEPT !.mk_id = ReportedId(p)] \in Row
      BY <2>1 DEF Row
    <3> QED
      BY <1>0, <1>6, <2>1, <3>1, <3>2, <3>3 DEF Link, TypeOK
  <2> QED
    BY <1>0, <1>6, <2>2 DEF Link, Step, router, memory, TypeOK
<1>7. CASE RouterCreatesProfile(p)
  BY <1>0, <1>7, CreationStep DEF database, memory, TypeOK
<1>8. CASE RouterPatchesProfile(p)
  BY <1>0, <1>8, PatchStep DEF database, memory, TypeOK
<1> QED
  BY <1>1, <1>2, <1>3, <1>4, <1>5, <1>6, <1>7, <1>8, Steps

-----------------------------------------------------------------------------
(* What a step leaves alone *)

Kept(p) ==
  /\ \A q \in Requests \ {p} :
       /\ pc'[q] = pc[q] /\ endpoint'[q] = endpoint[q] /\ target'[q] = target[q]
       /\ instance'[q] = instance[q] /\ answer'[q] = answer[q]
       /\ q \in sent' <=> q \in sent
  /\ \A q \in Requests :
       /\ pc[q] # "idle" =>
            /\ pc'[q] # "idle" /\ endpoint'[q] = endpoint[q] /\ target'[q] = target[q]
            /\ instance'[q] = instance[q]
       /\ pc[q] = "done" => pc'[q] = "done"
       /\ answer[q] # "none" => answer'[q] = answer[q]
  /\ \A m \in Ids :
       /\ remote[m] # Null =>
            /\ remote'[m] # Null
            /\ remote'[m].router = remote[m].router /\ remote'[m].id = remote[m].id
       /\ m # p /\ remote'[m] # Null => remote[m] # Null

LEMMA KeptNext ==
  ASSUME IInv, NEW p \in Requests, StepOf(p)
  PROVE  Kept(p)
<1>0. TypeOK /\ Control(p) /\ Exchange(p) /\ Null \notin RemoteProfile /\ p \in Ids
  BY NullAssumption DEF IInv, Ids
<1>1. CASE Arrival(p)
  <2>1. PICK what, to, x, row : Arrive(p, what, to, x, row)
    BY <1>1 DEF Arrival
  <2>2. /\ UNCHANGED <<remote, answer>> /\ sent' \in {sent, sent \cup {p}} /\ to # "idle"
    BY <1>0, <1>1, <2>1 DEF Arrival, Arrive, Step, TypeOK
  <2> QED
    BY <1>0, <2>1, <2>2 DEF Arrive, Step, TypeOK, Kept
<1>2. CASE Progress(p)
  BY <1>0, <1>2 DEF Progress, router, memory, TypeOK, Kept
<1>3. CASE Outcome(p)
  BY <1>0, <1>3 DEF Outcome, memory, Exchange, TypeOK, Kept
<1>4. CASE UpdateSave(p) \/ DestroyDelete(p) \/ Link(p)
  BY <1>0, <1>4 DEF UpdateSave, DestroyDelete, Link, Step, router, memory, TypeOK, Kept
<1>5. CASE RouterCreatesProfile(p)
  <2>1. /\ p \in sent /\ remote[p] = Null /\ UNCHANGED <<memory, pc>> /\ sent' = sent \ {p}
        /\ \/ answer' = [answer EXCEPT ![p] = "created"]
           \/ answer' = [answer EXCEPT ![p] = "unnamed"]
    BY <1>5, CreationStep
  <2>2. \A m \in Ids \ {p} : remote'[m] = remote[m]
    BY <1>0, <1>5, CreationStep DEF TypeOK
  <2> QED
    BY <1>0, <2>1, <2>2 DEF memory, Exchange, TypeOK, Kept
<1>6. CASE RouterPatchesProfile(p)
  <2>1. /\ p \in sent /\ UNCHANGED <<memory, pc>> /\ sent' = sent \ {p}
        /\ answer' = [answer EXCEPT ![p] = "updated"] /\ instance[p] \in Row
    BY <1>6, PatchStep
  <2>2. PICK m \in Ids :
          /\ remote[m] # Null /\ remote[m] \in RemoteProfile
          /\ remote' = [remote EXCEPT ![m] = PatchedProfile(p, remote[m])]
    BY <1>6, PatchStep
  <2>3. /\ remote'[m] = PatchedProfile(p, remote[m])
        /\ \A n \in Ids \ {m} : remote'[n] = remote[n]
        /\ remote'[m] # Null
        /\ remote'[m].router = remote[m].router /\ remote'[m].id = remote[m].id
    BY <1>0, <2>1, <2>2, PatchedType DEF TypeOK
  <2> QED
    BY <1>0, <2>1, <2>2, <2>3 DEF memory, Exchange, TypeOK, Kept
<1> QED
  BY <1>1, <1>2, <1>3, <1>4, <1>5, <1>6, Steps

\* Links and moves that have happened stay so.
LEMMA LinkedKept ==
  ASSUME IInv, NEW p \in Requests, Kept(p)
  PROVE  /\ \A m \in Ids : \A r : Linked(m, r) => Linked(m, r)'
         /\ \A r, device : MovedTo(r, device) => MovedTo(r, device)'
         /\ \A r, id : HasLink(r, id) => HasLink(r, id)'
         /\ \A r, row : LinkedAs(r, row) => LinkedAs(r, row)'
<1>1. ASSUME NEW m \in Ids, NEW r, Linked(m, r) PROVE Linked(m, r)'
  <2>1. remote'[m] # Null
    BY <1>1 DEF Kept, Linked
  <2>2. m \notin Seeds => m \in Syncs(r) /\ Creates(m) /\ pc[m] = "done"
    BY <1>1 DEF Linked
  <2>3. m \notin Seeds => (m \in Syncs(r) /\ Creates(m) /\ pc[m] = "done")'
    BY <2>2 DEF Kept, Syncs, Creates
  <2>4. m \in Seeds => m = r
    BY <1>1 DEF Linked
  <2> QED
    BY <2>1, <2>3, <2>4 DEF Linked
<1>2. ASSUME NEW r, NEW device, MovedTo(r, device) PROVE MovedTo(r, device)'
  <2>1. PICK q \in SavedEdits(r) : instance[q].router = device
    BY <1>2 DEF MovedTo
  <2>2. q \in SavedEdits(r)' /\ instance'[q] = instance[q]
    BY <2>1 DEF Kept, SavedEdits
  <2> QED
    BY <2>1, <2>2 DEF MovedTo
<1>3. ASSUME NEW r, NEW id, HasLink(r, id) PROVE HasLink(r, id)'
  <2>1. PICK m \in Ids : Linked(m, r) /\ remote[m].id = id
    BY <1>3 DEF HasLink
  <2>2. Linked(m, r)' /\ remote'[m].id = id
    BY <1>1, <2>1 DEF Kept, Linked
  <2> QED
    BY <2>2 DEF HasLink
<1>4. ASSUME NEW r, NEW row, LinkedAs(r, row) PROVE LinkedAs(r, row)'
  <2>1. PICK m \in Ids :
          /\ Linked(m, r) /\ remote[m].id = row.mk_id
          /\ remote[m].router = row.router \/ MovedTo(r, row.router)
    BY <1>4 DEF LinkedAs
  <2>2. /\ Linked(m, r)' /\ remote'[m].id = row.mk_id
        /\ remote'[m].router = row.router \/ MovedTo(r, row.router)'
    BY <1>1, <1>2, <2>1 DEF Kept, Linked
  <2> QED
    BY <2>2 DEF LinkedAs
<1> QED
  BY <1>1, <1>2, <1>3, <1>4

LEMMA OthersInvariant ==
  ASSUME IInv, NEW p \in Requests, StepOf(p), NEW q \in Requests \ {p}
  PROVE  (Control(q) /\ Exchange(q))'
<1>1. Kept(p) /\ Control(q) /\ Exchange(q) /\ q \in Ids
  BY KeptNext DEF IInv, Ids
<1>2. HasLink(target[q], instance[q].mk_id) => HasLink(target[q], instance[q].mk_id)'
  BY <1>1, LinkedKept DEF Kept
<1>3. LinkedAs(target[q], instance[q]) => LinkedAs(target[q], instance[q])'
  BY <1>1, LinkedKept DEF Kept
<1>4. \A r \in Requests :
        pc[r] = "done" /\ endpoint[r] = "create" => pc'[r] = "done" /\ endpoint'[r] = "create"
  BY <1>1 DEF Kept
<1>5. /\ pc'[q] = pc[q] /\ endpoint'[q] = endpoint[q] /\ target'[q] = target[q]
      /\ instance'[q] = instance[q] /\ answer'[q] = answer[q] /\ (q \in sent' <=> q \in sent)
      /\ remote'[q] # Null <=> remote[q] # Null
  BY <1>1 DEF Kept
<1>6. Control(q)'
  BY <1>1, <1>2, <1>3, <1>4, <1>5 DEF Control
<1>7. Exchange(q)'
  BY <1>1, <1>5 DEF Exchange, Creates
<1> QED
  BY <1>6, <1>7

LEMMA ActorInvariant ==
  ASSUME IInv, NEW p \in Requests, StepOf(p)
  PROVE  (Control(p) /\ Exchange(p))'
<1>0. /\ TypeOK /\ Control(p) /\ Exchange(p) /\ Rows /\ Kept(p)
      /\ Null \notin RemoteProfile /\ p \in Ids
  BY KeptNext, NullAssumption DEF IInv, Ids
<1>m. /\ \A r, id : HasLink(r, id) => HasLink(r, id)'
      /\ \A r, row : LinkedAs(r, row) => LinkedAs(r, row)'
  BY <1>0, LinkedKept
<1>c. \A r \in Requests :
        pc[r] = "done" /\ endpoint[r] = "create" => pc'[r] = "done" /\ endpoint'[r] = "create"
  BY <1>0 DEF Kept
<1>k. ASSUME pc[p] # "idle"
      PROVE  /\ endpoint'[p] = endpoint[p] /\ target'[p] = target[p] /\ instance'[p] = instance[p]
             /\ endpoint[p] \in AboutProfile =>
                  /\ target[p] \in Ids
                  /\ target[p] \in Requests =>
                       pc'[target[p]] = "done" /\ endpoint'[target[p]] = "create"
             /\ endpoint[p] \in {"update", "sync"} =>
                  /\ instance[p] \in Row
                  /\ instance[p].mk_id # Null => HasLink(target[p], instance[p].mk_id)'
             /\ endpoint[p] = "sync" /\ instance[p].mk_id # Null =>
                  LinkedAs(target[p], instance[p])'
  <2>1. endpoint'[p] = endpoint[p] /\ target'[p] = target[p] /\ instance'[p] = instance[p]
    BY <1>0, <1>k DEF Kept
  <2>2. HasLink(target[p], instance[p].mk_id) => HasLink(target[p], instance[p].mk_id)'
    BY <1>m, <2>1
  <2>3. LinkedAs(target[p], instance[p]) => LinkedAs(target[p], instance[p])'
    BY <1>m, <2>1
  <2> QED
    BY <1>0, <1>c, <2>1, <2>2, <2>3 DEF Control
<1>1. CASE Arrival(p)
  <2>1. PICK what, to, x, row :
          /\ Arrive(p, what, to, x, row)
          /\ UNCHANGED <<remote, answer>>
          /\ \/ /\ what = "create" /\ to = "done" /\ sent' = sent
             \/ /\ what = "update" /\ to = "save" /\ x \in Ids /\ profile[x] # Null
                /\ row \in Row /\ row.mk_id = profile[x].mk_id /\ sent' = sent
             \/ /\ what = "destroy" /\ to = "delete" /\ x \in Ids /\ profile[x] # Null
                /\ sent' = sent
             \/ /\ what = "sync" /\ to = "router" /\ x \in Ids /\ profile[x] # Null
                /\ row \in Row /\ row = profile[x]
             \/ /\ what = "create_user" /\ to = "router" /\ x \in Usernames
    BY <1>1 DEF Arrival
  <2>2. /\ pc[p] = "idle" /\ pc'[p] = to /\ endpoint'[p] = what /\ target'[p] = x
        /\ instance'[p] = row
    BY <1>0, <2>1 DEF Arrive, Step, TypeOK
  <2>3. p \notin sent /\ answer[p] = "none" /\ remote[p] = Null
    BY <1>0, <2>2 DEF Control
  <2>4. what \in AboutProfile =>
          /\ x \in Ids
          /\ x \in Requests => pc'[x] = "done" /\ endpoint'[x] = "create"
    BY <1>0, <1>c, <2>1 DEF Rows, RowInvariant, AboutProfile
  <2>5. what \in {"update", "sync"} => x \in Ids /\ profile[x] # Null /\ row \in Row
                                        /\ row.mk_id = profile[x].mk_id
    BY <2>1
  <2>6. what \in {"update", "sync"} /\ row.mk_id # Null => LinkedAs(x, profile[x])
    BY <1>0, <2>5 DEF Rows, RowInvariant
  <2>7. what \in {"update", "sync"} /\ row.mk_id # Null => HasLink(x, row.mk_id)'
    <3>1. what \in {"update", "sync"} /\ row.mk_id # Null => HasLink(x, row.mk_id)
      BY <2>5, <2>6 DEF LinkedAs, HasLink
    <3> QED
      BY <1>m, <3>1
  <2>8. what = "sync" /\ row.mk_id # Null => LinkedAs(x, row)'
    <3>1. what = "sync" => row = profile[x]
      BY <2>1
    <3> QED
      BY <1>m, <2>6, <3>1
  <2>9. Control(p)'
    <3>1. HasLink(target[p], instance[p].mk_id)' <=> HasLink(x, row.mk_id)'
      BY <2>2 DEF HasLink
    <3>2. LinkedAs(target[p], instance[p])' <=> LinkedAs(x, row)'
      BY <2>2 DEF LinkedAs
    <3> QED
      BY <2>1, <2>2, <2>4, <2>5, <2>7, <2>8, <3>1, <3>2 DEF Control
  <2>10. Exchange(p)'
    BY <2>1, <2>2, <2>3 DEF Exchange
  <2> QED
    BY <2>9, <2>10
<1>i. ASSUME pc[p] # "idle", pc'[p] # "idle",
             pc'[p] = "save" => endpoint[p] = "update",
             pc'[p] = "delete" => endpoint[p] = "destroy",
             pc'[p] = "router" => endpoint[p] \in {"sync", "create_user"},
             pc'[p] = "link" => endpoint[p] = "sync" /\ answer'[p] \in {"created", "unnamed"},
             pc'[p] = "persist" => endpoint[p] = "create_user"
      PROVE  Control(p)'
  BY <1>i, <1>k DEF Control
<1>2. CASE Progress(p)
  <2>1. /\ pc[p] # "idle" /\ UNCHANGED <<remote, sent, answer>>
        /\ \/ pc'[p] \in {"failed", "crashed"}
           \/ pc'[p] = "done" /\ answer[p] = "updated"
           \/ pc'[p] = "link" /\ endpoint[p] = "sync" /\ answer[p] \in {"created", "unnamed"}
           \/ pc'[p] = "persist" /\ endpoint[p] = "create_user"
    BY <1>0, <1>2 DEF Progress, router, TypeOK
  <2>2. Control(p)'
    BY <1>i, <2>1
  <2>3. Exchange(p)'
    BY <1>0, <1>k, <2>1 DEF Exchange, Creates
  <2> QED
    BY <2>2, <2>3
<1>3. CASE Outcome(p)
  <2>1. /\ pc'[p] = pc[p] /\ remote'[p] = remote[p] /\ p \in sent /\ p \notin sent'
        /\ \/ answer'[p] \in {answer[p], "refused"}
           \/ endpoint[p] = "create_user" /\ answer'[p] = "created"
    BY <1>0, <1>3 DEF Outcome, TypeOK
  <2>2. pc[p] \notin {"idle", "link"}
    BY <1>0, <2>1 DEF Control, Exchange
  <2>3. Control(p)'
    BY <1>0, <1>i, <2>1, <2>2 DEF Control
  <2>4. Exchange(p)'
    BY <1>0, <1>k, <2>1, <2>2 DEF Exchange, Creates
  <2> QED
    BY <2>3, <2>4
<1>4. CASE UpdateSave(p) \/ DestroyDelete(p)
  <2>1. /\ UNCHANGED <<remote, sent, answer>>
        /\ pc'[p] \in {"done", "failed"} /\ pc[p] \in {"save", "delete"}
    BY <1>0, <1>4 DEF UpdateSave, DestroyDelete, Step, router, TypeOK
  <2>2. Control(p)'
    BY <1>i, <2>1
  <2>3. Exchange(p)'
    BY <1>0, <1>k, <2>1 DEF Control, Exchange, Creates
  <2> QED
    BY <2>2, <2>3
<1>5. CASE Link(p)
  <2>1. /\ UNCHANGED <<remote, sent, answer>>
        /\ pc'[p] \in {"done", "failed"} /\ pc[p] = "link"
    BY <1>0, <1>5 DEF Link, Step, router, TypeOK
  <2>2. Control(p)'
    BY <1>i, <2>1
  <2>3. Exchange(p)'
    BY <1>0, <1>k, <2>1 DEF Control, Exchange, Creates
  <2> QED
    BY <2>2, <2>3
<1>6. CASE RouterCreatesProfile(p)
  <2>1. /\ p \in sent /\ endpoint[p] = "sync" /\ Creates(p) /\ pc'[p] = pc[p] /\ p \notin sent'
        /\ answer'[p] \in {"created", "unnamed"} /\ remote'[p] # Null
    BY <1>0, <1>6, CreationStep DEF TypeOK
  <2>2. pc[p] # "idle"
    BY <1>0, <2>1 DEF Control
  <2>3. Control(p)'
    BY <1>0, <1>i, <2>1, <2>2 DEF Control
  <2>4. Exchange(p)'
    BY <1>0, <1>k, <2>1, <2>2 DEF Exchange, Creates
  <2> QED
    BY <2>3, <2>4
<1>7. CASE RouterPatchesProfile(p)
  <2>1. /\ p \in sent /\ endpoint[p] = "sync" /\ ~Creates(p) /\ pc'[p] = pc[p] /\ p \notin sent'
        /\ answer'[p] = "updated"
    BY <1>0, <1>7, PatchStep DEF TypeOK
  <2>2. pc[p] \notin {"idle", "link"} /\ remote[p] = Null
    BY <1>0, <2>1 DEF Control, Exchange
  <2>3. remote'[p] = Null
    <3>1. PICK m \in Ids :
            remote[m] # Null /\ remote' = [remote EXCEPT ![m] = PatchedProfile(p, remote[m])]
      BY <1>7, PatchStep
    <3> QED
      BY <1>0, <2>2, <3>1 DEF TypeOK
  <2>4. Control(p)'
    BY <1>0, <1>i, <2>1, <2>2 DEF Control
  <2>5. Exchange(p)'
    BY <1>0, <1>k, <2>1, <2>2, <2>3 DEF Exchange, Creates
  <2> QED
    BY <2>4, <2>5
<1> QED
  BY <1>1, <1>2, <1>3, <1>4, <1>5, <1>6, <1>7, Steps

-----------------------------------------------------------------------------
(* Identity of profiles, rows, and what the routers hold *)

LEMMA IdentifiedNext ==
  ASSUME IInv, NEW p \in Requests, StepOf(p)
  PROVE  \A m \in Ids : Identified(m)'
<1>0. /\ TypeOK /\ Kept(p) /\ p \in Ids /\ p \notin Seeds /\ Control(p) /\ Exchange(p)
      /\ \A m \in Ids : Identified(m)
  BY KeptNext, ConstantsAssumption DEF IInv, Ids
<1>i. \A m \in Ids : remote[m] # Null /\ m \notin Seeds => instance'[m] = instance[m]
  <2>1. \A m \in Requests : remote[m] # Null => pc[m] # "idle"
    BY DEF IInv, Control
  <2> QED
    BY <1>0, <2>1 DEF Kept, Ids
<1>1. ASSUME \A m \in Ids : remote'[m] # Null => remote[m] # Null
      PROVE  \A m \in Ids : Identified(m)'
  BY <1>0, <1>i, <1>1 DEF Kept, Identified
<1>2. CASE RouterCreatesProfile(p)
  <2>1. /\ instance[p] \in Row /\ remote[p] = Null /\ UNCHANGED memory
    BY <1>2, CreationStep
  <2>2. PICK id \in MkIds :
          /\ remote' = [remote EXCEPT ![p] = CreatedProfile(p, id)]
          /\ \A m \in Around(p) : remote[m].id # id
    BY <1>2, CreationStep
  <2>3. /\ remote'[p].router = instance[p].router /\ remote'[p].id = id
        /\ \A m \in Ids \ {p} : remote'[m] = remote[m]
    BY <1>0, <2>1, <2>2, CreatedType DEF TypeOK
  <2>4. \A m \in Ids \ {p} :
          remote[m] # Null /\ remote[m].router = instance[p].router => remote[m].id # id
    BY <2>2 DEF Around
  <2>5. Identified(p)'
    BY <1>0, <2>1, <2>3, <2>4 DEF Identified, memory
  <2>6. ASSUME NEW m \in Ids \ {p} PROVE Identified(m)'
    BY <1>0, <1>i, <2>3, <2>4 DEF Identified
  <2> QED
    BY <2>5, <2>6
<1>3. CASE \/ Arrival(p) \/ Progress(p) \/ Outcome(p)
           \/ UpdateSave(p) \/ DestroyDelete(p) \/ Link(p)
  <2>1. remote' = remote
    BY <1>3 DEF Arrival, Progress, Outcome, UpdateSave, DestroyDelete, Link, router
  <2> QED
    BY <1>1, <2>1
<1>4. CASE RouterPatchesProfile(p)
  <2>1. PICK m \in Ids :
          remote[m] # Null /\ remote' = [remote EXCEPT ![m] = PatchedProfile(p, remote[m])]
    BY <1>4, PatchStep
  <2> QED
    BY <1>0, <1>1, <2>1 DEF TypeOK
<1> QED
  BY <1>2, <1>3, <1>4, Steps

\* Only the end of a sync links a profile.
LEMMA LinkedOnly ==
  ASSUME IInv, NEW p \in Requests, StepOf(p), NEW m \in Ids, NEW r, Linked(m, r)', ~Linked(m, r)
  PROVE  Link(p) /\ m = p /\ r = target[p] /\ profile[r] # Null
<1>0. /\ TypeOK /\ Kept(p) /\ p \in Ids /\ p \notin Seeds
      /\ \A q \in Requests : Control(q) /\ Exchange(q)
  BY KeptNext, ConstantsAssumption DEF IInv, Ids
<1>1. m \in Seeds => m = r /\ remote[m] # Null
  BY <1>0 DEF Linked, Kept
<1>2. m \in Requests /\ m \notin Seeds
  BY <1>1 DEF Linked, Ids
<1>3. /\ endpoint'[m] = "sync" /\ target'[m] = r /\ Creates(m)'
      /\ pc'[m] = "done" /\ remote'[m] # Null
  BY <1>2 DEF Linked, Syncs
<1>4. ASSUME pc[m] = "done" PROVE FALSE
  <2>1. endpoint[m] = "sync" /\ target[m] = r /\ Creates(m)
    BY <1>0, <1>2, <1>3, <1>4 DEF Kept, Creates
  <2>2. remote[m] # Null
    BY <1>0, <1>2, <1>4, <2>1 DEF Exchange
  <2> QED
    BY <1>2, <1>4, <2>1, <2>2 DEF Linked, Syncs
<1>5. m = p
  BY <1>0, <1>2, <1>3, <1>4 DEF Kept
<1>6. CASE Arrival(p)
  <2>1. PICK what, to, x, row : Arrive(p, what, to, x, row) /\ (to = "done" => what = "create")
    BY <1>6 DEF Arrival
  <2> QED
    BY <1>0, <1>3, <1>5, <2>1 DEF Arrive, Step, TypeOK
<1>7. CASE Progress(p)
  <2>1. /\ answer[p] = "updated" /\ endpoint[p] = "sync" /\ Creates(p)
    BY <1>0, <1>3, <1>5, <1>7 DEF Progress, memory, Creates, TypeOK
  <2> QED
    BY <1>0, <2>1 DEF Exchange
<1>8. CASE Outcome(p) \/ RouterCreatesProfile(p) \/ RouterPatchesProfile(p)
  <2>1. pc' = pc
    BY <1>8, CreationStep, PatchStep DEF Outcome
  <2> QED
    BY <1>3, <1>4, <1>5, <2>1
<1>9. CASE UpdateSave(p) \/ DestroyDelete(p)
  BY <1>0, <1>3, <1>5, <1>9 DEF UpdateSave, DestroyDelete, Step, Control, memory
<1>10. CASE Link(p)
  BY <1>0, <1>3, <1>5, <1>10 DEF Link, Step, memory, TypeOK
<1> QED
  BY <1>5, <1>6, <1>7, <1>8, <1>9, <1>10, Steps

\* A sync of row r was one before, or has just loaded the row.
LEMMA SyncsNext ==
  ASSUME IInv, NEW p \in Requests, StepOf(p), NEW r, NEW q \in Syncs(r)'
  PROVE  \/ q \in Syncs(r) /\ instance'[q] = instance[q]
         \/ q = p /\ profile' = profile /\ instance'[q] = profile[r]
<1>0. TypeOK /\ Kept(p) /\ q \in Requests /\ endpoint'[q] = "sync" /\ target'[q] = r
      /\ Control(p)
  BY KeptNext DEF IInv, Syncs
<1>1. CASE q # p \/ pc[q] # "idle"
  BY <1>0, <1>1 DEF Kept, Syncs
<1>2. CASE q = p /\ pc[p] = "idle"
  <2>1. CASE Arrival(p)
    <3>1. PICK what, to, x, row :
            /\ Arrive(p, what, to, x, row)
            /\ what = "sync" => profile' = profile /\ row = profile[x]
      BY <2>1 DEF Arrival
    <3> QED
      BY <1>0, <1>2, <3>1 DEF Arrive, TypeOK
  <2>2. CASE Outcome(p) \/ RouterCreatesProfile(p) \/ RouterPatchesProfile(p)
    <3>1. p \in sent
      BY <2>2, CreationStep, PatchStep DEF Outcome
    <3> QED
      BY <1>0, <1>2, <3>1 DEF Control
  <2>3. CASE Progress(p) \/ UpdateSave(p) \/ DestroyDelete(p) \/ Link(p)
    BY <1>2, <2>3 DEF Progress, UpdateSave, DestroyDelete, Link, Step
  <2> QED
    BY <2>1, <2>2, <2>3, Steps
<1> QED
  BY <1>1, <1>2

LEMMA UnlinkedKept ==
  ASSUME NEW p \in Requests, Kept(p), NEW r, Unlinked(r)
  PROVE  Unlinked(r)'
<1>1. ASSUME NEW q \in Syncs(r), pc[q] = "done", answer[q] = "unnamed"
      PROVE  q \in Syncs(r)' /\ pc'[q] = "done" /\ answer'[q] = "unnamed"
  BY <1>1 DEF Kept, Syncs
<1>2. ASSUME NEW q \in SavedEdits(r), instance[q].mk_id = Null
      PROVE  q \in SavedEdits(r)' /\ instance'[q].mk_id = Null
  BY <1>2 DEF Kept, SavedEdits
<1> QED
  BY <1>1, <1>2 DEF Unlinked

\* A row that a step does not write, or whose link it does not make, stays explained.
LEMMA RowKept ==
  ASSUME IInv, NEW p \in Requests, StepOf(p), NEW r \in Ids, profile[r] # Null,
         profile'[r] = profile[r], \A m \in Ids : Linked(m, r)' => Linked(m, r)
  PROVE  RowInvariant(r)'
<1>0. Kept(p) /\ RowInvariant(r)
  BY KeptNext DEF IInv, Rows
<1>1. \A device : OnOrMoved(r, device) => OnOrMoved(r, device)'
  <2>1. PICK here : here = profile[r].router
    OBVIOUS
  <2>2. MovedTo(r, here) => MovedTo(r, here)'
    BY <1>0, LinkedKept
  <2>3. MovedTo(r, here)' => MovedTo(r, profile[r].router)'
    BY <2>1 DEF MovedTo
  <2> QED
    BY <2>1, <2>2, <2>3 DEF OnOrMoved
<1>2. r \in Requests => pc'[r] = "done" /\ endpoint'[r] = "create"
  BY <1>0 DEF RowInvariant, Kept
<1>3. r \in Seeds => OnOrMoved(r, SeedRow[r].router)'
  BY <1>0, <1>1 DEF RowInvariant
<1>4. ASSUME NEW q \in Syncs(r)' PROVE OnOrMoved(r, instance[q].router)'
  <2>1. CASE q \in Syncs(r) /\ instance'[q] = instance[q]
    <3>1. OnOrMoved(r, instance[q].router)
      BY <1>0, <2>1 DEF RowInvariant
    <3> QED
      BY <1>1, <2>1, <3>1 DEF OnOrMoved
  <2>2. CASE instance'[q] = profile[r]
    BY <2>2 DEF OnOrMoved
  <2> QED
    BY <2>1, <2>2, SyncsNext
<1>5. profile[r].mk_id # Null => LinkedAs(r, profile[r])'
  <2>1. PICK row : row = profile[r]
    OBVIOUS
  <2>2. row.mk_id # Null => LinkedAs(r, row)'
    BY <1>0, <2>1, LinkedKept DEF RowInvariant
  <2>3. LinkedAs(r, row)' => LinkedAs(r, profile[r])'
    BY <2>1 DEF LinkedAs
  <2> QED
    BY <2>1, <2>2, <2>3
<1>6. profile[r].mk_id = Null => Unlinked(r)' \/ \A m \in Ids : ~Linked(m, r)'
  BY <1>0, UnlinkedKept DEF RowInvariant
<1> QED
  BY <1>2, <1>3, <1>4, <1>5, <1>6 DEF RowInvariant

\* The row a step writes, if any, is that of target[p], or p's own.
LEMMA RowsNext ==
  ASSUME IInv, NEW p \in Requests, StepOf(p)
  PROVE  Rows'
<1>0. /\ TypeOK /\ Control(p) /\ Exchange(p) /\ Rows /\ Kept(p) /\ Null \notin Row
      /\ p \in Ids /\ p \notin Seeds
  BY KeptNext, NullAssumption, ConstantsAssumption DEF IInv, Ids
<1>c. \A r \in Requests :
        pc[r] = "done" /\ endpoint[r] = "create" => pc'[r] = "done" /\ endpoint'[r] = "create"
  BY <1>0 DEF Kept
<1> SUFFICES ASSUME NEW r \in Ids, profile'[r] # Null
             PROVE  RowInvariant(r)'
  BY DEF Rows
<1>l. ~Link(p) => \A m \in Ids : Linked(m, r)' => Linked(m, r)
  BY LinkedOnly
<1>s. CASE ~Link(p) /\ profile'[r] = profile[r]
  BY <1>l, <1>s, RowKept
<1>n. ASSUME Link(p), r # target[p] \/ profile[r] = Null, profile'[r] = profile[r]
      PROVE  RowInvariant(r)'
  <2>1. \A m \in Ids : Linked(m, r)' => Linked(m, r)
    BY <1>n, LinkedOnly
  <2> QED
    BY <1>n, <2>1, RowKept
<1>1. CASE Arrival(p) /\ ~Link(p)
  <2>1. CASE profile' = profile
    BY <1>1, <1>s, <2>1
  <2>2. ASSUME NEW new \in Row, new.mk_id = Null, profile' = [profile EXCEPT ![p] = new],
               Arrive(p, "create", "done", p, Null)
        PROVE  RowInvariant(r)'
    <3>1. CASE r = p
      <4>1. profile'[r] = new
        BY <1>0, <2>2, <3>1 DEF TypeOK
      <4>2. pc[p] = "idle" /\ pc'[p] = "done" /\ endpoint'[p] = "create"
        BY <1>0, <2>2 DEF Arrive, Step, TypeOK
      <4>3. \A q \in Requests : endpoint[q] = "sync" => target[q] # p
        BY <1>0, <4>2 DEF IInv, Control, AboutProfile
      <4>4. \A q \in Requests : endpoint'[q] = "sync" => q # p /\ target'[q] # p
        BY <1>0, <4>2, <4>3 DEF Kept
      <4>5. Syncs(r)' = {}
        BY <3>1, <4>4 DEF Syncs
      <4>6. \A m \in Ids : ~Linked(m, r)'
        BY <1>0, <3>1, <4>5 DEF Linked
      <4> QED
        BY <1>0, <2>2, <3>1, <4>1, <4>2, <4>5, <4>6 DEF RowInvariant
    <3>2. CASE r # p
      BY <1>0, <1>1, <1>s, <2>2, <3>2 DEF TypeOK
    <3> QED
      BY <3>1, <3>2
  <2> QED
    BY <1>1, <2>1, <2>2 DEF Arrival
<1>2. CASE /\ Progress(p) \/ Outcome(p) \/ RouterCreatesProfile(p) \/ RouterPatchesProfile(p)
           /\ ~Link(p)
  <2>1. profile' = profile
    BY <1>2, CreationStep, PatchStep DEF Progress, Outcome, database
  <2> QED
    BY <1>2, <1>s, <2>1
<1>3. CASE UpdateSave(p)
  <2>1. /\ pc[p] = "save" /\ endpoint[p] = "update" /\ target[p] \in Ids /\ instance[p] \in Row
        /\ target[p] \in Requests => pc[target[p]] = "done" /\ endpoint[target[p]] = "create"
        /\ instance[p].mk_id # Null => HasLink(target[p], instance[p].mk_id)
        /\ UNCHANGED memory /\ ~Link(p)
    BY <1>0, <1>3 DEF UpdateSave, Control, AboutProfile, Link, Step
  <2>2. CASE r = target[p] /\ profile'[r] = instance[p] /\ pc'[p] = "done"
    <3>1. p \in SavedEdits(r)' /\ instance'[p] = instance[p]
      BY <2>1, <2>2 DEF SavedEdits, memory
    <3>2. MovedTo(r, instance[p].router)'
      BY <3>1 DEF MovedTo
    <3>3. MovedTo(r, profile[r].router)'
      BY <2>2, <3>1 DEF MovedTo
    <3>4. instance[p].mk_id # Null => LinkedAs(r, profile[r])'
      <4>1. instance[p].mk_id # Null => HasLink(r, instance[p].mk_id)'
        <5>1. PICK id : id = instance[p].mk_id
          OBVIOUS
        <5>2. HasLink(r, id) => HasLink(r, id)'
          BY <1>0, LinkedKept
        <5>3. HasLink(r, id)' => HasLink(r, instance[p].mk_id)'
          BY <3>1, <5>1 DEF HasLink
        <5> QED
          BY <2>1, <2>2, <5>1, <5>2, <5>3
      <4> QED
        BY <2>2, <3>1, <3>3, <4>1 DEF HasLink, LinkedAs
    <3>5. instance[p].mk_id = Null => Unlinked(r)'
      BY <3>1 DEF Unlinked
    <3>6. r \in Requests => pc'[r] = "done" /\ endpoint'[r] = "create"
      BY <1>c, <2>1, <2>2
    <3> QED
      BY <2>2, <3>3, <3>4, <3>5, <3>6 DEF RowInvariant, OnOrMoved
  <2> QED
    BY <1>0, <1>3, <1>s, <2>1, <2>2 DEF UpdateSave, Step, TypeOK
<1>4. CASE DestroyDelete(p)
  BY <1>0, <1>4, <1>s DEF DestroyDelete, Link, Step, Control, TypeOK
<1>5. CASE Link(p)
  <2>1. /\ pc[p] = "link" /\ endpoint[p] = "sync" /\ Creates(p) /\ remote[p] # Null
        /\ answer[p] \in {"created", "unnamed"} /\ instance[p] \in Row
        /\ target[p] \in Ids /\ remote' = remote /\ answer' = answer /\ UNCHANGED memory
    BY <1>0, <1>5 DEF Link, Step, Control, Exchange, AboutProfile, router
  <2>2. CASE r = target[p] /\ profile[r] # Null
    <3>1. pc'[p] = "done" /\ profile' = [profile EXCEPT ![r].mk_id = ReportedId(p)]
      BY <1>0, <1>5, <2>2 DEF Link, Step, TypeOK
    <3>2. profile[r] \in Row /\ remote[p] \in RemoteProfile
      BY <1>0, <2>1, <2>2 DEF TypeOK
    <3>3. profile'[r].mk_id = ReportedId(p) /\ profile'[r].router = profile[r].router
      BY <1>0, <2>2, <3>1, <3>2 DEF TypeOK, Row
    <3>4. RowInvariant(r)
      BY <2>2 DEF IInv, Rows
    <3>5. \A q \in Syncs(r)' : q \in Syncs(r) /\ instance'[q] = instance[q]
      BY <2>1 DEF Syncs, memory
    <3>6. \A device : OnOrMoved(r, device) => OnOrMoved(r, device)'
      <4>1. PICK here : here = profile[r].router
        OBVIOUS
      <4>2. MovedTo(r, here) => MovedTo(r, here)'
        BY <1>0, LinkedKept
      <4>3. MovedTo(r, here)' => MovedTo(r, profile[r].router)'
        BY <3>3, <4>1 DEF MovedTo
      <4> QED
        BY <3>3, <4>1, <4>2, <4>3 DEF OnOrMoved
    <3>7. p \in Syncs(r)' /\ OnOrMoved(r, instance[p].router)'
      <4>1. p \in Syncs(r) /\ instance'[p] = instance[p]
        BY <2>1, <2>2 DEF Syncs, memory
      <4>2. OnOrMoved(r, instance[p].router)
        BY <3>4, <4>1 DEF RowInvariant
      <4>3. p \in Syncs(r)'
        BY <2>1, <4>1 DEF Syncs, memory
      <4> QED
        BY <3>6, <4>1, <4>2, <4>3 DEF OnOrMoved
    <3>8. Linked(p, r)'
      BY <1>0, <2>1, <3>1, <3>7 DEF Linked, Creates, memory
    <3>9. ReportedId(p) # Null => LinkedAs(r, profile[r])'
      <4>1. ReportedId(p) # Null => remote'[p].id = profile'[r].mk_id
        BY <2>1, <3>3 DEF ReportedId
      <4>2. remote'[p].router = instance[p].router
        BY <1>0, <2>1 DEF IInv, Identified
      <4>3. remote'[p].router = profile'[r].router \/ MovedTo(r, profile[r].router)'
        BY <2>1, <3>7, <4>2 DEF OnOrMoved, memory
      <4> QED
        BY <1>0, <3>8, <4>1, <4>3 DEF LinkedAs
    <3>10. ReportedId(p) = Null => Unlinked(r)'
      <4>1. answer[p] = "created" => ReportedId(p) \in MkIds /\ Null \notin MkIds
        BY <3>2, NullAssumption DEF ReportedId, RemoteProfile
      <4>2. ReportedId(p) = Null => answer'[p] = "unnamed"
        BY <2>1, <4>1
      <4> QED
        BY <3>1, <3>7, <4>2 DEF Unlinked
    <3>11. r \in Seeds => OnOrMoved(r, SeedRow[r].router)'
      BY <3>4, <3>6 DEF RowInvariant
    <3>12. \A q \in Syncs(r)' : OnOrMoved(r, instance[q].router)'
      BY <3>4, <3>5, <3>6 DEF RowInvariant, OnOrMoved
    <3>13. r \in Requests => pc'[r] = "done" /\ endpoint'[r] = "create"
      BY <1>c, <3>4 DEF RowInvariant
    <3> QED
      BY <3>3, <3>9, <3>10, <3>11, <3>12, <3>13 DEF RowInvariant
  <2>3. CASE r # target[p] \/ profile[r] = Null
    <3>1. profile'[r] = profile[r]
      BY <1>0, <1>5, <2>1, <2>3 DEF Link, TypeOK
    <3> QED
      BY <1>5, <1>n, <2>3, <3>1
  <2> QED
    BY <2>2, <2>3
<1> QED
  BY <1>1, <1>2, <1>3, <1>4, <1>5, Steps

\* Row r is on, or was moved to, the router of every profile linked to it.
LEMMA LinkedOnItsRouter ==
  ASSUME IInv, NEW r \in Ids, profile[r] # Null, NEW m \in Ids, Linked(m, r)
  PROVE  OnOrMoved(r, remote[m].router)
<1>1. RowInvariant(r) /\ Identified(m) /\ remote[m] # Null
  BY DEF IInv, Rows, Linked
<1>2. CASE m \in Seeds
  BY <1>1, <1>2 DEF Identified, RowInvariant, Linked
<1>3. CASE m \notin Seeds
  <2>1. m \in Syncs(r) /\ remote[m].router = instance[m].router
    BY <1>1, <1>3 DEF Identified, Linked
  <2> QED
    BY <1>1, <2>1 DEF RowInvariant
<1> QED
  BY <1>2, <1>3

\* The conclusions about links.
LEMMA LinksHold == IInv => LinksAreTrue /\ OrphansAreExplained
<1> SUFFICES ASSUME IInv PROVE LinksAreTrue /\ OrphansAreExplained
  OBVIOUS
<1>1. LinksAreTrue
  BY DEF IInv, Rows, RowInvariant, LinkedAs, LinksAreTrue
<1>2. ASSUME NEW r \in Ids, NEW m \in Ids, Linked(m, r), profile[r] # Null
      PROVE  \/ profile[r].mk_id = remote[m].id /\ profile[r].router = remote[m].router
             \/ profile[r].router # remote[m].router /\ MovedTo(r, profile[r].router)
             \/ \E n \in Ids \ {m} : Linked(n, r) /\ profile[r].mk_id = remote[n].id
             \/ profile[r].mk_id = Null /\ Unlinked(r)
  <2>1. RowInvariant(r)
    BY <1>2 DEF IInv, Rows
  <2>2. CASE profile[r].mk_id = Null
    BY <1>2, <2>1, <2>2 DEF RowInvariant
  <2>3. CASE profile[r].mk_id # Null
    <3>1. PICK n \in Ids : Linked(n, r) /\ remote[n].id = profile[r].mk_id
      BY <2>1, <2>3 DEF RowInvariant, LinkedAs
    <3>2. OnOrMoved(r, remote[m].router)
      BY <1>2, LinkedOnItsRouter
    <3> QED
      BY <3>1, <3>2 DEF OnOrMoved
  <2> QED
    BY <2>2, <2>3
<1>3. OrphansAreExplained
  BY <1>2 DEF OrphansAreExplained, Unlinked
<1> QED
  BY <1>1, <1>3

\* q has loaded the field of profile m, from the row the profile was made for, or
\* from one that an edit moved to its router.
From(q, m, field) ==
  /\ endpoint[q] = "sync" /\ instance[q][field] = remote[m][field]
  /\ \/ target[q] = MadeFor(m)
     \/ /\ MovedTo(target[q], remote[m].router)
        /\ instance[q].router = remote[m].router /\ instance[q].mk_id = remote[m].id

Loaded(m, field) ==
  \/ remote[m][field] = Blank
  \/ m \in Seeds /\ remote[m][field] = SeedRow[m][field]
  \/ \E q \in Requests : From(q, m, field)

LEMMA RemoteNext ==
  ASSUME IInv, NEW p \in Requests, StepOf(p)
  PROVE  RemoteSettingsWereLocal'
<1>0. /\ TypeOK /\ Kept(p) /\ p \in Ids /\ p \notin Seeds /\ Null \notin RemoteProfile
      /\ \A q \in Requests : Control(q) /\ Exchange(q)
  BY KeptNext, NullAssumption, ConstantsAssumption DEF IInv, Ids
<1> SUFFICES ASSUME NEW m \in Ids, remote'[m] # Null,
                    NEW field \in {"name", "rate", "timeout"}
             PROVE  Loaded(m, field)'
  BY DEF RemoteSettingsWereLocal, Loaded, From
<1>1. ASSUME remote[m] # Null, remote'[m][field] = remote[m][field] PROVE Loaded(m, field)'
  <2>1. Loaded(m, field)
    BY <1>1 DEF IInv, RemoteSettingsWereLocal, Loaded, From
  <2>2. ASSUME NEW q \in Requests, From(q, m, field) PROVE From(q, m, field)'
    <3>1. /\ endpoint'[q] = endpoint[q] /\ target'[q] = target[q] /\ instance'[q] = instance[q]
      BY <1>0, <2>2 DEF From, Control, Kept
    <3>2. MadeFor(m)' = MadeFor(m)
      <4>1. m \notin Seeds => m \in Requests /\ pc[m] # "idle"
        BY <1>0, <1>1 DEF Ids, Control
      <4> QED
        BY <1>0, <4>1 DEF Kept, MadeFor
    <3>3. remote'[m].router = remote[m].router /\ remote'[m].id = remote[m].id
      BY <1>0, <1>1 DEF Kept
    <3>4. MovedTo(target[q], remote[m].router) => MovedTo(target[q], remote[m].router)'
      <4>1. PICK r, device : r = target[q] /\ device = remote[m].router
        OBVIOUS
      <4>2. MovedTo(r, device) => MovedTo(r, device)'
        BY <1>0, LinkedKept
      <4>3. MovedTo(r, device)' => MovedTo(target[q], remote[m].router)'
        BY <3>1, <3>3, <4>1 DEF MovedTo, SavedEdits
      <4> QED
        BY <4>1, <4>2, <4>3
    <3> QED
      BY <1>1, <2>2, <3>1, <3>2, <3>3, <3>4 DEF From
  <2> QED
    BY <1>1, <2>1, <2>2 DEF Loaded
<1>2. CASE remote' = remote
  BY <1>1, <1>2
<1>3. CASE RouterCreatesProfile(p)
  <2>1. endpoint[p] = "sync" /\ instance[p] \in Row /\ UNCHANGED memory
    BY <1>3, CreationStep
  <2>2. PICK id \in MkIds : remote' = [remote EXCEPT ![p] = CreatedProfile(p, id)]
    BY <1>3, CreationStep
  <2>3. CASE m = p
    <3>1. remote'[m] = CreatedProfile(p, id)
      BY <1>0, <2>2, <2>3 DEF TypeOK
    <3>2. \/ remote'[m][field] = instance[p][field]
          \/ remote'[m][field] = Blank
      BY <2>1, <3>1, CreatedType
    <3>3. target'[p] = MadeFor(m)' /\ endpoint'[p] = "sync" /\ instance'[p] = instance[p]
      BY <1>0, <2>1, <2>3 DEF MadeFor, memory
    <3> QED
      BY <3>2, <3>3 DEF Loaded, From
  <2>4. CASE m # p
    BY <1>0, <1>1, <2>2, <2>4 DEF TypeOK
  <2> QED
    BY <2>3, <2>4
<1>4. CASE RouterPatchesProfile(p)
  <2>1. /\ endpoint[p] = "sync" /\ instance[p] \in Row /\ instance[p].mk_id # Null
        /\ UNCHANGED <<memory, pc>>
    BY <1>4, PatchStep
  <2>2. PICK n \in Ids :
          /\ remote[n] # Null /\ remote[n] \in RemoteProfile
          /\ remote[n].router = instance[p].router /\ remote[n].id = instance[p].mk_id
          /\ remote' = [remote EXCEPT ![n] = PatchedProfile(p, remote[n])]
    BY <1>4, PatchStep
  <2>3. CASE m = n
    <3>1. remote'[m] = PatchedProfile(p, remote[n])
      BY <1>0, <2>2, <2>3 DEF TypeOK
    <3>2. \/ remote'[m][field] = instance[p][field]
          \/ remote'[m][field] = remote[m][field]
      BY <2>1, <2>2, <2>3, <3>1, PatchedType
    <3>3. target[p] = MadeFor(m) \/ MovedTo(target[p], remote[m].router)
      <4>1. PICK l \in Ids :
              /\ Linked(l, target[p]) /\ remote[l].id = instance[p].mk_id
              /\ remote[l].router = instance[p].router \/ MovedTo(target[p], instance[p].router)
        BY <1>0, <2>1 DEF Control, LinkedAs
      <4>2. CASE remote[l].router = instance[p].router
        <5>1. l = n
          BY <2>2, <4>1, <4>2 DEF IInv, Identified, Linked
        <5> QED
          BY <2>3, <4>1, <5>1 DEF Linked, Syncs, MadeFor
      <4> QED
        BY <2>2, <2>3, <4>1, <4>2
    <3>4. remote'[m].router = remote[m].router /\ remote'[m].id = remote[m].id
      BY <2>1, <2>2, <2>3, <3>1, PatchedType
    <3>5. UNCHANGED <<endpoint, target, instance>>
      BY <2>1 DEF memory
    <3>6. MadeFor(m)' = MadeFor(m)
      BY <3>5 DEF MadeFor
    <3>7. MovedTo(target[p], remote[m].router) => MovedTo(target[p], remote[m].router)'
      BY <2>1, <3>4, <3>5 DEF MovedTo, SavedEdits
    <3>8. remote'[m][field] = instance[p][field] => From(p, m, field)'
      BY <2>1, <2>2, <2>3, <3>3, <3>4, <3>5, <3>6, <3>7 DEF From
    <3> QED
      BY <1>1, <2>2, <2>3, <3>2, <3>8 DEF Loaded
  <2>4. CASE m # n
    BY <1>0, <1>1, <2>2, <2>4 DEF TypeOK
  <2> QED
    BY <2>3, <2>4
<1>5. CASE \/ Arrival(p) \/ Progress(p) \/ Outcome(p)
           \/ UpdateSave(p) \/ DestroyDelete(p) \/ Link(p)
  <2>1. remote' = remote
    BY <1>5 DEF Arrival, Progress, Outcome, UpdateSave, DestroyDelete, Link, router
  <2> QED
    BY <1>2, <2>1
<1> QED
  BY <1>3, <1>4, <1>5, Steps

-----------------------------------------------------------------------------
(* The theorems *)

LEMMA InvariantInit == Init => IInv
<1> SUFFICES ASSUME Init PROVE IInv
  OBVIOUS
<1>1. Seeds \cap Requests = {} /\ Seeds \subseteq Ids
  BY ConstantsAssumption DEF Ids
<1>2. \A r \in Seeds :
        /\ SeedRow[r] \in Row
        /\ SeedRow[r].mk_id # Null =>
             /\ SeedRow[r].mk_id \in MkIds
             /\ Double(SeedRow[r], SeedRow[r].mk_id) \in RemoteProfile
  BY SeedAssumption, DoubleType DEF Row
<1>3. TypeOK
  BY <1>1, <1>2 DEF Init, TypeOK
<1>4. \A p \in Requests : Control(p) /\ Exchange(p)
  BY <1>1 DEF Init, Control, Exchange, AboutProfile, Ids
<1>5. ASSUME NEW m \in Ids, remote[m] # Null
      PROVE  /\ m \in Seeds /\ SeedRow[m].mk_id # Null /\ SeedRow[m] \in Row
             /\ profile[m] = SeedRow[m]
             /\ remote[m].router = SeedRow[m].router /\ remote[m].id = SeedRow[m].mk_id
             /\ remote[m].name = SeedRow[m].name /\ remote[m].rate = SeedRow[m].rate
             /\ remote[m].timeout = SeedRow[m].timeout
  <2>1. m \in Seeds /\ SeedRow[m].mk_id # Null
        /\ remote[m] = Double(SeedRow[m], SeedRow[m].mk_id) /\ profile[m] = SeedRow[m]
    BY <1>5 DEF Init
  <2> QED
    BY <1>2, <2>1, DoubleType
<1>6. \A m \in Ids : Identified(m)
  BY <1>5, SeedAssumption DEF Identified
<1>7. ASSUME NEW r \in Ids, profile[r] # Null PROVE RowInvariant(r)
  <2>1. r \in Seeds /\ profile[r] = SeedRow[r] /\ r \notin Requests
    BY <1>1, <1>7 DEF Init
  <2>2. Syncs(r) = {}
    BY DEF Init, Syncs
  <2>3. profile[r].mk_id # Null => LinkedAs(r, profile[r])
    <3>1. profile[r].mk_id # Null => remote[r] # Null
      BY <1>2, <1>7, <2>1, NullAssumption DEF Init
    <3>2. profile[r].mk_id # Null => Linked(r, r)
      BY <2>1, <3>1 DEF Linked
    <3> QED
      BY <1>5, <2>1, <3>1, <3>2 DEF LinkedAs
  <2>4. profile[r].mk_id = Null => \A m \in Ids : ~Linked(m, r)
    BY <1>5, <2>1, <2>2 DEF Linked
  <2> QED
    BY <2>1, <2>2, <2>3, <2>4 DEF RowInvariant, OnOrMoved
<1>8. RemoteSettingsWereLocal
  BY <1>5 DEF RemoteSettingsWereLocal
<1> QED
  BY <1>3, <1>4, <1>6, <1>7, <1>8 DEF IInv, Rows

LEMMA InvariantNext == IInv /\ [Next]_vars => IInv'
<1> SUFFICES ASSUME IInv, [Next]_vars PROVE IInv'
  OBVIOUS
<1>1. ASSUME NEW p \in Requests, StepOf(p) PROVE IInv'
  <2>1. \A q \in Requests : (Control(q) /\ Exchange(q))'
    BY <1>1, OthersInvariant, ActorInvariant
  <2> QED
    BY <1>1, <2>1, TypeNext, IdentifiedNext, RowsNext, RemoteNext DEF IInv
<1>2. CASE UNCHANGED vars
  BY <1>2 DEF IInv, TypeOK, Control, Exchange, Identified, Rows, RowInvariant, OnOrMoved,
              Unlinked, HasLink, LinkedAs, Linked, MovedTo, SavedEdits, Syncs, Creates,
              RemoteSettingsWereLocal, MadeFor, vars, database, router, memory
<1> QED
  BY <1>1, <1>2 DEF Next, StepOf

\* What requests hold, and what has become of their calls, agrees with the rows
\* and with the routers' profiles.
THEOREM Invariance == Spec => []IInv
<1> QED
  BY InvariantInit, InvariantNext, PTL DEF Spec

\* The variables keep their types.
THEOREM TypeCorrect == Spec => []TypeOK
<1>1. IInv => TypeOK
  BY DEF IInv
<1> QED
  BY <1>1, Invariance, PTL

\* mk_id is the .id of a profile made for this very row, on the router the row is on
\* unless an edit has moved it there, whatever was deleted, lost, late or answered
\* without .id.
THEOREM TrueLinks == Spec => []LinksAreTrue
<1>1. IInv => LinksAreTrue
  BY LinksHold
<1> QED
  BY <1>1, Invariance, PTL

\* There are no other ways to lose a link than those the property lists.
THEOREM ExplainedOrphans == Spec => []OrphansAreExplained
<1>1. IInv => OrphansAreExplained
  BY LinksHold
<1> QED
  BY <1>1, Invariance, PTL

\* Late and lost calls included, a router holds only settings that a sync loaded from
\* the row a profile was made for, or from a row moved to it with the profile's .id.
THEOREM LocalSettings == Spec => []RemoteSettingsWereLocal
<1>1. IInv => RemoteSettingsWereLocal
  BY DEF IInv
<1> QED
  BY <1>1, Invariance, PTL

-----------------------------------------------------------------------------
(* The mirror of rows and profiles *)

\* A request that arrives adds what it loads to what was read from its row.
LEMMA ReadNext ==
  ASSUME TypeOK, NEW p \in Requests, endpoint[p] = "none", remote[p] = Null,
         NEW what, NEW to, NEW x, NEW row, Arrive(p, what, to, x, row), remote' = remote
  PROVE  /\ MadeForRow' = MadeForRow
         /\ what \notin {"update", "sync"} => RowsRead' = RowsRead
         /\ what \in {"update", "sync"} =>
              RowsRead' = [RowsRead EXCEPT ![x] = @ \cup {row}]
<1> DEFINE Readers(r) ==
             {q \in Requests : endpoint[q] \in {"update", "sync"} /\ target[q] = r}
<1>1. /\ \A q \in Requests \ {p} :
           endpoint'[q] = endpoint[q] /\ target'[q] = target[q] /\ instance'[q] = instance[q]
      /\ endpoint'[p] = what /\ target'[p] = x /\ instance'[p] = row
  BY DEF Arrive, TypeOK
<1>2. MadeForRow' = MadeForRow
  BY <1>1 DEF MadeForRow, MadeFor, Ids
<1>3. \A r : p \notin Readers(r) /\ \A q \in Readers(r) : instance'[q] = instance[q]
  BY <1>1
<1>4. \A r : Readers(r)' = IF what \in {"update", "sync"} /\ r = x
                           THEN Readers(r) \cup {p} ELSE Readers(r)
  BY <1>1
<1>5. /\ RowsRead = [r \in Ids |-> {instance[q] : q \in Readers(r)}]
      /\ RowsRead' = [r \in Ids |-> {instance'[q] : q \in Readers(r)'}]
  BY DEF RowsRead
<1> HIDE DEF Readers
<1>6. ASSUME NEW r
      PROVE  {instance'[q] : q \in Readers(r)'} =
               IF what \in {"update", "sync"} /\ r = x
               THEN {instance[q] : q \in Readers(r)} \cup {row}
               ELSE {instance[q] : q \in Readers(r)}
  BY <1>1, <1>3, <1>4
<1>7. CASE what \notin {"update", "sync"}
  BY <1>2, <1>5, <1>6, <1>7
<1>8. CASE what \in {"update", "sync"}
  BY <1>2, <1>5, <1>6, <1>8
<1> QED
  BY <1>7, <1>8

\* What a request holds has been read from its row.
LEMMA HeldIsRead ==
  ASSUME NEW p \in Requests, endpoint[p] \in {"update", "sync"}, target[p] \in Ids
  PROVE  instance[p] \in RowsRead[target[p]]
BY DEF RowsRead

\* Every step of a request is an operation of the mirror, or leaves it alone.
LEMMA MirrorNext ==
  ASSUME IInv, NEW p \in Requests, StepOf(p)
  PROVE  [Mirror!Next]_(Mirror!vars)
<1>0. /\ TypeOK /\ Control(p) /\ Exchange(p) /\ Rows /\ TypeOK'
      /\ Ids = Mirror!Ids /\ Row = Mirror!Row /\ RemoteProfile = Mirror!RemoteProfile
      /\ p \in Ids /\ p \notin Seeds /\ Null \notin Row /\ Null \notin RemoteProfile
  BY TypeNext, ConstantsAssumption, NullAssumption
     DEF IInv, Ids, Row, RemoteProfile, Mirror!Ids, Mirror!Row, Mirror!RemoteProfile
<1>m. UNCHANGED <<memory, remote>> => UNCHANGED <<RowsRead, MadeForRow>>
  BY DEF memory, RowsRead, MadeForRow, MadeFor
<1>i. pc[p] = "idle" => endpoint[p] = "none" /\ remote[p] = Null
  BY <1>0 DEF Control
<1>1. ASSUME NEW body \in Bodies, Create(p, body)
      PROVE  Mirror!Next
  <2>1. PICK row \in Row :
          /\ row.mk_id = Null /\ ~UniqueViolation(row, p)
          /\ Arrive(p, "create", "done", p, Null)
          /\ profile' = [profile EXCEPT ![p] = row]
    BY <1>1, NewRowType DEF Create
  <2>2. pc[p] = "idle" /\ remote' = remote
    BY <1>1, <2>1 DEF Create, Arrive, Step, router
  <2>3. UNCHANGED <<RowsRead, MadeForRow>>
    BY <1>0, <1>i, <2>1, <2>2, ReadNext
  <2>4. profile[p] = Null
    BY <1>0, <2>2 DEF Rows, RowInvariant
  <2>5. Mirror!NameFree(row, p)
    BY <1>0, <2>1 DEF UniqueViolation, Mirror!NameFree
  <2>6. profile'[p] = row
    BY <1>0, <2>1 DEF TypeOK
  <2>7. Mirror!Create(p)
    BY <1>0, <2>1, <2>2, <2>3, <2>4, <2>5, <2>6 DEF Mirror!Create
  <2> QED
    BY <1>0, <2>7 DEF Mirror!Next
<1>2. ASSUME NEW what \in {"update", "sync"}, NEW to, NEW r \in Ids, NEW row \in Row,
             Arrive(p, what, to, r, row), profile[r] # Null, row.mk_id = profile[r].mk_id,
             UNCHANGED <<profile, remote>>
      PROVE  Mirror!Next
  <2>1. pc[p] = "idle"
    BY <1>2 DEF Arrive, Step
  <2>2. MadeForRow' = MadeForRow /\ RowsRead' = [RowsRead EXCEPT ![r] = @ \cup {row}]
    BY <1>0, <1>i, <1>2, <2>1, ReadNext
  <2>3. row \in RowsRead'[r]
    BY <1>2, <2>2 DEF RowsRead
  <2>4. Mirror!Read(r)
    BY <1>0, <1>2, <2>2, <2>3 DEF Mirror!Read
  <2> QED
    BY <1>0, <2>4 DEF Mirror!Next
<1>3. ASSUME NEW r \in Ids, NEW body \in Bodies, UpdateLoad(p, r, body)
      PROVE  Mirror!Next
  <2>1. /\ profile[r] # Null /\ Arrive(p, "update", "save", r, Edited(profile[r], body))
        /\ UNCHANGED <<profile, remote>>
    BY <1>3 DEF UpdateLoad, database, router
  <2>2. Edited(profile[r], body) \in Row /\ Edited(profile[r], body).mk_id = profile[r].mk_id
    BY <1>0, <2>1, EditedType DEF TypeOK
  <2> QED
    BY <1>2, <2>1, <2>2
<1>4. ASSUME NEW r \in Ids, SyncLoad(p, r)
      PROVE  Mirror!Next
  <2>1. /\ profile[r] # Null /\ Arrive(p, "sync", "router", r, profile[r])
        /\ UNCHANGED <<profile, remote>>
    BY <1>4 DEF SyncLoad, database
  <2>2. profile[r] \in Row
    BY <1>0, <2>1 DEF TypeOK
  <2> QED
    BY <1>2, <2>1, <2>2
<1>5. ASSUME NEW r, DestroyLoad(p, r)
      PROVE  UNCHANGED Mirror!vars
  <2>1. Arrive(p, "destroy", "delete", r, Null) /\ UNCHANGED <<profile, remote>>
    BY <1>5 DEF DestroyLoad, database, router
  <2>2. pc[p] = "idle"
    BY <2>1 DEF Arrive, Step
  <2> QED
    BY <1>0, <1>i, <2>1, <2>2, ReadNext DEF Mirror!vars
<1>6. ASSUME NEW username, CreateUser(p, username)
      PROVE  UNCHANGED Mirror!vars
  <2>1. Arrive(p, "create_user", "router", username, Null) /\ UNCHANGED <<profile, remote>>
    BY <1>6 DEF CreateUser, database
  <2>2. pc[p] = "idle"
    BY <2>1 DEF Arrive, Step
  <2> QED
    BY <1>0, <1>i, <2>1, <2>2, ReadNext DEF Mirror!vars
<1>7. CASE UpdateSave(p)
  <2>1. /\ endpoint[p] = "update" /\ target[p] \in Ids /\ instance[p] \in Row
        /\ UNCHANGED <<memory, remote>>
    BY <1>0, <1>7 DEF UpdateSave, Control, AboutProfile, router
  <2>2. UNCHANGED <<remote, RowsRead, MadeForRow>>
    BY <1>m, <2>1
  <2>3. CASE UniqueViolation(instance[p], target[p])
    BY <1>7, <2>2, <2>3 DEF UpdateSave, Mirror!vars
  <2>4. CASE ~UniqueViolation(instance[p], target[p])
    <3>1. profile' = [profile EXCEPT ![target[p]] = instance[p]]
      BY <1>7, <2>4 DEF UpdateSave
    <3>2. Mirror!NameFree(instance[p], target[p])
      BY <1>0, <2>4 DEF UniqueViolation, Mirror!NameFree
    <3>3. Mirror!Save(target[p], instance[p]) /\ instance[p] \in RowsRead[target[p]]
      BY <2>1, <2>2, <3>1, <3>2, HeldIsRead DEF Mirror!Save
    <3> QED
      BY <1>0, <2>1, <3>3 DEF Mirror!Next
  <2> QED
    BY <2>3, <2>4
<1>8. CASE DestroyDelete(p)
  <2>1. /\ target[p] \in Ids /\ profile' = [profile EXCEPT ![target[p]] = Null]
        /\ UNCHANGED <<memory, remote>>
    BY <1>0, <1>8 DEF DestroyDelete, Step, Control, AboutProfile, router
  <2>2. Mirror!Delete(target[p])
    BY <1>m, <2>1 DEF Mirror!Delete
  <2> QED
    BY <1>0, <2>1, <2>2 DEF Mirror!Next
<1>9. CASE Link(p)
  <2>1. target[p] \in Ids /\ remote[p] # Null /\ UNCHANGED <<memory, remote>>
    BY <1>0, <1>9 DEF Link, Step, Control, Exchange, AboutProfile, router
  <2>2. UNCHANGED <<remote, RowsRead, MadeForRow>>
    BY <1>m, <2>1
  <2>3. CASE profile[target[p]] = Null
    BY <1>9, <2>2, <2>3 DEF Link, Mirror!vars
  <2>4. CASE profile[target[p]] # Null
    <3>1. profile' = [profile EXCEPT ![target[p]].mk_id = ReportedId(p)]
      BY <1>9, <2>4 DEF Link
    <3>2. MadeForRow[p] = target[p]
      BY <1>0, <2>1 DEF MadeForRow, MadeFor
    <3>3. ReportedId(p) \in {remote[p].id, Null}
      BY DEF ReportedId
    <3>4. Mirror!Link(target[p], p)
      BY <2>2, <2>4, <3>1, <3>2, <3>3 DEF Mirror!Link
    <3> QED
      BY <1>0, <2>1, <3>4 DEF Mirror!Next
  <2> QED
    BY <2>3, <2>4
<1>10. CASE RouterCreatesProfile(p)
  <2>1. /\ endpoint[p] = "sync" /\ target[p] \in Ids
        /\ instance[p] \in Row /\ instance[p].mk_id = Null /\ remote[p] = Null
        /\ Creates(p) /\ UNCHANGED <<profile, memory>>
    BY <1>10, CreationStep DEF database
  <2>2. PICK id \in MkIds :
          /\ remote' = [remote EXCEPT ![p] = CreatedProfile(p, id)]
          /\ CreatedProfile(p, id) \in RemoteProfile
          /\ \A m \in Around(p) : remote[m].id # id
    BY <1>10, CreationStep
  <2> DEFINE new == remote'[p]
  <2>3. new = CreatedProfile(p, id) /\ \A q \in Ids \ {p} : remote'[q] = remote[q]
    BY <1>0, <2>2 DEF TypeOK
  <2>4. /\ new \in RemoteProfile /\ new # Null /\ new.router = instance[p].router /\ new.id = id
        /\ new.name = instance[p].name
        /\ new.rate = instance[p].rate /\ new.timeout = Blank
    BY <1>0, <2>1, <2>2, <2>3, CreatedType
  <2>5. RowsRead' = RowsRead /\ MadeForRow[p] = Null
    BY <1>0, <2>1 DEF memory, RowsRead, MadeForRow
  <2>6. MadeForRow' = [MadeForRow EXCEPT ![p] = target[p]]
    <3>1. target' = target
      BY <2>1 DEF memory
    <3> QED
      BY <1>0, <2>3, <2>4, <3>1 DEF MadeForRow, MadeFor
  <2>7. Mirror!NameFreeOnRouter(p, instance[p])
        /\ \A n \in Mirror!Others(p, instance[p]) : remote[n].id # id
    <3>1. Mirror!Others(p, instance[p]) = Around(p)
      BY <1>0, <2>1 DEF Mirror!Others, Around
    <3>2. Addressed(p) = {}
      BY <1>0, <2>1, NullAssumption DEF Addressed, Around, TypeOK, RemoteProfile
    <3>3. ~NameTaken(p)
      BY <1>10 DEF RouterCreatesProfile
    <3> QED
      BY <2>2, <3>1, <3>2, <3>3 DEF NameTaken, Mirror!NameFreeOnRouter
  <2>8. \A limit \in Mirror!Limits : new[limit] \in {Blank, instance[p][limit]}
    BY <2>4 DEF Mirror!Limits
  <2>9. remote' = [remote EXCEPT ![p] = new]
    BY <2>2, <2>3
  <2> HIDE DEF new
  <2>10. Mirror!Make(p, target[p], instance[p]) /\ instance[p] \in RowsRead[target[p]]
    BY <1>0, <2>1, <2>4, <2>5, <2>6, <2>7, <2>8, <2>9, HeldIsRead DEF Mirror!Make, new
  <2> QED
    BY <1>0, <2>1, <2>10 DEF Mirror!Next
<1>11. CASE RouterPatchesProfile(p)
  <2>1. /\ endpoint[p] = "sync" /\ target[p] \in Ids /\ instance[p] \in Row
        /\ UNCHANGED <<profile, memory>>
    BY <1>11, PatchStep DEF database
  <2>2. PICK m \in Ids :
          /\ remote[m] # Null /\ remote[m] \in RemoteProfile
          /\ remote[m].router = instance[p].router /\ remote[m].id = instance[p].mk_id
          /\ remote' = [remote EXCEPT ![m] = PatchedProfile(p, remote[m])]
          /\ PatchedProfile(p, remote[m]) \in RemoteProfile
    BY <1>11, PatchStep
  <2> DEFINE new == remote'[m]
  <2>3. new = PatchedProfile(p, remote[m]) /\ \A q \in Ids \ {m} : remote'[q] = remote[q]
    BY <1>0, <2>2 DEF TypeOK
  <2>4. /\ new \in RemoteProfile /\ new # Null
        /\ new.router = instance[p].router /\ new.id = instance[p].mk_id
        /\ new.name = instance[p].name
        /\ new.rate \in {remote[m].rate, instance[p].rate}
        /\ new.timeout \in {remote[m].timeout, instance[p].timeout}
    BY <1>0, <2>1, <2>2, <2>3, PatchedType
  <2>5. RowsRead' = RowsRead
    BY <2>1 DEF memory, RowsRead
  <2>6. MadeForRow' = MadeForRow
    <3>1. target' = target
      BY <2>1 DEF memory
    <3> QED
      BY <2>2, <2>3, <2>4, <3>1 DEF MadeForRow, MadeFor
  <2>7. Mirror!NameFreeOnRouter(m, instance[p])
    <3>1. Identified(m)
      BY DEF IInv
    <3>2. Mirror!Others(m, instance[p]) = Around(p) \ Addressed(p)
      BY <1>0, <2>2, <3>1 DEF Mirror!Others, Around, Addressed, Identified
    <3>3. ~NameTaken(p)
      BY <1>11 DEF RouterPatchesProfile
    <3> QED
      BY <3>2, <3>3 DEF NameTaken, Mirror!NameFreeOnRouter
  <2>8. \A limit \in Mirror!Limits : new[limit] \in {remote[m][limit], instance[p][limit]}
    BY <2>4 DEF Mirror!Limits
  <2>9. remote' = [remote EXCEPT ![m] = new]
    BY <2>2, <2>3
  <2> HIDE DEF new
  <2>10. Mirror!Patch(m, instance[p]) /\ instance[p] \in RowsRead[target[p]]
    BY <1>0, <2>1, <2>2, <2>4, <2>5, <2>6, <2>7, <2>8, <2>9, HeldIsRead DEF Mirror!Patch, new
  <2> QED
    BY <1>0, <2>1, <2>2, <2>10 DEF Mirror!Next
<1>12. CASE RouterCreatesUser(p) \/ RouterRefuses(p) \/ RouterMisses(p)
  BY <1>m, <1>12
  DEF RouterCreatesUser, RouterRefuses, RouterMisses, Answered, database, Mirror!vars
<1>13. CASE AnswerReceived(p) \/ RequestFails(p) \/ PersistUser(p) \/ Crash(p)
  BY <1>m, <1>13
  DEF AnswerReceived, RequestFails, PersistUser, Crash, database, router, Mirror!vars
<1> QED
  BY <1>1, <1>3, <1>4, <1>5, <1>6, <1>7, <1>8, <1>9, <1>10, <1>11, <1>12, <1>13
  DEF StepOf, Load, Serve, Network

\* The requests, call by call, implement the mirror: a profile of a router is made
\* once, for one row; it has only what was read from a row that recorded its .id on
\* its router; a row is linked only to a profile made for it, or to none; what is
\* saved was the row's own.
THEOREM Implementation == Spec => ImplementsMirror
<1>1. Init => Mirror!Init
  <2> SUFFICES ASSUME Init PROVE Mirror!Init
    OBVIOUS
  <2>1. RowsRead = [r \in Ids |-> {}]
    BY DEF Init, RowsRead
  <2>2. \A m \in Ids : remote[m] # Null <=> m \in Mirror!LinkedSeeds
    <3>1. \A s \in Seeds :
            SeedRow[s].mk_id # Null => Double(SeedRow[s], SeedRow[s].mk_id) \in RemoteProfile
      BY SeedAssumption, DoubleType DEF Row
    <3> QED
      BY <3>1, NullAssumption DEF Init, Mirror!LinkedSeeds
  <2>3. MadeForRow = [m \in Ids |-> IF m \in Mirror!LinkedSeeds THEN m ELSE Null]
    BY <2>2 DEF MadeForRow, MadeFor, Mirror!LinkedSeeds
  <2> QED
    BY <2>1, <2>3 DEF Init, Double, Mirror!Init, Mirror!LinkedSeeds, Ids, Mirror!Ids
<1>2. IInv /\ [Next]_vars => [Mirror!Next]_(Mirror!vars)
  <2>1. ASSUME UNCHANGED vars
        PROVE  UNCHANGED Mirror!vars
    BY <2>1 DEF vars, database, router, memory, Mirror!vars, RowsRead, MadeForRow, MadeFor
  <2> QED
    BY <2>1, MirrorNext DEF Next, StepOf
<1> QED
  BY <1>1, <1>2, Invariance, PTL DEF Spec, ImplementsMirror, Mirror!Spec
=============================================================================

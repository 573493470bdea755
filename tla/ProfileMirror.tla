---------------------------- MODULE ProfileMirror ---------------------------
(***************************************************************************)
(* What the hotspot API promises of its profiles and of their doubles on   *)
(* the router, whatever the interleaving of the requests, and however late *)
(* the router applies what it is sent:                                     *)
(*                                                                         *)
(*   - a profile is put on a router for one row, once, under a free name   *)
(*     and .id, with settings that were read from that row, or left blank; *)
(*   - a profile is patched with settings read from a row that was on its  *)
(*     router and recorded its .id, and from no other row;                 *)
(*   - a row is linked to a profile that was made for it, or to none;      *)
(*   - what is saved was read from the row, an edit applied, under a name  *)
(*     that is still free: it may be old, link included, but it is the     *)
(*     row's own.  The edit may give it another router, but not a link.    *)
(*                                                                         *)
(* HotspotMirror, call by call, is shown to implement it.                  *)
(***************************************************************************)
CONSTANTS
  Requests,   \* those that may insert a row or make a profile
  Routers,
  MkIds,      \* .id's that a router gives to its profiles
  Names,
  Rates,      \* rate limits
  Timeouts,   \* session timeouts
  Seeds,      \* rows there before the start, and the profiles made for them
  SeedRow,    \* their contents
  Blank,      \* the empty rate limit or timeout
  Null

VARIABLES
  profile,  \* HotspotProfile
  read,     \* what was read from each row, edits applied, to be saved or sent
  remote,   \* the routers' profiles, by the request that made them
  made_for  \* the row each was made for

vars == <<profile, read, remote, made_for>>

Ids == Requests \cup Seeds
Row == [router : Routers, mk_id : MkIds \cup {Null}, name : Names,
        rate : Rates \cup {Blank}, timeout : Timeouts \cup {Blank}]
RemoteProfile == [router : Routers, id : MkIds, name : Names,
                  rate : Rates \cup {Blank}, timeout : Timeouts \cup {Blank}]
Limits == {"rate", "timeout"}

NameFree(row, r) ==
  \A s \in Ids \ {r} :
    profile[s] # Null /\ profile[s].router = row.router => profile[s].name # row.name

Others(m, row) == {n \in Ids \ {m} : remote[n] # Null /\ remote[n].router = row.router}
NameFreeOnRouter(m, row) == \A n \in Others(m, row) : remote[n].name # row.name

LinkedSeeds == {r \in Seeds : SeedRow[r].mk_id # Null}

Init ==
  /\ profile = [r \in Ids |-> IF r \in Seeds THEN SeedRow[r] ELSE Null]
  /\ read = [r \in Ids |-> {}]
  /\ made_for = [m \in Ids |-> IF m \in LinkedSeeds THEN m ELSE Null]
  /\ remote = [m \in Ids |->
       IF m \in LinkedSeeds
       THEN [router |-> SeedRow[m].router, id |-> SeedRow[m].mk_id, name |-> SeedRow[m].name,
             rate |-> SeedRow[m].rate, timeout |-> SeedRow[m].timeout]
       ELSE Null]

Create(r) ==
  /\ profile[r] = Null
  /\ profile'[r] \in Row /\ profile'[r].mk_id = Null /\ NameFree(profile'[r], r)
  /\ profile' = [profile EXCEPT ![r] = profile'[r]]
  /\ UNCHANGED <<read, remote, made_for>>

Read(r) ==
  /\ profile[r] # Null
  /\ \E row \in read'[r] :
       /\ row \in Row /\ row.mk_id = profile[r].mk_id
       /\ read' = [read EXCEPT ![r] = @ \cup {row}]
  /\ UNCHANGED <<profile, remote, made_for>>

Save(r, row) ==
  /\ NameFree(row, r)
  /\ profile' = [profile EXCEPT ![r] = row]
  /\ UNCHANGED <<read, remote, made_for>>

\* The router keeps its profile.
Delete(r) ==
  /\ profile' = [profile EXCEPT ![r] = Null]
  /\ UNCHANGED <<read, remote, made_for>>

\* Profile m, with or without the limits of the row.
Make(m, r, row) ==
  LET new == remote'[m] IN
  /\ made_for[m] = Null
  /\ row.mk_id = Null
  /\ new \in RemoteProfile /\ new.router = row.router /\ new.name = row.name
  /\ NameFreeOnRouter(m, row) /\ \A n \in Others(m, row) : remote[n].id # new.id
  /\ \A limit \in Limits : new[limit] \in {Blank, row[limit]}
  /\ remote' = [remote EXCEPT ![m] = new]
  /\ made_for' = [made_for EXCEPT ![m] = r]
  /\ UNCHANGED <<profile, read>>

Patch(m, row) ==
  LET new == remote'[m] IN
  /\ remote[m] # Null
  /\ row.router = remote[m].router /\ row.mk_id = remote[m].id
  /\ new \in RemoteProfile /\ new.router = row.router /\ new.id = row.mk_id
  /\ new.name = row.name /\ NameFreeOnRouter(m, row)
  /\ \A limit \in Limits : new[limit] \in {remote[m][limit], row[limit]}
  /\ remote' = [remote EXCEPT ![m] = new]
  /\ UNCHANGED <<profile, read, made_for>>

Link(r, m) ==
  /\ profile[r] # Null
  /\ made_for[m] = r
  /\ \E told \in {remote[m].id, Null} : profile' = [profile EXCEPT ![r].mk_id = told]
  /\ UNCHANGED <<read, remote, made_for>>

Next ==
  \E r \in Ids :
    \/ Create(r) \/ Read(r) \/ Delete(r)
    \/ \E row \in read[r] :
         Save(r, row) \/ \E m \in Ids : Make(m, r, row) \/ Patch(m, row)
    \/ \E m \in Ids : Link(r, m)

Spec == Init /\ [][Next]_vars
=============================================================================

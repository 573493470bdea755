------------------------------ MODULE VpnStatus -----------------------------
(***************************************************************************)
(* The VPN status of routers, as GET /api/routers/ (one batch for a page)  *)
(* and GET /api/routers/{id}/ read it from radacct (apps/routers), while   *)
(* FreeRADIUS records there the sessions of the routers' tunnels.          *)
(*                                                                         *)
(* A reading is two queries with no transaction around them.  A session    *)
(* whose Stop packet is lost stays open, so a router may have several open *)
(* ones.  Only times matter of a session, and they may tie; the row itself *)
(* stands for its tunnel address.  A router stands for its api_username.   *)
(***************************************************************************)
EXTENDS Naturals, FiniteSets

CONSTANTS
  Routers,
  Sessions,  \* rows radacct may come to have
  Readers,   \* GET requests
  MaxTime,   \* bound on the clock, in seconds
  Null

Status == {"NEVER_CONNECTED", "CONNECTED", "DISCONNECTED"}
Session == [router : Routers, start : 0..MaxTime, stop : 0..MaxTime \cup {Null}]
Info ==
  [status : {"NEVER_CONNECTED"}, session : {Null}, last_seen : {Null}]
    \cup [status : {"CONNECTED"}, session : Sessions, last_seen : {Null}]
    \cup [status : {"DISCONNECTED"}, session : Sessions, last_seen : 0..MaxTime \cup {Null}]

ASSUME TimeAssumption == MaxTime \in Nat
ASSUME NullAssumption == Null \notin Sessions \cup Nat \cup Session \cup Info

VARIABLES
  radacct,  \* the row of each session
  now,      \* the clock
  pc,       \* where each reading stands
  form,     \* "single" or "batch"
  info,     \* what it has found of each router asked for, or Null
  known,    \* routers it must not find NEVER_CONNECTED: an earlier one did not
  seen      \* what was true of each router since its first query (auxiliary)

vars == <<radacct, now, pc, form, info, known, seen>>

TypeOK ==
  /\ radacct \in [Sessions -> Session \cup {Null}]
  /\ now \in 0..MaxTime
  /\ pc \in [Readers -> {"idle", "active", "history", "done", "failed"}]
  /\ form \in [Readers -> {"single", "batch"}]
  /\ info = [p \in Readers |-> info[p]]
  /\ \A p \in Readers : \E asked \in SUBSET Routers : info[p] \in [asked -> Info \cup {Null}]
  /\ known \in [Readers -> SUBSET Routers]
  /\ seen \in [Readers -> [Routers -> SUBSET Status]]

Init ==
  /\ radacct = [s \in Sessions |-> Null]
  /\ now = 0
  /\ pc = [p \in Readers |-> "idle"]
  /\ form = [p \in Readers |-> "single"]
  /\ info = [p \in Readers |-> [r \in {} |-> Null]]
  /\ known = [p \in Readers |-> {}]
  /\ seen = [p \in Readers |-> [r \in Routers |-> {}]]

-----------------------------------------------------------------------------
(* FreeRADIUS *)

Of(r) == {s \in Sessions : radacct[s] # Null /\ radacct[s].router = r}
Open(r) == {s \in Of(r) : radacct[s].stop = Null}

\* What the documentation calls the status of r.
Truth(r) ==
  IF Open(r) # {} THEN "CONNECTED"
  ELSE IF Of(r) # {} THEN "DISCONNECTED" ELSE "NEVER_CONNECTED"

\* Readings between their queries witness the new truth.
Witnessed ==
  seen' = [p \in Readers |->
             IF pc[p] = "history" THEN [r \in Routers |-> seen[p][r] \cup {Truth(r)'}]
             ELSE seen[p]]

Start(s, r) ==
  /\ radacct[s] = Null
  /\ radacct' = [radacct EXCEPT ![s] = [router |-> r, start |-> now, stop |-> Null]]
  /\ Witnessed
  /\ UNCHANGED <<now, pc, form, info, known>>

Stop(s) ==
  /\ radacct[s] # Null /\ radacct[s].stop = Null
  /\ radacct' = [radacct EXCEPT ![s].stop = now]
  /\ Witnessed
  /\ UNCHANGED <<now, pc, form, info, known>>

Tick ==
  /\ now < MaxTime
  /\ now' = now + 1
  /\ UNCHANGED <<radacct, pc, form, info, known, seen>>

-----------------------------------------------------------------------------
(* Readings *)

Default == [status |-> "NEVER_CONNECTED", session |-> Null, last_seen |-> Null]

\* Mutant: an open session is last seen now.
ConnectedSeenNow(s) == [status |-> "CONNECTED", session |-> s, last_seen |-> now]

Connected(s) == [status |-> "CONNECTED", session |-> s, last_seen |-> Null]

Disconnected(s) ==
  [status |-> "DISCONNECTED", session |-> s, last_seen |-> radacct[s].stop]

\* Reported, by a reading that had no error, as other than NEVER_CONNECTED.
Reported(r) ==
  \E p \in Readers :
    pc[p] = "done" /\ r \in DOMAIN info[p] /\ info[p][r].status # "NEVER_CONNECTED"

Read(p, how, asked) ==
  /\ pc[p] = "idle"
  /\ pc' = [pc EXCEPT ![p] = "active"]
  /\ form' = [form EXCEPT ![p] = how]
  /\ info' = [info EXCEPT ![p] = [r \in asked |-> Null]]
  /\ known' = [known EXCEPT ![p] = {r \in asked : Reported(r)}]
  /\ UNCHANGED <<radacct, now, seen>>

Retrieve(p, r) == Read(p, "single", {r})
List(p, page) == page # {} /\ Read(p, "batch", page)

\* order_by("-acctstarttime").first(), or the last row of a query in no order.
ActiveSession(p, r) ==
  IF form[p] = "batch" THEN Open(r)
  ELSE {s \in Open(r) : \A t \in Open(r) : radacct[t].start <= radacct[s].start}

\* The open sessions; a reading of routers that all have one ends here.
QueryActive(p) ==
  /\ pc[p] = "active"
  /\ \E pick \in [{r \in DOMAIN info[p] : Open(r) # {}} -> Sessions] :
       /\ \A r \in DOMAIN pick : pick[r] \in ActiveSession(p, r)
       /\ info' = [info EXCEPT ![p] =
                     [r \in DOMAIN @ |-> IF r \in DOMAIN pick THEN Connected(pick[r]) ELSE Null]]
       /\ pc' = [pc EXCEPT ![p] = IF DOMAIN pick = DOMAIN info[p] THEN "done" ELSE "history"]
  /\ seen' = [seen EXCEPT ![p] = [r \in Routers |-> {Truth(r)}]]
  /\ UNCHANGED <<radacct, now, form, known>>

\* Mutant: NULLS LAST.
StoppedLaterNullsLast(s, t) ==
  radacct[t].stop = Null \/ (radacct[s].stop # Null /\ radacct[s].stop > radacct[t].stop)

\* "-acctstoptime" in PostgreSQL: descending, NULLS FIRST.
StoppedLater(s, t) ==
  radacct[t].stop # Null /\ (radacct[s].stop = Null \/ radacct[s].stop > radacct[t].stop)

\* order_by("-acctstoptime", "-acctstarttime").first()
LastSession(r) ==
  {s \in Of(r) : \A t \in Of(r) :
     \/ StoppedLater(s, t)
     \/ radacct[s].stop = radacct[t].stop /\ radacct[s].start >= radacct[t].start}

\* Mutant: history is read only if no router of the page has an open session.
RemainingIfNone(p) ==
  IF \A r \in DOMAIN info[p] : info[p][r] = Null THEN DOMAIN info[p] ELSE {}
Remaining(p) == {r \in DOMAIN info[p] : info[p][r] = Null}

\* Any session of the remaining routers.
QueryHistory(p) ==
  /\ pc[p] = "history"
  /\ \E pick \in [{r \in Remaining(p) : Of(r) # {}} -> Sessions] :
       /\ \A r \in DOMAIN pick : pick[r] \in LastSession(r)
       /\ info' = [info EXCEPT ![p] =
                     [r \in DOMAIN @ |->
                        IF r \in DOMAIN pick THEN Disconnected(pick[r])
                        ELSE IF @[r] = Null THEN Default ELSE @[r]]]
  /\ pc' = [pc EXCEPT ![p] = "done"]
  /\ UNCHANGED <<radacct, now, form, known, seen>>

\* Any exception: every router asked for is reported NEVER_CONNECTED.
QueryFails(p) ==
  /\ pc[p] \in {"active", "history"}
  /\ pc' = [pc EXCEPT ![p] = "failed"]
  /\ info' = [info EXCEPT ![p] = [r \in DOMAIN info[p] |-> Default]]
  /\ UNCHANGED <<radacct, now, form, known, seen>>

-----------------------------------------------------------------------------

Next ==
  \/ Tick
  \/ \E s \in Sessions : Stop(s) \/ \E r \in Routers : Start(s, r)
  \/ \E p \in Readers :
       \/ \E r \in Routers : Retrieve(p, r)
       \/ \E page \in SUBSET Routers : List(p, page)
       \/ QueryActive(p)
       \/ QueryHistory(p)
       \/ QueryFails(p)

Spec == Init /\ [][Next]_vars

-----------------------------------------------------------------------------
(* Properties *)

\* What a reading reports was true at some moment of it, sessions that start or
\* stop between its queries notwithstanding.  The exception is "DISCONNECTED"
\* without a last_seen: the session reported is then open.
StatusWasTrue ==
  \A p \in Readers :
    pc[p] = "done" =>
      \A r \in DOMAIN info[p] :
        \/ info[p][r].status \in seen[p][r]
        \/ info[p][r].status = "DISCONNECTED" /\ info[p][r].last_seen = Null

\* A router that one reading has shown connected or disconnected is not shown as
\* never connected by a later one, of the other form or of another page, unless
\* the database fails.
NoReadingForgets ==
  \A p \in Readers :
    pc[p] = "done" => \A r \in known[p] : info[p][r].status # "NEVER_CONNECTED"
=============================================================================

---------------------------- MODULE VpnStatus_proofs --------------------------
(***************************************************************************)
(* Proofs about VpnStatus, for any number of routers, sessions, readings.  *)
(*                                                                         *)
(* Sessions are recorded and never removed, so what a reading has found    *)
(* stays on record; and the truth a reading is measured against is kept    *)
(* up to date, between its queries, by the sessions themselves.            *)
(***************************************************************************)
EXTENDS VpnStatus, TLAPS

\* What a reading holds at each point, and what it stands on.
Reading(p) ==
  /\ known[p] \subseteq DOMAIN info[p]
  /\ \A r \in known[p] : Of(r) # {}
  /\ pc[p] = "history" =>
       /\ \A r \in Routers : Truth(r) \in seen[p][r]
       /\ \A r \in DOMAIN info[p] :
            info[p][r] # Null =>
              /\ info[p][r].status = "CONNECTED"
              /\ "CONNECTED" \in seen[p][r] /\ Of(r) # {}
  /\ pc[p] = "done" =>
       \A r \in DOMAIN info[p] :
         /\ info[p][r] # Null
         /\ IF info[p][r].status = "NEVER_CONNECTED" THEN r \notin known[p] ELSE Of(r) # {}
         /\ \/ info[p][r].status \in seen[p][r]
            \/ info[p][r].status = "DISCONNECTED" /\ info[p][r].last_seen = Null

IInv == TypeOK /\ \A p \in Readers : Reading(p)

-----------------------------------------------------------------------------
(* Operators *)

LEMMA InfoType ==
  ASSUME TypeOK, NEW s \in Sessions, radacct[s] # Null
  PROVE  Connected(s) \in Info /\ Disconnected(s) \in Info /\ Default \in Info
BY DEF TypeOK, Session, Connected, Disconnected, Default, Info

LEMMA DefaultType == Default \in Info
BY DEF Default, Info

LEMMA TruthType == \A r : Truth(r) \in Status
BY DEF Truth, Status

\* The session QueryHistory reports is closed only if none is open.
LEMMA LastSessionTells ==
  ASSUME NEW r, NEW s \in LastSession(r), radacct[s].stop # Null
  PROVE  Truth(r) = "DISCONNECTED"
<1>1. s \in Of(r) /\ \A t \in Of(r) : radacct[t].stop # Null
  BY DEF LastSession, StoppedLater
<1> QED
  BY <1>1 DEF Truth, Open

-----------------------------------------------------------------------------
(* Steps of FreeRADIUS *)

LEMMA SessionStep ==
  ASSUME IInv, radacct' \in [Sessions -> Session \cup {Null}], Witnessed,
         \A r \in Routers : Of(r) # {} => Of(r)' # {},
         UNCHANGED <<now, pc, form, info, known>>
  PROVE  IInv'
<1>1. TypeOK'
  <2>1. seen' \in [Readers -> [Routers -> SUBSET Status]]
    <3>1. \A r : Truth(r)' \in Status
      BY DEF Truth, Status
    <3> QED
      BY <3>1 DEF IInv, TypeOK, Witnessed
  <2> QED
    BY <2>1 DEF IInv, TypeOK
<1>2. ASSUME NEW p \in Readers PROVE Reading(p)'
  <2>1. Reading(p) /\ known[p] \subseteq Routers /\ DOMAIN info[p] \subseteq Routers
    BY DEF IInv, TypeOK
  <2>2. /\ pc'[p] = pc[p] /\ info'[p] = info[p] /\ known'[p] = known[p]
    OBVIOUS
  <2>3. CASE pc[p] = "history"
    <3>1. \A r \in Routers : seen'[p][r] = seen[p][r] \cup {Truth(r)'}
      BY <2>3 DEF Witnessed
    <3> QED
      BY <2>1, <2>2, <2>3, <3>1 DEF Reading
  <2>4. CASE pc[p] # "history"
    <3>1. seen'[p] = seen[p]
      BY <2>4 DEF Witnessed
    <3> QED
      BY <2>1, <2>2, <2>4, <3>1 DEF Reading
  <2> QED
    BY <2>3, <2>4
<1> QED
  BY <1>1, <1>2 DEF IInv

LEMMA StartNext ==
  ASSUME IInv, NEW s \in Sessions, NEW r \in Routers, Start(s, r)
  PROVE  IInv'
<1>1. [router |-> r, start |-> now, stop |-> Null] \in Session
  BY DEF IInv, TypeOK, Session
<1>2. radacct' \in [Sessions -> Session \cup {Null}]
  BY <1>1 DEF IInv, TypeOK, Start
<1>3. \A t \in Sessions : radacct[t] # Null => radacct'[t] = radacct[t]
  BY DEF IInv, TypeOK, Start
<1>4. \A q \in Routers : Of(q) # {} => Of(q)' # {}
  BY <1>3 DEF Of
<1> QED
  BY <1>2, <1>4, SessionStep DEF Start

LEMMA StopNext ==
  ASSUME IInv, NEW s \in Sessions, Stop(s)
  PROVE  IInv'
<1>1. radacct[s] \in Session /\ now \in 0..MaxTime
  BY DEF IInv, TypeOK, Stop
<1>2. /\ radacct' = [radacct EXCEPT ![s] = [@ EXCEPT !.stop = now]]
      /\ radacct \in [Sessions -> Session \cup {Null}]
  BY DEF IInv, TypeOK, Stop
<1>3. /\ radacct'[s] = [radacct[s] EXCEPT !.stop = now]
      /\ \A t \in Sessions \ {s} : radacct'[t] = radacct[t]
  BY <1>2
<1>4. radacct'[s] \in Session /\ radacct'[s].router = radacct[s].router
  BY <1>1, <1>3 DEF Session
<1>5. radacct' \in [Sessions -> Session \cup {Null}]
  BY <1>2, <1>4
<1>6. \A q \in Routers : Of(q) # {} => Of(q)' # {}
  BY <1>3, <1>4, NullAssumption DEF Of
<1> QED
  BY <1>5, <1>6, SessionStep DEF Stop

-----------------------------------------------------------------------------
(* Steps of a reading *)

\* Another reading is left as it was.
LEMMA OtherReading ==
  ASSUME IInv, NEW q \in Readers, radacct' = radacct,
         pc'[q] = pc[q], info'[q] = info[q], known'[q] = known[q], seen'[q] = seen[q]
  PROVE  Reading(q)'
BY DEF IInv, Reading, Of, Truth, Open

LEMMA ReadNext ==
  ASSUME IInv, NEW p \in Readers, NEW how \in {"single", "batch"},
         NEW asked \in SUBSET Routers, Read(p, how, asked)
  PROVE  IInv'
<1>1. /\ pc'[p] = "active" /\ info'[p] = [r \in asked |-> Null]
      /\ known'[p] = {r \in asked : Reported(r)}
      /\ radacct' = radacct
  BY DEF IInv, TypeOK, Read
<1>2. \A q \in Readers \ {p} :
        pc'[q] = pc[q] /\ info'[q] = info[q] /\ known'[q] = known[q] /\ seen'[q] = seen[q]
  BY DEF IInv, TypeOK, Read
<1>3. TypeOK'
  <2>1. info' = [q \in Readers |-> info'[q]]
    BY DEF IInv, TypeOK, Read
  <2>2. \A q \in Readers :
          \E some \in SUBSET Routers : info'[q] \in [some -> Info \cup {Null}]
    <3>1. info'[p] \in [asked -> Info \cup {Null}]
      BY <1>1
    <3> QED
      BY <1>2, <3>1 DEF IInv, TypeOK
  <2>3. /\ known' \in [Readers -> SUBSET Routers]
        /\ pc' \in [Readers -> {"idle", "active", "history", "done", "failed"}]
        /\ form' \in [Readers -> {"single", "batch"}]
    BY DEF IInv, TypeOK, Read
  <2> QED
    BY <2>1, <2>2, <2>3 DEF IInv, TypeOK, Read
<1>4. \A r \in asked : Reported(r) => Of(r) # {}
  BY DEF IInv, Reading, Reported
<1>5. Reading(p)'
  BY <1>1, <1>4 DEF Reading, Of
<1>6. \A q \in Readers \ {p} : Reading(q)'
  BY <1>1, <1>2, OtherReading
<1> QED
  BY <1>3, <1>5, <1>6 DEF IInv

LEMMA QueryActiveNext ==
  ASSUME IInv, NEW p \in Readers, QueryActive(p)
  PROVE  IInv'
<1> DEFINE asked == DOMAIN info[p]
           open == {r \in asked : Open(r) # {}}
<1>1. PICK pick \in [open -> Sessions] :
        /\ \A r \in open : pick[r] \in ActiveSession(p, r)
        /\ info' = [info EXCEPT ![p] =
                      [r \in asked |-> IF r \in open THEN Connected(pick[r]) ELSE Null]]
        /\ pc' = [pc EXCEPT ![p] = IF open = asked THEN "done" ELSE "history"]
  BY DEF IInv, TypeOK, QueryActive
<1>2. /\ info'[p] = [r \in asked |-> IF r \in open THEN Connected(pick[r]) ELSE Null]
      /\ pc'[p] = IF open = asked THEN "done" ELSE "history"
      /\ seen'[p] = [r \in Routers |-> {Truth(r)}]
      /\ known' = known /\ radacct' = radacct
      /\ asked \subseteq Routers
  BY <1>1 DEF IInv, TypeOK, QueryActive
<1>3. \A q \in Readers \ {p} :
        pc'[q] = pc[q] /\ info'[q] = info[q] /\ known'[q] = known[q] /\ seen'[q] = seen[q]
  BY <1>1 DEF IInv, TypeOK, QueryActive
<1>4. \A r \in open : /\ pick[r] \in Of(r)
                      /\ Connected(pick[r]) \in Info
                      /\ Connected(pick[r]).status = "CONNECTED"
                      /\ Truth(r) = "CONNECTED"
  <2> SUFFICES ASSUME NEW r \in open
               PROVE  /\ pick[r] \in Of(r) /\ Connected(pick[r]) \in Info
                      /\ Connected(pick[r]).status = "CONNECTED" /\ Truth(r) = "CONNECTED"
    OBVIOUS
  <2>1. pick[r] \in Open(r)
    BY <1>1 DEF ActiveSession
  <2>2. pick[r] \in Of(r) /\ pick[r] \in Sessions /\ radacct[pick[r]] # Null
    BY <2>1 DEF Open, Of
  <2> QED
    BY <2>1, <2>2, InfoType DEF IInv, Truth, Connected
<1>5. TypeOK'
  <2>1. info' = [q \in Readers |-> info'[q]]
    BY <1>1 DEF IInv, TypeOK
  <2>2. info'[p] \in [asked -> Info \cup {Null}]
    BY <1>2, <1>4
  <2>3. \A q \in Readers :
          \E some \in SUBSET Routers : info'[q] \in [some -> Info \cup {Null}]
    BY <1>2, <1>3, <2>2 DEF IInv, TypeOK
  <2>4. seen' \in [Readers -> [Routers -> SUBSET Status]]
    <3>1. seen' = [seen EXCEPT ![p] = [r \in Routers |-> {Truth(r)}]]
      BY DEF QueryActive
    <3> QED
      BY <3>1, TruthType DEF IInv, TypeOK
  <2>5. pc' \in [Readers -> {"idle", "active", "history", "done", "failed"}]
    BY <1>1 DEF IInv, TypeOK
  <2>6. UNCHANGED <<radacct, now, form, known>>
    BY DEF QueryActive
  <2> QED
    BY <2>1, <2>3, <2>4, <2>5, <2>6 DEF IInv, TypeOK
<1>6. Reading(p)'
  <2>1. /\ \A r : Of(r)' = Of(r) /\ Truth(r)' = Truth(r)
    BY <1>2 DEF Of, Truth, Open
  <2>2. Reading(p) /\ DOMAIN info'[p] = asked
    BY <1>2 DEF IInv
  <2>3. \A r \in asked :
          info'[p][r] # Null =>
            /\ info'[p][r].status = "CONNECTED"
            /\ "CONNECTED" \in seen'[p][r] /\ Of(r) # {}
    BY <1>2, <1>4
  <2>4. open = asked => \A r \in asked : info'[p][r] # Null
    BY <1>2, <1>4, NullAssumption
  <2>5. \A r \in Routers : Truth(r) \in seen'[p][r]
    BY <1>2
  <2> QED
    BY <1>2, <2>1, <2>2, <2>3, <2>4, <2>5 DEF Reading
<1>7. \A q \in Readers \ {p} : Reading(q)'
  BY <1>2, <1>3, OtherReading
<1> QED
  BY <1>5, <1>6, <1>7 DEF IInv

LEMMA QueryHistoryNext ==
  ASSUME IInv, NEW p \in Readers, QueryHistory(p)
  PROVE  IInv'
<1> DEFINE asked == DOMAIN info[p]
           found == {r \in Remaining(p) : Of(r) # {}}
           result(pick) ==
             [r \in asked |->
                IF r \in found THEN Disconnected(pick[r])
                ELSE IF info[p][r] = Null THEN Default ELSE info[p][r]]
<1>1. PICK pick \in [found -> Sessions] :
        /\ \A r \in found : pick[r] \in LastSession(r)
        /\ info' = [info EXCEPT ![p] = result(pick)]
  <2>1. PICK pick \in [found -> Sessions] :
          /\ \A r \in DOMAIN pick : pick[r] \in LastSession(r)
          /\ info' = [info EXCEPT ![p] =
                        [r \in DOMAIN info[p] |->
                           IF r \in DOMAIN pick THEN Disconnected(pick[r])
                           ELSE IF info[p][r] = Null THEN Default ELSE info[p][r]]]
    BY DEF IInv, TypeOK, QueryHistory
  <2>2. DOMAIN pick = found
    OBVIOUS
  <2> QED
    BY <2>1, <2>2
<1>2. /\ pc[p] = "history" /\ pc'[p] = "done" /\ info'[p] = result(pick)
      /\ known' = known /\ radacct' = radacct /\ seen' = seen
      /\ asked \subseteq Routers /\ found \subseteq asked
  BY <1>1 DEF IInv, TypeOK, QueryHistory, Remaining
<1>3. \A q \in Readers \ {p} :
        pc'[q] = pc[q] /\ info'[q] = info[q] /\ known'[q] = known[q] /\ seen'[q] = seen[q]
  BY <1>1 DEF IInv, TypeOK, QueryHistory
<1>4. \A r \in found :
        /\ Disconnected(pick[r]) \in Info
        /\ Disconnected(pick[r]).status = "DISCONNECTED"
        /\ Disconnected(pick[r]).last_seen = Null \/ Truth(r) = "DISCONNECTED"
  <2> SUFFICES ASSUME NEW r \in found
               PROVE  /\ Disconnected(pick[r]) \in Info
                      /\ Disconnected(pick[r]).status = "DISCONNECTED"
                      /\ Disconnected(pick[r]).last_seen = Null \/ Truth(r) = "DISCONNECTED"
    OBVIOUS
  <2>1. pick[r] \in LastSession(r) /\ pick[r] \in Sessions /\ radacct[pick[r]] # Null
    BY <1>1 DEF LastSession, Of
  <2> QED
    BY <2>1, InfoType, LastSessionTells DEF IInv, Disconnected
<1>5. TypeOK'
  <2>1. info' = [q \in Readers |-> info'[q]]
    BY <1>1 DEF IInv, TypeOK
  <2>2. info'[p] \in [asked -> Info \cup {Null}]
    BY <1>2, <1>4, DefaultType DEF IInv, TypeOK
  <2>3. \A q \in Readers :
          \E some \in SUBSET Routers : info'[q] \in [some -> Info \cup {Null}]
    BY <1>2, <1>3, <2>2 DEF IInv, TypeOK
  <2>4. pc' \in [Readers -> {"idle", "active", "history", "done", "failed"}]
    BY DEF IInv, TypeOK, QueryHistory
  <2>5. UNCHANGED <<radacct, now, form, known, seen>>
    BY DEF QueryHistory
  <2> QED
    BY <2>1, <2>3, <2>4, <2>5 DEF IInv, TypeOK
<1>6. Reading(p)'
  <2>1. Reading(p) /\ \A r : Of(r)' = Of(r)
    BY <1>2 DEF IInv, Of
  <2>2. ASSUME NEW r \in asked
        PROVE  /\ info'[p][r] # Null
               /\ IF info'[p][r].status = "NEVER_CONNECTED" THEN r \notin known[p]
                  ELSE Of(r) # {}
               /\ \/ info'[p][r].status \in seen[p][r]
                  \/ info'[p][r].status = "DISCONNECTED" /\ info'[p][r].last_seen = Null
    <3>0. Truth(r) \in seen[p][r]
      BY <1>2, <2>1 DEF Reading
    <3>1. CASE r \in found
      BY <1>2, <1>4, <3>0, <3>1, NullAssumption
    <3>2. CASE r \notin found /\ info[p][r] = Null
      <4>1. Of(r) = {} /\ r \notin known[p]
        BY <2>1, <3>2 DEF Remaining, Reading
      <4>2. Truth(r) = "NEVER_CONNECTED"
        BY <4>1 DEF Truth, Open
      <4>3. info'[p][r] = Default /\ Default.status = "NEVER_CONNECTED"
        BY <1>2, <3>2 DEF Default
      <4> QED
        BY <3>0, <4>1, <4>2, <4>3, DefaultType, NullAssumption
    <3>3. CASE info[p][r] # Null
      <4>1. r \notin found
        BY <3>3 DEF Remaining
      <4>2. info'[p][r] = info[p][r]
        BY <1>2, <3>3, <4>1
      <4> QED
        BY <1>2, <2>1, <3>3, <4>2 DEF Reading
    <3> QED
      BY <3>1, <3>2, <3>3
  <2> QED
    BY <1>2, <2>1, <2>2 DEF Reading
<1>7. \A q \in Readers \ {p} : Reading(q)'
  BY <1>2, <1>3, OtherReading
<1> QED
  BY <1>5, <1>6, <1>7 DEF IInv

LEMMA QueryFailsNext ==
  ASSUME IInv, NEW p \in Readers, QueryFails(p)
  PROVE  IInv'
<1> DEFINE asked == DOMAIN info[p]
<1>1. /\ pc'[p] = "failed" /\ info'[p] = [r \in asked |-> Default]
      /\ known' = known /\ radacct' = radacct /\ seen' = seen
      /\ asked \subseteq Routers
  BY DEF IInv, TypeOK, QueryFails
<1>2. \A q \in Readers \ {p} :
        pc'[q] = pc[q] /\ info'[q] = info[q] /\ known'[q] = known[q] /\ seen'[q] = seen[q]
  BY DEF IInv, TypeOK, QueryFails
<1>3. TypeOK'
  <2>1. info' = [q \in Readers |-> info'[q]]
    BY DEF IInv, TypeOK, QueryFails
  <2>2. \A q \in Readers :
          \E some \in SUBSET Routers : info'[q] \in [some -> Info \cup {Null}]
    <3>1. info'[p] \in [asked -> Info \cup {Null}]
      BY <1>1, DefaultType
    <3> QED
      BY <1>1, <1>2, <3>1 DEF IInv, TypeOK
  <2>3. pc' \in [Readers -> {"idle", "active", "history", "done", "failed"}]
    BY DEF IInv, TypeOK, QueryFails
  <2> QED
    BY <2>1, <2>2, <2>3 DEF IInv, TypeOK, QueryFails
<1>4. Reading(p)'
  BY <1>1 DEF IInv, Reading, Of
<1>5. \A q \in Readers \ {p} : Reading(q)'
  BY <1>1, <1>2, OtherReading
<1> QED
  BY <1>3, <1>4, <1>5 DEF IInv

-----------------------------------------------------------------------------
(* The theorems *)

LEMMA InvariantInit == Init => IInv
<1> SUFFICES ASSUME Init PROVE IInv
  OBVIOUS
<1>1. TypeOK
  <2>1. 0 \in 0..MaxTime
    BY TimeAssumption
  <2>2. \A p \in Readers : info[p] \in [{} -> Info \cup {Null}]
    BY DEF Init
  <2> QED
    BY <2>1, <2>2 DEF Init, TypeOK
<1>2. \A p \in Readers : Reading(p)
  BY DEF Init, Reading
<1> QED
  BY <1>1, <1>2 DEF IInv

LEMMA InvariantNext == IInv /\ [Next]_vars => IInv'
<1> SUFFICES ASSUME IInv, [Next]_vars PROVE IInv'
  OBVIOUS
<1>1. CASE Tick
  <2>1. now' \in 0..MaxTime
    BY <1>1, TimeAssumption DEF Tick, IInv, TypeOK
  <2>2. UNCHANGED <<radacct, pc, form, info, known, seen>>
    BY <1>1 DEF Tick
  <2> QED
    <3>1. TypeOK'
      BY <2>1, <2>2 DEF IInv, TypeOK
    <3>2. \A p \in Readers : Reading(p)'
      BY <2>2, OtherReading
    <3> QED
      BY <3>1, <3>2 DEF IInv
<1>2. CASE \E s \in Sessions : Stop(s) \/ \E r \in Routers : Start(s, r)
  BY <1>2, StopNext, StartNext
<1>3. CASE \E p \in Readers :
             \/ \E r \in Routers : Retrieve(p, r)
             \/ \E page \in SUBSET Routers : List(p, page)
  BY <1>3, ReadNext DEF Retrieve, List
<1>4. CASE \E p \in Readers : QueryActive(p) \/ QueryHistory(p) \/ QueryFails(p)
  BY <1>4, QueryActiveNext, QueryHistoryNext, QueryFailsNext
<1>5. CASE UNCHANGED vars
  BY <1>5 DEF vars, IInv, TypeOK, Reading, Of, Open, Truth
<1> QED
  BY <1>1, <1>2, <1>3, <1>4, <1>5 DEF Next

\* What each reading holds, at every point between its queries, is on record.
THEOREM Invariance == Spec => []IInv
<1> QED
  BY InvariantInit, InvariantNext, PTL DEF Spec

\* The variables keep their types.
THEOREM TypeCorrect == Spec => []TypeOK
<1>1. IInv => TypeOK
  BY DEF IInv
<1> QED
  BY <1>1, Invariance, PTL

\* get_vpn_connection_status and its batch form report what was true at some
\* moment of the reading, but for a DISCONNECTED without a last_seen.
THEOREM StatusIsTrue == Spec => []StatusWasTrue
<1>1. IInv => StatusWasTrue
  BY DEF IInv, Reading, StatusWasTrue
<1> QED
  BY <1>1, Invariance, PTL

\* A router once reported to have been connected is never forgotten, whichever of
\* the two forms reads it.
THEOREM ReadingsRemember == Spec => []NoReadingForgets
<1>1. IInv => NoReadingForgets
  BY DEF IInv, Reading, NoReadingForgets
<1> QED
  BY <1>1, Invariance, PTL
=============================================================================

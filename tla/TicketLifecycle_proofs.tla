----------------------- MODULE TicketLifecycle_proofs -----------------------
(***************************************************************************)
(* The safety of TicketLifecycle for any number of tickets and requests,   *)
(* and any usernames that activations may ask for.                         *)
(***************************************************************************)
EXTENDS TicketLifecycle, TLAPS

LEMMA InitInvariant == Init => IInv
<1> SUFFICES ASSUME Init PROVE IInv
  OBVIOUS
<1>1. TypeOK
  BY DEF Init, TypeOK, Requests, Loaders
<1>2. \A p \in Activators : ActivatorControl(p)
  BY DEF Init, ActivatorControl, Requests, Loaders
<1>3. \A p \in Loaders : LoaderControl(p)
  BY DEF Init, LoaderControl, Requests
<1>4. NamesAreUnique /\ UsersAreAsAsked
  BY DEF Init, NamesAreUnique, UsersAreAsAsked, Requests, Loaders
<1>5. ActiveTicketHasItsUser
  BY DEF Init, ActiveTicketHasItsUser
<1> QED
  BY <1>1, <1>2, <1>3, <1>4, <1>5 DEF IInv

\* Steps that leave the activations and the router alone, and activate nothing.
LEMMA LocalStep ==
  ASSUME IInv, TypeOK',
         UNCHANGED <<mk_user_id, users, sent, answer, name>>,
         \A k \in Tickets : status'[k] = "active" => status[k] = "active",
         \A p \in Activators : ticket'[p] = ticket[p],
         \A p \in Activators :
           pc'[p] # pc[p] => pc[p] # "idle" /\ pc'[p] \in {"failed", "crashed"},
         \A p \in Loaders \ Activators : pc'[p] # "idle" => ticket'[p] \in Tickets
  PROVE  IInv'
<1>1. ASSUME NEW p \in Activators
      PROVE  ActivatorControl(p)'
  BY <1>1 DEF IInv, ActivatorControl
<1>2. ASSUME NEW p \in Loaders
      PROVE  LoaderControl(p)'
  BY <1>1, <1>2 DEF IInv, LoaderControl, ActivatorControl, Loaders
<1>3. NamesAreUnique' /\ ActiveTicketHasItsUser'
  BY DEF IInv, NamesAreUnique, ActiveTicketHasItsUser
<1>4. UsersAreAsAsked'
  BY DEF IInv, TypeOK, HotspotUser, UsersAreAsAsked
<1> QED
  BY <1>1, <1>2, <1>3, <1>4 DEF IInv

\* Every step of the specification preserves the invariant.
LEMMA NextInvariant == IInv /\ [Next]_vars => IInv'
<1> SUFFICES ASSUME IInv, [Next]_vars PROVE IInv'
  OBVIOUS
<1> USE RequestsDisjoint, NullAssumption DEF Requests, Loaders
<1>1. CASE UNCHANGED vars
  BY <1>1 DEF vars, IInv, TypeOK, ActivatorControl, LoaderControl, NamesAreUnique,
     UsersAreAsAsked, ActiveTicketHasItsUser, HotspotUser
<1>2. ASSUME NEW p \in Generators, NEW batch \in SUBSET Tickets, Generate(p, batch)
      PROVE  IInv'
  <2>1. TypeOK'
    BY <1>2 DEF IInv, TypeOK, Generate, Step
  <2> QED
    BY <1>2, <2>1, LocalStep DEF IInv, TypeOK, Generate, Step, LoaderControl
<1>3. ASSUME NEW p \in Activators, NEW k \in Tickets, NEW asked \in Names \cup {Null},
             ActivateLoad(p, k, asked)
      PROVE  IInv'
  <2>1. HotspotName(k, asked) \in Tickets \cup Names
    BY DEF HotspotName
  <2>2. TypeOK'
    BY <1>3, <2>1 DEF IInv, TypeOK, ActivateLoad, Load, Step
  <2>3. ASSUME NEW q \in Activators
        PROVE  ActivatorControl(q)'
    BY <1>3, <2>1 DEF IInv, TypeOK, ActivatorControl, ActivateLoad, Load, Step
  <2>4. ASSUME NEW q \in Loaders
        PROVE  LoaderControl(q)'
    BY <1>3 DEF IInv, TypeOK, LoaderControl, ActivateLoad, Load, Step
  <2>5. NamesAreUnique' /\ ActiveTicketHasItsUser'
    BY <1>3 DEF IInv, NamesAreUnique, ActiveTicketHasItsUser, ActivateLoad
  <2>6. UsersAreAsAsked'
    BY <1>3 DEF IInv, TypeOK, HotspotUser, UsersAreAsAsked, ActivateLoad, Load, Step
  <2> QED
    BY <2>2, <2>3, <2>4, <2>5, <2>6 DEF IInv
<1>4. ASSUME NEW p \in Activators, RouterApplies(p)
      PROVE  IInv'
  <2>1. pc[p] # "idle" /\ ticket[p] \in Tickets /\ name[p] \in Tickets \cup Names
        /\ answer[p] = "none"
    BY <1>4 DEF IInv, ActivatorControl, RouterApplies
  <2>2. NewUser(p) \in HotspotUser
    BY <2>1 DEF NewUser, HotspotUser
  <2>3. TypeOK'
    BY <1>4, <2>2 DEF IInv, TypeOK, RouterApplies
  <2>4. ASSUME NEW q \in Activators
        PROVE  ActivatorControl(q)'
    <3>1. CASE q = p
      <4>1. answer'[p] \in {"created", "unnamed", "refused"} /\ p \notin sent'
        BY <1>4 DEF IInv, TypeOK, RouterApplies
      <4>2. answer'[p] \in {"created", "unnamed"} => NewUser(p) \in users'
        BY <1>4 DEF IInv, TypeOK, RouterApplies
      <4>3. pc[p] \notin {"save", "done"}
        BY <2>1 DEF IInv, ActivatorControl
      <4> QED
        BY <1>4, <2>1, <3>1, <4>1, <4>2, <4>3
        DEF IInv, ActivatorControl, RouterApplies, NewUser
    <3>2. CASE q # p
      <4>1. answer'[q] = answer[q] /\ users \subseteq users' /\ (q \in sent' <=> q \in sent)
        BY <1>4, <3>2 DEF IInv, TypeOK, RouterApplies
      <4> QED
        BY <1>4, <4>1 DEF IInv, ActivatorControl, RouterApplies
    <3> QED
      BY <3>1, <3>2
  <2>5. ASSUME NEW q \in Loaders
        PROVE  LoaderControl(q)'
    BY <1>4 DEF IInv, LoaderControl, RouterApplies
  <2>6. NamesAreUnique'
    BY <1>4 DEF IInv, NamesAreUnique, RouterApplies, NameTaken, NewUser
  <2>7. UsersAreAsAsked'
    BY <1>4, <2>1 DEF IInv, UsersAreAsAsked, RouterApplies, NewUser
  <2>8. ActiveTicketHasItsUser'
    BY <1>4 DEF IInv, ActiveTicketHasItsUser, RouterApplies
  <2> QED
    BY <2>3, <2>4, <2>5, <2>6, <2>7, <2>8 DEF IInv
<1>5. ASSUME NEW p \in Activators, RouterMisses(p)
      PROVE  IInv'
  <2>1. TypeOK'
    BY <1>5 DEF IInv, TypeOK, RouterMisses
  <2>2. ASSUME NEW q \in Activators
        PROVE  ActivatorControl(q)'
    BY <1>5 DEF IInv, ActivatorControl, RouterMisses
  <2>3. \A q \in Loaders : LoaderControl(q)'
    BY <1>5 DEF IInv, LoaderControl, RouterMisses
  <2>4. NamesAreUnique' /\ UsersAreAsAsked' /\ ActiveTicketHasItsUser'
    BY <1>5 DEF IInv, NamesAreUnique, UsersAreAsAsked, ActiveTicketHasItsUser, RouterMisses
  <2> QED
    BY <2>1, <2>2, <2>3, <2>4 DEF IInv
<1>6. ASSUME NEW p \in Activators, AnswerReceived(p)
      PROVE  IInv'
  <2>1. TypeOK'
    BY <1>6 DEF IInv, TypeOK, AnswerReceived, Step
  <2>2. ASSUME NEW q \in Activators
        PROVE  ActivatorControl(q)'
    BY <1>6 DEF IInv, TypeOK, ActivatorControl, AnswerReceived, Step
  <2>3. ASSUME NEW q \in Loaders
        PROVE  LoaderControl(q)'
    BY <1>6 DEF IInv, TypeOK, LoaderControl, AnswerReceived, Step
  <2>4. NamesAreUnique' /\ ActiveTicketHasItsUser'
    BY <1>6 DEF IInv, NamesAreUnique, ActiveTicketHasItsUser, AnswerReceived
  <2>5. UsersAreAsAsked'
    BY <1>6 DEF IInv, TypeOK, HotspotUser, UsersAreAsAsked, AnswerReceived, Step
  <2> QED
    BY <2>1, <2>2, <2>3, <2>4, <2>5 DEF IInv
<1>7. ASSUME NEW p \in Activators, RequestFails(p)
      PROVE  IInv'
  <2>1. TypeOK'
    BY <1>7 DEF IInv, TypeOK, RequestFails, Step
  <2> QED
    BY <1>7, <2>1, LocalStep DEF IInv, TypeOK, RequestFails, Step, LoaderControl
<1>8. ASSUME NEW p \in Activators, ActivateSave(p)
      PROVE  IInv'
  <2>1. ticket[p] \in Tickets
    BY <1>8 DEF IInv, ActivatorControl, ActivateSave, Step
  <2>2. TypeOK'
    BY <1>8, <2>1 DEF IInv, TypeOK, ActivateSave, ReportedId, Step
  <2>3. ASSUME NEW q \in Activators
        PROVE  ActivatorControl(q)'
    BY <1>8 DEF IInv, TypeOK, ActivatorControl, ActivateSave, Step
  <2>4. ASSUME NEW q \in Loaders
        PROVE  LoaderControl(q)'
    BY <1>8 DEF IInv, TypeOK, LoaderControl, ActivateSave, Step
  <2>5. NamesAreUnique'
    BY <1>8 DEF IInv, NamesAreUnique, ActivateSave
  <2>6. UsersAreAsAsked'
    BY <1>8 DEF IInv, TypeOK, HotspotUser, UsersAreAsAsked, ActivateSave, Step
  <2>7. \E u \in users : u.ticket = ticket[p] /\ u.id = p
    BY <1>8 DEF IInv, ActivatorControl, ActivateSave, Step
  <2>8. ActiveTicketHasItsUser'
    BY <1>8, <2>1, <2>7 DEF IInv, TypeOK, ActiveTicketHasItsUser, ActivateSave, ReportedId
  <2> QED
    BY <2>2, <2>3, <2>4, <2>5, <2>6, <2>8 DEF IInv
<1>9. ASSUME NEW p \in Cancellers, NEW k \in Tickets, CancelLoad(p, k)
      PROVE  IInv'
  <2>1. TypeOK'
    BY <1>9 DEF IInv, TypeOK, CancelLoad, Load, Step
  <2> QED
    BY <1>9, <2>1, LocalStep DEF IInv, TypeOK, CancelLoad, Load, Step, LoaderControl
<1>10. ASSUME NEW p \in Cancellers, CancelSave(p)
       PROVE  IInv'
  <2>1. TypeOK'
    BY <1>10 DEF IInv, TypeOK, CancelSave, Step
  <2> QED
    BY <1>10, <2>1, LocalStep DEF IInv, TypeOK, CancelSave, Step, LoaderControl
<1>11. ASSUME NEW p \in Destroyers, NEW k \in Tickets, DestroyLoad(p, k)
       PROVE  IInv'
  <2>1. TypeOK'
    BY <1>11 DEF IInv, TypeOK, DestroyLoad, Load, Step
  <2> QED
    BY <1>11, <2>1, LocalStep DEF IInv, TypeOK, DestroyLoad, Load, Step, LoaderControl
<1>12. ASSUME NEW p \in Destroyers, DestroyDelete(p)
       PROVE  IInv'
  <2>1. TypeOK'
    BY <1>12 DEF IInv, TypeOK, DestroyDelete, Step
  <2> QED
    BY <1>12, <2>1, LocalStep DEF IInv, TypeOK, DestroyDelete, Step, LoaderControl
<1>13. ASSUME NEW p \in Requests, Crash(p)
       PROVE  IInv'
  <2>1. TypeOK'
    BY <1>13 DEF IInv, TypeOK, Crash
  <2> QED
    BY <1>13, <2>1, LocalStep DEF IInv, TypeOK, Crash, InFlight, LoaderControl
<1> QED
  BY <1>1, <1>2, <1>3, <1>4, <1>5, <1>6, <1>7, <1>8, <1>9, <1>10, <1>11, <1>12, <1>13
  DEF Next, ActivateServe, Network

\* The types, what each activation holds and the names of the router's users
\* (activate_ticket, MikroTikClient._request) form an inductive invariant.
THEOREM Invariance == Spec => []IInv
  BY InitInvariant, NextInvariant, PTL DEF Spec

\* Tickets, the router and the memory of the requests keep their types.
THEOREM TypeCorrect == Spec => []TypeOK
<1>1. IInv => TypeOK
  BY DEF IInv
<1> QED
  BY <1>1, Invariance, PTL

\* A ticket shown as active has a hotspot user on the router, and the .id it records,
\* unless the router did not tell it, is that of such a user (activate_ticket).
THEOREM ActiveTicketsAreUsable == Spec => []ActiveTicketHasItsUser
<1>1. IInv => ActiveTicketHasItsUser
  BY DEF IInv
<1> QED
  BY <1>1, Invariance, PTL

\* A ticket for which no username was asked never has two users, however many
\* activations race, are repeated or lose their answers.
THEOREM TicketsAreSingleUse == Spec => []OneUserPerTicket
<1>1. IInv => OneUserPerTicket
  BY DEF IInv, TypeOK, HotspotUser, NamesAreUnique, UsersAreAsAsked, OneUserPerTicket
<1> QED
  BY <1>1, Invariance, PTL

\* No request that had loaded a ticket brings it back after its deletion.
THEOREM DeletionsAreFinal == Spec => DeletedStaysDeleted
<1>1. IInv /\ [Next]_vars =>
        [\A k \in Tickets : status[k] = "deleted" => status'[k] = "deleted"]_vars
  <2> SUFFICES ASSUME IInv, Next, NEW k \in Tickets, status[k] = "deleted"
               PROVE  status'[k] = "deleted"
    OBVIOUS
  <2>1. status \in [Tickets -> {"none", "pending", "active", "cancelled", "deleted"}]
    BY DEF IInv, TypeOK
  <2>2. ASSUME NEW p \in Generators, NEW batch \in SUBSET Tickets, Generate(p, batch)
        PROVE  status'[k] = "deleted"
    BY <2>1, <2>2 DEF Generate
  <2>3. ASSUME NEW p \in Activators, ActivateSave(p)
        PROVE  status'[k] = "deleted"
    BY <2>1, <2>3 DEF ActivateSave, Stored
  <2>4. ASSUME NEW p \in Cancellers, CancelSave(p)
        PROVE  status'[k] = "deleted"
    BY <2>1, <2>4 DEF CancelSave, Stored
  <2>5. ASSUME NEW p \in Destroyers, DestroyDelete(p)
        PROVE  status'[k] = "deleted"
    BY <2>1, <2>5 DEF DestroyDelete
  <2>6. ASSUME NEW p \in Activators, Network(p) \/ AnswerReceived(p) \/ RequestFails(p)
        PROVE  status'[k] = "deleted"
    BY <2>6 DEF Network, RouterApplies, RouterMisses, AnswerReceived, RequestFails
  <2> QED
    BY <2>2, <2>3, <2>4, <2>5, <2>6
    DEF Next, ActivateServe, ActivateLoad, CancelLoad, DestroyLoad, Crash
<1> QED
  BY <1>1, Invariance, PTL DEF Spec, DeletedStaysDeleted

-----------------------------------------------------------------------------
(* The ledger of tickets and hotspot users *)

\* A loaded ticket had been generated, and a user of the router is the answer to
\* its activation, so that no activation has two.
TicketsAreGenerated == \A p \in Loaders : ticket[p] \in Tickets => status[ticket[p]] # "none"
UsersAreAnswers == \A u \in users : answer[u.id] \in {"created", "unnamed"}

LInv == TicketsAreGenerated /\ UsersAreAnswers

\* A generated ticket stays generated, and a request loads stored ones.
LEMMA TicketsNext ==
  ASSUME IInv, Next
  PROVE  /\ \A k \in Tickets : status[k] # "none" => status'[k] # "none"
         /\ \A p \in Loaders :
              ticket'[p] = ticket[p] \/ (ticket'[p] \in Tickets /\ Stored(ticket'[p]))
<1> USE RequestsDisjoint DEF Loaders, Requests
<1>1. /\ status \in [Tickets -> {"none", "pending", "active", "cancelled", "deleted"}]
      /\ ticket \in [Loaders -> Tickets \cup {Null}]
  BY DEF IInv, TypeOK
<1>2. ASSUME NEW p \in Generators, NEW batch \in SUBSET Tickets, Generate(p, batch)
      PROVE  /\ \A k \in Tickets : status[k] # "none" => status'[k] # "none"
             /\ ticket' = ticket
  BY <1>1, <1>2 DEF Generate
<1>3. ASSUME NEW p \in Loaders, NEW k \in Tickets, NEW to, Load(p, k, to)
      PROVE  \A q \in Loaders :
               ticket'[q] = ticket[q] \/ (ticket'[q] \in Tickets /\ Stored(ticket'[q]))
  BY <1>1, <1>3 DEF Load
<1>4. ASSUME NEW p \in Activators, NEW k \in Tickets, NEW asked \in Names \cup {Null},
             ActivateLoad(p, k, asked)
      PROVE  status' = status /\ \E to : Load(p, k, to)
  BY <1>4 DEF ActivateLoad
<1>5. ASSUME NEW p \in Activators, ActivateServe(p) \/ Network(p)
      PROVE  /\ \A k \in Tickets : status[k] # "none" => status'[k] # "none"
             /\ ticket' = ticket
  BY <1>1, <1>5 DEF ActivateServe, Network, RouterApplies, RouterMisses, AnswerReceived,
     RequestFails, ActivateSave, Stored
<1>6. ASSUME NEW p \in Cancellers, CancelSave(p)
      PROVE  /\ \A k \in Tickets : status[k] # "none" => status'[k] # "none"
             /\ ticket' = ticket
  BY <1>1, <1>6 DEF CancelSave, Stored
<1>7. ASSUME NEW p \in Destroyers, DestroyDelete(p)
      PROVE  /\ \A k \in Tickets : status[k] # "none" => status'[k] # "none"
             /\ ticket' = ticket
  BY <1>1, <1>7 DEF DestroyDelete
<1>8. ASSUME NEW p \in Requests, Crash(p)
      PROVE  status' = status /\ ticket' = ticket
  BY <1>8 DEF Crash
<1>9. ASSUME NEW p \in Cancellers, NEW k \in Tickets, CancelLoad(p, k)
      PROVE  status' = status /\ \E to : Load(p, k, to)
  BY <1>9 DEF CancelLoad
<1>10. ASSUME NEW p \in Destroyers, NEW k \in Tickets, DestroyLoad(p, k)
       PROVE  status' = status /\ \E to : Load(p, k, to)
  BY <1>10 DEF DestroyLoad
<1> QED
  BY <1>2, <1>3, <1>4, <1>5, <1>6, <1>7, <1>8, <1>9, <1>10 DEF Next

\* Only the router adds a user, as the answer to an activation that had none.
LEMMA UsersNext ==
  ASSUME Next
  PROVE  UNCHANGED <<users, answer>> \/ \E p \in Activators : RouterApplies(p)
BY DEF Next, Generate, ActivateLoad, ActivateServe, AnswerReceived, RequestFails,
   ActivateSave, Network, RouterMisses, CancelLoad, CancelSave, DestroyLoad, DestroyDelete,
   Crash

LEMMA LedgerInvariant == Spec => []LInv
<1>1. Init => LInv
  <2> SUFFICES ASSUME Init PROVE LInv
    OBVIOUS
  <2>1. \A p \in Loaders : ticket[p] \notin Tickets
    BY NullAssumption DEF Init
  <2> QED
    BY <2>1 DEF Init, LInv, TicketsAreGenerated, UsersAreAnswers
<1>2. IInv /\ IInv' /\ LInv /\ [Next]_vars => LInv'
  <2> SUFFICES ASSUME IInv, IInv', LInv, [Next]_vars PROVE LInv'
    OBVIOUS
  <2>1. CASE UNCHANGED vars
    BY <2>1 DEF vars, LInv, TicketsAreGenerated, UsersAreAnswers
  <2>2. CASE Next
    <3>1. TicketsAreGenerated'
      BY <2>2, TicketsNext DEF LInv, TicketsAreGenerated, Stored
    <3>2. ASSUME NEW p \in Activators, RouterApplies(p)
          PROVE  UsersAreAnswers'
      <4>1. answer[p] = "none" /\ \A u \in users : u.id # p /\ u.id \in Activators
        BY <3>2 DEF RouterApplies, IInv, TypeOK, HotspotUser, ActivatorControl, LInv,
           UsersAreAnswers
      <4>2. \A u \in users : answer'[u.id] \in {"created", "unnamed"}
        BY <3>2, <4>1 DEF RouterApplies, IInv, TypeOK, LInv, UsersAreAnswers
      <4>3. ~NameTaken(p) => answer'[p] \in {"created", "unnamed"}
        BY <3>2 DEF RouterApplies, IInv, TypeOK
      <4> QED
        BY <3>2, <4>2, <4>3 DEF RouterApplies, UsersAreAnswers, NewUser
    <3>3. UsersAreAnswers'
      BY <2>2, <3>2, UsersNext DEF LInv, UsersAreAnswers
    <3> QED
      BY <3>1, <3>3 DEF LInv
  <2> QED
    BY <2>1, <2>2
<1> QED
  BY <1>1, <1>2, Invariance, PTL DEF Spec

\* Which users are unrecorded depends on the activations that succeeded.
LEMMA UnrecordedKept ==
  ASSUME IInv, users' = users,
         \A p \in Activators : pc'[p] = "done" <=> pc[p] = "done"
  PROVE  Unrecorded' = Unrecorded
BY DEF Unrecorded, IInv, TypeOK, HotspotUser

\* Every visit of a request is an operation of the ledger, or leaves it alone.
LEMMA LedgerNext ==
  ASSUME IInv, LInv, Next
  PROVE  [Ledger!Next]_(Ledger!vars)
<1> USE RequestsDisjoint, NullAssumption DEF Requests, Loaders
<1>t. TypeOK
  BY DEF IInv
<1>1. ASSUME NEW p \in Generators, NEW batch \in SUBSET Tickets, Generate(p, batch)
      PROVE  Ledger!Next
  <2>1. Unrecorded' = Unrecorded
    <3>1. \A q \in Activators : pc'[q] = pc[q]
      BY <1>1, <1>t DEF Generate, Step, TypeOK
    <3> QED
      BY <1>1, <3>1, UnrecordedKept DEF Generate
  <2>2. Ledger!Generate(batch)
    BY <1>1, <2>1 DEF Generate, Ledger!Generate
  <2> QED
    BY <2>2 DEF Ledger!Next
<1>2. ASSUME NEW p \in Activators, NEW k \in Tickets, NEW asked \in Names \cup {Null},
             ActivateLoad(p, k, asked)
      PROVE  UNCHANGED Ledger!vars
  <2>1. \A q \in Activators : pc'[q] = "done" <=> pc[q] = "done"
    BY <1>2, <1>t DEF ActivateLoad, Load, Step, TypeOK
  <2> QED
    BY <1>2, <2>1, UnrecordedKept DEF ActivateLoad, Ledger!vars
<1>3. ASSUME NEW p \in Activators, RouterApplies(p)
      PROVE  [Ledger!Next]_(Ledger!vars)
  <2>1. /\ ticket[p] \in Tickets /\ name[p] \in Tickets \cup Names
        /\ answer[p] = "none" /\ pc[p] # "done"
    BY <1>3 DEF IInv, ActivatorControl, RouterApplies
  <2>2. \A q \in Activators : pc'[q] = pc[q]
    BY <1>3 DEF RouterApplies
  <2>3. CASE NameTaken(p)
    BY <1>3, <2>2, <2>3, UnrecordedKept DEF RouterApplies, Ledger!vars
  <2>4. CASE ~NameTaken(p)
    <3>1. PICK u \in HotspotUser :
            u = NewUser(p) /\ u.ticket = ticket[p] /\ u.name = name[p] /\ u.id = p
      <4>1. NewUser(p) \in HotspotUser
        BY <2>1 DEF NewUser, HotspotUser
      <4>2. /\ NewUser(p).ticket = ticket[p] /\ NewUser(p).name = name[p]
            /\ NewUser(p).id = p
        BY DEF NewUser
      <4> QED
        BY <4>1, <4>2
    <3>2. \A v \in users : v.name # u.name /\ v.id # u.id
      BY <2>1, <2>4, <3>1 DEF NameTaken, LInv, UsersAreAnswers
    <3>3. users' = users \cup {u} /\ UNCHANGED <<status, mk_user_id, pc>>
      BY <1>3, <2>4, <3>1 DEF RouterApplies
    <3>4. Unrecorded' = Unrecorded \cup {u}
      BY <2>1, <3>1, <3>3 DEF Unrecorded
    <3>5. status[u.ticket] # "none"
      BY <2>1, <3>1 DEF LInv, TicketsAreGenerated
    <3>6. Ledger!Grant(u)
      BY <3>2, <3>3, <3>4, <3>5 DEF Ledger!Grant
    <3>7. u \in Ledger!HotspotUser
      BY <3>1 DEF HotspotUser, Ledger!HotspotUser
    <3> QED
      BY <3>6, <3>7 DEF Ledger!Next
  <2> QED
    BY <2>3, <2>4
<1>4. ASSUME NEW p \in Activators, RouterMisses(p)
      PROVE  UNCHANGED Ledger!vars
  BY <1>4, UnrecordedKept DEF RouterMisses, Ledger!vars
<1>5. ASSUME NEW p \in Activators, AnswerReceived(p) \/ RequestFails(p)
      PROVE  UNCHANGED Ledger!vars
  <2>1. \A q \in Activators : pc'[q] = "done" <=> pc[q] = "done"
    BY <1>5, <1>t DEF AnswerReceived, RequestFails, Step, TypeOK
  <2>2. UNCHANGED <<status, mk_user_id, users>>
    BY <1>5 DEF AnswerReceived, RequestFails
  <2> QED
    BY <2>1, <2>2, UnrecordedKept DEF Ledger!vars
<1>6. ASSUME NEW p \in Activators, ActivateSave(p)
      PROVE  [Ledger!Next]_(Ledger!vars)
  <2>1. CASE ~Stored(ticket[p])
    <3>1. \A q \in Activators : pc'[q] = "done" <=> pc[q] = "done"
      BY <1>6, <1>t, <2>1 DEF ActivateSave, Step, TypeOK
    <3>2. UNCHANGED <<status, mk_user_id, users>>
      BY <1>6, <2>1 DEF ActivateSave
    <3> QED
      BY <3>1, <3>2, UnrecordedKept DEF Ledger!vars
  <2>2. CASE Stored(ticket[p])
    <3>1. pc[p] = "save" /\ answer[p] \in {"created", "unnamed"}
      BY <1>6 DEF ActivateSave, Step, IInv, ActivatorControl
    <3>2. PICK u \in users : u.ticket = ticket[p] /\ u.id = p
      BY <3>1 DEF IInv, ActivatorControl
    <3>3. \A v \in users : v.id = p => v = u
      BY <3>2 DEF IInv, UsersAreAsAsked, NamesAreUnique
    <3>4. users' = users /\ \A q \in Activators : pc'[q] = IF q = p THEN "done" ELSE pc[q]
      BY <1>6, <1>t, <2>2 DEF ActivateSave, Step, TypeOK
    <3>5. \A v \in users : v.id \in Activators
      BY <1>t DEF TypeOK, HotspotUser
    <3>6. u \in Unrecorded /\ Unrecorded' = Unrecorded \ {u}
      BY <3>1, <3>2, <3>3, <3>4, <3>5 DEF Unrecorded
    <3>7. /\ status' = [status EXCEPT ![u.ticket] = "active"]
          /\ \E told \in {u.id, Null} :
               mk_user_id' = [mk_user_id EXCEPT ![u.ticket] = told]
      <4>1. /\ status' = [status EXCEPT ![ticket[p]] = "active"]
            /\ mk_user_id' = [mk_user_id EXCEPT ![ticket[p]] = ReportedId(p)]
        BY <1>6, <2>2 DEF ActivateSave
      <4>2. ReportedId(p) \in {u.id, Null}
        BY <3>2 DEF ReportedId
      <4> QED
        BY <3>2, <4>1, <4>2
    <3>8. Ledger!Activate(u)
      BY <2>2, <3>2, <3>4, <3>6, <3>7 DEF Ledger!Activate, Ledger!Stored, Stored
    <3> QED
      BY <3>6, <3>8 DEF Ledger!Next
  <2> QED
    BY <2>1, <2>2
<1>7. ASSUME NEW p \in Cancellers, CancelSave(p)
      PROVE  [Ledger!Next]_(Ledger!vars)
  <2>1. UNCHANGED <<mk_user_id, users, Unrecorded>>
    <3>1. \A q \in Activators : pc'[q] = pc[q]
      BY <1>7, <1>t DEF CancelSave, Step, TypeOK
    <3> QED
      BY <1>7, <3>1, UnrecordedKept DEF CancelSave
  <2>2. CASE Stored(ticket[p])
    <3>1. ticket[p] \in Tickets
      BY <1>7 DEF CancelSave, Step, IInv, LoaderControl
    <3>2. Ledger!Cancel(ticket[p])
      BY <1>7, <2>1, <2>2 DEF CancelSave, Stored, Ledger!Cancel, Ledger!Stored
    <3> QED
      BY <3>1, <3>2 DEF Ledger!Next
  <2>3. CASE ~Stored(ticket[p])
    BY <1>7, <2>1, <2>3 DEF CancelSave, Ledger!vars
  <2> QED
    BY <2>2, <2>3
<1>8. ASSUME NEW p \in Destroyers, DestroyDelete(p)
      PROVE  Ledger!Next
  <2>1. UNCHANGED <<mk_user_id, users, Unrecorded>>
    <3>1. \A q \in Activators : pc'[q] = pc[q]
      BY <1>8, <1>t DEF DestroyDelete, Step, TypeOK
    <3> QED
      BY <1>8, <3>1, UnrecordedKept DEF DestroyDelete
  <2>2. ticket[p] \in Tickets /\ status[ticket[p]] # "none"
    BY <1>8 DEF DestroyDelete, Step, IInv, LoaderControl, LInv, TicketsAreGenerated
  <2>3. Ledger!Delete(ticket[p])
    BY <1>8, <2>1, <2>2 DEF DestroyDelete, Ledger!Delete
  <2> QED
    BY <2>2, <2>3 DEF Ledger!Next
<1>9. ASSUME NEW p \in Cancellers \cup Destroyers, NEW k \in Tickets,
             CancelLoad(p, k) \/ DestroyLoad(p, k)
      PROVE  UNCHANGED Ledger!vars
  <2>1. \A q \in Activators : pc'[q] = pc[q]
    BY <1>9, <1>t DEF CancelLoad, DestroyLoad, Load, Step, TypeOK
  <2>2. UNCHANGED <<status, mk_user_id, users>>
    BY <1>9 DEF CancelLoad, DestroyLoad
  <2> QED
    BY <2>1, <2>2, UnrecordedKept DEF Ledger!vars
<1>10. ASSUME NEW p \in Requests, Crash(p)
       PROVE  UNCHANGED Ledger!vars
  <2>1. \A q \in Activators : pc'[q] = "done" <=> pc[q] = "done"
    BY <1>10, <1>t DEF Crash, InFlight, TypeOK
  <2> QED
    BY <1>10, <2>1, UnrecordedKept DEF Crash, Ledger!vars
<1> QED
  BY <1>1, <1>2, <1>3, <1>4, <1>5, <1>6, <1>7, <1>8, <1>9, <1>10
  DEF Next, ActivateServe, Network

\* The requests, visit by visit, implement the ledger: a ticket becomes active in
\* exchange for a user that the router created for it, each serving once and recorded
\* under the .id that was told, and a deleted ticket is neither activated nor cancelled.
THEOREM Implementation == Spec => ImplementsLedger
<1>1. Init => Ledger!Init
  BY DEF Init, Ledger!Init, Unrecorded
<1>2. IInv /\ LInv /\ [Next]_vars => [Ledger!Next]_(Ledger!vars)
  <2>1. ASSUME UNCHANGED vars
        PROVE  UNCHANGED Ledger!vars
    BY <2>1 DEF vars, Ledger!vars, Unrecorded
  <2> QED
    BY <2>1, LedgerNext
<1> QED
  BY <1>1, <1>2, Invariance, LedgerInvariant, PTL DEF Spec, ImplementsLedger, Ledger!Spec
=============================================================================

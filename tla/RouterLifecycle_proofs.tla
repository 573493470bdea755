----------------------- MODULE RouterLifecycle_proofs -----------------------
(***************************************************************************)
(* The safety of RouterLifecycle for any number of requests and accounts,  *)
(* any range of identifiers, any bodies of updates and any thread count.   *)
(***************************************************************************)
EXTENDS RouterLifecycle, TLAPS, WellFoundedInduction, FiniteSetTheorems

\* A set of naturals has a lowest element.
LEMMA LowestExists ==
  ASSUME NEW S, S \subseteq Nat, S # {}
  PROVE  \E i \in S : \A j \in S : i <= j
<1> DEFINE less == OpToRel(<, Nat)
<1>1. \E x \in S : \A y \in S : ~ (<<y, x>> \in less)
  BY NatLessThanWellFounded, WFMin
<1>2. PICK i \in S : \A j \in S : ~ (<<j, i>> \in less)
  BY <1>1
<1>3. ASSUME NEW j \in S
      PROVE  i <= j
  <2>1. i \in Nat /\ j \in Nat
    BY <1>2
  <2>2. ~ (<<j, i>> \in {ss \in Nat \X Nat : ss[1] < ss[2]})
    BY <1>2 DEF OpToRel
  <2> QED
    BY <2>1, <2>2
<1> QED
  BY <1>2, <1>3

\* get_next_router_identifier returns the lowest unused identifier.
LEMMA NextIdentifierIsLowest ==
  ASSUME FreeIds # {}
  PROVE  NextIdentifier \in FreeIds /\ \A j \in FreeIds : NextIdentifier <= j
<1>1. FreeIds \subseteq Nat
  BY ConstantsAssumption DEF FreeIds, Ids
<1> QED
  BY <1>1, LowestExists DEF NextIdentifier

LEMMA NextIdentifierType ==
  ASSUME FreeIds # {}
  PROVE  NextIdentifier \in Ids /\ NextIdentifier \in Nat /\ NextIdentifier \in Usernames
  BY NextIdentifierIsLowest, ConstantsAssumption DEF FreeIds, Ids, Usernames

LEMMA InitInvariant == Init => IInv
<1> SUFFICES ASSUME Init PROVE IInv
  OBVIOUS
<1>1. TypeOK
  BY DEF Init, TypeOK
<1>2. Control
  BY DEF Init, Control, CreatorControl, LoaderControl, Requests, Loaders
<1>3. UniqueKeys
  BY DEF Init, UniqueKeys, HoldsKeys, Exists, Inserting, Requests
<1>4. RegistrationIsAtomic
  BY DEF Init, RegistrationIsAtomic, Exists, Requests, Routers
<1>5. DoomedShareName /\ CredentialsKept
  BY DEF Init, DoomedShareName, CredentialsKept, Requests
<1> QED
  BY <1>1, <1>2, <1>3, <1>4, <1>5 DEF IInv

-----------------------------------------------------------------------------
(* Type correctness *)

\* What an update writes is a row.
LEMMA PatchedType ==
  ASSUME NEW row \in RouterRow, NEW patch \in Patches
  PROVE  Patched(row, patch) \in RouterRow
  BY ConstantsAssumption DEF Patched, Patch, RouterRow

\* A registration that has its identifier holds a row in lockstep with it.
LEMMA CreatorRow ==
  ASSUME Control, NEW p \in Creators,
         pc[p] \in {"insert", "radius_delete", "radius_insert", "commit", "done"}
  PROVE  /\ instance[p] \in RouterRow
         /\ instance[p].port = instance[p].username
         /\ instance[p].is_active
         /\ ClientId(instance[p]) \in Nat
         /\ user[p] \in Users
<1>1. PICK n \in Ids :
        instance[p] = [port |-> n, username |-> n, is_active |-> TRUE]
  BY DEF Control, CreatorControl
<1>2. n \in Nat /\ n - PortBase \in Nat /\ n \in Usernames
  BY ConstantsAssumption DEF Ids, Usernames
<1>3. user[p] \in Users
  BY DEF Control, CreatorControl
<1> QED
  BY <1>1, <1>2, <1>3 DEF RouterRow, ClientId

LEMMA StepType ==
  ASSUME TypeOK, NEW p \in Requests, NEW from, NEW to, Step(p, from, to),
         to \in {"idle", "validate", "provision", "insert", "radius_delete",
                 "radius_insert", "commit", "purge", "deactivate", "renumber",
                 "save", "radius_read", "create_token", "done", "failed"}
  PROVE  pc' \in [Requests -> {"idle", "validate", "provision", "insert",
                          "radius_delete", "radius_insert", "commit", "purge",
                          "deactivate", "renumber", "save", "radius_read",
                          "create_token", "done", "failed"}]
  BY DEF TypeOK, Step

LEMMA TypeNext ==
  ASSUME TypeOK, Control, Next
  PROVE  TypeOK'
<1> USE DEF tables, memory
<1>1. ASSUME NEW p \in Creators, NEW u \in Users, CreateArrives(p, u)
      PROVE  TypeOK'
  BY <1>1, StepType DEF CreateArrives, Arrive, TypeOK, Requests
<1>2. ASSUME NEW p \in Creators, CreateValidate(p)
      PROVE  TypeOK'
  BY <1>2, StepType DEF CreateValidate, TypeOK, Requests
<1>3. ASSUME NEW p \in Creators, CreateProvision(p)
      PROVE  TypeOK'
  BY <1>3, StepType, NextIdentifierType DEF CreateProvision, TypeOK, Requests, RouterRow
<1>4. ASSUME NEW p \in Creators, CreateInsert(p)
      PROVE  TypeOK'
  BY <1>4, StepType DEF CreateInsert, TypeOK, Requests
<1>5. ASSUME NEW p \in Creators, CreateCommit(p)
      PROVE  TypeOK'
  <2>1. instance[p] \in RouterRow /\ user[p] \in Users
    BY <1>5, CreatorRow DEF CreateCommit, Step
  <2> QED
    BY <1>5, <2>1, StepType DEF CreateCommit, TypeOK, Requests, Routers
<1>6. ASSUME NEW p \in Creators \cup Tokeners, RadiusDelete(p)
      PROVE  TypeOK'
  <2>1. Credentials(instance[p].username) \subseteq RadCheckRow
    BY DEF Credentials, TypeOK
  <2> QED
    BY <1>6, <2>1, StepType DEF RadiusDelete, TypeOK, Requests, Loaders
<1>7. ASSUME NEW p \in Creators \cup Tokeners, RadiusInsert(p)
      PROVE  TypeOK'
  <2>1. NewCredential(p) \in RadCheckRow
    <3>1. pc[p] = "radius_insert"
      BY <1>7 DEF RadiusInsert, Step
    <3>2. CASE p \in Creators
      BY <3>1, <3>2, CreatorRow DEF NewCredential, RadCheckRow, RouterRow, Requests
    <3>3. CASE p \in Tokeners
      BY <3>1, <3>3, ConstantsAssumption
      DEF Control, LoaderControl, NewCredential, ClientId, RadCheckRow,
          RouterRow, Requests, Loaders
    <3> QED
      BY <3>2, <3>3
  <2>2. radcheck' \subseteq RadCheckRow
    BY <1>7, <2>1 DEF RadiusInsert, TypeOK
  <2>3. password' \in [Tokeners -> Requests \cup {Null}]
    BY <1>7 DEF RadiusInsert, TypeOK, Requests, Loaders
  <2> QED
    BY <1>7, <2>2, <2>3, StepType DEF RadiusInsert, TypeOK, Requests, Loaders
<1>8. ASSUME NEW p \in Creators \cup Tokeners, RadiusFails(p)
      PROVE  TypeOK'
  BY <1>8, StepType DEF RadiusFails, TypeOK, Requests, Loaders
<1>9. ASSUME NEW p \in Loaders, NEW u \in Users, NEW r \in Routers,
             NEW to \in {"renumber", "save", "failed", "purge", "radius_read"},
             NEW row \in RouterRow, Load(p, u, r, to, row)
      PROVE  TypeOK'
  BY <1>9, StepType DEF Load, Arrive, TypeOK, Requests
<1>10. ASSUME NEW r \in Routers, NEW u \in Users, Visible(u, r)
       PROVE  router[r] \in RouterRow
  BY <1>10 DEF Visible, Exists, TypeOK
<1>11. ASSUME NEW p \in Updaters, NEW u \in Users, NEW r \in Routers,
              NEW patch \in Patches, UpdateLoad(p, u, r, patch)
       PROVE  TypeOK'
  BY <1>11, <1>9, <1>10, PatchedType DEF UpdateLoad, Load, AfterValidation, Loaders
<1>12. ASSUME NEW p \in Updaters, UpdateRenumber(p)
       PROVE  TypeOK'
  <2>1. instance[p] \in RouterRow
    BY <1>12 DEF UpdateRenumber, Step, Control, LoaderControl, Loaders
  <2>2. FreeIds # {} => [instance[p] EXCEPT !.port = NextIdentifier] \in RouterRow
    BY <2>1, NextIdentifierType DEF RouterRow
  <2>3. instance' \in [Requests -> RouterRow \cup {Null}]
    BY <1>12, <2>2 DEF UpdateRenumber, TypeOK, Requests, Loaders
  <2> QED
    BY <1>12, <2>3, StepType DEF UpdateRenumber, TypeOK, Requests, Loaders
<1>13. ASSUME NEW p \in Updaters, UpdateSave(p)
       PROVE  TypeOK'
  <2>1. instance[p] \in RouterRow /\ target[p] \in Routers
    BY <1>13 DEF UpdateSave, Step, Control, LoaderControl, Loaders
  <2> QED
    BY <1>13, <2>1, StepType DEF UpdateSave, Saved, TypeOK, Requests, Loaders
<1>14. ASSUME NEW p \in Deleters, NEW u \in Users, NEW r \in Routers, DeleteLoad(p, u, r)
       PROVE  TypeOK'
  BY <1>14, <1>9, <1>10 DEF DeleteLoad, Load, Loaders
<1>15. ASSUME NEW p \in Deleters, DeletePurge(p) \/ DeletePurgeFails(p)
       PROVE  TypeOK'
  BY <1>15, StepType DEF DeletePurge, DeletePurgeFails, TypeOK, Requests, Loaders
<1>16. ASSUME NEW p \in Deleters, DeleteDeactivate(p)
       PROVE  TypeOK'
  <2>1. target[p] \in Routers /\ router[target[p]] \in RouterRow
    BY <1>16 DEF DeleteDeactivate, Step, Control, LoaderControl, Loaders, Exists, TypeOK
  <2> QED
    BY <1>16, <2>1, StepType DEF DeleteDeactivate, TypeOK, Requests, Loaders, RouterRow
<1>17. ASSUME NEW p \in Tokeners, NEW u \in Users, NEW r \in Routers, TokenLoad(p, u, r)
       PROVE  TypeOK'
  BY <1>17, <1>9, <1>10 DEF TokenLoad, Load, Loaders
<1>18. ASSUME NEW p \in Tokeners, TokenReads(p)
       PROVE  TypeOK'
  BY <1>18, StepType DEF TokenReads, Credentials, RadCheckRow, TypeOK, Requests, Loaders
<1>19. ASSUME NEW p \in Tokeners, TokenMisses(p)
       PROVE  TypeOK'
  BY <1>19, StepType DEF TokenMisses, TypeOK, Requests, Loaders
<1>20. ASSUME NEW p \in Tokeners, TokenCreate(p)
       PROVE  TypeOK'
  <2>1. [router |-> target[p], username |-> instance[p].username,
         password |-> password[p]] \in ScriptToken
    BY <1>20 DEF TokenCreate, Step, Control, LoaderControl, Loaders, ScriptToken, RouterRow
  <2> QED
    BY <1>20, <2>1, StepType DEF TokenCreate, TypeOK, Requests, Loaders
<1>21. ASSUME NEW p \in Tokeners, TokenFails(p)
       PROVE  TypeOK'
  BY <1>21, StepType DEF TokenFails, TypeOK, Requests, Loaders
<1>22. ASSUME NEW p \in Requests, Crash(p)
       PROVE  TypeOK'
  BY <1>22 DEF Crash, TypeOK
<1> QED
  BY <1>1, <1>2, <1>3, <1>4, <1>5, <1>6, <1>7, <1>8, <1>11, <1>12, <1>13, <1>14,
     <1>15, <1>16, <1>17, <1>18, <1>19, <1>20, <1>21, <1>22
  DEF Next, CreateServe, UpdateServe, DeleteServe, TokenServe, RadiusServe

-----------------------------------------------------------------------------
(* Where each handler stands, and what it holds there *)

\* The step of p leaves what other requests hold as it was, and no row
\* disappears.
OnlyBy(p) ==
  /\ \A q \in Requests \ {p} : pc'[q] = pc[q] /\ instance'[q] = instance[q]
  /\ \A q \in Creators \ {p} : user'[q] = user[q]
  /\ \A q \in Loaders \ {p} : target'[q] = target[q]
  /\ \A q \in Tokeners \ {p} : password'[q] = password[q]
  /\ \A r \in Routers : Exists(r) => Exists(r)'

LEMMA OthersKeepControl ==
  ASSUME Control, NEW p \in Requests, OnlyBy(p),
         p \in Creators => CreatorControl(p)',
         p \in Loaders => LoaderControl(p)'
  PROVE  Control'
<1>1. ASSUME NEW q \in Creators PROVE CreatorControl(q)'
  <2>1. CASE q = p
    BY <2>1
  <2>2. CASE q # p
    BY <2>2 DEF Control, CreatorControl, OnlyBy, Requests
  <2> QED
    BY <2>1, <2>2
<1>2. ASSUME NEW q \in Loaders PROVE LoaderControl(q)'
  <2>1. CASE q = p
    BY <2>1
  <2>2. CASE q # p
    <3>1. LoaderControl(q)
      BY DEF Control
    <3>2. /\ pc'[q] = pc[q] /\ instance'[q] = instance[q] /\ target'[q] = target[q]
          /\ q \in Tokeners => password'[q] = password[q]
          /\ target[q] \in Routers /\ Exists(target[q]) => router'[target'[q]] # Null
      BY <2>2 DEF OnlyBy, Requests, Loaders, Exists
    <3> QED
      BY <3>1, <3>2 DEF LoaderControl, ClientId, Exists
  <2> QED
    BY <2>1, <2>2
<1> QED
  BY <1>1, <1>2 DEF Control

LEMMA ControlNext ==
  ASSUME TypeOK, Control, Next
  PROVE  Control'
<1> USE DEF tables, memory
<1>0. Creators \subseteq Requests /\ Loaders \subseteq Requests
      /\ Updaters \subseteq Loaders /\ Deleters \subseteq Loaders
      /\ Tokeners \subseteq Loaders /\ Routers = Creators
  BY DEF Requests, Loaders, Routers
<1>1. ASSUME NEW p \in Creators, NEW u \in Users, CreateArrives(p, u)
      PROVE  Control'
  <2>1. OnlyBy(p)
    BY <1>1, <1>0 DEF OnlyBy, CreateArrives, Arrive, Step, TypeOK, Exists
  <2>2. CreatorControl(p)'
    BY <1>1, <1>0 DEF CreatorControl, CreateArrives, Arrive, Step, TypeOK
  <2> QED
    BY <1>0, <2>1, <2>2, OthersKeepControl, RequestsDisjoint
<1>2. ASSUME NEW p \in Creators, CreateValidate(p)
      PROVE  Control'
  <2>1. OnlyBy(p)
    BY <1>2, <1>0 DEF OnlyBy, CreateValidate, Step, TypeOK, Exists
  <2>2. CreatorControl(p)'
    BY <1>2, <1>0 DEF CreatorControl, Control, CreateValidate, Step, TypeOK
  <2> QED
    BY <1>0, <2>1, <2>2, OthersKeepControl, RequestsDisjoint
<1>3. ASSUME NEW p \in Creators, CreateProvision(p)
      PROVE  Control'
  <2>1. OnlyBy(p)
    BY <1>3, <1>0 DEF OnlyBy, CreateProvision, Step, TypeOK, Exists
  <2>2. CreatorControl(p)'
    BY <1>3, <1>0, NextIdentifierType
    DEF CreatorControl, Control, CreateProvision, Step, TypeOK
  <2> QED
    BY <1>0, <2>1, <2>2, OthersKeepControl, RequestsDisjoint
<1>4. ASSUME NEW p \in Creators, CreateInsert(p)
      PROVE  Control'
  <2>1. OnlyBy(p)
    BY <1>4, <1>0 DEF OnlyBy, CreateInsert, Step, TypeOK, Exists
  <2>2. CreatorControl(p)'
    BY <1>4, <1>0 DEF CreatorControl, Control, CreateInsert, Step, TypeOK
  <2> QED
    BY <1>0, <2>1, <2>2, OthersKeepControl, RequestsDisjoint
<1>5. ASSUME NEW p \in Creators, CreateCommit(p)
      PROVE  Control'
  <2>0. instance[p] # Null
    BY <1>5, CreatorRow, NullAssumption DEF CreateCommit, Step
  <2>1. OnlyBy(p)
    BY <1>5, <1>0, <2>0 DEF OnlyBy, CreateCommit, Step, TypeOK, Exists
  <2>2. CreatorControl(p)'
    BY <1>5, <1>0 DEF CreatorControl, Control, CreateCommit, Step, TypeOK
  <2> QED
    BY <1>0, <2>1, <2>2, OthersKeepControl, RequestsDisjoint
<1>6. ASSUME NEW p \in Creators \cup Tokeners, RadiusDelete(p) \/ RadiusFails(p)
      PROVE  Control'
  <2>1. OnlyBy(p)
    BY <1>6, <1>0 DEF OnlyBy, RadiusDelete, RadiusFails, Step, TypeOK, Exists
  <2>2. p \in Creators => CreatorControl(p)'
    BY <1>6, <1>0 DEF CreatorControl, Control, RadiusDelete, RadiusFails, Step, TypeOK
  <2>3. p \in Loaders => LoaderControl(p)'
    BY <1>6, <1>0, RequestsDisjoint
    DEF LoaderControl, Control, RadiusDelete, RadiusFails, Step, TypeOK, Exists, ClientId
  <2> QED
    BY <1>0, <2>1, <2>2, <2>3, OthersKeepControl
<1>7. ASSUME NEW p \in Creators \cup Tokeners, RadiusInsert(p)
      PROVE  Control'
  <2>1. OnlyBy(p)
    BY <1>7, <1>0 DEF OnlyBy, RadiusInsert, Step, TypeOK, Exists
  <2>2. p \in Creators => CreatorControl(p)'
    BY <1>7, <1>0 DEF CreatorControl, Control, RadiusInsert, Step, TypeOK
  <2>3. p \in Loaders => LoaderControl(p)'
    BY <1>7, <1>0, RequestsDisjoint
    DEF LoaderControl, Control, RadiusInsert, Step, TypeOK, Exists, ClientId
  <2> QED
    BY <1>0, <2>1, <2>2, <2>3, OthersKeepControl
<1>8. ASSUME NEW p \in Loaders, NEW u \in Users, NEW r \in Routers, NEW to,
             NEW row \in RouterRow, Load(p, u, r, to, row)
      PROVE  /\ OnlyBy(p)
             /\ p \notin Creators
             /\ pc'[p] = to
             /\ target'[p] \in Routers /\ router'[target'[p]] # Null
             /\ instance'[p] \in RouterRow
  BY <1>8, <1>0, RequestsDisjoint
  DEF Load, Arrive, Step, Visible, OnlyBy, TypeOK, Exists
<1>9. ASSUME NEW r \in Routers, NEW u \in Users, Visible(u, r)
      PROVE  router[r] \in RouterRow
  BY <1>9 DEF Visible, Exists, TypeOK
<1>10. ASSUME NEW p \in Updaters, NEW u \in Users, NEW r \in Routers,
              NEW patch \in Patches, UpdateLoad(p, u, r, patch)
       PROVE  Control'
  <2>1. Patched(router[r], patch) \in RouterRow
    BY <1>9, <1>10, PatchedType DEF UpdateLoad, Load
  <2>2. /\ OnlyBy(p) /\ p \notin Creators
        /\ pc'[p] \in {"renumber", "save", "failed"}
        /\ target'[p] \in Routers /\ router'[target'[p]] # Null
        /\ instance'[p] \in RouterRow
    BY <1>0, <1>8, <1>10, <2>1 DEF UpdateLoad, AfterValidation
  <2>3. LoaderControl(p)'
    BY <2>2, RequestsDisjoint DEF LoaderControl, Exists
  <2> QED
    BY <1>0, <2>2, <2>3, OthersKeepControl
<1>11. ASSUME NEW p \in Updaters, UpdateRenumber(p)
       PROVE  Control'
  <2>1. instance[p] \in RouterRow /\ LoaderControl(p)
    BY <1>11, <1>0 DEF UpdateRenumber, Step, Control, LoaderControl
  <2>2. FreeIds # {} => [instance[p] EXCEPT !.port = NextIdentifier] \in RouterRow
    BY <2>1, NextIdentifierType DEF RouterRow
  <2>3. OnlyBy(p)
    BY <1>11, <1>0 DEF OnlyBy, UpdateRenumber, Step, TypeOK, Exists
  <2>4. instance'[p] \in RouterRow /\ target'[p] = target[p] /\ router' = router
        /\ pc[p] = "renumber" /\ pc'[p] \in {"failed", "save"}
    BY <1>11, <1>0, <2>1, <2>2 DEF UpdateRenumber, Step, TypeOK
  <2>5. LoaderControl(p)'
    BY <2>1, <2>4, RequestsDisjoint DEF LoaderControl, Exists
  <2> QED
    BY <1>0, <2>3, <2>5, OthersKeepControl, RequestsDisjoint
<1>12. ASSUME NEW p \in Updaters, UpdateSave(p)
       PROVE  Control'
  <2>1. LoaderControl(p) /\ instance[p] \in RouterRow /\ instance[p] # Null
        /\ target[p] \in Routers /\ pc[p] = "save"
    BY <1>12, <1>0, NullAssumption DEF UpdateSave, Step, Control, LoaderControl
  <2>2. OnlyBy(p)
    BY <1>12, <1>0, <2>1 DEF OnlyBy, UpdateSave, Saved, Step, TypeOK, Exists
  <2>3. /\ pc'[p] \in {"failed", "done"} /\ target'[p] = target[p]
        /\ instance'[p] = instance[p]
    BY <1>12, <1>0 DEF UpdateSave, Step, TypeOK
  <2>4. LoaderControl(p)'
    BY <2>1, <2>2, <2>3, RequestsDisjoint DEF LoaderControl, OnlyBy, Exists
  <2> QED
    BY <1>0, <2>2, <2>4, OthersKeepControl, RequestsDisjoint
<1>13. ASSUME NEW p \in Deleters, NEW u \in Users, NEW r \in Routers, DeleteLoad(p, u, r)
       PROVE  Control'
  <2>1. /\ OnlyBy(p) /\ p \notin Creators /\ pc'[p] = "purge"
        /\ target'[p] \in Routers /\ router'[target'[p]] # Null
        /\ instance'[p] \in RouterRow
    BY <1>0, <1>8, <1>9, <1>13 DEF DeleteLoad, Load
  <2>2. LoaderControl(p)'
    BY <2>1, RequestsDisjoint DEF LoaderControl, Exists
  <2> QED
    BY <1>0, <2>1, <2>2, OthersKeepControl
<1>14. ASSUME NEW p \in Deleters, DeletePurge(p) \/ DeletePurgeFails(p)
       PROVE  Control'
  <2>1. OnlyBy(p)
    BY <1>14, <1>0 DEF OnlyBy, DeletePurge, DeletePurgeFails, Step, TypeOK, Exists
  <2>2. LoaderControl(p)'
    BY <1>14, <1>0, RequestsDisjoint
    DEF LoaderControl, Control, DeletePurge, DeletePurgeFails, Step, TypeOK, Exists
  <2> QED
    BY <1>0, <2>1, <2>2, OthersKeepControl, RequestsDisjoint
<1>15. ASSUME NEW p \in Deleters, DeleteDeactivate(p)
       PROVE  Control'
  <2>1. LoaderControl(p) /\ instance[p] \in RouterRow
        /\ target[p] \in Routers /\ pc[p] = "deactivate"
        /\ router[target[p]] \in RouterRow
    BY <1>15, <1>0 DEF DeleteDeactivate, Step, Control, LoaderControl, TypeOK, Exists
  <2>2. [router[target[p]] EXCEPT !.is_active = FALSE] \in RouterRow
    BY <2>1 DEF RouterRow
  <2>3. \A r \in Routers : Exists(r) => Exists(r)'
    BY <1>15, <2>1, <2>2, NullAssumption DEF DeleteDeactivate, TypeOK, Exists
  <2>4. OnlyBy(p)
    BY <1>15, <1>0, <2>3 DEF OnlyBy, DeleteDeactivate, Step, TypeOK
  <2>5. /\ pc'[p] = "done" /\ target'[p] = target[p] /\ instance'[p] = instance[p]
    BY <1>15, <1>0 DEF DeleteDeactivate, Step, TypeOK
  <2>6. LoaderControl(p)'
    BY <2>1, <2>3, <2>5, RequestsDisjoint DEF LoaderControl, Exists
  <2> QED
    BY <1>0, <2>4, <2>6, OthersKeepControl, RequestsDisjoint
<1>16. ASSUME NEW p \in Tokeners, NEW u \in Users, NEW r \in Routers, TokenLoad(p, u, r)
       PROVE  Control'
  <2>1. /\ OnlyBy(p) /\ p \notin Creators /\ pc'[p] = "radius_read"
        /\ target'[p] \in Routers /\ router'[target'[p]] # Null
        /\ instance'[p] \in RouterRow
    BY <1>0, <1>8, <1>9, <1>16 DEF TokenLoad, Load
  <2>2. LoaderControl(p)'
    BY <2>1, RequestsDisjoint DEF LoaderControl, Exists
  <2> QED
    BY <1>0, <2>1, <2>2, OthersKeepControl
<1>17. ASSUME NEW p \in Tokeners,
              TokenReads(p) \/ TokenMisses(p) \/ TokenCreate(p) \/ TokenFails(p)
       PROVE  Control'
  <2>1. OnlyBy(p)
    BY <1>17, <1>0
    DEF OnlyBy, TokenReads, TokenMisses, TokenCreate, TokenFails, Step, TypeOK, Exists
  <2>2. LoaderControl(p) /\ pc[p] \in {"radius_read", "create_token"}
    BY <1>17, <1>0 DEF TokenReads, TokenMisses, TokenCreate, TokenFails, Step, Control
  <2>3. /\ target'[p] = target[p] /\ instance'[p] = instance[p] /\ router' = router
        /\ instance[p] \in RouterRow
    BY <1>17, <1>0, <2>2
    DEF TokenReads, TokenMisses, TokenCreate, TokenFails, LoaderControl
  <2>4. \/ pc'[p] = "create_token" /\ password'[p] \in Requests
        \/ pc'[p] = "radius_delete" /\ ClientId(instance[p]) >= 0
        \/ pc'[p] \in {"done", "failed"}
    <3>1. CASE TokenReads(p)
      BY <3>1, <1>0 DEF TokenReads, Step, TypeOK, Credentials, RadCheckRow
    <3>2. CASE TokenMisses(p)
      BY <3>2, <1>0, <2>3, ConstantsAssumption
      DEF TokenMisses, Step, TypeOK, ClientId, RouterRow
    <3>3. CASE TokenCreate(p) \/ TokenFails(p)
      BY <3>3, <1>0 DEF TokenCreate, TokenFails, Step, TypeOK
    <3> QED
      BY <1>17, <3>1, <3>2, <3>3
  <2>5. LoaderControl(p)'
    BY <2>2, <2>3, <2>4, RequestsDisjoint DEF LoaderControl, Exists, ClientId
  <2> QED
    BY <1>0, <2>1, <2>5, OthersKeepControl, RequestsDisjoint
<1>18. ASSUME NEW p \in Requests, Crash(p)
       PROVE  Control'
  BY <1>18 DEF Crash, Control, CreatorControl, LoaderControl, Exists, ClientId
<1> QED
  BY <1>1, <1>2, <1>3, <1>4, <1>5, <1>6, <1>7, <1>10, <1>11, <1>12, <1>13, <1>14,
     <1>15, <1>16, <1>17, <1>18
  DEF Next, CreateServe, UpdateServe, DeleteServe, TokenServe, RadiusServe

-----------------------------------------------------------------------------
(* Unique keys *)

\* What the INSERT or UPDATE statement checks, and what it waits for, cover
\* every row, committed or not.
LEMMA NoClash ==
  ASSUME NEW row, NEW self, ~UniqueViolation(row, self), ~KeyLocked(row, self)
  PROVE  \A r \in Routers \ {self} :
           HoldsKeys(r) => /\ KeysOf(r).port # row.port
                           /\ KeysOf(r).username # row.username
  BY DEF UniqueViolation, KeyLocked, HoldsKeys, KeysOf, Routers

\* Keys stay unique when one row takes keys no other row holds and the
\* others keep or release theirs.
LEMMA OneRowTakesKeys ==
  ASSUME UniqueKeys, NEW p,
         \A r \in Routers \ {p} :
           HoldsKeys(r)' => /\ HoldsKeys(r)
                            /\ (KeysOf(r)').port = KeysOf(r).port
                            /\ (KeysOf(r)').username = KeysOf(r).username,
         p \in Routers /\ HoldsKeys(p)' =>
           \A r \in Routers \ {p} :
             HoldsKeys(r) => /\ KeysOf(r).port # (KeysOf(p)').port
                             /\ KeysOf(r).username # (KeysOf(p)').username
  PROVE  UniqueKeys'
<1> SUFFICES ASSUME NEW r \in Routers, NEW s \in Routers, r # s,
                    HoldsKeys(r)', HoldsKeys(s)'
             PROVE  /\ (KeysOf(r)').port # (KeysOf(s)').port
                    /\ (KeysOf(r)').username # (KeysOf(s)').username
  BY DEF UniqueKeys
<1>1. CASE r = p
  BY <1>1
<1>2. CASE s = p
  BY <1>2
<1>3. CASE r # p /\ s # p
  BY <1>3 DEF UniqueKeys
<1> QED
  BY <1>1, <1>2, <1>3

\* They stay unique when no row takes any.
LEMMA NoRowTakesKeys ==
  ASSUME UniqueKeys,
         \A r \in Routers :
           HoldsKeys(r)' => /\ HoldsKeys(r)
                            /\ (KeysOf(r)').port = KeysOf(r).port
                            /\ (KeysOf(r)').username = KeysOf(r).username
  PROVE  UniqueKeys'
<1> SUFFICES ASSUME NEW r \in Routers, NEW s \in Routers, r # s,
                    HoldsKeys(r)', HoldsKeys(s)'
             PROVE  /\ (KeysOf(r)').port # (KeysOf(s)').port
                    /\ (KeysOf(r)').username # (KeysOf(s)').username
  BY DEF UniqueKeys
<1> QED
  BY DEF UniqueKeys

LEMMA UniqueKeysNext ==
  ASSUME TypeOK, Control, RegistrationIsAtomic, UniqueKeys, Next
  PROVE  UniqueKeys'
<1> USE DEF tables, memory
<1>0. Creators \subseteq Requests /\ Loaders \subseteq Requests
      /\ Updaters \subseteq Loaders /\ Deleters \subseteq Loaders
      /\ Tokeners \subseteq Loaders /\ Routers = Creators
  BY DEF Requests, Loaders, Routers
<1>1. ASSUME NEW p \in Creators,
             CreateProvision(p) \/ CreateValidate(p)
               \/ \E u \in Users : CreateArrives(p, u)
      PROVE  UniqueKeys'
  <2>1. \A q \in Routers : Inserting(q)' => /\ Inserting(q)
                                            /\ instance'[q] = instance[q]
    BY <1>1, <1>0
    DEF CreateProvision, CreateValidate, CreateArrives, Arrive, Step, Inserting, TypeOK
  <2>2. router' = router
    BY <1>1 DEF CreateProvision, CreateValidate, CreateArrives
  <2> QED
    BY <2>1, <2>2, NoRowTakesKeys DEF HoldsKeys, KeysOf, Exists
<1>2. ASSUME NEW p \in Creators, CreateInsert(p)
      PROVE  UniqueKeys'
  <2>1. router' = router /\ instance' = instance /\ crashed' = crashed
    BY <1>2 DEF CreateInsert
  <2>2. \A q \in Routers \ {p} : Inserting(q)' => Inserting(q)
    BY <1>2, <1>0 DEF CreateInsert, Step, Inserting, TypeOK
  <2>3. CASE UniqueViolation(instance[p], p)
    <3>1. \A q \in Routers : Inserting(q)' => Inserting(q)
      BY <1>2, <1>0, <2>3 DEF CreateInsert, Step, Inserting, TypeOK
    <3> QED
      BY <2>1, <3>1, NoRowTakesKeys DEF HoldsKeys, KeysOf, Exists
  <2>4. CASE ~UniqueViolation(instance[p], p)
    <3>1. \A r \in Routers \ {p} :
            HoldsKeys(r) => /\ KeysOf(r).port # instance[p].port
                            /\ KeysOf(r).username # instance[p].username
      BY <1>2, <2>4, NoClash DEF CreateInsert
    <3>2. ~Exists(p)
      BY <1>2 DEF CreateInsert, Step, RegistrationIsAtomic
    <3>3. KeysOf(p)' = instance[p]
      BY <2>1, <3>2 DEF KeysOf, Exists
    <3>4. \A r \in Routers \ {p} :
            HoldsKeys(r)' => HoldsKeys(r) /\ KeysOf(r)' = KeysOf(r)
      BY <2>1, <2>2 DEF HoldsKeys, KeysOf, Exists
    <3> QED
      BY <3>1, <3>3, <3>4, OneRowTakesKeys
  <2> QED
    BY <2>3, <2>4
<1>3. ASSUME NEW p \in Creators \cup Tokeners, RadiusServe(p)
      PROVE  UniqueKeys'
  <2>1. router' = router /\ instance' = instance
    BY <1>3 DEF RadiusServe, RadiusDelete, RadiusInsert, RadiusFails
  <2>2. \A q \in Routers : Inserting(q)' => Inserting(q)
    BY <1>3, <1>0
    DEF RadiusServe, RadiusDelete, RadiusInsert, RadiusFails, Step, Inserting, TypeOK
  <2> QED
    BY <2>1, <2>2, NoRowTakesKeys DEF HoldsKeys, KeysOf, Exists
<1>4. ASSUME NEW p \in Creators, CreateCommit(p)
      PROVE  UniqueKeys'
  <2>1. ~Exists(p) /\ Inserting(p)
    BY <1>4 DEF CreateCommit, Step, RegistrationIsAtomic, Inserting
  <2>2. router'[p] = instance[p] /\ instance' = instance
        /\ \A r \in Routers \ {p} : router'[r] = router[r]
    BY <1>4, <1>0 DEF CreateCommit, TypeOK
  <2>3. KeysOf(p)' = KeysOf(p)
    BY <2>1, <2>2 DEF KeysOf, Exists
  <2>4. \A q \in Routers \ {p} : Inserting(q)' => Inserting(q)
    BY <1>4, <1>0 DEF CreateCommit, Step, Inserting, TypeOK
  <2>5. \A r \in Routers \ {p} :
          HoldsKeys(r)' => HoldsKeys(r) /\ KeysOf(r)' = KeysOf(r)
    BY <2>2, <2>4 DEF HoldsKeys, KeysOf, Exists
  <2>6. HoldsKeys(p)
    BY <2>1 DEF HoldsKeys
  <2> QED
    BY <2>3, <2>5, <2>6, NoRowTakesKeys
<1>5. ASSUME NEW p \in Loaders, \A q \in Creators : Inserting(q)' => Inserting(q),
             \A q \in Creators : instance'[q] = instance[q],
             \A r \in Routers : router'[r] = router[r]
      PROVE  UniqueKeys'
  BY <1>0, <1>5, NoRowTakesKeys DEF HoldsKeys, KeysOf, Exists
<1>6. ASSUME NEW p \in Loaders, NEW u \in Users, NEW r \in Routers, NEW to,
             NEW row, Load(p, u, r, to, row)
      PROVE  UniqueKeys'
  BY <1>0, <1>5, <1>6, RequestsDisjoint DEF Load, Arrive, Step, Inserting, TypeOK
<1>7. ASSUME NEW p \in Updaters, UpdateRenumber(p)
      PROVE  UniqueKeys'
  BY <1>0, <1>5, <1>7, RequestsDisjoint DEF UpdateRenumber, Step, Inserting, TypeOK
<1>8. ASSUME NEW p \in Updaters, UpdateSave(p)
      PROVE  UniqueKeys'
  <2>1. /\ instance' = instance
        /\ \A q \in Creators : Inserting(q)' => Inserting(q)
    BY <1>0, <1>8, RequestsDisjoint DEF UpdateSave, Step, Inserting, TypeOK
  <2>2. CASE UniqueViolation(instance[p], target[p])
    BY <1>0, <1>5, <1>8, <2>1, <2>2 DEF UpdateSave
  <2>3. CASE ~UniqueViolation(instance[p], target[p])
    <3>1. PICK r \in Routers : r = target[p]
      BY <1>0, <1>8 DEF UpdateSave, Step, Control, LoaderControl
    <3>2. Exists(r) /\ instance[p] # Null
      BY <1>0, <1>8, <3>1, NullAssumption DEF UpdateSave, Step, Control, LoaderControl
    <3>3. /\ router'[r] = instance[p]
          /\ \A s \in Routers \ {r} : router'[s] = router[s]
      BY <1>8, <2>3, <3>1 DEF UpdateSave, Saved, TypeOK
    <3>4. \A s \in Routers \ {r} :
            HoldsKeys(s) => /\ KeysOf(s).port # instance[p].port
                            /\ KeysOf(s).username # instance[p].username
      BY <1>8, <2>3, <3>1, NoClash DEF UpdateSave
    <3>5. KeysOf(r)' = instance[p]
      BY <2>1, <3>2, <3>3 DEF KeysOf, Exists
    <3>6. \A s \in Routers \ {r} :
            HoldsKeys(s)' => HoldsKeys(s) /\ KeysOf(s)' = KeysOf(s)
      BY <1>0, <2>1, <3>3 DEF HoldsKeys, KeysOf, Exists
    <3> QED
      BY <3>4, <3>5, <3>6, OneRowTakesKeys
  <2> QED
    BY <2>2, <2>3
<1>9. ASSUME NEW p \in Deleters, DeletePurge(p) \/ DeletePurgeFails(p)
      PROVE  UniqueKeys'
  BY <1>0, <1>5, <1>9, RequestsDisjoint
  DEF DeletePurge, DeletePurgeFails, Step, Inserting, TypeOK
<1>10. ASSUME NEW p \in Deleters, DeleteDeactivate(p)
       PROVE  UniqueKeys'
  <2>1. /\ instance' = instance
        /\ \A q \in Creators : Inserting(q)' => Inserting(q)
    BY <1>0, <1>10, RequestsDisjoint DEF DeleteDeactivate, Step, Inserting, TypeOK
  <2>2. target[p] \in Routers /\ router[target[p]] \in RouterRow
    BY <1>10, <1>0 DEF DeleteDeactivate, Step, Control, LoaderControl, TypeOK, Exists
  <2>3. [router[target[p]] EXCEPT !.is_active = FALSE] \in RouterRow
    BY <2>2 DEF RouterRow
  <2>4. ASSUME NEW r \in Routers, Exists(r)'
        PROVE  /\ Exists(r)
               /\ router'[r].port = router[r].port
               /\ router'[r].username = router[r].username
    BY <1>10, <2>2, <2>4, NullAssumption DEF DeleteDeactivate, TypeOK, RouterRow, Exists
  <2>5. ASSUME NEW r \in Routers, Exists(r)
        PROVE  Exists(r)'
    BY <1>10, <2>2, <2>3, <2>5, NullAssumption DEF DeleteDeactivate, TypeOK, Exists
  <2> QED
    BY <1>0, <2>1, <2>4, <2>5, NoRowTakesKeys DEF HoldsKeys, KeysOf, Exists
<1>11. ASSUME NEW p \in Tokeners,
              TokenReads(p) \/ TokenMisses(p) \/ TokenCreate(p) \/ TokenFails(p)
       PROVE  UniqueKeys'
  BY <1>0, <1>5, <1>11, RequestsDisjoint
  DEF TokenReads, TokenMisses, TokenCreate, TokenFails, Step, Inserting, TypeOK
<1>12. ASSUME NEW p \in Requests, Crash(p)
       PROVE  UniqueKeys'
  BY <1>12, NoRowTakesKeys DEF Crash, Inserting, HoldsKeys, KeysOf, Exists
<1> QED
  BY <1>0, <1>1, <1>2, <1>3, <1>4, <1>6, <1>7, <1>8, <1>9, <1>10, <1>11, <1>12
  DEF Next, CreateServe, UpdateLoad, UpdateServe, DeleteLoad, DeleteServe, TokenLoad,
      TokenServe

-----------------------------------------------------------------------------
(* Registration *)

LEMMA RegistrationNext ==
  ASSUME TypeOK, Control, RegistrationIsAtomic, Next
  PROVE  RegistrationIsAtomic'
<1> USE DEF tables, memory
<1>0. Creators \subseteq Requests /\ Loaders \subseteq Requests
      /\ Updaters \subseteq Loaders /\ Deleters \subseteq Loaders
      /\ Tokeners \subseteq Loaders /\ Routers = Creators
  BY DEF Requests, Loaders, Routers
<1>1. ASSUME \A q \in Creators : pc'[q] = "done" <=> pc[q] = "done",
             \A q \in Creators : pc[q] = "done" => user'[q] = user[q],
             \A r \in Routers : Exists(r)' <=> Exists(r),
             user_router' = user_router
      PROVE  RegistrationIsAtomic'
  BY <1>0, <1>1 DEF RegistrationIsAtomic
<1>2. ASSUME NEW p \in Creators,
             \/ \E u \in Users : CreateArrives(p, u)
             \/ CreateValidate(p) \/ CreateProvision(p) \/ CreateInsert(p)
      PROVE  RegistrationIsAtomic'
  BY <1>0, <1>1, <1>2
  DEF CreateArrives, CreateValidate, CreateProvision, CreateInsert, Arrive, Step,
      TypeOK, Exists
<1>3. ASSUME NEW p \in Creators \cup Tokeners, RadiusServe(p)
      PROVE  RegistrationIsAtomic'
  BY <1>0, <1>1, <1>3, RequestsDisjoint
  DEF RadiusServe, RadiusDelete, RadiusInsert, RadiusFails, Step, TypeOK, Exists
<1>4. ASSUME NEW p \in Creators, CreateCommit(p)
      PROVE  RegistrationIsAtomic'
  <2>1. instance[p] # Null /\ user[p] \in Users
    BY <1>4, CreatorRow, NullAssumption DEF CreateCommit, Step
  <2>2. /\ pc'[p] = "done" /\ Exists(p)' /\ <<user[p], p>> \in user_router'
        /\ user' = user
    BY <1>4, <1>0, <2>1 DEF CreateCommit, Step, TypeOK, Exists
  <2>3. ASSUME NEW q \in Creators, q # p
        PROVE  /\ pc'[q] = pc[q]
               /\ Exists(q)' <=> Exists(q)
               /\ \A u \in Users : <<u, q>> \in user_router' <=> <<u, q>> \in user_router
    BY <1>4, <1>0, <2>3 DEF CreateCommit, Step, TypeOK, Exists
  <2>4. ASSUME NEW q \in Creators
        PROVE  IF pc'[q] = "done"
               THEN Exists(q)' /\ <<user'[q], q>> \in user_router'
               ELSE ~Exists(q)' /\ \A u \in Users : <<u, q>> \notin user_router'
    <3>1. CASE q = p
      BY <2>2, <3>1
    <3>2. CASE q # p
      <4>1. CASE pc[q] = "done"
        BY <1>4, <2>2, <2>3, <3>2, <4>1 DEF RegistrationIsAtomic, CreateCommit
      <4>2. CASE pc[q] # "done"
        BY <2>2, <2>3, <3>2, <4>2 DEF RegistrationIsAtomic
      <4> QED
        BY <4>1, <4>2
    <3> QED
      BY <3>1, <3>2
  <2> QED
    BY <2>4 DEF RegistrationIsAtomic
<1>5. ASSUME NEW p \in Loaders, NEW u \in Users, NEW r \in Routers, NEW to,
             NEW row, Load(p, u, r, to, row)
      PROVE  RegistrationIsAtomic'
  BY <1>0, <1>1, <1>5, RequestsDisjoint DEF Load, Arrive, Step, TypeOK, Exists
<1>6. ASSUME NEW p \in Updaters, UpdateRenumber(p)
      PROVE  RegistrationIsAtomic'
  BY <1>0, <1>1, <1>6, RequestsDisjoint DEF UpdateRenumber, Step, TypeOK, Exists
<1>7. ASSUME NEW p \in Updaters, UpdateSave(p)
      PROVE  RegistrationIsAtomic'
  <2>1. target[p] \in Routers /\ Exists(target[p]) /\ instance[p] # Null
    BY <1>0, <1>7, NullAssumption DEF UpdateSave, Step, Control, LoaderControl
  <2>2. \A r \in Routers : Exists(r)' <=> Exists(r)
    BY <1>7, <2>1 DEF UpdateSave, Saved, TypeOK, Exists
  <2> QED
    BY <1>0, <1>1, <1>7, <2>2, RequestsDisjoint DEF UpdateSave, Step, TypeOK
<1>8. ASSUME NEW p \in Deleters, DeletePurge(p) \/ DeletePurgeFails(p)
      PROVE  RegistrationIsAtomic'
  BY <1>0, <1>1, <1>8, RequestsDisjoint
  DEF DeletePurge, DeletePurgeFails, Step, TypeOK, Exists
<1>9. ASSUME NEW p \in Deleters, DeleteDeactivate(p)
      PROVE  RegistrationIsAtomic'
  <2>1. target[p] \in Routers /\ router[target[p]] \in RouterRow
    BY <1>9, <1>0 DEF DeleteDeactivate, Step, Control, LoaderControl, TypeOK, Exists
  <2>2. [router[target[p]] EXCEPT !.is_active = FALSE] \in RouterRow
    BY <2>1 DEF RouterRow
  <2>3. \A r \in Routers : Exists(r)' <=> Exists(r)
    BY <1>9, <2>1, <2>2, NullAssumption DEF DeleteDeactivate, TypeOK, Exists
  <2> QED
    BY <1>0, <1>1, <1>9, <2>3, RequestsDisjoint DEF DeleteDeactivate, Step, TypeOK
<1>10. ASSUME NEW p \in Tokeners,
              TokenReads(p) \/ TokenMisses(p) \/ TokenCreate(p) \/ TokenFails(p)
       PROVE  RegistrationIsAtomic'
  BY <1>0, <1>1, <1>10, RequestsDisjoint
  DEF TokenReads, TokenMisses, TokenCreate, TokenFails, Step, TypeOK, Exists
<1>11. ASSUME NEW p \in Requests, Crash(p)
       PROVE  RegistrationIsAtomic'
  BY <1>1, <1>11 DEF Crash, Exists
<1> QED
  BY <1>0, <1>2, <1>3, <1>4, <1>5, <1>6, <1>7, <1>8, <1>9, <1>10, <1>11
  DEF Next, CreateServe, UpdateLoad, UpdateServe, DeleteLoad, DeleteServe, TokenLoad,
      TokenServe

-----------------------------------------------------------------------------
(* Credentials *)

LEMMA DoomedNext ==
  ASSUME TypeOK, Control, DoomedShareName, Next
  PROVE  DoomedShareName'
<1> USE DEF tables, memory
<1>0. Creators \subseteq Requests /\ Loaders \subseteq Requests
      /\ Updaters \subseteq Loaders /\ Deleters \subseteq Loaders
      /\ Tokeners \subseteq Loaders
  BY DEF Requests, Loaders
<1>1. ASSUME \A q \in Requests :
               pc'[q] = "radius_insert" =>
                 \/ /\ pc[q] = "radius_insert"
                    /\ doomed'[q] = doomed[q]
                    /\ instance'[q] = instance[q]
                 \/ doomed'[q] = {}
      PROVE  DoomedShareName'
  BY <1>1 DEF DoomedShareName
<1>2. ASSUME NEW p \in Creators, NEW u \in Users, CreateArrives(p, u)
      PROVE  DoomedShareName'
  BY <1>0, <1>1, <1>2 DEF CreateArrives, Arrive, Step, TypeOK
<1>3. ASSUME NEW p \in Creators,
             CreateValidate(p) \/ CreateProvision(p) \/ CreateInsert(p) \/ CreateCommit(p)
      PROVE  DoomedShareName'
  BY <1>0, <1>1, <1>3
  DEF CreateValidate, CreateProvision, CreateInsert, CreateCommit, Step, TypeOK
<1>4. ASSUME NEW p \in Creators \cup Tokeners, RadiusDelete(p)
      PROVE  DoomedShareName'
  <2>1. \A k \in Credentials(instance[p].username) : k.username = instance[p].username
    BY DEF Credentials
  <2> QED
    BY <1>0, <1>4, <2>1 DEF RadiusDelete, Step, TypeOK, DoomedShareName
<1>5. ASSUME NEW p \in Creators \cup Tokeners, RadiusInsert(p) \/ RadiusFails(p)
      PROVE  DoomedShareName'
  BY <1>0, <1>1, <1>5 DEF RadiusInsert, RadiusFails, Step, TypeOK
<1>6. ASSUME NEW p \in Loaders, NEW u \in Users, NEW r \in Routers,
             NEW to \in {"renumber", "save", "failed", "purge", "radius_read"},
             NEW row, Load(p, u, r, to, row)
      PROVE  DoomedShareName'
  BY <1>0, <1>1, <1>6 DEF Load, Arrive, Step, TypeOK
<1>7. ASSUME NEW p \in Updaters, UpdateServe(p)
      PROVE  DoomedShareName'
  BY <1>0, <1>1, <1>7 DEF UpdateServe, UpdateRenumber, UpdateSave, Step, TypeOK
<1>8. ASSUME NEW p \in Deleters, DeleteServe(p)
      PROVE  DoomedShareName'
  BY <1>0, <1>1, <1>8
  DEF DeleteServe, DeletePurge, DeletePurgeFails, DeleteDeactivate, Step, TypeOK
<1>9. ASSUME NEW p \in Tokeners,
             TokenReads(p) \/ TokenMisses(p) \/ TokenCreate(p) \/ TokenFails(p)
      PROVE  DoomedShareName'
  BY <1>0, <1>1, <1>9
  DEF TokenReads, TokenMisses, TokenCreate, TokenFails, Step, TypeOK
<1>10. ASSUME NEW p \in Requests, Crash(p)
       PROVE  DoomedShareName'
  BY <1>1, <1>10 DEF Crash
<1>11. ASSUME NEW p \in Updaters, NEW u \in Users, NEW r \in Routers,
              NEW patch \in Patches, UpdateLoad(p, u, r, patch)
       PROVE  DoomedShareName'
  BY <1>0, <1>6, <1>11 DEF UpdateLoad, AfterValidation
<1> QED
  BY <1>0, <1>2, <1>3, <1>4, <1>5, <1>6, <1>7, <1>8, <1>9, <1>10, <1>11
  DEF Next, CreateServe, RadiusServe, DeleteLoad, TokenLoad, TokenServe

\* A purge that has run, or been skipped, stays so.
LEMMA PurgedStays ==
  ASSUME TypeOK, Control, Next, NEW name, Purged(name)
  PROVE  Purged(name)'
<1> USE DEF tables, memory
<1>1. PICK d \in Deleters : /\ pc[d] \in {"deactivate", "done"}
                            /\ instance[d].username = name
  BY DEF Purged
<1>2. d \in Requests /\ d \in Loaders /\ d \notin Creators /\ d \notin Updaters
      /\ d \notin Tokeners
  BY RequestsDisjoint DEF Requests, Loaders
<1>3. pc'[d] \in {"deactivate", "done"} /\ instance'[d] = instance[d]
  <2>1. ASSUME NEW p \in Creators,
               CreateServe(p) \/ \E u \in Users : CreateArrives(p, u)
        PROVE  pc'[d] \in {"deactivate", "done"} /\ instance'[d] = instance[d]
    BY <1>1, <1>2, <2>1
    DEF CreateServe, CreateArrives, CreateValidate, CreateProvision, CreateInsert,
        CreateCommit, RadiusServe, RadiusDelete, RadiusInsert, RadiusFails, Arrive,
        Step, TypeOK
  <2>2. ASSUME NEW p \in Loaders, NEW u \in Users, NEW r \in Routers, NEW to,
               NEW row, Load(p, u, r, to, row)
        PROVE  pc'[d] \in {"deactivate", "done"} /\ instance'[d] = instance[d]
    BY <1>1, <1>2, <2>2 DEF Load, Arrive, Step, TypeOK
  <2>3. ASSUME NEW p \in Updaters, UpdateServe(p)
        PROVE  pc'[d] \in {"deactivate", "done"} /\ instance'[d] = instance[d]
    BY <1>1, <1>2, <2>3 DEF UpdateServe, UpdateRenumber, UpdateSave, Step, TypeOK
  <2>4. ASSUME NEW p \in Deleters, DeleteServe(p)
        PROVE  pc'[d] \in {"deactivate", "done"} /\ instance'[d] = instance[d]
    BY <1>1, <1>2, <2>4
    DEF DeleteServe, DeletePurge, DeletePurgeFails, DeleteDeactivate, Step, TypeOK
  <2>5. ASSUME NEW p \in Tokeners, TokenServe(p)
        PROVE  pc'[d] \in {"deactivate", "done"} /\ instance'[d] = instance[d]
    BY <1>1, <1>2, <2>5
    DEF TokenServe, TokenReads, TokenMisses, TokenCreate, TokenFails, RadiusServe,
        RadiusDelete, RadiusInsert, RadiusFails, Step, TypeOK
  <2>6. ASSUME NEW p \in Requests, Crash(p)
        PROVE  pc'[d] \in {"deactivate", "done"} /\ instance'[d] = instance[d]
    BY <1>1, <2>6 DEF Crash
  <2> QED
    BY <2>1, <2>2, <2>3, <2>4, <2>5, <2>6 DEF Next, UpdateLoad, DeleteLoad, TokenLoad, Loaders
<1> QED
  BY <1>1, <1>3 DEF Purged

\* A name loses its credentials to a deletion that purges it, to nothing else.
LEMMA OnlyPurgeLosesCredentials ==
  ASSUME TypeOK, Control, DoomedShareName, Next, NEW name, Credentials(name) # {}
  PROVE  Credentials(name)' # {} \/ Purged(name)'
<1> USE DEF tables, memory
<1>1. CASE radcheck' = radcheck
  BY <1>1 DEF Credentials
<1>2. ASSUME NEW p \in Creators \cup Tokeners, RadiusInsert(p)
      PROVE  Credentials(name)' # {}
  <2>1. \A k \in doomed[p] : k.username = instance[p].username
    BY <1>2 DEF RadiusInsert, Step, DoomedShareName, Requests, Loaders
  <2>2. CASE name = instance[p].username
    <3>1. NewCredential(p) \in radcheck' /\ NewCredential(p).username = name
      BY <1>2, <2>2 DEF RadiusInsert, NewCredential
    <3> QED
      BY <3>1 DEF Credentials
  <2>3. CASE name # instance[p].username
    BY <1>2, <2>1, <2>3 DEF RadiusInsert, Credentials
  <2> QED
    BY <2>2, <2>3
<1>3. ASSUME NEW p \in Deleters, DeletePurge(p)
      PROVE  Credentials(name)' # {} \/ Purged(name)'
  <2>1. CASE name = instance[p].username
    BY <1>3, <2>1 DEF DeletePurge, Step, Purged, TypeOK, Requests, Loaders
  <2>2. CASE name # instance[p].username
    BY <1>3, <2>2 DEF DeletePurge, Credentials
  <2> QED
    BY <2>1, <2>2
<1> QED
  BY <1>1, <1>2, <1>3
  DEF Next, CreateServe, UpdateServe, DeleteServe, TokenServe, RadiusServe, CreateArrives,
      CreateValidate, CreateProvision, CreateInsert, CreateCommit, RadiusDelete,
      RadiusFails, Load, UpdateLoad, UpdateRenumber, UpdateSave, DeleteLoad,
      DeletePurgeFails, DeleteDeactivate, TokenLoad, TokenReads, TokenMisses,
      TokenCreate, TokenFails, Crash

LEMMA CredentialsNext ==
  ASSUME TypeOK, Control, DoomedShareName, CredentialsKept, Next
  PROVE  CredentialsKept'
<1> USE DEF tables, memory
<1>0. Creators \subseteq Requests /\ Loaders \subseteq Requests
  BY DEF Requests, Loaders
<1> SUFFICES ASSUME NEW c \in Creators, pc'[c] \in {"commit", "done"},
                    NEW name, name = instance'[c].username
             PROVE  Credentials(name)' # {} \/ Purged(name)'
  BY DEF CredentialsKept, Credentials, Purged
<1>1. CASE pc[c] \in {"commit", "done"} /\ instance'[c] = instance[c]
  <2>1. Credentials(name) # {} \/ Purged(name)
    BY <1>1 DEF CredentialsKept
  <2> QED
    BY <2>1, PurgedStays, OnlyPurgeLosesCredentials
<1>2. CASE RadiusInsert(c)
  <2>1. NewCredential(c) \in radcheck' /\ NewCredential(c).username = name
    BY <1>2 DEF RadiusInsert, NewCredential
  <2> QED
    BY <2>1 DEF Credentials
<1>3. \/ pc[c] \in {"commit", "done"} /\ instance'[c] = instance[c]
      \/ RadiusInsert(c)
  <2>1. ASSUME NEW p \in Creators,
               CreateServe(p) \/ \E u \in Users : CreateArrives(p, u)
        PROVE  \/ pc[c] \in {"commit", "done"} /\ instance'[c] = instance[c]
               \/ RadiusInsert(c)
    <3>1. CASE RadiusInsert(p)
      BY <1>0, <3>1 DEF RadiusInsert, Step, TypeOK
    <3>2. CASE ~RadiusInsert(p)
      BY <1>0, <2>1, <3>2
      DEF CreateServe, CreateArrives, CreateValidate, CreateProvision, CreateInsert,
          CreateCommit, RadiusServe, RadiusDelete, RadiusFails, Arrive, Step, TypeOK
    <3> QED
      BY <3>1, <3>2
  <2>2. ASSUME NEW p \in Loaders, NEW u \in Users, NEW r \in Routers, NEW to,
               NEW row, Load(p, u, r, to, row)
        PROVE  pc[c] \in {"commit", "done"} /\ instance'[c] = instance[c]
    BY <1>0, <2>2, RequestsDisjoint DEF Load, Arrive, Step, TypeOK
  <2>3. ASSUME NEW p \in Updaters, UpdateServe(p)
        PROVE  pc[c] \in {"commit", "done"} /\ instance'[c] = instance[c]
    BY <1>0, <2>3, RequestsDisjoint
    DEF UpdateServe, UpdateRenumber, UpdateSave, Step, TypeOK, Loaders
  <2>4. ASSUME NEW p \in Deleters, DeleteServe(p)
        PROVE  pc[c] \in {"commit", "done"} /\ instance'[c] = instance[c]
    BY <1>0, <2>4, RequestsDisjoint
    DEF DeleteServe, DeletePurge, DeletePurgeFails, DeleteDeactivate, Step, TypeOK, Loaders
  <2>5. ASSUME NEW p \in Tokeners, TokenServe(p)
        PROVE  pc[c] \in {"commit", "done"} /\ instance'[c] = instance[c]
    BY <1>0, <2>5, RequestsDisjoint
    DEF TokenServe, TokenReads, TokenMisses, TokenCreate, TokenFails, RadiusServe,
        RadiusDelete, RadiusInsert, RadiusFails, Step, TypeOK, Loaders
  <2>6. ASSUME NEW p \in Requests, Crash(p)
        PROVE  pc[c] \in {"commit", "done"} /\ instance'[c] = instance[c]
    BY <2>6 DEF Crash
  <2> QED
    BY <2>1, <2>2, <2>3, <2>4, <2>5, <2>6 DEF Next, UpdateLoad, DeleteLoad, TokenLoad, Loaders
<1> QED
  BY <1>1, <1>2, <1>3

-----------------------------------------------------------------------------
(* Theorems *)

LEMMA InvariantNext == IInv /\ [Next]_vars => IInv'
<1> SUFFICES ASSUME IInv, [Next]_vars PROVE IInv'
  OBVIOUS
<1>1. CASE Next
  BY <1>1, TypeNext, ControlNext, UniqueKeysNext, RegistrationNext, DoomedNext,
     CredentialsNext DEF IInv
<1>2. CASE UNCHANGED vars
  <2> USE <1>2 DEF IInv, vars, tables, memory
  <2>1. TypeOK'
    BY DEF TypeOK
  <2>2. Control'
    BY DEF Control, CreatorControl, LoaderControl, Exists, ClientId
  <2>3. UniqueKeys'
    BY DEF UniqueKeys, HoldsKeys, KeysOf, Exists, Inserting
  <2>4. RegistrationIsAtomic'
    BY DEF RegistrationIsAtomic, Exists
  <2>5. DoomedShareName'
    BY DEF DoomedShareName
  <2>6. CredentialsKept'
    BY DEF CredentialsKept, Credentials, Purged
  <2> QED
    BY <2>1, <2>2, <2>3, <2>4, <2>5, <2>6
<1> QED
  BY <1>1, <1>2

\* What every handler holds at every point of its code, the uniqueness of the
\* two columns, the atomicity of registrations and the survival of credentials
\* are together inductive: they hold in every state of every execution.
THEOREM Invariance == Spec => []IInv
<1>1. Init => IInv
  BY InitInvariant
<1>2. IInv /\ [Next]_vars => IInv'
  BY InvariantNext
<1> QED
  BY <1>1, <1>2, PTL DEF Spec

\* The tables, and what the handlers hold in memory, keep their types: no row
\* is saved with a negative client_id, no token without a password.
THEOREM TypeCorrect == Spec => []TypeOK
<1>1. IInv => TypeOK
  BY DEF IInv
<1> QED
  BY <1>1, Invariance, PTL

\* However many registrations compute the same next identifier, and whatever
\* ports and names updates ask for, no two rows share a port or an api_username.
THEOREM KeysAreUnique == Spec => []UniqueKeys
<1>1. IInv => UniqueKeys
  BY DEF IInv
<1> QED
  BY <1>1, Invariance, PTL

\* POST /api/routers/ leaves a router with its owner's membership, or neither,
\* wherever it fails or its worker dies.
THEOREM RegistrationAtomicity == Spec => []RegistrationIsAtomic
<1>1. IInv => RegistrationIsAtomic
  BY DEF IInv
<1> QED
  BY <1>1, Invariance, PTL

\* An active router under the api_username it was registered with has
\* credentials in RADIUS unless a deletion purged that name.
THEOREM CredentialsSurvive == Spec => []ActiveRouterHasCredentials
<1>1. IInv => ActiveRouterHasCredentials
  <2> SUFFICES ASSUME IInv, NEW r \in Routers, Exists(r),
                      router[r].username = instance[r].username
               PROVE  \/ Credentials(router[r].username) # {}
                      \/ Purged(router[r].username)
    BY DEF ActiveRouterHasCredentials
  <2>1. pc[r] = "done"
    BY DEF IInv, RegistrationIsAtomic, Routers
  <2> QED
    BY <2>1 DEF IInv, CredentialsKept, Routers
<1> QED
  BY <1>1, Invariance, PTL

-----------------------------------------------------------------------------
(* The registry *)

LEMMA RegistryNext ==
  ASSUME IInv, Next
  PROVE  [Registry!Next]_<<router, user_router>>
<1> USE DEF tables, memory
<1>0. /\ TypeOK /\ Control /\ UniqueKeys /\ RegistrationIsAtomic
      /\ Updaters \subseteq Loaders /\ Deleters \subseteq Loaders /\ Routers = Creators
  BY DEF IInv, Loaders, Routers
<1>1. CASE UNCHANGED <<router, user_router>>
  BY <1>1
<1>2. ASSUME NEW p \in Creators, CreateCommit(p)
      PROVE  Registry!Next
  <2>1. ~Exists(p) /\ Inserting(p) /\ user[p] \in Users
    BY <1>0, <1>2, CreatorRow DEF CreateCommit, Step, RegistrationIsAtomic, Inserting
  <2>2. PICK n \in Ids :
          instance[p] = [port |-> n, username |-> n, is_active |-> TRUE]
    BY <1>0, <1>2 DEF CreateCommit, Step, Control, CreatorControl
  <2>3. n \in Registry!Ids
    BY DEF Ids, Registry!Ids
  <2>4. \A s \in Routers \ {p} :
          router[s] # Null => /\ router[s].port # instance[p].port
                              /\ router[s].username # instance[p].username
    BY <1>0, <2>1 DEF UniqueKeys, HoldsKeys, KeysOf, Exists
  <2>5. Registry!Register(p, user[p])
    BY <1>2, <2>1, <2>2, <2>3, <2>4
    DEF CreateCommit, Exists, Registry!Register, Registry!KeysFree, Routers
  <2> QED
    BY <1>0, <2>1, <2>5 DEF Registry!Next
<1>3. ASSUME NEW p \in Updaters, UpdateSave(p), router' # router
      PROVE  Registry!Next
  <2>1. PICK r \in Routers : r = target[p]
    BY <1>0, <1>3 DEF UpdateSave, Step, Control, LoaderControl
  <2>2. Exists(r) /\ instance[p] \in RouterRow
    BY <1>0, <1>3, <2>1 DEF UpdateSave, Step, Control, LoaderControl
  <2>3. ~UniqueViolation(instance[p], r)
        /\ router' = [router EXCEPT ![r] = instance[p]]
        /\ user_router' = user_router
    BY <1>3, <2>1 DEF UpdateSave, Saved
  <2>4. router'[r] = instance[p]
    BY <1>0, <2>3 DEF TypeOK
  <2>5. Registry!KeysFree(r, instance[p])
    BY <2>3 DEF UniqueViolation, Exists, Registry!KeysFree, Routers
  <2>6. instance[p] \in Registry!RouterRow
    BY <2>2
    DEF RouterRow, Registry!RouterRow, Usernames, Registry!Usernames, Ids, Registry!Ids
  <2>7. Registry!Edit(r)
    BY <2>2, <2>3, <2>4, <2>5, <2>6 DEF Registry!Edit, Exists
  <2> QED
    BY <2>7 DEF Registry!Next, Routers
<1>4. ASSUME NEW p \in Deleters, DeleteDeactivate(p)
      PROVE  Registry!Next
  <2>1. PICK r \in Routers : r = target[p] /\ Exists(r)
    BY <1>0, <1>4 DEF DeleteDeactivate, Step, Control, LoaderControl
  <2>2. Registry!Deactivate(r)
    BY <1>4, <2>1 DEF DeleteDeactivate, Registry!Deactivate, Exists
  <2> QED
    BY <2>2 DEF Registry!Next, Routers
<1> QED
  BY <1>1, <1>2, <1>3, <1>4
  DEF Next, CreateServe, UpdateServe, DeleteServe, TokenServe, RadiusServe, CreateArrives,
      CreateValidate, CreateProvision, CreateInsert, RadiusDelete, RadiusInsert,
      RadiusFails, Load, UpdateLoad, UpdateRenumber, UpdateSave, DeleteLoad, DeletePurge,
      DeletePurgeFails, TokenLoad, TokenReads, TokenMisses, TokenCreate, TokenFails, Crash

\* The handlers, statement by statement on two connections, implement the
\* registry: every step of theirs is one of its three atomic operations on
\* Router and UserRouter, or leaves both tables alone.
THEOREM Implementation == Spec => ImplementsRegistry
<1>1. Init => Registry!Init
  BY DEF Init, Registry!Init, Routers
<1>2. IInv /\ [Next]_vars => [Registry!Next]_<<router, user_router>>
  BY RegistryNext DEF vars, tables
<1> QED
  BY <1>1, <1>2, Invariance, PTL DEF Spec, ImplementsRegistry, Registry!Spec

-----------------------------------------------------------------------------
(* The plan limit *)

\* No update makes a router active again: there is none, or there is neither a
\* deletion nor a body with is_active.
NoReactivation ==
  \/ Updaters = {}
  \/ Deleters = {} /\ \A patch \in Patches : patch.is_active = Null

\* What NoReactivation is worth: an update holds active rows only.
UpdatesHoldActive ==
  Updaters # {} =>
    /\ \A r \in Routers : Exists(r) => router[r].is_active
    /\ \A p \in Updaters : pc[p] \in {"renumber", "save"} => instance[p].is_active

\* Registrations of u that passed both checks and may still commit.
Pending(u) ==
  {p \in Creators \ crashed :
     /\ user[p] = u
     /\ pc[p] \in {"provision", "insert", "radius_delete", "radius_insert", "commit"}}

\* The routers u owns, or may come to own without another check of the limit.
Claims(u) == Owned(u) \cup Pending(u)

LimitInv ==
  /\ UpdatesHoldActive
  /\ IsFiniteSet(InFlight) /\ Cardinality(InFlight) <= Workers
  /\ \A u \in Users \ (Staff \cup Pro) :
       /\ IsFiniteSet(Claims(u))
       /\ Cardinality(Claims(u)) <= PlanLimit + Workers - 1

\* A part of a set of at most n elements has at most n.
LEMMA Smaller ==
  ASSUME NEW n \in Nat, NEW S, IsFiniteSet(S), Cardinality(S) <= n, NEW T \in SUBSET S
  PROVE  IsFiniteSet(T) /\ Cardinality(T) <= n
<1>1. IsFiniteSet(T) /\ Cardinality(T) <= Cardinality(S)
  BY FS_Subset
<1>2. Cardinality(T) \in Nat /\ Cardinality(S) \in Nat
  BY <1>1, FS_CardinalityType
<1> QED
  BY <1>1, <1>2

LEMMA UpdatesHoldActiveNext ==
  ASSUME NoReactivation, IInv, UpdatesHoldActive, Next
  PROVE  UpdatesHoldActive'
<1> USE DEF tables, memory
<1>0. /\ TypeOK /\ Control /\ Updaters \subseteq Requests /\ Routers = Creators
  BY DEF IInv, Loaders, Requests, Routers
<1>1. SUFFICES ASSUME Updaters # {}
               PROVE  /\ \A r \in Routers : Exists(r)' => router'[r].is_active
                      /\ \A p \in Updaters :
                           pc'[p] \in {"renumber", "save"} => instance'[p].is_active
  BY DEF UpdatesHoldActive
<1>2. /\ Deleters = {}
      /\ \A patch \in Patches : patch.is_active = Null
      /\ \A r \in Routers : Exists(r) => router[r].is_active
      /\ \A p \in Updaters : pc[p] \in {"renumber", "save"} => instance[p].is_active
  BY <1>1 DEF NoReactivation, UpdatesHoldActive
<1>3. ASSUME NEW r \in Routers, Exists(r)', router' # router
      PROVE  router'[r].is_active
  <2>1. ASSUME NEW p \in Creators, CreateCommit(p)
        PROVE  router'[r].is_active
    <3>1. instance[p].is_active
      BY <1>0, <2>1, CreatorRow DEF CreateCommit, Step
    <3> QED
      BY <1>0, <1>2, <1>3, <2>1, <3>1 DEF CreateCommit, TypeOK, Exists
  <2>2. ASSUME NEW p \in Updaters, UpdateSave(p)
        PROVE  router'[r].is_active
    <3>1. instance[p].is_active
      BY <1>2, <2>2 DEF UpdateSave, Step
    <3> QED
      BY <1>0, <1>2, <1>3, <2>2, <3>1 DEF UpdateSave, Saved, TypeOK, Exists
  <2> QED
    BY <1>2, <1>3, <2>1, <2>2
    DEF Next, CreateServe, UpdateServe, TokenServe, RadiusServe, CreateArrives,
        CreateValidate, CreateProvision, CreateInsert, RadiusDelete, RadiusInsert,
        RadiusFails, Load, UpdateLoad, UpdateRenumber, TokenLoad, TokenReads,
        TokenMisses, TokenCreate, TokenFails, Crash
<1>4. ASSUME NEW q \in Updaters, pc'[q] \in {"renumber", "save"}
      PROVE  instance'[q].is_active
  <2>0. q \notin Creators /\ q \notin Tokeners /\ q \in Requests /\ q \in Loaders
    BY RequestsDisjoint DEF Loaders, Requests
  <2>1. CASE pc'[q] = pc[q] /\ instance'[q] = instance[q]
    BY <1>2, <1>4, <2>1
  <2>2. ASSUME NEW p \in Updaters, NEW u \in Users, NEW r \in Routers,
               NEW patch \in Patches, UpdateLoad(p, u, r, patch)
        PROVE  instance'[q].is_active
    <3>1. CASE p = q
      <4>1. router[r].is_active /\ instance' = [instance EXCEPT ![q] = Patched(router[r], patch)]
        BY <1>2, <2>2, <3>1 DEF UpdateLoad, Load, Visible
      <4>2. patch.is_active = Null
        BY <1>2
      <4>3. Patched(router[r], patch).is_active = router[r].is_active
        BY <4>2 DEF Patched
      <4> QED
        BY <1>0, <2>0, <4>1, <4>3 DEF TypeOK
    <3>2. CASE p # q
      BY <1>0, <2>0, <2>1, <2>2, <3>2 DEF UpdateLoad, Load, Arrive, Step, TypeOK
    <3> QED
      BY <3>1, <3>2
  <2>3. ASSUME NEW p \in Updaters, UpdateRenumber(p)
        PROVE  instance'[q].is_active
    <3>1. pc[p] = "renumber" /\ (p # q => pc'[q] = pc[q])
      BY <1>0, <2>0, <2>3 DEF UpdateRenumber, Step, TypeOK
    <3>2. pc[q] \in {"renumber", "save"}
      BY <1>4, <3>1
    <3>3. instance[q].is_active /\ instance[q] \in RouterRow
      BY <1>0, <1>2, <2>0, <3>2 DEF Control, LoaderControl
    <3>4. instance'[q] \in {instance[q], [instance[q] EXCEPT !.port = NextIdentifier]}
      BY <1>0, <2>0, <2>3 DEF UpdateRenumber, TypeOK
    <3> QED
      BY <3>3, <3>4 DEF RouterRow
  <2>4. ASSUME NEW p \in Updaters, UpdateSave(p)
        PROVE  instance'[q].is_active
    BY <1>0, <1>2, <1>4, <2>0, <2>4 DEF UpdateSave, Step, TypeOK
  <2>5. ASSUME NEW p \in Creators, CreateServe(p) \/ \E u \in Users : CreateArrives(p, u)
        PROVE  pc'[q] = pc[q] /\ instance'[q] = instance[q]
    BY <1>0, <2>0, <2>5
    DEF CreateServe, CreateArrives, Arrive, CreateValidate, CreateProvision, CreateInsert,
        CreateCommit, RadiusServe, RadiusDelete, RadiusInsert, RadiusFails, Step, TypeOK
  <2>6. ASSUME NEW p \in Tokeners,
               TokenServe(p) \/ \E u \in Users, r \in Routers : TokenLoad(p, u, r)
        PROVE  pc'[q] = pc[q] /\ instance'[q] = instance[q]
    BY <1>0, <2>0, <2>6
    DEF TokenServe, TokenLoad, Load, Arrive, TokenReads, TokenMisses, TokenCreate,
        TokenFails, RadiusServe, RadiusDelete, RadiusInsert, RadiusFails, Step, TypeOK
  <2>7. ASSUME NEW p \in Requests, Crash(p)
        PROVE  pc'[q] = pc[q] /\ instance'[q] = instance[q]
    BY <2>7 DEF Crash
  <2> QED
    BY <1>2, <2>1, <2>2, <2>3, <2>4, <2>5, <2>6, <2>7 DEF Next, UpdateServe
<1> QED
  BY <1>2, <1>3, <1>4 DEF Exists

\* Only a registration that commits adds to what an account owns.
LEMMA OwnedNext ==
  ASSUME NoReactivation, IInv, UpdatesHoldActive, Next, NEW u \in Users
  PROVE  Owned(u)' \subseteq Owned(u) \cup Pending(u)
<1> USE DEF tables, memory
<1>0. TypeOK /\ Control /\ RegistrationIsAtomic /\ Routers = Creators
  BY DEF IInv, Routers
<1>1. CASE UNCHANGED <<router, user_router>>
  BY <1>1 DEF Owned, Exists
<1>2. ASSUME NEW p \in Creators, CreateCommit(p)
      PROVE  Owned(u)' \subseteq Owned(u) \cup Pending(u)
  <2>1. /\ p \notin crashed /\ pc[p] = "commit"
        /\ \A r \in Routers : r # p => router'[r] = router[r]
        /\ user_router' = user_router \cup {<<user[p], p>>}
    BY <1>0, <1>2 DEF CreateCommit, Step, TypeOK
  <2>2. <<u, p>> \notin user_router
    BY <1>0, <2>1 DEF RegistrationIsAtomic
  <2> QED
    BY <1>0, <2>1, <2>2 DEF Owned, Pending, Exists
<1>3. ASSUME NEW p \in Updaters, UpdateSave(p), router' # router
      PROVE  Owned(u)' \subseteq Owned(u) \cup Pending(u)
  <2>1. /\ target[p] \in Routers /\ Exists(target[p])
        /\ \A r \in Routers : r # target[p] => router'[r] = router[r]
        /\ user_router' = user_router
    BY <1>0, <1>3 DEF UpdateSave, Step, Control, LoaderControl, Loaders, TypeOK
  <2>2. \A r \in Routers : Exists(r) => router[r].is_active
    BY DEF UpdatesHoldActive
  <2> QED
    BY <2>1, <2>2 DEF Owned, Exists
<1>4. ASSUME NEW p \in Deleters, DeleteDeactivate(p)
      PROVE  Owned(u)' \subseteq Owned(u) \cup Pending(u)
  <2>1. PICK r \in Routers :
          /\ r = target[p] /\ Exists(r)
          /\ router' = [router EXCEPT ![r].is_active = FALSE]
          /\ user_router' = user_router
    BY <1>0, <1>4 DEF DeleteDeactivate, Step, Control, LoaderControl, Loaders
  <2>2. ~router'[r].is_active /\ \A s \in Routers : s # r => router'[s] = router[s]
    BY <1>0, <2>1 DEF TypeOK, Exists, RouterRow
  <2> QED
    BY <2>1, <2>2 DEF Owned, Exists
<1> QED
  BY <1>1, <1>2, <1>3, <1>4
  DEF Next, CreateServe, UpdateServe, DeleteServe, TokenServe, RadiusServe, CreateArrives,
      CreateValidate, CreateProvision, CreateInsert, RadiusDelete, RadiusInsert,
      RadiusFails, Load, UpdateLoad, UpdateRenumber, UpdateSave, DeleteLoad, DeletePurge,
      DeletePurgeFails, TokenLoad, TokenReads, TokenMisses, TokenCreate, TokenFails, Crash

\* Only the second check of the limit lets a registration go on to its insert.
LEMMA PendingNext ==
  ASSUME IInv, Next, NEW u \in Users
  PROVE  \/ Pending(u)' \subseteq Pending(u)
         \/ \E p \in Creators :
              CreateValidate(p) /\ user[p] = u /\ pc'[p] = "provision"
<1> USE DEF tables, memory
<1>0. TypeOK /\ Creators \subseteq Requests /\ Creators \cap Loaders = {}
  BY RequestsDisjoint DEF IInv, Requests
<1>1. ASSUME NEW c \in Creators, c \in Pending(u)', c \notin Pending(u)
      PROVE  CreateValidate(c) /\ user[c] = u /\ pc'[c] = "provision"
  <2>0. /\ c \notin crashed'
        /\ user'[c] = u
        /\ pc'[c] \in {"provision", "insert", "radius_delete", "radius_insert", "commit"}
        /\ ~(/\ c \notin crashed
             /\ user[c] = u
             /\ pc[c] \in {"provision", "insert", "radius_delete", "radius_insert", "commit"})
    BY <1>1 DEF Pending
  <2>1. ASSUME NEW p \in Creators, NEW v \in Users, CreateArrives(p, v)
        PROVE  FALSE
    BY <1>0, <2>0, <2>1 DEF CreateArrives, Arrive, Step, TypeOK
  <2>2. ASSUME NEW p \in Creators, CreateServe(p), ~CreateValidate(p)
        PROVE  FALSE
    BY <1>0, <2>0, <2>2
    DEF CreateServe, CreateProvision, CreateInsert, CreateCommit, RadiusServe,
        RadiusDelete, RadiusInsert, RadiusFails, Step, TypeOK
  <2>3. ASSUME NEW p \in Creators, CreateValidate(p)
        PROVE  CreateValidate(c) /\ user[c] = u /\ pc'[c] = "provision"
    BY <1>0, <2>0, <2>3 DEF CreateValidate, Step, TypeOK
  <2>4. ASSUME NEW p \in Loaders,
               \/ UpdateServe(p) \/ DeleteServe(p) \/ TokenServe(p)
               \/ \E v \in Users, r \in Routers : \E to, row : Load(p, v, r, to, row)
        PROVE  FALSE
    <3>1. p # c /\ crashed' = crashed /\ user' = user /\ \E to : pc' = [pc EXCEPT ![p] = to]
      BY <1>0, <2>4
      DEF UpdateServe, UpdateRenumber, UpdateSave, DeleteServe, DeletePurge,
          DeletePurgeFails, DeleteDeactivate, TokenServe, TokenReads, TokenMisses,
          TokenCreate, TokenFails, RadiusServe, RadiusDelete, RadiusInsert, RadiusFails,
          Load, Arrive, Step
    <3> QED
      BY <1>0, <2>0, <3>1 DEF TypeOK
  <2>5. ASSUME NEW p \in Requests, Crash(p)
        PROVE  FALSE
    BY <2>0, <2>5 DEF Crash
  <2> QED
    BY <2>1, <2>2, <2>3, <2>4, <2>5 DEF Next, UpdateLoad, DeleteLoad, TokenLoad, Loaders
<1>2. Pending(u)' \subseteq Creators
  BY DEF Pending
<1> QED
  BY <1>1, <1>2

\* A thread serves one request at a time.
LEMMA InFlightNext ==
  ASSUME IInv, IsFiniteSet(InFlight), Cardinality(InFlight) <= Workers, Next
  PROVE  (IsFiniteSet(InFlight) /\ Cardinality(InFlight) <= Workers)'
<1> USE DEF tables, memory
<1>0. TypeOK /\ Workers \in Nat
  BY ConstantsAssumption DEF IInv
<1>1. ASSUME NEW p \in Requests, NEW to, Arrive(p, to), crashed' = crashed
      PROVE  (IsFiniteSet(InFlight) /\ Cardinality(InFlight) <= Workers)'
  <2>1. Cardinality(InFlight) < Workers /\ InFlight' \in SUBSET (InFlight \cup {p})
    BY <1>0, <1>1 DEF Arrive, Step, InFlight, TypeOK
  <2>2. /\ IsFiniteSet(InFlight \cup {p})
        /\ Cardinality(InFlight \cup {p}) =
             IF p \in InFlight THEN Cardinality(InFlight) ELSE Cardinality(InFlight) + 1
    BY FS_AddElement
  <2>3. Cardinality(InFlight) \in Nat
    BY FS_CardinalityType
  <2>4. Cardinality(InFlight \cup {p}) <= Workers
    BY <1>0, <2>1, <2>2, <2>3
  <2> QED
    BY <1>0, <2>1, <2>2, <2>4, Smaller
<1>2. ASSUME NEW p \in Requests, NEW from, NEW to, Step(p, from, to), crashed' = crashed,
             from \notin {"idle", "done", "failed"}
      PROVE  InFlight' \in SUBSET InFlight
  BY <1>0, <1>2 DEF Step, InFlight, TypeOK
<1>3. ASSUME NEW p \in Requests, Crash(p)
      PROVE  InFlight' \in SUBSET InFlight
  BY <1>3 DEF Crash, InFlight
<1>4. ASSUME InFlight' \in SUBSET InFlight
      PROVE  (IsFiniteSet(InFlight) /\ Cardinality(InFlight) <= Workers)'
  BY <1>0, <1>4, Smaller
<1>5. ASSUME NEW p \in Creators, CreateServe(p) \/ \E u \in Users : CreateArrives(p, u)
      PROVE  (IsFiniteSet(InFlight) /\ Cardinality(InFlight) <= Workers)'
  BY <1>1, <1>2, <1>4, <1>5
  DEF CreateServe, CreateArrives, CreateValidate, CreateProvision, CreateInsert,
      CreateCommit, RadiusServe, RadiusDelete, RadiusInsert, RadiusFails, Requests
<1>6. ASSUME NEW p \in Loaders, UpdateServe(p) \/ DeleteServe(p) \/ TokenServe(p)
      PROVE  (IsFiniteSet(InFlight) /\ Cardinality(InFlight) <= Workers)'
  BY <1>2, <1>4, <1>6
  DEF UpdateServe, UpdateRenumber, UpdateSave, DeleteServe, DeletePurge, DeletePurgeFails,
      DeleteDeactivate, TokenServe, TokenReads, TokenMisses, TokenCreate, TokenFails,
      RadiusServe, RadiusDelete, RadiusInsert, RadiusFails, Requests
<1>7. ASSUME NEW p \in Loaders, NEW u \in Users, NEW r \in Routers, NEW to, NEW row,
             Load(p, u, r, to, row)
      PROVE  (IsFiniteSet(InFlight) /\ Cardinality(InFlight) <= Workers)'
  BY <1>1, <1>7 DEF Load, Requests
<1> QED
  BY <1>3, <1>4, <1>5, <1>6, <1>7 DEF Next, UpdateLoad, DeleteLoad, TokenLoad, Loaders

\* The check of the limit leaves room for as many routers as there are threads.
LEMMA ValidateClaims ==
  ASSUME IInv, NEW u \in Users \ (Staff \cup Pro), IsFiniteSet(Claims(u)),
         (IsFiniteSet(InFlight) /\ Cardinality(InFlight) <= Workers)',
         NEW p \in Creators, CreateValidate(p), user[p] = u, pc'[p] = "provision"
  PROVE  (IsFiniteSet(Claims(u)) /\ Cardinality(Claims(u)) <= PlanLimit + Workers - 1)'
<1> DEFINE O == Owned(u)
           P == Pending(u)'
<1> USE DEF tables, memory
<1>1. Cardinality(O) < PlanLimit /\ Owned(u)' = O
  <2>1. Owned(u)' = O
    BY DEF CreateValidate, Owned, Exists
  <2>2. pc'[p] = IF CanAddRouter(u) THEN "provision" ELSE "failed"
    BY DEF CreateValidate, Step, IInv, TypeOK, Requests
  <2> QED
    BY <2>1, <2>2 DEF CanAddRouter
<1>2. IsFiniteSet(O) /\ Cardinality(O) \in Nat
  <2>1. O \in SUBSET Claims(u)
    BY DEF Claims
  <2> QED
    BY <2>1, FS_Subset, FS_CardinalityType
<1>3. IsFiniteSet(P) /\ Cardinality(P) <= Workers /\ Cardinality(P) \in Nat
  <2>1. P \in SUBSET InFlight'
    BY DEF Pending, InFlight, Requests
  <2> QED
    BY <2>1, Smaller, FS_CardinalityType, ConstantsAssumption
<1>4. /\ IsFiniteSet(O \cup P)
      /\ Cardinality(O \cup P) = Cardinality(O) + Cardinality(P) - Cardinality(O \cap P)
  BY <1>2, <1>3, FS_Union
<1>5. Cardinality(O \cap P) \in Nat
  BY <1>2, FS_Intersection, FS_CardinalityType
<1>6. Cardinality(O \cup P) \in Nat
  BY <1>4, FS_CardinalityType
<1>7. Cardinality(O \cup P) <= PlanLimit + Workers - 1
  BY <1>1, <1>2, <1>3, <1>4, <1>5, <1>6, ConstantsAssumption
<1>8. Claims(u)' = O \cup P
  BY <1>1 DEF Claims
<1> QED
  BY <1>4, <1>7, <1>8

LEMMA LimitNext ==
  ASSUME NoReactivation, IInv, LimitInv, Next
  PROVE  LimitInv'
<1>1. UpdatesHoldActive'
  BY UpdatesHoldActiveNext DEF LimitInv
<1>2. (IsFiniteSet(InFlight) /\ Cardinality(InFlight) <= Workers)'
  BY InFlightNext DEF LimitInv
<1>3. ASSUME NEW u \in Users \ (Staff \cup Pro)
      PROVE  (IsFiniteSet(Claims(u)) /\ Cardinality(Claims(u)) <= PlanLimit + Workers - 1)'
  <2>1. IsFiniteSet(Claims(u)) /\ Cardinality(Claims(u)) <= PlanLimit + Workers - 1
    BY DEF LimitInv
  <2>2. CASE Pending(u)' \subseteq Pending(u)
    <3>1. Claims(u)' \in SUBSET Claims(u)
      BY <2>2, OwnedNext DEF Claims, LimitInv
    <3>2. PlanLimit + Workers - 1 \in Nat
      BY ConstantsAssumption
    <3> QED
      BY <2>1, <3>1, <3>2, Smaller
  <2>3. ASSUME NEW p \in Creators, CreateValidate(p), user[p] = u, pc'[p] = "provision"
        PROVE  (IsFiniteSet(Claims(u)) /\ Cardinality(Claims(u)) <= PlanLimit + Workers - 1)'
    BY <1>2, <2>1, <2>3, ValidateClaims
  <2> QED
    BY <2>2, <2>3, PendingNext
<1> QED
  BY <1>1, <1>2, <1>3 DEF LimitInv

\* Both checks of the plan limit read before the insert that they guard, and
\* yet, where no update makes a router active again, a free account never owns
\* more active routers than its limit and the other threads allow.
THEOREM OverLimitIsBounded ==
  NoReactivation /\ Spec => []OverLimitBoundedByThreads
<1>1. NoReactivation /\ Init => LimitInv
  <2> SUFFICES ASSUME Init PROVE LimitInv
    OBVIOUS
  <2>1. UpdatesHoldActive
    BY DEF Init, UpdatesHoldActive, Exists, Requests, Loaders
  <2>2. InFlight = {} /\ \A u : Claims(u) = {}
    BY DEF Init, InFlight, Claims, Owned, Pending, Exists, Requests, Routers
  <2>3. 0 <= Workers /\ 0 <= PlanLimit + Workers - 1
    BY ConstantsAssumption
  <2> QED
    BY <2>1, <2>2, <2>3, FS_EmptySet DEF LimitInv
<1>2. NoReactivation /\ IInv /\ LimitInv /\ [Next]_vars => LimitInv'
  <2> SUFFICES ASSUME NoReactivation, IInv, LimitInv, UNCHANGED vars PROVE LimitInv'
    BY LimitNext
  <2> QED
    BY DEF LimitInv, UpdatesHoldActive, Exists, InFlight, Claims, Owned, Pending, vars,
           tables, memory
<1>3. LimitInv => OverLimitBoundedByThreads
  <2> SUFFICES ASSUME LimitInv, NEW u \in Users \ (Staff \cup Pro)
               PROVE  Cardinality(Owned(u)) <= PlanLimit + Workers - 1
    BY DEF OverLimitBoundedByThreads
  <2>1. /\ IsFiniteSet(Claims(u)) /\ Cardinality(Claims(u)) <= PlanLimit + Workers - 1
        /\ Owned(u) \in SUBSET Claims(u) /\ PlanLimit + Workers - 1 \in Nat
    BY ConstantsAssumption DEF LimitInv, Claims
  <2> QED
    BY <2>1, Smaller
<1>4. NoReactivation => []NoReactivation
  <2>1. NoReactivation <=> NoReactivation'
    BY DEF NoReactivation
  <2> QED
    BY <2>1, PTL
<1> QED
  BY <1>1, <1>2, <1>3, <1>4, Invariance, PTL DEF Spec

-----------------------------------------------------------------------------
(* Credentials and the router they were generated for *)

\* No update touches the identity of a router.
KeepsIdentity == \A patch \in Patches : patch.port = Null /\ patch.username = Null

SameIdentity(row, other) == row.port = other.port /\ row.username = other.username

\* A router is known by the identifier it was registered with, in its row and
\* in the memory of every request that loaded it.
IdentityKept ==
  /\ \A r \in Routers : Exists(r) => SameIdentity(router[r], instance[r])
  /\ \A p \in Loaders :
       IF pc[p] = "idle" THEN target[p] = Null
       ELSE SameIdentity(instance[p], instance[target[p]])
  /\ \A p \in Updaters : pc[p] # "renumber"

\* A credential carries the identity its request had in memory.
RowsAreGenerated ==
  \A k \in radcheck :
    /\ k.username = instance[k.password].username
    /\ k.client_id = ClientId(instance[k.password])
    /\ k.password \in Creators => pc[k.password] \in {"commit", "done"}
    /\ k.password \in Loaders => k.password \in Tokeners /\ pc[k.password] # "idle"

\* What another registration left under the name of r is found by the DELETE of
\* its add_user, and gone once that commits.
Replaced ==
  \A r \in Creators, k \in radcheck :
    /\ HoldsKeys(r)
    /\ k.password \in Creators \ {r}
    /\ k.username = instance[r].username
    => /\ ~Exists(r)
       /\ pc[r] # "commit"
       /\ pc[r] = "radius_insert" => k \in doomed[r]

\* A token request is about to hand out a password of its router.
HandsOutOwn ==
  \A t \in Tokeners :
    /\ pc[t] = "create_token" => GeneratedFor(password[t], target[t])
    /\ token[t] # Null => GeneratedFor(token[t].password, token[t].router)

MatchInv == IdentityKept /\ RowsAreGenerated /\ Replaced /\ HandsOutOwn

LEMMA MatchImplies == IInv /\ MatchInv => CredentialsMatchRouter
<1> SUFFICES ASSUME IInv, MatchInv,
                    NEW r \in Routers, NEW k \in radcheck,
                    Exists(r), k.username = router[r].username
             PROVE  GeneratedFor(k.password, r) /\ k.client_id = ClientId(router[r])
  BY DEF MatchInv, HandsOutOwn, CredentialsMatchRouter
<1> DEFINE w == k.password
<1>0. /\ TypeOK /\ Control /\ UniqueKeys /\ Routers = Creators
      /\ k.username = instance[w].username /\ k.client_id = ClientId(instance[w])
      /\ SameIdentity(router[r], instance[r])
  BY DEF IInv, MatchInv, IdentityKept, RowsAreGenerated, Routers
<1>1. w \in Requests
  BY <1>0 DEF TypeOK, RadCheckRow
<1>2. CASE w \in Creators
  <2>1. w = r
    BY <1>0, <1>2 DEF MatchInv, Replaced, HoldsKeys, SameIdentity
  <2> QED
    BY <1>0, <2>1 DEF GeneratedFor, ClientId, SameIdentity
<1>3. CASE w \in Loaders
  <2>1. PICK s \in Routers :
          /\ s = target[w] /\ Exists(s) /\ w \in Tokeners
          /\ SameIdentity(instance[w], instance[s])
          /\ SameIdentity(router[s], instance[s])
    BY <1>0, <1>3 DEF MatchInv, RowsAreGenerated, IdentityKept, Control, LoaderControl
  <2>2. s = r
    BY <1>0, <2>1 DEF UniqueKeys, HoldsKeys, KeysOf, SameIdentity
  <2> QED
    BY <1>0, <2>1, <2>2 DEF GeneratedFor, ClientId, SameIdentity
<1> QED
  BY <1>1, <1>2, <1>3 DEF Requests

\* What a request has in memory stays, once it has left its loads behind.
LEMMA HeldNext ==
  ASSUME IInv, IdentityKept, Next, NEW q \in Requests,
         pc[q] \notin {"idle", "validate", "provision"}
  PROVE  /\ instance'[q] = instance[q]
         /\ q \in Loaders => pc'[q] # "idle" /\ target'[q] = target[q]
         /\ q \in Creators /\ pc[q] \in {"commit", "done"} => pc'[q] \in {"commit", "done"}
<1> USE DEF tables, memory
<1>0. TypeOK /\ Creators \subseteq Requests /\ Loaders \subseteq Requests
  BY DEF IInv, Requests
<1>1. ASSUME NEW p \in Creators,
             CreateServe(p) \/ \E u \in Users : CreateArrives(p, u)
      PROVE  /\ instance'[q] = instance[q]
             /\ q \in Loaders => pc'[q] # "idle" /\ target'[q] = target[q]
             /\ q \in Creators /\ pc[q] \in {"commit", "done"} => pc'[q] \in {"commit", "done"}
  BY <1>0, <1>1
  DEF CreateServe, CreateArrives, CreateValidate, CreateProvision, CreateInsert,
      CreateCommit, RadiusServe, RadiusDelete, RadiusInsert, RadiusFails, Arrive, Step, TypeOK
<1>2. ASSUME NEW p \in Loaders, NEW u \in Users, NEW r \in Routers, NEW to, NEW row,
             Load(p, u, r, to, row)
      PROVE  /\ instance'[q] = instance[q] /\ target' = [target EXCEPT ![p] = r]
             /\ p # q /\ pc'[q] = pc[q]
  BY <1>0, <1>2 DEF Load, Arrive, Step, TypeOK
<1>3. ASSUME NEW p \in Loaders, UpdateServe(p) /\ p \in Updaters
      PROVE  instance'[q] = instance[q] /\ target' = target /\ pc' = [pc EXCEPT ![p] = pc'[p]]
             /\ p \notin Creators /\ pc'[p] # "idle"
  BY <1>0, <1>3, RequestsDisjoint
  DEF IdentityKept, UpdateServe, UpdateRenumber, UpdateSave, Step, TypeOK
<1>4. ASSUME NEW p \in Loaders, DeleteServe(p) \/ TokenServe(p)
      PROVE  instance'[q] = instance[q] /\ target' = target /\ pc' = [pc EXCEPT ![p] = pc'[p]]
             /\ p \notin Creators /\ pc'[p] # "idle"
  BY <1>0, <1>4, RequestsDisjoint
  DEF DeleteServe, DeletePurge, DeletePurgeFails, DeleteDeactivate, TokenServe, TokenReads,
      TokenMisses, TokenCreate, TokenFails, RadiusServe, RadiusDelete, RadiusInsert,
      RadiusFails, Step, TypeOK
<1>5. ASSUME NEW p \in Requests, Crash(p)
      PROVE  instance' = instance /\ target' = target /\ pc' = pc
  BY <1>5 DEF Crash
<1>6. ASSUME NEW p \in Loaders, instance'[q] = instance[q], target' = target,
             pc' = [pc EXCEPT ![p] = pc'[p]], p \notin Creators, pc'[p] # "idle"
      PROVE  /\ q \in Loaders => pc'[q] # "idle" /\ target'[q] = target[q]
             /\ q \in Creators /\ pc[q] \in {"commit", "done"} => pc'[q] \in {"commit", "done"}
  BY <1>0, <1>6 DEF TypeOK
<1>7. ASSUME NEW p \in Loaders, NEW r \in Routers, target' = [target EXCEPT ![p] = r], p # q
      PROVE  q \in Loaders => target'[q] = target[q]
  BY <1>0, <1>7 DEF TypeOK
<1> QED
  BY <1>1, <1>2, <1>3, <1>4, <1>5, <1>6, <1>7
  DEF Next, UpdateLoad, DeleteLoad, TokenLoad, Loaders

\* A step leaves the identity of every row alone; a new row has that of the
\* registration that commits it.
LEMMA RowIdentityNext ==
  ASSUME IInv, IdentityKept, Next, NEW r \in Routers, Exists(r)'
  PROVE  /\ pc[r] \in {"commit", "done"}
         /\ SameIdentity(router'[r], instance[r])
<1> USE DEF tables, memory
<1>0. TypeOK /\ Control /\ RegistrationIsAtomic /\ Routers = Creators
  BY DEF IInv, Routers
<1>1. CASE router'[r] = router[r]
  BY <1>0, <1>1 DEF Exists, RegistrationIsAtomic, IdentityKept
<1>2. ASSUME NEW p \in Creators, CreateCommit(p), router'[r] # router[r]
      PROVE  pc[r] = "commit" /\ router'[r] = instance[r]
  BY <1>0, <1>2 DEF CreateCommit, Step, TypeOK
<1>3. ASSUME NEW p \in Updaters, UpdateSave(p), router'[r] # router[r]
      PROVE  pc[r] = "done" /\ SameIdentity(router'[r], instance[r])
  <2>1. /\ target[p] = r /\ router'[r] = instance[p] /\ Exists(r)
        /\ p \in Loaders /\ pc[p] = "save"
    BY <1>0, <1>3 DEF UpdateSave, Saved, Step, TypeOK, Control, LoaderControl, Loaders
  <2>2. SameIdentity(instance[p], instance[r])
    BY <2>1 DEF IdentityKept
  <2> QED
    BY <1>0, <2>1, <2>2 DEF RegistrationIsAtomic
<1>4. ASSUME NEW p \in Deleters, DeleteDeactivate(p), router'[r] # router[r]
      PROVE  pc[r] = "done" /\ SameIdentity(router'[r], instance[r])
  <2>1. target[p] = r /\ Exists(r) /\ router'[r] = [router[r] EXCEPT !.is_active = FALSE]
    BY <1>0, <1>4 DEF DeleteDeactivate, Step, TypeOK, Control, LoaderControl, Loaders
  <2>2. SameIdentity(router'[r], router[r])
    BY <1>0, <2>1 DEF TypeOK, Exists, RouterRow, SameIdentity
  <2> QED
    BY <1>0, <2>1, <2>2 DEF RegistrationIsAtomic, IdentityKept, SameIdentity
<1> QED
  BY <1>1, <1>2, <1>3, <1>4
  DEF Next, CreateServe, UpdateServe, DeleteServe, TokenServe, RadiusServe, CreateArrives,
      CreateValidate, CreateProvision, CreateInsert, RadiusDelete, RadiusInsert,
      RadiusFails, Load, UpdateLoad, UpdateRenumber, DeleteLoad, DeletePurge,
      DeletePurgeFails, TokenLoad, TokenReads, TokenMisses, TokenCreate, TokenFails,
      Crash, SameIdentity

\* A request loads the identity its router was registered with, and an update
\* never sets a falsy port.
LEMMA LoadedIdentity ==
  ASSUME KeepsIdentity, IInv, IdentityKept, NEW r \in Routers, Exists(r),
         NEW patch \in Patches
  PROVE  /\ SameIdentity(router[r], instance[r])
         /\ SameIdentity(Patched(router[r], patch), instance[r])
         /\ AfterValidation(Patched(router[r], patch)) = "save"
<1>1. SameIdentity(router[r], instance[r])
  BY DEF IdentityKept
<1>2. SameIdentity(Patched(router[r], patch), router[r])
  BY DEF KeepsIdentity, Patched, SameIdentity
<1>3. instance[r].port # 0
  <2>1. pc[r] = "done"
    BY DEF IInv, RegistrationIsAtomic, Routers
  <2>2. PICK n \in Ids : instance[r] = [port |-> n, username |-> n, is_active |-> TRUE]
    BY <2>1 DEF IInv, Control, CreatorControl, Routers
  <2> QED
    BY <2>2, ConstantsAssumption DEF Ids
<1> QED
  BY <1>1, <1>2, <1>3 DEF SameIdentity, AfterValidation

LEMMA LoaderArrives ==
  ASSUME KeepsIdentity, IInv, IdentityKept, Next, NEW q \in Loaders, pc[q] = "idle"
  PROVE  \/ pc'[q] = "idle" /\ target'[q] = target[q]
         \/ \E r \in Routers :
              /\ Exists(r) /\ target'[q] = r /\ pc'[q] \notin {"idle", "renumber"}
              /\ SameIdentity(instance'[q], instance[r])
<1> USE DEF tables, memory
<1>0. TypeOK /\ Loaders \subseteq Requests /\ q \notin Creators
  BY RequestsDisjoint DEF IInv, Requests
<1>1. ASSUME NEW p \in Creators,
             CreateServe(p) \/ \E u \in Users : CreateArrives(p, u)
      PROVE  pc'[q] = "idle" /\ target'[q] = target[q]
  BY <1>0, <1>1
  DEF CreateServe, CreateArrives, CreateValidate, CreateProvision, CreateInsert,
      CreateCommit, RadiusServe, RadiusDelete, RadiusInsert, RadiusFails, Arrive, Step, TypeOK
<1>2. ASSUME NEW p \in Loaders, UpdateServe(p) \/ DeleteServe(p) \/ TokenServe(p)
      PROVE  pc'[q] = "idle" /\ target'[q] = target[q]
  BY <1>0, <1>2
  DEF UpdateServe, UpdateRenumber, UpdateSave, DeleteServe, DeletePurge, DeletePurgeFails,
      DeleteDeactivate, TokenServe, TokenReads, TokenMisses, TokenCreate, TokenFails,
      RadiusServe, RadiusDelete, RadiusInsert, RadiusFails, Step, TypeOK
<1>3. ASSUME NEW p \in Loaders, NEW u \in Users, NEW r \in Routers, NEW to, NEW row,
             Load(p, u, r, to, row), to \notin {"idle", "renumber"},
             Exists(r) => SameIdentity(row, instance[r])
      PROVE  \/ pc'[q] = "idle" /\ target'[q] = target[q]
             \/ /\ Exists(r) /\ target'[q] = r /\ pc'[q] \notin {"idle", "renumber"}
                /\ SameIdentity(instance'[q], instance[r])
  BY <1>0, <1>3 DEF Load, Visible, Arrive, Step, TypeOK
<1>4. ASSUME NEW p \in Updaters, NEW u \in Users, NEW r \in Routers,
             NEW patch \in Patches, UpdateLoad(p, u, r, patch)
      PROVE  \/ pc'[q] = "idle" /\ target'[q] = target[q]
             \/ /\ Exists(r) /\ target'[q] = r /\ pc'[q] \notin {"idle", "renumber"}
                /\ SameIdentity(instance'[q], instance[r])
  <2>1. Exists(r)
    BY <1>4 DEF UpdateLoad, Load, Visible
  <2> QED
    BY <1>3, <1>4, <2>1, LoadedIdentity DEF UpdateLoad, Loaders
<1>5. ASSUME NEW p \in Deleters, NEW u \in Users, NEW r \in Routers, DeleteLoad(p, u, r)
      PROVE  \/ pc'[q] = "idle" /\ target'[q] = target[q]
             \/ /\ Exists(r) /\ target'[q] = r /\ pc'[q] \notin {"idle", "renumber"}
                /\ SameIdentity(instance'[q], instance[r])
  BY <1>3, <1>5 DEF DeleteLoad, Loaders, IdentityKept
<1>6. ASSUME NEW p \in Tokeners, NEW u \in Users, NEW r \in Routers, TokenLoad(p, u, r)
      PROVE  \/ pc'[q] = "idle" /\ target'[q] = target[q]
             \/ /\ Exists(r) /\ target'[q] = r /\ pc'[q] \notin {"idle", "renumber"}
                /\ SameIdentity(instance'[q], instance[r])
  BY <1>3, <1>6 DEF TokenLoad, Loaders, IdentityKept
<1>7. ASSUME NEW p \in Requests, Crash(p)
      PROVE  pc'[q] = "idle" /\ target'[q] = target[q]
  BY <1>7 DEF Crash
<1> QED
  BY <1>1, <1>2, <1>4, <1>5, <1>6, <1>7 DEF Next, Loaders

LEMMA IdentityNext ==
  ASSUME KeepsIdentity, IInv, IdentityKept, Next
  PROVE  IdentityKept'
<1>0. /\ TypeOK /\ Control /\ RegistrationIsAtomic /\ Routers = Creators
      /\ Creators \subseteq Requests /\ Loaders \subseteq Requests
      /\ Updaters \subseteq Loaders
  BY DEF IInv, Routers, Requests, Loaders
<1>1. ASSUME NEW r \in Routers, Exists(r)
      PROVE  instance'[r] = instance[r]
  BY <1>0, <1>1, HeldNext DEF RegistrationIsAtomic
<1>2. ASSUME NEW r \in Routers, Exists(r)'
      PROVE  SameIdentity(router'[r], instance'[r])
  BY <1>0, <1>2, RowIdentityNext, HeldNext
<1>3. ASSUME NEW q \in Loaders, pc[q] # "idle"
      PROVE  /\ pc'[q] # "idle"
             /\ SameIdentity(instance'[q], instance'[target'[q]])
  <2>1. /\ target[q] \in Routers /\ Exists(target[q])
        /\ SameIdentity(instance[q], instance[target[q]])
        /\ pc[q] \notin {"validate", "provision"}
    BY <1>0, <1>3 DEF Control, LoaderControl, IdentityKept, Loaders
  <2>2. instance'[q] = instance[q] /\ target'[q] = target[q] /\ pc'[q] # "idle"
    BY <1>0, <1>3, <2>1, HeldNext
  <2> QED
    BY <1>1, <2>1, <2>2
<1>4. ASSUME NEW q \in Loaders, pc[q] = "idle"
      PROVE  /\ IF pc'[q] = "idle" THEN target'[q] = Null
                ELSE SameIdentity(instance'[q], instance'[target'[q]])
             /\ pc'[q] # "renumber"
  <2>1. target[q] = Null
    BY <1>4 DEF IdentityKept
  <2> QED
    BY <1>1, <1>4, <2>1, LoaderArrives
<1>5. ASSUME NEW q \in Updaters, pc[q] # "idle"
      PROVE  pc'[q] # "renumber"
  <2>0. q \in Requests /\ pc[q] # "renumber" /\ q \notin Creators
    BY <1>0, RequestsDisjoint DEF IdentityKept
  <2> USE DEF tables, memory
  <2>1. ASSUME NEW p \in Creators,
               CreateServe(p) \/ \E u \in Users : CreateArrives(p, u)
        PROVE  pc'[q] = pc[q]
    BY <1>0, <2>0, <2>1
    DEF CreateServe, CreateArrives, CreateValidate, CreateProvision, CreateInsert,
        CreateCommit, RadiusServe, RadiusDelete, RadiusInsert, RadiusFails, Arrive, Step,
        TypeOK
  <2>2. ASSUME NEW p \in Loaders, NEW u \in Users, NEW r \in Routers, NEW to, NEW row,
               Load(p, u, r, to, row)
        PROVE  pc'[q] = pc[q]
    BY <1>0, <1>5, <2>0, <2>2 DEF Load, Arrive, Step, TypeOK
  <2>3. ASSUME NEW p \in Updaters, UpdateServe(p)
        PROVE  pc'[q] \in {pc[q], "failed", "save", "done"}
    BY <1>0, <2>0, <2>3 DEF UpdateServe, UpdateRenumber, UpdateSave, Step, TypeOK
  <2>4. ASSUME NEW p \in Loaders, DeleteServe(p) \/ TokenServe(p)
        PROVE  pc'[q] # "renumber"
    BY <1>0, <2>0, <2>4
    DEF DeleteServe, DeletePurge, DeletePurgeFails, DeleteDeactivate, TokenServe,
        TokenReads, TokenMisses, TokenCreate, TokenFails, RadiusServe, RadiusDelete,
        RadiusInsert, RadiusFails, Step, TypeOK
  <2>5. ASSUME NEW p \in Requests, Crash(p)
        PROVE  pc'[q] = pc[q]
    BY <2>5 DEF Crash
  <2> QED
    BY <2>0, <2>1, <2>2, <2>3, <2>4, <2>5
    DEF Next, UpdateLoad, DeleteLoad, TokenLoad, Loaders
<1> QED
  BY <1>0, <1>2, <1>3, <1>4, <1>5 DEF IdentityKept, Exists

\* Credentials come from add_user alone.
LEMMA RadcheckNext ==
  ASSUME Next, NEW k \in radcheck'
  PROVE  \/ k \in radcheck
         \/ \E p \in Creators \cup Tokeners : RadiusInsert(p) /\ k = NewCredential(p)
<1> USE DEF tables, memory
<1>1. ASSUME NEW p \in Creators \cup Tokeners, RadiusInsert(p)
      PROVE  k \in radcheck \/ k = NewCredential(p)
  BY <1>1 DEF RadiusInsert
<1>2. ASSUME NEW p \in Deleters, DeletePurge(p)
      PROVE  k \in radcheck
  BY <1>2 DEF DeletePurge
<1> QED
  BY <1>1, <1>2
  DEF Next, CreateServe, UpdateServe, DeleteServe, TokenServe, RadiusServe, CreateArrives,
      CreateValidate, CreateProvision, CreateInsert, CreateCommit, RadiusDelete,
      RadiusFails, Load, UpdateLoad, UpdateRenumber, UpdateSave, DeleteLoad,
      DeletePurgeFails, DeleteDeactivate, TokenLoad, TokenReads, TokenMisses,
      TokenCreate, TokenFails, Crash

LEMMA RowsNext ==
  ASSUME IInv, IdentityKept, RowsAreGenerated, Next
  PROVE  RowsAreGenerated'
<1>0. TypeOK /\ Control /\ Creators \subseteq Requests /\ Creators \cap Loaders = {}
      /\ Loaders \subseteq Requests /\ Tokeners \subseteq Loaders
  BY RequestsDisjoint DEF IInv, Requests, Loaders
<1> DEFINE Generated(k) ==
      /\ k.username = instance'[k.password].username
      /\ k.client_id = ClientId(instance'[k.password])
      /\ k.password \in Creators => pc'[k.password] \in {"commit", "done"}
      /\ k.password \in Loaders => k.password \in Tokeners /\ pc'[k.password] # "idle"
<1>1. ASSUME NEW k \in radcheck
      PROVE  Generated(k)
  <2> DEFINE w == k.password
  <2>1. /\ w \in Requests
        /\ k.username = instance[w].username /\ k.client_id = ClientId(instance[w])
        /\ w \in Creators => pc[w] \in {"commit", "done"}
        /\ w \in Loaders => w \in Tokeners /\ pc[w] # "idle"
    BY <1>0 DEF RowsAreGenerated, TypeOK, RadCheckRow
  <2>2. pc[w] \notin {"idle", "validate", "provision"}
    BY <1>0, <2>1 DEF Requests, Control, LoaderControl
  <2> QED
    BY <2>1, <2>2, HeldNext DEF ClientId
<1>2. ASSUME NEW p \in Creators \cup Tokeners, RadiusInsert(p)
      PROVE  Generated(NewCredential(p))
  <2>1. instance' = instance /\ p \in Requests
        /\ pc'[p] = IF p \in Creators THEN "commit" ELSE "create_token"
    BY <1>0, <1>2 DEF RadiusInsert, Step, TypeOK
  <2> QED
    BY <1>0, <2>1 DEF NewCredential
<1>3. \A k \in radcheck' : Generated(k)
  BY <1>1, <1>2, RadcheckNext
<1> QED
  BY <1>3 DEF RowsAreGenerated, ClientId

\* How a registration gets past its add_user.
LEMMA RegistersNext ==
  ASSUME IInv, Next, NEW r \in Creators
  PROVE  /\ pc'[r] = "radius_insert" =>
              RadiusDelete(r) \/ (pc[r] = "radius_insert" /\ doomed'[r] = doomed[r])
         /\ pc'[r] = "commit" => RadiusInsert(r) \/ pc[r] = "commit"
         /\ pc'[r] = "done" => CreateCommit(r) \/ pc[r] = "done"
<1> USE DEF tables, memory
<1> DEFINE Goal ==
      /\ pc'[r] = "radius_insert" =>
           RadiusDelete(r) \/ (pc[r] = "radius_insert" /\ doomed'[r] = doomed[r])
      /\ pc'[r] = "commit" => RadiusInsert(r) \/ pc[r] = "commit"
      /\ pc'[r] = "done" => CreateCommit(r) \/ pc[r] = "done"
<1>0. TypeOK /\ r \in Requests /\ r \notin Loaders /\ Loaders \subseteq Requests
  BY RequestsDisjoint DEF IInv, Requests
<1>1. CASE pc'[r] = pc[r] /\ doomed'[r] = doomed[r]
  BY <1>1
<1>2. CASE RadiusDelete(r) \/ RadiusInsert(r) \/ CreateCommit(r)
  BY <1>0, <1>2 DEF RadiusDelete, RadiusInsert, CreateCommit, Step, TypeOK
<1>3. ASSUME NEW p \in Creators, ~RadiusDelete(p), ~RadiusInsert(p), ~CreateCommit(p),
             CreateServe(p) \/ \E u \in Users : CreateArrives(p, u)
      PROVE  Goal
  BY <1>0, <1>3
  DEF CreateServe, CreateArrives, CreateValidate, CreateProvision, CreateInsert,
      RadiusServe, RadiusFails, Arrive, Step, TypeOK, Requests
<1>4. ASSUME NEW p \in Creators, p # r,
             RadiusDelete(p) \/ RadiusInsert(p) \/ CreateCommit(p)
      PROVE  pc'[r] = pc[r] /\ doomed'[r] = doomed[r]
  BY <1>0, <1>4 DEF RadiusDelete, RadiusInsert, CreateCommit, Step, TypeOK, Requests
<1>5. ASSUME NEW p \in Loaders,
             \/ UpdateServe(p) \/ DeleteServe(p) \/ TokenServe(p)
             \/ \E u \in Users, s \in Routers : \E to, row : Load(p, u, s, to, row)
      PROVE  pc'[r] = pc[r] /\ doomed'[r] = doomed[r]
  BY <1>0, <1>5
  DEF UpdateServe, UpdateRenumber, UpdateSave, DeleteServe, DeletePurge, DeletePurgeFails,
      DeleteDeactivate, TokenServe, TokenReads, TokenMisses, TokenCreate, TokenFails,
      RadiusServe, RadiusDelete, RadiusInsert, RadiusFails, Load, Arrive, Step, TypeOK
<1>6. ASSUME NEW p \in Requests, Crash(p)
      PROVE  pc'[r] = pc[r] /\ doomed'[r] = doomed[r]
  BY <1>6 DEF Crash
<1> QED
  BY <1>1, <1>2, <1>3, <1>4, <1>5, <1>6 DEF Next, UpdateLoad, DeleteLoad, TokenLoad, Loaders

LEMMA ReplacedNext ==
  ASSUME IInv, IdentityKept, RowsAreGenerated, Replaced, Next
  PROVE  Replaced'
<1>0. /\ TypeOK /\ UniqueKeys /\ RegistrationIsAtomic /\ Routers = Creators
      /\ RegistrationIsAtomic' /\ Creators \subseteq Requests
  BY InvariantNext DEF IInv, Routers, Requests
<1>1. SUFFICES ASSUME NEW r \in Creators, NEW k \in radcheck', HoldsKeys(r)',
                      k.password \in Creators \ {r}, k.username = instance'[r].username,
                      pc'[r] # "radius_delete"
               PROVE  pc'[r] = "radius_insert" /\ k \in doomed'[r]
  <2>1. ASSUME NEW r \in Creators, HoldsKeys(r)'
        PROVE  /\ pc'[r] \in {"radius_delete", "radius_insert", "commit", "done"}
               /\ Exists(r)' => pc'[r] = "done"
    BY <1>0, <2>1 DEF HoldsKeys, Inserting, RegistrationIsAtomic
  <2> QED
    BY <1>1, <2>1 DEF Replaced
<1>2. /\ pc'[r] \in {"radius_insert", "commit", "done"}
      /\ pc[r] \in {"radius_delete", "radius_insert", "commit", "done"}
      /\ instance'[r] = instance[r]
  <2>1. pc'[r] \in {"radius_insert", "commit", "done"}
    BY <1>0, <1>1 DEF HoldsKeys, Inserting, RegistrationIsAtomic
  <2>2. pc[r] \in {"radius_delete", "radius_insert", "commit", "done"}
    BY <2>1, RegistersNext DEF RadiusDelete, RadiusInsert, CreateCommit, Step
  <2> QED
    BY <1>0, <2>1, <2>2, HeldNext
<1>3. HoldsKeys(r)
  <2>1. pc[r] = "done" => Exists(r)
    BY <1>0 DEF RegistrationIsAtomic
  <2>2. ASSUME pc[r] # "done"
        PROVE  r \notin crashed
    <3>1. CreateCommit(r) => r \notin crashed
      BY DEF CreateCommit, Step
    <3>2. crashed \subseteq crashed'
      BY DEF Next, CreateServe, UpdateServe, DeleteServe, TokenServe, RadiusServe,
             CreateArrives, CreateValidate, CreateProvision, CreateInsert, CreateCommit,
             RadiusDelete, RadiusInsert, RadiusFails, Load, UpdateLoad, UpdateRenumber,
             UpdateSave, DeleteLoad, DeletePurge, DeletePurgeFails, DeleteDeactivate,
             TokenLoad, TokenReads, TokenMisses, TokenCreate, TokenFails, Crash
    <3> QED
      BY <1>0, <1>1, <2>2, <3>1, <3>2, RegistersNext
      DEF HoldsKeys, Inserting, RegistrationIsAtomic
  <2> QED
    BY <1>2, <2>1, <2>2 DEF HoldsKeys, Inserting
<1>4. KeysOf(r).username = instance[r].username
  BY <1>0 DEF KeysOf, IdentityKept, SameIdentity
<1>5. CASE k \in radcheck
  <2>1. /\ ~Exists(r) /\ pc[r] # "commit"
        /\ pc[r] = "radius_insert" => k \in doomed[r]
    BY <1>1, <1>2, <1>3, <1>5 DEF Replaced
  <2>2. pc[r] \in {"radius_delete", "radius_insert"}
    BY <1>0, <1>2, <2>1 DEF RegistrationIsAtomic
  <2>3. ~RadiusInsert(r)
    <3>1. ASSUME RadiusInsert(r)
          PROVE  k = NewCredential(r)
      <4>1. k \in doomed[r]
        BY <2>1, <3>1 DEF RadiusInsert, Step
      <4> QED
        BY <3>1, <4>1 DEF RadiusInsert
    <3> QED
      BY <1>1, <3>1 DEF NewCredential
  <2>4. RadiusDelete(r) => pc'[r] = "radius_insert" /\ k \in doomed'[r]
    BY <1>0, <1>1, <1>2, <1>5 DEF RadiusDelete, Step, Credentials, TypeOK
  <2> QED
    BY <1>2, <2>1, <2>2, <2>3, <2>4, RegistersNext DEF CreateCommit, Step
<1>6. CASE k \notin radcheck
  <2>1. PICK p \in Creators \cup Tokeners : RadiusInsert(p) /\ k = NewCredential(p)
    BY <1>6, RadcheckNext
  <2>2. p \in Creators /\ p # r /\ Inserting(p) /\ instance[p].username = instance[r].username
    BY <1>1, <1>2, <2>1 DEF NewCredential, RadiusInsert, Step, Inserting
  <2>3. ~Exists(p)
    BY <1>0, <2>1, <2>2 DEF RadiusInsert, Step, RegistrationIsAtomic
  <2> QED
    BY <1>0, <1>3, <1>4, <2>2, <2>3 DEF UniqueKeys, HoldsKeys, KeysOf
<1> QED
  BY <1>5, <1>6

LEMMA HandsOutNext ==
  ASSUME IInv, MatchInv, Next
  PROVE  HandsOutOwn'
<1> USE DEF tables, memory
<1>0. /\ TypeOK /\ Control /\ Tokeners \subseteq Loaders /\ Loaders \subseteq Requests
      /\ Tokeners \cap Creators = {} /\ IdentityKept /\ HandsOutOwn
  BY RequestsDisjoint DEF IInv, MatchInv, Requests, Loaders
<1>1. ASSUME NEW w, NEW r \in Routers, GeneratedFor(w, r)
      PROVE  GeneratedFor(w, r)'
  <2>1. CASE w \in Tokeners /\ target[w] = r
    <3>1. pc[w] \notin {"idle", "validate", "provision"} /\ w \in Requests
      BY <1>0, <2>1, NullAssumption
      DEF IdentityKept, Control, LoaderControl, Routers, Requests, Loaders
    <3> QED
      BY <1>0, <2>1, <3>1, HeldNext DEF GeneratedFor
  <2> QED
    BY <1>1, <2>1 DEF GeneratedFor
<1>2. ASSUME NEW t \in Tokeners, pc[t] # "idle"
      PROVE  /\ target[t] \in Routers /\ target'[t] = target[t]
             /\ Exists(target[t]) /\ instance[t].username = router[target[t]].username
  <2>1. target[t] \in Routers /\ Exists(target[t]) /\ pc[t] \notin {"validate", "provision"}
    BY <1>0, <1>2, RequestsDisjoint DEF Control, LoaderControl
  <2> QED
    BY <1>0, <1>2, <2>1, HeldNext DEF IdentityKept, SameIdentity
<1> DEFINE Reads(t) == TokenReads(t) \/ RadiusInsert(t)
           Rest(t) == /\ password'[t] = password[t]
                      /\ pc'[t] = "create_token" => pc[t] = "create_token"
<1>3. ASSUME NEW t \in Tokeners, pc'[t] = "create_token"
      PROVE  GeneratedFor(password[t], target[t])'
  <2>1. CASE TokenReads(t)
    <3>1. PICK k \in Credentials(instance[t].username) : password'[t] = k.password
      BY <1>0, <2>1 DEF TokenReads, TypeOK
    <3>2. pc[t] = "radius_read"
      BY <2>1 DEF TokenReads, Step
    <3>3. GeneratedFor(k.password, target[t])
      BY <1>2, <3>2, MatchImplies DEF CredentialsMatchRouter, Credentials
    <3> QED
      BY <1>1, <1>2, <3>1, <3>2, <3>3 DEF GeneratedFor
  <2>2. CASE RadiusInsert(t)
    <3>1. pc[t] = "radius_insert" /\ password'[t] = t
      BY <2>2 DEF RadiusInsert, Step
    <3> QED
      BY <1>2, <3>1 DEF GeneratedFor
  <2>3. CASE Rest(t)
    <3>1. pc[t] = "create_token" /\ GeneratedFor(password[t], target[t])
      BY <1>0, <1>3, <2>3 DEF HandsOutOwn
    <3> QED
      BY <1>1, <1>2, <2>3, <3>1 DEF GeneratedFor
  <2>4. Reads(t) \/ Rest(t)
    <3>0. t \in Requests /\ t \in Loaders /\ t \notin Updaters /\ t \notin Deleters
      BY <1>0, RequestsDisjoint
    <3>1. ASSUME NEW p \in Creators,
                 CreateServe(p) \/ \E u \in Users : CreateArrives(p, u)
          PROVE  Rest(t)
      BY <1>0, <3>0, <3>1
      DEF CreateServe, CreateArrives, CreateValidate, CreateProvision, CreateInsert,
          CreateCommit, RadiusServe, RadiusDelete, RadiusInsert, RadiusFails, Arrive, Step,
          TypeOK
    <3>2. ASSUME NEW p \in Loaders, NEW u \in Users, NEW r \in Routers, NEW to, NEW row,
                 Load(p, u, r, to, row), to # "create_token"
          PROVE  Rest(t)
      BY <1>0, <3>0, <3>2 DEF Load, Arrive, Step, TypeOK
    <3>3. ASSUME NEW p \in Loaders, p # t,
                 UpdateServe(p) \/ DeleteServe(p) \/ TokenServe(p)
          PROVE  Rest(t)
      BY <1>0, <3>0, <3>3
      DEF UpdateServe, UpdateRenumber, UpdateSave, DeleteServe, DeletePurge,
          DeletePurgeFails, DeleteDeactivate, TokenServe, TokenReads, TokenMisses,
          TokenCreate, TokenFails, RadiusServe, RadiusDelete, RadiusInsert, RadiusFails,
          Step, TypeOK
    <3>4. CASE TokenServe(t)
      BY <1>0, <3>0, <3>4
      DEF TokenServe, TokenMisses, TokenCreate, TokenFails, RadiusServe, RadiusDelete,
          RadiusFails, Step, TypeOK
    <3>5. ASSUME NEW p \in Requests, Crash(p)
          PROVE  Rest(t)
      BY <3>5 DEF Crash
    <3> QED
      BY <1>0, <3>0, <3>1, <3>2, <3>3, <3>4, <3>5
      DEF Next, UpdateLoad, AfterValidation, DeleteLoad, TokenLoad, Loaders
  <2> QED
    BY <2>1, <2>2, <2>3, <2>4
<1>4. ASSUME NEW t \in Tokeners, token'[t] # Null
      PROVE  GeneratedFor(token[t].password, token[t].router)'
  <2>1. CASE token'[t] = token[t]
    <3>1. token[t].router \in Routers /\ GeneratedFor(token[t].password, token[t].router)
      BY <1>0, <1>4, <2>1 DEF HandsOutOwn, TypeOK, ScriptToken
    <3> QED
      BY <1>1, <2>1, <3>1 DEF GeneratedFor
  <2>2. CASE TokenCreate(t)
    <3>1. /\ pc[t] = "create_token"
          /\ token'[t].router = target[t] /\ token'[t].password = password[t]
      BY <1>0, <2>2 DEF TokenCreate, Step, TypeOK
    <3>2. GeneratedFor(password[t], target[t])'
      BY <1>0, <1>1, <1>2, <3>1, HeldNext, <2>2 DEF HandsOutOwn, TokenCreate, GeneratedFor
    <3> QED
      BY <1>2, <2>2, <3>1, <3>2 DEF TokenCreate, GeneratedFor
  <2>3. token'[t] = token[t] \/ TokenCreate(t)
    <3>1. ASSUME NEW p \in Tokeners, TokenCreate(p), p # t
          PROVE  token'[t] = token[t]
      BY <1>0, <3>1 DEF TokenCreate, TypeOK
    <3> QED
      BY <3>1
      DEF Next, CreateServe, UpdateServe, DeleteServe, TokenServe, RadiusServe,
          CreateArrives, CreateValidate, CreateProvision, CreateInsert, CreateCommit,
          RadiusDelete, RadiusInsert, RadiusFails, Load, UpdateLoad, UpdateRenumber,
          UpdateSave, DeleteLoad, DeletePurge, DeletePurgeFails, DeleteDeactivate,
          TokenLoad, TokenReads, TokenMisses, TokenFails, Crash
  <2> QED
    BY <2>1, <2>2, <2>3
<1> QED
  BY <1>3, <1>4 DEF HandsOutOwn, GeneratedFor

\* While no update touches port or api_username, what RADIUS stores under the
\* name of a router was generated for it, and so was what a token hands out,
\* whatever crashed registrations left behind under the same identifier.
THEOREM CredentialsMatch ==
  KeepsIdentity /\ Spec => []CredentialsMatchRouter
<1>1. Init => MatchInv
  BY NullAssumption
  DEF Init, MatchInv, IdentityKept, RowsAreGenerated, Replaced, HandsOutOwn, Exists,
      Requests, Loaders
<1>2. KeepsIdentity /\ IInv /\ MatchInv /\ [Next]_vars => MatchInv'
  <2> SUFFICES ASSUME KeepsIdentity, IInv, MatchInv, [Next]_vars PROVE MatchInv'
    OBVIOUS
  <2>1. CASE Next
    BY <2>1, IdentityNext, RowsNext, ReplacedNext, HandsOutNext DEF MatchInv
  <2>2. CASE UNCHANGED vars
    BY <2>2
    DEF MatchInv, IdentityKept, RowsAreGenerated, Replaced, HandsOutOwn, GeneratedFor,
        HoldsKeys, Inserting, Exists, ClientId, vars, tables, memory
  <2> QED
    BY <2>1, <2>2
<1>3. KeepsIdentity => []KeepsIdentity
  <2>1. KeepsIdentity <=> KeepsIdentity'
    BY DEF KeepsIdentity
  <2> QED
    BY <2>1, PTL
<1> QED
  BY <1>1, <1>2, <1>3, MatchImplies, Invariance, PTL DEF Spec
=============================================================================

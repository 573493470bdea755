---------------------------- MODULE Accounts_proofs ---------------------------
(***************************************************************************)
(* Proofs about Accounts, for any number of requests, accounts and codes.  *)
(*                                                                         *)
(* A step is that of one request: the others keep their control state, no  *)
(* row or code disappears, and a used code stays used.  What remains is    *)
(* what the step does to the request itself.                               *)
(***************************************************************************)
EXTENDS Accounts, FiniteSetTheorems, TLAPS

StepOf(p) == Load(p) \/ Serve(p) \/ Crash(p) \/ Age(p)

KindChecked(what) == IF what = "verify_otp" THEN "verification" ELSE "reset"

\* A request that a thread has picked up, whatever its endpoint.
Arrival(p, what, to, u, row) ==
  /\ Arrive(p, what, to, u, row)
  /\ u \in Ids /\ row \in UserRow
  /\ \/ /\ what = "register" /\ to = "save"
        /\ u = p \/ u \in Accounts
        /\ row.password = p /\ ~row.is_active /\ ~row.is_email_verified
        /\ UNCHANGED <<record, held>>
     \/ /\ what = "google" /\ to = "activate"
        /\ u \in Accounts /\ ~row.is_email_verified
        /\ UNCHANGED <<record, held>>
     \/ /\ what = "google" /\ to = "create"
        /\ u = p /\ row.password = Null /\ row.is_email_verified
        /\ UNCHANGED <<record, held>>
     \/ /\ what \in {"resend_otp", "password_reset_request"} /\ to = "invalidate"
        /\ u \in Accounts
        /\ UNCHANGED <<record, held>>
     \/ /\ what = "me" /\ to = "save_all"
        /\ u \in Accounts
        /\ row.password = user[u].password
        /\ row.is_email_verified = user[u].is_email_verified
        /\ UNCHANGED <<record, held>>
     \/ /\ what = "change_password" /\ to = "set_password"
        /\ u \in Accounts /\ user[u].password # Null
        /\ UNCHANGED <<record, held>>
     \/ /\ what \in {"verify_otp", "password_reset_confirm"}
        /\ what = "verify_otp" => ~row.is_email_verified
        /\ u \in Accounts
        /\ \E c \in Requests :
             /\ code[c] # Null /\ ~code[c].is_used /\ code[c].attempts < MaxAttempts
             /\ code[c].user = u /\ code[c].kind = KindChecked(what)
             /\ record' = [record EXCEPT ![p] = c]
             /\ held' = [held EXCEPT ![p] = code[c].attempts]
             /\ \/ to = "burn" /\ c \in mailed
                \/ to = "count"

-----------------------------------------------------------------------------
(* Operators *)

LEMMA PatchedType ==
  ASSUME NEW row \in UserRow, NEW patch \in Patches
  PROVE  /\ Patched(row, patch) \in UserRow
         /\ Patched(row, patch).password = row.password
         /\ Patched(row, patch).is_email_verified = row.is_email_verified
BY ConstantsAssumption DEF Patched, UserRow, Patch

LEMMA InvalidatedRows ==
  ASSUME code \in [Requests -> CodeRow \cup {Null}],
         NEW codes \in SUBSET Requests, \A c \in codes : code[c] # Null
  PROVE  /\ Invalidated(codes) \in [Requests -> CodeRow \cup {Null}]
         /\ \A c \in Requests :
              /\ code[c] = Null <=> Invalidated(codes)[c] = Null
              /\ code[c] # Null /\ code[c].is_used => Invalidated(codes)[c].is_used
              /\ c \in codes => Invalidated(codes)[c].is_used
BY NullAssumption DEF Invalidated, CodeRow

LEMMA NewCodeType ==
  ASSUME NEW u \in Ids, NEW kind \in Kinds
  PROVE  NewCode(u, kind) \in CodeRow
BY ConstantsAssumption DEF NewCode, CodeRow

-----------------------------------------------------------------------------
(* Arrivals *)

LEMMA CheckedCode ==
  ASSUME IInv, NEW p \in Requests, NEW what \in {"verify_otp", "password_reset_confirm"},
         NEW u \in Accounts, NEW otp \in Entered,
         what = "verify_otp" => ~user[u].is_email_verified,
         CheckCode(p, what, KindChecked(what), u, otp)
  PROVE  \E to : Arrival(p, what, to, u, user[u])
<1>1. PICK c \in Requests :
        /\ IsLatest(c, Live(u, KindChecked(what))) /\ CanAttempt(c)
        /\ record' = [record EXCEPT ![p] = c]
        /\ held' = [held EXCEPT ![p] = code[c].attempts]
        /\ Arrive(p, what, IF otp = c THEN "burn" ELSE "count", u, user[u])
  BY DEF CheckCode
<1>2. /\ code[c] # Null /\ ~code[c].is_used /\ code[c].attempts < MaxAttempts
      /\ code[c].user = u /\ code[c].kind = KindChecked(what)
  BY <1>1 DEF IsLatest, Live, CodesOf, CanAttempt
<1>3. u \in Ids /\ user[u] \in UserRow
  BY DEF IInv, TypeOK, Accounts
<1>4. otp = c => c \in mailed
  BY NullAssumption DEF Entered, Ids
<1> QED
  BY <1>1, <1>2, <1>3, <1>4 DEF Arrival

LEMMA LoadArrives ==
  ASSUME IInv, NEW p \in Requests, Load(p)
  PROVE  \E what, to, u, row : Arrival(p, what, to, u, row)
<1>0. /\ p \in Ids
      /\ \A u \in Accounts : u \in Ids /\ user[u] \in UserRow
      /\ \A e : WithEmail(e) \subseteq Accounts
  BY DEF IInv, TypeOK, Accounts, WithEmail, Ids
<1>1. ASSUME NEW e \in Emails, RegisterLoad(p, e)
      PROVE  \E what, to, u, row : Arrival(p, what, to, u, row)
  <2>1. PICK u \in IF WithEmail(e) = {} THEN {p} ELSE WithEmail(e) :
          Arrive(p, "register", "save", u, Row(e, e, p, FALSE, FALSE))
    BY <1>1 DEF RegisterLoad
  <2>2. u \in Ids /\ (u = p \/ u \in Accounts)
    BY <1>0
  <2>3. /\ Row(e, e, p, FALSE, FALSE) \in UserRow
        /\ Row(e, e, p, FALSE, FALSE).password = p
        /\ ~Row(e, e, p, FALSE, FALSE).is_active
        /\ ~Row(e, e, p, FALSE, FALSE).is_email_verified
    BY <1>0 DEF Row, UserRow, Usernames
  <2>4. UNCHANGED <<record, held>>
    BY <1>1 DEF RegisterLoad
  <2> QED
    BY <2>1, <2>2, <2>3, <2>4 DEF Arrival
<1>2. ASSUME NEW e \in Emails, ResendLoad(p, e)
      PROVE  \E what, to, u, row : Arrival(p, what, to, u, row)
  BY <1>0, <1>2 DEF ResendLoad, SendLoad, Arrival
<1>3. ASSUME NEW e \in Emails, ResetLoad(p, e)
      PROVE  \E what, to, u, row : Arrival(p, what, to, u, row)
  BY <1>0, <1>3 DEF ResetLoad, SendLoad, Arrival
<1>4. ASSUME NEW e \in Emails, GoogleFinds(p, e)
      PROVE  \E what, to, u, row : Arrival(p, what, to, u, row)
  BY <1>0, <1>4 DEF GoogleFinds, Unverified, Arrival
<1>5. ASSUME NEW e \in Emails, NEW uid \in Uids, GoogleMisses(p, e, uid)
      PROVE  \E what, to, u, row : Arrival(p, what, to, u, row)
  <2>1. /\ Row(e, uid, Null, TRUE, TRUE) \in UserRow
        /\ Row(e, uid, Null, TRUE, TRUE).password = Null
        /\ Row(e, uid, Null, TRUE, TRUE).is_email_verified
    BY DEF Row, UserRow, Usernames
  <2> QED
    BY <1>0, <1>5, <2>1 DEF GoogleMisses, Arrival
<1>6. ASSUME NEW e \in Emails, NEW otp \in Entered, VerifyLoad(p, e, otp)
      PROVE  \E what, to, u, row : Arrival(p, what, to, u, row)
  <2>1. PICK u \in WithEmail(e) :
          ~user[u].is_email_verified /\ CheckCode(p, "verify_otp", "verification", u, otp)
    BY <1>6 DEF VerifyLoad
  <2>2. KindChecked("verify_otp") = "verification"
    BY DEF KindChecked
  <2> QED
    BY <1>0, <2>1, <2>2, CheckedCode
<1>7. ASSUME NEW e \in Emails, NEW otp \in Entered, ConfirmLoad(p, e, otp)
      PROVE  \E what, to, u, row : Arrival(p, what, to, u, row)
  <2>1. PICK u \in WithEmail(e) : CheckCode(p, "password_reset_confirm", "reset", u, otp)
    BY <1>7 DEF ConfirmLoad
  <2>2. KindChecked("password_reset_confirm") = "reset"
    BY DEF KindChecked
  <2> QED
    BY <1>0, <2>1, <2>2, CheckedCode
<1>8. ASSUME NEW u \in Ids, ChangeLoad(p, u)
      PROVE  \E what, to, v, row : Arrival(p, what, to, v, row)
  BY <1>0, <1>8 DEF ChangeLoad, SignedIn, Arrival
<1>9. ASSUME NEW u \in Ids, NEW patch \in Patches, MeLoad(p, u, patch)
      PROVE  \E what, to, v, row : Arrival(p, what, to, v, row)
  <2>1. u \in Accounts /\ Arrive(p, "me", "save_all", u, Patched(user[u], patch))
        /\ UNCHANGED <<record, held>>
    BY <1>9 DEF MeLoad, SignedIn
  <2>2. /\ Patched(user[u], patch) \in UserRow
        /\ Patched(user[u], patch).password = user[u].password
        /\ Patched(user[u], patch).is_email_verified = user[u].is_email_verified
    BY <1>0, <2>1, PatchedType
  <2> QED
    BY <2>1, <2>2 DEF Arrival
<1> QED
  BY <1>1, <1>2, <1>3, <1>4, <1>5, <1>6, <1>7, <1>8, <1>9 DEF Load, GoogleLoad

-----------------------------------------------------------------------------
(* Types *)

LEMMA TypeNext ==
  ASSUME IInv, NEW p \in Requests, StepOf(p)
  PROVE  TypeOK'
<1>0. TypeOK /\ Route(p) /\ Holds(p) /\ Codes(p) /\ p \in Ids
  BY DEF IInv, Ids
<1>1. CASE Load(p)
  <2>1. PICK what, to, u, row : Arrival(p, what, to, u, row)
    BY <1>1, LoadArrives
  <2>2. UNCHANGED <<user, code, issued, mailed, doomed>>
    BY <2>1 DEF Arrival, Arrive, tables
  <2>3. pc' = [pc EXCEPT ![p] = to] /\ endpoint' = [endpoint EXCEPT ![p] = what]
        /\ target' = [target EXCEPT ![p] = u] /\ instance' = [instance EXCEPT ![p] = row]
        /\ u \in Ids /\ row \in UserRow
    BY <2>1 DEF Arrival, Arrive
  <2>4. /\ to \in {"save", "activate", "create", "invalidate", "save_all",
                    "set_password", "burn", "count"}
        /\ what \in {"register", "google", "resend_otp", "password_reset_request", "me",
                      "change_password", "verify_otp", "password_reset_confirm"}
    BY <2>1 DEF Arrival
  <2>5. /\ record' \in [Requests -> Requests \cup {Null}]
        /\ held' \in [Requests -> 0..(MaxAttempts - 1)]
    <3>1. CASE UNCHANGED <<record, held>>
      BY <1>0, <3>1 DEF TypeOK
    <3>2. ASSUME NEW c \in Requests, code[c] # Null, code[c].attempts < MaxAttempts,
                 record' = [record EXCEPT ![p] = c],
                 held' = [held EXCEPT ![p] = code[c].attempts]
          PROVE  /\ record' \in [Requests -> Requests \cup {Null}]
                 /\ held' \in [Requests -> 0..(MaxAttempts - 1)]
      <4>1. code[c].attempts \in 0..(MaxAttempts - 1)
        BY <1>0, <3>2, ConstantsAssumption DEF TypeOK, CodeRow
      <4> QED
        BY <1>0, <3>2, <4>1 DEF TypeOK
    <3> QED
      BY <2>1, <3>1, <3>2 DEF Arrival
  <2> QED
    BY <1>0, <2>2, <2>3, <2>4, <2>5 DEF TypeOK
<1>2. CASE RegisterSave(p)
  <2>1. Live(target[p], "verification") \in SUBSET Requests
    BY DEF Live, CodesOf
  <2>2. issued' = issued \/ issued' = Append(issued, p)
    BY <1>2 DEF RegisterSave
  <2>3. issued \in Seq(Requests)
    BY <1>0 DEF TypeOK
  <2>4. issued' \in Seq(Requests)
    BY <2>2, <2>3
  <2>5. \/ pc' = [pc EXCEPT ![p] = "commit"]
        \/ pc' = [pc EXCEPT ![p] = "failed"]
    BY <1>2 DEF RegisterSave, Step
  <2>6. doomed' \in [Requests -> SUBSET Requests] /\ mailed' \subseteq Requests
    BY <1>0, <1>2, <2>1 DEF RegisterSave, TypeOK
  <2>7. UNCHANGED <<user, code, target, instance, record, held, endpoint>>
    BY <1>2 DEF RegisterSave, Step
  <2> QED
    BY <1>0, <2>4, <2>5, <2>6, <2>7 DEF TypeOK
<1>3. CASE RegisterCommit(p)
  <2>1. target[p] \in Ids /\ instance[p] \in UserRow
    BY <1>0, <1>3 DEF Holds, RegisterCommit, Step
  <2>2. Invalidated(doomed[p]) \in [Requests -> CodeRow \cup {Null}]
    BY <1>0, InvalidatedRows DEF TypeOK, Codes
  <2>3. NewCode(target[p], "verification") \in CodeRow
    BY <2>1, NewCodeType DEF Kinds
  <2>4. user' \in [Ids -> UserRow \cup {Null}]
    BY <1>0, <1>3, <2>1 DEF RegisterCommit, TypeOK
  <2>5. code' \in [Requests -> CodeRow \cup {Null}]
    BY <1>3, <2>2, <2>3 DEF RegisterCommit
  <2> QED
    BY <1>0, <1>3, <2>4, <2>5 DEF RegisterCommit, Step, TypeOK
<1>4. CASE CountAttempt(p)
  <2>1. record[p] \in Requests /\ code[record[p]] \in CodeRow
    BY <1>0, <1>4 DEF CountAttempt, Step, Codes, TypeOK
  <2>2. held[p] + 1 \in 0..MaxAttempts
    BY <1>0, ConstantsAssumption DEF TypeOK
  <2>3. code' \in [Requests -> CodeRow \cup {Null}]
    BY <1>0, <1>4, <2>1, <2>2 DEF CountAttempt, TypeOK, CodeRow
  <2> QED
    BY <1>0, <1>4, <2>3 DEF CountAttempt, Step, TypeOK, memory
<1>5. CASE BurnCode(p)
  <2>1. record[p] \in Requests /\ code[record[p]] # Null
    BY <1>0, <1>5 DEF BurnCode, Step, Codes, TypeOK
  <2>2. code' \in [Requests -> CodeRow \cup {Null}]
    BY <1>0, <1>5, <2>1, InvalidatedRows DEF BurnCode, TypeOK
  <2> QED
    BY <1>0, <1>5, <2>2 DEF BurnCode, Step, TypeOK, memory
<1>6. CASE Activate(p)
  <2>1. target[p] \in Ids /\ user[target[p]] \in UserRow
    BY <1>0, <1>6 DEF Activate, Step, Holds, Accounts, TypeOK
  <2>2. user' \in [Ids -> UserRow \cup {Null}]
    BY <1>0, <1>6, <2>1 DEF Activate, TypeOK, UserRow
  <2> QED
    BY <1>0, <1>6, <2>2 DEF Activate, Step, TypeOK, memory
<1>7. CASE SetPassword(p)
  <2>1. target[p] \in Ids /\ user[target[p]] \in UserRow
    BY <1>0, <1>7 DEF SetPassword, Step, Holds, Accounts, TypeOK
  <2>2. user' \in [Ids -> UserRow \cup {Null}]
    BY <1>0, <1>7, <2>1 DEF SetPassword, TypeOK, UserRow
  <2> QED
    BY <1>0, <1>7, <2>2 DEF SetPassword, Step, TypeOK, memory
<1>8. CASE Invalidate(p)
  <2>1. Live(target[p], KindSent(p)) \in SUBSET Requests
        /\ \A c \in Live(target[p], KindSent(p)) : code[c] # Null
    BY DEF Live, CodesOf
  <2>2. code' \in [Requests -> CodeRow \cup {Null}]
    BY <1>0, <1>8, <2>1, InvalidatedRows DEF Invalidate, TypeOK
  <2> QED
    BY <1>0, <1>8, <2>2 DEF Invalidate, Step, TypeOK, memory
<1>9. CASE Issue(p)
  <2>1. pc[p] = "issue"
    BY <1>9 DEF Issue, Step
  <2>2. NewCode(target[p], KindSent(p)) \in CodeRow
    BY <1>0, <2>1, NewCodeType DEF Holds, KindSent, Kinds
  <2>3. issued' \in Seq(Requests) /\ mailed' \subseteq Requests
    BY <1>0, <1>9 DEF Issue, TypeOK
  <2>4. code' \in [Requests -> CodeRow \cup {Null}]
    BY <1>0, <1>9, <2>2 DEF Issue, TypeOK
  <2> QED
    BY <1>0, <1>9, <2>3, <2>4 DEF Issue, Step, TypeOK, memory
<1>10. CASE SaveAll(p)
  <2>1. target[p] \in Ids /\ instance[p] \in UserRow
    BY <1>0, <1>10 DEF SaveAll, Holds
  <2>2. user' \in [Ids -> UserRow \cup {Null}]
    BY <1>0, <1>10, <2>1 DEF SaveAll, TypeOK
  <2> QED
    BY <1>0, <1>10, <2>2 DEF SaveAll, Step, TypeOK, memory
<1>11. CASE GoogleCreate(p)
  <2>1. instance[p] \in UserRow /\ target[p] = p
    BY <1>0, <1>11 DEF GoogleCreate, Holds
  <2>2. Row(instance[p].email, Blank, Null, TRUE, FALSE) \in UserRow
    BY <2>1 DEF Row, UserRow, Usernames
  <2>3. user' \in [Ids -> UserRow \cup {Null}]
    BY <1>0, <1>11, <2>2 DEF GoogleCreate, TypeOK
  <2>4. \A u \in WithEmail(instance[p].email) : u \in Ids /\ user[u] \in UserRow
    BY <1>0 DEF WithEmail, Accounts, TypeOK
  <2>5. /\ target' \in [Requests -> Ids \cup {Null}]
        /\ instance' \in [Requests -> UserRow \cup {Null}]
    <3>1. CASE UNCHANGED <<target, instance>>
      BY <1>0, <3>1 DEF TypeOK
    <3>2. ASSUME NEW u \in WithEmail(instance[p].email),
                 target' = [target EXCEPT ![p] = u],
                 instance' = [instance EXCEPT ![p] = user[u]]
          PROVE  /\ target' \in [Requests -> Ids \cup {Null}]
                 /\ instance' \in [Requests -> UserRow \cup {Null}]
      BY <1>0, <2>4, <3>2 DEF TypeOK
    <3> QED
      BY <1>11, <3>1, <3>2 DEF GoogleCreate
  <2>6. pc' \in [Requests -> {"idle", "save", "commit", "count", "burn", "activate",
                              "set_password", "invalidate", "issue", "create",
                              "save_all", "done", "failed", "crashed"}]
    BY <1>0, <1>11 DEF GoogleCreate, Step, TypeOK
  <2>7. UNCHANGED <<code, issued, mailed, record, held, doomed, endpoint>>
    BY <1>11 DEF GoogleCreate, Step
  <2> QED
    BY <1>0, <2>3, <2>5, <2>6, <2>7 DEF TypeOK
<1>12. CASE Crash(p)
  BY <1>0, <1>12 DEF Crash, TypeOK, tables
<1>13. CASE Age(p)
  <2>1. code[p] \in CodeRow /\ code[p].age < 2
    BY <1>0, <1>13 DEF Age, TypeOK
  <2>2. [code[p] EXCEPT !.age = @ + 1] \in CodeRow
    BY <2>1 DEF CodeRow
  <2>3. code' \in [Requests -> CodeRow \cup {Null}]
    BY <1>0, <1>13, <2>2 DEF Age, TypeOK
  <2> QED
    BY <1>0, <1>13, <2>3 DEF Age, TypeOK, memory
<1> QED
  BY <1>1, <1>2, <1>3, <1>4, <1>5, <1>6, <1>7, <1>8, <1>9, <1>10, <1>11, <1>12, <1>13
     DEF StepOf, Serve

-----------------------------------------------------------------------------
(* What a step leaves alone *)

\* Rows and codes stay, a used code stays used, and a row or code that was not
\* there before is the actor's.
TablesKept(p) ==
  /\ \A u \in Ids : user[u] # Null => user'[u] # Null
  /\ \A u \in Ids \ {p} : user'[u] # Null => user[u] # Null
  /\ \A c \in Requests : code[c] # Null => code'[c] # Null
  /\ \A c \in Requests : code[c] # Null /\ code[c].is_used => code'[c].is_used
  /\ \A c \in Requests \ {p} : code'[c] # Null => code[c] # Null
  /\ mailed \subseteq mailed'

LEMMA TablesNext ==
  ASSUME IInv, NEW p \in Requests, StepOf(p)
  PROVE  TablesKept(p)
<1>0. TypeOK /\ Route(p) /\ Holds(p) /\ Codes(p) /\ Written(p) /\ p \in Ids
  BY DEF IInv, Ids
<1>a. \A u \in Ids : user[u] \in UserRow \/ user[u] = Null
  BY <1>0 DEF TypeOK
<1>b. Null \notin UserRow /\ Null \notin CodeRow
  BY NullAssumption
<1>1. CASE Load(p)
  BY <1>1, LoadArrives DEF Arrival, Arrive, tables, TablesKept
<1>2. CASE RegisterSave(p)
  BY <1>2 DEF RegisterSave, TablesKept
<1>3. CASE RegisterCommit(p)
  <2>1. /\ target[p] \in Ids /\ instance[p] \in UserRow
        /\ target[p] = p \/ user[target[p]] # Null
        /\ endpoint[p] = "register" /\ pc[p] = "commit"
    BY <1>0, <1>3 DEF Holds, Route, RegisterCommit, Step, Accounts
  <2>2. /\ user' = [user EXCEPT ![target[p]] = instance[p]]
        /\ code' = [Invalidated(doomed[p]) EXCEPT ![p] = NewCode(target[p], "verification")]
        /\ mailed' = mailed
    BY <1>3 DEF RegisterCommit
  <2>3. code[p] = Null
    BY <1>0, <2>1 DEF Written
  <2>4. NewCode(target[p], "verification") \in CodeRow
    BY <2>1, NewCodeType DEF Kinds
  <2>5. /\ Invalidated(doomed[p]) \in [Requests -> CodeRow \cup {Null}]
        /\ \A c \in Requests :
             /\ code[c] = Null <=> Invalidated(doomed[p])[c] = Null
             /\ code[c] # Null /\ code[c].is_used => Invalidated(doomed[p])[c].is_used
    BY <1>0, InvalidatedRows DEF TypeOK, Codes
  <2>6. \A c \in Requests \ {p} : code'[c] = Invalidated(doomed[p])[c]
    BY <2>2, <2>5
  <2>7. code'[p] # Null
    BY <1>b, <2>2, <2>4, <2>5
  <2>8. /\ \A u \in Ids : user[u] # Null => user'[u] # Null
        /\ \A u \in Ids \ {p} : user'[u] # Null => user[u] # Null
    BY <1>0, <1>b, <2>1, <2>2 DEF TypeOK
  <2> QED
    BY <2>2, <2>3, <2>5, <2>6, <2>7, <2>8 DEF TablesKept
<1>4. CASE CountAttempt(p)
  <2>1. record[p] \in Requests /\ code[record[p]] \in CodeRow
    BY <1>0, <1>4 DEF CountAttempt, Step, Codes, TypeOK
  <2>2. /\ code' = [code EXCEPT ![record[p]] = [@ EXCEPT !.attempts = held[p] + 1]]
        /\ user' = user /\ mailed' = mailed
    BY <1>4 DEF CountAttempt
  <2>3. /\ code'[record[p]].is_used = code[record[p]].is_used
        /\ code'[record[p]] # Null
    <3>1. code' \in [Requests -> CodeRow \cup {Null}]
      BY TypeNext DEF TypeOK
    <3>2. held[p] + 1 \in 0..MaxAttempts
      BY <1>0, ConstantsAssumption DEF TypeOK
    <3>3. code'[record[p]] = [code[record[p]] EXCEPT !.attempts = held[p] + 1]
      BY <1>0, <2>1, <2>2 DEF TypeOK
    <3>4. code'[record[p]] \in CodeRow
      BY <2>1, <3>2, <3>3 DEF CodeRow
    <3> QED
      BY <1>b, <2>1, <3>3, <3>4 DEF CodeRow
  <2>4. \A c \in Requests \ {record[p]} : code'[c] = code[c]
    BY <1>0, <2>2 DEF TypeOK
  <2> QED
    BY <1>b, <2>1, <2>2, <2>3, <2>4 DEF TablesKept
<1>5. CASE BurnCode(p)
  <2>1. record[p] \in Requests /\ code[record[p]] # Null
    BY <1>0, <1>5 DEF BurnCode, Step, Codes, TypeOK
  <2> QED
    BY <1>0, <1>5, <2>1, InvalidatedRows DEF BurnCode, TypeOK, TablesKept
<1>6. CASE Activate(p)
  <2>1. target[p] \in Ids /\ user[target[p]] \in UserRow
    BY <1>0, <1>6 DEF Activate, Step, Holds, Accounts, TypeOK
  <2>2. user'[target[p]] \in UserRow /\ \A u \in Ids \ {target[p]} : user'[u] = user[u]
    BY <1>0, <1>6, <2>1 DEF Activate, TypeOK, UserRow
  <2> QED
    BY <1>b, <1>6, <2>1, <2>2 DEF Activate, TablesKept
<1>7. CASE SetPassword(p)
  <2>1. target[p] \in Ids /\ user[target[p]] \in UserRow
    BY <1>0, <1>7 DEF SetPassword, Step, Holds, Accounts, TypeOK
  <2>2. user'[target[p]] \in UserRow /\ \A u \in Ids \ {target[p]} : user'[u] = user[u]
    BY <1>0, <1>7, <2>1 DEF SetPassword, TypeOK, UserRow
  <2> QED
    BY <1>b, <1>7, <2>1, <2>2 DEF SetPassword, TablesKept
<1>8. CASE Invalidate(p)
  <2>1. Live(target[p], KindSent(p)) \in SUBSET Requests
        /\ \A c \in Live(target[p], KindSent(p)) : code[c] # Null
    BY DEF Live, CodesOf
  <2> QED
    BY <1>0, <1>8, <2>1, InvalidatedRows DEF Invalidate, TypeOK, TablesKept
<1>9. CASE Issue(p)
  <2>1. pc[p] = "issue"
    BY <1>9 DEF Issue, Step
  <2>2. NewCode(target[p], KindSent(p)) \in CodeRow
    BY <1>0, <2>1, NewCodeType DEF Holds, KindSent, Kinds
  <2>3. code[p] = Null
    BY <1>0, <2>1 DEF Written
  <2>4. code'[p] # Null /\ \A c \in Requests \ {p} : code'[c] = code[c]
    BY <1>0, <1>b, <1>9, <2>2 DEF Issue, TypeOK
  <2>5. user' = user /\ mailed \subseteq mailed'
    BY <1>9 DEF Issue
  <2> QED
    BY <2>3, <2>4, <2>5 DEF TablesKept
<1>10. CASE SaveAll(p)
  <2>1. target[p] \in Ids /\ instance[p] \in UserRow /\ user[target[p]] # Null
    BY <1>0, <1>10 DEF SaveAll, Holds, Accounts
  <2>2. user' = user \/ user' = [user EXCEPT ![target[p]] = instance[p]]
    BY <1>10 DEF SaveAll
  <2> QED
    BY <1>0, <1>b, <1>10, <2>1, <2>2 DEF SaveAll, TypeOK, TablesKept
<1>11. CASE GoogleCreate(p)
  <2>1. Row(instance[p].email, Blank, Null, TRUE, FALSE) \in UserRow
    BY <1>0, <1>11 DEF GoogleCreate, Holds, Row, UserRow, Usernames
  <2>2. \/ user' = user
        \/ user' = [user EXCEPT ![p] = Row(instance[p].email, Blank, Null, TRUE, FALSE)]
    BY <1>11 DEF GoogleCreate
  <2>3. UNCHANGED <<code, mailed>>
    BY <1>11 DEF GoogleCreate
  <2> QED
    BY <1>0, <1>b, <2>1, <2>2, <2>3 DEF TypeOK, TablesKept
<1>12. CASE Crash(p)
  BY <1>12 DEF Crash, tables, TablesKept
<1>13. CASE Age(p)
  <2>1. code[p] \in CodeRow /\ code[p].age < 2
    BY <1>0, <1>13 DEF Age, TypeOK
  <2>2. /\ code'[p] = [code[p] EXCEPT !.age = @ + 1]
        /\ \A c \in Requests \ {p} : code'[c] = code[c]
        /\ user' = user /\ mailed' = mailed
    BY <1>0, <1>13 DEF Age, TypeOK
  <2>3. code'[p] \in CodeRow /\ code'[p].is_used = code[p].is_used
    BY <2>1, <2>2 DEF CodeRow
  <2> QED
    BY <1>b, <2>1, <2>2, <2>3 DEF TablesKept
<1> QED
  BY <1>1, <1>2, <1>3, <1>4, <1>5, <1>6, <1>7, <1>8, <1>9, <1>10, <1>11, <1>12, <1>13
     DEF StepOf, Serve

\* The control state of the other requests, and of those already answered.
OthersKept(p) ==
  /\ \A q \in Requests \ {p} :
       /\ pc'[q] = pc[q] /\ endpoint'[q] = endpoint[q] /\ target'[q] = target[q]
       /\ instance'[q] = instance[q] /\ record'[q] = record[q] /\ doomed'[q] = doomed[q]
  /\ \A q \in Requests :
       pc[q] = "done" =>
         /\ pc'[q] = "done" /\ endpoint'[q] = endpoint[q] /\ target'[q] = target[q]
         /\ record'[q] = record[q]

LEMMA OthersNext ==
  ASSUME IInv, NEW p \in Requests, StepOf(p)
  PROVE  OthersKept(p)
<1>0. TypeOK
  BY DEF IInv
<1>1. CASE Load(p)
  <2>1. PICK what, to, u, row : Arrival(p, what, to, u, row)
    BY <1>1, LoadArrives
  <2>2. /\ pc[p] = "idle"
        /\ pc' = [pc EXCEPT ![p] = to] /\ endpoint' = [endpoint EXCEPT ![p] = what]
        /\ target' = [target EXCEPT ![p] = u] /\ instance' = [instance EXCEPT ![p] = row]
        /\ doomed' = doomed
    BY <2>1 DEF Arrival, Arrive
  <2>3. record' = record \/ \E c : record' = [record EXCEPT ![p] = c]
    BY <2>1 DEF Arrival
  <2> QED
    BY <1>0, <2>2, <2>3 DEF TypeOK, OthersKept
<1>2. CASE RegisterSave(p)
  BY <1>0, <1>2 DEF RegisterSave, Step, TypeOK, OthersKept
<1>3. CASE RegisterCommit(p)
  BY <1>0, <1>3 DEF RegisterCommit, Step, TypeOK, OthersKept
<1>4. CASE CountAttempt(p)
  BY <1>0, <1>4 DEF CountAttempt, Step, memory, TypeOK, OthersKept
<1>5. CASE BurnCode(p)
  BY <1>0, <1>5 DEF BurnCode, Step, memory, TypeOK, OthersKept
<1>6. CASE Activate(p)
  BY <1>0, <1>6 DEF Activate, Step, memory, TypeOK, OthersKept
<1>7. CASE SetPassword(p)
  BY <1>0, <1>7 DEF SetPassword, Step, memory, TypeOK, OthersKept
<1>8. CASE Invalidate(p)
  BY <1>0, <1>8 DEF Invalidate, Step, memory, TypeOK, OthersKept
<1>9. CASE Issue(p)
  BY <1>0, <1>9 DEF Issue, Step, memory, TypeOK, OthersKept
<1>10. CASE SaveAll(p)
  BY <1>0, <1>10 DEF SaveAll, Step, memory, TypeOK, OthersKept
<1>11. CASE GoogleCreate(p)
  BY <1>0, <1>11 DEF GoogleCreate, Step, TypeOK, OthersKept
<1>12. CASE Crash(p)
  BY <1>0, <1>12 DEF Crash, InFlight, TypeOK, OthersKept
<1>13. CASE Age(p)
  BY <1>0, <1>13 DEF Age, memory, TypeOK, OthersKept
<1> QED
  BY <1>1, <1>2, <1>3, <1>4, <1>5, <1>6, <1>7, <1>8, <1>9, <1>10, <1>11, <1>12, <1>13
     DEF StepOf, Serve

LEMMA EvidenceKept ==
  ASSUME NEW p \in Requests, TablesKept(p), OthersKept(p), NEW u, Evidence(u)
  PROVE  Evidence(u)'
BY DEF TablesKept, OthersKept, Evidence

\* So a step of p keeps what the invariant says of every other request.
LEMMA OthersInvariant ==
  ASSUME IInv, NEW p \in Requests, StepOf(p), NEW q \in Requests \ {p}
  PROVE  (Route(q) /\ Written(q) /\ Holds(q) /\ Codes(q))'
<1>1. TablesKept(p) /\ OthersKept(p) /\ TypeOK
  BY TablesNext, OthersNext DEF IInv
<1>2. Route(q) /\ Written(q) /\ Holds(q) /\ Codes(q)
  BY DEF IInv
<1>3. Route(q)' /\ Written(q)'
  BY <1>1, <1>2 DEF OthersKept, TablesKept, Route, Written, Ids
<1>4. Holds(q)'
  <2>1. \A u \in Accounts : u \in Accounts'
    BY <1>1 DEF TablesKept, Accounts
  <2>2. \A u : Evidence(u) => Evidence(u)'
    BY <1>1, EvidenceKept
  <2>3. \A r \in Requests : pc[r] = "done" => pc'[r] = "done"
    BY <1>1 DEF OthersKept
  <2>4. /\ pc'[q] = pc[q] /\ endpoint'[q] = endpoint[q] /\ target'[q] = target[q]
        /\ instance'[q] = instance[q]
    BY <1>1 DEF OthersKept
  <2> QED
    BY <1>2, <2>1, <2>2, <2>3, <2>4 DEF Holds
<1>5. Codes(q)'
  <2>1. /\ pc'[q] = pc[q] /\ endpoint'[q] = endpoint[q] /\ record'[q] = record[q]
        /\ doomed'[q] = doomed[q]
    BY <1>1 DEF OthersKept
  <2>2. doomed[q] \subseteq Requests /\ record[q] \in Requests \cup {Null}
    BY <1>1 DEF TypeOK
  <2> QED
    BY <1>1, <1>2, <2>1, <2>2 DEF TablesKept, Codes
<1> QED
  BY <1>3, <1>4, <1>5

\* What the step does to the request that takes it.
LEMMA ActorInvariant ==
  ASSUME IInv, NEW p \in Requests, StepOf(p)
  PROVE  (Route(p) /\ Written(p) /\ Holds(p) /\ Codes(p))'
<1>0. /\ TypeOK /\ Route(p) /\ Written(p) /\ Holds(p) /\ Codes(p)
      /\ p \in Ids
      /\ Null \notin Ids /\ Null \notin Requests
  BY NullAssumption DEF IInv, Ids
<1>t. TypeOK' /\ TablesKept(p)
  BY TypeNext, TablesNext
<1>e. \A u : Evidence(u) => Evidence(u)'
  BY <1>t, OthersNext, EvidenceKept
<1>a. \A u \in Accounts : u \in Accounts'
  BY <1>t DEF TablesKept, Accounts
<1>d. \A r \in Requests : pc[r] = "done" => pc'[r] = "done"
  BY OthersNext DEF OthersKept
<1>1. CASE Load(p)
  <2>1. PICK what, to, u, row : Arrival(p, what, to, u, row)
    BY <1>1, LoadArrives
  <2>2. /\ pc[p] = "idle" /\ endpoint[p] = "none"
        /\ pc'[p] = to /\ endpoint'[p] = what /\ target'[p] = u /\ instance'[p] = row
        /\ u \in Ids /\ row \in UserRow
        /\ UNCHANGED <<user, code, mailed, doomed>>
    BY <1>0, <2>1 DEF Arrival, Arrive, tables, TypeOK, Route
  <2>3. user[p] = Null /\ code[p] = Null /\ record[p] = Null
    BY <1>0, <2>2 DEF Written, Codes
  <2>4. Route(p)' /\ Written(p)'
    BY <2>1, <2>2, <2>3 DEF Arrival, Route, Written
  <2>5. Holds(p)'
    <3>1. CASE what = "me" /\ to = "save_all"
      <4>1. u \in Accounts /\ row.password = user[u].password
            /\ row.is_email_verified = user[u].is_email_verified
        BY <2>1, <3>1 DEF Arrival
      <4>2. row.is_email_verified => Evidence(u)
        BY <4>1 DEF IInv, VerifiedHasEvidence
      <4>3. row.password \in Requests => pc[row.password] = "done"
        BY <4>1 DEF IInv, PasswordsAreSettled
      <4> QED
        BY <1>a, <1>d, <1>e, <2>2, <3>1, <4>1, <4>2, <4>3 DEF Holds
    <3>2. CASE to # "save_all"
      BY <1>a, <2>1, <2>2, <3>2 DEF Arrival, Holds
    <3> QED
      BY <2>1, <3>1, <3>2 DEF Arrival
  <2>6. Codes(p)'
    <3>1. CASE /\ UNCHANGED <<record, held>>
               /\ to \notin {"count", "burn"}
               /\ what \notin {"verify_otp", "password_reset_confirm"}
      BY <1>0, <2>2, <2>3, <3>1 DEF Codes
    <3>2. ASSUME NEW c \in Requests, code[c] # Null, ~code[c].is_used,
                 what \in {"verify_otp", "password_reset_confirm"},
                 record' = [record EXCEPT ![p] = c],
                 (to = "burn" /\ c \in mailed) \/ to = "count"
          PROVE  Codes(p)'
      <4>1. record'[p] = c
        BY <1>0, <3>2 DEF TypeOK
      <4> QED
        BY <1>0, <2>2, <3>2, <4>1 DEF Codes
    <3> QED
      BY <2>1, <3>1, <3>2 DEF Arrival
  <2> QED
    BY <2>4, <2>5, <2>6
<1>2. CASE RegisterSave(p)
  <2>1. /\ pc[p] = "save" /\ pc'[p] \in {"commit", "failed"} /\ endpoint'[p] = endpoint[p]
        /\ UNCHANGED <<user, code, target, instance, record>>
        /\ doomed'[p] = doomed[p] \/ doomed'[p] = Live(target[p], "verification")
    BY <1>0, <1>2 DEF RegisterSave, Step, TypeOK
  <2>2. \A c \in Live(target[p], "verification") : code[c] # Null
    BY DEF Live, CodesOf
  <2>3. record[p] = Null
    BY <1>0, <2>1 DEF Codes, Route
  <2> QED
    BY <1>0, <1>a, <2>1, <2>2, <2>3 DEF Route, Written, Holds, Codes
<1>3. CASE RegisterCommit(p)
  <2>1. /\ pc[p] = "commit" /\ pc'[p] = "done" /\ endpoint'[p] = "register"
        /\ record' = record /\ doomed'[p] = {}
    BY <1>0, <1>3 DEF RegisterCommit, Step, TypeOK, Route
  <2>2. record[p] = Null
    BY <1>0, <2>1, <1>3 DEF Codes, Route, RegisterCommit, Step
  <2> QED
    BY <2>1, <2>2 DEF Route, Written, Holds, Codes
<1>4. CASE CountAttempt(p)
  <2>1. /\ pc[p] = "count" /\ pc'[p] = "failed" /\ endpoint'[p] = endpoint[p]
        /\ user' = user /\ record' = record /\ doomed' = doomed
    BY <1>0, <1>4 DEF CountAttempt, Step, memory, TypeOK
  <2>2. user[p] = Null /\ code[p] = Null /\ endpoint[p] # "register"
    BY <1>0, <2>1 DEF Written, Route
  <2>3. record[p] \in Requests /\ code[record[p]] # Null
    BY <1>0, <2>1 DEF Codes, TypeOK
  <2>4. record[p] # p => code'[p] = Null
    BY <1>0, <1>4, <2>2 DEF CountAttempt, TypeOK
  <2>5. Written(p)'
    BY <2>1, <2>2, <2>3, <2>4 DEF Written
  <2>6. doomed[p] \subseteq Requests
    BY <1>0 DEF TypeOK
  <2>7. Codes(p)'
    BY <1>0, <1>t, <2>1, <2>3, <2>6 DEF Codes, TablesKept
  <2> QED
    BY <2>1, <2>5, <2>7 DEF Route, Holds
<1>5. CASE BurnCode(p)
  <2>1. /\ pc[p] = "burn" /\ endpoint'[p] = endpoint[p]
        /\ pc'[p] = IF endpoint[p] = "verify_otp" THEN "activate" ELSE "set_password"
        /\ code' = Invalidated({record[p]})
        /\ UNCHANGED <<user, mailed, target, instance, record, doomed>>
    BY <1>0, <1>5 DEF BurnCode, Step, memory, TypeOK
  <2>2. /\ record[p] \in Requests /\ code[record[p]] # Null
        /\ endpoint[p] \in {"verify_otp", "password_reset_confirm"}
        /\ record[p] \in mailed
    BY <1>0, <2>1 DEF Codes, TypeOK
  <2>3. user[p] = Null /\ code[p] = Null
    BY <1>0, <2>1 DEF Written, Route
  <2>4. /\ code'[p] = Null /\ code'[record[p]].is_used /\ code'[record[p]] # Null
    <3>1. {record[p]} \in SUBSET Requests /\ \A c \in {record[p]} : code[c] # Null
      BY <2>2
    <3>2. /\ \A c \in Requests : code[c] = Null <=> Invalidated({record[p]})[c] = Null
          /\ \A c \in {record[p]} : Invalidated({record[p]})[c].is_used
      BY <1>0, <3>1, InvalidatedRows DEF TypeOK
    <3> QED
      BY <2>1, <2>2, <2>3, <3>2
  <2>5. doomed[p] \subseteq Requests
    BY <1>0 DEF TypeOK
  <2>6. Codes(p)'
    BY <1>0, <1>t, <2>1, <2>2, <2>4, <2>5 DEF Codes, TablesKept
  <2>7. Holds(p)'
    BY <1>0, <1>a, <2>1, <2>2 DEF Holds
  <2> QED
    BY <2>1, <2>2, <2>3, <2>4, <2>6, <2>7 DEF Route, Written
<1>6. CASE Activate(p)
  <2>1. /\ pc[p] = "activate" /\ pc'[p] = "done" /\ endpoint'[p] = endpoint[p]
        /\ UNCHANGED <<code, mailed, target, instance, record, doomed>>
    BY <1>0, <1>6 DEF Activate, Step, memory, TypeOK
  <2>2. user[p] = Null /\ code[p] = Null /\ endpoint[p] \in {"verify_otp", "google"}
    BY <1>0, <2>1 DEF Written, Route
  <2>3. Written(p)'
    BY <1>0, <1>6, <2>1, <2>2, <1>t DEF Written, Activate, TypeOK, Holds, Accounts
  <2> QED
    BY <1>0, <2>1, <2>2, <2>3 DEF Route, Holds, Codes
<1>7. CASE SetPassword(p)
  <2>1. /\ pc[p] = "set_password" /\ pc'[p] = "done" /\ endpoint'[p] = endpoint[p]
        /\ UNCHANGED <<code, mailed, target, instance, record, doomed>>
    BY <1>0, <1>7 DEF SetPassword, Step, memory, TypeOK
  <2>2. user[p] = Null /\ code[p] = Null
    BY <1>0, <2>1 DEF Written, Route
  <2>3. user'[p] = Null
    BY <1>0, <1>7, <2>1, <2>2 DEF SetPassword, TypeOK, Holds, Accounts
  <2> QED
    BY <1>0, <2>1, <2>2, <2>3 DEF Route, Written, Holds, Codes
<1>8. CASE Invalidate(p)
  <2>1. /\ pc[p] = "invalidate" /\ pc'[p] = "issue" /\ endpoint'[p] = endpoint[p]
        /\ code' = Invalidated(Live(target[p], KindSent(p)))
        /\ UNCHANGED <<user, mailed, target, instance, record, doomed>>
    BY <1>0, <1>8 DEF Invalidate, Step, memory, TypeOK
  <2>2. user[p] = Null /\ code[p] = Null /\ record[p] = Null
    BY <1>0, <2>1 DEF Written, Route, Codes
  <2>3. Live(target[p], KindSent(p)) \in SUBSET Requests
        /\ \A c \in Live(target[p], KindSent(p)) : code[c] # Null
    BY DEF Live, CodesOf
  <2>4. code'[p] = Null
    BY <1>0, <2>1, <2>2, <2>3, InvalidatedRows DEF TypeOK
  <2>5. doomed[p] \subseteq Requests
    BY <1>0 DEF TypeOK
  <2>6. Codes(p)'
    BY <1>0, <1>t, <2>1, <2>2, <2>5 DEF Codes, TablesKept
  <2> QED
    BY <1>0, <1>a, <2>1, <2>2, <2>4, <2>6 DEF Route, Written, Holds
<1>9. CASE Issue(p)
  <2>1. /\ pc[p] = "issue" /\ pc'[p] \in {"done", "failed"} /\ endpoint'[p] = endpoint[p]
        /\ UNCHANGED <<user, target, instance, record, doomed>>
    BY <1>0, <1>9 DEF Issue, Step, memory, TypeOK
  <2>2. user[p] = Null /\ record[p] = Null
        /\ endpoint[p] \in {"resend_otp", "password_reset_request"}
    BY <1>0, <2>1 DEF Written, Route, Codes
  <2>3. doomed[p] \subseteq Requests
    BY <1>0 DEF TypeOK
  <2>4. Codes(p)'
    BY <1>0, <1>t, <2>1, <2>2, <2>3 DEF Codes, TablesKept
  <2> QED
    BY <1>0, <2>1, <2>2, <2>4 DEF Route, Written, Holds
<1>10. CASE SaveAll(p)
  <2>1. /\ pc[p] = "save_all" /\ pc'[p] \in {"done", "failed"} /\ endpoint'[p] = endpoint[p]
        /\ UNCHANGED <<code, mailed, target, instance, record, doomed>>
    BY <1>0, <1>10 DEF SaveAll, Step, memory, TypeOK
  <2>2. code[p] = Null /\ record[p] = Null /\ endpoint[p] \in {"me", "google"}
    BY <1>0, <2>1 DEF Written, Route, Codes
  <2>3. user'[p] # Null => user[p] # Null
    BY <1>0, <1>10, <2>1 DEF SaveAll, TypeOK, Holds, Accounts
  <2>4. Written(p)'
    BY <1>0, <2>1, <2>2, <2>3 DEF Written
  <2> QED
    BY <1>0, <2>1, <2>2, <2>4 DEF Route, Holds, Codes
<1>11. CASE GoogleCreate(p)
  <2>1. /\ pc[p] = "create" /\ endpoint'[p] = "google" /\ endpoint[p] = "google"
        /\ pc'[p] \in {"save_all", "activate", "done", "failed"}
        /\ UNCHANGED <<code, mailed, record, doomed>>
    BY <1>0, <1>11 DEF GoogleCreate, Step, TypeOK, Route
  <2>2. /\ user[p] = Null /\ code[p] = Null /\ record[p] = Null
        /\ target[p] = p /\ instance[p] \in UserRow /\ instance[p].password = Null
    BY <1>0, <2>1 DEF Written, Codes, Holds
  <2>3. CASE user' = [user EXCEPT ![p] = Row(instance[p].email, Blank, Null, TRUE, FALSE)]
             /\ pc'[p] = "save_all" /\ UNCHANGED <<target, instance>>
    <3>1. p \in Accounts'
      <4>1. Row(instance[p].email, Blank, Null, TRUE, FALSE) \in UserRow
        BY <2>2 DEF Row, UserRow, Usernames
      <4> QED
        BY <1>0, <2>3, <4>1, NullAssumption DEF Accounts, TypeOK
    <3>2. Holds(p)'
      BY <1>0, <2>1, <2>2, <2>3, <3>1 DEF Holds
    <3> QED
      BY <1>0, <2>1, <2>2, <2>3, <3>2 DEF Route, Written, Codes
  <2>4. ASSUME NEW u \in WithEmail(instance[p].email),
               pc'[p] = IF Unverified(u) THEN "activate" ELSE "done",
               target'[p] = u, instance'[p] = user[u], user' = user
        PROVE  (Route(p) /\ Written(p) /\ Holds(p) /\ Codes(p))'
    <3>1. u \in Ids /\ user[u] \in UserRow /\ u \in Accounts /\ u \in Accounts'
      BY <1>0, <1>a, <2>4 DEF WithEmail, Accounts, TypeOK
    <3>2. Holds(p)'
      BY <2>1, <2>4, <3>1 DEF Holds, Unverified
    <3> QED
      BY <1>0, <2>1, <2>2, <2>4, <3>2 DEF Route, Written, Codes
  <2>5. CASE pc'[p] = "failed" /\ user' = user
    BY <1>0, <2>1, <2>2, <2>5 DEF Route, Written, Holds, Codes
  <2> QED
    BY <1>0, <1>11, <2>3, <2>4, <2>5 DEF GoogleCreate, Step, TypeOK
<1>12. CASE Crash(p)
  <2>1. /\ pc[p] \notin {"idle", "done", "failed", "crashed"}
        /\ pc'[p] = "crashed" /\ doomed'[p] = {}
        /\ UNCHANGED <<user, code, mailed, endpoint, record>>
    BY <1>0, <1>12 DEF Crash, InFlight, tables, TypeOK
  <2> QED
    BY <1>0, <2>1 DEF Route, Written, Holds, Codes
<1>13. CASE Age(p)
  <2>1. /\ code[p] # Null
        /\ UNCHANGED <<user, mailed, endpoint, pc, target, instance, record, doomed>>
    BY <1>13 DEF Age, memory
  <2>2. doomed[p] \subseteq Requests /\ record[p] \in Requests \cup {Null}
    BY <1>0 DEF TypeOK
  <2>3. Codes(p)'
    BY <1>0, <1>t, <2>1, <2>2 DEF Codes, TablesKept
  <2>4. Holds(p)'
    BY <1>0, <1>a, <1>e, <2>1 DEF Holds
  <2> QED
    BY <1>0, <2>1, <2>3, <2>4 DEF Route, Written
<1> QED
  BY <1>1, <1>2, <1>3, <1>4, <1>5, <1>6, <1>7, <1>8, <1>9, <1>10, <1>11, <1>12, <1>13
     DEF StepOf, Serve

-----------------------------------------------------------------------------
(* The rows a step writes *)

\* A row keeps its password, or has that of a request that succeeded, or none;
\* it is verified only if it was, or there is evidence of it.
LEMMA RowsNext ==
  ASSUME IInv, NEW p \in Requests, StepOf(p), NEW u \in Accounts'
  PROVE  /\ user'[u].password \in Requests => pc'[user'[u].password] = "done"
         /\ user'[u].is_email_verified => Evidence(u)'
<1>0. /\ TypeOK /\ Route(p) /\ Holds(p) /\ Codes(p)
      /\ p \in Ids /\ Null \notin Requests /\ Null \notin UserRow
      /\ u \in Ids /\ user'[u] # Null
  BY NullAssumption DEF IInv, Ids, Accounts
<1>t. TypeOK' /\ TablesKept(p)
  BY TypeNext, TablesNext
<1>e. \A v : Evidence(v) => Evidence(v)'
  BY <1>t, OthersNext, EvidenceKept
<1>d. \A r \in Requests : pc[r] = "done" => pc'[r] = "done"
  BY OthersNext DEF OthersKept
<1>s. user'[u] = user[u] =>
        /\ user'[u].password \in Requests => pc'[user'[u].password] = "done"
        /\ user'[u].is_email_verified => Evidence(u)'
  BY <1>0, <1>d, <1>e DEF IInv, PasswordsAreSettled, VerifiedHasEvidence, Accounts
<1>1. CASE Load(p)
  BY <1>1, <1>s, LoadArrives DEF Arrival, Arrive, tables
<1>2. CASE RegisterSave(p)
  BY <1>2, <1>s DEF RegisterSave
<1>3. CASE RegisterCommit(p)
  <2>1. /\ pc'[p] = "done" /\ user' = [user EXCEPT ![target[p]] = instance[p]]
        /\ instance[p].password = p /\ ~instance[p].is_email_verified
    BY <1>0, <1>3 DEF RegisterCommit, Step, Holds, TypeOK
  <2> QED
    BY <1>0, <1>s, <2>1 DEF TypeOK
<1>4. CASE CountAttempt(p)
  BY <1>4, <1>s DEF CountAttempt
<1>5. CASE BurnCode(p)
  BY <1>5, <1>s DEF BurnCode
<1>6. CASE Activate(p)
  <2>1. /\ pc[p] = "activate" /\ target[p] \in Ids /\ user[target[p]] \in UserRow
        /\ user[target[p]] # Null
    BY <1>0, <1>6 DEF Activate, Step, Holds, Accounts, TypeOK
  <2>2. CASE u = target[p]
    <3>1. user'[u].password = user[u].password
      BY <1>0, <1>6, <2>1, <2>2 DEF Activate, TypeOK, UserRow
    <3>2. user[u].password \in Requests => pc[user[u].password] = "done"
      BY <1>0, <2>1, <2>2 DEF IInv, PasswordsAreSettled, Accounts
    <3>3. /\ pc'[p] = "done" /\ endpoint'[p] = endpoint[p] /\ target'[p] = u
          /\ record'[p] = record[p] /\ mailed' = mailed
      BY <1>0, <1>6, <2>2 DEF Activate, Step, memory, TypeOK
    <3>4. \/ endpoint[p] = "google"
          \/ endpoint[p] = "verify_otp" /\ record[p] \in mailed
      BY <1>0, <2>1 DEF Route, Codes
    <3>5. Evidence(u)'
      BY <3>3, <3>4 DEF Evidence
    <3> QED
      BY <1>d, <3>1, <3>2, <3>5
  <2>3. CASE u # target[p]
    BY <1>0, <1>6, <1>s, <2>3 DEF Activate, TypeOK
  <2> QED
    BY <2>2, <2>3
<1>7. CASE SetPassword(p)
  <2>1. /\ pc[p] = "set_password" /\ target[p] \in Ids /\ user[target[p]] \in UserRow
        /\ user[target[p]] # Null
    BY <1>0, <1>7 DEF SetPassword, Step, Holds, Accounts, TypeOK
  <2>2. CASE u = target[p]
    <3>1. /\ user'[u].password = p
          /\ user'[u].is_email_verified = user[u].is_email_verified
      BY <1>0, <1>7, <2>1, <2>2 DEF SetPassword, TypeOK, UserRow
    <3>2. pc'[p] = "done"
      BY <1>0, <1>7 DEF SetPassword, Step, TypeOK
    <3>3. user[u].is_email_verified => Evidence(u)
      BY <1>0, <2>1, <2>2 DEF IInv, VerifiedHasEvidence, Accounts
    <3> QED
      BY <1>e, <3>1, <3>2, <3>3
  <2>3. CASE u # target[p]
    BY <1>0, <1>7, <1>s, <2>3 DEF SetPassword, TypeOK
  <2> QED
    BY <2>2, <2>3
<1>8. CASE Invalidate(p)
  BY <1>8, <1>s DEF Invalidate
<1>9. CASE Issue(p)
  BY <1>9, <1>s DEF Issue
<1>10. CASE SaveAll(p)
  <2>1. /\ pc[p] = "save_all" /\ target[p] \in Ids
        /\ instance[p].password \in Requests => pc[instance[p].password] = "done"
        /\ endpoint[p] = "me" /\ instance[p].is_email_verified => Evidence(target[p])
    BY <1>0, <1>10 DEF SaveAll, Holds
  <2>2. CASE user' = user
    BY <1>s, <2>2
  <2>3. CASE user' = [user EXCEPT ![target[p]] = instance[p]] /\ Step(p, "save_all", "done")
    <3>1. CASE u = target[p]
      <4>1. user'[u] = instance[p]
        BY <1>0, <2>3, <3>1 DEF TypeOK
      <4>2. CASE endpoint[p] = "me"
        BY <1>d, <1>e, <2>1, <3>1, <4>1, <4>2
      <4>3. CASE endpoint[p] = "google"
        <5>1. pc'[p] = "done" /\ endpoint'[p] = "google" /\ target'[p] = u
          BY <1>0, <1>10, <2>3, <3>1, <4>3 DEF SaveAll, Step, memory, TypeOK
        <5>2. Evidence(u)'
          BY <5>1 DEF Evidence
        <5> QED
          BY <1>d, <2>1, <4>1, <5>2
      <4> QED
        BY <1>0, <2>1, <4>2, <4>3 DEF Route
    <3>2. CASE u # target[p]
      BY <1>0, <1>s, <2>3, <3>2 DEF TypeOK
    <3> QED
      BY <3>1, <3>2
  <2> QED
    BY <1>10, <2>2, <2>3 DEF SaveAll
<1>11. CASE GoogleCreate(p)
  <2>1. CASE user' = user
    BY <1>s, <2>1
  <2>2. CASE user' = [user EXCEPT ![p] = Row(instance[p].email, Blank, Null, TRUE, FALSE)]
    <3>1. CASE u = p
      BY <1>0, <2>2, <3>1 DEF Row, TypeOK
    <3>2. CASE u # p
      BY <1>0, <1>s, <2>2, <3>2 DEF TypeOK
    <3> QED
      BY <3>1, <3>2
  <2> QED
    BY <1>11, <2>1, <2>2 DEF GoogleCreate
<1>12. CASE Crash(p)
  BY <1>12, <1>s DEF Crash, tables
<1>13. CASE Age(p)
  BY <1>13, <1>s DEF Age
<1> QED
  BY <1>1, <1>2, <1>3, <1>4, <1>5, <1>6, <1>7, <1>8, <1>9, <1>10, <1>11, <1>12, <1>13
     DEF StepOf, Serve

-----------------------------------------------------------------------------
(* The theorems *)

LEMMA InvariantInit == Init => IInv
<1> SUFFICES ASSUME Init PROVE IInv
  OBVIOUS
<1>1. Seeds \subseteq Ids /\ Requests \subseteq Ids /\ Seeds \cap Requests = {}
      /\ Seeds \subseteq Emails
  BY ConstantsAssumption DEF Ids
<1>2. \A u \in Seeds : Row(u, u, u, TRUE, TRUE) \in UserRow
  BY <1>1 DEF Row, UserRow, Usernames
<1>3. TypeOK
  <2>1. user \in [Ids -> UserRow \cup {Null}]
    BY <1>1, <1>2 DEF Init
  <2>2. 0 \in 0..(MaxAttempts - 1)
    BY ConstantsAssumption
  <2>3. issued \in Seq(Requests)
    BY DEF Init
  <2> QED
    BY <2>1, <2>2, <2>3 DEF Init, TypeOK
<1>4. \A p \in Requests : Route(p) /\ Written(p) /\ Holds(p) /\ Codes(p)
  BY <1>1 DEF Init, Route, Written, Holds, Codes, Ids
<1>5. \A u \in Accounts : u \in Seeds /\ user[u] = Row(u, u, u, TRUE, TRUE)
  BY DEF Accounts, Init
<1>6. PasswordsAreSettled
  <2> SUFFICES ASSUME NEW u \in Accounts PROVE user[u].password \notin Requests
    BY DEF PasswordsAreSettled
  <2>1. u \in Seeds /\ user[u] = Row(u, u, u, TRUE, TRUE)
    BY <1>5
  <2>2. user[u].password = u
    BY <2>1 DEF Row
  <2> QED
    BY <1>1, <2>1, <2>2
<1>7. VerifiedHasEvidence
  BY <1>5 DEF VerifiedHasEvidence, Evidence
<1> QED
  BY <1>3, <1>4, <1>6, <1>7 DEF IInv

LEMMA InvariantNext == IInv /\ [Next]_vars => IInv'
<1> SUFFICES ASSUME IInv, [Next]_vars PROVE IInv'
  OBVIOUS
<1>1. ASSUME NEW p \in Requests, StepOf(p) PROVE IInv'
  <2>1. TypeOK'
    BY <1>1, TypeNext
  <2>2. \A q \in Requests : (Route(q) /\ Written(q) /\ Holds(q) /\ Codes(q))'
    BY <1>1, OthersInvariant, ActorInvariant
  <2>3. PasswordsAreSettled' /\ VerifiedHasEvidence'
    BY <1>1, RowsNext DEF PasswordsAreSettled, VerifiedHasEvidence
  <2> QED
    BY <2>1, <2>2, <2>3 DEF IInv
<1>2. CASE UNCHANGED vars
  BY <1>2 DEF IInv, TypeOK, Route, Written, Holds, Codes, PasswordsAreSettled,
              VerifiedHasEvidence, Evidence, Accounts, vars, tables, memory
<1> QED
  BY <1>1, <1>2 DEF Next, StepOf

\* The control state of every request agrees with the rows and codes it has
\* written, and with what it is still to write: the invariant the others rest on.
THEOREM Invariance == Spec => []IInv
<1> QED
  BY InvariantInit, InvariantNext, PTL DEF Spec

\* The variables keep their types.
THEOREM TypeCorrect == Spec => []TypeOK
<1>1. IInv => TypeOK
  BY DEF IInv
<1> QED
  BY <1>1, Invariance, PTL

\* RegisterSerializer and its mail are one transaction: a registration that was
\* not answered 201 leaves neither account nor password nor code.
THEOREM RegistrationAtomic == Spec => []RegistrationIsAtomic
<1>1. IInv => RegistrationIsAtomic
  <2> SUFFICES ASSUME IInv, NEW p \in Requests, endpoint[p] = "register", pc[p] # "done"
               PROVE  /\ code[p] = Null
                      /\ \A u \in Accounts : u # p /\ user[u].password # p
    BY DEF RegistrationIsAtomic
  <2>1. user[p] = Null /\ code[p] = Null
    BY DEF IInv, Written
  <2>2. \A u \in Accounts : u # p
    BY <2>1 DEF Accounts
  <2>3. \A u \in Accounts : user[u].password # p
    BY DEF IInv, PasswordsAreSettled
  <2> QED
    BY <2>1, <2>2, <2>3
<1> QED
  BY <1>1, Invariance, PTL

\* An account that counts as verified was so before the start, signed in
\* through Google, or had a code entered that was mailed.
THEOREM VerificationEvidence == Spec => []VerifiedHasEvidence
<1>1. IInv => VerifiedHasEvidence
  BY DEF IInv
<1> QED
  BY <1>1, Invariance, PTL

\* No save of a request that had loaded a code before makes it usable again.
THEOREM UsedCodes == Spec => UsedCodesStayUsed
<1> DEFINE A == \A c \in Requests :
                  code[c] # Null /\ code[c].is_used => code'[c] # Null /\ code'[c].is_used
<1>1. IInv /\ [Next]_vars => [A]_vars
  <2>1. ASSUME IInv, NEW p \in Requests, StepOf(p) PROVE A
    BY <2>1, TablesNext DEF TablesKept
  <2> QED
    BY <2>1 DEF Next, StepOf
<1> QED
  BY <1>1, Invariance, PTL DEF Spec, UsedCodesStayUsed

\* A code that a request has redeemed is loaded by no later one: the races are
\* those of requests that loaded it before.
THEOREM LateRedemption == Spec => NoLateRedemption
<1> DEFINE A == \A p, c \in Requests :
                  record'[p] = c /\ record[p] # c => Redeemed(c) = {}
<1>1. IInv /\ [Next]_vars => [A]_vars
  <2>1. ASSUME IInv, NEW q \in Requests, StepOf(q), NEW p \in Requests, NEW c \in Requests,
               record'[p] = c, record[p] # c
        PROVE  Redeemed(c) = {}
    <3>1. p = q
      BY <2>1, OthersNext DEF OthersKept
    <3>2. CASE Load(q)
      <4>1. PICK what, to, u, row : Arrival(q, what, to, u, row)
        BY <2>1, <3>2, LoadArrives
      <4>2. code[c] # Null /\ ~code[c].is_used
        <5>1. CASE UNCHANGED <<record, held>>
          BY <2>1, <5>1
        <5>2. ASSUME NEW d \in Requests, code[d] # Null, ~code[d].is_used,
                     record' = [record EXCEPT ![q] = d]
              PROVE  code[c] # Null /\ ~code[c].is_used
          BY <2>1, <3>1, <5>2 DEF IInv, TypeOK
        <5> QED
          BY <4>1, <5>1, <5>2 DEF Arrival
      <4>3. \A r \in Requests :
              record[r] = c => pc[r] \notin {"activate", "set_password", "done"}
        BY <2>1, <4>2, NullAssumption DEF IInv, Codes, Ids
      <4> QED
        BY <4>3 DEF Redeemed
    <3>3. CASE Serve(q) \/ Crash(q) \/ Age(q)
      <4>1. record' = record
        BY <3>3 DEF Serve, Crash, Age, RegisterSave, RegisterCommit, CountAttempt, BurnCode,
                    Activate, SetPassword, Invalidate, Issue, SaveAll, GoogleCreate, memory
      <4> QED
        BY <2>1, <4>1
    <3> QED
      BY <2>1, <3>2, <3>3 DEF StepOf
  <2> QED
    BY <2>1 DEF Next, StepOf
<1> QED
  BY <1>1, Invariance, PTL DEF Spec, NoLateRedemption

\* A suspended account is made active again only by a request that had loaded
\* it before it was suspended, or by one that saves a profile it had loaded.
THEOREM Suspension == Spec => SuspensionHolds
<1> DEFINE Witness(u) ==
             \E p \in Requests :
               /\ pc[p] # "done" /\ pc'[p] = "done" /\ target[p] = u
               /\ pc[p] = "activate" => ~instance[p].is_email_verified
           A == \A u \in Accounts :
                  user[u].is_email_verified /\ ~user[u].is_active /\ user'[u].is_active =>
                    Witness(u)
<1>1. IInv /\ [Next]_vars => [A]_vars
  <2>1. ASSUME IInv, NEW p \in Requests, StepOf(p), NEW u \in Accounts,
               ~user[u].is_active, user'[u].is_active
        PROVE  Witness(u)
    <3>0. /\ TypeOK /\ Holds(p) /\ Written(p) /\ u \in Ids /\ user[u] # Null
          /\ user[u] \in UserRow
      BY <2>1 DEF IInv, Accounts, TypeOK
    <3>1. user' # user
      BY <2>1
    <3>2. CASE RegisterCommit(p)
      <4>1. /\ user' = [user EXCEPT ![target[p]] = instance[p]]
            /\ ~instance[p].is_active
        BY <3>0, <3>2 DEF RegisterCommit, Step, Holds
      <4> QED
        BY <2>1, <3>0, <4>1 DEF TypeOK
    <3>3. CASE Activate(p)
      <4>1. /\ pc[p] = "activate" /\ pc'[p] = "done" /\ target[p] \in Ids
            /\ ~instance[p].is_email_verified
        BY <3>0, <3>3 DEF Activate, Step, Holds, TypeOK
      <4>2. u = target[p]
        BY <2>1, <3>0, <3>3 DEF Activate, TypeOK
      <4> QED
        BY <4>1, <4>2
    <3>4. CASE SetPassword(p)
      <4>1. user'[u].is_active = user[u].is_active
        BY <3>0, <3>4 DEF SetPassword, TypeOK, UserRow
      <4> QED
        BY <2>1, <4>1
    <3>5. CASE SaveAll(p)
      <4>1. /\ pc[p] = "save_all" /\ pc'[p] = "done"
            /\ user' = [user EXCEPT ![target[p]] = instance[p]]
        BY <3>0, <3>1, <3>5 DEF SaveAll, Step, TypeOK
      <4>2. u = target[p]
        BY <2>1, <3>0, <4>1 DEF TypeOK
      <4> QED
        BY <4>1, <4>2
    <3>6. CASE GoogleCreate(p)
      <4>1. user[p] = Null
        BY <3>0, <3>6 DEF GoogleCreate, Written
      <4>2. user' = [user EXCEPT ![p] = Row(instance[p].email, Blank, Null, TRUE, FALSE)]
        BY <3>1, <3>6 DEF GoogleCreate
      <4> QED
        BY <2>1, <3>0, <4>1, <4>2 DEF TypeOK
    <3>7. CASE Load(p)
      BY <2>1, <3>1, <3>7, LoadArrives DEF Arrival, Arrive, tables
    <3>8. CASE RegisterSave(p) \/ CountAttempt(p) \/ BurnCode(p) \/ Invalidate(p)
               \/ Issue(p) \/ Crash(p) \/ Age(p)
      BY <3>1, <3>8 DEF RegisterSave, CountAttempt, BurnCode, Invalidate, Issue, Crash, Age,
                        tables
    <3> QED
      BY <2>1, <3>2, <3>3, <3>4, <3>5, <3>6, <3>7, <3>8 DEF StepOf, Serve
  <2> QED
    BY <2>1 DEF Next, StepOf
<1> QED
  BY <1>1, Invariance, PTL DEF Spec, SuspensionHolds

-----------------------------------------------------------------------------
(* How many codes are usable at a time *)

\* Requests that have invalidated the codes of u and are to issue one.
Sending(u, kind) == {p \in Requests : pc[p] = "issue" /\ target[p] = u /\ KindSent(p) = kind}
Usable(u, kind) == Live(u, kind) \cup Sending(u, kind)

\* The same, once an open registration has committed.
UsableAfter(p) ==
  (Live(target[p], "verification") \ doomed[p]) \cup Sending(target[p], "verification") \cup {p}

\* A request that invalidates leaves only requests in flight; those that issue
\* after it take the place in the set that they had while in flight.
LInv ==
  /\ Cardinality(InFlight) <= Workers
  /\ \A u \in Ids, kind \in Kinds : Cardinality(Usable(u, kind)) <= Workers
  /\ \A p \in Requests : pc[p] = "commit" => Cardinality(UsableAfter(p)) <= Workers
  /\ \A p, q \in Requests :
       pc[p] = "commit" /\ pc[q] = "commit" /\ p # q => target[p] # target[q]

LEMMA Smaller ==
  ASSUME NEW T \in SUBSET Requests, Cardinality(T) <= Workers, NEW S \in SUBSET T
  PROVE  Cardinality(S) <= Workers
<1>1. IsFiniteSet(T) /\ IsFiniteSet(Requests)
  BY ConstantsAssumption, FS_Subset
<1>2. Cardinality(S) <= Cardinality(T) /\ IsFiniteSet(S)
  BY <1>1, FS_Subset
<1>3. Cardinality(S) \in Nat /\ Cardinality(T) \in Nat
  BY <1>1, <1>2, FS_CardinalityType
<1> QED
  BY <1>2, <1>3, ConstantsAssumption

LEMMA InvalidatedLive ==
  ASSUME code \in [Requests -> CodeRow \cup {Null}],
         NEW codes \in SUBSET Requests, \A c \in codes : code[c] # Null,
         NEW c \in Requests
  PROVE  /\ c \notin codes => Invalidated(codes)[c] = code[c]
         /\ c \in codes => /\ Invalidated(codes)[c].user = code[c].user
                          /\ Invalidated(codes)[c].kind = code[c].kind
                          /\ Invalidated(codes)[c].is_used
BY DEF Invalidated, CodeRow

LEMMA InFlightNext ==
  ASSUME IInv, LInv, NEW p \in Requests, StepOf(p)
  PROVE  (Cardinality(InFlight) <= Workers)'
<1>0. TypeOK /\ InFlight \in SUBSET Requests /\ IsFiniteSet(InFlight)
  BY ConstantsAssumption, FS_Subset DEF IInv, InFlight
<1>1. CASE Load(p)
  <2>1. Cardinality(InFlight) < Workers /\ \E to : pc' = [pc EXCEPT ![p] = to]
    BY <1>1, LoadArrives DEF Arrival, Arrive
  <2>2. InFlight' \in SUBSET (InFlight \cup {p})
    BY <1>0, <2>1 DEF InFlight, TypeOK
  <2>3. /\ IsFiniteSet(InFlight \cup {p})
        /\ Cardinality(InFlight \cup {p}) <= Cardinality(InFlight) + 1
        /\ Cardinality(InFlight) \in Nat /\ Cardinality(InFlight \cup {p}) \in Nat
    <3>1. /\ IsFiniteSet(InFlight \cup {p})
          /\ Cardinality(InFlight \cup {p}) =
               IF p \in InFlight THEN Cardinality(InFlight) ELSE Cardinality(InFlight) + 1
      BY <1>0, FS_AddElement
    <3>2. Cardinality(InFlight) \in Nat /\ Cardinality(InFlight \cup {p}) \in Nat
      BY <1>0, <3>1, FS_CardinalityType
    <3> QED
      BY <3>1, <3>2
  <2>4. Cardinality(InFlight \cup {p}) <= Workers
    BY <2>1, <2>3, ConstantsAssumption
  <2> QED
    BY <1>0, <2>2, <2>4, Smaller
<1>2. CASE ~Load(p)
  <2>1. p \in InFlight \/ pc' = pc
    BY <1>2 DEF StepOf, Serve, Crash, Age, Step, RegisterSave, RegisterCommit, CountAttempt,
                BurnCode, Activate, SetPassword, Invalidate, Issue, SaveAll, GoogleCreate,
                InFlight
  <2>2. InFlight' \in SUBSET InFlight
    BY <2>1, OthersNext DEF OthersKept, InFlight
  <2> QED
    BY <1>0, <2>2, Smaller DEF LInv
<1> QED
  BY <1>1, <1>2

\* What a step does to the codes of an account that are usable, or about to be.
LEMMA LiveNext ==
  ASSUME IInv, NEW p \in Requests, StepOf(p), ~RegisterCommit(p),
         NEW u \in Ids, NEW kind \in Kinds
  PROVE  /\ Live(u, kind)' \subseteq Live(u, kind) \cup Sending(u, kind)
         /\ ~Invalidate(p) => Sending(u, kind)' \subseteq Sending(u, kind)
<1>0. /\ TypeOK /\ Route(p) /\ Holds(p) /\ Codes(p) /\ OthersKept(p)
      /\ Null \notin CodeRow
  BY OthersNext, NullAssumption DEF IInv
<1>q. \A q \in Requests \ {p} : q \in Sending(u, kind)' => q \in Sending(u, kind)
  BY <1>0 DEF OthersKept, Sending, KindSent
<1>1. CASE Load(p)
  <2>1. PICK what, to, v, row : Arrival(p, what, to, v, row)
    BY <1>1, LoadArrives
  <2>2. code' = code /\ pc'[p] # "issue"
    BY <1>0, <2>1 DEF Arrival, Arrive, tables, TypeOK
  <2> QED
    BY <1>q, <2>2 DEF Live, CodesOf, Sending
<1>2. CASE \/ RegisterSave(p) \/ Activate(p) \/ SetPassword(p) \/ SaveAll(p)
           \/ GoogleCreate(p) \/ Crash(p)
  <2>1. code' = code
    BY <1>2 DEF RegisterSave, Activate, SetPassword, SaveAll, GoogleCreate, Crash, tables
  <2>2. pc'[p] # "issue"
    BY <1>0, <1>2 DEF RegisterSave, Activate, SetPassword, SaveAll, GoogleCreate, Crash, Step,
                      TypeOK
  <2> QED
    BY <1>q, <2>1, <2>2 DEF Live, CodesOf, Sending
<1>3. CASE CountAttempt(p)
  <2>1. record[p] \in Requests /\ code[record[p]] \in CodeRow
    BY <1>0, <1>3 DEF CountAttempt, Step, Codes, TypeOK
  <2>2. /\ code' = [code EXCEPT ![record[p]] = [@ EXCEPT !.attempts = held[p] + 1]]
        /\ pc'[p] = "failed"
    BY <1>0, <1>3 DEF CountAttempt, Step, TypeOK
  <2>3. /\ code'[record[p]] = [code[record[p]] EXCEPT !.attempts = held[p] + 1]
        /\ \A c \in Requests \ {record[p]} : code'[c] = code[c]
    BY <1>0, <2>1, <2>2 DEF TypeOK
  <2>4. /\ code'[record[p]].user = code[record[p]].user
        /\ code'[record[p]].kind = code[record[p]].kind
        /\ code'[record[p]].is_used = code[record[p]].is_used
    BY <2>1, <2>3 DEF CodeRow
  <2>5. Live(u, kind)' \subseteq Live(u, kind)
    BY <1>0, <2>1, <2>3, <2>4 DEF Live, CodesOf
  <2> QED
    BY <1>q, <2>2, <2>5 DEF Sending
<1>4. CASE BurnCode(p)
  <2>1. /\ {record[p]} \in SUBSET Requests /\ \A c \in {record[p]} : code[c] # Null
        /\ code' = Invalidated({record[p]}) /\ pc'[p] # "issue"
    BY <1>0, <1>4 DEF BurnCode, Step, Codes, TypeOK
  <2>2. Live(u, kind)' \subseteq Live(u, kind)
    <3>1. \A c \in Requests :
            /\ c # record[p] => code'[c] = code[c]
            /\ c = record[p] => code'[c].is_used
      BY <1>0, <2>1, InvalidatedLive DEF TypeOK
    <3> QED
      BY <3>1 DEF Live, CodesOf
  <2> QED
    BY <1>q, <2>1, <2>2 DEF Sending
<1>5. CASE Invalidate(p)
  <2> DEFINE codes == Live(target[p], KindSent(p))
  <2>1. /\ codes \in SUBSET Requests /\ \A c \in codes : code[c] # Null
        /\ code' = Invalidated(codes)
    BY <1>5 DEF Invalidate, Live, CodesOf
  <2>2. \A c \in Requests : /\ c \notin codes => code'[c] = code[c]
                            /\ c \in codes => code'[c].is_used
    BY <1>0, <2>1, InvalidatedLive DEF TypeOK
  <2> HIDE DEF codes
  <2>3. Live(u, kind)' \subseteq Live(u, kind)
    BY <2>2 DEF Live, CodesOf
  <2> QED
    BY <1>5, <2>3
<1>6. CASE Issue(p)
  <2>1. /\ pc[p] = "issue" /\ pc'[p] # "issue"
        /\ code' = [code EXCEPT ![p] = NewCode(target[p], KindSent(p))]
    BY <1>0, <1>6 DEF Issue, Step, TypeOK
  <2>2. \A c \in Requests \ {p} : code'[c] = code[c]
    BY <1>0, <2>1 DEF TypeOK
  <2>3. code'[p].user = target[p] /\ code'[p].kind = KindSent(p)
    BY <1>0, <2>1 DEF TypeOK, NewCode
  <2>4. ASSUME NEW c \in Live(u, kind)'
        PROVE  c \in Live(u, kind) \cup Sending(u, kind)
    <3>1. CASE c = p
      BY <2>1, <2>3, <2>4, <3>1 DEF Live, CodesOf, Sending
    <3>2. CASE c # p
      BY <2>2, <2>4, <3>2 DEF Live, CodesOf
    <3> QED
      BY <3>1, <3>2
  <2> QED
    BY <1>q, <2>1, <2>4 DEF Sending
<1>7. CASE Age(p)
  <2>1. code[p] \in CodeRow /\ UNCHANGED <<pc, target, endpoint>>
    BY <1>0, <1>7 DEF Age, TypeOK, memory
  <2>2. /\ code'[p] = [code[p] EXCEPT !.age = @ + 1]
        /\ \A c \in Requests \ {p} : code'[c] = code[c]
    BY <1>0, <1>7 DEF Age, TypeOK
  <2>3. /\ code'[p].user = code[p].user /\ code'[p].kind = code[p].kind
        /\ code'[p].is_used = code[p].is_used
    BY <2>1, <2>2 DEF CodeRow
  <2>4. Live(u, kind)' \subseteq Live(u, kind)
    BY <1>0, <2>1, <2>2, <2>3 DEF Live, CodesOf
  <2> QED
    BY <2>1, <2>4 DEF Sending, KindSent
<1> QED
  BY <1>1, <1>2, <1>3, <1>4, <1>5, <1>6, <1>7 DEF StepOf, Serve

\* A registration commits: its code becomes usable, those it invalidated do not.
LEMMA CommitLive ==
  ASSUME IInv, NEW p \in Requests, RegisterCommit(p), NEW u \in Ids, NEW kind \in Kinds
  PROVE  /\ Sending(u, kind)' \subseteq Sending(u, kind)
         /\ \A c \in Live(u, kind)' :
              \/ c \in Live(u, kind) \ doomed[p]
              \/ c = p /\ u = target[p] /\ kind = "verification"
<1>0. TypeOK /\ Codes(p) /\ OthersKept(p)
  BY OthersNext DEF IInv, StepOf, Serve
<1>1. /\ pc[p] = "commit" /\ pc'[p] = "done"
      /\ code' = [Invalidated(doomed[p]) EXCEPT ![p] = NewCode(target[p], "verification")]
      /\ doomed[p] \in SUBSET Requests /\ \A c \in doomed[p] : code[c] # Null
  BY <1>0 DEF RegisterCommit, Step, Codes, TypeOK
<1>2. Invalidated(doomed[p]) \in [Requests -> CodeRow \cup {Null}]
  BY <1>0, <1>1, InvalidatedRows DEF TypeOK
<1>3. /\ \A c \in Requests \ {p} : code'[c] = Invalidated(doomed[p])[c]
      /\ code'[p] = NewCode(target[p], "verification")
  BY <1>1, <1>2
<1>4. code'[p].user = target[p] /\ code'[p].kind = "verification"
  BY <1>3 DEF NewCode
<1>6. ASSUME NEW c \in Live(u, kind)'
      PROVE  \/ c \in Live(u, kind) \ doomed[p]
             \/ c = p /\ u = target[p] /\ kind = "verification"
  <2>0. /\ c \in Requests /\ code'[c] # Null /\ ~code'[c].is_used
        /\ code'[c].user = u /\ code'[c].kind = kind
    BY <1>6 DEF Live, CodesOf
  <2>1. CASE c = p
    BY <1>4, <2>0, <2>1
  <2>2. CASE c # p
    <3>0. c \in Requests \ {p}
      BY <2>0, <2>2
    <3>r. /\ c \notin doomed[p] => code'[c] = code[c]
          /\ c \in doomed[p] => code'[c].is_used
      <4>1. c \in Requests /\ code'[c] = Invalidated(doomed[p])[c]
        BY <1>3, <3>0
      <4>2. /\ c \notin doomed[p] => Invalidated(doomed[p])[c] = code[c]
            /\ c \in doomed[p] => Invalidated(doomed[p])[c].is_used
        BY <1>0, <1>1, <2>0, InvalidatedLive DEF TypeOK
      <4> QED
        BY <4>1, <4>2
    <3>1. c \notin doomed[p] /\ code'[c] = code[c]
      BY <2>0, <3>r
    <3>2. c \in Live(u, kind)
      BY <2>0, <3>1 DEF Live, CodesOf
    <3> QED
      BY <3>1, <3>2
  <2> QED
    BY <2>1, <2>2
<1>7. Sending(u, kind)' \subseteq Sending(u, kind)
  BY <1>0, <1>1 DEF OthersKept, Sending, KindSent
<1> QED
  BY <1>6, <1>7

LEMMA UsableKept ==
  ASSUME IInv, NEW p \in Requests, StepOf(p), ~RegisterCommit(p),
         NEW u \in Ids, NEW kind \in Kinds,
         ~(Invalidate(p) /\ u = target[p] /\ kind = KindSent(p))
  PROVE  /\ Live(u, kind)' \subseteq Live(u, kind) \cup Sending(u, kind)
         /\ Sending(u, kind)' \subseteq Sending(u, kind)
<1>0. OthersKept(p)
  BY OthersNext
<1>1. Live(u, kind)' \subseteq Live(u, kind) \cup Sending(u, kind)
  BY LiveNext
<1>2. CASE Invalidate(p)
  <2>1. p \notin Sending(u, kind)'
    BY <1>2 DEF Invalidate, Step, Sending, KindSent, memory
  <2>2. Sending(u, kind)' \subseteq Sending(u, kind)
    BY <1>0, <2>1 DEF OthersKept, Sending, KindSent
  <2> QED
    BY <1>1, <2>2
<1>3. CASE ~Invalidate(p)
  BY <1>1, <1>3, LiveNext
<1> QED
  BY <1>2, <1>3

LEMMA InvalidateClears ==
  ASSUME IInv, NEW p \in Requests, Invalidate(p)
  PROVE  Live(target[p], KindSent(p))' = {}
<1> DEFINE codes == Live(target[p], KindSent(p))
<1>0. code \in [Requests -> CodeRow \cup {Null}] /\ target' = target /\ endpoint' = endpoint
  BY DEF IInv, TypeOK, Invalidate, Step, memory
<1>1. /\ codes \in SUBSET Requests /\ \A c \in codes : code[c] # Null
      /\ code' = Invalidated(codes)
  BY DEF Invalidate, Live, CodesOf
<1>2. \A c \in Requests : /\ c \notin codes => code'[c] = code[c]
                          /\ c \in codes => code'[c].is_used
  BY <1>0, <1>1, InvalidatedLive
<1>3. KindSent(p)' = KindSent(p)
  BY <1>0 DEF KindSent
<1>4. ASSUME NEW c \in Live(target[p], KindSent(p))'
      PROVE  FALSE
  <2>1. /\ c \in Requests /\ code'[c] # Null /\ ~code'[c].is_used
        /\ code'[c].user = target[p] /\ code'[c].kind = KindSent(p)
    BY <1>0, <1>3, <1>4 DEF Live, CodesOf
  <2>2. c \notin codes /\ code'[c] = code[c]
    BY <1>2, <2>1
  <2> QED
    BY <2>1, <2>2 DEF Live, CodesOf
<1> QED
  BY <1>4

\* Only a registration's save opens a transaction, and no other one is then open
\* on its account.
LEMMA CommitOpens ==
  ASSUME IInv, NEW p \in Requests, StepOf(p), pc'[p] = "commit"
  PROVE  /\ RegisterSave(p)
         /\ \A r \in Requests : pc[r] = "commit" => target[r] # target[p]
<1>0. TypeOK /\ Written(p)
  BY DEF IInv
<1>1. CASE Load(p)
  <2>1. PICK what, to, u, row : Arrival(p, what, to, u, row)
    BY <1>1, LoadArrives
  <2>2. to # "commit"
    BY <2>1 DEF Arrival
  <2>3. pc'[p] = to
    BY <1>0, <2>1 DEF Arrival, Arrive, TypeOK
  <2> QED
    BY <2>2, <2>3
<1>2. CASE RegisterSave(p)
  BY <1>2 DEF RegisterSave, Locked, InTransaction
<1>3. CASE RegisterCommit(p) \/ CountAttempt(p) \/ BurnCode(p) \/ Activate(p)
           \/ SetPassword(p) \/ Invalidate(p)
  BY <1>0, <1>3 DEF RegisterCommit, CountAttempt, BurnCode, Activate, SetPassword, Invalidate,
                    Step, TypeOK
<1>4. CASE Issue(p) \/ SaveAll(p) \/ Crash(p)
  BY <1>0, <1>4 DEF Issue, SaveAll, Crash, Step, TypeOK
<1>5. CASE GoogleCreate(p)
  <2>1. pc'[p] \in {"save_all", "activate", "done", "failed"}
    BY <1>0, <1>5 DEF GoogleCreate, Step, TypeOK
  <2> QED
    BY <2>1
<1>6. CASE Age(p)
  BY <1>0, <1>6 DEF Age, Written
<1> QED
  BY <1>1, <1>2, <1>3, <1>4, <1>5, <1>6 DEF StepOf, Serve

LEMMA LInvNext ==
  ASSUME IInv, LInv, NEW p \in Requests, StepOf(p)
  PROVE  LInv'
<1>0. /\ TypeOK /\ OthersKept(p) /\ "verification" \in Kinds
      /\ \A q \in Requests : pc[q] = "commit" => target[q] \in Ids
  BY OthersNext DEF IInv, Holds, Kinds
<1>1. (Cardinality(InFlight) <= Workers)'
  BY InFlightNext
<1>i. InFlight' \in SUBSET Requests
  BY DEF InFlight
<1>f. \A u, kind : Sending(u, kind)' \subseteq InFlight'
  BY DEF Sending, InFlight
<1>u. /\ \A u \in Ids, kind \in Kinds :
           Usable(u, kind) \in SUBSET Requests /\ Cardinality(Usable(u, kind)) <= Workers
      /\ \A q \in Requests :
           pc[q] = "commit" =>
             UsableAfter(q) \in SUBSET Requests /\ Cardinality(UsableAfter(q)) <= Workers
  BY DEF LInv, Usable, UsableAfter, Live, CodesOf, Sending
<1>2. ASSUME NEW u \in Ids, NEW kind \in Kinds
      PROVE  Cardinality(Usable(u, kind)') <= Workers
  <2>1. CASE RegisterCommit(p) /\ u = target[p] /\ kind = "verification"
    <3>1. pc[p] = "commit"
      BY <2>1 DEF RegisterCommit, Step
    <3>2. /\ Sending(u, kind)' \subseteq Sending(u, kind)
          /\ Live(u, kind)' \subseteq (Live(u, kind) \ doomed[p]) \cup {p}
      BY <2>1, CommitLive
    <3>3. Usable(u, kind)' \in SUBSET UsableAfter(p)
      BY <2>1, <3>2 DEF Usable, UsableAfter
    <3> QED
      BY <1>u, <3>1, <3>3, Smaller
  <2>2. CASE RegisterCommit(p) /\ ~(u = target[p] /\ kind = "verification")
    <3>1. Usable(u, kind)' \in SUBSET Usable(u, kind)
      BY <2>2, CommitLive DEF Usable
    <3> QED
      BY <1>u, <3>1, Smaller
  <2>3. CASE Invalidate(p) /\ u = target[p] /\ kind = KindSent(p)
    <3>1. Live(u, kind)' = {}
      <4>1. u = target'[p] /\ kind = KindSent(p)'
        BY <2>3 DEF Invalidate, Step, KindSent, memory
      <4> QED
        BY <2>3, <4>1, InvalidateClears DEF Live, CodesOf
    <3>2. Usable(u, kind)' \in SUBSET InFlight'
      BY <1>f, <3>1 DEF Usable
    <3> QED
      BY <1>1, <1>i, <3>2, Smaller
  <2>4. CASE ~RegisterCommit(p) /\ ~(Invalidate(p) /\ u = target[p] /\ kind = KindSent(p))
    <3>1. Usable(u, kind)' \in SUBSET Usable(u, kind)
      BY <2>4, UsableKept DEF Usable
    <3> QED
      BY <1>u, <3>1, Smaller
  <2> QED
    BY <2>1, <2>2, <2>3, <2>4
<1>3. ASSUME NEW q \in Requests, pc'[q] = "commit"
      PROVE  Cardinality(UsableAfter(q)') <= Workers
  <2>1. CASE q = p
    <3>1. RegisterSave(p)
      BY <1>3, <2>1, CommitOpens
    <3>2. /\ doomed' = [doomed EXCEPT ![p] = Live(target[p], "verification")]
          /\ UNCHANGED <<code, target>>
      BY <1>0, <1>3, <2>1, <3>1 DEF RegisterSave, Step, TypeOK
    <3>3. doomed'[p] = Live(target[p], "verification")
      BY <1>0, <3>2 DEF TypeOK
    <3>4. Live(target[p], "verification")' = Live(target[p], "verification")
      BY <3>2 DEF Live, CodesOf
    <3>5. UsableAfter(q)' \in SUBSET InFlight'
      <4>1. p \in InFlight'
        BY <1>3, <2>1 DEF InFlight
      <4>2. UsableAfter(q)' = Sending(target[p], "verification")' \cup {p}
        BY <2>1, <3>3, <3>4 DEF UsableAfter
      <4> QED
        BY <1>f, <4>1, <4>2 DEF Sending, InFlight
    <3> QED
      BY <1>1, <1>i, <3>5, Smaller
  <2>2. CASE q # p
    <3>1. /\ pc[q] = "commit" /\ target'[q] = target[q] /\ doomed'[q] = doomed[q]
          /\ target[q] \in Ids
      BY <1>0, <1>3, <2>2 DEF OthersKept
    <3> PICK u \in Ids : u = target[q]
      BY <3>1
    <3>q. UsableAfter(q)' =
            (Live(u, "verification")' \ doomed[q]) \cup Sending(u, "verification")' \cup {q}
      BY <3>1 DEF UsableAfter, Live, CodesOf, Sending
    <3>s. UsableAfter(q) =
            (Live(u, "verification") \ doomed[q]) \cup Sending(u, "verification") \cup {q}
      BY DEF UsableAfter
    <3>2. CASE RegisterCommit(p)
      <4>1. u # target[p]
        BY <2>2, <3>1, <3>2 DEF LInv, RegisterCommit, Step
      <4>2. /\ Live(u, "verification")' \subseteq Live(u, "verification")
            /\ Sending(u, "verification")' \subseteq Sending(u, "verification")
        BY <1>0, <3>1, <3>2, <4>1, CommitLive
      <4>3. UsableAfter(q)' \in SUBSET UsableAfter(q)
        BY <3>q, <3>s, <4>2
      <4> QED
        BY <1>u, <3>1, <4>3, Smaller
    <3>3. CASE Invalidate(p) /\ u = target[p] /\ KindSent(p) = "verification"
      <4>1. Live(u, "verification")' = {}
        <5>1. u = target'[p] /\ KindSent(p)' = "verification"
          BY <3>3 DEF Invalidate, Step, KindSent, memory
        <5> QED
          BY <3>3, <5>1, InvalidateClears DEF Live, CodesOf
      <4>2. q \in InFlight'
        BY <1>3 DEF InFlight
      <4>3. UsableAfter(q)' \in SUBSET InFlight'
        BY <1>f, <3>q, <4>1, <4>2
      <4> QED
        BY <1>1, <1>i, <4>3, Smaller
    <3>4. CASE /\ ~RegisterCommit(p)
               /\ ~(Invalidate(p) /\ u = target[p] /\ "verification" = KindSent(p))
      <4>1. /\ Live(u, "verification")' \subseteq
                 Live(u, "verification") \cup Sending(u, "verification")
            /\ Sending(u, "verification")' \subseteq Sending(u, "verification")
        BY <1>0, <3>1, <3>4, UsableKept
      <4>2. UsableAfter(q)' \in SUBSET UsableAfter(q)
        BY <3>q, <3>s, <4>1
      <4> QED
        BY <1>u, <3>1, <4>2, Smaller
    <3> QED
      BY <3>2, <3>3, <3>4
  <2> QED
    BY <2>1, <2>2
<1>4. ASSUME NEW q \in Requests, NEW r \in Requests, r # p, q # r,
             pc'[q] = "commit", pc'[r] = "commit"
      PROVE  target'[q] # target'[r]
  <2>1. pc[r] = "commit" /\ target'[r] = target[r]
    BY <1>0, <1>4 DEF OthersKept
  <2>2. CASE q = p
    <3>1. RegisterSave(p) /\ target[r] # target[p]
      BY <1>4, <2>1, <2>2, CommitOpens
    <3> QED
      BY <2>1, <2>2, <3>1 DEF RegisterSave
  <2>3. CASE q # p
    BY <1>0, <1>4, <2>1, <2>3 DEF OthersKept, LInv
  <2> QED
    BY <2>2, <2>3
<1>5. \A q, r \in Requests :
        pc'[q] = "commit" /\ pc'[r] = "commit" /\ q # r => target'[q] # target'[r]
  BY <1>4
<1> QED
  BY <1>1, <1>2, <1>3, <1>5 DEF LInv

\* No account has more usable codes of a kind than there are threads: between a
\* request's UPDATE of the old codes and its INSERT of the new one, others may do
\* the same, but each of them is in flight (_issue_code, issue_reset_code).
THEOREM CodesAreBounded == Spec => []LiveCodesBoundedByThreads
<1>1. Init => LInv
  <2>1. ASSUME Init
        PROVE  /\ InFlight = {} /\ \A u, kind : Usable(u, kind) = {}
               /\ \A q \in Requests : pc[q] # "commit"
    BY <2>1 DEF Init, InFlight, Usable, Live, CodesOf, Sending
  <2>2. Cardinality({}) = 0 /\ 0 <= Workers
    BY FS_EmptySet, ConstantsAssumption
  <2> QED
    BY <2>1, <2>2 DEF LInv
<1>2. IInv /\ LInv /\ [Next]_vars => LInv'
  <2>1. ASSUME IInv, LInv, Next
        PROVE  LInv'
    BY <2>1, LInvNext DEF Next, StepOf
  <2>2. ASSUME LInv, UNCHANGED vars
        PROVE  LInv'
    BY <2>2 DEF LInv, InFlight, Usable, UsableAfter, Live, CodesOf, Sending, KindSent,
                vars, tables, memory
  <2> QED
    BY <2>1, <2>2
<1>3. LInv => LiveCodesBoundedByThreads
  <2>1. ASSUME LInv, NEW u \in Ids, NEW kind \in Kinds
        PROVE  Cardinality(Live(u, kind)) <= Workers
    <3>1. /\ Usable(u, kind) \in SUBSET Requests /\ Cardinality(Usable(u, kind)) <= Workers
          /\ Live(u, kind) \in SUBSET Usable(u, kind)
      BY <2>1 DEF LInv, Usable, Live, CodesOf, Sending
    <3> QED
      BY <3>1, Smaller
  <2> QED
    BY <2>1 DEF LiveCodesBoundedByThreads
<1> QED
  BY <1>1, <1>2, <1>3, Invariance, PTL DEF Spec
-----------------------------------------------------------------------------
(* The invariant behind the refinement of AccountBook *)

\* The unique columns, and the keys that open registrations hold.
KeysAreUnique ==
  \A u, v \in Accounts :
    u # v => user[u].email # user[v].email /\ user[u].username # user[v].username

KeysAreHeld ==
  \A q \in Requests :
    InTransaction(q) =>
      /\ ~UniqueViolation(instance[q], target[q])
      /\ \A r \in Requests \ {q} :
           InTransaction(r) =>
             /\ target[q] # target[r]
             /\ instance[q].email # instance[r].email
             /\ instance[q].username # instance[r].username

\* A request works on an account with codes of that account, and writes a
\* password that was chosen for it.
Matches(p) ==
  /\ target[p] # Null => target[p] = p \/ target[p] \in Accounts
  /\ InTransaction(p) =>
       \A c \in doomed[p] : code[c].user = target[p] /\ code[c].kind = "verification"
  /\ record[p] # Null =>
       /\ code[record[p]].user = target[p]
       /\ code[record[p]].kind = KindChecked(endpoint[p])
  /\ pc[p] = "save_all" => instance[p].password \in Chosen(target[p]) \cup {Null}
  /\ pc[p] = "set_password" /\ endpoint[p] = "change_password" => Chosen(target[p]) # {}
  /\ pc[p] = "set_password" /\ endpoint[p] = "password_reset_confirm" => record[p] # Null
  /\ pc[p] \in {"create", "save_all"} /\ endpoint[p] = "google" =>
       instance[p].is_email_verified

PasswordsBelong == \A u \in Accounts : user[u].password \in Chosen(u) \cup {Null}

BInv ==
  /\ KeysAreUnique
  /\ KeysAreHeld
  /\ PasswordsBelong
  /\ \A p \in Requests : Matches(p)

\* One row is written, under keys that no row has and no transaction holds.
LEMMA KeysWritten ==
  ASSUME TypeOK, KeysAreUnique, KeysAreHeld, NEW u \in Ids, NEW row \in UserRow,
         user' = [user EXCEPT ![u] = row],
         ~UniqueViolation(row, u),
         \A q \in Requests :
           pc'[q] = "commit" =>
             /\ pc[q] = "commit" /\ instance'[q] = instance[q] /\ target'[q] = target[q]
             /\ target[q] # u /\ instance[q].email # row.email
             /\ instance[q].username # row.username
  PROVE  KeysAreUnique' /\ KeysAreHeld'
<1>1. /\ \A v \in Ids \ {u} : user'[v] = user[v]
      /\ user'[u] = row /\ row # Null
  BY NullAssumption DEF TypeOK
<1>2. /\ Accounts' = Accounts \cup {u}
      /\ Accounts \subseteq Ids
  BY <1>1 DEF Accounts
<1>3. \A v \in Accounts \ {u} : user[v].email # row.email /\ user[v].username # row.username
  BY DEF UniqueViolation
<1>4. KeysAreUnique'
  BY <1>1, <1>2, <1>3 DEF KeysAreUnique
<1>5. ASSUME NEW q \in Requests, pc'[q] = "commit"
      PROVE  ~UniqueViolation(instance[q], target[q])'
  <2>1. /\ instance'[q] = instance[q] /\ target'[q] = target[q]
        /\ instance[q].email # row.email /\ instance[q].username # row.username
        /\ ~UniqueViolation(instance[q], target[q])
    BY <1>5 DEF KeysAreHeld, InTransaction
  <2> QED
    BY <1>1, <1>2, <2>1 DEF UniqueViolation
<1>6. KeysAreHeld'
  BY <1>5 DEF KeysAreHeld, InTransaction
<1> QED
  BY <1>4, <1>6

\* No row changes its keys, and no transaction is opened.
LEMMA KeysKept ==
  ASSUME KeysAreUnique, KeysAreHeld, Accounts' = Accounts,
         \A v \in Accounts :
           user'[v].email = user[v].email /\ user'[v].username = user[v].username,
         \A q \in Requests :
           pc'[q] = "commit" =>
             pc[q] = "commit" /\ instance'[q] = instance[q] /\ target'[q] = target[q]
  PROVE  KeysAreUnique' /\ KeysAreHeld'
<1>1. KeysAreUnique'
  BY DEF KeysAreUnique
<1>2. KeysAreHeld'
  BY DEF KeysAreHeld, InTransaction, UniqueViolation
<1> QED
  BY <1>1, <1>2

LEMMA KeysNext ==
  ASSUME IInv, BInv, NEW p \in Requests, StepOf(p)
  PROVE  KeysAreUnique' /\ KeysAreHeld'
<1>0. /\ TypeOK /\ Route(p) /\ Holds(p) /\ OthersKept(p) /\ KeysAreUnique /\ KeysAreHeld
      /\ p \in Ids
  BY OthersNext DEF IInv, BInv, Ids
<1>q. pc'[p] # "commit" =>
        \A q \in Requests :
          pc'[q] = "commit" =>
            /\ pc[q] = "commit" /\ instance'[q] = instance[q] /\ target'[q] = target[q]
            /\ q # p
  BY <1>0 DEF OthersKept
<1>c. pc'[p] = "commit" => RegisterSave(p)
  BY CommitOpens
<1>s. user' = user /\ pc'[p] # "commit" => KeysAreUnique' /\ KeysAreHeld'
  BY <1>0, <1>q, KeysKept DEF Accounts
<1>1. CASE Load(p)
  <2>1. user' = user
    BY <1>1, LoadArrives DEF Arrival, Arrive, tables
  <2>2. ~RegisterSave(p)
    <3>1. pc[p] = "idle"
      BY <1>1, LoadArrives DEF Arrival, Arrive
    <3> QED
      BY <3>1 DEF RegisterSave
  <2> QED
    BY <1>c, <1>s, <2>1, <2>2
<1>2. CASE RegisterSave(p)
  <2>1. UNCHANGED <<user, target, instance>> /\ pc[p] = "save" /\ ~Locked(target[p], instance[p])
    BY <1>2 DEF RegisterSave
  <2>2. CASE pc'[p] = "commit"
    <3>1. ~UniqueViolation(instance[p], target[p])
      BY <1>0, <1>2, <2>2 DEF RegisterSave, Step, TypeOK
    <3>2. \A q \in Requests \ {p} :
            pc[q] = "commit" =>
              /\ target[q] # target[p]
              /\ instance[q].email # instance[p].email
              /\ instance[q].username # instance[p].username
      BY <2>1 DEF Locked, InTransaction
    <3>3. \A q \in Requests \ {p} : pc'[q] = pc[q]
      BY <1>0 DEF OthersKept
    <3>4. KeysAreHeld'
      BY <1>0, <2>1, <3>1, <3>2, <3>3
         DEF KeysAreHeld, InTransaction, UniqueViolation, Accounts
    <3> QED
      BY <1>0, <2>1, <3>4 DEF KeysAreUnique, Accounts
  <2>3. CASE pc'[p] # "commit"
    BY <1>s, <2>1, <2>3
  <2> QED
    BY <2>2, <2>3
<1>3. CASE RegisterCommit(p)
  <2>1. /\ pc[p] = "commit" /\ pc'[p] = "done"
        /\ user' = [user EXCEPT ![target[p]] = instance[p]]
    BY <1>0, <1>3 DEF RegisterCommit, Step, TypeOK
  <2>2. target[p] \in Ids /\ instance[p] \in UserRow
    BY <1>0, <2>1 DEF Holds
  <2>3. ~UniqueViolation(instance[p], target[p])
    BY <1>0, <2>1 DEF KeysAreHeld, InTransaction
  <2>4. \A q \in Requests \ {p} :
          pc[q] = "commit" =>
            /\ target[q] # target[p] /\ instance[q].email # instance[p].email
            /\ instance[q].username # instance[p].username
    BY <1>0, <2>1 DEF KeysAreHeld, InTransaction
  <2>5. PICK u \in Ids, row \in UserRow : u = target[p] /\ row = instance[p]
    BY <2>2
  <2>6. user' = [user EXCEPT ![u] = row] /\ ~UniqueViolation(row, u)
    BY <2>1, <2>3, <2>5
  <2>7. \A q \in Requests :
          pc'[q] = "commit" =>
            /\ pc[q] = "commit" /\ instance'[q] = instance[q] /\ target'[q] = target[q]
            /\ target[q] # u /\ instance[q].email # row.email
            /\ instance[q].username # row.username
    BY <1>q, <2>1, <2>4, <2>5
  <2> QED
    BY <1>0, <2>6, <2>7, KeysWritten
<1>4. CASE Activate(p) \/ SetPassword(p)
  <2>1. /\ pc[p] \in {"activate", "set_password"} /\ pc'[p] = "done"
        /\ target[p] \in Ids /\ user[target[p]] \in UserRow
    BY <1>0, <1>4 DEF Activate, SetPassword, Step, Holds, Accounts, TypeOK
  <2>2. /\ user'[target[p]] \in UserRow
        /\ user'[target[p]].email = user[target[p]].email
        /\ user'[target[p]].username = user[target[p]].username
        /\ \A v \in Ids \ {target[p]} : user'[v] = user[v]
    <3>1. CASE Activate(p)
      BY <1>0, <2>1, <3>1 DEF Activate, TypeOK, UserRow
    <3>2. CASE SetPassword(p)
      BY <1>0, <2>1, <3>2 DEF SetPassword, TypeOK, UserRow, Ids
    <3> QED
      BY <1>4, <3>1, <3>2
  <2>3. Accounts' = Accounts
    BY <2>1, <2>2, NullAssumption DEF Accounts
  <2>4. \A v \in Accounts :
          user'[v].email = user[v].email /\ user'[v].username = user[v].username
    BY <2>1, <2>2 DEF Accounts
  <2> QED
    BY <1>0, <1>q, <2>1, <2>3, <2>4, KeysKept
<1>5. CASE SaveAll(p)
  <2>0. pc'[p] # "commit"
    BY <1>0, <1>5 DEF SaveAll, Step, TypeOK
  <2>1. CASE user' = user
    BY <1>s, <2>0, <2>1
  <2>2. CASE user' # user
    <3>1. /\ user' = [user EXCEPT ![target[p]] = instance[p]]
          /\ ~UniqueViolation(instance[p], target[p])
          /\ ~Locked(target[p], instance[p])
          /\ target[p] \in Ids /\ instance[p] \in UserRow
      BY <1>0, <1>5, <2>2 DEF SaveAll, Holds
    <3>2. \A q \in Requests :
            pc[q] = "commit" =>
              /\ target[q] # target[p] /\ instance[q].email # instance[p].email
              /\ instance[q].username # instance[p].username
      BY <3>1 DEF Locked, InTransaction
    <3>3. PICK u \in Ids, row \in UserRow : u = target[p] /\ row = instance[p]
      BY <3>1
    <3>4. user' = [user EXCEPT ![u] = row] /\ ~UniqueViolation(row, u)
      BY <3>1, <3>3
    <3>5. \A q \in Requests :
            pc'[q] = "commit" =>
              /\ pc[q] = "commit" /\ instance'[q] = instance[q] /\ target'[q] = target[q]
              /\ target[q] # u /\ instance[q].email # row.email
              /\ instance[q].username # row.username
      BY <1>q, <2>0, <3>2, <3>3
    <3> QED
      BY <1>0, <3>4, <3>5, KeysWritten
  <2> QED
    BY <2>1, <2>2
<1>6. CASE GoogleCreate(p)
  <2>0. pc'[p] # "commit"
    BY <1>0, <1>6 DEF GoogleCreate, Step, TypeOK
  <2>1. CASE user' = user
    BY <1>s, <2>0, <2>1
  <2>2. CASE user' # user
    <3>1. PICK row : row = Row(instance[p].email, Blank, Null, TRUE, FALSE)
      OBVIOUS
    <3>2. /\ user' = [user EXCEPT ![p] = row]
          /\ ~UniqueViolation(row, p) /\ ~Locked(p, row)
      BY <1>6, <2>2, <3>1 DEF GoogleCreate
    <3>3. row \in UserRow
      BY <1>0, <1>6, <3>1 DEF GoogleCreate, Holds, Row, UserRow, Usernames
    <3>4. \A q \in Requests :
            pc[q] = "commit" =>
              /\ target[q] # p /\ instance[q].email # row.email
              /\ instance[q].username # row.username
      BY <3>2 DEF Locked, InTransaction
    <3> QED
      BY <1>0, <1>q, <2>0, <3>2, <3>3, <3>4, KeysWritten
  <2> QED
    BY <2>1, <2>2
<1>7. CASE CountAttempt(p) \/ BurnCode(p) \/ Invalidate(p) \/ Issue(p) \/ Crash(p)
  <2>1. user' = user /\ pc'[p] # "commit"
    BY <1>0, <1>7 DEF CountAttempt, BurnCode, Invalidate, Issue, Crash, Step, tables, TypeOK
  <2> QED
    BY <1>s, <2>1
<1>8. CASE Age(p)
  <2>1. UNCHANGED <<user, pc, instance, target>>
    BY <1>8 DEF Age, memory
  <2> QED
    BY <1>0, <2>1, KeysKept DEF Accounts
<1> QED
  BY <1>1, <1>2, <1>3, <1>4, <1>5, <1>6, <1>7, <1>8 DEF StepOf, Serve

\* A code stays of the account and kind it was issued for.
LEMMA CodesNext ==
  ASSUME IInv, NEW p \in Requests, StepOf(p), NEW c \in Requests, code[c] # Null
  PROVE  code'[c].user = code[c].user /\ code'[c].kind = code[c].kind
<1>0. TypeOK /\ Written(p) /\ Holds(p) /\ Codes(p) /\ code[c] \in CodeRow
  BY DEF IInv, TypeOK
<1>i. ASSUME NEW codes \in SUBSET Requests, \A d \in codes : code[d] # Null
      PROVE  /\ Invalidated(codes)[c].user = code[c].user
             /\ Invalidated(codes)[c].kind = code[c].kind
  BY <1>0, <1>i, InvalidatedLive DEF TypeOK
<1>1. CASE Load(p)
  BY <1>1, LoadArrives DEF Arrival, Arrive, tables
<1>2. CASE \/ RegisterSave(p) \/ Activate(p) \/ SetPassword(p) \/ SaveAll(p)
           \/ GoogleCreate(p) \/ Crash(p)
  BY <1>2 DEF RegisterSave, Activate, SetPassword, SaveAll, GoogleCreate, Crash, tables
<1>3. CASE RegisterCommit(p)
  <2>1. /\ pc[p] = "commit" /\ doomed[p] \in SUBSET Requests
        /\ \A d \in doomed[p] : code[d] # Null
        /\ code' = [Invalidated(doomed[p]) EXCEPT ![p] = NewCode(target[p], "verification")]
    BY <1>0, <1>3 DEF RegisterCommit, Step, Codes, TypeOK
  <2>2. c # p
    BY <1>0, <2>1 DEF Written
  <2>3. code'[c] = Invalidated(doomed[p])[c]
    BY <2>1, <2>2 DEF Invalidated
  <2> QED
    BY <1>i, <2>1, <2>3
<1>4. CASE CountAttempt(p)
  <2>1. record[p] \in Requests /\ code[record[p]] \in CodeRow
    BY <1>0, <1>4 DEF CountAttempt, Step, Codes, TypeOK
  <2>2. code' = [code EXCEPT ![record[p]] = [@ EXCEPT !.attempts = held[p] + 1]]
    BY <1>4 DEF CountAttempt
  <2> QED
    BY <1>0, <2>1, <2>2 DEF TypeOK, CodeRow
<1>5. CASE BurnCode(p)
  <2>1. /\ {record[p]} \in SUBSET Requests /\ \A d \in {record[p]} : code[d] # Null
        /\ code' = Invalidated({record[p]})
    BY <1>0, <1>5 DEF BurnCode, Step, Codes, TypeOK
  <2> QED
    BY <1>i, <2>1
<1>6. CASE Invalidate(p)
  <2>1. /\ Live(target[p], KindSent(p)) \in SUBSET Requests
        /\ \A d \in Live(target[p], KindSent(p)) : code[d] # Null
        /\ code' = Invalidated(Live(target[p], KindSent(p)))
    BY <1>6 DEF Invalidate, Live, CodesOf
  <2> QED
    BY <1>i, <2>1
<1>7. CASE Issue(p)
  <2>1. c # p
    BY <1>0, <1>7 DEF Issue, Step, Written
  <2> QED
    BY <1>0, <1>7, <2>1 DEF Issue, TypeOK
<1>8. CASE Age(p)
  BY <1>0, <1>8 DEF Age, TypeOK, CodeRow
<1> QED
  BY <1>1, <1>2, <1>3, <1>4, <1>5, <1>6, <1>7, <1>8 DEF StepOf, Serve

\* What is chosen for an account, and the evidence of its verification, are
\* added to by the requests that succeed.
Succeeds(p) == pc[p] # "done" /\ pc'[p] = "done"
Chooses(what) == what \in {"register", "password_reset_confirm", "change_password"}
Verifies(p) ==
  endpoint'[p] = "google" \/ (endpoint'[p] = "verify_otp" /\ record'[p] \in mailed')

LEMMA ChosenNext ==
  ASSUME IInv, NEW p \in Requests, StepOf(p), NEW u
  PROVE  /\ \A w \in Chosen(u) : w \in Chosen(u)'
         /\ \A w \in Chosen(u)' :
              \/ w \in Chosen(u)
              \/ w = p /\ Succeeds(p) /\ target'[p] = u /\ Chooses(endpoint'[p])
         /\ Succeeds(p) /\ target'[p] = u /\ Chooses(endpoint'[p]) => p \in Chosen(u)'
<1>1. OthersKept(p) /\ p \in Ids
  BY OthersNext DEF Ids
<1> QED
  BY <1>1 DEF OthersKept, Chosen, Succeeds, Chooses

LEMMA EvidenceNext ==
  ASSUME IInv, NEW p \in Requests, StepOf(p), NEW u
  PROVE  Evidence(u)' <=>
           \/ Evidence(u)
           \/ /\ Succeeds(p) /\ target'[p] = u
              /\ Verifies(p)
<1>1. /\ OthersKept(p) /\ TablesKept(p) /\ TypeOK /\ TypeOK'
      /\ \A q \in Requests : Codes(q)
  BY OthersNext, TablesNext, TypeNext DEF IInv
<1>2. \A q \in Requests : pc[q] = "done" /\ record[q] \in mailed' => record[q] \in mailed
  BY <1>1, NullAssumption DEF Codes, TypeOK, Ids
<1> QED
  BY <1>1, <1>2 DEF OthersKept, TablesKept, Evidence, Succeeds, Verifies

LEMMA MatchesOthers ==
  ASSUME IInv, BInv, NEW p \in Requests, StepOf(p), NEW q \in Requests \ {p}
  PROVE  Matches(q)'
<1>1. /\ TablesKept(p) /\ TypeOK /\ Codes(q) /\ Matches(q)
      /\ pc'[q] = pc[q] /\ endpoint'[q] = endpoint[q] /\ target'[q] = target[q]
      /\ instance'[q] = instance[q] /\ record'[q] = record[q] /\ doomed'[q] = doomed[q]
  BY TablesNext, OthersNext DEF IInv, BInv, OthersKept
<1>2. \A u \in Accounts : u \in Accounts'
  BY <1>1 DEF TablesKept, Accounts
<1>3. /\ \A c \in doomed[q] : c \in Requests /\ code[c] # Null
      /\ record[q] # Null => record[q] \in Requests /\ code[record[q]] # Null
  BY <1>1 DEF Codes, TypeOK
<1>4. \A c \in Requests :
        code[c] # Null => code'[c].user = code[c].user /\ code'[c].kind = code[c].kind
  BY CodesNext
<1>5. PICK u : u = target[q]
  OBVIOUS
<1>6. \A w \in Chosen(u) : w \in Chosen(u)'
  BY ChosenNext
<1>7. Chosen(target[q])' = Chosen(u)' /\ Chosen(target[q]) = Chosen(u)
  BY <1>1, <1>5 DEF Chosen
<1>8. /\ pc[q] = "save_all" => instance[q].password \in Chosen(u) \cup {Null}
      /\ pc[q] = "set_password" /\ endpoint[q] = "change_password" => Chosen(u) # {}
  BY <1>1, <1>7 DEF Matches
<1>9. /\ pc'[q] = "save_all" => instance'[q].password \in Chosen(u)' \cup {Null}
      /\ pc'[q] = "set_password" /\ endpoint'[q] = "change_password" => Chosen(u)' # {}
      /\ pc'[q] \in {"create", "save_all"} /\ endpoint'[q] = "google" =>
           instance'[q].is_email_verified
  BY <1>1, <1>6, <1>8 DEF Matches
<1>10. /\ pc[q] = "commit" =>
            \A c \in doomed[q] : code'[c].user = target[q] /\ code'[c].kind = "verification"
       /\ record[q] # Null =>
            /\ code'[record[q]].user = target[q]
            /\ code'[record[q]].kind = KindChecked(endpoint[q])
       /\ target[q] # Null => target[q] = q \/ target[q] \in Accounts'
  BY <1>1, <1>2, <1>3, <1>4 DEF Matches, InTransaction
<1> QED
  BY <1>1, <1>7, <1>9, <1>10 DEF Matches, InTransaction, KindChecked

LEMMA MatchesActor ==
  ASSUME IInv, BInv, NEW p \in Requests, StepOf(p)
  PROVE  Matches(p)'
<1>0. /\ TypeOK /\ Route(p) /\ Holds(p) /\ Codes(p) /\ Written(p) /\ Matches(p)
      /\ Null \notin Requests /\ Null \notin Ids /\ p \in Ids
  BY NullAssumption DEF IInv, BInv, Ids
<1>a. \A u \in Accounts : u \in Accounts'
  BY TablesNext DEF TablesKept, Accounts
<1>c. \A c \in Requests :
        code[c] # Null => code'[c].user = code[c].user /\ code'[c].kind = code[c].kind
  BY CodesNext
<1>d. /\ \A c \in doomed[p] : c \in Requests /\ code[c] # Null
      /\ record[p] # Null => record[p] \in Requests /\ code[record[p]] # Null
  BY <1>0 DEF Codes, TypeOK
<1>n. \A u : \A w \in Chosen(u) : w \in Chosen(u)'
  BY ChosenNext
\* A step that leaves target and instance alone, after which p neither saves a
\* profile nor sets a password unless it was about to.
<1>k. ASSUME target'[p] = target[p], instance'[p] = instance[p], record'[p] = record[p],
             endpoint'[p] = endpoint[p],
             pc'[p] = "commit" =>
               \A c \in doomed'[p] : /\ code'[c].user = target[p]
                                     /\ code'[c].kind = "verification",
             pc'[p] = "save_all" =>
               pc[p] = "save_all" \/ (pc[p] = "create" /\ instance[p].password = Null),
             pc'[p] # "create" \/ pc[p] = "create",
             pc'[p] = "set_password" =>
               \/ pc[p] = "set_password"
               \/ endpoint[p] = "password_reset_confirm" /\ record[p] # Null
      PROVE  Matches(p)'
  <2>1. PICK u : u = target[p]
    OBVIOUS
  <2>2. Chosen(target[p])' = Chosen(u)' /\ Chosen(target[p]) = Chosen(u)
    BY <1>k, <2>1 DEF Chosen
  <2>3. /\ pc[p] = "save_all" => instance[p].password \in Chosen(u) \cup {Null}
        /\ pc[p] = "set_password" /\ endpoint[p] = "change_password" => Chosen(u) # {}
        /\ pc[p] = "set_password" /\ endpoint[p] = "password_reset_confirm" =>
             record[p] # Null
    BY <1>0, <2>2 DEF Matches
  <2>4. /\ pc'[p] = "save_all" => instance'[p].password \in Chosen(u)' \cup {Null}
        /\ pc'[p] = "set_password" /\ endpoint'[p] = "change_password" => Chosen(u)' # {}
        /\ pc'[p] = "set_password" /\ endpoint'[p] = "password_reset_confirm" =>
             record'[p] # Null
        /\ pc'[p] \in {"create", "save_all"} /\ endpoint'[p] = "google" =>
             instance'[p].is_email_verified
    BY <1>0, <1>k, <1>n, <2>3 DEF Matches
  <2>5. /\ record[p] # Null =>
             /\ code'[record[p]].user = target[p]
             /\ code'[record[p]].kind = KindChecked(endpoint[p])
        /\ target[p] # Null => target[p] = p \/ target[p] \in Accounts'
    BY <1>0, <1>a, <1>c, <1>d DEF Matches
  <2> QED
    BY <1>k, <2>2, <2>4, <2>5 DEF Matches, InTransaction, KindChecked
<1>1. CASE Load(p)
  <2>1. PICK what, to, u, row : Arrival(p, what, to, u, row)
    BY <1>1, LoadArrives
  <2>2. /\ pc[p] = "idle" /\ endpoint[p] = "none"
        /\ pc'[p] = to /\ endpoint'[p] = what /\ target'[p] = u /\ instance'[p] = row
        /\ u \in Ids /\ UNCHANGED <<user, code, doomed>>
    BY <1>0, <2>1 DEF Arrival, Arrive, tables, TypeOK, Route
  <2>3. /\ record[p] = Null /\ to # "commit" /\ (u = p \/ u \in Accounts)
        /\ to = "set_password" => what = "change_password"
    BY <1>0, <2>1, <2>2 DEF Codes, Arrival
  <2>4. Chosen(target[p])' = Chosen(u)'
    BY <2>2 DEF Chosen
  <2>5. /\ to = "save_all" => row.password \in Chosen(u)' \cup {Null}
        /\ to = "set_password" /\ what = "change_password" => Chosen(u)' # {}
        /\ to \in {"create", "save_all"} /\ what = "google" => row.is_email_verified
    <3>1. u \in Accounts => user[u].password \in Chosen(u)' \cup {Null}
      BY <1>n DEF BInv, PasswordsBelong
    <3>2. to = "save_all" => u \in Accounts /\ row.password = user[u].password
      BY <2>1 DEF Arrival
    <3>3. to = "set_password" => u \in Accounts /\ user[u].password # Null
      BY <2>1 DEF Arrival
    <3>4. to \in {"create", "save_all"} /\ what = "google" => row.is_email_verified
      BY <2>1 DEF Arrival
    <3> QED
      BY <3>1, <3>2, <3>3, <3>4
  <2>6. record'[p] # Null =>
          /\ code[record'[p]].user = u
          /\ code[record'[p]].kind = KindChecked(what)
    <3>1. \/ record' = record
          \/ \E c \in Requests : /\ record' = [record EXCEPT ![p] = c]
                                 /\ code[c].user = u /\ code[c].kind = KindChecked(what)
      BY <2>1 DEF Arrival
    <3> QED
      BY <1>0, <2>3, <3>1 DEF TypeOK
  <2> QED
    BY <1>a, <2>2, <2>3, <2>4, <2>5, <2>6 DEF Matches, InTransaction, KindChecked
<1>2. CASE RegisterSave(p)
  <2>1. /\ UNCHANGED <<code, target, instance, record>> /\ endpoint' = endpoint
        /\ pc'[p] \in {"commit", "failed"}
        /\ pc'[p] = "commit" => doomed'[p] = Live(target[p], "verification")
    BY <1>0, <1>2 DEF RegisterSave, Step, TypeOK
  <2> QED
    BY <1>k, <2>1 DEF Live, CodesOf
<1>3. CASE RegisterCommit(p) \/ CountAttempt(p) \/ BurnCode(p) \/ Activate(p)
           \/ SetPassword(p) \/ Invalidate(p)
  <2>1. /\ UNCHANGED <<target, instance, record, endpoint>>
        /\ pc'[p] \in {"done", "failed", "activate", "set_password", "issue"}
        /\ pc'[p] = "set_password" => pc[p] = "burn" /\ endpoint[p] # "verify_otp"
    BY <1>0, <1>3 DEF RegisterCommit, CountAttempt, BurnCode, Activate, SetPassword, Invalidate,
                      Step, memory, TypeOK
  <2>2. pc'[p] = "set_password" =>
          endpoint[p] = "password_reset_confirm" /\ record[p] # Null
    BY <1>0, <2>1 DEF Route, Codes
  <2> QED
    BY <1>k, <2>1, <2>2
<1>4. CASE Issue(p) \/ SaveAll(p) \/ Crash(p)
  <2>1. /\ UNCHANGED <<target, instance, record, endpoint>>
        /\ pc'[p] \in {"done", "failed", "crashed"}
    BY <1>0, <1>4 DEF Issue, SaveAll, Crash, Step, memory, TypeOK
  <2> QED
    BY <1>k, <2>1
<1>5. CASE GoogleCreate(p)
  <2>1. /\ pc[p] = "create" /\ endpoint[p] = "google" /\ record[p] = Null
        /\ instance[p].password = Null
        /\ UNCHANGED <<endpoint, record>>
    BY <1>0, <1>5 DEF GoogleCreate, Step, Route, Holds, Codes
  <2>2. CASE UNCHANGED <<target, instance>> /\ pc'[p] \in {"save_all", "failed"}
    BY <1>k, <2>1, <2>2
  <2>3. ASSUME NEW u \in WithEmail(instance[p].email), target'[p] = u,
               pc'[p] \in {"activate", "done"}
        PROVE  Matches(p)'
    BY <1>a, <2>1, <2>3 DEF Matches, InTransaction, WithEmail
  <2> QED
    BY <1>0, <1>5, <2>2, <2>3 DEF GoogleCreate, Step, TypeOK
<1>6. CASE Age(p)
  <2>1. UNCHANGED <<pc, endpoint, target, instance, record, doomed>>
    BY <1>6 DEF Age, memory
  <2>2. pc[p] # "commit"
    BY <1>0, <1>6 DEF Age, Written
  <2> QED
    BY <1>k, <2>1, <2>2
<1> QED
  BY <1>1, <1>2, <1>3, <1>4, <1>5, <1>6 DEF StepOf, Serve

LEMMA PasswordsNext ==
  ASSUME IInv, BInv, NEW p \in Requests, StepOf(p), NEW u \in Accounts'
  PROVE  user'[u].password \in Chosen(u)' \cup {Null}
<1>0. /\ TypeOK /\ Route(p) /\ Holds(p) /\ Matches(p) /\ p \in Ids
      /\ u \in Ids /\ user'[u] # Null
  BY DEF IInv, BInv, Ids, Accounts
<1>n. \A w \in Chosen(u) : w \in Chosen(u)'
  BY ChosenNext
<1>p. Succeeds(p) /\ target'[p] = u /\ Chooses(endpoint'[p]) => p \in Chosen(u)'
  BY ChosenNext
<1>s. ASSUME u \in Accounts, user'[u].password = user[u].password
      PROVE  user'[u].password \in Chosen(u)' \cup {Null}
  BY <1>n, <1>s DEF BInv, PasswordsBelong
<1>t. user'[u] = user[u] => user'[u].password \in Chosen(u)' \cup {Null}
  BY <1>0, <1>s DEF Accounts
<1>1. CASE RegisterCommit(p) \/ SetPassword(p)
  <2>1. CASE RegisterCommit(p)
    <3>1. /\ Succeeds(p) /\ endpoint'[p] = "register" /\ target'[p] = target[p]
          /\ user' = [user EXCEPT ![target[p]] = instance[p]]
          /\ instance[p].password = p
      BY <1>0, <2>1 DEF RegisterCommit, Step, Succeeds, Route, Holds, TypeOK
    <3> QED
      BY <1>0, <1>p, <1>t, <3>1 DEF TypeOK, Chooses
  <2>2. CASE SetPassword(p)
    <3>1. /\ Succeeds(p) /\ Chooses(endpoint'[p]) /\ target'[p] = target[p]
          /\ target[p] \in Accounts
      BY <1>0, <2>2 DEF SetPassword, Step, Succeeds, Chooses, Route, Holds, memory, TypeOK
    <3>2. CASE u = target[p]
      <4>1. user'[u].password = p
        BY <1>0, <2>2, <3>1, <3>2 DEF SetPassword, TypeOK, UserRow, Accounts
      <4> QED
        BY <1>p, <3>1, <3>2, <4>1
    <3>3. CASE u # target[p]
      BY <1>0, <1>t, <2>2, <3>3 DEF SetPassword, TypeOK
    <3> QED
      BY <3>2, <3>3
  <2> QED
    BY <1>1, <2>1, <2>2
<1>2. CASE Activate(p)
  <2>1. target[p] \in Accounts /\ user[target[p]] \in UserRow
    BY <1>0, <1>2 DEF Activate, Step, Holds, Accounts, TypeOK
  <2>2. user'[u].password = user[u].password
    BY <1>0, <1>2, <2>1 DEF Activate, TypeOK, UserRow
  <2>3. u \in Accounts
    BY <1>0, <1>2, <2>1 DEF Activate, TypeOK, Accounts
  <2> QED
    BY <1>s, <2>2, <2>3
<1>3. CASE SaveAll(p)
  <2>1. \/ user' = user
        \/ user' = [user EXCEPT ![target[p]] = instance[p]]
    BY <1>3 DEF SaveAll
  <2>2. instance[p].password \in Chosen(target[p]) \cup {Null}
    BY <1>0, <1>3 DEF SaveAll, Matches
  <2>3. CASE u = target[p] /\ user'[u] = instance[p]
    BY <1>n, <2>2, <2>3
  <2> QED
    BY <1>0, <1>t, <2>1, <2>3 DEF TypeOK
<1>4. CASE GoogleCreate(p)
  <2>1. \/ user' = user
        \/ user' = [user EXCEPT ![p] = Row(instance[p].email, Blank, Null, TRUE, FALSE)]
    BY <1>4 DEF GoogleCreate
  <2>2. Row(instance[p].email, Blank, Null, TRUE, FALSE).password = Null
    BY DEF Row
  <2> QED
    BY <1>0, <1>t, <2>1, <2>2 DEF TypeOK
<1>5. CASE Load(p)
  BY <1>5, <1>t, LoadArrives DEF Arrival, Arrive, tables
<1>6. CASE \/ RegisterSave(p) \/ CountAttempt(p) \/ BurnCode(p) \/ Invalidate(p)
           \/ Issue(p) \/ Crash(p) \/ Age(p)
  BY <1>6, <1>t DEF RegisterSave, CountAttempt, BurnCode, Invalidate, Issue, Crash, Age, tables
<1> QED
  BY <1>1, <1>2, <1>3, <1>4, <1>5, <1>6 DEF StepOf, Serve

LEMMA BInvInit == Init => BInv
<1> SUFFICES ASSUME Init PROVE BInv
  OBVIOUS
<1>1. \A u \in Accounts : u \in Seeds /\ user[u] = Row(u, u, u, TRUE, TRUE)
  BY DEF Accounts, Init
<1>2. \A u \in Accounts :
        /\ user[u].email = u /\ user[u].username = u /\ user[u].password = u
        /\ u \in Chosen(u)
  <2> SUFFICES ASSUME NEW u \in Accounts
               PROVE  /\ user[u].email = u /\ user[u].username = u /\ user[u].password = u
                      /\ u \in Chosen(u)
    OBVIOUS
  <2>1. user[u].email = u /\ user[u].username = u /\ user[u].password = u
    <3>1. user[u] = Row(u, u, u, TRUE, TRUE)
      BY <1>1
    <3>2. /\ Row(u, u, u, TRUE, TRUE).email = u
          /\ Row(u, u, u, TRUE, TRUE).username = u
          /\ Row(u, u, u, TRUE, TRUE).password = u
      BY DEF Row
    <3> QED
      BY <3>1, <3>2
  <2>2. u \in Seeds /\ u \in Ids
    BY <1>1 DEF Ids
  <2>3. u \in Chosen(u)
    BY <2>2 DEF Chosen
  <2> QED
    BY <2>1, <2>3
<1>3. \A p \in Requests :
        pc[p] = "idle" /\ target[p] = Null /\ record[p] = Null /\ doomed[p] = {}
  BY DEF Init
<1>4. KeysAreUnique /\ PasswordsBelong
  BY <1>2 DEF KeysAreUnique, PasswordsBelong
<1>5. KeysAreHeld
  BY <1>3 DEF KeysAreHeld, InTransaction
<1>6. \A p \in Requests : Matches(p)
  BY <1>3 DEF Matches, InTransaction
<1> QED
  BY <1>4, <1>5, <1>6 DEF BInv

LEMMA BInvNext == IInv /\ BInv /\ [Next]_vars => BInv'
<1>1. ASSUME IInv, BInv, NEW p \in Requests, StepOf(p)
      PROVE  BInv'
  <2>1. KeysAreUnique' /\ KeysAreHeld'
    BY <1>1, KeysNext
  <2>2. \A q \in Requests : Matches(q)'
    BY <1>1, MatchesOthers, MatchesActor
  <2>3. PasswordsBelong'
    BY <1>1, PasswordsNext DEF PasswordsBelong
  <2> QED
    BY <2>1, <2>2, <2>3 DEF BInv
<1>2. ASSUME BInv, UNCHANGED vars
      PROVE  BInv'
  BY <1>2 DEF BInv, KeysAreUnique, KeysAreHeld, InTransaction, UniqueViolation, PasswordsBelong,
              Matches, Chosen, Accounts, vars, tables, memory
<1> QED
  BY <1>1, <1>2 DEF Next, StepOf

\* BInv holds in every reachable state.
LEMMA BookInvariance == Spec => []BInv
<1> QED
  BY BInvInit, BInvNext, Invariance, PTL DEF Spec

-----------------------------------------------------------------------------
(* The refinement of AccountBook *)

LEMMA BookCodes ==
  ASSUME TypeOK
  PROVE  /\ \A c \in Requests :
              /\ BookCode[c] = Null <=> code[c] = Null
              /\ code[c] # Null =>
                   BookCode[c] = [user |-> code[c].user, kind |-> code[c].kind,
                                  is_used |-> code[c].is_used]
              /\ code[c] # Null => BookCode[c].is_used = code[c].is_used
         /\ \A u, kind : Book!CodesOf(u, kind) = CodesOf(u, kind)
<1>1. ASSUME NEW c \in Requests, code[c] # Null
      PROVE  [user |-> code[c].user, kind |-> code[c].kind, is_used |-> code[c].is_used]
               \in CodeEntry
  BY <1>1 DEF TypeOK, CodeRow, CodeEntry
<1>2. \A c \in Requests :
        /\ BookCode[c] = Null <=> code[c] = Null
        /\ code[c] # Null =>
             BookCode[c] = [user |-> code[c].user, kind |-> code[c].kind,
                            is_used |-> code[c].is_used]
  <2> SUFFICES ASSUME NEW c \in Requests
               PROVE  /\ BookCode[c] = Null <=> code[c] = Null
                      /\ code[c] # Null =>
                           BookCode[c] = [user |-> code[c].user, kind |-> code[c].kind,
                                          is_used |-> code[c].is_used]
    OBVIOUS
  <2> DEFINE entry == [user |-> code[c].user, kind |-> code[c].kind,
                       is_used |-> code[c].is_used]
  <2>1. BookCode[c] = IF code[c] = Null THEN Null ELSE entry
    BY DEF BookCode
  <2>2. code[c] # Null => entry # Null
    BY <1>1, NullAssumption
  <2> HIDE DEF entry
  <2>3. (BookCode[c] = Null <=> code[c] = Null) /\ (code[c] # Null => BookCode[c] = entry)
    BY <2>1, <2>2
  <2> QED
    BY <2>3 DEF entry
<1>3. ASSUME NEW u, NEW kind, NEW c \in Requests
      PROVE  BookCode[c] # Null /\ BookCode[c].user = u /\ BookCode[c].kind = kind
               <=> code[c] # Null /\ code[c].user = u /\ code[c].kind = kind
  <2> DEFINE entry == [user |-> code[c].user, kind |-> code[c].kind,
                       is_used |-> code[c].is_used]
  <2>1. entry.user = code[c].user /\ entry.kind = code[c].kind
    OBVIOUS
  <2>2. (BookCode[c] = Null <=> code[c] = Null) /\ (code[c] # Null => BookCode[c] = entry)
    BY <1>2
  <2> HIDE DEF entry
  <2> QED
    BY <2>1, <2>2
<1>4. \A u, kind : Book!CodesOf(u, kind) = CodesOf(u, kind)
  BY <1>3 DEF CodesOf, Book!CodesOf
<1>5. ASSUME NEW c \in Requests, code[c] # Null
      PROVE  BookCode[c].is_used = code[c].is_used
  <2> DEFINE entry == [user |-> code[c].user, kind |-> code[c].kind,
                       is_used |-> code[c].is_used]
  <2>1. entry.is_used = code[c].is_used
    OBVIOUS
  <2>2. BookCode[c] = entry
    BY <1>2, <1>5
  <2> QED
    BY <2>1, <2>2
<1> QED
  BY <1>2, <1>4, <1>5

\* Codes that are neither issued nor used look the same.
LEMMA BookCodeKept ==
  ASSUME \A c \in Requests :
           /\ code'[c] = Null <=> code[c] = Null
           /\ code[c] # Null =>
                /\ code'[c].user = code[c].user /\ code'[c].kind = code[c].kind
                /\ code'[c].is_used = code[c].is_used
  PROVE  BookCode' = BookCode
BY DEF BookCode

\* Those invalidated look used.
LEMMA BookCodeUsed ==
  ASSUME TypeOK, NEW codes \in SUBSET Requests, \A c \in codes : code[c] # Null,
         NEW c \in Requests, code'[c] = Invalidated(codes)[c]
  PROVE  BookCode'[c] = Book!Used(codes)[c]
<1>0. code \in [Requests -> CodeRow \cup {Null}]
  BY DEF TypeOK
<1>1. BookCode'[c] = IF code'[c] = Null THEN Null
                     ELSE [user |-> code'[c].user, kind |-> code'[c].kind,
                           is_used |-> code'[c].is_used]
  BY DEF BookCode
<1>2. /\ BookCode[c] = Null <=> code[c] = Null
      /\ code[c] # Null =>
           BookCode[c] = [user |-> code[c].user, kind |-> code[c].kind,
                          is_used |-> code[c].is_used]
  BY BookCodes
<1>3. Book!Used(codes)[c] = IF c \in codes THEN [BookCode[c] EXCEPT !.is_used = TRUE]
                            ELSE BookCode[c]
  BY DEF Book!Used
<1>4. CASE c \notin codes
  <2>1. code'[c] = code[c]
    BY <1>0, <1>4, InvalidatedLive
  <2> QED
    BY <1>1, <1>2, <1>3, <1>4, <2>1
<1>5. CASE c \in codes
  <2>1. /\ code[c] # Null /\ code'[c] # Null /\ code[c] \in CodeRow
        /\ code'[c].user = code[c].user /\ code'[c].kind = code[c].kind
        /\ code'[c].is_used /\ code'[c] \in CodeRow
    BY <1>0, <1>5, InvalidatedLive, InvalidatedRows
  <2>2. code'[c].is_used = TRUE
    BY <2>1 DEF CodeRow
  <2> DEFINE before == [user |-> code[c].user, kind |-> code[c].kind,
                        is_used |-> code[c].is_used]
             after == [user |-> code[c].user, kind |-> code[c].kind, is_used |-> TRUE]
  <2>3. BookCode[c] = before /\ BookCode'[c] = after
    BY <1>1, <1>2, <2>1, <2>2
  <2>4. before \in CodeEntry /\ after \in CodeEntry
    BY <2>1 DEF CodeRow, CodeEntry
  <2>5. before.user = after.user /\ before.kind = after.kind /\ after.is_used = TRUE
    OBVIOUS
  <2> HIDE DEF before, after
  <2>6. [before EXCEPT !.is_used = TRUE] = after
    BY <2>4, <2>5 DEF CodeEntry
  <2> QED
    BY <1>3, <1>5, <2>3, <2>6
<1> QED
  BY <1>4, <1>5

\* A code issued looks fresh.
LEMMA BookCodeFresh ==
  ASSUME NEW u \in Ids, NEW kind \in Kinds, NEW c \in Requests, code'[c] = NewCode(u, kind)
  PROVE  BookCode'[c] = Book!Fresh(u, kind)
<1>1. NewCode(u, kind) # Null
  BY NewCodeType, NullAssumption
<1>2. NewCode(u, kind).user = u /\ NewCode(u, kind).kind = kind
      /\ NewCode(u, kind).is_used = FALSE
  BY DEF NewCode
<1>3. BookCode'[c] = [user |-> code'[c].user, kind |-> code'[c].kind,
                      is_used |-> code'[c].is_used]
  BY <1>1 DEF BookCode
<1> QED
  BY <1>2, <1>3 DEF Book!Fresh

LEMMA ProvenNext ==
  ASSUME IInv, NEW p \in Requests, StepOf(p)
  PROVE  Proven' =
           IF /\ Succeeds(p) /\ target'[p] \in Ids
              /\ Verifies(p)
           THEN Proven \cup {target'[p]}
           ELSE Proven
<1>1. \A u \in Ids :
        Evidence(u)' <=>
          \/ Evidence(u)
          \/ /\ Succeeds(p) /\ target'[p] = u
             /\ Verifies(p)
  BY EvidenceNext
<1> QED
  BY <1>1 DEF Proven

LEMMA ChosenByNext ==
  ASSUME IInv, NEW p \in Requests, StepOf(p)
  PROVE  ChosenBy' =
           IF Succeeds(p) /\ target'[p] \in Ids /\ Chooses(endpoint'[p])
           THEN [ChosenBy EXCEPT ![target'[p]] = @ \cup {p}]
           ELSE ChosenBy
<1>1. ASSUME NEW u \in Ids
      PROVE  Chosen(u)' = IF Succeeds(p) /\ target'[p] = u /\ Chooses(endpoint'[p])
                          THEN Chosen(u) \cup {p} ELSE Chosen(u)
  BY ChosenNext
<1> QED
  BY <1>1 DEF ChosenBy

LEMMA VouchedNext ==
  ASSUME IInv, BInv, NEW p \in Requests, StepOf(p)
  PROVE  Vouched' = IF endpoint'[p] = "google" /\ target'[p] \in Accounts'
                    THEN Vouched \cup {target'[p]}
                    ELSE Vouched
<1>1. /\ OthersKept(p) /\ TablesKept(p) /\ TypeOK /\ TypeOK'
      /\ \A q \in Requests : Matches(q) /\ Route(q) /\ Written(q) /\ Holds(q)
      /\ p \in Ids
  BY OthersNext, TablesNext, TypeNext DEF IInv, BInv, Ids
<1>2. /\ Accounts \subseteq Accounts' /\ Accounts' \subseteq Accounts \cup {p}
      /\ Accounts \subseteq Ids /\ Accounts' \subseteq Ids
  BY <1>1 DEF TablesKept, Accounts
<1>3. ASSUME NEW q \in Requests \ {p}, target[q] \in Accounts'
      PROVE  target[q] \in Accounts
  <2>1. target[q] # Null
    BY <1>2, <1>3, NullAssumption
  <2> QED
    BY <1>1, <1>2, <1>3, <2>1 DEF Matches
<1>4. ASSUME endpoint[p] = "google", target[p] \in Accounts
      PROVE  endpoint'[p] = "google" /\ target'[p] = target[p]
  <2>1. pc[p] # "idle"
    BY <1>1, <1>4 DEF Route
  <2>2. pc[p] # "create"
    BY <1>1, <1>4 DEF Holds, Written, Accounts
  <2>3. CASE Load(p)
    BY <2>1, <2>3, LoadArrives DEF Arrival, Arrive
  <2>4. CASE GoogleCreate(p)
    BY <2>2, <2>4 DEF GoogleCreate
  <2> QED
    BY <1>1, <1>4, <2>3, <2>4
    DEF StepOf, Serve, Step, RegisterSave, RegisterCommit, CountAttempt, BurnCode, Activate,
        SetPassword, Invalidate, Issue, SaveAll, Crash, Age, memory
<1>5. ASSUME NEW u
      PROVE  u \in Vouched' <=>
               u \in Vouched \/ (endpoint'[p] = "google" /\ target'[p] = u /\ u \in Accounts')
  <2>1. ASSUME u \in Vouched
        PROVE  u \in Vouched'
    BY <1>1, <1>2, <1>4, <2>1 DEF Vouched, OthersKept
  <2>2. ASSUME u \in Vouched', ~(endpoint'[p] = "google" /\ target'[p] = u)
        PROVE  u \in Vouched
    BY <1>1, <1>3, <2>2 DEF Vouched, OthersKept
  <2> QED
    BY <2>1, <2>2 DEF Vouched
<1> QED
  BY <1>5

\* An account whose e-mail Google has vouched for already: nothing new.
LEMMA VouchedKept ==
  ASSUME IInv, BInv, NEW p \in Requests, StepOf(p),
         endpoint'[p] = endpoint[p], target'[p] = target[p], Accounts' = Accounts
  PROVE  Vouched' = Vouched
<1>1. endpoint[p] = "google" /\ target[p] \in Accounts => target[p] \in Vouched
  BY DEF Vouched
<1> QED
  BY <1>1, VouchedNext

LEMMA BookNext ==
  ASSUME IInv, BInv, NEW p \in Requests, StepOf(p)
  PROVE  [Book!Next]_(Book!vars)
<1>0. /\ TypeOK /\ TypeOK' /\ Route(p) /\ Written(p) /\ Holds(p) /\ Codes(p) /\ Matches(p)
      /\ VerifiedHasEvidence /\ KeysAreHeld /\ TablesKept(p)
      /\ p \in Ids /\ Accounts \subseteq Ids /\ Ids = Book!Ids /\ UserRow = Book!AccountRow
      /\ \A u : Book!Exists(u) <=> user[u] # Null
  BY TypeNext, TablesNext
  DEF IInv, BInv, Accounts, Ids, Book!Ids, UserRow, Book!AccountRow, Usernames,
      Book!Usernames, Book!Exists
<1>c. code \in [Requests -> CodeRow \cup {Null}]
  BY <1>0 DEF TypeOK
<1>u. \A u \in Accounts : Book!Exists(u) /\ u \in Book!Ids
  BY <1>0 DEF Accounts
<1>k. ASSUME NEW u, NEW row, ~UniqueViolation(row, u)
      PROVE  Book!KeysFree(u, row)
  BY <1>0, <1>k DEF UniqueViolation, Accounts, Book!KeysFree
<1>f. \A u \in Ids : pc[p] # "done" => p \notin ChosenBy[u]
  BY ConstantsAssumption DEF ChosenBy, Chosen
<1>1. CASE Load(p)
  <2>1. PICK what, to, u, row : Arrival(p, what, to, u, row)
    BY <1>1, LoadArrives
  <2>2. /\ user' = user /\ code' = code /\ u \in Ids
        /\ endpoint'[p] = what /\ target'[p] = u /\ pc[p] = "idle" /\ ~Succeeds(p)
        /\ what = "google" => u \in Accounts \/ u = p
    BY <1>0, <2>1 DEF Arrival, Arrive, tables, TypeOK, Succeeds
  <2>3. user' = user /\ BookCode' = BookCode /\ Proven' = Proven /\ ChosenBy' = ChosenBy
    BY <2>2, BookCodeKept, ProvenNext, ChosenByNext
  <2>4. p \notin Accounts /\ Accounts' = Accounts
    BY <1>0, <2>2 DEF Written, Accounts
  <2>5. Vouched' = IF what = "google" /\ u \in Accounts THEN Vouched \cup {u} ELSE Vouched
    BY <2>2, <2>4, VouchedNext
  <2>6. CASE what = "google" /\ u \in Accounts
    <3>1. Book!Vouch(u)
      BY <1>u, <2>3, <2>5, <2>6 DEF Book!Vouch
    <3> QED
      BY <1>u, <2>6, <3>1 DEF Book!Next
  <2>7. CASE ~(what = "google" /\ u \in Accounts)
    BY <2>3, <2>5, <2>7 DEF Book!vars
  <2> QED
    BY <2>6, <2>7
<1>2. CASE RegisterSave(p) \/ CountAttempt(p) \/ Crash(p) \/ Age(p)
  <2>1. /\ user' = user /\ endpoint'[p] = endpoint[p] /\ target'[p] = target[p]
        /\ ~Succeeds(p)
    BY <1>0, <1>2
    DEF RegisterSave, CountAttempt, Crash, Age, Step, tables, memory, Succeeds, TypeOK
  <2>2. ASSUME NEW c \in Requests
        PROVE  /\ code'[c] = Null <=> code[c] = Null
               /\ code[c] # Null =>
                    /\ code'[c].user = code[c].user /\ code'[c].kind = code[c].kind
                    /\ code'[c].is_used = code[c].is_used
    <3>1. CASE RegisterSave(p) \/ Crash(p)
      BY <3>1 DEF RegisterSave, Crash, tables
    <3>2. CASE CountAttempt(p)
      <4>1. record[p] \in Requests /\ code[record[p]] \in CodeRow
        BY <1>0, <3>2 DEF CountAttempt, Step, Codes, TypeOK
      <4>2. code' = [code EXCEPT ![record[p]] = [@ EXCEPT !.attempts = held[p] + 1]]
        BY <3>2 DEF CountAttempt
      <4>3. code[c] # Null => code'[c] # Null /\ code'[c].is_used = code[c].is_used
        BY <1>0, <1>c, <4>1, <4>2 DEF TablesKept, CodeRow
      <4>4. code[c] = Null => code'[c] = Null
        BY <1>c, <4>1, <4>2, NullAssumption
      <4> QED
        BY <4>3, <4>4, CodesNext
    <3>3. CASE Age(p)
      <4>1. /\ code[p] \in CodeRow
            /\ code' = [code EXCEPT ![p] = [@ EXCEPT !.age = code[p].age + 1]]
        BY <1>c, <3>3 DEF Age
      <4>2. [code[p] EXCEPT !.age = code[p].age + 1] \in CodeRow
        BY <3>3, <4>1 DEF Age, CodeRow
      <4> QED
        BY <1>c, <4>1, <4>2, NullAssumption DEF CodeRow
    <3> QED
      BY <1>2, <3>1, <3>2, <3>3
  <2>3. BookCode' = BookCode
    BY <2>2, BookCodeKept
  <2>4. Accounts' = Accounts
    BY <2>1 DEF Accounts
  <2> QED
    BY <2>1, <2>3, <2>4, VouchedKept, ProvenNext, ChosenByNext DEF Book!vars
<1>3. CASE RegisterCommit(p)
  <2>1. PICK u \in Ids : u = target[p]
    BY <1>0, <1>3 DEF RegisterCommit, Step, Holds
  <2>2. /\ pc[p] = "commit" /\ endpoint'[p] = "register" /\ target'[p] = u
        /\ instance[p] \in UserRow /\ instance[p].password = p
        /\ ~instance[p].is_active /\ ~instance[p].is_email_verified
        /\ u = p \/ user[u] # Null
        /\ user' = [user EXCEPT ![u] = instance[p]] /\ user'[u] = instance[p]
        /\ Succeeds(p) /\ code[p] = Null
        /\ ~UniqueViolation(instance[p], u)
    BY <1>0, <1>3, <2>1
    DEF RegisterCommit, Step, Holds, Route, Written, Succeeds, TypeOK, Accounts, KeysAreHeld,
        InTransaction
  <2>3. Book!WritesRow(u)
    BY <1>0, <1>k, <2>2 DEF Book!WritesRow
  <2>4. /\ doomed[p] \in SUBSET Book!CodesOf(u, "verification")
        /\ \A c \in doomed[p] : code[c] # Null
    <3>1. /\ \A c \in doomed[p] : c \in Requests /\ code[c] # Null
          /\ \A c \in doomed[p] : code[c].user = u /\ code[c].kind = "verification"
      BY <1>0, <2>1, <2>2 DEF Codes, Matches, InTransaction, TypeOK
    <3>2. \A c \in doomed[p] : c \in CodesOf(u, "verification")
      BY <3>1 DEF CodesOf
    <3> QED
      BY <1>0, <3>1, <3>2, BookCodes
  <2>5. BookCode' = [Book!Used(doomed[p]) EXCEPT ![p] = Book!Fresh(u, "verification")]
    <3>1. /\ doomed[p] \in SUBSET Requests
          /\ code' = [Invalidated(doomed[p]) EXCEPT ![p] = NewCode(u, "verification")]
      BY <1>0, <1>3, <2>1 DEF RegisterCommit, TypeOK
    <3>2. ASSUME NEW c \in Requests, c # p
          PROVE  BookCode'[c] = Book!Used(doomed[p])[c]
      <4>1. code'[c] = Invalidated(doomed[p])[c]
        BY <3>1, <3>2 DEF Invalidated
      <4> QED
        BY <1>0, <2>4, <3>1, <4>1, BookCodeUsed
    <3>3. BookCode'[p] = Book!Fresh(u, "verification")
      <4>1. code'[p] = NewCode(u, "verification")
        BY <3>1 DEF Invalidated
      <4> QED
        BY <4>1, BookCodeFresh DEF Kinds
    <3>4. BookCode' = [c \in Requests |-> BookCode'[c]]
      BY DEF BookCode
    <3> QED
      BY <3>2, <3>3, <3>4 DEF Book!Used
  <2>6. /\ Proven' = Proven /\ Vouched' = Vouched
        /\ ChosenBy' = [ChosenBy EXCEPT ![u] = @ \cup {p}]
    BY <2>2, ProvenNext, VouchedNext, ChosenByNext DEF Chooses, Verifies
  <2>7. Book!Register(u, p)
    BY <1>0, <1>f, <2>2, <2>3, <2>4, <2>5, <2>6, BookCodes DEF Book!Register
  <2> QED
    BY <1>0, <2>7 DEF Book!Next
<1>4. ASSUME NEW u \in Ids, NEW kind \in {"verification", "reset"},
             NEW codes \in SUBSET CodesOf(u, kind), code' = Invalidated(codes),
             BurnCode(p) \/ Invalidate(p)
      PROVE  Book!Next
  <2>1. /\ user' = user /\ endpoint'[p] = endpoint[p] /\ target'[p] = target[p]
        /\ ~Succeeds(p) /\ Accounts' = Accounts
    BY <1>0, <1>4 DEF BurnCode, Invalidate, Step, memory, tables, Succeeds, Accounts, TypeOK
  <2>2. /\ codes \in SUBSET Requests /\ \A c \in codes : code[c] # Null
        /\ codes \in SUBSET Book!CodesOf(u, kind)
    BY <1>0, BookCodes DEF CodesOf
  <2>3. \A c \in Requests : BookCode'[c] = Book!Used(codes)[c]
    BY <1>0, <1>4, <2>2, BookCodeUsed
  <2>4. BookCode' = Book!Used(codes)
    <3>1. BookCode' = [c \in Requests |-> BookCode'[c]]
      BY DEF BookCode
    <3> QED
      BY <2>3, <3>1 DEF Book!Used
  <2>5. Book!Spend(u, kind)
    BY <2>1, <2>2, <2>4, VouchedKept, ProvenNext, ChosenByNext DEF Book!Spend
  <2> QED
    BY <1>0, <2>5 DEF Book!Next
<1>5. CASE BurnCode(p)
  <2>1. PICK u \in Ids : u = target[p]
    BY <1>0, <1>5 DEF BurnCode, Step, Holds
  <2>2. {record[p]} \in SUBSET CodesOf(u, KindChecked(endpoint[p]))
    BY <1>0, <1>5, <2>1 DEF BurnCode, Step, Codes, Matches, CodesOf, TypeOK
  <2>3. /\ code' = Invalidated({record[p]})
        /\ KindChecked(endpoint[p]) \in {"verification", "reset"}
    BY <1>5 DEF BurnCode, KindChecked
  <2> QED
    BY <1>4, <1>5, <2>2, <2>3
<1>6. CASE Invalidate(p)
  <2>1. PICK u \in Ids : u = target[p]
    BY <1>0, <1>6 DEF Invalidate, Step, Holds
  <2>2. Live(u, KindSent(p)) \in SUBSET CodesOf(u, KindSent(p))
    BY DEF Live
  <2>3. code' = Invalidated(Live(u, KindSent(p))) /\ KindSent(p) \in {"verification", "reset"}
    BY <1>6, <2>1 DEF Invalidate, KindSent
  <2> QED
    BY <1>4, <1>6, <2>2, <2>3
<1>7. CASE Issue(p)
  <2>1. PICK u \in Ids : u = target[p]
    BY <1>0, <1>7 DEF Issue, Step, Holds
  <2>2. /\ u \in Accounts /\ user' = user /\ Accounts' = Accounts
        /\ endpoint'[p] = endpoint[p] /\ target'[p] = target[p]
        /\ endpoint[p] \in {"resend_otp", "password_reset_request"}
        /\ code[p] = Null /\ code' = [code EXCEPT ![p] = NewCode(u, KindSent(p))]
        /\ KindSent(p) \in {"verification", "reset"}
    BY <1>0, <1>7, <2>1
    DEF Issue, Step, Holds, Route, Written, memory, Accounts, TypeOK, KindSent
  <2>3. BookCode' = [BookCode EXCEPT ![p] = Book!Fresh(u, KindSent(p))]
    <3>1. \A c \in Requests \ {p} : BookCode'[c] = BookCode[c]
      BY <1>c, <2>2 DEF BookCode
    <3>2. BookCode'[p] = Book!Fresh(u, KindSent(p))
      <4>1. code'[p] = NewCode(u, KindSent(p))
        BY <1>c, <2>2
      <4> QED
        BY <2>2, <4>1, BookCodeFresh DEF Kinds
    <3> QED
      BY <3>1, <3>2 DEF BookCode
  <2>4. Proven' = Proven /\ Vouched' = Vouched /\ ChosenBy' = ChosenBy
    BY <2>2, ProvenNext, VouchedKept, ChosenByNext DEF Chooses, Verifies
  <2>5. Book!Issue(u, KindSent(p), p)
    BY <1>0, <1>u, <2>2, <2>3, <2>4, BookCodes DEF Book!Issue
  <2> QED
    BY <1>0, <2>2, <2>5 DEF Book!Next
<1>8. CASE Activate(p)
  <2>1. PICK u \in Accounts : u = target[p]
    BY <1>0, <1>8 DEF Activate, Step, Holds
  <2>2. /\ endpoint'[p] = endpoint[p] /\ target'[p] = u /\ record'[p] = record[p]
        /\ code' = code /\ mailed' = mailed /\ Succeeds(p) /\ u \in Ids
        /\ user' = [user EXCEPT ![u].is_email_verified = TRUE, ![u].is_active = TRUE]
        /\ endpoint[p] \in {"verify_otp", "google"} /\ pc[p] = "activate"
    BY <1>0, <1>8, <2>1 DEF Activate, Step, memory, Succeeds, Route, TypeOK
  <2>3. Accounts' = Accounts
    <3>1. \A v \in Ids \ {u} : user'[v] = user[v]
      BY <1>0, <2>2 DEF TypeOK
    <3> QED
      BY <1>0, <2>1, <3>1 DEF TablesKept, Accounts
  <2>4. endpoint[p] = "verify_otp" =>
          /\ record[p] \in Requests /\ record[p] \in mailed
          /\ record[p] \in CodesOf(u, "verification") /\ code[record[p]].is_used
    BY <1>0, <2>1, <2>2 DEF Codes, Matches, CodesOf, KindChecked, TypeOK
  <2>5. u \in Vouched \/ Book!Spent(u, "verification")
    <3>1. CASE endpoint[p] = "google"
      BY <2>1, <3>1 DEF Vouched
    <3>2. CASE endpoint[p] = "verify_otp"
      <4>1. record[p] \in Book!CodesOf(u, "verification") /\ code[record[p]] # Null
        BY <1>0, <2>4, <3>2, BookCodes DEF CodesOf
      <4>2. BookCode[record[p]].is_used
        BY <1>0, <2>4, <3>2, <4>1, BookCodes
      <4> QED
        BY <4>1, <4>2 DEF Book!Spent
    <3> QED
      BY <2>2, <3>1, <3>2
  <2>6. Proven' = Proven \cup {u}
    BY <2>2, <2>4, ProvenNext DEF Verifies
  <2>7. BookCode' = BookCode /\ Vouched' = Vouched /\ ChosenBy' = ChosenBy
    BY <2>1, <2>2, <2>3, BookCodeKept, VouchedKept, ChosenByNext DEF Chooses
  <2>8. Book!Verify(u)
    BY <1>u, <2>2, <2>5, <2>6, <2>7 DEF Book!Verify
  <2> QED
    BY <1>u, <2>8 DEF Book!Next
<1>9. CASE SetPassword(p)
  <2>1. PICK u \in Accounts : u = target[p]
    BY <1>0, <1>9 DEF SetPassword, Step, Holds
  <2>2. /\ endpoint'[p] = endpoint[p] /\ target'[p] = u /\ code' = code /\ Succeeds(p)
        /\ user' = [user EXCEPT ![u].password = p] /\ u \in Ids /\ pc[p] = "set_password"
        /\ endpoint[p] \in {"password_reset_confirm", "change_password"}
    BY <1>0, <1>9, <2>1 DEF SetPassword, Step, memory, Succeeds, Route, TypeOK
  <2>3. Accounts' = Accounts
    <3>1. \A v \in Ids \ {u} : user'[v] = user[v]
      BY <1>0, <2>2 DEF TypeOK
    <3> QED
      BY <1>0, <2>1, <3>1 DEF TablesKept, Accounts
  <2>4. ChosenBy[u] # {} \/ Book!Spent(u, "reset")
    <3>1. CASE endpoint[p] = "change_password"
      BY <1>0, <2>1, <2>2, <3>1 DEF Matches, ChosenBy
    <3>2. CASE endpoint[p] = "password_reset_confirm"
      <4>1. /\ record[p] \in CodesOf(u, "reset") /\ record[p] \in Requests
            /\ code[record[p]].is_used /\ code[record[p]] # Null
        BY <1>0, <2>1, <2>2, <3>2 DEF Codes, Matches, CodesOf, KindChecked, TypeOK
      <4>2. record[p] \in Book!CodesOf(u, "reset")
        BY <1>0, <4>1, BookCodes
      <4>3. BookCode[record[p]].is_used
        BY <1>0, <4>1, BookCodes
      <4> QED
        BY <4>2, <4>3 DEF Book!Spent
    <3> QED
      BY <2>2, <3>1, <3>2
  <2>5. ChosenBy' = [ChosenBy EXCEPT ![u] = @ \cup {p}]
    BY <2>2, ChosenByNext DEF Chooses
  <2>6. BookCode' = BookCode /\ Vouched' = Vouched /\ Proven' = Proven
    BY <2>1, <2>2, <2>3, BookCodeKept, VouchedKept, ProvenNext DEF Verifies
  <2>7. Book!SetPassword(u, p)
    BY <1>0, <1>f, <1>u, <2>2, <2>4, <2>5, <2>6 DEF Book!SetPassword
  <2> QED
    BY <1>u, <2>7 DEF Book!Next
<1>10. CASE SaveAll(p)
  <2>1. PICK u \in Accounts : u = target[p]
    BY <1>0, <1>10 DEF SaveAll, Holds
  <2>2. /\ pc[p] = "save_all" /\ endpoint'[p] = endpoint[p] /\ target'[p] = u
        /\ code' = code /\ u \in Ids /\ endpoint[p] \in {"me", "google"}
        /\ instance[p] \in UserRow
    BY <1>0, <1>10, <2>1 DEF SaveAll, Step, memory, Holds, Route
  <2>3. BookCode' = BookCode /\ ChosenBy' = ChosenBy
    BY <2>2, BookCodeKept, ChosenByNext DEF Chooses
  <2>4. CASE UniqueViolation(instance[p], target[p])
    <3>1. user' = user /\ ~Succeeds(p)
      BY <1>0, <1>10, <2>4 DEF SaveAll, Step, Succeeds, TypeOK
    <3>2. Accounts' = Accounts
      BY <3>1 DEF Accounts
    <3> QED
      BY <2>1, <2>2, <2>3, <3>1, <3>2, VouchedKept, ProvenNext DEF Book!vars
  <2>5. CASE ~UniqueViolation(instance[p], target[p])
    <3>1. /\ user' = [user EXCEPT ![u] = instance[p]] /\ user'[u] = instance[p] /\ Succeeds(p)
      BY <1>0, <1>10, <2>1, <2>2, <2>5 DEF SaveAll, Step, Succeeds, TypeOK
    <3>2. Accounts' = Accounts
      BY <1>0, <2>1, <2>2, <3>1, NullAssumption DEF TypeOK, Accounts
    <3>3. Book!WritesRow(u)
      BY <1>0, <1>k, <2>1, <2>2, <2>5, <3>1 DEF Book!WritesRow
    <3>4. instance[p].password \in ChosenBy[u] \cup {Null}
      BY <1>0, <2>1, <2>2 DEF Matches, ChosenBy
    <3>5. CASE endpoint[p] = "me"
      <4>1. Proven' = Proven
        BY <2>2, <3>5, ProvenNext DEF Verifies
      <4>2. instance[p].is_email_verified => u \in Proven
        BY <1>0, <2>1, <2>2, <3>5 DEF Holds, Proven
      <4>3. Book!SaveProfile(u)
        BY <1>u, <2>1, <2>2, <2>3, <3>1, <3>2, <3>3, <3>4, <4>1, <4>2, VouchedKept
        DEF Book!SaveProfile
      <4> QED
        BY <1>u, <4>3 DEF Book!Next
    <3>6. CASE endpoint[p] = "google"
      <4>1. Proven' = Proven \cup {u}
        BY <2>2, <3>1, <3>6, ProvenNext DEF Verifies
      <4>2. instance[p].is_email_verified /\ u \in Vouched
        BY <1>0, <2>1, <2>2, <3>6 DEF Matches, Vouched
      <4>3. Book!SaveProfile(u)
        BY <1>u, <2>1, <2>2, <2>3, <3>1, <3>2, <3>3, <3>4, <4>1, <4>2, VouchedKept
        DEF Book!SaveProfile
      <4> QED
        BY <1>u, <4>3 DEF Book!Next
    <3> QED
      BY <2>2, <3>5, <3>6
  <2> QED
    BY <2>4, <2>5
<1>11. CASE GoogleCreate(p)
  <2> DEFINE row == Row(instance[p].email, Blank, Null, TRUE, FALSE)
  <2>1. /\ pc[p] = "create" /\ endpoint[p] = "google" /\ endpoint'[p] = "google"
        /\ target[p] = p /\ instance[p] \in UserRow /\ code' = code
        /\ p \notin Accounts /\ user[p] = Null
    BY <1>0, <1>11 DEF GoogleCreate, Step, Holds, Route, Written, Accounts
  <2>2. BookCode' = BookCode /\ ChosenBy' = ChosenBy
    BY <2>1, BookCodeKept, ChosenByNext DEF Chooses
  <2>3. CASE /\ ~UniqueViolation(row, p) /\ Step(p, "create", "save_all")
             /\ user' = [user EXCEPT ![p] = row] /\ UNCHANGED <<target, instance>>
    <3>1. row \in UserRow
      BY <2>1 DEF Row, UserRow, Usernames
    <3> HIDE DEF row
    <3>2. Accounts' = Accounts \cup {p} /\ ~Succeeds(p) /\ target'[p] = p
      <4>1. row # Null /\ user'[p] = row
        BY <1>0, <2>3, <3>1, NullAssumption DEF TypeOK
      <4>2. \A v \in Ids \ {p} : user'[v] = user[v]
        BY <1>0, <2>3 DEF TypeOK
      <4>3. Accounts' = Accounts \cup {p}
        BY <1>0, <4>1, <4>2 DEF Accounts
      <4> QED
        BY <1>0, <2>1, <2>3, <4>3 DEF Step, Succeeds, TypeOK
    <3>3. Vouched' = Vouched \cup {p} /\ Proven' = Proven
      BY <2>1, <3>2, VouchedNext, ProvenNext
    <3>4. /\ instance[p].email \in Emails
          /\ row = [email |-> instance[p].email, username |-> Blank, password |-> Null,
                    is_active |-> TRUE, is_email_verified |-> FALSE]
      BY <2>1 DEF UserRow, Row, row
    <3>5. Book!SignUp(p)
      BY <1>0, <1>k, <2>1, <2>2, <2>3, <3>3, <3>4 DEF Book!SignUp
    <3> QED
      BY <1>0, <3>5 DEF Book!Next
  <2>4. ASSUME NEW u \in WithEmail(instance[p].email),
               Step(p, "create", IF Unverified(u) THEN "activate" ELSE "done"),
               target' = [target EXCEPT ![p] = u], user' = user
        PROVE  Book!Next
    <3>1. u \in Accounts /\ u \in Ids /\ target'[p] = u /\ Accounts' = Accounts
      BY <1>0, <2>4 DEF WithEmail, Accounts, TypeOK
    <3>2. Vouched' = Vouched \cup {u}
      BY <2>1, <3>1, VouchedNext
    <3>3. Succeeds(p) => u \in Proven
      BY <1>0, <2>4, <3>1 DEF Succeeds, Step, Unverified, VerifiedHasEvidence, Proven, TypeOK
    <3>4. Proven' = Proven
      BY <3>1, <3>3, ProvenNext
    <3>5. Book!Vouch(u)
      BY <1>u, <2>2, <2>4, <3>1, <3>2, <3>4 DEF Book!Vouch
    <3> QED
      BY <1>u, <3>1, <3>5 DEF Book!Next
  <2>5. CASE Step(p, "create", "failed") /\ UNCHANGED <<user, target, instance>>
    <3>1. ~Succeeds(p) /\ Accounts' = Accounts /\ target'[p] = target[p]
      BY <1>0, <2>5 DEF Step, Succeeds, Accounts, TypeOK
    <3> QED
      BY <2>1, <2>2, <2>5, <3>1, VouchedKept, ProvenNext DEF Book!vars
  <2> QED
    BY <1>11, <2>3, <2>4, <2>5 DEF GoogleCreate
<1> QED
  BY <1>1, <1>2, <1>3, <1>5, <1>6, <1>7, <1>8, <1>9, <1>10, <1>11 DEF StepOf, Serve

\* The requests, statement by statement and with what they hold in memory,
\* implement the account book: whatever the interleaving, each step that touches
\* the tables is one of its operations, paid for by a code of that account or by
\* Google's word, and no password goes to an account it was not chosen for.
THEOREM BookImplementation == Spec => ImplementsBook
<1>1. Init => Book!Init
  <2> SUFFICES ASSUME Init PROVE Book!Init
    OBVIOUS
  <2>1. Proven = Seeds
    BY DEF Init, Proven, Evidence, Ids
  <2>2. Vouched = {} /\ BookCode = [c \in Requests |-> Null]
    BY DEF Init, Vouched, BookCode
  <2>3. ChosenBy = [u \in Ids |-> IF u \in Seeds THEN {u} ELSE {}]
    <3>1. \A u \in Ids : Chosen(u) = IF u \in Seeds THEN {u} ELSE {}
      BY DEF Init, Chosen, Ids
    <3> QED
      BY <3>1 DEF ChosenBy
  <2> QED
    BY <2>1, <2>2, <2>3 DEF Init, Row, Book!Init, Ids, Book!Ids
<1>2. IInv /\ BInv /\ [Next]_vars => [Book!Next]_(Book!vars)
  <2>1. ASSUME UNCHANGED vars
        PROVE  UNCHANGED Book!vars
    BY <2>1
    DEF vars, tables, memory, Book!vars, BookCode, Vouched, Accounts, Proven, Evidence,
        ChosenBy, Chosen
  <2>2. ASSUME IInv, BInv, Next
        PROVE  [Book!Next]_(Book!vars)
    BY <2>2, BookNext DEF Next, StepOf
  <2> QED
    BY <2>1, <2>2
<1> QED
  BY <1>1, <1>2, Invariance, BookInvariance, PTL DEF Spec, ImplementsBook, Book!Spec

\* Facts about the book, of the tables that the requests write.
BookFacts == INSTANCE AccountBook_proofs WITH
  account <- user, code <- BookCode, vouched <- Vouched, proven <- Proven, chosen <- ChosenBy

\* What the book's operations amount to holds of the requests, which implement it.
THEOREM BookSafety == Spec => []BookIsSafe
<1>1. BookFacts!BookAssumption
  <2>1. UserRow = BookFacts!AccountRow /\ CodeEntry = BookFacts!CodeEntry
    BY DEF UserRow, CodeEntry, Ids, Usernames, Kinds, BookFacts!AccountRow,
           BookFacts!CodeEntry, BookFacts!Ids, BookFacts!Usernames
  <2> QED
    BY <2>1, NullAssumption, ConstantsAssumption
       DEF BookFacts!BookAssumption, BookFacts!NullIsNoRow
<1>2. BookFacts!BookAssumption /\ BookFacts!Spec => []BookFacts!Safe
  BY BookFacts!Safety
<1>3. Book!Init => BookFacts!Init
  BY DEF Book!Init, BookFacts!Init, Book!Ids, BookFacts!Ids
<1>4. [Book!Next]_(Book!vars) => [BookFacts!Next]_(BookFacts!vars)
  BY DEF Book!Next, BookFacts!Next, Book!SignUp, BookFacts!SignUp, Book!Vouch,
      BookFacts!Vouch, Book!Verify, BookFacts!Verify, Book!SaveProfile,
      BookFacts!SaveProfile, Book!Register, BookFacts!Register, Book!SetPassword,
      BookFacts!SetPassword, Book!Spend, BookFacts!Spend, Book!Issue, BookFacts!Issue,
      Book!WritesRow, BookFacts!WritesRow, Book!KeysFree, BookFacts!KeysFree, Book!Exists,
      BookFacts!Exists, Book!AccountRow, BookFacts!AccountRow, Book!Usernames,
      BookFacts!Usernames, Book!Ids, BookFacts!Ids, Book!CodesOf, BookFacts!CodesOf,
      Book!Spent, BookFacts!Spent, Book!Used, BookFacts!Used, Book!Fresh, BookFacts!Fresh,
      Book!vars, BookFacts!vars
<1>5. Book!Safe <=> BookFacts!Safe
  BY DEF Book!Safe, BookFacts!Safe, Book!KeysAreUnique, BookFacts!KeysAreUnique,
      Book!PasswordsAreOwn, BookFacts!PasswordsAreOwn, Book!VerificationsArePaid,
      BookFacts!VerificationsArePaid, Book!Paid, BookFacts!Paid, Book!Spent,
      BookFacts!Spent, Book!CodesOf, BookFacts!CodesOf, Book!Exists, BookFacts!Exists,
      Book!Ids, BookFacts!Ids
<1> QED
  BY <1>1, <1>2, <1>3, <1>4, <1>5, BookImplementation, PTL
     DEF BookIsSafe, ImplementsBook, Book!Spec, BookFacts!Spec
=============================================================================

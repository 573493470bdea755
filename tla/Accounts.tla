------------------------------ MODULE Accounts ------------------------------
(***************************************************************************)
(* Accounts and their one-time codes (apps/users): registration, e-mail    *)
(* verification, resending, password reset, password change, profile       *)
(* edits and Google sign-in.                                               *)
(*                                                                         *)
(* A request is a process that a gunicorn thread runs once, at any of the  *)
(* endpoints.  Its first action is all that it reads before it writes; a   *)
(* request refused there leaves no trace and is no step.  Every later      *)
(* action is one statement, which commits, but for a registration, whose   *)
(* statements and mail are one transaction (READ COMMITTED): until it      *)
(* commits, others neither see its rows nor write the rows or keys it      *)
(* holds.                                                                  *)
(*                                                                         *)
(* Left out: names and plan, the digits of a code (a code is named by the  *)
(* request that issued it), hashes (a password is named by who chose it)   *)
(* and the spelling of an e-mail.                                          *)
(***************************************************************************)
EXTENDS Naturals, Sequences, FiniteSets

CONSTANTS
  Requests,    \* POST, PUT or PATCH under /api/auth/
  Emails,
  Seeds,       \* e-mails of accounts verified before the start
  Uids,        \* Google accounts
  Blank,       \* the username "" of an account being created by Google sign-in
  Patches,     \* bodies of profile edits: a field that is Null is not submitted
  MaxAttempts, \* failed attempts a code allows (5)
  Workers,     \* threads that serve requests (2 workers of 2 threads)
  Null

Ids == Requests \cup Seeds
Usernames == Emails \cup Uids \cup {Blank}
Kinds == {"verification", "reset"}
UserRow == [email : Emails, username : Usernames, password : Ids \cup {Null},
            is_active : BOOLEAN, is_email_verified : BOOLEAN]
CodeRow == [user : Ids, kind : Kinds, attempts : 0..MaxAttempts, is_used : BOOLEAN,
            age : 0..2]
CodeEntry == [user : Ids, kind : Kinds, is_used : BOOLEAN] \* without what only its checks see
Patch == [email : Emails \cup {Null}, username : Usernames \cup {Null},
          is_active : BOOLEAN \cup {Null}]

ASSUME ConstantsAssumption ==
  /\ IsFiniteSet(Requests)
  /\ Seeds \subseteq Emails /\ Emails \cap Requests = {}
  /\ Patches \subseteq Patch
  /\ MaxAttempts \in Nat \ {0} /\ Workers \in Nat \ {0}

ASSUME NullAssumption ==
  Null \notin Ids \cup Usernames \cup BOOLEAN \cup UserRow \cup CodeRow \cup CodeEntry

VARIABLES
  user,      \* User, committed: the row inserted by a request, or there before
  code,      \* EmailVerificationCode and PasswordResetCode, committed
  issued,    \* codes in the order of created_at
  mailed,    \* codes whose mail was sent
  endpoint,  \* what each request asks for
  pc,        \* where it stands
  target,    \* the account it works on
  instance,  \* the User object it holds
  record,    \* the code it loaded
  held,      \* and that code's attempts
  doomed     \* codes invalidated by its open transaction

tables == <<user, code, issued, mailed>>
memory == <<target, instance, record, held, doomed>>
vars == <<tables, endpoint, pc, memory>>

TypeOK ==
  /\ user \in [Ids -> UserRow \cup {Null}]
  /\ code \in [Requests -> CodeRow \cup {Null}]
  /\ issued \in Seq(Requests)
  /\ mailed \subseteq Requests
  /\ endpoint \in [Requests -> {"none", "register", "verify_otp", "resend_otp",
                                "password_reset_request", "password_reset_confirm",
                                "me", "change_password", "google"}]
  /\ pc \in [Requests -> {"idle", "save", "commit", "count", "burn", "activate",
                          "set_password", "invalidate", "issue", "create",
                          "save_all", "done", "failed", "crashed"}]
  /\ target \in [Requests -> Ids \cup {Null}]
  /\ instance \in [Requests -> UserRow \cup {Null}]
  /\ record \in [Requests -> Requests \cup {Null}]
  /\ held \in [Requests -> 0..(MaxAttempts - 1)]
  /\ doomed \in [Requests -> SUBSET Requests]

Row(e, name, w, active, verified) ==
  [email |-> e, username |-> name, password |-> w, is_active |-> active,
   is_email_verified |-> verified]

Init ==
  /\ user = [u \in Ids |-> IF u \in Seeds THEN Row(u, u, u, TRUE, TRUE) ELSE Null]
  /\ code = [p \in Requests |-> Null]
  /\ issued = <<>>
  /\ mailed = {}
  /\ endpoint = [p \in Requests |-> "none"]
  /\ pc = [p \in Requests |-> "idle"]
  /\ target = [p \in Requests |-> Null]
  /\ instance = [p \in Requests |-> Null]
  /\ record = [p \in Requests |-> Null]
  /\ held = [p \in Requests |-> 0]
  /\ doomed = [p \in Requests |-> {}]

-----------------------------------------------------------------------------
(* Requests, rows, keys and locks *)

InFlight == {p \in Requests : pc[p] \notin {"idle", "done", "failed", "crashed"}}

\* A free thread picks p up, which loads account u as the object row.
Arrive(p, what, to, u, row) ==
  /\ Cardinality(InFlight) < Workers
  /\ pc[p] = "idle"
  /\ pc' = [pc EXCEPT ![p] = to]
  /\ endpoint' = [endpoint EXCEPT ![p] = what]
  /\ target' = [target EXCEPT ![p] = u]
  /\ instance' = [instance EXCEPT ![p] = row]
  /\ UNCHANGED <<tables, doomed>>

Step(p, from, to) ==
  /\ pc[p] = from
  /\ pc' = [pc EXCEPT ![p] = to]
  /\ UNCHANGED endpoint

Accounts == {u \in Ids : user[u] # Null}
WithEmail(e) == {u \in Accounts : user[u].email = e}

\* A committed row other than u has row's e-mail or username.
UniqueViolation(row, u) ==
  \E v \in Accounts \ {u} :
    user[v].email = row.email \/ user[v].username = row.username

InTransaction(p) == pc[p] = "commit"

\* An open registration holds the row of u, or one of row's keys.
Locked(u, row) ==
  \E q \in Requests :
    /\ InTransaction(q)
    /\ \/ target[q] = u
       \/ instance[q].email = row.email
       \/ instance[q].username = row.username

RowLocked(u) == \E q \in Requests : InTransaction(q) /\ target[q] = u
CodeLocked(c) == \E q \in Requests : InTransaction(q) /\ c \in doomed[q]

-----------------------------------------------------------------------------
(* Codes *)

\* Mutant: the filter on the user is missing.
CodesOfAnyone(u, kind) == {c \in Requests : code[c] # Null /\ code[c].kind = kind}
CodesOf(u, kind) ==
  {c \in Requests : code[c] # Null /\ code[c].user = u /\ code[c].kind = kind}
Live(u, kind) == {c \in CodesOf(u, kind) : ~code[c].is_used}

IssuedBefore(d, c) ==
  \E i, j \in DOMAIN issued : i < j /\ issued[i] = d /\ issued[j] = c
\* order_by("-created_at").first()
IsLatest(c, codes) == c \in codes /\ \A d \in codes \ {c} : IssuedBefore(d, c)

NewCode(u, kind) ==
  [user |-> u, kind |-> kind, attempts |-> 0, is_used |-> FALSE, age |-> 0]

\* Mutant: the codes issued before stay usable.
KeepAll(codes) == code
Invalidated(codes) ==
  [c \in Requests |-> IF c \in codes THEN [code[c] EXCEPT !.is_used = TRUE] ELSE code[c]]

\* Time: a code leaves the cooldown of its successor, then expires, after the
\* codes issued before it.
Age(c) ==
  /\ code[c] # Null /\ code[c].age < 2
  /\ \A d \in Requests :
       IssuedBefore(d, c) /\ code[d] # Null => code[d].age > code[c].age
  /\ code' = [code EXCEPT ![c].age = @ + 1]
  /\ UNCHANGED <<user, issued, mailed, endpoint, pc, memory>>
Cooling(c) == code[c].age = 0
IsExpired(c) == code[c].age = 2

-----------------------------------------------------------------------------
(* POST register/ *)

RegisterLoad(p, e) ==
  /\ \A u \in WithEmail(e) : ~user[u].is_email_verified
  /\ \E u \in IF WithEmail(e) = {} THEN {p} ELSE WithEmail(e) :
       Arrive(p, "register", "save", u, Row(e, e, p, FALSE, FALSE))
  /\ UNCHANGED <<record, held>>

\* Mutant: @transaction.atomic is missing.
RegisterSaveAutocommits(p) ==
  LET u == target[p] IN
  /\ pc[p] = "save" /\ ~Locked(u, instance[p])
  /\ ~UniqueViolation(instance[p], u)
  /\ user' = [user EXCEPT ![u] = instance[p]]
  /\ code' = [Invalidated(Live(u, "verification")) EXCEPT ![p] = NewCode(u, "verification")]
  /\ issued' = Append(issued, p)
  /\ \/ Step(p, "save", "done") /\ mailed' = mailed \cup {p}
     \/ Step(p, "save", "failed") /\ UNCHANGED mailed
  /\ UNCHANGED memory

\* The account saved or inserted, its codes invalidated, a new one issued and
\* mailed; nothing of it is committed, and a mail that fails rolls it back.
RegisterSave(p) ==
  LET u == target[p] IN
  /\ pc[p] = "save" /\ ~Locked(u, instance[p])
  /\ \/ /\ ~UniqueViolation(instance[p], u)
        /\ Step(p, "save", "commit")
        /\ doomed' = [doomed EXCEPT ![p] = Live(u, "verification")]
        /\ issued' = Append(issued, p)
        /\ mailed' = mailed \cup {p}
     \/ Step(p, "save", "failed") /\ UNCHANGED <<doomed, issued, mailed>>
  /\ UNCHANGED <<user, code, target, instance, record, held>>

RegisterCommit(p) ==
  /\ Step(p, "commit", "done")
  /\ user' = [user EXCEPT ![target[p]] = instance[p]]
  /\ code' = [Invalidated(doomed[p]) EXCEPT ![p] = NewCode(target[p], "verification")]
  /\ doomed' = [doomed EXCEPT ![p] = {}]
  /\ UNCHANGED <<issued, mailed, target, instance, record, held>>

-----------------------------------------------------------------------------
(* POST verify-otp/ and password-reset/confirm/ *)

\* Mutant: off by one.
CanAttemptOnceMore(c) == code[c].attempts <= MaxAttempts /\ ~IsExpired(c)
CanAttempt(c) == code[c].attempts < MaxAttempts /\ ~IsExpired(c)

\* The latest unused code, if it may be attempted, against the digits entered.
CheckCode(p, what, kind, u, otp) ==
  \E c \in Requests :
    /\ IsLatest(c, Live(u, kind)) /\ CanAttempt(c)
    /\ record' = [record EXCEPT ![p] = c]
    /\ held' = [held EXCEPT ![p] = code[c].attempts]
    /\ Arrive(p, what, IF otp = c THEN "burn" ELSE "count", u, user[u])

\* Digits a user may enter: those of a code mailed, or others.
Entered == mailed \cup {Null}

VerifyLoad(p, e, otp) ==
  \E u \in WithEmail(e) :
    ~user[u].is_email_verified /\ CheckCode(p, "verify_otp", "verification", u, otp)

ConfirmLoad(p, e, otp) ==
  \E u \in WithEmail(e) :
    user[u].is_active /\ CheckCode(p, "password_reset_confirm", "reset", u, otp)

\* Mutant: save() without update_fields.
CountAttemptSavesAll(p) ==
  /\ Step(p, "count", "failed")
  /\ ~CodeLocked(record[p])
  /\ code' = [code EXCEPT ![record[p]].attempts = held[p] + 1, ![record[p]].is_used = FALSE]
  /\ UNCHANGED <<user, issued, mailed, memory>>

\* attempts += 1 on the object loaded, and save(update_fields=["attempts"]).
CountAttempt(p) ==
  /\ Step(p, "count", "failed")
  /\ ~CodeLocked(record[p])
  /\ code' = [code EXCEPT ![record[p]].attempts = held[p] + 1]
  /\ UNCHANGED <<user, issued, mailed, memory>>

\* Mutant: is_used is set and not saved.
BurnCodeUnsaved(p) ==
  /\ Step(p, "burn", IF endpoint[p] = "verify_otp" THEN "activate" ELSE "set_password")
  /\ ~CodeLocked(record[p])
  /\ UNCHANGED <<tables, memory>>

BurnCode(p) ==
  /\ Step(p, "burn", IF endpoint[p] = "verify_otp" THEN "activate" ELSE "set_password")
  /\ ~CodeLocked(record[p])
  /\ code' = Invalidated({record[p]})
  /\ UNCHANGED <<user, issued, mailed, memory>>

\* save(update_fields=["is_email_verified", "is_active"])
Activate(p) ==
  /\ Step(p, "activate", "done")
  /\ ~RowLocked(target[p])
  /\ user' = [user EXCEPT ![target[p]].is_email_verified = TRUE,
                          ![target[p]].is_active = TRUE]
  /\ UNCHANGED <<code, issued, mailed, memory>>

\* Mutant: a confirmed reset also marks the account verified.
SetPasswordVerifies(p) ==
  /\ Step(p, "set_password", "done")
  /\ ~RowLocked(target[p])
  /\ user' = [user EXCEPT ![target[p]].password = p, ![target[p]].is_email_verified = TRUE]
  /\ UNCHANGED <<code, issued, mailed, memory>>

\* Mutant: save() without update_fields.
SetPasswordSavesAll(p) ==
  /\ Step(p, "set_password", "done")
  /\ ~RowLocked(target[p])
  /\ user' = [user EXCEPT ![target[p]] = [instance[p] EXCEPT !.password = p]]
  /\ UNCHANGED <<code, issued, mailed, memory>>

\* save(update_fields=["password"])
SetPassword(p) ==
  /\ Step(p, "set_password", "done")
  /\ ~RowLocked(target[p])
  /\ user' = [user EXCEPT ![target[p]].password = p]
  /\ UNCHANGED <<code, issued, mailed, memory>>

-----------------------------------------------------------------------------
(* POST resend-otp/ and password-reset/request/ *)

SendLoad(p, what, kind, u) ==
  /\ \A c \in Requests : IsLatest(c, CodesOf(u, kind)) => ~Cooling(c)
  /\ Arrive(p, what, "invalidate", u, user[u])
  /\ UNCHANGED <<record, held>>

ResendLoad(p, e) ==
  \E u \in WithEmail(e) :
    ~user[u].is_email_verified /\ SendLoad(p, "resend_otp", "verification", u)

ResetLoad(p, e) ==
  \E u \in WithEmail(e) :
    user[u].is_active /\ SendLoad(p, "password_reset_request", "reset", u)

KindSent(p) == IF endpoint[p] = "resend_otp" THEN "verification" ELSE "reset"

Invalidate(p) ==
  LET codes == Live(target[p], KindSent(p)) IN
  /\ Step(p, "invalidate", "issue")
  /\ \A c \in codes : ~CodeLocked(c)
  /\ code' = Invalidated(codes)
  /\ UNCHANGED <<user, issued, mailed, memory>>

\* The new code stays when its mail fails.
Issue(p) ==
  /\ code' = [code EXCEPT ![p] = NewCode(target[p], KindSent(p))]
  /\ issued' = Append(issued, p)
  /\ \/ Step(p, "issue", "done") /\ mailed' = mailed \cup {p}
     \/ Step(p, "issue", "failed") /\ UNCHANGED mailed
  /\ UNCHANGED <<user, memory>>

-----------------------------------------------------------------------------
(* PUT, PATCH me/ and POST me/change-password/, by an active account *)

Patched(row, patch) ==
  [row EXCEPT !.email = IF patch.email = Null THEN @ ELSE patch.email,
              !.username = IF patch.username = Null THEN @ ELSE patch.username,
              !.is_active = IF patch.is_active = Null THEN @ ELSE patch.is_active]

\* The serializer's UniqueValidators.
Rejected(u, patch) ==
  \E v \in Accounts \ {u} :
    user[v].email = patch.email \/ user[v].username = patch.username

\* A token is issued to an account that has a password or signed in by Google.
SignedIn(u) ==
  /\ u \in Accounts /\ user[u].is_active
  /\ user[u].is_email_verified \/ user[u].password # Null

MeLoad(p, u, patch) ==
  /\ SignedIn(u)
  /\ ~Rejected(u, patch)
  /\ Arrive(p, "me", "save_all", u, Patched(user[u], patch))
  /\ UNCHANGED <<record, held>>

ChangeLoad(p, u) ==
  /\ SignedIn(u) /\ user[u].password # Null
  /\ Arrive(p, "change_password", "set_password", u, user[u])
  /\ UNCHANGED <<record, held>>

\* save() writes every column of the object in memory.
SaveAll(p) ==
  LET u == target[p] IN
  /\ pc[p] = "save_all" /\ ~Locked(u, instance[p])
  /\ IF UniqueViolation(instance[p], u)
     THEN Step(p, "save_all", "failed") /\ UNCHANGED user
     ELSE Step(p, "save_all", "done") /\ user' = [user EXCEPT ![u] = instance[p]]
  /\ UNCHANGED <<code, issued, mailed, memory>>

-----------------------------------------------------------------------------
(* POST google/ *)

\* Mutant: signing in activates whatever account it finds.
Inactive(u) == ~user[u].is_active
Unverified(u) == ~user[u].is_email_verified

\* get_or_create finds the account, and activates it if it is unverified...
GoogleFinds(p, e) ==
  /\ \E u \in WithEmail(e) : Unverified(u) /\ Arrive(p, "google", "activate", u, user[u])
  /\ UNCHANGED <<record, held>>

\* ... or finds none.
GoogleMisses(p, e, uid) ==
  /\ WithEmail(e) = {}
  /\ Arrive(p, "google", "create", p, Row(e, uid, Null, TRUE, TRUE))
  /\ UNCHANGED <<record, held>>

\* A valid Firebase token names an e-mail and an account.
GoogleLoad(p, e) == GoogleFinds(p, e) \/ \E uid \in Uids : GoogleMisses(p, e, uid)

\* get_or_create inserts a row of defaults, or looks again if a key is taken, and
\* raises if it is the username that is.
GoogleCreate(p) ==
  LET e == instance[p].email
      row == Row(e, Blank, Null, TRUE, FALSE)
  IN
  /\ pc[p] = "create" /\ ~Locked(p, row)
  /\ \/ /\ ~UniqueViolation(row, p)
        /\ Step(p, "create", "save_all")
        /\ user' = [user EXCEPT ![p] = row]
        /\ UNCHANGED <<target, instance>>
     \/ \E u \in WithEmail(e) : \* a key of row is then taken
          /\ Step(p, "create", IF Unverified(u) THEN "activate" ELSE "done")
          /\ target' = [target EXCEPT ![p] = u]
          /\ instance' = [instance EXCEPT ![p] = user[u]]
          /\ UNCHANGED user
     \/ /\ UniqueViolation(row, p) /\ WithEmail(e) = {}
        /\ Step(p, "create", "failed")
        /\ UNCHANGED <<user, target, instance>>
  /\ UNCHANGED <<code, issued, mailed, record, held, doomed>>

\* The worker that serves p dies; an open transaction is rolled back.
Crash(p) ==
  /\ p \in InFlight
  /\ pc' = [pc EXCEPT ![p] = "crashed"]
  /\ doomed' = [doomed EXCEPT ![p] = {}]
  /\ UNCHANGED <<tables, endpoint, target, instance, record, held>>

-----------------------------------------------------------------------------

Load(p) ==
  \/ \E e \in Emails :
       \/ RegisterLoad(p, e)
       \/ ResendLoad(p, e)
       \/ ResetLoad(p, e)
       \/ \E otp \in Entered : VerifyLoad(p, e, otp) \/ ConfirmLoad(p, e, otp)
       \/ GoogleLoad(p, e)
  \/ \E u \in Ids : ChangeLoad(p, u) \/ \E patch \in Patches : MeLoad(p, u, patch)

Serve(p) ==
  \/ RegisterSave(p)
  \/ RegisterCommit(p)
  \/ CountAttempt(p)
  \/ BurnCode(p)
  \/ Activate(p)
  \/ SetPassword(p)
  \/ Invalidate(p)
  \/ Issue(p)
  \/ SaveAll(p)
  \/ GoogleCreate(p)

Next == \E p \in Requests : Load(p) \/ Serve(p) \/ Crash(p) \/ Age(p)

Spec == Init /\ [][Next]_vars

-----------------------------------------------------------------------------
(* Properties *)

\* A registration that was not answered 201, because a key was taken, the mail
\* failed or the worker died, leaves neither account nor password nor code.
RegistrationIsAtomic ==
  \A p \in Requests :
    endpoint[p] = "register" /\ pc[p] # "done" =>
      /\ code[p] = Null
      /\ \A u \in Accounts : u # p /\ user[u].password # p

\* Codes are invalidated and issued by separate statements, and the cooldown is
\* read before either, so several codes of one kind can be usable at a time;
\* but no more than there are threads to issue them.
LiveCodesBoundedByThreads ==
  \A u \in Ids, kind \in Kinds : Cardinality(Live(u, kind)) <= Workers

\* A code is checked before it is burnt, so two requests in flight together can
\* both redeem it; but none loads a code that another has redeemed already.
Redeemed(c) == {p \in Requests : record[p] = c /\ pc[p] \in {"activate", "set_password", "done"}}
NoLateRedemption ==
  [][\A p, c \in Requests : record'[p] = c /\ record[p] # c => Redeemed(c) = {}]_vars

\* A burnt or superseded code never becomes usable again, whatever save of a
\* request that had loaded it before is still to come.
UsedCodesStayUsed ==
  [][\A c \in Requests :
       code[c] # Null /\ code[c].is_used => code'[c] # Null /\ code'[c].is_used]_vars

\* An account that counts as verified was there before, signed in through
\* Google, or had a code entered that was mailed to it.
Evidence(u) ==
  \/ u \in Seeds
  \/ \E p \in Requests :
       /\ target[p] = u /\ pc[p] = "done"
       /\ \/ endpoint[p] = "google"
          \/ endpoint[p] = "verify_otp" /\ record[p] \in mailed
VerifiedHasEvidence == \A u \in Accounts : user[u].is_email_verified => Evidence(u)

\* A suspended account is made active again by no request that found it
\* suspended: only by one that had loaded it before.
SuspensionHolds ==
  [][\A u \in Accounts :
       user[u].is_email_verified /\ ~user[u].is_active /\ user'[u].is_active =>
         \E p \in Requests :
           /\ pc[p] # "done" /\ pc'[p] = "done" /\ target[p] = u
           /\ pc[p] = "activate" => ~instance[p].is_email_verified]_vars

\* The rows of the codes, without what only their checks see.
BookCode ==
  [c \in Requests |->
     IF code[c] = Null THEN Null
     ELSE [user |-> code[c].user, kind |-> code[c].kind, is_used |-> code[c].is_used]]

\* Google's token named the e-mail of u, and the account was there or inserted.
Vouched == {u \in Accounts : \E p \in Requests : endpoint[p] = "google" /\ target[p] = u}

Proven == {u \in Ids : Evidence(u)}

\* Passwords chosen for u by requests that succeeded, or before all.
Chosen(u) ==
  {w \in Ids :
     \/ w \in Seeds /\ w = u
     \/ /\ w \in Requests
        /\ target[w] = u /\ pc[w] = "done"
        /\ endpoint[w] \in {"register", "password_reset_confirm", "change_password"}}
ChosenBy == [u \in Ids |-> Chosen(u)]

Book == INSTANCE AccountBook WITH
  account <- user, code <- BookCode, vouched <- Vouched, proven <- Proven, chosen <- ChosenBy

\* Statement by statement, and whatever the interleaving, the requests make of
\* the tables what AccountBook promises.
ImplementsBook == Book!Spec

\* Hence, in the tables that the requests write, an e-mail or username names one
\* account, a password is that of the account it was chosen for, and a verified
\* account used up a code of its own or is one that Google vouched for.
BookIsSafe == Book!Safe

-----------------------------------------------------------------------------
(* The inductive invariant behind the safety properties *)

\* Which endpoints come by each point of the handlers.
Route(p) ==
  /\ pc[p] = "idle" => endpoint[p] = "none"
  /\ pc[p] \in {"save", "commit"} => endpoint[p] = "register"
  /\ pc[p] \in {"count", "burn"} => endpoint[p] \in {"verify_otp", "password_reset_confirm"}
  /\ pc[p] = "activate" => endpoint[p] \in {"verify_otp", "google"}
  /\ pc[p] = "set_password" => endpoint[p] \in {"password_reset_confirm", "change_password"}
  /\ pc[p] \in {"invalidate", "issue"} =>
       endpoint[p] \in {"resend_otp", "password_reset_request"}
  /\ pc[p] = "create" => endpoint[p] = "google"
  /\ pc[p] = "save_all" => endpoint[p] \in {"me", "google"}

\* A row or a code named p is there only once p has written it.
Written(p) ==
  /\ user[p] # Null =>
       \/ endpoint[p] = "register" /\ pc[p] = "done"
       \/ endpoint[p] = "google" /\ pc[p] \in {"save_all", "done", "failed", "crashed"}
  /\ code[p] # Null =>
       /\ pc[p] \in {"done", "failed"}
       /\ endpoint[p] = "register" => pc[p] = "done"

\* The object a request is to save.
Holds(p) ==
  /\ pc[p] \notin {"idle", "done", "failed", "crashed"} =>
       /\ target[p] \in Ids /\ instance[p] \in UserRow
       /\ pc[p] \notin {"save", "commit", "create"} => target[p] \in Accounts
  /\ pc[p] \in {"save", "commit"} =>
       /\ target[p] = p \/ target[p] \in Accounts
       /\ instance[p].password = p
       /\ ~instance[p].is_active /\ ~instance[p].is_email_verified
  /\ pc[p] = "activate" \/ (pc[p] = "burn" /\ endpoint[p] = "verify_otp") =>
       ~instance[p].is_email_verified
  /\ pc[p] = "create" => target[p] = p /\ instance[p].password = Null
  /\ pc[p] = "save_all" =>
       /\ instance[p].password \in Requests => pc[instance[p].password] = "done"
       /\ endpoint[p] = "me" /\ instance[p].is_email_verified => Evidence(target[p])

\* The codes a request has loaded or will invalidate.
Codes(p) ==
  /\ \A c \in doomed[p] : code[c] # Null
  /\ pc[p] \in {"count", "burn"} => record[p] # Null
  /\ pc[p] = "activate" /\ endpoint[p] = "verify_otp" => record[p] # Null
  /\ record[p] # Null =>
       /\ endpoint[p] \in {"verify_otp", "password_reset_confirm"}
       /\ code[record[p]] # Null
       /\ pc[p] \in {"burn", "activate", "set_password", "done"} => record[p] \in mailed
       /\ pc[p] \in {"activate", "set_password", "done"} => code[record[p]].is_used

\* A password in a row was chosen by a request that succeeded, or before all.
PasswordsAreSettled ==
  \A u \in Accounts : user[u].password \in Requests => pc[user[u].password] = "done"

IInv ==
  /\ TypeOK
  /\ \A p \in Requests : Route(p) /\ Written(p) /\ Holds(p) /\ Codes(p)
  /\ PasswordsAreSettled
  /\ VerifiedHasEvidence

-----------------------------------------------------------------------------
(* Statements of the documentation that the code does not live up to *)

\* "Accounts with is_email_verified = True are strictly unique": registering
\* again does not take the verification away.
VerifiedStaysVerified ==
  [][\A u \in Accounts :
       user[u].is_email_verified => user'[u].is_email_verified]_vars
=============================================================================

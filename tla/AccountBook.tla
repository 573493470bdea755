----------------------------- MODULE AccountBook ----------------------------
(***************************************************************************)
(* What the accounts API promises about its tables, whatever the           *)
(* interleaving of the requests behind it:                                 *)
(*                                                                         *)
(*   - a registration appears at once, the account with its password and   *)
(*     with a code to verify it, under an e-mail and username of its own;  *)
(*   - an account is verified at the cost of a verification code of its    *)
(*     own, or when Google vouches for its e-mail;                         *)
(*   - it gets a first password from a registration, or at the cost of a   *)
(*     reset code of its own, and a password is never another account's;   *)
(*   - saving a profile may bring back values the account had before, and  *)
(*     nothing else: neither another's password nor an unearned            *)
(*     verification;                                                       *)
(*   - a row never disappears, and a used code stays used.                 *)
(*                                                                         *)
(* Accounts, statement by statement, is shown to implement it.             *)
(***************************************************************************)
CONSTANTS
  Requests,  \* those that may create an account, issue a code or choose a password
  Emails,
  Seeds,     \* e-mails of accounts verified before the start
  Uids,      \* Google accounts
  Blank,     \* the username of an account that Google sign-in creates
  Null       \* no row, no password

VARIABLES
  account,   \* the User table
  code,      \* the codes: whose, of which kind, used or not
  vouched,   \* accounts whose e-mail a Google token named
  proven,    \* accounts that have been verified at some time
  chosen     \* passwords that have been chosen for each account

vars == <<account, code, vouched, proven, chosen>>

Ids == Requests \cup Seeds
Usernames == Emails \cup Uids \cup {Blank}
AccountRow == [email : Emails, username : Usernames, password : Ids \cup {Null},
               is_active : BOOLEAN, is_email_verified : BOOLEAN]

Exists(u) == account[u] # Null

\* No account but u has row's e-mail or username.
KeysFree(u, row) ==
  \A v \in Ids \ {u} :
    Exists(v) => account[v].email # row.email /\ account[v].username # row.username

\* The row of u is inserted or replaced, under keys that are free.
WritesRow(u) ==
  /\ account'[u] \in AccountRow
  /\ account' = [account EXCEPT ![u] = account'[u]]
  /\ KeysFree(u, account'[u])

CodesOf(u, kind) ==
  {c \in Requests : code[c] # Null /\ code[c].user = u /\ code[c].kind = kind}

\* A code of u has been burnt, or replaced by a newer one.
Spent(u, kind) == \E c \in CodesOf(u, kind) : code[c].is_used

Used(codes) ==
  [c \in Requests |-> IF c \in codes THEN [code[c] EXCEPT !.is_used = TRUE] ELSE code[c]]
Fresh(u, kind) == [user |-> u, kind |-> kind, is_used |-> FALSE]

Init ==
  /\ account = [u \in Ids |->
       IF u \in Seeds
       THEN [email |-> u, username |-> u, password |-> u, is_active |-> TRUE,
             is_email_verified |-> TRUE]
       ELSE Null]
  /\ code = [c \in Requests |-> Null]
  /\ vouched = {}
  /\ proven = Seeds
  /\ chosen = [u \in Ids |-> IF u \in Seeds THEN {u} ELSE {}]

\* Request p registers u, which is new or registers again.
Register(u, p) ==
  /\ code[p] = Null
  /\ Exists(u) \/ u = p
  /\ WritesRow(u)
  /\ account'[u].password = p
  /\ ~account'[u].is_active /\ ~account'[u].is_email_verified
  /\ \E codes \in SUBSET CodesOf(u, "verification") :
       code' = [Used(codes) EXCEPT ![p] = Fresh(u, "verification")]
  /\ \A v \in Ids : p \notin chosen[v]
  /\ chosen' = [chosen EXCEPT ![u] = @ \cup {p}]
  /\ UNCHANGED <<vouched, proven>>

\* Google sign-in inserts an account, which its next save completes.
SignUp(u) ==
  /\ ~Exists(u)
  /\ \E e \in Emails :
       LET row == [email |-> e, username |-> Blank, password |-> Null, is_active |-> TRUE,
                   is_email_verified |-> FALSE]
       IN  KeysFree(u, row) /\ account' = [account EXCEPT ![u] = row]
  /\ vouched' = vouched \cup {u}
  /\ UNCHANGED <<code, proven, chosen>>

Vouch(u) ==
  /\ Exists(u)
  /\ vouched' = vouched \cup {u}
  /\ UNCHANGED <<account, code, proven, chosen>>

Verify(u) ==
  /\ Exists(u)
  /\ u \in vouched \/ Spent(u, "verification")
  /\ account' = [account EXCEPT ![u].is_email_verified = TRUE, ![u].is_active = TRUE]
  /\ proven' = proven \cup {u}
  /\ UNCHANGED <<code, vouched, chosen>>

SetPassword(u, p) ==
  /\ Exists(u)
  /\ chosen[u] # {} \/ Spent(u, "reset")
  /\ \A v \in Ids : p \notin chosen[v]
  /\ account' = [account EXCEPT ![u].password = p]
  /\ chosen' = [chosen EXCEPT ![u] = @ \cup {p}]
  /\ UNCHANGED <<code, vouched, proven>>

\* All columns are written, from an object that may be stale.
SaveProfile(u) ==
  /\ Exists(u)
  /\ WritesRow(u)
  /\ account'[u].password \in chosen[u] \cup {Null}
  /\ account'[u].is_email_verified => u \in proven \cup vouched
  /\ proven' = IF account'[u].is_email_verified THEN proven \cup {u} ELSE proven
  /\ UNCHANGED <<code, vouched, chosen>>

\* Codes are burnt, or replaced.
Spend(u, kind) ==
  /\ \E codes \in SUBSET CodesOf(u, kind) : code' = Used(codes)
  /\ UNCHANGED <<account, vouched, proven, chosen>>

Issue(u, kind, p) ==
  /\ Exists(u)
  /\ code[p] = Null
  /\ code' = [code EXCEPT ![p] = Fresh(u, kind)]
  /\ UNCHANGED <<account, vouched, proven, chosen>>

Next ==
  \E u \in Ids :
    \/ SignUp(u)
    \/ Vouch(u)
    \/ Verify(u)
    \/ SaveProfile(u)
    \/ \E p \in Requests : Register(u, p) \/ SetPassword(u, p)
    \/ \E kind \in {"verification", "reset"} :
         Spend(u, kind) \/ \E p \in Requests : Issue(u, kind, p)

Spec == Init /\ [][Next]_vars

-----------------------------------------------------------------------------
(* What the book's operations amount to *)

\* An e-mail, and a username, names one account.
KeysAreUnique ==
  \A u, v \in Ids :
    Exists(u) /\ Exists(v) /\ u # v =>
      account[u].email # account[v].email /\ account[u].username # account[v].username

\* The password of an account was chosen for it, and for no other account.
PasswordsAreOwn ==
  /\ \A u \in Ids : Exists(u) => account[u].password \in chosen[u] \cup {Null}
  /\ \A u, v \in Ids : u # v => chosen[u] \cap chosen[v] = {}

\* A verification cost a code of the account's own, or is on Google's word.
Paid(u) == u \in Seeds \cup vouched \/ Spent(u, "verification")
VerificationsArePaid == \A u \in Ids : Exists(u) /\ account[u].is_email_verified => Paid(u)

\* Whatever the order of the operations, and however stale a profile saved.
Safe == KeysAreUnique /\ PasswordsAreOwn /\ VerificationsArePaid
=============================================================================

------------------------- MODULE AccountBook_proofs -------------------------
(***************************************************************************)
(* What the operations of the account book amount to, in any order: unique *)
(* keys, passwords that belong to their accounts, verifications that were  *)
(* paid for.  Accounts_proofs carries it over to the requests.             *)
(***************************************************************************)
EXTENDS AccountBook, TLAPS

CodeEntry == [user : Ids, kind : {"verification", "reset"}, is_used : BOOLEAN]

\* "No row" is not a row.
NullIsNoRow == Null \notin AccountRow \cup CodeEntry
BookAssumption == NullIsNoRow /\ Seeds \subseteq Emails

TypeOK ==
  /\ account \in [Ids -> AccountRow \cup {Null}]
  /\ code \in [Requests -> CodeEntry \cup {Null}]
  /\ chosen \in [Ids -> SUBSET Ids]

\* A stale profile may bring a verification back, so it is what has once been
\* verified that must have been paid for.
IInv ==
  /\ TypeOK
  /\ KeysAreUnique
  /\ PasswordsAreOwn
  /\ \A u \in proven : Paid(u)
  /\ \A u \in Ids : Exists(u) /\ account[u].is_email_verified => u \in proven

LEMMA UsedType ==
  ASSUME NullIsNoRow, TypeOK, NEW codes \in SUBSET Requests, \A c \in codes : code[c] # Null
  PROVE  /\ Used(codes) \in [Requests -> CodeEntry \cup {Null}]
         /\ \A c \in Requests :
              code[c] # Null =>
                /\ Used(codes)[c] # Null
                /\ Used(codes)[c].user = code[c].user /\ Used(codes)[c].kind = code[c].kind
                /\ code[c].is_used => Used(codes)[c].is_used
<1>1. ASSUME NEW c \in Requests, code[c] # Null
      PROVE  /\ Used(codes)[c] \in CodeEntry
             /\ Used(codes)[c].user = code[c].user /\ Used(codes)[c].kind = code[c].kind
             /\ code[c].is_used => Used(codes)[c].is_used
  BY <1>1 DEF Used, TypeOK, CodeEntry
<1>2. \A c \in Requests : code[c] = Null => Used(codes)[c] = Null
  BY DEF Used
<1>3. Used(codes) = [c \in Requests |-> Used(codes)[c]]
  BY DEF Used
<1>4. Used(codes) \in [Requests -> CodeEntry \cup {Null}]
  BY <1>1, <1>2, <1>3
<1> QED
  BY <1>1, <1>4 DEF NullIsNoRow

\* How the codes change: some are used, one may be new.
CodesChange ==
  \E codes \in SUBSET Requests :
    /\ \A c \in codes : code[c] # Null
    /\ \/ code' = Used(codes)
       \/ \E p \in Requests, u \in Ids, kind \in {"verification", "reset"} :
            code[p] = Null /\ code' = [Used(codes) EXCEPT ![p] = Fresh(u, kind)]

\* A code spent stays spent.
LEMMA CodesNext ==
  ASSUME NullIsNoRow, TypeOK, CodesChange
  PROVE  /\ code' \in [Requests -> CodeEntry \cup {Null}]
         /\ \A u, kind : Spent(u, kind) => Spent(u, kind)'
<1>1. PICK codes \in SUBSET Requests :
        /\ \A c \in codes : code[c] # Null
        /\ \/ code' = Used(codes)
           \/ \E p \in Requests, u \in Ids, kind \in {"verification", "reset"} :
                code[p] = Null /\ code' = [Used(codes) EXCEPT ![p] = Fresh(u, kind)]
  BY DEF CodesChange
<1>2. \A u \in Ids, kind \in {"verification", "reset"} : Fresh(u, kind) \in CodeEntry
  BY DEF Fresh, CodeEntry
<1>3. code' \in [Requests -> CodeEntry \cup {Null}]
  BY <1>1, <1>2, UsedType
<1>4. ASSUME NEW c \in Requests, code[c] # Null
      PROVE  /\ code'[c] # Null /\ code'[c].user = code[c].user /\ code'[c].kind = code[c].kind
             /\ code[c].is_used => code'[c].is_used
  <2>1. code'[c] = Used(codes)[c]
    BY <1>1, <1>4 DEF Used
  <2> QED
    BY <1>1, <1>4, <2>1, UsedType
<1>5. ASSUME NEW u, NEW kind, Spent(u, kind)
      PROVE  Spent(u, kind)'
  BY <1>4, <1>5 DEF Spent, CodesOf
<1> QED
  BY <1>3, <1>5

\* A row is inserted or replaced under free keys.
LEMMA RowWritten ==
  ASSUME NullIsNoRow, TypeOK, KeysAreUnique, NEW u \in Ids, NEW row \in AccountRow,
         account' = [account EXCEPT ![u] = row], KeysFree(u, row)
  PROVE  /\ account' \in [Ids -> AccountRow \cup {Null}] /\ KeysAreUnique'
         /\ account'[u] = row /\ \A v \in Ids \ {u} : account'[v] = account[v]
<1>1. /\ account' \in [Ids -> AccountRow \cup {Null}]
      /\ account'[u] = row /\ \A v \in Ids \ {u} : account'[v] = account[v]
  BY DEF TypeOK
<1>2. KeysAreUnique'
  BY <1>1 DEF KeysAreUnique, KeysFree, Exists
<1> QED
  BY <1>1, <1>2

\* The invariant holds of the seeded table.
LEMMA InvariantInit == BookAssumption /\ Init => IInv
<1> SUFFICES ASSUME BookAssumption, Init PROVE IInv
  OBVIOUS
<1> DEFINE row(u) == [email |-> u, username |-> u, password |-> u, is_active |-> TRUE,
                      is_email_verified |-> TRUE]
<1>1. \A u \in Seeds : row(u) \in AccountRow
  <2>1. ASSUME NEW u \in Seeds
        PROVE  u \in Emails /\ u \in Usernames /\ u \in Ids \cup {Null}
    BY DEF BookAssumption, Usernames, Ids
  <2> QED
    BY <2>1 DEF AccountRow
<1>2. \A u \in Ids : account[u] = IF u \in Seeds THEN row(u) ELSE Null
  BY DEF Init
<1>r. \A u \in Seeds : row(u).email = u /\ row(u).username = u /\ row(u).password = u
  OBVIOUS
<1> HIDE DEF row
<1>3. \A u \in Seeds :
        account[u].email = u /\ account[u].username = u /\ account[u].password = u
  BY <1>2, <1>r DEF Ids
<1>4. TypeOK
  <2>1. account \in [Ids -> AccountRow \cup {Null}]
    BY <1>1, <1>2 DEF Init
  <2>2. code \in [Requests -> CodeEntry \cup {Null}] /\ chosen \in [Ids -> SUBSET Ids]
    BY DEF Init, Ids
  <2> QED
    BY <2>1, <2>2 DEF TypeOK
<1>5. \A u \in Ids : Exists(u) => u \in Seeds
  BY <1>2 DEF Exists
<1>6. KeysAreUnique
  BY <1>3, <1>5 DEF KeysAreUnique
<1>7. PasswordsAreOwn
  BY <1>3, <1>5 DEF PasswordsAreOwn, Init
<1>8. \A u \in proven : Paid(u)
  BY DEF Init, Paid
<1> QED
  BY <1>4, <1>5, <1>6, <1>7, <1>8 DEF IInv, Init

\* What is paid for stays paid for.
LEMMA PaidNext ==
  ASSUME NullIsNoRow, TypeOK, CodesChange \/ UNCHANGED code, vouched \subseteq vouched'
  PROVE  \A u : Paid(u) => Paid(u)'
<1>1. \A u, kind : Spent(u, kind) => Spent(u, kind)'
  BY CodesNext DEF Spent, CodesOf
<1> QED
  BY <1>1 DEF Paid

\* Codes burnt or replaced, and a code issued, change the table of codes so.
LEMMA SpendChanges ==
  ASSUME NEW u \in Ids, NEW kind \in {"verification", "reset"},
         NEW codes \in SUBSET CodesOf(u, kind),
         \/ code' = Used(codes)
         \/ \E p \in Requests :
              code[p] = Null /\ code' = [Used(codes) EXCEPT ![p] = Fresh(u, kind)]
  PROVE  CodesChange
BY DEF CodesChange, CodesOf

LEMMA IssueChanges ==
  ASSUME TypeOK, NEW u \in Ids, NEW kind \in {"verification", "reset"}, NEW p \in Requests,
         code[p] = Null, code' = [code EXCEPT ![p] = Fresh(u, kind)]
  PROVE  CodesChange
<1>1. Used({}) = code
  BY DEF Used, TypeOK
<1> QED
  BY <1>1 DEF CodesChange

\* An operation that leaves the rows alone.
LEMMA RowsKept ==
  ASSUME BookAssumption, IInv, UNCHANGED <<account, proven, chosen>>,
         CodesChange \/ UNCHANGED code, vouched \subseteq vouched'
  PROVE  IInv'
<1>1. code' \in [Requests -> CodeEntry \cup {Null}]
  BY CodesNext DEF BookAssumption, IInv, TypeOK
<1>2. \A u : Paid(u) => Paid(u)'
  BY PaidNext DEF BookAssumption, IInv
<1> QED
  BY <1>1, <1>2 DEF IInv, TypeOK, KeysAreUnique, PasswordsAreOwn, Exists

\* Every operation of the book keeps the invariant.
LEMMA InvariantNext == BookAssumption /\ IInv /\ [Next]_vars => IInv'
<1> SUFFICES ASSUME BookAssumption, IInv, [Next]_vars PROVE IInv'
  OBVIOUS
<1> USE DEF BookAssumption
<1>t. TypeOK /\ KeysAreUnique /\ PasswordsAreOwn
  BY DEF IInv
<1>1. ASSUME NEW u \in Ids, NEW p \in Requests, Register(u, p)
      PROVE  IInv'
  <2>1. PICK codes \in SUBSET CodesOf(u, "verification") :
          code' = [Used(codes) EXCEPT ![p] = Fresh(u, "verification")]
    BY <1>1 DEF Register
  <2>2. CodesChange
    <3>1. code[p] = Null
      BY <1>1 DEF Register
    <3> QED
      BY <2>1, <3>1, SpendChanges
  <2>3. code' \in [Requests -> CodeEntry \cup {Null}]
    BY <2>2, <1>t, CodesNext
  <2>4. \A v : Paid(v) => Paid(v)'
    BY <1>1, <2>2, <1>t, PaidNext DEF Register
  <2>5. PICK row \in AccountRow :
          /\ account' = [account EXCEPT ![u] = row] /\ KeysFree(u, row)
          /\ account'[u] = row
    <3>1. WritesRow(u)
      BY <1>1 DEF Register
    <3> QED
      BY <3>1 DEF WritesRow
  <2>6. /\ account' \in [Ids -> AccountRow \cup {Null}] /\ KeysAreUnique'
        /\ \A v \in Ids \ {u} : account'[v] = account[v]
    BY <2>5, <1>t, RowWritten
  <2>7. p \in Ids /\ chosen' \in [Ids -> SUBSET Ids]
    BY <1>1, <1>t DEF Register, TypeOK, Ids
  <2>8. PasswordsAreOwn'
    <3>1. chosen'[u] = chosen[u] \cup {p} /\ \A v \in Ids \ {u} : chosen'[v] = chosen[v]
      BY <1>1, <1>t DEF Register, TypeOK
    <3>2. account'[u].password = p /\ \A v \in Ids : p \notin chosen[v]
      BY <1>1 DEF Register
    <3> QED
      BY <3>1, <3>2, <2>6, <1>t DEF PasswordsAreOwn, Exists
  <2>9. \A v \in Ids : Exists(v)' /\ account'[v].is_email_verified => v \in proven'
    BY <1>1, <2>6 DEF IInv, Register, Exists
  <2>10. proven' = proven
    BY <1>1 DEF Register
  <2> QED
    BY <2>3, <2>4, <2>6, <2>7, <2>8, <2>9, <2>10 DEF IInv, TypeOK
<1>2. ASSUME NEW u \in Ids, SignUp(u)
      PROVE  IInv'
  <2>1. PICK e \in Emails :
          /\ KeysFree(u, [email |-> e, username |-> Blank, password |-> Null,
                          is_active |-> TRUE, is_email_verified |-> FALSE])
          /\ account' = [account EXCEPT ![u] =
               [email |-> e, username |-> Blank, password |-> Null, is_active |-> TRUE,
                is_email_verified |-> FALSE]]
    BY <1>2 DEF SignUp
  <2>2. PICK row \in AccountRow :
          /\ KeysFree(u, row) /\ account' = [account EXCEPT ![u] = row]
          /\ row.password = Null /\ row.is_email_verified = FALSE
    <3> DEFINE row == [email |-> e, username |-> Blank, password |-> Null, is_active |-> TRUE,
                       is_email_verified |-> FALSE]
    <3>1. row \in AccountRow
      BY DEF AccountRow, Usernames
    <3>2. row.password = Null /\ row.is_email_verified = FALSE
      OBVIOUS
    <3> QED
      BY <2>1, <3>1, <3>2
  <2>3. /\ account' \in [Ids -> AccountRow \cup {Null}] /\ KeysAreUnique'
        /\ account'[u] = row /\ \A v \in Ids \ {u} : account'[v] = account[v]
    BY <2>2, <1>t, RowWritten
  <2>4. \A v : Paid(v) => Paid(v)'
    BY <1>2, <1>t, PaidNext DEF SignUp
  <2>5. PasswordsAreOwn'
    BY <1>2, <2>2, <2>3, <1>t DEF SignUp, PasswordsAreOwn, Exists
  <2>6. \A v \in Ids : Exists(v)' /\ account'[v].is_email_verified => v \in proven'
    BY <1>2, <2>2, <2>3 DEF IInv, SignUp, Exists
  <2> QED
    BY <1>2, <2>3, <2>4, <2>5, <2>6 DEF IInv, TypeOK, SignUp
<1>3. ASSUME NEW u \in Ids, Vouch(u)
      PROVE  IInv'
  BY <1>3, RowsKept DEF Vouch
<1>4. ASSUME NEW u \in Ids, Verify(u)
      PROVE  IInv'
  <2>1. PICK row \in AccountRow :
          /\ account' = [account EXCEPT ![u] = row]
          /\ row.email = account[u].email /\ row.username = account[u].username
          /\ row.password = account[u].password
    <3>1. account[u] \in AccountRow
      BY <1>4, <1>t DEF Verify, TypeOK, Exists
    <3> DEFINE row == [account[u] EXCEPT !.is_email_verified = TRUE, !.is_active = TRUE]
    <3>2. row \in AccountRow
      BY <3>1 DEF AccountRow
    <3>3. /\ row.email = account[u].email /\ row.username = account[u].username
          /\ row.password = account[u].password
      BY <3>1 DEF AccountRow
    <3>4. account' = [account EXCEPT ![u] = row]
      BY <1>4 DEF Verify
    <3> QED
      BY <3>2, <3>3, <3>4
  <2>2. KeysFree(u, row)
    BY <1>4, <2>1, <1>t DEF Verify, KeysFree, KeysAreUnique
  <2>3. /\ account' \in [Ids -> AccountRow \cup {Null}] /\ KeysAreUnique'
        /\ account'[u] = row /\ \A v \in Ids \ {u} : account'[v] = account[v]
    BY <2>1, <2>2, <1>t, RowWritten
  <2>4. Paid(u) /\ \A v : Paid(v) => Paid(v)'
    BY <1>4, <1>t, PaidNext DEF Verify, Paid
  <2>5. PasswordsAreOwn'
    BY <1>4, <2>1, <2>3, <1>t DEF Verify, PasswordsAreOwn, Exists
  <2> QED
    BY <1>4, <2>3, <2>4, <2>5 DEF IInv, TypeOK, Verify, Exists
<1>5. ASSUME NEW u \in Ids, NEW p \in Requests, SetPassword(u, p)
      PROVE  IInv'
  <2>1. PICK row \in AccountRow :
          /\ account' = [account EXCEPT ![u] = row]
          /\ row.email = account[u].email /\ row.username = account[u].username
          /\ row.password = p /\ row.is_email_verified = account[u].is_email_verified
    <3>1. account[u] \in AccountRow
      BY <1>5, <1>t DEF SetPassword, TypeOK, Exists
    <3> DEFINE row == [account[u] EXCEPT !.password = p]
    <3>2. row \in AccountRow
      BY <3>1 DEF AccountRow, Ids
    <3>3. /\ row.email = account[u].email /\ row.username = account[u].username
          /\ row.password = p /\ row.is_email_verified = account[u].is_email_verified
      BY <3>1 DEF AccountRow
    <3>4. account' = [account EXCEPT ![u] = row]
      BY <1>5 DEF SetPassword
    <3> QED
      BY <3>2, <3>3, <3>4
  <2>2. KeysFree(u, row)
    BY <1>5, <2>1, <1>t DEF SetPassword, KeysFree, KeysAreUnique
  <2>3. /\ account' \in [Ids -> AccountRow \cup {Null}] /\ KeysAreUnique'
        /\ account'[u] = row /\ \A v \in Ids \ {u} : account'[v] = account[v]
    BY <2>1, <2>2, <1>t, RowWritten
  <2>4. \A v : Paid(v) => Paid(v)'
    BY <1>5, <1>t, PaidNext DEF SetPassword
  <2>5. chosen' \in [Ids -> SUBSET Ids]
    BY <1>5, <1>t DEF SetPassword, TypeOK, Ids
  <2>6. PasswordsAreOwn'
    <3>1. chosen'[u] = chosen[u] \cup {p} /\ \A v \in Ids \ {u} : chosen'[v] = chosen[v]
      BY <1>5, <1>t DEF SetPassword, TypeOK
    <3>2. \A v \in Ids : p \notin chosen[v]
      BY <1>5 DEF SetPassword
    <3> QED
      BY <3>1, <3>2, <2>1, <2>3, <1>t DEF PasswordsAreOwn, Exists
  <2>7. \A v \in Ids : Exists(v)' /\ account'[v].is_email_verified => v \in proven'
    BY <1>5, <2>1, <2>3 DEF IInv, SetPassword, Exists
  <2> QED
    BY <1>5, <2>3, <2>4, <2>5, <2>6, <2>7 DEF IInv, TypeOK, SetPassword
<1>6. ASSUME NEW u \in Ids, SaveProfile(u)
      PROVE  IInv'
  <2>1. PICK row \in AccountRow :
          /\ account' = [account EXCEPT ![u] = row] /\ KeysFree(u, row)
          /\ account'[u] = row
    BY <1>6 DEF SaveProfile, WritesRow
  <2>2. /\ account' \in [Ids -> AccountRow \cup {Null}] /\ KeysAreUnique'
        /\ \A v \in Ids \ {u} : account'[v] = account[v]
    BY <2>1, <1>t, RowWritten
  <2>3. \A v : Paid(v) => Paid(v)'
    BY <1>6, <1>t, PaidNext DEF SaveProfile
  <2>4. PasswordsAreOwn'
    BY <1>6, <2>1, <2>2, <1>t DEF SaveProfile, PasswordsAreOwn, Exists
  <2>5. \A v \in proven' : Paid(v)'
    BY <1>6, <2>3 DEF SaveProfile, IInv, Paid
  <2>6. \A v \in Ids : Exists(v)' /\ account'[v].is_email_verified => v \in proven'
    BY <1>6, <2>1, <2>2 DEF SaveProfile, IInv, Exists
  <2> QED
    BY <1>6, <2>2, <2>4, <2>5, <2>6, <1>t DEF IInv, TypeOK, SaveProfile
<1>7. ASSUME NEW u \in Ids, NEW kind \in {"verification", "reset"}, Spend(u, kind)
      PROVE  IInv'
  <2>1. CodesChange
    BY <1>7, SpendChanges DEF Spend
  <2> QED
    BY <1>7, <2>1, RowsKept DEF Spend
<1>8. ASSUME NEW u \in Ids, NEW kind \in {"verification", "reset"}, NEW p \in Requests,
             Issue(u, kind, p)
      PROVE  IInv'
  <2>1. CodesChange
    BY <1>8, <1>t, IssueChanges DEF Issue
  <2> QED
    BY <1>8, <2>1, RowsKept DEF Issue
<1>9. CASE UNCHANGED vars
  BY <1>9, RowsKept DEF vars
<1> QED
  BY <1>1, <1>2, <1>3, <1>4, <1>5, <1>6, <1>7, <1>8, <1>9 DEF Next

\* In every state the book can be in, keys are unique, passwords are own and
\* verifications are paid for.
THEOREM Safety == BookAssumption /\ Spec => []Safe
<1>1. BookAssumption /\ Init => IInv
  BY InvariantInit
<1>2. BookAssumption /\ IInv /\ [Next]_vars => IInv'
  BY InvariantNext
<1>3. BookAssumption => []BookAssumption
  <2>1. BookAssumption <=> BookAssumption'
    BY DEF BookAssumption, NullIsNoRow, AccountRow, CodeEntry, Ids, Usernames
  <2> QED
    BY <2>1, PTL
<1>4. IInv => Safe
  BY DEF IInv, Safe, VerificationsArePaid
<1> QED
  BY <1>1, <1>2, <1>3, <1>4, PTL DEF Spec
=============================================================================

----------------------------- MODULE MCAccounts -----------------------------
(***************************************************************************)
(* Instances of Accounts for TLC: bodies of profile edits, symmetry.       *)
(***************************************************************************)
EXTENDS Accounts, TLC

Body(e, is_active) == [email |-> e, username |-> Null, is_active |-> is_active]

\* An edit of the names, a suspension, a change of e-mail.
SomePatches == {Body(Null, Null), Body(Null, FALSE)} \cup {Body(e, Null) : e \in Emails \ Seeds}

AccountSymmetry ==
  Permutations(Requests) \cup Permutations(Emails \ Seeds) \cup Permutations(Uids)
=============================================================================

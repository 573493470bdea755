--------------------------- MODULE ScriptDownload ---------------------------
(***************************************************************************)
(* Single-use download tokens (apps/scripts): script executions, the       *)
(* tokens issued for them or for a router, and GET .../download/{token}/,  *)
(* which a router fetches and which "burns" the token it reads.            *)
(*                                                                         *)
(* A request is a process that a gunicorn thread serves; its actions are   *)
(* its visits to the database.  A token is the request that issued it.     *)
(* What a script says is known by the request that last wrote the          *)
(* variables of the execution, Null as it was dispatched.  Rendering, file *)
(* names and templates, which only the admin edits, are left out; so is    *)
(* who may do what, but for a token request being refused.                 *)
(***************************************************************************)
EXTENDS Naturals, FiniteSets

CONSTANTS
  Executions,     \* primary keys of RouterScriptExecution
  Generators,     \* requests POST /api/scripts/executions/{id}/generate-token/
  Bootstrappers,  \* requests POST /api/routers/{id}/generate-bootstrap-token/
  Editors,        \* requests PUT or PATCH /api/scripts/executions/{id}/
  Destroyers,     \* requests DELETE /api/scripts/executions/{id}/
  Downloaders,    \* requests GET /api/scripts/download/{token}/
  Workers,        \* threads, over all gunicorn workers
  Null

Tokens == Generators \cup Bootstrappers
Loaders == Generators \cup Editors \cup Destroyers
Requests == Loaders \cup Bootstrappers \cup Downloaders
Content == Editors \cup {Null}

ASSUME RequestsAssumption ==
  /\ IsFiniteSet(Requests)
  /\ Generators \cap (Editors \cup Destroyers) = {}
  /\ Editors \cap Destroyers = {}
  /\ Bootstrappers \cap Loaders = {}
  /\ Downloaders \cap (Loaders \cup Bootstrappers) = {}

ASSUME WorkersAssumption == Workers \in Nat \ {0}

ASSUME NullAssumption == Null \notin Requests \cup Executions

VARIABLES
  execution,    \* the row of each execution: "none", "stored" or "deleted"
  content,      \* what each execution renders to
  issued,       \* tokens in the table
  linked,       \* ScriptDownloadToken.execution, or Null
  snapshot,     \* the variables copied into each token
  is_consumed,  \* tokens burnt
  expired,      \* tokens past expires_at
  pc,           \* where each request stands
  instance,     \* the execution a request loaded, and what it rendered to then
  token_record, \* the token a download loaded, and its execution then
  script        \* what a download was served

tokens == <<issued, linked, snapshot, is_consumed, expired>>
vars == <<execution, content, tokens, pc, instance, token_record, script>>

Instance == [pk : Executions, content : Content]
TokenRecord == [token : Tokens, execution : Executions \cup {Null}]

TypeOK ==
  /\ execution \in [Executions -> {"none", "stored", "deleted"}]
  /\ content \in [Executions -> Content]
  /\ issued \subseteq Tokens
  /\ linked \in [Tokens -> Executions \cup {Null}]
  /\ snapshot \in [Tokens -> Content]
  /\ is_consumed \subseteq issued
  /\ expired \subseteq issued
  /\ pc \in [Requests -> {"idle", "issue", "save", "delete", "burn", "render",
                          "done", "served", "failed", "crashed"}]
  /\ instance \in [Loaders -> Instance \cup {Null}]
  /\ token_record \in [Downloaders -> TokenRecord \cup {Null}]
  /\ script \in [Downloaders -> Content]

Init ==
  /\ execution = [e \in Executions |-> "none"]
  /\ content = [e \in Executions |-> Null]
  /\ issued = {}
  /\ linked = [t \in Tokens |-> Null]
  /\ snapshot = [t \in Tokens |-> Null]
  /\ is_consumed = {}
  /\ expired = {}
  /\ pc = [p \in Requests |-> "idle"]
  /\ instance = [p \in Loaders |-> Null]
  /\ token_record = [p \in Downloaders |-> Null]
  /\ script = [p \in Downloaders |-> Null]

-----------------------------------------------------------------------------
(* Requests and their threads *)

InFlight ==
  {p \in Requests : pc[p] \in {"issue", "save", "delete", "burn", "render"}}

Step(p, from, to) == pc[p] = from /\ pc' = [pc EXCEPT ![p] = to]

\* A free thread picks p up.
Arrive(p, to) ==
  /\ Cardinality(InFlight) < Workers
  /\ Step(p, "idle", to)

-----------------------------------------------------------------------------
(* Executions *)

\* RouterScriptExecutionViewSet.create
Dispatch(e) ==
  /\ execution[e] = "none"
  /\ execution' = [execution EXCEPT ![e] = "stored"]
  /\ UNCHANGED <<content, tokens, pc, instance, token_record, script>>

\* get_object
Load(p, e, to) ==
  /\ execution[e] = "stored"
  /\ Arrive(p, to)
  /\ instance' = [instance EXCEPT ![p] = [pk |-> e, content |-> content[e]]]
  /\ UNCHANGED <<execution, content, tokens, token_record, script>>

\* save() writes every column of the object loaded; where the row has been
\* deleted it is inserted again.
EditSave(p, edited) ==
  LET e == instance[p].pk IN
  /\ Step(p, "save", "done")
  /\ execution' = [execution EXCEPT ![e] = "stored"]
  /\ content' = [content EXCEPT ![e] = IF edited THEN p ELSE instance[p].content]
  /\ UNCHANGED <<tokens, instance, token_record, script>>

\* The row goes, and its tokens are unlinked (on_delete=SET_NULL).
DestroyDelete(p) ==
  LET e == instance[p].pk IN
  /\ Step(p, "delete", "done")
  /\ execution' = [execution EXCEPT ![e] = "deleted"]
  /\ linked' = [t \in Tokens |-> IF linked[t] = e THEN Null ELSE linked[t]]
  /\ UNCHANGED <<content, issued, snapshot, is_consumed, expired, instance,
                 token_record, script>>

-----------------------------------------------------------------------------
(* Tokens *)

\* generate_token for an execution; its foreign key fails if the row is gone.
TokenIssue(p) ==
  LET e == instance[p].pk IN
  /\ Step(p, "issue", IF execution[e] = "stored" THEN "done" ELSE "failed")
  /\ IF execution[e] = "stored"
     THEN /\ issued' = issued \cup {p}
          /\ linked' = [linked EXCEPT ![p] = e]
          /\ snapshot' = [snapshot EXCEPT ![p] = instance[p].content]
     ELSE UNCHANGED <<issued, linked, snapshot>>
  /\ UNCHANGED <<execution, content, is_consumed, expired, instance,
                 token_record, script>>

\* generate_bootstrap_token: no execution, the variables of the request.
TokenForRouter(p) ==
  /\ Arrive(p, "done")
  /\ issued' = issued \cup {p}
  /\ UNCHANGED <<execution, content, linked, snapshot, is_consumed, expired,
                 instance, token_record, script>>

Expire(t) ==
  /\ t \in issued \ expired
  /\ expired' = expired \cup {t}
  /\ UNCHANGED <<execution, content, issued, linked, snapshot, is_consumed, pc,
                 instance, token_record, script>>

-----------------------------------------------------------------------------
(* download_script *)

\* Mutants: an unknown token is not turned away; only the time is looked at.
IsNotSpent(t) == t \notin is_consumed \cup expired
IsUnexpired(t) == t \in issued \ expired

IsValid(t) == t \in issued \ (is_consumed \cup expired)

\* objects.get and is_valid
DownloadLoad(p, t) ==
  /\ Arrive(p, IF IsValid(t) THEN "burn" ELSE "failed")
  /\ token_record' = [token_record EXCEPT ![p] = [token |-> t, execution |-> linked[t]]]
  /\ UNCHANGED <<execution, content, tokens, instance, script>>

\* Mutant: burn() sets is_consumed and does not save it.
DownloadBurnUnsaved(p) ==
  /\ Step(p, "burn", "render")
  /\ UNCHANGED <<execution, content, tokens, instance, token_record, script>>

\* burn(), whatever the row holds by now.
DownloadBurn(p) ==
  /\ Step(p, "burn", "render")
  /\ is_consumed' = is_consumed \cup {token_record[p].token}
  /\ UNCHANGED <<execution, content, issued, linked, snapshot, expired, instance,
                 token_record, script>>

\* Mutant: without an execution the template gets no variables.
DownloadRenderBare(p) ==
  LET e == token_record[p].execution IN
  /\ Step(p, "render", "served")
  /\ e # Null => execution[e] = "stored"
  /\ script' = [script EXCEPT ![p] = IF e = Null THEN Null ELSE content[e]]
  /\ UNCHANGED <<execution, content, tokens, instance, token_record>>

\* rendered_content reads the linked execution, or the token's own variables.
DownloadRender(p) ==
  LET t == token_record[p].token
      e == token_record[p].execution IN
  /\ Step(p, "render", "served")
  /\ e # Null => execution[e] = "stored"
  /\ script' = [script EXCEPT ![p] = IF e = Null THEN snapshot[t] ELSE content[e]]
  /\ UNCHANGED <<execution, content, tokens, instance, token_record>>

\* The execution has been deleted, or the template does not render.
DownloadRenderFails(p) ==
  /\ Step(p, "render", "failed")
  /\ UNCHANGED <<execution, content, tokens, instance, token_record, script>>

\* The worker that serves p dies.
Crash(p) ==
  /\ p \in InFlight
  /\ pc' = [pc EXCEPT ![p] = "crashed"]
  /\ UNCHANGED <<execution, content, tokens, instance, token_record, script>>

-----------------------------------------------------------------------------

\* A token request is refused to others than the router's owner and staff.
Next ==
  \/ \E e \in Executions : Dispatch(e)
  \/ \E p \in Generators :
       \/ \E e \in Executions, to \in {"issue", "failed"} : Load(p, e, to)
       \/ TokenIssue(p)
  \/ \E p \in Editors :
       \/ \E e \in Executions : Load(p, e, "save")
       \/ \E edited \in BOOLEAN : EditSave(p, edited)
  \/ \E p \in Destroyers : DestroyDelete(p) \/ \E e \in Executions : Load(p, e, "delete")
  \/ \E p \in Bootstrappers : TokenForRouter(p)
  \/ \E t \in Tokens : Expire(t)
  \/ \E p \in Downloaders :
       \/ \E t \in Tokens : DownloadLoad(p, t)
       \/ DownloadBurn(p)
       \/ DownloadRender(p)
       \/ DownloadRenderFails(p)
  \/ \E p \in Requests : Crash(p)

Spec == Init /\ [][Next]_vars

-----------------------------------------------------------------------------
(* Properties *)

ServedWith(t) ==
  {p \in Downloaders : pc[p] = "served" /\ token_record[p].token = t}

\* A token can be served more than once, but only by downloads that the threads
\* had all taken in before the first of them burnt it: never more times than
\* there are threads, whatever else fails, dies or is edited.
ServedBoundedByThreads ==
  \A t \in Tokens : Cardinality(ServedWith(t)) <= Workers

\* "Subsequent retrieval attempts return HTTP 410": a download that comes after
\* one was served with the same token is turned away.
NoReadAfterServing ==
  [][\A p, q \in Downloaders :
       /\ pc[p] = "idle" /\ pc'[p] = "burn"
       /\ pc[q] = "served"
       => token_record'[p].token # token_record[q].token]_vars

\* What is served is the script the token was issued for, or what an edit of the
\* execution it was issued for wrote, a stale one that undoes another included;
\* once the execution is deleted, it is the token's own copy.
ServedAsIssuedOrEdited ==
  \A p \in Downloaders :
    pc[p] = "served" =>
      \/ script[p] = snapshot[token_record[p].token]
      \/ \E w \in Editors :
           /\ pc[w] = "done" /\ instance[w].pk = token_record[p].execution
           /\ script[p] \in {w, instance[w].content}

-----------------------------------------------------------------------------
(* The inductive invariant behind them *)

LoaderControl(p) ==
  /\ pc[p] \in {"issue", "save", "delete"} => instance[p] \in Instance
  /\ pc[p] \notin {"burn", "render", "served"}

\* Only a token of the table is read, and it is burnt before it is rendered.
DownloadControl(p) ==
  /\ pc[p] \in {"burn", "render", "served"} =>
       token_record[p] \in TokenRecord /\ token_record[p].token \in issued
  /\ pc[p] \in {"render", "served"} => token_record[p].token \in is_consumed
  /\ pc[p] \notin {"issue", "save", "delete"}

\* Downloads let in with t, or served it.
Admitted(t) ==
  {p \in Downloaders :
     pc[p] \in {"burn", "render", "served"} /\ token_record[p].token = t}

AdmittedBoundedByThreads ==
  \A t \in Tokens : Cardinality(Admitted(t)) <= Workers

IInv ==
  /\ TypeOK
  /\ \A p \in Loaders : LoaderControl(p)
  /\ \A p \in Bootstrappers : pc[p] \in {"idle", "done"}
  /\ \A p \in Downloaders : DownloadControl(p)
  /\ AdmittedBoundedByThreads

=============================================================================
